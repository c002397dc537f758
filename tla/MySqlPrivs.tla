----------------------------- MODULE MySqlPrivs -----------------------------
(***************************************************************************)
(* Privileges on a MySQL server (dbservers/mysql/privileges.go and the     *)
(* parts of connection.go that deal with users).                           *)
(*                                                                         *)
(* What the user holds is a set of pairs <<object, privilege>>; an object  *)
(* is a scope (<<"*", "*">>, <<"d", "*">>, <<"d", "t">>) or a column       *)
(* (<<"d", "t", "c">>).  A piece of a privilege list is a record           *)
(*   name   the privilege                                                  *)
(*   cols   its columns; none: the whole scope                             *)
(*   typed  a column list as users must write it, "SELECT(A,B)": the one   *)
(*          read back is "SELECT (A, B)", and the two are compared as text *)
(* An entry of spec.db_privs is a record with scope and privs (pieces).    *)
(***************************************************************************)
EXTENDS Naturals, Sequences, FiniteSets

CONSTANT PrivOrder  \* privileges, in the order SHOW GRANTS lists them

Plain(name)       == [name |-> name, cols |-> {}, typed |-> FALSE]
Typed(name, cols) == [name |-> name, cols |-> cols, typed |-> TRUE]
Shown(name, cols) == [name |-> name, cols |-> cols, typed |-> FALSE]

VALID_PRIVS == {PrivOrder[i] : i \in DOMAIN PrivOrder} \cup {"ALL", "GRANT", "USAGE"}

Global == <<"*", "*">>

-----------------------------------------------------------------------------
(* What is read back.                                                      *)

(* A row of SHOW GRANTS: the privileges of a scope in the server's order,  *)
(* for each the one on the whole scope before the one on columns.          *)
ShowGrants(scope, held) ==
    LET whole(p) == IF <<scope, p>> \in held THEN <<Plain(p)>> ELSE <<>>
        cols(p)  == {f[1][3] : f \in {g \in held : /\ Len(g[1]) = 3 /\ g[2] = p
                                                   /\ SubSeq(g[1], 1, 2) = scope}}
        some(p)  == IF cols(p) = {} THEN <<>> ELSE <<Shown(p, cols(p))>>
        upTo[n \in 0..Len(PrivOrder)] ==
            IF n = 0 THEN <<>>
            ELSE upTo[n - 1] \o whole(PrivOrder[n]) \o some(PrivOrder[n])
    IN  CASE <<scope, "ALL">> \in held -> <<Plain("ALL")>>
          [] <<scope, "ALL">> \notin held /\ upTo[Len(PrivOrder)] = <<>> -> <<Plain("USAGE")>>
          [] OTHER -> upTo[Len(PrivOrder)]

PanicRow == <<Plain("panic")>>

(* handleGrantOnCol for the column grant of one privilege.  The pieces     *)
(* before it are lost (copy into an empty slice); a list of one column,    *)
(* which was never split at a comma, is an index out of range.             *)
handleGrantOnCol(row, grant) ==
    LET at == {i \in DOMAIN row : row[i].name = grant /\ row[i].cols # {}}
    IN  IF at = {} THEN row
        ELSE LET i == CHOOSE j \in at : TRUE
             IN  IF Cardinality(row[i].cols) = 1 THEN PanicRow ELSE SubSeq(row, i, Len(row))

normalizeColGrants(row) ==
    handleGrantOnCol(handleGrantOnCol(handleGrantOnCol(handleGrantOnCol(
        row, "SELECT"), "UPDATE"), "INSERT"), "REFERENCES")

ScopesHeld(held) == {Global} \cup {SubSeq(f[1], 1, 2) : f \in held}

getPrivileges(held) == [s \in ScopesHeld(held) |-> normalizeColGrants(ShowGrants(s, held))]

-----------------------------------------------------------------------------
(* What is wanted.                                                         *)

(* server_privs count as one more entry, on *.*.                           *)
AllPrivs(spec) ==
    IF spec.server = {} THEN spec.entries
    ELSE Append(spec.entries, [scope |-> Global, privs |-> spec.server])

Valid(entries) == \A i \in DOMAIN entries : \A p \in entries[i].privs : p.name \in VALID_PRIVS

(* The last entry of a scope counts; *.* is always there.                  *)
privilegesUnpack(entries) ==
    LET scopes  == {entries[i].scope : i \in DOMAIN entries}
        last(s) == CHOOSE i \in DOMAIN entries :
                       /\ entries[i].scope = s
                       /\ \A j \in DOMAIN entries : entries[j].scope = s => j <= i
    IN  [s \in scopes \cup {Global} |->
            IF s \in scopes THEN entries[last(s)].privs ELSE {Plain("USAGE")}]

-----------------------------------------------------------------------------
(* Statements.                                                             *)

Statement(op, scope, pieces) == [op |-> op, scope |-> scope, pieces |-> pieces]

(* The orders in which a Go map may be walked.                             *)
Orders(S) == {f \in [1..Cardinality(S) -> S] : \A s \in S : \E i \in DOMAIN f : f[i] = s}

(* The pieces of m for the scope s, and none if it has no such scope.      *)
At(m, s) == IF s \in DOMAIN m THEN m[s] ELSE {}

(* What m holds beyond n, scope by scope.                                  *)
Beyond(op, m, n) ==
    {st \in {Statement(op, s, m[s] \ At(n, s)) : s \in DOMAIN m} : st.pieces # {}}

(* All sequences of statements one call may issue: first what is too much  *)
(* is revoked, scope by scope, then what is missing is granted.            *)
UpdateUserPrivs(spec, held) ==
    LET found == getPrivileges(held)
        cur   == [s \in DOMAIN found |-> {found[s][i] : i \in DOMAIN found[s]}]
        want  == privilegesUnpack(AllPrivs(spec))
    IN  CASE \E s \in DOMAIN found : found[s] = PanicRow -> {<<[op |-> "panic"]>>}
          [] (\A s \in DOMAIN found : found[s] # PanicRow) /\ ~Valid(AllPrivs(spec)) ->
               {<<[op |-> "reject"]>>}
          [] OTHER -> {r \o g : r \in Orders(Beyond("revoke", cur, want)),
                                g \in Orders(Beyond("grant", want, cur))}

DropUser(spec) == IF spec.opts # {} THEN <<[op |-> "reject"]>> ELSE <<[op |-> "dropUser"]>>

-----------------------------------------------------------------------------
(* The server.                                                             *)

(* What a list of pieces stands for on a scope.                            *)
Facts(scope, pieces) ==
    (UNION {IF p.cols = {} THEN {<<scope, p.name>>}
            ELSE {<<Append(scope, c), p.name>> : c \in p.cols} : p \in pieces})
    \ {<<scope, "USAGE">>}

(* "GRANT ... ; WITH GRANT OPTION" is not a statement.                     *)
Refuses(stmt) == stmt.op = "grant" /\ \E p \in stmt.pieces : p.name = "GRANT"

(* A REVOKE on the whole table takes the columns along.                    *)
Executed(stmt, held) ==
    CASE stmt.op = "grant"  -> held \cup Facts(stmt.scope, stmt.pieces)
      [] stmt.op = "revoke" ->
           held \ (Facts(stmt.scope, stmt.pieces) \cup
                   {f \in held : /\ SubSeq(f[1], 1, 2) = stmt.scope
                                 /\ \E p \in stmt.pieces : p.cols = {} /\ p.name = f[2]})
      [] OTHER -> {}

-----------------------------------------------------------------------------
(* What a spec means, for the properties.                                  *)

Wanted(spec) ==
    LET want == privilegesUnpack(AllPrivs(spec))
    IN  UNION {Facts(s, want[s]) : s \in DOMAIN want}

(* The spec asks for what the code can keep: no column lists, which the    *)
(* normalisation confuses, and no grant option.                            *)
Keepable(spec) ==
    /\ Valid(AllPrivs(spec))
    /\ \A i \in DOMAIN spec.entries : \A p \in spec.entries[i].privs :
           p.cols = {} /\ p.name # "GRANT"
=============================================================================
