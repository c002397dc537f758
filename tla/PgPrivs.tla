------------------------------ MODULE PgPrivs -------------------------------
(***************************************************************************)
(* Privileges on a PostgreSQL or CockroachDB server                        *)
(* (dbservers/postgres/privileges.go, *_privs.go, privs_reconciler.go and  *)
(* the parts of connection.go that deal with users): what a User CR asks   *)
(* for, what is read back, and the statements that close the gap.          *)
(*                                                                         *)
(* What the role holds is a set of pairs <<object, privilege>>.  Objects:  *)
(*   <<"database", d>>, <<"schema", s>>, <<"table", s, t>>,                *)
(*   <<"default", g>>   default privileges on the tables g will create     *)
(*   <<"owned">>        what the role itself has created                   *)
(* An entry of spec.db_privs is a record with privType, scope (its parts   *)
(* between the dots), table (the parts of N if privs is "N:..."), privs and*)
(* defaultPrivs (sets of upper-case tokens), slash and grantor ("": none). *)
(***************************************************************************)
EXTENDS Naturals, Sequences

CONSTANTS
    Database,    \* the database the entries speak of
    Schemas,     \* its schemas, as GetSchemas lists them
    PublicPrivs  \* what every role holds through PUBLIC: pairs as above

TablePrivs == {"SELECT", "INSERT", "UPDATE", "DELETE", "TRUNCATE", "REFERENCES", "TRIGGER"}

FLAGS == {"SUPERUSER", "CREATEROLE", "CREATEDB", "INHERIT", "LOGIN", "REPLICATION"}

-----------------------------------------------------------------------------
(* From an entry to what it asks for.                                      *)

GetValidPrivs(product, privType) ==
    CASE privType = "database" ->
           {"CREATE", "CONNECT", "ALL"} \cup
           (IF product = "PostgreSQL" THEN {"TEMPORARY", "TEMP"} ELSE {"BACKUP", "RESTORE"})
      [] privType = "table" ->
           TablePrivs \cup {"ALL"} \cup (IF product = "PostgreSQL" THEN {} ELSE {"BACKUP"})
      [] privType = "schema" -> {"CREATE", "USAGE"}
      [] OTHER -> {}

(* "ALL" stands for what is valid for the type; of "defaultTable" nothing  *)
(* is, so there it stands for nothing.                                     *)
NormalizePrivileges(product, privType, privs) ==
    LET all == IF "ALL" \in privs
               THEN (privs \cup GetValidPrivs(product, privType)) \ {"ALL"}
               ELSE privs
    IN  IF "TEMP" \in all THEN (all \ {"TEMP"}) \cup {"TEMPORARY"} ELSE all

(* What a PrivsReconciler works on.                                        *)
Target(type, name, privs) == [type |-> type, name |-> name, privs |-> privs]

Rejected == Target("rejected", <<>>, {})

(* GetScopeAfterDb: exactly one part may follow the database.              *)
InDb(type, e, privs) ==
    IF Len(e.scope) = 2 THEN Target(type, <<e.scope[2]>>, privs) ELSE Rejected

TypedDbPriv(e) ==
    CASE e.defaultPrivs # {} -> Rejected
      [] e.defaultPrivs = {} /\ e.privType = "defaultTable" ->
           Target("defaultTable", <<e.grantor>>, e.privs)
      [] e.defaultPrivs = {} /\ e.privType = "schema" -> InDb("schema", e, e.privs)
      [] OTHER -> Target(e.privType, e.scope, e.privs)

UntypedDbPriv(e) ==
    CASE e.privs # {} /\ e.table # <<>> -> Target("table", e.table, e.privs)
      [] e.privs # {} /\ e.table = <<>> /\ Len(e.scope) > 1 -> InDb("schema", e, e.privs)
      [] e.privs # {} /\ e.table = <<>> /\ Len(e.scope) = 1 -> Target("database", e.scope, e.privs)
      [] e.privs = {} /\ e.defaultPrivs # {} ->
           IF InDb("", e, {}).name = <<"TABLES">>
           THEN Target("defaultTable", <<e.grantor>>, e.defaultPrivs)
           ELSE Rejected
      [] OTHER -> Rejected

normalizeDbPriv(e) == IF e.privType # "" THEN TypedDbPriv(e) ELSE UntypedDbPriv(e)

(* "d.s.ALL" is every table of the schema s; "d.ALL" is refused.           *)
NewTablePrivsReconciler(name, privs) ==
    LET front == SubSeq(name, 1, Len(name) - 1)
    IN  CASE Len(name) < 2 \/ name[Len(name)] # "ALL" -> Target("table", name, privs)
          [] Len(name) = 2 /\ name[Len(name)] = "ALL" -> Rejected
          [] OTHER -> Target("allTables", Tail(front), privs)

GetPrivsReconciler(product, e) ==
    LET t     == normalizeDbPriv(e)
        plain == IF t.type = "defaultTable" THEN "table" ELSE t.type
        privs == NormalizePrivileges(product, t.type, t.privs)
    IN  CASE \/ e.privs # {} /\ e.defaultPrivs # {}
             \/ e.slash
             \/ e.privType # "" /\ e.table # <<>>
             \/ ~(t.privs \subseteq GetValidPrivs(product, plain))
             \/ t.type \notin {"table", "defaultTable", "database", "schema"} -> Rejected
          [] OTHER -> IF t.type = "table" THEN NewTablePrivsReconciler(t.name, privs)
                                          ELSE Target(t.type, t.name, privs)

-----------------------------------------------------------------------------
(* What is read back.                                                      *)

Objects(t, tables) ==
    CASE t.type = "database"     -> {<<"database">> \o t.name}
      [] t.type = "schema"       -> {<<"schema">> \o t.name}
      [] t.type = "table"        -> {<<"table", "public">> \o t.name}
      [] t.type = "allTables"    -> {o \in tables : <<o[2]>> = t.name}
      [] t.type = "defaultTable" -> {<<"default">> \o t.name}
      [] OTHER                   -> {}

PrivsOn(objects, held) == {f[2] : f \in {g \in held : g[1] \in objects}}

(* has_schema_privilege also counts what PUBLIC holds.                     *)
getSchemaPrivileges(objects, held) ==
    PrivsOn(objects, held \cup PublicPrivs) \cap {"CREATE", "USAGE"}

(* Of the wanted privileges those no table lacks, so nothing is ever found *)
(* to be too much.                                                         *)
getTablePrivilegesForAllTables(objects, held, privs) ==
    {p \in privs : \A o \in objects : <<o, p>> \in held \cup PublicPrivs}

(* Four of the seven privileges are read.                                  *)
getDefaultPrivilegesGivenByCurrentUser(objects, held) ==
    PrivsOn(objects, held) \cap {"INSERT", "SELECT", "UPDATE", "DELETE"}

(* The privsGetFun of each reconciler.  Databases and single tables: what  *)
(* the role itself was given.                                              *)
PrivsGet(t, held, tables) ==
    LET objects == Objects(t, tables)
    IN  CASE t.type = "schema"       -> getSchemaPrivileges(objects, held)
          [] t.type = "allTables"    -> getTablePrivilegesForAllTables(objects, held, t.privs)
          [] t.type = "defaultTable" -> getDefaultPrivilegesGivenByCurrentUser(objects, held)
          [] OTHER                   -> PrivsOn(objects, held)

-----------------------------------------------------------------------------
(* Statements, and other items of work on them: an entry still to be       *)
(* looked at, an error to return, a panic.                                 *)

Statement(op, t, privs) == [op |-> op, target |-> [t EXCEPT !.privs = privs]]

StatementIfAny(op, t, privs) == IF privs = {} THEN <<>> ELSE <<Statement(op, t, privs)>>

Reject == [op |-> "reject"]
Panic  == [op |-> "panic"]

(* getTablePrivileges: SplitN(table, ".", 1) has no second part.           *)
Unreadable(t) == t.type = "table" /\ Len(t.name) > 1

(* Faulty: everything is taken away before what is wanted is granted.      *)
ReconcileFromScratch(t, held, tables) ==
    LET cur == PrivsGet(t, held, tables)
    IN  CASE t.type = "rejected" -> <<Reject>>
          [] Unreadable(t) -> <<Panic>>
          [] OTHER -> StatementIfAny("revoke", t, cur) \o StatementIfAny("grant", t, t.privs)

(* Faulty: what is too much stays.                                         *)
ReconcileOnlyGrants(t, held, tables) ==
    CASE t.type = "rejected" -> <<Reject>>
      [] Unreadable(t) -> <<Panic>>
      [] OTHER -> StatementIfAny("grant", t, t.privs \ PrivsGet(t, held, tables))

(* The difference between what is read and what is wanted.                 *)
ReconcilePrivs(t, held, tables) ==
    LET cur == PrivsGet(t, held, tables)
    IN  CASE t.type = "rejected" -> <<Reject>>
          [] Unreadable(t) -> <<Panic>>
          [] OTHER -> StatementIfAny("revoke", t, cur \ t.privs)
                      \o StatementIfAny("grant", t, t.privs \ cur)

(* REVOKE ALL on the tables of every schema.                               *)
revokeDefaultedPrivs ==
    [i \in DOMAIN Schemas |->
        Statement("revoke", Target("allTables", <<Schemas[i]>>, {}), TablePrivs)]

(* RevokeAllDbPrivs, one entry: what the entry asks for is revoked, which  *)
(* need not be what the role holds.                                        *)
RevokeAllPrivs(t) ==
    CASE t.type = "rejected" -> <<Reject>>
      [] t.type = "defaultTable" -> revokeDefaultedPrivs \o <<Statement("revoke", t, t.privs)>>
      [] OTHER -> <<Statement("revoke", t, t.privs)>>

(* server_privs as the sets of flags X and NOX.  A flag NOX is looked up   *)
(* under a column that does not exist, hence always differs.               *)
AlterUser(srv, flags) ==
    CASE ~((srv.on \cup srv.off) \subseteq FLAGS) -> <<Reject>>
      [] srv.off # {} \/ ~(srv.on \subseteq flags) ->
           <<[op |-> "alter", on |-> srv.on, off |-> srv.off]>>
      [] OTHER -> <<>>

ForEach(op, entries) == [i \in DOMAIN entries |-> [op |-> op, entry |-> entries[i]]]

UpdateUserPrivs(spec, flags) == AlterUser(spec.srv, flags) \o ForEach("reconcile", spec.entries)

(* What an item that speaks of an entry turns into once its turn comes.    *)
Expand(item, product, held, tables) ==
    LET t == GetPrivsReconciler(product, item.entry)
    IN  IF item.op = "reconcile" THEN ReconcilePrivs(t, held, tables) ELSE RevokeAllPrivs(t)

(* Faulty: the role is dropped before its privileges are revoked.          *)
DropUserFirst(spec, held) ==
    <<[op |-> "dropUser"]>> \o
    (IF "revoke" \in spec.opts THEN ForEach("revokeEntry", spec.entries) ELSE <<>>)

(* DROP OWNED runs in every database the role can connect to; REASSIGN     *)
(* OWNED only in the one the operator is connected to.                     *)
DropUser(spec, held) ==
    IF {"owned", "reassign"} \subseteq spec.opts THEN <<Reject>>
    ELSE (IF /\ "owned" \in spec.opts
             /\ "CONNECT" \in PrivsOn({<<"database", Database>>}, held \cup PublicPrivs)
          THEN <<[op |-> "dropOwned"]>> ELSE <<>>)
         \o (IF "reassign" \in spec.opts THEN <<[op |-> "reassign"]>> ELSE <<>>)
         \o (IF "revoke" \in spec.opts THEN ForEach("revokeEntry", spec.entries) ELSE <<>>)
         \o <<[op |-> "dropUser"]>>

-----------------------------------------------------------------------------
(* The server.                                                             *)

IsSchema(name) == \E i \in DOMAIN Schemas : <<Schemas[i]>> = name

(* Statements the server refuses: an empty list of privileges, an object   *)
(* that does not exist, and DROP USER for a role something depends on.     *)
Refuses(stmt, held, tables) ==
    CASE stmt.op \in {"grant", "revoke"} ->
           LET t == stmt.target
           IN  \/ t.privs = {}
               \/ t.type = "table" /\ ~(Objects(t, tables) \subseteq tables)
               \/ t.type \in {"schema", "allTables"} /\ ~IsSchema(t.name)
               \/ t.type = "defaultTable" /\ t.name = <<"">>
      [] stmt.op = "dropUser" -> held # {}
      [] OTHER -> FALSE

(* What the role holds afterwards.                                         *)
Executed(stmt, held, tables) ==
    CASE stmt.op = "grant"  -> held \cup (Objects(stmt.target, tables) \X stmt.target.privs)
      [] stmt.op = "revoke" -> held \ (Objects(stmt.target, tables) \X stmt.target.privs)
      [] stmt.op \in {"dropOwned", "dropUser"} -> {}
      [] OTHER -> held

-----------------------------------------------------------------------------
(* What a spec means, for the properties.                                  *)

TargetsOf(product, spec) ==
    {GetPrivsReconciler(product, spec.entries[i]) : i \in DOMAIN spec.entries}

(* Every wanted privilege is there, and where an entry owns the list of    *)
(* privileges of its object, no other is.                                  *)
Conforms(product, spec, held, flags, tables) ==
    /\ spec.srv.on \subseteq flags /\ spec.srv.off \cap flags = {}
    /\ \A t \in TargetsOf(product, spec) :
           /\ Objects(t, tables) \X t.privs \subseteq held \cup PublicPrivs
           /\ t.type # "allTables" => PrivsOn(Objects(t, tables), held) \subseteq t.privs

Wanted(product, spec, tables) ==
    UNION {Objects(t, tables) \X t.privs : t \in TargetsOf(product, spec)}

(* DropUser cannot succeed: it contradicts itself, it asks for a REVOKE the*)
(* server refuses, or the role holds something it does not take away.      *)
CannotDrop(product, spec, held, tables) ==
    LET revoked == IF "revoke" \in spec.opts THEN TargetsOf(product, spec) ELSE {}
        covered == Wanted(product, spec, tables) \cup
                   {f \in held : /\ f[1] \in tables
                                 /\ \E t \in revoked : t.type = "defaultTable"}
    IN  \/ {"owned", "reassign"} \subseteq spec.opts
        \/ \E t \in revoked : Refuses(Statement("revoke", t, t.privs), held, tables)
                              \/ t.type = "rejected"
        \/ /\ "owned" \notin spec.opts
           /\ held \ (IF revoked = {} THEN {} ELSE covered) # {}
=============================================================================
