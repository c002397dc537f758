------------------------ MODULE UserControllerProofs ------------------------
(***************************************************************************)
(* What UserController guarantees for all products, specs, privileges and  *)
(* bounds: role and Secret have one password, the role of a claimed CR     *)
(* exists, and that of a released one is gone.                             *)
(***************************************************************************)
EXTENDS UserController, RecoProofs, FiniteSetTheorems, TLAPS

(* A reconcile that generates a Secret or sends CREATE USER has found no   *)
(* role.                                                                   *)
NoRoleYet == step \in {"generateSecret", "createUser"} => role = NoRole

(* A Secret is generated only when neither the API server nor the cache    *)
(* shows one, so a cache that lags shows the Secret or none.               *)
CacheShowsTheSecret == secret # NoSecret /\ secretCached # NoSecret => secret = secretCached

PasswordInv == NoRoleYet /\ CacheShowsTheSecret /\ PasswordAgrees

LEMMA PasswordInvInit == Init => PasswordInv
  BY DEF Init, PasswordInv, NoRoleYet, CacheShowsTheSecret, PasswordAgrees, NoRole, NoSecret

(* Steps that leave role and Secrets alone and do not start a creation.    *)
LEMMA NothingOfPasswords ==
  ASSUME PasswordInv, UNCHANGED <<role, secretVars>>,
         step' \in {"generateSecret", "createUser"} => step' = step
  PROVE  PasswordInv'
  BY DEF PasswordInv, NoRoleYet, CacheShowsTheSecret, PasswordAgrees, secretVars

(* No way out of UpdateUserPrivs or DropUser leads to a creation.          *)
LEMMA ProceedAndReturn ==
  ASSUME NEW rest, NEW change, NEW again, Proceed(rest, change) \/ Return(again)
  PROVE  step' \in {"generateSecret", "createUser"} => step' = step
  BY DEF Proceed, Return

LEMMA PasswordInvStep == PasswordInv /\ [Next]_vars => PasswordInv'
<1> SUFFICES ASSUME PasswordInv, [Next]_vars PROVE PasswordInv'
  OBVIOUS
<1> USE DEF NoRole, NoSecret
<1>1. CASE LoadCR
  BY <1>1, NothingOfPasswords DEF LoadCR, roleVars
<1>2. CASE LoadObj
  <2>1. UNCHANGED <<role, secretVars>>
    BY <1>2 DEF LoadObj, roleVars
  <2>2. step' \in {"generateSecret", "createUser"} => role = NoRole
    BY <1>2 DEF LoadObj, Goto, Return, Dispatch
  <2> QED
    BY <2>1, <2>2 DEF PasswordInv, NoRoleYet, CacheShowsTheSecret, PasswordAgrees, secretVars
<1>3. CASE LoadObjFails
  BY <1>3, NothingOfPasswords DEF LoadObjFails, Return, roleVars
<1>4. CASE GenerateSecret
  BY <1>4 DEF GenerateSecret, Goto, Return, roleVars, PasswordInv, NoRoleYet,
              CacheShowsTheSecret, PasswordAgrees
<1>5. CASE GenerateSecretFails
  BY <1>5 DEF GenerateSecretFails, Return, roleVars, PasswordInv, NoRoleYet,
              CacheShowsTheSecret, PasswordAgrees
<1>6. CASE CreateUser
  BY <1>6 DEF CreateUser, RoleCreated, Goto, Return, roleVars, secretVars, PasswordInv, NoRoleYet,
              CacheShowsTheSecret, PasswordAgrees
<1>7. CASE CreateUserFails
  BY <1>7 DEF CreateUserFails, RoleCreated, Return, roleVars, secretVars, PasswordInv, NoRoleYet,
              CacheShowsTheSecret, PasswordAgrees
<1>8. CASE NotifyChanges
  <2>1. role' = role /\ secret' = secret /\ secretCached' \in {secret, secretCached}
    BY <1>8 DEF NotifyChanges, StartAgain, roleVars
  <2>2. step' \notin {"generateSecret", "createUser"}
    BY <1>8 DEF NotifyChanges, StartAgain, Goto, AfterNotify
  <2> QED
    BY <2>1, <2>2 DEF PasswordInv, NoRoleYet, CacheShowsTheSecret, PasswordAgrees
<1>9. CASE Begin
  <2>1. UNCHANGED <<role, secretVars>>
    BY <1>9 DEF Begin, roleVars
  <2>2. PICK plan \in Plans : Proceed(plan, FALSE)
    BY <1>9 DEF Begin
  <2> QED
    BY <2>1, <2>2, ProceedAndReturn, NothingOfPasswords
<1>10. CASE NextEntry
  <2>1. UNCHANGED <<role, secretVars>>
    BY <1>10 DEF NextEntry, roleVars
  <2> QED
    BY <1>10, <2>1, ProceedAndReturn, NothingOfPasswords DEF NextEntry
<1>11. CASE GiveUp
  <2>1. role' = role /\ secret' = secret /\ secretCached' \in {secret, secretCached}
    BY <1>11 DEF GiveUp, StartAgain, roleVars
  <2>2. step' \notin {"generateSecret", "createUser"}
    BY <1>11 DEF GiveUp, StartAgain, Return
  <2> QED
    BY <2>1, <2>2 DEF PasswordInv, NoRoleYet, CacheShowsTheSecret, PasswordAgrees
<1>12. CASE Execute
  <2>1. UNCHANGED secretVars /\ role' \in {role, NoRole}
    BY <1>12 DEF Execute, Effect, roleVars
  <2>2. step' \in {"generateSecret", "createUser"} => step' = step
    BY <1>12, ProceedAndReturn DEF Execute
  <2> QED
    BY <2>1, <2>2 DEF PasswordInv, NoRoleYet, CacheShowsTheSecret, PasswordAgrees, secretVars
<1>13. CASE ExecuteFails
  <2>1. UNCHANGED secretVars /\ role' \in {role, NoRole}
    BY <1>13 DEF ExecuteFails, Effect, roleVars
  <2>2. step' \in {"generateSecret", "createUser"} => step' = step
    BY <1>13, ProceedAndReturn DEF ExecuteFails
  <2> QED
    BY <2>1, <2>2 DEF PasswordInv, NoRoleYet, CacheShowsTheSecret, PasswordAgrees, secretVars
<1>14. CASE EnsureFinalizer \/ EnsureFinalizerFails \/ RemoveFinalizer \/ RemoveFinalizerFails
  <2>1. UNCHANGED <<role, secretVars>>
    BY <1>14 DEF EnsureFinalizer, EnsureFinalizerFails, RemoveFinalizer, RemoveFinalizerFails, roleVars
  <2>2. step' = "idle"
    BY <1>14 DEF EnsureFinalizer, EnsureFinalizerFails, RemoveFinalizer, RemoveFinalizerFails, Return
  <2> QED
    BY <2>1, <2>2, NothingOfPasswords
<1>15. CASE Restart
  BY <1>15 DEF Restart, StartAgain, roleVars, PasswordInv, NoRoleYet, CacheShowsTheSecret,
               PasswordAgrees
<1>16. CASE SecretEvent \/ SecretDeleted
  BY <1>16 DEF SecretEvent, SecretDeleted, reconcileVars, roleVars, PasswordInv, NoRoleYet,
               CacheShowsTheSecret, PasswordAgrees
<1>17. CASE UserCreates \/ UserDeletes \/ UserEdits \/ WatchEvent \/ Resync
  <2>1. UNCHANGED <<role, secretVars, step>>
    BY <1>17 DEF UserCreates, UserDeletes, UserEdits, WatchEvent, Resync, roleVars, reconcileVars
  <2> QED
    BY <2>1, NothingOfPasswords
<1>18. CASE ParentsComeAndGo \/ ChangeByHand \/ CreateTable \/ RoleCreatesObject
  <2>1. UNCHANGED <<role, secretVars, step>>
    BY <1>18 DEF ParentsComeAndGo, ChangeByHand, CreateTable, RoleCreatesObject, roleVars,
                 reconcileVars
  <2> QED
    BY <2>1, NothingOfPasswords
<1>19. CASE UNCHANGED vars
  BY <1>19, NothingOfPasswords DEF vars, secretVars
<1> QED
  BY <1>1, <1>2, <1>3, <1>4, <1>5, <1>6, <1>7, <1>8, <1>9, <1>10, <1>11, <1>12, <1>13, <1>14,
     <1>15, <1>16, <1>17, <1>18, <1>19 DEF Next, Reconcile, Environment

(* The password in the Secret and the one of the role never differ, for    *)
(* every product, spec and bound.  (generateSecret, CreateUser.)           *)
THEOREM PasswordAgreesHolds == Spec => []PasswordAgrees
<1>1. PasswordInv => PasswordAgrees
  BY DEF PasswordInv
<1> QED
  BY PasswordInvInit, PasswordInvStep, <1>1, PTL DEF Spec

-----------------------------------------------------------------------------
(* Finite sets.                                                            *)

LEMMA ImageIsFinite ==
  ASSUME NEW f, IsFiniteSet(DOMAIN f)
  PROVE  IsFiniteSet({f[x] : x \in DOMAIN f})
<1> DEFINE S == DOMAIN f
           T == {f[x] : x \in DOMAIN f}
           g == [x \in S |-> f[x]]
<1>1. g \in Surjection(S, T)
  BY DEF Surjection
<1> QED
  BY <1>1, FS_Surjection

LEMMA FiniteSeq ==
  ASSUME NEW S, NEW t \in Seq(S)
  PROVE  IsFiniteSet(DOMAIN t)
<1>1. DOMAIN t = 1..Len(t) /\ Len(t) \in Nat
  OBVIOUS
<1> QED
  BY <1>1, FS_Interval

(* Of the tails of a finite set of numbers one is the smallest.            *)
LEMMA LargestExists ==
  ASSUME NEW S \in SUBSET Nat, IsFiniteSet(S), S # {}
  PROVE  \E i \in S : \A j \in S : j <= i
<1> DEFINE above(i) == {j \in S : j > i}
           T == {above(i) : i \in S}
           R == StrictSubsetOrdering(S)
<1>1. T \subseteq FiniteSubsetsOf(S)
  <2>1. \A i \in S : above(i) \in SUBSET S
    OBVIOUS
  <2> QED
    BY <2>1, FS_Subset DEF FiniteSubsetsOf
<1>2. IsWellFoundedOn(R, FiniteSubsetsOf(S)) /\ T # {}
  BY FS_StrictSubsetOrderingWellFounded
<1>3. PICK x \in T : \A y \in T : <<y, x>> \notin R
  <2> HIDE DEF R, T
  <2> QED
    BY <1>1, <1>2, WFMin
<1>4. PICK i \in S : x = above(i)
  OBVIOUS
<1>5. ASSUME NEW j \in S, ~(j <= i) PROVE FALSE
  <2>1. j > i /\ ~(j > j) /\ \A k \in S : k > j => k > i
    <3>1. i \in Nat /\ j \in Nat /\ \A k \in S : k \in Nat
      OBVIOUS
    <3> QED
      BY <1>5, <3>1
  <2>2. <<above(j), above(i)>> \in R
    <3>1. j \in above(i) /\ j \notin above(j) /\ above(j) \subseteq above(i)
      BY <2>1
    <3> QED
      BY <3>1 DEF StrictSubsetOrdering
  <2> QED
    BY <1>3, <1>4, <2>2
<1> QED
  BY <1>5

-----------------------------------------------------------------------------
(* Privileges of MySQL: what a spec asks for is finite, hence so is what a *)
(* user holds, and UpdateUserPrivs issues finitely many statements.        *)

FinitePieces(privs) == IsFiniteSet(privs) /\ \A piece \in privs : IsFiniteSet(piece.cols)

LEMMA FactsAreFinite ==
  ASSUME NEW scope, NEW pieces, FinitePieces(pieces)
  PROVE  IsFiniteSet(My!Facts(scope, pieces))
<1> DEFINE of(p) == IF p.cols = {} THEN {<<scope, p.name>>}
                    ELSE {<<Append(scope, c), p.name>> : c \in p.cols}
           f == [p \in pieces |-> of(p)]
           all == {of(p) : p \in pieces}
<1>1. ASSUME NEW p \in pieces PROVE IsFiniteSet(of(p))
  <2> DEFINE g == [c \in p.cols |-> <<Append(scope, c), p.name>>]
  <2>1. IsFiniteSet({<<scope, p.name>>})
    BY FS_Singleton
  <2>2. IsFiniteSet({g[c] : c \in DOMAIN g})
    <3>1. IsFiniteSet(DOMAIN g)
      BY DEF FinitePieces
    <3> HIDE DEF g
    <3> QED
      BY <3>1, ImageIsFinite
  <2>3. {g[c] : c \in DOMAIN g} = {<<Append(scope, c), p.name>> : c \in p.cols}
    OBVIOUS
  <2> QED
    BY <2>1, <2>2, <2>3
<1>2. IsFiniteSet(all)
  <2>1. all = {f[p] : p \in DOMAIN f} /\ IsFiniteSet(DOMAIN f)
    BY DEF FinitePieces
  <2> HIDE DEF f
  <2> QED
    BY <2>1, ImageIsFinite
<1>3. IsFiniteSet(UNION all)
  <2>1. \A T \in all : IsFiniteSet(T)
    BY <1>1
  <2> HIDE DEF all
  <2> QED
    BY <1>2, <2>1, FS_UNION
<1>4. My!Facts(scope, pieces) = (UNION all) \ {<<scope, "USAGE">>}
  BY DEF My!Facts
<1> HIDE DEF all
<1> QED
  BY <1>3, <1>4, FS_Difference

LEMMA AllPrivsAreFinite ==
  ASSUME NEW spec, WellTyped("MySQL", spec)
  PROVE  LET e == My!AllPrivs(spec)
         IN  /\ e \in Seq({e[i] : i \in DOMAIN e})
             /\ \A i \in DOMAIN e : FinitePieces(e[i].privs)
<1> DEFINE e == My!AllPrivs(spec)
           old == {spec.entries[i] : i \in DOMAIN spec.entries}
           new == [scope |-> My!Global, privs |-> spec.server]
<1>1. spec.entries \in Seq(old) /\ FinitePieces(spec.server)
  BY DEF WellTyped, FinitePieces
<1>2. \A i \in DOMAIN spec.entries : FinitePieces(spec.entries[i].privs)
  BY DEF WellTyped, FinitePieces
<1>3. CASE e = spec.entries
  BY <1>1, <1>2, <1>3
<1>4. CASE e = Append(spec.entries, new)
  <2>1. \A x \in old \cup {new} : FinitePieces(x.privs)
    BY <1>1, <1>2
  <2>2. \A s : s \in Seq(old) => Append(s, new) \in Seq(old \cup {new})
    OBVIOUS
  <2>3. e \in Seq(old \cup {new})
    BY <1>1, <1>4, <2>2
  <2> HIDE DEF e, old, new
  <2>4. e \in Seq({e[i] : i \in DOMAIN e}) /\ \A i \in DOMAIN e : e[i] \in old \cup {new}
    BY <2>3
  <2> QED
    BY <2>1, <2>4 DEF e
<1>5. e = spec.entries \/ e = Append(spec.entries, new)
  BY DEF My!AllPrivs
<1> QED
  BY <1>3, <1>4, <1>5

LEMMA WantIsFinite ==
  ASSUME NEW E, NEW e \in Seq(E), \A i \in DOMAIN e : FinitePieces(e[i].privs)
  PROVE  LET want == My!privilegesUnpack(e)
         IN  IsFiniteSet(DOMAIN want) /\ \A s \in DOMAIN want : FinitePieces(want[s])
<1> DEFINE scopes == {e[i].scope : i \in DOMAIN e}
           at(s) == {i \in DOMAIN e : e[i].scope = s}
           last(s) == CHOOSE i \in DOMAIN e :
                         e[i].scope = s /\ \A j \in DOMAIN e : e[j].scope = s => j <= i
           want == My!privilegesUnpack(e)
<1>1. DOMAIN e \subseteq Nat /\ IsFiniteSet(DOMAIN e)
  BY FiniteSeq
<1>2. ASSUME NEW s \in scopes PROVE last(s) \in DOMAIN e
  <2>1. at(s) \in SUBSET Nat /\ at(s) # {} /\ at(s) \in SUBSET (DOMAIN e)
    BY <1>1
  <2>2. IsFiniteSet(at(s))
    BY <1>1, <2>1, FS_Subset
  <2>3. PICK i \in at(s) : \A j \in at(s) : j <= i
    <3> HIDE DEF at
    <3> QED
      BY <2>1, <2>2, LargestExists
  <2>4. i \in DOMAIN e /\ e[i].scope = s /\ \A j \in DOMAIN e : e[j].scope = s => j <= i
    BY <2>3
  <2> QED
    BY <2>4
<1>3. IsFiniteSet(scopes \cup {My!Global})
  <2> DEFINE f == [i \in DOMAIN e |-> e[i].scope]
  <2>1. scopes = {f[i] : i \in DOMAIN f} /\ IsFiniteSet(DOMAIN f)
    BY <1>1
  <2>2. IsFiniteSet(scopes)
    <3> HIDE DEF f, scopes
    <3> QED
      BY <2>1, ImageIsFinite
  <2> QED
    BY <2>2, FS_AddElement
<1>4. want = [s \in scopes \cup {My!Global} |->
                 IF s \in scopes THEN e[last(s)].privs ELSE {My!Plain("USAGE")}]
  BY DEF My!privilegesUnpack
<1>5. FinitePieces({My!Plain("USAGE")})
  <2>1. My!Plain("USAGE").cols = {}
    BY DEF My!Plain
  <2> QED
    BY <2>1, FS_EmptySet, FS_Singleton DEF FinitePieces
<1> HIDE DEF last, scopes, want
<1> QED
  BY <1>2, <1>3, <1>4, <1>5 DEF want

LEMMA OrdersAreSequences ==
  ASSUME NEW S, IsFiniteSet(S), NEW o \in My!Orders(S)
  PROVE  o \in Seq(S)
<1>1. Cardinality(S) \in Nat
  BY FS_CardinalityType
<1> DEFINE F == [1..Cardinality(S) -> S]
<1>2. o \in {f \in F : \A s \in S : \E i \in DOMAIN f : f[i] = s}
  <2>1. My!Cardinality(S) = Cardinality(S)
    BY DEF My!Cardinality, Cardinality
  <2> QED
    BY <2>1 DEF My!Orders
<1> HIDE DEF F
<1>3. o \in F
  BY <1>2
<1> QED
  BY <1>1, <1>3 DEF F

-----------------------------------------------------------------------------
(* Items of work.                                                          *)

(* The operations x may be one of; a GRANT to a MySQL user is finite.      *)
Item(x, p, ops) ==
    /\ x.op \in ops
    /\ p = "MySQL" /\ x.op = "grant" => IsFiniteSet(My!Facts(x.scope, x.pieces))

Work(t, p, ops) ==
    /\ t \in Seq({t[i] : i \in DOMAIN t})
    /\ \A i \in DOMAIN t : Item(t[i], p, ops)

LEMMA WorkOfItems ==
  ASSUME NEW S, NEW t \in Seq(S), NEW p, NEW ops, \A x \in S : Item(x, p, ops)
  PROVE  Work(t, p, ops)
  BY DEF Work

LEMMA NoWork ==
  ASSUME NEW p, NEW ops
  PROVE  Work(<<>>, p, ops)
  BY DEF Work

LEMMA OneItem ==
  ASSUME NEW x, NEW p, NEW ops, Item(x, p, ops)
  PROVE  Work(<<x>>, p, ops)
<1> DEFINE S == {x}
           t == <<x>>
<1>1. t \in Seq(S) /\ \A y \in S : Item(y, p, ops)
  OBVIOUS
<1> HIDE DEF S, t
<1>2. Work(t, p, ops)
  BY <1>1, WorkOfItems
<1> QED
  BY <1>2 DEF t

LEMMA WorkTail ==
  ASSUME NEW t, NEW p, NEW ops, Work(t, p, ops), t # <<>>
  PROVE  /\ Work(Tail(t), p, ops) /\ Item(Head(t), p, ops)
         /\ Tail(t) = <<>> => t[Len(t)] = Head(t)
         /\ Tail(t) # <<>> => Tail(t)[Len(Tail(t))] = t[Len(t)]
<1> DEFINE S == {t[i] : i \in DOMAIN t}
<1>1. t \in Seq(S) /\ \A x \in S : Item(x, p, ops)
  BY DEF Work
<1> HIDE DEF S
<1>2. Tail(t) \in Seq(S) /\ Head(t) \in S /\ Len(t) > 0 /\ Len(Tail(t)) = Len(t) - 1
  BY <1>1
<1>3. Work(Tail(t), p, ops) /\ Item(Head(t), p, ops)
  BY <1>1, <1>2, WorkOfItems
<1>4. ASSUME Tail(t) = <<>> PROVE t[Len(t)] = Head(t)
  <2>1. Len(Tail(t)) = 0
    <3>1. Len(<<>>) = 0
      OBVIOUS
    <3> QED
      BY <1>4, <3>1
  <2>2. Len(t) \in Nat
    BY <1>1
  <2>3. Len(t) = 1
    <3> DEFINE n == Len(t)
               m == Len(Tail(t))
    <3>1. n \in Nat /\ m = 0 /\ m = n - 1
      BY <1>2, <2>1, <2>2
    <3> HIDE DEF n, m
    <3>2. n = 1
      BY <3>1
    <3> QED
      BY <3>2 DEF n
  <2> QED
    BY <1>1, <2>3
<1>5. Tail(t) # <<>> => Tail(t)[Len(Tail(t))] = t[Len(t)]
  BY <1>1, <1>2
<1> QED
  BY <1>3, <1>4, <1>5

LEMMA WorkConcat ==
  ASSUME NEW s, NEW t, NEW p, NEW ops, Work(s, p, ops), Work(t, p, ops)
  PROVE  /\ Work(s \o t, p, ops)
         /\ t # <<>> => s \o t # <<>> /\ (s \o t)[Len(s \o t)] = t[Len(t)]
<1> DEFINE S == {s[i] : i \in DOMAIN s} \cup {t[i] : i \in DOMAIN t}
<1>1. s \in Seq(S) /\ t \in Seq(S) /\ \A x \in S : Item(x, p, ops)
  BY DEF Work
<1> HIDE DEF S
<1>2. s \o t \in Seq(S) /\ Len(s \o t) = Len(s) + Len(t)
  BY <1>1
<1>3. Work(s \o t, p, ops)
  BY <1>1, <1>2, WorkOfItems
<1>4. ASSUME t # <<>> PROVE s \o t # <<>> /\ (s \o t)[Len(s \o t)] = t[Len(t)]
  <2>1. Len(t) > 0 /\ Len(t) \in Nat /\ Len(s) \in Nat
    BY <1>1, <1>4
  <2>2. Len(s \o t) > 0 /\ (s \o t)[Len(s) + Len(t)] = t[Len(t)]
    BY <1>1, <1>2, <2>1
  <2> QED
    BY <1>2, <2>2
<1> QED
  BY <1>3, <1>4

-----------------------------------------------------------------------------
(* What UpdateUserPrivs and DropUser plan to do: an update never drops the *)
(* role, and a removal ends with DROP USER or with an error.               *)

UpdateOps(p) ==
    IF p = "MySQL" THEN {"panic", "reject", "revoke", "grant"}
    ELSE {"reconcile", "alter", "grant", "revoke", "reject", "panic"}

RemoveOps(p) ==
    IF p = "MySQL" THEN {"reject", "dropUser"}
    ELSE {"reject", "panic", "revokeEntry", "revoke", "dropOwned", "reassign", "dropUser"}

EndsInDrop(t) == t # <<>> => t[Len(t)].op \in {"dropUser", "reject"}

(* A REVOKE, or a GRANT of something finite, for each of a finite set of   *)
(* scopes, in any order.                                                   *)
LEMMA StatementsAreWork ==
  ASSUME NEW op \in {"revoke", "grant"}, NEW m, NEW n, IsFiniteSet(DOMAIN m),
         op = "grant" => \A s \in DOMAIN m : FinitePieces(m[s]),
         NEW o \in My!Orders(My!Beyond(op, m, n))
  PROVE  Work(o, "MySQL", UpdateOps("MySQL"))
<1> DEFINE stmt(s) == My!Statement(op, s, m[s] \ My!At(n, s))
           f == [s \in DOMAIN m |-> stmt(s)]
           all == {stmt(s) : s \in DOMAIN m}
           some == My!Beyond(op, m, n)
<1>1. IsFiniteSet(all)
  <2>1. all = {f[s] : s \in DOMAIN f} /\ DOMAIN f = DOMAIN m
    OBVIOUS
  <2> HIDE DEF f, all
  <2> QED
    BY <2>1, ImageIsFinite
<1>2. \A x \in all : Item(x, "MySQL", UpdateOps("MySQL"))
  <2>1. ASSUME NEW s \in DOMAIN m PROVE Item(stmt(s), "MySQL", UpdateOps("MySQL"))
    <3> DEFINE x == stmt(s)
               pieces == m[s] \ My!At(n, s)
    <3>1. x.op = op /\ x.scope = s /\ x.pieces = pieces
      BY DEF My!Statement
    <3>2. op = "grant" => FinitePieces(pieces)
      BY FS_Difference DEF FinitePieces
    <3> HIDE DEF x, pieces
    <3>3. op = "grant" => IsFiniteSet(My!Facts(s, pieces))
      BY <3>2, FactsAreFinite
    <3>4. Item(x, "MySQL", UpdateOps("MySQL"))
      BY <3>1, <3>3 DEF Item, UpdateOps
    <3> QED
      BY <3>4 DEF x
  <2> QED
    BY <2>1
<1>3. some \in SUBSET all
  BY DEF My!Beyond
<1> HIDE DEF all, some
<1>4. IsFiniteSet(some)
  BY <1>1, <1>3, FS_Subset
<1>5. o \in Seq(some)
  BY <1>4, OrdersAreSequences DEF some
<1> QED
  BY <1>2, <1>3, <1>5, WorkOfItems

LEMMA ScopesAreFinite ==
  ASSUME NEW held, IsFiniteSet(held)
  PROVE  IsFiniteSet(My!ScopesHeld(held))
<1> DEFINE f == [x \in held |-> SubSeq(x[1], 1, 2)]
           T == {SubSeq(x[1], 1, 2) : x \in held}
<1>1. T = {f[x] : x \in DOMAIN f} /\ DOMAIN f = held
  OBVIOUS
<1>2. My!ScopesHeld(held) = {My!Global} \cup T
  BY DEF My!ScopesHeld
<1> HIDE DEF f, T
<1>3. IsFiniteSet(T)
  BY <1>1, ImageIsFinite
<1>4. My!ScopesHeld(held) = T \cup {My!Global}
  BY <1>2
<1> QED
  BY <1>3, <1>4, FS_AddElement

LEMMA MySqlUpdateIsWork ==
  ASSUME NEW spec, WellTyped("MySQL", spec), NEW held, IsFiniteSet(held),
         NEW plan \in My!UpdateUserPrivs(spec, held)
  PROVE  Work(plan, "MySQL", UpdateOps("MySQL"))
<1> DEFINE ops == UpdateOps("MySQL")
           found == My!getPrivileges(held)
           cur == [s \in DOMAIN found |-> {found[s][i] : i \in DOMAIN found[s]}]
           want == My!privilegesUnpack(My!AllPrivs(spec))
           R == My!Orders(My!Beyond("revoke", cur, want))
           G == My!Orders(My!Beyond("grant", want, cur))
           panics == \E s \in DOMAIN found : found[s] = My!PanicRow
           clean == \A s \in DOMAIN found : found[s] # My!PanicRow
           valid == My!Valid(My!AllPrivs(spec))
<1>1. IsFiniteSet(DOMAIN cur)
  BY ScopesAreFinite DEF My!getPrivileges
<1>2. IsFiniteSet(DOMAIN want) /\ \A s \in DOMAIN want : FinitePieces(want[s])
  <2> DEFINE e == My!AllPrivs(spec)
  <2>1. e \in Seq({e[i] : i \in DOMAIN e}) /\ \A i \in DOMAIN e : FinitePieces(e[i].privs)
    BY AllPrivsAreFinite
  <2> HIDE DEF e
  <2>2. /\ IsFiniteSet(DOMAIN My!privilegesUnpack(e))
        /\ \A s \in DOMAIN My!privilegesUnpack(e) : FinitePieces(My!privilegesUnpack(e)[s])
    BY <2>1, WantIsFinite
  <2> QED
    BY <2>2 DEF e
<1>3. \/ plan = <<[op |-> "panic"]>> \/ plan = <<[op |-> "reject"]>>
      \/ \E r \in R, g \in G : plan = r \o g
  <2>1. My!UpdateUserPrivs(spec, held)
            = CASE panics -> {<<[op |-> "panic"]>>}
                [] clean /\ ~valid -> {<<[op |-> "reject"]>>}
                [] OTHER -> {r \o g : r \in R, g \in G}
    BY DEF My!UpdateUserPrivs
  <2> HIDE DEF R, G, panics, clean, valid
  <2> QED
    BY <2>1
<1>4. ASSUME NEW w \in {"panic", "reject"}, plan = <<[op |-> w]>> PROVE Work(plan, "MySQL", ops)
  <2>1. Item([op |-> w], "MySQL", ops)
    BY DEF Item, UpdateOps
  <2> QED
    BY <1>4, <2>1, OneItem
<1>5. ASSUME NEW r \in R, NEW g \in G, plan = r \o g
      PROVE  Work(plan, "MySQL", ops)
  <2> HIDE DEF cur, want
  <2>1. Work(r, "MySQL", ops)
    BY <1>1, StatementsAreWork
  <2>2. Work(g, "MySQL", ops)
    BY <1>2, StatementsAreWork
  <2> QED
    BY <1>5, <2>1, <2>2, WorkConcat
<1> QED
  BY <1>3, <1>4, <1>5

LEMMA PlainItem ==
  ASSUME NEW p, p # "MySQL", NEW ops, NEW x, x.op \in ops
  PROVE  Item(x, p, ops) /\ Work(<<x>>, p, ops)
<1>1. Item(x, p, ops)
  BY DEF Item
<1> QED
  BY <1>1, OneItem

LEMMA ForEachIsWork ==
  ASSUME NEW p, p # "MySQL", NEW ops, NEW op \in ops, NEW E, NEW e \in Seq(E)
  PROVE  Work(Pg!ForEach(op, e), p, ops)
<1> DEFINE S == {[op |-> op, entry |-> x] : x \in E}
<1>1. Pg!ForEach(op, e) \in Seq(S)
  <2>1. Len(e) \in Nat /\ DOMAIN e = 1..Len(e) /\ \A i \in 1..Len(e) : e[i] \in E
    OBVIOUS
  <2>2. [i \in 1..Len(e) |-> [op |-> op, entry |-> e[i]]] \in Seq(S)
    BY <2>1
  <2> QED
    BY <2>1, <2>2 DEF Pg!ForEach
<1>2. \A x \in S : Item(x, p, ops)
  BY DEF Item
<1> HIDE DEF S
<1> QED
  BY <1>1, <1>2, WorkOfItems

LEMMA PgUpdateIsWork ==
  ASSUME NEW p, p # "MySQL", NEW spec, WellTyped(p, spec), NEW have
  PROVE  Work(Pg!UpdateUserPrivs(spec, have), p, UpdateOps(p))
<1> DEFINE ops == UpdateOps(p)
           alter == Pg!AlterUser(spec.srv, have)
           each == Pg!ForEach("reconcile", spec.entries)
<1>1. Work(each, p, ops)
  <2>1. "reconcile" \in ops
    BY DEF UpdateOps
  <2> HIDE DEF ops
  <2> QED
    BY <2>1, ForEachIsWork DEF WellTyped
<1>2. Work(alter, p, ops)
  <2> DEFINE x == [op |-> "alter", on |-> spec.srv.on, off |-> spec.srv.off]
  <2>1. alter = <<Pg!Reject>> \/ alter = <<x>> \/ alter = <<>>
    BY DEF Pg!AlterUser
  <2>2. Pg!Reject.op \in ops /\ x.op \in ops
    BY DEF UpdateOps, Pg!Reject
  <2> HIDE DEF x, ops, alter
  <2> QED
    BY <2>1, <2>2, PlainItem, NoWork
<1> HIDE DEF alter, each, ops
<1> QED
  BY <1>1, <1>2, WorkConcat DEF Pg!UpdateUserPrivs, alter, each, ops

LEMMA ReconcileIsWork ==
  ASSUME NEW p, p # "MySQL", NEW t, NEW held, NEW objects
  PROVE  Work(Pg!ReconcilePrivs(t, held, objects), p, UpdateOps(p))
<1> DEFINE ops == UpdateOps(p)
<1>1. ASSUME NEW op \in {"grant", "revoke"}, NEW privs
      PROVE  Work(Pg!StatementIfAny(op, t, privs), p, ops)
  <2>1. Pg!Statement(op, t, privs).op \in ops
    BY DEF Pg!Statement, UpdateOps
  <2> HIDE DEF ops
  <2> QED
    BY <2>1, PlainItem, NoWork DEF Pg!StatementIfAny
<1>2. Pg!Reject.op \in ops /\ Pg!Panic.op \in ops
  BY DEF UpdateOps, Pg!Reject, Pg!Panic
<1>3. Work(<<Pg!Reject>>, p, ops) /\ Work(<<Pg!Panic>>, p, ops)
  <2> HIDE DEF ops
  <2> QED
    BY <1>2, PlainItem
<1> HIDE DEF ops
<1>4. \A a, b : Work(Pg!StatementIfAny("revoke", t, a) \o Pg!StatementIfAny("grant", t, b), p, ops)
  BY <1>1, WorkConcat
<1> QED
  BY <1>3, <1>4 DEF Pg!ReconcilePrivs, ops

LEMMA RevokeAllIsWork ==
  ASSUME NEW p, p # "MySQL", NEW t
  PROVE  Work(Pg!RevokeAllPrivs(t), p, RemoveOps(p))
<1> DEFINE ops == RemoveOps(p)
<1>1. \A u, privs : Pg!Statement("revoke", u, privs).op \in ops
  BY DEF Pg!Statement, RemoveOps
<1>2. Pg!Reject.op \in ops
  BY DEF RemoveOps, Pg!Reject
<1> HIDE DEF ops
<1>3. Work(<<Pg!Reject>>, p, ops) /\ Work(<<Pg!Statement("revoke", t, t.privs)>>, p, ops)
  BY <1>1, <1>2, PlainItem
<1>4. Work(Pg!revokeDefaultedPrivs, p, ops)
  <2> DEFINE of(x) == Pg!Statement("revoke", Pg!Target("allTables", <<x>>, {}), Pg!TablePrivs)
             S == {of(x) : x \in STRING}
  <2>1. Len(Schemas) \in Nat /\ DOMAIN Schemas = 1..Len(Schemas)
        /\ \A i \in 1..Len(Schemas) : Schemas[i] \in STRING
    BY SchemasAssumption
  <2>2. Pg!revokeDefaultedPrivs = [i \in 1..Len(Schemas) |-> of(Schemas[i])]
    BY <2>1 DEF Pg!revokeDefaultedPrivs
  <2>3. \A x \in S : Item(x, p, ops)
    BY <1>1, PlainItem
  <2> HIDE DEF of
  <2>4. Pg!revokeDefaultedPrivs \in Seq(S)
    BY <2>1, <2>2
  <2> HIDE DEF S
  <2> QED
    BY <2>3, <2>4, WorkOfItems
<1>5. Work(Pg!revokeDefaultedPrivs \o <<Pg!Statement("revoke", t, t.privs)>>, p, ops)
  BY <1>3, <1>4, WorkConcat
<1> QED
  BY <1>3, <1>5 DEF Pg!RevokeAllPrivs, ops

LEMMA PgDropIsWork ==
  ASSUME NEW p, p # "MySQL", NEW spec, WellTyped(p, spec), NEW held
  PROVE  LET t == Pg!DropUser(spec, held)
         IN  t # <<>> /\ Work(t, p, RemoveOps(p)) /\ EndsInDrop(t)
<1> DEFINE ops == RemoveOps(p)
           t == Pg!DropUser(spec, held)
           last == <<[op |-> "dropUser"]>>
           owned == <<[op |-> "dropOwned"]>>
           reassign == <<[op |-> "reassign"]>>
           each == Pg!ForEach("revokeEntry", spec.entries)
<1>1. /\ [op |-> "dropUser"].op \in ops /\ [op |-> "dropOwned"].op \in ops
      /\ [op |-> "reassign"].op \in ops /\ Pg!Reject.op \in ops /\ "revokeEntry" \in ops
  BY DEF RemoveOps, Pg!Reject
<1>2. last # <<>> /\ last[Len(last)].op = "dropUser"
  OBVIOUS
<1> HIDE DEF ops
<1>3. Work(last, p, ops) /\ Work(owned, p, ops) /\ Work(reassign, p, ops)
      /\ Work(<<Pg!Reject>>, p, ops) /\ Work(<<>>, p, ops)
  BY <1>1, PlainItem, NoWork
<1>4. Work(each, p, ops)
  BY <1>1, ForEachIsWork DEF WellTyped
<1>5. CASE t = <<Pg!Reject>>
  BY <1>3, <1>5 DEF EndsInDrop, Pg!Reject, ops
<1>6. CASE \E a \in {owned, <<>>}, b \in {reassign, <<>>}, c \in {each, <<>>} : t = a \o b \o c \o last
  <2>1. PICK a \in {owned, <<>>}, b \in {reassign, <<>>}, c \in {each, <<>>} : t = a \o b \o c \o last
    BY <1>6
  <2> HIDE DEF owned, reassign, each, last, t
  <2>2. Work(a, p, ops) /\ Work(b, p, ops) /\ Work(c, p, ops)
    BY <1>3, <1>4
  <2>3. Work(a \o b, p, ops)
    BY <2>2, WorkConcat
  <2>4. Work(a \o b \o c, p, ops)
    BY <2>2, <2>3, WorkConcat
  <2>5. Work(t, p, ops) /\ t # <<>> /\ t[Len(t)] = last[Len(last)]
    BY <1>2, <1>3, <2>1, <2>4, WorkConcat
  <2> QED
    BY <1>2, <2>5 DEF EndsInDrop, ops, t
<1>7. t = <<Pg!Reject>> \/ \E a \in {owned, <<>>}, b \in {reassign, <<>>}, c \in {each, <<>>} :
                               t = a \o b \o c \o last
  <2> DEFINE connects == "CONNECT" \in Pg!PrivsOn({<<"database", Database>>}, held \cup PublicPrivs)
             a == IF "owned" \in spec.opts /\ connects THEN owned ELSE <<>>
             b == IF "reassign" \in spec.opts THEN reassign ELSE <<>>
             c == IF "revoke" \in spec.opts THEN each ELSE <<>>
  <2>1. t = <<Pg!Reject>> \/ t = a \o b \o c \o last
    BY DEF Pg!DropUser
  <2>2. a \in {owned, <<>>} /\ b \in {reassign, <<>>} /\ c \in {each, <<>>}
    OBVIOUS
  <2> HIDE DEF a, b, c, owned, reassign, each, last, t
  <2> QED
    BY <2>1, <2>2
<1> QED
  BY <1>5, <1>6, <1>7

-----------------------------------------------------------------------------
(* The invariant of the role.                                              *)

VersionChain == Chain(step, snap, cached, cr, released.uid)

(* Users wrote the spec of every CR that is or was there.                  *)
Written(o, p) == o.uid > 0 => o.spec \in SpecNames[p]
SpecsAreWritten == Written(cr, product) /\ Written(cached, product) /\ Written(snap, product)

(* What each step knows of the CR in memory and of the role.               *)
StepKnows ==
    /\ step \in {"generateSecret", "createUser", "notifyCreated", "update", "notifyChanged",
                 "ensureFinalizer"} => ~snap.del
    /\ step \in {"removeObj", "notifyRemoved", "removeFinalizer", "abandon"} => snap.del
    /\ step \in {"notifyCreated", "update", "notifyChanged", "ensureFinalizer"} => role # NoRole
    /\ step \in {"notifyRemoved", "removeFinalizer"} /\ InMemory.drop => role = NoRole

(* What is left of a call is part of what it planned.                      *)
WorkIsPlanned ==
    /\ step = "update" => Work(todo, product, UpdateOps(product))
    /\ step = "removeObj" => Work(todo, product, RemoveOps(product)) /\ EndsInDrop(todo)

HeldIsFinite == product = "MySQL" => IsFiniteSet(grants)

UserInv ==
    /\ TypeOK /\ VersionChain /\ SpecsAreWritten /\ StepKnows /\ WorkIsPlanned /\ HeldIsFinite
    /\ ClaimedRoleExists /\ ReleasedRoleIsGone

-----------------------------------------------------------------------------
(* What the API server stores.                                             *)

LEMMA AbsentIsCR == \A p : Absent \in CR(p)
  BY BoundAssumption DEF Absent, CR

LEMMA CRFields ==
  ASSUME NEW p, NEW o \in CR(p)
  PROVE  Versioned(o) /\ o.rv \in Nat /\ o.uid \in Nat
<1>1. o.rv \in Nat /\ o.uid \in Nat
  <2>1. o.rv \in Nat /\ o.uid \in 0..MaxUid
    BY DEF CR
  <2> QED
    BY <2>1
<1>2. o.live \in BOOLEAN /\ o.del \in BOOLEAN /\ o.fin \in BOOLEAN /\ ~o.other
  BY DEF CR
<1> QED
  BY <1>1, <1>2 DEF Versioned

LEMMA StoredResult ==
  ASSUME NEW p, NEW o \in CR(p)
  PROVE  /\ Stored(o) \in CR(p)
         /\ Stored(o).rv = o.rv + 1 /\ Stored(o).uid = o.uid
         /\ Stored(o).del = o.del /\ Stored(o).fin = o.fin /\ Stored(o).spec = o.spec
         /\ Stored(o).live = (~o.del \/ o.fin)
<1> DEFINE next == [o EXCEPT !.rv = @ + 1]
           alive == ~o.del \/ o.fin \/ o.other
<1>1. next \in CR(p)
  <2>1. PICK v \in Nat : v = o.rv + 1
    BY CRFields
  <2>2. [o EXCEPT !.rv = v] \in CR(p)
    BY DEF CR
  <2> QED
    BY <2>1, <2>2
<1>2. alive \in {TRUE, FALSE} /\ alive = (~o.del \/ o.fin)
  BY CRFields DEF Versioned
<1>3. Stored(o) = [next EXCEPT !.live = alive]
  BY DEF Stored
<1> HIDE DEF alive
<1>4. \A b \in {TRUE, FALSE} : [next EXCEPT !.live = b] \in CR(p)
  BY <1>1 DEF CR
<1> QED
  BY <1>1, <1>2, <1>3, <1>4 DEF CR

LEMMA TypedCopies ==
  ASSUME UserInv
  PROVE  /\ cr \in CR(product) /\ cached \in CR(product) /\ snap \in CR(product)
         /\ released.uid \in Nat
         /\ Versioned(cr) /\ Versioned(cached) /\ Versioned(snap)
  BY CRFields DEF UserInv, TypeOK

LEMMA AbsentIsWritten == \A p : Written(Absent, p)
<1>1. Absent.uid = 0
  BY DEF Absent
<1> QED
  BY <1>1 DEF Written

(* The spec in memory is one that users wrote.                             *)
LEMMA SpecInMemory ==
  ASSUME UserInv, step # "idle"
  PROVE  WellTyped(product, InMemory)
<1>1. snap.spec \in SpecNames[product] /\ product \in Products
  BY DEF UserInv, TypeOK, SpecsAreWritten, Written, VersionChain, Chain, WorksFrom
<1> QED
  BY <1>1, SpecAssumption DEF InMemory

(* An unmarked CR in memory is of a later incarnation than the released.   *)
LEMMA UnmarkedIsLater ==
  ASSUME UserInv, step # "idle", ~snap.del
  PROVE  cr.uid # released.uid
<1>1. released.uid <= snap.uid /\ released.uid # snap.uid /\ snap.uid <= cr.uid
  BY DEF UserInv, VersionChain, Chain, WorksFrom, Precedes
<1>2. released.uid \in Nat /\ snap.uid \in Nat /\ cr.uid \in Nat
  BY TypedCopies DEF Versioned
<1> QED
  BY <1>1, <1>2

(* While a marked CR is being worked on, no unmarked one carries a         *)
(* finalizer.                                                              *)
LEMMA MarkedIsNotClaimed ==
  ASSUME UserInv, step # "idle", snap.del
  PROVE  ~(cr.live /\ ~cr.del /\ cr.fin)
  BY DEF UserInv, VersionChain, Chain, WorksFrom, Precedes

-----------------------------------------------------------------------------
(* One step.                                                               *)

Returns == step' = "idle" /\ snap' = Absent

(* The part of TypeOK that is neither about the CR nor about the role.     *)
Rest ==
    /\ queued \in BOOLEAN /\ changed \in BOOLEAN
    /\ step \in Steps
    /\ {secret, secretCached} \subseteq {NoSecret} \cup Passwords
    /\ (step \in {"update", "removeObj"} \/ todo = <<>>)
    /\ tables \subseteq Tables \cup NewTables
    /\ missing \in {"nothing", "server", "grantor"}
    /\ faults \in 0..MaxFaults

RoleTyped ==
    /\ role \in {NoRole} \cup Passwords
    /\ role = NoRole => grants = {} /\ flags = {}
    /\ HeldIsFinite

(* Only an unmarked CR brings a role, only a marked one takes it away.     *)
RoleMoves ==
    \/ role' = role
    \/ role' = NoRole /\ snap.del
    \/ role' # NoRole /\ ~snap.del

LEMMA StepKeepsInv ==
  ASSUME UserInv, step # "idle", UNCHANGED <<product, crVars>>, snap' = snap \/ Returns,
         Rest', RoleTyped', RoleMoves, StepKnows', WorkIsPlanned', step' = "idle" => Returns
  PROVE  UserInv'
<1> USE DEF crVars
<1>1. VersionChain' /\ snap' \in CR(product)
  <2>1. Chain(step, snap, cached, cr, released.uid)
    BY DEF UserInv, VersionChain
  <2> QED
    BY <2>1, TypedCopies, AbsentIsCR, ChainMoves DEF VersionChain, Returns
<1>2. TypeOK'
  BY <1>1 DEF UserInv, TypeOK, Rest, RoleTyped
<1>3. SpecsAreWritten'
  BY AbsentIsWritten DEF UserInv, SpecsAreWritten, Returns
<1>4. ClaimedRoleExists'
  BY MarkedIsNotClaimed DEF UserInv, ClaimedRoleExists, RoleMoves
<1>5. ReleasedRoleIsGone'
  BY UnmarkedIsLater DEF UserInv, ReleasedRoleIsGone, RoleMoves
<1> QED
  BY <1>1, <1>2, <1>3, <1>4, <1>5 DEF UserInv, RoleTyped

LEMMA FaultCounts ==
  ASSUME UserInv, Fault \/ UNCHANGED faults
  PROVE  faults' \in 0..MaxFaults
<1>1. faults \in 0..MaxFaults
  BY DEF UserInv, TypeOK
<1> QED
  BY <1>1, BoundAssumption DEF Fault

LEMMA RoleStays ==
  ASSUME UserInv, UNCHANGED <<product, roleVars>>
  PROVE  RoleTyped' /\ RoleMoves
  BY DEF UserInv, TypeOK, HeldIsFinite, RoleTyped, RoleMoves, roleVars

LEMMA ReturnMoves ==
  ASSUME UserInv, NEW again \in BOOLEAN, Return(again), Fault \/ UNCHANGED faults,
         {secret', secretCached'} \subseteq {NoSecret} \cup Passwords, UNCHANGED <<tables, missing>>
  PROVE  Returns /\ Rest' /\ StepKnows' /\ WorkIsPlanned'
<1>1. Returns /\ todo' = <<>> /\ changed' = FALSE
  BY DEF Return, Returns
<1>2. queued' \in BOOLEAN
  BY DEF Return, UserInv, TypeOK
<1>3. faults' \in 0..MaxFaults
  BY FaultCounts
<1>4. Rest'
  BY <1>1, <1>2, <1>3 DEF Rest, UserInv, TypeOK, Returns, Steps
<1>5. StepKnows' /\ WorkIsPlanned'
  BY <1>1 DEF StepKnows, WorkIsPlanned, Returns
<1> QED
  BY <1>1, <1>4, <1>5

LEMMA GotoMoves ==
  ASSUME UserInv, step # "idle", step \notin {"update", "removeObj"}, NEW next \in Steps, Goto(next),
         UNCHANGED <<tables, missing, faults>>,
         {secret', secretCached'} \subseteq {NoSecret} \cup Passwords
  PROVE  /\ step' = next /\ snap' = snap /\ Rest'
         /\ product' = product => WorkIsPlanned'
<1>1. step' = next /\ snap' = snap /\ UNCHANGED <<queued, todo, changed>> /\ todo = <<>>
  BY DEF Goto, UserInv, TypeOK
<1>2. Rest'
  BY <1>1 DEF Rest, UserInv, TypeOK
<1>3. product' = product => WorkIsPlanned'
  BY <1>1, NoWork DEF WorkIsPlanned, EndsInDrop
<1> QED
  BY <1>1, <1>2, <1>3

(* A reconcile that ends without touching the CR or the role.              *)
LEMMA GivesUp ==
  ASSUME UserInv, step # "idle", NEW again \in BOOLEAN, Return(again), Fault \/ UNCHANGED faults,
         {secret', secretCached'} \subseteq {NoSecret} \cup Passwords,
         UNCHANGED <<crVars, roleVars, worldVars>>
  PROVE  UserInv'
<1>1. UNCHANGED <<product, tables, missing>>
  BY DEF worldVars
<1> QED
  BY <1>1, RoleStays, ReturnMoves, StepKeepsInv

LEMMA StartAgainKeepsInv ==
  ASSUME UserInv, StartAgain, UNCHANGED <<product, cr, secret, roleVars, tables, missing, released>>,
         Fault \/ UNCHANGED faults
  PROVE  UserInv'
<1>1. /\ Returns /\ todo' = <<>> /\ changed' = FALSE /\ cached' = cr /\ secretCached' = secret
      /\ queued' \in BOOLEAN
  BY TypedCopies DEF StartAgain, Returns, Versioned
<1>2. VersionChain'
  BY <1>1, TypedCopies, ChainMoves DEF UserInv, VersionChain, Returns
<1>3. faults' \in 0..MaxFaults
  BY FaultCounts
<1>4. TypeOK'
  BY <1>1, <1>3, AbsentIsCR DEF UserInv, TypeOK, Returns, Steps, roleVars
<1>5. SpecsAreWritten'
  BY <1>1, AbsentIsWritten DEF UserInv, SpecsAreWritten, Returns
<1> QED
  BY <1>1, <1>2, <1>4, <1>5 DEF UserInv, StepKnows, WorkIsPlanned, HeldIsFinite, ClaimedRoleExists,
     ReleasedRoleIsGone, Returns, roleVars

-----------------------------------------------------------------------------
(* The steps of a reconcile.                                               *)

LEMMA LoadStep ==
  ASSUME UserInv, LoadCR
  PROVE  UserInv'
<1> /\ UNCHANGED <<crVars, secretVars, roleVars, workVars, worldVars, faults>> /\ step = "idle"
    /\ queued' = FALSE
  BY DEF LoadCR
<1> USE TypedCopies DEF crVars, secretVars, roleVars, workVars, worldVars
<1>1. HeldIsFinite' /\ ClaimedRoleExists' /\ ReleasedRoleIsGone'
  BY DEF UserInv, HeldIsFinite, ClaimedRoleExists, ReleasedRoleIsGone
<1>2. CASE UNCHANGED <<step, snap>>
  <2>1. TypeOK'
    BY <1>2 DEF UserInv, TypeOK
  <2> QED
    BY <1>1, <1>2, <2>1
       DEF UserInv, VersionChain, SpecsAreWritten, StepKnows, WorkIsPlanned, InMemory
<1>3. CASE cached.live /\ step' = "loadObj" /\ snap' = cached
  <2>1. VersionChain'
    BY <1>3, ChainMoves DEF UserInv, VersionChain
  <2>2. TypeOK'
    BY <1>3 DEF UserInv, TypeOK, Steps
  <2>3. SpecsAreWritten' /\ StepKnows' /\ WorkIsPlanned'
    BY <1>3 DEF UserInv, SpecsAreWritten, StepKnows, WorkIsPlanned
  <2> QED
    BY <1>1, <2>1, <2>2, <2>3 DEF UserInv
<1> QED
  BY <1>2, <1>3 DEF LoadCR

(* The secrets, if nobody touches them.                                    *)
LEMMA SecretsStay ==
  ASSUME UserInv, UNCHANGED secretVars
  PROVE  {secret', secretCached'} \subseteq {NoSecret} \cup Passwords
  BY DEF UserInv, TypeOK, secretVars

LEMMA LoadObjStep ==
  ASSUME UserInv, LoadObj
  PROVE  UserInv'
<1> /\ step = "loadObj" /\ UNCHANGED <<crVars, secretVars, roleVars, worldVars, faults>>
    /\ {secret', secretCached'} \subseteq {NoSecret} \cup Passwords
    /\ UNCHANGED <<product, tables, missing>> /\ RoleTyped' /\ RoleMoves
  BY SecretsStay, RoleStays DEF LoadObj, worldVars
<1> DEFINE next == Dispatch(snap, role # NoRole)
<1>1. CASE \E again \in BOOLEAN : Return(again)
  BY <1>1, GivesUp
<1>2. ASSUME NEW n \in {"abandon", "generateSecret", "createUser", "update", "removeObj",
                        "removeFinalizer"}, Goto(n),
             n \in {"generateSecret", "createUser", "update"} => ~snap.del,
             n \in {"abandon", "removeObj", "removeFinalizer"} => snap.del,
             n = "update" => role # NoRole, n = "removeFinalizer" => role = NoRole
      PROVE  UserInv'
  <2>1. n \in Steps
    BY DEF Steps
  <2>2. step' = n /\ snap' = snap /\ Rest' /\ WorkIsPlanned'
    BY <1>2, <2>1, GotoMoves
  <2>3. StepKnows'
    BY <1>2, <2>2 DEF StepKnows, roleVars
  <2> QED
    BY <2>2, <2>3, StepKeepsInv
<1>3. snap.del \in BOOLEAN /\ snap.fin \in BOOLEAN
  BY TypedCopies DEF Versioned
<1>4. /\ next \in {"idle", "createObj", "ensureCorrect", "removeObj", "removeFinalizer"}
      /\ next \in {"createObj", "ensureCorrect"} => ~snap.del
      /\ next \in {"removeObj", "removeFinalizer"} => snap.del
      /\ next = "ensureCorrect" => role # NoRole
      /\ next = "removeFinalizer" => role = NoRole
  BY <1>3 DEF Dispatch
<1>5. \/ \E again \in BOOLEAN : Return(again)
      \/ snap.del /\ Goto("abandon")
      \/ next = "createObj" /\ (Goto("generateSecret") \/ Goto("createUser"))
      \/ next = "ensureCorrect" /\ Goto("update")
      \/ next \notin {"idle", "createObj", "ensureCorrect"} /\ Goto(next)
  BY DEF LoadObj
<1> HIDE DEF next
<1>6. CASE snap.del /\ Goto("abandon")
  BY <1>2, <1>6
<1>7. CASE next = "createObj" /\ (Goto("generateSecret") \/ Goto("createUser"))
  BY <1>2, <1>4, <1>7
<1>8. CASE next = "ensureCorrect" /\ Goto("update")
  BY <1>2, <1>4, <1>8
<1>9. CASE next \notin {"idle", "createObj", "ensureCorrect"} /\ Goto(next)
  BY <1>2, <1>4, <1>9
<1> QED
  BY <1>1, <1>5, <1>6, <1>7, <1>8, <1>9

LEMMA GeneratedIsPassword == Generated \in Passwords
<1>1. \A a, b, c : \E p \in 1..4 : p # a /\ p # b /\ p # c
  OBVIOUS
<1> QED
  BY <1>1 DEF Generated, Passwords

LEMMA GenerateSecretStep ==
  ASSUME UserInv, GenerateSecret \/ GenerateSecretFails
  PROVE  UserInv'
<1> /\ step = "generateSecret" /\ UNCHANGED <<crVars, secretCached, roleVars, worldVars>>
    /\ Fault \/ UNCHANGED faults
    /\ UNCHANGED <<product, tables, missing>> /\ RoleTyped' /\ RoleMoves
  BY RoleStays DEF GenerateSecret, GenerateSecretFails, worldVars
<1>1. {secret', secretCached'} \subseteq {NoSecret} \cup Passwords
  BY GeneratedIsPassword DEF GenerateSecret, GenerateSecretFails, UserInv, TypeOK
<1>2. CASE Return(TRUE)
  BY <1>1, <1>2, GivesUp
<1>3. CASE Goto("createUser") /\ UNCHANGED faults
  <2>1. step' = "createUser" /\ snap' = snap /\ Rest' /\ WorkIsPlanned'
    BY <1>1, <1>3, GotoMoves DEF Steps
  <2>2. StepKnows'
    BY <2>1 DEF UserInv, StepKnows
  <2> QED
    BY <2>1, <2>2, StepKeepsInv
<1> QED
  BY <1>2, <1>3 DEF GenerateSecret, GenerateSecretFails

LEMMA CreateUserStep ==
  ASSUME UserInv, CreateUser \/ CreateUserFails
  PROVE  UserInv'
<1> /\ step = "createUser" /\ UNCHANGED <<crVars, secretVars, worldVars>>
    /\ Fault \/ UNCHANGED faults
    /\ {secret', secretCached'} \subseteq {NoSecret} \cup Passwords
    /\ UNCHANGED <<product, tables, missing>>
  BY SecretsStay DEF CreateUser, CreateUserFails, worldVars
<1>1. ~snap.del
  BY DEF UserInv, StepKnows
<1>2. UNCHANGED roleVars \/ (secretCached # NoSecret /\ RoleCreated)
  BY DEF CreateUser, CreateUserFails
<1>3. secretCached # NoSecret /\ RoleCreated => role' \in Passwords /\ role' # NoRole /\ grants' = grants
  BY DEF RoleCreated, UserInv, TypeOK, NoSecret, NoRole
<1>4. RoleTyped' /\ RoleMoves
  <2>1. CASE UNCHANGED roleVars
    BY <2>1, RoleStays
  <2>2. CASE secretCached # NoSecret /\ RoleCreated
    BY <1>1, <1>3, <2>2 DEF RoleTyped, RoleMoves, UserInv, HeldIsFinite
  <2> QED
    BY <1>2, <2>1, <2>2
<1>5. CASE Return(TRUE)
  BY <1>4, <1>5, ReturnMoves, StepKeepsInv
<1>6. CASE secretCached # NoSecret /\ RoleCreated /\ Goto("notifyCreated") /\ UNCHANGED faults
  <2>1. step' = "notifyCreated" /\ snap' = snap /\ Rest' /\ WorkIsPlanned'
    BY <1>6, GotoMoves DEF Steps
  <2>2. StepKnows'
    BY <1>1, <1>3, <1>6, <2>1 DEF StepKnows
  <2> QED
    BY <1>4, <2>1, <2>2, StepKeepsInv
<1> QED
  BY <1>5, <1>6 DEF CreateUser, CreateUserFails

LEMMA NotifyStep ==
  ASSUME UserInv, NotifyChanges
  PROVE  UserInv'
<1> /\ step \in {"notifyCreated", "notifyChanged", "notifyRemoved"}
    /\ UNCHANGED <<product, cr, secret, roleVars, tables, missing, released, faults>>
  BY DEF NotifyChanges
<1>1. CASE StartAgain
  BY <1>1, StartAgainKeepsInv
<1>2. CASE Goto(AfterNotify) /\ UNCHANGED <<cached, secretCached>>
  <2>1. /\ AfterNotify \in {"update", "ensureFinalizer", "removeFinalizer"} /\ AfterNotify \in Steps
        /\ AfterNotify \in {"update", "ensureFinalizer"} => step \in {"notifyCreated", "notifyChanged"}
        /\ AfterNotify = "removeFinalizer" => step = "notifyRemoved"
    BY DEF AfterNotify, Steps
  <2>2. {secret', secretCached'} \subseteq {NoSecret} \cup Passwords
    BY <1>2, SecretsStay DEF secretVars
  <2>3. RoleTyped' /\ RoleMoves
    BY RoleStays
  <2>4. step' = AfterNotify /\ snap' = snap /\ Rest' /\ WorkIsPlanned'
    BY <1>2, <2>1, <2>2, GotoMoves
  <2>5. InMemory' = InMemory
    BY <2>4 DEF InMemory
  <2>6. StepKnows'
    <3> HIDE DEF AfterNotify
    <3> QED
      BY <2>1, <2>4, <2>5 DEF UserInv, StepKnows, roleVars
  <2> QED
    BY <1>2, <2>1, <2>3, <2>4, <2>6, StepKeepsInv DEF crVars
<1> QED
  BY <1>1, <1>2 DEF NotifyChanges

-----------------------------------------------------------------------------
(* UpdateUserPrivs and DropUser.                                           *)

LEMMA ProceedStep ==
  ASSUME UserInv, step \in {"update", "removeObj"}, NEW rest, NEW change \in BOOLEAN,
         Proceed(rest, change), UNCHANGED <<crVars, secretVars, worldVars>>,
         Fault \/ UNCHANGED faults, RoleTyped', RoleMoves,
         step = "update" => Work(rest, product, UpdateOps(product)) /\ role' # NoRole,
         step = "removeObj" => /\ Work(rest, product, RemoveOps(product)) /\ EndsInDrop(rest)
                               /\ rest = <<>> /\ InMemory.drop => role' = NoRole
  PROVE  UserInv'
<1>1. /\ todo' = rest /\ snap' = snap /\ queued' = queued /\ changed' \in BOOLEAN
      /\ UNCHANGED <<product, tables, missing>>
  BY DEF Proceed, worldVars
<1>2. /\ rest # <<>> => step' = step
      /\ rest = <<>> /\ step = "removeObj" => step' = "notifyRemoved"
      /\ rest = <<>> /\ step = "update" => step' \in {"notifyChanged", "ensureFinalizer"}
  BY DEF Proceed
<1>3. step' \in {"update", "removeObj", "notifyRemoved", "notifyChanged", "ensureFinalizer"}
  BY <1>2
<1>4. faults' \in 0..MaxFaults
  BY FaultCounts
<1>5. Rest'
  <2>1. {secret', secretCached'} \subseteq {NoSecret} \cup Passwords
    BY SecretsStay
  <2>2. step' \in {"update", "removeObj"} \/ todo' = <<>>
    BY <1>1, <1>2
  <2> QED
    BY <1>1, <1>3, <1>4, <2>1, <2>2 DEF Rest, Steps, UserInv, TypeOK
<1>6. InMemory' = InMemory
  BY <1>1 DEF InMemory
<1>7. StepKnows'
  BY <1>1, <1>2, <1>6 DEF UserInv, StepKnows
<1>8. WorkIsPlanned'
  BY <1>1, <1>2 DEF WorkIsPlanned
<1> QED
  BY <1>1, <1>3, <1>5, <1>7, <1>8, StepKeepsInv

LEMMA BeginStep ==
  ASSUME UserInv, Begin
  PROVE  UserInv'
<1> /\ step \in {"update", "removeObj"}
    /\ UNCHANGED <<crVars, secretVars, roleVars, worldVars, faults>>
    /\ RoleTyped' /\ RoleMoves
  BY RoleStays DEF Begin, worldVars
<1>1. PICK plan \in Plans : Proceed(plan, FALSE)
  BY DEF Begin
<1>2. WellTyped(product, InMemory)
  BY SpecInMemory
<1>3. ASSUME step = "update" PROVE Work(plan, product, UpdateOps(product)) /\ role' # NoRole
  <2>1. role' # NoRole
    BY <1>3 DEF UserInv, StepKnows, roleVars
  <2>2. CASE product = "MySQL"
    <3>1. plan \in My!UpdateUserPrivs(InMemory, grants)
      BY <1>3, <2>2 DEF Plans
    <3> QED
      BY <1>2, <2>1, <2>2, <3>1, MySqlUpdateIsWork DEF UserInv, HeldIsFinite
  <2>3. CASE product # "MySQL"
    <3>1. plan = Pg!UpdateUserPrivs(InMemory, flags)
      BY <1>3, <2>3 DEF Plans
    <3> QED
      BY <1>2, <2>1, <2>3, <3>1, PgUpdateIsWork
  <2> QED
    BY <2>2, <2>3
<1>4. ASSUME step = "removeObj"
      PROVE  /\ Work(plan, product, RemoveOps(product)) /\ EndsInDrop(plan)
             /\ plan = <<>> => ~InMemory.drop
  <2>1. CASE ~InMemory.drop
    <3>1. plan = <<>>
      BY <1>4, <2>1 DEF Plans
    <3> QED
      BY <2>1, <3>1, NoWork DEF EndsInDrop
  <2>2. CASE InMemory.drop /\ product = "MySQL"
    <3>1. plan = <<[op |-> "reject"]>> \/ plan = <<[op |-> "dropUser"]>>
      BY <1>4, <2>2 DEF Plans, My!DropUser
    <3>2. ASSUME NEW w \in {"reject", "dropUser"}, plan = <<[op |-> w]>>
          PROVE  /\ Work(plan, product, RemoveOps(product)) /\ EndsInDrop(plan) /\ plan # <<>>
      <4>1. Item([op |-> w], product, RemoveOps(product))
        BY <2>2 DEF Item, RemoveOps
      <4>2. Work(plan, product, RemoveOps(product))
        BY <3>2, <4>1, OneItem
      <4> QED
        BY <3>2, <4>2 DEF EndsInDrop
    <3> QED
      BY <3>1, <3>2
  <2>3. CASE InMemory.drop /\ product # "MySQL"
    <3>1. plan = Pg!DropUser(InMemory, grants)
      BY <1>4, <2>3 DEF Plans
    <3> QED
      BY <1>2, <2>3, <3>1, PgDropIsWork
  <2> QED
    BY <2>1, <2>2, <2>3
<1> QED
  BY <1>1, <1>3, <1>4, ProceedStep

(* The next item of work is one the call at hand may contain.              *)
LEMMA NextItem ==
  ASSUME UserInv, todo # <<>>
  PROVE  /\ step \in {"update", "removeObj"}
         /\ step = "update" => /\ Work(Tail(todo), product, UpdateOps(product))
                               /\ Item(Head(todo), product, UpdateOps(product))
         /\ step = "removeObj" => /\ Work(Tail(todo), product, RemoveOps(product))
                                  /\ Item(Head(todo), product, RemoveOps(product))
                                  /\ EndsInDrop(Tail(todo))
                                  /\ Tail(todo) = <<>> => Head(todo).op \in {"dropUser", "reject"}
<1>1. step \in {"update", "removeObj"}
  BY DEF UserInv, TypeOK
<1>2. CASE step = "update"
  BY <1>2, WorkTail DEF UserInv, WorkIsPlanned
<1>3. CASE step = "removeObj"
  <2>1. Work(todo, product, RemoveOps(product)) /\ EndsInDrop(todo)
    BY <1>3 DEF UserInv, WorkIsPlanned
  <2>2. /\ Work(Tail(todo), product, RemoveOps(product)) /\ Item(Head(todo), product, RemoveOps(product))
        /\ Tail(todo) = <<>> => todo[Len(todo)] = Head(todo)
        /\ Tail(todo) # <<>> => Tail(todo)[Len(Tail(todo))] = todo[Len(todo)]
    BY <2>1, WorkTail
  <2> QED
    BY <1>3, <2>1, <2>2 DEF EndsInDrop
<1> QED
  BY <1>1, <1>2, <1>3

LEMMA NextEntryStep ==
  ASSUME UserInv, NextEntry
  PROVE  UserInv'
<1> DEFINE first == Pg!Expand(Head(todo), product, grants, tables)
<1> /\ todo # <<>> /\ Head(todo).op \in {"reconcile", "revokeEntry"}
    /\ UNCHANGED <<crVars, secretVars, roleVars, worldVars, faults>>
    /\ RoleTyped' /\ RoleMoves
  BY RoleStays DEF NextEntry, worldVars
<1>1. Proceed(first \o Tail(todo), changed) /\ changed \in BOOLEAN
  BY DEF NextEntry, UserInv, TypeOK
<1>2. step \in {"update", "removeObj"}
  BY NextItem
<1>3. CASE step = "update"
  <2>1. Head(todo).op = "reconcile" /\ product # "MySQL" /\ Work(Tail(todo), product, UpdateOps(product))
    BY <1>3, NextItem DEF Item, UpdateOps
  <2>2. Work(first, product, UpdateOps(product))
    BY <2>1, ReconcileIsWork DEF Pg!Expand
  <2>3. role' # NoRole
    BY <1>3 DEF UserInv, StepKnows, roleVars
  <2> HIDE DEF first
  <2>4. Work(first \o Tail(todo), product, UpdateOps(product))
    BY <2>1, <2>2, WorkConcat
  <2> QED
    BY <1>1, <1>3, <2>3, <2>4, ProceedStep
<1>4. CASE step = "removeObj"
  <2>1. /\ Head(todo).op = "revokeEntry" /\ product # "MySQL"
        /\ Work(Tail(todo), product, RemoveOps(product)) /\ EndsInDrop(Tail(todo)) /\ Tail(todo) # <<>>
    BY <1>4, NextItem DEF Item, RemoveOps
  <2>2. Work(first, product, RemoveOps(product))
    BY <2>1, RevokeAllIsWork DEF Pg!Expand
  <2> HIDE DEF first
  <2> DEFINE rest == first \o Tail(todo)
  <2>3. Work(rest, product, RemoveOps(product)) /\ rest # <<>>
        /\ rest[Len(rest)] = Tail(todo)[Len(Tail(todo))]
    BY <2>1, <2>2, WorkConcat
  <2>4. EndsInDrop(rest)
    BY <2>1, <2>3 DEF EndsInDrop
  <2> HIDE DEF rest
  <2> QED
    BY <1>1, <1>4, <2>3, <2>4, ProceedStep DEF rest
<1> QED
  BY <1>2, <1>3, <1>4

LEMMA GiveUpStep ==
  ASSUME UserInv, GiveUp
  PROVE  UserInv'
<1>1. UNCHANGED <<product, cr, secret, roleVars, tables, missing, released, faults>>
  BY DEF GiveUp
<1>2. step # "idle"
  BY NextItem DEF GiveUp
<1>3. CASE StartAgain
  BY <1>1, <1>3, StartAgainKeepsInv
<1>4. CASE Return(TRUE) /\ UNCHANGED <<cached, secretCached>>
  <2>1. {secret', secretCached'} \subseteq {NoSecret} \cup Passwords
    BY <1>1, <1>4, SecretsStay DEF secretVars
  <2> QED
    BY <1>1, <1>2, <1>4, <2>1, GivesUp DEF crVars, worldVars
<1> QED
  BY <1>3, <1>4 DEF GiveUp

LEMMA EffectOnRole ==
  ASSUME UserInv, IsStatement, Effect, product' = product
  PROVE  /\ RoleTyped' /\ RoleMoves
         /\ step = "update" => role' = role
         /\ Head(todo).op = "dropUser" => role' = NoRole
         /\ Head(todo).op # "dropUser" => role' = role
<1> DEFINE s == Head(todo)
<1>1. /\ step \in {"update", "removeObj"}
      /\ step = "update" => Item(s, product, UpdateOps(product))
      /\ step = "removeObj" => Item(s, product, RemoveOps(product))
  BY NextItem DEF IsStatement
<1>2. /\ s.op = "dropUser" => role' = NoRole /\ flags' = {}
      /\ s.op # "dropUser" => role' = role
      /\ s.op \notin {"dropUser", "alter"} => flags' = flags
  BY DEF Effect
<1>3. step = "update" => s.op # "dropUser" /\ role # NoRole
  BY <1>1 DEF Item, UpdateOps, UserInv, StepKnows
<1>4. step = "removeObj" => s.op \notin {"grant", "alter"} /\ snap.del
  BY <1>1 DEF Item, RemoveOps, UserInv, StepKnows
<1>5. s.op = "dropUser" => grants' = {}
  BY DEF Effect, My!Executed, Pg!Executed
<1>6. grants = {} /\ s.op # "grant" => grants' = {}
  BY DEF Effect, My!Executed, Pg!Executed
<1>7. HeldIsFinite'
  <2> SUFFICES ASSUME product = "MySQL" PROVE IsFiniteSet(grants')
    BY DEF HeldIsFinite
  <2>1. IsFiniteSet(grants) /\ grants' = My!Executed(s, grants)
    BY DEF UserInv, HeldIsFinite, Effect
  <2>2. CASE s.op = "grant"
    <3>1. grants' = grants \cup My!Facts(s.scope, s.pieces)
      BY <2>1, <2>2 DEF My!Executed
    <3>2. IsFiniteSet(My!Facts(s.scope, s.pieces))
      BY <1>1, <2>2 DEF Item
    <3> QED
      BY <2>1, <3>1, <3>2, FS_Union
  <2>3. CASE s.op # "grant"
    <3>1. grants' \in SUBSET grants
      BY <2>1, <2>3 DEF My!Executed
    <3> QED
      BY <2>1, <3>1, FS_Subset
  <2> QED
    BY <2>2, <2>3
<1>8. role' \in {NoRole} \cup Passwords
  BY <1>2 DEF UserInv, TypeOK
<1>9. ASSUME role' = NoRole PROVE grants' = {} /\ flags' = {}
  <2>1. CASE s.op = "dropUser"
    BY <1>2, <1>5, <2>1
  <2>2. CASE s.op # "dropUser"
    <3>1. role = NoRole /\ step = "removeObj"
      BY <1>1, <1>2, <1>3, <1>9, <2>2
    <3> QED
      BY <1>2, <1>4, <1>6, <2>2, <3>1 DEF UserInv, TypeOK
  <2> QED
    BY <2>1, <2>2
<1>10. RoleMoves
  BY <1>1, <1>2, <1>3, <1>4 DEF RoleMoves
<1> QED
  BY <1>2, <1>3, <1>7, <1>8, <1>9, <1>10 DEF RoleTyped

(* A statement was carried out, or its error was ignored.                  *)
LEMMA StatementDone ==
  ASSUME UserInv, IsStatement, Proceed(Tail(todo), TRUE), Fault \/ UNCHANGED faults,
         UNCHANGED <<crVars, secretVars, worldVars>>,
         Effect \/ (ErrorIgnored /\ UNCHANGED roleVars)
  PROVE  UserInv'
<1>1. todo # <<>> /\ product' = product
  BY DEF IsStatement, worldVars
<1>2. RoleTyped' /\ RoleMoves /\ (step = "update" => role' = role)
  BY <1>1, EffectOnRole, RoleStays DEF roleVars
<1>3. step = "update" => Work(Tail(todo), product, UpdateOps(product)) /\ role' # NoRole
  BY <1>1, <1>2, NextItem DEF UserInv, StepKnows
<1>4. step = "removeObj" => /\ Work(Tail(todo), product, RemoveOps(product))
                            /\ EndsInDrop(Tail(todo))
                            /\ Tail(todo) = <<>> => Head(todo).op \in {"dropUser", "reject"}
                            /\ Item(Head(todo), product, RemoveOps(product))
  BY <1>1, NextItem
<1>5. ASSUME step = "removeObj", Tail(todo) = <<>> PROVE role' = NoRole
  <2>1. Head(todo).op = "dropUser"
    BY <1>4, <1>5 DEF IsStatement
  <2>2. ~ErrorIgnored
    BY <2>1 DEF ErrorIgnored
  <2> QED
    BY <1>1, <2>1, <2>2, EffectOnRole
<1>6. step \in {"update", "removeObj"}
  BY <1>1, NextItem
<1> QED
  BY <1>2, <1>3, <1>4, <1>5, <1>6, ProceedStep

LEMMA ExecuteStep ==
  ASSUME UserInv, Execute \/ ExecuteFails
  PROVE  UserInv'
<1> /\ UNCHANGED <<crVars, secretVars, worldVars>>
    /\ Fault \/ UNCHANGED faults
    /\ UNCHANGED <<product, tables, missing>>
    /\ {secret', secretCached'} \subseteq {NoSecret} \cup Passwords
  BY SecretsStay DEF Execute, ExecuteFails, worldVars
<1>1. step # "idle"
  BY NextItem DEF Execute, ExecuteFails, IsStatement
<1>2. CASE IsStatement /\ Proceed(Tail(todo), TRUE) /\ (Effect \/ (ErrorIgnored /\ UNCHANGED roleVars))
  BY <1>2, StatementDone
<1>3. CASE Return(TRUE) /\ (UNCHANGED roleVars \/ (IsStatement /\ Effect))
  <2>1. RoleTyped' /\ RoleMoves
    BY <1>3, RoleStays, EffectOnRole
  <2> QED
    BY <1>1, <1>3, <2>1, ReturnMoves, StepKeepsInv
<1> QED
  BY <1>2, <1>3 DEF Execute, ExecuteFails

-----------------------------------------------------------------------------
(* The finalizer.                                                          *)

(* Writing the finalizer back or taking it away makes another version.     *)
LEMMA FinalizerWrites ==
  ASSUME UserInv, step # "idle", UpToDate(cr, snap), NEW b \in BOOLEAN, snap.fin = ~b,
         NEW n, n = [snap EXCEPT !.fin = b]
  PROVE  /\ Put(cr, n) \in CR(product) /\ Put(cr, n).rv = cr.rv + 1 /\ Put(cr, n).uid = snap.uid
         /\ Put(cr, n).del = snap.del /\ Put(cr, n).fin = b /\ Put(cr, n).live = (~snap.del \/ b)
         /\ Put(cr, n).spec = snap.spec
<1>1. cr \in CR(product) /\ snap \in CR(product) /\ snap.rv = cr.rv /\ snap.fin = cr.fin
  BY DEF UserInv, TypeOK, VersionChain, Chain, WorksFrom, UpToDate, SameMeta
<1>2. /\ n \in CR(product) /\ n.fin = b /\ n.rv = snap.rv /\ n.uid = snap.uid /\ n.del = snap.del
      /\ n.spec = snap.spec
  BY <1>1 DEF CR
<1>3. n # cr
  BY <1>1, <1>2
<1>4. Put(cr, n) = Stored(n)
  BY <1>3 DEF Put
<1>5. /\ Stored(n) \in CR(product) /\ Stored(n).rv = n.rv + 1 /\ Stored(n).uid = n.uid
      /\ Stored(n).del = n.del /\ Stored(n).fin = n.fin /\ Stored(n).spec = n.spec
      /\ Stored(n).live = (~n.del \/ n.fin)
  <2>1. \A o \in CR(product) :
            /\ Stored(o) \in CR(product) /\ Stored(o).rv = o.rv + 1 /\ Stored(o).uid = o.uid
            /\ Stored(o).del = o.del /\ Stored(o).fin = o.fin /\ Stored(o).spec = o.spec
            /\ Stored(o).live = (~o.del \/ o.fin)
    BY StoredResult
  <2> QED
    BY <1>2, <2>1
<1>6. Stored(n).live = (~snap.del \/ b)
  BY <1>2, <1>5
<1> QED
  BY <1>1, <1>2, <1>4, <1>5, <1>6

LEMMA EnsureFinalizerStep ==
  ASSUME UserInv, EnsureFinalizer \/ EnsureFinalizerFails
  PROVE  UserInv'
<1> /\ step = "ensureFinalizer" /\ UNCHANGED <<cached, released, secretVars, roleVars, worldVars>>
    /\ Fault \/ UNCHANGED faults
    /\ \E again \in BOOLEAN : Return(again)
    /\ {secret', secretCached'} \subseteq {NoSecret} \cup Passwords
    /\ UNCHANGED <<product, tables, missing>>
  BY SecretsStay DEF EnsureFinalizer, EnsureFinalizerFails, worldVars
<1>1. CASE cr' = cr
  BY <1>1, GivesUp DEF crVars
<1>2. CASE ~snap.fin /\ UpToDate(cr, snap) /\ cr' = Put(cr, WithFinalizer(snap))
  <2>1. ~snap.del /\ snap.fin = ~TRUE /\ WithFinalizer(snap) = [snap EXCEPT !.fin = TRUE]
    BY <1>2, TypedCopies DEF UserInv, StepKnows, WithFinalizer, Versioned
  <2>2. /\ cr' \in CR(product) /\ cr'.rv = cr.rv + 1 /\ cr'.uid = snap.uid /\ ~cr'.del /\ cr'.fin
        /\ cr'.live /\ cr'.spec = snap.spec
    BY <1>2, <2>1, FinalizerWrites
  <2>3. Returns /\ Rest' /\ StepKnows' /\ WorkIsPlanned' /\ RoleTyped'
    BY ReturnMoves, RoleStays
  <2>4. VersionChain'
    BY <1>2, <2>1, <2>2, <2>3, TypedCopies, CRFields, ChainFinalizerAdded
       DEF UserInv, VersionChain, Returns
  <2>5. TypeOK' /\ HeldIsFinite'
    BY <2>2, <2>3, AbsentIsCR DEF UserInv, TypeOK, Rest, RoleTyped, Returns
  <2>6. cr'.uid = cr.uid /\ role # NoRole
    BY <1>2, <2>2 DEF UserInv, StepKnows, VersionChain, Chain, WorksFrom, SameMeta
  <2>7. SpecsAreWritten'
    BY <2>2, <2>3, AbsentIsWritten DEF UserInv, SpecsAreWritten, Written, Returns
  <2> QED
    BY <2>3, <2>4, <2>5, <2>6, <2>7
       DEF UserInv, ClaimedRoleExists, ReleasedRoleIsGone, roleVars
<1> QED
  BY <1>1, <1>2 DEF EnsureFinalizer, EnsureFinalizerFails

LEMMA ReleaseStep ==
  ASSUME UserInv, step \in {"removeFinalizer", "abandon"}, Release,
         UNCHANGED <<cached, secretVars, roleVars, worldVars>>, Fault \/ UNCHANGED faults,
         NEW again \in BOOLEAN, Return(again)
  PROVE  UserInv'
<1>1. /\ snap.del /\ SameMeta(snap, cr) /\ WellFormed(cr) /\ cr.live /\ snap.uid > 0
      /\ UpToDate(cr, snap) /\ step # "idle"
  BY DEF Release, UserInv, StepKnows, VersionChain, Chain, Stores, WorksFrom, UpToDate
<1>2. snap.fin = ~FALSE
  BY <1>1, TypedCopies DEF SameMeta, WellFormed, Versioned
<1>3. /\ WithoutFinalizer(snap) = [snap EXCEPT !.fin = FALSE]
      /\ cr' = Put(cr, WithoutFinalizer(snap))
  BY DEF WithoutFinalizer, Release
<1>4. /\ cr' \in CR(product) /\ cr'.rv = cr.rv + 1 /\ cr'.uid = snap.uid /\ cr'.del /\ ~cr'.fin
      /\ ~cr'.live /\ cr'.spec = snap.spec
  BY <1>1, <1>2, <1>3, FinalizerWrites
<1>5. released' = [uid |-> snap.uid, dropped |-> InMemory.drop /\ step # "abandon"]
  BY <1>2 DEF Release
<1>6. {secret', secretCached'} \subseteq {NoSecret} \cup Passwords /\ UNCHANGED <<product, tables, missing>>
  BY SecretsStay DEF worldVars
<1>7. Returns /\ Rest' /\ StepKnows' /\ WorkIsPlanned' /\ RoleTyped'
  BY <1>6, ReturnMoves, RoleStays
<1>8. VersionChain'
  <2> DEFINE n == cr'
  <2>1. n.rv = cr.rv + 1 /\ n.uid = snap.uid /\ ~n.fin /\ ~n.live /\ n.del /\ Versioned(n)
    BY <1>4, CRFields
  <2>2. Chain(step, snap, cached, cr, released.uid)
    BY DEF UserInv, VersionChain
  <2> HIDE DEF n
  <2>3. \A t : Chain("idle", t, cached, n, snap.uid)
    BY <1>1, <2>1, <2>2, TypedCopies, ChainReleased
  <2> QED
    BY <1>5, <1>7, <2>3 DEF VersionChain, Returns, n
<1>9. TypeOK' /\ HeldIsFinite'
  <2>1. snap.uid \in Nat
    BY TypedCopies DEF Versioned
  <2>2. released' \in [uid : Nat, dropped : BOOLEAN]
    BY <1>5, <2>1
  <2> QED
    BY <1>4, <1>6, <1>7, <2>2, AbsentIsCR DEF UserInv, TypeOK, Rest, RoleTyped, Returns
<1>10. SpecsAreWritten'
  BY <1>4, <1>6, <1>7, AbsentIsWritten DEF UserInv, SpecsAreWritten, Written, Returns
<1>11. ReleasedRoleIsGone'
  BY <1>5 DEF UserInv, StepKnows, ReleasedRoleIsGone, roleVars
<1>12. ClaimedRoleExists'
  BY <1>4 DEF ClaimedRoleExists
<1> QED
  BY <1>7, <1>8, <1>9, <1>10, <1>11, <1>12 DEF UserInv

LEMMA RemoveFinalizerStep ==
  ASSUME UserInv, RemoveFinalizer \/ RemoveFinalizerFails
  PROVE  UserInv'
<1> /\ step \in {"removeFinalizer", "abandon"}
    /\ UNCHANGED <<cached, secretVars, roleVars, worldVars>>
    /\ Fault \/ UNCHANGED faults
    /\ {secret', secretCached'} \subseteq {NoSecret} \cup Passwords
  BY SecretsStay DEF RemoveFinalizer, RemoveFinalizerFails
<1>1. (step # "abandon") \in BOOLEAN
  OBVIOUS
<1>2. CASE UNCHANGED <<cr, released>> /\ \E again \in BOOLEAN : Return(again)
  BY <1>2, GivesUp DEF crVars
<1>3. CASE Release /\ \E again \in BOOLEAN : Return(again)
  BY <1>3, ReleaseStep
<1> QED
  BY <1>1, <1>2, <1>3 DEF RemoveFinalizer, RemoveFinalizerFails

-----------------------------------------------------------------------------
(* The cluster around the operator.                                        *)

LEMMA UserStep ==
  ASSUME UserInv, UserCreates \/ UserDeletes \/ UserEdits
  PROVE  UserInv'
<1> UNCHANGED <<cached, released, queued, reconcileVars, secretVars, roleVars, worldVars, faults>>
  BY DEF UserCreates, UserDeletes, UserEdits
<1> USE TypedCopies
<1>1. /\ cr' \in CR(product) /\ Touched(cr, cr') /\ Written(cr', product)
      /\ cr'.fin => cr.live /\ cr.fin
  <2>1. CASE UserCreates
    <3>1. PICK s \in SpecNames[product] :
              cr' = [Absent EXCEPT !.live = TRUE, !.uid = cr.uid + 1, !.rv = cr.rv + 1, !.spec = s]
      BY <2>1 DEF UserCreates
    <3>2. PICK i \in 0..MaxUid, v \in Nat : i = cr.uid + 1 /\ v = cr.rv + 1
      <4>1. cr.uid \in Nat /\ cr.rv \in Nat /\ cr.uid < MaxUid
        BY <2>1, CRFields DEF UserCreates
      <4> QED
        BY <4>1, BoundAssumption
    <3>3. cr' = [live |-> TRUE, uid |-> i, rv |-> v, del |-> FALSE, fin |-> FALSE,
                 other |-> FALSE, spec |-> s]
      BY <3>1, <3>2 DEF Absent
    <3>4. /\ cr' \in CR(product) /\ cr'.live /\ cr'.uid = i /\ cr'.rv = v /\ ~cr'.del /\ ~cr'.fin
          /\ cr'.spec = s
      BY <3>3 DEF CR
    <3>5. Touched(cr, cr')
      BY <2>1, <3>2, <3>4 DEF UserCreates, Touched
    <3> QED
      BY <3>4, <3>5 DEF Written
  <2>2. ASSUME cr.live, NEW x \in CR(product), cr' = Stored(x), x.rv = cr.rv, x.uid = cr.uid,
               x.fin = cr.fin, cr.del => x.del, x.spec = cr.spec \/ x.spec \in SpecNames[product]
        PROVE  /\ cr' \in CR(product) /\ Touched(cr, cr') /\ Written(cr', product)
               /\ cr'.fin => cr.live /\ cr.fin
    <3>1. /\ cr' \in CR(product) /\ cr'.rv = cr.rv + 1 /\ cr'.uid = cr.uid /\ cr'.del = x.del
          /\ cr'.fin = cr.fin /\ cr'.live = (~cr'.del \/ cr'.fin) /\ cr'.spec = x.spec
      BY <2>2, StoredResult
    <3>2. Touched(cr, cr')
      BY <2>2, <3>1 DEF Touched
    <3> QED
      BY <2>2, <3>1, <3>2 DEF Written, UserInv, SpecsAreWritten
  <2>3. CASE UserDeletes
    <3> DEFINE x == [cr EXCEPT !.del = TRUE]
    <3>1. /\ x \in CR(product) /\ x.rv = cr.rv /\ x.uid = cr.uid /\ x.del /\ x.fin = cr.fin
          /\ x.spec = cr.spec
      BY DEF CR
    <3>2. cr' = Stored(x) /\ cr.live
      BY <2>3 DEF UserDeletes, Deleted
    <3> HIDE DEF x
    <3> QED
      BY <2>2, <3>1, <3>2
  <2>4. CASE UserEdits
    <3>1. PICK s \in SpecNames[product] : cr' = Stored([cr EXCEPT !.spec = s])
      BY <2>4 DEF UserEdits
    <3> DEFINE x == [cr EXCEPT !.spec = s]
    <3>2. /\ x \in CR(product) /\ x.rv = cr.rv /\ x.uid = cr.uid /\ x.del = cr.del /\ x.fin = cr.fin
          /\ x.spec = s
      BY DEF CR
    <3>3. cr' = Stored(x) /\ cr.live
      BY <2>4, <3>1 DEF UserEdits
    <3> HIDE DEF x
    <3> QED
      BY <2>2, <3>2, <3>3
  <2> QED
    BY <2>1, <2>3, <2>4
<1>2. VersionChain'
  <2>1. Versioned(cr')
    BY <1>1, CRFields
  <2> QED
    BY <1>1, <2>1, ChainTouched DEF UserInv, VersionChain, reconcileVars
<1>3. TypeOK'
  BY <1>1 DEF UserInv, TypeOK, reconcileVars, secretVars, roleVars, worldVars
<1>4. ReleasedRoleIsGone'
  <2>1. released.uid <= cached.uid /\ cached.uid <= cr.uid /\ cr.uid \in Nat /\ cached.uid \in Nat
    BY DEF UserInv, VersionChain, Chain, Stores, Precedes, Versioned
  <2>2. cr'.uid \in {cr.uid, cr.uid + 1}
    BY <1>1 DEF Touched
  <2>3. cr'.uid = released.uid => cr.uid = released.uid
    BY <2>1, <2>2
  <2> QED
    BY <2>3 DEF UserInv, ReleasedRoleIsGone, roleVars
<1>5. ClaimedRoleExists'
  BY <1>1 DEF UserInv, ClaimedRoleExists, Touched, roleVars
<1>6. InMemory' = InMemory
  BY DEF InMemory, reconcileVars
<1>7. StepKnows' /\ WorkIsPlanned' /\ HeldIsFinite'
  BY <1>6 DEF UserInv, StepKnows, WorkIsPlanned, HeldIsFinite, reconcileVars, roleVars, worldVars
<1> QED
  BY <1>1, <1>2, <1>3, <1>4, <1>5, <1>7 DEF UserInv, SpecsAreWritten, reconcileVars, worldVars

(* Steps that leave the CR and the reconcile alone.                        *)
LEMMA OutsideKeepsInv ==
  ASSUME UserInv, UNCHANGED <<product, crVars, reconcileVars, role>>, Rest', RoleTyped'
  PROVE  UserInv'
<1> USE DEF crVars, reconcileVars
<1>1. TypeOK' /\ HeldIsFinite'
  BY DEF UserInv, TypeOK, Rest, RoleTyped
<1>2. InMemory' = InMemory
  BY DEF InMemory
<1> QED
  BY <1>1, <1>2 DEF UserInv, VersionChain, SpecsAreWritten, StepKnows, WorkIsPlanned,
     ClaimedRoleExists, ReleasedRoleIsGone

LEMMA OutsideStep ==
  ASSUME UserInv,
         \/ SecretEvent \/ SecretDeleted \/ Resync \/ ParentsComeAndGo \/ ChangeByHand
         \/ CreateTable \/ RoleCreatesObject \/ UNCHANGED vars
  PROVE  UserInv'
<1>1. UNCHANGED <<product, crVars, reconcileVars, role>>
  BY DEF SecretEvent, SecretDeleted, Resync, ParentsComeAndGo, ChangeByHand, CreateTable,
         RoleCreatesObject, vars, crVars, reconcileVars, roleVars, worldVars
<1>2. faults' \in 0..MaxFaults
  BY FaultCounts DEF SecretEvent, SecretDeleted, Resync, ParentsComeAndGo, ChangeByHand, CreateTable,
         RoleCreatesObject, vars
<1>3. /\ queued' \in BOOLEAN /\ {secret', secretCached'} \subseteq {NoSecret} \cup Passwords
      /\ tables' \subseteq Tables \cup NewTables /\ missing' \in {"nothing", "server", "grantor"}
  BY DEF SecretEvent, SecretDeleted, Resync, ParentsComeAndGo, ChangeByHand, CreateTable,
         RoleCreatesObject, vars, secretVars, worldVars, UserInv, TypeOK
<1>4. Rest'
  BY <1>1, <1>2, <1>3 DEF Rest, UserInv, TypeOK, reconcileVars
<1>5. RoleTyped'
  <2>1. CASE SecretEvent \/ SecretDeleted \/ Resync \/ ParentsComeAndGo \/ UNCHANGED vars
    <3>1. UNCHANGED roleVars
      BY <2>1 DEF SecretEvent, SecretDeleted, Resync, ParentsComeAndGo, vars, roleVars
    <3> QED
      BY <1>1, <3>1, RoleStays
  <2>2. ASSUME role # NoRole, UNCHANGED flags, HeldIsFinite' PROVE RoleTyped'
    BY <1>1, <2>2 DEF RoleTyped, UserInv, TypeOK
  <2>3. CASE ChangeByHand
    <3>1. PICK f : grants' = IF f \in grants THEN grants \ {f} ELSE grants \cup {f}
      BY <2>3 DEF ChangeByHand
    <3>2. IsFiniteSet(grants) => IsFiniteSet(grants')
      BY <3>1, FS_AddElement, FS_RemoveElement
    <3> QED
      BY <1>1, <2>2, <2>3, <3>2 DEF ChangeByHand, UserInv, HeldIsFinite
  <2>4. CASE CreateTable
    <3>1. product # "MySQL" /\ UNCHANGED flags /\ (grants = {} => grants' = {})
      BY <2>4 DEF CreateTable
    <3> QED
      BY <1>1, <3>1 DEF RoleTyped, HeldIsFinite, UserInv, TypeOK
  <2>5. CASE RoleCreatesObject
    <3>1. role # NoRole /\ UNCHANGED flags
      BY <2>5 DEF RoleCreatesObject, UserInv, TypeOK
    <3>2. IsFiniteSet(grants) => IsFiniteSet(grants')
      BY <2>5, FS_AddElement DEF RoleCreatesObject
    <3> QED
      BY <1>1, <2>2, <3>1, <3>2 DEF UserInv, HeldIsFinite
  <2> QED
    BY <2>1, <2>3, <2>4, <2>5
<1> QED
  BY <1>1, <1>4, <1>5, OutsideKeepsInv

LEMMA WatchStep ==
  ASSUME UserInv, WatchEvent
  PROVE  UserInv'
<1> USE TypedCopies DEF reconcileVars, secretVars, roleVars, worldVars, WatchEvent
<1>1. VersionChain'
  BY ChainWatch DEF UserInv, VersionChain
<1>2. TypeOK'
  BY DEF UserInv, TypeOK
<1>3. InMemory' = InMemory
  BY DEF InMemory
<1> QED
  BY <1>1, <1>2, <1>3 DEF UserInv, SpecsAreWritten, StepKnows, WorkIsPlanned, HeldIsFinite,
     ClaimedRoleExists, ReleasedRoleIsGone

LEMMA UserInvStep == UserInv /\ [Next]_vars => UserInv'
<1> SUFFICES ASSUME UserInv, [Next]_vars PROVE UserInv'
  OBVIOUS
<1>1. CASE LoadObjFails
  <2>1. step # "idle" /\ Return(TRUE) /\ Fault /\ UNCHANGED <<crVars, secretVars, roleVars, worldVars>>
    BY <1>1 DEF LoadObjFails
  <2> QED
    BY <2>1, SecretsStay, GivesUp
<1>2. CASE Restart
  BY <1>2, StartAgainKeepsInv DEF Restart
<1>3. CASE Reconcile
  BY <1>1, <1>3, LoadObjStep, GenerateSecretStep, CreateUserStep, NotifyStep, BeginStep,
     NextEntryStep, GiveUpStep, ExecuteStep, EnsureFinalizerStep, RemoveFinalizerStep DEF Reconcile
<1>4. CASE Environment
  BY <1>4, UserStep, WatchStep, OutsideStep DEF Environment
<1> QED
  BY <1>2, <1>3, <1>4, LoadStep, OutsideStep DEF Next

LEMMA UserInvInit == Init => UserInv
<1> SUFFICES ASSUME Init PROVE UserInv
  OBVIOUS
<1>1. Absent.uid = 0 /\ Absent.rv = 0 /\ ~Absent.live /\ ~Absent.del /\ ~Absent.fin
  BY DEF Absent
<1>2. released.uid = 0 /\ released.dropped = FALSE /\ step = "idle"
  BY DEF Init
<1>3. TypeOK
  <2>1. {secret, secretCached} \subseteq {NoSecret} \cup Passwords
    BY DEF Init, NoSecret, Passwords
  <2>2. role = NoRole /\ grants = {} /\ flags = {} /\ 0 \in 0..MaxFaults
    BY BoundAssumption DEF Init
  <2> QED
    BY <2>1, <2>2, AbsentIsCR DEF Init, TypeOK, Steps
<1>4. VersionChain
  BY <1>1, <1>2, ChainStarts DEF Init, VersionChain
<1>5. HeldIsFinite
  BY FS_EmptySet DEF Init, HeldIsFinite
<1>6. ClaimedRoleExists /\ ReleasedRoleIsGone
  BY <1>1, <1>2 DEF Init, ClaimedRoleExists, ReleasedRoleIsGone
<1> QED
  BY <1>2, <1>3, <1>4, <1>5, <1>6, AbsentIsWritten
     DEF Init, UserInv, SpecsAreWritten, StepKnows, WorkIsPlanned

-----------------------------------------------------------------------------
(* CRs stay CRs, statements are pending only while UpdateUserPrivs or      *)
(* DropUser runs, and who has no role holds nothing.                       *)
THEOREM UserTypeCorrect == Spec => []TypeOK
<1>1. UserInv => TypeOK
  BY DEF UserInv
<1> QED
  BY <1>1, UserInvInit, UserInvStep, PTL DEF Spec

(* The role of an unmarked CR with the finalizer exists, on every product, *)
(* whatever statements were refused, lost or interrupted: no update drops  *)
(* it, and no stale reconcile of a marked CR can still be under way.       *)
(* (CreateObj before EnsureFinalizer, DropUser before RemoveFinalizer.)    *)
THEOREM ClaimedRoleExistsHolds == Spec => []ClaimedRoleExists
<1>1. UserInv => ClaimedRoleExists
  BY DEF UserInv
<1> QED
  BY <1>1, UserInvInit, UserInvStep, PTL DEF Spec

(* A CR with drop_on_deletion that was released with its parents in place  *)
(* leaves no role behind: every plan of DropUser ends with DROP USER or    *)
(* with an error.  (RemoveObj before RemoveFinalizer.)                     *)
THEOREM ReleasedRoleIsGoneHolds == Spec => []ReleasedRoleIsGone
<1>1. UserInv => ReleasedRoleIsGone
  BY DEF UserInv
<1> QED
  BY <1>1, UserInvInit, UserInvStep, PTL DEF Spec
=============================================================================
