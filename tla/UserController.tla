--------------------------- MODULE UserController ---------------------------
(***************************************************************************)
(* The User controller (controllers/user_controller.go) for one custom     *)
(* resource, driven by Reco.Reconcile, on a PostgreSQL, CockroachDB or     *)
(* MySQL server.  It keeps a role with a password taken from a Secret, the *)
(* role's flags and its privileges.                                        *)
(*                                                                         *)
(* Each call that reads or changes something outside the process is a step *)
(* of its own.  A privilege update and a DROP USER are sequences of SQL    *)
(* statements with reads in between: todo holds what is left of them.      *)
(***************************************************************************)
EXTENDS Reco, Sequences, FiniteSets

CONSTANTS
    Products,      \* database products: "PostgreSQL", "CockroachDB", "MySQL"
    SpecNames,     \* SpecNames[p]: specs users write for a server of product p
    Specs,         \* Specs[s]: what the spec s says
    Database, Schemas, PublicPrivs,  \* see PgPrivs
    PrivOrder,     \* see MySqlPrivs
    Tables,        \* tables that exist at first
    NewTables,     \* tables the grantor may create later
    Drift,         \* Drift[p]: what administrators may grant or revoke by hand
    LostReplies,   \* may a failed call have taken effect?
    MaxUid,        \* bound: incarnations of the CR
    MaxEditRv,     \* bound: users edit the spec only below this version
    MaxFaults      \* bound: failed calls, restarts and changes by hand

(* Specs as the CRD admits them: db_privs is a list, and a list of MySQL   *)
(* privileges, or of columns, is finite.                                   *)
WellTyped(p, spec) ==
    /\ spec.drop \in BOOLEAN
    /\ spec.entries \in Seq({spec.entries[i] : i \in DOMAIN spec.entries})
    /\ p = "MySQL" =>
           \A privs \in {spec.server} \cup {spec.entries[i].privs : i \in DOMAIN spec.entries} :
               IsFiniteSet(privs) /\ \A piece \in privs : IsFiniteSet(piece.cols)

ASSUME BoundAssumption == MaxUid \in Nat /\ MaxFaults \in Nat
ASSUME SchemasAssumption == Schemas \in Seq(STRING)
ASSUME SpecAssumption == \A p \in Products : \A s \in SpecNames[p] : WellTyped(p, Specs[s])

Pg == INSTANCE PgPrivs
My == INSTANCE MySqlPrivs

VARIABLES
    product,       \* what kind of server it is; never changes
    cr,            \* the CR as the API server stores it
    cached,        \* the CR as the watch cache shows it
    queued,        \* is its key in the work queue?
    step,          \* the step of its reconcile
    snap,          \* UserReco.user: the CR as LoadCR read it
    todo,          \* what is left of UpdateUserPrivs or DropUser
    changed,       \* has UpdateUserPrivs changed anything yet?
    secret,        \* the password in the Secret, as the API server stores it
    secretCached,  \* the same in the cache
    role,          \* the role's password on the server, or NoRole
    flags,         \* role attributes (PostgreSQL)
    grants,        \* what the role holds
    tables,        \* tables of the database
    missing,       \* which object the CR refers to is not in the cache
    released,      \* history: the last release of the CR
    faults         \* failures so far

vars == <<product, cr, cached, queued, step, snap, todo, changed, secret, secretCached,
          role, flags, grants, tables, missing, released, faults>>

crVars     == <<cr, cached, released>>
secretVars == <<secret, secretCached>>
roleVars   == <<role, flags, grants>>
workVars   == <<todo, changed>>
worldVars  == <<product, tables, missing>>

NoSecret == 0
NoRole   == 0
Passwords == 1..4

Absent == [live |-> FALSE, uid |-> 0, rv |-> 0, del |-> FALSE, fin |-> FALSE,
           other |-> FALSE, spec |-> ""]

Steps == {"idle", "loadObj", "abandon", "generateSecret", "createUser", "notifyCreated",
          "update", "notifyChanged", "ensureFinalizer", "removeObj", "notifyRemoved",
          "removeFinalizer"}

(* CRs for a server of product p.                                          *)
CR(p) == [live : BOOLEAN, uid : 0..MaxUid, rv : Nat, del : BOOLEAN, fin : BOOLEAN,
          other : {FALSE}, spec : {""} \cup SpecNames[p]]

TypeOK ==
    /\ product \in Products
    /\ {cr, cached, snap} \subseteq CR(product)
    /\ queued \in BOOLEAN /\ changed \in BOOLEAN
    /\ step \in Steps
    /\ {secret, secretCached} \subseteq {NoSecret} \cup Passwords
    /\ role \in {NoRole} \cup Passwords
    /\ (step \in {"update", "removeObj"} \/ todo = <<>>)
    /\ (role = NoRole => grants = {} /\ flags = {})
    /\ tables \subseteq Tables \cup NewTables
    /\ missing \in {"nothing", "server", "grantor"}
    /\ released \in [uid : Nat, dropped : BOOLEAN]
    /\ faults \in 0..MaxFaults

(* No CR yet.  The Secret may have been written by hand.                   *)
Init ==
    /\ product \in Products
    /\ cr = Absent /\ cached = Absent /\ snap = Absent
    /\ queued = FALSE
    /\ step = "idle"
    /\ todo = <<>> /\ changed = FALSE
    /\ secret \in {NoSecret, 1} /\ secretCached = secret
    /\ role = NoRole /\ flags = {} /\ grants = {}
    /\ tables = Tables
    /\ missing = "nothing"
    /\ released = [uid |-> 0, dropped |-> FALSE]
    /\ faults = 0

-----------------------------------------------------------------------------
(* Leaving a step.                                                         *)

InMemory == Specs[snap.spec]  \* the spec in memory

Goto(next) == step' = next /\ UNCHANGED <<queued, snap, todo, changed>>

(* Reconcile returns; again: it asks for another try.                      *)
Return(again) ==
    /\ step' = "idle"
    /\ snap' = Absent
    /\ todo' = <<>> /\ changed' = FALSE
    /\ queued' = (queued \/ again)

Fault == /\ faults < MaxFaults
         /\ faults' = faults + 1

(* The process stops and starts again: caches are listed afresh, and every *)
(* object that exists is queued.                                           *)
StartAgain ==
    /\ step' = "idle" /\ snap' = Absent /\ todo' = <<>> /\ changed' = FALSE
    /\ cached' = cr /\ secretCached' = secret
    /\ queued' = cr.live

Restart ==
    /\ Fault
    /\ StartAgain
    /\ UNCHANGED <<product, cr, secret, roleVars, tables, missing, released>>

-----------------------------------------------------------------------------
(* One reconcile.                                                          *)

LoadCR ==
    /\ queued /\ step = "idle"
    /\ queued' = FALSE
    /\ IF cached.live THEN step' = "loadObj" /\ snap' = cached
                      ELSE UNCHANGED <<step, snap>>
    /\ UNCHANGED <<crVars, secretVars, roleVars, workVars, worldVars, faults>>

(* GetGrantorNamesFromDbPrivs is not empty.                                *)
NeedsGrantor(spec) ==
    \E i \in DOMAIN spec.entries :
        "grantor" \in DOMAIN spec.entries[i] /\ spec.entries[i].grantor # ""

(* The DbServer CR, or the User CR of a grantor, is not found.             *)
ParentMissing == missing = "server" \/ (missing = "grantor" /\ NeedsGrantor(InMemory))

(* A marked CR whose parent is missing is let go.                          *)
LoadObj ==
    /\ step = "loadObj"
    /\ CASE ParentMissing -> IF snap.del THEN Goto("abandon") ELSE Return(TRUE)
         [] OTHER ->
              LET next == Dispatch(snap, role # NoRole)
              IN  CASE next = "idle" -> Return(FALSE)
                    [] next = "createObj" ->
                         Goto(IF InMemory.gen THEN "generateSecret" ELSE "createUser")
                    [] next = "ensureCorrect" -> Goto("update")
                    [] OTHER -> Goto(next)
    /\ UNCHANGED <<crVars, secretVars, roleVars, worldVars, faults>>

(* No connection, failing GetUsers, several DbServers to choose from, a    *)
(* grantor without a Secret.                                               *)
LoadObjFails ==
    /\ step = "loadObj"
    /\ Fault
    /\ Return(TRUE)
    /\ UNCHANGED <<crVars, secretVars, roleVars, worldVars>>

(* A password nobody has seen before.                                      *)
Generated == CHOOSE p \in Passwords : p \notin {secret, secretCached, role}

(* Faulty: a password is generated even if there is one.                   *)
GenerateSecretAlways ==
    /\ step = "generateSecret"
    /\ secret' = Generated
    /\ Goto("createUser")
    /\ UNCHANGED <<crVars, secretCached, roleVars, worldVars, faults>>

(* A Secret the cache shows will do; one it does not show yet makes Create *)
(* fail.                                                                   *)
GenerateSecret ==
    /\ step = "generateSecret"
    /\ CASE secretCached # NoSecret -> Goto("createUser") /\ UNCHANGED secret
         [] secretCached = NoSecret /\ secret = NoSecret ->
              secret' = Generated /\ Goto("createUser")
         [] OTHER -> Return(TRUE) /\ UNCHANGED secret
    /\ UNCHANGED <<crVars, secretCached, roleVars, worldVars, faults>>

GenerateSecretFails ==
    /\ step = "generateSecret" /\ secretCached = NoSecret /\ secret = NoSecret
    /\ Fault
    /\ \/ UNCHANGED secret
       \/ LostReplies /\ secret' = Generated
    /\ Return(TRUE)
    /\ UNCHANGED <<crVars, secretCached, roleVars, worldVars>>

RoleCreated ==
    /\ role' = secretCached
    /\ flags' = IF product = "MySQL" THEN {} ELSE {"LOGIN", "INHERIT"}
    /\ UNCHANGED grants

(* Faulty: a user without a password if there is no Secret.                *)
CreateUserUnchecked ==
    /\ step = "createUser"
    /\ RoleCreated
    /\ Goto("notifyCreated")
    /\ UNCHANGED <<crVars, secretVars, worldVars, faults>>

(* GetUserCredentials reads the cache, too.                                *)
CreateUser ==
    /\ step = "createUser"
    /\ IF secretCached = NoSecret THEN Return(TRUE) /\ UNCHANGED roleVars
                                  ELSE RoleCreated /\ Goto("notifyCreated")
    /\ UNCHANGED <<crVars, secretVars, worldVars, faults>>

(* Faulty: the error of CREATE USER is swallowed.                          *)
CreateUserErrorIgnored ==
    /\ step = "createUser" /\ secretCached # NoSecret
    /\ Fault
    /\ Goto("ensureFinalizer")
    /\ UNCHANGED <<crVars, secretVars, roleVars, worldVars>>

CreateUserFails ==
    /\ step = "createUser" /\ secretCached # NoSecret
    /\ Fault
    /\ \/ UNCHANGED roleVars
       \/ LostReplies /\ RoleCreated
    /\ Return(TRUE)
    /\ UNCHANGED <<crVars, secretVars, worldVars>>

AfterNotify == CASE step = "notifyCreated" -> "update"
                 [] step = "notifyChanged" -> "ensureFinalizer"
                 [] step = "notifyRemoved" -> "removeFinalizer"

(* An event for the DbServer controller, whose queue is not part of this   *)
(* module (see DbOperator).  NotifyChanges goes on without a DbServer: the *)
(* event then carries no object, and the goroutine that receives it brings *)
(* the process down.                                                       *)
NotifyChanges ==
    /\ step \in {"notifyCreated", "notifyChanged", "notifyRemoved"}
    /\ IF missing = "server"
       THEN StartAgain
       ELSE Goto(AfterNotify) /\ UNCHANGED <<cached, secretCached>>
    /\ UNCHANGED <<product, cr, secret, roleVars, tables, missing, released, faults>>

-----------------------------------------------------------------------------
(* UpdateUserPrivs and DropUser.                                           *)

(* todo becomes rest; with nothing left the call returns.                  *)
Proceed(rest, change) ==
    /\ todo' = rest
    /\ changed' = (change /\ rest # <<>>)
    /\ step' = CASE rest # <<>> -> step
                 [] rest = <<>> /\ step = "removeObj" -> "notifyRemoved"
                 [] OTHER -> IF change THEN "notifyChanged" ELSE "ensureFinalizer"
    /\ UNCHANGED <<queued, snap>>

(* The first reads of UpdateUserPrivs, and of DropUser.                    *)
Plans ==
    CASE step = "update" /\ product = "MySQL" -> My!UpdateUserPrivs(InMemory, grants)
      [] step = "update" /\ product # "MySQL" -> {Pg!UpdateUserPrivs(InMemory, flags)}
      [] step = "removeObj" /\ ~InMemory.drop -> {<<>>}
      [] step = "removeObj" /\ InMemory.drop /\ product = "MySQL" -> {My!DropUser(InMemory)}
      [] OTHER -> {Pg!DropUser(InMemory, grants)}

Begin ==
    /\ step \in {"update", "removeObj"} /\ todo = <<>>
    /\ \E plan \in Plans : Proceed(plan, FALSE)
    /\ UNCHANGED <<crVars, secretVars, roleVars, worldVars, faults>>

(* The next entry of spec.db_privs is looked at.                           *)
NextEntry ==
    /\ todo # <<>> /\ Head(todo).op \in {"reconcile", "revokeEntry"}
    /\ Proceed(Pg!Expand(Head(todo), product, grants, tables) \o Tail(todo), changed)
    /\ UNCHANGED <<crVars, secretVars, roleVars, worldVars, faults>>

(* An error found before anything is sent, or a panic.                     *)
GiveUp ==
    /\ todo # <<>> /\ Head(todo).op \in {"reject", "panic"}
    /\ IF Head(todo).op = "panic"
       THEN StartAgain
       ELSE Return(TRUE) /\ UNCHANGED <<cached, secretCached>>
    /\ UNCHANGED <<product, cr, secret, roleVars, tables, missing, released, faults>>

IsStatement == todo # <<>> /\ Head(todo).op \in
                   {"alter", "grant", "revoke", "dropOwned", "reassign", "dropUser"}

Refused == IF product = "MySQL" THEN My!Refuses(Head(todo))
                                ELSE Pg!Refuses(Head(todo), grants, tables)

(* Errors of REVOKE are not looked at on MySQL.                            *)
ErrorIgnored == product = "MySQL" /\ Head(todo).op = "revoke"

Effect ==
    LET s == Head(todo)
    IN  /\ grants' = IF product = "MySQL" THEN My!Executed(s, grants)
                                          ELSE Pg!Executed(s, grants, tables)
        /\ flags' = CASE s.op = "alter"    -> (flags \cup s.on) \ s.off
                      [] s.op = "dropUser" -> {}
                      [] OTHER             -> flags
        /\ role' = IF s.op = "dropUser" THEN NoRole ELSE role

(* Faulty: a refused DROP USER counts as done.                             *)
ExecuteIgnoringErrors ==
    /\ IsStatement
    /\ IF Refused THEN Proceed(Tail(todo), changed) /\ UNCHANGED roleVars
                  ELSE Effect /\ Proceed(Tail(todo), TRUE)
    /\ UNCHANGED <<crVars, secretVars, worldVars, faults>>

Execute ==
    /\ IsStatement
    /\ IF Refused THEN Return(TRUE) /\ UNCHANGED roleVars
                  ELSE Effect /\ Proceed(Tail(todo), TRUE)
    /\ UNCHANGED <<crVars, secretVars, worldVars, faults>>

ExecuteFails ==
    /\ step \in {"update", "removeObj"}
    /\ Fault
    /\ \/ UNCHANGED roleVars
       \/ LostReplies /\ IsStatement /\ ~Refused /\ Effect
    /\ IF IsStatement /\ ErrorIgnored THEN Proceed(Tail(todo), TRUE) ELSE Return(TRUE)
    /\ UNCHANGED <<crVars, secretVars, worldVars>>

-----------------------------------------------------------------------------
(* The finalizer.                                                          *)

EnsureFinalizer ==
    /\ step = "ensureFinalizer"
    /\ \/ /\ snap.fin
          /\ Return(FALSE)
          /\ UNCHANGED cr
       \/ /\ ~snap.fin /\ UpToDate(cr, snap)
          /\ cr' = Put(cr, WithFinalizer(snap))
          /\ Return(FALSE)
       \/ /\ ~snap.fin /\ ~UpToDate(cr, snap)
          /\ Return(TRUE)
          /\ UNCHANGED cr
    /\ UNCHANGED <<cached, released, secretVars, roleVars, worldVars, faults>>

EnsureFinalizerFails ==
    /\ step = "ensureFinalizer" /\ ~snap.fin
    /\ Fault
    /\ \/ UNCHANGED cr
       \/ /\ LostReplies /\ UpToDate(cr, snap)
          /\ cr' = Put(cr, WithFinalizer(snap))
    /\ Return(TRUE)
    /\ UNCHANGED <<cached, released, secretVars, roleVars, worldVars>>

(* The accepted update that takes the finalizer off the CR that was read.  *)
(* abandon: without a look at the role.                                    *)
Release ==
    /\ UpToDate(cr, snap)
    /\ cr' = Put(cr, WithoutFinalizer(snap))
    /\ released' = IF snap.fin
                   THEN [uid |-> snap.uid, dropped |-> InMemory.drop /\ step # "abandon"]
                   ELSE released

(* In the abandon branch nobody looks at the error.                        *)
RemoveFinalizer ==
    /\ step \in {"removeFinalizer", "abandon"}
    /\ \/ /\ Release
          /\ Return(FALSE)
       \/ /\ ~UpToDate(cr, snap)
          /\ Return(step # "abandon")
          /\ UNCHANGED <<cr, released>>
    /\ UNCHANGED <<cached, secretVars, roleVars, worldVars, faults>>

RemoveFinalizerFails ==
    /\ step \in {"removeFinalizer", "abandon"}
    /\ Fault
    /\ \/ UNCHANGED <<cr, released>>
       \/ LostReplies /\ Release
    /\ Return(step # "abandon")
    /\ UNCHANGED <<cached, secretVars, roleVars, worldVars>>

Reconcile ==
    \/ LoadObj \/ LoadObjFails
    \/ GenerateSecret \/ GenerateSecretFails
    \/ CreateUser \/ CreateUserFails
    \/ NotifyChanges
    \/ Begin \/ NextEntry \/ GiveUp \/ Execute \/ ExecuteFails
    \/ EnsureFinalizer \/ EnsureFinalizerFails
    \/ RemoveFinalizer \/ RemoveFinalizerFails

-----------------------------------------------------------------------------
(* The cluster around the operator.                                        *)

reconcileVars == <<step, snap, todo, changed>>

UserCreates ==
    /\ ~cr.live /\ cr.uid < MaxUid
    /\ \E s \in SpecNames[product] :
           cr' = [Absent EXCEPT !.live = TRUE, !.uid = cr.uid + 1, !.rv = cr.rv + 1, !.spec = s]
    /\ UNCHANGED <<cached, released, queued, reconcileVars, secretVars, roleVars, worldVars, faults>>

UserDeletes ==
    /\ cr.live /\ ~cr.del
    /\ cr' = Deleted(cr)
    /\ UNCHANGED <<cached, released, queued, reconcileVars, secretVars, roleVars, worldVars, faults>>

UserEdits ==
    /\ cr.live /\ cr.rv < MaxEditRv
    /\ \E s \in SpecNames[product] \ {cr.spec} : cr' = Stored([cr EXCEPT !.spec = s])
    /\ UNCHANGED <<cached, released, queued, reconcileVars, secretVars, roleVars, worldVars, faults>>

WatchEvent ==
    /\ cached # cr
    /\ cached' = cr
    /\ queued' = TRUE
    /\ UNCHANGED <<cr, released, reconcileVars, secretVars, roleVars, worldVars, faults>>

(* Secrets are cached too, but their events queue nothing.                 *)
SecretEvent ==
    /\ secretCached # secret
    /\ secretCached' = secret
    /\ UNCHANGED <<crVars, queued, reconcileVars, secret, roleVars, worldVars, faults>>

SecretDeleted ==
    /\ secret # NoSecret
    /\ Fault
    /\ secret' = NoSecret
    /\ UNCHANGED <<crVars, queued, reconcileVars, secretCached, roleVars, worldVars>>

(* The periodic resync of the informer, every ten hours.                   *)
Resync ==
    /\ cached.live /\ ~queued
    /\ queued' = TRUE
    /\ UNCHANGED <<crVars, reconcileVars, secretVars, roleVars, worldVars, faults>>

(* The DbServer CR and the grantor's User CR come and go, one at a time.   *)
ParentsComeAndGo ==
    /\ missing' \in {"nothing", "server", "grantor"}
    /\ missing = "nothing" \/ missing' \in {missing, "nothing"}
    /\ UNCHANGED <<product, crVars, queued, reconcileVars, secretVars, roleVars, tables, faults>>

(* An administrator grants or revokes something by hand.                   *)
ChangeByHand ==
    /\ role # NoRole
    /\ Fault
    /\ \E f \in Drift[product] : grants' = IF f \in grants THEN grants \ {f} ELSE grants \cup {f}
    /\ UNCHANGED <<crVars, queued, reconcileVars, secretVars, role, flags, worldVars>>

(* The grantor creates a table: default privileges take effect.            *)
CreateTable ==
    /\ product # "MySQL"
    /\ \E o \in NewTables \ tables :
           /\ tables' = tables \cup {o}
           /\ grants' = grants \cup {<<o, f[2]>> : f \in {g \in grants : g[1][1] = "default"}}
    /\ UNCHANGED <<product, missing, crVars, queued, reconcileVars, secretVars, role, flags, faults>>

(* The role, allowed to create things in the database, does so.            *)
RoleCreatesObject ==
    /\ <<<<"database", Database>>, "CREATE">> \in grants
    /\ grants' = grants \cup {<<<<"owned">>, "OWNER">>}
    /\ UNCHANGED <<crVars, queued, reconcileVars, secretVars, role, flags, worldVars,
                   faults>>

Environment ==
    \/ UserCreates \/ UserDeletes \/ UserEdits
    \/ WatchEvent \/ SecretEvent \/ SecretDeleted \/ Resync
    \/ ParentsComeAndGo \/ ChangeByHand \/ CreateTable \/ RoleCreatesObject

Next == LoadCR \/ Reconcile \/ Restart \/ Environment

Spec == Init /\ [][Next]_vars

(* A started reconcile returns, a queued key is taken, events and the      *)
(* resync arrive.  Nothing is assumed of users, administrators, other      *)
(* controllers, failures or restarts.                                      *)
FairSpec ==
    /\ Spec
    /\ []<>(step = "idle")
    /\ WF_vars(LoadCR)
    /\ WF_vars(WatchEvent) /\ WF_vars(SecretEvent) /\ WF_vars(Resync)
-----------------------------------------------------------------------------
(* Properties.                                                             *)

(* The password in the Secret is the one of the role, for as long as both  *)
(* exist: reading Secrets from a cache that lags makes generateSecret      *)
(* create none twice, and CreateUser never uses one that was replaced.     *)
PasswordAgrees == role # NoRole /\ secret # NoSecret => role = secret

(* The role of a CR that carries the finalizer and is not marked exists.   *)
(* (CreateObj before EnsureFinalizer, stale reconciles included.)          *)
ClaimedRoleExists == cr.live /\ ~cr.del /\ cr.fin => role # NoRole

(* Once the operator took the finalizer off a CR with drop_on_deletion, the*)
(* role is gone, unless a parent was missing at the time.  (RemoveObj, with*)
(* its many statements, before RemoveFinalizer.)                           *)
ReleasedRoleIsGone == released.dropped /\ cr.uid = released.uid => role = NoRole

(* An update of the privileges takes away nothing the CR it works from     *)
(* asks for, not even between two statements: who uses the role does not   *)
(* notice.  (ReconcilePrivs.  Column privileges of MySQL are excepted.)    *)
PrivsNotInterrupted ==
    [][step = "update" /\ todo' # todo =>
           LET spec == Specs[snap.spec]
               want == IF product = "MySQL" THEN My!Wanted(spec)
                                            ELSE Pg!Wanted(product, spec, tables)
           IN  product # "MySQL" \/ My!Keepable(spec) => want \cap grants \subseteq grants']_vars

(* The role holds what the CR asks for.                                    *)
Conforming ==
    LET spec == Specs[cr.spec]
    IN  IF product = "MySQL" THEN My!Keepable(spec) => grants = My!Wanted(spec)
        ELSE Pg!Conforms(product, spec, grants, flags, tables)

(* If a CR stays, its parents stay, and there is a Secret to be had, then  *)
(* in the end the role exists and holds what the CR asks for, whatever was *)
(* edited, changed by hand, refused or interrupted before.  (CreateObj,    *)
(* EnsureCorrect.)                                                         *)
PrivsSettle ==
    <>[](/\ cr.live /\ ~cr.del /\ missing = "nothing"
         /\ Specs[cr.spec].gen \/ secret # NoSecret)
    => <>[](step = "idle" => role # NoRole /\ Conforming)

(* DROP USER cannot succeed, whatever the operator tries.                  *)
HeldUp ==
    LET spec == Specs[cr.spec]
    IN  /\ cr.live /\ spec.drop
        /\ IF product = "MySQL" THEN spec.opts # {}
           ELSE Pg!CannotDrop(product, spec, grants, tables)

(* If the parents stay, marked CRs go in the end, or else the role keeps   *)
(* holding something its DROP USER options do not take away.  (DropUser,   *)
(* RevokeAllDbPrivs; tables created in between included.)                  *)
TerminatingGoesOrHeldUp ==
    <>[](missing = "nothing") => (<>[]~(cr.live /\ cr.del) \/ []<>HeldUp)
=============================================================================
