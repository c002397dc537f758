-------------------------- MODULE SchemaController --------------------------
(***************************************************************************)
(* The Schema controller (controllers/schema_controller.go) for one custom *)
(* resource, driven by Reco.Reconcile.  It keeps a schema in a database    *)
(* that a Db CR stands for, on a server a DbServer CR stands for, on behalf*)
(* of a creator a User CR stands for: any of the three may be missing.     *)
(*                                                                         *)
(* Each call that reads or changes something outside the process is a step *)
(* of its own.                                                             *)
(***************************************************************************)
EXTENDS Reco

CONSTANTS
    Products,     \* database products: "PostgreSQL", "CockroachDB", "MySQL"
    CrName,       \* metadata.name of the CR
    Specs,        \* what users write: records [name, drop, cascade, creator]
    LostReplies,  \* may a failed call have taken effect?
    MaxUid,       \* bound: incarnations of the CR
    MaxEditRv,    \* bound: users edit the spec only below this version
    MaxFaults     \* bound: failed calls, restarts and changes by hand

ASSUME SpecAssumption ==
    Specs \subseteq [name : STRING, drop : BOOLEAN, cascade : BOOLEAN, creator : BOOLEAN]
ASSUME BoundAssumption == MaxUid \in Nat /\ MaxEditRv \in Nat /\ MaxFaults \in Nat

VARIABLES
    product,   \* what kind of server it is; never changes
    cr,        \* the CR as the API server stores it
    cached,    \* the CR as the watch cache shows it
    queued,    \* is its key in the work queue?
    step,      \* the step of its reconcile
    snap,      \* SchemaReco.schema: the CR in memory
    conn,      \* is SchemaReco.conn set?
    base,      \* does the database exist on the server?
    schemas,   \* its schemas
    full,      \* those that hold something
    missing,   \* which CR the Schema refers to is not in the cache
    released,  \* history: the last release of the CR
    faults     \* failures so far

vars == <<product, cr, cached, queued, step, snap, conn, base, schemas, full, missing,
          released, faults>>

crVars        == <<cr, cached, released>>
reconcileVars == <<step, snap, conn>>
dbVars        == <<base, schemas, full>>
worldVars     == <<product, missing>>

NoSpec == [name |-> "", drop |-> FALSE, cascade |-> FALSE, creator |-> FALSE]

Absent == [live |-> FALSE, uid |-> 0, rv |-> 0, del |-> FALSE, fin |-> FALSE,
           other |-> FALSE, spec |-> NoSpec, created |-> FALSE]

CR == [live : BOOLEAN, uid : Nat, rv : Nat, del : BOOLEAN, fin : BOOLEAN,
       other : {FALSE}, spec : Specs \cup {NoSpec}, created : BOOLEAN]

Names == {CrName} \cup {s.name : s \in Specs}

Parents == {"db", "server", "creator"}

Steps == {"idle", "orphaned", "loadObj", "abandon", "statusSeen", "createObj",
          "statusCreated", "ensureFinalizer", "removeObj", "removeFinalizer"}

(* Between two reconciles no connection is open: CleanupConn is deferred.  *)
TypeOK ==
    /\ product \in Products
    /\ cr \in CR /\ cached \in CR /\ snap \in CR
    /\ queued \in BOOLEAN
    /\ step \in Steps
    /\ conn \in BOOLEAN
    /\ (step = "idle" => ~conn /\ snap = Absent)
    /\ base \in BOOLEAN
    /\ full \subseteq schemas /\ schemas \subseteq Names
    /\ (base \/ schemas = {})
    /\ missing \in Parents \cup {"nothing"}
    /\ released \in [uid : Nat, name : Names \cup {""}, dropped : BOOLEAN]
    /\ faults \in Nat

(* No CR yet.  Schemas made by hand may exist and will be adopted.         *)
Init ==
    /\ product \in Products
    /\ cr = Absent /\ cached = Absent /\ snap = Absent
    /\ queued = FALSE
    /\ step = "idle" /\ conn = FALSE
    /\ base = TRUE /\ schemas \in SUBSET Names /\ full = {}
    /\ missing = "nothing"
    /\ released = [uid |-> 0, name |-> "", dropped |-> FALSE]
    /\ faults = 0

-----------------------------------------------------------------------------
(* Leaving a step.                                                         *)

Goto(next) == step' = next /\ UNCHANGED <<queued, snap, conn>>

(* Faulty: the connection stays open.                                      *)
ReturnWithoutCleanup(again) ==
    /\ step' = "idle" /\ snap' = Absent /\ conn' = conn
    /\ queued' = (queued \/ again)

(* Reconcile returns; again: it asks for another try.                      *)
Return(again) ==
    /\ step' = "idle" /\ snap' = Absent /\ conn' = FALSE
    /\ queued' = (queued \/ again)

Fault == /\ faults < MaxFaults
         /\ faults' = faults + 1

(* The process stops and starts again: the cache is listed afresh, and an  *)
(* object that exists is queued.                                           *)
Restart ==
    /\ Fault
    /\ step' = "idle" /\ snap' = Absent /\ conn' = FALSE
    /\ cached' = cr
    /\ queued' = cr.live
    /\ UNCHANGED <<worldVars, cr, dbVars, released>>

-----------------------------------------------------------------------------
(* One reconcile.                                                          *)

(* Faulty: a missing Db makes the CR wait, marked or not.                  *)
LoadCRWaitsForDb ==
    /\ queued /\ step = "idle"
    /\ IF cached.live /\ missing # "db"
       THEN queued' = FALSE /\ step' = "loadObj" /\ snap' = cached
       ELSE queued' = cached.live /\ UNCHANGED <<step, snap>>
    /\ UNCHANGED <<crVars, conn, dbVars, worldVars, faults>>

(* The CR and the Db CR are read from the cache.                           *)
LoadCR ==
    /\ queued /\ step = "idle"
    /\ IF cached.live /\ (missing # "db" \/ cached.del)
       THEN /\ queued' = FALSE
            /\ step' = IF missing = "db" THEN "orphaned" ELSE "loadObj"
            /\ snap' = cached
       ELSE queued' = cached.live /\ UNCHANGED <<step, snap>>
    /\ UNCHANGED <<crVars, conn, dbVars, worldVars, faults>>

(* The accepted update that takes the finalizer off the CR in memory.      *)
(* dropped: after a look at the database.                                  *)
Release ==
    /\ UpToDate(cr, snap)
    /\ cr' = Put(cr, WithoutFinalizer(snap))
    /\ released' = IF snap.fin
                   THEN [uid |-> snap.uid, name |-> snap.spec.name,
                         dropped |-> snap.spec.drop /\ conn]
                   ELSE released

(* A marked CR whose Db is gone: LoadCR takes the finalizer off and, having*)
(* succeeded, lets the reconcile go on with what is left of the CR.        *)
ReleaseOrphan ==
    /\ step = "orphaned"
    /\ \/ /\ Release
          /\ step' = "loadObj" /\ snap' = cr'
          /\ UNCHANGED <<queued, conn>>
       \/ /\ ~UpToDate(cr, snap)
          /\ Return(TRUE)
          /\ UNCHANGED <<cr, released>>
    /\ UNCHANGED <<cached, dbVars, worldVars, faults>>

ReleaseOrphanFails ==
    /\ step = "orphaned"
    /\ Fault
    /\ \/ UNCHANGED <<cr, released>>
       \/ LostReplies /\ Release
    /\ Return(TRUE)
    /\ UNCHANGED <<cached, dbVars, worldVars>>

(* What Reconcile does next; EnsureCorrect does nothing for a Schema.      *)
Following(exists) ==
    LET next == Dispatch(snap, exists)
    IN  IF next = "ensureCorrect" THEN "ensureFinalizer" ELSE next

(* The reconcile goes on, with or without a connection.                    *)
Continue(next, connected) ==
    IF next = "idle" THEN Return(FALSE)
    ELSE step' = next /\ conn' = connected /\ UNCHANGED <<queued, snap>>

(* LoadObj cannot get at the schemas: MySQL has none, or the database is   *)
(* not there.                                                              *)
NoSchemas == product = "MySQL" \/ ~base

NoCreator == missing = "creator" /\ snap.spec.creator

(* What LoadObj returns leads to next, except where it finds no schemas to *)
(* look at.                                                                *)
LoadObjAndGo(next) ==
    CASE missing = "server" -> Continue(Following(FALSE), FALSE)
      [] NoCreator -> IF snap.del THEN Goto("abandon") ELSE Return(TRUE)
      [] missing # "server" /\ ~NoCreator /\ NoSchemas -> Return(TRUE)
      [] OTHER -> Continue(next, TRUE)


(* Without its DbServer the schema counts as absent; without its creator a *)
(* marked CR is let go.                                                    *)
LoadObj ==
    /\ step = "loadObj"
    /\ LET exists == snap.spec.name \in schemas
       IN  LoadObjAndGo(IF exists /\ ~snap.created THEN "statusSeen" ELSE Following(exists))
    /\ UNCHANGED <<crVars, dbVars, worldVars, faults>>

(* No connection, failing GetSchemas, several DbServers to choose from.    *)
LoadObjFails ==
    /\ step = "loadObj"
    /\ Fault
    /\ Return(TRUE)
    /\ UNCHANGED <<crVars, dbVars, worldVars>>

AfterStatus == IF step = "statusSeen" THEN Following(TRUE) ELSE "ensureFinalizer"

(* The status in memory changes whether or not the update is accepted.     *)
Believe(o) ==
    LET next == AfterStatus
    IN  IF next = "idle" THEN Return(FALSE)
        ELSE step' = next /\ snap' = o /\ UNCHANGED <<queued, conn>>

(* SetStatus, whose error both callers drop.                               *)
SetStatus ==
    /\ step \in {"statusSeen", "statusCreated"}
    /\ LET told == [snap EXCEPT !.created = TRUE]
       IN  IF UpToDate(cr, snap)
           THEN cr' = Stored(told) /\ Believe(cr')
           ELSE Believe(told) /\ UNCHANGED cr
    /\ UNCHANGED <<cached, released, dbVars, worldVars, faults>>

SetStatusFails ==
    /\ step \in {"statusSeen", "statusCreated"}
    /\ Fault
    /\ LET told == [snap EXCEPT !.created = TRUE]
       IN  /\ \/ UNCHANGED cr
              \/ LostReplies /\ UpToDate(cr, snap) /\ cr' = Stored(told)
           /\ Believe(told)
    /\ UNCHANGED <<cached, released, dbVars, worldVars>>

(* CREATE SCHEMA fails if the schema is there.                             *)
CreateObj ==
    /\ step = "createObj"
    /\ IF conn /\ base /\ snap.spec.name \notin schemas
       THEN /\ schemas' = schemas \cup {snap.spec.name}
            /\ Goto(IF snap.created THEN "ensureFinalizer" ELSE "statusCreated")
       ELSE UNCHANGED schemas /\ Return(TRUE)
    /\ UNCHANGED <<crVars, base, full, worldVars, faults>>

CreateObjFails ==
    /\ step = "createObj" /\ conn
    /\ Fault
    /\ \/ UNCHANGED schemas
       \/ LostReplies /\ base /\ schemas' = schemas \cup {snap.spec.name}
    /\ Return(TRUE)
    /\ UNCHANGED <<crVars, base, full, worldVars>>

EnsureFinalizer ==
    /\ step = "ensureFinalizer"
    /\ \/ /\ snap.fin
          /\ Return(FALSE)
          /\ UNCHANGED cr
       \/ /\ ~snap.fin /\ UpToDate(cr, snap)
          /\ cr' = Put(cr, WithFinalizer(snap))
          /\ Return(FALSE)
       \/ /\ ~snap.fin /\ ~UpToDate(cr, snap)
          /\ Return(TRUE)
          /\ UNCHANGED cr
    /\ UNCHANGED <<cached, released, dbVars, worldVars, faults>>

EnsureFinalizerFails ==
    /\ step = "ensureFinalizer" /\ ~snap.fin
    /\ Fault
    /\ \/ UNCHANGED cr
       \/ /\ LostReplies /\ UpToDate(cr, snap)
          /\ cr' = Put(cr, WithFinalizer(snap))
    /\ Return(TRUE)
    /\ UNCHANGED <<cached, released, dbVars, worldVars>>

(* DropSchema does not succeed: CASCADE is for CockroachDB only, and the   *)
(* server wants a schema that exists and, without CASCADE, is empty.  The  *)
(* name is that of the CR, not spec.name.                                  *)
DropRefused(spec) ==
    \/ spec.cascade /\ product # "CockroachDB"
    \/ CrName \notin schemas
    \/ CrName \in full /\ ~spec.cascade

Dropped == schemas' = schemas \ {CrName} /\ full' = full \ {CrName}

(* Faulty: the error of DROP SCHEMA is swallowed.                          *)
RemoveObjErrorIgnored ==
    /\ step = "removeObj"
    /\ Goto("removeFinalizer")
    /\ IF snap.spec.drop /\ ~DropRefused(snap.spec) THEN Dropped ELSE UNCHANGED <<schemas, full>>
    /\ UNCHANGED <<crVars, base, worldVars, faults>>

RemoveObj ==
    /\ step = "removeObj"
    /\ \/ /\ ~snap.spec.drop
          /\ Goto("removeFinalizer")
          /\ UNCHANGED <<schemas, full>>
       \/ /\ snap.spec.drop /\ ~DropRefused(snap.spec)
          /\ Dropped
          /\ Goto("removeFinalizer")
       \/ /\ snap.spec.drop /\ DropRefused(snap.spec)
          /\ Return(TRUE)
          /\ UNCHANGED <<schemas, full>>
    /\ UNCHANGED <<crVars, base, worldVars, faults>>

RemoveObjFails ==
    /\ step = "removeObj" /\ snap.spec.drop
    /\ Fault
    /\ \/ UNCHANGED <<schemas, full>>
       \/ LostReplies /\ ~DropRefused(snap.spec) /\ Dropped
    /\ Return(TRUE)
    /\ UNCHANGED <<crVars, base, worldVars>>

(* In the abandon branch nobody looks at the error.                        *)
RemoveFinalizer ==
    /\ step \in {"removeFinalizer", "abandon"}
    /\ \/ /\ Release
          /\ Return(FALSE)
       \/ /\ ~UpToDate(cr, snap)
          /\ Return(step # "abandon")
          /\ UNCHANGED <<cr, released>>
    /\ UNCHANGED <<cached, dbVars, worldVars, faults>>

RemoveFinalizerFails ==
    /\ step \in {"removeFinalizer", "abandon"}
    /\ Fault
    /\ \/ UNCHANGED <<cr, released>>
       \/ LostReplies /\ Release
    /\ Return(step # "abandon")
    /\ UNCHANGED <<cached, dbVars, worldVars>>

Reconcile ==
    \/ ReleaseOrphan \/ ReleaseOrphanFails
    \/ LoadObj \/ LoadObjFails
    \/ SetStatus \/ SetStatusFails
    \/ CreateObj \/ CreateObjFails
    \/ EnsureFinalizer \/ EnsureFinalizerFails
    \/ RemoveObj \/ RemoveObjFails
    \/ RemoveFinalizer \/ RemoveFinalizerFails

-----------------------------------------------------------------------------
(* The cluster around the operator.                                        *)

UserCreates ==
    /\ ~cr.live /\ cr.uid < MaxUid
    /\ \E s \in Specs :
           cr' = [Absent EXCEPT !.live = TRUE, !.uid = cr.uid + 1, !.rv = cr.rv + 1, !.spec = s]
    /\ UNCHANGED <<cached, released, queued, reconcileVars, dbVars, worldVars, faults>>

UserDeletes ==
    /\ cr.live /\ ~cr.del
    /\ cr' = Deleted(cr)
    /\ UNCHANGED <<cached, released, queued, reconcileVars, dbVars, worldVars, faults>>

UserEdits ==
    /\ cr.live /\ cr.rv < MaxEditRv
    /\ \E s \in Specs \ {cr.spec} : cr' = Stored([cr EXCEPT !.spec = s])
    /\ UNCHANGED <<cached, released, queued, reconcileVars, dbVars, worldVars, faults>>

WatchEvent ==
    /\ cached # cr
    /\ cached' = cr
    /\ queued' = TRUE
    /\ UNCHANGED <<cr, released, reconcileVars, dbVars, worldVars, faults>>

(* The periodic resync of the informer, every ten hours.                   *)
Resync ==
    /\ cached.live /\ ~queued
    /\ queued' = TRUE
    /\ UNCHANGED <<crVars, reconcileVars, dbVars, worldVars, faults>>

(* The CRs a Schema refers to come and go, one at a time.                  *)
ParentsComeAndGo ==
    /\ missing' \in Parents \cup {"nothing"}
    /\ (missing = "nothing") # (missing' = "nothing")
    /\ UNCHANGED <<product, crVars, queued, reconcileVars, dbVars, faults>>

(* The Db controller drops the database on its way out, and creates it.    *)
DatabaseComesAndGoes ==
    /\ base = (missing = "db")
    /\ base' = ~base /\ schemas' = {} /\ full' = {}
    /\ UNCHANGED <<crVars, queued, reconcileVars, worldVars, faults>>

(* Applications fill a schema and empty it.                                *)
ContentsChange ==
    /\ full' \in {schemas, {}} \ {full}
    /\ UNCHANGED <<crVars, queued, reconcileVars, base, schemas, worldVars, faults>>

(* Somebody drops the schema by hand.                                      *)
DroppedByHand ==
    /\ Fault
    /\ \E n \in schemas : schemas' = schemas \ {n} /\ full' = full \ {n}
    /\ UNCHANGED <<crVars, queued, reconcileVars, base, worldVars>>

Environment ==
    \/ UserCreates \/ UserDeletes \/ UserEdits
    \/ WatchEvent \/ Resync
    \/ ParentsComeAndGo \/ DatabaseComesAndGoes \/ ContentsChange \/ DroppedByHand

Next == LoadCR \/ Reconcile \/ Restart \/ Environment

Spec == Init /\ [][Next]_vars

(* A started reconcile returns, a queued key is taken, events and the      *)
(* resync arrive.  Nothing is assumed of users, applications, other        *)
(* controllers, failures or restarts.                                      *)
FairSpec ==
    /\ Spec
    /\ []<>(step = "idle")
    /\ WF_vars(LoadCR) /\ WF_vars(WatchEvent) /\ WF_vars(Resync)

-----------------------------------------------------------------------------
(* Properties.                                                             *)

(* Once the operator, connected to the database, took the finalizer off a  *)
(* CR with drop_on_deletion, its schema is gone, whatever was dropped,     *)
(* edited or interrupted in between.  (RemoveObj before RemoveFinalizer.   *)
(* Only for a CR with the name of its schema: RemoveObj drops by CR name.) *)
ReleasedSchemaIsGone ==
    released.dropped /\ released.name = CrName /\ cr.uid = released.uid
    => CrName \notin schemas

(* If a CR stays, and the CRs and the database it needs stay, then in the  *)
(* end its schema exists, and the CR carries the finalizer and             *)
(* status.created, although SetStatus failures are dropped and may leave a *)
(* stale version in memory.  (LoadObj, CreateObj, SetStatus.)              *)
StayingIsProvided ==
    <>[](product # "MySQL" /\ cr.live /\ ~cr.del /\ missing = "nothing" /\ base)
    => <>[](step = "idle" => cr.spec.name \in schemas /\ cr.fin /\ cr.created)

(* The parents stop coming and going.                                      *)
ParentsSettle ==
    \E m \in Parents \cup {"nothing"}, b \in BOOLEAN : <>[](missing = m /\ base = b)

(* RemoveObj, or LoadObj before it, cannot succeed.                        *)
HeldUp ==
    /\ cr.live /\ missing \notin {"db", "server"}
    /\ ~(missing = "creator" /\ cr.spec.creator)
    /\ \/ NoSchemas
       \/ cr.spec.drop /\ cr.spec.name \in schemas /\ DropRefused(cr.spec)

(* Marked CRs go in the end, also if the Db, the DbServer or the creator   *)
(* went before them; or DROP SCHEMA keeps being refused.  (The release in  *)
(* LoadCR, the absent schema of LoadObj, Reconcile's abandon branch,       *)
(* RemoveObj.)                                                             *)
TerminatingGoesOrHeldUp ==
    ParentsSettle => (<>[]~(cr.live /\ cr.del) \/ []<>HeldUp)
=============================================================================
