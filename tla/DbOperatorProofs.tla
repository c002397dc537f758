-------------------------- MODULE DbOperatorProofs --------------------------
(***************************************************************************)
(* The two controllers of DbOperator, running in one process, implement    *)
(* the specifications that DbController and DbServerController give of     *)
(* each of them alone, for all names, databases and bounds.                *)
(***************************************************************************)
EXTENDS DbOperator, TLAPS

-----------------------------------------------------------------------------
(* Types: what the Db controller sees of the other side is Boolean.        *)

Messages == {"unset", "", "connected", "reading databases failed", "reading users failed"}

Status == [ok : BOOLEAN, dbs : SUBSET DbNames, msg : Messages]

SrvCR == [live : BOOLEAN, uid : Nat, rv : Nat, del : BOOLEAN, fin : BOOLEAN,
          other : BOOLEAN, status : Status]

SrvTypes == /\ srv \in SrvCR /\ srvCache \in SrvCR /\ srvSnap \in SrvCR
            /\ target \in Status
            /\ retry \in BOOLEAN
            /\ srvQueue \in BOOLEAN

(* One worker: while the reconcile of a key is under way all others rest.  *)
OneWorker == \A j, k \in Db : pc[j] # "idle" /\ pc[k] # "idle" => j = k

DbTypes == /\ dbs \in SUBSET DbNames
           /\ DOMAIN pc = Db
           /\ OneWorker

OperatorInv == SrvTypes /\ DbTypes

LEMMA StatusTypes ==
  /\ S!NoStatus \in Status
  /\ S!NoServer \in SrvCR
  /\ S!NoServer.live = FALSE
<1>1. S!NoStatus \in Status
  BY DEF S!NoStatus, S!NewStatus, Status, Messages
<1> QED
  BY <1>1 DEF S!NoServer, SrvCR

(* Every value the API server stores for the DbServer is a DbServer.       *)
LEMMA SrvValues ==
  ASSUME NEW o \in SrvCR, NEW st \in Status
  PROVE  /\ S!Stored(o) \in SrvCR
         /\ S!Deleted(o) \in SrvCR
         /\ S!WithFinalizer(o) \in SrvCR
         /\ S!WithoutFinalizer(o) \in SrvCR
         /\ [o EXCEPT !.status = st] \in SrvCR
         /\ \A n \in SrvCR : S!Put(o, n) \in SrvCR
<1>1. ASSUME NEW x \in SrvCR PROVE S!Stored(x) \in SrvCR
  <2> DEFINE next == [x EXCEPT !.rv = @ + 1]
             alive == ~x.del \/ x.fin \/ x.other
  <2>1. next \in SrvCR
    BY DEF SrvCR
  <2>2. alive \in BOOLEAN
    OBVIOUS
  <2>3. S!Stored(x) = [next EXCEPT !.live = alive]
    BY DEF S!Stored
  <2> HIDE DEF next, alive
  <2> QED
    BY <2>1, <2>2, <2>3 DEF SrvCR
<1>2. [o EXCEPT !.del = TRUE] \in SrvCR
  BY DEF SrvCR
<1>3. S!Deleted(o) \in SrvCR
  BY <1>1, <1>2 DEF S!Deleted
<1>4. /\ S!WithFinalizer(o) \in SrvCR
      /\ S!WithoutFinalizer(o) \in SrvCR
      /\ [o EXCEPT !.status = st] \in SrvCR
  BY DEF S!WithFinalizer, S!WithoutFinalizer, SrvCR
<1>5. \A n \in SrvCR : S!Put(o, n) \in SrvCR
  BY <1>1 DEF S!Put
<1> QED
  BY <1>1, <1>3, <1>4, <1>5

LEMMA OperatorInvInit == Init => OperatorInv
  BY StatusTypes DEF Init, S!SrvInit, D!Init, OperatorInv, SrvTypes, DbTypes, OneWorker

(* What the DbServer controller and the owners of DbServers do keeps types.*)
LEMMA SrvStepKeeps == ASSUME OperatorInv, SrvStep PROVE OperatorInv'
<1> USE DEF OperatorInv
<1>1. DbTypes' = DbTypes
  BY DEF SrvStep, DbTypes, OneWorker, dbVars, S!SrvLoad, S!SrvReconcile, S!Connect,
         S!GetDbs, S!GetUsers, S!SetStatus, S!SrvRemoveFinalizer, S!SrvEnvironment,
         S!OwnerCreates, S!OwnerDeletes, S!SrvWatchEvent
<1>2. SrvTypes'
  <2>1. CASE S!SrvLoad
    BY <2>1 DEF S!SrvLoad, SrvTypes
  <2>2. CASE S!Connect
    <3>1. S!NewStatus(FALSE, {}, "") \in Status
      BY DEF S!NewStatus, Status, Messages
    <3>2. target' \in Status /\ retry' \in BOOLEAN
      BY <2>2, <3>1 DEF S!Connect, S!SrvGoto, S!Publish, SrvTypes
    <3> QED
      BY <2>2, <3>2 DEF S!Connect, S!SrvGoto, S!Publish, SrvTypes
  <2>3. CASE S!GetDbs
    <3>1. /\ S!NewStatus(FALSE, {}, "reading databases failed") \in Status
          /\ S!Connected(dbs) \in Status
      BY DEF S!Connected, S!NewStatus, Status, Messages, DbTypes
    <3>2. target' \in Status /\ retry' \in BOOLEAN
      BY <2>3, <3>1 DEF S!GetDbs, S!Publish, SrvTypes
    <3> QED
      BY <2>3, <3>2 DEF S!GetDbs, S!Publish, SrvTypes
  <2>4. CASE S!GetUsers
    <3>1. target.dbs \in SUBSET DbNames
      BY DEF SrvTypes, Status
    <3>2. S!NewStatus(FALSE, target.dbs, "reading users failed") \in Status
      BY <3>1 DEF S!NewStatus, Status, Messages
    <3>3. target' \in Status /\ retry' \in BOOLEAN
      BY <2>4, <3>2 DEF S!GetUsers, S!Publish, SrvTypes
    <3> QED
      BY <2>4, <3>3 DEF S!GetUsers, S!Publish, SrvTypes
  <2>5. CASE S!SetStatus
    <3>1. S!StatusWrite \in SrvCR
      BY SrvValues DEF S!StatusWrite, SrvTypes
    <3>2. srv' \in SrvCR /\ srvCache' \in SrvCR
      BY <2>5, <3>1 DEF S!SetStatus, SrvTypes
    <3>3. \E again \in BOOLEAN : S!SrvReturn(again)
      BY <2>5 DEF S!SetStatus, SrvTypes
    <3> QED
      BY <3>2, <3>3, StatusTypes DEF S!SrvReturn, SrvTypes
  <2>6. CASE S!SrvRemoveFinalizer
    <3>1. S!Put(srv, S!WithoutFinalizer(srvSnap)) \in SrvCR
      BY SrvValues DEF SrvTypes
    <3>2. srv' \in SrvCR /\ srvCache' \in SrvCR
      BY <2>6, <3>1 DEF S!SrvRemoveFinalizer, SrvTypes
    <3>3. \E again \in BOOLEAN : S!SrvReturn(again)
      BY <2>6 DEF S!SrvRemoveFinalizer
    <3> QED
      BY <3>2, <3>3, StatusTypes DEF S!SrvReturn, SrvTypes
  <2>7. CASE S!OwnerCreates
    <3>1. srv' \in SrvCR
      <4> DEFINE new == [S!NoServer EXCEPT !.live = TRUE, !.uid = srv.uid + 1,
                                           !.rv = srv.rv + 1]
      <4>1. srv' = new
        BY <2>7 DEF S!OwnerCreates
      <4>2. srv.uid + 1 \in Nat /\ srv.rv + 1 \in Nat
        BY DEF SrvTypes, SrvCR
      <4>3. new \in SrvCR
        BY <4>2, StatusTypes DEF SrvCR
      <4> QED
        BY <4>1, <4>3
    <3> QED
      BY <2>7, <3>1 DEF S!OwnerCreates, SrvTypes
  <2>8. CASE S!OwnerDeletes
    <3>1. srv' \in SrvCR
      BY <2>8, SrvValues DEF S!OwnerDeletes, SrvTypes
    <3> QED
      BY <2>8, <3>1 DEF S!OwnerDeletes, SrvTypes
  <2>9. CASE S!SrvWatchEvent
    BY <2>9 DEF S!SrvWatchEvent, SrvTypes
  <2> QED
    BY <2>1, <2>2, <2>3, <2>4, <2>5, <2>6, <2>7, <2>8, <2>9
       DEF SrvStep, S!SrvReconcile, S!SrvEnvironment
<1> QED
  BY <1>1, <1>2

-----------------------------------------------------------------------------
(* What a step of the Db controller looks like from the other side.        *)

(* A Db reconcile is about to call NotifyChanges.                          *)
Owes == \E k \in Db : pc[k] \in {"notifyCreated", "notifyRemoved"}

(* The worker goes on to another step.                                     *)
LEMMA WorkerMoves ==
  ASSUME DbTypes, NEW k \in Db, pc[k] # "idle", NEW p, pc' = [pc EXCEPT ![k] = p]
  PROVE  /\ DOMAIN pc' = Db /\ OneWorker'
         /\ Owes' <=> p \in {"notifyCreated", "notifyRemoved"}
         /\ Owes <=> pc[k] \in {"notifyCreated", "notifyRemoved"}
  BY DEF DbTypes, OneWorker, Owes

(* Nothing of the DbServer controller's concern happens; a database was    *)
(* created or dropped and a notification is owed; it is given; a call fails*)
(* and may have changed the databases all the same.                        *)
DbEffect ==
    \/ UNCHANGED <<dbs, srvQueue, faults>> /\ (Owes' <=> Owes)
    \/ UNCHANGED <<srvQueue, faults>> /\ Owes'
    \/ /\ Owes /\ ~Owes'
       /\ srvQueue' = (srvQueue \/ srvCache.live)
       /\ UNCHANGED <<dbs, faults>>
    \/ /\ faults < MaxFaults /\ faults' = faults + 1
       /\ UNCHANGED dbs \/ LostReplies
       /\ UNCHANGED srvQueue
       /\ Owes' <=> Owes

(* How Dispatch goes on, whatever it was given.                            *)
LEMMA ContinueMoves ==
  ASSUME NEW k \in Db, NEW exists, NEW connected, D!Continue(k, exists, connected)
  PROVE  \E p : p \notin {"notifyCreated", "notifyRemoved"} /\ pc' = [pc EXCEPT ![k] = p]
<1> DEFINE step == D!Dispatch(snap[k], exists)
<1>1. \/ step = "idle" /\ D!Done(k)
      \/ step = "ensureCorrect" /\ D!Goto(k, "ensureFinalizer")
      \/ step = "createObj" /\ ~connected /\ D!Backoff(k)
      \/ step \notin {"idle", "ensureCorrect"} /\ D!Goto(k, step)
  BY DEF D!Continue
<1>2. step \notin {"notifyCreated", "notifyRemoved"}
  BY DEF D!Dispatch
<1> HIDE DEF step
<1> QED
  BY <1>1, <1>2 DEF D!Done, D!Goto, D!Backoff

(* A step of the Db controller, or of a user of Db CRs, has one of those   *)
(* effects and leaves one worker at work.                                  *)
LEMMA DbStepEffect ==
  ASSUME OperatorInv, NEW k \in Db, DbStep(k)
  PROVE  DbTypes' /\ DbEffect /\ SrvTypes'
<1> USE DbAssumption DEF OperatorInv
<1> DEFINE Moves(p) == pc' = [pc EXCEPT ![k] = p]
<1>1. DbName[k] \in DbNames
  OBVIOUS
<1>2. dbs \in SUBSET DbNames /\ srvQueue \in BOOLEAN /\ srvCache.live \in BOOLEAN
  BY DEF DbTypes, SrvTypes, SrvCR
<1>3. UNCHANGED srvVars
  BY DEF DbStep
<1>4. ASSUME UNCHANGED pc, UNCHANGED <<dbs, srvQueue, faults>>
      PROVE  DbTypes' /\ DbEffect /\ srvQueue' \in BOOLEAN
  BY <1>2, <1>4 DEF DbTypes, OneWorker, Owes, DbEffect
<1>5. ASSUME NEW p, Moves(p), pc[k] # "idle", dbs' \in SUBSET DbNames
      PROVE  /\ DbTypes'
             /\ Owes' <=> p \in {"notifyCreated", "notifyRemoved"}
             /\ Owes <=> pc[k] \in {"notifyCreated", "notifyRemoved"}
  BY <1>5, WorkerMoves DEF DbTypes
<1>6. DbTypes' /\ DbEffect /\ srvQueue' \in BOOLEAN
  <2>1. CASE D!LoadCR(k)
    <3>1. UNCHANGED <<dbs, srvQueue, faults>>
      BY <2>1 DEF D!LoadCR
    <3>2. CASE UNCHANGED pc
      BY <3>1, <3>2, <1>4
    <3>3. CASE pc' = [pc EXCEPT ![k] = "loadObj"]
      <4>1. \A j \in Db : pc[j] = "idle"
        BY <2>1 DEF D!LoadCR
      <4>2. /\ DOMAIN pc' = Db /\ OneWorker' /\ ~Owes' /\ ~Owes
        BY <3>3, <4>1 DEF DbTypes, OneWorker, Owes
      <4> QED
        BY <3>1, <4>2, <1>2 DEF DbTypes, DbEffect
    <3> QED
      BY <2>1, <3>2, <3>3 DEF D!LoadCR
  <2>2. CASE D!LoadObj(k) \/ D!LoadObjFails(k)
    <3>1. PICK p : Moves(p) /\ p \notin {"notifyCreated", "notifyRemoved"}
      BY <2>2, ContinueMoves DEF D!LoadObj, D!LoadObjFails, D!Backoff
    <3>2. /\ pc[k] = "loadObj" /\ UNCHANGED <<dbs, srvQueue>>
          /\ UNCHANGED faults \/ (faults < MaxFaults /\ faults' = faults + 1)
      BY <2>2 DEF D!LoadObj, D!LoadObjFails, D!Fault
    <3>3. DbTypes' /\ ~Owes' /\ ~Owes
      BY <3>1, <3>2, <1>2, <1>5
    <3> QED
      BY <3>2, <3>3, <1>2 DEF DbEffect
  <2>3. CASE D!CreateObj(k) \/ D!RemoveObj(k)
    <3>1. PICK p \in {"notifyCreated", "notifyRemoved"} : Moves(p)
      BY <2>3 DEF D!CreateObj, D!RemoveObj, D!Goto
    <3>2. pc[k] # "idle" /\ UNCHANGED <<srvQueue, faults>> /\ dbs' \in SUBSET DbNames
      BY <2>3, <1>1, <1>2 DEF D!CreateObj, D!RemoveObj
    <3>3. DbTypes' /\ Owes'
      BY <3>1, <3>2, <1>5
    <3> QED
      BY <3>2, <3>3, <1>2 DEF DbEffect
  <2>4. CASE D!CreateObjFails(k) \/ D!RemoveObjFails(k)
    <3>1. PICK p \in {"idle"} : Moves(p) /\ pc[k] \in {"createObj", "removeObj"}
      BY <2>4 DEF D!CreateObjFails, D!RemoveObjFails, D!Backoff
    <3>2. /\ UNCHANGED srvQueue /\ dbs' \in SUBSET DbNames
          /\ UNCHANGED dbs \/ LostReplies
          /\ faults < MaxFaults /\ faults' = faults + 1
      BY <2>4, <1>1, <1>2 DEF D!CreateObjFails, D!RemoveObjFails, D!Fault
    <3>3. DbTypes' /\ ~Owes' /\ ~Owes
      BY <3>1, <3>2, <1>5
    <3> QED
      BY <3>2, <3>3, <1>2 DEF DbEffect
  <2>5. CASE D!NotifyChanges(k)
    <3>1. PICK p \in {"ensureFinalizer", "removeFinalizer"} : Moves(p)
      BY <2>5 DEF D!NotifyChanges, D!Goto
    <3>2. /\ pc[k] \in {"notifyCreated", "notifyRemoved"} /\ UNCHANGED <<dbs, faults>>
          /\ srvQueue' = (srvQueue \/ srvCache.live)
      BY <2>5 DEF D!NotifyChanges
    <3>3. DbTypes' /\ ~Owes' /\ Owes
      BY <3>1, <3>2, <1>2, <1>5
    <3>4. DbEffect
      BY <3>2, <3>3 DEF DbEffect
    <3> QED
      BY <3>2, <3>3, <3>4
  <2>6. CASE \/ D!EnsureFinalizer(k) \/ D!EnsureFinalizerFails(k)
             \/ D!RemoveObjRefused(k) \/ D!RemoveFinalizer(k) \/ D!RemoveFinalizerFails(k)
    <3>1. PICK p \in {"idle"} : Moves(p)
      BY <2>6 DEF D!EnsureFinalizer, D!EnsureFinalizerFails, D!RemoveObjRefused, D!RemoveFinalizer,
                  D!RemoveFinalizerFails, D!Done, D!Backoff
    <3>2. /\ pc[k] \in {"ensureFinalizer", "removeObj", "removeFinalizer"}
          /\ UNCHANGED <<dbs, srvQueue>>
          /\ UNCHANGED faults \/ (faults < MaxFaults /\ faults' = faults + 1)
      BY <2>6 DEF D!EnsureFinalizer, D!EnsureFinalizerFails, D!RemoveObjRefused, D!RemoveFinalizer,
                  D!RemoveFinalizerFails, D!Fault
    <3>3. DbTypes' /\ ~Owes' /\ ~Owes
      BY <3>1, <3>2, <1>2, <1>5
    <3> QED
      BY <3>2, <3>3, <1>2 DEF DbEffect
  <2>7. CASE D!Environment(k)
    <3>1. UNCHANGED <<pc, dbs, srvQueue, faults>>
      BY <2>7 DEF D!Environment, D!UserCreates, D!UserDeletes, D!UserEdits,
                  D!OtherFinalizerGoes, D!WatchEvent, D!Resync
    <3> QED
      BY <3>1, <1>4
  <2> QED
    BY <2>1, <2>2, <2>3, <2>4, <2>5, <2>6, <2>7 DEF DbStep, D!Reconcile
<1>7. SrvTypes'
  BY <1>3, <1>6 DEF SrvTypes, srvVars
<1> QED
  BY <1>6, <1>7

LEMMA RestartKeeps == ASSUME OperatorInv, Restart PROVE OperatorInv'
<1>1. SrvTypes'
  <2>1. srv.live \in BOOLEAN
    BY DEF OperatorInv, SrvTypes, SrvCR
  <2> QED
    BY <2>1, StatusTypes DEF OperatorInv, SrvTypes, Restart, S!SrvRestart
<1>2. DbTypes'
  BY DEF OperatorInv, DbTypes, OneWorker, Restart, D!Restart
<1> QED
  BY <1>1, <1>2 DEF OperatorInv

LEMMA OperatorInvStep == OperatorInv /\ [Next]_vars => OperatorInv'
<1> SUFFICES ASSUME OperatorInv, [Next]_vars PROVE OperatorInv'
  OBVIOUS
<1>1. ASSUME NEW k \in Db, DbStep(k) PROVE OperatorInv'
  BY <1>1, DbStepEffect DEF OperatorInv
<1>2. CASE SrvStep
  BY <1>2, SrvStepKeeps
<1>3. CASE Restart
  BY <1>3, RestartKeeps
<1>4. CASE UNCHANGED vars
  BY <1>4 DEF vars, dbVars, srvVars, OperatorInv, SrvTypes, DbTypes, OneWorker
<1> QED
  BY <1>1, <1>2, <1>3, <1>4 DEF Next

LEMMA OperatorInvariant == Spec => []OperatorInv
  BY OperatorInvInit, OperatorInvStep, PTL DEF Spec

-----------------------------------------------------------------------------
(* The refinements.                                                        *)

(* For the Db controller a step of the other side is DbServerSide.         *)
LEMMA SrvStepIsDbServerSide == ASSUME OperatorInv, SrvStep PROVE D!DbServerSide
<1>1. SrvTypes'
  BY SrvStepKeeps DEF OperatorInv
<1>2. srvCache'.live \in BOOLEAN /\ srvQueue' \in BOOLEAN
  BY <1>1 DEF SrvTypes, SrvCR
<1>3. UNCHANGED dbs /\ (UNCHANGED faults \/ D!Fault)
  BY DEF SrvStep, D!Fault, S!SrvFault, S!SrvLoad, S!SrvReconcile, S!Connect, S!GetDbs,
         S!GetUsers, S!SetStatus, S!SrvRemoveFinalizer, S!SrvEnvironment,
         S!OwnerCreates, S!OwnerDeletes, S!SrvWatchEvent
<1> QED
  BY <1>2, <1>3 DEF SrvStep, D!DbServerSide, dbVars

LEMMA StepIsDbControllerStep == ASSUME OperatorInv, [Next]_vars PROVE [D!Next]_(D!vars)
<1>1. ASSUME NEW k \in Db, DbStep(k) PROVE D!Next
  BY <1>1 DEF DbStep, D!Next
<1>2. CASE SrvStep
  BY <1>2, SrvStepIsDbServerSide DEF D!Next
<1>3. CASE Restart
  BY <1>3 DEF Restart, D!Next
<1>4. CASE UNCHANGED vars
  BY <1>4 DEF vars, dbVars, srvVars, D!vars
<1> QED
  BY <1>1, <1>2, <1>3, <1>4 DEF Next

(* The Db controller beside the real DbServer controller is the one that   *)
(* module DbController specifies: whatever the DbServer controller and the *)
(* owners of DbServer CRs do is a step that DbController's environment may *)
(* take, so everything proved of DbController holds in the operator.       *)
THEOREM OperatorRefinesDbController == Spec => RefinesDbController
<1>1. Init => D!Init
  BY DEF Init
<1>2. OperatorInv /\ [Next]_vars => [D!Next]_(D!vars)
  BY StepIsDbControllerStep
<1> QED
  BY <1>1, <1>2, OperatorInvariant, PTL DEF Spec, D!Spec, RefinesDbController

(* For the DbServer controller, a step of the Db controller or of users is *)
(* DbControllerSide, or none of its business, as long as the version of    *)
(* the DbServer CR stays below the bound on changes.                       *)
LEMMA DbStepIsDbControllerSide ==
  ASSUME OperatorInv, srv.rv < MaxChangeRv, NEW k \in Db, DbStep(k)
  PROVE  S!DbControllerSide \/ UNCHANGED S!vars
<1>1. DbTypes' /\ DbEffect
  BY DbStepEffect
<1>2. UNCHANGED S!srvVars
  BY DEF DbStep, srvVars, S!srvVars
<1>3. dbs' \in SUBSET DbNames
  BY <1>1 DEF DbTypes
<1> USE DEF Owes
<1>4. CASE UNCHANGED <<dbs, srvQueue, faults>> /\ (Owes' <=> Owes)
  BY <1>2, <1>4 DEF S!vars
<1>5. CASE UNCHANGED <<srvQueue, faults>> /\ Owes'
  BY <1>2, <1>3, <1>5 DEF S!DbControllerSide
<1>6. CASE /\ Owes /\ ~Owes'
           /\ srvQueue' = (srvQueue \/ srvCache.live)
           /\ UNCHANGED <<dbs, faults>>
  BY <1>2, <1>6 DEF S!DbControllerSide
<1>7. CASE /\ faults < MaxFaults /\ faults' = faults + 1
           /\ UNCHANGED dbs \/ LostReplies
           /\ UNCHANGED srvQueue
           /\ Owes' <=> Owes
  BY <1>2, <1>3, <1>7 DEF S!DbControllerSide, S!SrvFault
<1> QED
  BY <1>1, <1>4, <1>5, <1>6, <1>7 DEF DbEffect

LEMMA StepIsDbServerControllerStep ==
  ASSUME OperatorInv, srv.rv < MaxChangeRv, [Next]_vars
  PROVE  [S!Next]_(S!vars)
<1>1. ASSUME NEW k \in Db, DbStep(k) PROVE [S!Next]_(S!vars)
  BY <1>1, DbStepIsDbControllerSide DEF S!Next
<1>2. CASE SrvStep
  BY <1>2 DEF SrvStep, S!Next
<1>3. CASE Restart
  BY <1>3 DEF Restart, S!Next
<1>4. CASE UNCHANGED vars
  BY <1>4 DEF vars, dbVars, srvVars, S!vars, S!srvVars
<1> QED
  BY <1>1, <1>2, <1>3, <1>4 DEF Next

(* The DbServer controller beside the real Db controller is the one that   *)
(* module DbServerController specifies, as long as the version of the      *)
(* DbServer CR stays below MaxChangeRv, the bound which that module puts on*)
(* changes of databases: every CREATE and DROP that is known to have       *)
(* succeeded is followed by NotifyChanges or a restart, and two            *)
(* notifications are never owed at once because one worker runs.           *)
THEOREM OperatorRefinesDbServerController ==
  Spec /\ [](srv.rv < MaxChangeRv) => RefinesDbServerController
<1>1. Init => S!Init
  BY DEF Init, D!Init, S!Init
<1>2. OperatorInv /\ srv.rv < MaxChangeRv /\ [Next]_vars => [S!Next]_(S!vars)
  BY StepIsDbServerControllerStep
<1> QED
  BY <1>1, <1>2, OperatorInvariant, PTL DEF Spec, S!Spec, RefinesDbServerController

-----------------------------------------------------------------------------
(* What is proved of DbController holds in the operator.                   *)

(* DbController with its theorems, under the substitution that makes D.    *)
P == INSTANCE DbControllerProofs WITH serverSeen <- srvCache.live, ServerMayVanish <- TRUE

(* D and P instantiate the same definitions in the same way.               *)
LEMMA SameSpec == D!Spec <=> P!Spec
<1>1. D!Init <=> P!Init
  BY DEF D!Init, P!Init, D!Absent, P!Absent
<1>2. D!Next <=> P!Next
  BY Zenon DEF D!Absent, P!Absent, D!Created, P!Created, D!Goto, P!Goto,
               D!Done, P!Done, D!Backoff, P!Backoff, D!Fault, P!Fault,
               D!LoadCR, P!LoadCR, D!Continue, P!Continue, D!LoadObj,
               P!LoadObj, D!LoadObjFails, P!LoadObjFails, D!CreateObj,
               P!CreateObj, D!CreateObjFails, P!CreateObjFails,
               D!NotifyChanges, P!NotifyChanges, D!EnsureFinalizer,
               P!EnsureFinalizer, D!EnsureFinalizerFails,
               P!EnsureFinalizerFails, D!RemoveObj, P!RemoveObj, D!RemoveObjRefused,
               P!RemoveObjRefused, D!DropRefused, P!DropRefused,
               D!RemoveObjFails, P!RemoveObjFails, D!Release, P!Release,
               D!RemoveFinalizer, P!RemoveFinalizer, D!RemoveFinalizerFails,
               P!RemoveFinalizerFails, D!Reconcile, P!Reconcile,
               D!UserCreates, P!UserCreates, D!UserDeletes, P!UserDeletes,
               D!UserEdits, P!UserEdits, D!OtherFinalizerGoes,
               P!OtherFinalizerGoes, D!WatchEvent, P!WatchEvent, D!Resync,
               P!Resync, D!DbServerSide, P!DbServerSide, D!Restart,
               P!Restart, D!Environment, P!Environment, D!Next, P!Next,
               D!Stored, P!Stored, D!Deleted, P!Deleted, D!UpToDate,
               P!UpToDate, D!Put, P!Put, D!WithFinalizer, P!WithFinalizer,
               D!WithoutFinalizer, P!WithoutFinalizer, D!Dispatch, P!Dispatch
<1>3. [D!Next]_(D!vars) <=> [P!Next]_(P!vars)
  BY <1>2 DEF D!vars, P!vars
<1> QED
  BY <1>1, <1>3, PTL DEF D!Spec, P!Spec

(* The assumptions under which DbController is proved correct.             *)
LEMMA AssumptionsHold ==
  /\ DbName \in [Db -> DbNames]
  /\ TRUE \in BOOLEAN /\ LostReplies \in BOOLEAN /\ CascadeSupported \in BOOLEAN
  /\ Cascades \subseteq BOOLEAN /\ OtherFinalizers \subseteq BOOLEAN
  /\ MaxUid \in Nat /\ MaxEditRv \in Nat /\ MaxFaults \in Nat
  BY DbAssumption, FlagAssumption, BoundAssumption

(* In the whole operator, with DbServer CRs deleted and created by their   *)
(* owners and let go by the real controller, a database is dropped only in *)
(* answer to the deletion of a Db that names it (RemoveObj).               *)
THEOREM OperatorDropsAnswerDeletionsHolds == Spec => OperatorDropsAnswerDeletions
<1>1. P!Spec => P!DropsAnswerDeletions
  BY P!DropsAnswerDeletionsHolds, AssumptionsHold
<1>2. P!DropsAnswerDeletions <=> OperatorDropsAnswerDeletions
  BY PTL DEF P!DropsAnswerDeletions, P!vars, D!DropsAnswerDeletions, D!vars,
             OperatorDropsAnswerDeletions
<1> QED
  BY <1>1, <1>2, SameSpec, OperatorRefinesDbController, PTL DEF RefinesDbController

(* In the whole operator, no database is created for an incarnation of a   *)
(* Db that the operator has already let go of (LoadCR, CreateObj).         *)
THEOREM OperatorNeverRecreates == Spec => D!NeverRecreated
<1>1. P!Spec => P!NeverRecreated
  BY P!NeverRecreatedHolds, AssumptionsHold
<1>2. P!NeverRecreated <=> D!NeverRecreated
  BY PTL DEF P!NeverRecreated, P!vars, D!NeverRecreated, D!vars
<1> QED
  BY <1>1, <1>2, SameSpec, OperatorRefinesDbController, PTL DEF RefinesDbController
=============================================================================
