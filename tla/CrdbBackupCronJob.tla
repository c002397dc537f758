------------------------- MODULE CrdbBackupCronJob --------------------------
(***************************************************************************)
(* The CockroachDBBackupCronJob controller for one custom resource         *)
(* (controllers/cockroachdbbackupcronjob_controller.go): it keeps a backup *)
(* schedule on a CockroachDB cluster.  The schedule is labelled with the   *)
(* name of the CR and CREATE SCHEDULE IF NOT EXISTS adopts one that has    *)
(* the label, so at most one such schedule exists; but once its id is in   *)
(* status.schedule_id the controller goes by the id.  What the schedule    *)
(* should run, its statement, comes from the BackupTarget, which has a     *)
(* life of its own.                                                        *)
(***************************************************************************)
EXTENDS Reco

CONSTANTS
    TargetMayVanish,  \* may the BackupTarget (or its Db, DbServer) CR come and go?
    LostReplies,      \* may a failed call have taken effect?
    MaxUid,           \* bound: incarnations of the CR
    MaxEditRv,        \* bound: users edit the spec only below this version
    MaxStmt,          \* bound: changes of the statement
    MaxFaults         \* bound: failed calls and restarts

ASSUME FlagAssumption == TargetMayVanish \in BOOLEAN /\ LostReplies \in BOOLEAN
ASSUME BoundAssumption == MaxUid \in Nat /\ MaxEditRv \in Nat /\ MaxStmt \in Nat /\ MaxFaults \in Nat

VARIABLES
    cr,          \* the CR as the API server stores it
    cached,      \* the CR as the watch cache shows it
    queued,      \* is its key in the work queue?
    step,        \* the step of its reconcile
    snap,        \* CockroachDBBackupCronJobReco.backupCronJob: the CR in memory
    sched,       \* the schedule with the CR's label; id 0: there is none
    lastId,      \* the last schedule id the cluster gave out
    stmt,        \* the statement the BackupTarget asks for, as a version number
    targetSeen,  \* does the cache show the whole chain to the database?
    released,    \* history: the CR whose finalizer was last removed, and in which step
    faults       \* failures so far

vars == <<cr, cached, queued, step, snap, sched, lastId, stmt, targetSeen, released, faults>>

(* Spec: suspend, drop.  Status: sid (ScheduleId), cmd (Command), paused   *)
(* (ScheduleStatus).                                                       *)
Absent == [live |-> FALSE, uid |-> 0, rv |-> 0, del |-> FALSE, fin |-> FALSE,
           other |-> FALSE, suspend |-> FALSE, drop |-> FALSE,
           sid |-> 0, cmd |-> 0, paused |-> FALSE]

(* A schedule: its id, its statement, whether it is PAUSED and whether the *)
(* cluster reports an error in its state.                                  *)
NoSchedule == [id |-> 0, cmd |-> 0, paused |-> FALSE, err |-> FALSE]

CR ==
    [live : BOOLEAN, uid : 0..MaxUid, rv : Nat, del : BOOLEAN, fin : BOOLEAN,
     other : {FALSE}, suspend : BOOLEAN, drop : BOOLEAN,
     sid : Nat, cmd : 0..MaxStmt, paused : BOOLEAN]

Schedules == [id : Nat, cmd : 0..MaxStmt, paused : BOOLEAN, err : BOOLEAN]

Steps == {"idle", "loadObj", "setStatus", "ensureCorrect", "recreate", "recordRecreated",
          "applySuspend", "createObj", "recordCreated", "ensureFinalizer", "removeObj",
          "removeFinalizer", "abandon"}

TypeOK ==
    /\ cr \in CR /\ cached \in CR /\ snap \in CR
    /\ released \in [cr : CR, by : {"idle", "removeFinalizer", "abandon"}]
    /\ sched \in Schedules /\ lastId \in Nat
    /\ \A id \in {cr.sid, cached.sid, snap.sid, released.cr.sid, sched.id} : id <= lastId
    /\ step \in Steps
    /\ queued \in BOOLEAN /\ targetSeen \in BOOLEAN
    /\ stmt \in 0..MaxStmt /\ faults \in 0..MaxFaults

Init ==
    /\ cr = Absent /\ cached = Absent /\ snap = Absent
    /\ released = [cr |-> Absent, by |-> "idle"]
    /\ queued = FALSE
    /\ step = "idle"
    /\ sched = NoSchedule
    /\ lastId = 0
    /\ stmt = 0
    /\ targetSeen \in BOOLEAN /\ (TargetMayVanish \/ targetSeen)
    /\ faults = 0

-----------------------------------------------------------------------------
(* Leaving a step.                                                         *)

Goto(s) == step' = s /\ UNCHANGED <<queued, snap>>

(* Go on with another CR in memory.                                        *)
GotoWith(s, inMemory) == step' = s /\ snap' = inMemory /\ UNCHANGED queued

(* Reconcile returns, with ctrl.Result{} or asking for a retry.            *)
Return(again) ==
    /\ step' = "idle"
    /\ snap' = Absent
    /\ queued' = (queued \/ again)

Fault == /\ faults < MaxFaults
         /\ faults' = faults + 1

(* Reconcile goes on once LoadObj has answered.  CreateObj is only reached *)
(* without a schedule id on record.                                        *)
Continue(exists, inMemory) ==
    LET next == Dispatch(inMemory, exists)
    IN  IF next = "idle" THEN Return(FALSE) ELSE GotoWith(next, inMemory)

-----------------------------------------------------------------------------
LoadCR ==
    /\ queued /\ step = "idle"
    /\ IF cached.live THEN queued' = FALSE /\ step' = "loadObj" /\ snap' = cached
                      ELSE UNCHANGED <<queued, step, snap>>
    /\ UNCHANGED <<cr, cached, sched, lastId, stmt, targetSeen, released, faults>>

(* scheduleMapToJobStatus of the schedule that was found.                  *)
WithStatus(o) == [o EXCEPT !.sid = sched.id, !.cmd = sched.cmd, !.paused = sched.paused]

(* A schedule id on record for which there is no schedule is an error that *)
(* only leads to a retry; a missing BackupTarget lets go of a marked CR.   *)
LoadObj ==
    /\ step = "loadObj"
    /\ \/ snap.sid = 0 /\ Continue(FALSE, snap)
       \/ /\ snap.sid # 0 /\ ~targetSeen
          /\ IF snap.del THEN Goto("abandon") ELSE Return(TRUE)
       \/ snap.sid # 0 /\ targetSeen /\ sched.id # snap.sid /\ Return(TRUE)
       \/ /\ snap.sid # 0 /\ targetSeen /\ sched.id = snap.sid
          /\ WithStatus(snap) = snap /\ Continue(TRUE, snap)
       \/ /\ snap.sid # 0 /\ targetSeen /\ sched.id = snap.sid
          /\ GotoWith("setStatus", WithStatus(snap))
    /\ UNCHANGED <<cr, cached, sched, lastId, stmt, targetSeen, released, faults>>

(* No connection, or SHOW SCHEDULES fails.                                 *)
LoadObjFails ==
    /\ step = "loadObj" /\ snap.sid # 0
    /\ Fault
    /\ Return(TRUE)
    /\ UNCHANGED <<cr, cached, sched, lastId, stmt, targetSeen, released>>

(* SetStatus as LoadObj calls it: Status().Update, which also brings the   *)
(* CR in memory up to date.  Its errors are wrapped and only lead to a     *)
(* retry.                                                                  *)
SetStatus ==
    /\ step = "setStatus"
    /\ \/ UpToDate(cr, snap) /\ cr' = Put(cr, snap) /\ Continue(TRUE, cr') /\ UNCHANGED faults
       \/ ~UpToDate(cr, snap) /\ Return(TRUE) /\ UNCHANGED <<cr, faults>>
       \/ /\ Fault /\ Return(TRUE)
          /\ \/ UNCHANGED cr
             \/ LostReplies /\ UpToDate(cr, snap) /\ cr' = Put(cr, snap)
    /\ UNCHANGED <<cached, sched, lastId, stmt, targetSeen, released>>

(* Faulty: every reconcile replaces the schedule.                          *)
EnsureCorrectReplaces ==
    /\ step = "ensureCorrect" /\ targetSeen
    /\ sched' = NoSchedule
    /\ GotoWith("recreate", [snap EXCEPT !.sid = 0])
    /\ UNCHANGED <<cr, cached, lastId, stmt, targetSeen, released, faults>>

(* EnsureCorrect, first half: a schedule with another statement than the   *)
(* BackupTarget asks for is dropped, to be created again.                  *)
EnsureCorrect ==
    /\ step = "ensureCorrect"
    /\ \/ ~targetSeen /\ Return(TRUE) /\ UNCHANGED sched
       \/ targetSeen /\ stmt = snap.cmd /\ Goto("applySuspend") /\ UNCHANGED sched
       \/ /\ targetSeen /\ stmt # snap.cmd
          /\ sched' = NoSchedule
          /\ GotoWith("recreate", [snap EXCEPT !.sid = 0])
    /\ UNCHANGED <<cr, cached, lastId, stmt, targetSeen, released, faults>>

EnsureCorrectFails ==
    /\ step = "ensureCorrect"
    /\ Fault
    /\ Return(TRUE)
    /\ \/ UNCHANGED sched
       \/ LostReplies /\ targetSeen /\ stmt # snap.cmd /\ sched' = NoSchedule
    /\ UNCHANGED <<cr, cached, lastId, stmt, targetSeen, released>>

(* Faulty: the id of the new schedule is made up.                          *)
CreateScheduleUnregistered ==
    IF sched.id # 0 THEN UNCHANGED <<sched, lastId>>
    ELSE /\ sched' = [NoSchedule EXCEPT !.id = lastId + 1, !.cmd = stmt]
         /\ UNCHANGED lastId

(* CREATE SCHEDULE IF NOT EXISTS; an existing one is found by its label.   *)
CreateSchedule ==
    IF sched.id # 0 THEN UNCHANGED <<sched, lastId>>
    ELSE /\ lastId' = lastId + 1
         /\ sched' = [NoSchedule EXCEPT !.id = lastId', !.cmd = stmt]

(* Faulty: a schedule that exists already is taken for an error.           *)
CreateObjWithoutAdoption ==
    /\ step \in {"createObj", "recreate"}
    /\ IF snap.suspend \/ ~targetSeen \/ sched.id # 0
       THEN Return(TRUE) /\ UNCHANGED <<sched, lastId>>
       ELSE /\ CreateSchedule
            /\ Goto(IF step = "createObj" THEN "recordCreated" ELSE "recordRecreated")
    /\ UNCHANGED <<cr, cached, stmt, targetSeen, released, faults>>

(* CreateObj, called by Reconcile or by EnsureCorrect.  It never returns   *)
(* an error: EnsureCorrect goes on, does not find a schedule with id 0 and *)
(* asks for a retry as well.                                               *)
CreateObj ==
    /\ step \in {"createObj", "recreate"}
    /\ IF snap.suspend \/ ~targetSeen
       THEN Return(TRUE) /\ UNCHANGED <<sched, lastId>>
       ELSE /\ CreateSchedule
            /\ Goto(IF step = "createObj" THEN "recordCreated" ELSE "recordRecreated")
    /\ UNCHANGED <<cr, cached, stmt, targetSeen, released, faults>>

CreateObjFails ==
    /\ step \in {"createObj", "recreate"} /\ ~snap.suspend
    /\ Fault
    /\ Return(TRUE)
    /\ \/ UNCHANGED <<sched, lastId>>
       \/ LostReplies /\ targetSeen /\ CreateSchedule
    /\ UNCHANGED <<cr, cached, stmt, targetSeen, released>>

(* UpdateStatus at the end of CreateObj, three seconds later.  The CR in   *)
(* memory has the new id even if the update fails; Reconcile then asks for *)
(* a retry, EnsureCorrect goes on.                                         *)
RecordSchedule ==
    /\ step \in {"recordCreated", "recordRecreated"}
    /\ LET new == WithStatus(snap)
           next == IF step = "recordCreated" THEN "ensureFinalizer" ELSE "applySuspend"
           failed == IF step = "recordCreated" THEN Return(TRUE) ELSE GotoWith(next, new)
       IN  \/ /\ UpToDate(cr, snap) /\ cr' = Put(cr, new)
              /\ GotoWith(next, cr')
              /\ UNCHANGED faults
           \/ ~UpToDate(cr, snap) /\ failed /\ UNCHANGED <<cr, faults>>
           \/ /\ Fault /\ failed
              /\ \/ UNCHANGED cr
                 \/ LostReplies /\ UpToDate(cr, snap) /\ cr' = Put(cr, new)
           \/ Fault /\ Return(TRUE) /\ UNCHANGED cr     \* SHOW SCHEDULES fails
    /\ UNCHANGED <<cached, sched, lastId, stmt, targetSeen, released>>

(* Faulty: schedules are paused but never resumed.                         *)
ApplySuspendOnly ==
    /\ step = "applySuspend"
    /\ \/ sched.id # snap.sid /\ Return(TRUE) /\ UNCHANGED sched
       \/ /\ sched.id = snap.sid
          /\ sched' = [sched EXCEPT !.paused = @ \/ snap.suspend]
          /\ Goto("ensureFinalizer")
    /\ UNCHANGED <<cr, cached, lastId, stmt, targetSeen, released, faults>>

(* EnsureCorrect, second half: PAUSE or RESUME the schedule if needed.  A  *)
(* schedule with an error in its state is not resumed.  A failing PAUSE or *)
(* RESUME is only logged.                                                  *)
ApplySuspend ==
    /\ step = "applySuspend"
    /\ \/ sched.id # snap.sid /\ Return(TRUE) /\ UNCHANGED <<sched, faults>>
       \/ /\ sched.id = snap.sid
          /\ sched' = [sched EXCEPT !.paused = snap.suspend \/ (@ /\ sched.err)]
          /\ Goto("ensureFinalizer")
          /\ UNCHANGED faults
       \/ /\ sched.id = snap.sid /\ Fault
          /\ Goto("ensureFinalizer") \/ Return(TRUE)
          /\ UNCHANGED sched
    /\ UNCHANGED <<cr, cached, lastId, stmt, targetSeen, released>>

EnsureFinalizer ==
    /\ step = "ensureFinalizer"
    /\ \/ snap.fin /\ Return(FALSE) /\ UNCHANGED <<cr, faults>>
       \/ /\ ~snap.fin /\ UpToDate(cr, snap)
          /\ cr' = Put(cr, WithFinalizer(snap))
          /\ Return(FALSE)
          /\ UNCHANGED faults
       \/ ~snap.fin /\ ~UpToDate(cr, snap) /\ Return(TRUE) /\ UNCHANGED <<cr, faults>>
       \/ ~snap.fin /\ Fault /\ Return(TRUE) /\ UNCHANGED cr
    /\ UNCHANGED <<cached, sched, lastId, stmt, targetSeen, released>>

(* Faulty: the error of DROP SCHEDULE is swallowed.                        *)
RemoveObjErrorIgnored ==
    /\ step = "removeObj"
    /\ \/ Goto("removeFinalizer") /\ UNCHANGED <<sched, faults>> /\ ~snap.drop
       \/ /\ snap.drop /\ Fault /\ Goto("removeFinalizer") /\ UNCHANGED sched
    /\ UNCHANGED <<cr, cached, lastId, stmt, targetSeen, released>>

(* Faulty: a schedule that is to stay is waited for.                       *)
RemoveObjWaits ==
    /\ step = "removeObj"
    /\ \/ ~snap.drop /\ Return(TRUE) /\ UNCHANGED sched
       \/ /\ snap.drop /\ targetSeen
          /\ sched' = NoSchedule
          /\ Goto("removeFinalizer")
    /\ UNCHANGED <<cr, cached, lastId, stmt, targetSeen, released, faults>>

(* Faulty: the finalizer is left to the next reconcile.                    *)
RemoveObjThenReturns ==
    /\ step = "removeObj"
    /\ \/ ~snap.drop /\ Goto("removeFinalizer") /\ UNCHANGED sched
       \/ /\ snap.drop /\ targetSeen
          /\ sched' = IF sched.id = snap.sid THEN NoSchedule ELSE sched
          /\ Return(TRUE)
    /\ UNCHANGED <<cr, cached, lastId, stmt, targetSeen, released, faults>>

(* DROP SCHEDULE, if drop_on_deletion asks for it.                         *)
RemoveObj ==
    /\ step = "removeObj"
    /\ \/ /\ ~snap.drop /\ Goto("removeFinalizer")
          /\ UNCHANGED <<sched, faults>>
       \/ /\ snap.drop /\ targetSeen
          /\ sched' = IF sched.id = snap.sid THEN NoSchedule ELSE sched
          /\ Goto("removeFinalizer")
          /\ UNCHANGED faults
       \/ snap.drop /\ ~targetSeen /\ Return(TRUE) /\ UNCHANGED <<sched, faults>>
       \/ /\ snap.drop /\ Fault /\ Return(TRUE)
          /\ \/ UNCHANGED sched
             \/ LostReplies /\ targetSeen /\ sched.id = snap.sid /\ sched' = NoSchedule
    /\ UNCHANGED <<cr, cached, lastId, stmt, targetSeen, released>>

RemoveFinalizer ==
    /\ step \in {"removeFinalizer", "abandon"}
    /\ \/ /\ UpToDate(cr, snap)
          /\ cr' = Put(cr, WithoutFinalizer(snap))
          /\ released' = [cr |-> snap, by |-> step]
          /\ Return(FALSE)
          /\ UNCHANGED faults
       \/ /\ ~UpToDate(cr, snap)
          /\ Return(step = "removeFinalizer")
          /\ UNCHANGED <<cr, released, faults>>
       \/ Fault /\ Return(step = "removeFinalizer") /\ UNCHANGED <<cr, released>>
    /\ UNCHANGED <<cached, sched, lastId, stmt, targetSeen>>

Reconcile ==
    \/ LoadObj \/ LoadObjFails \/ SetStatus
    \/ EnsureCorrect \/ EnsureCorrectFails \/ ApplySuspend
    \/ CreateObj \/ CreateObjFails \/ RecordSchedule
    \/ EnsureFinalizer \/ RemoveObj \/ RemoveFinalizer

-----------------------------------------------------------------------------
(* The cluster around the controller.                                      *)

UserCreates ==
    /\ ~cr.live /\ cr.uid < MaxUid
    /\ \E suspend, drop \in BOOLEAN :
           cr' = [Absent EXCEPT !.live = TRUE, !.uid = cr.uid + 1, !.rv = cr.rv + 1,
                                !.suspend = suspend, !.drop = drop]
    /\ UNCHANGED <<cached, queued, step, snap, sched, lastId, stmt, targetSeen, released, faults>>

UserDeletes ==
    /\ cr.live /\ ~cr.del
    /\ cr' = Deleted(cr)
    /\ UNCHANGED <<cached, queued, step, snap, sched, lastId, stmt, targetSeen, released, faults>>

UserEdits ==
    /\ cr.live /\ cr.rv < MaxEditRv
    /\ \E suspend, drop \in BOOLEAN :
           cr' = Put(cr, [cr EXCEPT !.suspend = suspend, !.drop = drop])
    /\ UNCHANGED <<cached, queued, step, snap, sched, lastId, stmt, targetSeen, released, faults>>

WatchEvent ==
    /\ cached # cr
    /\ cached' = cr
    /\ queued' = TRUE
    /\ UNCHANGED <<cr, step, snap, sched, lastId, stmt, targetSeen, released, faults>>

Resync ==
    /\ cached.live /\ ~queued
    /\ queued' = TRUE
    /\ UNCHANGED <<cr, cached, step, snap, sched, lastId, stmt, targetSeen, released, faults>>

(* The BackupTarget, or the storage it names, changes.  Nobody is told.    *)
TargetEdited ==
    /\ stmt < MaxStmt
    /\ stmt' = stmt + 1
    /\ UNCHANGED <<cr, cached, queued, step, snap, sched, lastId, targetSeen, released, faults>>

TargetChanges ==
    /\ TargetMayVanish
    /\ targetSeen' = ~targetSeen
    /\ UNCHANGED <<cr, cached, queued, step, snap, sched, lastId, stmt, released, faults>>

(* A backup of the schedule fails: the cluster pauses it with an error.    *)
BackupFails ==
    /\ sched.id # 0
    /\ Fault
    /\ sched' = [sched EXCEPT !.paused = TRUE, !.err = TRUE]
    /\ UNCHANGED <<cr, cached, queued, step, snap, lastId, stmt, targetSeen, released>>

Restart ==
    /\ Fault
    /\ cached' = cr
    /\ queued' = cr.live
    /\ step' = "idle"
    /\ snap' = Absent
    /\ UNCHANGED <<cr, sched, lastId, stmt, targetSeen, released>>

Next ==
    \/ LoadCR \/ Reconcile
    \/ UserCreates \/ UserDeletes \/ UserEdits \/ WatchEvent \/ Resync
    \/ TargetEdited \/ TargetChanges \/ BackupFails \/ Restart

Spec == Init /\ [][Next]_vars

(* Reconciles run to their end, the queued key is taken, watch events      *)
(* arrive and the informer resyncs: a failing PAUSE is not retried before. *)
Fairness ==
    WF_vars(Reconcile) /\ WF_vars(LoadCR) /\ WF_vars(WatchEvent) /\ WF_vars(Resync)

FairSpec == Spec /\ Fairness

-----------------------------------------------------------------------------
(* Properties.                                                             *)

(* A schedule is only dropped in answer to a request: for another statement*)
(* of the BackupTarget, or to delete a CR that is still there or that was  *)
(* let go of while the chain to the database was missing.  An id in a stale*)
(* CR never leads to the schedule of a later incarnation, not even if      *)
(* CREATE ... IF NOT EXISTS adopted it.  (EnsureCorrect, RemoveObj.)       *)
DropsAnswerRequests ==
    [][sched.id # 0 /\ sched'.id = 0 =>
           \/ cr.live /\ cr.del
           \/ sched.cmd # stmt
           \/ released.by = "abandon" /\ released.cr.drop]_vars

(* Once the operator finished the deletion of a CR that asked for          *)
(* drop_on_deletion and had a schedule on record, the schedule is gone and *)
(* stays away until the name is used again.                                *)
(* (RemoveObj before RemoveFinalizer.)                                     *)
ReleasedScheduleIsGone ==
    ( /\ released.by = "removeFinalizer"
      /\ released.cr.drop /\ released.cr.sid # 0 /\ cr.uid = released.cr.uid )
        => sched.id = 0

(* The schedule on record does not exist.                                  *)
Wedged == cr.sid # 0 /\ sched.id # cr.sid

(* spec.suspend takes effect on a CR that stays and whose schedule exists: *)
(* the schedule is paused, or active unless in error.  (EnsureCorrect.)    *)
SuspendTakesEffect ==
    \A suspend \in BOOLEAN :
        <>[]( /\ cr.live /\ ~cr.del /\ cr.sid # 0 /\ cr.suspend = suspend
              /\ ~Wedged /\ targetSeen )
            => <>[](sched.paused = suspend \/ sched.err)

(* The chain to the database is there, or not there, for good.             *)
ChainSettles == <>[]targetSeen \/ <>[]~targetSeen

(* A CR that is marked for deletion disappears in the end; it stays only if*)
(* the schedule on record is missing for good while the database can be    *)
(* reached: nothing else holds up a deletion.                              *)
(* (LoadObj, RemoveObj, RemoveFinalizer.)                                  *)
TerminatingGoesOrWedges ==
    ChainSettles => (<>[](cr.live /\ cr.del) => <>[](Wedged /\ targetSeen))

(* No call can fail any more and no user can edit the CR, and the operator *)
(* is about to look at its latest version.                                 *)
Calm == faults = MaxFaults /\ cr.rv >= MaxEditRv /\ step = "idle" /\ cached = cr

(* The DROP SCHEDULE of a deletion does not wedge its own CR: only an edit,*)
(* a failure or a restart between it and the removal of the finalizer does.*)
(* Once these are over, a marked CR whose schedule is as recorded goes.    *)
(* (RemoveObj and RemoveFinalizer work from the same CR.)                  *)
CalmDeletionCompletes ==
    ChainSettles => ((cr.live /\ cr.del /\ ~Wedged /\ Calm) ~> ~cr.live)

(* A CR that stays, is not suspended and whose target is there, has a      *)
(* schedule on record and the finalizer in the end: one that a failed or   *)
(* interrupted CreateObj left behind is found by its label and adopted.    *)
(* (One left behind while a schedule was being replaced is not: the id on  *)
(* record is then that of the dropped one.)                                *)
(* (CreateObj, UpdateStatus.)                                              *)
ScheduleIsRecorded ==
    <>[](cr.live /\ ~cr.del /\ ~cr.suspend /\ targetSeen)
        => <>[](cr.sid # 0 /\ (cr.fin \/ Wedged))

(* A CR that was suspended after its first creation keeps its schedule.    *)
(* (EnsureCorrect, CreateObj.)                                             *)
SuspendedKeepsSchedule ==
    <>[](cr.live /\ ~cr.del /\ cr.sid # 0 /\ cr.suspend) => <>[](~Wedged)
=============================================================================
