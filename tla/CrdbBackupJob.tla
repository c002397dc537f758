--------------------------- MODULE CrdbBackupJob ----------------------------
(***************************************************************************)
(* The CockroachDBBackupJob controller for one custom resource             *)
(* (controllers/cockroachdbbackupjob_controller.go).  Unlike a Db, a       *)
(* backup is not found again by name: the operator starts it with BACKUP   *)
(* ... WITH detached and has only the job id in status.job_id to tell that *)
(* it already did.  Each call that reads or changes something outside the  *)
(* process is a step of its own; reads of the CR come from the watch cache.*)
(***************************************************************************)
EXTENDS Reco, Sequences

CONSTANTS
    TargetMayVanish,  \* may the BackupTarget (or its Db, DbServer) CR come and go?
    LostReplies,      \* may a failed call have taken effect?
    MaxUid,           \* bound: incarnations of the CR
    MaxEditRv,        \* bound: users touch the CR only below this version
    MaxJobs,          \* bound: backups started; any further attempt fails
    MaxFaults         \* bound: failed calls and restarts

ASSUME FlagAssumption == TargetMayVanish \in BOOLEAN /\ LostReplies \in BOOLEAN
ASSUME BoundAssumption == MaxUid \in Nat /\ MaxJobs \in Nat /\ MaxFaults \in Nat

VARIABLES
    cr,          \* the CR as the API server stores it
    cached,      \* the CR as the watch cache shows it
    queued,      \* is its key in the work queue?
    step,        \* the step of its reconcile
    snap,        \* CrdbBackubJobReco.backupJob: the CR in memory
    jobs,        \* jobs[i]: state of the i-th backup job of the cluster
    targetSeen,  \* does the cache show the whole chain to the database?
    faults       \* failures so far

vars == <<cr, cached, queued, step, snap, jobs, targetSeen, faults>>

(* The status is the job id (0: none) and the job state last seen.         *)
Absent == [live |-> FALSE, uid |-> 0, rv |-> 0, del |-> FALSE, fin |-> FALSE,
           other |-> FALSE, job |-> 0, st |-> ""]

Ended == {"succeeded", "failed"}                      \* BackupEnded
JobStates == Ended \cup {"running", "canceled", "gone"}

CR == [live : BOOLEAN, uid : 0..MaxUid, rv : Nat, del : BOOLEAN, fin : BOOLEAN,
       other : {FALSE}, job : 0..MaxJobs, st : {""} \cup (JobStates \ {"gone"})]

Steps == {"idle", "loadObj", "setStatus", "setFinalizer", "createObj", "recordJob",
          "recordFinalizer", "ensureFinalizer", "removeFinalizer", "abandon"}

TypeOK ==
    /\ cr \in CR /\ cached \in CR /\ snap \in CR
    /\ queued \in BOOLEAN /\ targetSeen \in BOOLEAN
    /\ step \in Steps
    /\ jobs \in Seq(JobStates) /\ Len(jobs) <= MaxJobs
    /\ faults \in 0..MaxFaults

Init ==
    /\ cr = Absent /\ cached = Absent /\ snap = Absent
    /\ queued = FALSE
    /\ step = "idle"
    /\ jobs = <<>>
    /\ targetSeen \in BOOLEAN /\ (TargetMayVanish \/ targetSeen)
    /\ faults = 0

-----------------------------------------------------------------------------
(* Leaving a step.                                                         *)

Goto(s) == step' = s /\ UNCHANGED <<queued, snap>>

(* Reconcile returns, with ctrl.Result{} or asking for a retry.            *)
Return(again) ==
    /\ step' = "idle"
    /\ snap' = Absent
    /\ queued' = (queued \/ again)

Fault == /\ faults < MaxFaults
         /\ faults' = faults + 1

(* Reconcile goes on with the CR in memory once LoadObj has answered.      *)
(* RemoveObj only forgets the job; EnsureCorrect polls until the backup    *)
(* has ended; CreateObj with a job id on record skips to the finalizer.    *)
NextStep(exists, inMemory) ==
    LET next == Dispatch(inMemory, exists)
    IN  CASE next = "removeObj" -> "removeFinalizer"
          [] next = "ensureCorrect" -> IF inMemory.st \in Ended THEN "ensureFinalizer" ELSE "poll"
          [] next = "createObj" /\ inMemory.job # 0 -> "ensureFinalizer"
          [] OTHER -> next

(* Faulty: EnsureCorrect does not poll, or forgets that it should.         *)
ContinueUnpolled(exists, inMemory) ==
    LET next == NextStep(exists, inMemory)
    IN  IF next = "idle" THEN Return(FALSE)
        ELSE step' = next /\ snap' = inMemory /\ UNCHANGED queued

ContinueGivesUp(exists, inMemory) ==
    LET next == NextStep(exists, inMemory)
    IN  IF next \in {"idle", "poll"} THEN Return(FALSE)
        ELSE step' = next /\ snap' = inMemory /\ UNCHANGED queued

Continue(exists, inMemory) ==
    LET next == NextStep(exists, inMemory)
    IN  IF next \in {"idle", "poll"} THEN Return(next = "poll")
        ELSE step' = next /\ snap' = inMemory /\ UNCHANGED queued

(* Faulty: a missing chain is retried like any other error.                *)
LoadObjErrorRetries(notFound) == Return(TRUE)

(* LoadObj returned an error.  Only a Kubernetes "not found" on a marked   *)
(* CR lets go of the CR; the result of that update is not looked at.       *)
LoadObjError(notFound) ==
    IF notFound /\ snap.del THEN Goto("abandon") ELSE Return(TRUE)

-----------------------------------------------------------------------------
LoadCR ==
    /\ queued /\ step = "idle"
    /\ IF cached.live THEN queued' = FALSE /\ step' = "loadObj" /\ snap' = cached
                      ELSE UNCHANGED <<queued, step, snap>>
    /\ UNCHANGED <<cr, cached, jobs, targetSeen, faults>>

(* Faulty: the latest job of the cluster is taken for the recorded one.    *)
LoadLatestJob ==
    /\ step = "loadObj"
    /\ \/ /\ snap.job = 0
          /\ Continue(FALSE, snap)
       \/ /\ snap.job # 0 /\ jobs[Len(jobs)] # "gone"
          /\ snap' = [snap EXCEPT !.st = jobs[Len(jobs)]]
          /\ step' = "setStatus"
          /\ UNCHANGED queued
    /\ UNCHANGED <<cr, cached, jobs, targetSeen, faults>>

(* The state read is compared with the status on record; the times in it   *)
(* rarely compare equal, so the status may be written again unchanged.     *)
LoadObj ==
    /\ step = "loadObj"
    /\ \/ /\ snap.job = 0
          /\ Continue(FALSE, snap)
       \/ /\ snap.job # 0 /\ ~targetSeen
          /\ LoadObjError(TRUE)
       \/ /\ snap.job # 0 /\ targetSeen /\ jobs[snap.job] = "gone"
          /\ Continue(FALSE, snap)
       \/ /\ snap.job # 0 /\ targetSeen /\ jobs[snap.job] = snap.st
          /\ Continue(TRUE, snap)
       \/ /\ snap.job # 0 /\ targetSeen /\ jobs[snap.job] # "gone"
          /\ snap' = [snap EXCEPT !.st = jobs[snap.job]]
          /\ step' = "setStatus"
          /\ UNCHANGED queued
    /\ UNCHANGED <<cr, cached, jobs, targetSeen, faults>>

(* No connection, or SHOW JOBS fails.                                      *)
LoadObjFails ==
    /\ step = "loadObj" /\ snap.job # 0
    /\ Fault
    /\ LoadObjError(FALSE)
    /\ UNCHANGED <<cr, cached, jobs, targetSeen>>

(* Faulty: a merge patch of the status, which carries no version.          *)
PatchStatus(next) ==
    /\ cr.live
    /\ cr' = Put(cr, [cr EXCEPT !.job = snap.job, !.st = snap.st])
    /\ snap' = cr'
    /\ step' = next
    /\ UNCHANGED queued

(* Status().Update, which also brings the CR in memory up to date.         *)
WriteStatus(next) ==
    /\ UpToDate(cr, snap)
    /\ cr' = Put(cr, snap)
    /\ snap' = cr'
    /\ step' = next
    /\ UNCHANGED queued

(* SetStatus as LoadObj calls it.                                          *)
SetStatus ==
    /\ step = "setStatus"
    /\ \/ WriteStatus("setFinalizer") /\ UNCHANGED faults
       \/ ~UpToDate(cr, snap) /\ LoadObjError(~cr.live) /\ UNCHANGED <<cr, faults>>
       \/ /\ Fault /\ LoadObjError(FALSE)
          /\ \/ UNCHANGED cr
             \/ LostReplies /\ UpToDate(cr, snap) /\ cr' = Put(cr, snap)
    /\ UNCHANGED <<cached, jobs, targetSeen>>

(* EnsureFinalizer at the end of SetStatus; then LoadObj has found the job.*)
SetFinalizer ==
    /\ step = "setFinalizer"
    /\ \/ snap.fin /\ Continue(TRUE, snap) /\ UNCHANGED <<cr, faults>>
       \/ /\ ~snap.fin /\ UpToDate(cr, snap)
          /\ cr' = Put(cr, WithFinalizer(snap))
          /\ Continue(TRUE, cr')
          /\ UNCHANGED faults
       \/ /\ ~snap.fin /\ ~UpToDate(cr, snap)
          /\ LoadObjError(~cr.live)
          /\ UNCHANGED <<cr, faults>>
       \/ ~snap.fin /\ Fault /\ LoadObjError(FALSE) /\ UNCHANGED cr
    /\ UNCHANGED <<cached, jobs, targetSeen>>

(* BACKUP ... WITH detached: the cluster starts a job and returns its id.  *)
CreateObj ==
    /\ step = "createObj"
    /\ IF targetSeen /\ Len(jobs) < MaxJobs
       THEN /\ jobs' = Append(jobs, "running")
            /\ snap' = [snap EXCEPT !.job = Len(jobs'), !.st = ""]
            /\ step' = "recordJob"
            /\ UNCHANGED queued
       ELSE Return(TRUE) /\ UNCHANGED jobs
    /\ UNCHANGED <<cr, cached, targetSeen, faults>>

CreateObjFails ==
    /\ step = "createObj"
    /\ Fault
    /\ \/ UNCHANGED jobs
       \/ LostReplies /\ Len(jobs) < MaxJobs /\ jobs' = Append(jobs, "running")
    /\ Return(TRUE)
    /\ UNCHANGED <<cr, cached, targetSeen>>

(* SetStatus as CreateObj calls it: the error it returns is dropped, and   *)
(* the reconcile asks for a retry in any case.                             *)
RecordJob ==
    /\ step = "recordJob"
    /\ \/ WriteStatus("recordFinalizer") /\ UNCHANGED faults
       \/ ~UpToDate(cr, snap) /\ Return(TRUE) /\ UNCHANGED <<cr, faults>>
       \/ /\ Fault /\ Return(TRUE)
          /\ \/ UNCHANGED cr
             \/ LostReplies /\ UpToDate(cr, snap) /\ cr' = Put(cr, snap)
    /\ UNCHANGED <<cached, jobs, targetSeen>>

RecordFinalizer ==
    /\ step = "recordFinalizer"
    /\ \/ /\ cr' = IF UpToDate(cr, snap) THEN Put(cr, WithFinalizer(snap)) ELSE cr
          /\ UNCHANGED faults
       \/ Fault /\ UNCHANGED cr
    /\ Return(TRUE)
    /\ UNCHANGED <<cached, jobs, targetSeen>>

(* EnsureFinalizer at the end of Reconcile.                                *)
EnsureFinalizer ==
    /\ step = "ensureFinalizer"
    /\ \/ snap.fin /\ Return(FALSE) /\ UNCHANGED <<cr, faults>>
       \/ /\ ~snap.fin /\ UpToDate(cr, snap)
          /\ cr' = Put(cr, WithFinalizer(snap))
          /\ Return(FALSE)
          /\ UNCHANGED faults
       \/ ~snap.fin /\ ~UpToDate(cr, snap) /\ Return(TRUE) /\ UNCHANGED <<cr, faults>>
       \/ ~snap.fin /\ Fault /\ Return(TRUE) /\ UNCHANGED cr
    /\ UNCHANGED <<cached, jobs, targetSeen>>

RemoveFinalizer ==
    /\ step \in {"removeFinalizer", "abandon"}
    /\ \/ /\ UpToDate(cr, snap)
          /\ cr' = Put(cr, WithoutFinalizer(snap))
          /\ Return(FALSE)
          /\ UNCHANGED faults
       \/ ~UpToDate(cr, snap) /\ Return(step = "removeFinalizer") /\ UNCHANGED <<cr, faults>>
       \/ Fault /\ Return(step = "removeFinalizer") /\ UNCHANGED cr
    /\ UNCHANGED <<cached, jobs, targetSeen>>

Reconcile ==
    \/ LoadObj \/ LoadObjFails \/ SetStatus \/ SetFinalizer
    \/ CreateObj \/ CreateObjFails \/ RecordJob \/ RecordFinalizer
    \/ EnsureFinalizer \/ RemoveFinalizer

-----------------------------------------------------------------------------
(* The cluster around the controller.                                      *)

UserCreates ==
    /\ ~cr.live /\ cr.uid < MaxUid
    /\ cr' = [Absent EXCEPT !.live = TRUE, !.uid = cr.uid + 1, !.rv = cr.rv + 1]
    /\ UNCHANGED <<cached, queued, step, snap, jobs, targetSeen, faults>>

UserDeletes ==
    /\ cr.live /\ ~cr.del
    /\ cr' = Deleted(cr)
    /\ UNCHANGED <<cached, queued, step, snap, jobs, targetSeen, faults>>

(* Any other write to the CR: a label, an annotation, the spec.            *)
UserTouches ==
    /\ cr.live /\ cr.rv < MaxEditRv
    /\ cr' = Stored(cr)
    /\ UNCHANGED <<cached, queued, step, snap, jobs, targetSeen, faults>>

WatchEvent ==
    /\ cached # cr
    /\ cached' = cr
    /\ queued' = TRUE
    /\ UNCHANGED <<cr, step, snap, jobs, targetSeen, faults>>

Resync ==
    /\ cached.live /\ ~queued
    /\ queued' = TRUE
    /\ UNCHANGED <<cr, cached, step, snap, jobs, targetSeen, faults>>

JobEnds(i) ==
    /\ jobs[i] = "running"
    /\ \E end \in Ended \cup {"canceled"} : jobs' = [jobs EXCEPT ![i] = end]
    /\ UNCHANGED <<cr, cached, queued, step, snap, targetSeen, faults>>

(* The cluster forgets old jobs.                                           *)
JobExpires(i) ==
    /\ jobs[i] \in Ended \cup {"canceled"}
    /\ jobs' = [jobs EXCEPT ![i] = "gone"]
    /\ UNCHANGED <<cr, cached, queued, step, snap, targetSeen, faults>>

TargetChanges ==
    /\ TargetMayVanish
    /\ targetSeen' = ~targetSeen
    /\ UNCHANGED <<cr, cached, queued, step, snap, jobs, faults>>

Restart ==
    /\ Fault
    /\ cached' = cr
    /\ queued' = cr.live
    /\ step' = "idle"
    /\ snap' = Absent
    /\ UNCHANGED <<cr, jobs, targetSeen>>

Next ==
    \/ LoadCR \/ Reconcile
    \/ UserCreates \/ UserDeletes \/ UserTouches \/ WatchEvent \/ Resync
    \/ \E i \in DOMAIN jobs : JobEnds(i) \/ JobExpires(i)
    \/ TargetChanges \/ Restart

Spec == Init /\ [][Next]_vars

(* Reconciles run to their end, the queued key is taken, watch events      *)
(* arrive and backups end.  The periodic resync is not counted on, except  *)
(* where a property says so.                                               *)
Fairness ==
    /\ WF_vars(Reconcile) /\ WF_vars(LoadCR) /\ WF_vars(WatchEvent)
    /\ \A i \in 1..MaxJobs : WF_vars(i \in DOMAIN jobs /\ JobEnds(i))

FairSpec == Spec /\ Fairness

-----------------------------------------------------------------------------
(* Properties.                                                             *)

(* Once a job id is on record it stays for the life of the CR: a reconcile *)
(* that started another backup from a stale CR cannot replace it, because  *)
(* its Status().Update carries the stale version.  (SetStatus.)            *)
JobIdIsStable ==
    [][cr.live /\ cr.job # 0 /\ cr'.uid = cr.uid => cr'.job = cr.job]_vars

(* A published end is the end of the recorded job itself, never that of a  *)
(* job started by another reconcile.  (LoadObj, SetStatus.)                *)
PublishedEndIsTrue ==
    cr.live /\ cr.st \in Ended => jobs[cr.job] \in {cr.st, "gone"}

(* The end of the backup of a CR that stays is published in the end: the   *)
(* poll survives failed calls, conflicting updates and restarts.  The job  *)
(* may be forgotten by the cluster first.  (EnsureCorrect, SetStatus.)     *)
EndIsPublished ==
    <>[](cr.live /\ ~cr.del /\ targetSeen /\ Len(jobs) < MaxJobs)
        => <>[](cr.job # 0 /\ (jobs[cr.job] \in {cr.st, "gone"}))

(* A CR that is marked for deletion disappears in the end, whether or not  *)
(* the chain to the database is still there.  It takes the periodic resync:*)
(* when the chain is missing a failed update is not retried.               *)
(* (LoadObj, RemoveFinalizer.)                                             *)
TerminatingGoes == WF_vars(Resync) => ((cr.live /\ cr.del) ~> ~cr.live)

(* No CR starts more than one backup.                                      *)
AtMostOneBackup == Len(jobs) <= cr.uid
=============================================================================
