------------------------ MODULE CrdbBackupJobProofs -------------------------
(***************************************************************************)
(* Proofs about CrdbBackupJob, for any number of incarnations, backups and *)
(* failures.                                                               *)
(*                                                                         *)
(* The argument: a write of the operator is accepted only if the CR in     *)
(* memory has the version that is stored.  Until a step changes it, the CR *)
(* in memory then equals the stored one; LoadObj changes only the state in *)
(* its status, and CreateObj gives a job id only to a CR that had none.    *)
(***************************************************************************)
EXTENDS CrdbBackupJob, TLAPS

(* The cache shows the stored version or an older one.                     *)
CacheLags == cached.rv <= cr.rv /\ (cached.rv = cr.rv => cached = cr)

(* Two versions of the CR that differ at most in their status.             *)
SameButStatus(o, n) ==
    o.live = n.live /\ o.uid = n.uid /\ o.del = n.del /\ o.fin = n.fin /\ o.other = n.other

(* What the step tells about the CR in memory, if an update from it would  *)
(* be accepted.                                                            *)
MemoryAgrees ==
    step # "idle" =>
        /\ snap.rv <= cr.rv
        /\ UpToDate(cr, snap) =>
               /\ step = "setStatus" => SameButStatus(snap, cr) /\ snap.job = cr.job
               /\ step = "recordJob" => SameButStatus(snap, cr) /\ cr.job = 0
               /\ step \notin {"setStatus", "recordJob"} => snap = cr

(* The job of a CR has been started, and the end it claims is the end of   *)
(* that job.                                                               *)
Truthful(o) ==
    /\ o.job <= Len(jobs)
    /\ o.st \in Ended => o.job # 0 /\ jobs[o.job] \in {o.st, "gone"}

StatusIsTrue == Truthful(cr) /\ Truthful(cached) /\ Truthful(snap)

(* CreateObj is reached without a job id.                                  *)
CreatesWithoutJob == step = "createObj" => snap.job = 0

JobInv == TypeOK /\ CacheLags /\ MemoryAgrees /\ StatusIsTrue /\ CreatesWithoutJob

-----------------------------------------------------------------------------
(* What the API server stores.                                             *)

LEMMA AbsentIsCR == Absent \in CR
  BY BoundAssumption DEF Absent, CR

LEMMA CRFields ==
  ASSUME NEW o \in CR
  PROVE  /\ o.rv \in Nat /\ o.uid \in 0..MaxUid /\ o.job \in 0..MaxJobs
         /\ o.live \in BOOLEAN /\ o.del \in BOOLEAN /\ o.fin \in BOOLEAN /\ ~o.other
         /\ o.st # "gone"
  BY DEF CR

LEMMA StoredResult ==
  ASSUME NEW o \in CR
  PROVE  /\ Stored(o) \in CR
         /\ Stored(o).rv = o.rv + 1
         /\ Stored(o).uid = o.uid /\ Stored(o).del = o.del /\ Stored(o).fin = o.fin
         /\ Stored(o).other = o.other /\ Stored(o).job = o.job /\ Stored(o).st = o.st
<1> DEFINE next == [o EXCEPT !.rv = @ + 1]
           alive == ~o.del \/ o.fin \/ o.other
<1>1. next \in CR
  <2>1. PICK v \in Nat : v = o.rv + 1
    BY CRFields
  <2>2. [o EXCEPT !.rv = v] \in CR
    BY DEF CR
  <2> QED
    BY <2>1, <2>2
<1>2. alive \in {TRUE, FALSE}
  OBVIOUS
<1>3. Stored(o) = [next EXCEPT !.live = alive]
  BY DEF Stored
<1> HIDE DEF alive
<1>4. \A b \in {TRUE, FALSE} : [next EXCEPT !.live = b] \in CR
  BY <1>1 DEF CR
<1> QED
  BY <1>1, <1>2, <1>3, <1>4 DEF CR

(* An accepted update stores the new value, as the next version if it      *)
(* differs from the stored one.                                            *)
LEMMA PutResult ==
  ASSUME NEW o \in CR, NEW n \in CR, n.rv = o.rv
  PROVE  /\ Put(o, n) \in CR
         /\ Put(o, n).job = n.job /\ Put(o, n).st = n.st /\ Put(o, n).uid = n.uid
         /\ Put(o, n) = o \/ Put(o, n).rv = o.rv + 1
  BY StoredResult DEF Put

LEMMA FinalizersAreCRs ==
  ASSUME NEW o \in CR
  PROVE  /\ WithFinalizer(o) \in CR /\ WithoutFinalizer(o) \in CR
         /\ WithFinalizer(o).rv = o.rv /\ WithoutFinalizer(o).rv = o.rv
         /\ WithFinalizer(o).job = o.job /\ WithoutFinalizer(o).job = o.job
         /\ WithFinalizer(o).st = o.st /\ WithoutFinalizer(o).st = o.st
         /\ WithFinalizer(o).uid = o.uid /\ WithoutFinalizer(o).uid = o.uid
  BY DEF WithFinalizer, WithoutFinalizer, CR

-----------------------------------------------------------------------------
(* One step.                                                               *)

(* The stored CR stays, or an update with a true status is accepted.       *)
WritesTruth ==
    \/ cr' = cr
    \/ \E n \in CR : n.rv = cr.rv /\ Truthful(n) /\ cr' = Put(cr, n)

(* Steps from which the CR in memory is written as it was read.            *)
PlainSteps == Steps \ {"idle", "setStatus", "recordJob"}

(* The reconcile returns, goes on with the CR it has just written, or goes *)
(* on with the CR it had.                                                  *)
MovesOn ==
    /\ queued' \in BOOLEAN
    /\ \/ step' = "idle" /\ snap' = Absent
       \/ /\ step' \in PlainSteps
          /\ step' = "createObj" => snap'.job = 0
          /\ \/ snap' = cr'
             \/ /\ snap' = snap /\ cr' = cr /\ step # "idle"
                /\ step \in PlainSteps \/ ~UpToDate(cr, snap)

LEMMA VersionsAreNumbers ==
  ASSUME JobInv
  PROVE  cr.rv \in Nat /\ cached.rv \in Nat /\ snap.rv \in Nat
  BY CRFields DEF JobInv, TypeOK

LEMMA AbsentIsTruthful ==
  ASSUME JobInv
  PROVE  Truthful(Absent)
  BY DEF JobInv, TypeOK, Truthful, Absent, Ended

LEMMA MovingOnKeepsInv ==
  ASSUME JobInv, WritesTruth, MovesOn, faults' \in 0..MaxFaults,
         UNCHANGED <<cached, jobs, targetSeen>>
  PROVE  JobInv'
<1>1. cr' \in CR /\ Truthful(cr') /\ (cr' = cr \/ cr'.rv = cr.rv + 1)
  BY PutResult DEF WritesTruth, JobInv, TypeOK, StatusIsTrue, Truthful
<1> USE VersionsAreNumbers
<1>2. CacheLags'
  BY <1>1 DEF JobInv, CacheLags
<1>3. snap' \in CR /\ Truthful(snap')
  BY <1>1, AbsentIsCR, AbsentIsTruthful DEF MovesOn, JobInv, TypeOK, StatusIsTrue
<1>4. TypeOK'
  BY <1>1, <1>3 DEF JobInv, TypeOK, MovesOn, PlainSteps, Steps
<1>5. MemoryAgrees'
  <2>1. CASE step' = "idle"
    BY <2>1 DEF MemoryAgrees
  <2>2. CASE step' \in PlainSteps /\ snap' = cr'
    BY <1>1, <2>2, CRFields DEF MemoryAgrees, PlainSteps
  <2>3. CASE /\ step' \in PlainSteps /\ snap' = snap /\ cr' = cr /\ step # "idle"
             /\ step \in PlainSteps \/ ~UpToDate(cr, snap)
    BY <2>3 DEF MemoryAgrees, PlainSteps, UpToDate, JobInv
  <2> QED
    BY <2>1, <2>2, <2>3 DEF MovesOn
<1>6. StatusIsTrue'
  BY <1>1, <1>3 DEF JobInv, StatusIsTrue, Truthful
<1>7. CreatesWithoutJob'
  BY DEF CreatesWithoutJob, MovesOn
<1> QED
  BY <1>2, <1>4, <1>5, <1>6, <1>7 DEF JobInv

(* The ways out of a step.                                                 *)
LEMMA FaultCounts ==
  ASSUME JobInv, Fault \/ UNCHANGED faults
  PROVE  faults' \in 0..MaxFaults
  BY BoundAssumption DEF JobInv, TypeOK, Fault

LEMMA ReturnMovesOn ==
  ASSUME JobInv, NEW again \in BOOLEAN, Return(again)
  PROVE  MovesOn
  BY DEF JobInv, TypeOK, Return, MovesOn

LEMMA LoadObjErrorMovesOn ==
  ASSUME JobInv, NEW notFound, LoadObjError(notFound), cr' = cr,
         step # "idle", notFound => step \in PlainSteps \/ ~UpToDate(cr, snap)
  PROVE  MovesOn
<1>1. CASE notFound /\ snap.del
  BY <1>1 DEF LoadObjError, Goto, MovesOn, PlainSteps, Steps, JobInv, TypeOK
<1>2. CASE ~(notFound /\ snap.del)
  BY <1>2, ReturnMovesOn DEF LoadObjError
<1> QED
  BY <1>1, <1>2

LEMMA ContinueMovesOn ==
  ASSUME JobInv, NEW exists \in BOOLEAN, NEW o \in CR, Continue(exists, o),
         \/ o = cr'
         \/ o = snap /\ cr' = cr /\ step \in PlainSteps
  PROVE  MovesOn
<1>1. NextStep(exists, o) \in {"removeFinalizer", "ensureFinalizer", "poll", "idle", "createObj"}
  BY CRFields DEF NextStep, Dispatch
<1>2. NextStep(exists, o) = "createObj" => o.job = 0
  BY CRFields DEF NextStep, Dispatch
<1>3. CASE NextStep(exists, o) \in {"idle", "poll"}
  BY <1>3, ReturnMovesOn DEF Continue
<1>4. CASE NextStep(exists, o) \notin {"idle", "poll"}
  <2>1. step' = NextStep(exists, o) /\ snap' = o /\ queued' = queued
    BY <1>4 DEF Continue
  <2> QED
    BY <1>1, <1>2, <1>4, <2>1 DEF MovesOn, PlainSteps, Steps, JobInv, TypeOK
<1> QED
  BY <1>3, <1>4

(* The updates the operator makes.                                         *)
LEMMA UpdatesAreTrue ==
  ASSUME JobInv, UpToDate(cr, snap),
         \/ cr' = Put(cr, snap)
         \/ cr' = Put(cr, WithFinalizer(snap))
         \/ cr' = Put(cr, WithoutFinalizer(snap))
  PROVE  WritesTruth
<1>1. snap \in CR /\ snap.rv = cr.rv /\ Truthful(snap)
  BY DEF JobInv, TypeOK, StatusIsTrue, UpToDate
<1>2. /\ WithFinalizer(snap).rv = cr.rv /\ Truthful(WithFinalizer(snap))
      /\ WithoutFinalizer(snap).rv = cr.rv /\ Truthful(WithoutFinalizer(snap))
  BY <1>1, FinalizersAreCRs DEF Truthful
<1> QED
  BY <1>1, <1>2, FinalizersAreCRs DEF WritesTruth

LEMMA LoadStep ==
  ASSUME JobInv, LoadCR
  PROVE  JobInv'
<1>1. CASE ~cached.live
  BY <1>1 DEF LoadCR, JobInv, TypeOK, CacheLags, MemoryAgrees, StatusIsTrue, Truthful,
              CreatesWithoutJob
<1>2. CASE cached.live
  <2>1. step' = "loadObj" /\ snap' = cached /\ queued' = FALSE
        /\ UNCHANGED <<cr, cached, jobs, targetSeen, faults>>
    BY <1>2 DEF LoadCR
  <2>2. TypeOK'
    BY <2>1 DEF JobInv, TypeOK, Steps
  <2>3. MemoryAgrees'
    BY <2>1, VersionsAreNumbers DEF JobInv, CacheLags, MemoryAgrees, UpToDate
  <2> QED
    BY <2>1, <2>2, <2>3 DEF JobInv, CacheLags, StatusIsTrue, Truthful, CreatesWithoutJob
<1> QED
  BY <1>1, <1>2

LEMMA LoadObjStep ==
  ASSUME JobInv, LoadObj
  PROVE  JobInv'
<1> step = "loadObj" /\ UNCHANGED <<cr, cached, jobs, targetSeen, faults>>
  BY DEF LoadObj
<1>1. step \in PlainSteps /\ step # "idle" /\ snap \in CR /\ WritesTruth
  BY DEF PlainSteps, Steps, JobInv, TypeOK, WritesTruth
<1>2. CASE \E exists \in BOOLEAN : Continue(exists, snap)
  BY <1>1, <1>2, ContinueMovesOn, FaultCounts, MovingOnKeepsInv
<1>3. CASE LoadObjError(TRUE)
  BY <1>1, <1>3, LoadObjErrorMovesOn, FaultCounts, MovingOnKeepsInv
<1>4. CASE /\ snap.job # 0 /\ jobs[snap.job] # "gone"
           /\ snap' = [snap EXCEPT !.st = jobs[snap.job]]
           /\ step' = "setStatus" /\ queued' = queued
  <2>1. snap.job \in 1..Len(jobs)
    BY <1>1, <1>4, CRFields DEF JobInv, TypeOK, StatusIsTrue, Truthful
  <2>2. jobs[snap.job] \in JobStates \ {"gone"}
    BY <1>4, <2>1 DEF JobInv, TypeOK
  <2>3. snap' \in CR /\ snap'.rv = snap.rv /\ snap'.job = snap.job /\ snap'.st = jobs[snap.job]
        /\ SameButStatus(snap', snap)
    BY <1>1, <1>4, <2>2 DEF CR, SameButStatus
  <2>4. TypeOK'
    BY <1>4, <2>3 DEF JobInv, TypeOK, Steps
  <2>5. MemoryAgrees'
    BY <1>4, <2>3 DEF JobInv, MemoryAgrees, UpToDate, SameButStatus
  <2>6. Truthful(snap')
    BY <1>4, <2>3 DEF JobInv, StatusIsTrue, Truthful
  <2> QED
    BY <1>4, <2>4, <2>5, <2>6 DEF JobInv, CacheLags, StatusIsTrue, Truthful, CreatesWithoutJob
<1> QED
  BY <1>2, <1>3, <1>4 DEF LoadObj

LEMMA CreateObjStep ==
  ASSUME JobInv, CreateObj
  PROVE  JobInv'
<1> step = "createObj" /\ UNCHANGED <<cr, cached, targetSeen, faults>>
  BY DEF CreateObj
<1>1. CASE Return(TRUE) /\ UNCHANGED jobs
  BY <1>1, ReturnMovesOn, FaultCounts, MovingOnKeepsInv DEF WritesTruth
<1>2. CASE /\ Len(jobs) < MaxJobs /\ jobs' = Append(jobs, "running")
           /\ snap' = [snap EXCEPT !.job = Len(jobs'), !.st = ""]
           /\ step' = "recordJob" /\ queued' = queued
  <2>1. /\ Len(jobs') = Len(jobs) + 1 /\ jobs' \in Seq(JobStates)
        /\ \A i \in 1..Len(jobs) : jobs'[i] = jobs[i]
    BY <1>2 DEF JobInv, TypeOK, JobStates
  <2>2. Len(jobs') \in 1..MaxJobs
    BY <1>2, <2>1, BoundAssumption DEF JobInv, TypeOK
  <2>3. /\ snap' \in CR /\ snap'.rv = snap.rv /\ snap'.job = Len(jobs') /\ snap'.st = ""
        /\ SameButStatus(snap', snap)
    <3> PICK n \in 1..MaxJobs : n = Len(jobs')
      BY <2>2
    <3>1. n \in 0..MaxJobs
      BY BoundAssumption
    <3>2. snap' = [snap EXCEPT !.job = n, !.st = ""]
      BY <1>2
    <3> QED
      BY <3>1, <3>2 DEF JobInv, TypeOK, CR, SameButStatus
  <2>4. TypeOK'
    BY <1>2, <2>1, <2>2, <2>3 DEF JobInv, TypeOK, Steps
  <2>5. MemoryAgrees'
    BY <1>2, <2>3 DEF JobInv, MemoryAgrees, UpToDate, SameButStatus, CreatesWithoutJob
  <2>6. Truthful(cr)' /\ Truthful(cached)'
    BY <2>1, CRFields DEF Truthful, JobInv, TypeOK, StatusIsTrue
  <2>7. Truthful(snap)'
    <3>1. Len(jobs') <= Len(jobs')
      BY <2>1
    <3>2. snap'.st \notin Ended
      BY <2>3 DEF Ended
    <3> QED
      BY <2>3, <3>1, <3>2 DEF Truthful
  <2> QED
    BY <1>2, <2>4, <2>5, <2>6, <2>7 DEF JobInv, CacheLags, StatusIsTrue, CreatesWithoutJob
<1> QED
  BY <1>1, <1>2 DEF CreateObj

LEMMA JobEndsOrExpires ==
  ASSUME JobInv, NEW i \in DOMAIN jobs, JobEnds(i) \/ JobExpires(i)
  PROVE  JobInv'
<1>1. PICK end \in JobStates : jobs' = [jobs EXCEPT ![i] = end]
  BY DEF JobEnds, JobExpires, JobStates
<1>2. jobs[i] \in Ended => end = "gone"
  BY <1>1 DEF JobEnds, JobExpires, Ended, JobInv, TypeOK
<1>3. UNCHANGED <<cr, cached, queued, step, snap, targetSeen, faults>>
  BY DEF JobEnds, JobExpires
<1>4. jobs' \in Seq(JobStates) /\ Len(jobs') = Len(jobs)
  BY <1>1 DEF JobInv, TypeOK
<1>5. TypeOK' /\ CacheLags' /\ MemoryAgrees' /\ CreatesWithoutJob'
  BY <1>3, <1>4 DEF JobInv, TypeOK, CacheLags, MemoryAgrees, CreatesWithoutJob
<1>6. \A j \in 1..Len(jobs) : jobs'[j] # jobs[j] /\ jobs[j] \in Ended => jobs'[j] = "gone"
  BY <1>1, <1>2 DEF JobInv, TypeOK
<1>7. jobs[i] # "gone"
  BY DEF JobEnds, JobExpires, Ended
<1>8. \A o \in CR : Truthful(o) => /\ o.job <= Len(jobs')
                                   /\ o.st \in Ended => /\ o.job # 0
                                                        /\ jobs'[o.job] \in {o.st, "gone"}
  <2> TAKE o \in CR
  <2>1. o.job \in Nat /\ Len(jobs) \in Nat
    BY CRFields, BoundAssumption DEF JobInv, TypeOK
  <2>2. CASE o.st \in Ended
    <3> SUFFICES ASSUME Truthful(o)
                 PROVE  o.job <= Len(jobs') /\ o.job # 0 /\ jobs'[o.job] \in {o.st, "gone"}
      BY <2>2
    <3>1. o.job \in 1..Len(jobs) /\ jobs[o.job] \in {o.st, "gone"} /\ o.job # 0
      BY <2>1, <2>2 DEF Truthful
    <3>2. jobs'[o.job] \in {jobs[o.job], "gone"}
      <4>1. CASE jobs[o.job] = "gone"
        BY <1>1, <1>7, <3>1, <4>1 DEF JobInv, TypeOK
      <4> QED
        BY <1>6, <2>2, <3>1, <4>1
    <3> QED
      BY <1>4, <3>1, <3>2 DEF Truthful
  <2> QED
    BY <1>4, <2>2 DEF Truthful
<1>9. StatusIsTrue'
  BY <1>3, <1>8 DEF JobInv, TypeOK, StatusIsTrue, Truthful
<1> QED
  BY <1>5, <1>9 DEF JobInv

(* Writes of users, and of the informer.                                   *)
LEMMA OutsideStep ==
  ASSUME JobInv, UserCreates \/ UserDeletes \/ UserTouches \/ WatchEvent \/ Resync
                 \/ TargetChanges \/ Restart
  PROVE  JobInv'
<1> USE VersionsAreNumbers
<1>1. CASE UserCreates \/ UserDeletes \/ UserTouches
  <2>1. UNCHANGED <<cached, queued, step, snap, jobs, targetSeen, faults>>
    BY <1>1 DEF UserCreates, UserDeletes, UserTouches
  <2>2. cr' \in CR /\ cr'.rv = cr.rv + 1 /\ Truthful(cr')
    <3>1. CASE UserCreates
      <4>1. PICK u \in 0..MaxUid, v \in Nat : u = cr.uid + 1 /\ v = cr.rv + 1
        BY <3>1, CRFields, BoundAssumption DEF UserCreates, JobInv, TypeOK
      <4>2. cr' = [Absent EXCEPT !.live = TRUE, !.uid = u, !.rv = v]
        BY <3>1, <4>1 DEF UserCreates
      <4>3. cr' \in CR /\ cr'.rv = v /\ cr'.job = 0 /\ cr'.st = ""
        BY <4>2, AbsentIsCR DEF CR, Absent
      <4>4. 0 <= Len(jobs) /\ "" \notin Ended
        BY DEF Ended, JobInv, TypeOK
      <4> QED
        BY <4>1, <4>3, <4>4 DEF Truthful
    <3>2. CASE UserDeletes
      <4> DEFINE x == [cr EXCEPT !.del = TRUE]
      <4>1. x \in CR /\ x.rv = cr.rv /\ x.job = cr.job /\ x.st = cr.st
        BY DEF JobInv, TypeOK, CR
      <4>2. cr' = Stored(x)
        BY <3>2 DEF UserDeletes, Deleted
      <4> HIDE DEF x
      <4> QED
        BY <4>1, <4>2, StoredResult DEF JobInv, StatusIsTrue, Truthful
    <3>3. CASE UserTouches
      BY <3>3, StoredResult DEF UserTouches, JobInv, TypeOK, StatusIsTrue, Truthful
    <3> QED
      BY <1>1, <3>1, <3>2, <3>3
  <2>3. TypeOK' /\ CreatesWithoutJob' /\ StatusIsTrue'
    BY <2>1, <2>2 DEF JobInv, TypeOK, CreatesWithoutJob, StatusIsTrue, Truthful
  <2>4. CacheLags' /\ MemoryAgrees'
    BY <2>1, <2>2 DEF JobInv, CacheLags, MemoryAgrees, UpToDate
  <2> QED
    BY <2>3, <2>4 DEF JobInv
<1>2. CASE WatchEvent
  BY <1>2 DEF WatchEvent, JobInv, TypeOK, CacheLags, MemoryAgrees, StatusIsTrue, Truthful,
              CreatesWithoutJob
<1>3. CASE Resync \/ TargetChanges
  BY <1>3 DEF Resync, TargetChanges, JobInv, TypeOK, CacheLags, MemoryAgrees, StatusIsTrue,
              Truthful, CreatesWithoutJob
<1>4. CASE Restart
  <2>1. TypeOK'
    BY <1>4, AbsentIsCR, CRFields, FaultCounts DEF Restart, JobInv, TypeOK, Steps
  <2> QED
    BY <1>4, <2>1, AbsentIsTruthful
       DEF Restart, JobInv, CacheLags, MemoryAgrees, StatusIsTrue, Truthful, CreatesWithoutJob
<1> QED
  BY <1>1, <1>2, <1>3, <1>4

LEMMA JobInvStep == JobInv /\ [Next]_vars => JobInv'
<1> SUFFICES ASSUME JobInv, [Next]_vars PROVE JobInv'
  OBVIOUS
<1> USE FaultCounts, MovingOnKeepsInv, ReturnMovesOn, UpdatesAreTrue DEF PlainSteps, Steps
<1>1. CASE LoadObjFails
  <2>1. MovesOn
    BY <1>1, LoadObjErrorMovesOn DEF LoadObjFails
  <2> QED
    BY <1>1, <2>1 DEF LoadObjFails, WritesTruth
<1>2. CASE SetStatus
  <2>1. CASE WriteStatus("setFinalizer") /\ UNCHANGED faults
    <3>1. WritesTruth
      BY <2>1 DEF WriteStatus
    <3>2. MovesOn
      BY <2>1 DEF WriteStatus, MovesOn, JobInv, TypeOK
    <3> QED
      BY <1>2, <2>1, <3>1, <3>2 DEF SetStatus
  <2>2. CASE ~UpToDate(cr, snap) /\ LoadObjError(~cr.live) /\ UNCHANGED <<cr, faults>>
    <3>1. MovesOn
      BY <1>2, <2>2, LoadObjErrorMovesOn DEF SetStatus
    <3> QED
      BY <1>2, <2>2, <3>1 DEF SetStatus, WritesTruth
  <2>3. CASE /\ Fault /\ LoadObjError(FALSE)
             /\ \/ UNCHANGED cr
                \/ LostReplies /\ UpToDate(cr, snap) /\ cr' = Put(cr, snap)
    <3>1. WritesTruth
      BY <2>3 DEF WritesTruth
    <3>2. MovesOn
      BY <2>3 DEF LoadObjError
    <3> QED
      BY <1>2, <2>3, <3>1, <3>2 DEF SetStatus
  <2> QED
    BY <1>2, <2>1, <2>2, <2>3 DEF SetStatus
<1>3. CASE SetFinalizer
  <2> snap \in CR /\ step = "setFinalizer" /\ UNCHANGED <<cached, jobs, targetSeen>>
    BY <1>3 DEF SetFinalizer, JobInv, TypeOK
  <2>1. CASE Continue(TRUE, snap) /\ UNCHANGED <<cr, faults>>
    BY <2>1, ContinueMovesOn DEF WritesTruth
  <2>2. CASE /\ UpToDate(cr, snap) /\ cr' = Put(cr, WithFinalizer(snap))
             /\ Continue(TRUE, cr') /\ UNCHANGED faults
    <3>1. WritesTruth
      BY <2>2
    <3>2. cr' \in CR
      BY <3>1, PutResult DEF WritesTruth, JobInv, TypeOK
    <3>3. MovesOn
      BY <2>2, <3>2, ContinueMovesOn
    <3> QED
      BY <2>2, <3>1, <3>3
  <2>3. CASE LoadObjError(~cr.live) /\ UNCHANGED <<cr, faults>>
    BY <2>3, LoadObjErrorMovesOn DEF WritesTruth
  <2>4. CASE Fault /\ LoadObjError(FALSE) /\ UNCHANGED cr
    BY <2>4, LoadObjErrorMovesOn DEF WritesTruth
  <2> QED
    BY <1>3, <2>1, <2>2, <2>3, <2>4 DEF SetFinalizer
<1>4. CASE CreateObjFails
  <2> Return(TRUE) /\ UNCHANGED <<cr, cached, targetSeen>>
    BY <1>4 DEF CreateObjFails
  <2>1. CASE UNCHANGED jobs
    BY <1>4, <2>1 DEF CreateObjFails, WritesTruth
  <2>2. CASE Len(jobs) < MaxJobs /\ jobs' = Append(jobs, "running")
    <3>1. /\ Len(jobs') = Len(jobs) + 1 /\ jobs' \in Seq(JobStates)
          /\ \A i \in 1..Len(jobs) : jobs'[i] = jobs[i]
      BY <2>2 DEF JobInv, TypeOK, JobStates
    <3>2. Len(jobs') <= MaxJobs
      BY <2>2, <3>1, BoundAssumption DEF JobInv, TypeOK
    <3>3. snap' = Absent /\ step' = "idle" /\ queued' \in BOOLEAN
      BY DEF Return, JobInv, TypeOK
    <3>4. TypeOK'
      BY <1>4, <3>1, <3>2, <3>3, AbsentIsCR DEF CreateObjFails, JobInv, TypeOK
    <3>5. Truthful(cr)' /\ Truthful(cached)'
      BY <3>1, CRFields DEF Truthful, JobInv, TypeOK, StatusIsTrue
    <3>6. Truthful(snap)'
      <4>1. 0 <= Len(jobs') /\ "" \notin Ended
        BY <3>1 DEF Ended
      <4> QED
        BY <3>3, <4>1 DEF Truthful, Absent
    <3> QED
      BY <3>3, <3>4, <3>5, <3>6 DEF JobInv, CacheLags, MemoryAgrees, StatusIsTrue, CreatesWithoutJob
  <2> QED
    BY <1>4, <2>1, <2>2 DEF CreateObjFails
<1>5. CASE RecordJob
  <2> UNCHANGED <<cached, jobs, targetSeen>>
    BY <1>5 DEF RecordJob
  <2>1. CASE WriteStatus("recordFinalizer") /\ UNCHANGED faults
    <3>1. WritesTruth
      BY <2>1 DEF WriteStatus
    <3>2. MovesOn
      BY <2>1 DEF WriteStatus, MovesOn, JobInv, TypeOK
    <3> QED
      BY <2>1, <3>1, <3>2
  <2>2. CASE Return(TRUE) /\ UNCHANGED <<cr, faults>>
    BY <2>2 DEF WritesTruth
  <2>3. CASE /\ Fault /\ Return(TRUE)
             /\ \/ UNCHANGED cr
                \/ LostReplies /\ UpToDate(cr, snap) /\ cr' = Put(cr, snap)
    BY <2>3 DEF WritesTruth
  <2> QED
    BY <1>5, <2>1, <2>2, <2>3 DEF RecordJob
<1>6. CASE RecordFinalizer
  <2>1. WritesTruth
    BY <1>6 DEF RecordFinalizer, WritesTruth
  <2> QED
    BY <1>6, <2>1 DEF RecordFinalizer
<1>7. CASE EnsureFinalizer
  <2>1. WritesTruth
    BY <1>7 DEF EnsureFinalizer, WritesTruth
  <2> QED
    BY <1>7, <2>1 DEF EnsureFinalizer
<1>8. CASE RemoveFinalizer
  <2>1. WritesTruth
    BY <1>8 DEF RemoveFinalizer, WritesTruth
  <2>2. (step = "removeFinalizer") \in BOOLEAN
    OBVIOUS
  <2> QED
    BY <1>8, <2>1, <2>2 DEF RemoveFinalizer
<1>9. CASE UNCHANGED vars
  BY <1>9 DEF vars, JobInv, TypeOK, CacheLags, MemoryAgrees, StatusIsTrue, Truthful,
              CreatesWithoutJob
<1> QED
  BY <1>1, <1>2, <1>3, <1>4, <1>5, <1>6, <1>7, <1>8, <1>9, LoadStep, LoadObjStep, CreateObjStep,
     JobEndsOrExpires, OutsideStep DEF Next, Reconcile

LEMMA JobInvInit == Init => JobInv
<1> SUFFICES ASSUME Init PROVE JobInv
  OBVIOUS
<1>1. jobs \in Seq(JobStates) /\ Len(jobs) = 0
  BY DEF Init
<1>2. TypeOK
  <2>1. queued \in BOOLEAN /\ targetSeen \in BOOLEAN /\ step \in Steps
    BY DEF Init, Steps
  <2>2. Len(jobs) <= MaxJobs /\ faults \in 0..MaxFaults
    BY <1>1, BoundAssumption DEF Init
  <2> QED
    BY <1>1, <2>1, <2>2, AbsentIsCR DEF Init, TypeOK
<1>3. Truthful(Absent)
  BY <1>1 DEF Truthful, Absent, Ended
<1> QED
  BY <1>2, <1>3, CRFields, AbsentIsCR
     DEF Init, JobInv, CacheLags, MemoryAgrees, StatusIsTrue, CreatesWithoutJob

(* CRs stay CRs, job ids and job states keep to their ranges, and a        *)
(* reconcile is always in one of its steps.                                *)
THEOREM JobTypeCorrect == Spec => []TypeOK
<1>1. JobInv => TypeOK
  BY DEF JobInv
<1> QED
  BY <1>1, JobInvInit, JobInvStep, PTL DEF Spec

(* A published end is the end of the recorded job itself, whatever backups *)
(* other reconciles have started.  (LoadObj, SetStatus.)                   *)
THEOREM PublishedEndIsTrueHolds == Spec => []PublishedEndIsTrue
<1>1. JobInv => PublishedEndIsTrue
  BY DEF JobInv, StatusIsTrue, Truthful, PublishedEndIsTrue
<1> QED
  BY <1>1, JobInvInit, JobInvStep, PTL DEF Spec

-----------------------------------------------------------------------------
(* Every write keeps a job id that is on record: those of users touch no   *)
(* status, and one from memory is accepted only where the id is the stored *)
(* one, or the first.                                                      *)
LEMMA WritesKeepJob ==
  ASSUME JobInv, cr.live, cr.job # 0,
         \/ UNCHANGED cr
         \/ /\ UpToDate(cr, snap) /\ step \in {"setStatus", "recordJob"}
            /\ cr' = Put(cr, snap)
         \/ /\ UpToDate(cr, snap) /\ step \in PlainSteps
            /\ cr' \in {Put(cr, WithFinalizer(snap)), Put(cr, WithoutFinalizer(snap))}
         \/ UserDeletes \/ UserTouches
  PROVE  cr'.job = cr.job
<1>1. cr \in CR /\ snap \in CR
  BY DEF JobInv, TypeOK
<1>2. CASE UNCHANGED cr
  BY <1>2
<1>3. CASE /\ UpToDate(cr, snap) /\ step \in {"setStatus", "recordJob"}
           /\ cr' = Put(cr, snap)
  <2>1. snap.rv = cr.rv /\ snap.job = cr.job
    BY <1>3 DEF JobInv, MemoryAgrees, UpToDate
  <2> QED
    BY <1>1, <1>3, <2>1, PutResult
<1>4. CASE /\ UpToDate(cr, snap) /\ step \in PlainSteps
           /\ cr' \in {Put(cr, WithFinalizer(snap)), Put(cr, WithoutFinalizer(snap))}
  <2>1. snap = cr
    BY <1>4 DEF JobInv, MemoryAgrees, PlainSteps
  <2> QED
    BY <1>1, <1>4, <2>1, PutResult, FinalizersAreCRs
<1>5. CASE UserDeletes
  <2> DEFINE x == [cr EXCEPT !.del = TRUE]
  <2>1. x \in CR /\ x.job = cr.job
    BY <1>1 DEF CR
  <2>2. cr' = Stored(x)
    BY <1>5 DEF UserDeletes, Deleted
  <2> HIDE DEF x
  <2> QED
    BY <2>1, <2>2, StoredResult
<1>6. CASE UserTouches
  BY <1>1, <1>6, StoredResult DEF UserTouches
<1> QED
  BY <1>2, <1>3, <1>4, <1>5, <1>6

(* Once on record, a job id stays for the life of the CR, although         *)
(* reconciles from stale CRs start further backups and try to record them. *)
(* (SetStatus, Status().Update.)                                           *)
THEOREM JobIdIsStableHolds == Spec => JobIdIsStable
<1>1. ASSUME JobInv, [Next]_vars
      PROVE  cr.live /\ cr.job # 0 /\ cr'.uid = cr.uid => cr'.job = cr.job
  <2> SUFFICES ASSUME cr.live, cr.job # 0 PROVE cr'.job = cr.job
    OBVIOUS
  <2> USE WritesKeepJob DEF PlainSteps, Steps
  <2>1. CASE SetStatus \/ RecordJob
    BY <1>1, <2>1 DEF SetStatus, RecordJob, WriteStatus
  <2>2. CASE SetFinalizer \/ RecordFinalizer \/ EnsureFinalizer \/ RemoveFinalizer
    BY <1>1, <2>2 DEF SetFinalizer, RecordFinalizer, EnsureFinalizer, RemoveFinalizer
  <2>3. CASE UserCreates \/ UserDeletes \/ UserTouches
    BY <1>1, <2>3 DEF UserCreates
  <2>4. CASE UNCHANGED cr
    BY <2>4
  <2>5. CASE LoadCR \/ LoadObj \/ LoadObjFails \/ CreateObj \/ CreateObjFails
    BY <2>4, <2>5 DEF LoadCR, LoadObj, LoadObjFails, CreateObj, CreateObjFails
  <2>6. CASE WatchEvent \/ Resync \/ TargetChanges \/ Restart \/ UNCHANGED vars
    BY <2>4, <2>6 DEF WatchEvent, Resync, TargetChanges, Restart, vars
  <2>7. CASE \E i \in DOMAIN jobs : JobEnds(i) \/ JobExpires(i)
    BY <2>4, <2>7 DEF JobEnds, JobExpires
  <2> QED
    BY <1>1, <2>1, <2>2, <2>3, <2>5, <2>6, <2>7 DEF Next, Reconcile
<1> QED
  BY <1>1, JobInvInit, JobInvStep, PTL DEF Spec, JobIdIsStable
=============================================================================
