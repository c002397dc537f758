---------------------- MODULE CrdbBackupCronJobProofs -----------------------
(***************************************************************************)
(* Proofs about CrdbBackupCronJob, for any number of incarnations, edits,  *)
(* statements and failures.                                                *)
(*                                                                         *)
(* The argument: the copies of the CR form a chain of versions             *)
(* (RecoProofs), and a reconcile that still works from a CR that was       *)
(* released meanwhile holds the schedule id with which it was released.    *)
(* The cluster never gives out an id twice, so such a reconcile finds its  *)
(* own schedule or none.                                                   *)
(***************************************************************************)
EXTENDS CrdbBackupCronJob, RecoProofs

VersionChain == Chain(step, snap, cached, cr, released.cr.uid)

(* A CR that is seen after its release is the one that was released.       *)
AsReleased(o) ==
    o.uid = released.cr.uid => o.sid = released.cr.sid /\ o.drop = released.cr.drop

Echoes ==
    /\ cached.live => AsReleased(cached)
    /\ step # "idle" => AsReleased(snap)

(* Of a marked CR the controller changes neither id nor drop, so cache and *)
(* memory agree if an update from memory would be accepted.                *)
MarkedAgree ==
    step # "idle" /\ UpToDate(cr, snap) /\ snap.del =>
        /\ snap.sid = cr.sid /\ snap.drop = cr.drop
        /\ snap.sid = cached.sid /\ snap.drop = cached.drop

(* What each step knows of the CR in memory and of the schedule.           *)
StepKnows ==
    /\ step \in {"ensureCorrect", "recreate", "recordRecreated", "applySuspend",
                 "createObj", "recordCreated", "ensureFinalizer"} => ~snap.del
    /\ step \in {"removeObj", "removeFinalizer", "abandon"} => snap.del
    /\ step = "removeObj" => snap.fin
    /\ step \in {"setStatus", "ensureCorrect", "removeObj"} =>
           snap.sid # 0 /\ sched.id = snap.sid /\ sched.cmd = snap.cmd
    /\ step = "removeFinalizer" /\ snap.drop /\ snap.sid # 0 => sched.id = 0

(* The schedule of a CR released in that step is never seen again.         *)
IdsAreFresh ==
    /\ released.by = "idle" => released.cr.uid = 0
    /\ released.by = "removeFinalizer" /\ released.cr.drop /\ released.cr.sid # 0 =>
           sched.id # released.cr.sid

CronInv ==
    /\ TypeOK /\ VersionChain /\ Echoes /\ MarkedAgree /\ StepKnows /\ IdsAreFresh
    /\ ReleasedScheduleIsGone

-----------------------------------------------------------------------------
(* What the API server stores.                                             *)

LEMMA AbsentIsCR == Absent \in CR
  BY BoundAssumption DEF Absent, CR

LEMMA CRFields ==
  ASSUME NEW o \in CR
  PROVE  /\ Versioned(o) /\ o.uid \in 0..MaxUid /\ o.rv \in Nat
         /\ o.sid \in Nat /\ o.cmd \in 0..MaxStmt /\ o.drop \in BOOLEAN
<1>1. o.rv \in Nat /\ o.uid \in 0..MaxUid /\ o.sid \in Nat /\ o.cmd \in 0..MaxStmt
  BY DEF CR
<1>2. /\ o.live \in BOOLEAN /\ o.del \in BOOLEAN /\ o.fin \in BOOLEAN /\ o.drop \in BOOLEAN
      /\ ~o.other
  BY DEF CR
<1> QED
  BY <1>1, <1>2, BoundAssumption DEF Versioned

LEMMA StoredResult ==
  ASSUME NEW o \in CR
  PROVE  /\ Stored(o) \in CR
         /\ Stored(o).rv = o.rv + 1 /\ Stored(o).uid = o.uid
         /\ Stored(o).del = o.del /\ Stored(o).fin = o.fin
         /\ Stored(o).live = (~o.del \/ o.fin)
         /\ Stored(o).sid = o.sid /\ Stored(o).cmd = o.cmd /\ Stored(o).drop = o.drop
<1> DEFINE next == [o EXCEPT !.rv = @ + 1]
           alive == ~o.del \/ o.fin \/ o.other
<1>1. next \in CR
  <2>1. PICK v \in Nat : v = o.rv + 1
    BY CRFields
  <2>2. [o EXCEPT !.rv = v] \in CR
    BY DEF CR
  <2> QED
    BY <2>1, <2>2
<1>2. alive \in {TRUE, FALSE} /\ alive = (~o.del \/ o.fin)
  BY CRFields DEF Versioned
<1>3. Stored(o) = [next EXCEPT !.live = alive]
  BY DEF Stored
<1> HIDE DEF alive
<1>4. \A b \in {TRUE, FALSE} : [next EXCEPT !.live = b] \in CR
  BY <1>1 DEF CR
<1> QED
  BY <1>1, <1>2, <1>3, <1>4 DEF CR

(* n is o with another status; the id of a marked CR stays.                *)
Restated(n, o) ==
    /\ n \in CR /\ n.rv = o.rv /\ SameMeta(n, o)
    /\ n.drop = o.drop /\ (o.del => n.sid = o.sid) /\ n.sid <= lastId

(* An accepted status update.                                              *)
LEMMA PutRestated ==
  ASSUME CronInv, step # "idle", UpToDate(cr, snap), NEW n, Restated(n, snap), cr' = Put(cr, n)
  PROVE  /\ cr' \in CR /\ Updated(cr, cr')
         /\ cr'.drop = n.drop /\ cr'.sid = n.sid /\ cr'.cmd = n.cmd
         /\ UpToDate(cr', n) => cr' = n
<1>1. cr \in CR /\ snap \in CR /\ n \in CR /\ n.rv = cr.rv /\ SameMeta(n, snap)
  BY DEF CronInv, TypeOK, Restated, UpToDate
<1>2. SameMeta(snap, cr) /\ cr.live /\ WellFormed(cr)
  BY DEF CronInv, VersionChain, Chain, WorksFrom, Stores, UpToDate
<1>3. CASE n = cr
  BY <1>1, <1>3 DEF Put, Updated
<1>4. CASE n # cr
  <2>1. cr' = Stored(n) /\ Versioned(n) /\ Versioned(cr)
    BY <1>1, <1>4, CRFields DEF Put
  <2>2. cr'.rv = cr.rv + 1 /\ SameMeta(cr', cr)
    <3>1. cr'.rv = cr.rv + 1 /\ cr'.live = (~n.del \/ n.fin)
          /\ cr'.uid = n.uid /\ cr'.del = n.del /\ cr'.fin = n.fin
      BY <1>1, <2>1, StoredResult
    <3>2. n.uid = cr.uid /\ n.del = cr.del /\ n.fin = cr.fin
      BY <1>1, <1>2 DEF SameMeta
    <3> QED
      BY <1>2, <2>1, <3>1, <3>2 DEF SameMeta, WellFormed, Versioned
  <2>3. ~UpToDate(cr', n)
    BY <1>1, <2>1, <2>2 DEF UpToDate, Versioned
  <2> QED
    BY <1>1, <2>1, <2>2, <2>3, StoredResult DEF Updated
<1> QED
  BY <1>3, <1>4

-----------------------------------------------------------------------------
(* One step.                                                               *)

Returns == step' = "idle" /\ snap' = Absent

(* The CR in memory gets another status, which may be written, and the     *)
(* reconcile goes on or returns.                                           *)
Moves ==
    \E n : /\ Restated(n, snap)
           /\ \/ cr' = cr /\ (snap' = n \/ Returns)
              \/ /\ UpToDate(cr, snap) /\ cr' = Put(cr, n)
                 /\ snap' = n \/ snap' = cr' \/ Returns

LEMMA TypedCopies ==
  ASSUME CronInv
  PROVE  /\ cr \in CR /\ cached \in CR /\ snap \in CR /\ released.cr \in CR
         /\ Versioned(cr) /\ Versioned(cached) /\ Versioned(snap) /\ released.cr.uid \in Nat
  BY CRFields DEF CronInv, TypeOK, Versioned

LEMMA SnapIsRestated ==
  ASSUME CronInv
  PROVE  Restated(snap, snap)
  BY DEF CronInv, TypeOK, Restated, SameMeta

(* What Moves does to the copies of the CR.                                *)
LEMMA MovingKeepsCopies ==
  ASSUME CronInv, step # "idle", Moves, UNCHANGED <<cached, released>>
  PROVE  /\ cr' \in CR /\ snap' \in CR /\ cr'.sid <= lastId /\ snap'.sid <= lastId
         /\ VersionChain' /\ Echoes' /\ MarkedAgree' /\ cr'.uid = cr.uid
<1> PICK n : /\ Restated(n, snap)
             /\ \/ cr' = cr /\ (snap' = n \/ Returns)
                \/ /\ UpToDate(cr, snap) /\ cr' = Put(cr, n)
                   /\ snap' = n \/ snap' = cr' \/ Returns
  BY DEF Moves
<1> DEFINE u == released.cr.uid
<1> USE TypedCopies
<1>1. /\ Chain(step, snap, cached, cr, u) /\ n \in CR /\ n.rv = snap.rv /\ SameMeta(n, snap)
      /\ n.sid <= lastId /\ AsReleased(snap) /\ (cached.live => AsReleased(cached))
  BY DEF CronInv, VersionChain, Restated, Echoes
<1>2. snap.uid = u => snap.del
  BY <1>1 DEF Chain, WorksFrom
<1>3. AsReleased(n)
  BY <1>1, <1>2 DEF AsReleased, Restated, SameMeta
<1>4. Absent.sid <= lastId /\ Absent \in CR
  BY AbsentIsCR DEF Absent, CronInv, TypeOK
<1>5. CASE cr' = cr
  <2>1. CASE snap' = n
    <3>1. VersionChain'
      BY <1>1, <1>5, <2>1, ChainRemembers DEF VersionChain
    <3>2. Echoes'
      BY <1>1, <1>3, <2>1 DEF Echoes, AsReleased
    <3>3. MarkedAgree'
      BY <1>1, <1>5, <2>1 DEF MarkedAgree, CronInv, UpToDate, SameMeta, Restated
    <3> QED
      BY <1>1, <1>5, <2>1, <3>1, <3>2, <3>3 DEF CronInv, TypeOK
  <2>2. CASE Returns
    <3>1. VersionChain'
      BY <1>1, <1>5, <2>2, ChainMoves DEF VersionChain, Returns
    <3> QED
      BY <1>1, <1>4, <1>5, <2>2, <3>1 DEF Returns, Echoes, AsReleased, MarkedAgree, CronInv, TypeOK
  <2>3. CASE snap' = cr' /\ UpToDate(cr, snap) /\ cr' = Put(cr, n)
    <3>1. cr = n
      BY <1>1, <1>5, <2>3, PutRestated DEF UpToDate
    <3> QED
      BY <1>5, <2>1, <2>3, <3>1
  <2> QED
    BY <1>5, <2>1, <2>2, <2>3
<1>6. CASE UpToDate(cr, snap) /\ cr' = Put(cr, n)
  <2>1. /\ cr' \in CR /\ Updated(cr, cr') /\ Versioned(cr')
        /\ cr'.drop = n.drop /\ cr'.sid = n.sid /\ (UpToDate(cr', n) => cr' = n)
    BY <1>6, PutRestated, CRFields
  <2>2. /\ \A q : Chain(q, snap, cached, cr', u)
        /\ \A q : Chain(q, cr', cached, cr', u)
    BY <1>1, <1>6, <2>1, ChainUpdated
  <2>3. SameMeta(cr', n) /\ cr'.uid = cr.uid
    BY <1>1, <1>6, <2>1 DEF Chain, WorksFrom, SameMeta, Updated
  <2>4. \A q : Chain(q, n, cached, cr', u)
    <3>1. Chain("loadObj", snap, cached, cr', u)
      BY <2>2
    <3> QED
      BY <1>1, <3>1, ChainRemembers
  <2>5. AsReleased(cr')
    BY <1>3, <2>1, <2>3 DEF AsReleased, SameMeta
  <2>6. snap.del => snap.sid = cached.sid /\ snap.drop = cached.drop
    BY <1>6 DEF CronInv, MarkedAgree
  <2>7. CASE Returns
    <3>1. VersionChain'
      BY <2>2, <2>7 DEF VersionChain, Returns, Chain
    <3> QED
      BY <1>1, <1>4, <2>1, <2>3, <2>7, <3>1 DEF Returns, Echoes, AsReleased, MarkedAgree
  <2>8. CASE snap' = n \/ snap' = cr'
    <3>1. VersionChain'
      BY <2>2, <2>4, <2>8 DEF VersionChain
    <3>2. Echoes'
      BY <1>1, <1>3, <2>5, <2>8 DEF Echoes, AsReleased
    <3>3. MarkedAgree'
      BY <1>1, <2>1, <2>3, <2>6, <2>8 DEF MarkedAgree, Restated, SameMeta
    <3> QED
      BY <1>1, <2>1, <2>3, <2>8, <3>1, <3>2, <3>3
  <2> QED
    BY <1>6, <2>7, <2>8, <1>5
<1> QED
  BY <1>5, <1>6

(* What becomes of the schedule in such a step.                            *)
SchedMoves ==
    /\ sched' \in Schedules
    /\ \/ lastId' = lastId /\ sched'.id \in {sched.id, 0}
       \/ /\ step # "idle" /\ ~snap.del
          /\ lastId' = lastId + 1 /\ sched'.id = lastId'

LEMMA StepKeepsInv ==
  ASSUME CronInv, step # "idle", Moves, SchedMoves, StepKnows',
         UNCHANGED <<cached, stmt, targetSeen, released>>,
         step' \in Steps, queued' \in BOOLEAN, faults' \in 0..MaxFaults
  PROVE  CronInv'
<1>1. /\ cr' \in CR /\ snap' \in CR /\ cr'.sid <= lastId /\ snap'.sid <= lastId
      /\ VersionChain' /\ Echoes' /\ MarkedAgree' /\ cr'.uid = cr.uid
  BY MovingKeepsCopies
<1>2. /\ lastId \in Nat /\ sched.id \in Nat /\ sched.id <= lastId
      /\ released.cr.sid \in Nat /\ released.cr.sid <= lastId
      /\ cached.sid \in Nat /\ cached.sid <= lastId
      /\ cr'.sid \in Nat /\ snap'.sid \in Nat
  BY <1>1, CRFields, TypedCopies DEF CronInv, TypeOK, Schedules
<1>3. lastId' \in Nat /\ lastId <= lastId' /\ sched'.id \in Nat /\ sched'.id <= lastId'
  BY <1>2 DEF SchedMoves
<1>4. \A id \in {cr'.sid, cached.sid, snap'.sid, released.cr.sid, sched'.id} : id <= lastId'
  BY <1>1, <1>2, <1>3
<1>5. TypeOK'
  BY <1>1, <1>3, <1>4 DEF CronInv, TypeOK, SchedMoves
<1>6. IdsAreFresh'
  BY <1>2 DEF CronInv, IdsAreFresh, SchedMoves
<1>7. ReleasedScheduleIsGone'
  <2>1. CASE sched'.id \in {sched.id, 0}
    BY <1>1, <2>1 DEF CronInv, ReleasedScheduleIsGone
  <2>2. CASE ~snap.del
    <3>1. cr.uid # released.cr.uid
      <4>1. released.cr.uid <= snap.uid /\ released.cr.uid # snap.uid /\ snap.uid <= cr.uid
        BY <2>2 DEF CronInv, VersionChain, Chain, WorksFrom, Precedes
      <4>2. released.cr.uid \in Nat /\ snap.uid \in Nat /\ cr.uid \in Nat
        BY TypedCopies DEF Versioned
      <4> QED
        BY <4>1, <4>2
    <3> QED
      BY <1>1, <3>1 DEF ReleasedScheduleIsGone
  <2> QED
    BY <2>1, <2>2 DEF SchedMoves
<1> QED
  BY <1>1, <1>5, <1>6, <1>7 DEF CronInv

-----------------------------------------------------------------------------
(* The ways out of a step.                                                 *)

LEMMA FaultCounts ==
  ASSUME CronInv, Fault \/ UNCHANGED faults
  PROVE  faults' \in 0..MaxFaults
  BY BoundAssumption DEF CronInv, TypeOK, Fault

LEMMA SchedStays ==
  ASSUME CronInv, UNCHANGED lastId, sched' = sched \/ sched' = NoSchedule
  PROVE  SchedMoves
<1>1. NoSchedule \in Schedules /\ NoSchedule.id = 0
  BY BoundAssumption DEF NoSchedule, Schedules
<1> QED
  BY <1>1 DEF SchedMoves, CronInv, TypeOK

LEMMA ReturnMoves ==
  ASSUME CronInv, NEW again \in BOOLEAN, Return(again),
         cr' = cr \/ (UpToDate(cr, snap) /\ \E n : Restated(n, snap) /\ cr' = Put(cr, n))
  PROVE  Moves /\ StepKnows' /\ step' \in Steps /\ queued' \in BOOLEAN
<1>1. Returns
  BY DEF Return, Returns
<1>2. Moves
  BY <1>1, SnapIsRestated DEF Moves
<1>3. queued' \in BOOLEAN
  BY DEF Return, CronInv, TypeOK
<1> QED
  BY <1>1, <1>2, <1>3 DEF Returns, StepKnows, Steps

LEMMA GotoMoves ==
  ASSUME CronInv, NEW s \in Steps, Goto(s), cr' = cr
  PROVE  Moves /\ step' = s /\ snap' = snap /\ queued' \in BOOLEAN
  BY SnapIsRestated DEF Goto, Moves, CronInv, TypeOK

LEMMA ContinueMoves ==
  ASSUME CronInv, step # "idle", NEW exists \in BOOLEAN, NEW o, Continue(exists, o),
         \/ o = snap /\ cr' = cr
         \/ o = cr' /\ UpToDate(cr, snap) /\ cr' = Put(cr, snap),
         exists => o.sid # 0 /\ sched'.id = o.sid /\ sched'.cmd = o.cmd,
         ~exists => o.sid = 0
  PROVE  Moves /\ StepKnows' /\ step' \in Steps /\ queued' \in BOOLEAN
<1>1. o \in CR
  BY PutRestated, SnapIsRestated, TypedCopies
<1>2. o.del \in BOOLEAN /\ o.fin \in BOOLEAN
  BY <1>1, CRFields DEF Versioned
<1>3. /\ Dispatch(o, exists) \in {"removeObj", "idle", "ensureCorrect", "removeFinalizer", "createObj"}
      /\ Dispatch(o, exists) = "removeObj" => exists /\ o.del /\ o.fin
      /\ Dispatch(o, exists) = "ensureCorrect" => exists /\ ~o.del
      /\ Dispatch(o, exists) = "removeFinalizer" => ~exists /\ o.del
      /\ Dispatch(o, exists) = "createObj" => ~o.del
  BY <1>2 DEF Dispatch
<1>4. CASE Dispatch(o, exists) = "idle"
  BY <1>4, ReturnMoves, SnapIsRestated DEF Continue
<1>5. CASE Dispatch(o, exists) # "idle"
  <2>1. step' = Dispatch(o, exists) /\ snap' = o /\ queued' = queued
    BY <1>5 DEF Continue, GotoWith
  <2>2. Moves
    BY <2>1, SnapIsRestated DEF Moves
  <2>3. StepKnows'
    BY <1>3, <1>5, <2>1 DEF StepKnows
  <2> QED
    BY <1>3, <2>1, <2>2, <2>3 DEF Steps, CronInv, TypeOK
<1> QED
  BY <1>4, <1>5

LEMMA WithStatusIsRestated ==
  ASSUME CronInv, snap.del => sched.id = snap.sid
  PROVE  /\ Restated(WithStatus(snap), snap)
         /\ WithStatus(snap).sid = sched.id /\ WithStatus(snap).cmd = sched.cmd
<1>1. /\ snap \in CR /\ sched.id \in Nat /\ sched.cmd \in 0..MaxStmt /\ sched.paused \in BOOLEAN
      /\ sched.id <= lastId
  BY DEF CronInv, TypeOK, Schedules
<1>2. /\ WithStatus(snap) \in CR /\ WithStatus(snap).rv = snap.rv
      /\ SameMeta(WithStatus(snap), snap) /\ WithStatus(snap).drop = snap.drop
      /\ WithStatus(snap).sid = sched.id /\ WithStatus(snap).cmd = sched.cmd
  BY <1>1 DEF WithStatus, CR, SameMeta
<1> QED
  BY <1>1, <1>2 DEF Restated

(* CREATE SCHEDULE IF NOT EXISTS for a CR that is not marked.              *)
LEMMA CreateScheduleMoves ==
  ASSUME CronInv, step # "idle", ~snap.del, CreateSchedule
  PROVE  SchedMoves
<1>1. CASE sched.id # 0
  BY <1>1, SchedStays DEF CreateSchedule
<1>2. CASE sched.id = 0
  <2>1. PICK i \in Nat : i = lastId + 1
    BY DEF CronInv, TypeOK
  <2>2. lastId' = i /\ sched' = [NoSchedule EXCEPT !.id = i, !.cmd = stmt]
    BY <1>2, <2>1 DEF CreateSchedule
  <2>3. sched' \in Schedules /\ sched'.id = i
    BY <2>2 DEF NoSchedule, Schedules, CronInv, TypeOK
  <2> QED
    BY <2>1, <2>2, <2>3 DEF SchedMoves
<1> QED
  BY <1>1, <1>2

-----------------------------------------------------------------------------
(* The steps of a reconcile.                                               *)

LEMMA LoadStep ==
  ASSUME CronInv, LoadCR
  PROVE  CronInv'
<1> UNCHANGED <<cr, cached, sched, lastId, stmt, targetSeen, released, faults>>
  BY DEF LoadCR
<1>1. CASE ~cached.live
  BY <1>1 DEF LoadCR, CronInv, TypeOK, VersionChain, Echoes, AsReleased, MarkedAgree, StepKnows,
              IdsAreFresh, ReleasedScheduleIsGone
<1>2. CASE cached.live
  <2>1. step' = "loadObj" /\ snap' = cached /\ queued' = FALSE
    BY <1>2 DEF LoadCR
  <2>2. TypeOK'
    BY <2>1 DEF CronInv, TypeOK, Steps
  <2>3. VersionChain'
    BY <1>2, <2>1, TypedCopies, ChainMoves DEF CronInv, VersionChain
  <2>4. Echoes'
    BY <1>2, <2>1 DEF CronInv, Echoes, AsReleased
  <2>5. MarkedAgree'
    BY <2>1 DEF CronInv, VersionChain, Chain, Stores, MarkedAgree, UpToDate
  <2> QED
    BY <2>1, <2>2, <2>3, <2>4, <2>5
       DEF CronInv, StepKnows, IdsAreFresh, ReleasedScheduleIsGone
<1> QED
  BY <1>1, <1>2

LEMMA LoadObjStep ==
  ASSUME CronInv, LoadObj \/ LoadObjFails
  PROVE  CronInv'
<1> /\ step = "loadObj" /\ UNCHANGED <<cr, cached, sched, lastId, stmt, targetSeen, released>>
    /\ Fault \/ UNCHANGED faults
  BY DEF LoadObj, LoadObjFails
<1>1. faults' \in 0..MaxFaults /\ SchedMoves
  BY FaultCounts, SchedStays
<1> USE StepKeepsInv
<1>2. CASE Return(TRUE)
  BY <1>1, <1>2, ReturnMoves
<1>3. CASE snap.sid = 0 /\ Continue(FALSE, snap)
  BY <1>1, <1>3, ContinueMoves
<1>4. CASE Goto("abandon") /\ snap.del
  <2>1. Moves /\ step' = "abandon" /\ snap' = snap /\ queued' \in BOOLEAN
    BY <1>4, GotoMoves DEF Steps
  <2>2. StepKnows' /\ step' \in Steps
    BY <1>4, <2>1 DEF StepKnows, Steps
  <2> QED
    BY <1>1, <2>1, <2>2
<1>5. CASE snap.sid # 0 /\ sched.id = snap.sid /\ WithStatus(snap) = snap /\ Continue(TRUE, snap)
  <2>1. sched.cmd = snap.cmd
    BY <1>5, WithStatusIsRestated
  <2> QED
    BY <1>1, <1>5, <2>1, ContinueMoves
<1>6. CASE snap.sid # 0 /\ sched.id = snap.sid /\ GotoWith("setStatus", WithStatus(snap))
  <2>1. /\ step' = "setStatus" /\ snap' = WithStatus(snap) /\ queued' \in BOOLEAN
    BY <1>6 DEF GotoWith, CronInv, TypeOK
  <2>2. /\ Restated(WithStatus(snap), snap)
        /\ WithStatus(snap).sid = sched.id /\ WithStatus(snap).cmd = sched.cmd
    BY <1>6, WithStatusIsRestated
  <2>3. Moves
    BY <2>1, <2>2 DEF Moves
  <2>4. StepKnows' /\ step' \in Steps
    BY <1>6, <2>1, <2>2 DEF StepKnows, Steps
  <2> QED
    BY <1>1, <2>1, <2>3, <2>4
<1> QED
  BY <1>2, <1>3, <1>4, <1>5, <1>6 DEF LoadObj, LoadObjFails

LEMMA SetStatusStep ==
  ASSUME CronInv, SetStatus
  PROVE  CronInv'
<1> /\ step = "setStatus" /\ UNCHANGED <<cached, sched, lastId, stmt, targetSeen, released>>
    /\ Fault \/ UNCHANGED faults
  BY DEF SetStatus
<1>1. faults' \in 0..MaxFaults /\ SchedMoves
  BY FaultCounts, SchedStays
<1>2. snap.sid # 0 /\ sched.id = snap.sid /\ sched.cmd = snap.cmd
  BY DEF CronInv, StepKnows
<1> USE StepKeepsInv
<1>3. CASE UpToDate(cr, snap) /\ cr' = Put(cr, snap) /\ Continue(TRUE, cr')
  <2>1. cr'.sid = snap.sid /\ cr'.cmd = snap.cmd
    BY <1>3, SnapIsRestated, PutRestated
  <2> QED
    BY <1>1, <1>2, <1>3, <2>1, ContinueMoves
<1>4. CASE Return(TRUE) /\ (cr' = cr \/ (UpToDate(cr, snap) /\ cr' = Put(cr, snap)))
  BY <1>1, <1>4, ReturnMoves, SnapIsRestated
<1> QED
  BY <1>3, <1>4 DEF SetStatus

LEMMA EnsureCorrectStep ==
  ASSUME CronInv, EnsureCorrect \/ EnsureCorrectFails
  PROVE  CronInv'
<1> /\ step = "ensureCorrect" /\ UNCHANGED <<cr, cached, lastId, stmt, targetSeen, released>>
    /\ Fault \/ UNCHANGED faults
    /\ sched' = sched \/ sched' = NoSchedule
  BY DEF EnsureCorrect, EnsureCorrectFails
<1>1. faults' \in 0..MaxFaults /\ SchedMoves
  BY FaultCounts, SchedStays
<1>2. ~snap.del
  BY DEF CronInv, StepKnows
<1> USE StepKeepsInv
<1>3. CASE Return(TRUE)
  BY <1>1, <1>3, ReturnMoves
<1>4. CASE Goto("applySuspend")
  <2>1. Moves /\ step' = "applySuspend" /\ snap' = snap /\ queued' \in BOOLEAN
    BY <1>4, GotoMoves DEF Steps
  <2>2. StepKnows' /\ step' \in Steps
    BY <1>2, <2>1 DEF StepKnows, Steps
  <2> QED
    BY <1>1, <2>1, <2>2
<1>5. CASE GotoWith("recreate", [snap EXCEPT !.sid = 0])
  <2> DEFINE n == [snap EXCEPT !.sid = 0]
  <2>1. n \in CR /\ n.rv = snap.rv /\ SameMeta(n, snap) /\ n.drop = snap.drop /\ n.sid = 0
    BY DEF CronInv, TypeOK, CR, SameMeta
  <2>2. step' = "recreate" /\ snap' = n /\ queued' \in BOOLEAN
    BY <1>5 DEF GotoWith, CronInv, TypeOK
  <2> HIDE DEF n
  <2>3. Restated(n, snap)
    BY <1>2, <2>1 DEF Restated, CronInv, TypeOK
  <2>4. Moves
    BY <2>2, <2>3 DEF Moves
  <2>5. ~snap'.del
    BY <1>2, <2>1, <2>2 DEF SameMeta
  <2>6. StepKnows' /\ step' \in Steps
    BY <2>2, <2>5 DEF StepKnows, Steps
  <2> QED
    BY <1>1, <2>2, <2>4, <2>6
<1> QED
  BY <1>3, <1>4, <1>5 DEF EnsureCorrect, EnsureCorrectFails

LEMMA CreateObjStep ==
  ASSUME CronInv, CreateObj \/ CreateObjFails
  PROVE  CronInv'
<1> /\ step \in {"createObj", "recreate"} /\ UNCHANGED <<cr, cached, stmt, targetSeen, released>>
    /\ Fault \/ UNCHANGED faults
    /\ UNCHANGED <<sched, lastId>> \/ CreateSchedule
  BY DEF CreateObj, CreateObjFails
<1>1. ~snap.del
  BY DEF CronInv, StepKnows
<1>2. faults' \in 0..MaxFaults /\ SchedMoves
  BY <1>1, FaultCounts, SchedStays, CreateScheduleMoves
<1> USE StepKeepsInv
<1>3. CASE Return(TRUE)
  BY <1>2, <1>3, ReturnMoves
<1>4. CASE Goto("recordCreated") \/ Goto("recordRecreated")
  <2>1. /\ Moves /\ step' \in {"recordCreated", "recordRecreated"} /\ snap' = snap
        /\ queued' \in BOOLEAN
    BY <1>4, GotoMoves DEF Steps
  <2>2. StepKnows' /\ step' \in Steps
    BY <1>1, <2>1 DEF StepKnows, Steps
  <2> QED
    BY <1>2, <2>1, <2>2
<1> QED
  BY <1>3, <1>4 DEF CreateObj, CreateObjFails

LEMMA RecordScheduleStep ==
  ASSUME CronInv, RecordSchedule
  PROVE  CronInv'
<1> DEFINE new == WithStatus(snap)
           next == IF step = "recordCreated" THEN "ensureFinalizer" ELSE "applySuspend"
           write == UpToDate(cr, snap) /\ cr' = Put(cr, new)
<1> /\ step \in {"recordCreated", "recordRecreated"}
    /\ UNCHANGED <<cached, sched, lastId, stmt, targetSeen, released>>
    /\ Fault \/ UNCHANGED faults
  BY DEF RecordSchedule
<1>1. ~snap.del
  BY DEF CronInv, StepKnows
<1>2. faults' \in 0..MaxFaults /\ SchedMoves
  BY FaultCounts, SchedStays
<1>3. Restated(new, snap)
  BY <1>1, WithStatusIsRestated
<1> HIDE DEF new
<1> USE StepKeepsInv
<1>4. CASE Return(TRUE) /\ (cr' = cr \/ write)
  BY <1>2, <1>3, <1>4, ReturnMoves
<1>5. CASE \/ GotoWith(next, new) /\ (cr' = cr \/ write)
           \/ GotoWith(next, cr') /\ write
  <2>1. /\ step' \in {"ensureFinalizer", "applySuspend"} /\ (snap' = new \/ (write /\ snap' = cr'))
        /\ queued' \in BOOLEAN
    BY <1>5 DEF GotoWith, CronInv, TypeOK
  <2>2. Moves
    BY <1>3, <1>5, <2>1 DEF Moves
  <2>3. ~new.del
    BY <1>1, <1>3 DEF Restated, SameMeta
  <2>4. write => ~cr'.del
    <3> SUFFICES ASSUME write PROVE ~cr'.del
      OBVIOUS
    <3>1. Updated(cr, cr')
      BY <1>3, PutRestated
    <3>2. ~cr.del
      BY <1>1 DEF CronInv, VersionChain, Chain, WorksFrom, SameMeta
    <3> QED
      BY <3>1, <3>2 DEF Updated, SameMeta
  <2>5. ~snap'.del
    BY <2>1, <2>3, <2>4
  <2>6. StepKnows' /\ step' \in Steps
    BY <2>1, <2>5 DEF StepKnows, Steps
  <2> QED
    BY <1>2, <2>1, <2>2, <2>6
<1>6. new = WithStatus(snap)
  BY DEF new
<1> QED
  BY <1>4, <1>5, <1>6 DEF RecordSchedule

LEMMA ApplySuspendStep ==
  ASSUME CronInv, ApplySuspend
  PROVE  CronInv'
<1> /\ step = "applySuspend" /\ UNCHANGED <<cr, cached, lastId, stmt, targetSeen, released>>
    /\ Fault \/ UNCHANGED faults
  BY DEF ApplySuspend
<1>1. ~snap.del
  BY DEF CronInv, StepKnows
<1>2. SchedMoves
  <2> DEFINE on == snap.suspend \/ (sched.paused /\ sched.err)
  <2>1. on \in {TRUE, FALSE}
    OBVIOUS
  <2>2. sched' = sched \/ sched' = [sched EXCEPT !.paused = on]
    BY DEF ApplySuspend
  <2> HIDE DEF on
  <2> QED
    BY <2>1, <2>2 DEF SchedMoves, CronInv, TypeOK, Schedules
<1>3. faults' \in 0..MaxFaults
  BY FaultCounts
<1> USE StepKeepsInv
<1>4. CASE Return(TRUE)
  BY <1>2, <1>3, <1>4, ReturnMoves
<1>5. CASE Goto("ensureFinalizer")
  <2>1. Moves /\ step' = "ensureFinalizer" /\ snap' = snap /\ queued' \in BOOLEAN
    BY <1>5, GotoMoves DEF Steps
  <2>2. StepKnows' /\ step' \in Steps
    BY <1>1, <2>1 DEF StepKnows, Steps
  <2> QED
    BY <1>2, <1>3, <2>1, <2>2
<1> QED
  BY <1>4, <1>5 DEF ApplySuspend

LEMMA RemoveObjStep ==
  ASSUME CronInv, RemoveObj
  PROVE  CronInv'
<1> /\ step = "removeObj" /\ UNCHANGED <<cr, cached, lastId, stmt, targetSeen, released>>
    /\ Fault \/ UNCHANGED faults
    /\ sched' = sched \/ sched' = NoSchedule
  BY DEF RemoveObj
<1>1. snap.del /\ sched.id = snap.sid
  BY DEF CronInv, StepKnows
<1>2. faults' \in 0..MaxFaults /\ SchedMoves
  BY FaultCounts, SchedStays
<1> USE StepKeepsInv
<1>3. CASE Return(TRUE)
  BY <1>2, <1>3, ReturnMoves
<1>4. CASE Goto("removeFinalizer") /\ (snap.drop => sched' = NoSchedule)
  <2>1. Moves /\ step' = "removeFinalizer" /\ snap' = snap /\ queued' \in BOOLEAN
    BY <1>4, GotoMoves DEF Steps
  <2>2. StepKnows' /\ step' \in Steps
    BY <1>1, <1>4, <2>1 DEF StepKnows, Steps, NoSchedule
  <2> QED
    BY <1>2, <2>1, <2>2
<1> QED
  BY <1>1, <1>3, <1>4 DEF RemoveObj

(* A reconcile that ends without touching the schedule or the CR.          *)
LEMMA GivesUp ==
  ASSUME CronInv, step # "idle", NEW again \in BOOLEAN, Return(again), Fault \/ UNCHANGED faults,
         UNCHANGED <<cr, cached, sched, lastId, stmt, targetSeen, released>>
  PROVE  CronInv'
  BY FaultCounts, SchedStays, ReturnMoves, StepKeepsInv

(* Writing the finalizer back or taking it away makes another version.     *)
LEMMA FinalizerWrites ==
  ASSUME CronInv, step # "idle", UpToDate(cr, snap), NEW b \in BOOLEAN, snap.fin = ~b,
         NEW n, n = [snap EXCEPT !.fin = b]
  PROVE  /\ Put(cr, n) \in CR /\ Put(cr, n).rv = cr.rv + 1 /\ Put(cr, n).uid = snap.uid
         /\ Put(cr, n).del = snap.del /\ Put(cr, n).fin = b /\ Put(cr, n).live = (~snap.del \/ b)
         /\ Put(cr, n).sid = snap.sid
<1>1. cr \in CR /\ snap \in CR /\ snap.rv = cr.rv /\ snap.fin = cr.fin
  BY DEF CronInv, TypeOK, VersionChain, Chain, WorksFrom, UpToDate, SameMeta
<1>2. /\ n \in CR /\ n.fin = b /\ n.rv = snap.rv /\ n.uid = snap.uid /\ n.del = snap.del
      /\ n.sid = snap.sid
  BY <1>1 DEF CR
<1>3. n # cr
  BY <1>1, <1>2
<1>4. Put(cr, n) = Stored(n)
  BY <1>3 DEF Put
<1>5. /\ Stored(n) \in CR /\ Stored(n).rv = n.rv + 1 /\ Stored(n).uid = n.uid
      /\ Stored(n).del = n.del /\ Stored(n).fin = n.fin /\ Stored(n).sid = n.sid
      /\ Stored(n).live = (~n.del \/ n.fin)
  BY <1>2, StoredResult
<1>6. Stored(n).live = (~snap.del \/ b)
  BY <1>2, <1>5
<1> QED
  BY <1>1, <1>2, <1>4, <1>5, <1>6

LEMMA EnsureFinalizerStep ==
  ASSUME CronInv, EnsureFinalizer
  PROVE  CronInv'
<1> /\ step = "ensureFinalizer"
    /\ UNCHANGED <<cached, sched, lastId, stmt, targetSeen, released>>
    /\ Fault \/ UNCHANGED faults
  BY DEF EnsureFinalizer
<1>1. CASE cr' = cr /\ \E again \in BOOLEAN : Return(again)
  BY <1>1, GivesUp
<1>2. CASE /\ ~snap.fin /\ UpToDate(cr, snap) /\ cr' = Put(cr, WithFinalizer(snap))
           /\ Return(FALSE) /\ UNCHANGED faults
  <2>1. ~snap.del /\ snap.fin = ~TRUE /\ WithFinalizer(snap) = [snap EXCEPT !.fin = TRUE]
    BY <1>2, TypedCopies DEF CronInv, StepKnows, WithFinalizer, Versioned
  <2>2. /\ cr' \in CR /\ cr'.rv = cr.rv + 1 /\ cr'.uid = snap.uid /\ ~cr'.del /\ cr'.fin
        /\ cr'.live /\ cr'.sid = snap.sid
    BY <1>2, <2>1, FinalizerWrites
  <2>3. step' = "idle" /\ snap' = Absent /\ queued' \in BOOLEAN
    BY <1>2 DEF Return, CronInv, TypeOK
  <2>4. VersionChain'
    BY <1>2, <2>1, <2>2, <2>3, TypedCopies, CRFields, ChainFinalizerAdded DEF CronInv, VersionChain
  <2>5. TypeOK'
    <3>1. cr'.sid <= lastId /\ Absent.sid <= lastId
      BY <2>2 DEF CronInv, TypeOK, Absent
    <3> QED
      BY <1>2, <2>2, <2>3, <3>1, AbsentIsCR DEF CronInv, TypeOK, Steps
  <2>6. cr'.uid = cr.uid
    BY <1>2, <2>2 DEF CronInv, VersionChain, Chain, WorksFrom, SameMeta
  <2> QED
    BY <2>3, <2>4, <2>5, <2>6 DEF CronInv, Echoes, AsReleased, MarkedAgree, StepKnows, IdsAreFresh,
                                  ReleasedScheduleIsGone
<1> QED
  BY <1>1, <1>2 DEF EnsureFinalizer

LEMMA RemoveFinalizerStep ==
  ASSUME CronInv, RemoveFinalizer
  PROVE  CronInv'
<1> /\ step \in {"removeFinalizer", "abandon"} /\ step # "idle"
    /\ UNCHANGED <<cached, sched, lastId, stmt, targetSeen>>
    /\ Fault \/ UNCHANGED faults
  BY DEF RemoveFinalizer
<1>1. (step = "removeFinalizer") \in BOOLEAN
  OBVIOUS
<1>2. CASE UNCHANGED <<cr, released>> /\ Return(step = "removeFinalizer")
  BY <1>1, <1>2, GivesUp
<1>3. CASE /\ UpToDate(cr, snap) /\ cr' = Put(cr, WithoutFinalizer(snap))
           /\ released' = [cr |-> snap, by |-> step] /\ Return(FALSE) /\ UNCHANGED faults
  <2>1. snap.del /\ SameMeta(snap, cr) /\ WellFormed(cr) /\ cr.live /\ snap.uid > 0
    BY <1>3 DEF CronInv, StepKnows, VersionChain, Chain, Stores, WorksFrom, UpToDate
  <2>2. snap.fin = ~FALSE
    BY <2>1, TypedCopies DEF SameMeta, WellFormed, Versioned
  <2>3. WithoutFinalizer(snap) = [snap EXCEPT !.fin = FALSE]
    BY DEF WithoutFinalizer
  <2>4. /\ cr' \in CR /\ cr'.rv = cr.rv + 1 /\ cr'.uid = snap.uid /\ cr'.del /\ ~cr'.fin
        /\ ~cr'.live /\ cr'.sid = snap.sid
    BY <1>3, <2>1, <2>2, <2>3, FinalizerWrites
  <2>5. step' = "idle" /\ snap' = Absent /\ queued' \in BOOLEAN
    BY <1>3 DEF Return, CronInv, TypeOK
  <2>6. released'.cr = snap /\ released'.by = step
    BY <1>3
  <2>7. VersionChain'
    <3>1. Versioned(cr')
      BY <2>4, CRFields
    <3>2. Chain(step, snap, cached, cr, released.cr.uid)
      BY DEF CronInv, VersionChain
    <3> DEFINE n == cr'
    <3>3. n.rv = cr.rv + 1 /\ n.uid = snap.uid /\ ~n.fin /\ ~n.live /\ n.del /\ Versioned(n)
      BY <2>4, <3>1
    <3> HIDE DEF n
    <3>4. \A t : Chain("idle", t, cached, n, snap.uid)
      BY <1>3, <2>1, <3>2, <3>3, TypedCopies, ChainReleased
    <3>5. Chain("idle", Absent, cached, cr', snap.uid)
      BY <3>4 DEF n
    <3> QED
      BY <2>5, <2>6, <3>5 DEF VersionChain
  <2>8. TypeOK'
    <3>1. cr'.sid <= lastId /\ Absent.sid <= lastId
      BY <2>4 DEF CronInv, TypeOK, Absent
    <3> QED
      BY <1>3, <2>4, <2>5, <3>1, AbsentIsCR DEF CronInv, TypeOK, Steps
  <2>9. Echoes'
    BY <1>3, <2>1, <2>5, <2>6 DEF Echoes, AsReleased, CronInv, MarkedAgree
  <2>10. IdsAreFresh' /\ ReleasedScheduleIsGone'
    BY <2>6 DEF CronInv, StepKnows, IdsAreFresh, ReleasedScheduleIsGone
  <2> QED
    BY <2>5, <2>7, <2>8, <2>9, <2>10 DEF CronInv, MarkedAgree, StepKnows
<1> QED
  BY <1>2, <1>3 DEF RemoveFinalizer

-----------------------------------------------------------------------------
(* The cluster around the controller.                                      *)

LEMMA UserStep ==
  ASSUME CronInv, UserCreates \/ UserDeletes \/ UserEdits
  PROVE  CronInv'
<1> UNCHANGED <<cached, queued, step, snap, sched, lastId, stmt, targetSeen, released, faults>>
  BY DEF UserCreates, UserDeletes, UserEdits
<1> USE TypedCopies
<1>1. CASE cr' = cr
  BY <1>1 DEF CronInv, TypeOK, VersionChain, Echoes, AsReleased, MarkedAgree, StepKnows,
              IdsAreFresh, ReleasedScheduleIsGone
<1>2. CASE /\ cr' \in CR /\ Touched(cr, cr') /\ cr'.sid <= lastId
  <2>1. Versioned(cr') /\ VersionChain'
    BY <1>2, CRFields, ChainTouched DEF CronInv, VersionChain
  <2>2. TypeOK'
    BY <1>2 DEF CronInv, TypeOK
  <2>3. MarkedAgree'
    <3>1. step # "idle" => snap.rv <= cr.rv /\ snap.rv \in Nat /\ cr.rv \in Nat
      BY DEF CronInv, VersionChain, Chain, WorksFrom, Precedes, Versioned
    <3>2. cr'.rv = cr.rv + 1
      BY <1>2 DEF Touched
    <3> QED
      BY <3>1, <3>2 DEF MarkedAgree, UpToDate
  <2>4. ReleasedScheduleIsGone'
    <3>1. released.cr.uid <= cached.uid /\ cached.uid <= cr.uid /\ cr.uid \in Nat /\ cached.uid \in Nat
      BY DEF CronInv, VersionChain, Chain, Stores, Precedes, Versioned
    <3>2. cr'.uid \in {cr.uid, cr.uid + 1}
      BY <1>2 DEF Touched
    <3>3. cr'.uid = released.cr.uid => cr.uid = released.cr.uid
      BY <3>1, <3>2
    <3> QED
      BY <3>3 DEF CronInv, ReleasedScheduleIsGone
  <2> QED
    BY <2>1, <2>2, <2>3, <2>4 DEF CronInv, Echoes, AsReleased, StepKnows, IdsAreFresh
<1>3. CASE UserCreates
  <2>1. PICK s \in BOOLEAN, d \in BOOLEAN :
            cr' = [Absent EXCEPT !.live = TRUE, !.uid = cr.uid + 1, !.rv = cr.rv + 1,
                                 !.suspend = s, !.drop = d]
    BY <1>3 DEF UserCreates
  <2>2. PICK i \in 0..MaxUid, v \in Nat : i = cr.uid + 1 /\ v = cr.rv + 1
    <3>1. cr.uid < MaxUid /\ cr.uid \in 0..MaxUid /\ cr.rv \in Nat
      BY <1>3, CRFields DEF UserCreates
    <3> QED
      BY <3>1, BoundAssumption
  <2>3. cr' = [live |-> TRUE, uid |-> i, rv |-> v, del |-> FALSE, fin |-> FALSE,
               other |-> FALSE, suspend |-> s, drop |-> d, sid |-> 0, cmd |-> 0, paused |-> FALSE]
    BY <2>1, <2>2 DEF Absent
  <2>4. /\ cr' \in CR /\ cr'.live /\ cr'.uid = i /\ cr'.rv = v /\ ~cr'.del /\ ~cr'.fin /\ cr'.sid = 0
    BY <2>3, BoundAssumption DEF CR
  <2>5. Touched(cr, cr')
    BY <1>3, <2>2, <2>4 DEF UserCreates, Touched
  <2>6. cr'.sid <= lastId
    BY <2>4 DEF CronInv, TypeOK
  <2> QED
    BY <1>2, <2>4, <2>5, <2>6
<1>4. CASE UserDeletes
  <2> DEFINE x == [cr EXCEPT !.del = TRUE]
  <2>1. x \in CR /\ x.rv = cr.rv /\ x.uid = cr.uid /\ x.del /\ x.fin = cr.fin /\ x.sid = cr.sid
    BY DEF CR
  <2>2. cr' = Stored(x) /\ cr.live /\ ~cr.del
    BY <1>4 DEF UserDeletes, Deleted
  <2> HIDE DEF x
  <2>3. /\ cr' \in CR /\ cr'.rv = cr.rv + 1 /\ cr'.uid = cr.uid /\ cr'.del /\ cr'.fin = cr.fin
        /\ cr'.live = (~cr'.del \/ cr'.fin) /\ cr'.sid = cr.sid
    BY <2>1, <2>2, StoredResult
  <2>4. Touched(cr, cr')
    BY <2>2, <2>3 DEF Touched
  <2> QED
    BY <1>2, <2>3, <2>4 DEF CronInv, TypeOK
<1>5. CASE UserEdits
  <2>1. PICK s \in BOOLEAN, d \in BOOLEAN :
            cr' = Put(cr, [cr EXCEPT !.suspend = s, !.drop = d])
    BY <1>5 DEF UserEdits
  <2> DEFINE x == [cr EXCEPT !.suspend = s, !.drop = d]
  <2>2. x \in CR /\ x.rv = cr.rv /\ x.uid = cr.uid /\ x.del = cr.del /\ x.fin = cr.fin /\ x.sid = cr.sid
    BY DEF CR
  <2>3. cr' = cr \/ cr' = Stored(x)
    BY <2>1 DEF Put
  <2> HIDE DEF x
  <2>4. CASE cr' = Stored(x)
    <3>1. /\ cr' \in CR /\ cr'.rv = cr.rv + 1 /\ cr'.uid = cr.uid /\ cr'.del = cr.del
          /\ cr'.fin = cr.fin /\ cr'.live = (~cr'.del \/ cr'.fin) /\ cr'.sid = cr.sid
      BY <2>2, <2>4, StoredResult
    <3>2. Touched(cr, cr')
      BY <1>5, <3>1 DEF Touched, UserEdits
    <3> QED
      BY <1>2, <3>1, <3>2 DEF CronInv, TypeOK
  <2> QED
    BY <1>1, <2>3, <2>4
<1> QED
  BY <1>3, <1>4, <1>5

LEMMA OutsideStep ==
  ASSUME CronInv,
         WatchEvent \/ Resync \/ TargetEdited \/ TargetChanges \/ BackupFails \/ Restart
  PROVE  CronInv'
<1> USE TypedCopies
<1>1. cr.live => cr.uid # released.cr.uid
  BY DEF CronInv, VersionChain, Chain, Stores
<1>2. CASE WatchEvent
  <2>1. VersionChain'
    BY <1>2, ChainWatch DEF WatchEvent, CronInv, VersionChain
  <2> QED
    BY <1>1, <1>2, <2>1 DEF WatchEvent, CronInv, TypeOK, Echoes, AsReleased, MarkedAgree, StepKnows,
                            IdsAreFresh, ReleasedScheduleIsGone
<1>3. CASE Resync \/ TargetEdited \/ TargetChanges
  <2>1. stmt' \in 0..MaxStmt /\ queued' \in BOOLEAN /\ targetSeen' \in BOOLEAN
    <3>1. CASE TargetEdited
      BY <3>1, BoundAssumption DEF TargetEdited, CronInv, TypeOK
    <3>2. CASE Resync \/ TargetChanges
      BY <3>2 DEF Resync, TargetChanges, CronInv, TypeOK
    <3> QED
      BY <1>3, <3>1, <3>2
  <2>2. UNCHANGED <<cr, cached, step, snap, sched, lastId, released, faults>>
    BY <1>3 DEF Resync, TargetEdited, TargetChanges
  <2> QED
    BY <2>1, <2>2 DEF CronInv, TypeOK, VersionChain, Echoes, AsReleased, MarkedAgree, StepKnows,
                      IdsAreFresh, ReleasedScheduleIsGone
<1>4. CASE BackupFails
  <2>1. sched' \in Schedules /\ sched'.id = sched.id /\ sched'.cmd = sched.cmd
    BY <1>4 DEF BackupFails, CronInv, TypeOK, Schedules
  <2>2. UNCHANGED <<cr, cached, queued, step, snap, lastId, stmt, targetSeen, released>>
    BY <1>4 DEF BackupFails
  <2>3. faults' \in 0..MaxFaults
    BY <1>4, FaultCounts DEF BackupFails
  <2> QED
    BY <2>1, <2>2, <2>3 DEF CronInv, TypeOK, VersionChain, Echoes, AsReleased, MarkedAgree, StepKnows,
                            IdsAreFresh, ReleasedScheduleIsGone
<1>5. CASE Restart
  <2>1. /\ step' = "idle" /\ snap' = Absent /\ cached' = cr /\ queued' \in BOOLEAN
        /\ UNCHANGED <<cr, sched, lastId, stmt, targetSeen, released>>
    BY <1>5 DEF Restart, Versioned
  <2>2. VersionChain'
    BY <2>1, ChainMoves DEF CronInv, VersionChain
  <2>3. faults' \in 0..MaxFaults /\ Absent.sid <= lastId
    BY <1>5, FaultCounts DEF Restart, Absent, CronInv, TypeOK
  <2>4. TypeOK'
    BY <2>1, <2>3, AbsentIsCR DEF CronInv, TypeOK, Steps
  <2> QED
    BY <1>1, <2>1, <2>2, <2>4 DEF CronInv, Echoes, AsReleased, MarkedAgree, StepKnows,
                                  IdsAreFresh, ReleasedScheduleIsGone
<1> QED
  BY <1>2, <1>3, <1>4, <1>5

LEMMA CronInvStep == CronInv /\ [Next]_vars => CronInv'
<1> SUFFICES ASSUME CronInv, [Next]_vars PROVE CronInv'
  OBVIOUS
<1>1. CASE UNCHANGED vars
  BY <1>1 DEF vars, CronInv, TypeOK, VersionChain, Echoes, AsReleased, MarkedAgree, StepKnows,
              IdsAreFresh, ReleasedScheduleIsGone
<1>2. CASE Reconcile
  BY <1>2, LoadObjStep, SetStatusStep, EnsureCorrectStep, ApplySuspendStep, CreateObjStep,
     RecordScheduleStep, EnsureFinalizerStep, RemoveObjStep, RemoveFinalizerStep DEF Reconcile
<1> QED
  BY <1>1, <1>2, LoadStep, UserStep, OutsideStep DEF Next

LEMMA CronInvInit == Init => CronInv
<1> SUFFICES ASSUME Init PROVE CronInv
  OBVIOUS
<1>1. /\ Absent.uid = 0 /\ Absent.rv = 0 /\ ~Absent.live /\ ~Absent.del /\ ~Absent.fin
      /\ Absent.sid = 0 /\ NoSchedule.id = 0
  BY DEF Absent, NoSchedule
<1>2. NoSchedule \in Schedules
  BY BoundAssumption DEF NoSchedule, Schedules
<1>3. released.cr = Absent /\ released.by = "idle" /\ step = "idle"
  BY DEF Init
<1>4. TypeOK
  <2>1. 0 \in 0..MaxStmt /\ 0 \in 0..MaxFaults
    BY BoundAssumption
  <2>2. step \in Steps /\ queued \in BOOLEAN /\ targetSeen \in BOOLEAN
    BY DEF Init, Steps
  <2> QED
    BY <1>1, <1>2, <2>1, <2>2, AbsentIsCR DEF Init, TypeOK
<1>5. VersionChain
  BY <1>1, <1>3, ChainStarts DEF Init, VersionChain
<1> QED
  BY <1>1, <1>3, <1>4, <1>5
     DEF Init, CronInv, Echoes, MarkedAgree, StepKnows, IdsAreFresh, ReleasedScheduleIsGone

-----------------------------------------------------------------------------
(* CRs and schedules stay what they are, and no copy of the CR ever holds  *)
(* a schedule id that the cluster has not given out.                       *)
THEOREM CronTypeCorrect == Spec => []TypeOK
<1>1. CronInv => TypeOK
  BY DEF CronInv
<1> QED
  BY <1>1, CronInvInit, CronInvStep, PTL DEF Spec

(* A released CR that asked for drop_on_deletion leaves no schedule behind,*)
(* however many edits, failures and restarts came before its deletion.     *)
(* (RemoveObj before RemoveFinalizer.)                                     *)
THEOREM ReleasedScheduleIsGoneHolds == Spec => []ReleasedScheduleIsGone
<1>1. CronInv => ReleasedScheduleIsGone
  BY DEF CronInv
<1> QED
  BY <1>1, CronInvInit, CronInvStep, PTL DEF Spec

(* Every DROP SCHEDULE answers a request: a reconcile from a stale CR never*)
(* drops the schedule of a later incarnation.  (EnsureCorrect, RemoveObj.) *)
THEOREM DropsAnswerRequestsHolds == Spec => DropsAnswerRequests
<1> DEFINE Allowed == \/ cr.live /\ cr.del
                      \/ sched.cmd # stmt
                      \/ released.by = "abandon" /\ released.cr.drop
<1>1. ASSUME CronInv, [Next]_vars, sched.id # 0, sched'.id = 0
      PROVE  Allowed
  <2>1. CASE EnsureCorrect \/ EnsureCorrectFails
    <3>1. sched.cmd = snap.cmd
      BY <1>1, <2>1 DEF EnsureCorrect, EnsureCorrectFails, CronInv, StepKnows
    <3> QED
      BY <1>1, <2>1, <3>1 DEF EnsureCorrect, EnsureCorrectFails
  <2>2. CASE RemoveObj
    <3>1. step = "removeObj" /\ snap.drop
      BY <1>1, <2>2 DEF RemoveObj
    <3>2. snap.del /\ snap.fin /\ snap.sid # 0 /\ sched.id = snap.sid
      BY <1>1, <3>1 DEF CronInv, StepKnows
    <3>3. WorksFrom(snap, cached, cr, released.cr.uid) /\ AsReleased(snap)
      BY <1>1, <3>1 DEF CronInv, VersionChain, Chain, Echoes
    <3>4. CASE snap.uid # released.cr.uid
      BY <3>2, <3>3, <3>4 DEF WorksFrom, Settled, Precedes
    <3>5. CASE snap.uid = released.cr.uid
      <4>1. released.cr.drop /\ released.cr.sid # 0 /\ sched.id = released.cr.sid
        BY <3>1, <3>2, <3>3, <3>5 DEF AsReleased
      <4>2. released.by # "idle"
        BY <1>1, <3>3, <3>5 DEF WorksFrom, CronInv, IdsAreFresh
      <4>3. released.by # "removeFinalizer"
        BY <1>1, <4>1 DEF CronInv, IdsAreFresh
      <4> QED
        BY <1>1, <4>1, <4>2, <4>3 DEF CronInv, TypeOK
    <3> QED
      BY <3>4, <3>5
  <2>3. CASE CreateObj \/ CreateObjFails \/ ApplySuspend \/ BackupFails
    <3>1. lastId + 1 # 0
      BY <1>1 DEF CronInv, TypeOK
    <3>2. sched'.id # 0
      BY <1>1, <2>3, <3>1
         DEF CreateObj, CreateObjFails, CreateSchedule, ApplySuspend, BackupFails, CronInv, TypeOK,
             Schedules
    <3> QED
      BY <1>1, <3>2
  <2>4. CASE UNCHANGED sched
    BY <1>1, <2>4
  <2>5. CASE LoadCR \/ LoadObj \/ LoadObjFails \/ SetStatus \/ RecordSchedule \/ EnsureFinalizer
             \/ RemoveFinalizer
    BY <2>4, <2>5 DEF LoadCR, LoadObj, LoadObjFails, SetStatus, RecordSchedule, EnsureFinalizer,
                      RemoveFinalizer
  <2>6. CASE UserCreates \/ UserDeletes \/ UserEdits \/ WatchEvent \/ Resync \/ TargetEdited
             \/ TargetChanges \/ Restart \/ UNCHANGED vars
    BY <2>4, <2>6 DEF UserCreates, UserDeletes, UserEdits, WatchEvent, Resync, TargetEdited,
                      TargetChanges, Restart, vars
  <2> QED
    BY <1>1, <2>1, <2>2, <2>3, <2>5, <2>6 DEF Next, Reconcile
<1> QED
  BY <1>1, CronInvInit, CronInvStep, PTL DEF Spec, DropsAnswerRequests
=============================================================================
