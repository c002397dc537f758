------------------------ MODULE JobControllersProofs ------------------------
(***************************************************************************)
(* What JobControllers guarantees about batch objects, for all sets of     *)
(* kinds that do not share batch objects and for all bounds: nothing is    *)
(* started twice for one incarnation of a CR, and nothing is deleted under *)
(* a CR that is wanted.                                                    *)
(***************************************************************************)
EXTENDS JobControllers, TLAPS

(* No two kinds in Kind name the same batch object.                        *)
DistinctClasses == \A j, k \in Kind : Of[j].class = Of[k].class => j = k

-----------------------------------------------------------------------------
(* The inductive invariant.                                                *)

Existence == {"", "yes", "no"}

CR == [live : BOOLEAN, uid : Nat, rv : Nat, del : BOOLEAN, fin : BOOLEAN,
       other : BOOLEAN, exists : Existence]

Batch == {NoBatch} \cup [live : {TRUE}, for : Kind, uid : Nat]

JobTypes ==
    /\ api \in [Kind -> CR] /\ cache \in [Kind -> CR] /\ snap \in [Kind -> CR]
    /\ pc = [k \in Kind |-> pc[k]]
    /\ batch \in [Class -> Batch]
    /\ started \in SUBSET (Kind \X Nat)

ScriptTypes == scripts \in {"none", "old", "new"} /\ scriptsSeen \in {"none", "old", "new"}

(* The same incarnation, marked in both or in neither.                     *)
SameMark(o, n) == o.uid = n.uid /\ (o.del <=> n.del)

(* o is an earlier incarnation than n, or the same and marked no earlier.  *)
Before(o, n) == o.uid <= n.uid /\ (o.uid = n.uid /\ o.del => n.del)

(* A copy of the CR is not ahead of the stored one, and is out of date     *)
(* if it differs in what matters.                                          *)
Follows(o, a) == o.rv <= a.rv /\ Before(o, a) /\ (o.rv = a.rv => SameMark(o, a))

(* What a reconcile at step p knows of the CR it works from.               *)
Knows(p, s) ==
    /\ p = "removeObj" => s.del
    /\ p \in {"scripts", "deleteScripts", "createScripts", "createObj"} => ~s.del

(* No reconcile that works from o starts anything for incarnation u.       *)
Spent(o, u) == o.uid > u \/ (o.uid = u /\ o.del)

(* For a CR whose copies are s (in memory), c (cached) and a (stored), at  *)
(* step p, for whose incarnations in T something was started; b: the batch *)
(* object is there.                                                        *)
KeyInv(p, s, c, a, T, b) ==
    /\ Follows(c, a)
    /\ p # "idle" => Follows(s, a) /\ Before(s, c) /\ Knows(p, s)
    /\ \A u \in T : /\ u \in Nat /\ u <= c.uid
                    /\ b \/ Spent(c, u)
                    /\ p # "idle" => u <= s.uid /\ (b \/ Spent(s, u))

(* The incarnations of k for which a batch object was made.                *)
Uids(k) == {u \in Nat : <<k, u>> \in started}

(* A batch object was made for a CR of that class.                         *)
Owned == \A c \in Class : batch[c].live => /\ batch[c].for \in Kind
                                           /\ Of[batch[c].for].class = c
                                           /\ <<batch[c].for, batch[c].uid>> \in started

KeysInv == \A k \in Kind : KeyInv(pc[k], snap[k], cache[k], api[k], Uids(k),
                                  batch[Of[k].class].live)

JobInv == JobTypes /\ Owned /\ KeysInv

-----------------------------------------------------------------------------
(* The copies of one CR.                                                   *)

LEMMA AbsentIsCR == Absent \in CR
  BY DEF Absent, CR, Existence

LEMMA CRFields ==
  ASSUME NEW o \in CR
  PROVE  o.uid \in Nat /\ o.rv \in Nat
  BY DEF CR

(* The reconcile goes on with a CR that differs in its status at most, or  *)
(* returns.                                                                *)
LEMMA KeyMoves ==
  ASSUME NEW p, NEW s \in CR, NEW c \in CR, NEW a \in CR, NEW T, NEW b,
         KeyInv(p, s, c, a, T, b)
  PROVE  /\ \A t : KeyInv("idle", t, c, a, T, b)
         /\ \A q, m : p # "idle" /\ SameMark(m, s) /\ m.rv = s.rv /\ Knows(q, m)
                          => KeyInv(q, m, c, a, T, b)
         /\ KeyInv("loadObj", c, c, a, T, b)
<1>1. \A t : KeyInv("idle", t, c, a, T, b)
  BY DEF KeyInv
<1>2. ASSUME NEW q, NEW m, p # "idle", SameMark(m, s), m.rv = s.rv, Knows(q, m)
      PROVE  KeyInv(q, m, c, a, T, b)
  BY <1>2 DEF KeyInv, Follows, Before, SameMark, Spent
<1>3. KeyInv("loadObj", c, c, a, T, b)
  <2>1. c.uid \in Nat
    BY CRFields
  <2>2. Before(c, c) /\ Knows("loadObj", c)
    BY <2>1 DEF Before, Knows
  <2> QED
    BY <2>2 DEF KeyInv
<1> QED
  BY <1>1, <1>2, <1>3

(* A watch event brings the cache up to date.                              *)
LEMMA KeyWatched ==
  ASSUME NEW p, NEW s \in CR, NEW c \in CR, NEW a \in CR, NEW T, NEW b,
         KeyInv(p, s, c, a, T, b)
  PROVE  KeyInv(p, s, a, a, T, b)
<1>1. /\ s.uid \in Nat /\ c.uid \in Nat /\ a.uid \in Nat
      /\ s.rv \in Nat /\ c.rv \in Nat /\ a.rv \in Nat
  BY CRFields
<1>2. Follows(a, a)
  BY <1>1 DEF Follows, Before, SameMark
<1>3. p # "idle" => Before(s, a)
  BY <1>1 DEF KeyInv, Follows, Before
<1>4. ASSUME NEW u \in T PROVE u <= a.uid /\ (b \/ Spent(a, u))
  BY <1>1, <1>4 DEF KeyInv, Follows, Before, Spent
<1> QED
  BY <1>2, <1>3, <1>4 DEF KeyInv

(* A new version that is marked if the last one was, or the next           *)
(* incarnation.                                                            *)
LEMMA KeyStored ==
  ASSUME NEW p, NEW s \in CR, NEW c \in CR, NEW a \in CR, NEW T, NEW b,
         KeyInv(p, s, c, a, T, b), NEW n \in CR, n.rv = a.rv + 1, Before(a, n)
  PROVE  KeyInv(p, s, c, n, T, b)
<1>1. ASSUME NEW o \in CR, Follows(o, a) PROVE Follows(o, n)
  <2>1. /\ o.uid \in Nat /\ a.uid \in Nat /\ n.uid \in Nat
        /\ o.rv \in Nat /\ a.rv \in Nat
    BY CRFields
  <2>2. o.rv <= n.rv /\ o.rv # n.rv
    BY <1>1, <2>1 DEF Follows
  <2>3. Before(o, n)
    BY <1>1, <2>1 DEF Follows, Before
  <2> QED
    BY <2>2, <2>3 DEF Follows
<1> QED
  BY <1>1 DEF KeyInv

(* An accepted write of the CR in memory changes neither incarnation nor   *)
(* mark.                                                                   *)
LEMMA WriteResult ==
  ASSUME NEW a \in CR, NEW m \in CR, m.rv = a.rv, SameMark(m, a)
  PROVE  /\ Put(a, m) \in CR /\ SameMark(Put(a, m), a)
         /\ Put(a, m) = a \/ Put(a, m).rv = a.rv + 1
<1> DEFINE next == [m EXCEPT !.rv = @ + 1]
           alive == ~m.del \/ m.fin \/ m.other
           n == [next EXCEPT !.live = alive]
<1>1. next \in CR /\ next.rv = a.rv + 1 /\ SameMark(next, a)
  <2>1. next.rv = m.rv + 1 /\ next.uid = m.uid /\ next.del = m.del
    BY DEF CR
  <2>2. next \in CR
    BY DEF CR
  <2> QED
    BY <2>1, <2>2 DEF SameMark
<1>2. alive \in BOOLEAN
  OBVIOUS
<1>3. Put(a, m) = IF m = a THEN a ELSE n
  BY DEF Put, Stored
<1> HIDE DEF next, alive
<1>4. n \in CR /\ n.rv = a.rv + 1 /\ SameMark(n, a)
  <2>1. n \in CR
    BY <1>1, <1>2 DEF CR
  <2>2. n.rv = next.rv /\ n.uid = next.uid /\ n.del = next.del
    BY <1>1 DEF CR
  <2> QED
    BY <1>1, <2>1, <2>2 DEF SameMark
<1> HIDE DEF n
<1>5. SameMark(a, a)
  BY DEF SameMark
<1> QED
  BY <1>3, <1>4, <1>5

(* The same after such a write; q, t: the reconcile goes on with the new   *)
(* version or with the one it had, or returns.                             *)
LEMMA KeyWritten ==
  ASSUME NEW p, NEW s \in CR, NEW c \in CR, NEW a \in CR, NEW T, NEW b,
         KeyInv(p, s, c, a, T, b), p # "idle", UpToDate(a, s),
         NEW m \in CR, m.rv = s.rv, SameMark(m, s),
         NEW q, NEW t, q = "idle" \/ (t \in {s, Put(a, m)} /\ Knows(q, t))
  PROVE  /\ Put(a, m) \in CR
         /\ SameMark(Put(a, m), s)
         /\ KeyInv(q, t, c, Put(a, m), T, b)
<1> DEFINE n == Put(a, m)
<1>1. m.rv = a.rv /\ SameMark(s, a) /\ SameMark(m, a)
  BY DEF UpToDate, KeyInv, Follows, SameMark
<1>2. n \in CR /\ SameMark(n, a) /\ (n = a \/ n.rv = a.rv + 1)
  BY <1>1, WriteResult
<1> HIDE DEF n
<1>3. KeyInv(p, s, c, n, T, b)
  <2>1. Before(a, n)
    BY <1>2, CRFields DEF Before, SameMark
  <2> QED
    BY <1>2, <2>1, KeyStored
<1>4. SameMark(n, s)
  BY <1>1, <1>2 DEF SameMark
<1>5. ASSUME t = n, Knows(q, n) PROVE KeyInv(q, n, c, n, T, b)
  <2>1. n.uid \in Nat /\ n.rv \in Nat
    BY <1>2, CRFields
  <2>2. Follows(n, n)
    BY <2>1 DEF Follows, Before, SameMark
  <2>3. Before(n, c) /\ Follows(c, n)
    BY <1>3, <1>4 DEF KeyInv, Before, SameMark
  <2>4. ASSUME NEW u \in T
        PROVE  u \in Nat /\ u <= c.uid /\ (b \/ Spent(c, u)) /\ u <= n.uid /\ (b \/ Spent(n, u))
    BY <1>3, <1>4 DEF KeyInv, SameMark, Spent
  <2> QED
    BY <1>5, <2>2, <2>3, <2>4 DEF KeyInv
<1>6. ASSUME t = s, Knows(q, s) PROVE KeyInv(q, s, c, n, T, b)
  BY <1>3, <1>6 DEF KeyInv
<1>7. ASSUME q = "idle" PROVE KeyInv(q, t, c, n, T, b)
  BY <1>3, <1>7 DEF KeyInv
<1>8. KeyInv(q, t, c, n, T, b)
  BY <1>5, <1>6, <1>7 DEF n
<1> QED
  BY <1>2, <1>4, <1>8 DEF n

(* Creating and removing the batch object.                                 *)
LEMMA KeyCreates ==
  ASSUME NEW s \in CR, NEW c \in CR, NEW a \in CR, NEW T,
         KeyInv("createObj", s, c, a, T, FALSE)
  PROVE  /\ s.uid \notin T
         /\ KeyInv("createObj", s, c, a, T \cup {s.uid}, TRUE)
<1>1. s.uid \in Nat
  BY CRFields
<1>2. s.uid \notin T
  <2>1. ~s.del
    BY DEF KeyInv, Knows
  <2>2. ASSUME NEW u \in T PROVE u \in Nat /\ s.uid > u
    BY <2>1 DEF KeyInv, Spent
  <2> QED
    BY <1>1, <2>2
<1>3. s.uid <= c.uid /\ s.uid <= s.uid
  BY <1>1 DEF KeyInv, Before
<1>4. ASSUME NEW u \in T \cup {s.uid} PROVE u \in Nat /\ u <= c.uid /\ u <= s.uid
  BY <1>1, <1>3 DEF KeyInv
<1>5. KeyInv("createObj", s, c, a, T \cup {s.uid}, TRUE)
  BY <1>4 DEF KeyInv
<1> QED
  BY <1>2, <1>5

LEMMA KeyRemoves ==
  ASSUME NEW s \in CR, NEW c \in CR, NEW a \in CR, NEW T, NEW b,
         KeyInv("removeObj", s, c, a, T, b)
  PROVE  KeyInv("removeObj", s, c, a, T, FALSE)
<1>1. s.uid \in Nat /\ c.uid \in Nat
  BY CRFields
<1>2. s.del /\ Before(s, c)
  BY DEF KeyInv, Knows
<1>3. ASSUME NEW u \in T PROVE Spent(c, u) /\ Spent(s, u)
  <2>1. u \in Nat /\ u <= s.uid
    BY DEF KeyInv
  <2> QED
    BY <1>1, <1>2, <2>1 DEF Spent, Before
<1> QED
  BY <1>3 DEF KeyInv

-----------------------------------------------------------------------------
(* One step of one controller.                                             *)

LEMMA ClassOf == ASSUME NEW k \in Kind PROVE Of[k].class \in Class
<1>1. k \in {"BackupJob", "RestoreJob", "DbCopyJob", "BackupCronJob", "RestoreCronJob",
             "DbCopyCronJob"}
  BY KindAssumption DEF Of
<1> QED
  BY <1>1 DEF Of, Class, BackupJob, RestoreJob, DbCopyJob, BackupCronJob, RestoreCronJob,
              DbCopyCronJob, Traits

Leaves(k, q, t) == pc' = [pc EXCEPT ![k] = q] /\ snap' = [snap EXCEPT ![k] = t]

(* The reconcile goes on to a step that suits the CR m, or returns.        *)
GoesOn(k, m) ==
    \E q, t : Leaves(k, q, t) /\ ((q = "idle" /\ t = Absent) \/ (t = m /\ Knows(q, m)))

LEMMA Returns == ASSUME NEW k, NEW again, NEW m, Return(k, again) PROVE GoesOn(k, m)
  BY DEF Return, GoesOn, Leaves

LEMMA Goes ==
  ASSUME NEW k, NEW q, NEW m, GotoWith(k, q, m), Knows(q, m)
  PROVE  GoesOn(k, m)
  BY DEF GotoWith, GoesOn, Leaves

LEMMA ContinueGoesOn ==
  ASSUME NEW k, NEW exists, NEW m, Continue(k, exists, m)
  PROVE  GoesOn(k, m)
<1> DEFINE step == Dispatch(m, exists)
<1>1. /\ step = "removeObj" => m.del
      /\ step = "createObj" => ~m.del
      /\ step \in {"removeObj", "idle", "ensureCorrect", "removeFinalizer", "createObj"}
  BY DEF Dispatch
<1>2. \/ step = "idle" /\ Return(k, FALSE)
      \/ step = "ensureCorrect" /\ GotoWith(k, "ensureFinalizer", m)
      \/ step = "createObj" /\ GotoWith(k, "scripts", m)
      \/ step \in {"removeObj", "removeFinalizer"} /\ GotoWith(k, step, m)
  BY <1>1 DEF Continue
<1> HIDE DEF step
<1>3. CASE Return(k, FALSE)
  BY <1>3, Returns
<1>4. CASE step = "ensureCorrect" /\ GotoWith(k, "ensureFinalizer", m)
  BY <1>4, Goes DEF Knows
<1>5. CASE step = "createObj" /\ GotoWith(k, "scripts", m)
  BY <1>1, <1>5, Goes DEF Knows
<1>6. CASE step \in {"removeObj", "removeFinalizer"} /\ GotoWith(k, step, m)
  BY <1>1, <1>6, Goes DEF Knows
<1> QED
  BY <1>2, <1>3, <1>4, <1>5, <1>6

LEMMA AfterStatusGoesOn ==
  ASSUME NEW k, NEW m, AfterStatus(k, m),
         pc[k] \in {"loadStatus", "createdStatus", "removedStatus", "failedStatus"}
  PROVE  GoesOn(k, m)
<1>1. \/ Continue(k, m.exists = "yes", m)
      \/ GotoWith(k, "ensureFinalizer", m)
      \/ GotoWith(k, "removeFinalizer", m)
      \/ Return(k, TRUE)
  BY DEF AfterStatus
<1>2. Knows("ensureFinalizer", m) /\ Knows("removeFinalizer", m)
  BY DEF Knows
<1> QED
  BY <1>1, <1>2, ContinueGoesOn, Goes, Returns

(* The CR in memory, with Exists as a step may set it.                     *)
WithExists(s) == {s} \cup {[s EXCEPT !.exists = e] : e \in {"yes", "no"}}

LEMMA WithExistsKeeps ==
  ASSUME NEW s \in CR, NEW m \in WithExists(s)
  PROVE  m \in CR /\ SameMark(m, s) /\ m.rv = s.rv
<1>1. CASE m = s
  BY <1>1 DEF SameMark
<1>2. ASSUME NEW e \in {"yes", "no"}, m = [s EXCEPT !.exists = e]
      PROVE  m \in CR /\ SameMark(m, s) /\ m.rv = s.rv
  <2>1. e \in Existence
    BY DEF Existence
  <2>2. m \in CR
    BY <1>2, <2>1 DEF CR
  <2>3. m.uid = s.uid /\ m.del = s.del /\ m.rv = s.rv
    BY <1>2 DEF CR
  <2> QED
    BY <2>2, <2>3 DEF SameMark
<1> QED
  BY <1>1, <1>2 DEF WithExists

LEMMA WriteStatusGoesOn ==
  ASSUME NEW k, NEW e \in {"yes", "no"}, NEW step, NEW next, WriteStatus(k, e, step, next),
         \A m : Knows(step, m) /\ Knows(next, m)
  PROVE  \E m \in WithExists(snap[k]) : GoesOn(k, m)
<1>1. CASE GotoWith(k, step, [snap[k] EXCEPT !.exists = e])
  BY <1>1, Goes DEF WithExists
<1>2. CASE GotoWith(k, next, snap[k])
  BY <1>2, Goes DEF WithExists
<1> QED
  BY <1>1, <1>2 DEF WriteStatus, Goto

(* What the invariant says of one kind.                                    *)
KeyOf(k) == KeyInv(pc[k], snap[k], cache[k], api[k], Uids(k), batch[Of[k].class].live)

LEMMA KeyTypes ==
  ASSUME JobInv, NEW k \in Kind
  PROVE  /\ snap[k] \in CR /\ cache[k] \in CR /\ api[k] \in CR
         /\ KeyOf(k)
  BY DEF JobInv, JobTypes, KeysInv, KeyOf

(* Steps that leave batch objects alone.                                   *)
LEMMA KeyStep ==
  ASSUME JobInv, NEW k \in Kind, NEW q, NEW t \in CR, NEW c \in CR, NEW a \in CR,
         pc' = [pc EXCEPT ![k] = q], snap' = [snap EXCEPT ![k] = t],
         cache' = [cache EXCEPT ![k] = c], api' = [api EXCEPT ![k] = a],
         UNCHANGED <<batch, started>>,
         KeyInv(q, t, c, a, Uids(k), batch[Of[k].class].live)
  PROVE  JobInv'
<1>1. JobTypes' /\ Owned'
  BY DEF JobInv, JobTypes, Owned
<1>2. ASSUME NEW j \in Kind PROVE KeyOf(j)'
  <2>1. Uids(j)' = Uids(j) /\ batch'[Of[j].class].live = batch[Of[j].class].live
    BY DEF Uids
  <2>2. CASE j = k
    <3>1. pc'[j] = q /\ snap'[j] = t /\ cache'[j] = c /\ api'[j] = a
      BY <2>2 DEF JobInv, JobTypes
    <3> QED
      BY <2>1, <2>2, <3>1 DEF KeyOf
  <2>3. CASE j # k
    <3>1. pc'[j] = pc[j] /\ snap'[j] = snap[j] /\ cache'[j] = cache[j] /\ api'[j] = api[j]
      BY <2>3 DEF JobInv, JobTypes
    <3> QED
      BY <2>1, <3>1, KeyTypes DEF KeyOf
  <2> QED
    BY <2>2, <2>3
<1> QED
  BY <1>1, <1>2 DEF JobInv, KeysInv, KeyOf

(* Steps that only move the reconcile on.                                  *)
LEMMA ControlStep ==
  ASSUME JobInv, NEW k \in Kind, pc[k] # "idle", NEW m \in WithExists(snap[k]),
         GoesOn(k, m), UNCHANGED <<api, cache, batch, started>>
  PROVE  JobInv'
<1>1. PICK q, t : Leaves(k, q, t) /\ ((q = "idle" /\ t = Absent) \/ (t = m /\ Knows(q, m)))
  BY DEF GoesOn
<1>2. m \in CR /\ SameMark(m, snap[k]) /\ m.rv = snap[k].rv
  BY KeyTypes, WithExistsKeeps
<1>3. t \in CR
  BY <1>1, <1>2, AbsentIsCR
<1>4. KeyInv(q, t, cache[k], api[k], Uids(k), batch[Of[k].class].live)
  BY <1>1, <1>2, KeyTypes, KeyMoves DEF KeyOf
<1>5. PICK c \in CR, a \in CR :
          /\ c = cache[k] /\ cache' = [cache EXCEPT ![k] = c]
          /\ a = api[k] /\ api' = [api EXCEPT ![k] = a]
  BY DEF JobInv, JobTypes
<1>6. pc' = [pc EXCEPT ![k] = q] /\ snap' = [snap EXCEPT ![k] = t]
  BY <1>1 DEF Leaves
<1>7. KeyInv(q, t, c, a, Uids(k), batch[Of[k].class].live)
  BY <1>4, <1>5
<1>8. UNCHANGED <<batch, started>>
  OBVIOUS
<1> QED
  BY ONLY JobInv, k \in Kind, <1>3, <1>5, <1>6, <1>7, <1>8, KeyStep

(* Steps that write the CR in memory, or one that differs in the finalizer *)
(* and the status.                                                         *)
LEMMA WriteStep ==
  ASSUME JobInv, NEW k \in Kind, pc[k] # "idle", UpToDate(api[k], snap[k]),
         NEW m \in CR, m.rv = snap[k].rv, SameMark(m, snap[k]),
         api' = [api EXCEPT ![k] = Put(api[k], m)],
         NEW t \in {snap[k], Put(api[k], m)}, GoesOn(k, t),
         UNCHANGED <<cache, batch, started>>
  PROVE  JobInv'
<1> DEFINE n == Put(api[k], m)
<1>1. PICK q, x : Leaves(k, q, x) /\ ((q = "idle" /\ x = Absent) \/ (x = t /\ Knows(q, t)))
  BY DEF GoesOn
<1>2. n \in CR /\ KeyInv(q, x, cache[k], n, Uids(k), batch[Of[k].class].live)
  BY <1>1, KeyTypes, KeyWritten DEF KeyOf
<1>3. x \in CR
  BY <1>1, <1>2, AbsentIsCR, KeyTypes
<1>4. cache' = [cache EXCEPT ![k] = cache[k]]
  BY DEF JobInv, JobTypes
<1> HIDE DEF n
<1>5. api' = [api EXCEPT ![k] = n]
  BY DEF n
<1> QED
  BY <1>1, <1>2, <1>3, <1>4, <1>5, KeyTypes, KeyStep DEF Leaves

(* Steps that create or delete the batch object of their own class.        *)
LEMMA BatchStep ==
  ASSUME DistinctClasses, JobInv, NEW k \in Kind, NEW q, NEW t \in CR,
         Leaves(k, q, t), UNCHANGED <<api, cache>>,
         NEW n \in Batch, batch' = [batch EXCEPT ![Of[k].class] = n],
         n.live => n.for = k /\ <<k, n.uid>> \in started',
         NEW N \in SUBSET Nat, started' = started \cup {<<k, u>> : u \in N},
         KeyInv(q, t, cache[k], api[k], Uids(k) \cup N, n.live)
  PROVE  JobInv'
<1> USE ClassOf
<1>1. JobTypes'
  <2>1. pc' = [j \in Kind |-> pc'[j]] /\ snap' \in [Kind -> CR]
    BY DEF JobInv, JobTypes, Leaves
  <2>2. batch' \in [Class -> Batch]
    BY DEF JobInv, JobTypes
  <2>3. started' \in SUBSET (Kind \X Nat)
    BY DEF JobInv, JobTypes
  <2> QED
    BY <2>1, <2>2, <2>3 DEF JobInv, JobTypes
<1>2. Owned'
  <2> SUFFICES ASSUME NEW c \in Class, batch'[c].live
               PROVE  /\ batch'[c].for \in Kind /\ Of[batch'[c].for].class = c
                      /\ <<batch'[c].for, batch'[c].uid>> \in started'
    BY DEF Owned
  <2>1. CASE c = Of[k].class
    BY <2>1 DEF JobInv, JobTypes
  <2>2. CASE c # Of[k].class
    BY <2>2 DEF JobInv, JobTypes, Owned
  <2> QED
    BY <2>1, <2>2
<1>3. ASSUME NEW j \in Kind PROVE KeyOf(j)'
  <2>1. cache'[j] = cache[j] /\ api'[j] = api[j]
    OBVIOUS
  <2>2. CASE j = k
    <3>1. pc'[j] = q /\ snap'[j] = t
      BY <2>2 DEF JobInv, JobTypes, Leaves
    <3>2. batch'[Of[j].class] = n
      BY <2>2 DEF JobInv, JobTypes
    <3>3. Uids(j)' = Uids(k) \cup N
      BY <2>2 DEF Uids
    <3> QED
      BY <2>1, <2>2, <3>1, <3>2, <3>3 DEF KeyOf
  <2>3. CASE j # k
    <3>1. pc'[j] = pc[j] /\ snap'[j] = snap[j]
      BY <2>3 DEF JobInv, JobTypes, Leaves
    <3>2. batch'[Of[j].class] = batch[Of[j].class]
      BY <2>3 DEF JobInv, JobTypes, DistinctClasses
    <3>3. Uids(j)' = Uids(j)
      BY <2>3 DEF Uids
    <3> QED
      BY <2>1, <3>1, <3>2, <3>3, KeyTypes DEF KeyOf
  <2> QED
    BY <2>2, <2>3
<1> QED
  BY <1>1, <1>2, <1>3 DEF JobInv, KeysInv, KeyOf

-----------------------------------------------------------------------------
(* Every action keeps the invariant.                                       *)

LEMMA InMemory ==
  ASSUME NEW k
  PROVE  /\ snap[k] \in WithExists(snap[k])
         /\ \A e \in {"yes", "no"} : [snap[k] EXCEPT !.exists = e] \in WithExists(snap[k])
  BY DEF WithExists

LEMMA JobInvInit == Init => JobInv
<1> SUFFICES ASSUME Init PROVE JobInv
  OBVIOUS
<1>1. JobTypes
  <2>1. NoBatch \in Batch
    BY DEF Batch
  <2> QED
    BY <2>1, AbsentIsCR DEF Init, JobTypes
<1>2. Owned
  BY DEF Init, Owned, NoBatch
<1>3. ASSUME NEW k \in Kind PROVE KeyOf(k)
  <2>1. pc[k] = "idle" /\ cache[k] = Absent /\ api[k] = Absent /\ Uids(k) = {}
    BY DEF Init, Uids
  <2>2. Follows(Absent, Absent)
    BY DEF Follows, Before, SameMark, Absent
  <2> QED
    BY <2>1, <2>2 DEF KeyOf, KeyInv
<1> QED
  BY <1>1, <1>2, <1>3 DEF JobInv, KeysInv, KeyOf

LEMMA LoadKeeps == ASSUME JobInv, NEW k \in Kind, LoadCR(k) PROVE JobInv'
<1>1. CASE UNCHANGED <<pc, snap>>
  BY <1>1 DEF LoadCR, JobInv, JobTypes, Owned, KeysInv, Uids
<1>2. CASE pc' = [pc EXCEPT ![k] = "loadObj"] /\ snap' = [snap EXCEPT ![k] = cache[k]]
  <2>1. PICK c \in CR, a \in CR : /\ c = cache[k] /\ cache' = [cache EXCEPT ![k] = c]
                                  /\ a = api[k] /\ api' = [api EXCEPT ![k] = a]
    BY DEF LoadCR, JobInv, JobTypes
  <2>2. KeyInv("loadObj", c, c, a, Uids(k), batch[Of[k].class].live)
    <3>1. KeyInv(pc[k], snap[k], c, a, Uids(k), batch[Of[k].class].live) /\ snap[k] \in CR
      BY <2>1, KeyTypes DEF KeyOf
    <3> QED
      BY <2>1, <3>1, KeyMoves
  <2>3. UNCHANGED <<batch, started>> /\ snap' = [snap EXCEPT ![k] = c]
    BY <1>2, <2>1 DEF LoadCR
  <2> QED
    BY <1>2, <2>1, <2>2, <2>3, KeyStep
<1> QED
  BY <1>1, <1>2 DEF LoadCR

LEMMA LoadObjKeeps ==
  ASSUME JobInv, NEW k \in Kind, LoadObj(k) \/ LoadObjFails(k)
  PROVE  JobInv'
<1>1. pc[k] # "idle" /\ UNCHANGED <<api, cache, batch, started>>
  BY DEF LoadObj, LoadObjFails
<1>2. \E m \in WithExists(snap[k]) : GoesOn(k, m)
  <2>1. CASE LoadObjFails(k)
    BY <2>1, Returns, InMemory DEF LoadObjFails
  <2>2. CASE LoadObj(k)
    <3>1. PICK e \in {"yes", "no"} : \/ GotoWith(k, "loadStatus", [snap[k] EXCEPT !.exists = e])
                                     \/ Continue(k, Seen(k), snap[k])
      BY <2>2 DEF LoadObj
    <3>2. CASE GotoWith(k, "loadStatus", [snap[k] EXCEPT !.exists = e])
      BY <3>2, Goes, InMemory DEF Knows
    <3>3. CASE Continue(k, Seen(k), snap[k])
      BY <3>3, ContinueGoesOn, InMemory
    <3> QED
      BY <3>1, <3>2, <3>3
  <2> QED
    BY <2>1, <2>2
<1> QED
  BY <1>1, <1>2, ControlStep

LEMMA UpdateStatusKeeps == ASSUME JobInv, NEW k \in Kind, UpdateStatus(k) PROVE JobInv'
<1>1. /\ pc[k] \in {"loadStatus", "createdStatus", "removedStatus", "failedStatus"}
      /\ UNCHANGED <<cache, batch, started>>
  BY DEF UpdateStatus
<1> DEFINE n == Put(api[k], snap[k])
<1>2. CASE UNCHANGED api /\ AfterStatus(k, snap[k])
  BY <1>1, <1>2, AfterStatusGoesOn, InMemory, ControlStep
<1>3. CASE /\ UpToDate(api[k], snap[k]) /\ api' = [api EXCEPT ![k] = n]
           /\ AfterStatus(k, n) \/ AfterStatus(k, snap[k])
  <2>1. PICK t \in {snap[k], n} : GoesOn(k, t)
    BY <1>1, <1>3, AfterStatusGoesOn
  <2>2. SameMark(snap[k], snap[k])
    BY DEF SameMark
  <2> QED
    BY <1>1, <1>3, <2>1, <2>2, KeyTypes, WriteStep
<1>4. api' = [api EXCEPT ![k] = n] => api'[k] = n
  BY DEF JobInv, JobTypes
<1> QED
  BY <1>2, <1>3, <1>4 DEF UpdateStatus

LEMMA ScriptsKeep ==
  ASSUME JobInv, ScriptTypes, NEW k \in Kind, EnsureScripts(k) \/ DeleteScripts(k) \/ CreateScripts(k)
  PROVE  JobInv'
<1>1. /\ pc[k] \in {"scripts", "deleteScripts", "createScripts"}
      /\ UNCHANGED <<api, cache, batch, started>>
  BY DEF EnsureScripts, DeleteScripts, CreateScripts
<1>2. ~snap[k].del
  BY <1>1, KeyTypes DEF KeyOf, KeyInv, Knows
<1>3. \A q \in {"deleteScripts", "createScripts", "createObj"} : Knows(q, snap[k])
  BY <1>2 DEF Knows
<1>4. \/ Return(k, TRUE)
      \/ \E q \in {"deleteScripts", "createScripts", "createObj"} : GotoWith(k, q, snap[k])
  BY DEF EnsureScripts, DeleteScripts, CreateScripts, Goto, ScriptTypes
<1>5. GoesOn(k, snap[k])
  BY <1>3, <1>4, Returns, Goes
<1> QED
  BY <1>1, <1>5, InMemory, ControlStep

(* The reconcile goes on after its batch object was created or deleted.    *)
LEMMA KeyGoesOn ==
  ASSUME JobInv, NEW k \in Kind, NEW p, p # "idle", NEW T, NEW b,
         KeyInv(p, snap[k], cache[k], api[k], T, b),
         NEW m \in WithExists(snap[k]), GoesOn(k, m)
  PROVE  \E q : \E t \in CR : Leaves(k, q, t) /\ KeyInv(q, t, cache[k], api[k], T, b)
<1>1. PICK q, t : Leaves(k, q, t) /\ ((q = "idle" /\ t = Absent) \/ (t = m /\ Knows(q, m)))
  BY DEF GoesOn
<1>2. /\ snap[k] \in CR /\ cache[k] \in CR /\ api[k] \in CR
  BY KeyTypes
<1>3. m \in CR /\ SameMark(m, snap[k]) /\ m.rv = snap[k].rv
  BY <1>2, WithExistsKeeps
<1>4. t \in CR
  BY <1>1, <1>3, AbsentIsCR
<1>5. KeyInv(q, t, cache[k], api[k], T, b)
  BY <1>1, <1>2, <1>3, KeyMoves
<1> QED
  BY <1>1, <1>4, <1>5

LEMMA CreateObjKeeps ==
  ASSUME DistinctClasses, JobInv, NEW k \in Kind, CreateObj(k)
  PROVE  JobInv'
<1>1. pc[k] = "createObj" /\ UNCHANGED <<api, cache>>
  BY DEF CreateObj
<1>2. PICK m \in WithExists(snap[k]) : GoesOn(k, m)
  <2>1. CASE ~targetSeen
    BY <2>1, Returns, InMemory DEF CreateObj
  <2>2. CASE targetSeen
    <3>1. WriteStatus(k, "yes", "createdStatus", "ensureFinalizer")
      BY <2>2 DEF CreateObj
    <3>2. \A x : Knows("createdStatus", x) /\ Knows("ensureFinalizer", x)
      BY DEF Knows
    <3> QED
      BY <3>1, <3>2, WriteStatusGoesOn
  <2> QED
    BY <2>1, <2>2
<1>3. CASE UNCHANGED <<batch, started>>
  BY <1>1, <1>2, <1>3, ControlStep
<1>4. CASE ~batch[Of[k].class].live /\ CreateBatch(k)
  <2> DEFINE u == snap[k].uid
             n == [live |-> TRUE, for |-> k, uid |-> u]
  <2>1. u \in Nat
    BY KeyTypes, CRFields
  <2>2. n \in Batch /\ n.live /\ n.for = k /\ n.uid = u
    BY <2>1 DEF Batch
  <2>3. batch' = [batch EXCEPT ![Of[k].class] = n] /\ started' = started \cup {<<k, u>>}
    BY <1>4 DEF CreateBatch
  <2>4. KeyInv("createObj", snap[k], cache[k], api[k], Uids(k), FALSE)
    BY <1>1, <1>4, KeyTypes DEF KeyOf, KeyInv
  <2>5. KeyInv("createObj", snap[k], cache[k], api[k], Uids(k) \cup {u}, TRUE)
    BY <2>4, KeyTypes, KeyCreates
  <2>6. PICK q : \E t \in CR : /\ Leaves(k, q, t)
                               /\ KeyInv(q, t, cache[k], api[k], Uids(k) \cup {u}, TRUE)
    BY <1>2, <2>5, KeyGoesOn
  <2>7. PICK t \in CR : /\ Leaves(k, q, t)
                        /\ KeyInv(q, t, cache[k], api[k], Uids(k) \cup {u}, TRUE)
    BY <2>6
  <2> HIDE DEF u, n
  <2>8. PICK N \in SUBSET Nat : N = {u} /\ started' = started \cup {<<k, v>> : v \in N}
    BY <2>1, <2>3
  <2>9. <<k, n.uid>> \in started'
    BY <2>2, <2>3
  <2>10. KeyInv(q, t, cache[k], api[k], Uids(k) \cup N, n.live)
    BY <2>2, <2>7, <2>8 DEF KeyInv
  <2> QED
    BY <1>1, <2>2, <2>3, <2>7, <2>8, <2>9, <2>10, BatchStep
<1> QED
  BY <1>3, <1>4 DEF CreateObj, CreateBatch

LEMMA RemoveObjKeeps ==
  ASSUME DistinctClasses, JobInv, NEW k \in Kind, RemoveObj(k)
  PROVE  JobInv'
<1>1. pc[k] = "removeObj" /\ UNCHANGED <<api, cache, started>>
  BY DEF RemoveObj
<1>2. PICK m \in WithExists(snap[k]) : GoesOn(k, m)
  <2>1. CASE WriteStatus(k, "no", "removedStatus", "removeFinalizer")
    <3>1. \A x : Knows("removedStatus", x) /\ Knows("removeFinalizer", x)
      BY DEF Knows
    <3> QED
      BY <2>1, <3>1, WriteStatusGoesOn
  <2>2. CASE GotoWith(k, "failedStatus", [snap[k] EXCEPT !.exists = "no"])
    BY <2>2, Goes, InMemory DEF Knows
  <2>3. CASE Return(k, TRUE)
    BY <2>3, Returns, InMemory
  <2> QED
    BY <2>1, <2>2, <2>3 DEF RemoveObj
<1>3. CASE UNCHANGED batch
  BY <1>1, <1>2, <1>3, ControlStep
<1>4. CASE batch' = [batch EXCEPT ![Of[k].class] = NoBatch]
  <2>1. KeyInv("removeObj", snap[k], cache[k], api[k], Uids(k), FALSE)
    BY <1>1, KeyTypes, KeyRemoves DEF KeyOf
  <2>2. PICK q : \E t \in CR : /\ Leaves(k, q, t)
                               /\ KeyInv(q, t, cache[k], api[k], Uids(k), FALSE)
    BY <1>2, <2>1, KeyGoesOn
  <2>3. PICK t \in CR : /\ Leaves(k, q, t)
                        /\ KeyInv(q, t, cache[k], api[k], Uids(k), FALSE)
    BY <2>2
  <2>4. NoBatch \in Batch /\ NoBatch.live = FALSE
    BY DEF Batch, NoBatch
  <2>5. PICK N \in SUBSET Nat : N = {} /\ started' = started \cup {<<k, v>> : v \in N}
    <3>1. started' = started \cup {<<k, v>> : v \in {}}
      BY <1>1
    <3> QED
      BY <3>1
  <2>6. KeyInv(q, t, cache[k], api[k], Uids(k) \cup N, NoBatch.live)
    BY <2>3, <2>4, <2>5 DEF KeyInv
  <2> QED
    BY <1>1, <1>4, <2>3, <2>4, <2>5, <2>6, BatchStep
<1> QED
  BY <1>3, <1>4 DEF RemoveObj

LEMMA FinalizerKeeps ==
  ASSUME JobInv, NEW k \in Kind, EnsureFinalizer(k) \/ RemoveFinalizer(k)
  PROVE  JobInv'
<1>1. pc[k] # "idle" /\ UNCHANGED <<cache, batch, started>>
  BY DEF EnsureFinalizer, RemoveFinalizer
<1>2. \A m : GoesOn(k, m)
  BY Returns DEF EnsureFinalizer, RemoveFinalizer
<1>3. CASE UNCHANGED api
  BY <1>1, <1>2, <1>3, InMemory, ControlStep
<1>4. ASSUME NEW f \in BOOLEAN, UpToDate(api[k], snap[k]),
             api' = [api EXCEPT ![k] = Put(api[k], [[snap[k] EXCEPT !.fin = f]
                                                       EXCEPT !.exists = api[k].exists])]
      PROVE  JobInv'
  <2> DEFINE e == api[k].exists
             m == [[snap[k] EXCEPT !.fin = f] EXCEPT !.exists = e]
  <2>1. snap[k] \in CR /\ e \in Existence
    BY KeyTypes DEF CR
  <2>2. m \in CR
    BY <2>1 DEF CR
  <2>3. m.rv = snap[k].rv /\ m.uid = snap[k].uid /\ m.del = snap[k].del
    BY <2>1 DEF CR
  <2>4. SameMark(m, snap[k])
    BY <2>3 DEF SameMark
  <2>5. api' = [api EXCEPT ![k] = Put(api[k], m)]
    BY <1>4
  <2> HIDE DEF m
  <2> QED
    BY <1>1, <1>2, <1>4, <2>2, <2>3, <2>4, <2>5, WriteStep
<1>5. \/ UNCHANGED api
      \/ UpToDate(api[k], snap[k]) /\ Stores(k, WithFinalizer(snap[k]))
      \/ UpToDate(api[k], snap[k]) /\ Stores(k, WithoutFinalizer(snap[k]))
  BY DEF EnsureFinalizer, RemoveFinalizer
<1> QED
  BY <1>3, <1>4, <1>5 DEF Stores, WithFinalizer, WithoutFinalizer

(* Users, and the watch of the CRs.                                        *)
LEMMA EnvironmentKeeps == ASSUME JobInv, NEW k \in Kind, Environment(k) PROVE JobInv'
<1>1. UNCHANGED <<pc, snap, batch, started>>
  BY DEF Environment, UserCreates, UserDeletes, UserTouches, WatchEvent, Resync
<1>2. snap[k] \in CR /\ cache[k] \in CR /\ api[k] \in CR
  BY KeyTypes
<1>3. KeyInv(pc[k], snap[k], cache[k], api[k], Uids(k), batch[Of[k].class].live)
  BY KeyTypes DEF KeyOf
<1>4. pc' = [pc EXCEPT ![k] = pc[k]] /\ snap' = [snap EXCEPT ![k] = snap[k]]
  BY <1>1 DEF JobInv, JobTypes
<1>5. ASSUME UNCHANGED cache, NEW n \in CR, api' = [api EXCEPT ![k] = n],
             n.rv = api[k].rv + 1, Before(api[k], n)
      PROVE  JobInv'
  <2>1. KeyInv(pc[k], snap[k], cache[k], n, Uids(k), batch[Of[k].class].live)
    BY <1>2, <1>3, <1>5, KeyStored
  <2>2. cache' = [cache EXCEPT ![k] = cache[k]]
    BY <1>5 DEF JobInv, JobTypes
  <2> QED
    BY <1>1, <1>2, <1>4, <1>5, <2>1, <2>2, KeyStep
<1>6. ASSUME NEW o \in CR, o.rv = api[k].rv, Before(api[k], o)
      PROVE  /\ Stored(o) \in CR /\ Stored(o).rv = api[k].rv + 1
             /\ Before(api[k], Stored(o))
  <2> DEFINE next == [o EXCEPT !.rv = @ + 1]
             alive == ~o.del \/ o.fin \/ o.other
             n == [next EXCEPT !.live = alive]
  <2>1. next.rv = o.rv + 1 /\ next.uid = o.uid /\ next.del = o.del
    BY DEF CR
  <2>2. next \in CR
    BY DEF CR
  <2>3. alive \in BOOLEAN
    OBVIOUS
  <2>4. Stored(o) = n
    BY DEF Stored
  <2> HIDE DEF next, alive
  <2>5. n \in CR
    BY <2>2, <2>3 DEF CR
  <2>6. n.rv = next.rv /\ n.uid = next.uid /\ n.del = next.del
    BY <2>2 DEF CR
  <2> HIDE DEF n
  <2> QED
    BY <1>6, <2>1, <2>4, <2>5, <2>6 DEF Before
<1>7. CASE UserCreates(k)
  <2> DEFINE n == [Absent EXCEPT !.live = TRUE, !.uid = api[k].uid + 1, !.rv = api[k].rv + 1]
  <2>1. api[k].uid \in Nat /\ api[k].rv \in Nat
    BY <1>2, CRFields
  <2>2. n \in CR
    <3>1. api[k].uid + 1 \in Nat /\ api[k].rv + 1 \in Nat
      BY <2>1
    <3> QED
      BY <3>1 DEF Absent, CR, Existence
  <2>3. n.rv = api[k].rv + 1 /\ n.uid = api[k].uid + 1
    BY <2>1 DEF Absent
  <2>4. UNCHANGED cache /\ api' = [api EXCEPT ![k] = n]
    BY <1>7 DEF UserCreates
  <2> HIDE DEF n
  <2>5. Before(api[k], n)
    BY <2>1, <2>3 DEF Before
  <2> QED
    BY <1>5, <2>2, <2>3, <2>4, <2>5
<1>8. CASE UserDeletes(k)
  <2> DEFINE o == [api[k] EXCEPT !.del = TRUE]
  <2>1. o \in CR
    BY <1>2 DEF CR
  <2>2. o.rv = api[k].rv /\ o.uid = api[k].uid /\ o.del
    BY <1>2 DEF CR
  <2>3. UNCHANGED cache /\ api' = [api EXCEPT ![k] = Stored(o)]
    BY <1>8 DEF UserDeletes, Deleted
  <2> HIDE DEF o
  <2>4. Before(api[k], o)
    BY <1>2, <2>2, CRFields DEF Before
  <2> QED
    BY <1>5, <1>6, <2>1, <2>2, <2>3, <2>4
<1>9. CASE UserTouches(k)
  <2>1. UNCHANGED cache /\ api' = [api EXCEPT ![k] = Stored(api[k])]
    BY <1>9 DEF UserTouches
  <2>2. Before(api[k], api[k])
    BY <1>2, CRFields DEF Before
  <2> QED
    BY <1>2, <1>5, <1>6, <2>1, <2>2
<1>10. CASE WatchEvent(k)
  <2>1. KeyInv(pc[k], snap[k], api[k], api[k], Uids(k), batch[Of[k].class].live)
    BY <1>2, <1>3, KeyWatched
  <2>2. cache' = [cache EXCEPT ![k] = api[k]] /\ api' = [api EXCEPT ![k] = api[k]]
    BY <1>10 DEF WatchEvent, JobInv, JobTypes
  <2> QED
    BY <1>1, <1>2, <1>4, <2>1, <2>2, KeyStep
<1>11. CASE Resync(k)
  BY <1>11 DEF Resync, JobInv, JobTypes, Owned, KeysInv, Uids
<1> QED
  BY <1>7, <1>8, <1>9, <1>10, <1>11 DEF Environment

LEMMA RestartKeeps == ASSUME JobInv, Restart PROVE JobInv'
<1>1. JobTypes' /\ Owned'
  BY AbsentIsCR DEF Restart, JobInv, JobTypes, Owned
<1>2. ASSUME NEW k \in Kind PROVE KeyOf(k)'
  <2>1. /\ pc'[k] = "idle" /\ cache'[k] = api[k] /\ api'[k] = api[k]
        /\ Uids(k)' = Uids(k) /\ batch' = batch
    BY DEF Restart, Uids
  <2>2. KeyInv(pc[k], snap[k], api[k], api[k], Uids(k), batch[Of[k].class].live)
    BY KeyTypes, KeyWatched DEF KeyOf
  <2>3. \A t : KeyInv("idle", t, api[k], api[k], Uids(k), batch[Of[k].class].live)
    BY <2>2 DEF KeyInv
  <2> QED
    BY <2>1, <2>3 DEF KeyOf
<1> QED
  BY <1>1, <1>2 DEF JobInv, KeysInv, KeyOf

LEMMA JobInvStep ==
  ASSUME DistinctClasses, JobInv, ScriptTypes, [Next]_vars
  PROVE  JobInv' /\ ScriptTypes'
<1>1. ASSUME NEW k \in Kind, LoadCR(k) \/ Reconcile(k) \/ Environment(k)
      PROVE  JobInv'
  BY <1>1, LoadKeeps, LoadObjKeeps, UpdateStatusKeeps, ScriptsKeep, CreateObjKeeps,
     RemoveObjKeeps, FinalizerKeeps, EnvironmentKeeps DEF Reconcile
<1>2. ASSUME \/ \E c \in Class : BatchEvent(c)
             \/ ScriptsEvent \/ TargetChanges \/ UNCHANGED vars
      PROVE  JobInv'
  BY <1>2 DEF BatchEvent, ScriptsEvent, TargetChanges, vars,
              JobInv, JobTypes, Owned, KeysInv, Uids
<1>3. ASSUME Restart PROVE JobInv'
  BY <1>3, RestartKeeps
<1>4. JobInv'
  BY <1>1, <1>2, <1>3 DEF Next
<1>5. ScriptTypes'
  <2>1. ASSUME NEW k \in Kind, LoadCR(k) \/ Reconcile(k) \/ Environment(k)
        PROVE  scriptsSeen' = scriptsSeen /\ scripts' \in {"none", "old", "new"}
    BY <2>1 DEF ScriptTypes, LoadCR, Reconcile, LoadObj, LoadObjFails, UpdateStatus,
                EnsureScripts, DeleteScripts, CreateScripts, CreateObj, RemoveObj,
                EnsureFinalizer, RemoveFinalizer, Environment, UserCreates, UserDeletes,
                UserTouches, WatchEvent, Resync
  <2> QED
    BY <2>1 DEF Next, ScriptTypes, BatchEvent, ScriptsEvent, TargetChanges, Restart, vars
<1> QED
  BY <1>4, <1>5

LEMMA JobInvariant == ASSUME DistinctClasses PROVE Spec => [](JobInv /\ ScriptTypes)
<1>1. Init => JobInv /\ ScriptTypes
  BY JobInvInit DEF Init, ScriptTypes
<1>2. JobInv /\ ScriptTypes /\ [Next]_vars => (JobInv /\ ScriptTypes)'
  BY JobInvStep
<1> QED
  BY <1>1, <1>2, PTL DEF Spec

-----------------------------------------------------------------------------
(* The theorems.                                                           *)

(* Only CreateObj and RemoveObj change batch objects, each the one of its  *)
(* own class.                                                              *)
LEMMA BatchChange ==
  ASSUME JobInv, [Next]_vars, NEW c \in Class, batch'[c] # batch[c]
  PROVE  \E k \in Kind :
             /\ Of[k].class = c
             /\ \/ /\ pc[k] = "createObj" /\ ~batch[c].live
                   /\ batch'[c].for = k /\ batch'[c].uid = snap[k].uid
                \/ pc[k] = "removeObj" /\ batch'[c] = NoBatch
<1> USE ClassOf
<1>1. PICK k \in Kind : CreateObj(k) \/ RemoveObj(k)
  BY DEF Next, vars, LoadCR, Reconcile, LoadObj, LoadObjFails, UpdateStatus,
         EnsureScripts, DeleteScripts, CreateScripts, EnsureFinalizer, RemoveFinalizer,
         Environment, UserCreates, UserDeletes, UserTouches, WatchEvent, Resync,
         BatchEvent, ScriptsEvent, TargetChanges, Restart
<1>2. batch \in [Class -> Batch]
  BY DEF JobInv, JobTypes
<1>3. CASE CreateObj(k)
  <2>1. pc[k] = "createObj" /\ CreateBatch(k) /\ ~batch[Of[k].class].live
    BY <1>3 DEF CreateObj, CreateBatch
  <2>2. batch' = [batch EXCEPT ![Of[k].class] =
                      [live |-> TRUE, for |-> k, uid |-> snap[k].uid]]
    BY <2>1 DEF CreateBatch
  <2>3. Of[k].class = c
    BY <1>2, <2>2
  <2> QED
    BY <1>2, <2>1, <2>2, <2>3
<1>4. CASE RemoveObj(k)
  <2>1. pc[k] = "removeObj" /\ batch' = [batch EXCEPT ![Of[k].class] = NoBatch]
    BY <1>4 DEF RemoveObj
  <2>2. Of[k].class = c
    BY <1>2, <2>1
  <2> QED
    BY <1>2, <2>1, <2>2
<1> QED
  BY <1>1, <1>3, <1>4

(* A backup, restore or copy is never started twice for one incarnation of *)
(* a CR, however stale the caches are, if no two kinds share their batch   *)
(* objects.  (LoadObj, CreateObj, RemoveObj.)                              *)
THEOREM StartedOnceHolds == ASSUME DistinctClasses PROVE Spec => StartedOnce
<1>1. ASSUME JobInv, [Next]_vars, NEW c \in Class, ~batch[c].live, batch'[c].live
      PROVE  <<batch'[c].for, batch'[c].uid>> \notin started
  <2>1. PICK k \in Kind : /\ Of[k].class = c /\ pc[k] = "createObj"
                          /\ batch'[c].for = k /\ batch'[c].uid = snap[k].uid
    <3>1. ~NoBatch.live
      BY DEF NoBatch
    <3>2. batch'[c] # batch[c] /\ batch'[c] # NoBatch
      BY <1>1, <3>1
    <3> QED
      BY <1>1, <3>2, BatchChange
  <2>2. KeyInv("createObj", snap[k], cache[k], api[k], Uids(k), FALSE)
    BY <1>1, <2>1, KeyTypes DEF KeyOf, KeyInv
  <2>3. snap[k].uid \in Nat /\ snap[k].uid \notin Uids(k)
    BY <1>1, <2>2, KeyTypes, KeyCreates, CRFields
  <2> QED
    BY <2>1, <2>3 DEF Uids
<1>2. JobInv /\ [Next]_vars
        => [\A c \in Class : ~batch[c].live /\ batch'[c].live
               => <<batch'[c].for, batch'[c].uid>> \notin started]_vars
  BY <1>1
<1> QED
  BY <1>2, JobInvariant, PTL DEF Spec, StartedOnce

(* A batch object is deleted only if the CR it was made for is marked for  *)
(* deletion or gone, if no two kinds share their batch objects.            *)
(* (RemoveObj.)                                                            *)
THEOREM RemovedWhenAskedHolds == ASSUME DistinctClasses PROVE Spec => RemovedWhenAsked
<1>1. ASSUME JobInv, [Next]_vars, NEW c \in Class, batch[c].live, ~batch'[c].live,
             api[batch[c].for].uid = batch[c].uid
      PROVE  api[batch[c].for].del
  <2>1. PICK k \in Kind : Of[k].class = c /\ pc[k] = "removeObj"
    <3>1. batch'[c] # batch[c]
      BY <1>1
    <3> QED
      BY <1>1, <3>1, BatchChange
  <2>2. /\ batch[c].for \in Kind /\ Of[batch[c].for].class = c
        /\ <<batch[c].for, batch[c].uid>> \in started
    BY <1>1 DEF JobInv, Owned
  <2>3. batch[c].for = k
    BY <2>1, <2>2 DEF DistinctClasses
  <2>4. batch[c].uid \in Uids(k)
    BY <1>1, <2>2, <2>3 DEF Uids, JobInv, JobTypes
  <2>5. /\ snap[k] \in CR /\ api[k] \in CR
        /\ KeyInv("removeObj", snap[k], cache[k], api[k], Uids(k), batch[c].live)
    BY <1>1, <2>1, KeyTypes DEF KeyOf
  <2>6. /\ batch[c].uid \in Nat /\ batch[c].uid <= snap[k].uid
        /\ snap[k].del /\ Before(snap[k], api[k])
    BY <2>4, <2>5 DEF KeyInv, Follows, Knows
  <2>7. api[k].uid = snap[k].uid
    BY <1>1, <2>3, <2>5, <2>6, CRFields DEF Before
  <2> QED
    BY <2>3, <2>6, <2>7 DEF Before
<1>2. JobInv /\ [Next]_vars
        => [\A c \in Class : batch[c].live /\ ~batch'[c].live
               => LET owner == api[batch[c].for]
                  IN  owner.uid = batch[c].uid => owner.del]_vars
  BY <1>1
<1> QED
  BY <1>2, JobInvariant, PTL DEF Spec, RemovedWhenAsked
=============================================================================
