------------------------- MODULE DbControllerProofs -------------------------
(***************************************************************************)
(* Proofs about DbController, for every set of CRs, every bound and any    *)
(* number of failures.                                                     *)
(*                                                                         *)
(* The argument: for one key the version whose finalizer was removed last, *)
(* the version a running reconcile works from, the cached version and the  *)
(* stored version form a chain, each at least as old as the next.  Only a  *)
(* reconcile that has seen the deletion mark takes the finalizer off, so   *)
(* whoever reads the cache afterwards reads that version or a newer one.   *)
(***************************************************************************)
EXTENDS DbController, TLAPS

(* o is the same version as n or an earlier one of the same key.           *)
Older(o, n) ==
    /\ o.rv <= n.rv
    /\ o.rv = n.rv => o = n
    /\ o.uid <= n.uid
    /\ o.uid = n.uid /\ o.del => n.del

WellFormed(o) ==
    /\ o.rv = 0 => o = Absent
    /\ o.live => o.uid > 0
    /\ o.fin => o.live

(* A finalizer seen on version o is still stored (a), or o is the version  *)
(* from which the operator removed it (r).                                 *)
Settled(o, a, r) ==
    o.fin => IF o.uid = r.uid THEN o = r
             ELSE a.uid = o.uid /\ a.live /\ a.fin

(* What the step a reconcile is in tells about the CR it has read.         *)
StepKnows(p, s) ==
    /\ p \in {"createObj", "notifyCreated", "ensureFinalizer"} => ~s.del
    /\ p \in {"removeObj", "notifyRemoved"} => s.del /\ s.fin
    /\ p = "removeFinalizer" => s.del

(* The chain of versions of one key: its step p, the CR s it works from,   *)
(* the cached c, the stored a, and r, the one released last.               *)
Chain(p, s, c, a, r) ==
    /\ WellFormed(a) /\ WellFormed(c)
    /\ r = Absent \/ (r.live /\ r.del /\ r.fin /\ r.uid > 0)
    /\ Older(r, c) /\ Older(c, a)
    /\ a.uid = r.uid => ~a.fin
    /\ Settled(c, a, r)
    /\ p # "idle" => /\ s.live /\ WellFormed(s)
                     /\ Older(r, s) /\ Older(s, c)
                     /\ Settled(s, a, r)
                     /\ StepKnows(p, s)

ChainInv == \A k \in Db : Chain(pc[k], snap[k], cache[k], api[k], released[k])

(* What relates the database of a key to its versions when no other key    *)
(* names it and the DbServer stays.                                        *)
Tracks(p, s, c, a, r, d, D) ==
    /\ r.drop /\ c.uid = r.uid => d \notin D
    /\ r.drop /\ p # "idle" /\ s.uid = r.uid => d \notin D
    /\ a.live /\ ~a.del /\ a.fin => d \in D
    /\ p \in {"notifyCreated", "ensureFinalizer", "removeObj"} => d \in D
    /\ p \in {"notifyRemoved", "removeFinalizer"} /\ s.fin /\ s.drop => d \notin D

TracksInv ==
    /\ serverSeen
    /\ \A k \in Db : Tracks(pc[k], snap[k], cache[k], api[k], released[k],
                            DbName[k], dbs)
-----------------------------------------------------------------------------
(* Type correctness.                                                       *)

LEMMA AbsentIsCR == Absent \in CR
  BY DEF Absent, CR

(* Every value the API server stores is a CR.                              *)
LEMMA ApiValuesAreCRs ==
  ASSUME NEW o \in CR
  PROVE  /\ \A drop, cascade, other \in BOOLEAN : Created(o, drop, cascade, other) \in CR
         /\ Stored(o) \in CR
         /\ Deleted(o) \in CR
         /\ \A drop, cascade \in BOOLEAN :
               Stored([o EXCEPT !.drop = drop, !.cascade = cascade]) \in CR
         /\ Stored([o EXCEPT !.other = FALSE]) \in CR
         /\ WithFinalizer(o) \in CR
         /\ WithoutFinalizer(o) \in CR
         /\ \A n \in CR : Put(o, n) \in CR
<1>1. \A x \in CR : Stored(x) \in CR
  <2> TAKE x \in CR
  <2>1. \A y \in CR : [y EXCEPT !.live = TRUE] \in CR /\ [y EXCEPT !.live = FALSE] \in CR
    BY DEF CR
  <2>2. [x EXCEPT !.rv = @ + 1] \in CR
    BY DEF CR
  <2>3. (~x.del \/ x.fin \/ x.other) \in {TRUE, FALSE}
    OBVIOUS
  <2> QED
    BY <2>1, <2>2, <2>3 DEF Stored
<1>2. \A drop, cascade, other \in BOOLEAN : Created(o, drop, cascade, other) \in CR
  BY DEF CR, Created
<1>3. [o EXCEPT !.del = TRUE] \in CR
  BY DEF CR
<1>4. \A drop, cascade \in BOOLEAN : [o EXCEPT !.drop = drop, !.cascade = cascade] \in CR
  BY DEF CR
<1>5. [o EXCEPT !.other = FALSE] \in CR
  BY DEF CR
<1>6. WithFinalizer(o) \in CR /\ WithoutFinalizer(o) \in CR
  BY DEF CR, WithFinalizer, WithoutFinalizer
<1>7. \A n \in CR : Put(o, n) \in CR
  BY <1>1 DEF Put
<1> QED
  BY <1>1, <1>2, <1>3, <1>4, <1>5, <1>6, <1>7 DEF Deleted

(* The step Dispatch chooses, for a Db.                                    *)
LEMMA DispatchResult ==
  ASSUME NEW cr \in CR, NEW exists \in BOOLEAN
  PROVE  /\ Dispatch(cr, exists) \in {"removeObj", "idle", "ensureCorrect",
                                      "removeFinalizer", "createObj"}
         /\ Dispatch(cr, exists) = "removeObj" => exists /\ cr.del /\ cr.fin
         /\ Dispatch(cr, exists) = "ensureCorrect" => exists /\ ~cr.del
         /\ Dispatch(cr, exists) = "removeFinalizer" => ~exists /\ cr.del
         /\ Dispatch(cr, exists) = "createObj" => ~exists /\ ~cr.del
  BY DEF Dispatch, CR

(* Where Continue leads.                                                   *)
LEMMA ContinueResult ==
  ASSUME TypeOK, NEW k \in Db, NEW exists \in BOOLEAN, NEW connected \in BOOLEAN,
         Continue(k, exists, connected)
  PROVE  \/ Done(k)
         \/ Backoff(k)
         \/ Goto(k, "ensureFinalizer") /\ exists /\ ~snap[k].del
         \/ Goto(k, "createObj") /\ ~exists /\ ~snap[k].del /\ connected
         \/ Goto(k, "removeObj") /\ exists /\ snap[k].del /\ snap[k].fin
         \/ Goto(k, "removeFinalizer") /\ ~exists /\ snap[k].del
<1>1. snap[k] \in CR
  BY DEF TypeOK
<1> DEFINE step == Dispatch(snap[k], exists)
<1>2. step \in {"removeObj", "idle", "ensureCorrect", "removeFinalizer", "createObj"}
  BY <1>1, DispatchResult
<1>3. CASE step = "idle"
  BY <1>3 DEF Continue
<1>4. CASE step = "ensureCorrect"
  BY <1>1, <1>4, DispatchResult DEF Continue
<1>5. CASE step = "createObj"
  BY <1>1, <1>5, DispatchResult DEF Continue
<1>6. CASE step = "removeObj"
  BY <1>1, <1>6, DispatchResult DEF Continue
<1>7. CASE step = "removeFinalizer"
  BY <1>1, <1>7, DispatchResult DEF Continue
<1> QED
  BY <1>2, <1>3, <1>4, <1>5, <1>6, <1>7

(* How the control state moves when a step is left.                        *)
LEMMA LeavingKeepsTypes ==
  ASSUME TypeOK, NEW k \in Db,
         Done(k) \/ Backoff(k) \/ \E step \in Steps : Goto(k, step)
  PROVE  pc' \in [Db -> Steps] /\ snap' \in [Db -> CR] /\ queue' \in SUBSET Db
  BY AbsentIsCR DEF TypeOK, Done, Backoff, Goto, Steps

LEMMA ContinueKeepsTypes ==
  ASSUME TypeOK, NEW k \in Db, NEW exists \in BOOLEAN, NEW connected \in BOOLEAN,
         Continue(k, exists, connected)
  PROVE  pc' \in [Db -> Steps] /\ snap' \in [Db -> CR] /\ queue' \in SUBSET Db
  BY ContinueResult, LeavingKeepsTypes DEF Steps

LEMMA FaultKeepsTypes ==
  ASSUME TypeOK, Fault
  PROVE  faults' \in Nat
  BY DEF TypeOK, Fault

(* Every step of the Db controller and of its surroundings keeps the types.*)
LEMMA TypeStep == TypeOK /\ [Next]_vars => TypeOK'
<1> SUFFICES ASSUME TypeOK, [Next]_vars
             PROVE  TypeOK'
  OBVIOUS
<1> USE DbAssumption, FlagAssumption
<1>1. ASSUME NEW k \in Db, LoadCR(k) PROVE TypeOK'
  BY <1>1 DEF TypeOK, LoadCR, Steps
<1>2. ASSUME NEW k \in Db, LoadObj(k) PROVE TypeOK'
  <2>1. (serverSeen /\ DbName[k] \in dbs) \in BOOLEAN /\ serverSeen \in BOOLEAN
    BY DEF TypeOK
  <2>2. pc' \in [Db -> Steps] /\ snap' \in [Db -> CR] /\ queue' \in SUBSET Db
    BY <1>2, <2>1, ContinueKeepsTypes DEF LoadObj
  <2> QED
    BY <1>2, <2>2 DEF TypeOK, LoadObj
<1>3. ASSUME NEW k \in Db, LoadObjFails(k) PROVE TypeOK'
  BY <1>3, LeavingKeepsTypes, FaultKeepsTypes DEF TypeOK, LoadObjFails
<1>4. ASSUME NEW k \in Db, CreateObj(k) PROVE TypeOK'
  BY <1>4, LeavingKeepsTypes DEF TypeOK, CreateObj, Steps
<1>5. ASSUME NEW k \in Db, CreateObjFails(k) PROVE TypeOK'
  BY <1>5, LeavingKeepsTypes, FaultKeepsTypes DEF TypeOK, CreateObjFails
<1>6. ASSUME NEW k \in Db, NotifyChanges(k) PROVE TypeOK'
  BY <1>6, LeavingKeepsTypes DEF TypeOK, NotifyChanges, Steps
<1>7. ASSUME NEW k \in Db, EnsureFinalizer(k) PROVE TypeOK'
  <2>1. Put(api[k], WithFinalizer(snap[k])) \in CR
    BY ApiValuesAreCRs DEF TypeOK
  <2> QED
    BY <1>7, <2>1, LeavingKeepsTypes DEF TypeOK, EnsureFinalizer
<1>8. ASSUME NEW k \in Db, EnsureFinalizerFails(k) PROVE TypeOK'
  <2>1. Put(api[k], WithFinalizer(snap[k])) \in CR
    BY ApiValuesAreCRs DEF TypeOK
  <2> QED
    BY <1>8, <2>1, LeavingKeepsTypes, FaultKeepsTypes DEF TypeOK, EnsureFinalizerFails
<1>9. ASSUME NEW k \in Db, RemoveObj(k) PROVE TypeOK'
  BY <1>9, LeavingKeepsTypes DEF TypeOK, RemoveObj, Steps
<1>10. ASSUME NEW k \in Db, RemoveObjFails(k) PROVE TypeOK'
  BY <1>10, LeavingKeepsTypes, FaultKeepsTypes DEF TypeOK, RemoveObjFails
<1>18. ASSUME NEW k \in Db, RemoveObjRefused(k) PROVE TypeOK'
  BY <1>18, LeavingKeepsTypes DEF TypeOK, RemoveObjRefused
<1>11. ASSUME NEW k \in Db, RemoveFinalizer(k) PROVE TypeOK'
  <2>1. Put(api[k], WithoutFinalizer(snap[k])) \in CR
    BY ApiValuesAreCRs DEF TypeOK
  <2> QED
    BY <1>11, <2>1, LeavingKeepsTypes DEF TypeOK, RemoveFinalizer, Release
<1>12. ASSUME NEW k \in Db, RemoveFinalizerFails(k) PROVE TypeOK'
  <2>1. Put(api[k], WithoutFinalizer(snap[k])) \in CR
    BY ApiValuesAreCRs DEF TypeOK
  <2> QED
    BY <1>12, <2>1, LeavingKeepsTypes, FaultKeepsTypes
       DEF TypeOK, RemoveFinalizerFails, Release
<1>13. ASSUME NEW k \in Db, Environment(k) PROVE TypeOK'
  <2>1. /\ Deleted(api[k]) \in CR
        /\ \A drop, cascade \in BOOLEAN :
              Stored([api[k] EXCEPT !.drop = drop, !.cascade = cascade]) \in CR
        /\ Stored([api[k] EXCEPT !.other = FALSE]) \in CR
        /\ \A drop, cascade, other \in BOOLEAN : Created(api[k], drop, cascade, other) \in CR
    BY ApiValuesAreCRs DEF TypeOK
  <2>2. CASE UserCreates(k)
    <3>1. PICK n \in CR : api' = [api EXCEPT ![k] = n]
      BY <2>1, <2>2, FlagAssumption DEF UserCreates
    <3> QED
      BY <2>2, <3>1 DEF TypeOK, UserCreates
  <2>3. CASE UserDeletes(k)
    BY <2>1, <2>3 DEF TypeOK, UserDeletes
  <2>4. CASE UserEdits(k)
    BY <2>1, <2>4, FlagAssumption DEF TypeOK, UserEdits
  <2>5. CASE OtherFinalizerGoes(k)
    BY <2>1, <2>5 DEF TypeOK, OtherFinalizerGoes
  <2>6. CASE WatchEvent(k)
    BY <2>6 DEF TypeOK, WatchEvent
  <2>7. CASE Resync(k)
    BY <2>7 DEF TypeOK, Resync
  <2> QED
    BY <1>13, <2>2, <2>3, <2>4, <2>5, <2>6, <2>7 DEF Environment
<1>14. CASE DbServerSide
  BY <1>14, FaultKeepsTypes DEF TypeOK, DbServerSide
<1>16. CASE Restart
  BY <1>16, AbsentIsCR, FaultKeepsTypes DEF TypeOK, Restart, Steps
<1>17. CASE UNCHANGED vars
  BY <1>17 DEF TypeOK, vars
<1> QED
  BY <1>1, <1>2, <1>3, <1>4, <1>5, <1>6, <1>7, <1>8, <1>9, <1>10, <1>11, <1>12,
     <1>13, <1>14, <1>16, <1>17, <1>18 DEF Next, Reconcile

(* TypeOK is an invariant: CRs, cached CRs and the CRs reconciles work from*)
(* stay CRs, and a reconcile is always in one of its steps.                *)
THEOREM TypeCorrect == Spec => []TypeOK
<1>1. Init => TypeOK
  <2> SUFFICES ASSUME Init PROVE TypeOK
    OBVIOUS
  <2>1. /\ api \in [Db -> CR] /\ cache \in [Db -> CR]
        /\ snap \in [Db -> CR] /\ released \in [Db -> CR]
    BY AbsentIsCR DEF Init
  <2>2. pc \in [Db -> Steps]
    BY DEF Init, Steps
  <2>3. serverSeen \in BOOLEAN /\ srvQueue \in BOOLEAN /\ queue \in SUBSET Db
    BY DEF Init
  <2>4. dbs \in SUBSET DbNames /\ faults \in Nat
    BY DEF Init
  <2> QED
    BY <2>1, <2>2, <2>3, <2>4 DEF TypeOK
<1> QED
  BY <1>1, TypeStep, PTL DEF Spec

-----------------------------------------------------------------------------
(* The chain of versions, one key at a time.                               *)

(* What a user, or whoever owns another finalizer, may turn o into: a newer*)
(* version that leaves the operator's finalizer as it is.                  *)
Keeps(o, n) ==
    /\ Older(o, n) /\ WellFormed(n)
    /\ n.fin => o.fin
    /\ o.fin => n.fin /\ n.uid = o.uid /\ n.live

LEMMA OlderIsTransitive ==
  ASSUME NEW x \in CR, NEW y \in CR, NEW z \in CR, Older(x, y), Older(y, z)
  PROVE  Older(x, z)
  BY DEF Older, CR

LEMMA AbsentIsOlder ==
  ASSUME NEW o \in CR, WellFormed(o)
  PROVE  Older(Absent, o) /\ WellFormed(Absent)
  BY DEF Older, WellFormed, Absent, CR

(* Storing o with another spec, other finalizers or a deletion mark.       *)
LEMMA StoringKeeps ==
  ASSUME NEW o \in CR, WellFormed(o), o.live, NEW x \in CR,
         x.uid = o.uid, x.rv = o.rv, x.fin = o.fin, o.del => x.del
  PROVE  Keeps(o, Stored(x))
  BY DEF Keeps, Older, WellFormed, Stored, Absent, CR

LEMMA UsersKeep ==
  ASSUME NEW o \in CR, WellFormed(o)
  PROVE  /\ ~o.live => \A drop, cascade, other \in BOOLEAN : Keeps(o, Created(o, drop, cascade, other))
         /\ o.live => /\ Keeps(o, Deleted(o))
                      /\ \A drop, cascade \in BOOLEAN :
                            Keeps(o, Stored([o EXCEPT !.drop = drop, !.cascade = cascade]))
                      /\ Keeps(o, Stored([o EXCEPT !.other = FALSE]))
<1>1. ~o.live => \A drop, cascade, other \in BOOLEAN : Keeps(o, Created(o, drop, cascade, other))
  BY DEF Keeps, Older, WellFormed, Created, Absent, CR
<1>2. ASSUME o.live PROVE Keeps(o, Deleted(o))
  <2> DEFINE x == [o EXCEPT !.del = TRUE]
  <2>1. x \in CR /\ x.uid = o.uid /\ x.rv = o.rv /\ x.fin = o.fin /\ x.del
    BY DEF CR
  <2> HIDE DEF x
  <2>2. Keeps(o, Stored(x))
    BY <1>2, <2>1, StoringKeeps
  <2> QED
    BY <2>2 DEF Deleted, x
<1>3. ASSUME o.live, NEW drop \in BOOLEAN, NEW cascade \in BOOLEAN
      PROVE  Keeps(o, Stored([o EXCEPT !.drop = drop, !.cascade = cascade]))
  <2> DEFINE x == [o EXCEPT !.drop = drop, !.cascade = cascade]
  <2>1. x \in CR /\ x.uid = o.uid /\ x.rv = o.rv /\ x.fin = o.fin /\ x.del = o.del
    BY DEF CR
  <2> HIDE DEF x
  <2>2. Keeps(o, Stored(x))
    BY <1>3, <2>1, StoringKeeps
  <2> QED
    BY <2>2 DEF x
<1>4. ASSUME o.live PROVE Keeps(o, Stored([o EXCEPT !.other = FALSE]))
  <2> DEFINE x == [o EXCEPT !.other = FALSE]
  <2>1. x \in CR /\ x.uid = o.uid /\ x.rv = o.rv /\ x.fin = o.fin /\ x.del = o.del
    BY DEF CR
  <2> HIDE DEF x
  <2>2. Keeps(o, Stored(x))
    BY <1>4, <2>1, StoringKeeps
  <2> QED
    BY <2>2 DEF x
<1> QED
  BY <1>1, <1>2, <1>3, <1>4

(* Leaving a reconcile, going on to a step the CR allows, loading, and     *)
(* bringing the cache up to date.                                          *)
LEMMA ChainMoves ==
  ASSUME NEW p, NEW s \in CR, NEW c \in CR, NEW a \in CR, NEW r \in CR,
         Chain(p, s, c, a, r)
  PROVE  /\ \A t : Chain("idle", t, c, a, r)
         /\ \A q : p # "idle" /\ StepKnows(q, s) => Chain(q, s, c, a, r)
         /\ c.live => Chain("loadObj", c, c, a, r)
         /\ Chain(p, s, a, a, r)
<1>1. \A t : Chain("idle", t, c, a, r)
  BY DEF Chain
<1>2. \A q : p # "idle" /\ StepKnows(q, s) => Chain(q, s, c, a, r)
  BY DEF Chain
<1>3. c.live => Chain("loadObj", c, c, a, r)
  BY DEF Chain, Older, StepKnows, CR
<1>4. Older(a, a) /\ Older(r, a) /\ Settled(a, a, r)
  BY OlderIsTransitive DEF Chain, Settled, Older, WellFormed, CR
<1>5. p # "idle" => Older(s, a)
  BY OlderIsTransitive DEF Chain
<1> QED
  BY <1>1, <1>2, <1>3, <1>4, <1>5 DEF Chain

LEMMA ChainKept ==
  ASSUME NEW p, NEW s \in CR, NEW c \in CR, NEW a \in CR, NEW r \in CR,
         Chain(p, s, c, a, r), NEW n \in CR, Keeps(a, n)
  PROVE  Chain(p, s, c, n, r)
<1>1. Older(c, n) /\ WellFormed(n)
  BY OlderIsTransitive DEF Chain, Keeps
<1>2. n.uid = r.uid => ~n.fin
  BY DEF Chain, Keeps
<1>3. Settled(c, n, r) /\ (p # "idle" => Settled(s, n, r))
  BY DEF Chain, Keeps, Settled
<1> QED
  BY <1>1, <1>2, <1>3 DEF Chain

(* An accepted update was made from the version that is stored and cached. *)
LEMMA UpToDateIsStored ==
  ASSUME NEW p, NEW s \in CR, NEW c \in CR, NEW a \in CR, NEW r \in CR,
         Chain(p, s, c, a, r), p # "idle", UpToDate(a, s)
  PROVE  s = a /\ c = a
  BY DEF Chain, Older, UpToDate, CR

LEMMA ChainFinalizerAdded ==
  ASSUME NEW s \in CR, NEW c \in CR, NEW a \in CR, NEW r \in CR,
         Chain("ensureFinalizer", s, c, a, r), UpToDate(a, s), ~s.fin
  PROVE  Chain("idle", Absent, c, Put(a, WithFinalizer(s)), r)
<1>1. s = a /\ c = a
  BY UpToDateIsStored
<1> DEFINE x == WithFinalizer(s)
           n == Put(a, x)
<1>2. x \in CR /\ x.fin /\ x.uid = a.uid /\ x.rv = a.rv /\ x.del = a.del
  BY <1>1 DEF WithFinalizer, CR
<1>3. n = Stored(x)
  BY <1>1, <1>2 DEF Put
<1> HIDE DEF x, n
<1>4. n.fin /\ n.live /\ n.uid = a.uid /\ n.rv = a.rv + 1 /\ n.del = a.del
  <2>1. n.live
    BY <1>2, <1>3 DEF Stored, CR
  <2> QED
    BY <1>2, <1>3, <2>1 DEF Stored
<1>5. a.live /\ a.uid > r.uid
  BY <1>1 DEF Chain, StepKnows, Older, WellFormed, Absent, CR
<1>6. WellFormed(n)
  BY <1>4, <1>5 DEF WellFormed, Chain, CR
<1>7. Older(c, n)
  BY <1>1, <1>4 DEF Older, CR
<1> QED
  BY <1>1, <1>4, <1>5, <1>6, <1>7 DEF Chain, Settled, x, n, CR

LEMMA ChainReleased ==
  ASSUME NEW s \in CR, NEW c \in CR, NEW a \in CR, NEW r \in CR,
         Chain("removeFinalizer", s, c, a, r), UpToDate(a, s)
  PROVE  Chain("idle", Absent, c, Put(a, WithoutFinalizer(s)),
               IF s.fin THEN s ELSE r)
<1>1. s = a /\ c = a
  BY UpToDateIsStored
<1> DEFINE x == WithoutFinalizer(s)
           n == Put(a, x)
<1>2. CASE ~s.fin
  <2>1. x = a
    BY <1>1, <1>2 DEF WithoutFinalizer, CR
  <2> QED
    BY <1>2, <2>1, ChainMoves DEF Put
<1>3. CASE s.fin
  <2>1. x \in CR /\ ~x.fin /\ x.uid = a.uid /\ x.rv = a.rv /\ x.del = a.del
    BY <1>1 DEF WithoutFinalizer, CR
  <2>2. n = Stored(x)
    BY <1>1, <1>3, <2>1 DEF Put
  <2> HIDE DEF x
  <2>3. ~n.fin /\ n.uid = a.uid /\ n.rv = a.rv + 1 /\ n.del = a.del
    BY <2>1, <2>2 DEF Stored
  <2> HIDE DEF n
  <2>4. s.live /\ s.del /\ s.uid > 0 /\ WellFormed(c)
    BY DEF Chain, StepKnows, WellFormed
  <2>5. WellFormed(n)
    BY <1>1, <2>3, <2>4 DEF WellFormed, CR
  <2>6. Older(c, n) /\ Older(s, c)
    BY <1>1, <2>3 DEF Older, CR
  <2>7. Settled(c, n, s)
    BY <1>1 DEF Settled
  <2>8. Chain("idle", Absent, c, n, s)
    BY <1>3, <2>3, <2>4, <2>5, <2>6, <2>7 DEF Chain
  <2> QED
    BY <1>3, <2>8 DEF n, x
<1> QED
  BY <1>2, <1>3

-----------------------------------------------------------------------------
(* The chain is an invariant.                                              *)

(* The chain of key j after the step.                                      *)
ChainNext(j) == Chain(pc'[j], snap'[j], cache'[j], api'[j], released'[j])

(* A reconcile of k that only moves on, or ends.                           *)
LEMMA ChainControl ==
  ASSUME TypeOK, ChainInv, NEW k \in Db, pc[k] # "idle",
         UNCHANGED <<api, cache, released>>,
         \/ Done(k)
         \/ Backoff(k)
         \/ \E step \in Steps : Goto(k, step) /\ StepKnows(step, snap[k])
  PROVE  ChainInv'
<1> SUFFICES ASSUME NEW j \in Db PROVE ChainNext(j)
  BY DEF ChainInv, ChainNext
<1>1. /\ snap[j] \in CR /\ cache[j] \in CR /\ api[j] \in CR /\ released[j] \in CR
      /\ Chain(pc[j], snap[j], cache[j], api[j], released[j])
  BY DEF TypeOK, ChainInv
<1>2. CASE j # k
  <2>1. pc'[j] = pc[j] /\ snap'[j] = snap[j]
    BY <1>2 DEF Done, Backoff, Goto, TypeOK
  <2> QED
    BY <1>1, <2>1 DEF ChainNext
<1>3. CASE j = k /\ (Done(k) \/ Backoff(k))
  <2>1. pc'[j] = "idle"
    BY <1>3 DEF Done, Backoff, TypeOK
  <2> QED
    BY <1>1, <2>1, ChainMoves DEF ChainNext
<1>4. ASSUME j = k, NEW step \in Steps, Goto(k, step), StepKnows(step, snap[k])
      PROVE  ChainNext(j)
  <2>1. pc'[j] = step /\ snap'[j] = snap[j]
    BY <1>4 DEF Goto, TypeOK
  <2>2. Chain(step, snap[j], cache[j], api[j], released[j])
    BY <1>1, <1>4, ChainMoves
  <2> QED
    BY <2>1, <2>2 DEF ChainNext
<1> QED
  BY <1>2, <1>3, <1>4

(* A reconcile of k that ends with an accepted update.                     *)
LEMMA ChainUpdate ==
  ASSUME TypeOK, ChainInv, NEW k \in Db, Done(k) \/ Backoff(k), UNCHANGED cache,
         NEW n \in CR, NEW r \in CR, Chain("idle", Absent, cache[k], n, r),
         api' = [api EXCEPT ![k] = n], released' = [released EXCEPT ![k] = r]
  PROVE  ChainInv'
<1> SUFFICES ASSUME NEW j \in Db PROVE ChainNext(j)
  BY DEF ChainInv, ChainNext
<1>1. CASE j # k
  <2>1. /\ pc'[j] = pc[j] /\ snap'[j] = snap[j]
        /\ api'[j] = api[j] /\ released'[j] = released[j]
    BY <1>1 DEF Done, Backoff, TypeOK
  <2> QED
    BY <2>1 DEF ChainNext, ChainInv
<1>2. CASE j = k
  <2>1. /\ pc'[j] = "idle" /\ snap'[j] = Absent
        /\ api'[j] = n /\ released'[j] = r
    BY <1>2 DEF Done, Backoff, TypeOK
  <2> QED
    BY <1>2, <2>1 DEF ChainNext
<1> QED
  BY <1>1, <1>2

LEMMA ChainEnsureFinalizer ==
  ASSUME TypeOK, ChainInv, NEW k \in Db, pc[k] = "ensureFinalizer", ~snap[k].fin,
         UpToDate(api[k], snap[k]), Done(k) \/ Backoff(k), UNCHANGED <<cache, released>>,
         api' = [api EXCEPT ![k] = Put(api[k], WithFinalizer(snap[k]))]
  PROVE  ChainInv'
<1> DEFINE n == Put(api[k], WithFinalizer(snap[k]))
<1>1. /\ snap[k] \in CR /\ cache[k] \in CR /\ api[k] \in CR /\ released[k] \in CR
      /\ Chain("ensureFinalizer", snap[k], cache[k], api[k], released[k])
  BY DEF TypeOK, ChainInv
<1>2. n \in CR /\ Chain("idle", Absent, cache[k], n, released[k])
  BY <1>1, ChainFinalizerAdded, ApiValuesAreCRs
<1>3. released' = [released EXCEPT ![k] = released[k]]
  BY DEF TypeOK
<1> HIDE DEF n
<1> QED
  BY <1>1, <1>2, <1>3, ChainUpdate DEF n

LEMMA ChainRelease ==
  ASSUME TypeOK, ChainInv, NEW k \in Db, pc[k] = "removeFinalizer",
         Release(k), Done(k) \/ Backoff(k), UNCHANGED cache
  PROVE  ChainInv'
<1> DEFINE n == Put(api[k], WithoutFinalizer(snap[k]))
           r == IF snap[k].fin THEN snap[k] ELSE released[k]
<1>1. /\ snap[k] \in CR /\ cache[k] \in CR /\ api[k] \in CR /\ released[k] \in CR
      /\ Chain("removeFinalizer", snap[k], cache[k], api[k], released[k])
  BY DEF TypeOK, ChainInv
<1>2. n \in CR /\ r \in CR
  BY <1>1, ApiValuesAreCRs
<1>3. Chain("idle", Absent, cache[k], n, r)
  BY <1>1, ChainReleased DEF Release
<1>4. api' = [api EXCEPT ![k] = n] /\ released' = [released EXCEPT ![k] = r]
  BY DEF Release, TypeOK
<1> HIDE DEF n, r
<1> QED
  BY <1>2, <1>3, <1>4, ChainUpdate

(* A change of the CR k that leaves the operator's finalizer as it is.     *)
LEMMA ChainUserStep ==
  ASSUME TypeOK, ChainInv, NEW k \in Db, NEW n \in CR, Keeps(api[k], n),
         api' = [api EXCEPT ![k] = n], UNCHANGED <<pc, snap, cache, released>>
  PROVE  ChainInv'
<1> SUFFICES ASSUME NEW j \in Db PROVE ChainNext(j)
  BY DEF ChainInv, ChainNext
<1>1. /\ snap[j] \in CR /\ cache[j] \in CR /\ api[j] \in CR /\ released[j] \in CR
      /\ Chain(pc[j], snap[j], cache[j], api[j], released[j])
  BY DEF TypeOK, ChainInv
<1>2. CASE j = k
  <2>1. api'[j] = n
    BY <1>2 DEF TypeOK
  <2>2. Chain(pc[j], snap[j], cache[j], n, released[j])
    BY <1>1, <1>2, ChainKept
  <2> QED
    BY <2>1, <2>2 DEF ChainNext
<1>3. CASE j # k
  <2>1. api'[j] = api[j]
    BY <1>3 DEF TypeOK
  <2> QED
    BY <1>1, <2>1 DEF ChainNext
<1> QED
  BY <1>2, <1>3

LEMMA ChainStep == TypeOK /\ ChainInv /\ [Next]_vars => ChainInv'
<1> SUFFICES ASSUME TypeOK, ChainInv, [Next]_vars
             PROVE  ChainInv'
  OBVIOUS
<1>0. \A k \in Db : /\ snap[k] \in CR /\ cache[k] \in CR /\ api[k] \in CR
                    /\ released[k] \in CR
                    /\ Chain(pc[k], snap[k], cache[k], api[k], released[k])
  BY DEF TypeOK, ChainInv
<1>1. ASSUME NEW k \in Db, LoadCR(k) PROVE ChainInv'
  <2> SUFFICES ASSUME NEW j \in Db PROVE ChainNext(j)
    BY DEF ChainInv, ChainNext
  <2>1. CASE j = k /\ cache[k].live
    <3>1. pc'[j] = "loadObj" /\ snap'[j] = cache[j]
      BY <1>1, <2>1 DEF LoadCR, TypeOK
    <3>2. Chain("loadObj", cache[j], cache[j], api[j], released[j])
      BY <1>0, <2>1, ChainMoves
    <3> QED
      BY <1>1, <3>1, <3>2 DEF LoadCR, ChainNext
  <2>2. CASE ~(j = k /\ cache[k].live)
    <3>1. pc'[j] = pc[j] /\ snap'[j] = snap[j]
      BY <1>1, <2>2 DEF LoadCR, TypeOK
    <3> QED
      BY <1>0, <1>1, <3>1 DEF LoadCR, ChainNext
  <2> QED
    BY <2>1, <2>2
<1>2. ASSUME NEW k \in Db, LoadObj(k) PROVE ChainInv'
  <2>1. (serverSeen /\ DbName[k] \in dbs) \in BOOLEAN /\ serverSeen \in BOOLEAN
    BY DEF TypeOK
  <2>2. \/ Done(k)
        \/ Backoff(k)
        \/ Goto(k, "ensureFinalizer") /\ ~snap[k].del
        \/ Goto(k, "createObj") /\ ~snap[k].del
        \/ Goto(k, "removeObj") /\ snap[k].del /\ snap[k].fin
        \/ Goto(k, "removeFinalizer") /\ snap[k].del
    BY <1>2, <2>1, ContinueResult DEF LoadObj
  <2>3. Done(k) \/ Backoff(k)
          \/ \E step \in Steps : Goto(k, step) /\ StepKnows(step, snap[k])
    BY <2>2 DEF StepKnows, Steps
  <2> QED
    BY <1>2, <2>3, ChainControl DEF LoadObj
<1>3. ASSUME NEW k \in Db, LoadObjFails(k) PROVE ChainInv'
  BY <1>3, ChainControl DEF LoadObjFails
<1>4. ASSUME NEW k \in Db, CreateObj(k) PROVE ChainInv'
  <2>1. StepKnows("notifyCreated", snap[k])
    BY <1>0, <1>4 DEF CreateObj, Chain, StepKnows
  <2> QED
    BY <1>4, <2>1, ChainControl DEF CreateObj, Steps
<1>5. ASSUME NEW k \in Db, CreateObjFails(k) PROVE ChainInv'
  BY <1>5, ChainControl DEF CreateObjFails
<1>6. ASSUME NEW k \in Db, NotifyChanges(k) PROVE ChainInv'
  <2>1. CASE pc[k] = "notifyCreated"
    <3>1. Goto(k, "ensureFinalizer") /\ StepKnows("ensureFinalizer", snap[k])
      BY <1>0, <1>6, <2>1 DEF NotifyChanges, Chain, StepKnows
    <3> QED
      BY <1>6, <3>1, ChainControl DEF NotifyChanges, Steps
  <2>2. CASE pc[k] = "notifyRemoved"
    <3>1. Goto(k, "removeFinalizer") /\ StepKnows("removeFinalizer", snap[k])
      BY <1>0, <1>6, <2>2 DEF NotifyChanges, Chain, StepKnows
    <3> QED
      BY <1>6, <3>1, ChainControl DEF NotifyChanges, Steps
  <2> QED
    BY <1>6, <2>1, <2>2 DEF NotifyChanges
<1>7. ASSUME NEW k \in Db, EnsureFinalizer(k) PROVE ChainInv'
  <2>1. CASE UNCHANGED api
    BY <1>7, <2>1, ChainControl DEF EnsureFinalizer
  <2>2. CASE /\ ~snap[k].fin /\ UpToDate(api[k], snap[k])
             /\ api' = [api EXCEPT ![k] = Put(api[k], WithFinalizer(snap[k]))]
             /\ Done(k)
    BY <1>7, <2>2, ChainEnsureFinalizer DEF EnsureFinalizer
  <2> QED
    BY <1>7, <2>1, <2>2 DEF EnsureFinalizer
<1>8. ASSUME NEW k \in Db, EnsureFinalizerFails(k) PROVE ChainInv'
  <2>1. CASE UNCHANGED api
    BY <1>8, <2>1, ChainControl DEF EnsureFinalizerFails
  <2>2. CASE /\ UpToDate(api[k], snap[k])
             /\ api' = [api EXCEPT ![k] = Put(api[k], WithFinalizer(snap[k]))]
    BY <1>8, <2>2, ChainEnsureFinalizer DEF EnsureFinalizerFails
  <2> QED
    BY <1>8, <2>1, <2>2 DEF EnsureFinalizerFails
<1>9. ASSUME NEW k \in Db, RemoveObj(k) PROVE ChainInv'
  <2>1. StepKnows("notifyRemoved", snap[k])
    BY <1>0, <1>9 DEF RemoveObj, Chain, StepKnows
  <2> QED
    BY <1>9, <2>1, ChainControl DEF RemoveObj, Steps
<1>10. ASSUME NEW k \in Db, RemoveObjFails(k) PROVE ChainInv'
  BY <1>10, ChainControl DEF RemoveObjFails
<1>18. ASSUME NEW k \in Db, RemoveObjRefused(k) PROVE ChainInv'
  BY <1>18, ChainControl DEF RemoveObjRefused
<1>11. ASSUME NEW k \in Db, RemoveFinalizer(k) PROVE ChainInv'
  <2>1. CASE UNCHANGED <<api, released>> /\ Backoff(k)
    BY <1>11, <2>1, ChainControl DEF RemoveFinalizer
  <2>2. CASE Release(k) /\ Done(k)
    BY <1>11, <2>2, ChainRelease DEF RemoveFinalizer
  <2> QED
    BY <1>11, <2>1, <2>2 DEF RemoveFinalizer
<1>12. ASSUME NEW k \in Db, RemoveFinalizerFails(k) PROVE ChainInv'
  <2>1. CASE UNCHANGED <<api, released>>
    BY <1>12, <2>1, ChainControl DEF RemoveFinalizerFails
  <2>2. CASE Release(k)
    BY <1>12, <2>2, ChainRelease DEF RemoveFinalizerFails
  <2> QED
    BY <1>12, <2>1, <2>2 DEF RemoveFinalizerFails
<1>13. ASSUME NEW k \in Db, Environment(k) PROVE ChainInv'
  <2>1. /\ ~api[k].live => \A drop, cascade, other \in BOOLEAN :
                             /\ Created(api[k], drop, cascade, other) \in CR
                             /\ Keeps(api[k], Created(api[k], drop, cascade, other))
        /\ Deleted(api[k]) \in CR
        /\ \A drop, cascade \in BOOLEAN :
              Stored([api[k] EXCEPT !.drop = drop, !.cascade = cascade]) \in CR
        /\ Stored([api[k] EXCEPT !.other = FALSE]) \in CR
        /\ api[k].live => /\ Keeps(api[k], Deleted(api[k]))
                          /\ \A drop, cascade \in BOOLEAN :
                                Keeps(api[k], Stored([api[k] EXCEPT !.drop = drop,
                                                                    !.cascade = cascade]))
                          /\ Keeps(api[k], Stored([api[k] EXCEPT !.other = FALSE]))
    BY <1>0, UsersKeep, ApiValuesAreCRs DEF Chain
  <2>2. CASE UserCreates(k)
    BY <2>1, <2>2, ChainUserStep, FlagAssumption DEF UserCreates
  <2>3. CASE UserDeletes(k)
    BY <2>1, <2>3, ChainUserStep DEF UserDeletes
  <2>4. CASE UserEdits(k)
    BY <2>1, <2>4, ChainUserStep, FlagAssumption DEF UserEdits
  <2>5. CASE OtherFinalizerGoes(k)
    BY <2>1, <2>5, ChainUserStep DEF OtherFinalizerGoes
  <2>6. CASE WatchEvent(k)
    <3> SUFFICES ASSUME NEW j \in Db PROVE ChainNext(j)
      BY DEF ChainInv, ChainNext
    <3>1. CASE j = k
      <4>1. cache'[j] = api[j]
        BY <2>6, <3>1 DEF WatchEvent, TypeOK
      <4>2. Chain(pc[j], snap[j], api[j], api[j], released[j])
        BY <1>0, ChainMoves
      <4> QED
        BY <2>6, <4>1, <4>2 DEF WatchEvent, ChainNext
    <3>2. CASE j # k
      <4>1. cache'[j] = cache[j]
        BY <2>6, <3>2 DEF WatchEvent, TypeOK
      <4> QED
        BY <1>0, <2>6, <4>1 DEF WatchEvent, ChainNext
    <3> QED
      BY <3>1, <3>2
  <2>7. CASE Resync(k)
    BY <2>7 DEF Resync, ChainInv
  <2> QED
    BY <1>13, <2>2, <2>3, <2>4, <2>5, <2>6, <2>7 DEF Environment
<1>14. CASE DbServerSide
  BY <1>14 DEF DbServerSide, ChainInv
<1>16. CASE Restart
  <2> SUFFICES ASSUME NEW j \in Db PROVE ChainNext(j)
    BY DEF ChainInv, ChainNext
  <2>1. /\ pc'[j] = "idle" /\ snap'[j] = Absent /\ cache'[j] = api[j]
        /\ api'[j] = api[j] /\ released'[j] = released[j]
    BY <1>16 DEF Restart
  <2>2. Chain(pc[j], snap[j], api[j], api[j], released[j])
    BY <1>0, ChainMoves
  <2>3. Chain("idle", Absent, api[j], api[j], released[j])
    BY <1>0, <2>2, ChainMoves
  <2> QED
    BY <2>1, <2>3 DEF ChainNext
<1>17. CASE UNCHANGED vars
  BY <1>17 DEF ChainInv, vars
<1> QED
  BY <1>1, <1>2, <1>3, <1>4, <1>5, <1>6, <1>7, <1>8, <1>9, <1>10, <1>11, <1>12,
     <1>13, <1>14, <1>16, <1>17, <1>18 DEF Next, Reconcile

(* The chain of versions is an invariant.                                  *)
THEOREM ChainInvariant == Spec => [](TypeOK /\ ChainInv)
<1>1. Init => ChainInv
  BY DEF Init, ChainInv, Chain, WellFormed, Older, Settled, Absent
<1> QED
  BY <1>1, TypeCorrect, ChainStep, PTL DEF Spec

-----------------------------------------------------------------------------
(* Databases are made and dropped only for CRs that ask for it.            *)

(* The set of databases changes only in CreateObj and RemoveObj.           *)
LEMMA DbsChange ==
  ASSUME TypeOK, [Next]_vars
  PROVE  \/ UNCHANGED dbs
         \/ \E k \in Db : pc[k] = "createObj" /\ dbs' = dbs \cup {DbName[k]}
         \/ \E k \in Db : /\ pc[k] = "removeObj" /\ snap[k].drop
                          /\ dbs' = dbs \ {DbName[k]}
<1>1. ASSUME NEW k \in Db, CreateObj(k) \/ CreateObjFails(k)
      PROVE  UNCHANGED dbs \/ (pc[k] = "createObj" /\ dbs' = dbs \cup {DbName[k]})
  BY <1>1 DEF CreateObj, CreateObjFails
<1>2. ASSUME NEW k \in Db, RemoveObj(k) \/ RemoveObjFails(k)
      PROVE  UNCHANGED dbs \/ (/\ pc[k] = "removeObj" /\ snap[k].drop
                               /\ dbs' = dbs \ {DbName[k]})
  BY <1>2 DEF RemoveObj, RemoveObjFails
<1>3. ASSUME NEW k \in Db,
             \/ LoadCR(k) \/ LoadObj(k) \/ LoadObjFails(k) \/ NotifyChanges(k)
             \/ RemoveObjRefused(k) \/ EnsureFinalizer(k) \/ EnsureFinalizerFails(k)
             \/ RemoveFinalizer(k) \/ RemoveFinalizerFails(k)
      PROVE  UNCHANGED dbs
  BY <1>3 DEF LoadCR, LoadObj, LoadObjFails, NotifyChanges, EnsureFinalizer,
              EnsureFinalizerFails, RemoveObjRefused, RemoveFinalizer, RemoveFinalizerFails
<1>4. ASSUME NEW k \in Db, Environment(k) PROVE UNCHANGED dbs
  BY <1>4 DEF Environment, UserCreates, UserDeletes, UserEdits, OtherFinalizerGoes,
              WatchEvent, Resync
<1>5. CASE DbServerSide \/ Restart \/ UNCHANGED vars
  BY <1>5 DEF DbServerSide, Restart, vars
<1> QED
  BY <1>1, <1>2, <1>3, <1>4, <1>5 DEF Next, Reconcile

(* Whoever is about to create works for an incarnation newer than the last *)
(* one released.                                                           *)
LEMMA CreatorIsNewer ==
  ASSUME NEW s \in CR, NEW c \in CR, NEW a \in CR, NEW r \in CR,
         Chain("createObj", s, c, a, r)
  PROVE  s.uid > r.uid /\ c.uid >= s.uid /\ a.uid >= s.uid
  BY DEF Chain, StepKnows, Older, WellFormed, Absent, CR

(* Whoever is about to drop works for the version released last, or for a  *)
(* CR that is still stored with its deletion mark and finalizer.           *)
LEMMA RemoverIsCondemned ==
  ASSUME NEW s \in CR, NEW c \in CR, NEW a \in CR, NEW r \in CR,
         Chain("removeObj", s, c, a, r)
  PROVE  \/ s = r /\ r.del
         \/ s.uid # r.uid /\ a.uid = s.uid /\ a.live /\ a.del /\ a.fin
<1>1. s.del /\ s.fin /\ Settled(s, a, r) /\ Older(s, a)
  BY OlderIsTransitive DEF Chain, StepKnows
<1> QED
  BY <1>1 DEF Settled, Older

(* No database is made for an incarnation the operator has finalised, with *)
(* any number of CRs, shared names and a DbServer that comes and goes.     *)
THEOREM NeverRecreatedHolds == Spec => NeverRecreated
<1>1. ASSUME TypeOK, ChainInv, [Next]_vars
      PROVE  \A d \in dbs' \ dbs : \E k \in Db :
                 DbName[k] = d /\ api[k].uid > released[k].uid
  <2> SUFFICES ASSUME NEW d \in dbs' \ dbs
               PROVE  \E k \in Db : DbName[k] = d /\ api[k].uid > released[k].uid
    OBVIOUS
  <2>1. PICK k \in Db : pc[k] = "createObj" /\ dbs' = dbs \cup {DbName[k]}
    BY <1>1, DbsChange
  <2>2. /\ snap[k] \in CR /\ cache[k] \in CR /\ api[k] \in CR /\ released[k] \in CR
        /\ Chain("createObj", snap[k], cache[k], api[k], released[k])
    BY <1>1, <2>1 DEF TypeOK, ChainInv
  <2>3. api[k].uid > released[k].uid
    BY <2>2, CreatorIsNewer DEF CR
  <2> QED
    BY <2>1, <2>3
<1> QED
  BY <1>1, ChainInvariant, PTL DEF Spec, NeverRecreated

(* Every drop answers a deletion, under the same conditions.               *)
THEOREM DropsAnswerDeletionsHolds == Spec => DropsAnswerDeletions
<1>1. ASSUME TypeOK, ChainInv, [Next]_vars
      PROVE  \A d \in dbs \ dbs' : \E k \in Db :
                 /\ DbName[k] = d
                 /\ (api[k].live /\ api[k].del) \/ (released[k].del /\ released[k].drop)
  <2> SUFFICES ASSUME NEW d \in dbs \ dbs'
               PROVE  \E k \in Db :
                        /\ DbName[k] = d
                        /\ (api[k].live /\ api[k].del) \/ (released[k].del /\ released[k].drop)
    OBVIOUS
  <2>1. PICK k \in Db : /\ pc[k] = "removeObj" /\ snap[k].drop
                        /\ dbs' = dbs \ {DbName[k]}
    BY <1>1, DbsChange
  <2>2. /\ snap[k] \in CR /\ cache[k] \in CR /\ api[k] \in CR /\ released[k] \in CR
        /\ Chain("removeObj", snap[k], cache[k], api[k], released[k])
    BY <1>1, <2>1 DEF TypeOK, ChainInv
  <2>3. (api[k].live /\ api[k].del) \/ (released[k].del /\ released[k].drop)
    BY <2>1, <2>2, RemoverIsCondemned
  <2> QED
    BY <2>1, <2>3
<1> QED
  BY <1>1, ChainInvariant, PTL DEF Spec, DropsAnswerDeletions

-----------------------------------------------------------------------------
(* While the DbServer stays and no name is shared, the databases track the *)
(* CRs.                                                                    *)

TracksNext(j) ==
    Tracks(pc'[j], snap'[j], cache'[j], api'[j], released'[j], DbName[j], dbs')

(* A step that touches nothing but the key k and its database.             *)
LEMMA TracksOneKey ==
  ASSUME DistinctNames, TypeOK, TracksInv, serverSeen', NEW k \in Db,
         \A j \in Db \ {k} :
             /\ pc'[j] = pc[j] /\ snap'[j] = snap[j] /\ cache'[j] = cache[j]
             /\ api'[j] = api[j] /\ released'[j] = released[j],
         \A d \in DbNames \ {DbName[k]} : d \in dbs' <=> d \in dbs,
         TracksNext(k)
  PROVE  TracksInv'
<1> SUFFICES ASSUME NEW j \in Db PROVE TracksNext(j)
  BY DEF TracksInv, TracksNext
<1>1. CASE j # k
  <2>1. DbName[j] \in dbs' <=> DbName[j] \in dbs
    BY <1>1, DbAssumption DEF DistinctNames
  <2>2. Tracks(pc[j], snap[j], cache[j], api[j], released[j], DbName[j], dbs)
    BY DEF TracksInv
  <2> QED
    BY <1>1, <2>1, <2>2 DEF TracksNext, Tracks
<1> QED
  BY <1>1

(* The moves of one key.                                                   *)
LEMMA TracksMoves ==
  ASSUME NEW p, NEW s \in CR, NEW c \in CR, NEW a \in CR, NEW r \in CR,
         NEW d, NEW D, Chain(p, s, c, a, r), Tracks(p, s, c, a, r, d, D)
  PROVE  /\ \A t : Tracks("idle", t, c, a, r, d, D)
         /\ Tracks("loadObj", c, c, a, r, d, D)
         /\ Tracks(p, s, a, a, r, d, D)
         /\ \A n \in CR : Keeps(a, n) => Tracks(p, s, c, n, r, d, D)
<1>1. (\A t : Tracks("idle", t, c, a, r, d, D)) /\ Tracks("loadObj", c, c, a, r, d, D)
  BY DEF Tracks
<1>2. a.uid = r.uid => c.uid = r.uid
  BY DEF Chain, Older, CR
<1>3. ASSUME NEW n \in CR, Keeps(a, n) PROVE Tracks(p, s, c, n, r, d, D)
  <2>1. n.live /\ ~n.del /\ n.fin => a.live /\ ~a.del /\ a.fin
    BY <1>3 DEF Keeps, Chain, WellFormed, Older
  <2> QED
    BY <2>1 DEF Tracks
<1> QED
  BY <1>1, <1>2, <1>3 DEF Tracks

(* Creating and dropping the database of one key.                          *)
LEMMA TracksCreate ==
  ASSUME NEW s \in CR, NEW c \in CR, NEW a \in CR, NEW r \in CR, NEW d, NEW D,
         Chain("createObj", s, c, a, r), Tracks("createObj", s, c, a, r, d, D)
  PROVE  /\ Tracks("notifyCreated", s, c, a, r, d, D \cup {d})
         /\ Tracks("idle", Absent, c, a, r, d, D \cup {d})
<1>1. s.uid # r.uid /\ c.uid # r.uid
  BY CreatorIsNewer DEF CR
<1> QED
  BY <1>1 DEF Tracks

LEMMA TracksDrop ==
  ASSUME NEW s \in CR, NEW c \in CR, NEW a \in CR, NEW r \in CR, NEW d, NEW D,
         Chain("removeObj", s, c, a, r), Tracks("removeObj", s, c, a, r, d, D), s.drop
  PROVE  /\ a.live /\ a.del /\ a.fin
         /\ Tracks("notifyRemoved", s, c, a, r, d, D \ {d})
         /\ Tracks("idle", Absent, c, a, r, d, D \ {d})
<1>1. a.live /\ a.del /\ a.fin
  BY RemoverIsCondemned DEF Tracks
<1> QED
  BY <1>1 DEF Tracks

(* Adding and removing the finalizer of one key.                           *)
LEMMA TracksEnsureFinalizer ==
  ASSUME NEW s, NEW c, NEW a, NEW r, NEW d, NEW D, NEW n,
         Tracks("ensureFinalizer", s, c, a, r, d, D)
  PROVE  Tracks("idle", Absent, c, n, r, d, D)
  BY DEF Tracks

LEMMA TracksRelease ==
  ASSUME NEW s \in CR, NEW c \in CR, NEW a \in CR, NEW r \in CR, NEW d, NEW D,
         Chain("removeFinalizer", s, c, a, r), Tracks("removeFinalizer", s, c, a, r, d, D),
         UpToDate(a, s)
  PROVE  Tracks("idle", Absent, c, Put(a, WithoutFinalizer(s)), IF s.fin THEN s ELSE r, d, D)
<1>1. s = a
  BY UpToDateIsStored
<1>2. CASE ~s.fin
  <2>1. WithoutFinalizer(s) = a
    BY <1>1, <1>2 DEF WithoutFinalizer, CR
  <2> QED
    BY <1>2, <2>1 DEF Put, Tracks
<1>3. CASE s.fin
  <2>1. ~Put(a, WithoutFinalizer(s)).fin
    BY <1>1, <1>3 DEF Put, WithoutFinalizer, Stored, CR
  <2> QED
    BY <1>3, <2>1 DEF Tracks
<1> QED
  BY <1>2, <1>3

(* A reconcile of k that leaves the CRs alone.                             *)
LEMMA TracksControl ==
  ASSUME DistinctNames, TypeOK, TracksInv, NEW k \in Db, NEW p, NEW s,
         pc' = [pc EXCEPT ![k] = p], snap' = [snap EXCEPT ![k] = s],
         UNCHANGED <<cache, api, released, serverSeen>>,
         \A d \in DbNames \ {DbName[k]} : d \in dbs' <=> d \in dbs,
         Tracks(p, s, cache[k], api[k], released[k], DbName[k], dbs')
  PROVE  TracksInv'
<1>1. \A j \in Db \ {k} :
          /\ pc'[j] = pc[j] /\ snap'[j] = snap[j] /\ cache'[j] = cache[j]
          /\ api'[j] = api[j] /\ released'[j] = released[j]
  BY DEF TypeOK
<1>2. TracksNext(k) /\ serverSeen'
  BY DEF TypeOK, TracksNext, TracksInv
<1> QED
  BY <1>1, <1>2, TracksOneKey

(* Ending a reconcile of k without having changed anything.                *)
LEMMA TracksEnd ==
  ASSUME DistinctNames, TypeOK, ChainInv, TracksInv, NEW k \in Db,
         Done(k) \/ Backoff(k), UNCHANGED <<cache, api, released, serverSeen, dbs>>
  PROVE  TracksInv'
<1>1. /\ snap[k] \in CR /\ cache[k] \in CR /\ api[k] \in CR /\ released[k] \in CR
      /\ Chain(pc[k], snap[k], cache[k], api[k], released[k])
      /\ Tracks(pc[k], snap[k], cache[k], api[k], released[k], DbName[k], dbs)
  BY DEF TypeOK, ChainInv, TracksInv
<1>2. pc' = [pc EXCEPT ![k] = "idle"] /\ snap' = [snap EXCEPT ![k] = Absent]
  BY DEF Done, Backoff
<1>3. Tracks("idle", Absent, cache[k], api[k], released[k], DbName[k], dbs)
  BY <1>1, TracksMoves
<1> QED
  BY <1>2, <1>3, TracksControl

(* Going on to another step without having changed anything.               *)
LEMMA TracksGoto ==
  ASSUME DistinctNames, TypeOK, TracksInv, NEW k \in Db, NEW p, Goto(k, p),
         UNCHANGED <<cache, api, released, serverSeen, dbs>>, pc[k] # "idle",
         p \in {"notifyCreated", "ensureFinalizer", "removeObj"} => DbName[k] \in dbs,
         p \in {"notifyRemoved", "removeFinalizer"} /\ snap[k].fin /\ snap[k].drop
             => DbName[k] \notin dbs
  PROVE  TracksInv'
<1>1. pc' = [pc EXCEPT ![k] = p] /\ snap' = [snap EXCEPT ![k] = snap[k]]
  BY DEF Goto, TypeOK
<1>2. Tracks(pc[k], snap[k], cache[k], api[k], released[k], DbName[k], dbs)
  BY DEF TracksInv
<1>3. Tracks(p, snap[k], cache[k], api[k], released[k], DbName[k], dbs)
  BY <1>2 DEF Tracks
<1> QED
  BY <1>1, <1>3, TracksControl

(* Ending a reconcile of k with an accepted update.                        *)
LEMMA TracksUpdate ==
  ASSUME DistinctNames, TypeOK, TracksInv, NEW k \in Db, Done(k) \/ Backoff(k),
         UNCHANGED <<cache, serverSeen, dbs>>, NEW n, NEW r,
         api' = [api EXCEPT ![k] = n], released' = [released EXCEPT ![k] = r],
         Tracks("idle", Absent, cache[k], n, r, DbName[k], dbs)
  PROVE  TracksInv'
<1>1. \A j \in Db \ {k} :
          /\ pc'[j] = pc[j] /\ snap'[j] = snap[j] /\ cache'[j] = cache[j]
          /\ api'[j] = api[j] /\ released'[j] = released[j]
  BY DEF TypeOK, Done, Backoff
<1>2. TracksNext(k) /\ serverSeen'
  BY DEF TypeOK, TracksNext, TracksInv, Done, Backoff
<1> QED
  BY <1>1, <1>2, TracksOneKey

(* A change of the CR k or of its cached version.                          *)
LEMMA TracksOutside ==
  ASSUME DistinctNames, TypeOK, TracksInv, NEW k \in Db, NEW c, NEW a,
         UNCHANGED <<pc, snap, released, serverSeen, dbs>>,
         cache' = [cache EXCEPT ![k] = c], api' = [api EXCEPT ![k] = a],
         Tracks(pc[k], snap[k], c, a, released[k], DbName[k], dbs)
  PROVE  TracksInv'
<1>1. \A j \in Db \ {k} :
          /\ pc'[j] = pc[j] /\ snap'[j] = snap[j] /\ cache'[j] = cache[j]
          /\ api'[j] = api[j] /\ released'[j] = released[j]
  BY DEF TypeOK
<1>2. TracksNext(k) /\ serverSeen'
  BY DEF TypeOK, TracksNext, TracksInv
<1> QED
  BY <1>1, <1>2, TracksOneKey

LEMMA TracksStep ==
  ASSUME Undisturbed, TypeOK, ChainInv, TracksInv, [Next]_vars
  PROVE  TracksInv'
<1> USE DEF Undisturbed
<1>0. \A k \in Db :
        /\ snap[k] \in CR /\ cache[k] \in CR /\ api[k] \in CR /\ released[k] \in CR
        /\ Chain(pc[k], snap[k], cache[k], api[k], released[k])
        /\ Tracks(pc[k], snap[k], cache[k], api[k], released[k], DbName[k], dbs)
  BY DEF TypeOK, ChainInv, TracksInv
<1>1. ASSUME NEW k \in Db, LoadCR(k) PROVE TracksInv'
  <2>1. CASE cache[k].live
    <3>1. Tracks("loadObj", cache[k], cache[k], api[k], released[k], DbName[k], dbs)
      BY <1>0, TracksMoves
    <3> QED
      BY <1>1, <2>1, <3>1, TracksControl DEF LoadCR
  <2>2. CASE ~cache[k].live
    BY <1>1, <2>2 DEF LoadCR, TracksInv
  <2> QED
    BY <2>1, <2>2
<1>2. ASSUME NEW k \in Db, LoadObj(k) PROVE TracksInv'
  <2>1. serverSeen = TRUE /\ pc[k] = "loadObj"
    BY <1>2 DEF TracksInv, TypeOK, LoadObj
  <2>2. /\ (serverSeen /\ DbName[k] \in dbs) \in BOOLEAN
        /\ Continue(k, serverSeen /\ DbName[k] \in dbs, serverSeen)
    BY <1>2, <2>1 DEF LoadObj
  <2>3. \/ Done(k)
        \/ Backoff(k)
        \/ Goto(k, "ensureFinalizer") /\ DbName[k] \in dbs
        \/ Goto(k, "createObj")
        \/ Goto(k, "removeObj") /\ DbName[k] \in dbs
        \/ Goto(k, "removeFinalizer") /\ DbName[k] \notin dbs
    BY <2>1, <2>2, ContinueResult
  <2> QED
    BY <1>2, <2>1, <2>3, TracksEnd, TracksGoto DEF LoadObj
<1>3. ASSUME NEW k \in Db, LoadObjFails(k) PROVE TracksInv'
  BY <1>3, TracksEnd DEF LoadObjFails
<1>4. ASSUME NEW k \in Db, CreateObj(k) PROVE TracksInv'
  <2>1. Tracks("notifyCreated", snap[k], cache[k], api[k], released[k],
               DbName[k], dbs \cup {DbName[k]})
    BY <1>0, <1>4, TracksCreate DEF CreateObj
  <2>3. /\ pc' = [pc EXCEPT ![k] = "notifyCreated"]
        /\ snap' = [snap EXCEPT ![k] = snap[k]]
    BY <1>4 DEF CreateObj, Goto, TypeOK
  <2>4. \A d \in DbNames \ {DbName[k]} : d \in dbs' <=> d \in dbs
    BY <1>4 DEF CreateObj
  <2> QED
    BY <1>4, <2>1, <2>3, <2>4, TracksControl DEF CreateObj
<1>5. ASSUME NEW k \in Db, CreateObjFails(k) PROVE TracksInv'
  <2>1. CASE UNCHANGED dbs
    BY <1>5, <2>1, TracksEnd DEF CreateObjFails
  <2>2. CASE dbs' = dbs \cup {DbName[k]}
    <3>1. pc[k] = "createObj"
      BY <1>5 DEF CreateObjFails
    <3>2. Tracks("idle", Absent, cache[k], api[k], released[k],
                 DbName[k], dbs \cup {DbName[k]})
      BY <1>0, <3>1, TracksCreate
    <3> QED
      BY <1>5, <2>2, <3>2, TracksControl DEF CreateObjFails, Backoff
  <2> QED
    BY <1>5, <2>1, <2>2 DEF CreateObjFails
<1>6. ASSUME NEW k \in Db, NotifyChanges(k) PROVE TracksInv'
  <2>1. CASE pc[k] = "notifyCreated"
    BY <1>0, <1>6, <2>1, TracksGoto DEF NotifyChanges, Tracks
  <2>2. CASE pc[k] = "notifyRemoved"
    BY <1>0, <1>6, <2>2, TracksGoto DEF NotifyChanges, Tracks
  <2> QED
    BY <1>6, <2>1, <2>2 DEF NotifyChanges
<1>7. ASSUME NEW k \in Db, EnsureFinalizer(k) \/ EnsureFinalizerFails(k)
      PROVE  TracksInv'
  <2>1. CASE UNCHANGED api
    BY <1>7, <2>1, TracksEnd DEF EnsureFinalizer, EnsureFinalizerFails
  <2>2. CASE api' = [api EXCEPT ![k] = Put(api[k], WithFinalizer(snap[k]))]
    <3>1. Tracks("ensureFinalizer", snap[k], cache[k], api[k], released[k],
                 DbName[k], dbs)
      BY <1>0, <1>7 DEF EnsureFinalizer, EnsureFinalizerFails
    <3>2. Tracks("idle", Absent, cache[k], Put(api[k], WithFinalizer(snap[k])),
                 released[k], DbName[k], dbs)
      BY <1>0, <3>1, TracksEnsureFinalizer
    <3>3. released' = [released EXCEPT ![k] = released[k]]
      BY <1>7 DEF EnsureFinalizer, EnsureFinalizerFails, TypeOK
    <3> QED
      BY <1>7, <2>2, <3>2, <3>3, TracksUpdate DEF EnsureFinalizer, EnsureFinalizerFails
  <2> QED
    BY <1>7, <2>1, <2>2 DEF EnsureFinalizer, EnsureFinalizerFails
<1>8. ASSUME NEW k \in Db, RemoveObj(k) PROVE TracksInv'
  <2>1. /\ pc' = [pc EXCEPT ![k] = "notifyRemoved"]
        /\ snap' = [snap EXCEPT ![k] = snap[k]]
    BY <1>8 DEF RemoveObj, Goto, TypeOK
  <2>2. CASE snap[k].drop
    <3>1. Tracks("notifyRemoved", snap[k], cache[k], api[k], released[k],
               DbName[k], dbs \ {DbName[k]})
      BY <1>0, <1>8, <2>2, TracksDrop DEF RemoveObj
    <3>2. dbs' = dbs \ {DbName[k]}
      BY <1>8, <2>2 DEF RemoveObj
    <3>3. \A d \in DbNames \ {DbName[k]} : d \in dbs' <=> d \in dbs
      BY <1>8 DEF RemoveObj
    <3> QED
      BY <1>8, <2>1, <3>1, <3>2, <3>3, TracksControl DEF RemoveObj
  <2>3. CASE ~snap[k].drop
    BY <1>8, <2>3, TracksGoto DEF RemoveObj
  <2> QED
    BY <2>2, <2>3
<1>9. ASSUME NEW k \in Db, RemoveObjFails(k) PROVE TracksInv'
  <2>1. CASE UNCHANGED dbs
    BY <1>9, <2>1, TracksEnd DEF RemoveObjFails
  <2>2. CASE dbs' = dbs \ {DbName[k]}
    <3>1. Tracks("idle", Absent, cache[k], api[k], released[k],
               DbName[k], dbs \ {DbName[k]})
      BY <1>0, <1>9, TracksDrop DEF RemoveObjFails
    <3> QED
      BY <1>9, <2>2, <3>1, TracksControl DEF RemoveObjFails, Backoff
  <2> QED
    BY <1>9, <2>1, <2>2 DEF RemoveObjFails
<1>16. ASSUME NEW k \in Db, RemoveObjRefused(k) PROVE TracksInv'
  BY <1>16, TracksEnd DEF RemoveObjRefused
<1>10. ASSUME NEW k \in Db, RemoveFinalizer(k) \/ RemoveFinalizerFails(k)
       PROVE  TracksInv'
  <2>1. CASE UNCHANGED <<api, released>>
    BY <1>10, <2>1, TracksEnd DEF RemoveFinalizer, RemoveFinalizerFails
  <2>2. CASE Release(k)
    <3> DEFINE n == Put(api[k], WithoutFinalizer(snap[k]))
               r == IF snap[k].fin THEN snap[k] ELSE released[k]
    <3>1. api' = [api EXCEPT ![k] = n] /\ released' = [released EXCEPT ![k] = r]
      BY <2>2 DEF Release, TypeOK
    <3>2. Tracks("idle", Absent, cache[k], n, r, DbName[k], dbs)
      BY <1>0, <1>10, <2>2, TracksRelease
         DEF RemoveFinalizer, RemoveFinalizerFails, Release
    <3> HIDE DEF n, r
    <3> QED
      BY <1>10, <3>1, <3>2, TracksUpdate DEF RemoveFinalizer, RemoveFinalizerFails
  <2> QED
    BY <1>10, <2>1, <2>2 DEF RemoveFinalizer, RemoveFinalizerFails
<1>11. ASSUME NEW k \in Db, Environment(k) PROVE TracksInv'
  <2>1. /\ cache = [cache EXCEPT ![k] = cache[k]]
        /\ api = [api EXCEPT ![k] = api[k]]
    BY DEF TypeOK
  <2>2. ASSUME NEW n \in CR, Keeps(api[k], n), api' = [api EXCEPT ![k] = n],
               UNCHANGED <<pc, snap, cache, released, serverSeen, dbs>>
        PROVE  TracksInv'
    <3>1. Tracks(pc[k], snap[k], cache[k], n, released[k], DbName[k], dbs)
      BY <1>0, <2>2, TracksMoves
    <3> QED
      BY <2>1, <2>2, <3>1, TracksOutside
  <2>3. /\ ~api[k].live => \A drop, cascade, other \in BOOLEAN :
                             /\ Created(api[k], drop, cascade, other) \in CR
                             /\ Keeps(api[k], Created(api[k], drop, cascade, other))
        /\ Deleted(api[k]) \in CR
        /\ \A drop, cascade \in BOOLEAN :
              Stored([api[k] EXCEPT !.drop = drop, !.cascade = cascade]) \in CR
        /\ Stored([api[k] EXCEPT !.other = FALSE]) \in CR
        /\ api[k].live => /\ Keeps(api[k], Deleted(api[k]))
                          /\ \A drop, cascade \in BOOLEAN :
                                Keeps(api[k], Stored([api[k] EXCEPT !.drop = drop,
                                                                    !.cascade = cascade]))
                          /\ Keeps(api[k], Stored([api[k] EXCEPT !.other = FALSE]))
    BY <1>0, UsersKeep, ApiValuesAreCRs DEF Chain
  <2>4. CASE UserCreates(k)
    BY <2>2, <2>3, <2>4, FlagAssumption DEF UserCreates
  <2>5. CASE UserDeletes(k)
    BY <2>2, <2>3, <2>5 DEF UserDeletes
  <2>6. CASE UserEdits(k)
    BY <2>2, <2>3, <2>6, FlagAssumption DEF UserEdits
  <2>7. CASE OtherFinalizerGoes(k)
    BY <2>2, <2>3, <2>7 DEF OtherFinalizerGoes
  <2>8. CASE WatchEvent(k)
    <3>1. Tracks(pc[k], snap[k], api[k], api[k], released[k], DbName[k], dbs)
      BY <1>0, TracksMoves
    <3> QED
      BY <2>1, <2>8, <3>1, TracksOutside DEF WatchEvent
  <2>9. CASE Resync(k)
    BY <2>9 DEF Resync, TracksInv
  <2> QED
    BY <1>11, <2>4, <2>5, <2>6, <2>7, <2>8, <2>9 DEF Environment
<1>12. CASE DbServerSide
  <2>1. serverSeen' /\ UNCHANGED <<pc, snap, cache, api, released, dbs>>
    BY <1>12 DEF DbServerSide, TracksInv
  <2> QED
    BY <2>1 DEF TracksInv
<1>14. CASE Restart
  <2>1. serverSeen'
    BY <1>14 DEF Restart, TracksInv
  <2> SUFFICES ASSUME NEW j \in Db PROVE TracksNext(j)
    BY <2>1 DEF TracksInv, TracksNext
  <2>2. /\ pc'[j] = "idle" /\ snap'[j] = Absent /\ cache'[j] = api[j]
        /\ api'[j] = api[j] /\ released'[j] = released[j] /\ dbs' = dbs
    BY <1>14 DEF Restart
  <2>3. /\ Tracks(pc[j], snap[j], api[j], api[j], released[j], DbName[j], dbs)
        /\ Chain(pc[j], snap[j], api[j], api[j], released[j])
    BY <1>0, TracksMoves, ChainMoves
  <2>4. Tracks("idle", Absent, api[j], api[j], released[j], DbName[j], dbs)
    BY <1>0, <2>3, TracksMoves
  <2> QED
    BY <2>2, <2>4 DEF TracksNext
<1>15. CASE UNCHANGED vars
  BY <1>15 DEF TracksInv, vars
<1> QED
  BY <1>1, <1>2, <1>3, <1>4, <1>5, <1>6, <1>7, <1>8, <1>9, <1>10, <1>11, <1>12,
     <1>14, <1>15, <1>16 DEF Next, Reconcile

(* The databases track the CRs while the DbServer stays and no name is     *)
(* shared.                                                                 *)
THEOREM TracksInvariant ==
  ASSUME Undisturbed
  PROVE  Spec => [](TypeOK /\ ChainInv /\ TracksInv)
<1>1. Init => TracksInv
  BY DEF Undisturbed, Init, TracksInv, Tracks, Absent
<1>2. TypeOK /\ ChainInv /\ TracksInv /\ [Next]_vars => TracksInv'
  BY TracksStep
<1> QED
  BY <1>1, <1>2, ChainInvariant, PTL DEF Spec

(* The database of a CR that carries the finalizer and is not marked for   *)
(* deletion exists.                                                        *)
THEOREM ClaimedDbExistsHolds ==
  ASSUME Undisturbed
  PROVE  Spec => []ClaimedDbExists
<1>1. TracksInv => ClaimedDbExists
  BY DEF TracksInv, Tracks, ClaimedDbExists
<1> QED
  BY <1>1, TracksInvariant, PTL

(* The database of a released CR with drop_on_deletion is gone until the   *)
(* name is used again.                                                     *)
THEOREM ReleasedDbIsGoneHolds ==
  ASSUME Undisturbed
  PROVE  Spec => []ReleasedDbIsGone
<1>1. TypeOK /\ ChainInv /\ TracksInv => ReleasedDbIsGone
  <2> SUFFICES ASSUME TypeOK, ChainInv, TracksInv, NEW k \in Db,
                      released[k].drop, api[k].uid = released[k].uid
               PROVE  DbName[k] \notin dbs
    BY DEF ReleasedDbIsGone
  <2>1. /\ cache[k] \in CR /\ api[k] \in CR /\ released[k] \in CR
        /\ Older(released[k], cache[k]) /\ Older(cache[k], api[k])
    BY DEF TypeOK, ChainInv, Chain
  <2>2. cache[k].uid = released[k].uid
    BY <2>1 DEF Older, CR
  <2> QED
    BY <2>2 DEF TracksInv, Tracks
<1> QED
  BY <1>1, TracksInvariant, PTL

(* A database is dropped only while a CR that names it is stored with its  *)
(* deletion mark and its finalizer.                                        *)
THEOREM DropsOnlyTerminatingHolds ==
  ASSUME Undisturbed
  PROVE  Spec => DropsOnlyTerminating
<1>1. ASSUME TypeOK, ChainInv, TracksInv, [Next]_vars
      PROVE  \A d \in dbs \ dbs' : \E k \in Db :
                 DbName[k] = d /\ api[k].live /\ api[k].del /\ api[k].fin
  <2> SUFFICES ASSUME NEW d \in dbs \ dbs'
               PROVE  \E k \in Db :
                        DbName[k] = d /\ api[k].live /\ api[k].del /\ api[k].fin
    OBVIOUS
  <2>1. PICK k \in Db : /\ pc[k] = "removeObj" /\ snap[k].drop
                        /\ dbs' = dbs \ {DbName[k]}
    BY <1>1, DbsChange
  <2>2. /\ snap[k] \in CR /\ cache[k] \in CR /\ api[k] \in CR /\ released[k] \in CR
        /\ Chain("removeObj", snap[k], cache[k], api[k], released[k])
        /\ Tracks("removeObj", snap[k], cache[k], api[k], released[k], DbName[k], dbs)
    BY <1>1, <2>1 DEF TypeOK, ChainInv, TracksInv
  <2>3. api[k].live /\ api[k].del /\ api[k].fin
    BY <2>1, <2>2, TracksDrop
  <2> QED
    BY <2>1, <2>3
<1> QED
  BY <1>1, TracksInvariant, PTL DEF Spec, DropsOnlyTerminating
=============================================================================
