----------------------------- MODULE RecoProofs -----------------------------
(***************************************************************************)
(* What the copies of one CR have to do with each other, for any controller*)
(* that follows the generic loop and runs one reconcile per key: the CR a  *)
(* reconcile works from (s), the cached one (c), the stored one (a), and   *)
(* the uid of the incarnation whose finalizer was removed last (u; 0: none *)
(* yet).  p is the step of the reconcile.  The controllers' own proofs cite*)
(* these lemmas and add what concerns the spec, the status and the managed *)
(* object.                                                                 *)
(***************************************************************************)
EXTENDS Reco, TLAPS

(* The fields that Kubernetes and the generic loop look at.                *)
Versioned(o) ==
    /\ o.uid \in Nat /\ o.rv \in Nat
    /\ o.live \in BOOLEAN /\ o.del \in BOOLEAN /\ o.fin \in BOOLEAN
    /\ ~o.other

(* A finalizer, and nothing else, keeps a marked object.                   *)
WellFormed(o) ==
    /\ o.live => o.uid > 0
    /\ o.live /\ o.del => o.fin
    /\ o.fin => o.live

(* o is the version n or comes before it.                                  *)
Precedes(o, n) ==
    /\ o.rv <= n.rv
    /\ o.uid <= n.uid
    /\ o.uid = n.uid /\ o.del => n.del

(* The same object, except for spec, status and version.                   *)
SameMeta(o, n) ==
    o.live = n.live /\ o.uid = n.uid /\ o.del = n.del /\ o.fin = n.fin

(* A finalizer seen on o is still there, or the operator removed it.       *)
Settled(o, a, u) == o.fin /\ o.uid # u => a.uid = o.uid /\ a.live /\ a.fin

(* What holds of the copies between two reconciles.                        *)
Stores(c, a, u) ==
    /\ WellFormed(a) /\ WellFormed(c)
    /\ Precedes(c, a) /\ (c.rv = a.rv => c = a)
    /\ u <= c.uid
    /\ a.uid = u => ~a.live
    /\ c.live /\ c.uid = u => c.del
    /\ a.fin => c.uid = a.uid
    /\ Settled(c, a, u)

(* What holds of the CR a reconcile works from.                            *)
WorksFrom(s, c, a, u) ==
    /\ s.uid > 0
    /\ Precedes(s, a) /\ s.uid <= c.uid
    /\ u <= s.uid
    /\ s.uid = u => s.del
    /\ a.fin => s.uid = a.uid
    /\ Settled(s, a, u)
    /\ UpToDate(a, s) => SameMeta(s, a) /\ (s.del => c.uid = s.uid /\ c.del /\ c.live)

Chain(p, s, c, a, u) == Stores(c, a, u) /\ (p # "idle" => WorksFrom(s, c, a, u))

(* What users may make of a: another version of the same incarnation, or   *)
(* the next one.                                                           *)
Touched(a, n) ==
    /\ n.rv = a.rv + 1
    /\ \/ /\ a.live /\ n.uid = a.uid /\ n.fin = a.fin /\ (a.del => n.del)
          /\ n.live = (~n.del \/ n.fin)
       \/ ~a.live /\ n.uid = a.uid + 1 /\ n.live /\ ~n.del /\ ~n.fin

(* A write that leaves the metadata alone.                                 *)
Updated(a, n) == n = a \/ (n.rv = a.rv + 1 /\ SameMeta(n, a))

-----------------------------------------------------------------------------
(* Before the first CR is created.                                         *)
LEMMA ChainStarts ==
  ASSUME NEW o, o.uid = 0, o.rv = 0, ~o.live, ~o.del, ~o.fin
  PROVE  \A t : Chain("idle", t, o, o, 0)
<1>1. WellFormed(o) /\ Settled(o, o, 0)
  BY DEF WellFormed, Settled
<1>2. Precedes(o, o) /\ 0 <= o.uid
  BY DEF Precedes
<1> QED
  BY <1>1, <1>2 DEF Chain, Stores

(* Returning, going on, loading the CR, events and a restart.              *)
LEMMA ChainMoves ==
  ASSUME NEW p, NEW s, NEW c, NEW a, NEW u \in Nat, Versioned(c), Versioned(a),
         Chain(p, s, c, a, u)
  PROVE  /\ \A t : Chain("idle", t, c, a, u)
         /\ \A q : p # "idle" => Chain(q, s, c, a, u)
         /\ \A q : c.live => Chain(q, c, c, a, u)
         /\ \A t : Chain("idle", t, a, a, u)
<1>1. \A t : Chain("idle", t, c, a, u)
  BY DEF Chain
<1>2. \A q : p # "idle" => Chain(q, s, c, a, u)
  BY DEF Chain
<1>3. ASSUME c.live PROVE WorksFrom(c, c, a, u)
  <2>1. UpToDate(a, c) => SameMeta(c, a)
    BY DEF Chain, Stores, UpToDate, SameMeta
  <2>2. Stores(c, a, u) /\ c.uid > 0 /\ c.uid <= c.uid
    BY <1>3 DEF Chain, Stores, WellFormed, Versioned
  <2> QED
    BY <1>3, <2>1, <2>2 DEF Stores, WorksFrom
<1>4. Stores(a, a, u)
  BY DEF Chain, Stores, WellFormed, Precedes, Settled, Versioned
<1> QED
  BY <1>1, <1>2, <1>3, <1>4 DEF Chain

LEMMA ChainWatch ==
  ASSUME NEW p, NEW s, NEW c, NEW a, NEW u \in Nat, Versioned(c), Versioned(a), Versioned(s),
         Chain(p, s, c, a, u)
  PROVE  Chain(p, s, a, a, u)
<1>1. Stores(a, a, u)
  BY ChainMoves DEF Chain
<1>2. p # "idle" => WorksFrom(s, a, a, u)
  BY DEF Chain, WorksFrom, Precedes, UpToDate, SameMeta, Versioned
<1> QED
  BY <1>1, <1>2 DEF Chain

(* A user's write.                                                         *)
LEMMA ChainTouched ==
  ASSUME NEW p, NEW s, NEW c, NEW a, NEW u \in Nat, Versioned(c), Versioned(a), Versioned(s),
         Chain(p, s, c, a, u), NEW n, Versioned(n), Touched(a, n)
  PROVE  Chain(p, s, c, n, u)
<1>1. WellFormed(n) /\ Precedes(c, n) /\ c.rv # n.rv
  BY DEF Chain, Stores, WellFormed, Precedes, Touched, Versioned
<1>2. (n.uid = u => ~n.live) /\ (n.fin => c.uid = n.uid)
  BY DEF Chain, Stores, WellFormed, Precedes, Touched, Versioned
<1>3. Settled(c, n, u)
  BY DEF Chain, Stores, WellFormed, Settled, Touched, Versioned
<1>4. ASSUME p # "idle" PROVE WorksFrom(s, c, n, u)
  <2>1. Precedes(s, n) /\ ~UpToDate(n, s)
    BY <1>4 DEF Chain, WorksFrom, Precedes, Touched, UpToDate, Versioned
  <2>2. Settled(s, n, u) /\ (n.fin => s.uid = n.uid)
    BY <1>4 DEF Chain, Stores, WorksFrom, WellFormed, Settled, Touched, Versioned
  <2> QED
    BY <1>4, <2>1, <2>2 DEF Chain, WorksFrom
<1> QED
  BY <1>1, <1>2, <1>3, <1>4 DEF Chain, Stores

(* The CR in memory gets another status.                                   *)
LEMMA ChainRemembers ==
  ASSUME NEW p, NEW s, NEW c, NEW a, NEW u \in Nat, p # "idle",
         Chain(p, s, c, a, u), NEW t, t.rv = s.rv, SameMeta(t, s)
  PROVE  \A q : Chain(q, t, c, a, u)
  BY DEF Chain, WorksFrom, Precedes, Settled, UpToDate, SameMeta

(* A status update is accepted; the CR in memory may become the new        *)
(* version.                                                                *)
LEMMA ChainUpdated ==
  ASSUME NEW p, NEW s, NEW c, NEW a, NEW u \in Nat, Versioned(c), Versioned(a), Versioned(s),
         p # "idle", Chain(p, s, c, a, u), UpToDate(a, s), NEW n, Versioned(n), Updated(a, n)
  PROVE  /\ \A q : Chain(q, s, c, n, u)
         /\ \A q : Chain(q, n, c, n, u)
<1>1. SameMeta(s, a) /\ (s.del => c.uid = s.uid /\ c.del /\ c.live) /\ a.live /\ s.rv = a.rv
  BY DEF Chain, WorksFrom, UpToDate
<1>2. Stores(c, n, u)
  BY DEF Chain, Stores, WellFormed, Precedes, Settled, Updated, SameMeta, Versioned
<1>3. n.rv >= a.rv /\ SameMeta(n, a) /\ (n.rv = a.rv => n = a)
  BY DEF Updated, SameMeta, Versioned
<1>4. c.uid = a.uid /\ s.uid = a.uid
  BY <1>1 DEF Chain, Stores, WorksFrom, Precedes, SameMeta, Versioned
<1>5. s.uid > 0 /\ u <= s.uid /\ (s.uid = u => s.del)
  BY DEF Chain, WorksFrom
<1>6. WorksFrom(s, c, n, u)
  <2>1. Precedes(s, n)
    BY <1>1, <1>3 DEF Precedes, SameMeta, Versioned
  <2>2. Settled(s, n, u)
    BY <1>1, <1>3 DEF Settled, SameMeta
  <2> QED
    BY <1>1, <1>3, <1>4, <1>5, <2>1, <2>2 DEF WorksFrom, UpToDate, SameMeta, Versioned
<1>7. WorksFrom(n, c, n, u)
  <2>1. Precedes(n, n) /\ Settled(n, n, u)
    BY <1>1, <1>3 DEF Precedes, Settled, SameMeta, Versioned
  <2> QED
    BY <1>1, <1>3, <1>4, <1>5, <2>1 DEF WorksFrom, SameMeta, Versioned
<1> QED
  BY <1>2, <1>6, <1>7 DEF Chain

(* EnsureFinalizer.                                                        *)
LEMMA ChainFinalizerAdded ==
  ASSUME NEW p, NEW s, NEW c, NEW a, NEW u \in Nat, Versioned(c), Versioned(a), Versioned(s),
         p # "idle", Chain(p, s, c, a, u), UpToDate(a, s), ~s.del,
         NEW n, Versioned(n), n.rv = a.rv + 1, n.uid = s.uid, n.fin, n.live, ~n.del
  PROVE  \A t : Chain("idle", t, c, n, u)
<1>1. SameMeta(s, a) /\ a.live
  BY DEF Chain, WorksFrom, UpToDate
<1>2. c.uid = a.uid
  BY <1>1 DEF Chain, Stores, WorksFrom, Precedes, SameMeta, Versioned
<1>3. Stores(c, n, u)
  BY <1>1, <1>2 DEF Chain, Stores, WorksFrom, WellFormed, Precedes, Settled, SameMeta, Versioned
<1> QED
  BY <1>3 DEF Chain

(* RemoveFinalizer: this incarnation is now the last released one.         *)
LEMMA ChainReleased ==
  ASSUME NEW p, NEW s, NEW c, NEW a, NEW u \in Nat, Versioned(c), Versioned(a), Versioned(s),
         p # "idle", Chain(p, s, c, a, u), UpToDate(a, s), s.del,
         NEW n, Versioned(n), n.rv = a.rv + 1, n.uid = s.uid, ~n.fin, ~n.live, n.del
  PROVE  /\ \A t : Chain("idle", t, c, n, s.uid)
         /\ \A q : Chain(q, n, c, n, s.uid)
<1>1. SameMeta(s, a) /\ a.live /\ c.uid = s.uid /\ c.del /\ s.uid > 0
  BY DEF Chain, WorksFrom, UpToDate
<1>2. Stores(c, n, s.uid)
  BY <1>1 DEF Chain, Stores, WellFormed, Precedes, Settled, SameMeta, Versioned
<1>3. WorksFrom(n, c, n, s.uid)
  BY <1>1 DEF WorksFrom, Precedes, Settled, UpToDate, Versioned
<1> QED
  BY <1>2, <1>3 DEF Chain
=============================================================================
