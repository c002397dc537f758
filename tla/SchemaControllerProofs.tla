----------------------- MODULE SchemaControllerProofs -----------------------
(***************************************************************************)
(* Proofs about SchemaController, for all products, names, specs and       *)
(* bounds.                                                                 *)
(*                                                                         *)
(* The argument: a schema is created only from a CR that is not marked.    *)
(* The copies of the CR form a chain of versions (RecoProofs), so such a   *)
(* CR is of a later incarnation than the last released one, and what       *)
(* RemoveObj dropped stays away until the name of the CR is used again.    *)
(***************************************************************************)
EXTENDS SchemaController, RecoProofs

VersionChain == Chain(step, snap, cached, cr, released.uid)

(* Users wrote the spec of every CR that is or was there.                  *)
Written(o) == o.uid > 0 => o.spec \in Specs
SpecsAreWritten == Written(cr) /\ Written(cached) /\ Written(snap)

(* What each step knows of the CR in memory and of the schemas.            *)
StepKnows ==
    /\ step \in {"createObj", "statusCreated", "ensureFinalizer"} => ~snap.del
    /\ step \in {"orphaned", "abandon", "removeObj", "removeFinalizer"} => snap.del
    /\ step \in {"orphaned", "loadObj", "abandon"} => ~conn
    /\ step = "removeFinalizer" /\ conn /\ snap.spec.drop /\ snap.spec.name = CrName =>
           CrName \notin schemas

SchemaInv == TypeOK /\ VersionChain /\ SpecsAreWritten /\ StepKnows /\ ReleasedSchemaIsGone

-----------------------------------------------------------------------------
(* What the API server stores.                                             *)

LEMMA AbsentIsCR == Absent \in CR
  BY DEF Absent, CR

LEMMA CRFields ==
  ASSUME NEW o \in CR
  PROVE  Versioned(o) /\ o.rv \in Nat /\ o.uid \in Nat
<1>1. o.rv \in Nat /\ o.uid \in Nat
  BY DEF CR
<1>2. o.live \in BOOLEAN /\ o.del \in BOOLEAN /\ o.fin \in BOOLEAN /\ ~o.other
  BY DEF CR
<1> QED
  BY <1>1, <1>2 DEF Versioned

LEMMA StoredResult ==
  ASSUME NEW o \in CR
  PROVE  /\ Stored(o) \in CR
         /\ Stored(o).rv = o.rv + 1 /\ Stored(o).uid = o.uid
         /\ Stored(o).del = o.del /\ Stored(o).fin = o.fin /\ Stored(o).spec = o.spec
         /\ Stored(o).live = (~o.del \/ o.fin)
<1> DEFINE next == [o EXCEPT !.rv = @ + 1]
           alive == ~o.del \/ o.fin \/ o.other
<1>1. next \in CR
  <2>1. PICK v \in Nat : v = o.rv + 1
    BY CRFields
  <2>2. [o EXCEPT !.rv = v] \in CR
    BY DEF CR
  <2> QED
    BY <2>1, <2>2
<1>2. alive \in {TRUE, FALSE} /\ alive = (~o.del \/ o.fin)
  BY CRFields DEF Versioned
<1>3. Stored(o) = [next EXCEPT !.live = alive]
  BY DEF Stored
<1> HIDE DEF alive
<1>4. \A b \in {TRUE, FALSE} : [next EXCEPT !.live = b] \in CR
  BY <1>1 DEF CR
<1> QED
  BY <1>1, <1>2, <1>3, <1>4 DEF CR

-----------------------------------------------------------------------------
(* One step.                                                               *)

Returns == step' = "idle" /\ snap' = Absent /\ conn' = FALSE

Told == [snap EXCEPT !.created = TRUE]

(* The reconcile goes on or returns, with the CR it had or with a status   *)
(* that says created, which may be written.                                *)
Moves ==
    \/ cr' = cr /\ (snap' \in {snap, Told} \/ Returns)
    \/ /\ UpToDate(cr, snap) /\ cr' = Stored(Told)
       /\ snap' \in {Told, cr'} \/ Returns

LEMMA TypedCopies ==
  ASSUME SchemaInv
  PROVE  /\ cr \in CR /\ cached \in CR /\ snap \in CR /\ released.uid \in Nat
         /\ Versioned(cr) /\ Versioned(cached) /\ Versioned(snap)
  BY CRFields DEF SchemaInv, TypeOK

LEMMA ToldIsCR ==
  ASSUME SchemaInv
  PROVE  Told \in CR /\ Told.rv = snap.rv /\ SameMeta(Told, snap) /\ Told.spec = snap.spec
  BY DEF SchemaInv, TypeOK, Told, CR, SameMeta

LEMMA AbsentIsWritten == Written(Absent)
  BY DEF Written, Absent

LEMMA MovingKeepsCopies ==
  ASSUME SchemaInv, step # "idle", Moves, UNCHANGED <<cached, released>>
  PROVE  /\ cr' \in CR /\ snap' \in CR /\ VersionChain' /\ SpecsAreWritten' /\ cr'.uid = cr.uid
         /\ Returns \/ (snap'.spec = snap.spec /\ snap'.del = snap.del)
<1> DEFINE u == released.uid
<1> USE TypedCopies, ToldIsCR, AbsentIsCR, AbsentIsWritten
<1>1. Chain(step, snap, cached, cr, u)
  BY DEF SchemaInv, VersionChain
<1>2. \A q : Chain(q, Told, cached, cr, u) /\ Chain(q, snap, cached, cr, u)
  BY <1>1, ChainRemembers DEF Chain
<1>3. Written(Told) /\ Written(cr) /\ Written(snap) /\ Written(cached)
  BY DEF SchemaInv, SpecsAreWritten, Written, SameMeta
<1>4. CASE cr' = cr /\ (snap' \in {snap, Told} \/ Returns)
  <2>1. VersionChain'
    BY <1>1, <1>2, <1>4, ChainMoves DEF VersionChain, Returns
  <2> QED
    BY <1>3, <1>4, <2>1 DEF SpecsAreWritten, Written, Returns, SameMeta
<1>5. CASE /\ UpToDate(cr, snap) /\ cr' = Stored(Told)
           /\ snap' \in {Told, cr'} \/ Returns
  <2>1. SameMeta(snap, cr) /\ cr.live /\ WellFormed(cr) /\ snap.rv = cr.rv
    BY <1>1, <1>5 DEF Chain, Stores, WorksFrom, UpToDate
  <2>2. /\ cr' \in CR /\ cr'.rv = Told.rv + 1 /\ cr'.uid = Told.uid /\ cr'.del = Told.del
        /\ cr'.fin = Told.fin /\ cr'.spec = Told.spec /\ cr'.live = (~Told.del \/ Told.fin)
    BY <1>5, StoredResult
  <2>3. Told.uid = cr.uid /\ Told.del = cr.del /\ Told.fin = cr.fin /\ Told.rv = cr.rv
    BY <2>1 DEF SameMeta
  <2>4. SameMeta(cr', cr) /\ cr'.rv = cr.rv + 1
    BY <2>1, <2>2, <2>3 DEF SameMeta, WellFormed, Versioned
  <2>5. Updated(cr, cr') /\ Versioned(cr')
    BY <2>2, <2>4, CRFields DEF Updated
  <2>6. /\ \A q : Chain(q, snap, cached, cr', u)
        /\ \A q : Chain(q, cr', cached, cr', u)
    BY <1>1, <1>5, <2>5, ChainUpdated
  <2>7. \A q : Chain(q, Told, cached, cr', u)
    <3>1. Chain("loadObj", snap, cached, cr', u)
      BY <2>6
    <3> QED
      BY <3>1, ChainRemembers
  <2>8. VersionChain'
    BY <1>5, <2>6, <2>7 DEF VersionChain, Returns, Chain
  <2>9. (snap'.spec = snap.spec /\ snap'.del = snap.del) \/ Returns
    BY <1>5, <2>2 DEF SameMeta
  <2>10. Written(cr')
    BY <1>3, <2>2 DEF Written
  <2> QED
    BY <1>3, <1>5, <2>2, <2>3, <2>8, <2>9, <2>10 DEF SpecsAreWritten, Written, Returns
<1> QED
  BY <1>4, <1>5 DEF Moves

(* What becomes of the schemas: only a CR that is not marked brings one.   *)
SchemasMove ==
    /\ full' \subseteq schemas' /\ schemas' \subseteq Names /\ (base' \/ schemas' = {})
    /\ base' \in BOOLEAN
    /\ schemas' \subseteq schemas \/ (step # "idle" /\ ~snap.del)

(* An unmarked CR in memory is of a later incarnation than the released.   *)
LEMMA UnmarkedIsLater ==
  ASSUME SchemaInv, step # "idle", ~snap.del
  PROVE  cr.uid # released.uid
<1>1. released.uid <= snap.uid /\ released.uid # snap.uid /\ snap.uid <= cr.uid
  BY DEF SchemaInv, VersionChain, Chain, WorksFrom, Precedes
<1>2. released.uid \in Nat /\ snap.uid \in Nat /\ cr.uid \in Nat
  BY TypedCopies DEF Versioned
<1> QED
  BY <1>1, <1>2

LEMMA StepKeepsInv ==
  ASSUME SchemaInv, step # "idle", Moves, SchemasMove, StepKnows',
         UNCHANGED <<cached, released, worldVars>>,
         step' \in Steps, queued' \in BOOLEAN, conn' \in BOOLEAN, faults' \in Nat,
         step' = "idle" => Returns
  PROVE  SchemaInv'
<1>1. /\ cr' \in CR /\ snap' \in CR /\ VersionChain' /\ SpecsAreWritten' /\ cr'.uid = cr.uid
  BY MovingKeepsCopies
<1>2. TypeOK'
  BY <1>1 DEF SchemaInv, TypeOK, SchemasMove, worldVars, Returns
<1>3. ReleasedSchemaIsGone'
  BY <1>1, UnmarkedIsLater DEF SchemaInv, ReleasedSchemaIsGone, SchemasMove
<1> QED
  BY <1>1, <1>2, <1>3 DEF SchemaInv

-----------------------------------------------------------------------------
(* The ways out of a step.                                                 *)

LEMMA FaultCounts ==
  ASSUME SchemaInv, Fault \/ UNCHANGED faults
  PROVE  faults' \in Nat
<1>1. faults \in Nat
  BY DEF SchemaInv, TypeOK
<1> QED
  BY <1>1 DEF Fault

LEMMA SchemasStay ==
  ASSUME SchemaInv, UNCHANGED dbVars
  PROVE  SchemasMove
  BY DEF SchemaInv, TypeOK, SchemasMove, dbVars

LEMMA ReturnMoves ==
  ASSUME SchemaInv, NEW again \in BOOLEAN, Return(again),
         cr' = cr \/ (UpToDate(cr, snap) /\ cr' = Stored(Told))
  PROVE  /\ Moves /\ StepKnows' /\ Returns
         /\ step' \in Steps /\ queued' \in BOOLEAN /\ conn' \in BOOLEAN
<1>1. Returns
  BY DEF Return, Returns
<1>2. queued' \in BOOLEAN
  BY DEF Return, SchemaInv, TypeOK
<1> QED
  BY <1>1, <1>2 DEF Returns, Moves, StepKnows, Steps

LEMMA GotoMoves ==
  ASSUME SchemaInv, NEW next \in Steps, Goto(next), cr' = cr
  PROVE  Moves /\ step' = next /\ snap' = snap /\ conn' = conn /\ conn' \in BOOLEAN /\ queued' \in BOOLEAN
  BY DEF Goto, Moves, SchemaInv, TypeOK

(* A reconcile that ends without touching the CR or the schemas.           *)
LEMMA GivesUp ==
  ASSUME SchemaInv, step # "idle", NEW again \in BOOLEAN, Return(again), Fault \/ UNCHANGED faults,
         UNCHANGED <<crVars, dbVars, worldVars>>
  PROVE  SchemaInv'
  BY FaultCounts, SchemasStay, ReturnMoves, StepKeepsInv DEF crVars

LEMMA FollowingSteps ==
  ASSUME SchemaInv, NEW exists \in BOOLEAN
  PROVE  LET next == Following(exists)
         IN  /\ next \in {"idle", "createObj", "ensureFinalizer", "removeObj", "removeFinalizer"}
             /\ next \in {"createObj", "ensureFinalizer"} => ~snap.del
             /\ next \in {"removeObj", "removeFinalizer"} => snap.del
             /\ next = "removeFinalizer" => ~exists
             /\ next = "removeObj" => exists
<1>1. snap.del \in BOOLEAN /\ snap.fin \in BOOLEAN
  BY TypedCopies DEF Versioned
<1> QED
  BY <1>1 DEF Following, Dispatch

-----------------------------------------------------------------------------
(* The steps of a reconcile.                                               *)

LEMMA LoadStep ==
  ASSUME SchemaInv, LoadCR
  PROVE  SchemaInv'
<1> UNCHANGED <<crVars, conn, dbVars, worldVars, faults>> /\ step = "idle" /\ ~conn
  BY DEF LoadCR, SchemaInv, TypeOK
<1> USE TypedCopies DEF crVars, dbVars, worldVars
<1>1. ReleasedSchemaIsGone'
  BY DEF SchemaInv, ReleasedSchemaIsGone
<1>2. CASE UNCHANGED <<step, snap>> /\ queued' = cached.live
  <2>1. queued' \in BOOLEAN
    BY <1>2 DEF Versioned
  <2>2. TypeOK'
    BY <1>2, <2>1 DEF SchemaInv, TypeOK
  <2> QED
    BY <1>1, <1>2, <2>2 DEF SchemaInv, VersionChain, SpecsAreWritten, Written, StepKnows
<1>3. CASE /\ queued' = FALSE /\ cached.live
           /\ step' = "loadObj" \/ (step' = "orphaned" /\ cached.del)
           /\ snap' = cached
  <2>1. VersionChain'
    BY <1>3, ChainMoves DEF SchemaInv, VersionChain
  <2>2. TypeOK'
    BY <1>3 DEF SchemaInv, TypeOK, Steps
  <2>3. SpecsAreWritten' /\ StepKnows'
    BY <1>3 DEF SchemaInv, SpecsAreWritten, Written, StepKnows
  <2> QED
    BY <1>1, <2>1, <2>2, <2>3 DEF SchemaInv
<1> QED
  BY <1>2, <1>3 DEF LoadCR

LEMMA LoadObjStep ==
  ASSUME SchemaInv, LoadObj
  PROVE  SchemaInv'
<1> DEFINE exists == snap.spec.name \in schemas
           next == IF exists /\ ~snap.created THEN "statusSeen" ELSE Following(exists)
<1> /\ step = "loadObj" /\ UNCHANGED <<crVars, dbVars, worldVars, faults>> /\ ~conn
    /\ faults' \in Nat /\ SchemasMove
  BY FaultCounts, SchemasStay DEF LoadObj, SchemaInv, StepKnows
<1>1. CASE \E again \in BOOLEAN : Return(again)
  BY <1>1, GivesUp
<1>2. CASE snap.del /\ Goto("abandon")
  <2>1. /\ Moves /\ step' = "abandon" /\ snap' = snap /\ conn' = conn /\ conn' \in BOOLEAN
        /\ queued' \in BOOLEAN
    BY <1>2, GotoMoves DEF Steps, crVars
  <2>2. StepKnows' /\ step' \in Steps
    BY <1>2, <2>1 DEF StepKnows, Steps
  <2> QED
    BY <2>1, <2>2, StepKeepsInv DEF crVars
<1>3. ASSUME NEW connected \in BOOLEAN, NEW there \in BOOLEAN,
             NEW n, Continue(n, connected), connected => there = exists,
             n = Following(there) \/ n = "statusSeen"
      PROVE  SchemaInv'
  <2>1. CASE n = "idle"
    BY <1>1, <1>3, <2>1 DEF Continue
  <2>2. CASE n # "idle"
    <3>1. step' = n /\ conn' = connected /\ UNCHANGED <<queued, snap>>
      BY <1>3, <2>2 DEF Continue
    <3>2. /\ n \in {"createObj", "ensureFinalizer", "removeObj", "removeFinalizer", "statusSeen"}
          /\ n \in {"createObj", "ensureFinalizer"} => ~snap.del
          /\ n \in {"removeObj", "removeFinalizer"} => snap.del
          /\ n = "removeFinalizer" => ~there
      BY <1>3, <2>2, FollowingSteps
    <3>3. UNCHANGED schemas
      BY DEF dbVars
    <3>4. StepKnows'
      BY <1>3, <3>1, <3>2, <3>3 DEF StepKnows
    <3>5. Moves /\ queued' \in BOOLEAN /\ step' \in Steps /\ conn' \in BOOLEAN
      BY <1>3, <3>1, <3>2 DEF Moves, crVars, SchemaInv, TypeOK, Steps
    <3> QED
      BY <2>2, <3>1, <3>4, <3>5, StepKeepsInv DEF crVars
  <2> QED
    BY <2>1, <2>2
<1>4. exists \in BOOLEAN
  OBVIOUS
<1>5. CASE Continue(Following(FALSE), FALSE)
  BY <1>3, <1>5
<1>6. CASE Continue(next, TRUE)
  BY <1>3, <1>4, <1>6
<1>7. LoadObjAndGo(next)
  BY DEF LoadObj
<1> HIDE DEF next
<1> QED
  BY <1>1, <1>2, <1>5, <1>6, <1>7 DEF LoadObjAndGo

LEMMA SetStatusStep ==
  ASSUME SchemaInv, SetStatus \/ SetStatusFails
  PROVE  SchemaInv'
<1> /\ step \in {"statusSeen", "statusCreated"}
    /\ UNCHANGED <<cached, released, dbVars, worldVars>>
    /\ faults' \in Nat /\ SchemasMove
  BY FaultCounts, SchemasStay DEF SetStatus, SetStatusFails
<1>1. /\ AfterStatus \in {"idle", "createObj", "ensureFinalizer", "removeObj"}
      /\ AfterStatus \in {"createObj", "ensureFinalizer"} => ~snap.del
      /\ AfterStatus = "removeObj" => snap.del
  BY FollowingSteps DEF AfterStatus, SchemaInv, StepKnows
<1>2. PICK o : /\ Believe(o)
               /\ \/ cr' = cr /\ o = Told
                  \/ UpToDate(cr, snap) /\ cr' = Stored(Told) /\ o \in {Told, cr'}
  BY DEF SetStatus, SetStatusFails, Told
<1>3. CASE AfterStatus = "idle"
  <2>1. Return(FALSE)
    BY <1>2, <1>3 DEF Believe
  <2> QED
    BY <1>2, <2>1, ReturnMoves, StepKeepsInv
<1>4. CASE AfterStatus # "idle"
  <2>1. step' = AfterStatus /\ snap' = o /\ UNCHANGED <<queued, conn>>
    BY <1>2, <1>4 DEF Believe
  <2>2. Moves
    BY <1>2, <2>1 DEF Moves
  <2>3. snap'.del = snap.del
    BY <1>1, <1>4, <2>1, <2>2, MovingKeepsCopies DEF Returns
  <2>4. StepKnows' /\ step' \in Steps /\ queued' \in BOOLEAN /\ conn' \in BOOLEAN
    BY <1>1, <1>4, <2>1, <2>3 DEF StepKnows, Steps, SchemaInv, TypeOK
  <2> QED
    BY <1>4, <2>1, <2>2, <2>4, StepKeepsInv
<1> QED
  BY <1>3, <1>4

LEMMA CreateObjStep ==
  ASSUME SchemaInv, CreateObj \/ CreateObjFails
  PROVE  SchemaInv'
<1> step = "createObj" /\ UNCHANGED <<crVars, base, full, worldVars>> /\ faults' \in Nat
  BY FaultCounts DEF CreateObj, CreateObjFails
<1>1. ~snap.del
  BY DEF SchemaInv, StepKnows
<1>2. snap.spec.name \in Names
  <2>1. snap.spec \in Specs
    BY DEF SchemaInv, VersionChain, Chain, WorksFrom, SpecsAreWritten, Written
  <2> QED
    BY <2>1 DEF Names
<1>3. schemas' = schemas \/ (base /\ schemas' = schemas \cup {snap.spec.name})
  BY DEF CreateObj, CreateObjFails
<1>4. SchemasMove
  BY <1>1, <1>2, <1>3 DEF SchemasMove, SchemaInv, TypeOK
<1>5. CASE Return(TRUE)
  BY <1>4, <1>5, ReturnMoves, StepKeepsInv DEF crVars
<1>6. CASE Goto("ensureFinalizer") \/ Goto("statusCreated")
  <2>1. /\ Moves /\ step' \in {"ensureFinalizer", "statusCreated"} /\ snap' = snap /\ conn' \in BOOLEAN
        /\ queued' \in BOOLEAN
    BY <1>6, GotoMoves DEF Steps, crVars
  <2>2. StepKnows' /\ step' \in Steps
    BY <1>1, <2>1 DEF StepKnows, Steps
  <2> QED
    BY <1>4, <2>1, <2>2, StepKeepsInv DEF crVars
<1> QED
  BY <1>5, <1>6 DEF CreateObj, CreateObjFails

LEMMA RemoveObjStep ==
  ASSUME SchemaInv, RemoveObj \/ RemoveObjFails
  PROVE  SchemaInv'
<1> step = "removeObj" /\ UNCHANGED <<crVars, base, worldVars>> /\ faults' \in Nat
  BY FaultCounts DEF RemoveObj, RemoveObjFails
<1>1. snap.del
  BY DEF SchemaInv, StepKnows
<1>2. UNCHANGED <<schemas, full>> \/ Dropped
  BY DEF RemoveObj, RemoveObjFails
<1>3. SchemasMove
  BY <1>2 DEF SchemasMove, Dropped, SchemaInv, TypeOK
<1>4. CASE Return(TRUE)
  BY <1>3, <1>4, ReturnMoves, StepKeepsInv DEF crVars
<1>5. CASE Goto("removeFinalizer") /\ (snap.spec.drop => Dropped)
  <2>1. /\ Moves /\ step' = "removeFinalizer" /\ snap' = snap /\ conn' \in BOOLEAN
        /\ queued' \in BOOLEAN
    BY <1>5, GotoMoves DEF Steps, crVars
  <2>2. StepKnows' /\ step' \in Steps
    BY <1>1, <1>5, <2>1 DEF StepKnows, Steps, Dropped
  <2> QED
    BY <1>3, <2>1, <2>2, StepKeepsInv DEF crVars
<1> QED
  BY <1>4, <1>5 DEF RemoveObj, RemoveObjFails

(* Writing the finalizer back or taking it away makes another version.     *)
LEMMA FinalizerWrites ==
  ASSUME SchemaInv, step # "idle", UpToDate(cr, snap), NEW b \in BOOLEAN, snap.fin = ~b,
         NEW n, n = [snap EXCEPT !.fin = b]
  PROVE  /\ Put(cr, n) \in CR /\ Put(cr, n).rv = cr.rv + 1 /\ Put(cr, n).uid = snap.uid
         /\ Put(cr, n).del = snap.del /\ Put(cr, n).fin = b /\ Put(cr, n).live = (~snap.del \/ b)
         /\ Put(cr, n).spec = snap.spec
<1>1. cr \in CR /\ snap \in CR /\ snap.rv = cr.rv /\ snap.fin = cr.fin
  BY DEF SchemaInv, TypeOK, VersionChain, Chain, WorksFrom, UpToDate, SameMeta
<1>2. /\ n \in CR /\ n.fin = b /\ n.rv = snap.rv /\ n.uid = snap.uid /\ n.del = snap.del
      /\ n.spec = snap.spec
  BY <1>1 DEF CR
<1>3. n # cr
  BY <1>1, <1>2
<1>4. Put(cr, n) = Stored(n)
  BY <1>3 DEF Put
<1>5. /\ Stored(n) \in CR /\ Stored(n).rv = n.rv + 1 /\ Stored(n).uid = n.uid
      /\ Stored(n).del = n.del /\ Stored(n).fin = n.fin /\ Stored(n).spec = n.spec
      /\ Stored(n).live = (~n.del \/ n.fin)
  BY <1>2, StoredResult
<1>6. Stored(n).live = (~snap.del \/ b)
  BY <1>2, <1>5
<1> QED
  BY <1>1, <1>2, <1>4, <1>5, <1>6

LEMMA EnsureFinalizerStep ==
  ASSUME SchemaInv, EnsureFinalizer \/ EnsureFinalizerFails
  PROVE  SchemaInv'
<1> /\ step = "ensureFinalizer" /\ UNCHANGED <<cached, released, dbVars, worldVars>>
    /\ Fault \/ UNCHANGED faults
    /\ \E again \in BOOLEAN : Return(again)
  BY DEF EnsureFinalizer, EnsureFinalizerFails
<1>1. CASE cr' = cr
  BY <1>1, GivesUp DEF crVars
<1>2. CASE ~snap.fin /\ UpToDate(cr, snap) /\ cr' = Put(cr, WithFinalizer(snap))
  <2>1. ~snap.del /\ snap.fin = ~TRUE /\ WithFinalizer(snap) = [snap EXCEPT !.fin = TRUE]
    BY <1>2, TypedCopies DEF SchemaInv, StepKnows, WithFinalizer, Versioned
  <2>2. /\ cr' \in CR /\ cr'.rv = cr.rv + 1 /\ cr'.uid = snap.uid /\ ~cr'.del /\ cr'.fin
        /\ cr'.live /\ cr'.spec = snap.spec
    BY <1>2, <2>1, FinalizerWrites
  <2>3. step' = "idle" /\ snap' = Absent /\ conn' = FALSE /\ queued' \in BOOLEAN
    BY DEF Return, SchemaInv, TypeOK
  <2>4. VersionChain'
    BY <1>2, <2>1, <2>2, <2>3, TypedCopies, CRFields, ChainFinalizerAdded DEF SchemaInv, VersionChain
  <2>5. TypeOK'
    BY <2>2, <2>3, AbsentIsCR, FaultCounts DEF SchemaInv, TypeOK, Steps, dbVars, worldVars
  <2>6. cr'.uid = cr.uid
    BY <1>2, <2>2 DEF SchemaInv, VersionChain, Chain, WorksFrom, SameMeta
  <2>7. SpecsAreWritten'
    BY <2>2, <2>3, AbsentIsWritten DEF SchemaInv, SpecsAreWritten, Written
  <2> QED
    BY <2>3, <2>4, <2>5, <2>6, <2>7 DEF SchemaInv, StepKnows, ReleasedSchemaIsGone, dbVars
<1> QED
  BY <1>1, <1>2 DEF EnsureFinalizer, EnsureFinalizerFails

LEMMA ReleaseStep ==
  ASSUME SchemaInv, step \in {"orphaned", "removeFinalizer", "abandon"}, Release,
         UNCHANGED <<cached, dbVars, worldVars>>, Fault \/ UNCHANGED faults, queued' \in BOOLEAN,
         Returns \/ (step' = "loadObj" /\ snap' = cr' /\ conn' = conn /\ ~conn)
  PROVE  SchemaInv'
<1>1. /\ snap.del /\ SameMeta(snap, cr) /\ WellFormed(cr) /\ cr.live /\ snap.uid > 0
      /\ UpToDate(cr, snap) /\ step # "idle"
  BY DEF Release, SchemaInv, StepKnows, VersionChain, Chain, Stores, WorksFrom, UpToDate
<1>2. snap.fin = ~FALSE
  BY <1>1, TypedCopies DEF SameMeta, WellFormed, Versioned
<1>3. /\ WithoutFinalizer(snap) = [snap EXCEPT !.fin = FALSE]
      /\ cr' = Put(cr, WithoutFinalizer(snap))
  BY DEF WithoutFinalizer, Release
<1>4. /\ cr' \in CR /\ cr'.rv = cr.rv + 1 /\ cr'.uid = snap.uid /\ cr'.del /\ ~cr'.fin
      /\ ~cr'.live /\ cr'.spec = snap.spec
  BY <1>1, <1>2, <1>3, FinalizerWrites
<1>5. /\ released'.uid = snap.uid /\ released'.name = snap.spec.name
      /\ released'.dropped = (snap.spec.drop /\ conn)
  BY <1>2 DEF Release
<1>6. snap.spec \in Specs
  BY <1>1 DEF SchemaInv, SpecsAreWritten, Written
<1>7. VersionChain'
  <2> DEFINE n == cr'
  <2>1. n.rv = cr.rv + 1 /\ n.uid = snap.uid /\ ~n.fin /\ ~n.live /\ n.del /\ Versioned(n)
    BY <1>4, CRFields
  <2>2. Chain(step, snap, cached, cr, released.uid)
    BY DEF SchemaInv, VersionChain
  <2> HIDE DEF n
  <2>3. /\ \A t : Chain("idle", t, cached, n, snap.uid)
        /\ \A q : Chain(q, n, cached, n, snap.uid)
    BY <1>1, <2>1, <2>2, TypedCopies, ChainReleased
  <2> QED
    BY <1>5, <2>3 DEF VersionChain, Returns, n
<1>8. released' \in [uid : Nat, name : Names \cup {""}, dropped : BOOLEAN]
  <2>1. snap.spec.name \in Names /\ snap.uid \in Nat
    BY <1>6, TypedCopies DEF Names, Versioned
  <2>2. (snap.spec.drop /\ conn) \in BOOLEAN
    OBVIOUS
  <2> QED
    BY <1>2, <2>1, <2>2 DEF Release
<1>9. TypeOK'
  <2>1. snap' \in CR /\ conn' \in BOOLEAN /\ step' \in Steps /\ (step' = "idle" => Returns)
    BY <1>4, AbsentIsCR DEF Returns, Steps, SchemaInv, TypeOK
  <2> QED
    BY <1>4, <1>8, <2>1, FaultCounts DEF SchemaInv, TypeOK, dbVars, worldVars, Returns
<1>10. SpecsAreWritten'
  BY <1>4, <1>6, AbsentIsWritten DEF SchemaInv, SpecsAreWritten, Written, Returns
<1>11. StepKnows'
  BY DEF StepKnows, Returns
<1>12. ReleasedSchemaIsGone'
  BY <1>1, <1>5 DEF SchemaInv, StepKnows, ReleasedSchemaIsGone, dbVars
<1> QED
  BY <1>7, <1>9, <1>10, <1>11, <1>12 DEF SchemaInv

LEMMA RemoveFinalizerStep ==
  ASSUME SchemaInv, RemoveFinalizer \/ RemoveFinalizerFails \/ ReleaseOrphan \/ ReleaseOrphanFails
  PROVE  SchemaInv'
<1> /\ step \in {"orphaned", "removeFinalizer", "abandon"} /\ UNCHANGED <<cached, dbVars, worldVars>>
    /\ Fault \/ UNCHANGED faults
    /\ step # "idle"
  BY DEF RemoveFinalizer, RemoveFinalizerFails, ReleaseOrphan, ReleaseOrphanFails
<1>1. (step # "abandon") \in BOOLEAN
  OBVIOUS
<1>2. CASE UNCHANGED <<cr, released>> /\ \E again \in BOOLEAN : Return(again)
  BY <1>2, GivesUp DEF crVars
<1>3. CASE Release /\ \E again \in BOOLEAN : Return(again)
  <2>1. Returns /\ queued' \in BOOLEAN
    BY <1>3 DEF Return, Returns, SchemaInv, TypeOK
  <2> QED
    BY <1>3, <2>1, ReleaseStep
<1>4. CASE step = "orphaned" /\ Release /\ step' = "loadObj" /\ snap' = cr' /\ UNCHANGED <<queued, conn>>
  <2>1. ~conn /\ queued' \in BOOLEAN
    BY <1>4 DEF SchemaInv, StepKnows, TypeOK
  <2> QED
    BY <1>4, <2>1, ReleaseStep
<1> QED
  BY <1>1, <1>2, <1>3, <1>4
     DEF RemoveFinalizer, RemoveFinalizerFails, ReleaseOrphan, ReleaseOrphanFails

-----------------------------------------------------------------------------
(* The cluster around the operator.                                        *)

LEMMA UserStep ==
  ASSUME SchemaInv, UserCreates \/ UserDeletes \/ UserEdits
  PROVE  SchemaInv'
<1> UNCHANGED <<cached, released, queued, reconcileVars, dbVars, worldVars, faults>>
  BY DEF UserCreates, UserDeletes, UserEdits
<1> USE TypedCopies
<1>1. cr' \in CR /\ Touched(cr, cr') /\ Written(cr')
  <2>1. CASE UserCreates
    <3>1. PICK s \in Specs :
              cr' = [Absent EXCEPT !.live = TRUE, !.uid = cr.uid + 1, !.rv = cr.rv + 1, !.spec = s]
      BY <2>1 DEF UserCreates
    <3>2. PICK i \in Nat, v \in Nat : i = cr.uid + 1 /\ v = cr.rv + 1
      BY CRFields
    <3>3. cr' = [live |-> TRUE, uid |-> i, rv |-> v, del |-> FALSE, fin |-> FALSE,
                 other |-> FALSE, spec |-> s, created |-> FALSE]
      BY <3>1, <3>2 DEF Absent
    <3>4. cr' \in CR /\ cr'.live /\ cr'.uid = i /\ cr'.rv = v /\ ~cr'.del /\ ~cr'.fin /\ cr'.spec = s
      BY <3>3 DEF CR
    <3>5. Touched(cr, cr')
      BY <2>1, <3>2, <3>4 DEF UserCreates, Touched
    <3> QED
      BY <3>4, <3>5 DEF Written
  <2>2. ASSUME cr.live, NEW x \in CR, cr' = Stored(x), x.rv = cr.rv, x.uid = cr.uid, x.fin = cr.fin,
               cr.del => x.del, x.spec = cr.spec \/ x.spec \in Specs
        PROVE  cr' \in CR /\ Touched(cr, cr') /\ Written(cr')
    <3>1. /\ cr' \in CR /\ cr'.rv = cr.rv + 1 /\ cr'.uid = cr.uid /\ cr'.del = x.del
          /\ cr'.fin = cr.fin /\ cr'.live = (~cr'.del \/ cr'.fin) /\ cr'.spec = x.spec
      BY <2>2, StoredResult
    <3>2. Touched(cr, cr')
      BY <2>2, <3>1 DEF Touched
    <3> QED
      BY <2>2, <3>1, <3>2 DEF Written, SchemaInv, SpecsAreWritten
  <2>3. CASE UserDeletes
    <3> DEFINE x == [cr EXCEPT !.del = TRUE]
    <3>1. x \in CR /\ x.rv = cr.rv /\ x.uid = cr.uid /\ x.del /\ x.fin = cr.fin /\ x.spec = cr.spec
      BY DEF CR
    <3>2. cr' = Stored(x) /\ cr.live
      BY <2>3 DEF UserDeletes, Deleted
    <3> HIDE DEF x
    <3> QED
      BY <2>2, <3>1, <3>2
  <2>4. CASE UserEdits
    <3>1. PICK s \in Specs : cr' = Stored([cr EXCEPT !.spec = s])
      BY <2>4 DEF UserEdits
    <3> DEFINE x == [cr EXCEPT !.spec = s]
    <3>2. x \in CR /\ x.rv = cr.rv /\ x.uid = cr.uid /\ x.del = cr.del /\ x.fin = cr.fin /\ x.spec = s
      BY DEF CR
    <3>3. cr' = Stored(x) /\ cr.live
      BY <2>4, <3>1 DEF UserEdits
    <3> HIDE DEF x
    <3> QED
      BY <2>2, <3>2, <3>3
  <2> QED
    BY <2>1, <2>3, <2>4
<1>2. VersionChain'
  <2>1. Versioned(cr')
    BY <1>1, CRFields
  <2> QED
    BY <1>1, <2>1, ChainTouched DEF SchemaInv, VersionChain, reconcileVars
<1>3. TypeOK'
  BY <1>1 DEF SchemaInv, TypeOK, reconcileVars, dbVars, worldVars
<1>4. ReleasedSchemaIsGone'
  <2>1. released.uid <= cached.uid /\ cached.uid <= cr.uid /\ cr.uid \in Nat /\ cached.uid \in Nat
    BY DEF SchemaInv, VersionChain, Chain, Stores, Precedes, Versioned
  <2>2. cr'.uid \in {cr.uid, cr.uid + 1}
    BY <1>1 DEF Touched
  <2>3. cr'.uid = released.uid => cr.uid = released.uid
    BY <2>1, <2>2
  <2> QED
    BY <2>3 DEF SchemaInv, ReleasedSchemaIsGone, dbVars
<1> QED
  BY <1>1, <1>2, <1>3, <1>4
     DEF SchemaInv, SpecsAreWritten, Written, StepKnows, reconcileVars, dbVars

LEMMA OutsideStep ==
  ASSUME SchemaInv,
         \/ WatchEvent \/ Resync \/ ParentsComeAndGo \/ DatabaseComesAndGoes \/ ContentsChange
         \/ DroppedByHand \/ Restart \/ UNCHANGED vars
  PROVE  SchemaInv'
<1> USE TypedCopies DEF crVars, reconcileVars, dbVars, worldVars
<1>1. CASE WatchEvent
  <2>1. VersionChain'
    BY <1>1, ChainWatch DEF WatchEvent, SchemaInv, VersionChain
  <2>2. TypeOK'
    BY <1>1 DEF WatchEvent, SchemaInv, TypeOK
  <2> QED
    BY <1>1, <2>1, <2>2
       DEF WatchEvent, SchemaInv, SpecsAreWritten, Written, StepKnows, ReleasedSchemaIsGone
<1>2. CASE Resync \/ ParentsComeAndGo \/ ContentsChange \/ UNCHANGED vars
  <2>1. UNCHANGED <<product, crVars, reconcileVars, base, schemas, faults>>
    BY <1>2 DEF Resync, ParentsComeAndGo, ContentsChange, vars
  <2>2. queued' \in BOOLEAN /\ missing' \in Parents \cup {"nothing"} /\ full' \subseteq schemas
    BY <1>2 DEF Resync, ParentsComeAndGo, ContentsChange, vars, SchemaInv, TypeOK
  <2>3. TypeOK'
    BY <2>1, <2>2 DEF SchemaInv, TypeOK
  <2> QED
    BY <2>1, <2>3 DEF SchemaInv, VersionChain, SpecsAreWritten, Written, StepKnows, ReleasedSchemaIsGone
<1>3. CASE DatabaseComesAndGoes \/ DroppedByHand
  <2>1. /\ UNCHANGED <<crVars, queued, reconcileVars, worldVars>> /\ faults' \in Nat
        /\ schemas' \subseteq schemas /\ full' \subseteq schemas'
    <3>1. CASE DatabaseComesAndGoes
      BY <3>1, FaultCounts DEF DatabaseComesAndGoes
    <3>2. CASE DroppedByHand
      <4>1. PICK n \in schemas : schemas' = schemas \ {n} /\ full' = full \ {n}
        BY <3>2 DEF DroppedByHand
      <4> QED
        BY <3>2, <4>1, FaultCounts DEF DroppedByHand, SchemaInv, TypeOK
    <3> QED
      BY <1>3, <3>1, <3>2
  <2>2. base' \in BOOLEAN /\ (base' \/ schemas' = {})
    BY <1>3 DEF DatabaseComesAndGoes, DroppedByHand, SchemaInv, TypeOK
  <2>3. TypeOK'
    BY <2>1, <2>2 DEF SchemaInv, TypeOK
  <2> QED
    BY <2>1, <2>3 DEF SchemaInv, VersionChain, SpecsAreWritten, Written, StepKnows, ReleasedSchemaIsGone
<1>4. CASE Restart
  <2>1. /\ step' = "idle" /\ snap' = Absent /\ conn' = FALSE /\ cached' = cr /\ queued' \in BOOLEAN
        /\ UNCHANGED <<worldVars, cr, dbVars, released>> /\ faults' \in Nat
    BY <1>4, FaultCounts DEF Restart, Versioned
  <2>2. VersionChain'
    BY <2>1, ChainMoves DEF SchemaInv, VersionChain
  <2>3. TypeOK'
    BY <2>1, AbsentIsCR DEF SchemaInv, TypeOK, Steps
  <2> QED
    BY <2>1, <2>2, <2>3, AbsentIsWritten
       DEF SchemaInv, SpecsAreWritten, Written, StepKnows, ReleasedSchemaIsGone
<1> QED
  BY <1>1, <1>2, <1>3, <1>4

LEMMA SchemaInvStep == SchemaInv /\ [Next]_vars => SchemaInv'
<1> SUFFICES ASSUME SchemaInv, [Next]_vars PROVE SchemaInv'
  OBVIOUS
<1>1. CASE LoadObjFails
  BY <1>1, GivesUp DEF LoadObjFails
<1>2. CASE Reconcile
  BY <1>1, <1>2, LoadObjStep, SetStatusStep, CreateObjStep, EnsureFinalizerStep, RemoveObjStep,
     RemoveFinalizerStep DEF Reconcile
<1> QED
  BY <1>2, LoadStep, UserStep, OutsideStep DEF Next, Environment

LEMMA SchemaInvInit == Init => SchemaInv
<1> SUFFICES ASSUME Init PROVE SchemaInv
  OBVIOUS
<1>1. Absent.uid = 0 /\ Absent.rv = 0 /\ ~Absent.live /\ ~Absent.del /\ ~Absent.fin
  BY DEF Absent
<1>2. released.uid = 0 /\ released.dropped = FALSE /\ step = "idle"
  BY DEF Init
<1>3. TypeOK
  BY AbsentIsCR DEF Init, TypeOK, Steps, Parents
<1>4. VersionChain
  BY <1>1, <1>2, ChainStarts DEF Init, VersionChain
<1> QED
  BY <1>2, <1>3, <1>4, AbsentIsWritten
     DEF Init, SchemaInv, SpecsAreWritten, StepKnows, ReleasedSchemaIsGone

-----------------------------------------------------------------------------
(* CRs stay CRs, only schemas somebody asked for exist, none without the   *)
(* database, and no connection outlives its reconcile.  (CleanupConn.)     *)
THEOREM SchemaTypeCorrect == Spec => []TypeOK
<1>1. SchemaInv => TypeOK
  BY DEF SchemaInv
<1> QED
  BY <1>1, SchemaInvInit, SchemaInvStep, PTL DEF Spec

(* A CR with drop_on_deletion that was released after a look at the        *)
(* database leaves no schema behind, whatever failed, was edited or was    *)
(* restarted before.  (RemoveObj before RemoveFinalizer.)                  *)
THEOREM ReleasedSchemaIsGoneHolds == Spec => []ReleasedSchemaIsGone
<1>1. SchemaInv => ReleasedSchemaIsGone
  BY DEF SchemaInv
<1> QED
  BY <1>1, SchemaInvInit, SchemaInvStep, PTL DEF Spec
=============================================================================
