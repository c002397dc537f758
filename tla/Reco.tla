-------------------------------- MODULE Reco --------------------------------
(***************************************************************************)
(* What every controller of the operator shares: custom resources (CRs) as *)
(* the Kubernetes API server keeps them, and the decisions of the generic  *)
(* loop Reco.Reconcile (controllers/reconcilable.go).                      *)
(*                                                                         *)
(* A CR is a record with at least the fields                               *)
(*   live    the object exists                                             *)
(*   uid     metadata.uid: which incarnation of the name                   *)
(*   rv      metadata.resourceVersion                                      *)
(*   del     metadata.deletionTimestamp is set                             *)
(*   fin     DB_OPERATOR_FINALIZER is present                              *)
(*   other   a finalizer of somebody else is present                       *)
(* A CR that has disappeared keeps its record, with live = FALSE, so that  *)
(* the next incarnation of the name gets a fresh uid and rv.               *)
(***************************************************************************)
EXTENDS Naturals

-----------------------------------------------------------------------------
(* The API server.                                                         *)

(* Storing a new version: a marked object without finalizers disappears.   *)
Stored(o) ==
    LET next == [o EXCEPT !.rv = @ + 1]
    IN  [next EXCEPT !.live = ~o.del \/ o.fin \/ o.other]

(* kubectl delete.                                                         *)
Deleted(o) == Stored([o EXCEPT !.del = TRUE])

(* client.Update is accepted only if the caller holds the latest version.  *)
UpToDate(stored, snapshot) == stored.live /\ stored.rv = snapshot.rv

(* An update that changes nothing produces no new version.                 *)
Put(stored, new) == IF new = stored THEN stored ELSE Stored(new)

-----------------------------------------------------------------------------
(* The generic loop.                                                       *)

(* What AddFinalizer and RemoveFinalizer make of the CR in memory.         *)
WithFinalizer(o)    == [o EXCEPT !.fin = TRUE]
WithoutFinalizer(o) == [o EXCEPT !.fin = FALSE]

(* Faulty variants, which the properties must tell from Dispatch.          *)
DispatchWithoutFinalizerCheck(cr, exists) ==
    IF cr.del THEN (IF exists THEN "removeObj" ELSE "removeFinalizer")
    ELSE (IF exists THEN "ensureCorrect" ELSE "createObj")

DispatchCreatesMarked(cr, exists) ==
    CASE exists /\ cr.del /\ cr.fin  -> "removeObj"
      [] exists /\ cr.del /\ ~cr.fin -> "idle"
      [] exists /\ ~cr.del           -> "ensureCorrect"
      [] ~exists                     -> "createObj"

DispatchWithoutMarkCheck(cr, exists) ==
    CASE exists /\ cr.fin    -> "removeObj"
      [] exists /\ ~cr.fin   -> "ensureCorrect"
      [] ~exists /\ cr.del   -> "removeFinalizer"
      [] ~exists /\ ~cr.del  -> "createObj"

(* The step Reconcile takes once LoadObj has told whether the managed      *)
(* object exists.                                                          *)
Dispatch(cr, exists) ==
    CASE exists /\ cr.del /\ cr.fin   -> "removeObj"
      [] exists /\ cr.del /\ ~cr.fin  -> "idle"
      [] exists /\ ~cr.del            -> "ensureCorrect"
      [] ~exists /\ cr.del            -> "removeFinalizer"
      [] ~exists /\ ~cr.del           -> "createObj"
=============================================================================
