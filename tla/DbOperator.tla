----------------------------- MODULE DbOperator -----------------------------
(***************************************************************************)
(* The Db controller and the DbServer controller in one operator process.  *)
(* They meet at three places: the databases on the server, the DbServer CR *)
(* in the shared watch cache, and the channel on which NotifyChanges wakes *)
(* the DbServer controller.  main.go starts both; a restart stops both.    *)
(***************************************************************************)
EXTENDS Reco

CONSTANTS Db, DbNames, DbName, LostReplies, CascadeSupported, Cascades, OtherFinalizers,
          MaxUid, MaxSrvUid, MaxEditRv, MaxChangeRv, MaxFaults

ASSUME DbAssumption == DbName \in [Db -> DbNames]
ASSUME FlagAssumption == /\ LostReplies \in BOOLEAN /\ CascadeSupported \in BOOLEAN
                         /\ Cascades \subseteq BOOLEAN /\ OtherFinalizers \subseteq BOOLEAN
ASSUME BoundAssumption == /\ MaxUid \in Nat /\ MaxSrvUid \in Nat
                          /\ MaxEditRv \in Nat /\ MaxFaults \in Nat

VARIABLES api, cache, queue, pc, snap, released,               \* Db controller
          srv, srvCache, srvPc, srvSnap, target, retry,        \* DbServer controller
          dbs, srvQueue, faults                                \* shared

dbVars == <<api, cache, queue, pc, snap, released>>
srvVars == <<srv, srvCache, srvPc, srvSnap, target, retry>>
vars == <<dbVars, srvVars, dbs, srvQueue, faults>>

(* The Db controller sees the DbServer CR through the cache.               *)
D == INSTANCE DbController WITH serverSeen <- srvCache.live, ServerMayVanish <- TRUE

(* The DbServer controller is owed a notification while a Db reconcile is  *)
(* about to call NotifyChanges.                                            *)
S == INSTANCE DbServerController
         WITH toNotify <- \E k \in Db : pc[k] \in {"notifyCreated", "notifyRemoved"},
              Unreported <- LostReplies, MaxUid <- MaxSrvUid

Init == S!SrvInit /\ D!Init

DbStep(k) == /\ UNCHANGED srvVars
             /\ D!LoadCR(k) \/ D!Reconcile(k) \/ D!Environment(k)

SrvStep == /\ UNCHANGED dbVars
           /\ S!SrvLoad \/ S!SrvReconcile \/ S!SrvEnvironment

(* mgr.Start: both controllers list their objects again.                   *)
Restart == srvCache' = srv /\ D!Restart /\ S!SrvRestart

Next == (\E k \in Db : DbStep(k)) \/ SrvStep \/ Restart

Spec == Init /\ [][Next]_vars

(* No reconcile of either controller goes on for ever, the DbServer's key  *)
(* is taken from the queue and events of the DbServer reach the cache.     *)
(* (Weak fairness of the steps implies it; that no reconcile can get stuck *)
(* halfway is checked in the two components, under weak fairness.)         *)
Fairness ==
    /\ \A k \in Db : []<>(pc[k] = "idle")
    /\ []<>(srvPc = "idle")
    /\ []<>(~srvQueue)
    /\ []<>(srvCache = srv)

FairSpec == Spec /\ Fairness

-----------------------------------------------------------------------------
(* Properties.                                                             *)

(* The Db controller running beside the real DbServer controller is the Db *)
(* controller of module DbController: everything it may see of DbServer    *)
(* CRs and of the other controller's queue is covered there.               *)
RefinesDbController == D!Spec

(* Likewise the DbServer controller beside the real Db controller is that  *)
(* of module DbServerController: every CREATE and DROP the Db controller   *)
(* knows to have succeeded is followed by a notification, or a restart.    *)
RefinesDbServerController == S!Spec

(* With DbServer CRs deleted and created by their owners and let go by the *)
(* real controller, a database is still dropped only in answer to the      *)
(* deletion of its Db.  (DbController proves it for any DbServer side.)    *)
OperatorDropsAnswerDeletions == D!DropsAnswerDeletions

(* Put together, the status of a DbServer that stays lists exactly the     *)
(* databases that exist, in the end (see DbServerController).              *)
OperatorStatusConverges ==
    <>[](srv.live /\ ~srv.del)
        => <>[](\/ srv.status = S!Connected(dbs)
                \/ srv.status.msg = "reading users failed" /\ faults > 1)
=============================================================================
