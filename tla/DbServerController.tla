------------------------- MODULE DbServerController -------------------------
(***************************************************************************)
(* The DbServer controller (controllers/dbserver_controller.go) for one    *)
(* DbServer CR: it connects to the database server, lists its databases    *)
(* and users and publishes the result in the status of the CR.  It is      *)
(* woken by events of the CR and, through reconcileDbServerChannel, by the *)
(* Db and User controllers.  The list of users is handled exactly as the   *)
(* list of databases and is left out of the status; that reading it may    *)
(* fail is not.                                                            *)
(***************************************************************************)
EXTENDS Reco

CONSTANTS
    DbNames,      \* names of databases
    LostReplies,  \* may a failed update have taken effect?
    Unreported,   \* may a failed CREATE or DROP have taken effect?
    MaxUid,       \* bound: incarnations of the DbServer CR
    MaxChangeRv,  \* bound: databases change only below this version of the CR
    MaxFaults     \* bound: failed calls and restarts

VARIABLES
    srv,       \* the DbServer CR as the API server stores it
    srvCache,  \* the DbServer CR as the watch cache shows it
    srvQueue,  \* is its key in the work queue, or waiting for a RequeueAfter?
    srvPc,     \* the step of its reconcile
    srvSnap,   \* the CR as Reconcile read it
    target,    \* the status SetStatus is to publish
    retry,     \* does Reconcile ask for a retry even if SetStatus succeeds?
    dbs,       \* databases that exist on the database server
    toNotify,  \* a Db reconcile has yet to call NotifyChanges
    faults     \* failures so far

srvVars == <<srv, srvCache, srvPc, srvSnap, target, retry>>
vars == <<srvVars, srvQueue, dbs, toNotify, faults>>

(* DbServerStatus; Databases and Message start out unset.                  *)
NewStatus(ok, names, msg) == [ok |-> ok, dbs |-> names, msg |-> msg]
NoStatus == NewStatus(FALSE, {}, "unset")

NoServer == [live |-> FALSE, uid |-> 0, rv |-> 0, del |-> FALSE, fin |-> FALSE,
             other |-> FALSE, status |-> NoStatus]

(* What a reconcile that found everything publishes.                       *)
Connected(names) == NewStatus(TRUE, names, "connected")

SrvInit ==
    /\ srv = NoServer
    /\ srvCache = NoServer
    /\ srvQueue = FALSE
    /\ srvPc = "idle"
    /\ srvSnap = NoServer
    /\ target = NoStatus
    /\ retry = FALSE

-----------------------------------------------------------------------------
SrvFault == /\ faults < MaxFaults
            /\ faults' = faults + 1

(* Reconcile returns; retry: with GradualBackoffRetry or RetryAfter.       *)
SrvReturn(again) ==
    /\ srvPc' = "idle"
    /\ srvSnap' = NoServer
    /\ target' = NoStatus
    /\ retry' = FALSE
    /\ srvQueue' = (srvQueue \/ again)

SrvGoto(step) ==
    /\ srvPc' = step
    /\ UNCHANGED <<srvSnap, target, retry, srvQueue>>

(* Go on to SetStatus with a new status.                                   *)
Publish(status, again) ==
    /\ srvPc' = "setStatus"
    /\ target' = status
    /\ retry' = again
    /\ UNCHANGED <<srvSnap, srvQueue>>

(* Reconcile reads the CR from the cache; a missing CR is the end.         *)
SrvLoad ==
    /\ srvQueue /\ srvPc = "idle"
    /\ srvQueue' = FALSE
    /\ IF srvCache.live
       THEN /\ srvPc' = IF srvCache.del THEN "removeFinalizer" ELSE "connect"
            /\ srvSnap' = srvCache
       ELSE UNCHANGED <<srvPc, srvSnap>>
    /\ UNCHANGED <<srv, srvCache, target, retry, dbs, toNotify, faults>>

(* Faulty: no retry after a failed connection.                             *)
ConnectGivesUp ==
    /\ srvPc = "connect"
    /\ \/ SrvGoto("getDbs") /\ UNCHANGED faults
       \/ SrvFault /\ Publish(NewStatus(FALSE, {}, ""), FALSE)
    /\ UNCHANGED <<srv, srvCache, dbs, toNotify>>

(* The message of a failed connection is still empty when it is published. *)
Connect ==
    /\ srvPc = "connect"
    /\ \/ SrvGoto("getDbs") /\ UNCHANGED faults
       \/ SrvFault /\ Publish(NewStatus(FALSE, {}, ""), TRUE)
    /\ UNCHANGED <<srv, srvCache, dbs, toNotify>>

GetDbs ==
    /\ srvPc = "getDbs"
    /\ \/ /\ srvPc' = "getUsers"
          /\ target' = Connected(dbs)
          /\ UNCHANGED <<srvSnap, retry, srvQueue, faults>>
       \/ SrvFault /\ Publish(NewStatus(FALSE, {}, "reading databases failed"), TRUE)
    /\ UNCHANGED <<srv, srvCache, dbs, toNotify>>

(* The only failure after which Reconcile does not ask for a retry.        *)
GetUsers ==
    /\ srvPc = "getUsers"
    /\ \/ Publish(target, FALSE) /\ UNCHANGED faults
       \/ SrvFault /\ Publish(NewStatus(FALSE, target.dbs, "reading users failed"), FALSE)
    /\ UNCHANGED <<srv, srvCache, dbs, toNotify>>

(* The write SetStatus makes: adding the finalizer is an update of the     *)
(* object, which leaves its status subresource as it was.                  *)
StatusWrite ==
    IF ~srvSnap.fin THEN Put(srv, WithFinalizer(srvSnap))
    ELSE Put(srv, [srvSnap EXCEPT !.status = target])

StatusNeedsWrite == ~srvSnap.fin \/ srvSnap.status # target

SetStatus ==
    /\ srvPc = "setStatus"
    /\ \/ /\ ~StatusNeedsWrite
          /\ SrvReturn(retry)
          /\ UNCHANGED <<srv, faults>>
       \/ /\ StatusNeedsWrite /\ UpToDate(srv, srvSnap)
          /\ srv' = StatusWrite
          /\ SrvReturn(retry)
          /\ UNCHANGED faults
       \/ /\ StatusNeedsWrite /\ ~UpToDate(srv, srvSnap)
          /\ SrvReturn(TRUE)
          /\ UNCHANGED <<srv, faults>>
       \/ /\ StatusNeedsWrite /\ SrvFault
          /\ \/ UNCHANGED srv
             \/ LostReplies /\ UpToDate(srv, srvSnap) /\ srv' = StatusWrite
          /\ SrvReturn(TRUE)
    /\ UNCHANGED <<srvCache, dbs, toNotify>>

(* Faulty: no retry after a failed update.                                 *)
SrvRemoveFinalizerGivesUp ==
    /\ srvPc = "removeFinalizer"
    /\ \/ /\ UpToDate(srv, srvSnap)
          /\ srv' = Put(srv, WithoutFinalizer(srvSnap))
          /\ UNCHANGED faults
       \/ SrvFault /\ UNCHANGED srv
    /\ SrvReturn(FALSE)
    /\ UNCHANGED <<srvCache, dbs, toNotify>>

(* A marked DbServer is let go at once, whatever still depends on it.      *)
SrvRemoveFinalizer ==
    /\ srvPc = "removeFinalizer"
    /\ \/ /\ UpToDate(srv, srvSnap)
          /\ srv' = Put(srv, WithoutFinalizer(srvSnap))
          /\ SrvReturn(FALSE)
          /\ UNCHANGED faults
       \/ /\ ~UpToDate(srv, srvSnap)
          /\ SrvReturn(TRUE)
          /\ UNCHANGED <<srv, faults>>
       \/ /\ SrvFault
          /\ \/ UNCHANGED srv
             \/ /\ LostReplies /\ UpToDate(srv, srvSnap)
                /\ srv' = Put(srv, WithoutFinalizer(srvSnap))
          /\ SrvReturn(TRUE)
    /\ UNCHANGED <<srvCache, dbs, toNotify>>

SrvReconcile == Connect \/ GetDbs \/ GetUsers \/ SetStatus \/ SrvRemoveFinalizer

-----------------------------------------------------------------------------
(* The cluster around the controller.                                      *)

OwnerCreates ==
    /\ ~srv.live /\ srv.uid < MaxUid
    /\ srv' = [NoServer EXCEPT !.live = TRUE, !.uid = srv.uid + 1, !.rv = srv.rv + 1]
    /\ UNCHANGED <<srvCache, srvQueue, srvPc, srvSnap, target, retry, dbs, toNotify, faults>>

OwnerDeletes ==
    /\ srv.live /\ ~srv.del
    /\ srv' = Deleted(srv)
    /\ UNCHANGED <<srvCache, srvQueue, srvPc, srvSnap, target, retry, dbs, toNotify, faults>>

SrvWatchEvent ==
    /\ srvCache # srv
    /\ srvCache' = srv
    /\ srvQueue' = TRUE
    /\ UNCHANGED <<srv, srvPc, srvSnap, target, retry, dbs, toNotify, faults>>

SrvRestart ==
    /\ SrvFault
    /\ srvCache' = srv
    /\ srvQueue' = srv.live
    /\ srvPc' = "idle"
    /\ srvSnap' = NoServer
    /\ target' = NoStatus
    /\ retry' = FALSE
    /\ toNotify' = FALSE
    /\ UNCHANGED <<srv, dbs>>

SrvEnvironment == OwnerCreates \/ OwnerDeletes \/ SrvWatchEvent

(* What the Db controller does, as far as this controller can tell: after  *)
(* a CREATE or DROP that it knows to have succeeded it calls NotifyChanges,*)
(* unless the operator stops first; a failed call may leave a change that  *)
(* nobody reports.                                                         *)
DbControllerSide ==
    /\ \/ /\ srv.rv < MaxChangeRv
          /\ dbs' \in SUBSET DbNames
          /\ toNotify' = TRUE
          /\ UNCHANGED <<srvQueue, faults>>
       \/ /\ toNotify /\ toNotify' = FALSE
          /\ srvQueue' = (srvQueue \/ srvCache.live)
          /\ UNCHANGED <<dbs, faults>>
       \/ /\ SrvFault
          /\ UNCHANGED dbs \/ (Unreported /\ dbs' \in SUBSET DbNames)
          /\ UNCHANGED <<toNotify, srvQueue>>
    /\ UNCHANGED srvVars

-----------------------------------------------------------------------------
Init ==
    /\ SrvInit
    /\ dbs \in SUBSET DbNames
    /\ toNotify = FALSE
    /\ faults = 0

Next == SrvLoad \/ SrvReconcile \/ SrvEnvironment \/ SrvRestart \/ DbControllerSide

Spec == Init /\ [][Next]_vars

(* Reconciles run to their end, a queued key is taken, watch events arrive *)
(* and a Db reconcile that owes a notification gets round to it.           *)
Fairness ==
    /\ WF_vars(SrvReconcile)
    /\ WF_vars(SrvLoad)
    /\ WF_vars(SrvWatchEvent)
    /\ WF_vars(DbControllerSide /\ ~toNotify')

FairSpec == Spec /\ Fairness

-----------------------------------------------------------------------------
(* Properties.                                                             *)

(* The status of a DbServer that stays lists exactly the databases that    *)
(* exist, once these no longer change, without the help of the periodic    *)
(* resync: failed connections, failed listings, conflicting updates and    *)
(* restarts all lead to another attempt, and no change reported while a    *)
(* reconcile is under way is missed.  The one exception is a failure to    *)
(* list the users that repeats: GetUsers asks for no retry, and a second   *)
(* failure finds the message of the first one in place and writes nothing. *)
(* A single failure never leaves the status behind.                        *)
(* (Needs ~Unreported: a CREATE whose reply is lost is never reported.)    *)
StatusConverges ==
    \A names \in SUBSET DbNames :
        <>[](srv.live /\ ~srv.del /\ dbs = names)
            => <>[](\/ srv.status = Connected(names)
                    \/ srv.status.msg = "reading users failed" /\ faults > 1)

(* A DbServer that is marked for deletion disappears in the end, whatever  *)
(* step the reconcile had reached, and SetStatus never holds it up.        *)
DeletedServerGoes == (srv.live /\ srv.del) ~> ~srv.live
=============================================================================
