---------------------------- MODULE DbController ----------------------------
(***************************************************************************)
(* The Db controller (controllers/db_controller.go) driven by the generic  *)
(* loop Reco.Reconcile (controllers/reconcilable.go): it keeps one         *)
(* database on a database server for every Db custom resource.             *)
(*                                                                         *)
(* One reconcile is a sequence of atomic steps, one for each call that     *)
(* reads or changes something outside the process: users, the watch cache, *)
(* other controllers and a restart of the operator interleave with them.   *)
(* Reads of CRs come from the watch cache, which lags behind the API       *)
(* server; writes go to the API server and carry the version that was read.*)
(***************************************************************************)
EXTENDS Reco

(* Db CRs.                                                                 *)
CR == [live : BOOLEAN, uid : Nat, rv : Nat, del : BOOLEAN, fin : BOOLEAN,
       other : BOOLEAN,
       drop : BOOLEAN,      \* spec.drop_on_deletion
       cascade : BOOLEAN]   \* spec.cascade_on_drop

Absent == [live |-> FALSE, uid |-> 0, rv |-> 0, del |-> FALSE,
           fin |-> FALSE, other |-> FALSE, drop |-> FALSE, cascade |-> FALSE]

(* kubectl create: a new incarnation of the name.                          *)
Created(o, drop, cascade, other) ==
    [live |-> TRUE, uid |-> o.uid + 1, rv |-> o.rv + 1, del |-> FALSE,
     fin |-> FALSE, other |-> other, drop |-> drop, cascade |-> cascade]

CONSTANTS
    Db,               \* names of Db CRs (work queue keys)
    DbNames,          \* names of databases
    DbName,           \* DbName[k]: spec.db_name of the CR k
    ServerMayVanish,  \* may the DbServer CR be removed and put back?
    LostReplies,      \* may a failed call have taken effect?
    CascadeSupported, \* is the server a CockroachDB, where DROP may CASCADE?
    Cascades,         \* the values of cascade_on_drop that users write
    OtherFinalizers,  \* may CRs carry finalizers of somebody else?
    MaxUid,           \* bound: incarnations of one CR name
    MaxEditRv,        \* bound: users edit a spec only below this version
    MaxFaults         \* bound: failed calls and restarts

ASSUME DbAssumption == DbName \in [Db -> DbNames]
ASSUME FlagAssumption == /\ ServerMayVanish \in BOOLEAN
                         /\ LostReplies \in BOOLEAN
                         /\ CascadeSupported \in BOOLEAN
                         /\ Cascades \subseteq BOOLEAN
                         /\ OtherFinalizers \subseteq BOOLEAN
ASSUME BoundAssumption == MaxUid \in Nat /\ MaxEditRv \in Nat /\ MaxFaults \in Nat

VARIABLES
    api,         \* the Db CRs as the API server stores them
    cache,       \* the Db CRs as the operator's watch cache shows them
    queue,       \* work queue: keys that are ready or wait for a RequeueAfter
    pc,          \* the step of the reconcile of each key
    snap,        \* DbReco.db: the CR as LoadCR read it
    dbs,         \* databases that exist on the database server
    serverSeen,  \* does the cache show the DbServer CR the specs name?
    srvQueue,    \* is the DbServer's key in the DbServer controller's queue?
    released,    \* history: the last version whose finalizer the operator removed
    faults       \* failures so far

vars == <<api, cache, queue, pc, snap, dbs, serverSeen, srvQueue, released, faults>>

Steps == {"idle", "loadObj", "createObj", "notifyCreated", "ensureFinalizer",
          "removeObj", "notifyRemoved", "removeFinalizer"}

TypeOK ==
    /\ api \in [Db -> CR]
    /\ cache \in [Db -> CR]
    /\ queue \in SUBSET Db
    /\ pc \in [Db -> Steps]
    /\ snap \in [Db -> CR]
    /\ dbs \in SUBSET DbNames
    /\ serverSeen \in BOOLEAN
    /\ srvQueue \in BOOLEAN
    /\ released \in [Db -> CR]
    /\ faults \in Nat

(* The operator starts with an empty cluster; databases made by hand may   *)
(* already exist and will be adopted.                                      *)
Init ==
    /\ api = [k \in Db |-> Absent]
    /\ cache = [k \in Db |-> Absent]
    /\ queue = {}
    /\ pc = [k \in Db |-> "idle"]
    /\ snap = [k \in Db |-> Absent]
    /\ dbs \in SUBSET DbNames
    /\ serverSeen \in BOOLEAN /\ (ServerMayVanish \/ serverSeen)
    /\ srvQueue = FALSE
    /\ released = [k \in Db |-> Absent]
    /\ faults = 0

-----------------------------------------------------------------------------
(* Leaving a step.                                                         *)

Goto(k, step) ==
    /\ pc' = [pc EXCEPT ![k] = step]
    /\ UNCHANGED <<queue, snap>>

(* Reconcile returns ctrl.Result{}.                                        *)
Done(k) ==
    /\ pc' = [pc EXCEPT ![k] = "idle"]
    /\ snap' = [snap EXCEPT ![k] = Absent]
    /\ UNCHANGED queue

(* Reconcile returns GradualBackoffRetry or RetryAfter: the key comes back.*)
Backoff(k) ==
    /\ pc' = [pc EXCEPT ![k] = "idle"]
    /\ snap' = [snap EXCEPT ![k] = Absent]
    /\ queue' = queue \cup {k}

Fault == /\ faults < MaxFaults
         /\ faults' = faults + 1

-----------------------------------------------------------------------------
(* One reconcile.                                                          *)

(* The single worker takes a key and LoadCR reads the CR from the cache.   *)
(* For a CR that is gone LoadCR itself asks for a retry, so the key stays. *)
LoadCR(k) ==
    /\ k \in queue
    /\ \A j \in Db : pc[j] = "idle"
    /\ IF cache[k].live
       THEN /\ queue' = queue \ {k}
            /\ pc' = [pc EXCEPT ![k] = "loadObj"]
            /\ snap' = [snap EXCEPT ![k] = cache[k]]
       ELSE UNCHANGED <<queue, pc, snap>>
    /\ UNCHANGED <<api, cache, dbs, serverSeen, srvQueue, released, faults>>

(* Faulty: EnsureCorrect is not followed by EnsureFinalizer.               *)
ContinueUnmapped(k, exists, connected) ==
    LET step == Dispatch(snap[k], exists)
    IN  IF step = "idle" THEN Done(k) ELSE Goto(k, step)

(* The reconcile goes on to the step Dispatch chose.  EnsureCorrect does   *)
(* nothing for a Db; CreateObj without a connection gives up at once.      *)
Continue(k, exists, connected) ==
    LET step == Dispatch(snap[k], exists)
    IN  CASE step = "idle" -> Done(k)
          [] step = "ensureCorrect" -> Goto(k, "ensureFinalizer")
          [] step = "createObj" /\ ~connected -> Backoff(k)
          [] OTHER -> Goto(k, step)

(* A DbServer that cannot be found counts as: the database does not exist. *)
LoadObj(k) ==
    /\ pc[k] = "loadObj"
    /\ Continue(k, serverSeen /\ DbName[k] \in dbs, serverSeen)
    /\ UNCHANGED <<api, cache, dbs, serverSeen, srvQueue, released, faults>>

(* No connection, failing GetDbs, or several DbServers to choose from.     *)
LoadObjFails(k) ==
    /\ pc[k] = "loadObj"
    /\ Fault
    /\ Backoff(k)
    /\ UNCHANGED <<api, cache, dbs, serverSeen, srvQueue, released>>

(* Faulty: the DbServer controller is not told.                            *)
CreateObjSilently(k) ==
    /\ pc[k] = "createObj"
    /\ dbs' = dbs \cup {DbName[k]}
    /\ Goto(k, "ensureFinalizer")
    /\ UNCHANGED <<api, cache, serverSeen, srvQueue, released, faults>>

CreateObj(k) ==
    /\ pc[k] = "createObj"
    /\ dbs' = dbs \cup {DbName[k]}
    /\ Goto(k, "notifyCreated")
    /\ UNCHANGED <<api, cache, serverSeen, srvQueue, released, faults>>

(* Faulty: the error of CREATE DATABASE is swallowed.                      *)
CreateObjErrorIgnored(k) ==
    /\ pc[k] = "createObj"
    /\ Fault
    /\ Goto(k, "ensureFinalizer")
    /\ UNCHANGED <<api, cache, dbs, serverSeen, srvQueue, released>>

CreateObjFails(k) ==
    /\ pc[k] = "createObj"
    /\ Fault
    /\ \/ UNCHANGED dbs
       \/ LostReplies /\ dbs' = dbs \cup {DbName[k]}
    /\ Backoff(k)
    /\ UNCHANGED <<api, cache, serverSeen, srvQueue, released>>

(* Faulty: the event is never sent.                                        *)
NotifyNobody(k) ==
    /\ pc[k] \in {"notifyCreated", "notifyRemoved"}
    /\ Goto(k, IF pc[k] = "notifyCreated" THEN "ensureFinalizer" ELSE "removeFinalizer")
    /\ UNCHANGED <<api, cache, dbs, serverSeen, srvQueue, released, faults>>

(* NotifyChanges, then AfterCreateSQL, whose failure is only logged.       *)
NotifyChanges(k) ==
    /\ pc[k] \in {"notifyCreated", "notifyRemoved"}
    /\ srvQueue' = (srvQueue \/ serverSeen)
    /\ Goto(k, IF pc[k] = "notifyCreated" THEN "ensureFinalizer" ELSE "removeFinalizer")
    /\ UNCHANGED <<api, cache, dbs, serverSeen, released, faults>>

(* EnsureFinalizer only writes if the finalizer was missing in the CR read.*)
EnsureFinalizer(k) ==
    /\ pc[k] = "ensureFinalizer"
    /\ \/ /\ snap[k].fin
          /\ Done(k)
          /\ UNCHANGED api
       \/ /\ ~snap[k].fin /\ UpToDate(api[k], snap[k])
          /\ api' = [api EXCEPT ![k] = Put(api[k], WithFinalizer(snap[k]))]
          /\ Done(k)
       \/ /\ ~snap[k].fin /\ ~UpToDate(api[k], snap[k])
          /\ Backoff(k)
          /\ UNCHANGED api
    /\ UNCHANGED <<cache, dbs, serverSeen, srvQueue, released, faults>>

(* Faulty: no retry after a failed update.                                 *)
EnsureFinalizerGivesUp(k) ==
    /\ pc[k] = "ensureFinalizer" /\ ~snap[k].fin
    /\ Fault
    /\ Done(k)
    /\ UNCHANGED <<api, cache, dbs, serverSeen, srvQueue, released>>

EnsureFinalizerFails(k) ==
    /\ pc[k] = "ensureFinalizer" /\ ~snap[k].fin
    /\ Fault
    /\ \/ UNCHANGED api
       \/ /\ LostReplies /\ UpToDate(api[k], snap[k])
          /\ api' = [api EXCEPT ![k] = Put(api[k], WithFinalizer(snap[k]))]
    /\ Backoff(k)
    /\ UNCHANGED <<cache, dbs, serverSeen, srvQueue, released>>

(* DropDb returns an error before it talks to the server: only CockroachDB *)
(* knows DROP DATABASE ... CASCADE.                                        *)
DropRefused(o) == o.drop /\ o.cascade /\ ~CascadeSupported

RemoveObj(k) ==
    /\ pc[k] = "removeObj" /\ ~DropRefused(snap[k])
    /\ dbs' = IF snap[k].drop THEN dbs \ {DbName[k]} ELSE dbs
    /\ Goto(k, "notifyRemoved")
    /\ UNCHANGED <<api, cache, serverSeen, srvQueue, released, faults>>

(* Faulty: the error of DROP DATABASE is swallowed.                        *)
RemoveObjErrorIgnored(k) ==
    /\ pc[k] = "removeObj" /\ snap[k].drop
    /\ Fault
    /\ Goto(k, "removeFinalizer")
    /\ UNCHANGED <<api, cache, dbs, serverSeen, srvQueue, released>>

RemoveObjRefused(k) ==
    /\ pc[k] = "removeObj" /\ DropRefused(snap[k])
    /\ Backoff(k)
    /\ UNCHANGED <<api, cache, dbs, serverSeen, srvQueue, released, faults>>

RemoveObjFails(k) ==
    /\ pc[k] = "removeObj" /\ snap[k].drop
    /\ Fault
    /\ \/ UNCHANGED dbs
       \/ LostReplies /\ ~DropRefused(snap[k]) /\ dbs' = dbs \ {DbName[k]}
    /\ Backoff(k)
    /\ UNCHANGED <<api, cache, serverSeen, srvQueue, released>>

(* The accepted update that takes the finalizer off the CR that was read.  *)
Release(k) ==
    /\ UpToDate(api[k], snap[k])
    /\ api' = [api EXCEPT ![k] = Put(api[k], WithoutFinalizer(snap[k]))]
    /\ released' = IF snap[k].fin THEN [released EXCEPT ![k] = snap[k]] ELSE released

RemoveFinalizer(k) ==
    /\ pc[k] = "removeFinalizer"
    /\ \/ /\ Release(k)
          /\ Done(k)
       \/ /\ ~UpToDate(api[k], snap[k])
          /\ Backoff(k)
          /\ UNCHANGED <<api, released>>
    /\ UNCHANGED <<cache, dbs, serverSeen, srvQueue, faults>>

(* Faulty: no retry after a failed update.                                 *)
RemoveFinalizerGivesUp(k) ==
    /\ pc[k] = "removeFinalizer"
    /\ Fault
    /\ Done(k)
    /\ UNCHANGED <<api, cache, dbs, serverSeen, srvQueue, released>>

RemoveFinalizerFails(k) ==
    /\ pc[k] = "removeFinalizer"
    /\ Fault
    /\ \/ UNCHANGED <<api, released>>
       \/ LostReplies /\ Release(k)
    /\ Backoff(k)
    /\ UNCHANGED <<cache, dbs, serverSeen, srvQueue>>

Reconcile(k) ==
    \/ LoadObj(k) \/ LoadObjFails(k)
    \/ CreateObj(k) \/ CreateObjFails(k)
    \/ NotifyChanges(k)
    \/ EnsureFinalizer(k) \/ EnsureFinalizerFails(k)
    \/ RemoveObj(k) \/ RemoveObjRefused(k) \/ RemoveObjFails(k)
    \/ RemoveFinalizer(k) \/ RemoveFinalizerFails(k)

-----------------------------------------------------------------------------
(* The cluster around the operator.                                        *)

UserCreates(k) ==
    /\ ~api[k].live /\ api[k].uid < MaxUid
    /\ \E drop \in BOOLEAN, cascade \in Cascades, other \in OtherFinalizers :
           api' = [api EXCEPT ![k] = Created(api[k], drop, cascade, other)]
    /\ UNCHANGED <<cache, queue, pc, snap, dbs, serverSeen, srvQueue, released, faults>>

UserDeletes(k) ==
    /\ api[k].live /\ ~api[k].del
    /\ api' = [api EXCEPT ![k] = Deleted(api[k])]
    /\ UNCHANGED <<cache, queue, pc, snap, dbs, serverSeen, srvQueue, released, faults>>

(* Users may change drop_on_deletion and cascade_on_drop at any time, even *)
(* while the CR waits for its finalizer to go.                             *)
UserEdits(k) ==
    /\ api[k].live /\ api[k].rv < MaxEditRv
    /\ \E drop \in BOOLEAN, cascade \in Cascades :
           /\ drop # api[k].drop \/ cascade # api[k].cascade
           /\ api' = [api EXCEPT ![k] = Stored([api[k] EXCEPT !.drop = drop,
                                                             !.cascade = cascade])]
    /\ UNCHANGED <<cache, queue, pc, snap, dbs, serverSeen, srvQueue, released, faults>>

OtherFinalizerGoes(k) ==
    /\ api[k].live /\ api[k].del /\ api[k].other
    /\ api' = [api EXCEPT ![k] = Stored([api[k] EXCEPT !.other = FALSE])]
    /\ UNCHANGED <<cache, queue, pc, snap, dbs, serverSeen, srvQueue, released, faults>>

(* A watch event reaches the cache and puts the key in the queue.          *)
WatchEvent(k) ==
    /\ cache[k] # api[k]
    /\ cache' = [cache EXCEPT ![k] = api[k]]
    /\ queue' = queue \cup {k}
    /\ UNCHANGED <<api, pc, snap, dbs, serverSeen, srvQueue, released, faults>>

(* The informer's periodic resync queues every cached key again.           *)
Resync(k) ==
    /\ cache[k].live /\ k \notin queue
    /\ queue' = queue \cup {k}
    /\ UNCHANGED <<api, cache, pc, snap, dbs, serverSeen, srvQueue, released, faults>>

(* What the DbServer controller and the owners of DbServer CRs do, as far  *)
(* as this controller can tell.                                            *)
DbServerSide ==
    /\ serverSeen' \in BOOLEAN /\ (ServerMayVanish \/ serverSeen' = serverSeen)
    /\ srvQueue' \in BOOLEAN
    /\ UNCHANGED faults \/ Fault
    /\ UNCHANGED <<api, cache, queue, pc, snap, dbs, released>>

(* The operator stops at any step and starts again: caches are listed      *)
(* afresh, and every object that exists is queued.                         *)
Restart ==
    /\ Fault
    /\ cache' = api
    /\ queue' = {k \in Db : api[k].live}
    /\ pc' = [k \in Db |-> "idle"]
    /\ snap' = [k \in Db |-> Absent]
    /\ serverSeen' \in BOOLEAN /\ (ServerMayVanish \/ serverSeen' = serverSeen)
    /\ srvQueue' = serverSeen'
    /\ UNCHANGED <<api, dbs, released>>

-----------------------------------------------------------------------------
Environment(k) ==
    \/ UserCreates(k) \/ UserDeletes(k) \/ UserEdits(k) \/ OtherFinalizerGoes(k)
    \/ WatchEvent(k) \/ Resync(k)

Next ==
    \/ \E k \in Db : LoadCR(k) \/ Reconcile(k) \/ Environment(k)
    \/ DbServerSide
    \/ Restart

Spec == Init /\ [][Next]_vars

(* A started reconcile runs to its end; the work queue is first-in         *)
(* first-out, so a key that keeps coming back is taken in the end; watch   *)
(* events arrive; other finalizers are removed in the end.  Nothing is     *)
(* assumed of users, of the resync, of failures or of restarts.            *)
Fairness ==
    \A k \in Db :
        /\ WF_vars(Reconcile(k))
        /\ SF_vars(LoadCR(k))
        /\ WF_vars(WatchEvent(k))
        /\ WF_vars(OtherFinalizerGoes(k))

FairSpec == Spec /\ Fairness
-----------------------------------------------------------------------------
(* Properties.                                                             *)

(* No two Db CRs name the same database.                                   *)
DistinctNames == \A j, k \in Db : DbName[j] = DbName[k] => j = k

(* While nobody removes the DbServer CR.                                   *)
Undisturbed == DistinctNames /\ ~ServerMayVanish

(* A database disappears only while the API server still holds a CR that   *)
(* names it, is marked for deletion and carries the finalizer: a RemoveObj *)
(* that works from a stale CR finds nothing left to drop.                  *)
(* (RemoveObj, LoadObj; needs Undisturbed.)                                *)
DropsOnlyTerminating ==
    [][\A d \in dbs \ dbs' : \E k \in Db :
           DbName[k] = d /\ api[k].live /\ api[k].del /\ api[k].fin]_vars

(* The database of a CR that carries the finalizer and is not marked for   *)
(* deletion exists: the finalizer is only added once the database is       *)
(* there, and no late RemoveObj of an earlier incarnation takes it away.   *)
(* (CreateObj before EnsureFinalizer; needs Undisturbed.)                  *)
ClaimedDbExists ==
    \A k \in Db : api[k].live /\ ~api[k].del /\ api[k].fin => DbName[k] \in dbs

(* Once the operator took its finalizer off a CR with drop_on_deletion, the*)
(* database is gone and stays away until the name is used again.           *)
(* (RemoveObj before RemoveFinalizer; needs Undisturbed.)                  *)
ReleasedDbIsGone ==
    \A k \in Db : released[k].drop /\ api[k].uid = released[k].uid
                      => DbName[k] \notin dbs

(* CreateObj never makes a database for an incarnation of a CR that the    *)
(* operator has already finalised, however stale the CR it works from is:  *)
(* some CR that names the database is newer than its last release.         *)
(* (LoadCR, CreateObj.)                                                    *)
NeverRecreated ==
    [][\A d \in dbs' \ dbs : \E k \in Db :
           DbName[k] = d /\ api[k].uid > released[k].uid]_vars

(* Even when CRs share a database and the DbServer CR comes and goes, a    *)
(* database is dropped only in answer to a deletion: of a CR that is still *)
(* there, or of one released with drop_on_deletion set (which happens when *)
(* the DbServer was missing at the time and is back now).  (RemoveObj.)    *)
DropsAnswerDeletions ==
    [][\A d \in dbs \ dbs' : \E k \in Db :
           /\ DbName[k] = d
           /\ (api[k].live /\ api[k].del) \/ (released[k].del /\ released[k].drop)]_vars

(* A CR that is marked for deletion disappears in the end, as every failed *)
(* drop, conflicting update and restart leads to another attempt; it stays *)
(* only if its database does and it asks for good for a DROP ... CASCADE   *)
(* on a server that is not a CockroachDB.  Taking cascade_on_drop or       *)
(* drop_on_deletion back frees it.  (RemoveObj, RemoveFinalizer.)          *)
TerminatingGoesOrRefused ==
    \A k \in Db : <>[](api[k].live /\ api[k].del)
                      => <>[](DropRefused(api[k]) /\ DbName[k] \in dbs)

(* A CR that stays gets its database and its finalizer in the end, without *)
(* the help of the periodic resync.                                        *)
StayingIsProvided ==
    \A k \in Db : <>[](api[k].live /\ ~api[k].del)
                      => <>[](api[k].fin /\ DbName[k] \in dbs)
=============================================================================
