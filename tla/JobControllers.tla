--------------------------- MODULE JobControllers ---------------------------
(***************************************************************************)
(* The six controllers that turn CRs into batch Jobs and CronJobs (the     *)
(* backup, restore and copy controllers of controllers/), each driven by   *)
(* the generic loop, and the ConfigMap with the scripts that all of them   *)
(* keep up to date (EnsureScripts).                                        *)
(*                                                                         *)
(* There is one CR of each kind in Kind, all of one name and namespace.  A *)
(* batch object bears the name of its CR, so kinds with the same class     *)
(* share it.  None of the controllers watches what it creates: batch       *)
(* objects and the ConfigMap are read from caches of their own.            *)
(***************************************************************************)
EXTENDS Reco

CONSTANTS
    Kind,             \* the kinds of CRs there are
    TargetMayVanish,  \* may the target of a CR (or its Db, storage) come and go?
    LostReplies,      \* may a failed call have taken effect?
    MaxUid,           \* bound: incarnations of one CR
    MaxEditRv,        \* bound: users touch a CR only below this version
    MaxStaleRv,       \* bound: batch objects are read late only below this version
    MaxFaults         \* bound: failed calls and restarts

(* What tells the controllers apart: what they create, whether they keep   *)
(* Exists in their status, whether LoadCR asks for a retry when the CR is  *)
(* gone, and whether RemoveObj writes the status even if Delete failed.    *)
Traits(class, status, retries, writes) ==
    [class |-> class, status |-> status, retries |-> retries, writes |-> writes]

BackupJob      == Traits("Job", FALSE, FALSE, FALSE)
RestoreJob     == Traits("Job", FALSE, FALSE, FALSE)
DbCopyJob      == Traits("Job", FALSE, FALSE, FALSE)
BackupCronJob  == Traits("CronJob", TRUE, FALSE, TRUE)
RestoreCronJob == Traits("CronJob", FALSE, TRUE, FALSE)
DbCopyCronJob  == Traits("CronJob", TRUE, TRUE, FALSE)

Of == [BackupJob |-> BackupJob, RestoreJob |-> RestoreJob, DbCopyJob |-> DbCopyJob,
       BackupCronJob |-> BackupCronJob, RestoreCronJob |-> RestoreCronJob,
       DbCopyCronJob |-> DbCopyCronJob]

ASSUME KindAssumption == Kind \subseteq DOMAIN Of

Class == {"Job", "CronJob"}

VARIABLES
    api,          \* the CRs as the API server stores them
    cache,        \* the CRs as the watch cache shows them
    queue,        \* kinds whose key is in the work queue of their controller
    pc,           \* the step of the reconcile of each kind
    snap,         \* the CR in memory
    batch,        \* batch[c]: the batch object of class c, and for whom it was made
    batchSeen,    \* batchSeen[c]: does the cache show it?
    scripts,      \* the ConfigMap: "none", "old" (another release's) or "new"
    scriptsSeen,  \* the ConfigMap as the cache shows it
    targetSeen,   \* does the cache show the targets of the CRs?
    started,      \* history: incarnations for which a batch object was made
    faults        \* failures so far

vars == <<api, cache, queue, pc, snap, batch, batchSeen, scripts, scriptsSeen,
          targetSeen, started, faults>>

(* exists: Status.Exists, "" as long as the status is empty.               *)
Absent == [live |-> FALSE, uid |-> 0, rv |-> 0, del |-> FALSE, fin |-> FALSE,
           other |-> FALSE, exists |-> ""]

NoBatch == [live |-> FALSE, for |-> "", uid |-> 0]

Init ==
    /\ api = [k \in Kind |-> Absent] /\ cache = api /\ snap = api
    /\ queue = {}
    /\ pc = [k \in Kind |-> "idle"]
    /\ batch = [c \in Class |-> NoBatch] /\ batchSeen = [c \in Class |-> FALSE]
    /\ scripts \in {"none", "old", "new"} /\ scriptsSeen = scripts
    /\ targetSeen \in BOOLEAN /\ (TargetMayVanish \/ targetSeen)
    /\ started = {}
    /\ faults = 0

-----------------------------------------------------------------------------
(* Leaving a step.                                                         *)

Fault == /\ faults < MaxFaults
         /\ faults' = faults + 1

(* Go on, with another CR in memory.                                       *)
GotoWith(k, step, inMemory) ==
    /\ pc' = [pc EXCEPT ![k] = step]
    /\ snap' = [snap EXCEPT ![k] = inMemory]
    /\ UNCHANGED queue

Goto(k, step) == GotoWith(k, step, snap[k])

(* Reconcile returns, with ctrl.Result{} or asking for a retry.            *)
Return(k, again) ==
    /\ pc' = [pc EXCEPT ![k] = "idle"]
    /\ snap' = [snap EXCEPT ![k] = Absent]
    /\ queue' = IF again THEN queue \cup {k} ELSE queue

(* UpdateStatus calls the API server only if the status in memory differs. *)
WriteStatus(k, exists, step, next) ==
    IF Of[k].status /\ snap[k].exists # exists
    THEN GotoWith(k, step, [snap[k] EXCEPT !.exists = exists])
    ELSE Goto(k, next)

(* Faulty: a marked CR without a batch object is left alone.               *)
ContinueIfThere(k, exists, inMemory) ==
    LET step == Dispatch(inMemory, exists)
    IN  CASE step = "idle" \/ step = "removeFinalizer" -> Return(k, FALSE)
          [] step = "ensureCorrect" -> GotoWith(k, "ensureFinalizer", inMemory)
          [] step = "createObj" -> GotoWith(k, "scripts", inMemory)
          [] OTHER -> GotoWith(k, step, inMemory)

(* Reconcile goes on after LoadObj; EnsureCorrect does nothing, CreateObj  *)
(* begins with EnsureScripts.                                              *)
Continue(k, exists, inMemory) ==
    LET step == Dispatch(inMemory, exists)
    IN  CASE step = "idle" -> Return(k, FALSE)
          [] step = "ensureCorrect" -> GotoWith(k, "ensureFinalizer", inMemory)
          [] step = "createObj" -> GotoWith(k, "scripts", inMemory)
          [] OTHER -> GotoWith(k, step, inMemory)

-----------------------------------------------------------------------------
(* One reconcile.                                                          *)

LoadCR(k) ==
    /\ k \in queue /\ pc[k] = "idle"
    /\ IF cache[k].live
       THEN /\ pc' = [pc EXCEPT ![k] = "loadObj"]
            /\ snap' = [snap EXCEPT ![k] = cache[k]]
            /\ queue' = queue \ {k}
       ELSE /\ queue' = IF Of[k].retries THEN queue ELSE queue \ {k}
            /\ UNCHANGED <<pc, snap>>
    /\ UNCHANGED <<api, cache, batch, batchSeen, scripts, scriptsSeen, targetSeen, started, faults>>

(* The batch object as GetJobMap or GetCronJobMap shows it.  A controller  *)
(* that keeps Exists writes it, and is woken by its own write, as often as *)
(* the cache is late; MaxStaleRv bounds that.                              *)
Seen(k) == IF snap[k].rv < MaxStaleRv THEN batchSeen[Of[k].class]
                                      ELSE batch[Of[k].class].live

(* Faulty: the status is only written when the object is created.          *)
LoadObjKeepsStatus(k) ==
    /\ pc[k] = "loadObj"
    /\ Continue(k, Seen(k), snap[k])
    /\ UNCHANGED <<api, cache, batch, batchSeen, scripts, scriptsSeen, targetSeen, started, faults>>

(* LoadObj looks for the name of the CR among the cached batch objects.    *)
LoadObj(k) ==
    /\ pc[k] = "loadObj"
    /\ LET exists == IF Seen(k) THEN "yes" ELSE "no"
       IN  IF Of[k].status /\ snap[k].exists # exists
           THEN GotoWith(k, "loadStatus", [snap[k] EXCEPT !.exists = exists])
           ELSE Continue(k, Seen(k), snap[k])
    /\ UNCHANGED <<api, cache, batch, batchSeen, scripts, scriptsSeen, targetSeen, started, faults>>

LoadObjFails(k) ==
    /\ pc[k] = "loadObj"
    /\ Fault
    /\ Return(k, TRUE)
    /\ UNCHANGED <<api, cache, batch, batchSeen, scripts, scriptsSeen, targetSeen, started>>

(* What follows the status update that the step makes.                     *)
AfterStatus(k, inMemory) ==
    CASE pc[k] = "loadStatus" -> Continue(k, inMemory.exists = "yes", inMemory)
      [] pc[k] = "createdStatus" -> GotoWith(k, "ensureFinalizer", inMemory)
      [] pc[k] = "removedStatus" -> GotoWith(k, "removeFinalizer", inMemory)
      [] pc[k] = "failedStatus" -> Return(k, TRUE)

(* Status().Update, which brings the CR in memory up to date; its error is *)
(* ignored.                                                                *)
UpdateStatus(k) ==
    /\ pc[k] \in {"loadStatus", "createdStatus", "removedStatus", "failedStatus"}
    /\ \/ /\ UpToDate(api[k], snap[k])
          /\ api' = [api EXCEPT ![k] = Put(api[k], snap[k])]
          /\ AfterStatus(k, api'[k])
          /\ UNCHANGED faults
       \/ /\ ~UpToDate(api[k], snap[k])
          /\ AfterStatus(k, snap[k])
          /\ UNCHANGED <<api, faults>>
       \/ /\ Fault
          /\ \/ UNCHANGED api
             \/ /\ LostReplies /\ UpToDate(api[k], snap[k])
                /\ api' = [api EXCEPT ![k] = Put(api[k], snap[k])]
          /\ AfterStatus(k, snap[k])
    /\ UNCHANGED <<cache, batch, batchSeen, scripts, scriptsSeen, targetSeen, started>>

(* Faulty: any ConfigMap of that name will do.                             *)
EnsureScriptsIfMissing(k) ==
    /\ pc[k] = "scripts"
    /\ Goto(k, IF scriptsSeen = "none" THEN "createScripts" ELSE "createObj")
    /\ UNCHANGED <<api, cache, batch, batchSeen, scripts, scriptsSeen, targetSeen, started, faults>>

(* EnsureScripts reads the ConfigMap; if it is another release's it is     *)
(* deleted, whatever there is by then, and created.  Only a failing read   *)
(* makes EnsureScripts fail.                                               *)
EnsureScripts(k) ==
    /\ pc[k] = "scripts"
    /\ \/ /\ Goto(k, CASE scriptsSeen = "new" -> "createObj"
                       [] scriptsSeen = "old" -> "deleteScripts"
                       [] scriptsSeen = "none" -> "createScripts")
          /\ UNCHANGED faults
       \/ Fault /\ Return(k, TRUE)
    /\ UNCHANGED <<api, cache, batch, batchSeen, scripts, scriptsSeen, targetSeen, started>>

DeleteScripts(k) ==
    /\ pc[k] = "deleteScripts"
    /\ \/ scripts' = "none" /\ UNCHANGED faults
       \/ Fault /\ UNCHANGED scripts
    /\ Goto(k, "createScripts")
    /\ UNCHANGED <<api, cache, batch, batchSeen, scriptsSeen, targetSeen, started>>

CreateScripts(k) ==
    /\ pc[k] = "createScripts"
    /\ \/ scripts' = (IF scripts = "none" THEN "new" ELSE scripts) /\ UNCHANGED faults
       \/ Fault /\ UNCHANGED scripts
    /\ Goto(k, "createObj")
    /\ UNCHANGED <<api, cache, batch, batchSeen, scriptsSeen, targetSeen, started>>

(* Client.Create of the batch object, unless there is one of that name.    *)
CreateBatch(k) ==
    IF batch[Of[k].class].live THEN UNCHANGED <<batch, started>>
    ELSE /\ batch' = [batch EXCEPT ![Of[k].class] =
                          [live |-> TRUE, for |-> k, uid |-> snap[k].uid]]
         /\ started' = started \cup {<<k, snap[k].uid>>}

(* The rest of CreateObj.  A failing Create is only logged.                *)
CreateObj(k) ==
    /\ pc[k] = "createObj"
    /\ IF ~targetSeen
       THEN Return(k, TRUE) /\ UNCHANGED <<batch, started, faults>>
       ELSE /\ \/ CreateBatch(k) /\ UNCHANGED faults
               \/ Fault /\ UNCHANGED <<batch, started>>
               \/ LostReplies /\ Fault /\ CreateBatch(k)
            /\ WriteStatus(k, "yes", "createdStatus", "ensureFinalizer")
    /\ UNCHANGED <<api, cache, batchSeen, scripts, scriptsSeen, targetSeen>>

(* RemoveObj: a batch object that is gone already is an error like others. *)
RemoveObj(k) ==
    /\ pc[k] = "removeObj"
    /\ LET c == Of[k].class
           gone == batch' = [batch EXCEPT ![c] = NoBatch]
           failed == IF Of[k].writes
                     THEN GotoWith(k, "failedStatus", [snap[k] EXCEPT !.exists = "no"])
                     ELSE Return(k, TRUE)
       IN  \/ /\ batch[c].live /\ gone
              /\ WriteStatus(k, "no", "removedStatus", "removeFinalizer")
              /\ UNCHANGED faults
           \/ ~batch[c].live /\ failed /\ UNCHANGED <<batch, faults>>
           \/ Fault /\ failed /\ (UNCHANGED batch \/ (LostReplies /\ gone))
    /\ UNCHANGED <<api, cache, batchSeen, scripts, scriptsSeen, targetSeen, started>>

(* An update of the object leaves its status subresource as it is stored.  *)
Stores(k, o) == api' = [api EXCEPT ![k] = Put(api[k], [o EXCEPT !.exists = api[k].exists])]

EnsureFinalizer(k) ==
    /\ pc[k] = "ensureFinalizer"
    /\ \/ snap[k].fin /\ Return(k, FALSE) /\ UNCHANGED <<api, faults>>
       \/ /\ ~snap[k].fin /\ UpToDate(api[k], snap[k])
          /\ Stores(k, WithFinalizer(snap[k]))
          /\ Return(k, FALSE)
          /\ UNCHANGED faults
       \/ /\ ~snap[k].fin /\ ~UpToDate(api[k], snap[k])
          /\ Return(k, TRUE)
          /\ UNCHANGED <<api, faults>>
       \/ ~snap[k].fin /\ Fault /\ Return(k, TRUE) /\ UNCHANGED api
    /\ UNCHANGED <<cache, batch, batchSeen, scripts, scriptsSeen, targetSeen, started>>

RemoveFinalizer(k) ==
    /\ pc[k] = "removeFinalizer"
    /\ \/ /\ UpToDate(api[k], snap[k])
          /\ Stores(k, WithoutFinalizer(snap[k]))
          /\ Return(k, FALSE)
          /\ UNCHANGED faults
       \/ ~UpToDate(api[k], snap[k]) /\ Return(k, TRUE) /\ UNCHANGED <<api, faults>>
       \/ Fault /\ Return(k, TRUE) /\ UNCHANGED api
    /\ UNCHANGED <<cache, batch, batchSeen, scripts, scriptsSeen, targetSeen, started>>

Reconcile(k) ==
    \/ LoadObj(k) \/ LoadObjFails(k) \/ UpdateStatus(k)
    \/ EnsureScripts(k) \/ DeleteScripts(k) \/ CreateScripts(k) \/ CreateObj(k)
    \/ RemoveObj(k) \/ EnsureFinalizer(k) \/ RemoveFinalizer(k)

-----------------------------------------------------------------------------
(* The cluster around the controllers.                                     *)

UserCreates(k) ==
    /\ ~api[k].live /\ api[k].uid < MaxUid
    /\ api' = [api EXCEPT ![k] = [Absent EXCEPT !.live = TRUE, !.uid = api[k].uid + 1,
                                                !.rv = api[k].rv + 1]]
    /\ UNCHANGED <<cache, queue, pc, snap, batch, batchSeen, scripts, scriptsSeen, targetSeen, started, faults>>

UserDeletes(k) ==
    /\ api[k].live /\ ~api[k].del
    /\ api' = [api EXCEPT ![k] = Deleted(api[k])]
    /\ UNCHANGED <<cache, queue, pc, snap, batch, batchSeen, scripts, scriptsSeen, targetSeen, started, faults>>

UserTouches(k) ==
    /\ api[k].live /\ api[k].rv < MaxEditRv
    /\ api' = [api EXCEPT ![k] = Stored(api[k])]
    /\ UNCHANGED <<cache, queue, pc, snap, batch, batchSeen, scripts, scriptsSeen, targetSeen, started, faults>>

WatchEvent(k) ==
    /\ cache[k] # api[k]
    /\ cache' = [cache EXCEPT ![k] = api[k]]
    /\ queue' = queue \cup {k}
    /\ UNCHANGED <<api, pc, snap, batch, batchSeen, scripts, scriptsSeen, targetSeen, started, faults>>

Resync(k) ==
    /\ cache[k].live /\ k \notin queue
    /\ queue' = queue \cup {k}
    /\ UNCHANGED <<api, cache, pc, snap, batch, batchSeen, scripts, scriptsSeen, targetSeen, started, faults>>

(* The caches of batch objects and of the ConfigMap queue nothing.         *)
BatchEvent(c) ==
    /\ batchSeen[c] # batch[c].live
    /\ batchSeen' = [batchSeen EXCEPT ![c] = batch[c].live]
    /\ UNCHANGED <<api, cache, queue, pc, snap, batch, scripts, scriptsSeen, targetSeen, started, faults>>

ScriptsEvent ==
    /\ scriptsSeen # scripts
    /\ scriptsSeen' = scripts
    /\ UNCHANGED <<api, cache, queue, pc, snap, batch, batchSeen, scripts, targetSeen, started, faults>>

TargetChanges ==
    /\ TargetMayVanish
    /\ targetSeen' = ~targetSeen
    /\ UNCHANGED <<api, cache, queue, pc, snap, batch, batchSeen, scripts, scriptsSeen, started, faults>>

Restart ==
    /\ Fault
    /\ cache' = api
    /\ batchSeen' = [c \in Class |-> batch[c].live]
    /\ scriptsSeen' = scripts
    /\ queue' = {k \in Kind : api[k].live}
    /\ pc' = [k \in Kind |-> "idle"]
    /\ snap' = [k \in Kind |-> Absent]
    /\ UNCHANGED <<api, batch, scripts, targetSeen, started>>

Environment(k) == UserCreates(k) \/ UserDeletes(k) \/ UserTouches(k) \/ WatchEvent(k) \/ Resync(k)

Next ==
    \/ \E k \in Kind : LoadCR(k) \/ Reconcile(k) \/ Environment(k)
    \/ \E c \in Class : BatchEvent(c)
    \/ ScriptsEvent \/ TargetChanges \/ Restart

Spec == Init /\ [][Next]_vars

(* Reconciles run to their end, queued keys are taken, watch events arrive *)
(* and the informers resync: a batch object that could not be created, or  *)
(* was seen although it is gone, is not looked for before.                 *)
Fairness ==
    /\ \A k \in Kind : /\ WF_vars(Reconcile(k)) /\ WF_vars(LoadCR(k))
                       /\ WF_vars(WatchEvent(k)) /\ WF_vars(Resync(k))
    /\ \A c \in Class : WF_vars(BatchEvent(c))
    /\ WF_vars(ScriptsEvent)

FairSpec == Spec /\ Fairness

-----------------------------------------------------------------------------
(* Properties.  They need the kinds in Kind to have different classes.     *)

(* A backup, restore or copy is never started twice for one incarnation of *)
(* a CR, however stale the caches are: the name of the batch object and    *)
(* the order of deletion and release see to that.  (LoadObj, CreateObj.)   *)
StartedOnce ==
    [][\A c \in Class : ~batch[c].live /\ batch'[c].live
           => <<batch'[c].for, batch'[c].uid>> \notin started]_vars

(* A batch object is not deleted under a CR that is wanted: the CR it was  *)
(* made for is marked for deletion or gone.  (RemoveObj.)                  *)
RemovedWhenAsked ==
    [][\A c \in Class : batch[c].live /\ ~batch'[c].live
           => LET owner == api[batch[c].for]
              IN  owner.uid = batch[c].uid => owner.del]_vars

(* A CR that is marked for deletion disappears in the end, whether or not  *)
(* its batch object is there.  (RemoveObj, RemoveFinalizer.)               *)
TerminatingGoes == \A k \in Kind : (api[k].live /\ api[k].del) ~> ~api[k].live

(* A CR that stays has a batch object, the finalizer and, if its kind has  *)
(* one, a status that says so, in the end: the errors of Create and of     *)
(* UpdateStatus, which nobody retries, are made up for.                    *)
StayingRuns ==
    \A k \in Kind :
        <>[](api[k].live /\ ~api[k].del /\ targetSeen)
            => <>[]( /\ api[k].fin /\ batch[Of[k].class].live
                     /\ Of[k].status => api[k].exists = "yes" )

(* The scripts of this release are in place in the end if a batch object   *)
(* is left to use them, although two controllers may replace each other's  *)
(* ConfigMap; as long as no call fails, since the error of the Create that *)
(* follows the Delete is only logged.  (EnsureScripts.)                    *)
ScriptsInPlace ==
    [](faults = 0) => (<>[](\E c \in Class : batch[c].live) => <>[](scripts = "new"))
=============================================================================
