# A TLA+ verification of db-operator

db-operator is a Kubernetes operator. Users describe databases, users, schemas, backups,
restores and copies as custom resources (CRs); the operator makes PostgreSQL, CockroachDB and
MySQL servers, and batch Jobs, follow. This directory holds TLA+ models of its controllers,
the TLC configurations that check them on small instances, and proofs (TLAPS) of the main
results for instances of any size.

The difficulty of such a program is not in its sequential code. Every reconcile reads CRs from
a cache that lags behind, changes things in two systems that know nothing of each other (the
API server and the database server), may fail or stop between any two calls, and is asked to
repeat itself until the world is as it should be. The models keep exactly this: each call that
leaves the process is an atomic step, and anything may happen between two steps.

## 1. Inventory

| Component | Source | State it keeps | Operations |
|---|---|---|---|
| Generic loop | `controllers/reconcilable.go`, `shared/shared.go` | nothing of its own; the CR in memory | `Reconcile`: LoadCR, LoadObj, then CreateObj / EnsureCorrect + EnsureFinalizer, or RemoveObj + RemoveFinalizer; retries by `GradualBackoffRetry` |
| Db controller | `controllers/db_controller.go` | databases on the server | CREATE, DROP, AfterCreateSQL, NotifyChanges |
| DbServer controller | `controllers/dbserver_controller.go` | `DbServer.status`, the finalizer | connect, list databases and users, SetStatus; woken by `reconcileDbServerChannel` |
| CockroachDBBackupJob controller | `controllers/cockroachdbbackupjob_controller.go` | `status.job_id`, `status.status`; a detached job of the cluster | start the job, poll it, publish its end |
| CockroachDBBackupCronJob controller | `controllers/cockroachdbbackupcronjob_controller.go` | `status.schedule_id`, ...; a schedule of the cluster | create, adopt, replace, pause, resume, drop |
| User controller | `controllers/user_controller.go` | roles, Secrets, privileges | create, generate the secret, grant and revoke, drop |
| Schema controller | `controllers/schema_controller.go` | schemas | create, drop |
| Job and CronJob controllers | `controllers/{backup,restore,dbcopy}{job,cronjob}_controller.go` | batch Jobs and CronJobs | create, remove |
| Script ConfigMap | `reconcilable.go` EnsureScripts, `shared/scripts.go` | one ConfigMap per namespace | create, replace |
| Privileges | `dbservers/postgres/*priv*.go`, `dbservers/mysql/privileges.go` | none (pure) | parse, compare, grant and revoke the difference |
| Connections | `dbservers/*/connection.go`, `shared/connection_store.go`, `controllers/lazy_*.go` | open connections | look up, open, close |
| Operator process | `main.go` | all controllers, watch caches, queues | start, stop |
| Storage, targets | `storage_info.go`, three empty controllers | none | build environment variables |

**Interaction.** All controllers share one process and the watch cache. The Db and User
controllers wake the DbServer controller over a channel. They depend on one another only
through CRs (a Db names a DbServer, a CockroachDBBackupJob names a BackupTarget, which names a
Db) and through the database server. No controller has a lock; each has one worker, so a
controller works on one key at a time, and optimistic locking at the API server
(`resourceVersion`) is all that protects a CR.

**What is hard.**
stale reads; a call that failed but took effect; a stop between the step on the
database and the step on the CR; two CRs that share what they manage; a CR deleted and
created again while a reconcile of its predecessor is under way; an early return that
forgets to ask for another try. `PROJECT.json` lists each hazard at its line, with the
properties that would catch it.

**What makes each part correct.**

- Db: a database is dropped only for a deletion and created only for a CR that is still wanted;
  finalizer and database stay in step; deletions complete; a CR that stays gets its database.
- DbServer: the status ends up listing what exists; a deletion completes.
- Backup job: what is published is true, refers to one job and is published in the end; one CR
  starts one backup (this does *not* hold, see the findings).
- Backup schedule: dropped only on request; gone after a deletion; follows `suspend`.
- User: as Db; the Secret and the role have one password; the privileges are those of the CR in the
  end, and none it asks for is missing in between.
- Schema: as Db, whichever of the CRs it refers to goes first.
- Jobs: one batch Job per CR, whose outcome is not confused with another's; the scripts are the
  current ones.
- Privileges: after granting and revoking the difference the role holds what the CR asks for.
- Connections: every opened connection is closed once; a stored one serves the same key.

## 2. Modules

```
Reco                      CRs at the API server; the decision of the generic loop
 |-- RecoProofs                                       lemmas on the versions of one CR
 |-- DbController         Db controller            -- MCDbController (instance)
 |    '-- DbControllerProofs                          theorems
 |-- DbServerController   DbServer controller
 |-- DbOperator           D == INSTANCE DbController, S == INSTANCE DbServerController
 |    |-- MCDbOperator                                instance
 |    '-- DbOperatorProofs                            theorems; P == INSTANCE DbControllerProofs
 |-- CrdbBackupJob        CockroachDBBackupJob controller
 |    '-- CrdbBackupJobProofs                         theorems
 |-- CrdbBackupCronJob    CockroachDBBackupCronJob controller
 |    '-- CrdbBackupCronJobProofs                     theorems, with RecoProofs
 |-- JobControllers       the six Job and CronJob controllers, EnsureScripts
 |    '-- JobControllersProofs                        theorems
 |-- UserController       Pg == INSTANCE PgPrivs, My == INSTANCE MySqlPrivs
 |    |-- MCUserController                            instance
 |    '-- UserControllerProofs                        theorems, with RecoProofs
 '-- SchemaController     Schema controller        -- MCSchemaController (instance)
      '-- SchemaControllerProofs                      theorems, with RecoProofs

PgPrivs, MySqlPrivs       what a privilege list asks for, what is read back, the statements
```

**Common conventions.** A CR is a record (`live`, `uid`, `rv`, `del`, `fin`, `other`, and the
fields of its spec and status that decide something). The API server and the cache hold one
copy each (`api`/`cache`, `srv`/`srvCache`, `cr`/`cached`), the reconcile under way a third
(`snap`). `Stored` and `Put` are the API server's rules: a write makes a new version, a write
that changes nothing does not, a marked object without finalizers disappears. `UpToDate` is
optimistic locking. The uid tells incarnations of a name apart. These rules, and the actions of
users, caches, queues and the database cluster, are models of external systems, written from
how the code uses them; they are marked as external in `PROJECT.json`.

A reconcile is a program counter (`pc`, `srvPc`, `step`) and one action per call that leaves the
process. For most calls there is a second action for its failure (`...Fails`), which also covers
"it failed for the caller but took effect" if `LostReplies` is TRUE. A return that
asks for a retry puts the key back in the queue: `RequeueAfter` is an entry whose time has not
come, and time is not modelled. `Restart` may happen at any step; it forgets memory, cache and
queue and lists all objects again.

Some definitions are marked *Faulty*. They are plausible mistakes in the definition that
follows them, kept to show that the properties notice; no specification uses them.

**Reco** `Dispatch` is the decision table of `Reco.Reconcile`: which call follows LoadObj, from
the deletion mark and the finalizer of the CR *in memory* and whether the object exists.

**DbController** One action per call: `LoadCR`, `LoadObj`, `CreateObj`, `NotifyChanges`,
`EnsureFinalizer`, `RemoveObj`, `RemoveFinalizer`, and their failures. Details of the code that
matter and are kept: a CR that is gone keeps its key in the queue (LoadCR asks for a retry); a
DbServer that is not found counts as "the database does not exist", so that a marked Db is let
go without a DROP; CreateObj happens *before* the finalizer is added; with `drop_on_deletion`
FALSE RemoveObj does nothing but notify; with `cascade_on_drop` it fails each time unless the server is
a CockroachDB (`DropRefused`); RemoveFinalizer writes the CR that was read, so a stale
one conflicts. `released` is a history variable: the last CR of the name whose finalizer the
operator took off. `DbServerSide` stands for everything the other controller and the owners of
DbServer CRs do.

**DbServerController** `SrvLoad`, `Connect`, `GetDbs`, `GetUsers`, `SetStatus`,
`SrvRemoveFinalizer`. SetStatus is the code's: it adds the finalizer *or* writes the status, never
both, and writes neither if nothing changed (it relies on the event of the first write for the
second). A failing GetUsers asks for no retry. `DbControllerSide` stands for the Db
controller: it changes databases and notifies afterwards.

**DbOperator** The two in one process, sharing `dbs`, `srvQueue` and the cached DbServer CR
(`serverSeen` is `srvCache.live`). Here the two "side" actions are replaced by the real
controllers, and the composition is checked and proved to implement both component specifications.

**CrdbBackupJob** A backup is started by CreateObj if the CR *in memory* has no job id, and the id
is then recorded by a status update whose error is dropped. The poll is the retry of
EnsureCorrect. When the chain BackupTarget -> Db -> DbServer is missing, a marked CR is let go
by the "parent is gone" branch of the loop (`abandon`), whose own error is ignored.

**CrdbBackupCronJob** The schedule is created with `IF NOT EXISTS` under the label of the CR, so
a retry adopts it, but once `schedule_id` is set the controller only goes by the id.
EnsureCorrect drops and creates the schedule when the statement differs (`recreate`), then pauses
or resumes it. The statement is abstracted to a version number of the BackupTarget.

**JobControllers** The backup, restore and copy controllers, for Jobs and CronJobs. Their code
differs in four things, which a record per controller states (`BackupJob`, ..., `DbCopyCronJob`):
what is created, whether `status.exists` is kept, whether LoadCR retries for a CR that is gone,
and whether RemoveObj writes the status when Delete failed. The rest is shared: `LoadObj`,
`UpdateStatus`, `EnsureScripts` with its Delete and Create, `CreateObj`, `RemoveObj` and the
finalizer steps. The controllers do not watch what they create. Batch objects and the ConfigMap come
from caches that lag (`batchSeen`, `scriptsSeen`) and queue nothing. `started` is a history variable.

**UserController** `LoadObj`, `GenerateSecret`, `CreateUser`, the privilege update of EnsureCorrect
(also run at the end of CreateObj), `NotifyChanges`, RemoveObj and the finalizer steps. Secrets have a
cache of their own (`secretCached`), which both generateSecret and GetUserCredentials read and whose
events queue nothing. `UpdateUserPrivs` and `DropUser` are sequences of SQL statements with reads in
between. `todo` holds the rest of such a sequence: `Begin` makes the first reads and sets it up,
`NextEntry` reads what the next entry of `db_privs` needs and puts its statements in front,
`Execute` sends one statement, `GiveUp` is an error found before anything is sent, or a panic. Between
any two of them the world may change. A marked User whose DbServer, or whose grantor's User CR, is
missing is let go with its role in place (`abandon`). NotifyChanges without a DbServer sends an event
without an object; the goroutine that receives it stops the process (`StartAgain`).

**PgPrivs** Operators only. `GetPrivsReconciler` maps an entry to what it wants on which object (with
`normalizeDbPriv`, `NormalizePrivileges` and the checks), `PrivsGet` is what the code reads back,
`ReconcilePrivs` the statements for the difference, `RevokeAllPrivs` and `DropUser` those of a deletion;
`Refuses` and `Executed` are the server. The readers differ in what they see, and this is kept: schemas
count what PUBLIC holds, "all tables" never finds anything too much, default privileges only see four
of seven. Privilege strings are sets of upper-case tokens.

**MySqlPrivs** Likewise for MySQL. What SHOW GRANTS prints and what users write are compared as text,
so a piece is a record that remembers its columns and which of the two spellings it has.
`handleGrantOnCol` is kept with what it does to the list before a column grant. Go maps are walked in
any order, hence `UpdateUserPrivs` is a set of plans.

**SchemaController** As the Db controller, with three differences. LoadCR also reads the Db CR and takes
the finalizer off a marked Schema whose Db is missing (`ReleaseOrphan`), after which the reconcile goes
on. `status.created` is written by LoadObj and CreateObj, and the error is dropped, so that a
stale version may stay in memory. RemoveObj drops the schema with the name of the *CR* (`CrName`).
`conn` tells whether a connection is open; CleanupConn closes it when the reconcile returns.

## 3. Runs

Every run has `CHECK_DEADLOCK FALSE`: an operator whose CRs are all in order has nothing to do.

| Run | Instance | What it shows |
|---|---|---|
| `db_one` | one Db CR, not on a CockroachDB, 2 incarnations, edits of `drop_on_deletion` and `cascade_on_drop`, 1 fault, lost replies, other finalizers | types; the database of a CR with the finalizer exists (`ClaimedDbExists`); it is gone once the operator let go (`ReleasedDbIsGone`); a drop happens only while the marked CR is there (`DropsOnlyTerminating`); no creation for a finalised incarnation (`NeverRecreated`); a marked CR stays only if its DROP is refused for good (`TerminatingGoesOrRefused`); CRs that stay are provided (`StayingIsProvided`) |
| `dbserver` | 2 incarnations, 3 faults | `StatusConverges`, `DeletedServerGoes` |
| `operator` | one Db with one incarnation, one DbServer with two, both controllers, 1 fault | `RefinesDbServerController`, `OperatorDropsAnswerDeletions`, `OperatorStatusConverges` |
| `crdb_job` | 2 incarnations, 2 jobs, 1 fault | `JobIdIsStable`, `PublishedEndIsTrue`, `EndIsPublished`, `TerminatingGoes` |
| `crdb_job_once` | 1 incarnation, no fault | `AtMostOneBackup` is violated |
| `crdb_cron` | 2 incarnations, 1 change of the statement, 1 fault | `DropsAnswerRequests`, `ReleasedScheduleIsGone`, `TerminatingGoesOrWedges` |
| `crdb_cron_edits` | 1 incarnation, edits up to version 5, 1 change of the statement, 1 fault | `SuspendTakesEffect`, `ScheduleIsRecorded`, `CalmDeletionCompletes` |
| `crdb_cron_suspend` | 1 incarnation, no fault | `SuspendedKeepsSchedule` is violated |
| `jobs` | one BackupCronJob (it has every step), 2 incarnations, 1 fault, target comes and goes | `StartedOnce`, `RemovedWhenAsked`, `TerminatingGoes`, `StayingRuns` |
| `job_scripts` | a RestoreJob and a DbCopyCronJob, no fault, any scripts to begin with | `ScriptsInPlace` |
| `user` | one User CR on each of PostgreSQL (2 specs), CockroachDB (1) and MySQL (2), edits, 1 fault or change by hand, lost replies, 1 new table, parents come and go | `PasswordAgrees`, `ClaimedRoleExists`, `ReleasedRoleIsGone`, `PrivsNotInterrupted`, `PrivsSettle`, `TerminatingGoesOrHeldUp` |
| `schema` | one Schema CR, 3 specs (plain; cascade and creator; another name than its CR), each product, 1 fault, parents and database come and go | `ReleasedSchemaIsGone`, `StayingIsProvided`, `TerminatingGoesOrHeldUp` |

For each property of a passing run there is a faulty variant of one definition, listed under
`mutants` in `PROJECT.json`, under which the property fails in the same instance.

`StatusConverges` has one exception: a failure to list the users that repeats. `faults > 1` in it says
that one failure alone never leaves the status behind. `TerminatingGoesOrWedges` and
`CalmDeletionCompletes` belong together. The first names the only thing that can hold up the deletion of a
schedule's CR for good, a schedule that is recorded and missing. This is also the case for a moment
between DROP SCHEDULE and the removal of the finalizer, and the second says that this moment passes
unless an edit, a failure or a restart falls into it (`Calm`).

`PrivsNotInterrupted`: an update never takes away, even for a
moment, what the CR it works from asks for. `PrivsSettle`: if the CR stays, the role ends up holding
what the CR asks for and, where an entry owns the list of an object, nothing else, whatever was edited,
changed by hand, refused or interrupted before. `TerminatingGoesOrHeldUp` (User): in the end no marked
CR is left, or again and again the role holds something that its DROP options do not take away
(`HeldUp` says what). In `SchemaController` the same for DROP SCHEMA, whichever of the
parents went first.

**Bounds.** `MaxUid` 2: the interesting stale reads confuse an incarnation with its successor,
and nothing in the code looks further back. `MaxEditRv` limits edits of users, not writes of the
operator: the versions below it leave room for edits before and after the finalizer is set (in
`crdb_cron_edits` five versions, just enough for a CR whose schedule is on record to be suspended,
paused, and resumed again; suspending it a second time needs a sixth).
`MaxChangeRv` limits the changes of databases by the version of the DbServer CR, so that
changes can happen at each step of the first reconciles; in `operator` it is out of reach, the Db
controller limits itself. There the DbServer has two incarnations (`MaxSrvUid` 2), so that it
can return after a Db was let go without it: TLC finds executions in which a reconcile of the stale Db
then drops the database although no Db is left, and `OperatorDropsAnswerDeletions` holds in these too, by
its second case. The Db has one incarnation there; that a stale reconcile may also meet its successor is
covered by the theorem of the same name, which bounds nothing. `MaxJobs` 2: a second backup is the error in question; starting a
third fails, as a full cluster would, and `EndIsPublished` speaks of executions that stay below
the bound. `MaxStmt` 1: one change of the BackupTarget. `MaxStaleRv` bounds
how long the cache of batch objects may lag: a controller that keeps `status.exists` writes it, and is
woken by its own write, for as long as the cache is late; below version 9 there is room for a full
first incarnation (seven versions) and for a second one that meets its leftovers.
In `user` and `schema` there is one
incarnation: what they add to the Db controller is inside one incarnation (many statements,
Secrets, parents); three versions leave room for an edit before the finalizer, during the first update
and after it. Two PostgreSQL specs, one that owns much and drops with `drop_owned`, one that reads
through default privileges and drops with `revoke_privileges`, are edited into one another, and so are
a MySQL spec on whole tables and one on columns. The CockroachDB spec has an entry that is valid on
PostgreSQL only. `MaxFaults` 1 to 3 counts failed calls
*and* restarts, in `user` and `schema` also changes by hand; more than one, in `dbserver`, allow a fault in the repair of another. The bounds on faults also make
liveness meaningful: failures end at some time.

**Fairness.** A started reconcile goes on (WF on the reconcile steps: Go routines run and calls
return). A queued key is taken (SF on `LoadCR` where keys compete for the one worker: the work
queue is first-in first-out, and a waiting key is not overtaken for ever; WF where there is one key).
Watch events arrive (WF). Other controllers remove their finalizers (WF). Backups of the
cluster end (WF on `JobEnds`). Nothing is assumed of users, failures or restarts. The periodic
resync of the informers (ten hours) is *not* assumed for the Db and DbServer controllers: their
liveness rests on retries and events alone. It is assumed in `CrdbBackupCronJob`, where a failing
PAUSE is only logged and a changed BackupTarget raises no event, in `JobControllers`, where a
failing Create is only logged and batch objects are not watched, in `TerminatingGoes` of
`CrdbBackupJob` as a premise, since the "parent is gone" branch does not retry, and in
`UserController` and `SchemaController` for the same reason and because grants made by hand and
Secrets raise no event. In these two, that a started reconcile goes on is written `[]<>(step = "idle")`:
no infinite run of the reconcile steps avoids it, and TLC checks it faster than a WF condition on each.
`DbOperator` states all of its fairness in this way (each condition follows from WF of the steps of
`DbController` and `DbServerController`); that no step of these gets stuck is what `db_one` and
`dbserver` show, under WF. It needs no fairness for taking Db keys or for events of Db CRs.

## 4. Proofs

Twenty-six theorems hold for all values of the constants, under the assumptions that the modules
state (`DbAssumption`, `FlagAssumption`, `BoundAssumption`, `SpecAssumption`, ...: flags are Boolean,
bounds are numbers, specs are records of the right form and finite; TLC evaluates them in the runs).
Each invariant named below was first checked with TLC as an invariant of the instance of the
corresponding run.

| Module | Theorem | States | Inductive invariant (states TLC checked it on) |
|---|---|---|---|
| `DbControllerProofs` | `TypeCorrect`, `ChainInvariant` | `Spec => []TypeOK`, `Spec => []ChainInv` | `ChainInv` |
| | `NeverRecreatedHolds`, `DropsAnswerDeletionsHolds` | `Spec => NeverRecreated`, `... DropsAnswerDeletions` | `ChainInv` |
| | `TracksInvariant` (if `Undisturbed`) | `Spec => []TracksInv` | `TracksInv` |
| | `ClaimedDbExistsHolds`, `ReleasedDbIsGoneHolds`, `DropsOnlyTerminatingHolds` (if `Undisturbed`) | `Spec => []ClaimedDbExists`, `... []ReleasedDbIsGone`, `... DropsOnlyTerminating` | `TracksInv` |
| `DbOperatorProofs` | `OperatorRefinesDbController` | `Spec => D!Spec` | `OperatorInv` (1,310,291) |
| | `OperatorRefinesDbServerController` | `Spec /\ [](srv.rv < MaxChangeRv) => S!Spec` | `OperatorInv` |
| | `OperatorDropsAnswerDeletionsHolds`, `OperatorNeverRecreates` | the two results on drops and creations, for the whole operator | by refinement |
| `CrdbBackupJobProofs` | `JobTypeCorrect`, `PublishedEndIsTrueHolds`, `JobIdIsStableHolds` | `Spec => []TypeOK`, `... []PublishedEndIsTrue`, `... JobIdIsStable` | `JobInv` (889,064) |
| `CrdbBackupCronJobProofs` | `CronTypeCorrect`, `ReleasedScheduleIsGoneHolds`, `DropsAnswerRequestsHolds` | `Spec => []TypeOK`, `... []ReleasedScheduleIsGone`, `... DropsAnswerRequests` | `CronInv` (1,027,848) |
| `SchemaControllerProofs` | `SchemaTypeCorrect`, `ReleasedSchemaIsGoneHolds` | `Spec => []TypeOK`, `... []ReleasedSchemaIsGone` | `SchemaInv` (3,434,600, with two incarnations) |
| `UserControllerProofs` | `PasswordAgreesHolds` | `Spec => []PasswordAgrees` | `PasswordInv` |
| | `UserTypeCorrect`, `ClaimedRoleExistsHolds`, `ReleasedRoleIsGoneHolds` | `Spec => []TypeOK`, `... []ClaimedRoleExists`, `... []ReleasedRoleIsGone` | `UserInv` (2,043,780, with two incarnations) |
| `JobControllersProofs` | `StartedOnceHolds`, `RemovedWhenAskedHolds` (if `DistinctClasses`) | `Spec => StartedOnce`, `... RemovedWhenAsked` | `JobInv` (796,536; two kinds: 691,307) |

`RecoProofs` holds no theorem of its own but the lemmas on versions that the proofs about the cron job,
Schema and User controllers cite.

**Versions.** None of these properties is inductive: a step works from `snap`, and the property speaks of
the stored CR. What connects them is that all copies of a CR are versions of *one* history, in the order
released, `snap`, cache, stored. This is the heart of nearly every proof, in two forms.

*Db controller.* `Older(o, n)` says that `o` is an earlier version or the same one: its uid and version
are no larger, equal versions are equal records, and within one incarnation the deletion mark is never
taken back. `WellFormed` is what one copy satisfies by itself (a finalizer only on an object that
exists). `Settled` says that a finalizer seen on some version is still stored, or that this very version
is the released one: it is what makes a stale `snap` with the finalizer harmless. `StepKnows` remembers
why the step was chosen (at `createObj` the CR in memory is not marked; at `removeObj` it is marked and
has the finalizer). `ChainInv` is their conjunction over all keys, together with "a released incarnation
has no finalizer", and is inductive on top of `TypeOK`. `NeverRecreated` and `DropsAnswerDeletions` follow
step by step: whoever is in `createObj` holds an unmarked version, the released one was marked, so its
incarnation is a later one.

For the results under `Undisturbed` (no two CRs name the same database, and the DbServer CR is not
removed), `Tracks` adds where the database is: absent as long as the
cache or the CR in memory still belongs to an incarnation released with `drop_on_deletion`; present for
a stored, unmarked CR with the finalizer; present from CREATE up to the end of EnsureFinalizer and at
`removeObj`; absent after `removeObj` if the CR in memory had asked for the drop. The second clause
is the heart: a reconcile that still works from a released incarnation finds no database, hence never
reaches `removeObj`, hence cannot drop the database of the next incarnation. That
`Undisturbed` is needed is not a weakness of the proof: with a shared name, deleting one CR drops
the database of the other, and with a DbServer CR missing a Db is let go with its database in
place.

The refusal of CASCADE changes no database and no CR, so it keeps both invariants; what it costs is liveness.

*The others.* `RecoProofs` states the same for one key and any controller on the generic loop, in terms
of the metadata only: `Chain(p, s, c, a, u)` relates step, CR in memory, cached and stored CR and the uid
released last. One lemma per kind of step says that it is kept: a reconcile starts (`ChainStarts`) or
moves on (`ChainMoves`), a watch event (`ChainWatch`), users (`ChainTouched`), an accepted
status update (`ChainUpdated`), the finalizer added (`ChainFinalizerAdded`) and removed
(`ChainReleased`). The copies in memory may differ from the stored version in the status, since
their own updates may have been refused; `UpToDate` is what makes them agree again.

**The operator.** `OperatorInv` consists of types (what one controller may see of the other is Boolean) and
of `OneWorker`: at most one Db reconcile is under way. A step of the DbServer controller then *is* a
`DbServerSide` step of DbController, and a step of the Db controller is, for DbServerController, one of four
things (`DbEffect`): nothing; a change of databases with a notification owed; the notification; a failed
call that may have changed a database unseen. `OneWorker` makes "a notification is owed" the one bit that
DbServerController keeps: with two workers one notification could be taken for another. The hypothesis
`[](srv.rv < MaxChangeRv)` names a bound of DbServerController (it lets databases change only below that
version, to be finite for TLC); it is no restriction on the code. The theorems about drops and
creations come from `DbControllerProofs` by instantiation (`P`), under the refinement.

**Backup jobs.** A stale reconcile may start another job, but its status update carries an old version.
`JobInv`: copies with the stored version agree with it (`CacheLags`, `MemoryAgrees`), every copy that
claims an end claims that of the job it names (`StatusIsTrue`), and CreateObj is reached without a job id.

**Schedules.** `CronInv` adds to the chain: ids are handed out in increasing order and a dropped one never
returns (`IdsAreFresh`); marked copies agree on the schedule they name (`MarkedAgree`); every copy repeats
what was once recorded (`Echoes`); and the step remembers why it was chosen. A released id can then not be
found again, and a stale CR cannot name the schedule of a later incarnation.

**Schemas.** `SchemaInv`: a schema is created only from a CR that is not marked, hence of a later
incarnation than the last released one; at `removeFinalizer` with a connection the schema is gone.

**Users.** For the password, two facts are added. While a Secret is generated or CREATE USER is
about to be sent there is no role (`NoRoleYet`: only a reconcile of this very CR creates it). And a
Secret is generated only when the cache and the API server show none, so that the cache can
lag but never show *another* password (`CacheShowsTheSecret`). This needs no assumption at all.
For the role, the many statements of one call matter. `WorkIsPlanned` says that what is left of a
call is a part of a plan: plans of UpdateUserPrivs contain no DROP USER, and plans of DropUser end in DROP
USER or in an error (`EndsInDrop`). Lemmas prove this of the operators that compute the plans, for any spec
and whatever was read back (`PgUpdateIsWork`, `ReconcileIsWork`, `RevokeAllIsWork`, `PgDropIsWork`,
`MySqlUpdateIsWork`). For MySQL, where a plan walks Go maps in any order, that there *is* a
sequence for each map needs what is granted to be finite (`HeldIsFinite`).

**Batch objects.** For each kind, `KeyInv` relates the copies of its CR to the incarnations for which
something was started: such an incarnation is not later than the cached one, nor than the one in memory;
and when the batch object is gone, each of them is *spent* in both copies: a later incarnation is there, or
the mark. Only an unmarked CR in memory starts something (`Knows`), hence for an incarnation that is not
spent, hence for a new one. `DistinctClasses` (the kinds do not share batch objects) is needed: a
BackupJob and a RestoreJob of one name delete each other's batch Job.

*Only model-checked:* all liveness properties (fairness and ENABLED are beyond this prover), hence
everything about `DbServerController` alone and `ScriptsInPlace`. `PrivsNotInterrupted` is a property of
the specs of the instance: a spec with two entries on one object violates it, as the entries undo each
other, so it has no general theorem. `TerminatingGoes...`, `StayingIsProvided`, `PrivsSettle` and the like
are liveness.

## 5. Findings

1. *A second backup* (`crdb_job_once`). LoadObj says of a CR without a job id that it is ignored
   "as this job maybe have been executed without the operator recording an id". It is not
   ignored; CreateObj starts another backup. A write of anybody else between the read of
   the CR and the status update is enough.
2. *A suspended schedule is lost* (`crdb_cron_suspend`). When the BackupTarget changes,
   EnsureCorrect drops the schedule of a suspended CR and CreateObj then refuses to make a new one
   because the CR is suspended. The id of the dropped schedule stays on record, and every later
   reconcile fails to load it.

Other behaviours of the code met while modelling. They are in the models, mostly as the exceptions the
properties state; no text of the repository contradicts most of them.

- *Db.* With `cascade_on_drop`, DropDb returns an error on PostgreSQL and MySQL every time, and a marked
  Db with `drop_on_deletion` stays in Terminating until one of the two is taken back
  (`TerminatingGoesOrRefused`). A Db that was let go while its DbServer was missing keeps its database; a
  reconcile that still sees the old CR when the DbServer is back drops it, even if a new Db of the
  same name has adopted it in between.
- *CockroachDBBackupCronJob.* If the schedule was dropped and the update that removes the finalizer is
  refused, the next reconcile cannot load the schedule; that error is not the "cannot find" error
  for which the loop lets a marked CR go, and the CR stays in Terminating. `TerminatingGoesOrWedges` shows
  that a missing schedule is the only thing that holds up a deletion in this way,
  `CalmDeletionCompletes` that it takes an edit, a failure or a restart at the wrong time. A schedule that was
  created without its id being recorded is adopted by its label, but not if the id of a dropped one is on record.
- *User, deletion.* `revoke_privileges` revokes what the spec asks for at that time. A role that holds
  more (an edit not yet applied, a grant by hand, an object of its own) cannot be dropped, and
  the CR stays. `REASSIGN OWNED` runs only in the database the operator is connected to. Without the
  User CR of a grantor, a marked User is let go and its role stays.
- *User, PostgreSQL.* A flag `NOX` is looked up under a column that does not exist: ALTER USER runs in
  every reconcile. For default privileges ALL stands for nothing, and the REVOKE of nothing then fails on
  deletion. TRUNCATE, REFERENCES and TRIGGER as default privileges are granted again each time. A
  table name with a dot (other than `schema.ALL`) is an index out of range. Two entries on one object
  undo each other. `BYPASSRLS` (README.md:68) and table entries with a slash (README.md:93) are rejected. An
  entry that is rejected keeps the ones after it from being applied.
- *User, MySQL.* Column lists are never recognised as unchanged, the pieces read before one are lost, and
  a list of one column is an index out of range, which stops the operator. Errors of REVOKE are
  ignored. `GRANT` as a privilege makes an invalid statement. Any `drop_user_options` is refused.
- *User, crashes.* NotifyChanges without a DbServer, and a Secret without the password key.
- *Schema.* With `spec.name` different from the name of the CR, RemoveObj drops the wrong schema, or
  none, and then fails for ever. With `cascade_on_drop` on PostgreSQL it always fails. On MySQL every
  reconcile fails.

## 6. What is left out, and why

- *Data:* names, SQL texts, messages and log lines; `spec.server` and `spec.db_name` are fixed
  (`DbName`), and so is the product a Db lives on (`CascadeSupported`); AfterCreateSQL has no effect the
  model keeps. Other reasons for a server to refuse DROP DATABASE (open sessions, missing rights) are
  failures like any other, which liveness assumes to end. The list of users in the DbServer status is treated like the list of
  databases. Of the DbServers a Db can be resolved to, only "one is found", "none is found" and "an
  error" are told apart.
- *Time:* back-off intervals and the three-second sleep of CreateObj are steps at which anything
  may happen; RequeueAfter is an entry in the queue.
- *The channel* of NotifyChanges is taken as never full (controller-runtime drains it into a
  buffer), leader election as giving one active operator.
- *Generated and third-party code*, manifests, the Helm chart, the scripts run inside Jobs.
- *Privileges:* one database, one grantor; privileges are not told apart by who granted them; what a
  superuser may do without a grant; splitting strings into tokens; MySQL's TLS requirements,
  versions and the comparison with all privileges. A role dropped by hand in the middle of a reconcile.
- *Not yet modelled:* the parts in the plan below.

## 7. Plan

1. `Connections`: the connection store and the lazy helpers; each connection closed once.
2. Proofs: what the privilege operators compute (a plan of `ReconcilePrivs` for one entry takes away
   nothing the entry asks for; after a plan ran without interference the role holds what was asked for),
   and an invariant of `DbServerController` (a status lists databases that existed together).
