# Formal models of Armagh

Armagh runs user-written actions (collect, split, publish, consume, ...) over
documents kept in MongoDB.  A launcher per host forks agent processes; agents, the
scheduled trigger and the admin API work on shared documents, coordinated only by
a lock field in each document.  This directory holds TLA+ specifications of that
core, TLC configurations, and TLAPS proofs.  Paths below are relative to
`src/lib/armagh` unless they start with `src/`.

Check a run with `tlc -config PipelineSafety.cfg MCProcessing`, a proof with
`tlapm Processing_proofs.tla`.  `PROJECT.json` lists runs, mutants, findings,
hazards, theorems and, under `map`, the source lines of every definition.

## 1. Inventory

| Component | State | Operations | Hard behaviour | What makes it correct |
|---|---|---|---|---|
| LockingCRUD (`document/base_document/locking_crud.rb`) | `_locked` of each stored document; image in memory | find and lock, create, save with or without unlock, delete, forced unlock, reset of expired locks, wait loop | find/ask/create are separate operations; expiry while working; holder crashes | one holder at a time; its image is current; calls end; orphaned locks are freed |
| Document (`document/document.rb`) | marks, pending actions, errors, `published_id` | take one for processing, mark, save to the right collection | save decides from marks of several actions; saving to another collection is two operations | never lost, never in two places, never deleted with an error |
| Agent (`agent/agent.rb`) | current document, `num_creates` | execute all pending actions, create and edit documents, abort, notify | killed anywhere; at-least-once execution; publisher reads before it replaces | works only on what it has locked; everything settles; newer versions win |
| Launcher (`launcher/launcher.rb`) | agents by pid | launch, recover dead agents, restart on configuration change, shut down | a death is seen by one of several waits, in different threads; recovery goes collection by collection | what a dead agent locked is unlocked; never too many agents, nor two configurations; it ends |
| ScheduledActionTrigger (`utils/scheduled_action_trigger.rb`, `document/action_trigger_document.rb`, `document/trigger_manager_semaphore_document.rb`) | `last_run`, semaphore document | become responsible, trigger actions, renew, stop | lease expires while triggering; check-then-create; stop before start | at most one responsible launcher; no schedule is missed for ever; one trigger document |
| Action state (`document/action_state_document.rb`) | one locked hash per action | find or create locked, save | nested in a document's lock | a client of LockingCRUD |
| Workflow, WorkflowSet (`actions/workflow*.rb`) | run mode, active flags, docspecs | run, stop, stopping, edit, retire | requests overlap, decide on what they loaded and on cached counts; several updates, not atomic | the run mode says what is active; no cycles, no unused outputs; stopping ends |
| Utility actions (`actions/utility_actions/`) | - | reset expired locks, stop workflows, purge logs | run as documents, by agents | locks are freed |
| Admin API (`admin/application/api.rb`) | locked published document | request a consume, users, groups, workflows | retries while a document is locked | the request is not lost |
| Connection (`connection.rb`, `connection/`) | collections, indexes | create indexes, convert exceptions | unique indexes decide races | one published copy per document_id |
| Attributes and clean-up (`document/base_document/delegated_attributes.rb`, `content_cleanup.rb`) | image | accessors with callbacks, key encoding | derived fields; encoding is not one to one | derived fields follow |
| Users, groups, roles (`authentication/`) | membership on both sides; the dummy user in the API's process | join, leave, delete, log in | two saves; whole documents saved from old images | both sides agree; the deleted stay so |
| Archiver (`utils/archiver.rb`) | files left in a folder | archive a file | two files per archive, agents count alone | folder limits |
| Daemonizer (`utils/daemonizer.rb`) | pid file | start, stop, status | read-test-write of a file | one daemon |
| Status, logging, backoff, GUI, resource server, configuration files, programs, web assets | - | reports, I/O, pages | - | - |

How they interact: the launcher forks agents and one trigger thread.  The trigger
inserts documents whose pending action is a collect or a utility action; agents
take them, and create documents, which other agents split, publish and consume.
The API adds pending actions to published documents.  They share nothing but
MongoDB; each has a signature that the lock field names.

## 2. Modules

| Module | What it is |
|---|---|
| `LockingCRUD` | the lock, with a clock, wait loops, expiry, crashes and clean-up |
| `Lease` | what the lock promises: one owner, who sees the latest contents |
| `LockingCRUD_proofs` | proofs for any clients, keys and durations |
| `LockingCRUD_refinement` | the proof that the lock implements `Lease` |
| `MCLockingCRUD` | instances for TLC |
| `Processing` | the pipeline: agents, documents in four collections, launcher, API |
| `Processing_proofs` | proofs for any agents and documents |
| `Processing_copies` | proofs about the copies of a document, on top of these |
| `MCProcessing` | instances for TLC |
| `ScheduledActionTrigger` | launchers that compete for the semaphore and trigger an action |
| `ScheduledActionTrigger_proofs` | proofs for any launchers and durations |
| `MCScheduledActionTrigger` | instances for TLC |
| `Workflow` | one workflow: requests, clean-up, launchers, and documents that go through it |
| `Workflow_proofs` | proofs for any actions, docspecs, launchers and documents |
| `MCWorkflow` | instances for TLC |
| `Membership` | users and groups, each listing the other, under requests that save one after the other |
| `Membership_proofs` | proofs for any users, groups and requests |
| `MCMembership` | instances for TLC |
| `Launcher` | the launcher's main thread, its signal handlers' threads, and its agents' processes |
| `Launcher_proofs` | proofs for any number of agents, signals, deaths and changes |
| `MCLauncher` | instances for TLC |

The modules overlap where components meet, each leaving to the others what they
show: `Processing` has locks without expiry (those are in `LockingCRUD`) and a
launcher that recovers and restarts in a few steps (step by step in `Launcher`);
`Workflow` has documents without collections or crashes (those are in `Processing`)
and collects that are triggered by whoever may (who may is in
`ScheduledActionTrigger`).

### LockingCRUD

`coll[k]` is the stored document of natural key `k` with `_id`, revision and lock;
`img[c][k]` the image a client holds; `call[c]` a locking call between two of its
database operations; `up` the running clients; `now` the clock.

* `FindLocked`, `FindFails`, `Probe`, `Try`, `Test`, `CreateLocked` are the operations
  of `find_one_locked`, `find_or_create_one_locked` and the wait loop, one action per
  database operation or clock test.
* `CreateUnlocked`, `SaveUnlock`, `SaveKeep`, `Delete` are the writes; `WriteRefused` is
  the `LockExpiredError` or the failed delete.
* `Abandon` is a block that raises inside `with_new_or_existing_locked_document`,
  `Crash` the end of a process, `ForceUnlockHeldBy` and `ResetExpired` the launcher's and
  the database clean-up.

Contents are the number of the write they come from: enough to tell a lost update
from a correct one.  Callers drop an image after an unlocking save or a failed write
and never lock a key whose image they hold (`agent/agent.rb:124` refuses it).
`Lease` is refined with owner = the client whose image shows an unexpired lock,
contents = the number of the last write, and what an owner sees = that of its image.
The instant at which a lock ends counts as held, in `HolderIsCurrent` and in `Lease`: the
queries ask for `$lt` (`locking_crud.rb:146`).  The test of the image in
`locked_by_anyone?` is strict, so that the property is stronger by that instant.

### Processing

`store[c][i]` is the document with `_id` `i` in `documents`, `published`, `failures` or
`history`; `pc[a]` and `job[a]` are the place and the document of an agent.

* `ScanDocuments`, `ScanPublished`: `get_one_for_processing_locked`, collection by
  collection, from `documents` anew after each document.
* `CollectCreate`, `Collect`, `Split`, `Utility`, `Publish`, `Consume`: `execute_action`;
  the body of an action is user code and ends in an outcome: `ok`, `raise`, `notify` (an error is left on
  the document, the action goes on) or `abort`.  `Continue` is the loop over pending
  actions; consumers appended by a publisher run in the same pass.
* `SaveDelete`, `SaveReplace`, `SaveInsert`, `SaveMove`: `Document#save` and
  `LockingCRUD#save`.  `SaveMove` is the delete from the old collection, a step of its
  own.  A save that fails ends the agent (`Die`).
* `Crash`, `Launch`, `Recover`, `Restart`, `Reap`, `Restarted`: processes and launcher.
  Recovery unlocks collection by collection.  A restart signals the agents and waits;
  it unlocks nothing.
* `MarkLock`, `MarkSave`: `mark_consume_id`.

Simplifications: agents lock for a year, so locks do not expire here; any pending
document may be the oldest (hosts' clocks order them); one published type; a
signature whose locks were all cleared is used again for the next agent (signatures
are random in the code, so nothing can tell the two apart); failures, history and
published documents keep their `_id`, as `insert_one` of an image with `_id` does.
A document that is not published has one pending action at most: collect and utility
actions have docspecs of their own, and what two split or publish actions on one docspec
do to each other's marks (`DocumentMarkError`, `document/document.rb:364-376`) is left
out; with one action there is no mark yet when it sets its own.  So is what the body of a
split does to other documents: `edit_document` (`agent/agent.rb:124-136`) locks or creates
each of them and saves it, which are the calls of `LockingCRUD`.

### ScheduledActionTrigger

`semaphore` is the lock of the semaphore document, `image[l]` what launcher `l` believes
to have left of it, `pc[l]` the place of its trigger thread, `lastRun[l]` its `@last_run`
of one scheduled action (`none`, `passed`, or `due` when an instant of the schedule has
passed since), `triggers` the trigger documents in `documents`.

* `Check`, `Seek`, `Reset`: `responsible_for_triggering_actions`; a first time-out resets
  expired locks and tries again.
* `Trigger`, `Create`: `trigger_actions` with the find and the insert of
  `ensure_one_exists`, and `remove_unseen_actions`.  `Update`: `update_status_in_db`.
* `Sleep`, `Stop`, `Stopped`: the loop, and the two halves of `stop` around `join`.
* `Crash`, `Tick`, `Instant`, `Collected`, `CleanUp`, `SetActive`: processes, time, agents
  that take trigger documents away, the database clean-up, the state of the workflow.

Time is relative, so that the state space is finite without a horizon: a lock has a
time left, a schedule an instant that has passed or not.  Whether `last_run` differs
from what is stored is left open in `Update` (it may, or may not, be the same hash).
Launchers have different signatures: the code makes them of the `object_id` of the
thread, which nothing keeps apart between hosts; two equal ones would share the lock.
A `@semaphore_doc` that stays set after `stop` shows no lock, as no image does.

### Workflow

`mode`, `check` and `config` are the stored run mode, unused-output check and action
configurations; `request[r]` what a request that is under way was asked for, the images it
has loaded and not yet written (`todo`), and what others have written `beside` it since;
`counted` the two-second-old count of documents in process of the API's process;
`launcher[l]` the set of actions a launcher and its agents have loaded; `doc` documents
in process, each with the docspec, the pending actions and the agent that has it.

Requests to the API are answered by threads of their own and the clean-up is run by an
agent: any number of requests overlap (`MaxRequests` of them in a run; the theorems are for
any number).  One that loads, checks and decides is one step, since it reads the
configurations once, at its start (`with_workflow`); everything it writes or counts later
is a step for each.

* `run`, `stop`, `clean_up` (the clean-up utility action) load and decide;
  `count_documents` is the count by which a stop goes on; `Write` is one update of
  `change_actions_active_status`, `Finish` the update of the mode, `Interrupt` an update
  that raises.  An update merges what it sets into what was loaded or what is stored
  (`update_merge` is in the configh gem): both outcomes are modelled.
* `update_action_config`, `set_action_retired`, `set_unused_output_docspec_check`: requests
  that load, and write one configuration in a later step, `Store`; an import is a sequence
  of them.  `ConfigurationInvalid` is an action that a new gem no longer accepts.
* `ask_for_document` with `trigger_collect`, `mark_consume` or `refuse`:
  a request that loads the set of actions, waits, for the lock of the document as long
  as it takes, and goes by the set it has loaded (`api.rb:849-866`).
* `refresh`, `launch_agents`: the launcher finds that a configuration was written, loads,
  and its agents finish what they have before new ones get the new set.
* `Trigger`, `Lock`, `Execute`, `Publish`, `Fail`, `Undefined`: a document's way, with the
  actions of the agent's own set.
* `actions_have_no_cycles` is what `tsort` finds, by its definition on sets: a set of
  docspecs that are each made from another one of the set.  An action that makes the
  docspec it takes is not in its way.

`torn`, `slipped` and `beside` are ghosts: they say when `ModeAgrees`, `RunningHasNoCycle`
and `AllOutputsHandled` promise something.  `torn` begins when a request ends half-way or
writes on top of an edit, or of a request with another aim, that it did not know of;
`slipped` when an edit is written between the load and the last update of a request that
runs or stops the workflow, or the other way round.  Both end with the next request
that has loaded after that and writes everything.  Overlaps of requests with the same
aim, of edits with each other, and of a request that has finished before the
other one writes nothing more, are not excepted, nor is anything that launchers and
agents do.

Approximations, all towards more behaviour: a second clean-up may begin while one is under
way; a launcher may load at any moment after a write (the code does once a minute).

### Membership

`db[x]` is the stored user or group with the accounts it lists; `request[r]` the documents
a request has loaded and changed and is still to save.  `add`, `remove` and `delete` are
`join_group`/`add_user`, `leave_group`/`remove_user` and the deletions of both classes,
which mirror each other; `authenticate` is every request that saves one account with
what it listed when it was loaded; `save` is `NonLockingCRUD#save`, a replace with
upsert.  `Raise` is a deletion that comes to an entry the other side lacks.

`dummy_user` is the user that a login under an unknown name authenticates and saves
(`auth_dummy_user`).  It is an account like others, which an administrator can find and
delete; the process of the API loads it when it starts, creates it when there is none
(`setup_dummy_user`), and never again looks at what is stored.  One process of the API is
modelled.  The resource admin answers logins, too, with an image of the dummy user of its
own, which is left out; the launchers set up accounts but answer no logins.

`exposed` is a ghost: the pairs that two requests were about at once, or one ended in
the middle of, or an older image was saved over.  It is what `SidesAgree` excepts, and it
is cleared when the pair agrees again and nobody is about it.  `AloneSettles` is about the
pairs a request changes: adding a membership from the side that lists it already changes
none, and repairs nothing.

### Launcher

`main` is the place of `run`, `kill[t]` that of a thread in `kill_agents`, `agents` is
`@agents`, `proc` the agents' processes with the configuration they have.

* `Fork`, `Launched`, `Loop`, `Killed`, `Recover`, `RecoverDelete`, `RecoverLaunch`,
  `WaitAll`: the main thread.  `refresh_config`, `RefreshFails`: a configuration that
  changed, one that cannot be loaded.
* `CountAgents` to `AllKilled`: one action per signal, wait and removal of `kill_agents`.
  `NoSuchProcess` is `ESRCH`, which is not rescued.
* `Signal`, `Shutdown`, `Raise`: a handler's thread, and what an exception of the main
  thread does.
* `Boot`, `Stop`, `Die`: an agent's process.  It is a zombie until somebody waits for it.

Ruby's threads switch between these steps; forking and entering the pid into
`@agents` are one step, and adding while another thread is in `each_with_index` raises.
The scheduled trigger is assumed to stop when told to (its `stop` is in
`ScheduledActionTrigger`).

## 3. Runs

| Run | Checks | Bounds |
|---|---|---|
| `LockSafety` | `TypeOK`, `HolderIsCurrent`, `LockProtects`, `NoResurrection`, `ImplementsLease` | 3 clients, 1 key, holds of 2, calls and renewals before time 4, 4 writes |
| `LockLiveness` | `CallsEnd`, `OrphanLocksFreed` | 2 clients, 2 keys locked in either order, waits 0 and 1, calls start at time 0, 2 writes |
| `PipelineSafety` | `TypeOK`, `WorkersHoldLocks`, `OneCopy`, `NoVersionLost`, `PublishedStays` | 3 signatures, 2 agents, a collect and a draft, 1 created document, every outcome, 1 crash, 1 restart, 1 request |
| `PipelineSettles` | `WorkersHoldLocks`, `EventuallySettled`, `NoVersionLost` | 2 agents, a collect beside a draft, two drafts of one published id, or a split beside a utility action; no `notify` of a collect or a publisher, no aborting consumer, no restart, 2 crashes, also after the published copy is stored and before the original is deleted |
| `TriggerFailOver` | `TypeOK`, `OneResponsible`, `TriggersDontPileUp`, `StoppedHoldsNoLock`, `FailOver`, `EverTriggered`, `StopEnds` | 2 launchers, holds of 2, renewal below 1, 1 crash; time, stops and the workflow unbounded |
| `WorkflowStops` | `TypeOK`, `ModeAgrees`, `RunningHasNoCycle`, `AllOutputsHandled`, `StoppingEnds`, `LeftBehindEnds` | a collect, a publish and a consume action; the consumer can become cyclic, the publisher invalid or retired; 1 document at a time, 1 launcher, 2 requests at a time, 1 incident |
| `MembershipAgrees` | `TypeOK`, `SidesAgree`, `AloneSettles`, `StaysDeleted` | 3 users (one permanent, one at a time the dummy user), 1 group, 2 requests, 1 interrupt or restart |
| `LauncherKeeps` | `TypeOK`, `OneGeneration`, `AgentsKept`, `ShutdownEndsUnlessRaised` | 2 agents, 8 forks, 1 change, 1 signal, 1 error, 2 deaths |
| `PublishRollback` | violates `NoRollback` | three drafts of one published id |
| `RestartLeak` | violates `DeadAgentsUnlock` | 1 crash, 1 restart |
| `FailureMove` | violates `MovesEnd` | 1 crash inside a move to failures |
| `LauncherHangs` | violates `ShutdownEnds` | 2 agents, 1 signal, 1 death |

Bounds and why they suffice.  Three clients are a holder whose lock expired, the one
that came after it, and a third that comes between.  `Horizon` ends new calls and
renewals; `MaxTime` is far enough behind it for every lock to expire and every wait to
time out, so that liveness is not cut off by the clock.  `MaxWrites` bounds saves and
deletes that start; creating inside a call is not bounded, so that calls still end.
Two agents are enough for every race of the pipeline that two database clients can
have; a third signature is needed when one is lost in a restart.  `MaxIds` bounds
documents, `MaxCreates` those of one collect, `MaxCrashes`, `MaxRestarts` and `MaxMarks`
the events nobody schedules, `CrashAt` where agents are killed.  Two
launchers are the responsible one and the one that takes over, and a hold of 2 lets a
lock be fresh, about to be renewed and in its last instant.

In `WorkflowStops`, three actions are the shortest workflow in which a collect creates
what another action publishes and a consumer takes up, so that a document outlives the
collect that stopping turns off; the published document of `mark_consume` and the
collect's share the slot, one after the other.  An incident (`MaxIncidents`) is a request
that loads while another one is under way, an edit, a request for a document, an
interrupt, or an action that becomes invalid: with one of them every two requests
overlap at every pair of steps, run and edit included, since the incident is the second
one; runs, stops and clean-ups one after the other are not bounded.  Without the
exceptions `torn` and `slipped` the run violates `ModeAgrees`, `RunningHasNoCycle` and
`AllOutputsHandled`, so that the overlaps do happen within the bounds.  With two incidents (4.0 million states, too many for a run
of minutes) everything the run checks holds as well.
In `MembershipAgrees`, one pair needs two accounts; the second user is one who may be the
dummy user or follow it when it was deleted, the permanent one cannot be deleted.
(With two users and two groups, one of them permanent, 10.9 million states, the four properties
hold as well: there a deletion goes through two accounts one by one.)
In `LauncherKeeps`, eight forks are enough for two agents at the
start, two after the change, two after deaths and two more, so that the bound
never keeps the launcher from forking; the second death comes between any two steps
of the first one's recovery, or of a shutdown.

Deadlock is checked in the runs of `LockingCRUD`, `Processing` and
`ScheduledActionTrigger`, where somebody can always go on.  It is not in the others: a
launcher ends after a signal, and a stopped workflow or a set of accounts may have
nothing left to do once the bounded events have happened.

The outcomes left out of the settling runs are those of section "Findings": there
the code does not settle.  `PipelineSafety` leaves out a kill between the two
operations of a save, where a document is in two collections until it is taken up
again; `PipelineSettles` has it.

### Fairness

* `LockingCRUD`: a client goes on with a call it is in (it is a loop with bounded
  sleeps), time passes, and the clean-up runs (`db_cleanup_utility_action.rb` has a
  schedule of one minute).  Nothing makes a client save what it locked, or live.
* `Processing`: agents that run go on (`run` is a loop), and so does the launcher's loop
  (`recover_dead_agents` each second), the end of a restart and the save of a consume
  request.  Actions are assumed to end.  Nothing makes a crash, a configuration
  change or a request happen.  Weak fairness of the whole agent step is enough:
  the choice inside it is the outcome of the action, any of which may be taken.
* `ScheduledActionTrigger`: the threads of living launchers go on, time and the schedule
  pass, agents collect trigger documents.  Neither the clean-up nor anything else is
  assumed to reset the semaphore: the launchers do it themselves.  An action that is
  switched on and off for ever promises nothing (`EverTriggered`).
* `Workflow`: a request that has begun goes on unless it is interrupted, launchers refresh
  and restart, agents take documents and actions end.  The clean-up is triggered each
  minute and a document is looked for all the time, while the workflow may be stopping,
  and an agent be up, only now and then: both are strongly fair (`SF`), as the
  periods between two edits or two refreshes are longer than what they need.
  Nothing makes anybody ask for a stop.
* `Membership`: no liveness; a request may end half-way.
* `Launcher`: `run`, each thread in `kill_agents` and each agent goes on.
  `refresh_config` is strongly fair: the loop comes by it again and again, and every so
  often the configuration is due.  Nothing makes an agent die or a signal arrive.

### Findings

Runs that TLC ends with a counterexample:

1. Concurrent publishers can replace a newer version by an older one
   (`PublishRollback`): the timestamps are compared with a copy read before the save.
2. Agents that die around a restart leave documents locked for a year (`RestartLeak`).
3. A kill between the two operations of a save to `failures` (or to the history)
   leaves two copies; every agent that takes the original dies on the duplicate `_id`
   (`FailureMove`).
4. An agent that ends by itself during a shutdown can make it hang (`LauncherHangs`):
   `Process.kill` raises `ESRCH` for an agent another thread has waited for,
   `launcher.rb:190` rescues `ECHILD` only, and the agents after that one get no signal.
   `ShutdownEndsUnlessRaised` shows that nothing else keeps the launcher from ending.

Observations that the models contain and no run of their own shows:

* A publisher that reports an error on a document published before never reaches
  failures: save looks there for the `_id` of the published copy
  (`document/document.rb:266`).  `EventuallySettled` fails as soon as
  `PublishOutcomes` contains `notify`.
* A kill in the middle of a move to `failures` leaves an original that a later publisher may
  take and publish, and a copy in `failures` with the same id.  A newer version of that
  document_id whose publisher ends in an error then replaces the copy in `failures`, and
  the error of the version after it replaces that one, which was the only copy of its
  version.  With `CrashAt` = `{"failures"}` and the other bounds of `PipelineSafety`,
  `OneCopy` fails; with `Created` = `{d2}`, two creates and four ids as well,
  `NoVersionLost` fails too.  Hence `NoKillInMove` in the theorems.
* A consumer that aborts in the pass of a re-publish ends its agent again and again:
  `mark_abort` clears the publish mark (`document/document.rb:379`).
  `EventuallySettled` fails as soon as `ConsumeOutcomes` contains `abort`.
* A holder whose lock expired, was reset, taken and released by another client may
  still save and overwrites the other's contents: every save accepts
  `_locked: false` (`locking_crud.rb:179`).  `Lease` states this (`WriteUnowned`).
* `create_one_locked` ignores the hold duration it is given (`locking_crud.rb:188`,
  action `CreateLocked`).
* `stop` of the scheduled trigger before its thread has set `@running`
  (`utils/scheduled_action_trigger.rb:55,120`) waits for ever; `StopEnds` is about the
  stops after that.
* `@last_run` of the semaphore document is written and never read: a launcher that takes
  over does not know what the other has triggered, and misses the instants in between.
* A launcher whose semaphore expires between the find and the insert of
  `ensure_one_exists` adds a second trigger document.  `TriggersDontPileUp` bounds them.
* Nothing keeps requests to one workflow apart.  A `run` beside a `stop` leaves some actions
  active and others not; an edit written between the checks of a `run` and its last
  update leaves a running workflow that has a cycle or an unused output, and a launcher
  then works with no set at all, or with one that leaves documents behind.  `torn` and
  `slipped` except these, until the next request that loads after them has finished.
* A consume request that has loaded its set before a stop, and gets the lock after it,
  leaves a document in a stopped workflow.  So does a collect that was triggered before.
* An administrator's `stop` goes by a count up to two seconds old and can stop a workflow
  with documents in process; a published document that is locked is not counted at all,
  which `document/document.rb:112` says.  Nor is one whose docspec an edit took out of the
  workflow (`actions/workflow.rb:426` asks for the docspecs of the configurations it has):
  it stays in process after a stop.  Hence `LeftBehindEnds`, which says what becomes of
  these documents, and no property that nothing is left.
* A launcher that refreshes half-way through `run` has some of the actions; a document
  its agents create may find none to handle it, and is counted for ever.  The same
  happens when the check for unused outputs is off, or the action that handled a docspec
  is retired.  Hence the exceptions of `AllOutputsHandled` and `StoppingEnds`.
* A `run` that is interrupted leaves active actions, collects among them, in a stopped
  workflow, which `stop` refuses to stop ("Cannot stop - 0 documents still processing");
  running and stopping it again repairs it.
* A collect that was triggered and not yet taken when the workflow begins to stop ends as
  an "Undefined action" failure once the agents have the new set.
* `tsort` accepts an action that makes the docspec it takes (so does
  `actions_have_no_cycles`): `RunningHasNoCycle` is about the other cycles.
* A membership that only one side lists is repaired by adding it from the side that lacks
  it, not from the side that lists it, and a deletion that ended half-way raises when it
  is tried again until it is repaired.  For a user that lists a deleted group `all_roles`
  asks nil for its roles, so that every request about that user's memberships raises
  (`HasRoles`).
* A request that loaded an account before it was deleted brings it back (`StaysDeleted`):
  `save` is an upsert, as the warning above `NonLockingCRUD` admits.  The dummy user comes
  back with the next login under an unknown name, whoever else is under way: the
  process saves the image it has had since it started, with the memberships of then
  (`authentication/user.rb:157`).
* `recover_dead_agents` waits for a pid that a shutdown's thread may have waited for; the
  `ECHILD` ends `run` with an error status, once the shutdown is under way in any case.
* An error of one configuration's refresh stops all agents until the next change of a
  configuration, since what was refreshed before does not look changed any more
  (`AgentsKept` excepts `failed`).
* After the thread of one signal has died on a pid, the thread of a second signal dies
  on the same.

## 4. Proofs

All theorems hold for every value of the constants that `ConstantsAssumption` admits:
`None` and `Api` are no clients or agents, bounds are naturals, `PublishId` is a function
on document ids, the seed is a sequence of unlocked documents that no publisher has had
and that wait for one action at most, the launchers are finitely many, and so are
requests and docspecs.  In `Launcher` there is at least one agent to keep, in `Membership` no
account is both a user and a group.

* `LockingCRUD_proofs`.  `HolderIsCurrent` is not inductive: it needs that a free key is
  unlocked, that `_id`s and revisions are at most the number of writes (so that a new
  document is never mistaken for a deleted one), that a call under way has a key and
  that a dead client has neither images nor calls.  `IInv` is the conjunction.
  A step either leaves a client's image alone and its document too
  (`LocalStep`, `LiveImageIsHolders`), or shows it anew.  `LockAlwaysProtects` and
  `NeverResurrected` are action properties that follow from `IInv` and one case per
  action.
* `LockingCRUD_refinement`.  `LockImplementsLease` adds to `IInv` that a key has a document
  exactly when it has contents.  From `HolderIsCurrent` at most one client has an
  unexpired image of a document (`OneOwner`), so that the owner of the refinement mapping
  is known in every state.  What one step of a client does to the mapping is one of three
  things: it makes the client the owner (`GainBars`), takes the ownership from it
  (`LoseBars`), or changes neither; each action is then one step of `Lease` or a
  stutter.  Time that passes can end several leases at once.
* `Processing_proofs`.  `WorkersHoldLocks` is proved with: a stored document has a
  document_id, a worker has a document, and the API holds the lock of what it marks.
  One lemma per kind of store update (`PutKeeps`), then one per group of actions.
* `Processing_copies`.  `PInv` says which actions and flags documents of each collection
  have, which marks a job can have collected with them, and that an agent knows under
  which document_id its published document, and the one it is to replace, are stored:
  the reason why a publisher's replace and a consumer's save find what they look for,
  and why `PublishedStays` holds for any kills and restarts.  `MInv` adds where the copies
  are: one outside `documents`; one in `documents` as well only while an agent is between
  the two operations of a save, whose first one has stored it.  It gives `OneCopy` and
  `NoVersionLost`, with the hypothesis `NoKillInMove` (`CrashAt` is at most `act` and
  `save`, as in `PipelineSafety`).  A kill between the two operations breaks both; how is
  among the observations.
* `Workflow_proofs`.  No hypotheses: the theorems hold for any number of requests that
  overlap in any way.  `ModeAgrees` says nothing while a request is writing, so the
  invariant `WInv` does, for each request by itself (`RequestOK`): as long as no edit was
  written beside it, what it checked when it loaded holds and what it has left is what is
  stored, with the new flag (`TodoOK`); as long as nobody wrote what it did not know of, what
  it does not have left has the flag of its aim (`DoneOK`), its aim follows from the
  mode (`FromOK`), and the image of an edit is that of a stopped workflow (`ImageOK`), or
  it would make an action active.  `ModeOK` then says of every action that it has the
  flag of the mode or is one that a request under way has written; a retired
  action is inactive, or it would come back active in a stopped workflow.  `NoUnused` and
  `NoCycle` are what `run` checked, `Views` that a set that is loaded from valid
  configurations has no cycle.  One lemma per action says what it leaves of these.
  `RunningHasNoCycle` speaks of an order of the docspecs, the check of sets without a
  first element; `HasOrder` proves that the first follows from the second for any finite
  relation, by a largest set that can be put in order.  For `AllOutputsHandled`,
  `OrphanIsCreated` shows that a document is only ever left without an action by the agent
  that creates it.
* `ScheduledActionTrigger_proofs`.  `OneResponsible` follows from: an image with time left
  is the lock of the semaphore with the same time left (`ImageIsLock`).
  `StoppedHoldsNoLock` needs the other direction as well (`LockIsInImage`: a living
  launcher knows of the lock it has) and that an ended thread has no image.
  `TriggersDontPileUp` is inductive with the types; the proof counts the threads that
  are about to insert, and is where the launchers have to be finitely many.
* `Membership_proofs`.  `SidesAgree` is not inductive: one must know what a request that is
  half-way will save.  `Completes` says that the saves left of a request make its pairs the
  same on both sides, unless the pair is exposed; `Paired` and `Covered` that the saves and
  the pairs of a request belong together, `Contested` that two requests are never about
  the same pair without its being exposed, `Present` what a request that is alone knows of
  the accounts it is about, `Dummy` that the image of the dummy user is the one it was loaded
  with (it may list accounts that list it no more: those pairs are exposed when it is
  saved).
  `AloneSettles` and `StaysDeleted` follow step by step.
* `Launcher_proofs`.  `OneGeneration` needs that every agent that lives is in `@agents`,
  unless its fork raised, after which `run` forks no more (`Known`, `Ending`); that those
  in `@agents` and those still to be forked are together at most `num_agents`
  (`NotTooMany`); that `kill_agents` of the main thread comes to every agent although
  other threads remove some meanwhile (`Covers`, by the number of agents ahead and the
  number of signals left); and that what a thread removes has been waited for
  (`RemovesReaped`).  `ThreadsLeft` counts the threads that handlers start.
  One lemma says what a step of `kill_agents` keeps (`KillKeeps`), one what an exception of
  the main thread keeps (`RaiseKeeps`), one what all steps keep that change neither
  `@agents` nor threads (`OthersKeep`); the actions are instances of these.

Only model-checked: all liveness (`CallsEnd`, `OrphanLocksFreed`, `EventuallySettled`,
`FailOver`, `EverTriggered`, `StopEnds`, `StoppingEnds`, `LeftBehindEnds`, `AgentsKept`,
`ShutdownEndsUnlessRaised`), which under fairness is beyond the prover, and
`NoVersionLost` in `PipelineSettles`, whose instance has kills inside a move but no
`notify` outcome.

## 5. Assumptions and what is not modelled

One clock for all hosts and the server; each database operation on one document is
atomic, `update_many` and `force_unlock...` are taken as one step per collection in
`Processing` and per document in `LockingCRUD`; a connection never fails halfway.
Read-only finds, conversions, logging, status and I/O are left out, and so are:

* of the agent, the divider a collect may use, what a split edits with `edit_document`
  (its lock, taken while another one is held, is in `LockLiveness`; that the split's own
  document is deleted is in `Processing`) and the action state;
* of the launcher, its status documents, which nobody decides on;
* of workflows, several that share docspecs, retiring a whole workflow, the test callbacks
  of actions and the layout of an import;
* the archiver (only the size of its folders depends on who else archives), the daemonizer
  (commands of an operator over a pid file), backoff times, alerts, configuration files,
  the GUI and the resource server;
* the scripts under `admin/application/www_root/public/ui`: vendored UIkit and jQuery, which
  run in the browser and hold no state of Armagh.

`PROJECT.json` lists every component with what is modelled of it.

## 6. Plan

1. Done: `LockingCRUD`, `Lease`, `Processing`, `ScheduledActionTrigger`, `Workflow`,
   `Membership` and `Launcher` with their proofs, and that the lock refines `Lease`.
2. Proofs: `NoVersionLost` with kills inside a move and no `notify`, as in
   `PipelineSettles`.
3. `Processing`: the documents that a split edits, several actions on one docspec.
   `Archiver`: limits with several agents.
