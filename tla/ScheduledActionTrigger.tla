----------------------- MODULE ScheduledActionTrigger -----------------------
(***************************************************************************)
(* The scheduled action trigger of the launchers,                          *)
(* utils/scheduled_action_trigger.rb.  Each launcher runs one thread that  *)
(* tries to become responsible, by locking the semaphore document, and     *)
(* then inserts a trigger document for an action whose schedule has passed *)
(* (document/action_trigger_document.rb); agents take these documents      *)
(* away.  The launcher's main thread starts and stops the trigger.         *)
(*                                                                         *)
(* Database operations are atomic and the threads interleave between them. *)
(* Time is relative: for a lock, the time it has left (-1 when it has      *)
(* expired); for a schedule, whether one of its instants has passed since  *)
(* @last_run.  There is one scheduled action.                              *)
(***************************************************************************)
EXTENDS Integers, FiniteSets

CONSTANTS
    Launcher,    \* the launchers, each with a signature of its own
    None,        \* no launcher
    Hold,        \* default_lock_hold_duration of the semaphore
    Renew,       \* a lock that lasts less than this is renewed
    MaxCrashes   \* bound: launchers that are killed

ASSUME ConstantsAssumption ==
    /\ IsFiniteSet(Launcher) /\ None \notin Launcher
    /\ Hold \in Nat \ {0} /\ Renew \in Nat \ {0} /\ MaxCrashes \in Nat

VARIABLES
    semaphore,   \* the lock of the semaphore document
    image,       \* image[l]: time left in the lock of @semaphore_doc, or NoDoc
    pc,          \* where the trigger thread of l is
    running,     \* @running
    stopping,    \* the main thread of l is in stop
    lastRun,     \* @last_run of the action
    active,      \* the action is active
    triggers,    \* trigger documents of the action in `documents`
    crashes

vars == <<semaphore, image, pc, running, stopping, lastRun, active, triggers,
          crashes>>

Place == {"starting", "check", "seek", "reset", "seekAgain", "trigger", "create",
          "update", "sleep", "ended", "stopped", "crashed"}

Left  == -1..Hold
NoDoc == -2

Unlocked == [by |-> None, left |-> -1]
LockOf(l) == [by |-> l, left |-> Hold]

Init ==
    /\ semaphore = Unlocked
    /\ image = [l \in Launcher |-> NoDoc]
    /\ pc = [l \in Launcher |-> "starting"]
    /\ running = [l \in Launcher |-> FALSE]
    /\ stopping = [l \in Launcher |-> FALSE]
    /\ lastRun = [l \in Launcher |-> "none"]
    /\ active = TRUE
    /\ triggers = 0
    /\ crashes = 0

Goto(l, place) == pc' = [pc EXCEPT ![l] = place]

\* The lock expires after its last instant.
Expired == semaphore.by # None /\ semaphore.left = -1

-----------------------------------------------------------------------------
(* The trigger thread *)

\* run
Run(l) ==
    /\ pc[l] = "starting"
    /\ running' = [running EXCEPT ![l] = TRUE]
    /\ Goto(l, "check")
    /\ UNCHANGED <<semaphore, image, stopping, lastRun, active, triggers, crashes>>

\* responsible_for_triggering_actions, with locked_by_anyone? on the image.
Check(l) ==
    /\ pc[l] = "check"
    /\ IF image[l] > 0
       THEN Goto(l, "trigger") /\ UNCHANGED image
       ELSE Goto(l, "seek") /\ image' = [image EXCEPT ![l] = NoDoc]
    /\ UNCHANGED <<semaphore, running, stopping, lastRun, active, triggers, crashes>>

Take(l) ==
    /\ semaphore' = LockOf(l)
    /\ image' = [image EXCEPT ![l] = Hold]
    /\ Goto(l, "trigger")

\* find_one_locked: an attempt takes the lock, or the last one times out.
Seek(l) ==
    /\ pc[l] \in {"seek", "seekAgain"}
    /\ IF semaphore.by = None
       THEN Take(l)
       ELSE /\ Goto(l, IF pc[l] = "seek" THEN "reset" ELSE "sleep")
            /\ UNCHANGED <<semaphore, image>>
    /\ UNCHANGED <<running, stopping, lastRun, active, triggers, crashes>>

\* Mutant: the first timeout is not followed by a reset.
ResetNothing(l) ==
    /\ pc[l] = "reset"
    /\ Goto(l, "seekAgain")
    /\ UNCHANGED <<semaphore, image, running, stopping, lastRun, active, triggers,
                   crashes>>

\* force_reset_expired_locks after the first timeout, and retry.
Reset(l) ==
    /\ pc[l] = "reset"
    /\ semaphore' = IF Expired THEN Unlocked ELSE semaphore
    /\ Goto(l, "seekAgain")
    /\ UNCHANGED <<image, running, stopping, lastRun, active, triggers, crashes>>

\* Mutant: the trigger document is created without a look at those there are.
TriggerAlways(l) ==
    /\ pc[l] = "trigger"
    /\ \/ /\ active /\ lastRun[l] = "due"
          /\ lastRun' = [lastRun EXCEPT ![l] = "passed"]
          /\ Goto(l, "create")
       \/ /\ ~active \/ lastRun[l] # "due"
          /\ lastRun' = [lastRun EXCEPT ![l] = IF active THEN "passed" ELSE "none"]
          /\ Goto(l, "update")
    /\ UNCHANGED <<semaphore, image, running, stopping, active, triggers, crashes>>

\* Mutant: the actions seen are cleared before the unseen ones are removed.
TriggerUnseen(l) ==
    /\ pc[l] = "trigger"
    /\ lastRun' = [lastRun EXCEPT ![l] = "none"]
    /\ Goto(l, IF active /\ lastRun[l] = "due" /\ triggers = 0
               THEN "create" ELSE "update")
    /\ UNCHANGED <<semaphore, image, running, stopping, active, triggers, crashes>>

\* trigger_actions with the find of ensure_one_exists, and remove_unseen_actions.
Trigger(l) ==
    /\ pc[l] = "trigger"
    /\ lastRun' = [lastRun EXCEPT ![l] = IF active THEN "passed" ELSE "none"]
    /\ Goto(l, IF active /\ lastRun[l] = "due" /\ triggers = 0
               THEN "create" ELSE "update")
    /\ UNCHANGED <<semaphore, image, running, stopping, active, triggers, crashes>>

\* create_one_unlocked of ensure_one_exists
Create(l) ==
    /\ pc[l] = "create"
    /\ triggers' = triggers + 1
    /\ Goto(l, "update")
    /\ UNCHANGED <<semaphore, image, running, stopping, lastRun, active, crashes>>

\* Mutant: save looks at the _id only.
SavesAnyLock(l) == TRUE

\* unlocked_or_my_qualifier
Saves(l) == semaphore.by \in {None, l} \/ Expired

\* update_status_in_db: the document is saved, and the lock renewed, when @last_run
\* changed, as it may have, or when the lock is about to expire.
Update(l) ==
    /\ pc[l] = "update"
    /\ \/ image[l] >= Renew /\ UNCHANGED <<semaphore, image>>
       \/ /\ Saves(l)
          /\ semaphore' = LockOf(l)
          /\ image' = [image EXCEPT ![l] = Hold]
       \/ /\ ~Saves(l)
          /\ image' = [image EXCEPT ![l] = NoDoc]
          /\ UNCHANGED semaphore
    /\ Goto(l, "sleep")
    /\ UNCHANGED <<running, stopping, lastRun, active, triggers, crashes>>

\* Mutant: the loop does not look at @running.
SleepOn(l) ==
    /\ pc[l] = "sleep"
    /\ Goto(l, "check")
    /\ UNCHANGED <<semaphore, image, running, stopping, lastRun, active, triggers,
                   crashes>>

\* The end of the loop's body.
Sleep(l) ==
    /\ pc[l] = "sleep"
    /\ Goto(l, IF running[l] THEN "check" ELSE "ended")
    /\ UNCHANGED <<semaphore, image, running, stopping, lastRun, active, triggers,
                   crashes>>

-----------------------------------------------------------------------------
(* The main thread of the launcher *)

\* stop, up to join
Stop(l) ==
    /\ ~stopping[l] /\ pc[l] # "crashed"
    /\ stopping' = [stopping EXCEPT ![l] = TRUE]
    /\ running' = [running EXCEPT ![l] = FALSE]
    /\ UNCHANGED <<semaphore, image, pc, lastRun, active, triggers, crashes>>

\* Mutant: the semaphore is not saved.
StoppedKeepsLock(l) ==
    /\ stopping[l] /\ pc[l] = "ended"
    /\ image' = [image EXCEPT ![l] = NoDoc]
    /\ Goto(l, "stopped")
    /\ UNCHANGED <<semaphore, running, stopping, lastRun, active, triggers, crashes>>

\* stop, after join: gives the lock back when there is an image; an error is ignored.
Stopped(l) ==
    /\ stopping[l] /\ pc[l] = "ended"
    /\ semaphore' = IF image[l] # NoDoc /\ Saves(l) THEN Unlocked ELSE semaphore
    /\ image' = [image EXCEPT ![l] = NoDoc]
    /\ Goto(l, "stopped")
    /\ UNCHANGED <<running, stopping, lastRun, active, triggers, crashes>>

-----------------------------------------------------------------------------
(* The environment *)

\* The launcher's process is killed.
Crash(l) ==
    /\ pc[l] \notin {"stopped", "crashed"} /\ crashes < MaxCrashes
    /\ crashes' = crashes + 1
    /\ Goto(l, "crashed")
    /\ image' = [image EXCEPT ![l] = NoDoc]
    /\ UNCHANGED <<semaphore, running, stopping, lastRun, active, triggers>>

\* Mutant: time goes on in a lock that has expired.
ElapseBelow(left) == left - 1

Elapse(left) == IF left > -1 THEN left - 1 ELSE left

Tick ==
    /\ semaphore' = [semaphore EXCEPT !.left = Elapse(@)]
    /\ image' = [l \in Launcher |-> Elapse(image[l])]
    /\ UNCHANGED <<pc, running, stopping, lastRun, active, triggers, crashes>>

\* An instant of the schedule passes.
Instant ==
    /\ lastRun' = [l \in Launcher |-> IF lastRun[l] = "passed" THEN "due" ELSE lastRun[l]]
    /\ UNCHANGED <<semaphore, image, pc, running, stopping, active, triggers, crashes>>

\* An agent takes a trigger document away.
Collected ==
    /\ triggers > 0
    /\ triggers' = triggers - 1
    /\ UNCHANGED <<semaphore, image, pc, running, stopping, lastRun, active, crashes>>

\* The database clean-up, an action of its own, resets the expired lock.
CleanUp ==
    /\ Expired
    /\ semaphore' = Unlocked
    /\ UNCHANGED <<image, pc, running, stopping, lastRun, active, triggers, crashes>>

\* The workflow of the action is run or stopped.
SetActive ==
    /\ active' = ~active
    /\ UNCHANGED <<semaphore, image, pc, running, stopping, lastRun, triggers, crashes>>

-----------------------------------------------------------------------------
ThreadStep(l) ==
    \/ Run(l) \/ Check(l) \/ Seek(l) \/ Reset(l) \/ Trigger(l) \/ Create(l)
    \/ Update(l) \/ Sleep(l) \/ Stopped(l)

Next ==
    \/ \E l \in Launcher : ThreadStep(l) \/ Stop(l) \/ Crash(l)
    \/ Tick \/ Instant \/ Collected \/ CleanUp \/ SetActive

\* The threads of a running process go on, time passes and agents collect.
Fairness ==
    /\ \A l \in Launcher : WF_vars(ThreadStep(l))
    /\ WF_vars(Tick) /\ WF_vars(Instant) /\ WF_vars(Collected)

Spec == Init /\ [][Next]_vars
FairSpec == Spec /\ Fairness

-----------------------------------------------------------------------------
(* Properties *)

\* The types of the state.
TypeOK ==
    /\ semaphore \in [by : Launcher \cup {None}, left : Left]
    /\ image \in [Launcher -> Left \cup {NoDoc}]
    /\ pc \in [Launcher -> Place]
    /\ running \in [Launcher -> BOOLEAN]
    /\ stopping \in [Launcher -> BOOLEAN]
    /\ lastRun \in [Launcher -> {"none", "passed", "due"}]
    /\ active \in BOOLEAN
    /\ triggers \in Nat
    /\ crashes \in 0..MaxCrashes

\* locked_by_anyone? of @semaphore_doc
Responsible(l) == image[l] > 0

\* By their own clocks and images, at most one launcher is responsible, whatever the
\* others renewed, reset or saved after their lock had expired.
OneResponsible ==
    \A l, m \in Launcher : Responsible(l) /\ Responsible(m) => l = m

\* Trigger documents do not pile up while nobody collects: launchers whose lock
\* expired in the middle of a round can add one each, and no more.
TriggersDontPileUp ==
    triggers + Cardinality({l \in Launcher : pc[l] = "create"})
        <= Cardinality(Launcher)

\* A launcher that stopped leaves no lock behind that others would have to wait for
\* (but one in its last instant, which its thread had already given up).
StoppedHoldsNoLock ==
    \A l \in Launcher : pc[l] = "stopped" =>
        semaphore.by # l \/ semaphore.left <= 0

Gone(l) == stopping[l] \/ pc[l] = "crashed"

\* While one launcher lives there is again and again one that is responsible: a
\* crash, an expiry or a stop of the one that was does not end the triggering.
FailOver ==
    []<>(\E l \in Launcher : Responsible(l)) \/ <>(\A l \in Launcher : Gone(l))

\* An action that stays active is triggered again and again, whichever launcher is
\* responsible.
EverTriggered ==
    <>[]active => []<>(triggers > 0) \/ <>(\A l \in Launcher : Gone(l))

\* stop ends, once the thread has entered its loop.
StopEnds ==
    \A l \in Launcher :
        stopping[l] /\ ~running[l] /\ pc[l] # "starting"
            ~> pc[l] \in {"stopped", "crashed"}
=============================================================================
