------------------------------ MODULE Launcher ------------------------------
(***************************************************************************)
(* The launcher's process (launcher/launcher.rb) and the agent processes it *)
(* forks: it keeps num_agents of them, forks a new one for one that died,   *)
(* replaces them all when a configuration changes, and stops them when it   *)
(* gets a signal.                                                          *)
(*                                                                         *)
(* The main thread runs `run`.  A signal's handler, `shutdown`, interrupts   *)
(* the main thread and starts another thread for kill_all_agents, which the  *)
(* main thread may be in, too: what it does in between, reaping agents above  *)
(* all, is seen by that thread.  What agents do with documents, and what is   *)
(* locked when they die, is in Processing, the trigger thread in              *)
(* ScheduledActionTrigger.                                                   *)
(***************************************************************************)
EXTENDS Integers, FiniteSets

CONSTANTS
    NumAgents,     \* num_agents
    MaxPid,        \* bound: agents forked
    MaxChanges,    \* bound: configuration changes
    MaxSignals,    \* bound: signals
    MaxErrors,     \* bound: exceptions of refresh_config
    MaxDeaths      \* bound: agents that end by themselves

\* The main thread, and those that handlers start, in this order.
Main   == 0
Killer == 1..(MaxSignals + 1)
Thread == Killer \cup {Main}
Pid    == 1..MaxPid

ASSUME ConstantsAssumption ==
    /\ NumAgents \in Nat \ {0} /\ MaxPid \in Nat
    /\ MaxChanges \in Nat /\ MaxSignals \in Nat
    /\ MaxErrors \in Nat /\ MaxDeaths \in Nat

VARIABLES
    config,     \* how often the configuration was changed
    seen,       \* the change that refresh_config has seen
    failed,     \* refresh_config found an error in it
    shutdown,   \* @shutdown; @running is not set before the loop and not otherwise
    main,       \* where the main thread is
    kill,       \* where each thread is in kill_agents
    agents,     \* @agents; pids are added in order
    proc,       \* the agents' processes
    used        \* signals, errors and deaths so far

vars == <<config, seen, failed, shutdown, main, kill, agents, proc, used>>

\* `todo`: agents that are still to be forked; `last`: the agent that
\* recover_dead_agents has come to.
MainType == [at : {"fork", "loop", "recover", "reaped", "kill", "waitall",
                   "ended"},
             todo : 0..NumAgents, last : 0..MaxPid,
             in : {"start", "refresh", "rescue", "recover"}]

\* `left`: agents that are still to be signalled, `last` the one signalled last,
\* `killed` those to wait for, `pid` the one that was waited for.
KillType == [at : {"off", "count", "each", "wait", "delete", "done", "raised"},
             left : 0..MaxPid, last : 0..MaxPid, killed : SUBSET Pid, pid : 0..MaxPid]

Off   == [at |-> "off", left |-> 0, last |-> 0, killed |-> {}, pid |-> 0]
Count == [Off EXCEPT !.at = "count"]

\* A "young" agent has not set its traps, one that is "up" works, one that is told
\* to stop finishes its document.  It is a "zombie" until the launcher has waited
\* for it.  `gen`: the configuration it has, `told`: what it inherited of @shutdown.
ProcType == [is : {"none", "young", "up", "stopping", "zombie", "reaped"},
             gen : 0..MaxChanges, told : BOOLEAN]
NoProc == [is |-> "none", gen |-> 0, told |-> FALSE]

Children == {p \in Pid : proc[p].is \in {"young", "up", "stopping", "zombie"}}
Alive    == {p \in Pid : proc[p].is \in {"young", "up", "stopping"}}

Least(S) == CHOOSE p \in S : \A q \in S : p <= q

Init ==
    /\ config = 0 /\ seen = 0 /\ failed = FALSE /\ shutdown = FALSE
    /\ main = [at |-> "fork", todo |-> NumAgents, last |-> 0, in |-> "start"]
    /\ kill = [t \in Thread |-> Off]
    /\ agents = {}
    /\ proc = [p \in Pid |-> NoProc]
    /\ used = [signals |-> 0, errors |-> 0, deaths |-> 0]

Becomes(p, what) == proc' = [proc EXCEPT ![p].is = what]
Goto(place) == main' = [main EXCEPT !.at = place]

-----------------------------------------------------------------------------
(* shutdown                                                                  *)

\* The handler, and what `rescue` of run calls: @shutdown is set, and a new thread
\* is to kill the agents there are when it counts them.
Shutdown(threads) ==
    /\ shutdown' = TRUE
    /\ LET t == Least({k \in Killer : kill[k].at = "off"})
       IN  kill' = [threads EXCEPT ![t] = Count]

\* The traps are set at the start of run.
Signal ==
    /\ main.at # "ended"
    /\ used.signals < MaxSignals /\ used' = [used EXCEPT !.signals = @ + 1]
    /\ Shutdown(kill)
    /\ UNCHANGED <<config, seen, failed, main, agents, proc>>

\* The main thread raises: refresh_config kills all agents (once more), run ends.
Raise ==
    IF main.in = "refresh"
    THEN /\ main' = [main EXCEPT !.at = "kill", !.in = "rescue"]
         /\ kill' = [kill EXCEPT ![Main] = Count]
         /\ failed' = TRUE
         /\ UNCHANGED shutdown
    ELSE /\ Goto("waitall")
         /\ Shutdown([kill EXCEPT ![Main] = Off])
         /\ UNCHANGED failed

-----------------------------------------------------------------------------
(* kill_agents(@agents.length), in any thread.                               *)

SetKill(t, to) == kill' = [kill EXCEPT ![t] = to]

OnlyKill == UNCHANGED <<config, seen, failed, shutdown, main, used>>

CountAgents(t) ==
    /\ kill[t].at = "count"
    /\ SetKill(t, IF agents = {} THEN [Off EXCEPT !.at = "done"]
                  ELSE [Off EXCEPT !.at = "each", !.left = Cardinality(agents)])
    /\ OnlyKill /\ UNCHANGED <<agents, proc>>

\* What @agents.each_with_index comes to next.
Ahead(t) == {p \in agents : p > kill[t].last}

Signalled(t, p) == [kill[t] EXCEPT !.left = @ - 1, !.last = p, !.killed = @ \cup {p}]

\* Process.kill of an agent that has not been reaped.
SignalAgent(t) ==
    /\ kill[t].at = "each" /\ kill[t].left > 0 /\ Ahead(t) # {}
    /\ LET p == Least(Ahead(t)) IN
       /\ proc[p].is # "reaped"
       /\ IF proc[p].is = "zombie" THEN UNCHANGED proc ELSE Becomes(p, "stopping")
       /\ SetKill(t, Signalled(t, p))
    /\ OnlyKill /\ UNCHANGED agents

\* One that has been raises ESRCH: `rescue Errno::ECHILD` is not for it.
NoSuchProcess(t) ==
    /\ kill[t].at = "each" /\ kill[t].left > 0 /\ Ahead(t) # {}
    /\ proc[Least(Ahead(t))].is = "reaped"
    /\ IF t = Main THEN Raise
       ELSE SetKill(t, [kill[t] EXCEPT !.at = "raised"])
            /\ UNCHANGED <<main, failed, shutdown>>
    /\ UNCHANGED <<config, seen, agents, proc, used>>

EachEnds(t) ==
    /\ kill[t].at = "each" /\ (kill[t].left = 0 \/ Ahead(t) = {})
    /\ SetKill(t, [kill[t] EXCEPT !.at = "wait"])
    /\ OnlyKill /\ UNCHANGED <<agents, proc>>

\* Process.waitpid, which another thread may have done.
WaitFor(t) ==
    /\ kill[t].at = "wait" /\ kill[t].killed # {}
    /\ LET p == Least(kill[t].killed) IN
       /\ proc[p].is \in {"zombie", "reaped"}
       /\ Becomes(p, "reaped")
       /\ SetKill(t, [kill[t] EXCEPT !.at = "delete", !.killed = @ \ {p}, !.pid = p])
    /\ OnlyKill /\ UNCHANGED agents

DeleteKilled(t) ==
    /\ kill[t].at = "delete"
    /\ agents' = agents \ {kill[t].pid}
    /\ SetKill(t, [kill[t] EXCEPT !.at = "wait"])
    /\ OnlyKill /\ UNCHANGED proc

AllKilled(t) ==
    /\ kill[t].at = "wait" /\ kill[t].killed = {}
    /\ SetKill(t, [Off EXCEPT !.at = "done"])
    /\ OnlyKill /\ UNCHANGED <<agents, proc>>

kill_agents(t) ==
    \/ CountAgents(t) \/ SignalAgent(t) \/ NoSuchProcess(t) \/ EachEnds(t)
    \/ WaitFor(t) \/ DeleteKilled(t) \/ AllKilled(t)

-----------------------------------------------------------------------------
(* The main thread.                                                          *)

\* Mutant: the agent starts whether or not @shutdown is set.
inherits_nothing(p) == [is |-> "young", gen |-> seen, told |-> FALSE]

\* What an agent that is forked now inherits.
Inherits(p) == [is |-> "young", gen |-> seen, told |-> shutdown]

\* start_agent_in_process.  Nothing can be added to @agents while another thread
\* is in @agents.each_with_index.
Fork ==
    /\ main.at = "fork" /\ main.todo > 0
    /\ \E p \in Pid :
          /\ proc[p] = NoProc /\ \A q \in 1..(p - 1) : proc[q] # NoProc
          /\ proc' = [proc EXCEPT ![p] = Inherits(p)]
          /\ IF \E t \in Killer : kill[t].at = "each"
             THEN Raise /\ UNCHANGED agents
             ELSE /\ agents' = agents \cup {p}
                  /\ main' = [main EXCEPT !.todo = @ - 1]
                  /\ UNCHANGED <<failed, shutdown, kill>>
    /\ UNCHANGED <<config, seen, used>>

OnlyMain == UNCHANGED <<config, seen, failed, shutdown, kill, agents, proc, used>>

ToRecover == [at |-> "recover", todo |-> 0, last |-> 0, in |-> "recover"]

\* After launch_agents: refresh_config is followed by recover_dead_agents.
Launched ==
    /\ main.at = "fork" /\ main.todo = 0
    /\ main' = IF main.in = "refresh" THEN ToRecover ELSE [main EXCEPT !.at = "loop"]
    /\ OnlyMain

\* The loop ends, or the configuration is not due.
Loop ==
    /\ main.at = "loop"
    /\ main' = IF shutdown THEN [main EXCEPT !.at = "waitall"] ELSE ToRecover
    /\ OnlyMain

ToKill(in) ==
    /\ main' = [main EXCEPT !.at = "kill", !.in = in]
    /\ SetKill(Main, Count)

\* Mutant: the new agents are launched beside the old ones.
refresh_and_launch ==
    /\ main.at = "loop" /\ ~shutdown /\ seen # config
    /\ seen' = config /\ failed' = FALSE
    /\ main' = [main EXCEPT !.at = "fork", !.in = "refresh", !.todo = NumAgents]
    /\ UNCHANGED <<config, shutdown, kill, agents, proc, used>>

\* refresh_config finds a change: kill_all_agents, then apply_config.  (Its own
\* kill_all_agents finds none.)
refresh_config ==
    /\ main.at = "loop" /\ ~shutdown /\ seen # config
    /\ seen' = config /\ failed' = FALSE
    /\ ToKill("refresh")
    /\ UNCHANGED <<config, shutdown, agents, proc, used>>

\* A configuration cannot be loaded: "stopping all agents".  Those that were
\* refreshed before do not look changed next time.
RefreshFails ==
    /\ main.at = "loop" /\ ~shutdown
    /\ used.errors < MaxErrors /\ used' = [used EXCEPT !.errors = @ + 1]
    /\ seen' \in {seen, config} /\ failed' = TRUE
    /\ ToKill("rescue")
    /\ UNCHANGED <<config, shutdown, agents, proc>>

Killed ==
    /\ main.at = "kill" /\ kill[Main].at = "done"
    /\ SetKill(Main, Off)
    /\ main' = IF main.in = "refresh" THEN [main EXCEPT !.at = "fork", !.todo = NumAgents]
               ELSE ToRecover
    /\ UNCHANGED <<config, seen, failed, shutdown, agents, proc, used>>

\* What @agents.each comes to next in recover_dead_agents.
Following == {p \in agents : p > main.last}

\* waitpid2 with WNOHANG; ECHILD is not rescued when another thread has waited.
Recover ==
    /\ main.at = "recover" /\ Following # {}
    /\ LET p == Least(Following) IN
       \/ /\ proc[p].is = "zombie" /\ Becomes(p, "reaped")
          /\ main' = [main EXCEPT !.at = "reaped", !.last = p]
          /\ UNCHANGED <<failed, shutdown, kill>>
       \/ /\ proc[p].is \in {"young", "up", "stopping"}
          /\ main' = [main EXCEPT !.last = p]
          /\ UNCHANGED <<failed, shutdown, kill, proc>>
       \/ /\ proc[p].is = "reaped" /\ Raise /\ UNCHANGED proc
    /\ UNCHANGED <<config, seen, agents, used>>

\* Mutant: the agent is not counted.
forget_dead ==
    /\ main.at = "reaped" /\ agents' = agents \ {main.last}
    /\ Goto("recover")
    /\ UNCHANGED <<config, seen, failed, shutdown, kill, proc, used>>

\* Then it is removed from @agents, where another thread may have been before.
RecoverDelete ==
    /\ main.at = "reaped"
    /\ IF main.last \in agents
       THEN /\ agents' = agents \ {main.last}
            /\ main' = [main EXCEPT !.at = "recover", !.todo = @ + 1]
            /\ UNCHANGED <<failed, shutdown, kill>>
       ELSE Raise /\ UNCHANGED agents
    /\ UNCHANGED <<config, seen, proc, used>>

\* launch_agents(num_dead_agents)
RecoverLaunch ==
    /\ main.at = "recover" /\ Following = {}
    /\ Goto("fork") /\ OnlyMain

\* Process.waitall
WaitAll ==
    /\ main.at = "waitall"
    /\ \/ \E p \in Pid : proc[p].is = "zombie" /\ Becomes(p, "reaped") /\ UNCHANGED main
       \/ Children = {} /\ Goto("ended") /\ UNCHANGED proc
    /\ UNCHANGED <<config, seen, failed, shutdown, kill, agents, used>>

-----------------------------------------------------------------------------
(* The agents, and who changes the configuration.                            *)

OnlyProc == UNCHANGED <<config, seen, failed, shutdown, main, kill, agents>>

\* The block of start_agent_in_process: agent.start unless @shutdown.
Boot(p) ==
    /\ proc[p].is = "young"
    /\ Becomes(p, IF proc[p].told THEN "zombie" ELSE "up")
    /\ OnlyProc /\ UNCHANGED used

\* Mutant: a state that no agent is in.
stop_twice(p) == proc[p].is = "stopping" /\ Becomes(p, "stopped") /\ OnlyProc /\ UNCHANGED used

\* Agent#stop was called: run ends after the document.
Stop(p) == proc[p].is = "stopping" /\ Becomes(p, "zombie") /\ OnlyProc /\ UNCHANGED used

\* An exception ends Agent#run, or the process is killed.
Die(p) ==
    /\ p \in Alive
    /\ used.deaths < MaxDeaths /\ used' = [used EXCEPT !.deaths = @ + 1]
    /\ Becomes(p, "zombie")
    /\ OnlyProc

ChangeConfig ==
    /\ config < MaxChanges /\ config' = config + 1
    /\ UNCHANGED <<seen, failed, shutdown, main, kill, agents, proc, used>>

run ==
    \/ Fork \/ Launched \/ Loop \/ Killed \/ Recover \/ RecoverDelete \/ RecoverLaunch
    \/ WaitAll

Threads == \E t \in Thread : main.at # "ended" /\ kill_agents(t)

Next ==
    \/ run \/ refresh_config \/ RefreshFails
    \/ Threads \/ Signal
    \/ \E p \in Pid : Boot(p) \/ Stop(p) \/ Die(p)
    \/ ChangeConfig

Spec == Init /\ [][Next]_vars

\* Threads and agents go on; the configuration is due again and again.
FairSpec ==
    /\ Spec
    /\ WF_vars(run) /\ SF_vars(refresh_config)
    /\ \A t \in Thread : WF_vars(main.at # "ended" /\ kill_agents(t))
    /\ \A p \in Pid : WF_vars(Boot(p)) /\ WF_vars(Stop(p))

-----------------------------------------------------------------------------
TypeOK ==
    /\ config \in 0..MaxChanges /\ seen \in 0..MaxChanges
    /\ failed \in BOOLEAN /\ shutdown \in BOOLEAN
    /\ main \in MainType
    /\ kill \in [Thread -> KillType]
    /\ agents \subseteq Pid
    /\ proc \in [Pid -> ProcType]
    /\ used \in [signals : 0..MaxSignals, errors : 0..MaxErrors, deaths : 0..MaxDeaths]

\* There are never more than num_agents agents, nor agents with an older and a
\* newer configuration at the same time, whoever else kills, reaps or dies.
OneGeneration ==
    /\ Cardinality(Alive) <= NumAgents
    /\ \A p, q \in Alive : proc[p].gen = proc[q].gen

\* Until it is to stop, or an error stopped its agents, the launcher comes back to
\* num_agents working agents that have the configuration.
AgentsKept ==
    []<>(shutdown \/ failed \/
         (/\ Cardinality(Alive) = NumAgents
          /\ \A p \in Alive : proc[p].is = "up" /\ proc[p].gen = config))

\* "Shutting down once agents finish": after a signal, or an error, the process
\* ends when the agents have finished their documents.
ShutdownEnds == shutdown ~> main.at = "ended"

\* It does unless a thread came upon an agent that another one had waited for,
\* which ends that thread and leaves the agents after that one unsignalled.
ShutdownEndsUnlessRaised ==
    shutdown ~> (main.at = "ended" \/ \E t \in Killer : kill[t].at = "raised")
=============================================================================
