---------------------------- MODULE Launcher_proofs ----------------------------
(***************************************************************************)
(* Proofs about Launcher, for any number of agents, signals, changes, errors *)
(* and deaths.                                                             *)
(*                                                                         *)
(* OneGeneration holds because an agent that lives is in @agents, unless its *)
(* fork raised, after which no more are forked (Known), because what is in    *)
(* @agents and what is still to be forked are together at most num_agents     *)
(* (NotTooMany), and because kill_agents of the main thread comes to every    *)
(* agent, whoever else removes some meanwhile (Covers).                       *)
(***************************************************************************)
EXTENDS Launcher, FiniteSetTheorems, WellFoundedInduction, TLAPS

\* The threads that handlers have started.
Started == {k \in Killer : kill[k].at # "off"}

\* There is always a thread left to start: one for each signal, and one for the end
\* of run.
ThreadsLeft ==
    /\ Cardinality(Started) <= used.signals + (IF main.at \in {"waitall", "ended"} THEN 1 ELSE 0)
    /\ Started # {} => shutdown

\* The main thread is in kill_agents while refresh_config is.
MainKills ==
    /\ kill[Main].at # "off" <=> main.at = "kill"
    /\ kill[Main].at # "raised"

\* Who is to be removed from @agents has been waited for.
RemovesReaped ==
    /\ \A t \in Thread : kill[t].at = "delete" => kill[t].pid \in Pid /\ proc[kill[t].pid].is = "reaped"
    /\ main.at = "reaped" => main.last \in Pid /\ proc[main.last].is = "reaped"

\* What is in @agents was forked.
Forked == \A p \in agents : proc[p].is # "none"

\* The main thread's kill_agents comes to every agent.
Covers ==
    LET k == kill[Main] IN
    /\ k.at = "each" => /\ \A p \in agents : p > k.last \/ p \in k.killed
                        /\ Cardinality(Ahead(Main)) <= k.left
    /\ k.at = "wait" => agents \subseteq k.killed
    /\ k.at = "delete" => agents \subseteq k.killed \cup {k.pid}
    /\ k.at = "done" => agents = {}

\* What is in @agents, and what is to be forked.
NotTooMany ==
    /\ Cardinality(agents) <= NumAgents
    /\ main.at \in {"fork", "recover", "reaped"} => Cardinality(agents) + main.todo <= NumAgents

\* run does not launch agents again.
Ending ==
    /\ shutdown
    /\ \/ main.at \in {"waitall", "ended"}
       \/ main.at = "kill" /\ main.in = "rescue"
       \/ main.at \in {"fork", "recover", "loop"} /\ main.todo = 0 /\ agents = {}

\* An agent that lives is in @agents, unless the fork raised before it was put there.
Known == Alive \subseteq agents \/ Ending

\* Agents have the configuration that was seen last, except for those to be killed.
SeenByAgents ==
    /\ main.at \in {"fork", "loop", "recover", "reaped"} => \A p \in Alive : proc[p].gen = seen
    /\ main.at = "kill" => \A p \in Alive \ agents : proc[p].gen = seen

IInv ==
    /\ TypeOK /\ ThreadsLeft /\ MainKills /\ RemovesReaped /\ Forked /\ Covers
    /\ NotTooMany /\ Known /\ SeenByAgents /\ OneGeneration

-----------------------------------------------------------------------------
(* Numbers.                                                                  *)

\* Least is the least one.
LEMMA LeastIs ==
    ASSUME NEW S \in SUBSET Nat, S # {}
    PROVE  Least(S) \in S /\ \A q \in S : Least(S) <= q
<1> DEFINE R == OpToRel(<, Nat)
<1>1. IsWellFoundedOn(R, Nat)
  BY NatLessThanWellFounded
<1>2. ASSUME NEW a \in Nat, NEW b \in Nat, a < b PROVE <<a, b>> \in R
  BY <1>2 DEF OpToRel
<1> HIDE DEF R
<1>3. PICK x \in S : \A y \in S : <<y, x>> \notin R
  BY <1>1, WFMin
<1>4. ASSUME NEW y \in S PROVE x <= y
  <2>1. ~(y < x)
    BY <1>2, <1>3
  <2> QED
    BY <2>1
<1> QED
  BY <1>4 DEF Least

\* Sets of agents are finite.
LEMMA FinitePids ==
    ASSUME NEW S \in SUBSET Pid
    PROVE  IsFiniteSet(S) /\ Cardinality(S) \in 0..MaxPid /\ S \subseteq Nat
<1>1. IsFiniteSet(Pid) /\ Cardinality(Pid) = MaxPid
  BY FS_Interval, ConstantsAssumption DEF Pid
<1>2. IsFiniteSet(S) /\ Cardinality(S) <= Cardinality(Pid)
  BY <1>1, FS_Subset
<1>3. Cardinality(S) \in Nat
  BY <1>2, FS_CardinalityType
<1> QED
  BY <1>1, <1>2, <1>3, ConstantsAssumption DEF Pid

\* Fewer pids are not more.
LEMMA FewerPids ==
    ASSUME NEW S \in SUBSET Pid, NEW T \in SUBSET S
    PROVE  Cardinality(T) <= Cardinality(S)
BY FinitePids, FS_Subset

LEMMA ThreadFacts ==
    /\ Main \in Thread /\ Main \notin Killer /\ Killer \subseteq Thread /\ Killer \subseteq Nat
    /\ \A t \in Thread : t # Main => t \in Killer
    /\ IsFiniteSet(Killer) /\ Cardinality(Killer) = MaxSignals + 1
<1>1. IsFiniteSet(Killer) /\ Cardinality(Killer) = MaxSignals + 1
  BY FS_Interval, ConstantsAssumption DEF Killer
<1> QED
  BY <1>1 DEF Main, Killer, Thread

LEMMA StartedFinite == IsFiniteSet(Started) /\ Cardinality(Started) \in Nat
BY ThreadFacts, FS_Subset, FS_CardinalityType DEF Started

\* Where Off and Count are.
LEMMA OffCount ==
    /\ Off \in KillType /\ Off.at = "off"
    /\ Count \in KillType /\ Count.at = "count"
BY ConstantsAssumption DEF Off, Count, KillType

-----------------------------------------------------------------------------
(* Processes.                                                                *)

\* Agents end, are told to stop, or are waited for; none are new.
Ages ==
    /\ proc' \in [Pid -> ProcType]
    /\ Alive' \subseteq Alive
    /\ \A p \in Pid : /\ proc'[p].gen = proc[p].gen
                      /\ proc[p].is = "reaped" => proc'[p].is = "reaped"
                      /\ proc[p].is # "none" => proc'[p].is # "none"

LEMMA BecomesAges ==
    ASSUME TypeOK, NEW p \in Pid, NEW what \in {"reaped", "zombie", "up", "stopping"},
           proc' = [proc EXCEPT ![p].is = what],
           what \in {"up", "stopping"} => p \in Alive,
           what = "reaped" \/ proc[p].is # "reaped"
    PROVE  Ages
<1>2. proc \in [Pid -> ProcType]
  BY DEF TypeOK
<1>4. proc' \in [Pid -> ProcType]
  BY <1>2 DEF ProcType
<1>5. proc'[p].is = what /\ proc'[p].gen = proc[p].gen /\ \A q \in Pid : q # p => proc'[q] = proc[q]
  BY <1>2 DEF ProcType
<1>6. Alive' \subseteq Alive
  BY <1>5 DEF Alive
<1> QED
  BY <1>4, <1>5, <1>6 DEF Ages

LEMMA SameAges == TypeOK /\ UNCHANGED proc => Ages
BY DEF TypeOK, Ages, Alive

LEMMA AgesOneGeneration ==
    ASSUME IInv, Ages
    PROVE  OneGeneration'
<1>1. Alive' \subseteq Alive /\ Alive \subseteq Pid
  BY DEF Ages, Alive
<1>2. Cardinality(Alive') <= NumAgents
  <2>1. Cardinality(Alive') <= Cardinality(Alive) /\ Cardinality(Alive) \in Nat /\ Cardinality(Alive') \in Nat
    BY <1>1, FewerPids, FinitePids
  <2> QED
    BY <2>1, ConstantsAssumption DEF IInv, OneGeneration
<1>3. \A p, q \in Alive' : proc'[p].gen = proc'[q].gen
  BY <1>1 DEF IInv, OneGeneration, Ages
<1> QED
  BY <1>2, <1>3 DEF OneGeneration

-----------------------------------------------------------------------------
(* The initial state.                                                        *)

LEMMA InitIInv == Init => IInv
<1> SUFFICES ASSUME Init PROVE IInv
  OBVIOUS
<1>1. kill \in [Thread -> KillType] /\ \A t \in Thread : kill[t].at = "off"
  BY OffCount DEF Init
<1>2. proc \in [Pid -> ProcType] /\ Alive = {}
  <2>1. NoProc \in ProcType /\ NoProc.is = "none"
    BY ConstantsAssumption DEF NoProc, ProcType
  <2> QED
    BY <2>1 DEF Init, Alive
<1>3. TypeOK
  <2>1. main \in MainType
    BY ConstantsAssumption DEF Init, MainType
  <2>2. used \in [signals : 0..MaxSignals, errors : 0..MaxErrors, deaths : 0..MaxDeaths]
    BY ConstantsAssumption DEF Init
  <2>3. config \in 0..MaxChanges /\ seen \in 0..MaxChanges
    BY ConstantsAssumption DEF Init
  <2> QED
    BY <1>1, <1>2, <2>1, <2>2, <2>3 DEF Init, TypeOK
<1>4. Started = {} /\ Cardinality(Started) = 0 /\ Cardinality(agents) = 0 /\ Cardinality(Alive) = 0
  BY <1>1, <1>2, ThreadFacts, FS_EmptySet DEF Init, Started
<1>5. ThreadsLeft /\ MainKills /\ Covers
  BY <1>1, <1>4, ThreadFacts DEF Init, ThreadsLeft, MainKills, Covers
<1>6. RemovesReaped /\ Forked
  BY <1>1 DEF Init, RemovesReaped, Forked
<1>7. NotTooMany /\ Known /\ SeenByAgents /\ OneGeneration
  BY <1>2, <1>4, ConstantsAssumption DEF Init, NotTooMany, Known, SeenByAgents, OneGeneration
<1> QED
  BY <1>3, <1>5, <1>6, <1>7 DEF IInv

-----------------------------------------------------------------------------
(* Steps of the main thread and of agents that leave kill_agents alone.      *)

\* Covers outlives what others remove.
LEMMA CoversKept ==
    ASSUME IInv, kill'[Main] = kill[Main], agents' \subseteq agents
    PROVE  Covers'
<1>1. agents \subseteq Pid /\ Ahead(Main)' \subseteq Ahead(Main)
  BY DEF IInv, TypeOK, Ahead
<1>2. kill[Main].left \in 0..MaxPid
  BY ThreadFacts DEF IInv, TypeOK, KillType
<1>3. Cardinality(Ahead(Main)') <= Cardinality(Ahead(Main))
  BY <1>1, FewerPids DEF Ahead
<1>4. Cardinality(Ahead(Main)') \in Nat /\ Cardinality(Ahead(Main)) \in Nat
  BY <1>1, FinitePids DEF Ahead
<1>5. Covers
  BY DEF IInv
<1>6. kill'[Main].at = "each" => Cardinality(Ahead(Main)') <= kill'[Main].left
  BY <1>2, <1>3, <1>4, <1>5 DEF Covers
<1> QED
  BY <1>5, <1>6 DEF Covers

\* A step that neither starts nor ends agents or threads.
LEMMA OthersKeep ==
    ASSUME IInv, Ages, UNCHANGED <<seen, failed, shutdown, kill, agents>>,
           config' \in 0..MaxChanges, main' \in MainType,
           used' \in [signals : 0..MaxSignals, errors : 0..MaxErrors, deaths : 0..MaxDeaths],
           used'.signals = used.signals,
           main'.at = "kill" <=> main.at = "kill",
           main.at \in {"waitall", "ended"} => main'.at \in {"waitall", "ended"},
           main'.at \in {"fork", "recover", "reaped"} => Cardinality(agents) + main'.todo <= NumAgents,
           main'.at \in {"fork", "loop", "recover", "reaped"} =>
               main.at \in {"fork", "loop", "recover", "reaped"},
           main'.at = "reaped" => main'.last \in Pid /\ proc'[main'.last].is = "reaped",
           Ending => Ending'
    PROVE  IInv'
<1>1. TypeOK'
  BY DEF IInv, TypeOK, Ages
<1>2. ThreadsLeft'
  <2>1. Started' = Started
    BY DEF Started
  <2>2. Cardinality(Started) \in Nat /\ used.signals \in Nat
    BY StartedFinite DEF IInv, TypeOK
  <2> QED
    BY <2>1, <2>2 DEF IInv, ThreadsLeft
<1>3. MainKills'
  BY DEF IInv, MainKills
<1>4. RemovesReaped' /\ Forked'
  BY DEF IInv, RemovesReaped, Forked, TypeOK, Ages
<1>5. Covers'
  BY CoversKept
<1>6. NotTooMany'
  BY DEF IInv, NotTooMany
<1>7. Alive' \subseteq Alive /\ Alive \subseteq Pid
  BY DEF Ages, Alive
<1>8. Known'
  BY <1>7 DEF IInv, Known
<1>9. SeenByAgents'
  BY <1>7 DEF IInv, SeenByAgents, Ages
<1>10. OneGeneration'
  BY AgesOneGeneration
<1> QED
  BY <1>1, <1>2, <1>3, <1>4, <1>5, <1>6, <1>8, <1>9, <1>10 DEF IInv

\* @agents is finite, and Following is what it is.
LEMMA AgentsFacts ==
    ASSUME IInv
    PROVE  /\ agents \subseteq Pid /\ IsFiniteSet(agents) /\ Cardinality(agents) \in Nat
           /\ main \in MainType /\ main.todo \in Nat /\ main.todo \in 0..NumAgents
           /\ main.last \in 0..MaxPid
           /\ Following # {} => Least(Following) \in agents
<1>1. agents \subseteq Pid /\ main \in MainType
  BY DEF IInv, TypeOK
<1>2. IsFiniteSet(agents) /\ Cardinality(agents) \in Nat
  BY <1>1, FinitePids, ConstantsAssumption
<1>3. Following \subseteq agents /\ Following \subseteq Nat
  BY <1>1, FinitePids DEF Following
<1>4. Following # {} => Least(Following) \in Following
  BY <1>3, LeastIs
<1>5. main.todo \in 0..NumAgents /\ main.last \in 0..MaxPid /\ main.todo \in Nat
  BY <1>1, ConstantsAssumption DEF MainType
<1> QED
  BY <1>1, <1>2, <1>3, <1>4, <1>5

LEMMA LaunchedKeeps == IInv /\ Launched => IInv'
<1> SUFFICES ASSUME IInv, Launched PROVE IInv'
  OBVIOUS
<1> USE DEF Launched, OnlyMain
<1>1. main \in MainType /\ Cardinality(agents) \in Nat /\ Cardinality(agents) <= NumAgents
  BY AgentsFacts DEF IInv, NotTooMany
<1>2. main' \in MainType /\ main'.at \in {"loop", "recover"} /\ main'.todo = 0
  BY <1>1, ConstantsAssumption DEF ToRecover, MainType
<1>3. Cardinality(agents) + main'.todo <= NumAgents
  BY <1>1, <1>2, ConstantsAssumption
<1>4. Ending => Ending'
  BY <1>1, <1>2 DEF Ending
<1>5. Ages
  BY SameAges DEF IInv
<1>6. config' \in 0..MaxChanges /\ used' \in [signals : 0..MaxSignals, errors : 0..MaxErrors, deaths : 0..MaxDeaths]
  BY DEF IInv, TypeOK
<1> QED
  BY <1>1, <1>2, <1>3, <1>4, <1>5, <1>6, OthersKeep

LEMMA LoopKeeps == IInv /\ Loop => IInv'
<1> SUFFICES ASSUME IInv, Loop PROVE IInv'
  OBVIOUS
<1> USE DEF Loop, OnlyMain
<1>1. main \in MainType /\ Cardinality(agents) \in Nat /\ Cardinality(agents) <= NumAgents
  BY AgentsFacts DEF IInv, NotTooMany
<1>2. /\ main' \in MainType /\ main'.at \in {"waitall", "recover"}
      /\ shutdown => main'.at = "waitall"
      /\ main'.at = "recover" => main'.todo = 0
  BY <1>1, ConstantsAssumption DEF ToRecover, MainType
<1>3. main'.at = "recover" => Cardinality(agents) + main'.todo <= NumAgents
  BY <1>1, <1>2, ConstantsAssumption
<1>4. Ending => Ending'
  BY <1>1, <1>2 DEF Ending
<1>5. Ages
  BY SameAges DEF IInv
<1>6. config' \in 0..MaxChanges /\ used' \in [signals : 0..MaxSignals, errors : 0..MaxErrors, deaths : 0..MaxDeaths]
  BY DEF IInv, TypeOK
<1> QED
  BY <1>1, <1>2, <1>3, <1>4, <1>5, <1>6, OthersKeep

LEMMA RecoverLaunchKeeps == IInv /\ RecoverLaunch => IInv'
<1> SUFFICES ASSUME IInv, RecoverLaunch PROVE IInv'
  OBVIOUS
<1> USE DEF RecoverLaunch, OnlyMain, Goto
<1>1. main \in MainType /\ Cardinality(agents) + main.todo <= NumAgents
  BY AgentsFacts DEF IInv, NotTooMany
<1>2. main' \in MainType /\ main'.at = "fork" /\ main'.todo = main.todo
  BY <1>1 DEF MainType
<1>4. Ending => Ending'
  BY <1>1, <1>2 DEF Ending
<1>5. Ages
  BY SameAges DEF IInv
<1>6. config' \in 0..MaxChanges /\ used' \in [signals : 0..MaxSignals, errors : 0..MaxErrors, deaths : 0..MaxDeaths]
  BY DEF IInv, TypeOK
<1> QED
  BY <1>1, <1>2, <1>4, <1>5, <1>6, OthersKeep

LEMMA WaitAllKeeps == IInv /\ WaitAll => IInv'
<1> SUFFICES ASSUME IInv, WaitAll PROVE IInv'
  OBVIOUS
<1>1. main \in MainType
  BY AgentsFacts
<1>2. main' \in MainType /\ main'.at \in {"waitall", "ended"} /\ main.at = "waitall"
  BY <1>1 DEF WaitAll, MainType, Goto
<1>3. UNCHANGED <<config, seen, failed, shutdown, kill, agents, used>>
  BY DEF WaitAll
<1>4. Ending => Ending'
  BY <1>2, <1>3 DEF Ending
<1>5. Ages
  <2>1. CASE UNCHANGED proc
    BY <2>1, SameAges DEF IInv
  <2>2. CASE \E p \in Pid : proc[p].is = "zombie" /\ Becomes(p, "reaped")
    <3>1. PICK p \in Pid : proc[p].is = "zombie" /\ proc' = [proc EXCEPT ![p].is = "reaped"]
      BY <2>2 DEF Becomes
    <3>2. TypeOK
      BY DEF IInv
    <3> QED
      BY <3>1, <3>2, BecomesAges
  <2> QED
    BY <2>1, <2>2 DEF WaitAll
<1>6. config' \in 0..MaxChanges /\ used' \in [signals : 0..MaxSignals, errors : 0..MaxErrors, deaths : 0..MaxDeaths]
  BY <1>3 DEF IInv, TypeOK
<1> QED
  BY <1>1, <1>2, <1>3, <1>4, <1>5, <1>6, OthersKeep

\* A step of an agent, or of who changes the configuration.
LEMMA OutsideKeeps ==
    ASSUME IInv, Ages, UNCHANGED <<seen, failed, shutdown, main, kill, agents>>,
           config' \in 0..MaxChanges,
           used' \in [signals : 0..MaxSignals, errors : 0..MaxErrors, deaths : 0..MaxDeaths],
           used'.signals = used.signals
    PROVE  IInv'
<1>1. main \in MainType
  BY AgentsFacts
<1>2. main.at = "reaped" => main.last \in Pid /\ proc'[main.last].is = "reaped"
  BY DEF IInv, RemovesReaped, Ages
<1>3. main.at \in {"fork", "recover", "reaped"} => Cardinality(agents) + main.todo <= NumAgents
  BY DEF IInv, NotTooMany
<1>4. Ending => Ending'
  BY DEF Ending
<1> QED
  BY <1>1, <1>2, <1>3, <1>4, OthersKeep

LEMMA ProcessKeeps == IInv /\ (\E p \in Pid : Boot(p) \/ Stop(p) \/ Die(p)) => IInv'
<1> SUFFICES ASSUME IInv, NEW p \in Pid, Boot(p) \/ Stop(p) \/ Die(p) PROVE IInv'
  OBVIOUS
<1>1. UNCHANGED <<config, seen, failed, shutdown, main, kill, agents>>
  BY DEF Boot, Stop, Die, OnlyProc
<1>2. used \in [signals : 0..MaxSignals, errors : 0..MaxErrors, deaths : 0..MaxDeaths]
  BY DEF IInv, TypeOK
<1>3. used' \in [signals : 0..MaxSignals, errors : 0..MaxErrors, deaths : 0..MaxDeaths]
      /\ used'.signals = used.signals
  <2>1. CASE UNCHANGED used
    BY <1>2, <2>1
  <2>2. CASE Die(p)
    BY <1>2, <2>2, ConstantsAssumption DEF Die
  <2> QED
    BY <2>1, <2>2 DEF Boot, Stop
<1>4. Ages
  <2>1. p \in Alive /\ proc[p].is # "reaped"
    BY DEF Boot, Stop, Die, Alive
  <2>2. PICK what \in {"up", "zombie"} : proc' = [proc EXCEPT ![p].is = what]
    BY DEF Boot, Stop, Die, Becomes
  <2>3. TypeOK
    BY DEF IInv
  <2> QED
    BY <2>1, <2>2, <2>3, BecomesAges
<1>5. config' \in 0..MaxChanges
  BY <1>1 DEF IInv, TypeOK
<1> QED
  BY <1>1, <1>3, <1>4, <1>5, OutsideKeeps

LEMMA ChangeConfigKeeps == IInv /\ ChangeConfig => IInv'
<1> SUFFICES ASSUME IInv, ChangeConfig PROVE IInv'
  OBVIOUS
<1>1. UNCHANGED <<seen, failed, shutdown, main, kill, agents, proc, used>>
  BY DEF ChangeConfig
<1>2. config' \in 0..MaxChanges /\ used' \in [signals : 0..MaxSignals, errors : 0..MaxErrors, deaths : 0..MaxDeaths]
  BY <1>1, ConstantsAssumption DEF IInv, TypeOK, ChangeConfig
<1>3. Ages
  BY <1>1, SameAges DEF IInv
<1> QED
  BY <1>1, <1>2, <1>3, OutsideKeeps

-----------------------------------------------------------------------------
(* kill_agents.                                                              *)

\* A step of a thread in kill_agents, which may remove agents that have ended.
LEMMA KillKeeps ==
    ASSUME IInv, Ages, OnlyKill, NEW t \in Thread, NEW X \in KillType,
           kill' = [kill EXCEPT ![t] = X],
           kill[t].at # "off", X.at # "off",
           X.at = "raised" => t # Main,
           X.at = "delete" => X.pid \in Pid /\ proc'[X.pid].is = "reaped",
           agents' \subseteq agents, \A p \in agents \ agents' : p \notin Alive',
           t = Main => Covers'
    PROVE  IInv'
<1> USE DEF OnlyKill
<1>1. /\ kill \in [Thread -> KillType] /\ agents \subseteq Pid
      /\ kill' \in [Thread -> KillType] /\ kill'[t] = X
      /\ \A u \in Thread : u # t => kill'[u] = kill[u]
  BY DEF IInv, TypeOK
<1>2. TypeOK'
  BY <1>1 DEF IInv, TypeOK, Ages
<1>3. ThreadsLeft'
  <2>1. \A k \in Killer : k \in Started' <=> k \in Started
    BY <1>1, ThreadFacts DEF Started
  <2>2. Started' = Started
    BY <2>1 DEF Started
  <2> QED
    BY <2>2 DEF IInv, ThreadsLeft
<1>4. MainKills'
  BY <1>1, ThreadFacts DEF IInv, MainKills
<1>5. RemovesReaped'
  <2>1. ASSUME NEW u \in Thread, kill'[u].at = "delete"
        PROVE  kill'[u].pid \in Pid /\ proc'[kill'[u].pid].is = "reaped"
    BY <1>1, <2>1 DEF IInv, RemovesReaped, Ages
  <2>2. main.at = "reaped" => main.last \in Pid /\ proc'[main.last].is = "reaped"
    BY DEF IInv, RemovesReaped, Ages
  <2> QED
    BY <2>1, <2>2 DEF RemovesReaped
<1>6. Forked'
  BY <1>1 DEF IInv, Forked, Ages
<1>7. Covers'
  <2>1. CASE t = Main
    BY <2>1
  <2>2. CASE t # Main
    BY <1>1, <2>2, ThreadFacts, CoversKept
  <2> QED
    BY <2>1, <2>2
<1>8. NotTooMany'
  <2>1. Cardinality(agents') <= Cardinality(agents) /\ Cardinality(agents') \in Nat
        /\ Cardinality(agents) \in Nat
    BY <1>1, FewerPids, FinitePids
  <2>2. main.todo \in Nat
    BY AgentsFacts
  <2> QED
    BY <2>1, <2>2, ConstantsAssumption DEF IInv, NotTooMany
<1>9. Alive' \subseteq Alive /\ Alive \subseteq Pid
  BY DEF Ages, Alive
<1>10. Known'
  <2>1. Ending => Ending'
    BY DEF Ending
  <2>2. Alive \subseteq agents => Alive' \subseteq agents'
    BY <1>9
  <2> QED
    BY <2>1, <2>2 DEF IInv, Known
<1>11. SeenByAgents'
  <2>1. Alive' \ agents' \subseteq Alive \ agents
    BY <1>9
  <2> QED
    BY <1>9, <2>1 DEF IInv, SeenByAgents, Ages
<1>12. OneGeneration'
  BY AgesOneGeneration
<1> QED
  BY <1>2, <1>3, <1>4, <1>5, <1>6, <1>7, <1>8, <1>10, <1>11, <1>12 DEF IInv

\* What a thread can come to next.
LEMMA ThreadTypes ==
    ASSUME IInv, NEW t \in Thread
    PROVE  /\ kill[t] \in KillType /\ agents \subseteq Pid
           /\ kill[t].left \in 0..MaxPid /\ kill[t].killed \subseteq Pid
           /\ kill[t].last \in 0..MaxPid
           /\ Ahead(t) # {} => Least(Ahead(t)) \in Ahead(t) /\ \A q \in Ahead(t) : Least(Ahead(t)) <= q
           /\ kill[t].killed # {} => Least(kill[t].killed) \in kill[t].killed
<1>1. kill[t] \in KillType /\ agents \subseteq Pid
  BY DEF IInv, TypeOK
<1>2. kill[t].left \in 0..MaxPid /\ kill[t].last \in 0..MaxPid /\ kill[t].killed \subseteq Pid
  BY <1>1 DEF KillType
<1>3. Ahead(t) \subseteq Nat /\ kill[t].killed \subseteq Nat
  BY <1>1, <1>2, FinitePids DEF Ahead
<1>4. Ahead(t) # {} => Least(Ahead(t)) \in Ahead(t) /\ \A q \in Ahead(t) : Least(Ahead(t)) <= q
  BY <1>3, LeastIs
<1>5. kill[t].killed # {} => Least(kill[t].killed) \in kill[t].killed
  BY <1>3, LeastIs
<1> QED
  BY <1>1, <1>2, <1>4, <1>5

LEMMA CountAgentsKeeps == ASSUME NEW t \in Thread PROVE IInv /\ CountAgents(t) => IInv'
<1> SUFFICES ASSUME IInv, CountAgents(t) PROVE IInv'
  OBVIOUS
<1> DEFINE X == IF agents = {} THEN [Off EXCEPT !.at = "done"]
                ELSE [Off EXCEPT !.at = "each", !.left = Cardinality(agents)]
<1>1. agents \subseteq Pid /\ kill \in [Thread -> KillType]
  BY DEF IInv, TypeOK
<1>2. Cardinality(agents) \in 0..MaxPid
  BY <1>1, FinitePids
<1>3. /\ X \in KillType /\ X.at \in {"done", "each"}
      /\ X.at = "done" => agents = {}
      /\ X.at = "each" => X.left = Cardinality(agents) /\ X.last = 0
  <2>1. Off \in KillType
    BY OffCount
  <2>2. CASE agents = {}
    <3>1. X = [Off EXCEPT !.at = "done"]
      BY <2>2
    <3> HIDE DEF X
    <3> QED
      BY <2>1, <2>2, <3>1 DEF Off, KillType
  <2>3. CASE agents # {}
    <3>1. X = [Off EXCEPT !.at = "each", !.left = Cardinality(agents)]
      BY <2>3
    <3> HIDE DEF X
    <3> QED
      BY <1>2, <2>1, <3>1 DEF Off, KillType
  <2> HIDE DEF X
  <2> QED
    BY <2>2, <2>3
<1>4. kill' = [kill EXCEPT ![t] = X] /\ kill[t].at # "off" /\ OnlyKill /\ UNCHANGED <<agents, proc>>
  BY DEF CountAgents, SetKill
<1>5. kill'[t] = X
  BY <1>1, <1>4
<1> HIDE DEF X
<1>6. ASSUME t = Main PROVE Covers'
  <2>1. \A p \in agents' : p > kill'[Main].last \/ X.at # "each"
    BY <1>1, <1>3, <1>4, <1>5, <1>6 DEF Pid
  <2>2. Ahead(Main)' \subseteq agents
    BY <1>4 DEF Ahead
  <2>3. Cardinality(Ahead(Main)') <= Cardinality(agents)
    BY <1>1, <2>2, FewerPids
  <2> QED
    BY <1>3, <1>4, <1>5, <1>6, <2>1, <2>3 DEF Covers
<1>7. Ages
  BY <1>4, SameAges DEF IInv
<1> QED
  BY <1>3, <1>4, <1>6, <1>7, KillKeeps

LEMMA SignalAgentKeeps == ASSUME NEW t \in Thread PROVE IInv /\ SignalAgent(t) => IInv'
<1> SUFFICES ASSUME IInv, SignalAgent(t) PROVE IInv'
  OBVIOUS
<1> DEFINE p == Least(Ahead(t))
           X == Signalled(t, p)
<1>1. /\ kill[t].at = "each" /\ kill[t].left > 0 /\ Ahead(t) # {}
      /\ proc[p].is # "reaped"
      /\ IF proc[p].is = "zombie" THEN UNCHANGED proc ELSE proc' = [proc EXCEPT ![p].is = "stopping"]
      /\ kill' = [kill EXCEPT ![t] = X] /\ OnlyKill /\ UNCHANGED agents
  BY DEF SignalAgent, SetKill, Becomes
<1>2. p \in Ahead(t) /\ (\A q \in Ahead(t) : p <= q) /\ p \in agents /\ p \in Pid
  BY <1>1, ThreadTypes DEF Ahead
<1>3. /\ X \in KillType /\ X.at = "each" /\ X.left = kill[t].left - 1 /\ X.last = p
      /\ X.killed = kill[t].killed \cup {p}
  <2>1. kill[t] \in KillType /\ kill[t].left - 1 \in 0..MaxPid /\ p \in 0..MaxPid
    BY <1>1, <1>2, ThreadTypes, ConstantsAssumption DEF Pid
  <2> HIDE DEF p
  <2> QED
    BY <1>1, <1>2, <2>1 DEF Signalled, KillType
<1>4. kill'[t] = X
  BY <1>1 DEF IInv, TypeOK
<1>5. Ages
  <2>1. TypeOK /\ proc[p].is # "none" /\ proc \in [Pid -> ProcType]
    BY <1>2 DEF IInv, Forked, TypeOK
  <2>2. CASE proc[p].is = "zombie"
    BY <1>1, <2>1, <2>2, SameAges
  <2>3. CASE proc[p].is # "zombie"
    <3>1. p \in Alive
      BY <1>1, <1>2, <2>1, <2>3 DEF Alive, ProcType
    <3> HIDE DEF p
    <3> QED
      BY <1>1, <1>2, <2>1, <2>3, <3>1, BecomesAges
  <2> QED
    BY <2>2, <2>3
<1> HIDE DEF X, p
<1>6. ASSUME t = Main PROVE Covers'
  <2>1. agents \subseteq Pid /\ Pid \subseteq Nat
    BY FinitePids DEF IInv, TypeOK
  <2>2. \A q \in agents : q > kill[Main].last \/ q \in kill[Main].killed
    BY <1>1, <1>6 DEF IInv, Covers
  <2>3. \A q \in agents' : q > X.last \/ q \in X.killed
    <3> SUFFICES ASSUME NEW q \in agents, q \notin kill[t].killed, q # p PROVE q > p
      BY <1>1, <1>3
    <3>1. q \in Ahead(t)
      BY <1>6, <2>2 DEF Ahead
    <3> QED
      BY <1>2, <2>1, <3>1
  <2>4. Ahead(Main)' \subseteq Ahead(Main) \ {p}
    <3> SUFFICES ASSUME NEW q \in agents, q > p PROVE q \in Ahead(Main) \ {p}
      BY <1>1, <1>3, <1>4, <1>6 DEF Ahead
    <3>1. p > kill[t].last
      BY <1>2 DEF Ahead
    <3>2. kill[t].last \in 0..MaxPid
      BY ThreadTypes
    <3>3. kill[t].last \in Nat /\ p \in Nat /\ q \in Nat
      BY <1>2, <2>1, <3>2, ConstantsAssumption
    <3>4. q > kill[t].last /\ q # p
      BY <3>1, <3>3
    <3> QED
      BY <1>6, <3>4 DEF Ahead
  <2>5. Ahead(Main) \subseteq Pid /\ IsFiniteSet(Ahead(Main)) /\ Cardinality(Ahead(Main)) \in Nat
    <3>1. Ahead(Main) \subseteq Pid
      BY <2>1 DEF Ahead
    <3> QED
      BY <3>1, FinitePids
  <2>6. Cardinality(Ahead(Main) \ {p}) = Cardinality(Ahead(Main)) - 1
    BY <1>2, <1>6, <2>5, FS_RemoveElement
  <2>7. Cardinality(Ahead(Main)') <= Cardinality(Ahead(Main) \ {p})
    BY <2>4, <2>5, FewerPids
  <2>8. Cardinality(Ahead(Main)') \in Nat
    BY <2>4, <2>5, FinitePids
  <2>9. Cardinality(Ahead(Main)) <= kill[Main].left /\ kill[Main].left \in Nat
    BY <1>1, <1>6, ThreadTypes, ThreadFacts, ConstantsAssumption DEF IInv, Covers
  <2>10. Cardinality(Ahead(Main)') <= X.left
    BY <1>3, <1>6, <2>5, <2>6, <2>7, <2>8, <2>9
  <2> QED
    BY <1>3, <1>4, <1>6, <2>3, <2>10 DEF Covers
<1> QED
  BY <1>1, <1>3, <1>5, <1>6, KillKeeps

LEMMA EachEndsKeeps == ASSUME NEW t \in Thread PROVE IInv /\ EachEnds(t) => IInv'
<1> SUFFICES ASSUME IInv, EachEnds(t) PROVE IInv'
  OBVIOUS
<1> DEFINE X == [kill[t] EXCEPT !.at = "wait"]
<1>1. /\ kill[t].at = "each" /\ (kill[t].left = 0 \/ Ahead(t) = {})
      /\ kill' = [kill EXCEPT ![t] = X] /\ OnlyKill /\ UNCHANGED <<agents, proc>>
  BY DEF EachEnds, SetKill
<1>2. X \in KillType /\ X.at = "wait" /\ X.killed = kill[t].killed
  BY ThreadTypes DEF KillType
<1>3. kill'[t] = X
  BY <1>1 DEF IInv, TypeOK
<1> HIDE DEF X
<1>4. ASSUME t = Main PROVE Covers'
  <2>1. Ahead(Main) \subseteq agents /\ agents \subseteq Pid
    BY DEF Ahead, IInv, TypeOK
  <2>2. /\ IsFiniteSet(Ahead(Main)) /\ Cardinality(Ahead(Main)) \in Nat
        /\ kill[Main].left = 0 => Cardinality(Ahead(Main)) = 0
    BY <1>1, <1>4, <2>1, FinitePids DEF IInv, Covers
  <2>3. Ahead(Main) = {}
    BY <1>1, <1>4, <2>2, FS_EmptySet
  <2>4. \A q \in agents : q > kill[Main].last \/ q \in kill[Main].killed
    BY <1>1, <1>4 DEF IInv, Covers
  <2>5. agents \subseteq kill[Main].killed
    BY <2>3, <2>4 DEF Ahead
  <2> QED
    BY <1>1, <1>2, <1>3, <1>4, <2>5 DEF Covers
<1>5. Ages
  BY <1>1, SameAges DEF IInv
<1> QED
  BY <1>1, <1>2, <1>4, <1>5, KillKeeps

LEMMA WaitForKeeps == ASSUME NEW t \in Thread PROVE IInv /\ WaitFor(t) => IInv'
<1> SUFFICES ASSUME IInv, WaitFor(t) PROVE IInv'
  OBVIOUS
<1> DEFINE p == Least(kill[t].killed)
           X == [kill[t] EXCEPT !.at = "delete", !.killed = @ \ {p}, !.pid = p]
<1>1. /\ kill[t].at = "wait" /\ kill[t].killed # {} /\ proc[p].is \in {"zombie", "reaped"}
      /\ proc' = [proc EXCEPT ![p].is = "reaped"]
      /\ kill' = [kill EXCEPT ![t] = X] /\ OnlyKill /\ UNCHANGED agents
  BY DEF WaitFor, SetKill, Becomes
<1>2. p \in Pid
  BY <1>1, ThreadTypes
<1>3. X \in KillType /\ X.at = "delete" /\ X.pid = p /\ X.killed = kill[t].killed \ {p}
  <2>1. kill[t] \in KillType /\ p \in 0..MaxPid
    BY <1>2, ThreadTypes, ConstantsAssumption DEF Pid
  <2> HIDE DEF p
  <2> QED
    BY <2>1 DEF KillType
<1>4. kill'[t] = X
  BY <1>1 DEF IInv, TypeOK
<1> HIDE DEF X, p
<1>5. proc'[p].is = "reaped"
  BY <1>1, <1>2 DEF IInv, TypeOK, ProcType
<1>6. ASSUME t = Main PROVE Covers'
  <2>1. agents \subseteq kill[Main].killed
    BY <1>1, <1>6 DEF IInv, Covers
  <2> QED
    BY <1>1, <1>3, <1>4, <1>6, <2>1 DEF Covers
<1>7. Ages
  <2>1. TypeOK
    BY DEF IInv
  <2> QED
    BY <1>1, <1>2, <2>1, BecomesAges
<1> QED
  BY <1>1, <1>2, <1>3, <1>5, <1>6, <1>7, KillKeeps

LEMMA DeleteKilledKeeps == ASSUME NEW t \in Thread PROVE IInv /\ DeleteKilled(t) => IInv'
<1> SUFFICES ASSUME IInv, DeleteKilled(t) PROVE IInv'
  OBVIOUS
<1> DEFINE X == [kill[t] EXCEPT !.at = "wait"]
<1>1. /\ kill[t].at = "delete" /\ agents' = agents \ {kill[t].pid}
      /\ kill' = [kill EXCEPT ![t] = X] /\ OnlyKill /\ UNCHANGED proc
  BY DEF DeleteKilled, SetKill
<1>2. X \in KillType /\ X.at = "wait" /\ X.killed = kill[t].killed
  BY ThreadTypes DEF KillType
<1>3. kill'[t] = X
  BY <1>1 DEF IInv, TypeOK
<1> HIDE DEF X
<1>4. ASSUME t = Main PROVE Covers'
  <2>1. agents \subseteq kill[Main].killed \cup {kill[Main].pid}
    BY <1>1, <1>4 DEF IInv, Covers
  <2> QED
    BY <1>1, <1>2, <1>3, <1>4, <2>1 DEF Covers
<1>5. \A p \in agents \ agents' : p \notin Alive'
  BY <1>1 DEF IInv, RemovesReaped, Alive
<1>6. Ages
  BY <1>1, SameAges DEF IInv
<1> QED
  BY <1>1, <1>2, <1>4, <1>5, <1>6, KillKeeps

LEMMA AllKilledKeeps == ASSUME NEW t \in Thread PROVE IInv /\ AllKilled(t) => IInv'
<1> SUFFICES ASSUME IInv, AllKilled(t) PROVE IInv'
  OBVIOUS
<1> DEFINE X == [Off EXCEPT !.at = "done"]
<1>1. /\ kill[t].at = "wait" /\ kill[t].killed = {}
      /\ kill' = [kill EXCEPT ![t] = X] /\ OnlyKill /\ UNCHANGED <<agents, proc>>
  BY DEF AllKilled, SetKill
<1>2. X \in KillType /\ X.at = "done"
  BY OffCount DEF Off, KillType
<1>3. kill'[t] = X
  BY <1>1 DEF IInv, TypeOK
<1> HIDE DEF X
<1>4. ASSUME t = Main PROVE Covers'
  BY <1>1, <1>2, <1>3, <1>4 DEF IInv, Covers
<1>5. Ages
  BY <1>1, SameAges DEF IInv
<1> QED
  BY <1>1, <1>2, <1>4, <1>5, KillKeeps

-----------------------------------------------------------------------------
(* Threads that handlers and the end of run start.                           *)

\* There is one left for the next.
LEMMA StartsThread ==
    ASSUME TypeOK, NEW threads \in [Thread -> KillType], \A k \in Killer : threads[k] = kill[k],
           Shutdown(threads), Cardinality(Started) <= MaxSignals
    PROVE  /\ shutdown' = TRUE
           /\ kill' \in [Thread -> KillType] /\ kill'[Main] = threads[Main]
           /\ \A u \in Killer : kill'[u] = kill[u] \/ kill'[u] = Count
           /\ Cardinality(Started') = Cardinality(Started) + 1
<1> DEFINE Left == {k \in Killer : kill[k].at = "off"}
           t == Least(Left)
<1>1. shutdown' = TRUE /\ kill' = [threads EXCEPT ![t] = Count]
  BY DEF Shutdown
<1>2. Left # {}
  <2>1. ASSUME Left = {} PROVE FALSE
    <3>1. Started = Killer
      BY <2>1 DEF Started
    <3> QED
      BY <3>1, ThreadFacts, ConstantsAssumption
  <2> QED
    BY <2>1
<1>3. t \in Left
  <2>1. Left \subseteq Nat
    BY ThreadFacts
  <2> HIDE DEF Left
  <2> QED
    BY <1>2, <2>1, LeastIs
<1>4. t \in Killer /\ kill[t].at = "off"
  BY <1>3
<1> HIDE DEF t, Left
<1>5. /\ kill' \in [Thread -> KillType] /\ kill'[Main] = threads[Main] /\ kill'[t] = Count
      /\ \A u \in Killer : u # t => kill'[u] = kill[u]
  BY <1>1, <1>4, ThreadFacts, OffCount
<1>6. Started' = Started \cup {t} /\ t \notin Started
  BY <1>4, <1>5, OffCount DEF Started
<1>7. Cardinality(Started') = Cardinality(Started) + 1
  BY <1>6, StartedFinite, FS_AddElement
<1> QED
  BY <1>1, <1>5, <1>7

LEMMA SignalKeeps == IInv /\ Signal => IInv'
<1> SUFFICES ASSUME IInv, Signal PROVE IInv'
  OBVIOUS
<1>1. /\ TypeOK /\ UNCHANGED <<config, seen, failed, main, agents, proc>>
      /\ used.signals < MaxSignals /\ used' = [used EXCEPT !.signals = @ + 1]
      /\ main.at # "ended" /\ Shutdown(kill)
  BY DEF IInv, Signal
<1>2. used \in [signals : 0..MaxSignals, errors : 0..MaxErrors, deaths : 0..MaxDeaths]
      /\ kill \in [Thread -> KillType]
  BY <1>1 DEF TypeOK
<1>3. /\ used' \in [signals : 0..MaxSignals, errors : 0..MaxErrors, deaths : 0..MaxDeaths]
      /\ used'.signals = used.signals + 1 /\ used.signals \in Nat
  BY <1>1, <1>2, ConstantsAssumption
<1>4. Cardinality(Started) \in Nat /\ Cardinality(Started) <= MaxSignals
      /\ Cardinality(Started) <= used.signals + (IF main.at \in {"waitall", "ended"} THEN 1 ELSE 0)
  BY <1>1, <1>3, StartedFinite, ConstantsAssumption DEF IInv, ThreadsLeft
<1>5. /\ shutdown' = TRUE
      /\ kill' \in [Thread -> KillType] /\ kill'[Main] = kill[Main]
      /\ \A u \in Killer : kill'[u] = kill[u] \/ kill'[u] = Count
      /\ Cardinality(Started') = Cardinality(Started) + 1
  BY <1>1, <1>2, <1>4, StartsThread
<1>6. TypeOK'
  BY <1>1, <1>3, <1>5 DEF TypeOK
<1>7. ThreadsLeft'
  BY <1>1, <1>3, <1>4, <1>5 DEF ThreadsLeft
<1>8. MainKills'
  BY <1>1, <1>5 DEF IInv, MainKills
<1>9. RemovesReaped' /\ Forked'
  BY <1>1, <1>5, ThreadFacts, OffCount DEF IInv, RemovesReaped, Forked
<1>10. Covers'
  BY <1>1, <1>5, CoversKept
<1>11. NotTooMany' /\ SeenByAgents' /\ OneGeneration'
  BY <1>1 DEF IInv, NotTooMany, SeenByAgents, OneGeneration, Alive
<1>12. Known'
  BY <1>1, <1>5 DEF IInv, Known, Ending, Alive
<1> QED
  BY <1>6, <1>7, <1>8, <1>9, <1>10, <1>11, <1>12 DEF IInv

\* The main thread raises, with the agents there are.
LEMMA RaiseKeeps ==
    ASSUME IInv, Raise, UNCHANGED <<config, seen, agents, used>>,
           main.at \in {"fork", "kill", "recover", "reaped"},
           proc' \in [Pid -> ProcType],
           \A p \in Pid : /\ proc[p].is = "reaped" => proc'[p].is = "reaped"
                          /\ proc[p].is # "none" => proc'[p].is # "none",
           OneGeneration', Alive' \subseteq agents \/ shutdown,
           \A p \in Alive' \ agents : proc'[p].gen = seen
    PROVE  IInv'
<1>1. TypeOK /\ kill \in [Thread -> KillType] /\ main \in MainType
  BY DEF IInv, TypeOK
<1>2. Cardinality(agents) <= NumAgents
  BY DEF IInv, NotTooMany
<1>3. CASE main.in = "refresh"
  <2>1. /\ main' = [main EXCEPT !.at = "kill", !.in = "rescue"]
        /\ kill' = [kill EXCEPT ![Main] = Count]
        /\ failed' = TRUE /\ UNCHANGED shutdown
    BY <1>3 DEF Raise
  <2>2. main' \in MainType /\ main'.at = "kill" /\ main'.in = "rescue"
    BY <1>1, <2>1 DEF MainType
  <2>3. /\ kill' \in [Thread -> KillType] /\ kill'[Main] = Count
        /\ \A u \in Killer : kill'[u] = kill[u]
    BY <1>1, <2>1, ThreadFacts, OffCount
  <2>4. TypeOK'
    <3>1. failed' \in BOOLEAN /\ shutdown' \in BOOLEAN
      BY <1>1, <2>1 DEF TypeOK
    <3>2. config' \in 0..MaxChanges /\ seen' \in 0..MaxChanges /\ agents' \subseteq Pid
      BY <1>1 DEF TypeOK
    <3>3. used' \in [signals : 0..MaxSignals, errors : 0..MaxErrors, deaths : 0..MaxDeaths]
      BY <1>1 DEF TypeOK
    <3> QED
      BY <2>2, <2>3, <3>1, <3>2, <3>3 DEF TypeOK
  <2>5. ThreadsLeft'
    <3>1. Started' = Started
      BY <2>3 DEF Started
    <3>2. Cardinality(Started) \in Nat /\ used.signals \in Nat
      BY <1>1, StartedFinite DEF TypeOK
    <3>3. Cardinality(Started) <= used.signals
      BY <3>2 DEF IInv, ThreadsLeft
    <3> QED
      BY <2>1, <2>2, <3>1, <3>2, <3>3 DEF IInv, ThreadsLeft
  <2>6. MainKills'
    BY <2>2, <2>3, OffCount DEF MainKills
  <2>7. RemovesReaped' /\ Forked'
    BY <1>1, <2>2, <2>3, ThreadFacts, OffCount DEF IInv, TypeOK, RemovesReaped, Forked
  <2>8. Covers'
    BY <2>3, OffCount DEF Covers
  <2>9. NotTooMany'
    BY <1>2, <2>2 DEF NotTooMany
  <2>10. Known'
    BY <2>1, <2>2 DEF Known, Ending
  <2>11. SeenByAgents'
    BY <2>2 DEF SeenByAgents
  <2> QED
    BY <2>4, <2>5, <2>6, <2>7, <2>8, <2>9, <2>10, <2>11 DEF IInv
<1>4. CASE main.in # "refresh"
  <2> DEFINE threads == [kill EXCEPT ![Main] = Off]
  <2>1. main' = [main EXCEPT !.at = "waitall"] /\ Shutdown(threads) /\ UNCHANGED failed
    BY <1>4 DEF Raise, Goto
  <2>2. main' \in MainType /\ main'.at = "waitall"
    BY <1>1, <2>1 DEF MainType
  <2>3. threads \in [Thread -> KillType] /\ threads[Main] = Off
        /\ \A k \in Killer : threads[k] = kill[k]
    BY <1>1, ThreadFacts, OffCount
  <2>4. Cardinality(Started) \in Nat /\ used.signals \in 0..MaxSignals
        /\ Cardinality(Started) <= used.signals
    BY <1>1, StartedFinite DEF IInv, ThreadsLeft, TypeOK
  <2>5. Cardinality(Started) <= MaxSignals
    BY <2>4, ConstantsAssumption
  <2> HIDE DEF threads
  <2>6. /\ shutdown' = TRUE
        /\ kill' \in [Thread -> KillType] /\ kill'[Main] = threads[Main]
        /\ \A u \in Killer : kill'[u] = kill[u] \/ kill'[u] = Count
        /\ Cardinality(Started') = Cardinality(Started) + 1
    BY <1>1, <2>1, <2>3, <2>5, StartsThread
  <2>8. TypeOK'
    <3>1. failed' \in BOOLEAN /\ shutdown' \in BOOLEAN
      BY <1>1, <2>1, <2>6 DEF TypeOK
    <3>2. config' \in 0..MaxChanges /\ seen' \in 0..MaxChanges /\ agents' \subseteq Pid
      BY <1>1 DEF TypeOK
    <3>3. used' \in [signals : 0..MaxSignals, errors : 0..MaxErrors, deaths : 0..MaxDeaths]
      BY <1>1 DEF TypeOK
    <3> QED
      BY <2>2, <2>6, <3>1, <3>2, <3>3 DEF TypeOK
  <2>9. ThreadsLeft'
    BY <2>2, <2>4, <2>6, ConstantsAssumption DEF ThreadsLeft
  <2>10. MainKills' /\ Covers'
    BY <2>2, <2>3, <2>6, OffCount DEF MainKills, Covers
  <2>11. RemovesReaped' /\ Forked'
    <3>1. ASSUME NEW u \in Thread, kill'[u].at = "delete"
          PROVE  kill'[u].pid \in Pid /\ proc'[kill'[u].pid].is = "reaped"
      <4>1. kill'[u] = kill[u]
        BY <2>3, <2>6, <3>1, ThreadFacts, OffCount
      <4>2. kill[u].pid \in Pid /\ proc[kill[u].pid].is = "reaped"
        BY <3>1, <4>1 DEF IInv, RemovesReaped
      <4> QED
        BY <4>1, <4>2
    <3>2. RemovesReaped'
      BY <2>2, <3>1 DEF RemovesReaped
    <3>3. Forked'
      BY <1>1 DEF IInv, TypeOK, Forked
    <3> QED
      BY <3>2, <3>3
  <2>12. NotTooMany' /\ SeenByAgents'
    BY <1>2, <2>2 DEF NotTooMany, SeenByAgents
  <2>13. Known'
    BY <2>2, <2>6 DEF Known, Ending
  <2> QED
    BY <2>8, <2>9, <2>10, <2>11, <2>12, <2>13 DEF IInv
<1> QED
  BY <1>3, <1>4

\* The same, when no agent was forked.
LEMMA RaiseAloneKeeps ==
    ASSUME IInv, Raise, UNCHANGED <<config, seen, agents, proc, used>>,
           main.at \in {"fork", "kill", "recover", "reaped"}
    PROVE  IInv'
<1>1. proc' \in [Pid -> ProcType] /\ Alive' = Alive /\ Alive \subseteq Pid
  BY DEF IInv, TypeOK, Alive
<1>2. OneGeneration'
  BY DEF IInv, OneGeneration, Alive
<1>3. Alive' \subseteq agents \/ shutdown
  BY <1>1 DEF IInv, Known, Ending
<1>4. \A p \in Alive' \ agents : proc'[p].gen = seen
  BY <1>1 DEF IInv, SeenByAgents
<1> QED
  BY <1>1, <1>2, <1>3, <1>4, RaiseKeeps

LEMMA NoSuchProcessKeeps == ASSUME NEW t \in Thread PROVE IInv /\ NoSuchProcess(t) => IInv'
<1> SUFFICES ASSUME IInv, NoSuchProcess(t) PROVE IInv'
  OBVIOUS
<1>1. kill[t].at = "each" /\ UNCHANGED <<config, seen, agents, proc, used>>
  BY DEF NoSuchProcess
<1>2. CASE t = Main
  <2>1. main.at = "kill"
    BY <1>1, <1>2 DEF IInv, MainKills
  <2>2. Raise
    BY <1>2 DEF NoSuchProcess
  <2> QED
    BY <1>1, <2>1, <2>2, RaiseAloneKeeps
<1>3. CASE t # Main
  <2> DEFINE X == [kill[t] EXCEPT !.at = "raised"]
  <2>1. kill' = [kill EXCEPT ![t] = X] /\ OnlyKill
    BY <1>1, <1>3 DEF NoSuchProcess, SetKill, OnlyKill
  <2>2. X \in KillType /\ X.at = "raised"
    BY ThreadTypes DEF KillType
  <2> HIDE DEF X
  <2>3. Ages
    BY <1>1, SameAges DEF IInv
  <2> QED
    BY <1>1, <1>3, <2>1, <2>2, <2>3, KillKeeps
<1> QED
  BY <1>2, <1>3

LEMMA ThreadsKeep == IInv /\ Threads => IInv'
<1> SUFFICES ASSUME IInv, NEW t \in Thread, kill_agents(t) PROVE IInv'
  BY DEF Threads
<1> QED
  BY CountAgentsKeeps, SignalAgentKeeps, NoSuchProcessKeeps, EachEndsKeeps, WaitForKeeps,
     DeleteKilledKeeps, AllKilledKeeps DEF kill_agents

-----------------------------------------------------------------------------
(* The main thread, where it forks, kills and reaps.                         *)

LEMMA ForkKeeps == IInv /\ Fork => IInv'
<1> SUFFICES ASSUME IInv, Fork PROVE IInv'
  OBVIOUS
<1>1. /\ main.at = "fork" /\ main.todo > 0 /\ UNCHANGED <<config, seen, used>>
      /\ TypeOK /\ proc \in [Pid -> ProcType] /\ main \in MainType /\ agents \subseteq Pid
  BY DEF Fork, IInv, TypeOK
<1>2. PICK p \in Pid :
         /\ proc[p] = NoProc
         /\ proc' = [proc EXCEPT ![p] = Inherits(p)]
         /\ IF \E t \in Killer : kill[t].at = "each"
            THEN Raise /\ UNCHANGED agents
            ELSE /\ agents' = agents \cup {p}
                 /\ main' = [main EXCEPT !.todo = @ - 1]
                 /\ UNCHANGED <<failed, shutdown, kill>>
  BY DEF Fork
<1>3. /\ proc' \in [Pid -> ProcType] /\ proc[p].is = "none"
      /\ proc'[p].is = "young" /\ proc'[p].gen = seen
      /\ \A q \in Pid : q # p => proc'[q] = proc[q]
  <2>1. Inherits(p) \in ProcType /\ Inherits(p).is = "young" /\ Inherits(p).gen = seen
    BY <1>1 DEF TypeOK, Inherits, ProcType
  <2> QED
    BY <1>1, <1>2, <2>1 DEF NoProc
<1>4. Alive' = Alive \cup {p} /\ p \notin Alive /\ Alive \subseteq Pid
  BY <1>3 DEF Alive
<1>5. Alive \subseteq agents
  BY <1>1 DEF IInv, Known, Ending, MainType
<1>6. Cardinality(agents) \in Nat /\ main.todo \in 0..NumAgents
      /\ Cardinality(agents) + main.todo <= NumAgents
  BY <1>1, AgentsFacts DEF IInv, NotTooMany
<1>7. Cardinality(Alive') <= NumAgents
  <2>1. IsFiniteSet(Alive) /\ Cardinality(Alive) \in Nat
    BY <1>4, FinitePids, ConstantsAssumption
  <2>2. Cardinality(Alive) <= Cardinality(agents)
    BY <1>1, <1>5, FewerPids
  <2>3. Cardinality(Alive') = Cardinality(Alive) + 1
    BY <1>4, <2>1, FS_AddElement
  <2> QED
    BY <1>1, <1>6, <2>1, <2>2, <2>3, ConstantsAssumption
<1>8. \A q \in Alive' : proc'[q].gen = seen
  BY <1>1, <1>3, <1>4 DEF IInv, SeenByAgents
<1>9. OneGeneration'
  BY <1>7, <1>8 DEF OneGeneration
<1>10. \A q \in Pid : /\ proc[q].is = "reaped" => proc'[q].is = "reaped"
                      /\ proc[q].is # "none" => proc'[q].is # "none"
  BY <1>3
<1>11. CASE \E t \in Killer : kill[t].at = "each"
  <2>1. Raise /\ UNCHANGED agents
    BY <1>2, <1>11
  <2>2. shutdown
    BY <1>11 DEF IInv, ThreadsLeft, Started
  <2> QED
    BY <1>1, <1>3, <1>8, <1>9, <1>10, <2>1, <2>2, RaiseKeeps
<1>12. CASE ~\E t \in Killer : kill[t].at = "each"
  <2>1. /\ agents' = agents \cup {p} /\ main' = [main EXCEPT !.todo = @ - 1]
        /\ UNCHANGED <<failed, shutdown, kill>>
    BY <1>2, <1>12
  <2>2. main' \in MainType /\ main'.at = "fork" /\ main'.todo = main.todo - 1
    <3>1. main.todo - 1 \in 0..NumAgents
      BY <1>1, <1>6, ConstantsAssumption
    <3> QED
      BY <1>1, <2>1, <3>1 DEF MainType
  <2>3. TypeOK'
    BY <1>1, <1>3, <2>1, <2>2 DEF TypeOK
  <2>4. ThreadsLeft'
    <3>1. Started' = Started
      BY <2>1 DEF Started
    <3> QED
      BY <1>1, <2>1, <2>2, <3>1 DEF IInv, ThreadsLeft
  <2>5. MainKills' /\ kill[Main].at = "off"
    BY <1>1, <2>1, <2>2 DEF IInv, MainKills
  <2>6. RemovesReaped' /\ Forked'
    BY <1>1, <1>3, <1>10, <2>1, <2>2 DEF IInv, RemovesReaped, Forked
  <2>7. Covers'
    BY <2>1, <2>5 DEF Covers
  <2>8. NotTooMany'
    <3>1. Cardinality(agents') \in Nat /\ Cardinality(agents') <= Cardinality(agents) + 1
      <4>1. IsFiniteSet(agents)
        BY AgentsFacts
      <4>2. Cardinality(agents \cup {p}) = IF p \in agents THEN Cardinality(agents) ELSE Cardinality(agents) + 1
        BY <4>1, FS_AddElement
      <4> QED
        BY <1>6, <2>1, <4>2
    <3> QED
      BY <1>1, <1>6, <2>2, <3>1, ConstantsAssumption DEF NotTooMany
  <2>9. Known'
    BY <1>4, <1>5, <2>1 DEF Known
  <2>10. SeenByAgents'
    BY <1>1, <1>8, <2>2 DEF SeenByAgents
  <2> QED
    BY <1>9, <2>3, <2>4, <2>5, <2>6, <2>7, <2>8, <2>9, <2>10 DEF IInv
<1> QED
  BY <1>11, <1>12

\* refresh_config begins to kill all agents, with or without an error.
LEMMA ToKillKeeps ==
    ASSUME IInv, NEW in \in {"refresh", "rescue"}, ToKill(in), main.at = "loop", ~shutdown,
           UNCHANGED <<config, shutdown, agents, proc>>,
           seen' \in 0..MaxChanges, failed' \in BOOLEAN,
           used' \in [signals : 0..MaxSignals, errors : 0..MaxErrors, deaths : 0..MaxDeaths],
           used'.signals = used.signals
    PROVE  IInv'
<1>1. TypeOK /\ kill \in [Thread -> KillType] /\ main \in MainType
  BY DEF IInv, TypeOK
<1>2. main' = [main EXCEPT !.at = "kill", !.in = in] /\ kill' = [kill EXCEPT ![Main] = Count]
  BY DEF ToKill, SetKill
<1>3. main' \in MainType /\ main'.at = "kill"
  BY <1>1, <1>2 DEF MainType
<1>4. /\ kill' \in [Thread -> KillType] /\ kill'[Main] = Count
      /\ \A u \in Killer : kill'[u] = kill[u]
  BY <1>1, <1>2, ThreadFacts, OffCount
<1>5. TypeOK'
  BY <1>1, <1>3, <1>4 DEF TypeOK
<1>6. ThreadsLeft'
  <2>1. Started' = Started
    BY <1>4 DEF Started
  <2> QED
    BY <1>3, <2>1 DEF IInv, ThreadsLeft
<1>7. MainKills' /\ Covers'
  BY <1>3, <1>4, OffCount DEF MainKills, Covers
<1>8. RemovesReaped' /\ Forked'
  BY <1>3, <1>4, ThreadFacts, OffCount DEF IInv, RemovesReaped, Forked
<1>9. NotTooMany'
  BY <1>3 DEF IInv, NotTooMany
<1>10. Alive' = Alive /\ Alive \subseteq agents
  BY DEF IInv, Known, Ending, Alive
<1>11. Known' /\ SeenByAgents'
  BY <1>3, <1>10 DEF Known, SeenByAgents
<1>12. OneGeneration'
  BY DEF IInv, OneGeneration, Alive
<1> QED
  BY <1>5, <1>6, <1>7, <1>8, <1>9, <1>11, <1>12 DEF IInv

LEMMA RefreshKeeps == IInv /\ (refresh_config \/ RefreshFails) => IInv'
<1>1. ASSUME IInv, refresh_config PROVE IInv'
  BY <1>1, ToKillKeeps DEF refresh_config, IInv, TypeOK
<1>2. ASSUME IInv, RefreshFails PROVE IInv'
  <2>1. used \in [signals : 0..MaxSignals, errors : 0..MaxErrors, deaths : 0..MaxDeaths]
        /\ seen' \in 0..MaxChanges
    BY <1>2 DEF IInv, TypeOK, RefreshFails
  <2>2. /\ used' \in [signals : 0..MaxSignals, errors : 0..MaxErrors, deaths : 0..MaxDeaths]
        /\ used'.signals = used.signals
    BY <1>2, <2>1, ConstantsAssumption DEF RefreshFails
  <2> QED
    BY <1>2, <2>1, <2>2, ToKillKeeps DEF RefreshFails
<1> QED
  BY <1>1, <1>2

LEMMA KilledKeeps == IInv /\ Killed => IInv'
<1> SUFFICES ASSUME IInv, Killed PROVE IInv'
  OBVIOUS
<1>1. /\ main.at = "kill" /\ kill[Main].at = "done" /\ kill' = [kill EXCEPT ![Main] = Off]
      /\ UNCHANGED <<config, seen, failed, shutdown, agents, proc, used>>
      /\ main' = IF main.in = "refresh" THEN [main EXCEPT !.at = "fork", !.todo = NumAgents]
                 ELSE ToRecover
  BY DEF Killed, SetKill
<1>2. TypeOK /\ kill \in [Thread -> KillType] /\ main \in MainType
  BY DEF IInv, TypeOK
<1>3. /\ main' \in MainType /\ main'.at \in {"fork", "recover"}
      /\ main'.todo \in {0, NumAgents}
      /\ main'.at = "recover" => main'.todo = 0
      /\ main'.at = "fork" <=> main.in = "refresh"
  <2>1. CASE main.in = "refresh"
    <3>1. main' = [main EXCEPT !.at = "fork", !.todo = NumAgents] /\ NumAgents \in 0..NumAgents
      BY <1>1, <2>1, ConstantsAssumption
    <3> QED
      BY <1>2, <2>1, <3>1 DEF MainType
  <2>2. CASE main.in # "refresh"
    <3>1. main' = ToRecover
      BY <1>1, <2>2
    <3>2. ToRecover \in MainType /\ ToRecover.at = "recover" /\ ToRecover.todo = 0
      BY ConstantsAssumption DEF ToRecover, MainType
    <3> QED
      BY <2>2, <3>1, <3>2
  <2> QED
    BY <2>1, <2>2
<1>4. /\ kill' \in [Thread -> KillType] /\ kill'[Main] = Off
      /\ \A u \in Killer : kill'[u] = kill[u]
  BY <1>1, <1>2, ThreadFacts, OffCount
<1>5. agents = {} /\ Cardinality(agents) = 0
  BY <1>1, FS_EmptySet DEF IInv, Covers
<1>6. TypeOK'
  BY <1>1, <1>2, <1>3, <1>4 DEF TypeOK
<1>7. ThreadsLeft'
  <2>1. Started' = Started
    BY <1>4 DEF Started
  <2> QED
    BY <1>1, <1>3, <2>1 DEF IInv, ThreadsLeft
<1>8. MainKills' /\ Covers'
  BY <1>3, <1>4, OffCount DEF MainKills, Covers
<1>9. RemovesReaped' /\ Forked'
  BY <1>1, <1>3, <1>4, ThreadFacts, OffCount DEF IInv, RemovesReaped, Forked
<1>10. NotTooMany'
  BY <1>1, <1>3, <1>5, ConstantsAssumption DEF NotTooMany
<1>11. Alive' = Alive
  BY <1>1 DEF Alive
<1>12. main'.at = "fork" => Alive = {}
  BY <1>1, <1>3, <1>5 DEF IInv, Known, Ending
<1>13. Known'
  <2>1. CASE main'.at = "fork"
    BY <1>11, <1>12, <2>1 DEF Known
  <2>2. CASE main'.at = "recover"
    BY <1>1, <1>3, <1>5, <1>11, <2>2 DEF IInv, Known, Ending
  <2> QED
    BY <1>3, <2>1, <2>2
<1>14. SeenByAgents'
  <2>1. \A p \in Alive : proc[p].gen = seen
    BY <1>1, <1>5 DEF IInv, SeenByAgents
  <2> QED
    BY <1>1, <1>3, <1>11, <2>1 DEF SeenByAgents
<1>15. OneGeneration'
  BY <1>1, <1>11 DEF IInv, OneGeneration
<1> QED
  BY <1>6, <1>7, <1>8, <1>9, <1>10, <1>13, <1>14, <1>15 DEF IInv

LEMMA RecoverKeeps == IInv /\ Recover => IInv'
<1> SUFFICES ASSUME IInv, Recover PROVE IInv'
  OBVIOUS
<1> DEFINE p == Least(Following)
<1>1. main.at = "recover" /\ Following # {} /\ UNCHANGED <<config, seen, agents, used>>
  BY DEF Recover
<1>2. p \in agents /\ p \in Pid /\ agents # {}
  BY <1>1, AgentsFacts
<1>3. \/ /\ proc[p].is = "zombie" /\ proc' = [proc EXCEPT ![p].is = "reaped"]
         /\ main' = [main EXCEPT !.at = "reaped", !.last = p]
         /\ UNCHANGED <<failed, shutdown, kill>>
      \/ /\ main' = [main EXCEPT !.last = p]
         /\ UNCHANGED <<failed, shutdown, kill, proc>>
      \/ Raise /\ UNCHANGED proc
  BY DEF Recover, Becomes
<1> HIDE DEF p
<1>4. /\ TypeOK /\ main \in MainType /\ Cardinality(agents) + main.todo <= NumAgents
      /\ p \in 0..MaxPid /\ ~Ending
  BY <1>1, <1>2, AgentsFacts, ConstantsAssumption DEF IInv, NotTooMany, Pid, Ending
<1>5. config' \in 0..MaxChanges
      /\ used' \in [signals : 0..MaxSignals, errors : 0..MaxErrors, deaths : 0..MaxDeaths]
  BY <1>1, <1>4 DEF TypeOK
<1>6. ASSUME proc[p].is = "zombie", proc' = [proc EXCEPT ![p].is = "reaped"],
             main' = [main EXCEPT !.at = "reaped", !.last = p],
             UNCHANGED <<failed, shutdown, kill>>
      PROVE  IInv'
  <2>1. main' \in MainType /\ main'.at = "reaped" /\ main'.todo = main.todo /\ main'.last = p
    BY <1>4, <1>6 DEF MainType
  <2>2. Ages
    BY <1>2, <1>4, <1>6, BecomesAges
  <2>3. proc'[p].is = "reaped"
    BY <1>2, <1>4, <1>6 DEF TypeOK, ProcType
  <2> QED
    BY <1>1, <1>2, <1>4, <1>5, <1>6, <2>1, <2>2, <2>3, OthersKeep
<1>7. ASSUME main' = [main EXCEPT !.last = p], UNCHANGED <<failed, shutdown, kill, proc>>
      PROVE  IInv'
  <2>1. main' \in MainType /\ main'.at = "recover" /\ main'.todo = main.todo
    BY <1>1, <1>4, <1>7 DEF MainType
  <2>2. Ages
    BY <1>4, <1>7, SameAges
  <2> QED
    BY <1>1, <1>4, <1>5, <1>7, <2>1, <2>2, OthersKeep
<1>8. ASSUME Raise, UNCHANGED proc PROVE IInv'
  BY <1>1, <1>8, RaiseAloneKeeps
<1> QED
  BY <1>3, <1>6, <1>7, <1>8

LEMMA RecoverDeleteKeeps == IInv /\ RecoverDelete => IInv'
<1> SUFFICES ASSUME IInv, RecoverDelete PROVE IInv'
  OBVIOUS
<1>1. main.at = "reaped" /\ UNCHANGED <<config, seen, proc, used>>
  BY DEF RecoverDelete
<1>2. CASE main.last \notin agents
  BY <1>1, <1>2, RaiseAloneKeeps DEF RecoverDelete
<1>3. CASE main.last \in agents
  <2>1. /\ agents' = agents \ {main.last}
        /\ main' = [main EXCEPT !.at = "recover", !.todo = @ + 1]
        /\ UNCHANGED <<failed, shutdown, kill>>
    BY <1>3 DEF RecoverDelete
  <2>2. /\ TypeOK /\ main \in MainType /\ main.todo \in Nat /\ Cardinality(agents) \in Nat
        /\ Cardinality(agents) + main.todo <= NumAgents /\ IsFiniteSet(agents)
        /\ agents \subseteq Pid
    BY <1>1, AgentsFacts DEF IInv, NotTooMany
  <2>3. Cardinality(agents') = Cardinality(agents) - 1 /\ Cardinality(agents') \in Nat
    <3>1. Cardinality(agents') = Cardinality(agents) - 1
      BY <1>3, <2>1, <2>2, FS_RemoveElement
    <3>2. Cardinality(agents') \in Nat
      BY <2>1, <2>2, FS_RemoveElement, FS_CardinalityType
    <3> QED
      BY <3>1, <3>2
  <2>4. main' \in MainType /\ main'.at = "recover" /\ main'.todo = main.todo + 1
    <3>1. main.todo + 1 \in 0..NumAgents
      BY <2>2, <2>3, ConstantsAssumption
    <3> QED
      BY <2>1, <2>2, <3>1 DEF MainType
  <2>5. TypeOK'
    BY <1>1, <2>1, <2>2, <2>4 DEF TypeOK
  <2>6. ThreadsLeft'
    <3>1. Started' = Started
      BY <2>1 DEF Started
    <3> QED
      BY <1>1, <2>1, <2>4, <3>1 DEF IInv, ThreadsLeft
  <2>7. MainKills'
    BY <1>1, <2>1, <2>4 DEF IInv, MainKills
  <2>8. RemovesReaped' /\ Forked'
    BY <1>1, <2>1, <2>4 DEF IInv, RemovesReaped, Forked
  <2>9. Covers'
    BY <2>1, CoversKept
  <2>10. NotTooMany'
    BY <2>2, <2>3, <2>4, ConstantsAssumption DEF NotTooMany
  <2>11. Alive' = Alive /\ main.last \notin Alive
    BY <1>1 DEF Alive, IInv, RemovesReaped
  <2>12. Alive \subseteq agents
    BY <1>1 DEF IInv, Known, Ending
  <2>13. Known'
    BY <2>1, <2>11, <2>12 DEF Known
  <2>14. SeenByAgents'
    BY <1>1, <2>4, <2>11 DEF IInv, SeenByAgents
  <2>15. OneGeneration'
    BY <1>1, <2>11 DEF IInv, OneGeneration
  <2> QED
    BY <2>5, <2>6, <2>7, <2>8, <2>9, <2>10, <2>13, <2>14, <2>15 DEF IInv
<1> QED
  BY <1>2, <1>3

-----------------------------------------------------------------------------
(* The theorems.                                                             *)

LEMMA NextKeeps == IInv /\ [Next]_vars => IInv'
<1> SUFFICES ASSUME IInv, [Next]_vars PROVE IInv'
  OBVIOUS
<1>1. CASE run
  BY <1>1, ForkKeeps, LaunchedKeeps, LoopKeeps, KilledKeeps, RecoverKeeps, RecoverDeleteKeeps,
     RecoverLaunchKeeps, WaitAllKeeps DEF run
<1>2. CASE refresh_config \/ RefreshFails
  BY <1>2, RefreshKeeps
<1>3. CASE Threads
  BY <1>3, ThreadsKeep
<1>4. CASE Signal
  BY <1>4, SignalKeeps
<1>5. CASE \E p \in Pid : Boot(p) \/ Stop(p) \/ Die(p)
  BY <1>5, ProcessKeeps
<1>6. CASE ChangeConfig
  BY <1>6, ChangeConfigKeeps
<1>7. CASE UNCHANGED vars
  <2>1. UNCHANGED <<config, seen, failed, shutdown, main, kill, agents, proc, used>>
    BY <1>7 DEF vars
  <2>2. Ages
    BY <2>1, SameAges DEF IInv
  <2>3. config' \in 0..MaxChanges /\ used'.signals = used.signals
        /\ used' \in [signals : 0..MaxSignals, errors : 0..MaxErrors, deaths : 0..MaxDeaths]
    BY <2>1 DEF IInv, TypeOK
  <2> QED
    BY <2>1, <2>2, <2>3, OutsideKeeps
<1> QED
  BY <1>1, <1>2, <1>3, <1>4, <1>5, <1>6, <1>7 DEF Next

\* IInv holds in every state of the launcher: what run, refresh_config, the threads
\* of signal handlers in kill_agents, and agents that die make of it.
THEOREM InductiveInvariant == Spec => []IInv
BY InitIInv, NextKeeps, PTL DEF Spec

\* Every variable has its type; so there is always a thread to start for a signal,
\* and no more agents are forked than are to be.
THEOREM TypeCorrect == Spec => []TypeOK
<1>1. IInv => TypeOK
  BY DEF IInv
<1> QED
  BY <1>1, InductiveInvariant, PTL

\* At no time do more than num_agents agents run, or agents with two different
\* configurations, whatever signals, deaths and configuration changes come between
\* the steps of kill_all_agents, recover_dead_agents and launch_agents.
THEOREM AlwaysOneGeneration == Spec => []OneGeneration
<1>1. IInv => OneGeneration
  BY DEF IInv
<1> QED
  BY <1>1, InductiveInvariant, PTL
===============================================================================
