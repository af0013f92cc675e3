------------------------------ MODULE Workflow ------------------------------
(***************************************************************************)
(* One workflow of Armagh, its life between stopped, running and stopping  *)
(* (actions/workflow.rb, actions/workflow_set.rb), with everyone who acts  *)
(* on it: requests to the admin API, which run in threads of their own,    *)
(* load the configurations, decide on what they loaded and write one       *)
(* configuration after the other; the clean-up action, which stops a       *)
(* stopping workflow once no document is in process; the launchers, which  *)
(* work with the set of active actions they loaded last and restart their  *)
(* agents when a configuration changes; and the agents, which give each    *)
(* document the actions their own set has for its docspec.                 *)
(*                                                                         *)
(* Requests overlap with each other and with the clean-up.  What happens   *)
(* to a document's lock is in LockingCRUD and Processing, when a collect   *)
(* is triggered in ScheduledActionTrigger.                                 *)
(***************************************************************************)
EXTENDS Integers, Sequences, FiniteSets

CONSTANTS
    Action,         \* the names of the workflow's actions
    Order,          \* the order in which the database returns them, a sequence
    Spec0,          \* docspecs
    None,           \* no docspec, no configuration, no launcher, no aim, no count
    Shape,          \* what an action can be configured to: see ShapeType
    First,          \* First[a]: the shape an action is created with
    Edits,          \* the changes of shape that are asked for, <<a, shape>>
    Retirable,      \* the actions that are retired and unretired
    Breakable,      \* the actions whose configuration can become invalid
    Doc,            \* slots for documents
    Launcher,
    MaxRequests,    \* bound: requests and clean-ups that are under way at a time
    MaxIncidents    \* bound: requests that load beside another one, that are about
                    \* anything but run and stop, or that end half-way, and actions
                    \* that become invalid

ShapeType == [kind : {"collect", "split", "publish", "consume"},
              input : Spec0, outputs : SUBSET Spec0]

Request == 1..MaxRequests

Mode   == {"stopped", "running", "stopping"}
View   == [Action -> Shape \cup {None}]
NoView == [a \in Action |-> None]

ActionConfig == [shape : Shape, active : BOOLEAN, retired : BOOLEAN, valid : BOOLEAN]
Config       == [Action -> ActionConfig]

\* What a request is about: the run mode it sets; "stop" and "end", a stop of a
\* running and of a stopping workflow that still has to count, "clean" that of the
\* clean-up action; an edit; or a document to collect or to consume.
Stops == {"stop", "end", "clean"}
Edit  == {"update", "retire", "check"}
Aims  == Mode \cup Stops \cup Edit \cup {"document"}

\* A document in process: `pub` when it is stored in a published collection,
\* `by` the launcher of the agent that has it and `view` that agent's set.
DocType == [spec : Spec0 \cup {None}, pub : BOOLEAN, pending : SUBSET Action,
            by : Launcher \cup {None}, view : View]
Free    == [spec |-> None, pub |-> FALSE, pending |-> {}, by |-> None,
            view |-> NoView]

ASSUME ConstantsAssumption ==
    /\ None \notin Spec0 /\ None \notin Shape /\ None \notin Launcher
    /\ None \notin ActionConfig /\ None \notin Aims
    /\ Shape \subseteq ShapeType
    /\ Order \in Seq(Action) /\ {Order[i] : i \in 1..Len(Order)} = Action
    /\ First \in [Action -> Shape]
    /\ Edits \subseteq Action \X Shape
    /\ Retirable \subseteq Action /\ Breakable \subseteq Action
    /\ MaxRequests \in Nat /\ MaxIncidents \in Nat
    /\ IsFiniteSet(Spec0)

VARIABLES
    mode,        \* run_mode, in the database
    check,       \* unused_output_docspec_check, in the database
    config,      \* the actions' configurations, in the database
    request,     \* what the requests under way have to write: see RequestType
    counted,     \* the docspecs of which the API's process counted any documents in
                 \* process within the last two seconds, or None
    launcher,    \* the set that the launcher and its agents have, whether a
                 \* configuration was written since it was loaded, and whether the
                 \* agents are up
    doc,         \* documents in process
    torn,        \* a request ended half-way or wrote beside another one's aim, and
                 \* none wrote all actions since
    slipped,     \* a request wrote beside an edit, or an edit beside a run or a
                 \* stop, and no request that decided later has finished since
    incidents    \* see MaxIncidents

vars == <<mode, check, config, request, counted, launcher, doc, torn, slipped,
          incidents>>

database == <<mode, check, config>>
ghosts   == <<torn, slipped, incidents>>

\* `todo`: the configurations that are still to be written, as they follow from
\* those that were loaded; `check`: the check that was loaded, or is to be set;
\* `beside`: what others have written since the request loaded.
RequestType == [aim : Aims \cup {None}, todo : [Action -> ActionConfig \cup {None}],
                check : BOOLEAN, beside : SUBSET {"move", "edit"}]
Nothing == [a \in Action |-> None]
Idle    == [aim |-> None, todo |-> Nothing, check |-> FALSE, beside |-> {}]

-----------------------------------------------------------------------------
(* What a WorkflowSet makes of the configurations.                           *)

ValidActions(c)   == {a \in Action : c[a].valid /\ ~c[a].retired}
InvalidActions(c) == {a \in Action : ~c[a].valid /\ ~c[a].retired}
Collects(c)       == {a \in ValidActions(c) : c[a].shape.kind = "collect"}

Inputs(c)  == {c[a].shape.input : a \in ValidActions(c)}
Outputs(c) == UNION {c[a].shape.outputs : a \in ValidActions(c)}

\* The docspec graph: an edge from what an action takes to what it makes.
Edges(c) == UNION {{c[a].shape.input} \X c[a].shape.outputs : a \in ValidActions(c)}

\* Mutant: only an action that makes what it takes is a cycle.
actions_have_no_loops(c) == \A e \in Edges(c) : e[1] # e[2]

\* tsort finds no docspecs that are each made from another one of them.  An edge
\* from a docspec to itself is not in its way.
actions_have_no_cycles(c) ==
    LET edges == {e \in Edges(c) : e[1] # e[2]} IN
    ~ \E S \in (SUBSET Spec0) \ {{}} :
          \A s \in S : \E e \in edges : e[1] \in S /\ e[2] = s

\* Mutant: a retired action uses its input, too.
used_by_retired(c) == Outputs(c) \ {c[a].shape.input : a \in Action}

find_unused_output_docspecs(c) == Outputs(c) \ Inputs(c)

valid(c) == InvalidActions(c) = {} /\ actions_have_no_cycles(c)

\* refresh_pointers: the active actions of a valid workflow.
PointersTo(c) ==
    IF valid(c)
    THEN [a \in Action |-> IF a \in ValidActions(c) /\ c[a].active THEN c[a].shape
                           ELSE None]
    ELSE NoView

\* actions_names_handling_docspec
Handling(v, spec) == {a \in Action : v[a] # None /\ v[a].input = spec}

CollectsOf(v) == {a \in Action : v[a] # None /\ v[a].kind = "collect"}

-----------------------------------------------------------------------------
(* Documents in process.                                                     *)

InProcess == {d \in Doc : doc[d].spec # None}
Held(d)   == doc[d].by # None

\* A document outside the published collections that no action is to take.
Orphan(d) ==
    doc[d].spec # None /\ ~doc[d].pub /\ doc[d].pending = {} /\ ~Held(d)

\* The queries leave out the published documents that an agent has locked.
CountNow == {doc[d].spec : d \in {e \in InProcess : ~(doc[e].pub /\ Held(e))}}

Init ==
    /\ mode = "stopped" /\ check = TRUE
    /\ config = [a \in Action |-> [shape |-> First[a], active |-> FALSE,
                                   retired |-> FALSE, valid |-> TRUE]]
    /\ request = [r \in Request |-> Idle]
    /\ counted = None
    /\ launcher = [l \in Launcher |-> [view |-> NoView, changed |-> FALSE, up |-> TRUE]]
    /\ doc = [d \in Doc |-> Free]
    /\ torn = FALSE /\ slipped = FALSE
    /\ incidents = 0

Put(d, it) == doc' = [doc EXCEPT ![d] = it]

-----------------------------------------------------------------------------
(* Requests.  A request loads everything as it starts (WorkflowSet.for_admin, *)
(* for_agent) and decides on that; what it then writes comes in later steps.  *)

\* What is left to write: `active` set in the configurations loaded of some actions.
ToSet(actions, active) ==
    [a \in Action |-> IF a \in actions THEN [config[a] EXCEPT !.active = active]
                      ELSE None]

Left(r) == {a \in Action : request[r].todo[a] # None}

Incident(is) ==
    /\ incidents' = IF is THEN incidents + 1 ELSE incidents
    /\ incidents' <= MaxIncidents

Busy == \E r \in Request : request[r] # Idle

\* Threads are alike: a request takes the first one that is free.
Load(r, aim, todo, val) ==
    /\ request[r] = Idle /\ \A q \in Request : q < r => request[q] # Idle
    /\ request' = [request EXCEPT ![r] = [aim |-> aim, todo |-> todo, check |-> val,
                                          beside |-> {}]]
    /\ UNCHANGED <<database, counted, launcher, doc, torn, slipped>>

\* What r writes was not known to the others that are about to write: an edit to
\* those that run or stop the workflow, these to edits and to those with another aim.
Trace(r, q) ==
    (IF request[r].aim \in Edit THEN {"edit"}
     ELSE (request[r].beside \cap {"edit"})
          \cup (IF request[q].aim = request[r].aim THEN {} ELSE {"move"}))

\* r writes and has `left` to write.
Advance(r, left) ==
    request' =
        [q \in Request |->
            IF q = r THEN left
            ELSE IF \/ request[q].aim \in {None, "document"}
                    \/ request[q].aim \in Edit /\ request[r].aim \in Edit
                 THEN request[q]
                 ELSE [request[q] EXCEPT !.beside = @ \cup Trace(r, q)]]

\* A configuration of an action is written: the launchers see another timestamp.
Changed == launcher' = [l \in Launcher |-> [launcher[l] EXCEPT !.changed = TRUE]]

run(r) ==
    /\ mode = "stopped" /\ valid(config)
    /\ check => find_unused_output_docspecs(config) = {}
    /\ Load(r, "running", ToSet(ValidActions(config), TRUE), check)
    /\ Incident(Busy)

\* Mutants: a status that is no run mode; every action becomes inactive; the
\* collect actions stay active.
move_to_idle(todo)           == [aim |-> "idle", todo |-> todo]
move_to_stopping_all(todo)   == [aim |-> "stopping", todo |-> todo]
move_to_stopping_later(todo) == [aim |-> "stopping", todo |-> Nothing]

move_to_stopping(todo) ==
    [aim  |-> "stopping",
     todo |-> [a \in Action |-> IF todo[a] # None /\ todo[a].shape.kind = "collect"
                                THEN todo[a] ELSE None]]

move_to_stopped(todo) == [aim |-> "stopped", todo |-> todo]

\* stop: a workflow that is not valid stops at once, another one has to count.
stop(r) ==
    /\ mode # "stopped"
    /\ Load(r, IF ~valid(config) THEN "stopped"
               ELSE IF mode = "running" THEN "stop" ELSE "end",
            ToSet(ValidActions(config), FALSE), check)
    /\ Incident(Busy)

\* try_to_move_stopping_workflows_to_stopped
clean_up(r) ==
    /\ mode = "stopping"
    /\ Load(r, IF ~valid(config) THEN "stopped" ELSE "clean",
            ToSet(ValidActions(config), FALSE), check)
    /\ Incident(Busy)

docspec_strings(r) ==
    UNION {{request[r].todo[a].shape.input} \cup request[r].todo[a].shape.outputs :
              a \in Left(r)}

\* The stop goes on with the docspecs of which documents are in process.
StopWith(r, count) ==
    LET none == count \cap docspec_strings(r) = {}
        todo == request[r].todo
        move == IF none THEN move_to_stopped(todo) ELSE move_to_stopping(todo)
    IN  request' = [request EXCEPT ![r] =
                      IF ~none /\ @.aim # "stop" THEN Idle
                      ELSE [@ EXCEPT !.aim = move.aim, !.todo = move.todo]]

\* count_failed_and_in_process_documents_by_doctype: counts anew when the last
\* count is older than two seconds.  The clean-up clears the counts of its process.
count_documents(r) ==
    /\ request[r].aim \in Stops
    /\ LET clean == request[r].aim = "clean"
           count == IF counted = None \/ clean THEN CountNow ELSE counted
       IN  /\ StopWith(r, count)
           /\ counted' = IF clean THEN counted ELSE count
    /\ UNCHANGED <<database, launcher, doc, ghosts>>

\* change_actions_active_status: one update after the other.  update_merge is in
\* the configh gem: what the update leaves alone is as it was loaded or as it is
\* stored.
Write(r) ==
    /\ request[r].aim \in Mode
    /\ \E i \in 1..Len(Order) :
          /\ Order[i] \in Left(r)
          /\ \A k \in 1..(i - 1) : Order[k] \notin Left(r)
          /\ LET a == Order[i]
                 loaded == request[r].todo[a]
             IN  /\ \E new \in {loaded, [config[a] EXCEPT !.active = loaded.active]} :
                       config' = [config EXCEPT ![a] = new]
                 /\ Advance(r, [request[r] EXCEPT !.todo[a] = None])
    /\ Changed
    /\ torn' = (torn \/ request[r].beside # {})
    /\ slipped' = (slipped \/ "edit" \in request[r].beside)
    /\ UNCHANGED <<mode, check, counted, doc, incidents>>

\* ... then the mode.
Finish(r) ==
    /\ request[r].aim \in Mode /\ Left(r) = {}
    /\ mode' = request[r].aim
    /\ check' \in {check, request[r].check}
    /\ Advance(r, Idle)
    /\ torn' = \/ request[r].beside # {}
               \/ torn /\ (request[r].aim = "stopping" \/ ValidActions(config) # Action)
    /\ slipped' = ("edit" \in request[r].beside)
    /\ UNCHANGED <<config, counted, launcher, doc, incidents>>

\* An update raises, or the process is killed: what is written stays.
Interrupt(r) ==
    /\ request[r].aim \in Mode /\ Incident(TRUE)
    /\ request' = [request EXCEPT ![r] = Idle]
    /\ torn' = TRUE
    /\ UNCHANGED <<database, counted, launcher, doc, slipped>>

-----------------------------------------------------------------------------
(* Requests that write one configuration.  An import is a sequence of these. *)

Only(a, it) == [Nothing EXCEPT ![a] = it]

\* update_action_config; an import stores what does not validate, too.
update_action_config(r, a, shape, ok) ==
    /\ mode = "stopped"
    /\ Load(r, "update", Only(a, [config[a] EXCEPT !.shape = shape, !.valid = ok,
                                                   !.active = FALSE]), FALSE)
    /\ Incident(TRUE)

set_action_retired(r, a, retire) ==
    /\ mode = "stopped" /\ config[a].retired = ~retire
    /\ Load(r, "retire", Only(a, [config[a] EXCEPT !.retired = retire]), FALSE)
    /\ Incident(TRUE)

set_unused_output_docspec_check(r, val) ==
    /\ mode = "stopped" /\ check = ~val
    /\ val => find_unused_output_docspecs(config) = {}
    /\ Load(r, "check", Nothing, val)
    /\ Incident(TRUE)

\* The update replaces a configuration, the others merge what they set into one.
Store(r) ==
    /\ request[r].aim \in Edit
    /\ IF request[r].aim = "check"
       THEN /\ check' = request[r].check /\ mode' \in {mode, "stopped"}
            /\ UNCHANGED <<config, launcher>>
       ELSE /\ \E a \in Left(r) :
                  LET new    == request[r].todo[a]
                      merged == [config[a] EXCEPT !.retired = new.retired]
                  IN  \/ config' = [config EXCEPT ![a] = new]
                      \/ request[r].aim = "retire" /\ config' = [config EXCEPT ![a] = merged]
            /\ Changed
            /\ UNCHANGED <<mode, check>>
    /\ Advance(r, Idle)
    /\ torn' = (torn \/ request[r].beside # {})
    /\ slipped' = (slipped \/ request[r].beside # {})
    /\ UNCHANGED <<counted, doc, incidents>>

\* A new version of an action's gem may refuse the configuration it has.  It comes
\* with a restart of the programs.
ConfigurationInvalid(a) ==
    /\ ~Busy /\ config[a].valid /\ Incident(TRUE)
    /\ config' = [config EXCEPT ![a].valid = FALSE]
    /\ Changed
    /\ UNCHANGED <<mode, check, request, counted, doc, torn, slipped>>

\* Any status request counts; two seconds later the count is no longer used.
Count ==
    /\ counted = None /\ counted' = CountNow
    /\ UNCHANGED <<database, request, launcher, doc, ghosts>>

CountExpires ==
    /\ counted # None /\ counted' = None
    /\ UNCHANGED <<database, request, launcher, doc, ghosts>>

-----------------------------------------------------------------------------
(* Requests for a document: they, too, go by the set they have loaded.       *)

\* trigger_collect, mark_consume_id
ask_for_document(r, a) ==
    LET v == PointersTo(config) IN
    /\ v[a] # None /\ v[a].kind \in {"collect", "consume"}
    /\ Load(r, "document", Only(a, config[a]), FALSE)
    /\ Incident(TRUE)

\* There is at most one document for a collect.
collect(a, spec) ==
    /\ \A d \in Doc : a \notin doc[d].pending
    /\ \E d \in Doc : doc[d] = Free
                      /\ Put(d, [Free EXCEPT !.spec = spec, !.pending = {a}])

\* trigger_collect goes on.
trigger_collect(r, a) ==
    /\ request[r].aim = "document" /\ a \in Left(r)
    /\ request[r].todo[a].shape.kind = "collect"
    /\ collect(a, request[r].todo[a].shape.input)
    /\ request' = [request EXCEPT ![r] = Idle]
    /\ UNCHANGED <<database, counted, launcher, ghosts>>

\* mark_consume_id has waited for the published document's lock: it is to be
\* consumed (once more).
mark_consume(r, a) ==
    LET spec == request[r].todo[a].shape.input IN
    /\ request[r].aim = "document" /\ a \in Left(r)
    /\ request[r].todo[a].shape.kind = "consume"
    /\ \E d \in Doc :
          /\ doc[d] = Free \/ (doc[d].pub /\ doc[d].spec = spec /\ ~Held(d))
          /\ Put(d, [Free EXCEPT !.spec = spec, !.pub = TRUE,
                                 !.pending = doc[d].pending \cup {a}])
    /\ request' = [request EXCEPT ![r] = Idle]
    /\ UNCHANGED <<database, counted, launcher, ghosts>>

\* There is one already, or no such document is published.
refuse(r) ==
    /\ request[r].aim = "document"
    /\ request' = [request EXCEPT ![r] = Idle]
    /\ UNCHANGED <<database, counted, launcher, doc, ghosts>>

-----------------------------------------------------------------------------
(* Launchers.                                                                *)

\* refresh_config finds another timestamp and kill_all_agents signals the agents,
\* which finish the document they have ...
refresh(l) ==
    /\ launcher[l].up /\ launcher[l].changed
    /\ launcher' = [launcher EXCEPT ![l] = [view |-> PointersTo(config),
                                            changed |-> FALSE, up |-> FALSE]]
    /\ UNCHANGED <<database, request, counted, doc, ghosts>>

\* ... and once all have, new agents get the launcher's set.
launch_agents(l) ==
    /\ ~launcher[l].up /\ \A d \in Doc : doc[d].by # l
    /\ launcher' = [launcher EXCEPT ![l].up = TRUE]
    /\ UNCHANGED <<database, request, counted, doc, ghosts>>

-----------------------------------------------------------------------------
(* Documents.  Those of a slot that becomes Free have left the process.      *)

OnlyDocuments == UNCHANGED <<database, request, counted, launcher, ghosts>>

\* trigger_individual_action, with the launcher's set.
Trigger(l, a) ==
    LET v == launcher[l].view IN
    /\ a \in CollectsOf(v) /\ collect(a, v[a].input)
    /\ OnlyDocuments

\* get_one_for_processing_locked
Lock(l, d) ==
    /\ launcher[l].up /\ ~Held(d) /\ doc[d].pending # {}
    /\ Put(d, [doc[d] EXCEPT !.by = l, !.view = launcher[l].view])
    /\ OnlyDocuments

\* The document without pending action a; out of the process with the last one.
Without(d, a) ==
    IF doc[d].pending = {a} THEN Free ELSE [doc[d] EXCEPT !.pending = @ \ {a}]

\* create_document
Created(d, a, spec) ==
    [Free EXCEPT !.spec = spec, !.pending = Handling(doc[d].view, spec)]

\* The body creates at most one document; a collect or a split deletes its own.
Execute(d, a) ==
    /\ Held(d) /\ a \in doc[d].pending
    /\ LET it == doc[d].view[a]
           left == IF it # None /\ it.kind \in {"collect", "split"}
                   THEN Free ELSE Without(d, a)
       IN  /\ it # None /\ it.kind # "publish"
           /\ \/ Put(d, left)
              \/ \E spec \in it.outputs, e \in Doc :
                    /\ (IF e = d THEN left ELSE doc[e]) = Free
                    /\ doc' = [doc EXCEPT ![d] = left, ![e] = Created(d, a, spec)]
    /\ OnlyDocuments

\* The document gets the docspec it is published as and that docspec's actions;
\* the agent goes on with these.
Publish(d, a) ==
    /\ Held(d) /\ a \in doc[d].pending
    /\ LET it == doc[d].view[a] IN
       /\ it # None /\ it.kind = "publish"
       /\ \E spec \in it.outputs :
             LET pending == (doc[d].pending \ {a}) \cup Handling(doc[d].view, spec)
             IN  Put(d, IF pending = {} THEN Free
                        ELSE [doc[d] EXCEPT !.spec = spec, !.pending = pending])
    /\ OnlyDocuments

\* The action raises: the document goes to the failures.
Fail(d, a) ==
    /\ Held(d) /\ a \in doc[d].pending /\ doc[d].view[a] # None
    /\ Put(d, Free)
    /\ OnlyDocuments

\* Mutant: the document is only unlocked.
LeftAlone(d) == [doc[d] EXCEPT !.by = None, !.view = NoView]

Failed(d) == Free

\* "Undefined action": so does a document with an action the agent does not have.
Undefined(d, a) ==
    /\ Held(d) /\ a \in doc[d].pending /\ doc[d].view[a] = None
    /\ Put(d, Failed(d))
    /\ OnlyDocuments

-----------------------------------------------------------------------------
Ask(r) ==
    \/ run(r) \/ stop(r) \/ clean_up(r)
    \/ \E e \in Edits, ok \in BOOLEAN :
          (~ok => e[1] \in Breakable) /\ update_action_config(r, e[1], e[2], ok)
    \/ \E a \in Retirable, retire \in BOOLEAN : set_action_retired(r, a, retire)
    \/ \E val \in BOOLEAN : set_unused_output_docspec_check(r, val)
    \/ \E a \in Action : ask_for_document(r, a)

Answer(r) ==
    \/ count_documents(r) \/ Write(r) \/ Finish(r) \/ Store(r) \/ refuse(r)
    \/ \E a \in Action : trigger_collect(r, a) \/ mark_consume(r, a)

Process(d) ==
    \E a \in Action :
       Execute(d, a) \/ Publish(d, a) \/ Fail(d, a) \/ Undefined(d, a)

Next ==
    \/ \E r \in Request : Ask(r) \/ Answer(r) \/ Interrupt(r)
    \/ Count \/ CountExpires
    \/ \E a \in Breakable : ConfigurationInvalid(a)
    \/ \E l \in Launcher : refresh(l) \/ launch_agents(l)
    \/ \E l \in Launcher, a \in Action : Trigger(l, a)
    \/ \E l \in Launcher, d \in Doc : Lock(l, d)
    \/ \E d \in Doc : Process(d)

Spec == Init /\ [][Next]_vars

\* The clean-up action is triggered every minute, requests go on, the launchers
\* refresh and restart, agents take documents and their actions end.  Agents look
\* for documents all the time, the launchers refresh once a minute: a document
\* that could be taken between two refreshes again and again is taken.
FairSpec ==
    /\ Spec
    /\ SF_vars(\E r \in Request : clean_up(r))
    /\ \A r \in Request : WF_vars(Answer(r))
    /\ \A l \in Launcher : WF_vars(refresh(l) \/ launch_agents(l))
    /\ \A d \in Doc : SF_vars(\E l \in Launcher : Lock(l, d)) /\ WF_vars(Process(d))

-----------------------------------------------------------------------------
TypeOK ==
    /\ mode \in Mode /\ check \in BOOLEAN
    /\ config \in Config
    /\ request \in [Request -> RequestType]
    /\ counted \in (SUBSET Spec0) \cup {None}
    /\ launcher \in [Launcher -> [view : View, changed : BOOLEAN, up : BOOLEAN]]
    /\ doc \in [Doc -> DocType]
    /\ torn \in BOOLEAN /\ slipped \in BOOLEAN
    /\ incidents \in 0..MaxIncidents

ActiveIn(m, a) ==
    m = "running" \/ (m = "stopping" /\ config[a].shape.kind # "collect")

\* While no request runs or stops the workflow, the run mode says which actions
\* are active, whatever requests have overlapped, unless one ended half-way or
\* wrote on top of what another one with another aim, or an edit, had written
\* since it loaded, and no later one has written all actions.
ModeAgrees ==
    (\A r \in Request : request[r].aim \notin Mode) /\ ~torn =>
        \A a \in ValidActions(config) : config[a].active = ActiveIn(mode, a)

\* The docspecs can be put in an order in which every action goes forward; an
\* action that makes what it takes is not in its way.
Ordered(edges) ==
    \E order \in [Spec0 -> 1..Cardinality(Spec0)] :
        \A e \in edges : e[1] # e[2] => order[e[1]] < order[e[2]]

EdgesOf(v) ==
    {e \in Spec0 \X Spec0 :
        \E a \in Action : v[a] # None /\ e[1] = v[a].input /\ e[2] \in v[a].outputs}

\* A workflow that runs has no cycle that keeps a document in process for ever,
\* through runs and stops that overlap and end half-way, unless an edit was
\* written between the checks of a run and its last update or a run between those
\* of an edit; and no launcher and no agent ever works with such a cycle.
RunningHasNoCycle ==
    /\ mode # "stopped" /\ ~slipped => Ordered(Edges(config))
    /\ \A l \in Launcher : Ordered(EdgesOf(launcher[l].view))
    /\ \A d \in Doc : Ordered(EdgesOf(doc[d].view))

\* While a workflow runs that was checked for unused outputs, an agent whose set is
\* that of all its actions finds one for every document it creates, unless an edit
\* came between the checks of a run and its last update.
AllOutputsHandled ==
    [][\A d \in Doc :
          Orphan(d)' /\ ~Orphan(d) /\ check /\ mode = "running" /\ ~slipped =>
              \E e \in InProcess, a \in Action :
                  /\ Held(e)
                  /\ doc[e].view[a] #
                        IF config[a].retired THEN None ELSE config[a].shape]_vars

\* A stopping workflow ends up stopped, unless a document has no action to take
\* it, which is counted for ever, or requests that ended half-way or interfered
\* left a collect active.
StoppingEnds ==
    mode = "stopping" ~>
        \/ mode # "stopping"
        \/ \E d \in Doc : Orphan(d)
        \/ torn /\ CollectsOf(PointersTo(config)) # {}

\* What a stop leaves in process, because its count was old, left out a locked
\* published document, or came before a request that had loaded earlier, is not
\* left for ever: every action still pending in a stopped workflow is executed or
\* the document goes to the failures.
LeftBehindEnds ==
    \A d \in Doc : mode = "stopped" /\ doc[d].pending # {} ~>
                      mode # "stopped" \/ doc[d].pending = {}
=============================================================================
