----------------------------- MODULE Processing -----------------------------
(***************************************************************************)
(* The document pipeline of Armagh: agents take a document with pending    *)
(* work, run its actions and save it to the collection it then belongs to  *)
(* (agent/agent.rb, document/document.rb); the launcher recovers agents    *)
(* that died and restarts them when the configuration changes              *)
(* (launcher/launcher.rb); the API asks for a published document to be     *)
(* consumed again (admin/application/api.rb).                              *)
(*                                                                         *)
(* Every database operation is atomic and everything between two of them   *)
(* interleaves.  An agent locks a document for a year, so that locks do    *)
(* not expire here; module LockingCRUD has the lock's own life.  What the  *)
(* body of an action does is a nondeterministic outcome; the documents that *)
(* the body of a split edits are left out.  There is one published type.   *)
(*  Saving to a collection keeps the `_id` of a document,  *)
(* except that a publisher replaces the copy published before.             *)
(***************************************************************************)
EXTENDS Integers, Sequences, FiniteSets

CONSTANTS
    Agent,            \* agent signatures
    Api,              \* the signature of the admin API
    None,             \* no signature, no document_id
    NumAgents,        \* num_agents of the launcher
    Did,              \* document_ids
    Created,          \* those that collect actions give to what they create
    PublishId,        \* PublishId[d]: the document_id the publisher gives to d
    Consumers,        \* the consume actions of the published docspec, in order
    Stamps,           \* document_timestamps
    Seeds,            \* the documents to start with, sequences
    CollectOutcomes,  \* what the bodies of collect actions do at the end
    SplitOutcomes,    \* what the bodies of split and utility actions do
    PublishOutcomes,  \* what the bodies of publish actions do
    ConsumeOutcomes,  \* what the bodies of consume actions do
    CrashAt,          \* the places at which an agent process may be killed, and the
                      \* collections: while a document moves there
    MaxIds,           \* bound: documents created
    MaxCreates,       \* bound: documents one collect creates
    MaxCrashes,       \* bound: killed agents
    MaxRestarts,      \* bound: configuration changes
    MaxMarks          \* bound: consume requests

Action  == {"collect", "split", "utility", "publish", "consume"}
Outcome == {"ok", "raise", "notify", "abort"}
Mark    == {"delete", "publish", "history", "abort"}
Place   == {"new", "scan", "scanPub", "act", "save", "move", "ended", "dead",
            "reaped", "gone"}
Coll    == {"documents", "published", "failures", "history"}

Iid == 1..MaxIds

\* actions_names_handling_docspec, for a document that is not published: its
\* docspec is the input of one action.
ReadyActions(pending) ==
    pending # <<>> =>
        \E action \in Action \ {"consume"} : pending = <<action>>

\* `src` is the creation the content comes from, 0 for no document; `by` the
\* holder of the lock.
Doc   == [src : 0..MaxIds, did : Did \cup {None}, pub : BOOLEAN,
          pending : Seq(Action), error : BOOLEAN, ts : Stamps \cup {0},
          by : Agent \cup {Api, None}]
NoDoc == [src |-> 0, did |-> None, pub |-> FALSE, pending |-> <<>>,
          error |-> FALSE, ts |-> 0, by |-> None]

\* The document an agent works on: where it was found, its image in memory, the
\* published copy it is to replace (@published_id), its marks, @num_creates.
Job   == [coll : Coll, iid : 0..MaxIds, image : Doc, pubId : 0..MaxIds,
          marks : SUBSET Mark, creates : 0..MaxCreates]
NoJob == [coll |-> "documents", iid |-> 0, image |-> NoDoc, pubId |-> 0,
          marks |-> {}, creates |-> 0]

ASSUME ConstantsAssumption ==
    /\ Api \notin Agent /\ None \notin Agent \cup {Api} \cup Did
    /\ NumAgents \in Nat /\ MaxIds \in Nat /\ MaxCreates \in Nat
    /\ MaxCrashes \in Nat /\ MaxRestarts \in Nat /\ MaxMarks \in Nat
    /\ Created \subseteq Did
    /\ PublishId \in [Did -> Did]
    /\ Consumers \in Seq({"consume"})
    /\ Stamps \subseteq Nat
    /\ \A seed \in Seeds :
           /\ seed \in Seq(Doc) /\ Len(seed) <= MaxIds
           /\ \A i \in 1..Len(seed) :
                  /\ seed[i].src = i /\ seed[i].did \in Did /\ seed[i].by = None
                  /\ ~seed[i].pub /\ ReadyActions(seed[i].pending)
    /\ CollectOutcomes \cup SplitOutcomes \cup PublishOutcomes \cup ConsumeOutcomes
           \subseteq Outcome
    /\ CrashAt \subseteq {"act", "save", "move"} \cup Coll

VARIABLES
    store,       \* store[c][i]: the document with `_id` i in collection c
    ids,         \* `_id`s given so far
    pc,          \* where the agent with a signature is
    job,         \* what it works on
    restarting,  \* the launcher is in kill_all_agents
    marking,     \* the published document the API has locked, 0 for none
    used         \* crashes, restarts and marks so far

vars == <<store, ids, pc, job, restarting, marking, used>>

-----------------------------------------------------------------------------
Stored(c, i) == store[c][i].src # 0

\* update_pending_work: `pending_work` is there when actions are pending and the
\* document has no error.
PendingWork(doc) == doc.pending # <<>> /\ ~doc.error

\* find_one_and_update of get_one_for_processing_locked can take this one.
Ready(c, i) == Stored(c, i) /\ PendingWork(store[c][i]) /\ store[c][i].by = None

\* Mutant: the `_id` alone, without the lock.
AnyLock(a, c, i) == Stored(c, i)

\* unlocked_or_my_qualifier; the locks of this module do not expire.
UnlockedOrMine(a, c, i) == Stored(c, i) /\ store[c][i].by \in {None, a}

\* The unique indexes: document_id (of one type) in documents and in the
\* published collection; only `_id` in failures and collection_history.
Unique(c, i, did) ==
    /\ ~Stored(c, i)
    /\ c \in {"documents", "published"} =>
           \A j \in Iid : Stored(c, j) => store[c][j].did # did

\* The published copies with this document_id: one or none.
PublishedCopies(did) ==
    {i \in Iid : Stored("published", i) /\ store["published"][i].did = did}

Running(a) == pc[a] \notin {"new", "ended", "dead", "reaped", "gone"}

Init ==
    /\ \E seed \in Seeds :
          /\ store = [c \in Coll |-> [i \in Iid |->
                        IF c = "documents" /\ i <= Len(seed) THEN seed[i] ELSE NoDoc]]
          /\ ids = Len(seed)
    /\ pc = [a \in Agent |-> "new"]
    /\ job = [a \in Agent |-> NoJob]
    /\ restarting = FALSE
    /\ marking = 0
    /\ used = [crashes |-> 0, restarts |-> 0, marks |-> 0]

Put(c, i, doc) == store' = [store EXCEPT ![c][i] = doc]
Remove(c, i)   == Put(c, i, NoDoc)
Unlocked(doc)  == [doc EXCEPT !.by = None]
Goto(a, place) == pc' = [pc EXCEPT ![a] = place]

\* The agent leaves its document.
Leave(a, place) ==
    /\ Goto(a, place)
    /\ job' = [job EXCEPT ![a] = NoJob]

\* An exception that execute does not rescue ends run, and the process.
Die(a) == Leave(a, "dead") /\ UNCHANGED store

-----------------------------------------------------------------------------
(* get_one_for_processing_locked: documents first, then the published ones.  *)
(* Whichever pending document is found: the hosts' clocks order them.        *)

Lock(a, c, i) ==
    /\ Put(c, i, [store[c][i] EXCEPT !.by = a])
    /\ job' = [job EXCEPT ![a] = [NoJob EXCEPT !.coll = c, !.iid = i,
                                     !.image = [store[c][i] EXCEPT !.by = a]]]
    /\ Goto(a, "act")

Scan(a, c, otherwise) ==
    /\ IF \E i \in Iid : Ready(c, i)
       THEN \E i \in Iid : Ready(c, i) /\ Lock(a, c, i)
       ELSE Goto(a, otherwise) /\ UNCHANGED <<store, job>>
    /\ UNCHANGED <<ids, restarting, marking, used>>

ScanDocuments(a) == pc[a] = "scan" /\ ~restarting /\ Scan(a, "documents", "scanPub")
ScanPublished(a) == pc[a] = "scanPub" /\ Scan(a, "published", "scan")

\* The signal has set @shutdown: run leaves its loop.
End(a) ==
    /\ pc[a] = "scan" /\ restarting
    /\ Goto(a, "ended")
    /\ UNCHANGED <<store, ids, job, restarting, marking, used>>

-----------------------------------------------------------------------------
(* execute: one pending action after the other, until one of them leaves an *)
(* error on the document.                                                    *)

Acts(a, action) ==
    /\ pc[a] = "act"
    /\ job[a].image.pending # <<>> /\ Head(job[a].image.pending) = action

\* The loop goes on with the next action, or to save.
Continue(a, j) ==
    /\ job' = [job EXCEPT ![a] = j]
    /\ Goto(a, IF PendingWork(j.image) THEN "act" ELSE "save")

\* delete_pending_actions_if drops an action that succeeds.
Succeeded(j) == [j EXCEPT !.image.pending = Tail(@)]
Failed(j)    == [j EXCEPT !.image.error = TRUE]

\* AbortDocument: mark_abort clears the other marks; the action has succeeded,
\* unless there is an error already.
Aborted(j) ==
    LET marked == [j EXCEPT !.marks = {"abort"}]
    IN  IF j.image.error THEN marked ELSE Succeeded(marked)

\* create_document, from the body of a collect action.
CollectCreate(a, did, ts) ==
    /\ Acts(a, "collect") /\ job[a].creates < MaxCreates /\ ids < MaxIds
    /\ IF Unique("documents", ids + 1, did)
       THEN /\ Put("documents", ids + 1,
                   [src |-> ids + 1, did |-> did, pub |-> FALSE,
                    pending |-> <<"publish">>, error |-> FALSE, ts |-> ts,
                    by |-> None])
            /\ ids' = ids + 1
            /\ job' = [job EXCEPT ![a].creates = @ + 1]
            /\ UNCHANGED pc
       ELSE Continue(a, Failed(job[a])) /\ UNCHANGED <<store, ids>>
    /\ UNCHANGED <<restarting, marking, used>>

\* mark_delete or mark_collection_history, after the body has returned.
Collected(j) ==
    [j EXCEPT !.marks = @ \cup {IF j.creates = 0 THEN "delete" ELSE "history"}]

Collect(a, outcome) ==
    /\ Acts(a, "collect")
    /\ \/ outcome = "ok"     /\ Continue(a, Succeeded(Collected(job[a])))
       \/ outcome = "notify" /\ Continue(a, Failed(Collected(job[a])))
       \/ outcome = "raise"  /\ Continue(a, Failed(job[a]))
       \/ outcome = "abort"  /\ Continue(a, Aborted(job[a]))
    /\ UNCHANGED <<store, ids, restarting, marking, used>>

\* mark_delete, after the body of a split or a utility action has returned.
MarkedDelete(j) == [j EXCEPT !.marks = @ \cup {"delete"}]

\* The split and the utility branch of execute_action.
ActAndDelete(a, action, outcome) ==
    /\ Acts(a, action)
    /\ \/ outcome = "ok"     /\ Continue(a, Succeeded(MarkedDelete(job[a])))
       \/ outcome = "notify" /\ Continue(a, Failed(MarkedDelete(job[a])))
       \/ outcome = "raise"  /\ Continue(a, Failed(job[a]))
       \/ outcome = "abort"  /\ Continue(a, Aborted(job[a]))
    /\ UNCHANGED <<store, ids, restarting, marking, used>>

Split(a, outcome)   == ActAndDelete(a, "split", outcome)
Utility(a, outcome) == ActAndDelete(a, "utility", outcome)

\* Mutant: the consume actions are added as one item, add_item for add_items.
PublishBodyAddItem(j, copies) ==
    [j EXCEPT !.image.did = PublishId[@], !.image.pub = TRUE,
              !.image.pending = Append(Tail(@), Consumers),
              !.marks = @ \cup {"publish"}]

\* Mutant: @published_id is not set.
PublishBodyNoId(j, copies) ==
    [j EXCEPT !.image.did = PublishId[@], !.image.pub = TRUE,
              !.image.pending = Tail(@) \o Consumers,
              !.marks = @ \cup {"publish"}]

\* The publish branch of execute_action once the body has returned, with the
\* published copy read from the database.  notify_dev leaves an error on the
\* document and does not stop the action: the state stays as it is, so that the
\* actions appended are those of the unpublished docspec, this one again.
\* mark_publish does not raise DocumentMarkError: as the only action on its docspec
\* the publisher finds no mark.
PublishBody(j, copies) ==
    LET did   == PublishId[j.image.did]
        pubId == IF copies = {} THEN 0 ELSE CHOOSE i \in copies : TRUE
        next  == [j EXCEPT !.image.did = did]
        draft == [next EXCEPT !.image.pub = ~j.image.error, !.pubId = pubId,
                              !.marks = @ \cup {"publish"}]
    IN  IF pubId # 0 /\ store["published"][pubId].ts > j.image.ts
        THEN Aborted(next)
        ELSE IF j.image.error
        THEN [draft EXCEPT !.image.pending = Append(@, "publish")]
        ELSE [draft EXCEPT !.image.pending = Tail(@) \o Consumers]

Publish(a, outcome) ==
    /\ Acts(a, "publish")
    /\ LET copies == PublishedCopies(PublishId[job[a].image.did]) IN
       \/ outcome = "ok"     /\ Continue(a, PublishBody(job[a], copies))
       \/ outcome = "notify" /\ Continue(a, PublishBody(Failed(job[a]), copies))
       \/ outcome = "raise"  /\ Continue(a, Failed(job[a]))
       \/ outcome = "abort"  /\ Continue(a, Aborted(job[a]))
    /\ UNCHANGED <<store, ids, restarting, marking, used>>

Consume(a, outcome) ==
    /\ Acts(a, "consume")
    /\ \/ outcome = "ok" /\ Continue(a, Succeeded(job[a]))
       \/ outcome \in {"raise", "notify"} /\ Continue(a, Failed(job[a]))
       \/ outcome = "abort" /\ Continue(a, Aborted(job[a]))
    /\ UNCHANGED <<store, ids, restarting, marking, used>>

-----------------------------------------------------------------------------
(* Document#save *)

\* Mutant: the error is not looked at.
DeletesDespiteError(j) ==
    ("abort" \in j.marks /\ ~j.image.pub) \/ "delete" \in j.marks

\* Mutant: an abort deletes published documents, too.
DeletesPublished(j) ==
    ~j.image.error /\ ("abort" \in j.marks \/ "delete" \in j.marks)

\* Mutant: a document with a published copy is taken for published already.
DeletesRepublished(j) ==
    /\ ~j.image.error
    /\ \/ "abort" \in j.marks /\ ~j.image.pub
       \/ "delete" \in j.marks
       \/ "publish" \in j.marks /\ j.pubId # 0

Deletes(j) ==
    /\ ~j.image.error
    /\ ("abort" \in j.marks /\ ~j.image.pub) \/ "delete" \in j.marks

Target(j) ==
    IF j.image.error /\ ~j.image.pub THEN "failures"
    ELSE IF "publish" \in j.marks THEN "published"
    ELSE IF "history" \in j.marks THEN "history"
    ELSE IF j.image.pub THEN "published" ELSE "documents"

\* with_internal_id and replacing
Replaces(j) == "publish" \in j.marks /\ j.pubId # 0

SaveDelete(a) ==
    /\ pc[a] = "save" /\ Deletes(job[a])
    /\ IF UnlockedOrMine(a, job[a].coll, job[a].iid)
       THEN Remove(job[a].coll, job[a].iid) /\ Leave(a, "scan")
       ELSE Die(a)
    /\ UNCHANGED <<ids, restarting, marking, used>>

\* Mutant: the original is not deleted.
SavedNoDelete(a, c) == Leave(a, "scan")

\* After the document is stored in collection c: a document that came from
\* another collection is still to be deleted from there.
Saved(a, c) ==
    IF c = job[a].coll THEN Leave(a, "scan") ELSE Goto(a, "move") /\ UNCHANGED job

SaveReplace(a) ==
    /\ pc[a] = "save" /\ ~Deletes(job[a])
    /\ LET j == job[a]
           c == Target(j)
           i == IF Replaces(j) THEN j.pubId ELSE j.iid
       IN  /\ Replaces(j) \/ c = j.coll
           /\ IF UnlockedOrMine(a, c, i)
              THEN Put(c, i, Unlocked(j.image)) /\ Saved(a, c)
              ELSE Die(a)
    /\ UNCHANGED <<ids, restarting, marking, used>>

SaveInsert(a) ==
    /\ pc[a] = "save" /\ ~Deletes(job[a])
    /\ LET j == job[a]
           c == Target(j)
       IN  /\ ~Replaces(j) /\ c # j.coll
           /\ IF Unique(c, j.iid, j.image.did)
              THEN Put(c, j.iid, Unlocked(j.image)) /\ Saved(a, c)
              ELSE Die(a)
    /\ UNCHANGED <<ids, restarting, marking, used>>

\* The second operation of a save to another collection.
SaveMove(a) ==
    /\ pc[a] = "move"
    /\ IF UnlockedOrMine(a, job[a].coll, job[a].iid)
       THEN Remove(job[a].coll, job[a].iid) /\ Leave(a, "scan")
       ELSE Die(a)
    /\ UNCHANGED <<ids, restarting, marking, used>>

\* The agent process is killed.
Crash(a) ==
    /\ pc[a] \in CrashAt \/ (pc[a] = "move" /\ Target(job[a]) \in CrashAt)
    /\ used.crashes < MaxCrashes
    /\ Die(a)
    /\ used' = [used EXCEPT !.crashes = @ + 1]
    /\ UNCHANGED <<ids, restarting, marking>>

-----------------------------------------------------------------------------
(* The launcher.  A signature that holds no lock is used for the next agent. *)

\* Mutant: the locks of all agents are cleared.
UnlockAll(a, c) == store' = [store EXCEPT ![c] = [i \in Iid |-> Unlocked(@[i])]]

UnlockHeldBy(a, c) ==
    store' = [store EXCEPT ![c] = [i \in Iid |->
                IF @[i].by = a THEN Unlocked(@[i]) ELSE @[i]]]

Launch(a) ==
    /\ ~restarting /\ pc[a] = "new"
    /\ Cardinality({b \in Agent : pc[b] \notin {"new", "gone"}}) < NumAgents
    /\ Goto(a, "scan")
    /\ UNCHANGED <<store, ids, job, restarting, marking, used>>

\* Mutant: only `documents` is unlocked.
RecoverDocuments(a) ==
    /\ ~restarting /\ pc[a] = "dead"
    /\ UnlockHeldBy(a, "documents") /\ Goto(a, "new")
    /\ UNCHANGED <<ids, job, restarting, marking, used>>

\* recover_dead_agents: reap, then unlock collection by collection.
Recover(a) ==
    /\ ~restarting
    /\ \/ pc[a] = "dead" /\ UnlockHeldBy(a, "documents") /\ Goto(a, "reaped")
       \/ pc[a] = "reaped" /\ UnlockHeldBy(a, "published") /\ Goto(a, "new")
    /\ UNCHANGED <<ids, job, restarting, marking, used>>

\* refresh_config finds a change: kill_all_agents signals the agents ...
Restart ==
    /\ ~restarting /\ used.restarts < MaxRestarts
    /\ \A a \in Agent : pc[a] # "reaped"
    /\ restarting' = TRUE
    /\ used' = [used EXCEPT !.restarts = @ + 1]
    /\ UNCHANGED <<store, ids, pc, job, marking>>

\* ... and waits for them.  It unlocks nothing: the signature of an agent that
\* is dead by then is forgotten.
Reap(a) ==
    /\ restarting
    /\ \/ pc[a] = "ended" /\ Goto(a, "new")
       \/ pc[a] = "dead" /\ Goto(a, "gone")
    /\ UNCHANGED <<store, ids, job, restarting, marking, used>>

\* set_num_agents goes on to launch_agents.
Restarted ==
    /\ restarting
    /\ \A a \in Agent : pc[a] \in {"new", "gone"}
    /\ restarting' = FALSE
    /\ UNCHANGED <<store, ids, pc, job, marking, used>>

-----------------------------------------------------------------------------
(* mark_consume_id waits for the lock for as long as it takes. *)

MarkLock(i) ==
    /\ marking = 0 /\ used.marks < MaxMarks
    /\ Stored("published", i) /\ store["published"][i].by = None
    /\ Put("published", i, [store["published"][i] EXCEPT !.by = Api])
    /\ marking' = i
    /\ used' = [used EXCEPT !.marks = @ + 1]
    /\ UNCHANGED <<ids, pc, job, restarting>>

\* The document was loaded without the errors it is stored with.
MarkSave ==
    /\ marking # 0
    /\ Put("published", marking,
           [store["published"][marking] EXCEPT
              !.by = None, !.error = FALSE, !.pending = Append(@, "consume")])
    /\ marking' = 0
    /\ UNCHANGED <<ids, pc, job, restarting, used>>

-----------------------------------------------------------------------------
Act(a) ==
    \/ \E did \in Created, ts \in Stamps : CollectCreate(a, did, ts)
    \/ \E outcome \in CollectOutcomes : Collect(a, outcome)
    \/ \E outcome \in SplitOutcomes : Split(a, outcome) \/ Utility(a, outcome)
    \/ \E outcome \in PublishOutcomes : Publish(a, outcome)
    \/ \E outcome \in ConsumeOutcomes : Consume(a, outcome)

Save(a) == SaveDelete(a) \/ SaveReplace(a) \/ SaveInsert(a) \/ SaveMove(a)

AgentStep(a) == ScanDocuments(a) \/ ScanPublished(a) \/ End(a) \/ Act(a) \/ Save(a)

LauncherStep(a) == Launch(a) \/ Recover(a) \/ Reap(a)

Next ==
    \/ \E a \in Agent : AgentStep(a) \/ Crash(a) \/ LauncherStep(a)
    \/ Restart \/ Restarted
    \/ \E i \in Iid : MarkLock(i)
    \/ MarkSave

\* Processes that run go on, and the launcher's loop does; nothing makes a crash,
\* a configuration change or a consume request happen.
Fairness ==
    /\ \A a \in Agent : WF_vars(AgentStep(a)) /\ WF_vars(LauncherStep(a))
    /\ WF_vars(Restarted) /\ WF_vars(MarkSave)

Spec == Init /\ [][Next]_vars
FairSpec == Spec /\ Fairness

-----------------------------------------------------------------------------
(* Properties *)

\* The types of the state.
TypeOK ==
    /\ store \in [Coll -> [Iid -> Doc]]
    /\ ids \in 0..MaxIds
    /\ pc \in [Agent -> Place]
    /\ job \in [Agent -> Job]
    /\ restarting \in BOOLEAN
    /\ marking \in 0..MaxIds
    /\ used \in [crashes : 0..MaxCrashes, restarts : 0..MaxRestarts,
                 marks : 0..MaxMarks]

Working(a) == pc[a] \in {"act", "save", "move"}

\* The document an agent works on is locked by that agent until the agent has
\* saved it: no second agent, publisher, recovery or consume request takes it
\* over, unlocks it or deletes it in between.
WorkersHoldLocks ==
    \A a \in Agent : Working(a) =>
        /\ store[job[a].coll][job[a].iid].by = a
        /\ store[job[a].coll][job[a].iid].src = job[a].image.src

Copies(src) == {p \in Coll \X Iid : store[p[1]][p[2]].src = src}

\* A document is in one collection, except between the two operations of a save
\* that moves it, when its agent is not killed there.
OneCopy ==
    \A src \in Iid : Cardinality(Copies(src)) > 1 =>
        \E a \in Agent : pc[a] = "move" /\ job[a].image.src = src

\* The last copy of a document disappears only when an action decided that and
\* left no error on it, or when another version is published in its place, before
\* or after the document was deleted from where it came from.
NoVersionLost ==
    [][\A src \in Iid : Copies(src) # {} /\ Copies(src)' = {} =>
          \/ \E a \in Agent :
                /\ job[a].image.src = src
                /\ \/ /\ pc[a] = "save" /\ ~job[a].image.error
                      /\ job[a].marks \cap {"delete", "abort"} # {}
                   \/ /\ pc[a] = "move"
                      /\ \E did \in Did : /\ did = job[a].image.did
                                         /\ PublishedCopies(did)' # {}
          \/ \E i \in Iid :
                /\ store["published"][i].src = src
                /\ store'["published"][i].src # 0
                /\ store'["published"][i].did = store["published"][i].did]_vars

\* What was once published under a document_id stays published, in this version
\* or another, whatever publishers, consumers and crashes do.
PublishedStays ==
    [][\A did \in Did : PublishedCopies(did) # {} => PublishedCopies(did)' # {}]_vars

\* Nothing is left to do: every document has left `documents`, and no published
\* one is locked or waits for a consumer.
Settled ==
    \A i \in Iid :
        /\ ~Stored("documents", i)
        /\ ~PendingWork(store["published"][i])
        /\ store["published"][i].by = None

\* Every document is in the end published, in failures, in the history or deleted,
\* although agents die and their documents are taken up again.
EventuallySettled == <>[]Settled

\* The published version of a document never becomes older.
NoRollback ==
    [][\A i \in Iid : Stored("published", i) =>
          store'["published"][i].ts >= store["published"][i].ts]_vars

\* A document locked by an agent that died is unlocked.
DeadAgentsUnlock ==
    \A a \in Agent, i \in Iid :
        (~Running(a) /\ store["documents"][i].by = a)
            ~> store["documents"][i].by # a

\* A document that save has stored in another collection is deleted from the
\* collection it was in.
MovesEnd ==
    \A i \in Iid, c \in {"failures", "history"} :
        (Stored("documents", i) /\ Stored(c, i)) ~> ~Stored("documents", i)
=============================================================================
