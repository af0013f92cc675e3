-------------------------- MODULE Processing_proofs --------------------------
(***************************************************************************)
(* Ownership of the documents in process, for any set of agents, documents *)
(* and bounds.                                                             *)
(***************************************************************************)
EXTENDS Processing, SequenceTheorems, TLAPS

\* The facts that the proofs take from the constants.
LEMMA Constants ==
  /\ Api \notin Agent /\ None \notin Agent /\ None # Api
  /\ MaxIds \in Nat /\ MaxCreates \in Nat /\ MaxCrashes \in Nat
  /\ MaxRestarts \in Nat /\ MaxMarks \in Nat
  /\ PublishId \in [Did -> Did] /\ Created \subseteq Did /\ Stamps \subseteq Nat
  /\ Consumers \in Seq({"consume"})
  BY ConstantsAssumption DEF ConstantsAssumption

LEMMA SeedDocs ==
  ASSUME NEW seed \in Seeds
  PROVE  /\ seed \in Seq(Doc) /\ Len(seed) <= MaxIds
         /\ \A i \in 1..Len(seed) : seed[i].src = i /\ seed[i].did \in Did
  BY ConstantsAssumption DEF ConstantsAssumption

USE Constants

-----------------------------------------------------------------------------
(* The inductive invariant *)

\* A stored document has a document_id.
StoredHaveDids ==
    \A c \in Coll, i \in Iid : Stored(c, i) => store[c][i].did \in Did

\* An agent at work has a document.
WorkersHaveDocs ==
    \A a \in Agent : Working(a) =>
        job[a].iid \in Iid /\ job[a].image.src # 0 /\ job[a].image.did \in Did

\* The document of a consume request is locked by the API.
ApiHoldsLock ==
    marking # 0 => Stored("published", marking) /\ store["published"][marking].by = Api

IInv ==
    /\ TypeOK
    /\ StoredHaveDids
    /\ WorkersHaveDocs
    /\ ApiHoldsLock
    /\ WorkersHoldLocks

-----------------------------------------------------------------------------
(* Documents and jobs *)

\* Locking, unlocking or marking a document keeps its type and contents.
LEMMA DocUpdates ==
  ASSUME NEW doc \in Doc, NEW by \in Agent \cup {Api, None}
  PROVE  /\ [doc EXCEPT !.by = by] \in Doc
         /\ [doc EXCEPT !.by = by].by = by
         /\ [doc EXCEPT !.by = by].src = doc.src
         /\ Unlocked(doc) \in Doc
         /\ Unlocked(doc).src = doc.src
         /\ Unlocked(doc).by = None
  BY DEF Doc, Unlocked

LEMMA EmptyValues == NoDoc \in Doc /\ NoJob \in Job
<1>1. NoDoc \in Doc
  BY DEF NoDoc, Doc
<1> QED  BY <1>1 DEF NoJob, Job, Coll

\* A job that goes on, with the document it is about.
SameWork(j, k) ==
    /\ k \in Job /\ k.coll = j.coll /\ k.iid = j.iid
    /\ k.image.src = j.image.src
    /\ j.image.did \in Did => k.image.did \in Did

LEMMA FailedWork ==
  ASSUME NEW j \in Job
  PROVE  SameWork(j, Failed(j))
  BY DEF SameWork, Failed, Job, Doc

LEMMA SucceededWork ==
  ASSUME NEW j \in Job, j.image.pending # <<>>
  PROVE  SameWork(j, Succeeded(j))
<1>1. j.image \in Doc /\ j.image.pending \in Seq(Action)
  BY DEF Job, Doc
<1>2. Tail(j.image.pending) \in Seq(Action)
  BY <1>1
<1> QED  BY <1>1, <1>2 DEF SameWork, Succeeded, Job, Doc

LEMMA CollectedWork ==
  ASSUME NEW j \in Job
  PROVE  SameWork(j, Collected(j)) /\ Collected(j).image = j.image
<1>1. j.marks \cup {IF j.creates = 0 THEN "delete" ELSE "history"} \in SUBSET Mark
  BY DEF Job, Mark
<1> QED  BY <1>1 DEF SameWork, Collected, Job

LEMMA MarkedDeleteWork ==
  ASSUME NEW j \in Job
  PROVE  SameWork(j, MarkedDelete(j)) /\ MarkedDelete(j).image = j.image
<1>1. j.marks \cup {"delete"} \in SUBSET Mark
  BY DEF Job, Mark
<1> QED  BY <1>1 DEF SameWork, MarkedDelete, Job

LEMMA AbortedWork ==
  ASSUME NEW j \in Job, j.image.pending # <<>>
  PROVE  SameWork(j, Aborted(j))
<1> DEFINE marked == [j EXCEPT !.marks = {"abort"}]
<1>1. SameWork(j, marked) /\ marked.image = j.image
  BY DEF SameWork, Job, Mark
<1>2. SameWork(marked, Succeeded(marked))
  BY <1>1, SucceededWork DEF SameWork
<1> QED  BY <1>1, <1>2 DEF SameWork, Aborted

LEMMA PublishedWork ==
  ASSUME TypeOK, NEW j \in Job, j.image.pending # <<>>, j.image.did \in Did,
         NEW copies \in SUBSET Iid
  PROVE  SameWork(j, PublishBody(j, copies))
<1> DEFINE did   == PublishId[j.image.did]
           pubId == IF copies = {} THEN 0 ELSE CHOOSE i \in copies : TRUE
           next  == [j EXCEPT !.image.did = did]
           draft == [next EXCEPT !.image.pub = ~j.image.error, !.pubId = pubId,
                                 !.marks = @ \cup {"publish"}]
<1>1. /\ j.image \in Doc /\ j.image.pending \in Seq(Action)
      /\ j.image.error \in BOOLEAN /\ did \in Did
  BY DEF Job, Doc
<1>2. pubId \in 0..MaxIds
  <2>1. CASE copies = {}
    BY <2>1
  <2>2. CASE copies # {}
    <3>1. pubId = CHOOSE i \in copies : TRUE
      BY <2>2
    <3>2. \E i \in copies : TRUE
      BY <2>2
    <3>3. (CHOOSE i \in copies : TRUE) \in copies
      BY <3>2
    <3>4. pubId \in 1..MaxIds
      BY <3>1, <3>3 DEF Iid
    <3> HIDE DEF pubId
    <3> QED  BY <3>4
  <2> QED  BY <2>1, <2>2
<1>3. SameWork(j, next) /\ next.image.pending = j.image.pending
  BY <1>1 DEF SameWork, Job, Doc
<1>4. SameWork(next, Aborted(next))
  BY <1>3, AbortedWork DEF SameWork
<1>5. next.marks \cup {"publish"} \in SUBSET Mark
  BY <1>3 DEF SameWork, Job, Mark
<1>6. SameWork(next, draft) /\ draft.image.pending = j.image.pending
  BY <1>1, <1>2, <1>3, <1>5 DEF SameWork, Job, Doc
<1>7. /\ Append(j.image.pending, "publish") \in Seq(Action)
      /\ Tail(j.image.pending) \o Consumers \in Seq(Action)
  <2>1. "publish" \in Action /\ {"consume"} \subseteq Action
    BY DEF Action
  <2>2. Consumers \in Seq(Action) /\ Tail(j.image.pending) \in Seq(Action)
    BY <1>1, <2>1
  <2> QED  BY <1>1, <2>1, <2>2
<1>8. /\ SameWork(draft, [draft EXCEPT !.image.pending = Append(@, "publish")])
      /\ SameWork(draft, [draft EXCEPT !.image.pending = Tail(@) \o Consumers])
  BY <1>6, <1>7 DEF SameWork, Job, Doc
<1> HIDE DEF did, pubId, next, draft
<1>9. PublishBody(j, copies) \in
         {Aborted(next), [draft EXCEPT !.image.pending = Append(@, "publish")],
          [draft EXCEPT !.image.pending = Tail(@) \o Consumers]}
  BY DEF PublishBody, did, pubId, next, draft
<1> QED  BY <1>3, <1>4, <1>6, <1>8, <1>9 DEF SameWork

-----------------------------------------------------------------------------
(* Writes to the database *)

\* A write changes one document.
LEMMA PutType ==
  ASSUME TypeOK, NEW c \in Coll, NEW i \in Iid, NEW doc \in Doc, Put(c, i, doc)
  PROVE  /\ store' \in [Coll -> [Iid -> Doc]]
         /\ store'[c][i] = doc
         /\ \A d \in Coll, k \in Iid : d # c \/ k # i => store'[d][k] = store[d][k]
  BY DEF TypeOK, Put

\* The recovery of an agent changes the locks of that agent.
LEMMA UnlockType ==
  ASSUME TypeOK, NEW a \in Agent, NEW c \in Coll, UnlockHeldBy(a, c)
  PROVE  /\ store' \in [Coll -> [Iid -> Doc]]
         /\ \A d \in Coll, k \in Iid :
               store[d][k].by # a => store'[d][k] = store[d][k]
         /\ \A d \in Coll, k \in Iid :
               store'[d][k] = store[d][k] \/ store'[d][k] = Unlocked(store[d][k])
<1>1. \A i \in Iid : store[c][i] \in Doc
  BY DEF TypeOK
<1>3. \A doc \in Doc : Unlocked(doc) \in Doc
  BY DocUpdates
<1>2. store' = [store EXCEPT ![c] = [i \in Iid |->
                  IF store[c][i].by = a THEN Unlocked(store[c][i]) ELSE store[c][i]]]
  BY DEF UnlockHeldBy
<1> QED  BY <1>1, <1>2, <1>3 DEF TypeOK

\* A document that is stored.
LEMMA StoredIids ==
  ASSUME TypeOK, NEW c \in Coll, NEW i \in 0..MaxIds, Stored(c, i), i # 0
  PROVE  i \in Iid /\ store[c][i] \in Doc
  BY DEF TypeOK, Iid

-----------------------------------------------------------------------------
(* What a step leaves alone *)

\* What WorkersHaveDocs and WorkersHoldLocks say of one agent.
WorkOK(a) ==
    Working(a) =>
        /\ job[a].iid \in Iid /\ job[a].image.src # 0 /\ job[a].image.did \in Did
        /\ store[job[a].coll][job[a].iid].by = a
        /\ store[job[a].coll][job[a].iid].src = job[a].image.src

LEMMA AllWorkOK ==
  /\ IInv => \A a \in Agent : WorkOK(a)
  /\ TypeOK /\ StoredHaveDids /\ ApiHoldsLock /\ (\A a \in Agent : WorkOK(a)) => IInv
  BY DEF IInv, WorkOK, WorkersHaveDocs, WorkersHoldLocks

LEMMA NextIInv ==
  TypeOK' /\ StoredHaveDids' /\ ApiHoldsLock' /\ (\A a \in Agent : WorkOK(a)') => IInv'
  BY DEF IInv, WorkOK, WorkersHaveDocs, WorkersHoldLocks, Working

\* An agent that does nothing keeps its document if nobody writes it.
LEMMA WorkKept ==
  ASSUME NEW b \in Agent, WorkOK(b), pc'[b] = pc[b], job'[b] = job[b],
         Working(b) => store'[job[b].coll][job[b].iid] = store[job[b].coll][job[b].iid]
  PROVE  WorkOK(b)'
  BY DEF WorkOK, Working

\* A write of agent a to a document that is not there, not locked or its own
\* disturbs neither another agent nor the API.
LEMMA PutKeeps ==
  ASSUME IInv, NEW a \in Agent, NEW c \in Coll, NEW i \in Iid, NEW doc \in Doc,
         Put(c, i, doc), ~Stored(c, i) \/ store[c][i].by \in {None, a},
         doc.src = 0 \/ doc.did \in Did, marking' = marking,
         \A b \in Agent \ {a} : pc'[b] = pc[b] /\ job'[b] = job[b]
  PROVE  /\ store' \in [Coll -> [Iid -> Doc]]
         /\ store'[c][i] = doc
         /\ StoredHaveDids'
         /\ ApiHoldsLock'
         /\ \A b \in Agent \ {a} : WorkOK(b)'
<1>1. TypeOK /\ StoredHaveDids /\ ApiHoldsLock
  BY DEF IInv
<1>2. /\ store' \in [Coll -> [Iid -> Doc]]
      /\ store'[c][i] = doc
      /\ \A d \in Coll, k \in Iid : d # c \/ k # i => store'[d][k] = store[d][k]
  BY <1>1, PutType
<1>3. StoredHaveDids'
  BY <1>1, <1>2 DEF StoredHaveDids, Stored
<1>4. ApiHoldsLock'
  <2>1. SUFFICES ASSUME marking # 0 PROVE ApiHoldsLock'
    BY DEF ApiHoldsLock
  <2>2. marking \in Iid /\ "published" \in Coll
    BY <1>1, <2>1 DEF TypeOK, Iid, Coll
  <2>3. c # "published" \/ i # marking
    BY <1>1, <2>1 DEF ApiHoldsLock
  <2> QED  BY <1>1, <1>2, <2>1, <2>2, <2>3 DEF ApiHoldsLock, Stored
<1>5. ASSUME NEW b \in Agent \ {a} PROVE WorkOK(b)'
  <2>1. WorkOK(b)
    BY AllWorkOK
  <2>2. ASSUME Working(b)
        PROVE  store'[job[b].coll][job[b].iid] = store[job[b].coll][job[b].iid]
    <3>1. job[b].coll \in Coll /\ job[b].iid \in Iid
      BY <1>1, <2>1, <2>2 DEF TypeOK, Job, WorkOK
    <3>2. store[job[b].coll][job[b].iid].by = b /\ Stored(job[b].coll, job[b].iid)
      BY <2>1, <2>2 DEF WorkOK, Stored
    <3>3. job[b].coll # c \/ job[b].iid # i
      BY <3>2
    <3> QED  BY <1>2, <3>1, <3>3
  <2> QED  BY <2>1, <2>2, WorkKept
<1> QED  BY <1>2, <1>3, <1>4, <1>5

\* Without a write.
LEMMA SameStore ==
  ASSUME IInv, NEW a \in Agent, UNCHANGED <<store, marking>>,
         \A b \in Agent \ {a} : pc'[b] = pc[b] /\ job'[b] = job[b]
  PROVE  /\ StoredHaveDids'
         /\ ApiHoldsLock'
         /\ \A b \in Agent \ {a} : WorkOK(b)'
<1>1. StoredHaveDids' /\ ApiHoldsLock'
  BY DEF IInv, StoredHaveDids, ApiHoldsLock, Stored
<1>2. ASSUME NEW b \in Agent \ {a} PROVE WorkOK(b)'
  BY AllWorkOK, WorkKept
<1> QED  BY <1>1, <1>2

-----------------------------------------------------------------------------
(* Agents *)

\* An agent goes to another place, or leaves its document for it.
LEMMA GotoType ==
  ASSUME TypeOK, NEW a \in Agent, NEW place \in Place, Goto(a, place)
  PROVE  /\ pc' \in [Agent -> Place] /\ pc'[a] = place
         /\ \A b \in Agent \ {a} : pc'[b] = pc[b]
  BY DEF TypeOK, Goto

LEMMA LeaveType ==
  ASSUME TypeOK, NEW a \in Agent, NEW place \in Place, Leave(a, place)
  PROVE  /\ pc' \in [Agent -> Place] /\ pc'[a] = place
         /\ job' \in [Agent -> Job]
         /\ \A b \in Agent \ {a} : pc'[b] = pc[b] /\ job'[b] = job[b]
<1>1. Goto(a, place) /\ job' = [job EXCEPT ![a] = NoJob]
  BY DEF Leave
<1> QED  BY <1>1, GotoType, EmptyValues DEF TypeOK

\* An agent that has left works on nothing.
LEMMA IdleOK ==
  ASSUME NEW a \in Agent, pc'[a] \notin {"act", "save", "move"}
  PROVE  WorkOK(a)'
  BY DEF WorkOK, Working

\* An exception ends the agent.
LEMMA DieStep ==
  ASSUME IInv, NEW a \in Agent, Die(a), UNCHANGED <<ids, restarting, marking>>,
         used' \in [crashes : 0..MaxCrashes, restarts : 0..MaxRestarts, marks : 0..MaxMarks]
  PROVE  IInv'
<1>1. TypeOK
  BY DEF IInv
<1>2. /\ pc' \in [Agent -> Place] /\ pc'[a] = "dead" /\ job' \in [Agent -> Job]
      /\ \A b \in Agent \ {a} : pc'[b] = pc[b] /\ job'[b] = job[b]
  BY <1>1, LeaveType DEF Die, Place
<1>3. StoredHaveDids' /\ ApiHoldsLock' /\ \A b \in Agent \ {a} : WorkOK(b)'
  BY <1>2, SameStore DEF Die
<1>4. WorkOK(a)'
  BY <1>2, IdleOK
<1>5. TypeOK'
  BY <1>1, <1>2 DEF TypeOK, Die
<1> QED  BY <1>3, <1>4, <1>5, NextIInv

\* The lock of a document that is ready is taken.
LEMMA LockStep ==
  ASSUME IInv, NEW a \in Agent, NEW c \in Coll, NEW i \in Iid, Ready(c, i),
         Lock(a, c, i), UNCHANGED <<ids, restarting, marking, used>>
  PROVE  IInv'
<1> DEFINE doc == [store[c][i] EXCEPT !.by = a]
           new == [NoJob EXCEPT !.coll = c, !.iid = i, !.image = doc]
<1>1. TypeOK /\ StoredHaveDids
  BY DEF IInv
<1>2. store[c][i] \in Doc /\ doc \in Doc /\ doc.by = a /\ doc.src = store[c][i].src
  <2>1. store[c][i] \in Doc
    BY <1>1 DEF TypeOK
  <2> QED  BY <2>1, DocUpdates
<1>3. doc.did = store[c][i].did /\ doc.did \in Did /\ doc.src # 0
  BY <1>1, <1>2 DEF Ready, Stored, StoredHaveDids, Doc
<1>4. /\ new \in Job /\ new.coll = c /\ new.iid = i /\ new.image = doc
  <2>1. i \in 0..MaxIds
    BY DEF Iid
  <2>2. doc \in Doc
    BY <1>2
  <2> HIDE DEF doc
  <2> QED  BY <2>1, <2>2, EmptyValues DEF Job
<1> HIDE DEF doc, new
<1>5. Put(c, i, doc) /\ job' = [job EXCEPT ![a] = new] /\ Goto(a, "act")
  BY DEF Lock, doc, new
<1>6. /\ pc' \in [Agent -> Place] /\ pc'[a] = "act"
      /\ \A b \in Agent \ {a} : pc'[b] = pc[b]
  BY <1>1, <1>5, GotoType DEF Place
<1>7. /\ job' \in [Agent -> Job] /\ job'[a] = new
      /\ \A b \in Agent \ {a} : job'[b] = job[b]
  BY <1>1, <1>4, <1>5 DEF TypeOK
<1>8. /\ store' \in [Coll -> [Iid -> Doc]] /\ store'[c][i] = doc
      /\ StoredHaveDids' /\ ApiHoldsLock' /\ \A b \in Agent \ {a} : WorkOK(b)'
  <2>1. store[c][i].by \in {None, a}
    BY DEF Ready
  <2> QED  BY <1>2, <1>3, <1>5, <1>6, <1>7, <2>1, PutKeeps
<1>9. WorkOK(a)'
  BY <1>2, <1>3, <1>4, <1>7, <1>8 DEF WorkOK
<1>10. TypeOK'
  BY <1>1, <1>6, <1>7, <1>8 DEF TypeOK
<1> QED  BY <1>8, <1>9, <1>10, NextIInv

\* An agent that does not touch the database and goes on with the same document,
\* or with none.
LEMMA LocalStep ==
  ASSUME IInv, NEW a \in Agent, NEW place \in Place, Goto(a, place),
         NEW k \in Job, job' = [job EXCEPT ![a] = k],
         place \in {"act", "save", "move"} => Working(a) /\ SameWork(job[a], k),
         UNCHANGED <<store, ids, marking>>, restarting' \in BOOLEAN,
         used' \in [crashes : 0..MaxCrashes, restarts : 0..MaxRestarts, marks : 0..MaxMarks]
  PROVE  IInv'
<1>1. TypeOK /\ WorkOK(a)
  BY AllWorkOK DEF IInv
<1>2. /\ pc' \in [Agent -> Place] /\ pc'[a] = place
      /\ job' \in [Agent -> Job] /\ job'[a] = k
      /\ \A b \in Agent \ {a} : pc'[b] = pc[b] /\ job'[b] = job[b]
  BY <1>1, GotoType DEF TypeOK
<1>3. StoredHaveDids' /\ ApiHoldsLock' /\ \A b \in Agent \ {a} : WorkOK(b)'
  BY <1>2, SameStore
<1>4. WorkOK(a)'
  BY <1>1, <1>2 DEF WorkOK, Working, SameWork
<1>5. TypeOK'
  BY <1>1, <1>2 DEF TypeOK
<1> QED  BY <1>3, <1>4, <1>5, NextIInv

\* The loop over the pending actions.
LEMMA ContinueStep ==
  ASSUME IInv, NEW a \in Agent, pc[a] = "act", NEW k, SameWork(job[a], k),
         Continue(a, k), UNCHANGED <<store, ids, restarting, marking, used>>
  PROVE  IInv'
<1>1. /\ Goto(a, IF PendingWork(k.image) THEN "act" ELSE "save")
      /\ job' = [job EXCEPT ![a] = k]
  BY DEF Continue
<1>2. k \in Job /\ Working(a)
  BY DEF SameWork, Working
<1>3. (IF PendingWork(k.image) THEN "act" ELSE "save") \in Place
  BY DEF Place
<1> QED  BY <1>1, <1>2, <1>3, LocalStep DEF IInv, TypeOK

\* An agent without a document goes from one place to another.
LEMMA IdleStep ==
  ASSUME IInv, NEW a \in Agent, NEW place \in Place \ {"act", "save", "move"},
         Goto(a, place), UNCHANGED <<store, ids, job, marking>>, restarting' \in BOOLEAN,
         used' \in [crashes : 0..MaxCrashes, restarts : 0..MaxRestarts, marks : 0..MaxMarks]
  PROVE  IInv'
<1>1. job[a] \in Job /\ job' = [job EXCEPT ![a] = job[a]]
  BY DEF IInv, TypeOK
<1> QED  BY <1>1, LocalStep

\* The launcher and the API leave the places and the jobs of the agents.
LEMMA OthersStep ==
  ASSUME IInv, UNCHANGED <<store, ids, pc, job, marking>>, restarting' \in BOOLEAN,
         used' \in [crashes : 0..MaxCrashes, restarts : 0..MaxRestarts, marks : 0..MaxMarks]
  PROVE  IInv'
<1>1. ASSUME NEW a \in Agent PROVE WorkOK(a)'
  BY AllWorkOK, WorkKept
<1>2. StoredHaveDids' /\ ApiHoldsLock'
  BY DEF IInv, StoredHaveDids, ApiHoldsLock, Stored
<1>3. TypeOK'
  BY DEF IInv, TypeOK
<1> QED  BY <1>1, <1>2, <1>3, NextIInv

LEMMA UsedType ==
  ASSUME TypeOK
  PROVE  /\ used.crashes < MaxCrashes => [used EXCEPT !.crashes = @ + 1] \in
               [crashes : 0..MaxCrashes, restarts : 0..MaxRestarts, marks : 0..MaxMarks]
         /\ used.restarts < MaxRestarts => [used EXCEPT !.restarts = @ + 1] \in
               [crashes : 0..MaxCrashes, restarts : 0..MaxRestarts, marks : 0..MaxMarks]
         /\ used.marks < MaxMarks => [used EXCEPT !.marks = @ + 1] \in
               [crashes : 0..MaxCrashes, restarts : 0..MaxRestarts, marks : 0..MaxMarks]
<1>1. used \in [crashes : 0..MaxCrashes, restarts : 0..MaxRestarts, marks : 0..MaxMarks]
  BY DEF TypeOK
<1>2. MaxCrashes \in Nat /\ MaxRestarts \in Nat /\ MaxMarks \in Nat
  BY ConstantsAssumption
<1>3. ASSUME used.crashes < MaxCrashes
      PROVE  [used EXCEPT !.crashes = @ + 1] \in
               [crashes : 0..MaxCrashes, restarts : 0..MaxRestarts, marks : 0..MaxMarks]
  <2>1. used.crashes + 1 \in 0..MaxCrashes
    BY <1>1, <1>2, <1>3
  <2> QED  BY <1>1, <2>1
<1>4. ASSUME used.restarts < MaxRestarts
      PROVE  [used EXCEPT !.restarts = @ + 1] \in
               [crashes : 0..MaxCrashes, restarts : 0..MaxRestarts, marks : 0..MaxMarks]
  <2>1. used.restarts + 1 \in 0..MaxRestarts
    BY <1>1, <1>2, <1>4
  <2> QED  BY <1>1, <2>1
<1>5. ASSUME used.marks < MaxMarks
      PROVE  [used EXCEPT !.marks = @ + 1] \in
               [crashes : 0..MaxCrashes, restarts : 0..MaxRestarts, marks : 0..MaxMarks]
  <2>1. used.marks + 1 \in 0..MaxMarks
    BY <1>1, <1>2, <1>5
  <2> QED  BY <1>1, <2>1
<1> QED  BY <1>3, <1>4, <1>5

LEMMA ScanStep ==
  ASSUME IInv, NEW a \in Agent, ScanDocuments(a) \/ ScanPublished(a) \/ End(a)
  PROVE  IInv'
<1>1. TypeOK
  BY DEF IInv
<1>2. ASSUME NEW c \in Coll, NEW otherwise \in {"scan", "scanPub"},
             Scan(a, c, otherwise)
      PROVE  IInv'
  <2>1. CASE \E i \in Iid : Ready(c, i)
    <3>1. PICK i \in Iid : Ready(c, i) /\ Lock(a, c, i)
      BY <1>2, <2>1 DEF Scan
    <3> QED  BY <1>2, <3>1, LockStep DEF Scan
  <2>2. CASE ~\E i \in Iid : Ready(c, i)
    <3>1. Goto(a, otherwise) /\ UNCHANGED <<store, job>>
      BY <1>2, <2>2 DEF Scan
    <3>2. otherwise \in Place \ {"act", "save", "move"}
      BY DEF Place
    <3> QED  BY <1>1, <1>2, <3>1, <3>2, IdleStep DEF Scan, TypeOK
  <2> QED  BY <2>1, <2>2
<1>3. CASE ScanDocuments(a)
  BY <1>2, <1>3 DEF ScanDocuments, Coll
<1>4. CASE ScanPublished(a)
  BY <1>2, <1>4 DEF ScanPublished, Coll
<1>5. CASE End(a)
  <2>1. "ended" \in Place \ {"act", "save", "move"}
    BY DEF Place
  <2> QED  BY <1>1, <1>5, <2>1, IdleStep DEF End, TypeOK
<1> QED  BY <1>3, <1>4, <1>5

\* A document is created: nobody can be at work on it.
LEMMA CreateStep ==
  ASSUME IInv, NEW a \in Agent, NEW did \in Created, NEW ts \in Stamps,
         CollectCreate(a, did, ts)
  PROVE  IInv'
<1> DEFINE doc == [src |-> ids + 1, did |-> did, pub |-> FALSE,
                   pending |-> <<"publish">>, error |-> FALSE, ts |-> ts,
                   by |-> None]
           new == [job[a] EXCEPT !.creates = @ + 1]
<1>1. /\ TypeOK /\ WorkOK(a) /\ job[a] \in Job /\ Working(a) /\ pc[a] = "act"
      /\ job[a].creates < MaxCreates /\ ids < MaxIds
      /\ UNCHANGED <<restarting, marking, used>>
  BY AllWorkOK DEF IInv, TypeOK, CollectCreate, Acts, Working
<1>2. CASE Unique("documents", ids + 1, did)
  <2>1. /\ Put("documents", ids + 1, doc) /\ ids' = ids + 1
        /\ job' = [job EXCEPT ![a] = new] /\ pc' = pc
    BY <1>2 DEF CollectCreate
  <2>2. ids + 1 \in Iid /\ ids + 1 \in 0..MaxIds /\ ids + 1 # 0
    BY <1>1 DEF TypeOK, Iid
  <2>3. doc \in Doc /\ doc.did \in Did
    BY <2>2 DEF Doc, Action
  <2>4. /\ new \in Job /\ new.coll = job[a].coll /\ new.iid = job[a].iid
        /\ new.image = job[a].image
    <3>1. job[a] \in Job /\ job[a].creates \in 0..MaxCreates
      BY <1>1 DEF Job
    <3>2. job[a].creates + 1 \in 0..MaxCreates
      BY <1>1, <3>1
    <3>3. new = [job[a] EXCEPT !.creates = job[a].creates + 1]
      OBVIOUS
    <3> HIDE DEF new
    <3> QED  BY <3>1, <3>2, <3>3 DEF Job
  <2> HIDE DEF doc, new
  <2>5. /\ job' \in [Agent -> Job] /\ job'[a] = new
        /\ \A b \in Agent \ {a} : job'[b] = job[b]
    BY <1>1, <2>1, <2>4 DEF TypeOK
  <2>6. ~Stored("documents", ids + 1) /\ "documents" \in Coll
    BY <1>2 DEF Unique, Coll
  <2>7. /\ store' \in [Coll -> [Iid -> Doc]]
        /\ \A d \in Coll, k \in Iid :
              d # "documents" \/ k # ids + 1 => store'[d][k] = store[d][k]
    BY <1>1, <2>1, <2>2, <2>3, <2>6, PutType
  <2>8. StoredHaveDids' /\ ApiHoldsLock' /\ \A b \in Agent \ {a} : WorkOK(b)'
    BY <1>1, <2>1, <2>2, <2>3, <2>5, <2>6, PutKeeps
  <2>9. store'[job[a].coll][job[a].iid] = store[job[a].coll][job[a].iid]
    <3>1. Stored(job[a].coll, job[a].iid) /\ job[a].iid \in Iid /\ job[a].coll \in Coll
      BY <1>1 DEF WorkOK, Stored, Job
    <3> QED  BY <2>6, <2>7, <3>1
  <2>10. WorkOK(a)'
    BY <1>1, <2>1, <2>4, <2>5, <2>9 DEF WorkOK
  <2>11. TypeOK'
    BY <1>1, <2>1, <2>2, <2>5, <2>7 DEF TypeOK
  <2> QED  BY <2>8, <2>10, <2>11, NextIInv
<1>3. CASE ~Unique("documents", ids + 1, did)
  BY <1>1, <1>3, FailedWork, ContinueStep DEF CollectCreate
<1> QED  BY <1>2, <1>3

\* An action has been executed.
LEMMA ActStep ==
  ASSUME IInv, NEW a \in Agent, Act(a)
  PROVE  IInv'
<1>1. TypeOK /\ job[a] \in Job /\ WorkOK(a)
  BY AllWorkOK DEF IInv, TypeOK
<1>2. ASSUME NEW outcome \in CollectOutcomes, Collect(a, outcome) PROVE IInv'
  <2>1. /\ pc[a] = "act" /\ job[a].image.pending # <<>>
        /\ UNCHANGED <<store, ids, restarting, marking, used>>
    BY <1>2 DEF Collect, Acts
  <2>2. SameWork(job[a], Collected(job[a])) /\ Collected(job[a]).image = job[a].image
    BY <1>1, CollectedWork
  <2>3. SameWork(job[a], Succeeded(Collected(job[a])))
    BY <2>1, <2>2, SucceededWork DEF SameWork
  <2>4. SameWork(job[a], Failed(Collected(job[a])))
    BY <2>2, FailedWork DEF SameWork
  <2>5. SameWork(job[a], Failed(job[a])) /\ SameWork(job[a], Aborted(job[a]))
    BY <1>1, <2>1, FailedWork, AbortedWork
  <2> QED  BY <1>2, <2>1, <2>3, <2>4, <2>5, ContinueStep DEF Collect
<1>3. ASSUME NEW outcome \in PublishOutcomes, Publish(a, outcome) PROVE IInv'
  <2> DEFINE copies == PublishedCopies(PublishId[job[a].image.did])
  <2>1. /\ pc[a] = "act" /\ job[a].image.pending # <<>>
        /\ UNCHANGED <<store, ids, restarting, marking, used>>
    BY <1>3 DEF Publish, Acts
  <2>2. copies \in SUBSET Iid
    BY DEF PublishedCopies
  <2>3. job[a].image.did \in Did
    BY <1>1, <2>1 DEF WorkOK, Working
  <2>4. SameWork(job[a], Failed(job[a])) /\ SameWork(job[a], Aborted(job[a]))
    BY <1>1, <2>1, FailedWork, AbortedWork
  <2>5. Failed(job[a]).image.pending = job[a].image.pending
    BY <1>1 DEF Failed, Job, Doc
  <2> HIDE DEF copies
  <2>6. SameWork(job[a], PublishBody(job[a], copies))
    BY <1>1, <2>1, <2>2, <2>3, PublishedWork
  <2>7. SameWork(Failed(job[a]), PublishBody(Failed(job[a]), copies))
    BY <1>1, <2>1, <2>2, <2>3, <2>4, <2>5, PublishedWork DEF SameWork
  <2>8. SameWork(job[a], PublishBody(Failed(job[a]), copies))
    BY <2>4, <2>7 DEF SameWork
  <2>9. \/ Continue(a, PublishBody(job[a], copies))
        \/ Continue(a, PublishBody(Failed(job[a]), copies))
        \/ Continue(a, Failed(job[a]))
        \/ Continue(a, Aborted(job[a]))
    BY <1>3 DEF Publish, copies
  <2> QED  BY <2>1, <2>4, <2>6, <2>8, <2>9, ContinueStep
<1>4. ASSUME NEW outcome \in ConsumeOutcomes, Consume(a, outcome) PROVE IInv'
  <2>1. /\ pc[a] = "act" /\ job[a].image.pending # <<>>
        /\ UNCHANGED <<store, ids, restarting, marking, used>>
    BY <1>4 DEF Consume, Acts
  <2>2. /\ SameWork(job[a], Failed(job[a])) /\ SameWork(job[a], Aborted(job[a]))
        /\ SameWork(job[a], Succeeded(job[a]))
    BY <1>1, <2>1, FailedWork, AbortedWork, SucceededWork
  <2> QED  BY <1>4, <2>1, <2>2, ContinueStep DEF Consume
<1>5. ASSUME NEW outcome \in SplitOutcomes, Split(a, outcome) \/ Utility(a, outcome)
      PROVE  IInv'
  <2> DEFINE deleted == MarkedDelete(job[a])
  <2>1. PICK action \in {"split", "utility"} : ActAndDelete(a, action, outcome)
    BY <1>5 DEF Split, Utility
  <2>2. /\ pc[a] = "act" /\ job[a].image.pending # <<>>
        /\ UNCHANGED <<store, ids, restarting, marking, used>>
    BY <2>1 DEF ActAndDelete, Acts
  <2>3. SameWork(job[a], deleted) /\ deleted.image = job[a].image
    BY <1>1, MarkedDeleteWork
  <2>4. \E k \in {Succeeded(deleted), Failed(deleted), Failed(job[a]), Aborted(job[a])} :
           Continue(a, k)
    BY <2>1 DEF ActAndDelete
  <2> HIDE DEF deleted
  <2>5. SameWork(job[a], Succeeded(deleted)) /\ SameWork(job[a], Failed(deleted))
    BY <2>2, <2>3, SucceededWork, FailedWork DEF SameWork
  <2>6. SameWork(job[a], Failed(job[a])) /\ SameWork(job[a], Aborted(job[a]))
    BY <1>1, <2>2, FailedWork, AbortedWork
  <2> QED  BY <2>2, <2>4, <2>5, <2>6, ContinueStep
<1> QED  BY <1>2, <1>3, <1>4, <1>5, CreateStep DEF Act

-----------------------------------------------------------------------------
(* Saving *)

\* The document of an agent at work is the agent's own.
LEMMA OwnDocument ==
  ASSUME IInv, NEW a \in Agent, Working(a)
  PROVE  /\ TypeOK /\ job[a] \in Job /\ job[a].coll \in Coll /\ job[a].iid \in Iid
         /\ job[a].image \in Doc /\ job[a].image.did \in Did /\ job[a].image.src # 0
         /\ store[job[a].coll][job[a].iid].by = a
         /\ Stored(job[a].coll, job[a].iid)
<1>1. TypeOK /\ WorkOK(a) /\ job[a] \in Job
  BY AllWorkOK DEF IInv, TypeOK
<1> QED  BY <1>1 DEF WorkOK, Job, Stored

\* An agent deletes its document and leaves.
LEMMA RemoveStep ==
  ASSUME IInv, NEW a \in Agent, Working(a),
         Remove(job[a].coll, job[a].iid), Leave(a, "scan"),
         UNCHANGED <<ids, restarting, marking, used>>
  PROVE  IInv'
<1>1. /\ TypeOK /\ job[a].coll \in Coll /\ job[a].iid \in Iid
      /\ store[job[a].coll][job[a].iid].by = a
  BY OwnDocument
<1>2. /\ pc' \in [Agent -> Place] /\ pc'[a] = "scan" /\ job' \in [Agent -> Job]
      /\ \A b \in Agent \ {a} : pc'[b] = pc[b] /\ job'[b] = job[b]
  BY <1>1, LeaveType DEF Place
<1>3. NoDoc \in Doc /\ NoDoc.src = 0
  BY EmptyValues DEF NoDoc
<1>4. Put(job[a].coll, job[a].iid, NoDoc)
  BY DEF Remove
<1>5. /\ store' \in [Coll -> [Iid -> Doc]]
      /\ StoredHaveDids' /\ ApiHoldsLock' /\ \A b \in Agent \ {a} : WorkOK(b)'
  BY <1>1, <1>2, <1>3, <1>4, PutKeeps
<1>6. WorkOK(a)'
  BY <1>2, IdleOK
<1>7. TypeOK'
  BY <1>1, <1>2, <1>5 DEF TypeOK
<1> QED  BY <1>5, <1>6, <1>7, NextIInv

\* An agent stores its document in collection c, over nothing or over a document
\* that is not locked by another, and leaves or goes on to delete the original.
LEMMA StoreStep ==
  ASSUME IInv, NEW a \in Agent, Working(a), NEW c \in Coll, NEW i \in Iid,
         ~Stored(c, i) \/ store[c][i].by \in {None, a},
         Put(c, i, Unlocked(job[a].image)), Saved(a, c),
         UNCHANGED <<ids, restarting, marking, used>>
  PROVE  IInv'
<1>1. /\ TypeOK /\ job[a] \in Job /\ job[a].coll \in Coll /\ job[a].iid \in Iid
      /\ job[a].image \in Doc /\ job[a].image.did \in Did
  BY OwnDocument
<1>2. /\ Unlocked(job[a].image) \in Doc
      /\ Unlocked(job[a].image).did \in Did
  <2>1. Unlocked(job[a].image).did = job[a].image.did
    BY <1>1 DEF Unlocked, Doc
  <2>2. \A doc \in Doc : Unlocked(doc) \in Doc
    BY DocUpdates
  <2> QED  BY <1>1, <2>1, <2>2
<1>3. CASE c = job[a].coll
  <2>1. Leave(a, "scan")
    BY <1>3 DEF Saved
  <2>2. /\ pc' \in [Agent -> Place] /\ pc'[a] = "scan" /\ job' \in [Agent -> Job]
        /\ \A b \in Agent \ {a} : pc'[b] = pc[b] /\ job'[b] = job[b]
    BY <1>1, <2>1, LeaveType DEF Place
  <2>3. /\ store' \in [Coll -> [Iid -> Doc]]
        /\ StoredHaveDids' /\ ApiHoldsLock' /\ \A b \in Agent \ {a} : WorkOK(b)'
    BY <1>2, <2>2, PutKeeps
  <2>4. WorkOK(a)'
    BY <2>2, IdleOK
  <2>5. TypeOK'
    BY <1>1, <2>2, <2>3 DEF TypeOK
  <2> QED  BY <2>3, <2>4, <2>5, NextIInv
<1>4. CASE c # job[a].coll
  <2>1. Goto(a, "move") /\ job' = job
    BY <1>4 DEF Saved
  <2>2. /\ pc' \in [Agent -> Place] /\ pc'[a] = "move"
        /\ \A b \in Agent \ {a} : pc'[b] = pc[b] /\ job'[b] = job[b]
    BY <1>1, <2>1, GotoType DEF Place
  <2>3. /\ store' \in [Coll -> [Iid -> Doc]]
        /\ StoredHaveDids' /\ ApiHoldsLock' /\ \A b \in Agent \ {a} : WorkOK(b)'
    BY <1>2, <2>2, PutKeeps
  <2>4. store'[job[a].coll][job[a].iid] = store[job[a].coll][job[a].iid]
    BY <1>1, <1>2, <1>4, PutType
  <2>5. WorkOK(a)'
    BY <1>1, <2>1, <2>4, AllWorkOK DEF WorkOK
  <2>6. TypeOK'
    BY <1>1, <2>1, <2>2, <2>3 DEF TypeOK
  <2> QED  BY <2>3, <2>5, <2>6, NextIInv
<1> QED  BY <1>3, <1>4

LEMMA SaveStep ==
  ASSUME IInv, NEW a \in Agent, Save(a)
  PROVE  IInv'
<1> USE DEF Save
<1>1. TypeOK /\ Working(a) /\ UNCHANGED <<ids, restarting, marking, used>>
  BY DEF IInv, Working, SaveDelete, SaveReplace, SaveInsert, SaveMove
<1>2. used' \in [crashes : 0..MaxCrashes, restarts : 0..MaxRestarts, marks : 0..MaxMarks]
  BY <1>1 DEF TypeOK
<1>3. /\ job[a] \in Job /\ job[a].coll \in Coll /\ job[a].iid \in Iid
      /\ job[a].pubId \in 0..MaxIds
  BY <1>1, OwnDocument DEF Job
<1>4. Target(job[a]) \in Coll
  BY DEF Target, Coll
<1>5. CASE Die(a)
  BY <1>1, <1>2, <1>5, DieStep
<1>6. CASE ~Die(a)
  <2>1. CASE SaveDelete(a) \/ SaveMove(a)
    BY <1>1, <1>6, <2>1, RemoveStep DEF SaveDelete, SaveMove
  <2>2. CASE SaveReplace(a)
    <3> DEFINE c == Target(job[a])
               i == IF Replaces(job[a]) THEN job[a].pubId ELSE job[a].iid
    <3>1. /\ UnlockedOrMine(a, c, i)
          /\ Put(c, i, Unlocked(job[a].image)) /\ Saved(a, c)
      BY <1>6, <2>2 DEF SaveReplace
    <3>2. i \in Iid
      BY <1>3 DEF Replaces, Iid
    <3> HIDE DEF c, i
    <3>3. c \in Coll /\ store[c][i].by \in {None, a}
      BY <1>4, <3>1 DEF UnlockedOrMine, c
    <3> QED  BY <1>1, <3>1, <3>2, <3>3, StoreStep
  <2>3. CASE SaveInsert(a)
    <3>1. /\ Unique(Target(job[a]), job[a].iid, job[a].image.did)
          /\ Put(Target(job[a]), job[a].iid, Unlocked(job[a].image))
          /\ Saved(a, Target(job[a]))
      BY <1>6, <2>3 DEF SaveInsert
    <3>2. ~Stored(Target(job[a]), job[a].iid)
      BY <3>1 DEF Unique
    <3> QED  BY <1>1, <1>3, <1>4, <3>1, <3>2, StoreStep
  <2> QED  BY <2>1, <2>2, <2>3
<1> QED  BY <1>5, <1>6

-----------------------------------------------------------------------------
(* The launcher and the API *)

\* recover_dead_agents takes locks from nobody but the dead agent.
LEMMA RecoverStep ==
  ASSUME IInv, NEW a \in Agent, Recover(a)
  PROVE  IInv'
<1>1. TypeOK /\ StoredHaveDids /\ ApiHoldsLock
  BY DEF IInv
<1>2. /\ pc[a] \in {"dead", "reaped"} /\ UNCHANGED <<ids, job, restarting, marking, used>>
      /\ \E c \in Coll : UnlockHeldBy(a, c)
      /\ \E place \in {"reaped", "new"} : Goto(a, place)
  BY DEF Recover, Coll
<1>3. /\ pc' \in [Agent -> Place] /\ pc'[a] \in {"reaped", "new"}
      /\ \A b \in Agent \ {a} : pc'[b] = pc[b]
  BY <1>1, <1>2, GotoType DEF Place
<1>4. /\ store' \in [Coll -> [Iid -> Doc]]
      /\ \A d \in Coll, k \in Iid :
            store[d][k].by # a => store'[d][k] = store[d][k]
      /\ \A d \in Coll, k \in Iid :
            store'[d][k] = store[d][k] \/ store'[d][k] = Unlocked(store[d][k])
  BY <1>1, <1>2, UnlockType
<1>5. \A doc \in Doc : Unlocked(doc).src = doc.src /\ Unlocked(doc).did = doc.did
  BY DEF Unlocked, Doc
<1>6. StoredHaveDids'
  <2>1. SUFFICES ASSUME NEW c \in Coll, NEW i \in Iid, store'[c][i].src # 0
                 PROVE  store'[c][i].did \in Did
    BY DEF StoredHaveDids, Stored
  <2>2. store[c][i] \in Doc
    BY <1>1 DEF TypeOK
  <2>3. store'[c][i].src = store[c][i].src /\ store'[c][i].did = store[c][i].did
    BY <1>4, <1>5, <2>2
  <2> QED  BY <1>1, <2>1, <2>3 DEF StoredHaveDids, Stored
<1>7. ApiHoldsLock'
  <2>1. "published" \in Coll /\ (marking # 0 => marking \in Iid)
    BY <1>1 DEF Coll, TypeOK, Iid
  <2> QED  BY <1>1, <1>2, <1>4, <2>1 DEF ApiHoldsLock, Stored
<1>8. ASSUME NEW b \in Agent \ {a} PROVE WorkOK(b)'
  <2>1. WorkOK(b) /\ pc'[b] = pc[b] /\ job'[b] = job[b]
    BY <1>2, <1>3, AllWorkOK
  <2>2. ASSUME Working(b)
        PROVE  store'[job[b].coll][job[b].iid] = store[job[b].coll][job[b].iid]
    BY <1>4, <2>2, OwnDocument
  <2> QED  BY <2>1, <2>2, WorkKept
<1>9. WorkOK(a)'
  BY <1>3, IdleOK
<1>10. TypeOK'
  BY <1>1, <1>2, <1>3, <1>4 DEF TypeOK
<1> QED  BY <1>6, <1>7, <1>8, <1>9, <1>10, NextIInv

LEMMA LauncherLemma ==
  ASSUME IInv, NEW a \in Agent, LauncherStep(a)
  PROVE  IInv'
<1>1. /\ "scan" \in Place \ {"act", "save", "move"}
      /\ "new" \in Place \ {"act", "save", "move"}
      /\ "gone" \in Place \ {"act", "save", "move"}
  BY DEF Place
<1>2. TypeOK
  BY DEF IInv
<1>3. CASE Launch(a)
  BY <1>1, <1>2, <1>3, IdleStep DEF Launch, TypeOK
<1>4. CASE Reap(a)
  BY <1>1, <1>2, <1>4, IdleStep DEF Reap, TypeOK
<1> QED  BY <1>3, <1>4, RecoverStep DEF LauncherStep

\* The API writes no document that an agent works on.
LEMMA ApiPut ==
  ASSUME IInv, NEW i \in Iid, NEW doc \in Doc, Put("published", i, doc),
         store["published"][i].by \in {None, Api}, doc.did \in Did,
         UNCHANGED <<pc, job>>
  PROVE  /\ store' \in [Coll -> [Iid -> Doc]] /\ store'["published"][i] = doc
         /\ StoredHaveDids'
         /\ \A b \in Agent : WorkOK(b)'
<1>1. TypeOK /\ StoredHaveDids /\ "published" \in Coll
  BY DEF IInv, Coll
<1>2. /\ store' \in [Coll -> [Iid -> Doc]] /\ store'["published"][i] = doc
      /\ \A d \in Coll, k \in Iid :
            d # "published" \/ k # i => store'[d][k] = store[d][k]
  BY <1>1, PutType
<1>3. StoredHaveDids'
  BY <1>1, <1>2 DEF StoredHaveDids, Stored
<1>4. ASSUME NEW b \in Agent PROVE WorkOK(b)'
  <2>1. ASSUME Working(b)
        PROVE  store'[job[b].coll][job[b].iid] = store[job[b].coll][job[b].iid]
    <3>1. /\ job[b].coll \in Coll /\ job[b].iid \in Iid
          /\ store[job[b].coll][job[b].iid].by = b
      BY <2>1, OwnDocument
    <3> QED  BY <1>2, <3>1
  <2>2. WorkOK(b) /\ pc'[b] = pc[b] /\ job'[b] = job[b]
    BY AllWorkOK
  <2> QED  BY <2>1, <2>2, WorkKept
<1> QED  BY <1>2, <1>3, <1>4

LEMMA MarkLockStep ==
  ASSUME IInv, NEW i \in Iid, MarkLock(i)
  PROVE  IInv'
<1> DEFINE doc == [store["published"][i] EXCEPT !.by = Api]
<1>1. TypeOK /\ StoredHaveDids /\ "published" \in Coll
  BY DEF IInv, Coll
<1>2. store["published"][i] \in Doc /\ store["published"][i].did \in Did
  BY <1>1 DEF TypeOK, StoredHaveDids, MarkLock
<1>3. /\ doc \in Doc /\ doc.by = Api /\ doc.src = store["published"][i].src
      /\ doc.did = store["published"][i].did
  <2>1. Api \in Agent \cup {Api, None}
    OBVIOUS
  <2>2. doc.did = store["published"][i].did
    BY <1>2 DEF Doc
  <2> QED  BY <1>2, <2>1, <2>2, DocUpdates
<1> HIDE DEF doc
<1>4. /\ Put("published", i, doc) /\ marking' = i /\ Stored("published", i)
      /\ store["published"][i].by = None /\ UNCHANGED <<ids, pc, job, restarting>>
      /\ used' = [used EXCEPT !.marks = @ + 1] /\ used.marks < MaxMarks
  BY DEF MarkLock, doc
<1>5. /\ store' \in [Coll -> [Iid -> Doc]] /\ store'["published"][i] = doc
      /\ StoredHaveDids' /\ \A b \in Agent : WorkOK(b)'
  BY <1>2, <1>3, <1>4, ApiPut
<1>6. ApiHoldsLock'
  BY <1>3, <1>4, <1>5 DEF ApiHoldsLock, Stored
<1>7. used' \in [crashes : 0..MaxCrashes, restarts : 0..MaxRestarts, marks : 0..MaxMarks]
  BY <1>1, <1>4, UsedType
<1>8. TypeOK'
  BY <1>1, <1>4, <1>5, <1>7 DEF TypeOK, Iid
<1> QED  BY <1>5, <1>6, <1>8, NextIInv

LEMMA MarkSaveStep ==
  ASSUME IInv, MarkSave
  PROVE  IInv'
<1> DEFINE old == store["published"][marking]
           doc == [old EXCEPT !.by = None, !.error = FALSE,
                              !.pending = Append(@, "consume")]
<1>1. TypeOK /\ StoredHaveDids /\ ApiHoldsLock /\ "published" \in Coll
  BY DEF IInv, Coll
<1>2. marking \in Iid /\ old \in Doc /\ old.did \in Did /\ old.by = Api
  BY <1>1 DEF TypeOK, StoredHaveDids, ApiHoldsLock, MarkSave, Iid
<1>3. doc \in Doc /\ doc.did = old.did
  <2>1. Append(old.pending, "consume") \in Seq(Action)
    BY <1>2 DEF Doc, Action
  <2> HIDE DEF old
  <2> QED  BY <1>2, <2>1 DEF Doc
<1>4. /\ Put("published", marking, doc) /\ marking' = 0
      /\ UNCHANGED <<ids, pc, job, restarting, used>>
  BY DEF MarkSave
<1> HIDE DEF doc
<1>5. /\ store' \in [Coll -> [Iid -> Doc]] /\ StoredHaveDids'
      /\ \A b \in Agent : WorkOK(b)'
  BY <1>2, <1>3, <1>4, ApiPut
<1>6. ApiHoldsLock'
  BY <1>4 DEF ApiHoldsLock
<1>7. TypeOK'
  BY <1>1, <1>4, <1>5 DEF TypeOK
<1> QED  BY <1>5, <1>6, <1>7, NextIInv

-----------------------------------------------------------------------------
(* Theorems *)

LEMMA InitIInv == Init => IInv
<1> SUFFICES ASSUME Init PROVE IInv
  OBVIOUS
<1>a. PICK seed \in Seeds :
        /\ store = [c \in Coll |-> [i \in Iid |->
                      IF c = "documents" /\ i <= Len(seed) THEN seed[i] ELSE NoDoc]]
        /\ ids = Len(seed)
  BY DEF Init
<1>1. \A i \in 1..Len(seed) : seed[i] \in Doc
  BY SeedDocs
<1>2. Len(seed) \in 0..MaxIds
  BY LenProperties, SeedDocs
<1>3. TypeOK
  <2>1. store \in [Coll -> [Iid -> Doc]]
    <3>1. \A c \in Coll, i \in Iid :
            (IF c = "documents" /\ i <= Len(seed) THEN seed[i] ELSE NoDoc) \in Doc
      BY <1>1, <1>2, EmptyValues DEF Iid
    <3> QED  BY <1>a, <3>1
  <2>2. pc \in [Agent -> Place] /\ job \in [Agent -> Job]
    BY EmptyValues DEF Init, Place
  <2>3. used \in [crashes : 0..MaxCrashes, restarts : 0..MaxRestarts, marks : 0..MaxMarks]
    BY DEF Init
  <2>4. ids = Len(seed) /\ marking = 0
    BY <1>a DEF Init
  <2>5. ids \in 0..MaxIds /\ marking \in 0..MaxIds
    BY <1>2, <2>4
  <2>6. restarting \in BOOLEAN
    BY DEF Init
  <2> QED  BY <2>1, <2>2, <2>3, <2>5, <2>6 DEF TypeOK
<1>4. StoredHaveDids
  BY <1>a, <1>2, SeedDocs DEF StoredHaveDids, Stored, NoDoc, Iid
<1> QED  BY <1>3, <1>4 DEF Init, IInv, WorkersHaveDocs, WorkersHoldLocks, Working,
                          ApiHoldsLock

LEMMA NextKeepsIInv == IInv /\ [Next]_vars => IInv'
<1> SUFFICES ASSUME IInv, [Next]_vars PROVE IInv'
  OBVIOUS
<1>1. TypeOK
  BY DEF IInv
<1>2. ASSUME NEW a \in Agent, AgentStep(a) PROVE IInv'
  BY <1>2, ScanStep, ActStep, SaveStep DEF AgentStep
<1>3. ASSUME NEW a \in Agent, Crash(a) PROVE IInv'
  BY <1>1, <1>3, UsedType, DieStep DEF Crash
<1>4. ASSUME NEW a \in Agent, LauncherStep(a) PROVE IInv'
  BY <1>4, LauncherLemma
<1>5. CASE Restart
  BY <1>1, <1>5, UsedType, OthersStep DEF Restart
<1>6. CASE Restarted
  BY <1>1, <1>6, OthersStep DEF Restarted, TypeOK
<1>7. ASSUME NEW i \in Iid, MarkLock(i) PROVE IInv'
  BY <1>7, MarkLockStep
<1>8. CASE MarkSave
  BY <1>8, MarkSaveStep
<1>9. CASE UNCHANGED vars
  BY <1>1, <1>9, OthersStep DEF vars, TypeOK
<1> QED  BY <1>2, <1>3, <1>4, <1>5, <1>6, <1>7, <1>8, <1>9 DEF Next

\* The inductive invariant holds in every reachable state.
THEOREM InductiveInvariant == Spec => []IInv
  BY InitIInv, NextKeepsIInv, PTL DEF Spec

\* Type correctness of the pipeline.
THEOREM TypeCorrect == Spec => []TypeOK
<1>1. IInv => TypeOK
  BY DEF IInv
<1> QED  BY <1>1, InductiveInvariant, PTL

\* Whatever agents, publishers, recoveries, restarts and consume requests do, the
\* document that an agent works on stays locked by it, with the contents it read.
THEOREM WorkersAlwaysHoldLocks == Spec => []WorkersHoldLocks
<1>1. IInv => WorkersHoldLocks
  BY DEF IInv
<1> QED  BY <1>1, InductiveInvariant, PTL

=============================================================================
