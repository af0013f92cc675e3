-------------------------- MODULE Processing_copies --------------------------
(***************************************************************************)
(* The copies of a document while it moves between the collections, for    *)
(* any set of agents, documents and bounds: what is published stays, a     *)
(* document is in one place, no version is lost.                           *)
(***************************************************************************)
EXTENDS Processing_proofs, FiniteSetTheorems

USE Constants

-----------------------------------------------------------------------------
(* The inductive invariant *)

\* What kind of document doc, with `_id` i, may be in collection c, after n
\* documents have been created.
DocShape(c, i, doc, n) ==
    doc.src # 0 =>
        /\ i <= n /\ doc.src <= n
        /\ c = "documents" => doc.src = i /\ ~doc.pub /\ ReadyActions(doc.pending)
        /\ c = "published" => doc.pub /\ doc.pending \in Seq({"consume"})

DocsOK == \A c \in Coll, i \in Iid : DocShape(c, i, store[c][i], ids)

\* A published document is only consumed, and a document without an error that
\* no publisher has had yet is not to replace any.
JobShape(j) ==
    /\ j.coll \in {"documents", "published"}
    /\ j.coll = "published" => j.image.pub /\ j.marks \subseteq {"abort"} /\ j.pubId = 0
    /\ j.image.pub => j.image.pending \in Seq({"consume"})
    /\ ~j.image.pub /\ ~j.image.error =>
           ReadyActions(j.image.pending) /\ "publish" \notin j.marks /\ j.pubId = 0

\* The published document with `_id` i has document_id did.
PublishedAs(i, did) == Stored("published", i) /\ store["published"][i].did = did

\* An agent knows under which document_id its document is published, and that the
\* copy it is to replace has the document_id of the new version.
JobOK(a) ==
    Working(a) =>
        /\ JobShape(job[a])
        /\ pc[a] = "act" => ~job[a].image.error
        /\ pc[a] = "move" => job[a].coll = "documents"
        /\ job[a].coll = "published" => PublishedAs(job[a].iid, job[a].image.did)
        /\ job[a].pubId # 0 => job[a].pubId \in Iid /\ PublishedAs(job[a].pubId, job[a].image.did)

JobsOK == \A a \in Agent : JobOK(a)

PInv == IInv /\ DocsOK /\ JobsOK

-----------------------------------------------------------------------------
(* Pending actions *)

\* What is left of the actions of a document that is not published.
LEMMA ReadyTail ==
  ASSUME NEW p \in Seq(Action), p # <<>>, ReadyActions(p)
  PROVE  /\ ReadyActions(Tail(p)) /\ Tail(p) = <<>>
         /\ Head(p) # "consume"
<1>1. PICK action \in Action \ {"consume"} : p = <<action>>
  BY DEF ReadyActions
<1>2. Head(p) = action /\ Tail(p) = <<>>
  BY <1>1
<1> QED  BY <1>2 DEF ReadyActions

\* What is left of the consume actions.
LEMMA ConsumeTail ==
  ASSUME NEW p \in Seq({"consume"}), p # <<>>
  PROVE  Head(p) = "consume" /\ Tail(p) \in Seq({"consume"})
  OBVIOUS

\* The actions of a job and its document.
LEMMA JobTypes ==
  ASSUME NEW j \in Job
  PROVE  /\ j.image \in Doc /\ j.image.pending \in Seq(Action)
         /\ j.image.error \in BOOLEAN /\ j.image.pub \in BOOLEAN
         /\ j.marks \in SUBSET Mark /\ j.pubId \in 0..MaxIds
  BY DEF Job, Doc

-----------------------------------------------------------------------------
(* What the actions make of a job *)

\* A job that is about the same document, with the same document_id and the same
\* document to replace.
SameTarget(j, k) ==
    /\ k.coll = j.coll /\ k.iid = j.iid /\ k.pubId = j.pubId
    /\ k.image.did = j.image.did

\* A failed action leaves an error and nothing else.
LEMMA FailedShape ==
  ASSUME NEW j \in Job, JobShape(j)
  PROVE  JobShape(Failed(j)) /\ SameTarget(j, Failed(j))
<1>1. /\ Failed(j).coll = j.coll /\ Failed(j).iid = j.iid
      /\ Failed(j).pubId = j.pubId /\ Failed(j).marks = j.marks
      /\ Failed(j).image.did = j.image.did /\ Failed(j).image.pub = j.image.pub
      /\ Failed(j).image.pending = j.image.pending /\ Failed(j).image.error = TRUE
  BY DEF Failed, Job, Doc
<1> QED  BY <1>1 DEF JobShape, SameTarget

\* An action that succeeds is not pending any more.
LEMMA SucceededShape ==
  ASSUME NEW j \in Job, JobShape(j), j.image.pending # <<>>
  PROVE  JobShape(Succeeded(j)) /\ SameTarget(j, Succeeded(j))
<1> DEFINE p == j.image.pending
<1>1. /\ Succeeded(j).coll = j.coll /\ Succeeded(j).iid = j.iid
      /\ Succeeded(j).pubId = j.pubId /\ Succeeded(j).marks = j.marks
      /\ Succeeded(j).image.did = j.image.did /\ Succeeded(j).image.pub = j.image.pub
      /\ Succeeded(j).image.pending = Tail(p)
      /\ Succeeded(j).image.error = j.image.error
  BY DEF Succeeded, Job, Doc
<1>2. p \in Seq(Action)
  BY JobTypes
<1>3. ReadyActions(p) => ReadyActions(Tail(p))
  BY <1>2, ReadyTail
<1>4. p \in Seq({"consume"}) => Tail(p) \in Seq({"consume"})
  BY ConsumeTail
<1> QED  BY <1>1, <1>3, <1>4 DEF JobShape, SameTarget

\* An aborted job has the mark abort and no other.
LEMMA AbortedShape ==
  ASSUME NEW j \in Job, JobShape(j), j.image.pending # <<>>
  PROVE  JobShape(Aborted(j)) /\ SameTarget(j, Aborted(j))
<1> DEFINE marked == [j EXCEPT !.marks = {"abort"}]
<1>1. /\ marked \in Job /\ marked.coll = j.coll /\ marked.iid = j.iid
      /\ marked.pubId = j.pubId /\ marked.image = j.image /\ marked.marks = {"abort"}
  BY DEF Job, Mark
<1> HIDE DEF marked
<1>2. JobShape(marked) /\ SameTarget(j, marked)
  BY <1>1 DEF JobShape, SameTarget
<1>3. JobShape(Succeeded(marked)) /\ SameTarget(marked, Succeeded(marked))
  BY <1>1, <1>2, SucceededShape
<1>4. Aborted(j) = IF j.image.error THEN marked ELSE Succeeded(marked)
  BY DEF Aborted, marked
<1> QED  BY <1>2, <1>3, <1>4 DEF SameTarget

\* Only consume actions are pending on documents that are published.
LEMMA NotPublishedYet ==
  ASSUME NEW j \in Job, JobShape(j), j.image.pending # <<>>,
         Head(j.image.pending) # "consume"
  PROVE  ~j.image.pub
  BY ConsumeTail DEF JobShape

\* The marks of a collect, a split or a utility action.
LEMMA MarkedShape ==
  ASSUME NEW j \in Job, JobShape(j), ~j.image.pub,
         NEW k, k = Collected(j) \/ k = MarkedDelete(j)
  PROVE  JobShape(k) /\ SameTarget(j, k)
<1>1. /\ k.coll = j.coll /\ k.iid = j.iid /\ k.pubId = j.pubId /\ k.image = j.image
      /\ \E m \in {"delete", "history"} : k.marks = j.marks \cup {m}
  BY DEF Collected, MarkedDelete, Job
<1> QED  BY <1>1 DEF JobShape, SameTarget

\* What a publisher makes of a document: it is to replace the copy published
\* under its document_id, or it is aborted, or its error sends it to failures.
LEMMA PublishShape ==
  ASSUME TypeOK, NEW j \in Job, JobShape(j), ~j.image.pub, j.pubId = 0,
         "publish" \notin j.marks, j.image.did \in Did, j.image.pending # <<>>,
         ReadyActions(j.image.pending), Head(j.image.pending) = "publish",
         NEW k, k = PublishBody(j, PublishedCopies(PublishId[j.image.did]))
  PROVE  /\ JobShape(k) /\ k.coll = "documents" /\ k.iid = j.iid
         /\ k.pubId # 0 => k.pubId \in Iid /\ PublishedAs(k.pubId, k.image.did)
<1> DEFINE did    == PublishId[j.image.did]
           copies == PublishedCopies(did)
           pubId  == IF copies = {} THEN 0 ELSE CHOOSE i \in copies : TRUE
           next   == [j EXCEPT !.image.did = did]
           draft  == [next EXCEPT !.image.pub = ~j.image.error, !.pubId = pubId,
                                  !.marks = @ \cup {"publish"}]
           kept   == [draft EXCEPT !.image.pending = Append(@, "publish")]
           done   == [draft EXCEPT !.image.pending = Tail(@) \o Consumers]
           p      == j.image.pending
<1>1. /\ j.image \in Doc /\ p \in Seq(Action) /\ j.marks \in SUBSET Mark
      /\ j.image.error \in BOOLEAN /\ did \in Did /\ j.coll = "documents"
  BY JobTypes DEF JobShape
<1>2. pubId # 0 => pubId \in Iid /\ PublishedAs(pubId, did)
  <2>1. CASE copies = {}
    BY <2>1
  <2>2. CASE copies # {}
    <3>1. (CHOOSE i \in copies : TRUE) \in copies
      BY <2>2
    <3>2. pubId \in copies
      BY <2>2, <3>1
    <3> HIDE DEF pubId
    <3> QED  BY <3>2 DEF PublishedCopies, PublishedAs
  <2> QED  BY <2>1, <2>2
<1>3. Tail(p) = <<>>
  BY <1>1, ReadyTail
<1>4. Tail(p) \o Consumers = Consumers
  BY <1>3, ConcatEmptySeq
<1> HIDE DEF pubId, copies, did
<1>5. /\ next \in Job /\ next.coll = j.coll /\ next.iid = j.iid /\ next.pubId = j.pubId
      /\ next.marks = j.marks /\ next.image.did = did /\ next.image.pub = j.image.pub
      /\ next.image.pending = p /\ next.image.error = j.image.error
  BY <1>1 DEF Job, Doc
<1>6. /\ done.coll = j.coll /\ done.iid = j.iid /\ done.pubId = pubId
      /\ done.image.did = did /\ done.image.pub = ~j.image.error
      /\ done.image.pending = Tail(p) \o Consumers
  BY <1>1 DEF Job, Doc
<1>7. /\ kept.coll = j.coll /\ kept.iid = j.iid /\ kept.pubId = pubId
      /\ kept.image.did = did /\ kept.image.pub = ~j.image.error
      /\ kept.image.error = j.image.error
  BY <1>1 DEF Job, Doc
<1>8. \/ k = Aborted(next)
      \/ k = kept /\ j.image.error
      \/ k = done /\ ~j.image.error
  BY DEF PublishBody, did, copies, pubId
<1> HIDE DEF next, draft, kept, done
<1>9. CASE k = Aborted(next)
  <2>1. JobShape(next)
    BY <1>5 DEF JobShape
  <2>2. JobShape(k) /\ SameTarget(next, k)
    BY <1>5, <1>9, <2>1, AbortedShape
  <2> QED  BY <1>1, <1>5, <2>2 DEF SameTarget
<1>10. CASE k = kept /\ j.image.error
  BY <1>1, <1>2, <1>7, <1>10 DEF JobShape
<1>11. CASE k = done /\ ~j.image.error
  BY <1>1, <1>2, <1>4, <1>6, <1>11 DEF JobShape
<1> QED  BY <1>8, <1>9, <1>10, <1>11

\* Where a job is saved to.
LEMMA TargetCases ==
  ASSUME NEW j \in Job, JobShape(j)
  PROVE  /\ Target(j) \in Coll
         /\ Target(j) = "published" => j.image.pub
         /\ Target(j) = "documents" => ~j.image.pub /\ ~j.image.error
         /\ j.coll = "published" => Target(j) = "published"
         /\ Replaces(j) => j.coll = "documents" /\ Target(j) \in {"failures", "published"}
         /\ Deletes(j) => j.coll = "documents"
<1>1. j.image.pub \in BOOLEAN /\ j.image.error \in BOOLEAN
  BY JobTypes
<1>2. "publish" \in j.marks => j.image.pub \/ j.image.error
  BY <1>1 DEF JobShape
<1>3. /\ j.coll \in {"documents", "published"}
      /\ j.coll = "published" => j.image.pub /\ j.marks \subseteq {"abort"}
  BY DEF JobShape
<1>4. Deletes(j) => j.coll = "documents"
  BY <1>3 DEF Deletes
<1>5. Replaces(j) => j.coll = "documents" /\ Target(j) \in {"failures", "published"}
  BY <1>3 DEF Replaces, Target
<1>6. j.coll = "published" => Target(j) = "published"
  BY <1>3 DEF Target
<1>7. Target(j) = "published" => j.image.pub
  BY <1>1, <1>2 DEF Target
<1>8. Target(j) = "documents" => ~j.image.pub /\ ~j.image.error
  BY <1>1 DEF Target
<1>9. Target(j) \in Coll
  BY DEF Target, Coll
<1> QED  BY <1>4, <1>5, <1>6, <1>7, <1>8, <1>9

-----------------------------------------------------------------------------
(* What a step makes of the stored documents *)

\* What is published under a document_id stays so, in its place.
PublishedKept ==
    \A i \in Iid : Stored("published", i) =>
        /\ store'["published"][i].src # 0
        /\ store'["published"][i].did = store["published"][i].did

\* A write of one document.
LEMMA PutShape ==
  ASSUME TypeOK, DocsOK, ids' \in {ids, ids + 1}, NEW c \in Coll, NEW i \in Iid,
         NEW doc \in Doc, Put(c, i, doc), DocShape(c, i, doc, ids'),
         c = "published" /\ Stored(c, i) => doc.src # 0 /\ doc.did = store[c][i].did
  PROVE  DocsOK' /\ PublishedKept
<1>1. /\ store'[c][i] = doc
      /\ \A d \in Coll, k \in Iid : d # c \/ k # i => store'[d][k] = store[d][k]
  BY PutType
<1>2. DocsOK'
  <2>1. SUFFICES ASSUME NEW d \in Coll, NEW k \in Iid
                 PROVE  DocShape(d, k, store'[d][k], ids')
    BY DEF DocsOK
  <2>2. CASE d = c /\ k = i
    BY <1>1, <2>2
  <2>3. CASE d # c \/ k # i
    <3>1. store'[d][k] = store[d][k] /\ DocShape(d, k, store[d][k], ids)
      BY <1>1, <2>3 DEF DocsOK
    <3>2. ids \in Nat /\ k \in Nat /\ store[d][k].src \in Nat
      <4>1. store[d][k] \in Doc
        BY DEF TypeOK
      <4> QED  BY <4>1 DEF TypeOK, Iid, Doc
    <3> QED  BY <3>1, <3>2 DEF DocShape
  <2> QED  BY <2>2, <2>3
<1>3. PublishedKept
  BY <1>1 DEF PublishedKept, Stored, Coll
<1> QED  BY <1>2, <1>3

\* Steps that change locks alone.
LEMMA LocksShape ==
  ASSUME DocsOK, ids' = ids,
         \A c \in Coll, i \in Iid :
            /\ store'[c][i].src = store[c][i].src /\ store'[c][i].did = store[c][i].did
            /\ store'[c][i].pub = store[c][i].pub
            /\ store'[c][i].pending = store[c][i].pending
  PROVE  DocsOK' /\ PublishedKept
<1>1. DocsOK'
  BY DEF DocsOK, DocShape
<1>2. PublishedKept
  BY DEF PublishedKept, Stored, Coll
<1> QED  BY <1>1, <1>2

-----------------------------------------------------------------------------
(* What a step makes of the jobs *)

\* The document of an agent at work, and what is known of it.
LEMMA OwnShape ==
  ASSUME PInv, NEW a \in Agent, Working(a)
  PROVE  /\ TypeOK /\ job[a] \in Job /\ JobShape(job[a]) /\ JobOK(a)
         /\ job[a].coll \in Coll /\ job[a].iid \in Iid
         /\ job[a].image \in Doc /\ job[a].image.did \in Did
         /\ job[a].image.src # 0 /\ job[a].image.src <= ids /\ job[a].iid <= ids
         /\ job[a].coll = "documents" => job[a].image.src = job[a].iid
         /\ store[job[a].coll][job[a].iid].src = job[a].image.src
         /\ store[job[a].coll][job[a].iid].by = a
         /\ Stored(job[a].coll, job[a].iid)
<1>1. IInv /\ DocsOK /\ JobOK(a)
  BY DEF PInv, JobsOK
<1>2. WorkOK(a)
  BY <1>1, AllWorkOK
<1>3. /\ TypeOK /\ job[a] \in Job /\ job[a].coll \in Coll /\ job[a].iid \in Iid
      /\ job[a].image \in Doc /\ job[a].image.did \in Did /\ job[a].image.src # 0
      /\ store[job[a].coll][job[a].iid].by = a
      /\ Stored(job[a].coll, job[a].iid)
  BY <1>1, OwnDocument
<1>4. store[job[a].coll][job[a].iid].src = job[a].image.src
  BY <1>2 DEF WorkOK
<1>5. DocShape(job[a].coll, job[a].iid, store[job[a].coll][job[a].iid], ids)
  BY <1>1, <1>3 DEF DocsOK
<1>6. /\ job[a].image.src <= ids /\ job[a].iid <= ids
      /\ job[a].coll = "documents" => job[a].image.src = job[a].iid
  BY <1>3, <1>4, <1>5 DEF DocShape
<1> QED  BY <1>1, <1>3, <1>4, <1>6 DEF JobOK

\* An agent that does nothing.
LEMMA OtherJob ==
  ASSUME PInv, PublishedKept, NEW b \in Agent, pc'[b] = pc[b], job'[b] = job[b]
  PROVE  JobOK(b)'
<1> SUFFICES ASSUME Working(b) PROVE JobOK(b)'
  BY DEF JobOK, Working
<1>1. JobOK(b) /\ job[b].image.did \in Did /\ job[b].iid \in Iid
  BY OwnShape
<1> DEFINE j == job[b]
<1>2. j.coll = "published" => PublishedAs(j.iid, j.image.did)'
  BY <1>1 DEF JobOK, PublishedKept, PublishedAs, Stored
<1>3. j.pubId # 0 => j.pubId \in Iid /\ PublishedAs(j.pubId, j.image.did)'
  BY <1>1 DEF JobOK, PublishedKept, PublishedAs, Stored
<1> QED  BY <1>1, <1>2, <1>3 DEF JobOK, PublishedAs

LEMMA OneJob ==
  ASSUME PInv, PublishedKept, NEW a \in Agent, JobOK(a)',
         \A b \in Agent \ {a} : pc'[b] = pc[b] /\ job'[b] = job[b]
  PROVE  JobsOK'
<1>1. \A b \in Agent \ {a} : JobOK(b)'
  BY OtherJob
<1> QED  BY <1>1 DEF JobsOK

LEMMA IdleJob ==
  ASSUME NEW a \in Agent, pc'[a] \notin {"act", "save", "move"}
  PROVE  JobOK(a)'
  BY DEF JobOK, Working

-----------------------------------------------------------------------------
(* The steps of an agent *)

\* What each step has to keep.
Kept == DocsOK' /\ PublishedKept /\ JobsOK'

LEMMA LockShape ==
  ASSUME PInv, NEW a \in Agent, NEW c \in {"documents", "published"}, NEW i \in Iid,
         Ready(c, i), Lock(a, c, i), UNCHANGED ids
  PROVE  Kept
<1> DEFINE doc == [store[c][i] EXCEPT !.by = a]
           new == [NoJob EXCEPT !.coll = c, !.iid = i, !.image = doc]
<1>1. TypeOK /\ DocsOK /\ StoredHaveDids /\ c \in Coll /\ IInv
  BY DEF PInv, IInv, Coll
<1>2. store[c][i] \in Doc
  BY <1>1 DEF TypeOK
<1>3. /\ doc \in Doc /\ doc.src = store[c][i].src /\ doc.did = store[c][i].did
      /\ doc.pub = store[c][i].pub /\ doc.pending = store[c][i].pending
      /\ doc.error = store[c][i].error
  BY <1>2 DEF Doc
<1>4. /\ new.coll = c /\ new.iid = i /\ new.image = doc /\ new.pubId = 0
      /\ new.marks = {}
  BY DEF NoJob
<1> HIDE DEF doc, new
<1>5. /\ Put(c, i, doc)
      /\ job'[a] = new /\ \A b \in Agent \ {a} : job'[b] = job[b]
      /\ pc'[a] = "act" /\ \A b \in Agent \ {a} : pc'[b] = pc[b]
  BY <1>1 DEF Lock, doc, new, Goto, TypeOK
<1>6. /\ store'[c][i] = doc
      /\ \A d \in Coll, k \in Iid : d # c \/ k # i => store'[d][k] = store[d][k]
  BY <1>1, <1>3, <1>5, PutType
<1>7. DocsOK' /\ PublishedKept
  <2>1. \A d \in Coll, k \in Iid :
           /\ store'[d][k].src = store[d][k].src /\ store'[d][k].did = store[d][k].did
           /\ store'[d][k].pub = store[d][k].pub
           /\ store'[d][k].pending = store[d][k].pending
    BY <1>3, <1>6
  <2> QED  BY <1>1, <2>1, LocksShape
<1>8. /\ DocShape(c, i, store[c][i], ids) /\ store[c][i].src # 0
      /\ ~store[c][i].error
  BY <1>1 DEF DocsOK, Ready, Stored, PendingWork
<1>9. JobShape(new)
  BY <1>3, <1>4, <1>8 DEF JobShape, DocShape
<1>10. c = "published" => store'["published"][i].src # 0 /\ store'["published"][i].did = doc.did
  BY <1>3, <1>6, <1>8 DEF Coll
<1>11. JobOK(a)'
  BY <1>3, <1>4, <1>5, <1>8, <1>9, <1>10 DEF JobOK, PublishedAs, Stored
<1>12. JobsOK'
  BY <1>5, <1>7, <1>11, OneJob
<1> QED  BY <1>7, <1>12 DEF Kept

\* Without a write; the job of a is about the same document.
LEMMA QuietJob ==
  ASSUME PInv, NEW a \in Agent, UNCHANGED <<store, ids>>,
         \A b \in Agent \ {a} : pc'[b] = pc[b] /\ job'[b] = job[b],
         JobOK(a)'
  PROVE  Kept
<1>1. DocsOK' /\ PublishedKept
  BY LocksShape DEF PInv
<1> QED  BY <1>1, OneJob DEF Kept

\* The loop over the pending actions goes on with the new job.
LEMMA ContinueShape ==
  ASSUME PInv, NEW a \in Agent, pc[a] = "act", NEW k \in Job, JobShape(k), Continue(a, k),
         k.coll = "published" => PublishedAs(k.iid, k.image.did),
         k.pubId # 0 => k.pubId \in Iid /\ PublishedAs(k.pubId, k.image.did),
         UNCHANGED <<store, ids>>
  PROVE  Kept
<1>1. TypeOK /\ k.image.error \in BOOLEAN
  BY JobTypes DEF PInv, IInv
<1>2. /\ pc'[a] \in {"act", "save"} /\ (pc'[a] = "act" => ~k.image.error)
      /\ job'[a] = k
      /\ \A b \in Agent \ {a} : pc'[b] = pc[b] /\ job'[b] = job[b]
  BY <1>1 DEF TypeOK, Continue, Goto, PendingWork
<1>3. JobOK(a)'
  BY <1>2 DEF JobOK, PublishedAs, Stored
<1> QED  BY <1>2, <1>3, QuietJob

\* An action that has not changed what is to be replaced.
LEMMA SameTargetShape ==
  ASSUME PInv, NEW a \in Agent, pc[a] = "act", NEW k \in Job, JobShape(k),
         SameTarget(job[a], k), Continue(a, k),
         UNCHANGED <<store, ids>>
  PROVE  Kept
<1>1. JobOK(a) /\ Working(a)
  BY DEF PInv, JobsOK, Working
<1>2. /\ k.coll = "published" => PublishedAs(k.iid, k.image.did)
      /\ k.pubId # 0 => k.pubId \in Iid /\ PublishedAs(k.pubId, k.image.did)
  BY <1>1 DEF JobOK, SameTarget
<1> QED  BY <1>2, ContinueShape

\* The agent that executes an action.
LEMMA ActShape ==
  ASSUME PInv, NEW a \in Agent, pc[a] = "act"
  PROVE  /\ TypeOK /\ Working(a) /\ job[a] \in Job /\ JobShape(job[a])
         /\ ~job[a].image.error /\ job[a].image.did \in Did
<1>1. Working(a)
  BY DEF Working
<1> QED  BY <1>1, OwnShape DEF JobOK

\* A document is created beside the one that is at work.
LEMMA CreateShape ==
  ASSUME PInv, NEW a \in Agent, NEW did \in Created, NEW ts \in Stamps,
         CollectCreate(a, did, ts)
  PROVE  Kept
<1>1. /\ pc[a] = "act" /\ TypeOK /\ DocsOK /\ JobShape(job[a]) /\ job[a] \in Job
      /\ ids < MaxIds /\ JobOK(a) /\ Working(a)
  BY ActShape DEF CollectCreate, Acts, PInv, JobsOK
<1>2. CASE Unique("documents", ids + 1, did)
  <2> DEFINE doc == [src |-> ids + 1, did |-> did, pub |-> FALSE,
                     pending |-> <<"publish">>, error |-> FALSE, ts |-> ts,
                     by |-> None]
             n == ids + 1
  <2>1. /\ Put("documents", n, doc) /\ ids' = n
        /\ job' = [job EXCEPT ![a].creates = @ + 1] /\ pc' = pc
    BY <1>2 DEF CollectCreate
  <2>2. n \in Iid /\ n \in 0..MaxIds /\ n # 0 /\ "documents" \in Coll
    BY <1>1 DEF TypeOK, Iid, Coll
  <2>3. doc \in Doc
    BY <2>2 DEF Doc, Action
  <2>4. ReadyActions(<<"publish">>)
    BY DEF ReadyActions, Action
  <2>5. DocShape("documents", n, doc, n)
    BY <2>2, <2>4 DEF DocShape, Iid
  <2> HIDE DEF doc
  <2>6. DocsOK' /\ PublishedKept
    BY <1>1, <2>1, <2>2, <2>3, <2>5, PutShape
  <2>7. /\ job'[a].coll = job[a].coll /\ job'[a].iid = job[a].iid
        /\ job'[a].image = job[a].image /\ job'[a].pubId = job[a].pubId
        /\ job'[a].marks = job[a].marks
        /\ \A b \in Agent \ {a} : pc'[b] = pc[b] /\ job'[b] = job[b]
    <3>1. job[a] \in Job
      BY <1>1
    <3>2. job'[a] = [job[a] EXCEPT !.creates = @ + 1]
      BY <1>1, <2>1 DEF TypeOK
    <3>3. \A b \in Agent \ {a} : job'[b] = job[b]
      BY <1>1, <2>1 DEF TypeOK
    <3> QED  BY <2>1, <3>1, <3>2, <3>3 DEF Job
  <2>8. JobShape(job'[a])
    BY <1>1, <2>7 DEF JobShape
  <2>9. /\ job[a].coll = "published" => PublishedAs(job[a].iid, job[a].image.did)'
        /\ job[a].pubId # 0 => /\ job[a].pubId \in Iid
                               /\ PublishedAs(job[a].pubId, job[a].image.did)'
    <3>1. job[a].iid \in Iid
      BY <1>1, OwnShape
    <3>2. /\ job[a].coll = "published" => PublishedAs(job[a].iid, job[a].image.did)
          /\ job[a].pubId # 0 => job[a].pubId \in Iid /\ PublishedAs(job[a].pubId, job[a].image.did)
      BY <1>1 DEF JobOK
    <3> QED  BY <2>6, <2>7, <3>1, <3>2 DEF PublishedKept, PublishedAs, Stored
  <2>10. JobOK(a)'
    BY <1>1, <2>1, <2>7, <2>8, <2>9 DEF JobOK
  <2> QED  BY <2>6, <2>7, <2>10, OneJob DEF Kept
<1>3. CASE ~Unique("documents", ids + 1, did)
  <2>1. JobShape(Failed(job[a])) /\ SameTarget(job[a], Failed(job[a]))
    BY <1>1, FailedShape
  <2>2. Failed(job[a]) \in Job
    BY <1>1, FailedWork DEF SameWork
  <2>3. Continue(a, Failed(job[a])) /\ UNCHANGED <<store, ids>>
    BY <1>3 DEF CollectCreate
  <2> QED  BY <1>1, <2>1, <2>2, <2>3, SameTargetShape
<1> QED  BY <1>2, <1>3
LEMMA CollectShape ==
  ASSUME PInv, NEW a \in Agent, NEW outcome,
         Collect(a, outcome) \/ Split(a, outcome) \/ Utility(a, outcome)
  PROVE  Kept
<1> DEFINE j == job[a]
<1>1. /\ pc[a] = "act" /\ j.image.pending # <<>> /\ Head(j.image.pending) # "consume"
      /\ UNCHANGED <<store, ids>>
  BY DEF Collect, Split, Utility, ActAndDelete, Acts
<1>2. j \in Job /\ JobShape(j) /\ ~j.image.pub
  BY <1>1, ActShape, NotPublishedYet
<1>3. PICK c \in {Collected(j), MarkedDelete(j)} :
         \E k \in {Succeeded(c), Failed(c), Failed(j), Aborted(j)} : Continue(a, k)
  BY DEF Collect, Split, Utility, ActAndDelete
<1>4. c \in Job /\ c.image = j.image /\ JobShape(c) /\ SameTarget(j, c)
  BY <1>2, MarkedShape, CollectedWork, MarkedDeleteWork DEF SameWork
<1>5. /\ Succeeded(c) \in Job /\ JobShape(Succeeded(c)) /\ SameTarget(c, Succeeded(c))
      /\ Failed(c) \in Job /\ JobShape(Failed(c)) /\ SameTarget(c, Failed(c))
  BY <1>1, <1>4, SucceededShape, SucceededWork, FailedShape, FailedWork DEF SameWork
<1>6. /\ Failed(j) \in Job /\ JobShape(Failed(j)) /\ SameTarget(j, Failed(j))
      /\ Aborted(j) \in Job /\ JobShape(Aborted(j)) /\ SameTarget(j, Aborted(j))
  BY <1>1, <1>2, AbortedShape, AbortedWork, FailedShape, FailedWork DEF SameWork
<1>7. SameTarget(j, Succeeded(c)) /\ SameTarget(j, Failed(c))
  BY <1>4, <1>5 DEF SameTarget
<1> QED  BY <1>1, <1>3, <1>5, <1>6, <1>7, SameTargetShape

LEMMA ConsumeShape ==
  ASSUME PInv, NEW a \in Agent, NEW outcome \in ConsumeOutcomes, Consume(a, outcome)
  PROVE  Kept
<1> DEFINE j == job[a]
<1>1. /\ pc[a] = "act" /\ j.image.pending # <<>> /\ UNCHANGED <<store, ids>>
  BY DEF Consume, Acts
<1>2. j \in Job /\ JobShape(j)
  BY <1>1, ActShape
<1>3. /\ Succeeded(j) \in Job /\ JobShape(Succeeded(j)) /\ SameTarget(j, Succeeded(j))
      /\ Failed(j) \in Job /\ JobShape(Failed(j)) /\ SameTarget(j, Failed(j))
      /\ Aborted(j) \in Job /\ JobShape(Aborted(j)) /\ SameTarget(j, Aborted(j))
  BY <1>1, <1>2, AbortedShape, AbortedWork, FailedShape, FailedWork, SucceededShape,
     SucceededWork DEF SameWork
<1>4. \E k \in {Succeeded(j), Failed(j), Aborted(j)} : Continue(a, k)
  BY DEF Consume
<1> QED  BY <1>1, <1>3, <1>4, SameTargetShape

LEMMA PublishingShape ==
  ASSUME PInv, NEW a \in Agent, NEW outcome \in PublishOutcomes, Publish(a, outcome)
  PROVE  Kept
<1> DEFINE j      == job[a]
           f      == Failed(j)
           copies == PublishedCopies(PublishId[j.image.did])
<1>1. /\ pc[a] = "act" /\ j.image.pending # <<>> /\ Head(j.image.pending) = "publish"
      /\ UNCHANGED <<store, ids>>
  BY DEF Publish, Acts
<1>2. TypeOK /\ j \in Job /\ JobShape(j) /\ ~j.image.error /\ j.image.did \in Did
  BY <1>1, ActShape
<1>3. ~j.image.pub
  BY <1>1, <1>2, ConsumeTail DEF JobShape
<1>4. ReadyActions(j.image.pending) /\ "publish" \notin j.marks /\ j.pubId = 0
  BY <1>2, <1>3 DEF JobShape
<1>5. /\ f \in Job /\ JobShape(f) /\ SameTarget(j, f) /\ f.marks = j.marks
      /\ f.pubId = j.pubId /\ f.iid = j.iid
      /\ f.image.pub = j.image.pub /\ f.image.pending = j.image.pending
      /\ f.image.did = j.image.did
  <2>1. f \in Job /\ JobShape(f) /\ SameTarget(j, f)
    BY <1>2, FailedShape, FailedWork DEF SameWork
  <2>2. /\ f.marks = j.marks /\ f.image.pub = j.image.pub
        /\ f.image.pending = j.image.pending
    BY <1>2 DEF Failed, Job, Doc
  <2> QED  BY <2>1, <2>2 DEF SameTarget
<1> HIDE DEF f
<1>6. Aborted(j) \in Job /\ JobShape(Aborted(j)) /\ SameTarget(j, Aborted(j))
  BY <1>1, <1>2, AbortedShape, AbortedWork DEF SameWork
<1>7. copies \in SUBSET Iid
  BY DEF PublishedCopies
<1>8. PublishBody(j, copies) \in Job /\ PublishBody(f, copies) \in Job
  <2> HIDE DEF copies
  <2> QED  BY <1>1, <1>2, <1>5, <1>7, PublishedWork DEF SameWork
<1>9. ASSUME NEW k \in {PublishBody(j, copies), PublishBody(f, copies)}
      PROVE  /\ k \in Job /\ JobShape(k) /\ k.coll = "documents"
             /\ k.pubId # 0 => k.pubId \in Iid /\ PublishedAs(k.pubId, k.image.did)
  <2>1. CASE k = PublishBody(j, copies)
    BY <1>1, <1>2, <1>3, <1>4, <1>8, <2>1, PublishShape
  <2>2. CASE k = PublishBody(f, copies)
    <3>1. k = PublishBody(f, PublishedCopies(PublishId[f.image.did]))
      BY <1>5, <2>2
    <3> QED  BY <1>1, <1>2, <1>3, <1>4, <1>5, <1>8, <2>2, <3>1, PublishShape
  <2> QED  BY <2>1, <2>2
<1>10. CASE \E k \in {PublishBody(j, copies), PublishBody(f, copies)} : Continue(a, k)
  <2>1. PICK k \in {PublishBody(j, copies), PublishBody(f, copies)} : Continue(a, k)
    BY <1>10
  <2>2. /\ k \in Job /\ JobShape(k) /\ k.coll = "documents"
        /\ k.pubId # 0 => k.pubId \in Iid /\ PublishedAs(k.pubId, k.image.did)
    BY <1>9
  <2> HIDE DEF copies
  <2> QED  BY <1>1, <2>1, <2>2, ContinueShape
<1>11. CASE Continue(a, f) \/ Continue(a, Aborted(j))
  BY <1>1, <1>5, <1>6, <1>11, SameTargetShape
<1> QED  BY <1>10, <1>11 DEF Publish, f, copies

LEMMA ActKept ==
  ASSUME PInv, NEW a \in Agent, Act(a)
  PROVE  Kept
  BY CreateShape, CollectShape, PublishingShape, ConsumeShape DEF Act
\* An agent without a document goes somewhere.
LEMMA IdleShape ==
  ASSUME PInv, NEW a \in Agent, NEW place \in Place \ {"act", "save", "move"},
         Goto(a, place), UNCHANGED <<store, ids, job>>
  PROVE  Kept
<1>1. pc'[a] = place /\ \A b \in Agent \ {a} : pc'[b] = pc[b] /\ job'[b] = job[b]
  BY GotoType DEF PInv, IInv
<1>2. JobOK(a)'
  BY <1>1, IdleJob
<1> QED  BY <1>1, <1>2, QuietJob

LEMMA ScanShape ==
  ASSUME PInv, NEW a \in Agent, ScanDocuments(a) \/ ScanPublished(a) \/ End(a)
  PROVE  Kept
<1>1. ASSUME NEW c \in {"documents", "published"}, NEW otherwise \in {"scan", "scanPub"},
             Scan(a, c, otherwise)
      PROVE  Kept
  <2>1. CASE \E i \in Iid : Ready(c, i)
    <3>1. PICK i \in Iid : Ready(c, i) /\ Lock(a, c, i)
      BY <1>1, <2>1 DEF Scan
    <3> QED  BY <1>1, <3>1, LockShape DEF Scan
  <2>2. CASE ~\E i \in Iid : Ready(c, i)
    <3>1. Goto(a, otherwise) /\ UNCHANGED <<store, ids, job>>
      BY <1>1, <2>2 DEF Scan
    <3>2. otherwise \in Place \ {"act", "save", "move"}
      BY DEF Place
    <3> QED  BY <3>1, <3>2, IdleShape
  <2> QED  BY <2>1, <2>2
<1>2. CASE ScanDocuments(a)
  BY <1>1, <1>2 DEF ScanDocuments
<1>3. CASE ScanPublished(a)
  BY <1>1, <1>3 DEF ScanPublished
<1>4. CASE End(a)
  <2>1. "ended" \in Place \ {"act", "save", "move"}
    BY DEF Place
  <2> QED  BY <1>4, <2>1, IdleShape DEF End
<1> QED  BY <1>2, <1>3, <1>4

LEMMA DieShape ==
  ASSUME PInv, NEW a \in Agent, Die(a), UNCHANGED ids
  PROVE  Kept
<1>1. pc'[a] = "dead" /\ \A b \in Agent \ {a} : pc'[b] = pc[b] /\ job'[b] = job[b]
  BY LeaveType DEF Die, Place, PInv, IInv
<1>2. JobOK(a)'
  BY <1>1, IdleJob
<1> QED  BY <1>1, <1>2, QuietJob DEF Die

-----------------------------------------------------------------------------
(* Saving *)

\* An agent deletes its document: it is none of the published ones.
LEMMA RemoveShape ==
  ASSUME PInv, NEW a \in Agent, Working(a), job[a].coll = "documents",
         Remove(job[a].coll, job[a].iid), Leave(a, "scan"), UNCHANGED ids
  PROVE  Kept
<1>1. TypeOK /\ DocsOK /\ job[a].iid \in Iid /\ "documents" \in Coll
  BY OwnShape DEF PInv, Coll
<1>2. pc'[a] = "scan" /\ \A b \in Agent \ {a} : pc'[b] = pc[b] /\ job'[b] = job[b]
  BY <1>1, LeaveType DEF Place
<1>3. NoDoc \in Doc /\ DocShape("documents", job[a].iid, NoDoc, ids')
  <2>1. NoDoc.src = 0
    BY DEF NoDoc
  <2> QED  BY <2>1, EmptyValues DEF DocShape
<1>4. Put("documents", job[a].iid, NoDoc)
  BY DEF Remove
<1>5. DocsOK' /\ PublishedKept
  BY <1>1, <1>3, <1>4, PutShape
<1>6. JobOK(a)'
  BY <1>2, IdleJob
<1> QED  BY <1>2, <1>5, <1>6, OneJob DEF Kept

\* An agent stores its document in collection c, and leaves it or goes on to
\* delete the original.
LEMMA StoreShape ==
  ASSUME PInv, NEW a \in Agent, Working(a), NEW c \in Coll, NEW i \in Iid,
         Put(c, i, Unlocked(job[a].image)), Saved(a, c), UNCHANGED ids,
         DocShape(c, i, Unlocked(job[a].image), ids),
         c # job[a].coll => job[a].coll = "documents",
         c = "published" /\ Stored(c, i) => store[c][i].did = job[a].image.did
  PROVE  Kept
<1> DEFINE j == job[a]
           doc == Unlocked(j.image)
<1>1. /\ TypeOK /\ DocsOK /\ j \in Job /\ j.image \in Doc /\ j.image.src # 0
      /\ JobShape(j) /\ JobOK(a) /\ j.iid \in Iid
  BY OwnShape DEF PInv
<1>2. doc \in Doc /\ doc.src = j.image.src /\ doc.did = j.image.did
  <2>1. \A d \in Doc : Unlocked(d) \in Doc /\ Unlocked(d).src = d.src
                       /\ Unlocked(d).did = d.did
    BY DEF Unlocked, Doc
  <2> QED  BY <1>1, <2>1
<1> HIDE DEF doc
<1>3. DocsOK' /\ PublishedKept
  <2>1. Put(c, i, doc) /\ DocShape(c, i, doc, ids') /\ ids' \in {ids, ids + 1}
    BY DEF doc
  <2> QED  BY <1>1, <1>2, <2>1, PutShape
<1>4. CASE c = j.coll
  <2>1. Leave(a, "scan")
    BY <1>4 DEF Saved
  <2>2. pc'[a] = "scan" /\ \A b \in Agent \ {a} : pc'[b] = pc[b] /\ job'[b] = job[b]
    BY <1>1, <2>1, LeaveType DEF Place
  <2>3. JobOK(a)'
    BY <2>2, IdleJob
  <2> QED  BY <1>3, <2>2, <2>3, OneJob DEF Kept
<1>5. CASE c # j.coll
  <2>1. Goto(a, "move") /\ job' = job
    BY <1>5 DEF Saved
  <2>2. pc'[a] = "move" /\ \A b \in Agent \ {a} : pc'[b] = pc[b] /\ job'[b] = job[b]
    BY <1>1, <2>1, GotoType DEF Place
  <2>3. j.coll = "documents"
    BY <1>5
  <2>4. j.pubId # 0 => /\ j.pubId \in Iid /\ store'["published"][j.pubId].src # 0
                       /\ store'["published"][j.pubId].did = j.image.did
    BY <1>1, <1>3 DEF JobOK, PublishedKept, PublishedAs, Stored
  <2>5. JobOK(a)'
    BY <1>1, <2>1, <2>2, <2>3, <2>4 DEF JobOK, PublishedAs, Stored
  <2> QED  BY <1>3, <2>1, <2>2, <2>5, OneJob DEF Kept
<1> QED  BY <1>4, <1>5

\* The place where save stores a document: in collection c with `_id` i.
LEMMA SavePlace ==
  ASSUME PInv, NEW a \in Agent, Working(a), NEW c, c = Target(job[a]), NEW i,
         \/ Replaces(job[a]) /\ i = job[a].pubId
         \/ ~Replaces(job[a]) /\ i = job[a].iid /\ (c = job[a].coll \/ ~Stored(c, i))
  PROVE  /\ c \in Coll /\ i \in Iid
         /\ DocShape(c, i, Unlocked(job[a].image), ids)
         /\ c # job[a].coll => job[a].coll = "documents"
         /\ c = "published" /\ Stored(c, i) => store[c][i].did = job[a].image.did
<1> DEFINE j == job[a]
           doc == Unlocked(j.image)
<1>1. /\ TypeOK /\ DocsOK /\ j \in Job /\ j.image \in Doc /\ j.image.src # 0
      /\ JobShape(j) /\ JobOK(a) /\ j.iid \in Iid /\ j.coll \in {"documents", "published"}
      /\ j.image.src <= ids /\ j.iid <= ids
      /\ j.coll = "documents" => j.image.src = j.iid
  BY OwnShape DEF PInv, JobShape
<1>2. /\ doc.src = j.image.src /\ doc.pub = j.image.pub /\ doc.pending = j.image.pending
      /\ doc.error = j.image.error /\ j.image.pub \in BOOLEAN
  BY <1>1 DEF Unlocked, Doc
<1> HIDE DEF doc
<1>3. /\ c \in Coll
      /\ c = "published" => j.image.pub
      /\ c = "documents" => ~j.image.pub /\ ~j.image.error
      /\ j.coll = "published" => c = "published"
      /\ Replaces(j) => j.coll = "documents" /\ c \in {"failures", "published"}
  BY <1>1, TargetCases
<1>4. c = "published" => doc.pub /\ doc.pending \in Seq({"consume"})
  BY <1>1, <1>2, <1>3 DEF JobShape
<1>5. c = "documents" => /\ ~doc.pub /\ ReadyActions(doc.pending) /\ ~Replaces(j)
                         /\ j.coll = "documents"
  BY <1>1, <1>2, <1>3 DEF JobShape
<1>6. c # j.coll => j.coll = "documents"
  BY <1>1, <1>3
<1>7. CASE Replaces(j) /\ i = j.pubId
  <2>1. i \in Iid /\ PublishedAs(i, j.image.did)
    BY <1>1, <1>7 DEF JobOK, Replaces
  <2>2. i <= ids
    BY <1>1, <2>1 DEF DocsOK, DocShape, PublishedAs, Stored, Coll
  <2>3. DocShape(c, i, doc, ids)
    BY <1>1, <1>2, <1>4, <1>5, <1>7, <2>2 DEF DocShape
  <2> QED  BY <1>3, <1>6, <2>1, <2>3 DEF PublishedAs, doc
<1>8. CASE ~Replaces(j) /\ i = j.iid /\ (c = j.coll \/ ~Stored(c, i))
  <2>1. DocShape(c, i, doc, ids)
    BY <1>1, <1>2, <1>4, <1>5, <1>8 DEF DocShape
  <2>2. c = "published" /\ Stored(c, i) => store[c][i].did = j.image.did
    BY <1>1, <1>8 DEF JobOK, PublishedAs
  <2> QED  BY <1>1, <1>3, <1>6, <1>8, <2>1, <2>2 DEF doc
<1> QED  BY <1>7, <1>8
\* The second operation of a move, or the only one of a deletion.
Deleting(a) ==
    /\ \/ pc[a] = "save" /\ Deletes(job[a])
       \/ pc[a] = "move"
    /\ Remove(job[a].coll, job[a].iid) /\ Leave(a, "scan")

\* The first operation of a move, or the only one of a save to the same collection.
Storing(a, c, i) ==
    /\ pc[a] = "save" /\ c = Target(job[a])
    /\ \/ Replaces(job[a]) /\ i = job[a].pubId /\ Stored(c, i)
       \/ ~Replaces(job[a]) /\ i = job[a].iid /\ (c = job[a].coll \/ ~Stored(c, i))
    /\ Put(c, i, Unlocked(job[a].image)) /\ Saved(a, c)

\* The operations that a save is made of.  The document to move is still there and
\* locked by the agent, so that the second operation does not fail.
LEMMA SaveCases ==
  ASSUME PInv, NEW a \in Agent, Save(a)
  PROVE  /\ Working(a) /\ UNCHANGED ids
         /\ (pc[a] = "save" /\ Die(a)) \/ Deleting(a) \/ \E c, i : Storing(a, c, i)
<1>1. Working(a) /\ UNCHANGED ids
  BY DEF Save, Working, SaveDelete, SaveReplace, SaveInsert, SaveMove
<1>2. CASE SaveDelete(a) \/ SaveMove(a)
  <2>1. UnlockedOrMine(a, job[a].coll, job[a].iid)
    BY <1>1, OwnShape DEF UnlockedOrMine
  <2> QED  BY <1>1, <1>2, <2>1 DEF SaveDelete, SaveMove, Deleting
<1>3. CASE SaveReplace(a)
  <2> DEFINE c == Target(job[a])
             i == IF Replaces(job[a]) THEN job[a].pubId ELSE job[a].iid
  <2>1. CASE UnlockedOrMine(a, c, i)
    <3>1. Storing(a, c, i)
      BY <1>3, <2>1 DEF SaveReplace, Storing, UnlockedOrMine
    <3> QED  BY <1>1, <3>1
  <2>2. CASE ~UnlockedOrMine(a, c, i)
    BY <1>1, <1>3, <2>2 DEF SaveReplace
  <2> QED  BY <2>1, <2>2
<1>4. CASE SaveInsert(a)
  <2> DEFINE c == Target(job[a])
             i == job[a].iid
  <2>1. CASE Unique(c, i, job[a].image.did) /\ Put(c, i, Unlocked(job[a].image)) /\ Saved(a, c)
    <3>1. Storing(a, c, i)
      BY <1>4, <2>1 DEF SaveInsert, Storing, Unique
    <3> QED  BY <1>1, <3>1
  <2> QED  BY <1>1, <1>4, <2>1 DEF SaveInsert
<1> QED  BY <1>1, <1>2, <1>3, <1>4 DEF Save

LEMMA SaveKept ==
  ASSUME PInv, NEW a \in Agent, Save(a)
  PROVE  Kept
<1>1. Working(a) /\ UNCHANGED ids
  BY SaveCases
<1>2. CASE Die(a)
  BY <1>1, <1>2, DieShape
<1>3. CASE Deleting(a)
  <2>1. job[a].coll = "documents"
    BY <1>1, <1>3, OwnShape, TargetCases DEF Deleting, JobOK
  <2> QED  BY <1>1, <1>3, <2>1, RemoveShape DEF Deleting
<1>4. ASSUME NEW c, NEW i, Storing(a, c, i) PROVE Kept
  <2>1. /\ c \in Coll /\ i \in Iid
        /\ DocShape(c, i, Unlocked(job[a].image), ids)
        /\ c # job[a].coll => job[a].coll = "documents"
        /\ c = "published" /\ Stored(c, i) => store[c][i].did = job[a].image.did
    BY <1>1, <1>4, SavePlace DEF Storing
  <2> QED  BY <1>1, <1>4, <2>1, StoreShape DEF Storing
<1> QED  BY <1>2, <1>3, <1>4, SaveCases

-----------------------------------------------------------------------------
(* The launcher and the API *)

\* The agents go on with what they have.
LEMMA OthersShape ==
  ASSUME PInv, DocsOK', PublishedKept, UNCHANGED <<pc, job>>
  PROVE  Kept
<1>1. \A b \in Agent : JobOK(b)'
  BY OtherJob
<1> QED  BY <1>1 DEF Kept, JobsOK

LEMMA LauncherKept ==
  ASSUME PInv, NEW a \in Agent, LauncherStep(a)
  PROVE  Kept
<1>1. TypeOK /\ DocsOK
  BY DEF PInv, IInv
<1>2. {"scan", "new", "gone"} \subseteq Place \ {"act", "save", "move"}
  BY DEF Place
<1>3. CASE Launch(a) \/ Reap(a)
  BY <1>2, <1>3, IdleShape DEF Launch, Reap
<1>4. CASE Recover(a)
  <2>1. /\ UNCHANGED <<ids, job>>
        /\ \E c \in Coll : UnlockHeldBy(a, c)
        /\ \E place \in {"reaped", "new"} : Goto(a, place)
    BY <1>4 DEF Recover, Coll
  <2>2. pc'[a] \in {"reaped", "new"} /\ \A b \in Agent \ {a} : pc'[b] = pc[b]
    BY <1>1, <2>1, GotoType DEF Place
  <2>3. \A d \in Coll, k \in Iid :
           store'[d][k] = store[d][k] \/ store'[d][k] = Unlocked(store[d][k])
    BY <1>1, <2>1, UnlockType
  <2>4. \A doc \in Doc : /\ Unlocked(doc).src = doc.src /\ Unlocked(doc).did = doc.did
                         /\ Unlocked(doc).pub = doc.pub
                         /\ Unlocked(doc).pending = doc.pending
    BY DEF Unlocked, Doc
  <2>5. \A d \in Coll, k \in Iid : store[d][k] \in Doc
    BY <1>1 DEF TypeOK
  <2>6. DocsOK' /\ PublishedKept
    BY <1>1, <2>1, <2>3, <2>4, <2>5, LocksShape
  <2>7. JobOK(a)'
    BY <2>2, IdleJob
  <2> QED  BY <2>1, <2>2, <2>6, <2>7, OneJob DEF Kept
<1> QED  BY <1>3, <1>4 DEF LauncherStep

LEMMA MarkLockKept ==
  ASSUME PInv, NEW i \in Iid, MarkLock(i)
  PROVE  Kept
<1> DEFINE doc == [store["published"][i] EXCEPT !.by = Api]
<1>1. TypeOK /\ DocsOK /\ "published" \in Coll /\ store["published"][i] \in Doc
  BY DEF PInv, IInv, TypeOK, Coll
<1>2. /\ doc \in Doc /\ doc.src = store["published"][i].src
      /\ doc.did = store["published"][i].did /\ doc.pub = store["published"][i].pub
      /\ doc.pending = store["published"][i].pending
  BY <1>1 DEF Doc
<1>3. Put("published", i, doc) /\ UNCHANGED <<ids, pc, job>>
  BY DEF MarkLock
<1> HIDE DEF doc
<1>4. /\ store'["published"][i] = doc
      /\ \A d \in Coll, k \in Iid : d # "published" \/ k # i => store'[d][k] = store[d][k]
  BY <1>1, <1>2, <1>3, PutType
<1>5. \A d \in Coll, k \in Iid :
         /\ store'[d][k].src = store[d][k].src /\ store'[d][k].did = store[d][k].did
         /\ store'[d][k].pub = store[d][k].pub /\ store'[d][k].pending = store[d][k].pending
  BY <1>2, <1>4
<1>6. DocsOK' /\ PublishedKept
  BY <1>1, <1>3, <1>5, LocksShape
<1> QED  BY <1>3, <1>6, OthersShape

LEMMA MarkSaveKept ==
  ASSUME PInv, MarkSave
  PROVE  Kept
<1> DEFINE old == store["published"][marking]
           doc == [old EXCEPT !.by = None, !.error = FALSE,
                              !.pending = Append(@, "consume")]
<1>1. /\ TypeOK /\ DocsOK /\ "published" \in Coll /\ marking \in Iid /\ old \in Doc
      /\ old.src # 0
  BY DEF PInv, IInv, ApiHoldsLock, MarkSave, Stored, TypeOK, Iid, Coll
<1>2. DocShape("published", marking, old, ids)
  BY <1>1 DEF DocsOK
<1>3. Put("published", marking, doc) /\ UNCHANGED <<ids, pc, job>>
  BY DEF MarkSave
<1>4. Append(old.pending, "consume") \in Seq({"consume"})
  BY <1>1, <1>2 DEF DocShape
<1>5. Append(old.pending, "consume") \in Seq(Action)
  BY <1>1 DEF Doc, Action
<1> HIDE DEF old
<1>6. /\ doc \in Doc /\ doc.src = old.src /\ doc.did = old.did /\ doc.pub = old.pub
      /\ doc.pending = Append(old.pending, "consume")
  BY <1>1, <1>5 DEF Doc
<1> HIDE DEF doc
<1>7. DocShape("published", marking, doc, ids')
  BY <1>1, <1>2, <1>3, <1>4, <1>6 DEF DocShape
<1>8. DocsOK' /\ PublishedKept
  BY <1>1, <1>3, <1>6, <1>7, PutShape DEF old
<1> QED  BY <1>3, <1>8, OthersShape

-----------------------------------------------------------------------------
(* What is published stays *)

LEMMA NextKept ==
  ASSUME PInv, [Next]_vars
  PROVE  Kept
<1>1. TypeOK /\ DocsOK
  BY DEF PInv, IInv
<1>2. ASSUME UNCHANGED <<store, ids, pc, job>> PROVE Kept
  <2>1. DocsOK' /\ PublishedKept
    BY <1>1, <1>2, LocksShape
  <2> QED  BY <1>2, <2>1, OthersShape
<1>3. ASSUME NEW a \in Agent, AgentStep(a) PROVE Kept
  BY <1>3, ScanShape, ActKept, SaveKept DEF AgentStep
<1>4. ASSUME NEW a \in Agent, Crash(a) PROVE Kept
  BY <1>4, DieShape DEF Crash
<1>5. ASSUME NEW a \in Agent, LauncherStep(a) PROVE Kept
  BY <1>5, LauncherKept
<1>6. CASE Restart \/ Restarted \/ UNCHANGED vars
  BY <1>2, <1>6 DEF Restart, Restarted, vars
<1>7. ASSUME NEW i \in Iid, MarkLock(i) PROVE Kept
  BY <1>7, MarkLockKept
<1>8. CASE MarkSave
  BY <1>8, MarkSaveKept
<1> QED  BY <1>3, <1>4, <1>5, <1>6, <1>7, <1>8 DEF Next

LEMMA SeedShapes ==
  ASSUME NEW seed \in Seeds
  PROVE  \A i \in 1..Len(seed) :
            seed[i].src = i /\ ~seed[i].pub /\ ReadyActions(seed[i].pending)
  BY ConstantsAssumption DEF ConstantsAssumption

LEMMA InitPInv == Init => PInv
<1> SUFFICES ASSUME Init PROVE PInv
  OBVIOUS
<1>1. PICK seed \in Seeds :
        /\ store = [c \in Coll |-> [i \in Iid |->
                      IF c = "documents" /\ i <= Len(seed) THEN seed[i] ELSE NoDoc]]
        /\ ids = Len(seed)
  BY DEF Init
<1>2. Len(seed) \in 0..MaxIds
  BY LenProperties, SeedDocs
<1>3. DocsOK
  <2>1. SUFFICES ASSUME NEW c \in Coll, NEW i \in Iid
                 PROVE  DocShape(c, i, store[c][i], ids)
    BY DEF DocsOK
  <2>2. CASE c = "documents" /\ i <= Len(seed)
    <3>1. i \in 1..Len(seed) /\ store[c][i] = seed[i]
      BY <1>1, <1>2, <2>2 DEF Iid
    <3>2. seed[i].src = i /\ ~seed[i].pub /\ ReadyActions(seed[i].pending)
      BY <3>1, SeedShapes
    <3> QED  BY <1>1, <1>2, <2>2, <3>1, <3>2 DEF DocShape
  <2>3. CASE ~(c = "documents" /\ i <= Len(seed))
    BY <1>1, <2>3 DEF DocShape, NoDoc
  <2> QED  BY <2>2, <2>3
<1>4. JobsOK
  BY IdleJob DEF Init, JobsOK, JobOK, Working
<1> QED  BY <1>3, <1>4, InitIInv DEF PInv

LEMMA NextKeepsPInv == PInv /\ [Next]_vars => PInv'
  BY NextKept, NextKeepsIInv DEF PInv, Kept

\* The invariant about the shape of the documents and the jobs.
THEOREM CopiesInvariant == Spec => []PInv
  BY InitPInv, NextKeepsPInv, PTL DEF Spec

\* A document_id that is published stays published: publishers replace the copy
\* with one of the same document_id, consumers and the API write it in place, and
\* deletions, aborts, crashes and recoveries do not reach it.
THEOREM PublishedStaysPublished == Spec => PublishedStays
<1> DEFINE Step == \A did \in Did : PublishedCopies(did) # {} => PublishedCopies(did)' # {}
<1>1. PInv /\ [Next]_vars => [Step]_vars
  <2>1. SUFFICES ASSUME PInv, [Next]_vars, NEW did \in Did, PublishedCopies(did) # {}
                 PROVE  PublishedCopies(did)' # {}
    OBVIOUS
  <2>2. PublishedKept
    BY <2>1, NextKept DEF Kept
  <2>3. PICK i \in Iid : Stored("published", i) /\ store["published"][i].did = did
    BY <2>1 DEF PublishedCopies
  <2>4. store'["published"][i].src # 0 /\ store'["published"][i].did = did
    BY <2>2, <2>3 DEF PublishedKept
  <2> QED  BY <2>4 DEF PublishedCopies, Stored
<1>2. PublishedStays <=> [][Step]_vars
  BY DEF PublishedStays
<1> HIDE DEF Step
<1> QED  BY <1>1, <1>2, CopiesInvariant, PTL DEF Spec
-----------------------------------------------------------------------------
(* One copy of each document, and the moves                                  *)
(*                                                                           *)
(* An agent that is killed between the two operations of a move leaves two   *)
(* copies, and the theorems of this part do not hold then: they are about    *)
(* agents that are killed at other places.                                   *)

NoKillInMove == CrashAt \subseteq {"act", "save"}

Elsewhere == Coll \ {"documents"}

\* There is one copy of a document outside `documents` ...
OneElsewhere ==
    \A c, d \in Elsewhere, i, k \in Iid :
        Stored(c, i) /\ store[c][i].src = store[d][k].src => c = d /\ i = k

\* ... and a publisher that replaces a published copy finds no failure in its place.
FailuresApart == \A i \in Iid : ~(Stored("failures", i) /\ Stored("published", i))

Moving(a, i) == pc[a] = "move" /\ job[a].iid = i

\* A document in `documents` is elsewhere too, or its `_id` is taken there, only
\* while an agent moves it.
MovesBetween ==
    \A i, k \in Iid, c \in Elsewhere :
        Stored("documents", i) /\ Stored(c, k) /\ (k = i \/ store[c][k].src = i) =>
            \E a \in Agent : Moving(a, i)

\* What the first operation of a move has stored is there for the second one: under
\* its document_id in `published`, where another agent may have replaced it, or as
\* it was.
HasStored(a) ==
    pc[a] = "move" =>
        \/ \E i \in Iid : PublishedAs(i, job[a].image.did)
        \/ \E c \in {"failures", "history"} :
              store[c][job[a].iid].src = job[a].image.src

MoversHaveStored == \A a \in Agent : HasStored(a)

MInv == OneElsewhere /\ FailuresApart /\ MovesBetween /\ MoversHaveStored

\* What the steps do to the copies: nothing ...
QuietStep ==
    /\ \A c \in Coll, i \in Iid : store'[c][i].src = store[c][i].src
    /\ \A a \in Agent : pc'[a] = "move" <=> pc[a] = "move"
    /\ \A a \in Agent : pc[a] = "move" => job'[a] = job[a]

\* ... create a document with a new `_id` ...
Creating ==
    /\ ids + 1 \in Iid
    /\ \A c \in Coll, i \in Iid :
          c # "documents" \/ i # ids + 1 => store'[c][i].src = store[c][i].src
    /\ ~Stored("documents", ids + 1)
    /\ pc' = pc
    /\ \A a \in Agent : /\ job'[a].iid = job[a].iid
                        /\ job'[a].image = job[a].image

\* ... delete one from documents, at the end of a move or instead of it, or store
\* one elsewhere, at the beginning of a move.
MoveStoring(a, c, i) == Working(a) /\ Storing(a, c, i) /\ c # job[a].coll

LEMMA QuietAgent ==
  ASSUME NEW a \in Agent, pc[a] # "move", pc'[a] # "move",
         \A b \in Agent \ {a} : pc'[b] = pc[b] /\ job'[b] = job[b],
         \A c \in Coll, i \in Iid : store'[c][i].src = store[c][i].src
  PROVE  QuietStep
  BY DEF QuietStep

\* An agent that leaves, or goes on with its actions, without a write.
LEMMA QuietLeave ==
  ASSUME TypeOK, NEW a \in Agent, pc[a] # "move",
         \/ \E place \in Place \ {"move"} :
              \/ Leave(a, place)
              \/ Goto(a, place) /\ job' = job
         \/ \E k : Continue(a, k),
         UNCHANGED store
  PROVE  QuietStep
<1>1. pc'[a] # "move" /\ \A b \in Agent \ {a} : pc'[b] = pc[b] /\ job'[b] = job[b]
  BY DEF Leave, Goto, Continue, TypeOK, Place
<1> QED  BY <1>1, QuietAgent

LEMMA ScanCopies ==
  ASSUME PInv, NEW a \in Agent, ScanDocuments(a) \/ ScanPublished(a) \/ End(a)
  PROVE  QuietStep
<1>1. TypeOK /\ pc[a] # "move"
  BY DEF PInv, IInv, ScanDocuments, ScanPublished, End
<1>2. ASSUME NEW c \in {"documents", "published"}, NEW otherwise \in {"scan", "scanPub"},
             Scan(a, c, otherwise)
      PROVE  QuietStep
  <2>1. CASE \E i \in Iid : Ready(c, i)
    <3>1. PICK i \in Iid : Ready(c, i) /\ Lock(a, c, i)
      BY <1>2, <2>1 DEF Scan
    <3> DEFINE doc == [store[c][i] EXCEPT !.by = a]
    <3>2. c \in Coll /\ store[c][i] \in Doc
      BY <1>1 DEF TypeOK, Coll
    <3>3. doc \in Doc /\ doc.src = store[c][i].src
      BY <3>2, DocUpdates
    <3>4. Put(c, i, doc)
      BY <3>1 DEF Lock
    <3>5. pc'[a] = "act" /\ \A b \in Agent \ {a} : pc'[b] = pc[b] /\ job'[b] = job[b]
      BY <1>1, <3>1 DEF Lock, Goto, TypeOK
    <3> HIDE DEF doc
    <3>6. /\ store'[c][i] = doc
          /\ \A d \in Coll, k \in Iid : d # c \/ k # i => store'[d][k] = store[d][k]
      BY <1>1, <3>2, <3>3, <3>4, PutType
    <3>7. \A d \in Coll, k \in Iid : store'[d][k].src = store[d][k].src
      BY <3>3, <3>6
    <3> QED  BY <1>1, <3>5, <3>7, QuietAgent
  <2>2. CASE ~\E i \in Iid : Ready(c, i)
    <3>1. Goto(a, otherwise) /\ UNCHANGED <<store, job>>
      BY <1>2, <2>2 DEF Scan
    <3>2. otherwise \in Place \ {"move"}
      BY DEF Place
    <3> QED  BY <1>1, <3>1, <3>2, QuietLeave
  <2> QED  BY <2>1, <2>2
<1>3. CASE ScanDocuments(a)
  BY <1>2, <1>3 DEF ScanDocuments
<1>4. CASE ScanPublished(a)
  BY <1>2, <1>4 DEF ScanPublished
<1>5. CASE End(a)
  <2>1. "ended" \in Place \ {"move"}
    BY DEF Place
  <2> QED  BY <1>1, <1>5, <2>1, QuietLeave DEF End
<1> QED  BY <1>3, <1>4, <1>5

LEMMA ActCopies ==
  ASSUME PInv, NEW a \in Agent, Act(a)
  PROVE  QuietStep \/ Creating
<1>1. TypeOK /\ pc[a] # "move"
  BY DEF PInv, IInv, Act, CollectCreate, Collect, Split, Utility, ActAndDelete,
     Publish, Consume, Acts
<1>2. ASSUME NEW did \in Created, NEW ts \in Stamps, CollectCreate(a, did, ts),
             Unique("documents", ids + 1, did)
      PROVE  Creating
  <2> DEFINE doc == [src |-> ids + 1, did |-> did, pub |-> FALSE,
                     pending |-> <<"publish">>, error |-> FALSE, ts |-> ts,
                     by |-> None]
  <2>1. /\ Put("documents", ids + 1, doc) /\ pc' = pc
        /\ job' = [job EXCEPT ![a].creates = @ + 1] /\ ids < MaxIds
        /\ ~Stored("documents", ids + 1)
    BY <1>2 DEF CollectCreate, Unique
  <2>2. ids + 1 \in Iid /\ ids + 1 \in 0..MaxIds /\ "documents" \in Coll
    BY <1>1, <2>1 DEF TypeOK, Iid, Coll
  <2>3. doc \in Doc
    BY <2>2 DEF Doc, Action
  <2> HIDE DEF doc
  <2>4. \A d \in Coll, k \in Iid :
           d # "documents" \/ k # ids + 1 => store'[d][k] = store[d][k]
    BY <1>1, <2>1, <2>2, <2>3, PutType
  <2>5. ASSUME NEW b \in Agent
        PROVE  job'[b].iid = job[b].iid /\ job'[b].image = job[b].image
    <3>1. job[b] \in Job
      BY <1>1 DEF TypeOK
    <3>2. job'[b] = job[b] \/ job'[b] = [job[b] EXCEPT !.creates = @ + 1]
      BY <1>1, <2>1 DEF TypeOK
    <3> QED  BY <3>1, <3>2 DEF Job
  <2> QED  BY <2>1, <2>2, <2>4, <2>5 DEF Creating
<1>3. ASSUME NEW did \in Created, NEW ts \in Stamps, CollectCreate(a, did, ts),
             ~Unique("documents", ids + 1, did)
      PROVE  UNCHANGED store /\ \E k : Continue(a, k)
  BY <1>3 DEF CollectCreate
<1>4. ASSUME NEW outcome,
             \/ Collect(a, outcome) \/ Split(a, outcome) \/ Utility(a, outcome)
             \/ Publish(a, outcome) \/ Consume(a, outcome)
      PROVE  UNCHANGED store /\ \E k : Continue(a, k)
  BY <1>4 DEF Collect, Split, Utility, ActAndDelete, Publish, Consume
<1>5. CASE UNCHANGED store /\ \E k : Continue(a, k)
  BY <1>1, <1>5, QuietLeave
<1> QED  BY <1>2, <1>3, <1>4, <1>5 DEF Act

LEMMA LauncherCopies ==
  ASSUME PInv, NEW a \in Agent, LauncherStep(a)
  PROVE  QuietStep
<1>1. TypeOK /\ pc[a] # "move"
  BY DEF PInv, IInv, LauncherStep, Launch, Recover, Reap
<1>2. {"scan", "new", "gone"} \subseteq Place \ {"move"}
  BY DEF Place
<1>3. CASE Launch(a) \/ Reap(a)
  BY <1>1, <1>2, <1>3, QuietLeave DEF Launch, Reap
<1>4. CASE Recover(a)
  <2>1. /\ job' = job
        /\ \E c \in Coll : UnlockHeldBy(a, c)
        /\ \E place \in {"reaped", "new"} : Goto(a, place)
    BY <1>4 DEF Recover, Coll
  <2>2. pc'[a] # "move" /\ \A b \in Agent \ {a} : pc'[b] = pc[b] /\ job'[b] = job[b]
    BY <1>1, <2>1, GotoType DEF Place
  <2>3. \A d \in Coll, k \in Iid :
           store'[d][k] = store[d][k] \/ store'[d][k] = Unlocked(store[d][k])
    BY <1>1, <2>1, UnlockType
  <2>4. \A d \in Coll, k \in Iid : store[d][k] \in Doc
    BY <1>1 DEF TypeOK
  <2>5. \A doc \in Doc : Unlocked(doc).src = doc.src
    BY DEF Unlocked, Doc
  <2>6. \A d \in Coll, k \in Iid : store'[d][k].src = store[d][k].src
    BY <2>3, <2>4, <2>5
  <2> QED  BY <1>1, <2>2, <2>6, QuietAgent
<1> QED  BY <1>3, <1>4 DEF LauncherStep

\* The API changes locks, errors and pending actions.
LEMMA ApiCopies ==
  ASSUME PInv, (\E i \in Iid : MarkLock(i)) \/ MarkSave
  PROVE  QuietStep
<1>1. TypeOK /\ "published" \in Coll
  BY DEF PInv, IInv, Coll
<1>2. PICK i \in Iid, doc \in Doc :
        /\ Put("published", i, doc) /\ doc.src = store["published"][i].src
        /\ UNCHANGED <<pc, job>>
  <2>1. ASSUME NEW i \in Iid, MarkLock(i)
        PROVE  /\ [store["published"][i] EXCEPT !.by = Api] \in Doc
               /\ [store["published"][i] EXCEPT !.by = Api].src = store["published"][i].src
    <3>1. store["published"][i] \in Doc
      BY <1>1 DEF TypeOK
    <3> QED  BY <3>1, DocUpdates
  <2>2. ASSUME MarkSave
        PROVE  LET old == store["published"][marking]
                   doc == [old EXCEPT !.by = None, !.error = FALSE,
                                      !.pending = Append(@, "consume")]
               IN  marking \in Iid /\ doc \in Doc /\ doc.src = old.src
    <3> DEFINE old == store["published"][marking]
    <3>1. marking \in Iid /\ old \in Doc
      BY <1>1, <2>2 DEF MarkSave, TypeOK, Iid
    <3>2. Append(old.pending, "consume") \in Seq(Action)
      BY <3>1 DEF Doc, Action
    <3> HIDE DEF old
    <3>3. LET doc == [old EXCEPT !.by = None, !.error = FALSE,
                                 !.pending = Append(@, "consume")]
          IN  doc \in Doc /\ doc.src = old.src
      BY <3>1, <3>2 DEF Doc
    <3> QED  BY <3>1, <3>3 DEF old
  <2>3. CASE \E i \in Iid : MarkLock(i)
    BY <2>1, <2>3 DEF MarkLock
  <2>4. CASE MarkSave
    BY <2>2, <2>4 DEF MarkSave
  <2> QED  BY <2>3, <2>4
<1>3. /\ store'["published"][i] = doc
      /\ \A d \in Coll, k \in Iid : d # "published" \/ k # i => store'[d][k] = store[d][k]
  BY <1>1, <1>2, PutType
<1>4. \A d \in Coll, k \in Iid : store'[d][k].src = store[d][k].src
  BY <1>2, <1>3
<1> QED  BY <1>2, <1>4 DEF QuietStep
LEMMA StepCases ==
  ASSUME PInv, NoKillInMove, [Next]_vars
  PROVE  \/ QuietStep
         \/ Creating
         \/ \E a \in Agent : Working(a) /\ Deleting(a)
         \/ \E a \in Agent : \E c, i : MoveStoring(a, c, i)
<1>1. TypeOK
  BY DEF PInv, IInv
<1>2. ASSUME NEW a \in Agent, pc[a] # "move", Die(a) PROVE QuietStep
  <2>1. "dead" \in Place \ {"move"}
    BY DEF Place
  <2> QED  BY <1>1, <1>2, <2>1, QuietLeave DEF Die
<1>3. ASSUME NEW a \in Agent, Save(a)
      PROVE  \/ QuietStep
             \/ Working(a) /\ Deleting(a)
             \/ \E c, i : MoveStoring(a, c, i)
  <2>1. Working(a) /\ ((pc[a] = "save" /\ Die(a)) \/ Deleting(a) \/ \E c, i : Storing(a, c, i))
    BY <1>3, SaveCases
  <2>2. ASSUME NEW c, NEW i, Storing(a, c, i), c = job[a].coll PROVE QuietStep
    <3> DEFINE j == job[a]
    <3>1. /\ j.image \in Doc /\ j.coll \in Coll /\ j.iid \in Iid
          /\ store[j.coll][j.iid].src = j.image.src
          /\ JobShape(j) /\ j \in Job
      BY <2>1, OwnShape
    <3>2. Put(c, i, Unlocked(j.image)) /\ Leave(a, "scan") /\ pc[a] = "save"
      BY <2>2 DEF Storing, Saved
    <3>3. Unlocked(j.image) \in Doc /\ Unlocked(j.image).src = j.image.src
      <4>1. \A doc \in Doc : Unlocked(doc) \in Doc /\ Unlocked(doc).src = doc.src
        BY DEF Unlocked, Doc
      <4> QED  BY <3>1, <4>1
    <3>4. i = j.iid
      <4>1. Replaces(j) => j.coll = "documents" /\ Target(j) \in {"failures", "published"}
        BY <3>1, TargetCases
      <4> QED  BY <2>2, <4>1 DEF Storing
    <3>5. /\ store'[c][i] = Unlocked(j.image)
          /\ \A d \in Coll, k \in Iid : d # c \/ k # i => store'[d][k] = store[d][k]
      BY <1>1, <2>2, <3>1, <3>2, <3>3, <3>4, PutType
    <3>6. \A d \in Coll, k \in Iid : store'[d][k].src = store[d][k].src
      BY <2>2, <3>1, <3>3, <3>4, <3>5
    <3>7. pc'[a] = "scan" /\ \A b \in Agent \ {a} : pc'[b] = pc[b] /\ job'[b] = job[b]
      BY <1>1, <3>2, LeaveType DEF Place
    <3> QED  BY <3>2, <3>6, <3>7, QuietAgent
  <2> QED  BY <1>2, <2>1, <2>2 DEF MoveStoring
<1>4. ASSUME NEW a \in Agent, AgentStep(a)
      PROVE  \/ QuietStep \/ Creating
             \/ Working(a) /\ Deleting(a)
             \/ \E c, i : MoveStoring(a, c, i)
  BY <1>3, <1>4, ScanCopies, ActCopies DEF AgentStep
<1>5. ASSUME NEW a \in Agent, Crash(a) PROVE QuietStep
  <2>1. pc[a] # "move"
    <3>1. Working(a) => job[a] \in Job /\ JobShape(job[a])
      BY OwnShape
    <3>2. Working(a) => Target(job[a]) \in Coll
      BY <3>1, TargetCases
    <3> QED  BY <1>5, <3>2 DEF Crash, NoKillInMove, Working, Coll
  <2> QED  BY <1>2, <1>5, <2>1 DEF Crash
<1>6. ASSUME NEW a \in Agent, LauncherStep(a) PROVE QuietStep
  BY <1>6, LauncherCopies
<1>7. CASE Restart \/ Restarted \/ UNCHANGED vars
  BY <1>7 DEF Restart, Restarted, vars, QuietStep
<1>8. CASE (\E i \in Iid : MarkLock(i)) \/ MarkSave
  BY <1>8, ApiCopies
<1> QED  BY <1>4, <1>5, <1>6, <1>7, <1>8 DEF Next

\* A deletion from documents: the document, and the agent that leaves it.
LEMMA DeletingShape ==
  ASSUME PInv, NEW a \in Agent, Working(a), Deleting(a)
  PROVE  /\ job[a].coll = "documents" /\ job[a].iid \in Iid
         /\ job[a].image.src = job[a].iid
         /\ store'["documents"][job[a].iid].src = 0
         /\ \A c \in Coll, i \in Iid : c # "documents" \/ i # job[a].iid =>
               store'[c][i] = store[c][i]
         /\ pc'[a] = "scan"
         /\ \A b \in Agent \ {a} : pc'[b] = pc[b] /\ job'[b] = job[b]
<1>1. /\ TypeOK /\ job[a] \in Job /\ JobShape(job[a]) /\ JobOK(a) /\ job[a].iid \in Iid
      /\ job[a].coll = "documents" => job[a].image.src = job[a].iid
  BY OwnShape
<1>2. job[a].coll = "documents"
  BY <1>1, TargetCases DEF Deleting, JobOK
<1>3. Put("documents", job[a].iid, NoDoc) /\ Leave(a, "scan")
  BY <1>2 DEF Deleting, Remove
<1>4. NoDoc \in Doc /\ NoDoc.src = 0 /\ "documents" \in Coll
  BY EmptyValues DEF NoDoc, Coll
<1>5. /\ store'["documents"][job[a].iid] = NoDoc
      /\ \A c \in Coll, i \in Iid : c # "documents" \/ i # job[a].iid =>
            store'[c][i] = store[c][i]
  BY <1>1, <1>3, <1>4, PutType
<1>6. pc'[a] = "scan" /\ \A b \in Agent \ {a} : pc'[b] = pc[b] /\ job'[b] = job[b]
  BY <1>1, <1>3, LeaveType DEF Place
<1> QED  BY <1>1, <1>2, <1>4, <1>5, <1>6

\* The first operation of a move: what it stores, and where.
LEMMA MoveStoringShape ==
  ASSUME PInv, NEW a \in Agent, NEW c, NEW i, MoveStoring(a, c, i)
  PROVE  /\ job[a].coll = "documents" /\ job[a].iid \in Iid
         /\ job[a].image.src = job[a].iid /\ job[a].image.did \in Did
         /\ Stored("documents", job[a].iid)
         /\ store["documents"][job[a].iid].by = a
         /\ c \in Elsewhere /\ i \in Iid
         /\ \/ i = job[a].iid /\ ~Stored(c, i)
            \/ /\ c \in {"failures", "published"} /\ Stored(c, i)
               /\ PublishedAs(i, job[a].image.did)
         /\ store'[c][i].src = job[a].iid /\ store'[c][i].did = job[a].image.did
         /\ \A d \in Coll, k \in Iid : d # c \/ k # i => store'[d][k] = store[d][k]
         /\ pc[a] = "save" /\ pc'[a] = "move" /\ job' = job
         /\ \A b \in Agent \ {a} : pc'[b] = pc[b]
<1> DEFINE j == job[a]
           doc == Unlocked(j.image)
<1>1. /\ Working(a) /\ Storing(a, c, i) /\ c # j.coll
  BY DEF MoveStoring
<1>2. /\ TypeOK /\ j \in Job /\ JobShape(j) /\ JobOK(a) /\ j.iid \in Iid
      /\ j.coll = "documents" => j.image.src = j.iid
      /\ j.image \in Doc /\ j.image.did \in Did
      /\ Stored(j.coll, j.iid) /\ store[j.coll][j.iid].by = a
  BY <1>1, OwnShape
<1>3. c \in Coll /\ i \in Iid /\ j.coll = "documents"
  BY <1>1, SavePlace DEF Storing
<1>4. c \in Elsewhere
  BY <1>1, <1>3 DEF Elsewhere
<1>5. \/ i = j.iid /\ ~Stored(c, i)
      \/ /\ c \in {"failures", "published"} /\ Stored(c, i)
         /\ PublishedAs(i, j.image.did)
  <2>1. CASE Replaces(j) /\ i = j.pubId /\ Stored(c, i)
    <3>1. c \in {"failures", "published"}
      BY <1>1, <1>2, <2>1, TargetCases DEF Storing
    <3>2. PublishedAs(i, j.image.did)
      BY <1>1, <1>2, <2>1 DEF JobOK, Replaces
    <3> QED  BY <2>1, <3>1, <3>2
  <2> QED  BY <1>1, <2>1 DEF Storing
<1>6. doc \in Doc /\ doc.src = j.image.src /\ doc.did = j.image.did
  <2>1. \A d \in Doc : Unlocked(d) \in Doc /\ Unlocked(d).src = d.src
                       /\ Unlocked(d).did = d.did
    BY DEF Unlocked, Doc
  <2> QED  BY <1>2, <2>1
<1>7. Put(c, i, doc) /\ Goto(a, "move") /\ job' = job /\ pc[a] = "save"
  BY <1>1 DEF Storing, Saved
<1> HIDE DEF doc
<1>8. /\ store'[c][i] = doc
      /\ \A d \in Coll, k \in Iid : d # c \/ k # i => store'[d][k] = store[d][k]
  BY <1>2, <1>3, <1>6, <1>7, PutType
<1>9. pc'[a] = "move" /\ \A b \in Agent \ {a} : pc'[b] = pc[b]
  BY <1>2, <1>7, GotoType DEF Place
<1> QED  BY <1>2, <1>3, <1>4, <1>5, <1>6, <1>7, <1>8, <1>9
-----------------------------------------------------------------------------
(* The steps keep MInv                                                       *)

\* A step that leaves the copies and the movers alone.
LEMMA QuietMoves ==
  ASSUME PInv, MInv, QuietStep, PublishedKept
  PROVE  MInv'
<1>1. /\ \A c \in Coll, i \in Iid : store'[c][i].src = store[c][i].src
      /\ \A c \in Elsewhere, i \in Iid : store'[c][i].src = store[c][i].src
      /\ {"documents", "failures", "published", "history"} \subseteq Coll
  BY DEF QuietStep, Elsewhere, Coll
<1>2. OneElsewhere'
  BY <1>1 DEF MInv, OneElsewhere, Stored
<1>3. FailuresApart'
  BY <1>1 DEF MInv, FailuresApart, Stored
<1>4. MovesBetween'
  <2>1. SUFFICES ASSUME NEW i \in Iid, NEW k \in Iid, NEW c \in Elsewhere,
                        store'["documents"][i].src # 0, store'[c][k].src # 0,
                        k = i \/ store'[c][k].src = i
                 PROVE  \E a \in Agent : Moving(a, i)'
    BY DEF MovesBetween, Stored
  <2>2. PICK a \in Agent : Moving(a, i)
    BY <1>1, <2>1 DEF MInv, MovesBetween, Stored
  <2> QED  BY <2>2 DEF Moving, QuietStep
<1>5. MoversHaveStored'
  <2>1. SUFFICES ASSUME NEW a \in Agent, pc'[a] = "move" PROVE HasStored(a)'
    BY DEF MoversHaveStored, HasStored
  <2>2. pc[a] = "move" /\ job'[a] = job[a] /\ HasStored(a)
    BY <2>1 DEF QuietStep, MInv, MoversHaveStored
  <2>3. job[a].iid \in Iid
    BY <2>2, OwnShape DEF Working
  <2> QED  BY <1>1, <2>2, <2>3 DEF HasStored, PublishedAs, PublishedKept, Stored
<1> QED  BY <1>2, <1>3, <1>4, <1>5 DEF MInv

\* A new document is nowhere else.
LEMMA CreatingMoves ==
  ASSUME PInv, MInv, Creating, PublishedKept
  PROVE  MInv'
<1> DEFINE n == ids + 1
<1>1. /\ \A c \in Elsewhere, i \in Iid : store'[c][i].src = store[c][i].src
      /\ \A i \in Iid : i # n => store'["documents"][i].src = store["documents"][i].src
      /\ {"failures", "published", "history"} \subseteq Elsewhere
  BY DEF Creating, Elsewhere, Coll
<1>2. OneElsewhere'
  BY <1>1 DEF MInv, OneElsewhere, Stored
<1>3. FailuresApart'
  BY <1>1 DEF MInv, FailuresApart, Stored
<1>4. MovesBetween'
  <2>1. SUFFICES ASSUME NEW i \in Iid, NEW k \in Iid, NEW c \in Elsewhere,
                        store'["documents"][i].src # 0, store'[c][k].src # 0,
                        k = i \/ store'[c][k].src = i
                 PROVE  \E a \in Agent : Moving(a, i)'
    BY DEF MovesBetween, Stored
  <2>2. k <= ids /\ store[c][k].src <= ids /\ ids \in Nat
    <3>1. DocShape(c, k, store[c][k], ids) /\ ids \in Nat
      BY DEF PInv, IInv, TypeOK, DocsOK, Elsewhere
    <3> QED  BY <1>1, <2>1, <3>1 DEF DocShape
  <2>3. i # n
    BY <1>1, <2>1, <2>2
  <2>4. PICK a \in Agent : Moving(a, i)
    BY <1>1, <2>1, <2>3 DEF MInv, MovesBetween, Stored
  <2> QED  BY <2>4 DEF Moving, Creating
<1>5. MoversHaveStored'
  <2>1. SUFFICES ASSUME NEW a \in Agent, pc'[a] = "move" PROVE HasStored(a)'
    BY DEF MoversHaveStored, HasStored
  <2>2. /\ pc[a] = "move" /\ job'[a].iid = job[a].iid /\ job'[a].image = job[a].image
        /\ HasStored(a)
    BY <2>1 DEF Creating, MInv, MoversHaveStored
  <2>3. job[a].iid \in Iid
    BY <2>2, OwnShape DEF Working
  <2> QED  BY <1>1, <2>2, <2>3 DEF HasStored, PublishedAs, PublishedKept, Stored
<1> QED  BY <1>2, <1>3, <1>4, <1>5 DEF MInv

\* A document leaves `documents`, and its agent leaves it.
LEMMA DeletingMoves ==
  ASSUME PInv, MInv, NEW a \in Agent, Working(a), Deleting(a), PublishedKept
  PROVE  MInv'
<1>1. /\ job[a].iid \in Iid
      /\ store'["documents"][job[a].iid].src = 0
      /\ \A c \in Coll, i \in Iid : c # "documents" \/ i # job[a].iid =>
            store'[c][i] = store[c][i]
      /\ pc'[a] = "scan"
      /\ \A b \in Agent \ {a} : pc'[b] = pc[b] /\ job'[b] = job[b]
  BY DeletingShape
<1>2. /\ \A c \in Elsewhere, i \in Iid : store'[c][i] = store[c][i]
      /\ {"failures", "published", "history"} \subseteq Elsewhere /\ "documents" \in Coll
  BY <1>1 DEF Elsewhere, Coll
<1>3. OneElsewhere'
  BY <1>2 DEF MInv, OneElsewhere, Stored
<1>4. FailuresApart'
  BY <1>2 DEF MInv, FailuresApart, Stored
<1>5. MovesBetween'
  <2>1. SUFFICES ASSUME NEW i \in Iid, NEW k \in Iid, NEW c \in Elsewhere,
                        store'["documents"][i].src # 0, store'[c][k].src # 0,
                        k = i \/ store'[c][k].src = i
                 PROVE  \E b \in Agent : Moving(b, i)'
    BY DEF MovesBetween, Stored
  <2>2. i # job[a].iid
    BY <1>1, <2>1
  <2>3. PICK b \in Agent : Moving(b, i)
    BY <1>1, <1>2, <2>1, <2>2 DEF MInv, MovesBetween, Stored
  <2> QED  BY <1>1, <2>2, <2>3 DEF Moving
<1>6. MoversHaveStored'
  <2>1. SUFFICES ASSUME NEW b \in Agent, pc'[b] = "move" PROVE HasStored(b)'
    BY DEF MoversHaveStored, HasStored
  <2>2. pc[b] = "move" /\ job'[b] = job[b] /\ HasStored(b)
    BY <1>1, <2>1 DEF MInv, MoversHaveStored
  <2>3. job[b].iid \in Iid
    BY <2>2, OwnShape DEF Working
  <2> QED  BY <1>2, <2>2, <2>3 DEF HasStored, PublishedAs, PublishedKept, Stored
<1> QED  BY <1>3, <1>4, <1>5, <1>6 DEF MInv

\* A document is stored elsewhere: it was not there yet, since nobody else can be
\* moving it.
LEMMA StoringMoves ==
  ASSUME PInv, MInv, NEW a \in Agent, NEW c, NEW i, MoveStoring(a, c, i), PublishedKept
  PROVE  MInv'
<1> DEFINE j == job[a]
           n == j.iid
<1>1. /\ n \in Iid /\ j.image.src = n
      /\ Stored("documents", n) /\ store["documents"][n].by = a
      /\ c \in Elsewhere /\ i \in Iid
      /\ \/ i = n /\ ~Stored(c, i)
         \/ /\ c \in {"failures", "published"} /\ Stored(c, i)
            /\ PublishedAs(i, j.image.did)
      /\ store'[c][i].src = n /\ store'[c][i].did = j.image.did
      /\ \A d \in Coll, k \in Iid : d # c \/ k # i => store'[d][k] = store[d][k]
      /\ pc[a] = "save" /\ pc'[a] = "move" /\ job' = job
      /\ \A b \in Agent \ {a} : pc'[b] = pc[b]
  BY MoveStoringShape
<1>2. /\ \A d \in Elsewhere, k \in Iid : d # c \/ k # i => store'[d][k] = store[d][k]
      /\ \A k \in Iid : store'["documents"][k] = store["documents"][k]
      /\ {"failures", "published", "history"} \subseteq Elsewhere
  BY <1>1 DEF Elsewhere, Coll
<1>3. n # 0
  BY <1>1 DEF Iid
<1>4. ~\E b \in Agent : Moving(b, n)
  <2>1. SUFFICES ASSUME NEW b \in Agent, pc[b] = "move", job[b].iid = n PROVE FALSE
    BY DEF Moving
  <2>2. /\ JobOK(b) /\ Working(b)
        /\ store[job[b].coll][job[b].iid].by = b
    BY <2>1, OwnShape DEF Working
  <2>3. job[b].coll = "documents"
    BY <2>1, <2>2 DEF JobOK
  <2>4. b = a
    BY <1>1, <2>1, <2>2, <2>3
  <2> QED  BY <1>1, <2>1, <2>4
<1>5. \A d \in Elsewhere, k \in Iid : Stored(d, k) => k # n /\ store[d][k].src # n
  BY <1>1, <1>4 DEF MInv, MovesBetween
<1>6. c = "published" \/ (i = n /\ ~Stored(c, i))
  <2>1. CASE c = "failures" /\ Stored(c, i) /\ PublishedAs(i, j.image.did)
    BY <1>1, <2>1 DEF MInv, FailuresApart, PublishedAs
  <2> QED  BY <1>1, <2>1
<1>7. OneElsewhere'
  <2>1. SUFFICES ASSUME NEW d \in Elsewhere, NEW e \in Elsewhere, NEW k \in Iid, NEW l \in Iid,
                        store'[d][k].src # 0, store'[d][k].src = store'[e][l].src
                 PROVE  d = e /\ k = l
    BY DEF OneElsewhere, Stored
  <2>2. CASE (d # c \/ k # i) /\ (e # c \/ l # i)
    BY <1>2, <2>1, <2>2 DEF MInv, OneElsewhere, Stored
  <2>3. CASE d = c /\ k = i /\ (e # c \/ l # i)
    BY <1>1, <1>2, <1>3, <1>5, <2>1, <2>3 DEF Stored
  <2>4. CASE (d # c \/ k # i) /\ e = c /\ l = i
    BY <1>1, <1>2, <1>3, <1>5, <2>1, <2>4 DEF Stored
  <2> QED  BY <2>2, <2>3, <2>4
<1>8. FailuresApart'
  <2>1. SUFFICES ASSUME NEW k \in Iid, store'["failures"][k].src # 0,
                        store'["published"][k].src # 0
                 PROVE  FALSE
    BY DEF FailuresApart, Stored
  <2>2. CASE k # i
    BY <1>2, <2>1, <2>2 DEF MInv, FailuresApart, Stored
  <2>3. CASE k = i /\ i = n
    BY <1>1, <1>2, <1>5, <2>1, <2>3 DEF Stored
  <2>4. CASE k = i /\ i # n
    <3>1. c = "published" /\ Stored("published", i)
      BY <1>1, <1>6, <2>4
    <3>2. store'["failures"][i] = store["failures"][i]
      BY <1>1, <1>2, <3>1
    <3> QED  BY <1>1, <2>1, <2>4, <3>1, <3>2 DEF MInv, FailuresApart, Stored
  <2> QED  BY <2>2, <2>3, <2>4
<1>9. MovesBetween'
  <2>1. SUFFICES ASSUME NEW m \in Iid, NEW k \in Iid, NEW d \in Elsewhere,
                        store'["documents"][m].src # 0, store'[d][k].src # 0,
                        k = m \/ store'[d][k].src = m
                 PROVE  \E b \in Agent : Moving(b, m)'
    BY DEF MovesBetween, Stored
  <2>2. CASE m = n
    BY <1>1, <2>2 DEF Moving
  <2>3. CASE m # n
    <3>1. PICK b \in Agent : Moving(b, m)
      <4>1. CASE d # c \/ k # i
        BY <1>2, <2>1, <4>1 DEF MInv, MovesBetween, Stored
      <4>2. CASE d = c /\ k = i
        <5>1. k = m /\ Stored(c, i)
          BY <1>1, <2>1, <2>3, <4>2
        <5> QED  BY <1>1, <1>2, <2>1, <4>2, <5>1 DEF MInv, MovesBetween, Stored
      <4> QED  BY <4>1, <4>2
    <3>2. b # a
      BY <1>1, <3>1 DEF Moving
    <3> QED  BY <1>1, <3>1, <3>2 DEF Moving
  <2> QED  BY <2>2, <2>3
<1>10. MoversHaveStored'
  <2>1. ASSUME NEW b \in Agent \ {a}, pc'[b] = "move" PROVE HasStored(b)'
    <3>1. pc[b] = "move" /\ job'[b] = job[b] /\ HasStored(b)
      BY <1>1, <2>1 DEF MInv, MoversHaveStored
    <3>2. job[b].iid \in Iid /\ job[b].image.src # 0
      BY <3>1, OwnShape DEF Working
    <3>3. CASE \E k \in Iid : PublishedAs(k, job[b].image.did)
      BY <3>1, <3>3 DEF HasStored, PublishedAs, PublishedKept, Stored
    <3>4. ASSUME NEW d \in {"failures", "history"},
                 store[d][job[b].iid].src = job[b].image.src
          PROVE  HasStored(b)'
      <4>1. store'[d][job[b].iid] = store[d][job[b].iid]
        BY <1>2, <1>6, <3>2, <3>4 DEF Stored
      <4> QED  BY <3>1, <3>4, <4>1 DEF HasStored
    <3> QED  BY <3>1, <3>3, <3>4 DEF HasStored
  <2>2. HasStored(a)'
    <3>1. CASE c = "published"
      BY <1>1, <1>3, <3>1 DEF HasStored, PublishedAs, Stored
    <3>2. CASE c # "published"
      <4>1. c \in {"failures", "history"} /\ i = n
        BY <1>1, <1>6, <3>2 DEF Elsewhere, Coll
      <4> QED  BY <1>1, <4>1 DEF HasStored
    <3> QED  BY <3>1, <3>2
  <2> QED  BY <2>1, <2>2 DEF MoversHaveStored, HasStored
<1> QED  BY <1>7, <1>8, <1>9, <1>10 DEF MInv

LEMMA NextKeepsMInv ==
  ASSUME NoKillInMove
  PROVE  PInv /\ MInv /\ [Next]_vars => MInv'
<1> SUFFICES ASSUME PInv, MInv, [Next]_vars PROVE MInv'
  OBVIOUS
<1>1. PublishedKept
  BY NextKept DEF Kept
<1> QED  BY <1>1, StepCases, QuietMoves, CreatingMoves, DeletingMoves, StoringMoves

LEMMA InitMInv == Init => MInv
<1> SUFFICES ASSUME Init PROVE MInv
  OBVIOUS
<1>1. \A c \in Elsewhere, i \in Iid : ~Stored(c, i)
  BY DEF Init, Elsewhere, Stored, NoDoc
<1>2. "failures" \in Elsewhere
  BY DEF Elsewhere, Coll
<1>3. \A a \in Agent : pc[a] # "move"
  BY DEF Init
<1> QED  BY <1>1, <1>2, <1>3 DEF MInv, OneElsewhere, FailuresApart, MovesBetween,
                                 MoversHaveStored, HasStored

\* The invariant about the copies of the documents.
THEOREM MovesInvariant ==
  ASSUME NoKillInMove
  PROVE  Spec => [](PInv /\ MInv)
<1>1. PInv /\ MInv /\ [Next]_vars => (PInv /\ MInv)'
  BY NextKeepsPInv, NextKeepsMInv
<1> QED  BY <1>1, InitPInv, InitMInv, PTL DEF Spec

\* Two copies of a document are there only while an agent moves it.
LEMMA OneCopyHolds == PInv /\ MInv => OneCopy
<1> SUFFICES ASSUME PInv, MInv, NEW src \in Iid, Cardinality(Copies(src)) > 1
             PROVE  \E a \in Agent : pc[a] = "move" /\ job[a].image.src = src
  BY DEF OneCopy
<1>1. PICK p \in Copies(src), q \in Copies(src) : p # q
  <2>1. CASE Copies(src) = {}
    BY <2>1, FS_EmptySet
  <2>2. ASSUME NEW p \in Copies(src), \A q \in Copies(src) : p = q PROVE FALSE
    <3>1. Copies(src) = {p}
      BY <2>2
    <3>2. Cardinality({p}) = 1
      BY FS_Singleton
    <3> QED  BY <3>1, <3>2
  <2> QED  BY <2>1, <2>2
<1>2. /\ p[1] \in Coll /\ p[2] \in Iid /\ store[p[1]][p[2]].src = src
      /\ q[1] \in Coll /\ q[2] \in Iid /\ store[q[1]][q[2]].src = src
      /\ p[1] # q[1] \/ p[2] # q[2]
  BY <1>1 DEF Copies
<1>3. src # 0
  BY DEF Iid
<1>4. ASSUME NEW c \in Elsewhere, NEW i \in Iid, NEW k \in Iid,
             store["documents"][i].src = src, store[c][k].src = src
      PROVE  \E a \in Agent : pc[a] = "move" /\ job[a].image.src = src
  <2>1. i = src
    <3>1. DocShape("documents", i, store["documents"][i], ids)
      BY DEF PInv, DocsOK, Coll
    <3> QED  BY <1>3, <1>4, <3>1 DEF DocShape
  <2>2. PICK a \in Agent : Moving(a, i)
    BY <1>3, <1>4, <2>1 DEF MInv, MovesBetween, Stored
  <2>3. /\ pc[a] = "move" /\ job[a].iid = src /\ JobOK(a) /\ Working(a)
        /\ job[a].coll = "documents" => job[a].image.src = job[a].iid
    BY <2>1, <2>2, OwnShape DEF Moving, Working
  <2> QED  BY <2>3 DEF JobOK
<1>5. CASE p[1] # "documents" /\ q[1] # "documents"
  BY <1>2, <1>3, <1>5 DEF MInv, OneElsewhere, Elsewhere, Stored
<1>6. CASE p[1] = "documents" /\ q[1] = "documents"
  <2>1. /\ DocShape("documents", p[2], store["documents"][p[2]], ids)
        /\ DocShape("documents", q[2], store["documents"][q[2]], ids)
    BY <1>2 DEF PInv, DocsOK, Coll
  <2> QED  BY <1>2, <1>3, <1>6, <2>1 DEF DocShape
<1>7. CASE p[1] = "documents" /\ q[1] # "documents"
  BY <1>2, <1>4, <1>7 DEF Elsewhere
<1>8. CASE p[1] # "documents" /\ q[1] = "documents"
  BY <1>2, <1>4, <1>8 DEF Elsewhere
<1> QED  BY <1>5, <1>6, <1>7, <1>8

\* A document is in one collection, except while an agent moves it: whatever other
\* agents, publishers of the same document_id, recoveries and restarts do, a move is
\* never begun for a document that is elsewhere already, and it is always ended.
THEOREM OneCopyAlways ==
  ASSUME NoKillInMove
  PROVE  Spec => []OneCopy
  BY MovesInvariant, OneCopyHolds, PTL
\* What a step that removes the last copy of a document does.
Justified(src) ==
    \/ \E a \in Agent :
          /\ job[a].image.src = src
          /\ \/ /\ pc[a] = "save" /\ ~job[a].image.error
                /\ job[a].marks \cap {"delete", "abort"} # {}
             \/ /\ pc[a] = "move"
                /\ \E did \in Did : /\ did = job[a].image.did
                                   /\ PublishedCopies(did)' # {}
    \/ \E i \in Iid :
          /\ store["published"][i].src = src
          /\ store'["published"][i].src # 0
          /\ store'["published"][i].did = store["published"][i].did

LEMMA LastCopy ==
  ASSUME PInv, MInv, NoKillInMove, [Next]_vars, NEW src \in Iid,
         Copies(src) # {}, Copies(src)' = {}
  PROVE  Justified(src)
<1>1. PublishedKept
  BY NextKept DEF Kept
<1>2. PICK c \in Coll, i \in Iid : store[c][i].src = src
  BY DEF Copies
<1>3. \A d \in Coll, k \in Iid : store'[d][k].src # src
  <2>1. SUFFICES ASSUME NEW d \in Coll, NEW k \in Iid, store'[d][k].src = src
                 PROVE  <<d, k>> \in Copies(src)'
    OBVIOUS
  <2> QED  BY <2>1 DEF Copies
<1>4. src # 0
  BY DEF Iid
<1>5. ~QuietStep
  BY <1>2, <1>3 DEF QuietStep
<1>6. ~Creating
  BY <1>2, <1>3, <1>4 DEF Creating, Stored
<1>7. ASSUME NEW a \in Agent, Working(a), Deleting(a) PROVE Justified(src)
  <2>1. /\ job[a].iid \in Iid /\ job[a].image.src = job[a].iid
        /\ job[a].coll = "documents"
        /\ \A d \in Coll, k \in Iid : d # "documents" \/ k # job[a].iid =>
              store'[d][k] = store[d][k]
    BY <1>7, DeletingShape
  <2>2. job[a].image.src = src
    <3>1. c = "documents" /\ i = job[a].iid
      BY <1>2, <1>3, <2>1
    <3>2. store["documents"][i].src = job[a].image.src
      BY <1>7, <2>1, <3>1, OwnShape
    <3> QED  BY <1>2, <3>1, <3>2
  <2>3. CASE pc[a] = "save" /\ Deletes(job[a])
    BY <2>2, <2>3 DEF Deletes, Justified
  <2>4. CASE pc[a] = "move"
    <3>1. ~\E d \in {"failures", "history"} : store[d][job[a].iid].src = job[a].image.src
      BY <1>3, <2>1, <2>2 DEF Coll
    <3>2. PICK k \in Iid : PublishedAs(k, job[a].image.did)
      BY <2>4, <3>1 DEF MInv, MoversHaveStored, HasStored
    <3>3. store'["published"][k].src # 0 /\ store'["published"][k].did = job[a].image.did
      BY <1>1, <3>2 DEF PublishedKept, PublishedAs
    <3>4. job[a].image.did \in Did
      BY <1>7, OwnShape
    <3>5. PICK did \in Did : did = job[a].image.did
      BY <3>4
    <3>6. PublishedCopies(did)' # {}
      BY <3>3, <3>5 DEF PublishedCopies, Stored
    <3> QED  BY <2>2, <2>4, <3>5, <3>6 DEF Justified
  <2> QED  BY <1>7, <2>3, <2>4 DEF Deleting
<1>8. ASSUME NEW a \in Agent, NEW d, NEW k, MoveStoring(a, d, k) PROVE Justified(src)
  <2>1. /\ d \in Elsewhere /\ k \in Iid
        /\ \/ k = job[a].iid /\ ~Stored(d, k)
           \/ d \in {"failures", "published"} /\ PublishedAs(k, job[a].image.did)
        /\ store'[d][k].src = job[a].iid /\ job[a].iid \in Iid
        /\ \A e \in Coll, l \in Iid : e # d \/ l # k => store'[e][l] = store[e][l]
    BY <1>8, MoveStoringShape
  <2>2. c = d /\ i = k /\ Stored(d, k)
    BY <1>2, <1>3, <1>4, <2>1 DEF Stored
  <2>3. d = "published"
    BY <2>1, <2>2 DEF MInv, FailuresApart, PublishedAs
  <2>4. /\ store'["published"][i].src # 0
        /\ store'["published"][i].did = store["published"][i].did
    BY <1>1, <2>2, <2>3 DEF PublishedKept
  <2> QED  BY <1>2, <2>2, <2>3, <2>4 DEF Justified
<1> QED  BY <1>5, <1>6, <1>7, <1>8, StepCases

\* The last copy of a document goes only when its action has decided so without an
\* error, or when another version is published under its document_id: neither a
\* publisher that replaces a version, nor two agents that move at the same time,
\* nor an error on the way lose one.
THEOREM NoVersionIsLost ==
  ASSUME NoKillInMove
  PROVE  Spec => NoVersionLost
<1> DEFINE Step == \A src \in Iid : Copies(src) # {} /\ Copies(src)' = {} => Justified(src)
<1>1. PInv /\ MInv /\ [Next]_vars => [Step]_vars
  BY LastCopy
<1>2. NoVersionLost <=> [][Step]_vars
  BY DEF NoVersionLost, Justified
<1> HIDE DEF Step
<1> QED  BY <1>1, <1>2, MovesInvariant, PTL DEF Spec
=============================================================================
