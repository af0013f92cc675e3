-------------------------- MODULE Membership_proofs --------------------------
(***************************************************************************)
(* Proofs about Membership, for any users, groups and requests.             *)
(*                                                                         *)
(* SidesAgree is not inductive: that a request which ends leaves its pairs  *)
(* the same on both sides follows from what is left of it, which is what     *)
(* Completes says of a pair that nobody else has touched.                    *)
(***************************************************************************)
EXTENDS Membership, TLAPS

SavesOf(r) == request[r].todo \cup ({request[r].last} \ {None})

\* An account that is not stored lists nothing, and neither does such an image.
PlainDocument(d) == d.is # "stored" => d.lists = {}
Plain == \A x \in Account : PlainDocument(db[x])

\* Images list accounts of the other side only.
Proper(s) == PlainDocument(s.image) /\ \A y \in s.image.lists : {s.doc, y} \in Pair
Paired == \A r \in Request : \A s \in SavesOf(r) : Proper(s)

\* A request is about whatever its saves are to change.
Covered == \A r \in Request : \A s \in SavesOf(r) : \A y \in Changed(s.seen, s.image) :
              {s.doc, y} \in request[r].pairs

\* What two requests are about is exposed.
Contested == \A r, q \in Request : r # q => request[r].pairs \cap request[q].pairs \subseteq exposed

AloneIsAlone == \A r, q \in Request :
                   r # q /\ request[r] # Idle /\ request[q] # Idle => ~request[r].alone

\* What a request is about has the account it saves last on one side.
AroundLast == \A r \in Request : request[r].last # None =>
                 \A p \in request[r].pairs : \E y \in Account : p = {request[r].last.doc, y}

\* The other side of a pair is, or is still to be made, what the last save makes of
\* this one.
Agrees(s, last, y) == last.doc \in s.lists <=> y \in last.image.lists

WillAgree(todo, last, y) ==
    \A t \in todo : t.doc = y => Agrees(t.image, last, y)

Completes == \A r \in Request : request[r].last # None =>
    \A y \in Account :
       LET p == {request[r].last.doc, y} IN
       p \in request[r].pairs /\ (p \notin exposed \/ request[r].alone) =>
          /\ WillAgree(request[r].todo, request[r].last, y)
          /\ \/ \E t \in request[r].todo : t.doc = y
             \/ Agrees(db[y], request[r].last, y)

\* Only the last save deletes.  Except for the dummy user, what a request is to save
\* was there when the request loaded it, and is there still if it was alone.
Present == \A r \in Request :
    /\ \A t \in request[r].todo : t.image.is = "stored"
    /\ \A s \in SavesOf(r) :
          \/ s = dummy_user
          \/ s.seen.is = "stored" /\ (request[r].alone => db[s.doc].is = "stored")

\* The dummy user is saved as it was loaded.
Dummy == dummy_user.seen = dummy_user.image /\ Proper(dummy_user)

IInv ==
    /\ TypeOK /\ Dummy /\ Plain /\ Paired /\ Covered /\ Contested /\ AloneIsAlone
    /\ AroundLast /\ Completes /\ Present /\ SidesAgree

-----------------------------------------------------------------------------
(* Pairs.                                                                    *)

\* The two accounts of a pair are different ones.
LEMMA PairAccounts ==
    ASSUME NEW x \in Account, NEW y, {x, y} \in Pair
    PROVE  y \in Account /\ x # y
BY ConstantsAssumption DEF Pair, Account

\* A pair has two accounts.
LEMMA PairOf ==
    ASSUME NEW p \in Pair
    PROVE  \E x, y \in Account : p = {x, y} /\ x # y
BY ConstantsAssumption DEF Pair, Account

\* Sides are the same when both list the other or neither does.
LEMMA SidesOf ==
    ASSUME NEW docs, NEW x, NEW y, x # y
    PROVE  OneSided(docs, {x, y}) <=> ~(y \in docs[x].lists <=> x \in docs[y].lists)
BY DEF OneSided

\* A pair that does not become one-sided by itself becomes so by a change.
LEMMA OnlyChanges ==
    ASSUME NEW a, NEW b, NEW c, NEW p \in Pair, OneSided(b, p), ~OneSided(a, p),
           \A x \in Account : x # c => b[x].lists = a[x].lists
    PROVE  \E y \in Account : p = {c, y} /\ y \in Changed(a[c], b[c])
<1>1. PICK x \in Account, y \in Account : p = {x, y} /\ x # y
  BY PairOf
<1>2. ~(y \in b[x].lists <=> x \in b[y].lists) /\ (y \in a[x].lists <=> x \in a[y].lists)
  BY <1>1, SidesOf
<1>3. CASE c = x
  BY <1>1, <1>2, <1>3 DEF Changed
<1>4. CASE c = y
  BY <1>1, <1>2, <1>4 DEF Changed
<1>5. CASE c # x /\ c # y
  BY <1>1, <1>2, <1>5
<1> QED
  BY <1>3, <1>4, <1>5

-----------------------------------------------------------------------------
(* The start.                                                                *)

LEMMA InitIInv == Init => IInv
<1> SUFFICES ASSUME Init PROVE IInv
  OBVIOUS
<1> USE DEF Init
<1>d. PICK x \in User \ Permanent :
         /\ dummy_user = Loaded(x, With({}))
         /\ db = [y \in Account |-> IF y \in Permanent \cup {x} THEN With({}) ELSE New]
  OBVIOUS
<1>1. \A r \in Request : request[r] = Idle /\ SavesOf(r) = {} /\ request[r].todo = {}
                         /\ request[r].last = None /\ request[r].pairs = {}
  BY DEF Idle, SavesOf
<1>2. /\ \A y \in Account : db[y] \in Document /\ db[y].lists = {}
      /\ With({}) \in Document /\ With({}).lists = {}
  BY <1>d DEF With, New, Document
<1>6. dummy_user \in Save /\ Dummy
  BY <1>d, <1>2 DEF Loaded, Save, Account, Dummy, Proper, PlainDocument
<1>3. TypeOK
  <2>1. Idle \in RequestType
    BY DEF Idle, RequestType
  <2> QED
    BY <1>1, <1>2, <1>6, <1>d, <2>1, ConstantsAssumption DEF TypeOK
<1>4. Plain /\ SidesAgree
  <2>1. Plain
    BY <1>2 DEF Plain, PlainDocument
  <2>2. ASSUME NEW p \in Pair PROVE ~OneSided(db, p)
    <3>1. p \subseteq Account
      BY DEF Pair, Account
    <3> QED
      BY <1>2, <3>1 DEF OneSided
  <2> QED
    BY <2>1, <2>2 DEF SidesAgree
<1>5. Paired /\ Covered /\ Contested /\ AloneIsAlone /\ AroundLast /\ Completes /\ Present
  BY <1>1 DEF Paired, Covered, Contested, AloneIsAlone, AroundLast, Completes, Present
<1> QED
  BY <1>3, <1>4, <1>5, <1>6 DEF IInv

-----------------------------------------------------------------------------
(* Requests begin.                                                           *)

\* What Begin is given: saves of what there is or of the dummy user, about pairs around
\* the last one, whose other sides are all to be made the same.
Read(s) == s.seen = db[s.doc] /\ db[s.doc].is = "stored"

Sound(todo, last) ==
    LET S == todo \cup ({last} \ {None}) IN
    /\ todo \subseteq Save /\ last \in Save \cup {None}
    /\ \A s \in S : Proper(s) /\ (s = dummy_user \/ Read(s))
    /\ \A t \in todo : t.image.is = "stored"
    /\ last # None =>
          /\ \A p \in Meant(S) : \E y \in Account : p = {last.doc, y}
          /\ \A y \in Account : {last.doc, y} \in Meant(S) =>
                (\E t \in todo : t.doc = y) /\ WillAgree(todo, last, y)

\* Saves change pairs only.
LEMMA MeantPairs ==
    ASSUME TypeOK, Dummy, NEW S \in SUBSET Save,
           \A s \in S : Proper(s) /\ (s = dummy_user \/ Read(s))
    PROVE  Meant(S) \subseteq Pair
<1> SUFFICES ASSUME NEW s \in S, NEW y \in Changed(s.seen, s.image)
             PROVE  {s.doc, y} \in Pair
  BY DEF Meant
<1>1. s.doc \in Account
  BY DEF Save
<1>2. CASE y \in s.image.lists
  BY <1>2 DEF Proper
<1>3. CASE y \in s.seen.lists /\ Read(s)
  BY <1>1, <1>3 DEF TypeOK, Read
<1>4. CASE y \in s.seen.lists /\ s = dummy_user
  BY <1>2, <1>4 DEF Dummy
<1> QED
  BY <1>2, <1>3, <1>4 DEF Changed

LEMMA BeginKeeps ==
    ASSUME IInv, NEW r \in Request, NEW todo, NEW last, NEW blocked \in BOOLEAN,
           Sound(todo, last), Begin(r, todo, last, blocked)
    PROVE  IInv'
<1> DEFINE S == todo \cup ({last} \ {None})
           pairs == Meant(S)
           mine == [todo |-> todo, last |-> last, blocked |-> blocked,
                    pairs |-> pairs, alone |-> UnderWay = {}]
<1>a. db' = db /\ used' = used /\ dummy_user' = dummy_user
      /\ request[r] = Idle
      /\ exposed' = exposed \cup {p \in pairs : \E q \in UnderWay : p \in request[q].pairs}
  BY DEF Begin
<1>b. request' = [q \in Request |->
                    IF q = r THEN mine
                    ELSE IF q \in UnderWay THEN [request[q] EXCEPT !.alone = FALSE]
                    ELSE Idle]
  BY DEF Begin
<1>m. request'[r].todo = todo /\ request'[r].last = last /\ request'[r].pairs = pairs
      /\ request'[r].alone = (UnderWay = {}) /\ SavesOf(r)' = S
  BY <1>b DEF SavesOf
<1>t. request \in [Request -> RequestType]
  BY DEF IInv, TypeOK
<1>i. Idle.todo = {} /\ Idle.last = None /\ Idle.pairs = {} /\ Idle.alone = TRUE
  BY DEF Idle
<1>o. ASSUME NEW q \in Request, q # r
      PROVE  /\ request'[q].todo = request[q].todo /\ request'[q].last = request[q].last
             /\ request'[q].pairs = request[q].pairs /\ SavesOf(q)' = SavesOf(q)
             /\ request'[q].alone => request[q].alone /\ request'[q] = Idle
             /\ request'[q] # Idle => request[q] # Idle /\ ~request'[q].alone
  <2>1. CASE q \in UnderWay
    <3>1. request'[q] = [request[q] EXCEPT !.alone = FALSE] /\ request[q] # Idle
      BY <1>b, <1>o, <2>1 DEF UnderWay
    <3> QED
      BY <3>1, <1>t, <1>o, <1>i DEF RequestType, SavesOf
  <2>2. CASE q \notin UnderWay
    <3>1. request'[q] = Idle /\ request[q] = Idle
      BY <1>b, <1>o, <2>2 DEF UnderWay
    <3> QED
      BY <3>1, <1>i DEF SavesOf
  <2> QED
    BY <2>1, <2>2
<1>p. pairs \subseteq Pair
  BY MeantPairs DEF IInv, Sound
<1>1. TypeOK'
  <2>1. mine \in RequestType
    BY <1>p DEF Sound, RequestType
  <2>2. Idle \in RequestType
    BY DEF RequestType, Idle
  <2>3. \A q \in UnderWay : q \in Request /\ [request[q] EXCEPT !.alone = FALSE] \in RequestType
    BY <1>t DEF UnderWay, RequestType
  <2>4. request' \in [Request -> RequestType]
    BY <1>b, <2>1, <2>2, <2>3
  <2> QED
    BY <1>a, <1>p, <2>4 DEF IInv, TypeOK
<1>2. Plain'
  BY <1>a DEF IInv, Plain, PlainDocument
<1>3. Paired' /\ Covered'
  <2>1. ASSUME NEW q \in Request, NEW s \in SavesOf(q)'
        PROVE  Proper(s) /\ \A y \in Changed(s.seen, s.image) : {s.doc, y} \in request'[q].pairs
    <3>1. CASE q = r
      BY <2>1, <3>1, <1>m DEF Sound, Meant
    <3>2. CASE q # r
      BY <2>1, <3>2, <1>o DEF IInv, Paired, Covered
    <3> QED
      BY <3>1, <3>2
  <2> QED
    BY <2>1 DEF Paired, Covered, Proper, PlainDocument, Changed
<1>4. Contested'
  <2>1. ASSUME NEW q \in Request, NEW o \in Request, q # o,
               NEW p \in request'[q].pairs \cap request'[o].pairs
        PROVE  p \in exposed'
    <3>1. CASE q # r /\ o # r
      BY <3>1, <2>1, <1>a, <1>o DEF IInv, Contested
    <3>2. ASSUME NEW z \in Request, z # r, p \in request'[z].pairs, p \in request'[r].pairs
          PROVE  p \in exposed'
      <4>1. p \in request[z].pairs /\ p \in pairs
        BY <3>2, <1>o, <1>m
      <4>2. z \in UnderWay
        BY <4>1, <1>i DEF UnderWay
      <4> QED
        BY <4>1, <4>2, <1>a
    <3> QED
      BY <2>1, <3>1, <3>2
  <2> QED
    BY <2>1 DEF Contested
<1>5. AloneIsAlone'
  <2> SUFFICES ASSUME NEW q \in Request, NEW o \in Request, q # o,
                      request'[q] # Idle, request'[o] # Idle
               PROVE  ~request'[q].alone
    BY DEF AloneIsAlone, Idle
  <2>1. CASE q # r
    BY <2>1, <1>o
  <2>2. CASE q = r
    <3>1. request[o] # Idle
      BY <2>2, <1>o
    <3> QED
      BY <2>2, <3>1, <1>m DEF UnderWay
  <2> QED
    BY <2>1, <2>2
<1>6. AroundLast'
  <2>1. ASSUME NEW q \in Request, request'[q].last # None, NEW p \in request'[q].pairs
        PROVE  \E y \in Account : p = {request'[q].last.doc, y}
    <3>1. CASE q = r
      BY <2>1, <3>1, <1>m DEF Sound
    <3>2. CASE q # r
      BY <2>1, <3>2, <1>o DEF IInv, AroundLast
    <3> QED
      BY <3>1, <3>2
  <2> QED
    BY <2>1 DEF AroundLast
<1>7. Completes'
  <2>1. ASSUME NEW q \in Request, request'[q].last # None, NEW y \in Account,
               {request'[q].last.doc, y} \in request'[q].pairs,
               {request'[q].last.doc, y} \notin exposed' \/ request'[q].alone
        PROVE  /\ WillAgree(request'[q].todo, request'[q].last, y)
               /\ \/ \E t \in request'[q].todo : t.doc = y
                  \/ Agrees(db[y], request'[q].last, y)
    <3>1. CASE q = r
      BY <2>1, <3>1, <1>m DEF Sound
    <3>2. CASE q # r
      <4>1. {request[q].last.doc, y} \notin exposed \/ request[q].alone
        BY <2>1, <3>2, <1>o, <1>a
      <4> QED
        BY <2>1, <4>1, <3>2, <1>o DEF IInv, Completes
    <3> QED
      BY <3>1, <3>2
  <2> QED
    BY <2>1, <1>a DEF Completes, WillAgree, Agrees
<1>8. Present'
  <2>1. ASSUME NEW q \in Request
        PROVE  /\ \A t \in request'[q].todo : t.image.is = "stored"
               /\ \A s \in SavesOf(q)' :
                     \/ s = dummy_user
                     \/ s.seen.is = "stored" /\ (request'[q].alone => db[s.doc].is = "stored")
    <3>1. CASE q = r
      BY <3>1, <1>m DEF Sound, Read
    <3>2. CASE q # r
      BY <3>2, <1>o DEF IInv, Present
    <3> QED
      BY <3>1, <3>2
  <2> QED
    BY <2>1, <1>a DEF Present
<1>9. SidesAgree'
  <2> SUFFICES ASSUME NEW p \in Pair, OneSided(db, p)
               PROVE  p \in exposed' \/ \E q \in Request : p \in request'[q].pairs
    BY <1>a DEF SidesAgree, OneSided
  <2>1. p \in exposed \/ \E q \in Request : p \in request[q].pairs
    BY DEF IInv, SidesAgree
  <2>2. ASSUME NEW q \in Request, p \in request[q].pairs
        PROVE  p \in request'[q].pairs
    BY <2>2, <1>o, <1>a, <1>i
  <2> QED
    BY <2>1, <2>2, <1>a
<1>10. Dummy'
  BY <1>a DEF IInv, Dummy, Proper, PlainDocument
<1> QED
  BY <1>1, <1>2, <1>3, <1>4, <1>5, <1>6, <1>7, <1>8, <1>9, <1>10 DEF IInv
-----------------------------------------------------------------------------
(* A document is saved.                                                      *)

\* request[r] without the save s: the request goes on, or it ends with its last save.
Proceeds(r, s) ==
    \/ /\ s \in request[r].todo
       /\ request' = [request EXCEPT ![r].todo = @ \ {s}]
    \/ /\ request[r].todo = {} /\ request[r].last # None /\ s = request[r].last
       /\ request' = [request EXCEPT ![r] = Idle]

\* Of a save: its request is under way, and the documents besides its own stay.
LEMMA SaveFacts ==
    ASSUME IInv, NEW r \in Request, NEW s, Proceeds(r, s), save(r, s)
    PROVE  /\ s \in SavesOf(r) /\ s \in Save /\ request[r] # Idle
           /\ s.doc \in Account /\ s.image \in Document /\ Proper(s)
           /\ \A y \in Changed(s.seen, s.image) : {s.doc, y} \in request[r].pairs
           /\ db'[s.doc] = s.image
           /\ \A x \in Account : x # s.doc => db'[x] = db[x]
           /\ exposed' = StillExposed(exposed \cup
                {{s.doc, y} : y \in Changed(db[s.doc], s.image) \ Changed(s.seen, s.image)})
<1>t. request[r] \in RequestType /\ db \in [Account -> Document]
  BY DEF IInv, TypeOK
<1>1. s \in SavesOf(r) /\ s \in Save /\ request[r] # Idle
  BY <1>t DEF Proceeds, SavesOf, RequestType, Idle
<1>2. s.doc \in Account /\ s.image \in Document
  BY <1>1 DEF Save
<1>3. Proper(s) /\ \A y \in Changed(s.seen, s.image) : {s.doc, y} \in request[r].pairs
  BY <1>1 DEF IInv, Paired, Covered
<1> QED
  BY <1>t, <1>1, <1>2, <1>3 DEF save

\* Of the requests after a save: what is left of them was there before.
LEMMA SaveRequests ==
    ASSUME IInv, NEW r \in Request, NEW s, Proceeds(r, s), NEW q \in Request
    PROVE  /\ request' \in [Request -> RequestType]
           /\ SavesOf(q)' \subseteq SavesOf(q)
           /\ request'[q].todo \subseteq request[q].todo
           /\ q # r => request'[q] = request[q]
           /\ request'[q] # Idle => request[q] # Idle /\ request'[q].pairs = request[q].pairs
                                    /\ request'[q].last = request[q].last
                                    /\ request'[q].alone = request[q].alone
           /\ request'[q] = Idle => request'[q].pairs = {} /\ SavesOf(q)' = {}
                                    /\ request'[q].last = None
<1>t. request \in [Request -> RequestType]
  BY DEF IInv, TypeOK
<1>i. /\ Idle \in RequestType
      /\ Idle.todo = {} /\ Idle.last = None /\ Idle.pairs = {}
  BY DEF Idle, RequestType
<1>1. CASE q # r
  <2>1. request'[q] = request[q]
    BY <1>1, <1>t DEF Proceeds
  <2>2. request' \in [Request -> RequestType]
    BY <1>t, <1>i DEF Proceeds, RequestType
  <2> QED
    BY <1>1, <1>i, <2>1, <2>2 DEF SavesOf
<1>2. CASE q = r /\ request' = [request EXCEPT ![r].todo = @ \ {s}] /\ s \in request[r].todo
  <2>1. request'[q] = [request[q] EXCEPT !.todo = @ \ {s}]
    BY <1>2, <1>t
  <2>2. request' \in [Request -> RequestType]
    BY <1>t, <1>2 DEF RequestType
  <2>3. request[q] # Idle
    BY <1>2 DEF Idle
  <2>4. /\ request'[q].todo = request[q].todo \ {s} /\ request'[q].last = request[q].last
        /\ request'[q].pairs = request[q].pairs /\ request'[q].alone = request[q].alone
    BY <2>1, <1>t DEF RequestType
  <2> QED
    BY <1>2, <1>i, <2>2, <2>3, <2>4 DEF SavesOf
<1>3. CASE q = r /\ request' = [request EXCEPT ![r] = Idle]
  <2>1. request'[q] = Idle
    BY <1>3, <1>t
  <2>2. request' \in [Request -> RequestType]
    BY <1>t, <1>3, <1>i
  <2> QED
    BY <1>3, <1>i, <2>1, <2>2 DEF SavesOf
<1> QED
  BY <1>1, <1>2, <1>3 DEF Proceeds

\* A pair keeps being exposed while somebody is about it.
LEMMA SaveExposes ==
    ASSUME IInv, NEW r \in Request, NEW s, Proceeds(r, s), save(r, s),
           NEW q \in Request, NEW p \in request'[q].pairs, p \notin exposed'
    PROVE  /\ p \notin exposed
           /\ \A y : p = {s.doc, y} =>
                 y \notin Changed(db[s.doc], s.image) \/ y \in Changed(s.seen, s.image)
BY SaveFacts DEF StillExposed

\* The last account of a request that ends, and any it is still about, are the same
\* on both sides.
LEMMA FinishSettles ==
    ASSUME IInv, NEW r \in Request, Finish(r), NEW p \in request[r].pairs,
           p \notin exposed \/ request[r].alone
    PROVE  ~OneSided(db', p)
<1> DEFINE last == request[r].last
<1>1. Proceeds(r, last) /\ save(r, last)
  BY DEF Finish, Proceeds
<1>2. PICK y \in Account : p = {last.doc, y}
  BY DEF Finish, IInv, AroundLast
<1>3. Agrees(db[y], last, y)
  BY <1>2 DEF Finish, IInv, Completes
<1>4. last.doc \in Account /\ p \in Pair
  BY <1>1, SaveFacts DEF IInv, TypeOK, RequestType
<1>5. last.doc # y
  BY <1>2, <1>4, PairAccounts
<1>6. db'[last.doc] = last.image /\ db'[y] = db[y]
  BY <1>1, <1>5, SaveFacts
<1>7. last.doc \in db'[y].lists <=> y \in db'[last.doc].lists
  BY <1>3, <1>6 DEF Agrees
<1> QED
  BY <1>2, <1>5, <1>7, SidesOf

LEMMA SaveKeeps ==
    ASSUME IInv, NEW r \in Request, NEW s, Proceeds(r, s), save(r, s),
           Step(r) \/ Finish(r)
    PROVE  IInv'
<1>t. /\ TypeOK /\ s.doc \in Account /\ s \in SavesOf(r) /\ Proper(s) /\ request[r] # Idle
      /\ db'[s.doc] = s.image /\ \A x \in Account : x # s.doc => db'[x] = db[x]
  BY SaveFacts DEF IInv
<1>u. dummy_user' = dummy_user
  BY DEF save
<1>1. TypeOK'
  <2>1. db' \in [Account -> Document]
    BY <1>t, SaveFacts DEF TypeOK, save
  <2>2. \A x \in Account : \A y \in db'[x].lists : {x, y} \in Pair
    BY <1>t DEF TypeOK, Proper
  <2>3. request' \in [Request -> RequestType]
    BY SaveRequests
  <2>4. exposed' \subseteq Pair
    <3>1. ASSUME NEW y \in Changed(db[s.doc], s.image) PROVE {s.doc, y} \in Pair
      BY <1>t, <3>1 DEF Changed, TypeOK, Proper
    <3> QED
      BY <1>t, <3>1, SaveFacts DEF StillExposed, TypeOK
  <2> QED
    BY <1>t, <2>1, <2>2, <2>3, <2>4 DEF TypeOK, save
<1>2. Plain'
  BY <1>t DEF Plain, IInv, PlainDocument, Proper
<1>3. Paired' /\ Covered'
  <2>1. ASSUME NEW q \in Request, NEW z \in SavesOf(q)'
        PROVE  Proper(z) /\ \A y \in Changed(z.seen, z.image) : {z.doc, y} \in request'[q].pairs
    <3>1. z \in SavesOf(q) /\ request'[q].pairs = request[q].pairs
      BY <2>1, SaveRequests
    <3> QED
      BY <3>1 DEF IInv, Paired, Covered
  <2> QED
    BY <2>1 DEF Paired, Covered, Proper, PlainDocument, Changed
<1>4. Contested'
  <2>1. ASSUME NEW q \in Request, NEW o \in Request, q # o,
               NEW p \in request'[q].pairs, p \in request'[o].pairs
        PROVE  p \in exposed'
    <3>1. p \in request[q].pairs /\ p \in request[o].pairs
      BY <2>1, SaveRequests
    <3>2. p \in exposed
      BY <2>1, <3>1 DEF IInv, Contested
    <3> QED
      BY <2>1, <3>2, SaveExposes
  <2> QED
    BY <2>1 DEF Contested
<1>5. AloneIsAlone'
  <2>1. ASSUME NEW q \in Request, NEW o \in Request, q # o,
               request'[q] # Idle, request'[o] # Idle
        PROVE  ~request'[q].alone
    BY <2>1, SaveRequests DEF IInv, AloneIsAlone
  <2> QED
    BY <2>1 DEF AloneIsAlone, Idle
<1>6. AroundLast'
  <2>1. ASSUME NEW q \in Request, request'[q].last # None, NEW p \in request'[q].pairs
        PROVE  \E y \in Account : p = {request'[q].last.doc, y}
    <3>1. request'[q].last = request[q].last /\ p \in request[q].pairs
      BY <2>1, SaveRequests
    <3> QED
      BY <2>1, <3>1 DEF IInv, AroundLast
  <2> QED
    BY <2>1 DEF AroundLast
<1>7. Completes'
  <2>1. ASSUME NEW q \in Request, request'[q].last # None, NEW y \in Account,
               {request'[q].last.doc, y} \in request'[q].pairs,
               {request'[q].last.doc, y} \notin exposed' \/ request'[q].alone
        PROVE  /\ WillAgree(request'[q].todo, request'[q].last, y)
               /\ \/ \E t \in request'[q].todo : t.doc = y
                  \/ Agrees(db'[y], request'[q].last, y)
    <3> DEFINE last == request[q].last
               p == {last.doc, y}
    <3>1. /\ request'[q] # Idle /\ request[q] # Idle /\ request'[q].last = last
          /\ p \in request[q].pairs /\ request'[q].alone = request[q].alone
          /\ request'[q].todo \subseteq request[q].todo
      BY <2>1, SaveRequests
    <3>2. p \notin exposed \/ request[q].alone
      BY <2>1, <3>1, SaveExposes
    <3>3. /\ WillAgree(request[q].todo, last, y)
          /\ (\E t \in request[q].todo : t.doc = y) \/ Agrees(db[y], last, y)
      BY <2>1, <3>1, <3>2 DEF IInv, Completes
    <3>4. WillAgree(request'[q].todo, last, y)
      BY <3>1, <3>3 DEF WillAgree
    <3>5. CASE q = r
      <4>1. s \in request[r].todo /\ request'[r].todo = request[r].todo \ {s}
        BY <3>1, <3>5, <1>t DEF Proceeds, TypeOK, RequestType
      <4>2. CASE s.doc = y
        BY <3>1, <3>3, <3>4, <3>5, <4>1, <4>2, <1>t DEF WillAgree, Agrees
      <4>3. CASE s.doc # y
        BY <3>1, <3>3, <3>4, <3>5, <4>1, <4>3, <1>t
      <4> QED
        BY <4>2, <4>3
    <3>6. CASE q # r
      <4>1. request'[q] = request[q] /\ ~request[q].alone
        BY <3>1, <3>6, <1>t, SaveRequests DEF IInv, AloneIsAlone
      <4>2. CASE s.doc # y
        BY <3>1, <3>3, <4>1, <4>2, <1>t
      <4>3. CASE s.doc = y
        <5>1. p \notin exposed' /\ p \notin exposed /\ p = {s.doc, last.doc}
          BY <2>1, <3>1, <3>2, <4>1, <4>3
        <5>2. p \notin request[r].pairs
          BY <3>1, <3>6, <5>1 DEF IInv, Contested
        <5>3. last.doc \notin Changed(s.seen, s.image)
          <6>1. \A z \in Changed(s.seen, s.image) : {s.doc, z} \in request[r].pairs
            BY SaveFacts
          <6> QED
            BY <5>1, <5>2, <6>1
        <5>4. last.doc \notin Changed(db[s.doc], s.image)
          BY <2>1, <3>1, <5>1, <5>3, SaveExposes
        <5>5. last.doc \in db'[y].lists <=> last.doc \in db[y].lists
          BY <5>4, <4>3, <1>t DEF Changed
        <5> QED
          BY <3>1, <3>3, <4>1, <5>5 DEF Agrees
      <4> QED
        BY <4>2, <4>3
    <3> QED
      BY <3>5, <3>6
  <2> QED
    BY <2>1 DEF Completes, WillAgree, Agrees
<1>8. Present'
  <2>1. ASSUME NEW q \in Request
        PROVE  /\ \A t \in request'[q].todo : t.image.is = "stored"
               /\ \A z \in SavesOf(q)' :
                     \/ z = dummy_user
                     \/ /\ z.seen.is = "stored"
                        /\ request'[q].alone => db'[z.doc].is = "stored"
    <3>1. \A t \in request'[q].todo : t.image.is = "stored"
      BY SaveRequests DEF IInv, Present
    <3>2. ASSUME request'[q].alone, NEW z \in SavesOf(q)', z # dummy_user
          PROVE  db'[z.doc].is = "stored"
      <4>1. request'[q] # Idle /\ request[q] # Idle /\ request[q].alone /\ z \in SavesOf(q)
        BY <3>2, SaveRequests
      <4>2. q = r
        BY <4>1, <1>t DEF IInv, AloneIsAlone
      <4>3. s \in request[r].todo
        BY <4>1, <4>2, <3>2, <1>t DEF Proceeds, TypeOK, RequestType
      <4>4. db[z.doc].is = "stored" /\ s.image.is = "stored"
        BY <4>1, <4>2, <4>3, <3>2 DEF IInv, Present
      <4>5. z.doc \in Account
        BY <4>1, <1>t DEF SavesOf, TypeOK, RequestType, Save
      <4> QED
        BY <4>4, <4>5, <1>t
    <3>3. ASSUME NEW z \in SavesOf(q)', z # dummy_user PROVE z.seen.is = "stored"
      BY <3>3, SaveRequests DEF IInv, Present
    <3> QED
      BY <3>1, <3>2, <3>3
  <2> QED
    BY <2>1, <1>u DEF Present
<1>9. SidesAgree'
  <2> SUFFICES ASSUME NEW p \in Pair, OneSided(db', p)
               PROVE  p \in exposed' \/ \E q \in Request : p \in request'[q].pairs
    BY DEF SidesAgree, OneSided
  <2>1. p \in exposed \/ (\E q \in Request : p \in request[q].pairs)
           \/ p \in {{s.doc, y} : y \in Changed(db[s.doc], s.image) \ Changed(s.seen, s.image)}
    <3>1. CASE OneSided(db, p)
      BY <3>1 DEF IInv, SidesAgree
    <3>2. CASE ~OneSided(db, p)
      <4>0. \A x \in Account : x # s.doc => db'[x].lists = db[x].lists
        BY <1>t
      <4>1. PICK y \in Account : p = {s.doc, y} /\ y \in Changed(db[s.doc], db'[s.doc])
        BY <3>2, <4>0, OnlyChanges
      <4> QED
        BY <4>1, <1>t, SaveFacts
    <3> QED
      BY <3>1, <3>2
  <2>2. ASSUME p \in exposed \/
               p \in {{s.doc, y} : y \in Changed(db[s.doc], s.image) \ Changed(s.seen, s.image)}
        PROVE  p \in exposed'
    BY <2>2, SaveFacts DEF StillExposed
  <2>3. ASSUME NEW q \in Request, p \in request[q].pairs, p \notin exposed
        PROVE  p \in request'[q].pairs
    <3>1. CASE request'[q] # Idle
      BY <2>3, <3>1, SaveRequests
    <3>2. CASE request'[q] = Idle
      <4>1. q = r /\ Finish(r)
        <5>1. request[q] # Idle
          BY <2>3 DEF Idle
        <5>2. q = r
          BY <5>1, <3>2, SaveRequests
        <5>3. ~Step(r)
          <6> SUFFICES ASSUME Step(r) PROVE FALSE
            OBVIOUS
          <6>1. PICK z \in request[r].todo : request' = [request EXCEPT ![r].todo = @ \ {z}]
            BY DEF Step
          <6>2. request'[r].pairs = request[r].pairs
            BY <6>1, <1>t DEF TypeOK, RequestType
          <6> QED
            BY <2>3, <3>2, <5>2, <6>2 DEF Idle
        <5> QED
          BY <5>2, <5>3
      <4> QED
        BY <2>3, <4>1, FinishSettles
    <3> QED
      BY <3>1, <3>2
  <2> QED
    BY <2>1, <2>2, <2>3
<1>10. Dummy'
  BY <1>u DEF IInv, Dummy, Proper, PlainDocument
<1> QED
  BY <1>1, <1>2, <1>3, <1>4, <1>5, <1>6, <1>7, <1>8, <1>9, <1>10 DEF IInv
-----------------------------------------------------------------------------
(* Requests end without their last save; accounts are created.               *)

LEMMA LeaveKeeps ==
    ASSUME IInv, NEW r \in Request, Leave(r), used' \in 0..MaxInterrupts
    PROVE  IInv'
<1>a. /\ db' = db /\ dummy_user' = dummy_user /\ request' = [request EXCEPT ![r] = Idle]
      /\ exposed' = StillExposed(exposed \cup request[r].pairs)
  BY DEF Leave
<1>t. request \in [Request -> RequestType] /\ Idle \in RequestType
  BY DEF IInv, TypeOK, RequestType, Idle
<1>i. Idle.todo = {} /\ Idle.last = None /\ Idle.pairs = {}
  BY DEF Idle
<1>m. /\ request'[r] = Idle /\ request'[r].pairs = {} /\ request'[r].last = None
      /\ request'[r].todo = {} /\ SavesOf(r)' = {}
  BY <1>a, <1>t, <1>i DEF SavesOf
<1>o. ASSUME NEW q \in Request, q # r
      PROVE  request'[q] = request[q] /\ SavesOf(q)' = SavesOf(q)
  BY <1>o, <1>a, <1>t DEF SavesOf
<1>e. ASSUME NEW p, p \in exposed \cup request[r].pairs,
             OneSided(db, p) \/ \E q \in Request : p \in request'[q].pairs
      PROVE  p \in exposed'
  <2>1. OneSided(db', p) \/ \E q \in Request : p \in request'[q].pairs
    BY <1>e, <1>a
  <2> QED
    BY <1>e, <1>a, <2>1 DEF StillExposed
<1>1. TypeOK'
  <2>1. exposed' \subseteq Pair
    BY <1>a, <1>t DEF StillExposed, IInv, TypeOK, RequestType
  <2>2. request' \in [Request -> RequestType]
    BY <1>a, <1>t
  <2> QED
    BY <1>a, <2>1, <2>2 DEF IInv, TypeOK
<1>2. Plain'
  BY <1>a DEF IInv, Plain, PlainDocument
<1>3. Paired' /\ Covered'
  <2>1. ASSUME NEW q \in Request, NEW z \in SavesOf(q)'
        PROVE  Proper(z) /\ \A y \in Changed(z.seen, z.image) : {z.doc, y} \in request'[q].pairs
    BY <2>1, <1>m, <1>o DEF IInv, Paired, Covered
  <2> QED
    BY <2>1 DEF Paired, Covered, Proper, PlainDocument, Changed
<1>4. Contested'
  <2>1. ASSUME NEW q \in Request, NEW o \in Request, q # o,
               NEW p \in request'[q].pairs, p \in request'[o].pairs
        PROVE  p \in exposed'
    <3>1. p \in exposed
      BY <2>1, <1>m, <1>o DEF IInv, Contested
    <3> QED
      BY <2>1, <3>1, <1>e
  <2> QED
    BY <2>1 DEF Contested
<1>5. AloneIsAlone'
  <2>1. ASSUME NEW q \in Request, NEW o \in Request, q # o,
               request'[q] # Idle, request'[o] # Idle
        PROVE  ~request'[q].alone
    BY <2>1, <1>m, <1>o DEF IInv, AloneIsAlone
  <2> QED
    BY <2>1 DEF AloneIsAlone, Idle
<1>6. AroundLast'
  <2>1. ASSUME NEW q \in Request, request'[q].last # None, NEW p \in request'[q].pairs
        PROVE  \E y \in Account : p = {request'[q].last.doc, y}
    BY <2>1, <1>m, <1>o DEF IInv, AroundLast
  <2> QED
    BY <2>1 DEF AroundLast
<1>7. Completes'
  <2>1. ASSUME NEW q \in Request, request'[q].last # None, NEW y \in Account,
               {request'[q].last.doc, y} \in request'[q].pairs,
               {request'[q].last.doc, y} \notin exposed' \/ request'[q].alone
        PROVE  /\ WillAgree(request'[q].todo, request'[q].last, y)
               /\ \/ \E t \in request'[q].todo : t.doc = y
                  \/ Agrees(db[y], request'[q].last, y)
    <3>1. request'[q] = request[q]
      BY <2>1, <1>m, <1>o
    <3>2. {request[q].last.doc, y} \notin exposed \/ request[q].alone
      BY <2>1, <3>1, <1>e
    <3> QED
      BY <2>1, <3>1, <3>2 DEF IInv, Completes
  <2> QED
    BY <2>1, <1>a DEF Completes, WillAgree, Agrees
<1>8. Present'
  <2>1. ASSUME NEW q \in Request
        PROVE  /\ \A t \in request'[q].todo : t.image.is = "stored"
               /\ \A z \in SavesOf(q)' :
                     \/ z = dummy_user
                     \/ z.seen.is = "stored" /\ (request'[q].alone => db[z.doc].is = "stored")
    BY <1>m, <1>o DEF IInv, Present
  <2> QED
    BY <2>1, <1>a DEF Present
<1>9. SidesAgree'
  <2> SUFFICES ASSUME NEW p \in Pair, OneSided(db, p)
               PROVE  p \in exposed' \/ \E q \in Request : p \in request'[q].pairs
    BY <1>a DEF SidesAgree, OneSided
  <2>1. p \in exposed \/ \E q \in Request : p \in request[q].pairs
    BY DEF IInv, SidesAgree
  <2> QED
    BY <2>1, <1>e, <1>o
<1>10. Dummy'
  BY <1>a DEF IInv, Dummy, Proper, PlainDocument
<1> QED
  BY <1>1, <1>2, <1>3, <1>4, <1>5, <1>6, <1>7, <1>8, <1>9, <1>10 DEF IInv

LEMMA CreateKeeps ==
    ASSUME IInv, NEW x \in Account,
           db' = db \/ (db[x] = New /\ db' = [db EXCEPT ![x] = With({})]),
           request' = request, exposed' = exposed, used' \in 0..MaxInterrupts,
           dummy_user' \in Save, Dummy',
           dummy_user' = dummy_user \/ UnderWay = {}
    PROVE  IInv'
<1>a. request' = request /\ exposed' = exposed
  OBVIOUS
<1>b. /\ db \in [Account -> Document] /\ With({}) \in Document
      /\ With({}).lists = {} /\ With({}).is = "stored" /\ New.lists = {}
  BY DEF IInv, TypeOK, With, Document, New
<1>c. \A y \in Account : db'[y].lists = db[y].lists
  BY <1>b
<1>1. TypeOK'
  BY <1>a, <1>b, <1>c DEF IInv, TypeOK
<1>2. Plain'
  BY <1>a, <1>b, <1>c DEF IInv, Plain, PlainDocument
<1>3. Paired' /\ Covered'
  BY <1>a DEF IInv, Paired, Covered, SavesOf, Proper, PlainDocument, Changed
<1>7. Contested' /\ AloneIsAlone' /\ AroundLast'
  BY <1>a DEF IInv, Contested, AloneIsAlone, AroundLast, Idle
<1>4. Completes'
  BY <1>a, <1>c DEF IInv, Completes, WillAgree, Agrees
<1>5. Present'
  <2>1. \A q \in Request : \A s \in SavesOf(q) : s.doc \in Account
    BY DEF IInv, TypeOK, RequestType, SavesOf, Save
  <2>2. \A y \in Account : db[y].is = "stored" => db'[y].is = "stored"
    BY <1>b
  <2>3. CASE dummy_user' = dummy_user
    BY <1>a, <2>1, <2>2, <2>3 DEF IInv, Present, SavesOf
  <2>4. CASE UnderWay = {}
    <3>1. ASSUME NEW q \in Request PROVE request'[q].todo = {} /\ SavesOf(q)' = {}
      BY <1>a, <2>4 DEF UnderWay, Idle, SavesOf
    <3> QED
      BY <3>1 DEF Present
  <2> QED
    BY <2>3, <2>4
<1>6. SidesAgree'
  <2>1. ASSUME NEW p \in Pair, OneSided(db', p) PROVE OneSided(db, p)
    <3>1. \A u, v \in p : u \in Account /\ v \in Account
      BY DEF Pair, Account
    <3> QED
      BY <2>1, <3>1, <1>c DEF OneSided
  <2> QED
    BY <2>1, <1>a DEF IInv, SidesAgree
<1> QED
  BY <1>1, <1>2, <1>3, <1>4, <1>5, <1>6, <1>7 DEF IInv
-----------------------------------------------------------------------------
(* What each request gives to Begin is sound.                                *)

\* The fields of a save.
LEMMA SaveOf ==
    ASSUME TypeOK, NEW x \in Account, NEW image \in Document
    PROVE  /\ Saves(x, image) \in Save
           /\ Saves(x, image).doc = x /\ Saves(x, image).image = image
           /\ Saves(x, image).seen = db[x]
BY DEF TypeOK, Saves, Save

\* What is stored with another list.
LEMMA WithLists ==
    ASSUME NEW them \in SUBSET Account
    PROVE  /\ With(them) \in Document /\ With(them).lists = them
           /\ With(them).is = "stored" /\ PlainDocument(With(them))
BY DEF With, Document, PlainDocument

\* The save of the dummy user changes none of its memberships.
LEMMA DummySound ==
    ASSUME IInv
    PROVE  Sound({}, dummy_user)
<1>1. dummy_user \in Save /\ dummy_user # None /\ Proper(dummy_user)
      /\ Changed(dummy_user.seen, dummy_user.image) = {}
  BY ConstantsAssumption DEF IInv, TypeOK, Dummy, Changed
<1>2. Meant({dummy_user}) = {}
  BY <1>1 DEF Meant
<1>3. {} \cup ({dummy_user} \ {None}) = {dummy_user}
  BY <1>1
<1> QED
  BY <1>1, <1>2, <1>3 DEF Sound

\* So does the save of an account that is only read.
LEMMA SameSound ==
    ASSUME IInv, NEW x \in Account, Found(x)
    PROVE  Sound({}, Saves(x, db[x]))
<1> DEFINE last == Saves(x, db[x])
<1>1. db[x] \in Document
  BY DEF IInv, TypeOK
<1>2. last \in Save /\ last.doc = x /\ last.image = db[x] /\ last.seen = db[x]
  BY <1>1, SaveOf DEF IInv
<1>3. Proper(last)
  BY <1>2 DEF Proper, IInv, Plain, TypeOK
<1>4. Meant({last}) = {}
  BY <1>2 DEF Meant, Changed
<1> HIDE DEF last
<1>5. Meant({} \cup ({last} \ {None})) = {} /\ {} \cup ({last} \ {None}) = {last}
  BY <1>2, <1>4, ConstantsAssumption
<1>6. Sound({}, last)
  BY <1>2, <1>3, <1>5 DEF Sound, Read, Found
<1> QED
  BY <1>6 DEF last

\* Two saves that make, or unmake, a membership on both sides.
LEMMA PairSound ==
    ASSUME IInv, NEW x \in Account, NEW y \in Account, {x, y} \in Pair, Found(x), Found(y),
           NEW theirs \in SUBSET Account, NEW mine \in SUBSET Account,
           \/ theirs = db[y].lists \cup {x} /\ mine = db[x].lists \cup {y}
           \/ theirs = db[y].lists \ {x} /\ mine = db[x].lists \ {y}
    PROVE  Sound({Saves(y, With(theirs))}, Saves(x, With(mine)))
<1> DEFINE other == Saves(y, With(theirs))
           last == Saves(x, With(mine))
<1>0. x # y /\ {y, x} = {x, y}
  BY PairAccounts
<1>1. /\ other \in Save /\ other.doc = y /\ other.image = With(theirs) /\ other.seen = db[y]
      /\ last \in Save /\ last.doc = x /\ last.image = With(mine) /\ last.seen = db[x]
  BY WithLists, SaveOf DEF IInv
<1>2. /\ other.image.lists = theirs /\ last.image.lists = mine
      /\ other.image.is = "stored" /\ PlainDocument(other.image) /\ PlainDocument(last.image)
  BY <1>1, WithLists
<1> HIDE DEF other, last
<1>3. Proper(other) /\ Proper(last)
  BY <1>0, <1>1, <1>2 DEF Proper, IInv, TypeOK
<1>4. Changed(other.seen, other.image) \subseteq {x} /\ Changed(last.seen, last.image) \subseteq {y}
  BY <1>1, <1>2 DEF Changed
<1>5. {other} \cup ({last} \ {None}) = {other, last} /\ other # None /\ last # None
  BY <1>1, ConstantsAssumption
<1>6. Meant({other, last}) \subseteq {{x, y}}
  BY <1>0, <1>1, <1>4 DEF Meant
<1>7. WillAgree({other}, last, y)
  BY <1>1, <1>2 DEF WillAgree, Agrees
<1>8. ASSUME NEW z \in Account, {last.doc, z} \in Meant({other, last}) PROVE z = y
  BY <1>0, <1>1, <1>6, <1>8
<1>9. \A p \in Meant({other, last}) : p = {last.doc, y}
  BY <1>1, <1>6
<1>10. Sound({other}, last)
  BY <1>1, <1>2, <1>3, <1>5, <1>7, <1>8, <1>9 DEF Sound, Read, Found
<1> QED
  BY <1>10 DEF other, last

\* What deleting x makes of y.
Left(x, y) == Saves(y, With(db[y].lists \ {x}))

LEMMA DeleteSound ==
    ASSUME IInv, NEW r \in Request, NEW x \in Account, delete(r, x)
    PROVE  \E todo, last : \E blocked \in BOOLEAN :
              Sound(todo, last) /\ Begin(r, todo, last, blocked)
<1> DEFINE mutual == {y \in db[x].lists : Lists(y, x)}
           todo == {Left(x, y) : y \in mutual}
           last == IF mutual = db[x].lists THEN Saves(x, Deleted) ELSE None
<1>1. Found(x) /\ Begin(r, todo, last, mutual # db[x].lists)
  BY DEF delete, Left
<1>2. ASSUME NEW y \in mutual
      PROVE  /\ y \in Account /\ {x, y} \in Pair /\ x # y
             /\ Left(x, y) \in Save /\ Left(x, y).doc = y /\ Left(x, y).seen = db[y]
             /\ Left(x, y).image.lists = db[y].lists \ {x} /\ Left(x, y).image.is = "stored"
             /\ Proper(Left(x, y)) /\ db[y].is = "stored"
             /\ Changed(Left(x, y).seen, Left(x, y).image) = {x}
  <2>1. {x, y} \in Pair /\ x \in db[y].lists
    BY <1>2 DEF IInv, TypeOK, Lists
  <2>2. y \in Account /\ x # y
    BY <2>1, PairAccounts
  <2>3. db[y].lists \ {x} \in SUBSET Account
    BY <2>2 DEF IInv, TypeOK, Document
  <2>4. /\ Left(x, y) \in Save /\ Left(x, y).doc = y /\ Left(x, y).seen = db[y]
        /\ Left(x, y).image = With(db[y].lists \ {x})
    BY <2>2, <2>3, WithLists, SaveOf DEF IInv, Left
  <2>5. Left(x, y).image.lists = db[y].lists \ {x} /\ Left(x, y).image.is = "stored"
        /\ PlainDocument(Left(x, y).image)
    BY <2>3, <2>4, WithLists
  <2>6. Proper(Left(x, y))
    BY <2>2, <2>4, <2>5 DEF Proper, IInv, TypeOK
  <2>7. db[y].is = "stored"
    BY <2>1, <2>2 DEF IInv, Plain, PlainDocument
  <2>8. Changed(Left(x, y).seen, Left(x, y).image) = {x}
    BY <2>1, <2>4, <2>5 DEF Changed
  <2> QED
    BY <2>1, <2>2, <2>4, <2>5, <2>6, <2>7, <2>8
<1>d. ASSUME NEW t \in todo
      PROVE  \E y \in mutual : t = Left(x, y)
  OBVIOUS
<1>e. \A y \in mutual : Left(x, y) \in todo
  OBVIOUS
<1>3. ASSUME last # None
      PROVE  /\ last \in Save /\ last.doc = x /\ last.seen = db[x] /\ mutual = db[x].lists
             /\ last.image.lists = {} /\ Proper(last) /\ Changed(last.seen, last.image) = mutual
  <2>1. Deleted \in Document /\ Deleted.lists = {}
    BY DEF Deleted, Document
  <2>2. last = Saves(x, Deleted) /\ mutual = db[x].lists
    BY <1>3
  <2>3. last \in Save /\ last.doc = x /\ last.image = Deleted /\ last.seen = db[x]
    BY <2>1, <2>2, SaveOf DEF IInv
  <2> QED
    BY <2>1, <2>2, <2>3 DEF Proper, PlainDocument, Changed
<1> HIDE DEF todo, last, mutual
<1>f. ASSUME NEW t \in todo
      PROVE  /\ t.doc \in mutual /\ t \in Save /\ t.seen = db[t.doc] /\ x \notin t.image.lists
             /\ t.image.is = "stored" /\ Proper(t) /\ db[t.doc].is = "stored"
             /\ Changed(t.seen, t.image) = {x}
  <2>1. PICK y \in mutual : t = Left(x, y)
    BY <1>d
  <2>2. x \notin Left(x, y).image.lists /\ Left(x, y).doc = y
    BY <1>2
  <2> QED
    BY <1>2, <2>1, <2>2
<1>4. last \in Save \cup {None}
  BY <1>3
<1>5. ASSUME last # None, NEW p \in Meant(todo \cup ({last} \ {None}))
      PROVE  \E y \in mutual : p = {last.doc, y}
  <2>1. PICK s \in todo \cup ({last} \ {None}) : \E z \in Changed(s.seen, s.image) : p = {s.doc, z}
    BY <1>5 DEF Meant
  <2>2. CASE s \in todo
    <3>1. p = {s.doc, x} /\ s.doc \in mutual
      BY <2>1, <2>2, <1>f
    <3> QED
      BY <3>1, <1>3, <1>5
  <2>3. CASE s = last
    BY <2>1, <2>3, <1>3, <1>5
  <2> QED
    BY <2>1, <2>2, <2>3
<1>6. ASSUME last # None, NEW y \in Account, {last.doc, y} \in Meant(todo \cup ({last} \ {None}))
      PROVE  (\E t \in todo : t.doc = y) /\ WillAgree(todo, last, y)
  <2>1. y \in mutual
    <3>1. PICK z \in mutual : {last.doc, y} = {last.doc, z}
      BY <1>5, <1>6
    <3> QED
      BY <3>1, <1>2, <1>3, <1>6
  <2>2. Left(x, y) \in todo /\ Left(x, y).doc = y
    BY <1>2, <1>e, <2>1
  <2>3. ASSUME NEW t \in todo PROVE Agrees(t.image, last, y)
    BY <2>3, <1>f, <1>3, <1>6 DEF Agrees
  <2> QED
    BY <2>2, <2>3 DEF WillAgree
<1>7. \A s \in todo \cup ({last} \ {None}) :
         Proper(s) /\ s.seen = db[s.doc] /\ db[s.doc].is = "stored"
  BY <1>1, <1>f, <1>3 DEF Found
<1>8. todo \subseteq Save /\ \A t \in todo : t.image.is = "stored"
  BY <1>f
<1>9. \A y \in mutual : y \in Account
  BY <1>2
<1>10. Sound(todo, last)
  BY <1>4, <1>5, <1>6, <1>7, <1>8, <1>9 DEF Sound, Read
<1> QED
  BY <1>1, <1>10

LEMMA AskSound ==
    ASSUME IInv, NEW r \in Request, Ask(r)
    PROVE  \E todo, last : \E blocked \in BOOLEAN :
              Sound(todo, last) /\ Begin(r, todo, last, blocked)
<1>p. ASSUME NEW u \in User, NEW g \in Group
      PROVE  u \in Account /\ g \in Account /\ {u, g} \in Pair /\ {g, u} \in Pair
  BY DEF Account, Pair
<1>l. ASSUME NEW x \in Account PROVE db[x].lists \subseteq Account
  BY DEF IInv, TypeOK, Document
<1>a. ASSUME NEW x \in Account, NEW y \in Account, {x, y} \in Pair, Found(x), Found(y),
             add(r, x, y) \/ remove(r, x, y)
      PROVE  \E todo, last : \E blocked \in BOOLEAN :
                Sound(todo, last) /\ Begin(r, todo, last, blocked)
  <2>1. CASE add(r, x, y) /\ Lists(x, y)
    BY <1>a, <2>1, SameSound DEF add
  <2>2. CASE add(r, x, y) /\ ~Lists(x, y)
    <3>1. Sound({Saves(y, With(db[y].lists \cup {x}))}, Saves(x, With(db[x].lists \cup {y})))
      BY <1>a, <1>l, PairSound
    <3> QED
      BY <2>2, <3>1 DEF add
  <2>3. CASE remove(r, x, y)
    <3>1. Sound({Saves(y, With(db[y].lists \ {x}))}, Saves(x, With(db[x].lists \ {y})))
      BY <1>a, <1>l, PairSound
    <3> QED
      BY <2>3, <3>1 DEF remove
  <2> QED
    BY <1>a, <2>1, <2>2, <2>3
<1>1. CASE \E u \in User, g \in Group :
              \/ user_join_group(r, u, g) \/ user_leave_group(r, u, g)
              \/ group_add_user(r, g, u) \/ group_remove_user(r, g, u)
  BY <1>1, <1>a, <1>p DEF user_join_group, user_leave_group, group_add_user, group_remove_user
<1>2. CASE \E x \in Account : delete(r, x)
  BY <1>2, DeleteSound
<1>3. CASE \E x \in Account : authenticate(r, x)
  BY <1>3, SameSound DEF authenticate
<1>4. CASE auth_dummy_user(r)
  BY <1>4, DummySound DEF auth_dummy_user
<1> QED
  BY <1>1, <1>2, <1>3, <1>4 DEF Ask

-----------------------------------------------------------------------------
LEMMA NextKeeps == IInv /\ [Next]_vars => IInv'
<1> SUFFICES ASSUME IInv, [Next]_vars PROVE IInv'
  OBVIOUS
<1>u. used \in 0..MaxInterrupts /\ MaxInterrupts \in Nat
  BY ConstantsAssumption DEF IInv, TypeOK
<1>1. ASSUME NEW x \in Account, create(x) PROVE IInv'
  <2>1. Dummy'
    BY <1>1 DEF create, IInv, Dummy, Proper, PlainDocument
  <2> QED
    BY <1>1, <1>u, <2>1, CreateKeeps DEF create, IInv, TypeOK
<1>8. CASE setup_dummy_user
  <2>1. PICK x \in User :
           /\ IF Found(dummy_user.doc) THEN x = dummy_user.doc /\ UNCHANGED db
              ELSE db[x] = New /\ db' = [db EXCEPT ![x] = With({})]
           /\ dummy_user' = Loaded(x, db'[x])
    BY <1>8 DEF setup_dummy_user
  <2>2. /\ x \in Account /\ UnderWay = {} /\ request' = request /\ exposed' = exposed
        /\ used' \in 0..MaxInterrupts
    BY <1>8, <1>u DEF setup_dummy_user, Account
  <2>3. db' = db \/ (db[x] = New /\ db' = [db EXCEPT ![x] = With({})])
    BY <2>1
  <2>4. /\ db'[x] \in Document /\ PlainDocument(db'[x])
        /\ \A y \in db'[x].lists : {x, y} \in Pair
    <3>1. CASE db' = db
      BY <2>2, <3>1 DEF IInv, TypeOK, Plain
    <3>2. CASE db' = [db EXCEPT ![x] = With({})]
      BY <2>2, <3>2 DEF IInv, TypeOK, With, Document, PlainDocument
    <3> QED
      BY <2>3, <3>1, <3>2
  <2>5. dummy_user' \in Save /\ Dummy'
    BY <2>1, <2>2, <2>4 DEF Loaded, Save, Dummy, Proper, PlainDocument
  <2> QED
    BY <2>2, <2>3, <2>5, CreateKeeps
<1>2. ASSUME NEW r \in Request, Ask(r) PROVE IInv'
  BY <1>2, AskSound, BeginKeeps
<1>3. ASSUME NEW r \in Request, Step(r) PROVE IInv'
  <2>1. PICK s : Proceeds(r, s) /\ save(r, s)
    BY <1>3 DEF Step, Proceeds
  <2> QED
    BY <1>3, <2>1, SaveKeeps
<1>4. ASSUME NEW r \in Request, Finish(r) PROVE IInv'
  <2>1. Proceeds(r, request[r].last) /\ save(r, request[r].last)
    BY <1>4 DEF Finish, Proceeds
  <2> QED
    BY <1>4, <2>1, SaveKeeps
<1>5. ASSUME NEW r \in Request, Raise(r) PROVE IInv'
  BY <1>5, <1>u, LeaveKeeps DEF Raise
<1>6. ASSUME NEW r \in Request, Interrupt(r) PROVE IInv'
  <2>1. used' \in 0..MaxInterrupts
    BY <1>6, <1>u DEF Interrupt
  <2> QED
    BY <1>6, <2>1, LeaveKeeps DEF Interrupt
<1>7. CASE UNCHANGED vars
  <2>1. db' = db /\ request' = request /\ exposed' = exposed /\ used' = used
        /\ dummy_user' = dummy_user
    BY <1>7 DEF vars
  <2>2. TypeOK' /\ Plain' /\ Dummy'
    BY <2>1 DEF IInv, TypeOK, Plain, PlainDocument, Dummy, Proper
  <2>5. SidesAgree'
    BY <2>1 DEF IInv, SidesAgree, OneSided
  <2>3. Paired' /\ Covered'
    BY <2>1 DEF IInv, Paired, Covered, SavesOf, Proper, PlainDocument, Changed
  <2>6. Contested' /\ AloneIsAlone' /\ AroundLast'
    BY <2>1 DEF IInv, Contested, AloneIsAlone, AroundLast, Idle
  <2>4. Completes' /\ Present'
    BY <2>1 DEF IInv, Completes, Present, WillAgree, Agrees, SavesOf
  <2> QED
    BY <2>2, <2>3, <2>4, <2>5, <2>6 DEF IInv
<1> QED
  BY <1>1, <1>2, <1>3, <1>4, <1>5, <1>6, <1>7, <1>8 DEF Next

\* The inductive invariant: types, and what is left of each request makes the pairs
\* it is about the same on both sides, unless somebody else touched them.
THEOREM InductiveInvariant == Spec => []IInv
<1>1. Init => IInv
  BY InitIInv
<1>2. IInv /\ [Next]_vars => IInv'
  BY NextKeeps
<1> QED
  BY <1>1, <1>2, PTL DEF Spec

\* Every reachable state has the declared types, for any users, groups and requests.
THEOREM TypeCorrect == Spec => []TypeOK
<1>1. IInv => TypeOK
  BY DEF IInv
<1> QED
  BY <1>1, InductiveInvariant, PTL

\* User and group disagree on a membership only while a request is changing it, or
\* where a request ended half-way, two were about it at the same time, or an older
\* image was saved over it (User#join_group, #leave_group, #delete and Group's).
THEOREM SidesAlwaysAgree == Spec => []SidesAgree
<1>1. IInv => SidesAgree
  BY DEF IInv
<1> QED
  BY <1>1, InductiveInvariant, PTL

\* A request that ends and was alone leaves its pairs the same on both sides.
THEOREM AloneAlwaysSettles == Spec => AloneSettles
<1>1. IInv /\ [Next]_vars =>
         [\A r \in Request :
             Finish(r) /\ request[r].alone => \A p \in request[r].pairs : ~OneSided(db', p)]_vars
  BY FinishSettles
<1> QED
  BY <1>1, InductiveInvariant, PTL DEF AloneSettles, Spec

\* A deleted account comes back only by a save of its own document, which either was
\* loaded while the account was stored, by a request beside the one that deleted it,
\* or is that of the dummy user the process has (NonLockingCRUD#save inserts what it
\* does not find).
THEOREM AlwaysStaysDeleted == Spec => StaysDeleted
<1> DEFINE Back(x) ==
        \E r \in Request : \E s \in Saved(r) :
           /\ s.doc = x /\ db'[x] = s.image
           /\ s = dummy_user \/ (s.seen.is = "stored" /\ ~request[r].alone)
<1>1. ASSUME IInv, [Next]_vars, NEW x \in Account, db[x] = Deleted, db'[x] # Deleted
      PROVE  Back(x)
  <2>0. Deleted.is = "deleted" /\ db[x] # New
    BY <1>1 DEF Deleted, New
  <2>1. ASSUME NEW r \in Request, NEW s, Proceeds(r, s), save(r, s)
        PROVE  Back(x)
    <3>1. s \in SavesOf(r) /\ s.doc = x /\ db'[x] = s.image
      BY <1>1, <2>1, SaveFacts
    <3>2. s \in Saved(r)
      <4>1. request[r] \in RequestType /\ request \in [Request -> RequestType]
        BY <1>1 DEF IInv, TypeOK
      <4>2. CASE /\ request[r].last # None /\ s = request[r].last
                 /\ request' = [request EXCEPT ![r] = Idle]
        BY <4>1, <4>2 DEF Saved, Idle
      <4>3. CASE s \in request[r].todo /\ request' = [request EXCEPT ![r].todo = @ \ {s}]
        <5>1. request'[r].todo = request[r].todo \ {s}
          BY <4>1, <4>3 DEF RequestType
        <5> QED
          BY <4>3, <5>1 DEF Saved
      <4> QED
        BY <2>1, <4>2, <4>3 DEF Proceeds
    <3>3. s = dummy_user \/ (s.seen.is = "stored" /\ ~request[r].alone)
      BY <1>1, <2>0, <3>1 DEF IInv, Present
    <3> QED
      BY <3>1, <3>2, <3>3
  <2>2. ASSUME NEW y \in Account, create(y) PROVE FALSE
    BY <1>1, <2>0, <2>2 DEF create, IInv, TypeOK
  <2>3. ASSUME NEW r \in Request, Ask(r) PROVE FALSE
    <3>1. PICK todo, last : \E blocked \in BOOLEAN : Begin(r, todo, last, blocked)
      BY <1>1, <2>3, AskSound
    <3> QED
      BY <1>1, <3>1 DEF Begin
  <2>4. ASSUME NEW r \in Request, Raise(r) \/ Interrupt(r) PROVE FALSE
    BY <1>1, <2>4 DEF Raise, Interrupt, Leave
  <2>5. ASSUME NEW r \in Request, Step(r) \/ Finish(r)
        PROVE  \E s : Proceeds(r, s) /\ save(r, s)
    BY <2>5 DEF Step, Finish, Proceeds
  <2>6. CASE UNCHANGED vars
    BY <1>1, <2>6 DEF vars
  <2>7. ASSUME setup_dummy_user PROVE FALSE
    BY <1>1, <2>0, <2>7 DEF setup_dummy_user, IInv, TypeOK
  <2> QED
    BY <1>1, <2>1, <2>2, <2>3, <2>4, <2>5, <2>6, <2>7 DEF Next
<1>2. IInv /\ [Next]_vars =>
         [\A x \in Account : db[x] = Deleted /\ db'[x] # Deleted => Back(x)]_vars
  BY <1>1
<1> QED
  BY <1>2, InductiveInvariant, PTL DEF StaysDeleted, Spec
=============================================================================
