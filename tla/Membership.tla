----------------------------- MODULE Membership -----------------------------
(***************************************************************************)
(* Users and groups (authentication/user.rb, authentication/group.rb) under *)
(* the requests of the admin API and the logins, which are threads of its   *)
(* process.  A membership is kept twice, in the user and in the group.  A   *)
(* request loads the documents it is about, changes what it loaded and      *)
(* saves one whole document after the other with NonLockingCRUD: save       *)
(* replaces or inserts, whatever was saved or deleted in between.  A login  *)
(* under a name that no user has saves the dummy user, which the process    *)
(* has loaded when it started.                                              *)
(*                                                                         *)
(* User and Group mirror each other, so both are accounts here and the       *)
(* operations of one side are those of the other: User#join_group is         *)
(* Group#add_user, User#leave_group Group#remove_user.                       *)
(***************************************************************************)
EXTENDS Integers, FiniteSets

CONSTANTS
    User, Group,    \* internal ids
    Permanent,      \* the accounts that cannot be deleted, created by the set-up
    None,           \* no save
    Request,        \* threads that answer a request
    MaxInterrupts   \* bound: requests that end half-way, and restarts

Account == User \cup Group

\* What the properties tell apart of a document: whether there is one, not yet or
\* no more, and the accounts on the other side that it lists.
Document == [is : {"new", "stored", "deleted"}, lists : SUBSET Account]

New        == [is |-> "new", lists |-> {}]
Deleted    == [is |-> "deleted", lists |-> {}]
With(them) == [is |-> "stored", lists |-> them]

Pair == {{u, g} : u \in User, g \in Group}

\* A save of `doc`, which was `seen` when the request loaded it.
Save == [doc : Account, seen : Document, image : Document]

ASSUME ConstantsAssumption ==
    /\ User \cap Group = {}
    /\ Permanent \subseteq Account
    /\ None \notin Save
    /\ MaxInterrupts \in Nat

VARIABLES
    db,          \* the documents in the collections users and groups
    dummy_user,  \* the dummy user as the process has it, and saves it
    request,     \* the saves that are left of the requests that are under way
    exposed,     \* ghost: pairs whose two sides need not agree
    used         \* requests that ended half-way and restarts so far

vars == <<db, dummy_user, request, exposed, used>>

\* `todo` is saved in some order, then `last`; `blocked`, the request raises
\* before it comes to an end.  `alone`: no other request was under way meanwhile.
Idle == [todo |-> {}, last |-> None, blocked |-> FALSE, pairs |-> {}, alone |-> TRUE]

UnderWay == {r \in Request : request[r] # Idle}

\* The save of an account as it is loaded.
Loaded(x, document) == [doc |-> x, seen |-> document, image |-> document]

Init ==
    /\ \E x \in User \ Permanent :
          /\ dummy_user = Loaded(x, With({}))
          /\ db = [y \in Account |-> IF y \in Permanent \cup {x} THEN With({}) ELSE New]
    /\ request = [r \in Request |-> Idle]
    /\ exposed = {} /\ used = 0

-----------------------------------------------------------------------------
\* Mutant: an account that was deleted is found, without any memberships.
Known(x) == db[x].is # "new"

\* find_user, find_group: an error unless there is one.
Found(x) == db[x].is = "stored"

Lists(x, y) == y \in db[x].lists

OneSided(docs, p) ==
    \E x, y \in p : x # y /\ y \in docs[x].lists /\ x \notin docs[y].lists

Changed(a, b) == (a.lists \ b.lists) \cup (b.lists \ a.lists)

\* What a request that loads x now is to save of it.
Saves(x, image) == [doc |-> x, seen |-> db[x], image |-> image]

\* all_roles asks every group of the user for its roles: nil has none.
HasRoles(u) == \A g \in db[u].lists : Found(g)

\* The pairs that a request is to change on either side.
Meant(saves) == UNION {{{s.doc, y} : y \in Changed(s.seen, s.image)} : s \in saves}

\* A pair stays exposed while it does not agree or somebody is about to change it.
StillExposed(pairs) ==
    {p \in pairs : OneSided(db', p) \/ \E r \in Request : p \in request'[r].pairs}

Begin(r, todo, last, blocked) ==
    /\ request[r] = Idle
    /\ LET pairs == Meant(todo \cup ({last} \ {None})) IN
       /\ request' = [q \in Request |->
                        IF q = r THEN [todo |-> todo, last |-> last, blocked |-> blocked,
                                       pairs |-> pairs, alone |-> UnderWay = {}]
                        ELSE IF q \in UnderWay THEN [request[q] EXCEPT !.alone = FALSE]
                        ELSE Idle]
       /\ exposed' = exposed \cup {p \in pairs : \E q \in UnderWay : p \in request[q].pairs}
    /\ UNCHANGED <<db, dummy_user, used>>

-----------------------------------------------------------------------------
(* What requests do.  Above all, x is the account whose method is called.    *)

\* Mutant: the account alone is changed.
add_to_one_side(r, x, y) ==
    Begin(r, {}, Saves(x, With(db[x].lists \cup {y})), FALSE)

\* Mutant: each account gets itself.
add_self(r, x, y) ==
    Begin(r, {Saves(y, With(db[y].lists \cup {y}))}, Saves(x, With(db[x].lists \cup {x})), FALSE)

\* join_group, add_user: does nothing when x lists y already; y, which may list x
\* already, is saved first.  The API saves x in any case.
add(r, x, y) ==
    IF Lists(x, y) THEN Begin(r, {}, Saves(x, db[x]), FALSE)
    ELSE Begin(r, {Saves(y, With(db[y].lists \cup {x}))}, Saves(x, With(db[x].lists \cup {y})), FALSE)

\* leave_group, remove_user: an error, and nothing is saved, unless both list
\* the other.
remove(r, x, y) ==
    /\ Lists(x, y) /\ Lists(y, x)
    /\ Begin(r, {Saves(y, With(db[y].lists \ {x}))}, Saves(x, With(db[x].lists \ {y})), FALSE)

\* Mutant: the others keep what they have.
delete_only(r, x) ==
    Found(x) /\ x \notin Permanent /\ Begin(r, {}, Saves(x, Deleted), FALSE)

\* delete: x leaves one account after the other.  One that does not list x, or
\* that is no more, raises.
delete(r, x) ==
    /\ Found(x) /\ x \notin Permanent
    /\ LET mutual == {y \in db[x].lists : Lists(y, x)} IN
       Begin(r, {Saves(y, With(db[y].lists \ {x})) : y \in mutual},
             IF mutual = db[x].lists THEN Saves(x, Deleted) ELSE None,
             mutual # db[x].lists)

user_join_group(r, u, g)   == Found(u) /\ Found(g) /\ HasRoles(u) /\ add(r, u, g)
group_add_user(r, g, u)    == Found(u) /\ Found(g) /\ HasRoles(u) /\ add(r, g, u)
user_leave_group(r, u, g)  == Found(u) /\ Found(g) /\ HasRoles(u) /\ remove(r, u, g)
group_remove_user(r, g, u) == Found(u) /\ Found(g) /\ HasRoles(u) /\ remove(r, g, u)

\* A login, and every request that changes something else of an account: roles,
\* name, password, disabled, locked out.
authenticate(r, x) == Found(x) /\ Begin(r, {}, Saves(x, db[x]), FALSE)

create(x) ==
    /\ db[x] = New
    /\ db' = [db EXCEPT ![x] = With({})]
    /\ UNCHANGED <<dummy_user, request, exposed, used>>

\* A login that fails for want of the user saves the dummy user, stored or not.
auth_dummy_user(r) == Begin(r, {}, dummy_user, FALSE)

\* The process starts anew: it loads the dummy user, or creates another one.
setup_dummy_user ==
    /\ UnderWay = {}
    /\ \E x \in User :
          /\ IF Found(dummy_user.doc) THEN x = dummy_user.doc /\ UNCHANGED db
             ELSE db[x] = New /\ db' = [db EXCEPT ![x] = With({})]
          /\ dummy_user' = Loaded(x, db'[x])
    /\ used < MaxInterrupts /\ used' = used + 1
    /\ UNCHANGED <<request, exposed>>

\* NonLockingCRUD#save with upsert, or #delete, of one document.  Exposed is what
\* the image changes that the request was not to change.
save(r, s) ==
    /\ db' = [db EXCEPT ![s.doc] = s.image]
    /\ exposed' = StillExposed(exposed \cup
                     {{s.doc, y} : y \in Changed(db[s.doc], s.image) \ Changed(s.seen, s.image)})
    /\ UNCHANGED <<dummy_user, used>>

Step(r) ==
    \E s \in request[r].todo :
       /\ request' = [request EXCEPT ![r].todo = @ \ {s}]
       /\ save(r, s)

Finish(r) ==
    /\ request[r].todo = {} /\ request[r].last # None
    /\ request' = [request EXCEPT ![r] = Idle]
    /\ save(r, request[r].last)

\* The request ends with what is saved so far.
Leave(r) ==
    /\ UNCHANGED <<db, dummy_user>>
    /\ request' = [request EXCEPT ![r] = Idle]
    /\ exposed' = StillExposed(exposed \cup request[r].pairs)

Raise(r) == request[r].blocked /\ Leave(r) /\ UNCHANGED used

\* A save raises, or the process is killed.
Interrupt(r) ==
    /\ request[r] # Idle /\ ~request[r].blocked
    /\ used < MaxInterrupts /\ used' = used + 1
    /\ Leave(r)

Ask(r) ==
    \/ \E u \in User, g \in Group :
          \/ user_join_group(r, u, g) \/ user_leave_group(r, u, g)
          \/ group_add_user(r, g, u) \/ group_remove_user(r, g, u)
    \/ \E x \in Account : delete(r, x) \/ authenticate(r, x)
    \/ auth_dummy_user(r)

Next ==
    \/ \E x \in Account : create(x)
    \/ setup_dummy_user
    \/ \E r \in Request : Ask(r) \/ Step(r) \/ Finish(r) \/ Raise(r) \/ Interrupt(r)

Spec == Init /\ [][Next]_vars

-----------------------------------------------------------------------------
RequestType == [todo : SUBSET Save, last : Save \cup {None}, blocked : BOOLEAN,
                pairs : SUBSET Pair, alone : BOOLEAN]

TypeOK ==
    /\ db \in [Account -> Document]
    /\ \A x \in Account : \A y \in db[x].lists : {x, y} \in Pair
    /\ dummy_user \in Save
    /\ request \in [Request -> RequestType]
    /\ exposed \subseteq Pair
    /\ used \in 0..MaxInterrupts

\* The user and the group disagree on a membership only while a request is
\* changing it, or where a request ended half-way, two requests at the same time
\* were about it, or an older image was saved over it.
SidesAgree ==
    \A p \in Pair : OneSided(db, p) => p \in exposed \/ \E r \in Request : p \in request[r].pairs

\* A request that ends, and was the only one under way all the time, leaves what
\* it was about the same on both sides, whatever was there before: adding a
\* membership from the side that lacks it repairs it.
AloneSettles ==
    [][\A r \in Request :
          Finish(r) /\ request[r].alone => \A p \in request[r].pairs : ~OneSided(db', p)]_vars

\* What request r saves in a step that saves.
Saved(r) ==
    (request[r].todo \ request'[r].todo) \cup ({request[r].last} \ {None, request'[r].last})

\* A deleted account comes back only by a save of its own document: one that a
\* request has loaded while the account was stored, and the account was deleted
\* while that request was under way, or that of the dummy user, which the process
\* has loaded when it started and which every login under an unknown name saves.
StaysDeleted ==
    [][\A x \in Account : db[x] = Deleted /\ db'[x] # Deleted =>
          \E r \in Request : \E s \in Saved(r) :
             /\ s.doc = x /\ db'[x] = s.image
             /\ s = dummy_user \/ (s.seen.is = "stored" /\ ~request[r].alone)]_vars
=============================================================================
