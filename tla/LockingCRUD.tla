---------------------------- MODULE LockingCRUD ----------------------------
(***************************************************************************)
(* The document lock of Armagh, lib/armagh/document/base_document/         *)
(* locking_crud.rb.  Clients (agents, the scheduled action trigger, the    *)
(* admin API, each with a signature) lock, create, save and delete the     *)
(* documents of one MongoDB collection.  The lock is the field `_locked`   *)
(* of the document: false, or the signature of the holder and the time at  *)
(* which the lock expires.  The server executes each of its operations on  *)
(* one document atomically; everything between two operations interleaves. *)
(*                                                                         *)
(* A document is known by a natural key, on which the collection has a     *)
(* unique index, and by the `_id` the server gives it when it is inserted. *)
(* Its contents are a revision: the number of the write they come from.    *)
(***************************************************************************)
EXTENDS Integers

CONSTANTS
    Client,       \* the callers, each with a signature of its own
    Key,          \* natural keys of the documents
    None,         \* no client, no key
    Waits,        \* values given for lock_wait_duration
    Holds,        \* values given for lock_hold_duration
    DefaultHold,  \* default_lock_hold_duration
    Horizon,      \* bound: no call or lock renewal starts from this time on
    MaxTime,      \* bound: the clock stops here
    MaxWrites     \* bound: no save or delete starts after this many writes

ASSUME ConstantsAssumption ==
    /\ None \notin Client \cup Key
    /\ Waits \subseteq Nat
    /\ Holds \subseteq Nat
    /\ DefaultHold \in Holds
    /\ Horizon \in Nat /\ MaxTime \in Nat /\ MaxWrites \in Nat

VARIABLES
    now,     \* Time.now.utc
    writes,  \* inserts, replacements and deletions so far
    coll,    \* coll[k]: the stored document with natural key k
    img,     \* img[c][k]: the image of k that client c took the lock of
    call,    \* call[c]: the locking call that client c is executing
    up       \* the clients whose process is running

vars == <<now, writes, coll, img, call, up>>

-----------------------------------------------------------------------------
(* Documents, images and calls.  `by = None` stands for `_locked: false`,  *)
(* `id = 0` for no document and no image.                                  *)

Document == [id : Nat, rev : Nat, by : Client \cup {None}, until : Nat]
NoDoc    == [id |-> 0, rev |-> 0, by |-> None, until |-> 0]

Image   == [id : Nat, rev : Nat, until : Nat]
NoImage == [id |-> 0, rev |-> 0, until |-> 0]

Stage  == {"none", "probe", "try", "test", "create"}
Call   == [stage : Stage, key : Key \cup {None}, orCreate : BOOLEAN,
           wait : Nat, hold : Nat, deadline : Nat]
NoCall == [stage |-> "none", key |-> None, orCreate |-> FALSE,
           wait |-> 0, hold |-> 0, deadline |-> 0]

Exists(k)  == coll[k].id # 0
Holding(c, k) == img[c][k].id # 0
InCall(c)  == call[c].stage # "none"

\* Mutant: find_one_locked looks at the key alone.
UnlockedAnyLock(k) == Exists(k)

\* unlocked_qualifier: an expired lock still counts as a lock.
Unlocked(k) == Exists(k) /\ coll[k].by = None

\* Mutant: $lte for $lt.
ExpiredAtUntil(k) == coll[k].by # None /\ coll[k].until <= now

\* '_locked.until' < Time.now.utc; it matches no document whose _locked is false.
Expired(k) == coll[k].by # None /\ coll[k].until < now

\* Mutant: the qualifier by the natural key instead of the _id.
UnlockedOrMineByKey(c, k) ==
    Exists(k) /\ (coll[k].by = None \/ coll[k].by = c \/ Expired(k))

\* Mutant: the qualifier without the lock.
UnlockedOrMineIdOnly(c, k) == Exists(k) /\ coll[k].id = img[c][k].id

\* unlocked_or_my_qualifier on the _id of the image that c has of k.
UnlockedOrMine(c, k) ==
    /\ Exists(k)
    /\ coll[k].id = img[c][k].id
    /\ \/ coll[k].by = None
       \/ coll[k].by = c
       \/ Expired(k)

\* An idle client may start an operation.
Ready(c) == c \in up /\ ~InCall(c)

-----------------------------------------------------------------------------
Init ==
    /\ now = 0
    /\ writes = 0
    /\ coll = [k \in Key |-> NoDoc]
    /\ img = [c \in Client |-> [k \in Key |-> NoImage]]
    /\ call = [c \in Client |-> NoCall]
    /\ up = Client

\* locked_values and unlocked_values: a document with another lock.
WithLock(doc, by, until) ==
    [id |-> doc.id, rev |-> doc.rev, by |-> by, until |-> until]

\* Mutant: the lock ends a hold duration ago.
TakeLockInThePast(c, k, hold) ==
    /\ coll' = [coll EXCEPT ![k] = WithLock(@, c, now - hold)]
    /\ img' = [img EXCEPT ![c][k] =
                 [id |-> coll[k].id, rev |-> coll[k].rev, until |-> now - hold]]

\* find_one_and_update that sets _locked and returns the document.
TakeLock(c, k, hold) ==
    /\ coll' = [coll EXCEPT ![k] = WithLock(@, c, now + hold)]
    /\ img' = [img EXCEPT ![c][k] =
                 [id |-> coll[k].id, rev |-> coll[k].rev, until |-> now + hold]]

\* A write of client c to k: the image is stored under the lock (by, until).
Store(k, id, by, until) ==
    /\ coll' = [coll EXCEPT ![k] =
                  [id |-> id, rev |-> writes + 1, by |-> by, until |-> until]]
    /\ writes' = writes + 1

\* The first attempt of find_one_locked takes the lock.  No caller locks a
\* document whose lock it already took.
FindLocked(c, k, hold) ==
    /\ Ready(c) /\ ~Holding(c, k) /\ now < Horizon
    /\ Unlocked(k)
    /\ TakeLock(c, k, hold)
    /\ UNCHANGED <<now, writes, call, up>>

\* The first attempt fails.  With a wait duration the call goes on to ask
\* whether the document exists; without one it has its answer, nil.
FindFails(c, k, orCreate, wait, hold) ==
    /\ Ready(c) /\ ~Holding(c, k) /\ now < Horizon
    /\ ~Unlocked(k)
    /\ wait > 0 \/ orCreate
    /\ call' = [call EXCEPT ![c] =
                  [stage |-> IF wait > 0 THEN "probe" ELSE "create", key |-> k,
                   orCreate |-> orCreate, wait |-> wait, hold |-> hold,
                   deadline |-> 0]]
    /\ UNCHANGED <<now, writes, coll, img, up>>

\* find_one_locked gives nil: find_or_create_one_locked goes on to create.
GiveNil(c) == IF call[c].orCreate
              THEN call' = [call EXCEPT ![c].stage = "create"]
              ELSE call' = [call EXCEPT ![c] = NoCall]

\* collection.find( qualifier ).limit(1).first, a read of its own.
Probe(c) ==
    /\ c \in up /\ call[c].stage = "probe"
    /\ IF Exists(call[c].key)
       THEN call' = [call EXCEPT ![c] = [@ EXCEPT !.stage = "try",
                                                  !.deadline = now + call[c].wait]]
       ELSE GiveNil(c)
    /\ UNCHANGED <<now, writes, coll, img, up>>

\* The block of interruptible_wait_loop_with_timeout.
Try(c) ==
    /\ c \in up /\ call[c].stage = "try"
    /\ IF Unlocked(call[c].key)
       THEN /\ TakeLock(c, call[c].key, call[c].hold)
            /\ call' = [call EXCEPT ![c] = NoCall]
       ELSE /\ call' = [call EXCEPT ![c].stage = "test"]
            /\ UNCHANGED <<coll, img>>
    /\ UNCHANGED <<now, writes, up>>

\* Mutant: the wait loop without its timeout.
TestWithoutTimeout(c) ==
    /\ c \in up /\ call[c].stage = "test"
    /\ call' = [call EXCEPT ![c].stage = "try"]
    /\ UNCHANGED <<now, writes, coll, img, up>>

\* LockTimeoutError, or the backoff and the next round of the wait loop.
Test(c) ==
    /\ c \in up /\ call[c].stage = "test"
    /\ call' = [call EXCEPT ![c] = IF now > call[c].deadline
                                   THEN NoCall
                                   ELSE [@ EXCEPT !.stage = "try"]]
    /\ UNCHANGED <<now, writes, coll, img, up>>

\* create_one_locked holds for the default duration, whatever was asked for;
\* the unique index refuses a second document with the same natural key.
CreateLocked(c) ==
    /\ c \in up /\ call[c].stage = "create"
    /\ call' = [call EXCEPT ![c] = NoCall]
    /\ LET k == call[c].key IN
       IF Exists(k)
       THEN UNCHANGED <<writes, coll, img>>
       ELSE /\ Store(k, writes + 1, c, now + DefaultHold)
            /\ img' = [img EXCEPT ![c][k] = [id |-> writes + 1, rev |-> writes + 1,
                                             until |-> now + DefaultHold]]
    /\ UNCHANGED <<now, up>>

\* create_one_unlocked when the natural key is free.
CreateUnlocked(c, k) ==
    /\ Ready(c) /\ ~Exists(k) /\ now < Horizon /\ writes < MaxWrites
    /\ Store(k, writes + 1, None, 0)
    /\ UNCHANGED <<now, img, call, up>>

\* save( true ): replaces the document and gives the lock back.
SaveUnlock(c, k) ==
    /\ Ready(c) /\ Holding(c, k) /\ writes < MaxWrites
    /\ UnlockedOrMine(c, k)
    /\ Store(k, img[c][k].id, None, 0)
    /\ img' = [img EXCEPT ![c][k] = NoImage]
    /\ UNCHANGED <<now, call, up>>

\* save( false ): replaces the document and takes the lock for a new period.
SaveKeep(c, k) ==
    /\ Ready(c) /\ Holding(c, k) /\ now < Horizon /\ writes < MaxWrites
    /\ UnlockedOrMine(c, k)
    /\ Store(k, img[c][k].id, c, now + DefaultHold)
    /\ img' = [img EXCEPT ![c][k] = [id |-> img[c][k].id, rev |-> writes + 1,
                                     until |-> now + DefaultHold]]
    /\ UNCHANGED <<now, call, up>>

\* delete; the natural key is free afterwards.
Delete(c, k) ==
    /\ Ready(c) /\ Holding(c, k) /\ writes < MaxWrites
    /\ UnlockedOrMine(c, k)
    /\ coll' = [coll EXCEPT ![k] = NoDoc]
    /\ writes' = writes + 1
    /\ img' = [img EXCEPT ![c][k] = NoImage]
    /\ UNCHANGED <<now, call, up>>

\* save raises LockExpiredError, or delete raises ConnectionError: the stored
\* document is another client's.  The caller drops its image.
WriteRefused(c, k) ==
    /\ Ready(c) /\ Holding(c, k)
    /\ ~UnlockedOrMine(c, k)
    /\ img' = [img EXCEPT ![c][k] = NoImage]
    /\ UNCHANGED <<now, writes, coll, call, up>>

\* The block given to with_new_or_existing_locked_document raises: there is no
\* ensure, the image is dropped and the document stays locked.
Abandon(c, k) ==
    /\ Ready(c) /\ Holding(c, k)
    /\ img' = [img EXCEPT ![c][k] = NoImage]
    /\ UNCHANGED <<now, writes, coll, call, up>>

\* The process of the client ends; its locks stay in the collection.
Crash(c) ==
    /\ c \in up
    /\ up' = up \ {c}
    /\ img' = [img EXCEPT ![c] = [k \in Key |-> NoImage]]
    /\ call' = [call EXCEPT ![c] = NoCall]
    /\ UNCHANGED <<now, writes, coll>>

\* _locked: false, set on one document by an update_many of the server.
ClearLock(k) == coll' = [coll EXCEPT ![k] = WithLock(@, None, 0)]

\* force_unlock_all_in_collection_held_by, which the launcher calls for an
\* agent it found dead; it leaves the locks that have expired.
ForceUnlockHeldBy(c, k) ==
    /\ c \notin up
    /\ coll[k].by = c /\ coll[k].until > now
    /\ ClearLock(k)
    /\ UNCHANGED <<now, writes, img, call, up>>

\* Mutant: the clean-up compares a field that no document has.
ResetExpiredNoMatch(k) == UNCHANGED vars

\* force_reset_expired_locks, called by the database clean-up.
ResetExpired(k) ==
    /\ IF Expired(k) THEN ClearLock(k) ELSE UNCHANGED coll
    /\ UNCHANGED <<now, writes, img, call, up>>

\* The clock.  From Horizon on it waits for the calls that can end now.
Tick ==
    /\ \/ now < Horizon
       \/ now < MaxTime /\ \A c \in Client : InCall(c) => call[c].deadline >= now
    /\ now' = now + 1
    /\ UNCHANGED <<writes, coll, img, call, up>>

-----------------------------------------------------------------------------
CallStep(c) == Probe(c) \/ Try(c) \/ Test(c) \/ CreateLocked(c)

StartCall(c) ==
    \E k \in Key, hold \in Holds :
        \/ FindLocked(c, k, hold)
        \/ \E wait \in Waits, orCreate \in BOOLEAN :
               FindFails(c, k, orCreate, wait, hold)

Write(c, k) ==
    \/ CreateUnlocked(c, k)
    \/ SaveUnlock(c, k)
    \/ SaveKeep(c, k)
    \/ Delete(c, k)
    \/ WriteRefused(c, k)
    \/ Abandon(c, k)

Next ==
    \/ \E c \in Client : StartCall(c) \/ CallStep(c) \/ Crash(c)
    \/ \E c \in Client, k \in Key : Write(c, k) \/ ForceUnlockHeldBy(c, k)
    \/ \E k \in Key : ResetExpired(k)
    \/ Tick

\* A client goes on with the call it is in, time passes and the clean-up runs.
\* Nobody promises that a client saves what it has locked, or that it lives.
Fairness ==
    /\ \A c \in Client : WF_vars(CallStep(c))
    /\ \A k \in Key : WF_vars(ResetExpired(k))
    /\ WF_vars(Tick)

Spec == Init /\ [][Next]_vars
FairSpec == Spec /\ Fairness

-----------------------------------------------------------------------------
(* Properties *)

\* The types of the state: what is stored, remembered and under way.
TypeOK ==
    /\ now \in Nat
    /\ writes \in Nat
    /\ coll \in [Key -> Document]
    /\ img \in [Client -> [Key -> Image]]
    /\ call \in [Client -> Call]
    /\ up \subseteq Client

\* The image that c has of k shows the stored document and the lock on it.
Shows(c, k) ==
    /\ coll[k].by = c
    /\ coll[k].until = img[c][k].until
    /\ coll[k].id = img[c][k].id
    /\ coll[k].rev = img[c][k].rev

\* While the lock that an image shows has not expired, the stored document is the
\* one the client read or last saved and the lock is the client's: two clients
\* cannot both believe they hold a document.  This is stronger than what
\* locked_by_me_until relies on, whose test is strict: the instant at which the
\* lock ends counts, too, since the queries ($lt) treat a lock as expired only
\* after it.
HolderIsCurrent ==
    \A c \in Client, k \in Key :
        Holding(c, k) /\ img[c][k].until >= now =>
            Shows(c, k)

\* A document under a lock that has not expired is changed, unlocked or deleted
\* by nobody but the holder, or by the recovery of a holder that is dead.
LockProtects ==
    [][\A k \in Key :
        coll[k].by # None /\ coll[k].until >= now /\ coll'[k] # coll[k] =>
            LET holder == coll[k].by IN
            holder \notin up \/ img'[holder][k] # img[holder][k]]_vars

\* Saving an image never brings back a document deleted since it was read and
\* never overwrites the document created in its place: a natural key gets a new
\* `_id` only when it is free, and an `_id` that was never used.
NoResurrection ==
    [][\A k \in Key :
        coll'[k].id \notin {0, coll[k].id} => coll[k].id = 0 /\ coll'[k].id > writes]_vars

\* Every locking call ends: with the lock, with nil, with DocumentUniquenessError
\* or with LockTimeoutError, also when two clients each wait for a document that
\* the other has locked.
CallsEnd == \A c \in Client : InCall(c) ~> ~InCall(c)

\* A lock whose holder has crashed, or raised before it saved, is cleared.
OrphanLocksFreed ==
    \A c \in Client, k \in Key :
        coll[k].by = c /\ ~Holding(c, k) ~> coll[k].by # c

-----------------------------------------------------------------------------
(* What the lock promises, as specification Lease.  The owner of a document   *)
(* is the client whose image shows a lock that has not expired, the instant   *)
(* at which it ends included, as in HolderIsCurrent.                          *)

Owns(c, k) == Holding(c, k) /\ img[c][k].until >= now
OwnerOf(k) == IF \E c \in Client : Owns(c, k)
              THEN CHOOSE c \in Client : Owns(c, k)
              ELSE None

Seen(c, k) == IF Owns(c, k) THEN img[c][k].rev ELSE 0

ownerBar   == [k \in Key |-> OwnerOf(k)]
contentBar == [k \in Key |-> coll[k].rev]
seenBar    == [c \in Client |-> [k \in Key |-> Seen(c, k)]]

Lease == INSTANCE Lease WITH owner <- ownerBar, content <- contentBar, seen <- seenBar

ImplementsLease == Lease!Spec
=============================================================================
