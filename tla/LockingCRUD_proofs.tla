------------------------- MODULE LockingCRUD_proofs -------------------------
(***************************************************************************)
(* Safety of the document lock, for any set of clients, keys, durations    *)
(* and bounds.                                                             *)
(***************************************************************************)
EXTENDS LockingCRUD, TLAPS

USE ConstantsAssumption

-----------------------------------------------------------------------------
(* The inductive invariant *)

\* A client whose process has ended is in no call and has no image.
DeadHaveNothing ==
    \A c \in Client \ up : call[c] = NoCall /\ img[c] = [k \in Key |-> NoImage]

\* A call in progress is about a document.
CallsHaveKeys == \A c \in Client : InCall(c) => call[c].key \in Key

\* A key without a document has no lock either.
FreeKeysUnlocked == \A k \in Key : ~Exists(k) => coll[k].by = None

\* The revisions stored and shown come from writes that happened.
RevisionsAreOld ==
    /\ \A k \in Key : coll[k].rev <= writes
    /\ \A c \in Client, k \in Key : img[c][k].rev <= writes

IInv ==
    /\ TypeOK
    /\ DeadHaveNothing
    /\ CallsHaveKeys
    /\ FreeKeysUnlocked
    /\ RevisionsAreOld
    /\ HolderIsCurrent

-----------------------------------------------------------------------------
(* Type correctness *)

\* A document with another lock is a document with the same contents.
LEMMA WithLockType ==
  ASSUME NEW doc \in Document, NEW by \in Client \cup {None}, NEW until \in Nat
  PROVE  /\ WithLock(doc, by, until) \in Document
         /\ WithLock(doc, by, until).id = doc.id
         /\ WithLock(doc, by, until).rev = doc.rev
         /\ WithLock(doc, by, until).by = by
         /\ WithLock(doc, by, until).until = until
  BY DEF WithLock, Document

\* Taking the lock of a document keeps the types of collection and images.
LEMMA TakeLockType ==
  ASSUME TypeOK, NEW c \in Client, NEW k \in Key, NEW hold \in Nat,
         TakeLock(c, k, hold)
  PROVE  coll' \in [Key -> Document] /\ img' \in [Client -> [Key -> Image]]
<1>1. coll[k] \in Document /\ now + hold \in Nat
  BY DEF TypeOK
<1>2. WithLock(coll[k], c, now + hold) \in Document
  BY <1>1, WithLockType
<1>3. coll' \in [Key -> Document]
  BY <1>2 DEF TypeOK, TakeLock
<1>4. [id |-> coll[k].id, rev |-> coll[k].rev, until |-> now + hold] \in Image
  BY <1>1 DEF Document, Image
<1>5. img' \in [Client -> [Key -> Image]]
  BY <1>4 DEF TypeOK, TakeLock
<1> QED  BY <1>3, <1>5

\* Clearing a lock keeps the type of the collection.
LEMMA ClearLockType ==
  ASSUME TypeOK, NEW k \in Key, ClearLock(k)
  PROVE  coll' \in [Key -> Document]
<1>1. WithLock(coll[k], None, 0) \in Document
  BY WithLockType DEF TypeOK
<1> QED  BY <1>1 DEF TypeOK, ClearLock

\* A write keeps the types of collection and write count.
LEMMA StoreType ==
  ASSUME TypeOK, NEW k \in Key, NEW id \in Nat, NEW by \in Client \cup {None},
         NEW until \in Nat, Store(k, id, by, until)
  PROVE  coll' \in [Key -> Document] /\ writes' \in Nat
<1>1. [id |-> id, rev |-> writes + 1, by |-> by, until |-> until] \in Document
  BY DEF TypeOK, Document
<1> QED  BY <1>1 DEF TypeOK, Store

\* An image that replaces another keeps the type of the images.
LEMMA ImageType ==
  ASSUME TypeOK, NEW c \in Client, NEW k \in Key, NEW i \in Image,
         img' = [img EXCEPT ![c][k] = i]
  PROVE  img' \in [Client -> [Key -> Image]]
  BY DEF TypeOK

\* A call that replaces another keeps the type of the calls.
LEMMA CallType ==
  ASSUME TypeOK, NEW c \in Client, NEW new \in Call, call' = [call EXCEPT ![c] = new]
  PROVE  call' \in [Client -> Call]
  BY DEF TypeOK

\* A call moves on to another stage, with or without a new deadline.
LEMMA StageType ==
  ASSUME NEW old \in Call, NEW stage \in Stage, NEW deadline \in Nat
  PROVE  /\ [old EXCEPT !.stage = stage] \in Call
         /\ [old EXCEPT !.stage = stage, !.deadline = deadline] \in Call
  BY DEF Call

LEMMA EmptyValues == NoDoc \in Document /\ NoImage \in Image /\ NoCall \in Call
  BY DEF NoDoc, NoImage, NoCall, Document, Image, Call, Stage

LEMMA InitTypeOK == Init => TypeOK
  BY EmptyValues DEF Init, TypeOK

\* Every step keeps the types.
LEMMA NextTypeOK ==
  ASSUME TypeOK, CallsHaveKeys, [Next]_vars
  PROVE  TypeOK'
<1>1. ASSUME NEW c \in Client, StartCall(c) PROVE TypeOK'
  <2>1. ASSUME NEW k \in Key, NEW hold \in Holds, FindLocked(c, k, hold)
        PROVE  TypeOK'
    BY <2>1, TakeLockType DEF FindLocked, TypeOK
  <2>2. ASSUME NEW k \in Key, NEW hold \in Holds, NEW wait \in Waits,
               NEW orCreate \in BOOLEAN, FindFails(c, k, orCreate, wait, hold)
        PROVE  TypeOK'
    BY <2>2 DEF FindFails, TypeOK, Call, Stage
  <2> QED  BY <1>1, <2>1, <2>2 DEF StartCall
<1>2. ASSUME NEW c \in Client, CallStep(c) PROVE TypeOK'
  <2>1. CASE Probe(c)
    <3>1. call[c] \in Call
      BY DEF TypeOK
    <3>2. now + call[c].wait \in Nat
      BY <3>1 DEF TypeOK, Call
    <3>3. /\ [call[c] EXCEPT !.stage = "try", !.deadline = now + call[c].wait] \in Call
          /\ [call[c] EXCEPT !.stage = "create"] \in Call
      BY <3>1, <3>2, StageType DEF Stage
    <3>4. \E new \in Call : call' = [call EXCEPT ![c] = new]
      BY <2>1, <3>3, EmptyValues DEF Probe, GiveNil
    <3>5. call' \in [Client -> Call]
      BY <3>4, CallType
    <3> QED  BY <2>1, <3>5 DEF Probe, TypeOK
  <2>2. CASE Try(c)
    <3>1. call[c] \in Call /\ call[c].key \in Key /\ call[c].hold \in Nat
      BY <2>2 DEF TypeOK, Try, CallsHaveKeys, InCall, Call
    <3>2. [call[c] EXCEPT !.stage = "test"] \in Call
      BY <3>1, StageType DEF Stage
    <3>3. call' \in [Client -> Call]
      BY <2>2, <3>2, EmptyValues DEF Try, TypeOK
    <3>4. coll' \in [Key -> Document] /\ img' \in [Client -> [Key -> Image]]
      BY <2>2, <3>1, TakeLockType DEF Try, TypeOK
    <3> QED  BY <2>2, <3>3, <3>4 DEF Try, TypeOK
  <2>3. CASE Test(c)
    <3>1. call[c] \in Call
      BY DEF TypeOK
    <3>2. [call[c] EXCEPT !.stage = "try"] \in Call
      BY <3>1, StageType DEF Stage
    <3> QED  BY <2>3, <3>2, EmptyValues DEF Test, TypeOK
  <2>4. CASE CreateLocked(c)
    <3>1. call[c].key \in Key /\ now + DefaultHold \in Nat /\ writes + 1 \in Nat
      BY <2>4 DEF TypeOK, CreateLocked, CallsHaveKeys, InCall
    <3>2. [id |-> writes + 1, rev |-> writes + 1, until |-> now + DefaultHold] \in Image
      BY <3>1 DEF Image
    <3>3. CASE Exists(call[c].key)
      BY <2>4, <3>3, EmptyValues DEF CreateLocked, TypeOK
    <3>4. CASE ~Exists(call[c].key)
      <4>1. /\ Store(call[c].key, writes + 1, c, now + DefaultHold)
            /\ img' = [img EXCEPT ![c][call[c].key] =
                         [id |-> writes + 1, rev |-> writes + 1, until |-> now + DefaultHold]]
        BY <2>4, <3>4 DEF CreateLocked
      <4>2. coll' \in [Key -> Document] /\ writes' \in Nat
        BY <3>1, <4>1, StoreType
      <4>3. img' \in [Client -> [Key -> Image]]
        BY <3>1, <3>2, <4>1, ImageType
      <4> QED  BY <2>4, <4>2, <4>3, EmptyValues DEF CreateLocked, TypeOK
    <3> QED  BY <3>3, <3>4
  <2> QED  BY <1>2, <2>1, <2>2, <2>3, <2>4 DEF CallStep
<1>3. ASSUME NEW c \in Client, NEW k \in Key, Write(c, k) PROVE TypeOK'
  <2>1. CASE CreateUnlocked(c, k)
    BY <2>1, StoreType DEF CreateUnlocked, TypeOK
  <2>2. CASE SaveUnlock(c, k)
    BY <2>2, StoreType, EmptyValues DEF SaveUnlock, TypeOK, Image
  <2>3. CASE SaveKeep(c, k)
    <3>1. img[c][k].id \in Nat /\ now + DefaultHold \in Nat /\ writes + 1 \in Nat
      BY DEF TypeOK, Image
    <3>2. coll' \in [Key -> Document] /\ writes' \in Nat
      BY <2>3, <3>1, StoreType DEF SaveKeep
    <3>3. [id |-> img[c][k].id, rev |-> writes + 1, until |-> now + DefaultHold] \in Image
      BY <3>1 DEF Image
    <3>4. img' \in [Client -> [Key -> Image]]
      BY <2>3, <3>3, ImageType DEF SaveKeep
    <3> QED  BY <2>3, <3>2, <3>4 DEF SaveKeep, TypeOK
  <2>4. CASE Delete(c, k)
    BY <2>4, EmptyValues DEF Delete, TypeOK
  <2>5. CASE WriteRefused(c, k)
    BY <2>5, EmptyValues DEF WriteRefused, TypeOK
  <2>6. CASE Abandon(c, k)
    BY <2>6, EmptyValues DEF Abandon, TypeOK
  <2> QED  BY <1>3, <2>1, <2>2, <2>3, <2>4, <2>5, <2>6 DEF Write
<1>4. ASSUME NEW c \in Client, Crash(c) PROVE TypeOK'
  BY <1>4, EmptyValues DEF Crash, TypeOK
<1>5. ASSUME NEW c \in Client, NEW k \in Key, ForceUnlockHeldBy(c, k)
      PROVE  TypeOK'
  BY <1>5, ClearLockType DEF ForceUnlockHeldBy, TypeOK
<1>6. ASSUME NEW k \in Key, ResetExpired(k) PROVE TypeOK'
  BY <1>6, ClearLockType DEF ResetExpired, TypeOK
<1>7. CASE Tick
  BY <1>7 DEF Tick, TypeOK
<1>8. CASE UNCHANGED vars
  BY <1>8 DEF vars, TypeOK
<1> QED  BY <1>1, <1>2, <1>3, <1>4, <1>5, <1>6, <1>7, <1>8 DEF Next

-----------------------------------------------------------------------------
(* The invariant is inductive *)

LEMMA InitIInv == Init => IInv
<1> SUFFICES ASSUME Init PROVE IInv
  OBVIOUS
<1>1. TypeOK
  BY InitTypeOK
<1>2. DeadHaveNothing /\ CallsHaveKeys /\ FreeKeysUnlocked /\ RevisionsAreOld /\ HolderIsCurrent
  BY DEF Init, DeadHaveNothing, CallsHaveKeys, FreeKeysUnlocked, RevisionsAreOld,
         HolderIsCurrent, InCall, Exists, Holding, NoDoc, NoImage, NoCall
<1> QED  BY <1>1, <1>2 DEF IInv

\* A live image of a document is its holder's, and the lock has not expired.
LEMMA LiveImageIsHolders ==
  ASSUME IInv, NEW d \in Client, NEW k \in Key,
         Holding(d, k), img[d][k].until >= now
  PROVE  coll[k].by = d /\ Exists(k) /\ ~Expired(k) /\ ~Unlocked(k)
<1>1. Shows(d, k)
  BY DEF IInv, HolderIsCurrent
<1>2. coll[k].by = d /\ Exists(k)
  BY <1>1 DEF Shows, Exists, Holding
<1>3. coll[k].until \in Nat /\ now \in Nat /\ coll[k].until >= now
  BY <1>1 DEF Shows, IInv, TypeOK, Document
<1> QED  BY <1>2, <1>3 DEF Expired, Unlocked

\* A step on the image that c has of k and on the document k keeps
\* HolderIsCurrent when nobody else has a live image of k and c's image, if it
\* is live afterwards, shows the new document.
LEMMA LocalStep ==
  ASSUME IInv, NEW c, NEW k \in Key, now' = now,
         \A j \in Key \ {k} : coll'[j] = coll[j],
         \A d \in Client, j \in Key : d # c \/ j # k => img'[d][j] = img[d][j],
         \A d \in Client \ {c} : ~(Holding(d, k) /\ img[d][k].until >= now),
         c \in Client /\ Holding(c, k)' /\ img'[c][k].until >= now => Shows(c, k)'
  PROVE  HolderIsCurrent'
<1> SUFFICES ASSUME NEW d \in Client, NEW j \in Key,
                    Holding(d, j)', (img[d][j].until >= now)'
             PROVE  Shows(d, j)'
  BY DEF HolderIsCurrent
<1>1. CASE d = c /\ j = k
  BY <1>1
<1>2. CASE d # c /\ j = k
  <2>1. Holding(d, k) /\ img[d][k].until >= now
    BY <1>2 DEF Holding
  <2> QED  BY <1>2, <2>1
<1>3. CASE j # k
  <2>1. img'[d][j] = img[d][j] /\ coll'[j] = coll[j]
    BY <1>3
  <2>2. Shows(d, j)
    BY <2>1 DEF IInv, HolderIsCurrent, Holding
  <2> QED  BY <2>1, <2>2 DEF Shows
<1> QED  BY <1>1, <1>2, <1>3

\* Taking the lock of an unlocked document.
LEMMA TakeLockKeepsHolderIsCurrent ==
  ASSUME IInv, NEW c \in Client, NEW k \in Key, NEW hold \in Nat,
         Unlocked(k), TakeLock(c, k, hold), now' = now
  PROVE  HolderIsCurrent'
<1>1. \A d \in Client \ {c} : ~(Holding(d, k) /\ img[d][k].until >= now)
  BY LiveImageIsHolders
<1>2. Shows(c, k)'
  BY DEF IInv, TypeOK, TakeLock, WithLock, Shows
<1>3. \A j \in Key \ {k} : coll'[j] = coll[j]
  BY DEF IInv, TypeOK, TakeLock
<1>4. \A d \in Client, j \in Key : d # c \/ j # k => img'[d][j] = img[d][j]
  BY DEF IInv, TypeOK, TakeLock
<1> QED  BY <1>1, <1>2, <1>3, <1>4, LocalStep

\* Dropping images while documents stay and time passes at most.
LEMMA QuietKeepsHolderIsCurrent ==
  ASSUME IInv, coll' = coll, now' \in {now, now + 1},
         \A d \in Client, j \in Key : img'[d][j] \in {img[d][j], NoImage}
  PROVE  HolderIsCurrent'
<1> SUFFICES ASSUME NEW d \in Client, NEW j \in Key,
                    Holding(d, j)', (img[d][j].until >= now)'
             PROVE  Shows(d, j)'
  BY DEF HolderIsCurrent
<1>1. img'[d][j] = img[d][j]
  BY DEF Holding, NoImage
<1>2. img[d][j].until \in Nat /\ now \in Nat
  BY DEF IInv, TypeOK, Image
<1>3. Holding(d, j) /\ img[d][j].until >= now
  BY <1>1, <1>2 DEF Holding
<1>4. Shows(d, j)
  BY <1>3 DEF IInv, HolderIsCurrent
<1> QED  BY <1>1, <1>4 DEF Shows

\* Dropping an image with a write to its document that nobody else holds.
LEMMA DropKeepsHolderIsCurrent ==
  ASSUME IInv, NEW c \in Client, NEW k \in Key, now' = now,
         img' = [img EXCEPT ![c][k] = NoImage],
         \A j \in Key \ {k} : coll'[j] = coll[j],
         coll[k].by = c \/ Unlocked(k) \/ Expired(k)
  PROVE  HolderIsCurrent'
<1>1. \A d \in Client, j \in Key : d # c \/ j # k => img'[d][j] = img[d][j]
  BY DEF IInv, TypeOK
<1>2. ~Holding(c, k)'
  BY DEF IInv, TypeOK, Holding, NoImage
<1>3. \A d \in Client \ {c} : ~(Holding(d, k) /\ img[d][k].until >= now)
  BY LiveImageIsHolders
<1> QED  BY <1>1, <1>2, <1>3, LocalStep

\* A document of which nobody else has a live image, written and shown to c.
LEMMA ShowKeepsHolderIsCurrent ==
  ASSUME IInv, NEW c \in Client, NEW k \in Key, NEW id \in Nat, NEW until \in Nat,
         Store(k, id, c, until), now' = now,
         img' = [img EXCEPT ![c][k] = [id |-> id, rev |-> writes + 1, until |-> until]],
         coll[k].by = c \/ Unlocked(k) \/ Expired(k) \/ ~Exists(k)
  PROVE  HolderIsCurrent'
<1>1. \A d \in Client, j \in Key : d # c \/ j # k => img'[d][j] = img[d][j]
  BY DEF IInv, TypeOK
<1>2. Shows(c, k)'
  BY DEF IInv, TypeOK, Store, Shows
<1>3. \A d \in Client \ {c} : ~(Holding(d, k) /\ img[d][k].until >= now)
  BY LiveImageIsHolders
<1>4. \A j \in Key \ {k} : coll'[j] = coll[j]
  BY DEF IInv, TypeOK, Store
<1> QED  BY <1>1, <1>2, <1>3, <1>4, LocalStep

\* Clearing a lock of which nobody has a live image.
LEMMA ClearLockKeepsHolderIsCurrent ==
  ASSUME IInv, NEW k \in Key, ClearLock(k), img' = img, now' = now,
         \A d \in Client : ~(Holding(d, k) /\ img[d][k].until >= now)
  PROVE  HolderIsCurrent'
<1>1. \A j \in Key \ {k} : coll'[j] = coll[j]
  BY DEF IInv, TypeOK, ClearLock
<1>2. None \notin Client
  OBVIOUS
<1> QED  BY <1>1, <1>2, LocalStep

\* What a client must know to write: nobody else holds the document.
LEMMA UnlockedOrMineCases ==
  ASSUME NEW c, NEW k, UnlockedOrMine(c, k)
  PROVE  coll[k].by = c \/ Unlocked(k) \/ Expired(k)
  BY DEF UnlockedOrMine, Unlocked

\* Every step keeps HolderIsCurrent.
LEMMA NextHolderIsCurrent ==
  ASSUME IInv, [Next]_vars
  PROVE  HolderIsCurrent'
<1> USE DEF IInv
<1>1. ASSUME NEW c \in Client, StartCall(c) PROVE HolderIsCurrent'
  <2>1. ASSUME NEW k \in Key, NEW hold \in Holds, FindLocked(c, k, hold)
        PROVE  HolderIsCurrent'
    BY <2>1, TakeLockKeepsHolderIsCurrent DEF FindLocked
  <2>2. ASSUME NEW k \in Key, NEW hold \in Holds, NEW wait \in Waits,
               NEW orCreate \in BOOLEAN, FindFails(c, k, orCreate, wait, hold)
        PROVE  HolderIsCurrent'
    BY <2>2, QuietKeepsHolderIsCurrent DEF FindFails
  <2> QED  BY <1>1, <2>1, <2>2 DEF StartCall
<1>2. ASSUME NEW c \in Client, CallStep(c) PROVE HolderIsCurrent'
  <2>1. CASE Probe(c)  BY <2>1, QuietKeepsHolderIsCurrent DEF Probe
  <2>2. CASE Try(c)
    <3>1. call[c].key \in Key /\ call[c].hold \in Nat
      BY <2>2 DEF TypeOK, Try, CallsHaveKeys, InCall, Call
    <3>2. CASE Unlocked(call[c].key)
      BY <2>2, <3>1, <3>2, TakeLockKeepsHolderIsCurrent DEF Try
    <3>3. CASE ~Unlocked(call[c].key)
      BY <2>2, <3>3, QuietKeepsHolderIsCurrent DEF Try
    <3> QED  BY <3>2, <3>3
  <2>3. CASE Test(c)   BY <2>3, QuietKeepsHolderIsCurrent DEF Test
  <2>4. CASE CreateLocked(c)
    <3>0. TypeOK
      OBVIOUS
    <3>1. call[c].key \in Key /\ now + DefaultHold \in Nat /\ writes + 1 \in Nat
      <4>1. call[c].key \in Key
        BY <2>4 DEF CreateLocked, CallsHaveKeys, InCall
      <4> QED  BY <3>0, <4>1 DEF TypeOK
    <3>2. CASE Exists(call[c].key)
      BY <2>4, <3>2, QuietKeepsHolderIsCurrent DEF CreateLocked
    <3>3. CASE ~Exists(call[c].key)
      <4>1. /\ Store(call[c].key, writes + 1, c, now + DefaultHold)
            /\ img' = [img EXCEPT ![c][call[c].key] =
                         [id |-> writes + 1, rev |-> writes + 1, until |-> now + DefaultHold]]
            /\ now' = now
        BY <2>4, <3>3 DEF CreateLocked
      <4> HIDE DEF IInv
      <4> QED  BY <3>1, <3>3, <4>1, ShowKeepsHolderIsCurrent
    <3> QED  BY <3>2, <3>3
  <2> QED  BY <1>2, <2>1, <2>2, <2>3, <2>4 DEF CallStep
<1>3. ASSUME NEW c \in Client, NEW k \in Key, Write(c, k) PROVE HolderIsCurrent'
  <2>1. CASE CreateUnlocked(c, k)
    <3>1. \A d \in Client : ~(Holding(d, k) /\ img[d][k].until >= now)
      BY <2>1, LiveImageIsHolders DEF CreateUnlocked
    <3>2. \A j \in Key \ {k} : coll'[j] = coll[j]
      BY <2>1 DEF CreateUnlocked, Store, TypeOK
    <3>3. None \notin Client /\ img' = img /\ now' = now
      BY <2>1 DEF CreateUnlocked
    <3> QED  BY <3>1, <3>2, <3>3, LocalStep
  <2>2. CASE SaveUnlock(c, k)
    <3>1. \A j \in Key \ {k} : coll'[j] = coll[j]
      BY <2>2 DEF SaveUnlock, Store, TypeOK
    <3> QED
      BY <2>2, <3>1, DropKeepsHolderIsCurrent, UnlockedOrMineCases DEF SaveUnlock
  <2>3. CASE SaveKeep(c, k)
    <3>1. img[c][k].id \in Nat /\ now + DefaultHold \in Nat
      BY DEF TypeOK, Image
    <3> QED
      BY <2>3, <3>1, ShowKeepsHolderIsCurrent, UnlockedOrMineCases DEF SaveKeep
  <2>4. CASE Delete(c, k)
    <3>1. \A j \in Key \ {k} : coll'[j] = coll[j]
      BY <2>4 DEF Delete, TypeOK
    <3> QED
      BY <2>4, <3>1, DropKeepsHolderIsCurrent, UnlockedOrMineCases DEF Delete
  <2>5. CASE WriteRefused(c, k) \/ Abandon(c, k)
    <3>1. \A d \in Client, j \in Key : img'[d][j] \in {img[d][j], NoImage}
      BY <2>5 DEF WriteRefused, Abandon, TypeOK
    <3> QED  BY <2>5, <3>1, QuietKeepsHolderIsCurrent DEF WriteRefused, Abandon
  <2> QED  BY <1>3, <2>1, <2>2, <2>3, <2>4, <2>5 DEF Write
<1>4. ASSUME NEW c \in Client, Crash(c) PROVE HolderIsCurrent'
  <2>1. \A d \in Client, j \in Key : img'[d][j] \in {img[d][j], NoImage}
    BY <1>4 DEF Crash, TypeOK
  <2> QED  BY <1>4, <2>1, QuietKeepsHolderIsCurrent DEF Crash
<1>5. ASSUME NEW c \in Client, NEW k \in Key, ForceUnlockHeldBy(c, k)
      PROVE  HolderIsCurrent'
  <2>1. ~Holding(c, k)
    BY <1>5 DEF ForceUnlockHeldBy, DeadHaveNothing, Holding, NoImage
  <2>2. \A d \in Client : ~(Holding(d, k) /\ img[d][k].until >= now)
    BY <1>5, <2>1, LiveImageIsHolders DEF ForceUnlockHeldBy
  <2> QED  BY <1>5, <2>2, ClearLockKeepsHolderIsCurrent DEF ForceUnlockHeldBy
<1>6. ASSUME NEW k \in Key, ResetExpired(k) PROVE HolderIsCurrent'
  <2>1. CASE Expired(k)
    BY <1>6, <2>1, LiveImageIsHolders, ClearLockKeepsHolderIsCurrent DEF ResetExpired
  <2>2. CASE ~Expired(k)
    BY <1>6, <2>2, QuietKeepsHolderIsCurrent DEF ResetExpired
  <2> QED  BY <2>1, <2>2
<1>7. CASE Tick
  BY <1>7, QuietKeepsHolderIsCurrent DEF Tick
<1>8. CASE UNCHANGED vars
  BY <1>8, QuietKeepsHolderIsCurrent DEF vars
<1> QED  BY <1>1, <1>2, <1>3, <1>4, <1>5, <1>6, <1>7, <1>8 DEF Next

\* A key is locked only while it has a document.
LEMMA NextFreeKeysUnlocked ==
  ASSUME IInv, [Next]_vars
  PROVE  FreeKeysUnlocked'
<1> USE DEF IInv
<1> SUFFICES ASSUME NEW j \in Key, coll'[j].id = 0 PROVE coll'[j].by = None
  BY DEF FreeKeysUnlocked, Exists
<1>0. coll[j].id = 0 => coll[j].by = None
  BY DEF FreeKeysUnlocked, Exists
<1>1. ASSUME NEW c \in Client, StartCall(c) PROVE coll'[j].by = None
  <2>1. ASSUME NEW k \in Key, NEW hold \in Holds, FindLocked(c, k, hold)
        PROVE  coll'[j].by = None
    BY <1>0, <2>1 DEF FindLocked, TakeLock, WithLock, Unlocked, Exists, TypeOK
  <2>2. ASSUME NEW k \in Key, NEW hold \in Holds, NEW wait \in Waits,
               NEW orCreate \in BOOLEAN, FindFails(c, k, orCreate, wait, hold)
        PROVE  coll'[j].by = None
    BY <1>0, <2>2 DEF FindFails
  <2> QED  BY <1>1, <2>1, <2>2 DEF StartCall
<1>2. ASSUME NEW c \in Client, CallStep(c) PROVE coll'[j].by = None
  <2>1. CASE Probe(c) \/ Test(c)
    BY <1>0, <2>1 DEF Probe, Test
  <2>2. CASE Try(c)
    BY <1>0, <2>2 DEF Try, TakeLock, WithLock, Unlocked, Exists, TypeOK
  <2>3. CASE CreateLocked(c)
    <3>1. writes + 1 # 0
      BY DEF TypeOK
    <3> QED  BY <1>0, <2>3, <3>1 DEF CreateLocked, Store, TypeOK
  <2> QED  BY <1>2, <2>1, <2>2, <2>3 DEF CallStep
<1>3. ASSUME NEW c \in Client, NEW k \in Key, Write(c, k) PROVE coll'[j].by = None
  <2>1. CASE CreateUnlocked(c, k)
    BY <1>0, <2>1 DEF CreateUnlocked, Store, TypeOK
  <2>2. CASE SaveUnlock(c, k)
    BY <1>0, <2>2 DEF SaveUnlock, Store, TypeOK
  <2>3. CASE SaveKeep(c, k)
    BY <1>0, <2>3 DEF SaveKeep, Store, Holding, TypeOK
  <2>4. CASE Delete(c, k)
    BY <1>0, <2>4 DEF Delete, NoDoc, TypeOK
  <2>5. CASE WriteRefused(c, k) \/ Abandon(c, k)
    BY <1>0, <2>5 DEF WriteRefused, Abandon
  <2> QED  BY <1>3, <2>1, <2>2, <2>3, <2>4, <2>5 DEF Write
<1>4. ASSUME NEW c \in Client, Crash(c) PROVE coll'[j].by = None
  BY <1>0, <1>4 DEF Crash
<1>5. ASSUME NEW k \in Key, ClearLock(k) PROVE coll'[j].by = None
  BY <1>0, <1>5 DEF ClearLock, WithLock, TypeOK
<1>6. CASE coll' = coll
  BY <1>0, <1>6
<1> QED  BY <1>1, <1>2, <1>3, <1>4, <1>5, <1>6
         DEF Next, ForceUnlockHeldBy, ResetExpired, Tick, vars

\* A step that writes no document, and takes images from the collection at most.
LEMMA NoWriteKeepsRevisionsAreOld ==
  ASSUME IInv, writes' = writes,
         \A k \in Key : coll'[k].rev \in {0, coll[k].rev},
         \A c \in Client, k \in Key :
             img'[c][k].rev \in {0, img[c][k].rev, coll[k].rev}
  PROVE  RevisionsAreOld'
<1>1. writes \in Nat
  BY DEF IInv, TypeOK
<1>2. \A k \in Key : coll[k].rev \in Nat /\ coll[k].rev <= writes
  BY DEF IInv, TypeOK, RevisionsAreOld, Document
<1>3. \A c \in Client, k \in Key : img[c][k].rev \in Nat /\ img[c][k].rev <= writes
  BY DEF IInv, TypeOK, RevisionsAreOld, Image
<1> QED  BY <1>1, <1>2, <1>3 DEF RevisionsAreOld

\* A step that writes one document, and shows it to its writer at most.
LEMMA WriteKeepsRevisionsAreOld ==
  ASSUME IInv, writes' = writes + 1,
         \A k \in Key : coll'[k].rev \in {0, coll[k].rev, writes + 1},
         \A c \in Client, k \in Key :
             img'[c][k].rev \in {0, img[c][k].rev, writes + 1}
  PROVE  RevisionsAreOld'
<1>1. writes \in Nat
  BY DEF IInv, TypeOK
<1>2. \A k \in Key : coll[k].rev \in Nat /\ coll[k].rev <= writes
  BY DEF IInv, TypeOK, RevisionsAreOld, Document
<1>3. \A c \in Client, k \in Key : img[c][k].rev \in Nat /\ img[c][k].rev <= writes
  BY DEF IInv, TypeOK, RevisionsAreOld, Image
<1> QED  BY <1>1, <1>2, <1>3 DEF RevisionsAreOld

\* Every step keeps RevisionsAreOld.
LEMMA NextRevisionsAreOld ==
  ASSUME IInv, [Next]_vars
  PROVE  RevisionsAreOld'
<1>0. TypeOK /\ CallsHaveKeys
  BY DEF IInv
<1>1. ASSUME NEW c \in Client, StartCall(c) PROVE RevisionsAreOld'
  <2>1. ASSUME NEW k \in Key, NEW hold \in Holds, FindLocked(c, k, hold)
        PROVE  RevisionsAreOld'
    BY <1>0, <2>1, NoWriteKeepsRevisionsAreOld DEF FindLocked, TakeLock, WithLock, TypeOK
  <2>2. ASSUME NEW k \in Key, NEW hold \in Holds, NEW wait \in Waits,
               NEW orCreate \in BOOLEAN, FindFails(c, k, orCreate, wait, hold)
        PROVE  RevisionsAreOld'
    BY <2>2, NoWriteKeepsRevisionsAreOld DEF FindFails
  <2> QED  BY <1>1, <2>1, <2>2 DEF StartCall
<1>2. ASSUME NEW c \in Client, CallStep(c) PROVE RevisionsAreOld'
  <2>1. CASE Probe(c) \/ Test(c)
    BY <2>1, NoWriteKeepsRevisionsAreOld DEF Probe, Test
  <2>2. CASE Try(c)
    BY <1>0, <2>2, NoWriteKeepsRevisionsAreOld DEF Try, TakeLock, WithLock, TypeOK
  <2>3. CASE CreateLocked(c)
    <3>1. CASE Exists(call[c].key)
      BY <2>3, <3>1, NoWriteKeepsRevisionsAreOld DEF CreateLocked
    <3>2. CASE ~Exists(call[c].key)
      BY <1>0, <2>3, <3>2, WriteKeepsRevisionsAreOld DEF CreateLocked, Store, TypeOK
    <3> QED  BY <3>1, <3>2
  <2> QED  BY <1>2, <2>1, <2>2, <2>3 DEF CallStep
<1>3. ASSUME NEW c \in Client, NEW k \in Key, Write(c, k) PROVE RevisionsAreOld'
  <2>1. CASE CreateUnlocked(c, k)
    BY <1>0, <2>1, WriteKeepsRevisionsAreOld DEF CreateUnlocked, Store, TypeOK
  <2>2. CASE SaveUnlock(c, k)
    BY <1>0, <2>2, WriteKeepsRevisionsAreOld DEF SaveUnlock, Store, NoImage, TypeOK
  <2>3. CASE SaveKeep(c, k)
    BY <1>0, <2>3, WriteKeepsRevisionsAreOld DEF SaveKeep, Store, TypeOK
  <2>4. CASE Delete(c, k)
    BY <1>0, <2>4, WriteKeepsRevisionsAreOld DEF Delete, NoDoc, NoImage, TypeOK
  <2>5. CASE WriteRefused(c, k) \/ Abandon(c, k)
    <3>1. coll' = coll /\ writes' = writes /\ img' = [img EXCEPT ![c][k] = NoImage]
      BY <2>5 DEF WriteRefused, Abandon
    <3>2. \A d \in Client, j \in Key : img'[d][j].rev \in {0, img[d][j].rev}
      BY <1>0, <3>1 DEF NoImage, TypeOK
    <3> QED  BY <3>1, <3>2, NoWriteKeepsRevisionsAreOld
  <2> QED  BY <1>3, <2>1, <2>2, <2>3, <2>4, <2>5 DEF Write
<1>4. ASSUME NEW c \in Client, Crash(c) PROVE RevisionsAreOld'
  BY <1>0, <1>4, NoWriteKeepsRevisionsAreOld DEF Crash, NoImage, TypeOK
<1>5. ASSUME NEW k \in Key, ClearLock(k), UNCHANGED <<writes, img>>
      PROVE  RevisionsAreOld'
  BY <1>0, <1>5, NoWriteKeepsRevisionsAreOld DEF ClearLock, WithLock, TypeOK
<1>6. CASE UNCHANGED <<writes, coll, img>>
  BY <1>6, NoWriteKeepsRevisionsAreOld
<1> QED  BY <1>1, <1>2, <1>3, <1>4, <1>5, <1>6
         DEF Next, ForceUnlockHeldBy, ResetExpired, Tick, vars

\* A step of one running client, which ends its call or has it about a document.
LEMMA OneClientStep ==
  ASSUME IInv, NEW c \in up, up' = up,
         \A d \in Client \ {c} : call'[d] = call[d] /\ img'[d] = img[d],
         call'[c] = NoCall \/ call'[c].key \in Key
  PROVE  CallsHaveKeys' /\ DeadHaveNothing'
<1>1. CallsHaveKeys'
  BY DEF IInv, CallsHaveKeys, InCall, NoCall
<1>2. DeadHaveNothing'
  BY DEF IInv, DeadHaveNothing
<1> QED  BY <1>1, <1>2

\* Every step keeps what is known of calls in progress and of dead clients.
LEMMA NextCallsAndDead ==
  ASSUME IInv, [Next]_vars
  PROVE  CallsHaveKeys' /\ DeadHaveNothing'
<1>0. TypeOK /\ CallsHaveKeys /\ DeadHaveNothing
  BY DEF IInv
<1>1. ASSUME NEW c \in up, up' = up, call' = call,
             \A d \in Client \ {c} : img'[d] = img[d]
      PROVE  CallsHaveKeys' /\ DeadHaveNothing'
  <2>1. CallsHaveKeys'
    BY <1>0, <1>1 DEF CallsHaveKeys, InCall
  <2>2. DeadHaveNothing'
    BY <1>0, <1>1 DEF DeadHaveNothing
  <2> QED  BY <2>1, <2>2
<1>3. ASSUME NEW c \in Client, StartCall(c) PROVE CallsHaveKeys' /\ DeadHaveNothing'
  <2>1. ASSUME NEW k \in Key, NEW hold \in Holds, FindLocked(c, k, hold)
        PROVE  CallsHaveKeys' /\ DeadHaveNothing'
    BY <1>0, <1>1, <2>1 DEF FindLocked, TakeLock, Ready, TypeOK
  <2>2. ASSUME NEW k \in Key, NEW hold \in Holds, NEW wait \in Waits,
               NEW orCreate \in BOOLEAN, FindFails(c, k, orCreate, wait, hold)
        PROVE  CallsHaveKeys' /\ DeadHaveNothing'
    <3>1. c \in up /\ up' = up /\ img' = img
      BY <2>2 DEF FindFails, Ready
    <3>2. call'[c].key = k /\ \A d \in Client \ {c} : call'[d] = call[d]
      BY <1>0, <2>2 DEF FindFails, TypeOK
    <3> QED  BY <3>1, <3>2, OneClientStep
  <2> QED  BY <1>3, <2>1, <2>2 DEF StartCall
<1>4. ASSUME NEW c \in Client, CallStep(c) PROVE CallsHaveKeys' /\ DeadHaveNothing'
  <2>1. call[c].key \in Key /\ call[c] \in Call /\ c \in up
    BY <1>0, <1>4 DEF CallStep, Probe, Try, Test, CreateLocked, CallsHaveKeys,
                      InCall, TypeOK
  <2>2. up' = up /\ \A d \in Client \ {c} : img'[d] = img[d]
    BY <1>0, <1>4 DEF CallStep, Probe, Try, TakeLock, Test, CreateLocked, TypeOK
  <2>3. \A d \in Client \ {c} : call'[d] = call[d]
    BY <1>0, <1>4 DEF CallStep, Probe, GiveNil, Try, Test, CreateLocked, TypeOK
  <2>4. call'[c] = NoCall \/ call'[c].key \in Key
    <3>1. CASE Probe(c)
      <4>1. \/ call'[c] = NoCall
            \/ call'[c] = [call[c] EXCEPT !.stage = "create"]
            \/ call'[c] = [call[c] EXCEPT !.stage = "try",
                                          !.deadline = now + call[c].wait]
        BY <1>0, <3>1 DEF Probe, GiveNil, TypeOK
      <4> QED  BY <2>1, <4>1 DEF Call
    <3>2. CASE Try(c)
      BY <1>0, <2>1, <3>2 DEF Try, TypeOK, Call
    <3>3. CASE Test(c)
      <4>1. call'[c] = NoCall \/ call'[c] = [call[c] EXCEPT !.stage = "try"]
        BY <1>0, <3>3 DEF Test, TypeOK
      <4> QED  BY <2>1, <4>1 DEF Call
    <3>4. CASE CreateLocked(c)
      BY <1>0, <3>4 DEF CreateLocked, TypeOK
    <3> QED  BY <1>4, <3>1, <3>2, <3>3, <3>4 DEF CallStep
  <2> QED  BY <2>1, <2>2, <2>3, <2>4, OneClientStep
<1>5. ASSUME NEW c \in Client, NEW k \in Key, Write(c, k)
      PROVE  CallsHaveKeys' /\ DeadHaveNothing'
  <2>1. c \in up /\ call' = call /\ up' = up
    BY <1>5 DEF Write, CreateUnlocked, SaveUnlock, SaveKeep, Delete,
                WriteRefused, Abandon, Ready
  <2>2. \A d \in Client \ {c} : img'[d] = img[d]
    BY <1>0, <1>5 DEF Write, CreateUnlocked, SaveUnlock, SaveKeep, Delete,
                      WriteRefused, Abandon, TypeOK
  <2> QED  BY <1>1, <2>1, <2>2
<1>6. ASSUME NEW c \in Client, Crash(c) PROVE CallsHaveKeys' /\ DeadHaveNothing'
  <2>1. /\ \A d \in Client \ {c} : call'[d] = call[d] /\ img'[d] = img[d]
        /\ call'[c] = NoCall /\ img'[c] = [k \in Key |-> NoImage]
    BY <1>0, <1>6 DEF Crash, TypeOK
  <2>2. CallsHaveKeys'
    BY <1>0, <2>1 DEF CallsHaveKeys, InCall, NoCall
  <2>3. DeadHaveNothing'
    BY <1>0, <1>6, <2>1 DEF DeadHaveNothing, Crash
  <2> QED  BY <2>2, <2>3
<1>7. CASE UNCHANGED <<img, call, up>>
  BY <1>0, <1>7 DEF CallsHaveKeys, DeadHaveNothing, InCall
<1> QED  BY <1>3, <1>4, <1>5, <1>6, <1>7
         DEF Next, ForceUnlockHeldBy, ResetExpired, Tick, vars

\* IInv holds in the initial states and every step keeps it.
THEOREM InductiveInvariant == Spec => []IInv
<1>1. IInv /\ [Next]_vars => IInv'
  <2> SUFFICES ASSUME IInv, [Next]_vars PROVE IInv'
    OBVIOUS
  <2>1. TypeOK'
    BY NextTypeOK DEF IInv
  <2>2. CallsHaveKeys' /\ DeadHaveNothing'
    BY NextCallsAndDead
  <2>3. FreeKeysUnlocked'
    BY NextFreeKeysUnlocked
  <2>4. RevisionsAreOld'
    BY NextRevisionsAreOld
  <2>5. HolderIsCurrent'
    BY NextHolderIsCurrent
  <2> QED  BY <2>1, <2>2, <2>3, <2>4, <2>5 DEF IInv
<1> QED  BY <1>1, InitIInv, PTL DEF Spec

-----------------------------------------------------------------------------
(* The theorems *)

\* The state has its types, for all clients, keys, durations and bounds.
THEOREM TypeCorrect == Spec => []TypeOK
<1>1. IInv => TypeOK
  BY DEF IInv
<1> QED  BY <1>1, InductiveInvariant, PTL

\* Whoever sees an unexpired lock on its image holds the document and has its
\* latest contents.
THEOREM HolderAlwaysCurrent == Spec => []HolderIsCurrent
<1>1. IInv => HolderIsCurrent
  BY DEF IInv
<1> QED  BY <1>1, InductiveInvariant, PTL

\* An unexpired lock keeps everybody but its holder from the document.
THEOREM LockAlwaysProtects == Spec => LockProtects
<1> DEFINE Protects ==
      \A k \in Key :
        coll[k].by # None /\ coll[k].until >= now /\ coll'[k] # coll[k] =>
            LET holder == coll[k].by IN
            holder \notin up \/ img'[holder][k] # img[holder][k]
<1>1. ASSUME IInv, [Next]_vars PROVE Protects
  <2> SUFFICES ASSUME NEW k \in Key, NEW h \in up, coll[k].by = h,
                      coll[k].until >= now, img'[h][k] = img[h][k]
               PROVE  coll'[k] = coll[k]
    OBVIOUS
  <2>0. /\ TypeOK /\ Exists(k) /\ ~Unlocked(k) /\ ~Expired(k)
        /\ img[h][k].rev <= writes /\ writes \in Nat /\ img[h][k].rev \in Nat
    <3>1. TypeOK /\ FreeKeysUnlocked /\ RevisionsAreOld /\ h \in Client
      BY <1>1 DEF IInv, TypeOK
    <3>2. coll[k].until \in Nat /\ now \in Nat /\ h # None
      BY <3>1 DEF TypeOK, Document
    <3>3. Exists(k) /\ ~Unlocked(k) /\ ~Expired(k)
      BY <3>1, <3>2 DEF FreeKeysUnlocked, Unlocked, Expired
    <3> QED  BY <3>1, <3>3 DEF RevisionsAreOld, TypeOK, Image
  <2>1. ASSUME NEW c \in Client, StartCall(c) PROVE coll'[k] = coll[k]
    BY <2>0, <2>1 DEF StartCall, FindLocked, TakeLock, FindFails, TypeOK
  <2>2. ASSUME NEW c \in Client, CallStep(c) PROVE coll'[k] = coll[k]
    BY <2>0, <2>2 DEF CallStep, Probe, Try, TakeLock, Test, CreateLocked, Store, TypeOK
  <2>3. ASSUME NEW c \in Client, NEW j \in Key, Write(c, j) PROVE coll'[k] = coll[k]
    <3>1. CASE j # k
      BY <2>0, <2>3, <3>1 DEF Write, CreateUnlocked, SaveUnlock, SaveKeep, Delete,
                              WriteRefused, Abandon, Store, TypeOK
    <3>2. CASE j = k /\ c = h
      <4>1. CASE SaveUnlock(c, j) \/ Delete(c, j)
        BY <2>0, <3>2, <4>1 DEF SaveUnlock, Delete, Holding, NoImage, TypeOK
      <4>2. CASE SaveKeep(c, j)
        <5>1. img'[h][k].rev = writes + 1
          BY <2>0, <3>2, <4>2 DEF SaveKeep, TypeOK
        <5> QED  BY <2>0, <5>1
      <4>3. CASE CreateUnlocked(c, j) \/ WriteRefused(c, j) \/ Abandon(c, j)
        BY <2>0, <3>2, <4>3 DEF CreateUnlocked, WriteRefused, Abandon
      <4> QED  BY <2>3, <4>1, <4>2, <4>3 DEF Write
    <3>3. CASE j = k /\ c # h
      <4>1. ~UnlockedOrMine(c, k)
        BY <2>0, <3>3, UnlockedOrMineCases
      <4> QED  BY <2>0, <2>3, <3>3, <4>1 DEF Write, CreateUnlocked, SaveUnlock,
                                             SaveKeep, Delete, WriteRefused, Abandon
    <3> QED  BY <3>1, <3>2, <3>3
  <2>4. ASSUME NEW c \in Client, NEW j \in Key, ForceUnlockHeldBy(c, j)
        PROVE  coll'[k] = coll[k]
    BY <2>0, <2>4 DEF ForceUnlockHeldBy, ClearLock, TypeOK
  <2>5. ASSUME NEW j \in Key, ResetExpired(j) PROVE coll'[k] = coll[k]
    BY <2>0, <2>5 DEF ResetExpired, ClearLock, TypeOK
  <2>6. CASE coll' = coll
    BY <2>6
  <2> QED  BY <1>1, <2>1, <2>2, <2>3, <2>4, <2>5, <2>6 DEF Next, Crash, Tick, vars
<1>2. IInv /\ [Next]_vars => [Protects]_vars
  BY <1>1
<1> QED  BY <1>2, InductiveInvariant, PTL DEF Spec, LockProtects

\* No image brings a deleted document back or overwrites its successor.
THEOREM NeverResurrected == Spec => NoResurrection
<1> DEFINE Fresh ==
      \A k \in Key :
        coll'[k].id \notin {0, coll[k].id} => coll[k].id = 0 /\ coll'[k].id > writes
<1>1. ASSUME IInv, [Next]_vars PROVE Fresh
  <2> SUFFICES ASSUME NEW k \in Key, coll'[k].id # 0, coll'[k].id # coll[k].id
               PROVE  coll[k].id = 0 /\ coll'[k].id > writes
    OBVIOUS
  <2>0. TypeOK /\ writes \in Nat /\ writes + 1 > writes
    BY <1>1 DEF IInv, TypeOK
  <2>1. ASSUME NEW c \in Client, StartCall(c)
        PROVE  coll[k].id = 0 /\ coll'[k].id > writes
    BY <2>0, <2>1 DEF StartCall, FindLocked, TakeLock, WithLock, FindFails, TypeOK
  <2>2. ASSUME NEW c \in Client, CallStep(c)
        PROVE  coll[k].id = 0 /\ coll'[k].id > writes
    BY <2>0, <2>2 DEF CallStep, Probe, Try, TakeLock, WithLock, Test, CreateLocked,
                      Store, Exists, TypeOK
  <2>3. ASSUME NEW c \in Client, NEW j \in Key, Write(c, j)
        PROVE  coll[k].id = 0 /\ coll'[k].id > writes
    BY <2>0, <2>3 DEF Write, CreateUnlocked, SaveUnlock, SaveKeep, Delete,
                      WriteRefused, Abandon, Store, UnlockedOrMine, Exists, NoDoc,
                      TypeOK
  <2>4. ASSUME NEW j \in Key, ClearLock(j)
        PROVE  coll[k].id = 0 /\ coll'[k].id > writes
    BY <2>0, <2>4 DEF ClearLock, WithLock, TypeOK
  <2>5. CASE coll' = coll
    BY <2>5
  <2> QED
    BY <1>1, <2>1, <2>2, <2>3, <2>4, <2>5
    DEF Next, Crash, ForceUnlockHeldBy, ResetExpired, Tick, vars
<1>2. IInv /\ [Next]_vars => [Fresh]_vars
  BY <1>1
<1> QED  BY <1>2, InductiveInvariant, PTL DEF Spec, NoResurrection
=============================================================================
