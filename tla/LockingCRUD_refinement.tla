---------------------- MODULE LockingCRUD_refinement ----------------------
(***************************************************************************)
(* LockingCRUD implements Lease, for any set of clients, keys, durations   *)
(* and bounds: the owner of a document is the client whose image shows an  *)
(* unexpired lock, and every step of the lock is a step of the lease or    *)
(* leaves the lease as it is.                                              *)
(***************************************************************************)
EXTENDS LockingCRUD_proofs

-----------------------------------------------------------------------------
(* Documents have contents, and only documents have *)

\* The revision of a document is the number of a write, free keys have none.
DocumentsHaveContents == \A k \in Key : Exists(k) <=> coll[k].rev # 0

RInv == IInv /\ DocumentsHaveContents

\* A step that gives some documents another lock changes no contents.
LEMMA SameContents ==
  ASSUME DocumentsHaveContents,
         \A k \in Key : coll'[k].id = coll[k].id /\ coll'[k].rev = coll[k].rev
  PROVE  DocumentsHaveContents'
  BY DEF DocumentsHaveContents, Exists

\* A step that writes one document, or removes it.
LEMMA OneDocument ==
  ASSUME DocumentsHaveContents, NEW k \in Key,
         \A j \in Key \ {k} : coll'[j] = coll[j],
         coll'[k].id = 0 <=> coll'[k].rev = 0
  PROVE  DocumentsHaveContents'
  BY DEF DocumentsHaveContents, Exists

\* Taking a lock and clearing one change no contents.
LEMMA LocksKeepContents ==
  ASSUME TypeOK, NEW k \in Key, NEW c, NEW hold,
         TakeLock(c, k, hold) \/ ClearLock(k)
  PROVE  \A j \in Key : coll'[j].id = coll[j].id /\ coll'[j].rev = coll[j].rev
  BY DEF TypeOK, TakeLock, ClearLock, WithLock

\* A write under an `_id` stores contents.
LEMMA StoreHasContents ==
  ASSUME TypeOK, DocumentsHaveContents, NEW k \in Key, NEW id \in Nat \ {0}, NEW by,
         NEW until, Store(k, id, by, until)
  PROVE  DocumentsHaveContents'
<1>1. /\ \A j \in Key \ {k} : coll'[j] = coll[j]
      /\ coll'[k] = [id |-> id, rev |-> writes + 1, by |-> by, until |-> until]
  BY DEF TypeOK, Store
<1>2. writes + 1 # 0
  BY DEF TypeOK
<1> QED  BY <1>1, <1>2, OneDocument

LEMMA NextDocumentsHaveContents ==
  ASSUME RInv, [Next]_vars
  PROVE  DocumentsHaveContents'
<1>0. TypeOK /\ DocumentsHaveContents /\ CallsHaveKeys /\ writes + 1 \in Nat \ {0}
  BY DEF RInv, IInv, TypeOK
<1>1. ASSUME NEW c \in Client, StartCall(c) PROVE DocumentsHaveContents'
  BY <1>0, <1>1, LocksKeepContents, SameContents DEF StartCall, FindLocked, FindFails
<1>2. ASSUME NEW c \in Client, CallStep(c) PROVE DocumentsHaveContents'
  <2>0. call[c].key \in Key
    BY <1>0, <1>2 DEF CallStep, Probe, Try, Test, CreateLocked, CallsHaveKeys, InCall
  <2>1. CASE Probe(c) \/ Test(c)
    BY <1>0, <2>1, SameContents DEF Probe, Test
  <2>2. CASE Try(c)
    BY <1>0, <2>0, <2>2, LocksKeepContents, SameContents DEF Try
  <2>3. CASE CreateLocked(c)
    BY <1>0, <2>0, <2>3, StoreHasContents, SameContents DEF CreateLocked
  <2> QED  BY <1>2, <2>1, <2>2, <2>3 DEF CallStep
<1>3. ASSUME NEW c \in Client, NEW k \in Key, Write(c, k)
      PROVE  DocumentsHaveContents'
  <2>0. Holding(c, k) => img[c][k].id \in Nat \ {0}
    BY <1>0 DEF Holding, TypeOK, Image
  <2>1. CASE CreateUnlocked(c, k)
    BY <1>0, <2>1, StoreHasContents DEF CreateUnlocked
  <2>2. CASE SaveUnlock(c, k) \/ SaveKeep(c, k)
    BY <1>0, <2>0, <2>2, StoreHasContents DEF SaveUnlock, SaveKeep
  <2>3. CASE Delete(c, k)
    BY <1>0, <2>3, OneDocument DEF Delete, NoDoc, TypeOK
  <2>4. CASE WriteRefused(c, k) \/ Abandon(c, k)
    BY <1>0, <2>4, SameContents DEF WriteRefused, Abandon
  <2> QED  BY <1>3, <2>1, <2>2, <2>3, <2>4 DEF Write
<1>4. ASSUME NEW k \in Key, ClearLock(k) PROVE DocumentsHaveContents'
  BY <1>0, <1>4, LocksKeepContents, SameContents
<1>5. CASE UNCHANGED coll
  BY <1>0, <1>5, SameContents
<1> QED
  BY <1>1, <1>2, <1>3, <1>4, <1>5
  DEF Next, Crash, ForceUnlockHeldBy, ResetExpired, Tick, vars

\* RInv holds in the initial states and every step keeps it.
THEOREM RefinementInvariant == Spec => []RInv
<1>1. Init => DocumentsHaveContents
  BY DEF Init, DocumentsHaveContents, Exists, NoDoc
<1>2. RInv /\ [Next]_vars => DocumentsHaveContents'
  BY NextDocumentsHaveContents
<1>3. RInv <=> IInv /\ DocumentsHaveContents
  BY DEF RInv
<1> QED  BY <1>1, <1>2, <1>3, InductiveInvariant, PTL DEF Spec

-----------------------------------------------------------------------------
(* The owner that an unexpired image shows *)

\* OwnerOf gives the client with the unexpired image, None when there is none.
OwnerKnown ==
    /\ \A c \in Client, k \in Key : Owns(c, k) => OwnerOf(k) = c
    /\ \A k \in Key : (\A c \in Client : ~Owns(c, k)) => OwnerOf(k) = None

\* Two clients never have an unexpired image of the same document.
LEMMA OneOwner == IInv => OwnerKnown
<1> SUFFICES ASSUME IInv PROVE OwnerKnown
  OBVIOUS
<1>1. \A c, d \in Client, k \in Key : Owns(c, k) /\ Owns(d, k) => c = d
  BY LiveImageIsHolders DEF Owns
<1>2. ASSUME NEW c \in Client, NEW k \in Key, Owns(c, k) PROVE OwnerOf(k) = c
  BY <1>1, <1>2 DEF OwnerOf
<1>3. ASSUME NEW k \in Key, \A c \in Client : ~Owns(c, k) PROVE OwnerOf(k) = None
  BY <1>3 DEF OwnerOf
<1> QED  BY <1>2, <1>3 DEF OwnerKnown

LEMMA OneOwnerNext == IInv' => OwnerKnown'
  BY OneOwner, PTL

\* A key of which no image and no contents change keeps its owner.
LEMMA OtherKeys ==
  ASSUME OwnerKnown, OwnerKnown', now' = now, NEW j \in Key,
         \A d \in Client : img'[d][j] = img[d][j]
  PROVE  /\ OwnerOf(j)' = OwnerOf(j)
         /\ \A d \in Client : Seen(d, j)' = Seen(d, j)
<1>1. \A d \in Client : Owns(d, j)' <=> Owns(d, j)
  BY DEF Owns, Holding
<1>2. OwnerOf(j)' = OwnerOf(j)
  <2>1. CASE \E c \in Client : Owns(c, j)
    BY <1>1, <2>1 DEF OwnerKnown
  <2>2. CASE \A c \in Client : ~Owns(c, j)
    BY <1>1, <2>2 DEF OwnerKnown
  <2> QED  BY <2>1, <2>2
<1>3. \A d \in Client : Seen(d, j)' = Seen(d, j)
  BY <1>1 DEF Seen
<1> QED  BY <1>2, <1>3

\* The owner and nobody else sees contents.
LEMMA WhoSees ==
  ASSUME OwnerKnown, NEW k \in Key
  PROVE  /\ \A c \in Client : OwnerOf(k) # c => Seen(c, k) = 0
         /\ (\A c \in Client : ~Owns(c, k)) => \A c \in Client : Seen(c, k) = 0
  BY DEF OwnerKnown, Seen

-----------------------------------------------------------------------------
(* The steps of the lease *)

\* A step of client c on document k: no other document, no image of another
\* document and no image that another client has of k changes.
Local(c, k) ==
    /\ now' = now
    /\ \A j \in Key \ {k} : coll'[j] = coll[j]
    /\ \A d \in Client, j \in Key : d # c \/ j # k => img'[d][j] = img[d][j]

\* A step on k leaves the contents, owners and readers of other documents alone.
LEMMA LocalBars ==
  ASSUME OwnerKnown, OwnerKnown', NEW c \in Client, NEW k \in Key, Local(c, k)
  PROVE  /\ \A j \in Key \ {k} : OwnerOf(j)' = OwnerOf(j)
         /\ \A j \in Key \ {k} : coll'[j].rev = coll[j].rev
         /\ \A d \in Client, j \in Key \ {k} : Seen(d, j)' = Seen(d, j)
<1>1. \A j \in Key \ {k} : \A d \in Client : img'[d][j] = img[d][j]
  BY DEF Local
<1>2. \A j \in Key \ {k} : /\ OwnerOf(j)' = OwnerOf(j)
                           /\ \A d \in Client : Seen(d, j)' = Seen(d, j)
  BY <1>1, OtherKeys DEF Local
<1> QED  BY <1>2 DEF Local

\* The owner of k becomes c, who sees the contents of k.
LEMMA GainBars ==
  ASSUME OwnerKnown, OwnerKnown', NEW c \in Client, NEW k \in Key, Local(c, k),
         \A d \in Client \ {c} : ~Owns(d, k),
         Owns(c, k)', img'[c][k].rev = coll'[k].rev
  PROVE  /\ ownerBar' = [ownerBar EXCEPT ![k] = c]
         /\ seenBar' = [seenBar EXCEPT ![c][k] = contentBar'[k]]
<1>1. OwnerOf(k)' = c
  BY DEF OwnerKnown
<1>2. \A j \in Key : OwnerOf(j)' = IF j = k THEN c ELSE OwnerOf(j)
  BY <1>1, LocalBars
<1>3. ownerBar' = [ownerBar EXCEPT ![k] = c]
  BY <1>2 DEF ownerBar
<1>4. Seen(c, k)' = coll'[k].rev
  BY DEF Seen
<1>5. \A d \in Client \ {c} : Seen(d, k)' = 0 /\ Seen(d, k) = 0
  <2> SUFFICES ASSUME NEW d \in Client \ {c} PROVE Seen(d, k)' = 0 /\ Seen(d, k) = 0
    OBVIOUS
  <2>1. ~Owns(d, k) /\ ~Owns(d, k)'
    BY <1>1 DEF OwnerKnown
  <2> QED  BY <2>1 DEF Seen
<1>6. \A d \in Client, j \in Key :
         Seen(d, j)' = IF d = c /\ j = k THEN coll'[k].rev ELSE Seen(d, j)
  BY <1>4, <1>5, LocalBars
<1>7. seenBar' = [seenBar EXCEPT ![c][k] = contentBar'[k]]
  BY <1>6 DEF seenBar, contentBar
<1> QED  BY <1>3, <1>7

\* Nobody owns k afterwards, and nobody but c did before.
LEMMA LoseBars ==
  ASSUME OwnerKnown, OwnerKnown', NEW c \in Client, NEW k \in Key, Local(c, k),
         \A d \in Client \ {c} : ~Owns(d, k),
         \A d \in Client : ~Owns(d, k)'
  PROVE  /\ ownerBar' = [ownerBar EXCEPT ![k] = None]
         /\ seenBar' = [seenBar EXCEPT ![c][k] = 0]
<1>1. OwnerOf(k)' = None
  BY DEF OwnerKnown
<1>2. \A j \in Key : OwnerOf(j)' = IF j = k THEN None ELSE OwnerOf(j)
  BY <1>1, LocalBars
<1>3. ownerBar' = [ownerBar EXCEPT ![k] = None]
  BY <1>2 DEF ownerBar
<1>4. \A d \in Client : Seen(d, k)' = 0
  BY DEF Seen
<1>5. \A d \in Client \ {c} : Seen(d, k) = 0
  BY DEF Seen
<1>6. \A d \in Client, j \in Key :
         Seen(d, j)' = IF d = c /\ j = k THEN 0 ELSE Seen(d, j)
  BY <1>4, <1>5, LocalBars
<1>7. seenBar' = [seenBar EXCEPT ![c][k] = 0]
  BY <1>6 DEF seenBar
<1> QED  BY <1>3, <1>7

\* The contents of k change, and no others.
LEMMA RewriteBar ==
  ASSUME TypeOK', OwnerKnown, OwnerKnown', NEW c \in Client, NEW k \in Key, Local(c, k),
         coll'[k].rev # coll[k].rev
  PROVE  Lease!Rewrite(k)
<1>1. coll'[k].rev \in Nat
  BY DEF TypeOK, Document
<1>2. \A j \in Key \ {k} : coll'[j].rev = coll[j].rev
  BY LocalBars
<1>3. contentBar' = [contentBar EXCEPT ![k] = contentBar'[k]]
  <2>1. contentBar' = [j \in Key |-> IF j = k THEN coll'[k].rev ELSE coll[j].rev]
    BY <1>2 DEF contentBar
  <2>2. contentBar'[k] = coll'[k].rev
    BY DEF contentBar
  <2> QED  BY <2>1, <2>2 DEF contentBar
<1>4. contentBar'[k] \in Nat \ {contentBar[k]}
  BY <1>1 DEF contentBar
<1> QED  BY <1>3, <1>4 DEF Lease!Rewrite

\* Taking the lock of an unlocked document is an acquisition of the lease.
LEMMA TakeLockAcquires ==
  ASSUME RInv, IInv', NEW c \in Client, NEW k \in Key, NEW hold \in Nat,
         Unlocked(k), TakeLock(c, k, hold), now' = now
  PROVE  Lease!Next
<1>0. TypeOK /\ IInv /\ DocumentsHaveContents
  BY DEF RInv, IInv
<1>1. OwnerKnown /\ OwnerKnown'
  BY <1>0, OneOwner, OneOwnerNext
<1>2. \A d \in Client : ~Owns(d, k)
  BY <1>0, LiveImageIsHolders DEF Owns
<1>3. Local(c, k)
  BY <1>0 DEF TypeOK, TakeLock, Local
<1>4. /\ img'[c][k] = [id |-> coll[k].id, rev |-> coll[k].rev, until |-> now + hold]
      /\ \A j \in Key : coll'[j].rev = coll[j].rev
  BY <1>0 DEF TypeOK, TakeLock, WithLock
<1>5. Owns(c, k)' /\ img'[c][k].rev = coll'[k].rev
  <2>1. now \in Nat /\ now + hold >= now
    BY <1>0 DEF TypeOK
  <2> QED  BY <1>4, <2>1 DEF Owns, Holding, Unlocked, Exists
<1>6. contentBar' = contentBar
  BY <1>4 DEF contentBar
<1>7. /\ ownerBar' = [ownerBar EXCEPT ![k] = c]
      /\ seenBar' = [seenBar EXCEPT ![c][k] = contentBar[k]]
  BY <1>1, <1>2, <1>3, <1>5, <1>6, GainBars
<1>8. ownerBar[k] = None
  BY <1>1, <1>2 DEF ownerBar, OwnerKnown
<1>9. contentBar[k] # 0
  BY <1>0 DEF contentBar, DocumentsHaveContents, Unlocked
<1> QED  BY <1>9, <1>6, <1>7, <1>8 DEF Lease!Next, Lease!Acquire

\* What c writes to k when nobody else owns it is a write of the lease, by the
\* owner or while there is none, and c owns k afterwards or nobody does.
LEMMA WriteIsWrite ==
  ASSUME RInv, IInv', NEW c \in Client, NEW k \in Key, Local(c, k),
         \A d \in Client \ {c} : ~Owns(d, k),
         coll'[k].rev # coll[k].rev,
         \/ Owns(c, k)' /\ img'[c][k].rev = coll'[k].rev /\ coll'[k].rev # 0
         \/ \A d \in Client : ~Owns(d, k)'
  PROVE  Lease!Next
<1>0. TypeOK /\ TypeOK' /\ IInv /\ HolderIsCurrent
  BY DEF RInv, IInv
<1>1. OwnerKnown /\ OwnerKnown'
  BY <1>0, OneOwner, OneOwnerNext
<1>2. Lease!Rewrite(k)
  BY <1>0, <1>1, RewriteBar
<1>3. CASE Owns(c, k)
  <2>1. ownerBar[k] = c
    BY <1>1, <1>3 DEF ownerBar, OwnerKnown
  <2>2. seenBar[c][k] = contentBar[k]
    BY <1>0, <1>3 DEF seenBar, contentBar, Seen, Owns, HolderIsCurrent, Shows
  <2>3. CASE Owns(c, k)' /\ img'[c][k].rev = coll'[k].rev /\ coll'[k].rev # 0
    <3>1. /\ ownerBar' = [ownerBar EXCEPT ![k] = c]
          /\ seenBar' = [seenBar EXCEPT ![c][k] = contentBar'[k]]
      BY <1>1, <2>3, GainBars
    <3>2. ownerBar' = ownerBar
      BY <2>1, <3>1 DEF ownerBar
    <3>3. contentBar'[k] # 0
      BY <2>3 DEF contentBar
    <3>4. Lease!WriteOwned(c, k)
      BY <1>2, <2>1, <2>2, <3>1, <3>2, <3>3 DEF Lease!WriteOwned
    <3> QED  BY <3>4 DEF Lease!Next
  <2>4. CASE \A d \in Client : ~Owns(d, k)'
    <3>1. /\ ownerBar' = [ownerBar EXCEPT ![k] = None]
          /\ seenBar' = [seenBar EXCEPT ![c][k] = 0]
      BY <1>1, <2>4, LoseBars
    <3>2. Lease!WriteOwned(c, k)
      BY <1>2, <2>1, <2>2, <3>1 DEF Lease!WriteOwned
    <3> QED  BY <3>2 DEF Lease!Next
  <2> QED  BY <2>3, <2>4
<1>4. CASE ~Owns(c, k)
  <2>1. ownerBar[k] = None
    BY <1>1, <1>4 DEF ownerBar, OwnerKnown
  <2>2. CASE Owns(c, k)' /\ img'[c][k].rev = coll'[k].rev /\ coll'[k].rev # 0
    <3>1. /\ ownerBar' = [ownerBar EXCEPT ![k] = c]
          /\ seenBar' = [seenBar EXCEPT ![c][k] = contentBar'[k]]
      BY <1>1, <2>2, GainBars
    <3>2. contentBar'[k] # 0
      BY <2>2 DEF contentBar
    <3>3. Lease!WriteUnowned(k)
      BY <1>2, <2>1, <3>1, <3>2 DEF Lease!WriteUnowned
    <3> QED  BY <3>3 DEF Lease!Next
  <2>3. CASE \A d \in Client : ~Owns(d, k)'
    <3>1. /\ ownerBar' = [ownerBar EXCEPT ![k] = None]
          /\ seenBar' = [seenBar EXCEPT ![c][k] = 0]
      BY <1>1, <2>3, LoseBars
    <3>2. seenBar[c][k] = 0
      BY <1>4 DEF seenBar, Seen
    <3>3. ownerBar' = ownerBar
      BY <2>1, <3>1 DEF ownerBar
    <3>5. seenBar' = seenBar
      BY <3>1, <3>2 DEF seenBar
    <3>4. Lease!WriteUnowned(k)
      BY <1>2, <2>1, <3>3, <3>5 DEF Lease!WriteUnowned
    <3> QED  BY <3>4 DEF Lease!Next
  <2> QED  BY <2>2, <2>3
<1> QED  BY <1>3, <1>4

\* A step that changes no contents and gives nobody an image only lets
\* ownership lapse, maybe of no document at all.
LEMMA QuietLapses ==
  ASSUME RInv, IInv',
         \A k \in Key : coll'[k].rev = coll[k].rev,
         now' \in {now, now + 1},
         \A d \in Client, k \in Key : img'[d][k] \in {img[d][k], NoImage}
  PROVE  Lease!Next
<1> DEFINE S == {k \in Key : ownerBar'[k] = None}
<1>0. TypeOK /\ TypeOK' /\ IInv
  BY DEF RInv, IInv
<1>1. OwnerKnown /\ OwnerKnown'
  BY <1>0, OneOwner, OneOwnerNext
<1>2. ASSUME NEW d \in Client, NEW k \in Key, Owns(d, k)'
      PROVE  Owns(d, k) /\ img'[d][k] = img[d][k]
  <2>1. img'[d][k] = img[d][k]
    BY <1>2 DEF Owns, Holding, NoImage
  <2>2. now \in Nat /\ img[d][k].until \in Nat
    BY <1>0 DEF TypeOK, Image
  <2> QED  BY <1>2, <2>1, <2>2 DEF Owns, Holding
<1>3. ASSUME NEW k \in Key PROVE k \in S <=> OwnerOf(k)' = None
  BY DEF ownerBar
<1>4. ASSUME NEW k \in Key
      PROVE  OwnerOf(k)' = IF k \in S THEN None ELSE OwnerOf(k)
  <2>1. CASE \E d \in Client : Owns(d, k)'
    BY <1>1, <1>2, <1>3, <2>1 DEF OwnerKnown
  <2>2. CASE \A d \in Client : ~Owns(d, k)'
    BY <1>1, <1>3, <2>2 DEF OwnerKnown
  <2> QED  BY <2>1, <2>2
<1>5. ASSUME NEW d \in Client, NEW k \in Key
      PROVE  Seen(d, k)' = IF k \in S THEN 0 ELSE Seen(d, k)
  <2>1. CASE Owns(d, k)'
    <3>1. OwnerOf(k)' = d
      BY <1>1, <2>1 DEF OwnerKnown
    <3>2. Owns(d, k) /\ img'[d][k] = img[d][k]
      BY <1>2, <2>1
    <3>3. k \notin S
      BY <1>3, <3>1, ConstantsAssumption
    <3>4. Seen(d, k) = img[d][k].rev /\ Seen(d, k)' = img'[d][k].rev
      BY <2>1, <3>2 DEF Seen
    <3> QED  BY <3>2, <3>3, <3>4
  <2>2. CASE ~Owns(d, k)' /\ k \in S
    BY <2>2 DEF Seen
  <2>3. CASE ~Owns(d, k)' /\ k \notin S
    <3>1. PICK h \in Client : Owns(h, k)'
      BY <1>1, <1>3, <2>3 DEF OwnerKnown
    <3>2. ~Owns(d, k)
      BY <1>1, <1>2, <2>3, <3>1 DEF OwnerKnown
    <3> QED  BY <2>3, <3>2 DEF Seen
  <2> QED  BY <2>1, <2>2, <2>3
<1> HIDE DEF S
<1>6. ownerBar' = [k \in Key |-> IF k \in S THEN None ELSE ownerBar[k]]
  BY <1>4 DEF ownerBar
<1>7. seenBar' = [c \in Client |-> [k \in Key |-> IF k \in S THEN 0 ELSE seenBar[c][k]]]
  BY <1>5 DEF seenBar
<1>8. contentBar' = contentBar
  BY DEF contentBar
<1>9. S \in SUBSET Key
  BY DEF S
<1>10. Lease!Lapse(S)
  BY <1>6, <1>7, <1>8 DEF Lease!Lapse
<1> QED  BY <1>9, <1>10 DEF Lease!Next

-----------------------------------------------------------------------------
(* Every step of the lock is a step of the lease *)

\* The write of an image that the qualifier lets pass: nobody else owns k.
LEMMA NobodyElseOwns ==
  ASSUME IInv, NEW c \in Client, NEW k \in Key,
         UnlockedOrMine(c, k) \/ ~Exists(k)
  PROVE  \A d \in Client \ {c} : ~Owns(d, k)
<1> SUFFICES ASSUME NEW d \in Client \ {c}, Owns(d, k) PROVE FALSE
  OBVIOUS
<1>1. coll[k].by = d /\ Exists(k) /\ ~Expired(k) /\ ~Unlocked(k)
  BY LiveImageIsHolders DEF Owns
<1> QED  BY <1>1, UnlockedOrMineCases

\* A write to k by c, whose new contents are those of write number writes + 1.
LEMMA StoreIsWrite ==
  ASSUME RInv, IInv', NEW c \in Client, NEW k \in Key, NEW id \in Nat, NEW by,
         NEW until, Store(k, id, by, until), now' = now,
         UnlockedOrMine(c, k) \/ ~Exists(k),
         \/ /\ img' = [img EXCEPT ![c][k] =
                          [id |-> id, rev |-> writes + 1, until |-> until]]
            /\ id # 0 /\ until >= now
         \/ img' = [img EXCEPT ![c][k] = NoImage]
         \/ img' = img /\ ~Exists(k)
  PROVE  Lease!Next
<1>0. TypeOK /\ IInv /\ RevisionsAreOld
  BY DEF RInv, IInv
<1>1. \A d \in Client \ {c} : ~Owns(d, k)
  BY <1>0, NobodyElseOwns
<1>2. \A d \in Client, j \in Key : d # c \/ j # k => img'[d][j] = img[d][j]
  BY <1>0 DEF TypeOK
<1>3. Local(c, k)
  BY <1>0, <1>2 DEF Local, Store, TypeOK
<1>4. coll'[k].rev = writes + 1 /\ writes + 1 # 0 /\ coll'[k].rev # coll[k].rev
  <2>1. writes \in Nat /\ coll[k].rev \in Nat /\ coll[k].rev <= writes
    BY <1>0 DEF TypeOK, Document, RevisionsAreOld
  <2>2. coll'[k].rev = writes + 1
    BY <1>0 DEF TypeOK, Store
  <2> QED  BY <2>1, <2>2
<1>5. CASE /\ img' = [img EXCEPT ![c][k] =
                         [id |-> id, rev |-> writes + 1, until |-> until]]
           /\ id # 0 /\ until >= now
  <2>1. img'[c][k] = [id |-> id, rev |-> writes + 1, until |-> until]
    BY <1>0, <1>5 DEF TypeOK
  <2>2. Owns(c, k)' /\ img'[c][k].rev = coll'[k].rev
    BY <1>4, <1>5, <2>1 DEF Owns, Holding
  <2> QED  BY <1>1, <1>3, <1>4, <2>2, WriteIsWrite
<1>6. CASE img' = [img EXCEPT ![c][k] = NoImage]
  <2>1. \A d \in Client : ~Owns(d, k)'
    <3>1. ~Owns(c, k)'
      BY <1>0, <1>6 DEF TypeOK, Owns, Holding, NoImage
    <3>2. ASSUME NEW d \in Client \ {c} PROVE ~Owns(d, k)'
      BY <1>1, <1>2 DEF Owns, Holding
    <3> QED  BY <3>1, <3>2
  <2> QED  BY <1>1, <1>3, <1>4, <2>1, WriteIsWrite
<1>7. CASE img' = img /\ ~Exists(k)
  <2>1. \A d \in Client : ~Owns(d, k)
    BY <1>0, <1>7, LiveImageIsHolders DEF Owns
  <2>2. \A d \in Client : ~Owns(d, k)'
    BY <1>7, <2>1 DEF Owns, Holding
  <2> QED  BY <1>1, <1>3, <1>4, <2>2, WriteIsWrite
<1> QED  BY <1>5, <1>6, <1>7

\* A deletion is the write of no contents.
LEMMA DeleteIsWrite ==
  ASSUME RInv, IInv', NEW c \in Client, NEW k \in Key, Delete(c, k)
  PROVE  Lease!Next
<1>0. TypeOK /\ IInv /\ DocumentsHaveContents
  BY DEF RInv, IInv
<1>1. \A d \in Client \ {c} : ~Owns(d, k)
  BY <1>0, NobodyElseOwns DEF Delete
<1>2. \A d \in Client, j \in Key : d # c \/ j # k => img'[d][j] = img[d][j]
  BY <1>0 DEF TypeOK, Delete
<1>3. Local(c, k)
  BY <1>0, <1>2 DEF Local, Delete, TypeOK
<1>4. coll'[k].rev # coll[k].rev
  BY <1>0 DEF TypeOK, Delete, NoDoc, DocumentsHaveContents, UnlockedOrMine
<1>5. ~Owns(c, k)'
  BY <1>0 DEF TypeOK, Delete, Owns, Holding, NoImage
<1>6. \A d \in Client \ {c} : ~Owns(d, k)'
  BY <1>1, <1>2 DEF Owns, Holding, Delete
<1> QED  BY <1>1, <1>3, <1>4, <1>5, <1>6, WriteIsWrite

\* The mapping of the steps.
LEMMA NextImplementsLease ==
  ASSUME RInv, IInv', [Next]_vars
  PROVE  Lease!Next
<1>0. TypeOK /\ CallsHaveKeys /\ now \in Nat
  BY DEF RInv, IInv, TypeOK
<1>7. /\ \A hold \in Holds : hold \in Nat
      /\ now + DefaultHold \in Nat /\ now + DefaultHold >= now
  BY <1>0, ConstantsAssumption
<1>1. ASSUME NEW c \in Client, StartCall(c) PROVE Lease!Next
  <2>1. ASSUME NEW k \in Key, NEW hold \in Holds, FindLocked(c, k, hold)
        PROVE  Lease!Next
    BY <1>7, <2>1, TakeLockAcquires DEF FindLocked
  <2>2. ASSUME NEW k \in Key, NEW hold \in Holds, NEW wait \in Waits,
               NEW orCreate \in BOOLEAN, FindFails(c, k, orCreate, wait, hold)
        PROVE  Lease!Next
    BY <2>2, QuietLapses DEF FindFails
  <2> QED  BY <1>1, <2>1, <2>2 DEF StartCall
<1>2. ASSUME NEW c \in Client, CallStep(c) PROVE Lease!Next
  <2>0. call[c].key \in Key /\ call[c].hold \in Nat
    BY <1>0, <1>2 DEF CallStep, Probe, Try, Test, CreateLocked, CallsHaveKeys,
                      InCall, TypeOK, Call
  <2>1. CASE Probe(c) \/ Test(c)
    BY <2>1, QuietLapses DEF Probe, Test
  <2>2. CASE Try(c) /\ Unlocked(call[c].key)
    BY <2>0, <2>2, TakeLockAcquires DEF Try
  <2>3. CASE Try(c) /\ ~Unlocked(call[c].key)
    BY <2>3, QuietLapses DEF Try
  <2>4. CASE CreateLocked(c) /\ Exists(call[c].key)
    BY <2>4, QuietLapses DEF CreateLocked
  <2>5. CASE CreateLocked(c) /\ ~Exists(call[c].key)
    <3>1. writes + 1 \in Nat /\ writes + 1 # 0
      BY <1>0 DEF TypeOK
    <3>2. /\ Store(call[c].key, writes + 1, c, now + DefaultHold)
          /\ img' = [img EXCEPT ![c][call[c].key] =
                       [id |-> writes + 1, rev |-> writes + 1, until |-> now + DefaultHold]]
          /\ now' = now
      BY <2>5 DEF CreateLocked
    <3> QED  BY <1>7, <2>0, <2>5, <3>1, <3>2, StoreIsWrite
  <2> QED  BY <1>2, <2>1, <2>2, <2>3, <2>4, <2>5 DEF CallStep
<1>3. ASSUME NEW c \in Client, NEW k \in Key, Write(c, k) PROVE Lease!Next
  <2>0. img[c][k].id \in Nat /\ writes + 1 \in Nat /\ (Holding(c, k) => img[c][k].id # 0)
    BY <1>0 DEF TypeOK, Image, Holding
  <2>1. CASE CreateUnlocked(c, k)
    BY <2>0, <2>1, StoreIsWrite DEF CreateUnlocked
  <2>2. CASE SaveUnlock(c, k)
    BY <2>0, <2>2, StoreIsWrite DEF SaveUnlock
  <2>3. CASE SaveKeep(c, k)
    <3>1. /\ Store(k, img[c][k].id, c, now + DefaultHold)
          /\ img' = [img EXCEPT ![c][k] = [id |-> img[c][k].id, rev |-> writes + 1,
                                           until |-> now + DefaultHold]]
          /\ now' = now /\ UnlockedOrMine(c, k) /\ Holding(c, k)
      BY <2>3 DEF SaveKeep
    <3> QED  BY <1>7, <2>0, <3>1, StoreIsWrite
  <2>4. CASE Delete(c, k)
    BY <2>4, DeleteIsWrite
  <2>5. CASE WriteRefused(c, k) \/ Abandon(c, k)
    <3>1. coll' = coll /\ now' = now /\ img' = [img EXCEPT ![c][k] = NoImage]
      BY <2>5 DEF WriteRefused, Abandon
    <3>2. \A d \in Client, j \in Key : img'[d][j] \in {img[d][j], NoImage}
      BY <1>0, <3>1 DEF TypeOK
    <3> QED  BY <3>1, <3>2, QuietLapses
  <2> QED  BY <1>3, <2>1, <2>2, <2>3, <2>4, <2>5 DEF Write
<1>4. ASSUME NEW c \in Client, Crash(c) PROVE Lease!Next
  <2>1. \A d \in Client, j \in Key : img'[d][j] \in {img[d][j], NoImage}
    BY <1>0, <1>4 DEF Crash, TypeOK
  <2> QED  BY <1>4, <2>1, QuietLapses DEF Crash
<1>5. ASSUME NEW k \in Key, ClearLock(k), now' = now, img' = img PROVE Lease!Next
  <2>1. \A j \in Key : coll'[j].rev = coll[j].rev
    BY <1>0, <1>5, LocksKeepContents
  <2> QED  BY <1>5, <2>1, QuietLapses
<1>6. CASE coll' = coll /\ img' = img /\ now' \in {now, now + 1}
  BY <1>6, QuietLapses
<1> QED
  BY <1>1, <1>2, <1>3, <1>4, <1>5, <1>6
  DEF Next, ForceUnlockHeldBy, ResetExpired, Tick, vars

\* The document lock of locking_crud.rb implements Lease: callers that know
\* their lock by its expiration time, on images read before it was tested, and
\* documents unlocked behind their backs, behave as one exclusive lease.
THEOREM LockImplementsLease == Spec => ImplementsLease
<1>1. Init => Lease!Init
  <2> SUFFICES ASSUME Init PROVE Lease!Init
    OBVIOUS
  <2>1. TypeOK
    BY InitTypeOK
  <2>2. \A c \in Client, k \in Key : ~Owns(c, k)
    BY DEF Init, Owns, Holding, NoImage
  <2>3. ownerBar = [k \in Key |-> None]
    BY <2>2 DEF ownerBar, OwnerOf
  <2>4. seenBar = [c \in Client |-> [k \in Key |-> 0]]
    BY <2>2 DEF seenBar, Seen
  <2>5. contentBar = [k \in Key |-> 0]
    BY DEF Init, contentBar, NoDoc
  <2> QED  BY <2>3, <2>4, <2>5 DEF Lease!Init
<1>2. RInv /\ IInv' /\ [Next]_vars => [Lease!Next]_(Lease!vars)
  BY NextImplementsLease
<1>3. RInv => IInv
  BY DEF RInv
<1> QED  BY <1>1, <1>2, <1>3, RefinementInvariant, PTL DEF Spec, ImplementsLease, Lease!Spec
=============================================================================
