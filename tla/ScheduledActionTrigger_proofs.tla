-------------------- MODULE ScheduledActionTrigger_proofs --------------------
(***************************************************************************)
(* Proofs about ScheduledActionTrigger, for any number of launchers and    *)
(* any durations: the types, that one launcher at most is responsible,     *)
(* that trigger documents do not pile up and that a stopped launcher       *)
(* leaves no lock behind.                                                  *)
(***************************************************************************)
EXTENDS ScheduledActionTrigger, FiniteSetTheorems, TLAPS

USE ConstantsAssumption

-----------------------------------------------------------------------------
(* Types *)

LEMMA TypeInit == Init => TypeOK
  BY DEF Init, TypeOK, Unlocked, Left, NoDoc, Place

LEMMA TypeStep == TypeOK /\ [Next]_vars => TypeOK'
<1> USE DEF TypeOK, Left, NoDoc, Place
<1> SUFFICES ASSUME TypeOK, [Next]_vars PROVE TypeOK'
  OBVIOUS
<1>1. ASSUME NEW l \in Launcher, ThreadStep(l) PROVE TypeOK'
  <2>1. CASE Run(l)      BY <2>1 DEF Run, Goto
  <2>2. CASE Check(l)    BY <2>2 DEF Check, Goto
  <2>3. CASE Seek(l)     BY <2>3 DEF Seek, Take, LockOf, Goto
  <2>4. CASE Reset(l)    BY <2>4 DEF Reset, Unlocked, Goto
  <2>5. CASE Trigger(l)  BY <2>5 DEF Trigger, Goto
  <2>6. CASE Create(l)   BY <2>6 DEF Create, Goto
  <2>7. CASE Update(l)   BY <2>7 DEF Update, LockOf, Goto
  <2>8. CASE Sleep(l)    BY <2>8 DEF Sleep, Goto
  <2>9. CASE Stopped(l)  BY <2>9 DEF Stopped, Unlocked, Goto
  <2>10. QED
    BY <1>1, <2>1, <2>2, <2>3, <2>4, <2>5, <2>6, <2>7, <2>8, <2>9 DEF ThreadStep
<1>2. ASSUME NEW l \in Launcher, Stop(l) PROVE TypeOK'
  BY <1>2 DEF Stop
<1>3. ASSUME NEW l \in Launcher, Crash(l) PROVE TypeOK'
  BY <1>3 DEF Crash, Goto
<1>4. CASE Tick       BY <1>4 DEF Tick, Elapse
<1>5. CASE Instant    BY <1>5 DEF Instant
<1>6. CASE Collected  BY <1>6 DEF Collected
<1>7. CASE SetActive  BY <1>7 DEF SetActive
<1>8. CASE CleanUp    BY <1>8 DEF CleanUp, Expired, Unlocked
<1>9. CASE UNCHANGED vars  BY <1>9 DEF vars
<1>10. QED
  BY <1>1, <1>2, <1>3, <1>4, <1>5, <1>6, <1>7, <1>8, <1>9 DEF Next

\* The variables of the trigger have the types of TypeOK, for any number of launchers.
THEOREM TypeCorrect == Spec => []TypeOK
  BY TypeInit, TypeStep, PTL DEF Spec

-----------------------------------------------------------------------------
(* The semaphore *)

\* A lock that an image shows as unexpired is the lock of the semaphore, with the same
\* time left.
ImageIsLock ==
    \A l \in Launcher : image[l] >= 0 => semaphore = [by |-> l, left |-> image[l]]

\* The thread that has the lock for some more time knows it, if it lives.
LockIsInImage ==
    \A l \in Launcher :
        semaphore.by = l /\ semaphore.left > 0 /\ pc[l] # "crashed"
            => image[l] = semaphore.left

\* Who has ended has no image.
EndedHasNoImage ==
    \A l \in Launcher : pc[l] \in {"stopped", "crashed"} => image[l] = NoDoc

SemInv == ImageIsLock /\ LockIsInImage /\ EndedHasNoImage

LEMMA SemInit == Init => SemInv
  BY DEF Init, SemInv, ImageIsLock, LockIsInImage, EndedHasNoImage, Unlocked, NoDoc

LEMMA SemStep == TypeOK /\ SemInv /\ [Next]_vars => SemInv'
<1> USE DEF TypeOK, Left, NoDoc, Place
<1> SUFFICES ASSUME TypeOK, SemInv, [Next]_vars PROVE SemInv'
  OBVIOUS
<1> USE DEF SemInv, ImageIsLock, LockIsInImage, EndedHasNoImage
<1>1. ASSUME NEW l \in Launcher, ThreadStep(l) PROVE SemInv'
  <2>1. CASE Run(l)      BY <2>1 DEF Run, Goto
  <2>2. CASE Check(l)    BY <2>2 DEF Check, Goto
  <2>3. CASE Seek(l)     BY <2>3 DEF Seek, Take, LockOf, Goto
  <2>4. CASE Reset(l)    BY <2>4 DEF Reset, Expired, Unlocked, Goto
  <2>5. CASE Trigger(l)  BY <2>5 DEF Trigger, Goto
  <2>6. CASE Create(l)   BY <2>6 DEF Create, Goto
  <2>7. CASE Update(l)   BY <2>7 DEF Update, Saves, Expired, LockOf, Goto
  <2>8. CASE Sleep(l)    BY <2>8 DEF Sleep, Goto
  <2>9. CASE Stopped(l)  BY <2>9 DEF Stopped, Saves, Expired, Unlocked, Goto
  <2>10. QED
    BY <1>1, <2>1, <2>2, <2>3, <2>4, <2>5, <2>6, <2>7, <2>8, <2>9 DEF ThreadStep
<1>2. ASSUME NEW l \in Launcher, Stop(l) PROVE SemInv'
  BY <1>2 DEF Stop
<1>3. ASSUME NEW l \in Launcher, Crash(l) PROVE SemInv'
  BY <1>3 DEF Crash, Goto
<1>4. CASE Tick       BY <1>4 DEF Tick, Elapse
<1>5. CASE Instant    BY <1>5 DEF Instant
<1>6. CASE Collected  BY <1>6 DEF Collected
<1>7. CASE SetActive  BY <1>7 DEF SetActive
<1>8. CASE CleanUp    BY <1>8 DEF CleanUp, Expired, Unlocked
<1>9. CASE UNCHANGED vars  BY <1>9 DEF vars
<1>10. QED
  BY <1>1, <1>2, <1>3, <1>4, <1>5, <1>6, <1>7, <1>8, <1>9 DEF Next

\* What the next two theorems rest on.
THEOREM SemaphoreInvariant == Spec => [](TypeOK /\ SemInv)
<1>1. Init => TypeOK /\ SemInv
  BY TypeInit, SemInit
<1>2. TypeOK /\ SemInv /\ [Next]_vars => (TypeOK /\ SemInv)'
  BY TypeStep, SemStep
<1>3. QED
  BY <1>1, <1>2, PTL DEF Spec

\* Two launchers never both have an image of the semaphore with an unexpired lock.
THEOREM OnlyOneResponsible == Spec => []OneResponsible
<1>1. TypeOK /\ SemInv => OneResponsible
  BY DEF TypeOK, SemInv, ImageIsLock, OneResponsible, Responsible, Left, NoDoc
<1>2. QED
  BY SemaphoreInvariant, <1>1, PTL

\* What stop leaves in the semaphore never makes another launcher wait.
THEOREM StoppedNeverHoldsLock == Spec => []StoppedHoldsNoLock
<1>1. TypeOK /\ SemInv => StoppedHoldsNoLock
  BY DEF TypeOK, SemInv, LockIsInImage, EndedHasNoImage, StoppedHoldsNoLock, Left, NoDoc
<1>2. QED
  BY SemaphoreInvariant, <1>1, PTL

-----------------------------------------------------------------------------
(* Trigger documents *)

\* The launchers that have found no trigger document and insert one next.
Creating == {l \in Launcher : pc[l] = "create"}

LEMMA CreatingFinite ==
  /\ IsFiniteSet(Creating) /\ Cardinality(Creating) \in Nat
  /\ Cardinality(Creating) <= Cardinality(Launcher)
  /\ IsFiniteSet(Creating') /\ Cardinality(Creating') \in Nat
  /\ Cardinality(Creating') <= Cardinality(Launcher)
  /\ Cardinality(Launcher) \in Nat
<1>1. Creating \subseteq Launcher /\ Creating' \subseteq Launcher
  BY DEF Creating
<1>2. IsFiniteSet(Launcher)
  BY ConstantsAssumption
<1>3. QED
  BY <1>1, <1>2, FS_Subset, FS_CardinalityType

\* A step after which no more launchers are about to insert, and no more documents
\* are there, keeps the bound.
LEMMA NoMoreCreating ==
  ASSUME TypeOK, TypeOK', TriggersDontPileUp,
         Creating' \subseteq Creating, triggers' <= triggers
  PROVE  TriggersDontPileUp'
<1>1. Cardinality(Creating') <= Cardinality(Creating)
  BY CreatingFinite, FS_Subset
<1>2. triggers \in Nat /\ triggers' \in Nat
  BY DEF TypeOK
<1>3. triggers + Cardinality(Creating) <= Cardinality(Launcher)
  BY DEF TriggersDontPileUp, Creating
<1>4. triggers' + Cardinality(Creating') <= Cardinality(Launcher)
  BY <1>1, <1>2, <1>3, CreatingFinite
<1>5. QED
  BY <1>4 DEF TriggersDontPileUp, Creating

LEMMA PileStep ==
  TypeOK /\ TypeOK' /\ TriggersDontPileUp /\ [Next]_vars => TriggersDontPileUp'
<1> SUFFICES ASSUME TypeOK, TypeOK', TriggersDontPileUp, [Next]_vars
             PROVE  TriggersDontPileUp'
  OBVIOUS
<1> DEFINE Calm == Creating' \subseteq Creating /\ triggers' <= triggers
<1>1. Calm => TriggersDontPileUp'
  BY NoMoreCreating
<1>2. ASSUME NEW l \in Launcher, ThreadStep(l) PROVE TriggersDontPileUp'
  <2>1. CASE Trigger(l)
    <3>1. CASE triggers = 0
      <4>1. triggers' + Cardinality(Creating') <= Cardinality(Launcher)
        BY <2>1, <3>1, CreatingFinite DEF Trigger
      <4>2. QED
        BY <4>1 DEF TriggersDontPileUp, Creating
    <3>2. CASE triggers # 0
      <4>1. Calm
        BY <2>1, <3>2 DEF Trigger, Goto, Creating, TypeOK
      <4>2. QED
        BY <4>1, <1>1
    <3>3. QED
      BY <3>1, <3>2
  <2>2. CASE Create(l)
    <3>1. l \in Creating /\ Creating' = Creating \ {l}
      BY <2>2 DEF Create, Goto, Creating, TypeOK
    <3>2. Cardinality(Creating') = Cardinality(Creating) - 1
      BY <3>1, CreatingFinite, FS_RemoveElement
    <3>3. triggers' = triggers + 1 /\ triggers \in Nat
      BY <2>2 DEF Create, TypeOK
    <3>4. triggers + Cardinality(Creating) <= Cardinality(Launcher)
      BY DEF TriggersDontPileUp, Creating
    <3>5. triggers' + Cardinality(Creating') <= Cardinality(Launcher)
      BY <3>2, <3>3, <3>4, CreatingFinite
    <3>6. QED
      BY <3>5 DEF TriggersDontPileUp, Creating
  <2>3. CASE Run(l) \/ Check(l) \/ Reset(l) \/ Update(l) \/ Sleep(l) \/ Stopped(l)
    <3>1. Calm
      BY <2>3 DEF Run, Check, Reset, Update, Sleep, Stopped, Goto, Creating, TypeOK
    <3>2. QED
      BY <3>1, <1>1
  <2>4. CASE Seek(l)
    <3>1. Calm
      BY <2>4 DEF Seek, Take, Goto, Creating, TypeOK
    <3>2. QED
      BY <3>1, <1>1
  <2>5. QED
    BY <1>2, <2>1, <2>2, <2>3, <2>4 DEF ThreadStep
<1>3. ASSUME NEW l \in Launcher, Stop(l) \/ Crash(l) PROVE TriggersDontPileUp'
  <2>1. Calm
    BY <1>3 DEF Stop, Crash, Goto, Creating, TypeOK
  <2>2. QED
    BY <2>1, <1>1
<1>4. CASE Tick \/ Instant \/ Collected \/ CleanUp \/ SetActive \/ UNCHANGED vars
  <2>1. Calm
    BY <1>4 DEF Tick, Instant, Collected, CleanUp, SetActive, vars, Creating, TypeOK
  <2>2. QED
    BY <2>1, <1>1
<1>5. QED
  BY <1>2, <1>3, <1>4 DEF Next

\* However many launchers lose and win the semaphore in the middle of their rounds,
\* there are never more trigger documents of an action than launchers.
THEOREM TriggersNeverPileUp == Spec => []TriggersDontPileUp
<1>1. Init => TriggersDontPileUp
  <2>1. ASSUME Init PROVE triggers = 0 /\ Creating = {}
    BY <2>1 DEF Init, Creating
  <2>2. ASSUME Init PROVE triggers + Cardinality(Creating) <= Cardinality(Launcher)
    BY <2>1, <2>2, FS_EmptySet, CreatingFinite
  <2>3. QED
    BY <2>2 DEF TriggersDontPileUp, Creating
<1>2. TypeOK /\ TypeOK' /\ TriggersDontPileUp /\ [Next]_vars => TriggersDontPileUp'
  BY PileStep
<1>3. QED
  BY <1>1, <1>2, TypeCorrect, PTL DEF Spec
=============================================================================
