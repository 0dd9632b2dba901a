---------------------------- MODULE RwLockProofs ----------------------------
(***************************************************************************)
(* Proofs about RwLock, for any set of threads, finite or not, and any      *)
(* depth of nesting.  IInv is inductive: one lemma per action shows that it *)
(* preserves the whole of it.                                               *)
(***************************************************************************)
EXTENDS RwLock, FiniteSetTheorems, TLAPS

USE DEF LOCK_OPEN, LOCK_READING, LOCK_WRITING

\* LockObtainRead succeeds: one more reader, and locks follows.
LEMMA ReadObtainStep ==
    ASSUME IInv, NEW t \in Threads, ReadObtain(t)
    PROVE  IInv'
<1>0. TypeOK /\ Exclusion /\ LocksExact /\ NoLostWakeup
  BY DEF IInv
<1>1. PICK n \in 1 .. MaxNest : <<t, n>> \notin reading /\ reading' = reading \cup {<<t, n>>}
  BY DEF ReadObtain
<1>2. /\ status # LOCK_WRITING /\ status' = LOCK_READING /\ locks' = locks + 1
      /\ pc' = [pc EXCEPT ![t] = "idle"]
      /\ writewx' = "clear" /\ readwx' = readwx /\ writer' = writer
  BY DEF ReadObtain, Goto
<1>3. IsFiniteSet(reading') /\ Cardinality(reading') = Cardinality(reading) + 1
  BY <1>0, <1>1, FS_AddElement DEF LocksExact
<1>4. reading' # {} /\ reading' \subseteq Threads \X (1 .. MaxNest)
  BY <1>0, <1>1 DEF TypeOK
<1>5. pc' \in [Threads -> Pcs]
  BY <1>0, <1>2 DEF TypeOK, Pcs
<1>6. TypeOK'
  BY <1>0, <1>2, <1>4, <1>5 DEF TypeOK
<1>7. Exclusion'
  BY <1>0, <1>2, <1>4 DEF Exclusion
<1>8. LocksExact'
  BY <1>0, <1>2, <1>3 DEF LocksExact
<1>9. NoLostWakeup'
  <2>1. readwx = "set"
    BY <1>0, <1>2 DEF NoLostWakeup
  <2> QED
    BY <1>2, <2>1 DEF NoLostWakeup
<1> QED
  BY <1>6, <1>7, <1>8, <1>9 DEF IInv

\* A read lock is released: the last one opens the lock.
LEMMA ReleaseReadStep ==
    ASSUME IInv, NEW t \in Threads, ReleaseRead(t)
    PROVE  IInv'
<1>0. TypeOK /\ Exclusion /\ LocksExact /\ NoLostWakeup
  BY DEF IInv
<1>1. PICK n \in 1 .. MaxNest : <<t, n>> \in reading /\ reading' = reading \ {<<t, n>>}
  BY DEF ReleaseRead
<1>2. status = LOCK_READING /\ writer = NoThread
  BY <1>0, <1>1 DEF Exclusion
<1>3. locks = Cardinality(reading) /\ locks \in Nat
  BY <1>0, <1>2 DEF LocksExact, TypeOK
<1>4. IsFiniteSet(reading') /\ Cardinality(reading') = Cardinality(reading) - 1
  BY <1>0, <1>1, FS_RemoveElement DEF LocksExact
<1>5. Cardinality(reading') \in Nat
  BY <1>4, FS_CardinalityType
<1>6. Cardinality(reading') = 0 <=> reading' = {}
  BY <1>4, FS_EmptySet
<1>7. locks' = locks - 1 /\ locks' = Cardinality(reading') /\ writer' = writer /\ pc' = pc
  BY <1>3, <1>4 DEF ReleaseRead
<1>8. CASE locks = 1
  <2>1. status' = LOCK_OPEN /\ readwx' = "set" /\ writewx' = "set"
    BY <1>8 DEF ReleaseRead, Open
  <2>2. reading' = {}
    BY <1>3, <1>6, <1>7, <1>8
  <2>3. TypeOK'
    BY <1>0, <1>5, <1>7, <2>1, <2>2 DEF TypeOK
  <2>4. Exclusion' /\ LocksExact'
    BY <1>2, <1>4, <1>7, <2>1, <2>2 DEF Exclusion, LocksExact
  <2>5. NoLostWakeup'
    BY <2>1 DEF NoLostWakeup
  <2> QED
    BY <2>3, <2>4, <2>5 DEF IInv
<1>9. CASE locks # 1
  <2>1. status' = status /\ readwx' = readwx /\ writewx' = writewx
    BY <1>9 DEF ReleaseRead
  <2>2. reading' # {}
    BY <1>3, <1>6, <1>7, <1>9
  <2>3. TypeOK'
    BY <1>0, <1>1, <1>5, <1>7, <2>1 DEF TypeOK
  <2>4. Exclusion' /\ LocksExact'
    BY <1>2, <1>4, <1>7, <2>1, <2>2 DEF Exclusion, LocksExact
  <2>5. NoLostWakeup'
    BY <1>0, <1>2, <2>1 DEF NoLostWakeup
  <2> QED
    BY <2>3, <2>4, <2>5 DEF IInv
<1> QED
  BY <1>8, <1>9

\* An open lock is taken for writing; nobody reads it.
LEMMA WriteObtainStep ==
    ASSUME IInv, NEW t \in Threads, WriteObtain(t)
    PROVE  IInv'
<1>0. TypeOK /\ Exclusion /\ LocksExact
  BY DEF IInv
<1>1. /\ status = LOCK_OPEN /\ status' = LOCK_WRITING /\ locks' = locks + 1
      /\ writer' = t /\ readwx' = "clear" /\ writewx' = "clear" /\ reading' = reading
      /\ pc' = [pc EXCEPT ![t] = "idle"]
  BY DEF WriteObtain, Take, Goto
<1>2. TypeOK'
  <2>1. pc' \in [Threads -> Pcs]
    BY <1>0, <1>1 DEF TypeOK, Pcs
  <2> QED
    BY <1>0, <1>1, <2>1 DEF TypeOK
<1>3. Exclusion'
  BY <1>0, <1>1, LockAssumption DEF Exclusion
<1>4. LocksExact'
  BY <1>0, <1>1 DEF LocksExact, TypeOK
<1>5. NoLostWakeup'
  BY <1>1 DEF NoLostWakeup
<1> QED
  BY <1>2, <1>3, <1>4, <1>5 DEF IInv

\* The writer leaves; the last release opens the lock.
LEMMA ReleaseWriteStep ==
    ASSUME IInv, NEW t \in Threads, ReleaseWrite(t)
    PROVE  IInv'
<1>0. TypeOK /\ Exclusion /\ LocksExact /\ NoLostWakeup
  BY DEF IInv
<1>1. status = LOCK_WRITING /\ reading = {} /\ locks \in Nat /\ locks > 0
  BY <1>0 DEF ReleaseWrite, HoldsWrite, Exclusion, LocksExact, TypeOK
<1>2. locks' = locks - 1 /\ pc' = pc /\ reading' = reading
  BY DEF ReleaseWrite
<1>3. CASE locks = 1
  <2>1. /\ status' = LOCK_OPEN /\ readwx' = "set" /\ writewx' = "set"
        /\ writer' = NoThread /\ locks' = 0
    BY <1>2, <1>3 DEF ReleaseWrite, Open
  <2>2. TypeOK'
    BY <1>0, <1>2, <2>1 DEF TypeOK
  <2>3. Exclusion' /\ LocksExact'
    BY <1>0, <1>1, <1>2, <2>1, FS_EmptySet DEF Exclusion, LocksExact
  <2>4. NoLostWakeup'
    BY <2>1 DEF NoLostWakeup
  <2> QED
    BY <2>2, <2>3, <2>4 DEF IInv
<1>4. CASE locks # 1
  <2>1. UNCHANGED <<status, writer, readwx, writewx>> /\ locks' > 0 /\ locks' \in Nat
    BY <1>1, <1>2, <1>4 DEF ReleaseWrite
  <2>2. TypeOK'
    BY <1>0, <1>2, <2>1 DEF TypeOK
  <2>3. Exclusion' /\ LocksExact'
    BY <1>0, <1>1, <1>2, <2>1 DEF Exclusion, LocksExact
  <2>4. NoLostWakeup'
    BY <1>0, <1>1, <2>1 DEF NoLostWakeup
  <2> QED
    BY <2>2, <2>3, <2>4 DEF IInv
<1> QED
  BY <1>3, <1>4

\* A writer that finds the lock taken again leaves no wakeup behind: the release
\* that opens the lock sets the event again.
LEMMA WriteBlockedStep ==
    ASSUME IInv, NEW t \in Threads, WriteBlocked(t)
    PROVE  IInv'
<1>0. TypeOK /\ Exclusion /\ LocksExact /\ NoLostWakeup
  BY DEF IInv
<1>1. /\ status # LOCK_OPEN /\ pc' = [pc EXCEPT ![t] = "write wait"]
      /\ UNCHANGED <<locks, status, writer, readwx, writewx, reading>>
  BY DEF WriteBlocked, Goto
<1>2. TypeOK'
  BY <1>0, <1>1 DEF TypeOK, Pcs
<1>3. Exclusion' /\ LocksExact'
  BY <1>0, <1>1 DEF Exclusion, LocksExact
<1>4. NoLostWakeup'
  BY <1>0, <1>1 DEF NoLostWakeup
<1> QED
  BY <1>2, <1>3, <1>4 DEF IInv

\* The steps of a thread that only waits or is woken.
LEMMA WaitStep ==
    ASSUME IInv, NEW t \in Threads,
           ReadStart(t) \/ ReadWoken(t) \/ ReadAgain(t) \/ WriteWoken(t)
    PROVE  IInv'
<1> USE DEF IInv, TypeOK, Exclusion, LocksExact, NoLostWakeup, Pcs
<1>1. CASE ReadStart(t)
  BY <1>1 DEF ReadStart, Goto
<1>2. CASE ReadWoken(t)
  BY <1>2 DEF ReadWoken, Goto
<1>3. CASE ReadAgain(t)
  BY <1>3 DEF ReadAgain, Goto
<1>4. CASE WriteWoken(t)
  BY <1>4 DEF WriteWoken, Goto
<1> QED
  BY <1>1, <1>2, <1>3, <1>4

\* The writer enters once more.
LEMMA WriteAgainStep ==
    ASSUME IInv, NEW t \in Threads, WriteAgain(t)
    PROVE  IInv'
<1>0. TypeOK /\ Exclusion /\ LocksExact /\ NoLostWakeup
  BY DEF IInv
<1>1. status = LOCK_WRITING /\ locks' = locks + 1
      /\ UNCHANGED <<status, writer, readwx, writewx, pc, reading>>
  BY DEF WriteAgain, HoldsWrite
<1>2. locks \in Nat
  BY <1>0 DEF TypeOK
<1>3. TypeOK'
  BY <1>0, <1>1, <1>2 DEF TypeOK
<1>4. Exclusion'
  BY <1>0, <1>1 DEF Exclusion
<1>5. LocksExact'
  BY <1>0, <1>1, <1>2 DEF LocksExact
<1>6. NoLostWakeup'
  BY <1>0, <1>1 DEF NoLostWakeup
<1> QED
  BY <1>3, <1>4, <1>5, <1>6 DEF IInv

\* IInv holds in every reachable state.
THEOREM Invariance == Spec => []IInv
<1>1. Init => IInv
  BY FS_EmptySet DEF Init, IInv, TypeOK, Exclusion, LocksExact, NoLostWakeup, Pcs
<1>2. IInv /\ [Next]_vars => IInv'
  <2> SUFFICES ASSUME IInv, [Next]_vars PROVE IInv'
    OBVIOUS
  <2>1. CASE UNCHANGED vars
    BY <2>1 DEF vars, IInv, TypeOK, Exclusion, LocksExact, NoLostWakeup
  <2>2. CASE Next
    <3>1. PICK t \in Threads : ReadStart(t) \/ WriteAgain(t) \/ Obtain(t) \/ Release(t)
      BY <2>2 DEF Next
    <3> QED
      BY <3>1, ReadObtainStep, ReleaseReadStep, WriteObtainStep, ReleaseWriteStep,
         WriteBlockedStep, WaitStep, WriteAgainStep
      DEF Obtain, Release
  <2> QED
    BY <2>1, <2>2
<1> QED
  BY <1>1, <1>2, PTL DEF Spec

\* util/sync.h: many readers or one writer, in every reachable state, for any
\* number of threads.
THEOREM ReadersOrWriter == Spec => []Exclusion
<1>1. IInv => Exclusion
  BY DEF IInv
<1> QED
  BY <1>1, Invariance, PTL

\* The last release, and no other, opens the lock.
THEOREM LocksCounted == Spec => []LocksExact
<1>1. IInv => LocksExact
  BY DEF IInv
<1> QED
  BY <1>1, Invariance, PTL

\* The auto-reset event never loses the wakeup of a waiting writer, and readers
\* are held up by nobody but a writer.
THEOREM WakeupsNotLost == Spec => []NoLostWakeup
<1>1. IInv => NoLostWakeup
  BY DEF IInv
<1> QED
  BY <1>1, Invariance, PTL
=============================================================================
