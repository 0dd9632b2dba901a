--------------------------- MODULE KmqQueueProofs ---------------------------
(***************************************************************************)
(* Proofs about KmqQueue, for every set of posters, references and          *)
(* messages.  IInv is inductive: one lemma per part of it shows that every  *)
(* step preserves that part, from the whole of IInv.                        *)
(***************************************************************************)
EXTENDS KmqQueue, SequenceFacts

USE DEF DELETED, Threads

\* What QGET takes from a queue that is not empty.
LEMMA QueueTakes ==
    ASSUME IInv, queue # <<>>
    PROVE  /\ Head(queue) \in Refs
           /\ Tail(queue) \in Seq(Refs)
           /\ IsInjective(Tail(queue))
           /\ ToSet(Tail(queue)) = ToSet(queue) \ {Head(queue)}
           /\ Head(queue) \in ToSet(queue)
<1> QED
  BY TailFacts DEF IInv, TypeOK, RefsInOnePlace

\* A reference being built is in nobody else's hands, the queue's included.
LEMMA BuildingIsApart ==
    ASSUME IInv, NEW t \in Threads, building[t] # NoRef
    PROVE  /\ building[t] \in Refs
           /\ building[t] \notin ToSet(queue)
           /\ building[t] \notin {cur, purged}
<1>1. building[t] \in Refs
  BY DEF IInv, TypeOK
<1>2. building[t] \in Built
  BY DEF Built
<1> QED
  BY <1>1, <1>2 DEF IInv, RefsInOnePlace

\* Every step keeps the variables in their types.
LEMMA TypeStep ==
    ASSUME IInv, [Next]_vars
    PROVE  TypeOK'
<1> USE DEF TypeOK, OwnerStates
<1>0. TypeOK
  BY DEF IInv
<1>1. CASE UNCHANGED vars
  BY <1>0, <1>1 DEF vars
<1>2. ASSUME NEW t \in Threads, NEW m \in Msgs, PostCheck(t, m) PROVE TypeOK'
  BY <1>0, <1>2 DEF PostCheck, FreeRefs
<1>3. ASSUME NEW t \in Threads, PostPut(t) PROVE TypeOK'
  <2>1. building[t] \in Refs
    BY <1>3, BuildingIsApart DEF PostPut
  <2> QED
    BY <1>0, <1>3, <2>1 DEF PostPut
<1>4. CASE DispatchWait
  BY <1>0, <1>4 DEF DispatchWait
<1>5. CASE DispatchGet
  <2>1. CASE queue = <<>>
    BY <1>0, <1>5, <2>1 DEF DispatchGet, QGet
  <2>2. CASE queue # <<>>
    BY <1>0, <1>5, <2>2, QueueTakes DEF DispatchGet, QGet
  <2> QED
    BY <2>1, <2>2
<1>6. CASE DispatchCallback
  BY <1>0, <1>6 DEF DispatchCallback
<1>7. CASE DispatchReturn
  BY <1>0, <1>7 DEF DispatchReturn, PutCurRef
<1>8. CASE DispatchExit
  BY <1>0, <1>8 DEF DispatchExit, PutCurRef
<1>9. ASSUME NEW c \in SUBSET Msgs, PurgeStart(c) PROVE TypeOK'
  BY <1>0, <1>9 DEF PurgeStart
<1>10. CASE PurgeMatch
  <2>1. PICK i \in Matching : purged' = queue[i] /\ queue' = RemoveAt(queue, i)
    BY <1>10 DEF PurgeMatch
  <2>2. i \in 1 .. Len(queue)
    BY <1>0 DEF Matching, Scanned
  <2>3. queue' \in Seq(Refs) /\ purged' \in Refs
    BY <1>0, <2>1, <2>2, RemoveAtFacts DEF IInv, RefsInOnePlace
  <2> QED
    BY <1>0, <1>10, <2>3 DEF PurgeMatch
<1>11. CASE PurgePut
  BY <1>0, <1>11 DEF PurgePut
<1>12. CASE PurgeReturn
  BY <1>0, <1>12 DEF PurgeReturn
<1>13. CASE DetachStart \/ DetachNext
  <2>1. CASE queue = <<>>
    BY <1>0, <1>13, <2>1 DEF DetachStart, DetachNext, DrainOrClose, QGet
  <2>2. CASE queue # <<>>
    BY <1>0, <1>13, <2>2, QueueTakes DEF DetachStart, DetachNext, DrainOrClose, QGet
  <2> QED
    BY <2>1, <2>2
<1>14. CASE DetachFail
  BY <1>0, <1>14 DEF DetachFail, PutCurRef
<1> QED
  BY <1>1, <1>2, <1>3, <1>4, <1>5, <1>6, <1>7, <1>8, <1>9, <1>10, <1>11, <1>12,
     <1>13, <1>14
  DEF Next, Post, Dispatch, Purge, Detach

\* Every step keeps what each phase of the owner holds.
LEMMA PhaseStep ==
    ASSUME IInv, [Next]_vars
    PROVE  PhaseOK'
<1> USE DEF PhaseOK
<1>0. TypeOK /\ PhaseOK /\ NoRef \notin Refs /\ Owner \in Threads
  BY QueueAssumption DEF IInv
<1>1. CASE UNCHANGED vars
  BY <1>0, <1>1 DEF vars
<1>2. ASSUME NEW t \in Threads, NEW m \in Msgs, PostCheck(t, m) PROVE PhaseOK'
  BY <1>0, <1>2 DEF PostCheck, MayPost, TypeOK
<1>3. ASSUME NEW t \in Threads, PostPut(t) PROVE PhaseOK'
  BY <1>0, <1>3 DEF PostPut, TypeOK
<1>4. CASE DispatchWait
  BY <1>0, <1>4 DEF DispatchWait, OwnerRuns
<1>5. CASE DispatchGet
  <2>1. queue # <<>> /\ Head(queue) \in Refs
    BY <1>0, <1>5, QueueTakes DEF DispatchGet, IInv, SignalOK
  <2> QED
    BY <1>0, <1>5, <2>1 DEF DispatchGet, QGet
<1>6. CASE DispatchCallback
  BY <1>0, <1>6 DEF DispatchCallback
<1>7. CASE DispatchReturn
  BY <1>0, <1>7 DEF DispatchReturn, PutCurRef, OwnerRuns
<1>8. CASE DispatchExit
  BY <1>0, <1>8 DEF DispatchExit, PutCurRef
<1>9. ASSUME NEW c \in SUBSET Msgs, PurgeStart(c) PROVE PhaseOK'
  BY <1>0, <1>9 DEF PurgeStart, OwnerRuns
<1>10. CASE PurgeMatch
  <2>1. PICK i \in Matching : purged' = queue[i]
    BY <1>10 DEF PurgeMatch
  <2>2. purged' \in Refs
    BY <1>0, <2>1 DEF Matching, Scanned, TypeOK
  <2> QED
    BY <1>0, <1>10, <2>2 DEF PurgeMatch
<1>11. CASE PurgePut
  BY <1>0, <1>11 DEF PurgePut
<1>12. CASE PurgeReturn
  BY <1>0, <1>12 DEF PurgeReturn
<1>13. CASE DetachStart \/ DetachNext
  <2>1. building[Owner] = NoRef
    BY <1>0, <1>13 DEF DetachStart, DetachNext, OwnerRuns
  <2>2. CASE queue = <<>>
    BY <1>0, <1>13, <2>1, <2>2 DEF DetachStart, DetachNext, DrainOrClose, QGet
  <2>3. CASE queue # <<>>
    BY <1>0, <1>13, <2>1, <2>3, QueueTakes DEF DetachStart, DetachNext, DrainOrClose, QGet
  <2> QED
    BY <2>2, <2>3
<1>14. CASE DetachFail
  BY <1>0, <1>14 DEF DetachFail, PutCurRef
<1> QED
  BY <1>1, <1>2, <1>3, <1>4, <1>5, <1>6, <1>7, <1>8, <1>9, <1>10, <1>11, <1>12,
     <1>13, <1>14
  DEF Next, Post, Dispatch, Purge, Detach

\* Every step keeps the two directions of the link between the event and the
\* queue: a signal means a reference, and a reference has a signal.
LEMMA SignalStep ==
    ASSUME IInv, [Next]_vars
    PROVE  SignalOK' /\ NoLostWakeup'
<1> DEFINE Goal == SignalOK' /\ NoLostWakeup'
<1> SUFFICES Goal
  OBVIOUS
<1> USE DEF SignalOK, NoLostWakeup
<1>0. TypeOK /\ PhaseOK /\ SignalOK /\ NoLostWakeup
  BY DEF IInv
<1>1. CASE UNCHANGED vars
  BY <1>0, <1>1 DEF vars
<1>2. ASSUME NEW t \in Threads, NEW m \in Msgs, PostCheck(t, m) PROVE Goal
  BY <1>0, <1>2 DEF PostCheck
<1>3. ASSUME NEW t \in Threads, PostPut(t) PROVE Goal
  <2>1. queue' # <<>> /\ Len(queue') = Len(queue) + 1
    BY <1>0, <1>3, BuildingIsApart DEF PostPut, TypeOK
  <2>2. queue # <<>> => Len(queue) > 0
    BY <1>0 DEF TypeOK
  <2> QED
    BY <1>0, <1>3, <2>1, <2>2 DEF PostPut, TypeOK
<1>4. CASE DispatchWait
  BY <1>0, <1>4 DEF DispatchWait
<1>5. CASE DispatchGet
  <2>1. queue # <<>> /\ ~DELETED /\ queue' = Tail(queue)
    BY <1>0, <1>5 DEF DispatchGet, QGet, PhaseOK
  <2>2. Len(queue) > 1 => Tail(queue) # <<>>
    BY <1>0, <2>1, HeadTailProperties DEF TypeOK
  <2> QED
    BY <1>0, <1>5, <2>1, <2>2 DEF DispatchGet, TypeOK
<1>6. CASE DispatchCallback
  BY <1>0, <1>6 DEF DispatchCallback
<1>7. CASE DispatchReturn
  BY <1>0, <1>7 DEF DispatchReturn
<1>8. CASE DispatchExit
  BY <1>0, <1>8 DEF DispatchExit
<1>9. ASSUME NEW c \in SUBSET Msgs, PurgeStart(c) PROVE Goal
  BY <1>0, <1>9 DEF PurgeStart
<1>10. CASE PurgeMatch
  BY <1>0, <1>10 DEF PurgeMatch
<1>11. CASE PurgePut
  BY <1>0, <1>11 DEF PurgePut
<1>12. CASE PurgeReturn
  BY <1>0, <1>12 DEF PurgeReturn
<1>13. CASE DetachStart \/ DetachNext
  BY <1>0, <1>13 DEF DetachStart, DetachNext, DrainOrClose
<1>14. CASE DetachFail
  BY <1>0, <1>14 DEF DetachFail
<1> QED
  BY <1>1, <1>2, <1>3, <1>4, <1>5, <1>6, <1>7, <1>8, <1>9, <1>10, <1>11, <1>12,
     <1>13, <1>14
  DEF Next, Post, Dispatch, Purge, Detach

\* Every step keeps each reference in one place.
LEMMA PlaceStep ==
    ASSUME IInv, [Next]_vars
    PROVE  RefsInOnePlace'
<1> USE DEF RefsInOnePlace, Built
<1>0. TypeOK /\ PhaseOK /\ RefsInOnePlace /\ NoRef \notin Refs /\ NoMsg \notin Msgs
  BY QueueAssumption DEF IInv
<1>1. CASE UNCHANGED vars
  BY <1>0, <1>1 DEF vars
<1>2. ASSUME NEW t \in Threads, NEW m \in Msgs, PostCheck(t, m) PROVE RefsInOnePlace'
  <2>1. PICK r \in FreeRefs : /\ refmsg' = [refmsg EXCEPT ![r] = m]
                              /\ building' = [building EXCEPT ![t] = r]
    BY <1>2 DEF PostCheck
  <2>2. /\ r \in Refs /\ r \notin ToSet(queue) /\ r \notin {cur, purged}
        /\ \A u \in Threads : building[u] # r
    BY <1>0, <2>1 DEF FreeRefs
  <2> QED
    BY <1>0, <1>2, <2>1, <2>2 DEF PostCheck, TypeOK
<1>3. ASSUME NEW t \in Threads, PostPut(t) PROVE RefsInOnePlace'
  <2>1. /\ building[t] \in Refs
        /\ building[t] \notin ToSet(queue)
        /\ building[t] \notin {cur, purged}
    BY <1>3, BuildingIsApart DEF PostPut
  <2>2. IsInjective(queue') /\ ToSet(queue') = ToSet(queue) \cup {building[t]}
    BY <1>0, <1>3, <2>1, AppendFacts DEF PostPut, TypeOK
  <2>3. /\ building' = [building EXCEPT ![t] = NoRef]
        /\ UNCHANGED <<refmsg, cur, purged>>
    BY <1>3 DEF PostPut
  <2>4. \A u \in Threads : building[u] = building[t] => u = t
    BY <1>0, <1>3 DEF PostPut
  <2>5. \A r \in Refs : r \in Built' <=> r \in Built /\ r # building[t]
    BY <1>0, <2>3, <2>4 DEF TypeOK
  <2>6. building[t] \in Built
    OBVIOUS
  <2>7. \A u, v \in Threads : (building[u] = building[v] /\ building[u] # NoRef)' => u = v
    BY <1>0, <2>3 DEF TypeOK
  <2> HIDE DEF Built
  <2> QED
    BY <1>0, <2>1, <2>2, <2>3, <2>5, <2>6, <2>7
<1>4. CASE DispatchWait
  BY <1>0, <1>4 DEF DispatchWait
<1>5. CASE DispatchGet
  <2>1. queue # <<>> /\ ~DELETED /\ cur = NoRef
    BY <1>0, <1>5 DEF DispatchGet, PhaseOK, IInv, SignalOK
  <2>2. queue' = Tail(queue) /\ cur' = Head(queue)
    BY <1>5, <2>1 DEF DispatchGet, QGet
  <2> QED
    BY <1>0, <1>5, <2>1, <2>2, QueueTakes DEF DispatchGet
<1>6. CASE DispatchCallback
  BY <1>0, <1>6 DEF DispatchCallback
<1>7. CASE DispatchReturn \/ DispatchExit \/ DetachFail
  <2>1. cur \in Refs /\ cur # NoRef
    BY <1>0, <1>7 DEF DispatchReturn, DispatchExit, DetachFail, PhaseOK, TypeOK
  <2>2. /\ refmsg' = [refmsg EXCEPT ![cur] = NoMsg] /\ cur' = NoRef
        /\ UNCHANGED <<queue, purged, building>>
    BY <1>7 DEF DispatchReturn, DispatchExit, DetachFail, PutCurRef
  <2> QED
    BY <1>0, <2>1, <2>2 DEF TypeOK
<1>9. ASSUME NEW c \in SUBSET Msgs, PurgeStart(c) PROVE RefsInOnePlace'
  BY <1>0, <1>9 DEF PurgeStart
<1>10. CASE PurgeMatch
  <2>1. PICK i \in Matching : purged' = queue[i] /\ queue' = RemoveAt(queue, i)
    BY <1>10 DEF PurgeMatch
  <2>2. i \in 1 .. Len(queue)
    BY <1>0 DEF Matching, Scanned, TypeOK
  <2>3. /\ IsInjective(queue')
        /\ ToSet(queue') = ToSet(queue) \ {purged'}
        /\ purged' \in ToSet(queue) /\ purged' \in Refs
    BY <1>0, <2>1, <2>2, RemoveAtFacts DEF TypeOK
  <2>4. purged = NoRef
    BY <1>0, <1>10 DEF PurgeMatch, PhaseOK
  <2> QED
    BY <1>0, <1>10, <2>3, <2>4 DEF PurgeMatch
<1>11. CASE PurgePut
  <2>1. purged \in Refs /\ purged # NoRef
    BY <1>0, <1>11 DEF PurgePut, PhaseOK, TypeOK
  <2> QED
    BY <1>0, <1>11, <2>1 DEF PurgePut, TypeOK
<1>12. CASE PurgeReturn
  BY <1>0, <1>12 DEF PurgeReturn
<1>13. CASE DetachStart \/ DetachNext
  <2>1. cur = NoRef /\ UNCHANGED <<refmsg, purged, building>>
    BY <1>0, <1>13 DEF DetachStart, DetachNext, PhaseOK
  <2>2. CASE queue = <<>>
    BY <1>0, <1>13, <2>1, <2>2 DEF DetachStart, DetachNext, DrainOrClose, QGet
  <2>3. CASE queue # <<>>
    <3>1. queue' = Tail(queue) /\ cur' = Head(queue)
      BY <1>13, <2>3 DEF DetachStart, DetachNext, DrainOrClose, QGet
    <3> QED
      BY <1>0, <2>1, <2>3, <3>1, QueueTakes
  <2> QED
    BY <2>2, <2>3
<1> QED
  BY <1>1, <1>2, <1>3, <1>4, <1>5, <1>6, <1>7, <1>9, <1>10, <1>11, <1>12, <1>13
  DEF Next, Post, Dispatch, Purge, Detach

\* The queue attached by kmqint_attach_this_thread satisfies the invariant.
LEMMA InitIInv == Init => IInv
<1> SUFFICES ASSUME Init PROVE IInv
  OBVIOUS
<1>1. ToSet(queue) = {} /\ IsInjective(queue)
  BY DEF Init, ToSet, IsInjective
<1>2. TypeOK
  BY DEF Init, TypeOK, OwnerStates
<1>3. PhaseOK /\ SignalOK /\ NoLostWakeup
  BY DEF Init, PhaseOK, SignalOK, NoLostWakeup
<1>4. RefsInOnePlace
  BY <1>1, QueueAssumption DEF Init, RefsInOnePlace, Built
<1> QED
  BY <1>2, <1>3, <1>4 DEF IInv

\* IInv holds in every reachable state: it is true of the new queue and each
\* step preserves its parts.
THEOREM Invariance == Spec => []IInv
<1>1. Init => IInv
  BY InitIInv
<1>2. IInv /\ [Next]_vars => IInv'
  BY TypeStep, PhaseStep, SignalStep, PlaceStep DEF IInv
<1> QED
  BY <1>1, <1>2, PTL DEF Spec

\* The variables keep their types.
THEOREM TypeCorrect == Spec => []TypeOK
<1>1. IInv => TypeOK
  BY DEF IInv
<1> QED
  BY <1>1, Invariance, PTL

\* kmq_dispatch never reads a NULL reference, with any number of posters: the
\* event is set only while a reference waits.
THEOREM DispatchFindsRef == Spec => []NoNullRef
<1>1. IInv => NoNullRef
  BY DEF IInv, PhaseOK, NoNullRef
<1> QED
  BY <1>1, Invariance, PTL

\* A reference waiting in an attached queue always has a signal to wake its owner.
THEOREM WakeupsNotLost == Spec => []NoLostWakeup
<1>1. IInv => NoLostWakeup
  BY DEF IInv
<1> QED
  BY <1>1, Invariance, PTL

\* A reference is never in two places at once, nor on the free list while in use.
THEOREM RefsNotShared == Spec => []RefsInOnePlace
<1>1. IInv => RefsInOnePlace
  BY DEF IInv
<1> QED
  BY <1>1, Invariance, PTL
=============================================================================
