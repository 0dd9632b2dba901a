----------------------------- MODULE TaskProofs -----------------------------
(***************************************************************************)
(* Proofs about Task, for any set of holders, finite or not, and any bound  *)
(* on the references of one.  The set Held has one element per reference a  *)
(* holder has; taking a reference adds one element to it and letting one go *)
(* removes one, so that its cardinality moves as the count of task.c does.  *)
(***************************************************************************)
EXTENDS Task, FiniteSetTheorems, TLAPS

\* task_hold for h: Held gets one more element.
LEMMA HeldGrows ==
    ASSUME TypeOK, IsFiniteSet(Held), NEW h \in Holders, holds[h] < MaxHolds,
           holds' = [holds EXCEPT ![h] = @ + 1]
    PROVE  IsFiniteSet(Held') /\ Cardinality(Held') = Cardinality(Held) + 1
<1> DEFINE n == holds[h] + 1
<1>1. MaxHolds \in Nat /\ holds \in [Holders -> 0 .. MaxHolds] /\ holds[h] \in Nat
  BY TaskAssumption DEF TypeOK
<1>2. n \in 1 .. MaxHolds
  BY <1>1
<1>3. \A g \in Holders, i \in 1 .. MaxHolds :
          i <= holds'[g] <=> i <= holds[g] \/ <<g, i>> = <<h, n>>
  BY <1>1
<1>4. Held' = Held \cup {<<h, n>>} /\ <<h, n>> \notin Held
  BY <1>1, <1>2, <1>3 DEF Held
<1> QED
  BY <1>4, FS_AddElement

\* task_release by h: Held loses one element.
LEMMA HeldShrinks ==
    ASSUME TypeOK, IsFiniteSet(Held), NEW h \in Holders, holds[h] > 0,
           holds' = [holds EXCEPT ![h] = @ - 1]
    PROVE  IsFiniteSet(Held') /\ Cardinality(Held') = Cardinality(Held) - 1
<1> DEFINE n == holds[h]
<1>1. MaxHolds \in Nat /\ holds \in [Holders -> 0 .. MaxHolds] /\ n \in 1 .. MaxHolds
  BY TaskAssumption DEF TypeOK
<1>2. \A g \in Holders, i \in 1 .. MaxHolds :
          i <= holds'[g] <=> i <= holds[g] /\ <<g, i>> # <<h, n>>
  BY <1>1
<1>3. Held' = Held \ {<<h, n>>} /\ <<h, n>> \in Held
  BY <1>1, <1>2 DEF Held
<1> QED
  BY <1>3, FS_RemoveElement

\* Who has a reference is counted: the object is not freed.
LEMMA HolderCounted ==
    ASSUME IInv, NEW h \in Holders, holds[h] > 0
    PROVE  Cardinality(Held) \in Nat \ {0} /\ refcount # 0 /\ ~freed
<1>1. <<h, 1>> \in Held
  BY TaskAssumption DEF IInv, TypeOK, Held
<1>2. Cardinality(Held) \in Nat /\ Cardinality(Held) # 0
  BY <1>1, FS_CardinalityType, FS_EmptySet DEF IInv
<1> QED
  BY <1>2 DEF IInv, FreedAtLast, RunnerHolds

\* free_task runs in the release of the last reference and in no other.
LEMMA ReleaseFacts ==
    ASSUME TypeOK, FreedAtLast, refcount # 0, Release
    PROVE  /\ refcount' = refcount - 1 /\ refcount' \in Nat
           /\ freed' \in BOOLEAN /\ (freed' <=> refcount' = 0)
           /\ parent_sub' \in {"none", "live", "deleted"} /\ (parent_sub' = "deleted" => freed')
<1>1. refcount \in Nat \ {0} /\ parent_sub \in {"none", "live"}
  BY DEF TypeOK, FreedAtLast
<1>2. refcount' = refcount - 1 /\ refcount' \in Nat /\ (refcount' = 0 <=> refcount = 1)
  BY <1>1 DEF Release
<1>3. freed' \in BOOLEAN /\ (freed' <=> refcount = 1)
  BY Zenon DEF Release
<1>4. parent_sub' \in {"none", "live", "deleted"} /\ (parent_sub' = "deleted" => refcount = 1)
  BY <1>1 DEF Release
<1> QED
  BY <1>2, <1>3, <1>4

\* task_create counts the caller's reference and that of the task's thread.
THEOREM InitHolds == Init => IInv
<1> SUFFICES ASSUME Init PROVE IInv
  OBVIOUS
<1>1. Creator \in Holders /\ MaxHolds \in Nat \ {0} /\ HasParent \in BOOLEAN
  BY TaskAssumption
<1>2. TypeOK
  <2>1. 0 \in 0 .. MaxHolds /\ 1 \in 0 .. MaxHolds
    BY <1>1
  <2>2. holds \in [Holders -> 0 .. MaxHolds]
    BY <2>1 DEF Init
  <2> QED
    BY <1>1, <2>2 DEF Init, TypeOK
<1>3. Held = {<<Creator, 1>>}
  BY <1>1 DEF Init, Held
<1>4. IsFiniteSet(Held) /\ Cardinality(Held) = 1
  BY <1>3, FS_Singleton
<1>5. FreedAtLast
  BY <1>1, <1>4 DEF Init, FreedAtLast, RunnerHolds
<1> QED
  BY <1>2, <1>4, <1>5 DEF IInv

\* The steps of the task's own thread leave the holders' references alone.
LEMMA RunnerStep ==
    ASSUME IInv, Runner
    PROVE  IInv'
<1> DEFINE k == Cardinality(Held)
<1>1. holds' = holds
  BY DEF Runner, RunnerStart, RunnerSeesAbort, RunnerFinish, CallParent, CallReturn,
     RunnerRelease
<1>2. Held' = Held
  BY <1>1 DEF Held
<1>3. k \in Nat /\ k' = k /\ IsFiniteSet(Held') /\ holds' \in [Holders -> 0 .. MaxHolds]
  BY <1>1, <1>2, FS_CardinalityType DEF IInv, TypeOK
<1>4. SUFFICES refcount' = k' + RunnerHolds' /\ (freed' <=> refcount' = 0) /\ refcount' \in Nat
               /\ state' \in {"PREP", "RUNNING", "ABORTED", "EXITED"}
               /\ runner' \in {"starting", "running", "calling", "exiting", "done"}
               /\ parent_sub' \in {"none", "live", "deleted"} /\ freed' \in BOOLEAN
               /\ (parent_sub' = "deleted" => freed')
  BY <1>3 DEF IInv, TypeOK, FreedAtLast
<1>5. refcount = k + RunnerHolds /\ (freed <=> refcount = 0) /\ (parent_sub = "deleted" => freed)
  BY DEF IInv, FreedAtLast
<1>6. TypeOK
  BY DEF IInv
<1> HIDE DEF k
<1>7. CASE RunnerStart \/ RunnerSeesAbort \/ RunnerFinish
  BY <1>3, <1>5, <1>6, <1>7 DEF TypeOK, RunnerHolds, RunnerStart, RunnerSeesAbort, RunnerFinish
<1>8. CASE CallParent
  BY <1>3, <1>5, <1>6, <1>8 DEF TypeOK, RunnerHolds, CallParent, AddHold
<1>9. CASE CallReturn \/ RunnerRelease
  <2>1. Release /\ refcount # 0
    BY <1>3, <1>5, <1>9 DEF RunnerHolds, CallReturn, RunnerRelease
  <2>2. /\ refcount' = refcount - 1 /\ refcount' \in Nat
        /\ freed' \in BOOLEAN /\ (freed' <=> refcount' = 0)
        /\ parent_sub' \in {"none", "live", "deleted"} /\ (parent_sub' = "deleted" => freed')
    BY <2>1, ReleaseFacts DEF IInv
  <2>3. refcount' = k' + RunnerHolds'
    BY <1>3, <1>5, <1>9, <2>2 DEF RunnerHolds, CallReturn, RunnerRelease
  <2>4. state' = state /\ runner' \in {"running", "done"}
    BY <1>9 DEF CallReturn, RunnerRelease
  <2> QED
    BY <1>6, <2>2, <2>3, <2>4 DEF TypeOK
<1> QED
  BY <1>7, <1>8, <1>9 DEF Runner

\* task_hold, and the hold that the parent's callback takes, by one who may.
LEMMA HoldStep ==
    ASSUME IInv, NEW h \in Holders, holds[h] < MaxHolds, ~freed, AddHold,
           holds' = [holds EXCEPT ![h] = @ + 1], UNCHANGED <<state, parent_sub, freed, runner>>
    PROVE  IInv'
<1>1. IsFiniteSet(Held') /\ Cardinality(Held') = Cardinality(Held) + 1
  BY HeldGrows DEF IInv
<1>2. Cardinality(Held) \in Nat /\ holds' \in [Holders -> 0 .. MaxHolds]
  BY FS_CardinalityType, TaskAssumption DEF IInv, TypeOK
<1> QED
  BY <1>1, <1>2 DEF IInv, TypeOK, FreedAtLast, RunnerHolds, AddHold

\* task_release by a holder.
LEMMA HolderReleaseStep ==
    ASSUME IInv, NEW h \in Holders, HolderRelease(h)
    PROVE  IInv'
<1>1. Cardinality(Held) \in Nat \ {0} /\ refcount # 0 /\ ~freed
  BY HolderCounted DEF HolderRelease
<1>2. IsFiniteSet(Held') /\ Cardinality(Held') = Cardinality(Held) - 1
  BY HeldShrinks DEF IInv, HolderRelease
<1>3. holds' \in [Holders -> 0 .. MaxHolds]
  BY TaskAssumption DEF IInv, TypeOK, HolderRelease
<1>4. /\ refcount' = refcount - 1 /\ refcount' \in Nat
      /\ freed' \in BOOLEAN /\ (freed' <=> refcount' = 0)
      /\ parent_sub' \in {"none", "live", "deleted"} /\ (parent_sub' = "deleted" => freed')
  BY <1>1, ReleaseFacts DEF IInv, HolderRelease
<1>5. TypeOK'
  BY <1>3, <1>4 DEF IInv, TypeOK, HolderRelease
<1>6. refcount' = Cardinality(Held') + RunnerHolds'
  BY <1>1, <1>2, <1>4 DEF IInv, FreedAtLast, RunnerHolds, HolderRelease
<1> QED
  BY <1>2, <1>4, <1>5, <1>6 DEF IInv, FreedAtLast

\* Every step of the task preserves IInv.
THEOREM StepHolds == IInv /\ [Next]_vars => IInv'
<1> SUFFICES ASSUME IInv, [Next]_vars PROVE IInv'
  OBVIOUS
<1>1. CASE Runner
  BY <1>1, RunnerStep
<1>2. ASSUME NEW h \in Holders, HolderRelease(h) PROVE IInv'
  BY <1>2, HolderReleaseStep
<1>3. ASSUME NEW h \in Holders, ParentHolds(h) PROVE IInv'
  <2>1. ~freed
    BY <1>3, FS_CardinalityType DEF ParentHolds, IInv, FreedAtLast, RunnerHolds
  <2> QED
    BY <1>3, <2>1, HoldStep DEF ParentHolds
<1>4. ASSUME NEW h \in Holders, Abort(h) PROVE IInv'
  BY <1>4 DEF Abort, IInv, TypeOK, FreedAtLast, RunnerHolds, Held
<1>5. ASSUME NEW h \in Holders, NEW g \in Holders, Hold(h, g) PROVE IInv'
  BY <1>5, HolderCounted, HoldStep DEF Hold
<1>6. CASE UNCHANGED vars
  BY <1>6 DEF vars, IInv, TypeOK, FreedAtLast, RunnerHolds, Held
<1> QED
  BY <1>1, <1>2, <1>3, <1>4, <1>5, <1>6 DEF Next

\* IInv holds in every state of every behaviour of the task.
THEOREM Invariance == Spec => []IInv
  BY InitHolds, StepHolds, PTL DEF Spec

\* task.c frees the object in the release of its last reference, the parent's
\* subscription with it, for every set of holders.
THEOREM LastReleaseFrees == Spec => []FreedAtLast
<1>1. IInv => FreedAtLast
  BY DEF IInv
<1> QED
  BY <1>1, Invariance, PTL

\* Nobody holds, releases, aborts or runs a task that was freed: no step of
\* task.c follows the one that returns the object to the heap.
THEOREM NoneUsesFreed == Spec => [][~freed]_vars
<1>1. ASSUME IInv, Next PROVE ~freed
  <2>1. Cardinality(Held) \in Nat
    BY <1>1, FS_CardinalityType DEF IInv
  <2>2. CASE runner # "done"
    BY <1>1, <2>1, <2>2 DEF IInv, TypeOK, FreedAtLast, RunnerHolds
  <2>3. CASE runner = "done"
    <3>1. PICK h \in Holders : holds[h] > 0
      BY <1>1, <2>3 DEF Next, Runner, RunnerStart, RunnerSeesAbort, RunnerFinish, CallParent,
         CallReturn, RunnerRelease, HolderRelease, ParentHolds, Abort, Hold
    <3> QED
      BY <1>1, <3>1, HolderCounted
  <2> QED
    BY <2>2, <2>3
<1>2. IInv /\ [Next]_vars => [~freed]_vars
  BY <1>1
<1> QED
  BY <1>2, Invariance, PTL DEF Spec
=============================================================================
