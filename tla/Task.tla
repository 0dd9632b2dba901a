-------------------------------- MODULE Task --------------------------------
(***************************************************************************)
(* A discardable task object, src/util/task.c: a thread that runs one       *)
(* procedure, the references its creator and others hold on the object, and *)
(* the request to abort.  A step is one hold of khm_task::cs.               *)
(***************************************************************************)
EXTENDS Naturals, FiniteSets

CONSTANTS Holders,     \* threads other than the task's that hold references
          Creator,     \* the one that called task_create
          HasParent,   \* whether parent_sub was given
          MaxHolds     \* bound: references of one holder

ASSUME TaskAssumption ==
    /\ Creator \in Holders
    /\ HasParent \in BOOLEAN
    /\ MaxHolds \in Nat \ {0}

VARIABLES state,       \* khm_task::state
          refcount,
          parent_sub,  \* "none", "live" or "deleted"
          freed,       \* the object was returned to the heap
          runner,      \* where task_runner is
          holds        \* the references each holder has

vars == <<state, refcount, parent_sub, freed, runner, holds>>

\* task_create: one hold for the caller and one for task_runner.
Init ==
    /\ state = "PREP"
    /\ refcount = 2
    /\ parent_sub = IF HasParent THEN "live" ELSE "none"
    /\ freed = FALSE
    /\ runner = "starting"
    /\ holds = [h \in Holders |-> IF h = Creator THEN 1 ELSE 0]

-----------------------------------------------------------------------------
\* task_release and free_task.  (Mutant: the object goes one release too early.)
ReleaseEarly ==
    /\ refcount' = refcount - 1
    /\ freed' = (refcount <= 2)
    /\ parent_sub' = IF refcount <= 2 /\ parent_sub = "live" THEN "deleted" ELSE parent_sub

Release ==
    /\ refcount' = refcount - 1
    /\ freed' = (refcount = 1)
    /\ parent_sub' = IF refcount = 1 /\ parent_sub = "live" THEN "deleted" ELSE parent_sub

\* (Mutant: the reference is not counted.)
AddHoldNot == UNCHANGED refcount
AddHold == refcount' = refcount + 1

-----------------------------------------------------------------------------
(* The task's own thread *)

RunnerStart ==
    /\ runner = "starting"
    /\ runner' = "running"
    /\ state' = "RUNNING"
    /\ UNCHANGED <<refcount, parent_sub, freed, holds>>

\* task_is_aborted.  (Mutant: the wrong state is looked for.)
IsAbortedWrong == state = "EXITED"
IsAborted == state = "ABORTED"

\* The procedure returns: when it sees that it was aborted, or of itself.
RunnerSeesAbort ==
    /\ runner = "running" /\ IsAborted
    /\ runner' = "exiting"
    /\ state' = "EXITED"
    /\ UNCHANGED <<refcount, parent_sub, freed, holds>>

RunnerFinish ==
    /\ runner = "running"
    /\ runner' = "exiting"
    /\ state' = "EXITED"
    /\ UNCHANGED <<refcount, parent_sub, freed, holds>>

\* task_call_parent holds the task while kmq_send_sub_msg lasts; with no
\* parent_sub nothing is sent.
CallParent ==
    /\ runner = "running"
    /\ AddHold
    /\ runner' = "calling"
    /\ UNCHANGED <<state, parent_sub, freed, holds>>

CallReturn ==
    /\ runner = "calling"
    /\ Release
    /\ runner' = "running"
    /\ UNCHANGED <<state, holds>>

RunnerRelease ==
    /\ runner = "exiting"
    /\ Release
    /\ runner' = "done"
    /\ UNCHANGED <<state, holds>>

-----------------------------------------------------------------------------
(* The holders *)

\* task_hold, by one who has a reference, for itself or for another.
Hold(h, g) ==
    /\ holds[h] > 0 /\ holds[g] < MaxHolds
    /\ AddHold
    /\ holds' = [holds EXCEPT ![g] = @ + 1]
    /\ UNCHANGED <<state, parent_sub, freed, runner>>

HolderRelease(h) ==
    /\ holds[h] > 0
    /\ Release
    /\ holds' = [holds EXCEPT ![h] = @ - 1]
    /\ UNCHANGED <<state, runner>>

\* The parent's callback may hold the task that calls it, which it is passed.
ParentHolds(h) ==
    /\ runner = "calling" /\ parent_sub = "live"
    /\ holds[h] < MaxHolds
    /\ AddHold
    /\ holds' = [holds EXCEPT ![h] = @ + 1]
    /\ UNCHANGED <<state, parent_sub, freed, runner>>

\* task_abort, in whatever state the task is.
Abort(h) ==
    /\ holds[h] > 0
    /\ state' = "ABORTED"
    /\ UNCHANGED <<refcount, parent_sub, freed, runner, holds>>

-----------------------------------------------------------------------------
Runner == RunnerStart \/ RunnerSeesAbort \/ RunnerFinish \/ CallParent \/ CallReturn \/ RunnerRelease

Next == \/ Runner
        \/ \E h \in Holders : HolderRelease(h) \/ ParentHolds(h) \/ Abort(h)
        \/ \E h, g \in Holders : Hold(h, g)

Spec == Init /\ [][Next]_vars

\* The task's thread runs, the parent's callback returns, and the procedure asks
\* task_is_aborted again and again, also between two calls of its parent.
Fairness == /\ WF_vars(RunnerStart) /\ WF_vars(CallReturn) /\ WF_vars(RunnerRelease)
            /\ SF_vars(RunnerSeesAbort)

FairSpec == Spec /\ Fairness

-----------------------------------------------------------------------------
(* Properties *)

\* Every variable keeps its type; the reference count does not go below zero.
TypeOK ==
    /\ state \in {"PREP", "RUNNING", "ABORTED", "EXITED"}
    /\ refcount \in Nat
    /\ parent_sub \in {"none", "live", "deleted"}
    /\ freed \in BOOLEAN
    /\ runner \in {"starting", "running", "calling", "exiting", "done"}
    /\ holds \in [Holders -> 0 .. MaxHolds]

RunnerHolds == CASE runner = "done" -> 0 [] runner = "calling" -> 2 [] OTHER -> 1

\* The references of the holders, one by one.
Held == {p \in Holders \X (1 .. MaxHolds) : p[2] <= holds[p[1]]}

\* The count is that of the references held, by the task's thread and by the
\* holders: the object is freed with the last of them, neither before nor after,
\* and the parent's subscription goes with it and not while the task may call.
FreedAtLast ==
    /\ refcount = Cardinality(Held) + RunnerHolds
    /\ freed <=> refcount = 0
    /\ parent_sub = "deleted" => freed

\* task.c:213: free_task asserts that the task has exited.
FreedExited == freed => state = "EXITED"

\* A running task that is aborted ends, and lets its reference go.
AbortStops == state = "ABORTED" /\ runner = "running" ~> runner = "done"

\* The inductive invariant behind FreedAtLast: Holders may be infinite, but only
\* finitely many references are out at any time.
IInv == TypeOK /\ IsFiniteSet(Held) /\ FreedAtLast
=============================================================================
