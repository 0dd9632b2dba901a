------------------------------- MODULE RwLock -------------------------------
(***************************************************************************)
(* The read/write lock of src/util/sync.c, which guards the credentials of  *)
(* kcreddb.  A step is one hold of the lock's critical section, or one      *)
(* return of WaitForSingleObject: other threads act between the two.        *)
(***************************************************************************)
EXTENDS Naturals, FiniteSets

CONSTANTS Threads,
          NoThread,
          MaxNest      \* bound: read locks, or write locks, of one thread

ASSUME LockAssumption == NoThread \notin Threads /\ MaxNest \in Nat

VARIABLES locks, status, writer,
          readwx,      \* manual-reset event
          writewx,     \* auto-reset event
          pc,          \* where a thread is in LockObtain*
          reading      \* read locks obtained and not released: <<thread, n>>

vars == <<locks, status, writer, readwx, writewx, pc, reading>>

LOCK_OPEN == 0
LOCK_READING == 1
LOCK_WRITING == 2

Init ==
    /\ locks = 0
    /\ status = LOCK_OPEN
    /\ writer = NoThread
    /\ readwx = "set"
    /\ writewx = "set"
    /\ pc = [t \in Threads |-> "idle"]
    /\ reading = {}

HoldsRead(t) == \E n \in 1 .. MaxNest : <<t, n>> \in reading
HoldsWrite(t) == status = LOCK_WRITING /\ writer = t

Goto(t, from, to) == pc[t] = from /\ pc' = [pc EXCEPT ![t] = to]

-----------------------------------------------------------------------------
(* LockObtainRead.  No caller asks for a read lock while it holds the write *)
(* lock, nor the other way round: such a thread would wait for itself.      *)

ReadStart(t) ==
    /\ ~HoldsWrite(t)
    /\ \E n \in 1 .. MaxNest : <<t, n>> \notin reading
    /\ Goto(t, "idle", "read wait")
    /\ UNCHANGED <<locks, status, writer, readwx, writewx, reading>>

ReadWoken(t) ==
    /\ readwx = "set"
    /\ Goto(t, "read wait", "read woken")
    /\ UNCHANGED <<locks, status, writer, readwx, writewx, reading>>

\* A writer was faster.
ReadAgain(t) ==
    /\ status = LOCK_WRITING
    /\ Goto(t, "read woken", "read wait")
    /\ UNCHANGED <<locks, status, writer, readwx, writewx, reading>>

\* (Mutant: the status is not looked at again.)
ReadObtainUnchecked(t) ==
    /\ Goto(t, "read woken", "idle")
    /\ \E n \in 1 .. MaxNest : <<t, n>> \notin reading /\ reading' = reading \cup {<<t, n>>}
    /\ locks' = locks + 1
    /\ status' = LOCK_READING
    /\ writewx' = "clear"
    /\ UNCHANGED <<writer, readwx>>

ReadObtain(t) ==
    /\ status # LOCK_WRITING
    /\ Goto(t, "read woken", "idle")
    /\ \E n \in 1 .. MaxNest : <<t, n>> \notin reading /\ reading' = reading \cup {<<t, n>>}
    /\ locks' = locks + 1
    /\ status' = LOCK_READING
    /\ writewx' = "clear"
    /\ UNCHANGED <<writer, readwx>>

\* The last lock to go opens the lock and sets both events.
\* (Mutant: only the readers are woken.)
OpenReadersOnly == status' = LOCK_OPEN /\ readwx' = "set" /\ UNCHANGED writewx
Open == status' = LOCK_OPEN /\ readwx' = "set" /\ writewx' = "set"

ReleaseRead(t) ==
    /\ pc[t] = "idle"
    /\ \E n \in 1 .. MaxNest : <<t, n>> \in reading /\ reading' = reading \ {<<t, n>>}
    /\ locks' = locks - 1
    /\ IF locks = 1 THEN Open ELSE UNCHANGED <<status, readwx, writewx>>
    /\ UNCHANGED <<writer, pc>>

-----------------------------------------------------------------------------
(* LockObtainWrite *)

\* The write lock is entered again by the thread that has it.
WriteAgain(t) ==
    /\ pc[t] = "idle"
    /\ HoldsWrite(t)
    /\ locks < MaxNest
    /\ locks' = locks + 1
    /\ UNCHANGED <<status, writer, readwx, writewx, pc, reading>>

\* (Mutant: the lock is not counted.)
TakeUncounted(t) ==
    /\ status = LOCK_OPEN
    /\ status' = LOCK_WRITING
    /\ writer' = t
    /\ readwx' = "clear"
    /\ writewx' = "clear"
    /\ UNCHANGED <<locks, reading>>

Take(t) ==
    /\ status = LOCK_OPEN
    /\ status' = LOCK_WRITING
    /\ locks' = locks + 1
    /\ writer' = t
    /\ readwx' = "clear"
    /\ writewx' = "clear"
    /\ UNCHANGED reading

WriteObtain(t) ==
    /\ ~HoldsRead(t)
    /\ MaxNest > 0
    /\ Goto(t, "idle", "idle") \/ Goto(t, "write woken", "idle")
    /\ Take(t)

WriteBlocked(t) ==
    /\ ~HoldsRead(t) /\ ~HoldsWrite(t)
    /\ status # LOCK_OPEN
    /\ Goto(t, "idle", "write wait") \/ Goto(t, "write woken", "write wait")
    /\ UNCHANGED <<locks, status, writer, readwx, writewx, reading>>

\* The event lets one waiting writer through.
WriteWoken(t) ==
    /\ writewx = "set"
    /\ writewx' = "clear"
    /\ Goto(t, "write wait", "write woken")
    /\ UNCHANGED <<locks, status, writer, readwx, reading>>

ReleaseWrite(t) ==
    /\ pc[t] = "idle"
    /\ HoldsWrite(t)
    /\ locks' = locks - 1
    /\ IF locks = 1 THEN Open /\ writer' = NoThread
       ELSE UNCHANGED <<status, writer, readwx, writewx>>
    /\ UNCHANGED <<pc, reading>>

-----------------------------------------------------------------------------
Obtain(t) == ReadWoken(t) \/ ReadAgain(t) \/ ReadObtain(t)
             \/ WriteObtain(t) \/ WriteBlocked(t) \/ WriteWoken(t)
Release(t) == ReleaseRead(t) \/ ReleaseWrite(t)

Next == \E t \in Threads : ReadStart(t) \/ WriteAgain(t) \/ Obtain(t) \/ Release(t)

Spec == Init /\ [][Next]_vars

\* A thread inside LockObtain* goes on whenever it can.  Nobody is bound to ask
\* for a lock, nor to release one.
Fairness == \A t \in Threads : WF_vars(pc[t] # "idle" /\ Obtain(t))

FairSpec == Spec /\ Fairness

-----------------------------------------------------------------------------
(* Properties *)

Pcs == {"idle", "read wait", "read woken", "write wait", "write woken"}

\* Every variable keeps its type; locks does not go below zero.
TypeOK ==
    /\ locks \in Nat
    /\ status \in {LOCK_OPEN, LOCK_READING, LOCK_WRITING}
    /\ writer \in Threads \cup {NoThread}
    /\ readwx \in {"clear", "set"}
    /\ writewx \in {"clear", "set"}
    /\ pc \in [Threads -> Pcs]
    /\ reading \subseteq Threads \X (1 .. MaxNest)

\* util/sync.h: many readers or one writer.  While a thread writes, nobody reads
\* and no other thread is the writer; the asserts of LockReleaseRead and
\* LockReleaseWrite (sync.c:86 and 123) hold whenever they are reached.
Exclusion ==
    /\ reading # {} <=> status = LOCK_READING
    /\ writer # NoThread <=> status = LOCK_WRITING

\* locks counts the read locks that were not released, so that the last release
\* and no other opens the lock.
LocksExact ==
    /\ IsFiniteSet(reading)
    /\ status # LOCK_WRITING => locks = Cardinality(reading)
    /\ status = LOCK_WRITING => locks > 0

\* No wakeup is lost: when the lock is open a waiting writer can go on, because
\* the auto-reset event is set or the writer that took it is on its way in; and
\* readers can go on unless somebody writes.  A thread that reads can therefore
\* read again though writers wait.
NoLostWakeup ==
    /\ status = LOCK_OPEN => writewx = "set" \/ \E t \in Threads : pc[t] = "write woken"
    /\ readwx = "set" <=> status # LOCK_WRITING

\* The inductive invariant.
IInv == TypeOK /\ Exclusion /\ LocksExact /\ NoLostWakeup

\* Nobody is left waiting at a lock that would let him in: a waiting reader gets
\* it unless somebody writes, and an open lock at which a writer waits is taken.
WaitersServed ==
    /\ \A t \in Threads : pc[t] = "read wait" ~> pc[t] = "idle" \/ status = LOCK_WRITING
    /\ status = LOCK_OPEN /\ (\E t \in Threads : pc[t] = "write wait") ~> status # LOCK_OPEN
=============================================================================
