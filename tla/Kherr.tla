------------------------------- MODULE Kherr -------------------------------
(***************************************************************************)
(* Error contexts (src/kherr/kherr.c): a tree of reference-counted contexts *)
(* with the events reported in them.  Every thread has a stack of contexts; *)
(* a message carries the context its poster was in to other threads.  The   *)
(* context nobody refers to any more is ended, folded into one event of its *)
(* parent, and given to a free list.                                        *)
(*                                                                          *)
(* One critical section, cs_error, guards it all, but it is left around     *)
(* every call of the handlers (notify_ctx_event): a call goes on in what    *)
(* the other threads have made of the tree meanwhile.  A step is what a     *)
(* thread does from one entry of cs_error to the next leave.                *)
(***************************************************************************)
EXTENDS Integers, Sequences, SequencesExt, FiniteSets

CONSTANTS Threads,
          Ctxs,        \* kherr_context objects (bound: alive at once)
          May,         \* what each thread calls
          MaxStack,    \* bound: depth of each thread's stack
          Severities,  \* of the events that are reported
          MaxEvents,   \* bound: no event is reported, no child made, beyond it
          MaxMessages, \* bound: contexts that messages hold
          Deviations,  \* which of the code's races the instance has (README)
          NoCtx

ASSUME KherrAssumption ==
    /\ May \in [Threads -> SUBSET {"new", "post", "handle", "free", "report", "describe", "delete", "walk"}]
    /\ MaxStack \in [Threads -> Nat] /\ MaxEvents \in Nat /\ MaxMessages \in Nat
    /\ NoCtx \notin Ctxs
    /\ Severities \subseteq {1, 2}
    /\ Deviations \subseteq {"commit", "walk"}

VARIABLES ctx,     \* the contexts; a free one is in ctx_free_list
          stack,   \* kherr_thread::ctx
          message, \* the contexts that a message holds
          cursor,  \* the context a thread has from kherr_get_first_context
          op       \* the call a thread is in, and the handlers it calls

vars == <<ctx, stack, message, cursor, op>>

\* Severities: the smaller the worse.
Error == 1
Info == 2
None == 3                                    \* KHERR_NONE

\* err and desc are the ids of err_event and desc_event, 0 for none.
Fresh == [live |-> TRUE, refcount |-> 0, parent |-> NoCtx, events |-> <<>>,
          severity |-> None, err |-> 0, desc |-> 0, ended |-> 0]
Free == [Fresh EXCEPT !.live = FALSE]

\* An event; id tells those of a context apart, notified counts what handlers
\* were told of it.
Event(id, severity, t) ==
    [id |-> id, severity |-> severity, by |-> t, commit |-> FALSE, notified |-> 0]

Idle == [pc |-> "idle", c |-> NoCtx, id |-> 0, after |-> "none", new |-> None, done |-> <<>>]

Init ==
    /\ ctx = [c \in Ctxs |-> Free]
    /\ stack = [t \in Threads |-> <<>>]
    /\ message = {}
    /\ cursor = [t \in Threads |-> NoCtx]
    /\ op = [t \in Threads |-> Idle]

Top(t) == IF stack[t] = <<>> THEN NoCtx ELSE Last(stack[t])            \* peek_context
Children(c) == {d \in Ctxs : ctx[d].live /\ ctx[d].parent = c}
Bottom(c) == Last(ctx[c].events)
Uncommitted(c) == ctx[c].events # <<>> /\ ~Bottom(c).commit
Position(c, id) == {i \in DOMAIN ctx[c].events : ctx[c].events[i].id = id}
NewId(c) == CHOOSE n \in 1..(Len(ctx[c].events) + 2) : Position(c, n) = {} /\ n # ctx[c].desc

Calls(t, what) == op[t].pc = "idle" /\ what \in May[t]

Full(c) == Len(ctx[c].events) + (IF ctx[c].desc = 0 THEN 0 ELSE 1) >= MaxEvents

\* The handlers that t calls have returned.
Resumes(t, pc) == op[t].pc = pc
Goto(t, rec) == op' = [op EXCEPT ![t] = rec]

\* Nobody else tells the handlers of an event of c.  Deviation "commit": a
\* thread uses a context while another is doing that.
Alone(t, c) ==
    \/ "commit" \in Deviations
    \/ \A u \in Threads \ {t} : op[u].pc \in {"commit", "error"} => op[u].c # c

-----------------------------------------------------------------------------
(* What is done inside cs_error: k is the state of the contexts so far, rec   *)
(* the rest of the call.                                                     *)

\* free_context, of all that the call has ended.
Finish(t, k, rec) ==
    /\ ctx' = [c \in Ctxs |-> IF c \in Range(rec.done) THEN Free ELSE k[c]]
    /\ Goto(t, Idle)

\* commit_event of the last event of c, up to the handlers.
Commit(t, k, c, rec) ==
    /\ ctx' = [k EXCEPT ![c].events[Len(k[c].events)].notified = @ + 1]
    /\ Goto(t, [rec EXCEPT !.pc = "commit", !.c = c, !.id = Last(k[c].events).id])

\* add_event ends: in kherr_report, or in release_context, which tells the
\* handlers of the parent of the fold.
Put(t, k, c, rec) ==
    LET put == [k EXCEPT ![c].events = Append(@, Event(NewId(c), rec.new, t))] IN
    IF rec.done = <<>> THEN Finish(t, put, rec)
    ELSE ctx' = put /\ Goto(t, [rec EXCEPT !.pc = "folded", !.c = c])

\* add_event: the last one, no longer the last, is committed.
AddEvent(t, k, c, rec) ==
    IF Uncommitted(c) THEN Commit(t, k, c, [rec EXCEPT !.after = "put"])
    ELSE Put(t, k, c, rec)

\* release_context tests the count.
Count(t, k, c, rec) ==
    IF k[c].refcount # 0 THEN Finish(t, k, rec)
    ELSE /\ ctx' = [k EXCEPT ![c].ended = @ + 1]
         /\ Goto(t, [rec EXCEPT !.pc = "end", !.c = c])

\* (Mutant: release_context leaves the last event open.)
CommitsAtReleaseNot(c) == FALSE
CommitsAtRelease(c) == Uncommitted(c)

\* (Mutant: a child gives its parent back twice.)
LessTwice(c, rec) == IF rec.done = <<>> THEN ctx[c].refcount - 1 ELSE ctx[c].refcount - 2
Less(c, rec) == ctx[c].refcount - 1

\* release_context
Release(t, k, c, rec) ==
    LET less == [k EXCEPT ![c].refcount = Less(c, rec)] IN
    IF CommitsAtRelease(c) THEN Commit(t, less, c, [rec EXCEPT !.after = "count"])
    ELSE Count(t, less, c, rec)

-----------------------------------------------------------------------------
(* What a thread calls *)

\* kherr_push_new_context, up to the notification of its beginning.
\* (Mutant: a child does not hold its parent.)
ParentUnheld(p) == ctx[p].refcount
ParentHeld(p) == ctx[p].refcount + 1

PushNew(t) ==
    LET p == Top(t) IN
    /\ Calls(t, "new") /\ Len(stack[t]) < MaxStack[t]
    /\ p # NoCtx => Alone(t, p) /\ ~Full(p)
    /\ \E c \in Ctxs :
         /\ ~ctx[c].live
         /\ ctx' = [d \in Ctxs |->
                      CASE d = c -> [Fresh EXCEPT !.refcount = 1, !.parent = p]
                        [] d = p -> [ctx[p] EXCEPT !.refcount = ParentHeld(p)]
                        [] OTHER -> ctx[d]]
         /\ stack' = [stack EXCEPT ![t] = Append(@, c)]
         /\ Goto(t, [Idle EXCEPT !.pc = "begin", !.c = c])
    /\ UNCHANGED <<message, cursor>>

\* The handlers have been told of the new context, and of the new child.
Begun(t) ==
    /\ Resumes(t, "begin")
    /\ Goto(t, Idle)
    /\ UNCHANGED <<ctx, stack, message, cursor>>

\* A message that is posted holds the context of the thread.
Attach(t) ==
    LET c == Top(t) IN
    /\ Calls(t, "post") /\ c # NoCtx /\ c \notin message /\ Cardinality(message) < MaxMessages /\ Alone(t, c)
    /\ ctx' = [ctx EXCEPT ![c].refcount = @ + 1]
    /\ message' = message \cup {c}
    /\ UNCHANGED <<stack, cursor, op>>

\* The thread that handles a message works in its context (kherr_push_context).
Push(t) ==
    /\ Calls(t, "handle") /\ Len(stack[t]) < MaxStack[t]
    /\ \E c \in message :
         /\ Alone(t, c)
         /\ ctx' = [ctx EXCEPT ![c].refcount = @ + 1]
         /\ stack' = [stack EXCEPT ![t] = Append(@, c)]
    /\ UNCHANGED <<message, cursor, op>>

\* kherr_pop_context
Pop(t) ==
    LET c == Top(t) IN
    /\ op[t].pc = "idle" /\ c # NoCtx /\ Alone(t, c)
    /\ stack' = [stack EXCEPT ![t] = Front(@)]
    /\ Release(t, ctx, c, Idle)
    /\ UNCHANGED <<message, cursor>>

\* kherr_release_context, when the message is freed.
Detach(t) ==
    /\ Calls(t, "free")
    /\ \E c \in message :
         /\ Alone(t, c)
         /\ message' = message \ {c}
         /\ Release(t, ctx, c, Idle)
    /\ UNCHANGED <<stack, cursor>>

\* kherr_report
Report(t) ==
    LET c == Top(t) IN
    /\ Calls(t, "report") /\ c # NoCtx /\ Alone(t, c) /\ ~Full(c)
    /\ \E severity \in Severities : AddEvent(t, ctx, c, [Idle EXCEPT !.new = severity])
    /\ UNCHANGED <<stack, message, cursor>>

\* The last event of the context that the thread itself has reported.
OwnLast(t, c) == {i \in DOMAIN ctx[c].events :
                    /\ ctx[c].events[i].by = t
                    /\ \A j \in DOMAIN ctx[c].events : ctx[c].events[j].by = t => j <= i}

\* kherr_set_desc_event: it becomes the description of the context.
Describe(t) ==
    LET c == Top(t) IN
    /\ Calls(t, "describe") /\ c # NoCtx /\ Alone(t, c) /\ ctx[c].desc = 0
    /\ \E i \in OwnLast(t, c) :
         ctx' = [ctx EXCEPT ![c].events = RemoveAt(@, i), ![c].desc = ctx[c].events[i].id]
    /\ Goto(t, [Idle EXCEPT !.pc = "begin", !.c = c])
    /\ UNCHANGED <<stack, message, cursor>>

\* pick_err_event: the worst of the events, the last one of that severity.
Worst(events) == FoldSeq(LAMBDA e, s : IF e.severity < s THEN e.severity ELSE s, None, events)
Picked(events) == LET worst == {i \in DOMAIN events : events[i].severity = Worst(events)} IN
                  IF worst = {} THEN 0 ELSE events[CHOOSE i \in worst : \A j \in worst : j <= i].id

\* kherr_del_last_event
DeleteLast(t) ==
    LET c == Top(t) IN
    /\ Calls(t, "delete") /\ c # NoCtx /\ Alone(t, c)
    /\ \E i \in OwnLast(t, c) :
         LET left == RemoveAt(ctx[c].events, i) IN
         ctx' = IF ctx[c].err # ctx[c].events[i].id THEN [ctx EXCEPT ![c].events = left]
                ELSE [ctx EXCEPT ![c].events = left, ![c].err = Picked(left), ![c].severity = Worst(left)]
    /\ UNCHANGED <<stack, message, cursor, op>>

\* kherr_get_first_context and kherr_get_next_context: the user interface walks
\* over the children of a context.  Deviation "walk": it comes upon one that is
\* ending.
Visits(d) == ctx[d].refcount > 0 \/ "walk" \in Deviations

First(t) ==
    /\ Calls(t, "walk") /\ cursor[t] = NoCtx
    /\ \E c \in message : \E d \in Children(c) :
         /\ Visits(d)
         /\ ctx' = [ctx EXCEPT ![d].refcount = @ + 1]
         /\ cursor' = [cursor EXCEPT ![t] = d]
    /\ UNCHANGED <<stack, message, op>>

\* The next one is held, and then the hold on this one given back.
NextContext(t) ==
    LET c == cursor[t]
        siblings == {d \in Children(ctx[c].parent) \ {c} : Visits(d)}
    IN
    /\ Calls(t, "walk") /\ c # NoCtx
    /\ \/ \E d \in siblings :
            /\ ctx' = [ctx EXCEPT ![d].refcount = @ + 1]
            /\ cursor' = [cursor EXCEPT ![t] = d]
       \/ cursor' = [cursor EXCEPT ![t] = NoCtx] /\ ctx' = ctx
    /\ Goto(t, [Idle EXCEPT !.pc = "left", !.c = c])
    /\ UNCHANGED <<stack, message>>

Left(t) ==
    /\ Resumes(t, "left") /\ Alone(t, op[t].c)
    /\ Release(t, ctx, op[t].c, Idle)
    /\ UNCHANGED <<stack, message, cursor>>

-----------------------------------------------------------------------------
(* How the calls go on *)

After(t, k) == IF op[t].after = "put" THEN Put(t, k, op[t].c, op[t])
                                      ELSE Count(t, k, op[t].c, op[t])

\* (Mutant: KHERR_RF_COMMIT is not set.)
MarkedNot(c, i) == ctx
Marked(c, i) == [ctx EXCEPT ![c].events[i].commit = TRUE]

\* commit_event, after the handlers were told.
Committed(t) ==
    LET c == op[t].c
        at == Position(c, op[t].id)
        i == CHOOSE i \in at : TRUE
        e == ctx[c].events[i]
        worse == IF ctx[c].severity >= e.severity
                 THEN [Marked(c, i) EXCEPT ![c].severity = e.severity, ![c].err = e.id]
                 ELSE Marked(c, i)
    IN
    /\ Resumes(t, "commit")
    /\ IF at = {} THEN After(t, ctx)             \* deleted meanwhile
       ELSE IF e.severity = Error THEN ctx' = worse /\ Goto(t, [op[t] EXCEPT !.pc = "error"])
       ELSE After(t, worse)
    /\ UNCHANGED <<stack, message, cursor>>

ErrorTold(t) ==
    /\ Resumes(t, "error")
    /\ After(t, ctx)
    /\ UNCHANGED <<stack, message, cursor>>

\* fold_context: the context's worst event, or its description.
Folds(c) == ctx[c].err # 0 \/ ctx[c].events # <<>> \/ ctx[c].desc # 0
FoldSeverity(c) ==
    LET err == IF ctx[c].err # 0 THEN ctx[c].err ELSE Picked(ctx[c].events)
        at == Position(c, err)
    IN IF at = {} THEN None ELSE ctx[c].events[CHOOSE i \in at : TRUE].severity

\* The handlers were told of the end.  A child is folded and leaves the tree.
Ended(t) ==
    LET c == op[t].c
        p == ctx[c].parent
        unlinked == [ctx EXCEPT ![c].parent = NoCtx]
        rec == [op[t] EXCEPT !.done = Append(@, c), !.new = FoldSeverity(c)]
    IN
    /\ Resumes(t, "end")
    /\ IF p = NoCtx THEN Finish(t, unlinked, rec)
       ELSE /\ Alone(t, p)
            /\ IF Folds(c) THEN AddEvent(t, unlinked, p, rec) ELSE Release(t, unlinked, p, rec)
    /\ UNCHANGED <<stack, message, cursor>>

\* The handlers were told of the fold; the child's reference is given back.
FoldTold(t) ==
    /\ Resumes(t, "folded") /\ Alone(t, op[t].c)
    /\ Release(t, ctx, op[t].c, op[t])
    /\ UNCHANGED <<stack, message, cursor>>

-----------------------------------------------------------------------------
Next == \E t \in Threads :
    \/ PushNew(t) \/ Begun(t) \/ Attach(t) \/ Push(t) \/ Pop(t) \/ Detach(t)
    \/ Report(t) \/ Describe(t) \/ DeleteLast(t)
    \/ First(t) \/ NextContext(t) \/ Left(t)
    \/ Committed(t) \/ ErrorTold(t) \/ Ended(t) \/ FoldTold(t)

Spec == Init /\ [][Next]_vars

-----------------------------------------------------------------------------
(* Properties *)

TypeOK ==
    /\ \A c \in Ctxs :
         /\ ctx[c].live \in BOOLEAN /\ ctx[c].refcount \in Nat
         /\ ctx[c].parent \in Ctxs \cup {NoCtx}
         /\ ctx[c].severity \in {Error, Info, None}
    /\ message \subseteq Ctxs
    /\ cursor \in [Threads -> Ctxs \cup {NoCtx}]

\* Who refers to a context: stacks, messages, walks, and children; one that has
\* left the tree until its reference is given back.
Stacked(c) == UNION {{<<"stack", t, i>> : i \in {j \in DOMAIN stack[t] : stack[t][j] = c}} : t \in Threads}
Posted(c) == {<<"message", m, 0>> : m \in {c} \cap message}
Walked(c) == {<<"cursor", t, 0>> : t \in {u \in Threads : cursor[u] = c}}
LeftAt(c) == {<<"left", t, 0>> : t \in {u \in Threads : op[u].pc = "left" /\ op[u].c = c}}
Childs(c) == {<<"child", d, 0>> : d \in Children(c)}
FoldHeld(t) ==
    /\ op[t].done # <<>>
    /\ \/ op[t].pc = "folded"
       \/ op[t].pc \in {"commit", "error"} /\ op[t].after = "put"
Folded(c) == {<<"fold", t, 0>> : t \in {u \in Threads : op[u].c = c /\ FoldHeld(u)}}
Uses(c) == Stacked(c) \cup Posted(c) \cup Walked(c) \cup LeftAt(c) \cup Childs(c) \cup Folded(c)
Users(c) == Cardinality(Uses(c))

\* kherr_context::refcount says how often the context is referred to, and a free
\* one is referred to by nobody: no stack, message, walk or child leads to it.
RefcountExact ==
    \A c \in Ctxs : IF ctx[c].live THEN ctx[c].refcount = Users(c) ELSE Users(c) = 0

\* kherr.h:494: KHERR_CTX_END is signalled when the last handle is closed, once,
\* and the context is intact while the handlers are called.
EndsOnce ==
    /\ \A c \in Ctxs : ctx[c].ended <= 1
    /\ \A t \in Threads : op[t].pc = "end" => ctx[op[t].c].live /\ Users(op[t].c) = 0

\* kherr.h:501: the handlers are told of an event once, when it is committed, and
\* it is then the last event of its context.
CommitsOnce ==
    /\ \A c \in Ctxs : \A i \in DOMAIN ctx[c].events : ctx[c].events[i].notified <= 1
    /\ \A t \in Threads : op[t].pc = "commit" =>
         LET c == op[t].c IN ctx[c].events # <<>> /\ Bottom(c).id = op[t].id

\* A context that ends has told its handlers of every event in it (release_context
\* commits the last one), and is as bad as the worst of them: what is folded into
\* the parent is complete, whatever others did during the notifications.
EndsCommitted ==
    \A t \in Threads : op[t].pc = "end" =>
        LET c == op[t].c IN ~Uncommitted(c) /\ ctx[c].severity <= Worst(ctx[c].events)

-----------------------------------------------------------------------------
(* The inductive invariant, as long as neither race occurs.                 *)

Shape ==
    /\ DOMAIN ctx = Ctxs
    /\ \A c \in Ctxs : /\ DOMAIN ctx[c] = DOMAIN Fresh
                       /\ ctx[c].live \in BOOLEAN /\ ctx[c].refcount \in Int /\ ctx[c].ended \in Int
                       /\ ctx[c].parent \in Ctxs \cup {NoCtx}
    /\ stack \in [Threads -> Seq(Ctxs)] /\ message \subseteq Ctxs
    /\ cursor \in [Threads -> Ctxs \cup {NoCtx}]
    /\ DOMAIN op = Threads
    /\ \A t \in Threads : /\ DOMAIN op[t] = DOMAIN Idle
                          /\ op[t].c \in Ctxs \cup {NoCtx} /\ op[t].done \in Seq(Ctxs)

\* A context's count is that of its users, who are finitely many.
Exact == \A c \in Ctxs : /\ IsFiniteSet(Uses(c))
                         /\ IF ctx[c].live THEN ctx[c].refcount = Cardinality(Uses(c)) ELSE Uses(c) = {}

\* What a thread in the middle of a call is at.
WithinCall(t) ==
    /\ op[t].pc \in {"idle", "begin", "left", "commit", "error", "folded", "end"}
    /\ op[t].pc \in {"idle", "begin", "left"} => op[t].done = <<>>
    /\ op[t].pc = "left" => op[t].c \in Ctxs
    /\ op[t].pc = "folded" => op[t].c \in Ctxs /\ op[t].done # <<>>
    /\ op[t].pc \in {"commit", "error"} =>
         /\ op[t].c \in Ctxs /\ ctx[op[t].c].live /\ op[t].after \in {"put", "count"}
         /\ op[t].after = "put" /\ op[t].done = <<>> => Top(t) = op[t].c
    /\ op[t].pc = "end" =>
         /\ op[t].c \in Ctxs /\ ctx[op[t].c].live
         /\ ctx[op[t].c].refcount = 0 /\ ctx[op[t].c].ended = 1
Within == \A t \in Threads : WithinCall(t)

\* One thread at a time commits events of a context or ends it.
Engaged(t, c) == op[t].c = c /\ op[t].pc \in {"commit", "error", "end"}
OneEngaged == \A t, u \in Threads : \A c \in Ctxs : Engaged(t, c) /\ Engaged(u, c) => t = u

\* The contexts that a call has ended are in nobody else's hands.
Over(t) == Range(op[t].done)
Ending(t, c) == c \in Over(t) \/ (op[t].pc = "end" /\ op[t].c = c)
EndedApart ==
    \A t \in Threads : \A c \in Over(t) :
        /\ ctx[c].live /\ ctx[c].refcount = 0 /\ ctx[c].parent = NoCtx
        /\ \A u \in Threads : ~ Engaged(u, c) /\ (c \in Over(u) => u = t)

\* ended is the number of times the handlers were told of the end.
EndCounted ==
    \A c \in Ctxs : /\ (\E t \in Threads : Ending(t, c)) => ctx[c].ended = 1
                    /\ (\A t \in Threads : ~ Ending(t, c)) => ctx[c].ended = 0

IInv == Shape /\ Exact /\ Within /\ OneEngaged /\ EndedApart /\ EndCounted

\* The events of a context: those the handlers were told of are committed, but
\* for the last one while its handlers are called.
EventType == [id : Nat, severity : {Error, Info, None}, by : Threads, commit : BOOLEAN, notified : Nat]
Distinct(s) == s \in Seq(EventType) /\ \A i, j \in DOMAIN s : s[i].id = s[j].id => i = j
Settled(s) == /\ Distinct(s)
              /\ \A i \in DOMAIN s : s[i].notified <= 1 /\ (s[i].notified = 1 => s[i].commit)
Opened(s, id) == /\ Distinct(s) /\ s # <<>> /\ Last(s).id = id
                 /\ \A i \in DOMAIN s : s[i].notified <= 1 /\ (s[i].notified = 1 => s[i].commit \/ i = Len(s))

Commits(t, c) == op[t].pc = "commit" /\ op[t].c = c
EventsTold ==
    /\ \A c \in Ctxs : /\ \A t \in Threads : Commits(t, c) => Opened(ctx[c].events, op[t].id)
                       /\ (\A t \in Threads : ~ Commits(t, c)) => Settled(ctx[c].events)
    /\ \A t \in Threads : op[t].new \in {Error, Info, None}
=============================================================================
