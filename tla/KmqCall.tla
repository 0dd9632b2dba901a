------------------------------- MODULE KmqCall -------------------------------
(***************************************************************************)
(* The life of a message in KMQ: posted or sent by one thread, referenced   *)
(* from the queues of the others, handled by every subscriber, completed,   *)
(* and freed (src/kmq/publisher.c, consumer.c, init.c, msgtype.c).          *)
(*                                                                          *)
(* Every thread has a stack of frames, one per library call or callback it  *)
(* is inside of: a callback may itself post and send.  A step is what the   *)
(* code does under one hold of cs_kmq_msg or of kmq_queue::cs; cs_kmq_types *)
(* and cs_kmq_msg are variables because a publisher keeps them over many    *)
(* steps.  One message type is modelled, with a fixed list of subscribers.  *)
(***************************************************************************)
EXTENDS Integers, Sequences, SequencesExt, FiniteSets

CONSTANTS Threads,       \* every thread, the completion thread included
          Compl,         \* the completion thread (kmq_tid_compl)
          Msgs,          \* kmq_message objects (bound: messages alive at once)
          Subs,          \* msg_types[type]->subs, in list order
          HasHandler,    \* whether the type has a completion handler
          Calls,         \* the library calls each thread makes
          MaxDepth,      \* bound: nesting of calls and callbacks
          MaxCalls,      \* bound: calls that one callback makes
          NoThread, NoMsg

\* kmq_post_message, kmq_post_subs_msg_ex, kmq_send_message (kmq_send_sub_msg
\* is the same with one recipient), kmq_send_subs_msg and the quit messages.
Posts == {"post", "postsubs", "send", "sendsubs"}
Quits == {"postquit", "sendquit"}

\* The calls that take a call handle, that pass try_send, that end in kmq_wait,
\* and that hold cs_kmq_types while they post.
HasCall(api)    == api \in {"postsubs", "send", "sendsubs", "sendquit"}
TrySend(api)    == api \in {"send", "sendsubs"}
Waits(api)      == api \in {"send", "sendsubs", "sendquit"}
HoldsTypes(api) == api \in {"post", "send", "sendsubs"}

ASSUME CallAssumption ==
    /\ Compl \in Threads
    /\ NoThread \notin Threads
    /\ NoMsg \notin Msgs
    /\ Subs \in Seq([kind : {"CB", "HWND"}, thread : Threads \ {Compl}])
    /\ HasHandler \in BOOLEAN
    /\ Calls \in [Threads -> SUBSET (Posts \cup Quits \cup {"abort"})]
    /\ MaxDepth \in Nat /\ MaxCalls \in Nat

VARIABLES msg,        \* the message objects
          queue,      \* each thread's kmq_queue: messages with their subscription
          wait_o,     \* the queue's event
          deleted,    \* KMQ_QUEUE_FLAG_DELETED
          last_msg,   \* the message a thread believes it is handling
          wq,         \* KMQ_WM_DISPATCH messages posted to a thread's windows
          stack,      \* what each thread is doing, innermost last
          handles,    \* call handles a thread keeps after the posting call
          xfer,       \* kmq_completion_xfer
          cs_msg,     \* the holder of cs_kmq_msg
          types       \* the holder of cs_kmq_types and its recursion depth

vars == <<msg, queue, wait_o, deleted, last_msg, wq, stack, handles, xfer, cs_msg, types>>

FreeMessage == [state |-> "free", exit |-> FALSE, refcount |-> 0, nSent |-> 0,
                nCompleted |-> 0, nFailed |-> 0, event |-> "none", aborted |-> FALSE]

NoLock == [owner |-> NoThread, depth |-> 0]

Init ==
    /\ msg = [m \in Msgs |-> FreeMessage]
    /\ queue = [t \in Threads |-> <<>>]
    /\ wait_o = [t \in Threads |-> "clear"]
    /\ deleted = [t \in Threads |-> FALSE]
    /\ last_msg = [t \in Threads |-> NoMsg]
    /\ wq = [t \in Threads |-> <<>>]
    /\ stack = [t \in Threads |-> <<>>]
    /\ handles = [t \in Threads |-> {}]
    /\ xfer = <<>>
    /\ cs_msg = NoThread
    /\ types = NoLock

-----------------------------------------------------------------------------
(* Frames and locks *)

Frame(pc, m, api) == [pc |-> pc, m |-> m, api |-> api, i |-> 1, to |-> NoThread, calls |-> 0]

Top(t) == Last(stack[t])

At(t, pc) == stack[t] # <<>> /\ Top(t).pc = pc

\* The top frame becomes f: it moves on to pc, or to the next subscriber.
WithTop(t, f) == [stack[t] EXCEPT ![Len(stack[t])] = f]
Moved(t, pc) == WithTop(t, [Top(t) EXCEPT !.pc = pc, !.calls = 0])
NextSub(t) == WithTop(t, [Top(t) EXCEPT !.pc = "publish", !.i = @ + 1, !.calls = 0])

Goto(t, pc) == stack' = [stack EXCEPT ![t] = Moved(t, pc)]
Return(t) == stack' = [stack EXCEPT ![t] = Front(@)]

\* The frames of a thread that makes a call, which the callback it is in counts.
Caller(t) == IF stack[t] = <<>> THEN <<>>
             ELSE WithTop(t, [Top(t) EXCEPT !.calls = @ + 1])

\* User code runs in an idle thread and inside callbacks and handlers.
UserCode == {"callback", "wm", "direct", "window", "handler"}

MayCall(t, api) ==
    /\ api \in Calls[t]
    /\ ~deleted[t]
    /\ Len(stack[t]) < MaxDepth
    /\ IF stack[t] = <<>> THEN t # Compl
       ELSE Top(t).pc \in UserCode /\ Top(t).calls < MaxCalls

TypesFree(t) == types.owner \in {NoThread, t}
EnterTypes(t) == types' = [owner |-> t, depth |-> types.depth + 1]
LeaveTypes == types' = IF types.depth = 1 THEN NoLock ELSE [types EXCEPT !.depth = @ - 1]

-----------------------------------------------------------------------------
(* kmqint_put_message(m), called by thread t with the message's new fields r *)
(* and rest, the frames that remain when it returns.                         *)

\* (Mutant: off by one.)
AllButOneDone(r) == r.nCompleted + r.nFailed + 1 >= r.nSent

AllDone(r) == r.nCompleted + r.nFailed = r.nSent

\* kmqint_notify_msg_completion finds a handler; KMSG_SYSTEM cannot have one.
Handled(r) == HasHandler /\ ~r.exit

\* (Mutant: the event is never set.)
PutSilent(t, m, r, rest) ==
    /\ r.refcount # 0
    /\ msg' = [msg EXCEPT ![m] = r]
    /\ stack' = [stack EXCEPT ![t] = rest]
    /\ UNCHANGED xfer

PutSignal(t, m, r, rest) ==          \* somebody still refers to it: SetEvent
    /\ r.refcount # 0
    /\ msg' = [msg EXCEPT ![m] = [r EXCEPT !.event = IF @ = "none" THEN "none" ELSE "set"]]
    /\ stack' = [stack EXCEPT ![t] = rest]
    /\ UNCHANGED xfer

PutTransfer(t, m, r, rest) ==        \* the completion thread is to call the handler
    /\ r.refcount = 0
    /\ TypesFree(t)
    /\ Handled(r) /\ t # Compl
    /\ msg' = [msg EXCEPT ![m] = [r EXCEPT !.state = "xfer"]]
    /\ xfer' = Append(xfer, m)
    /\ stack' = [stack EXCEPT ![t] = rest]

PutHandle(t, m, r, rest, api) ==     \* the completion thread calls it itself
    /\ r.refcount = 0
    /\ TypesFree(t)
    /\ Handled(r) /\ t = Compl
    /\ msg' = [msg EXCEPT ![m] = [r EXCEPT !.state = "completing"]]
    /\ stack' = [stack EXCEPT ![t] = Append(rest, Frame("handler", m, api))]
    /\ UNCHANGED xfer

PutFree(t, m, r, rest) ==            \* no handler: back on the free list
    /\ r.refcount = 0
    /\ TypesFree(t)
    /\ ~Handled(r)
    /\ msg' = [msg EXCEPT ![m] = FreeMessage]
    /\ stack' = [stack EXCEPT ![t] = rest]
    /\ UNCHANGED xfer

PutMessage(t, m, r, rest, api) ==
    \/ PutSignal(t, m, r, rest)
    \/ PutTransfer(t, m, r, rest)
    \/ PutHandle(t, m, r, rest, api)
    \/ PutFree(t, m, r, rest)

\* The test at the end of every path that finishes a recipient.
Settle(t, m, r, rest, api) ==
    \/ AllDone(r) /\ PutMessage(t, m, r, rest, api)
    \/ ~AllDone(r) /\ msg' = [msg EXCEPT ![m] = r] /\ stack' = [stack EXCEPT ![t] = rest]
                   /\ UNCHANGED xfer

\* A recipient is finished: its reference goes and it is counted, by result.
\* (Mutant: the reference stays.)
FinishedKeepsRef(r, ok) == [r EXCEPT !.nCompleted = @ + 1]

Counted(r, ok) == IF ok THEN [r EXCEPT !.nCompleted = @ + 1] ELSE [r EXCEPT !.nFailed = @ + 1]
Finished(r, ok) == Counted([r EXCEPT !.refcount = @ - 1], ok)

-----------------------------------------------------------------------------
(* Posting: kmqint_post_message_ex, kmqint_post_subs_msg_ex and             *)
(* kmqint_msg_publish.                                                      *)

\* kmqint_set_queue_message.  (Mutant: the end of a handler leaves the message.)
SetQueueMessageOnly(t, m) == last_msg' = [last_msg EXCEPT ![t] = IF m = NoMsg THEN @ ELSE m]
SetQueueMessage(t, m) == last_msg' = [last_msg EXCEPT ![t] = m]

\* kmqint_get_message, the fields, and the locks the posting loop holds.
\* Nobody else knows m between its allocation and the loop.
Post(t, api) ==
    /\ api \in Posts /\ MayCall(t, api)
    /\ cs_msg = NoThread
    /\ \E m \in Msgs :
         /\ msg[m].state = "free"
         /\ msg' = [msg EXCEPT ![m] = [FreeMessage EXCEPT
                      !.state = "active",
                      !.refcount = IF HasCall(api) THEN 1 ELSE 0,
                      !.event = IF HasCall(api) THEN "clear" ELSE "none"]]
         /\ stack' = [stack EXCEPT ![t] = Append(Caller(t), Frame("publish", m, api))]
    /\ cs_msg' = t
    /\ IF HoldsTypes(api) THEN TypesFree(t) /\ EnterTypes(t) ELSE UNCHANGED types
    /\ UNCHANGED <<queue, wait_o, deleted, last_msg, wq, handles, xfer>>

Sub(t) == Subs[Top(t).i]

AtSub(t, kind) == At(t, "publish") /\ Top(t).i <= Len(Subs) /\ Sub(t).kind = kind

\* The recipient runs on the posting thread, which may then call it at once.
Direct(t) == TrySend(Top(t).api) /\ Sub(t).thread = t

\* kmqint_post to a callback: DELETED is read under q->cs, which is then left.
PostCheck(t) ==
    /\ AtSub(t, "CB") /\ ~Direct(t)
    /\ IF deleted[Sub(t).thread]
       THEN stack' = [stack EXCEPT ![t] = NextSub(t)]
       ELSE Goto(t, "put")
    /\ UNCHANGED <<msg, queue, wait_o, deleted, last_msg, wq, handles, xfer, cs_msg, types>>

\* (Mutants: a recipient that is not referenced, or not counted.)
AddRefNot(m) == [msg[m] EXCEPT !.nSent = @ + 1]
AddRefUncounted(m) == [msg[m] EXCEPT !.refcount = @ + 1]

AddRef(m) == [msg[m] EXCEPT !.refcount = @ + 1, !.nSent = @ + 1]

\* QPUT and SetEvent (which fails once the handle is closed).
Enqueue(q, m, sub) ==
    /\ queue' = [queue EXCEPT ![q] = Append(@, [m |-> m, sub |-> sub])]
    /\ wait_o' = [wait_o EXCEPT ![q] = IF @ = "closed" THEN "closed" ELSE "set"]

PostPut(t) ==
    LET m == Top(t).m IN
    /\ At(t, "put")
    /\ msg' = [msg EXCEPT ![m] = AddRef(m)]
    /\ Enqueue(Sub(t).thread, m, Top(t).i)
    /\ stack' = [stack EXCEPT ![t] = NextSub(t)]
    /\ UNCHANGED <<deleted, last_msg, wq, handles, xfer, cs_msg, types>>

\* kmqint_post to the sender's own callback: both locks are left meanwhile.
PostDirect(t) ==
    LET m == Top(t).m IN
    /\ AtSub(t, "CB") /\ Direct(t)
    /\ msg' = [msg EXCEPT ![m] = AddRef(m)]
    /\ cs_msg' = NoThread
    /\ LeaveTypes
    /\ Goto(t, "direct")
    /\ UNCHANGED <<queue, wait_o, deleted, last_msg, wq, handles, xfer>>

DirectReturn(t, ok) ==
    LET m == Top(t).m IN
    /\ At(t, "direct")
    /\ cs_msg = NoThread /\ TypesFree(t)
    /\ msg' = [msg EXCEPT ![m] = Finished(@, ok)]
    /\ cs_msg' = t
    /\ EnterTypes(t)
    /\ stack' = [stack EXCEPT ![t] = NextSub(t)]
    /\ UNCHANGED <<queue, wait_o, deleted, last_msg, wq, handles, xfer>>

\* kmqint_post to a window of another thread, or without try_send.
PostWindow(t) ==
    LET m == Top(t).m IN
    /\ AtSub(t, "HWND") /\ ~Direct(t)
    /\ msg' = [msg EXCEPT ![m] = AddRef(m)]
    /\ wq' = [wq EXCEPT ![Sub(t).thread] = Append(@, m)]
    /\ stack' = [stack EXCEPT ![t] = NextSub(t)]
    /\ UNCHANGED <<queue, wait_o, deleted, last_msg, handles, xfer, cs_msg, types>>

\* (Mutants: one reference for the window; nSent counted before and after.)
AddWindowRef(m) == [msg[m] EXCEPT !.refcount = @ + 1]
AddWindowRefsAndCount(m) == [msg[m] EXCEPT !.refcount = @ + 2, !.nSent = @ + 1]

AddWindowRefs(m) == [msg[m] EXCEPT !.refcount = @ + 2]

\* SendMessage to the sender's own window: two references, nSent left for later.
\* The window procedure starts with kmq_wm_begin or kmq_wm_dispatch.
PostSendWindow(t) ==
    LET m == Top(t).m IN
    /\ AtSub(t, "HWND") /\ Direct(t)
    /\ msg' = [msg EXCEPT ![m] = AddWindowRefs(m)]
    /\ cs_msg' = NoThread
    /\ LeaveTypes
    /\ SetQueueMessage(t, m)
    /\ Goto(t, "window")
    /\ UNCHANGED <<queue, wait_o, deleted, wq, handles, xfer>>

\* kmq_wm_end, then SendMessage returns.
SendWindowEnd(t, ok) ==
    LET m == Top(t).m IN
    /\ At(t, "window")
    /\ cs_msg = NoThread
    /\ SetQueueMessage(t, NoMsg)
    /\ Settle(t, m, Finished(msg[m], ok), Moved(t, "sent"), "none")
    /\ UNCHANGED <<queue, wait_o, deleted, wq, handles, cs_msg, types>>

CountWindow(m) == [msg[m] EXCEPT !.refcount = @ - 1, !.nSent = @ + 1]

SendWindowCount(t) ==
    LET m == Top(t).m IN
    /\ At(t, "sent")
    /\ cs_msg = NoThread /\ TypesFree(t)
    /\ msg' = [msg EXCEPT ![m] = CountWindow(m)]
    /\ cs_msg' = t
    /\ EnterTypes(t)
    /\ stack' = [stack EXCEPT ![t] = NextSub(t)]
    /\ UNCHANGED <<queue, wait_o, deleted, last_msg, wq, handles, xfer>>

\* kmqint_post_subs_msg_ex enters cs_kmq_types once more where it should leave
\* it.  (Mutant: the other publishers do the same.)
LeavePublishNot(t, api) == EnterTypes(t)
LeavePublish(t, api) == IF api = "sendsubs" THEN EnterTypes(t) ELSE LeaveTypes

\* The loop is over.  The completion thread, calling the handler from inside
\* kmqint_put_message, still holds cs_kmq_types.
PublishEnd(t) ==
    LET m == Top(t).m
        api == Top(t).api
        rest == IF Waits(api) THEN Moved(t, "wait") ELSE Front(stack[t])
    IN
    /\ At(t, "publish") /\ Top(t).i > Len(Subs)
    /\ Settle(t, m, msg[m], rest, api)
    /\ cs_msg' = NoThread
    /\ IF HoldsTypes(api) /\ msg'[m].state # "completing"
       THEN LeavePublish(t, api)
       ELSE UNCHANGED types
    /\ handles' = IF api = "postsubs" THEN [handles EXCEPT ![t] = @ \cup {m}] ELSE handles
    /\ UNCHANGED <<queue, wait_o, deleted, last_msg, wq>>

-----------------------------------------------------------------------------
(* Call handles: kmq_wait, kmq_free_call, kmq_abort_call.                   *)

\* WaitForSingleObject on the auto-reset m->wait_o, with no timeout.
Wait(t) ==
    LET m == Top(t).m IN
    /\ At(t, "wait")
    /\ msg[m].event = "set"
    /\ msg' = [msg EXCEPT ![m].event = "clear"]
    /\ Goto(t, "waited")
    /\ UNCHANGED <<queue, wait_o, deleted, last_msg, wq, handles, xfer, cs_msg, types>>

\* (Mutant: the call handle is the only reference looked at.)
FreeCallAlways(t, m, rest) ==
    /\ cs_msg = NoThread
    /\ PutMessage(t, m, [msg[m] EXCEPT !.refcount = 0], rest, "none")
    /\ UNCHANGED <<queue, wait_o, deleted, last_msg, wq, cs_msg, types>>

FreeCall(t, m, rest) ==
    LET r == [msg[m] EXCEPT !.refcount = @ - 1] IN
    /\ cs_msg = NoThread
    /\ IF r.refcount = 0
       THEN PutMessage(t, m, r, rest, "none")
       ELSE /\ msg' = [msg EXCEPT ![m] = r]
            /\ stack' = [stack EXCEPT ![t] = rest]
            /\ UNCHANGED xfer
    /\ UNCHANGED <<queue, wait_o, deleted, last_msg, wq, cs_msg, types>>

SendReturn(t) ==
    /\ At(t, "waited")
    /\ FreeCall(t, Top(t).m, Front(stack[t]))
    /\ UNCHANGED handles

FreeHandle(t, m) ==
    /\ m \in handles[t]
    /\ stack[t] # <<>> => Top(t).pc \in UserCode
    /\ FreeCall(t, m, stack[t])
    /\ handles' = [handles EXCEPT ![t] = @ \ {m}]

Abort(t, m) ==
    /\ "abort" \in Calls[t]
    /\ m \in handles[t]
    /\ stack[t] # <<>> => Top(t).pc \in UserCode
    /\ cs_msg = NoThread
    /\ ~msg[m].aborted
    /\ msg' = [msg EXCEPT ![m].aborted = TRUE]
    /\ UNCHANGED <<queue, wait_o, deleted, last_msg, wq, stack, handles, xfer, cs_msg, types>>

-----------------------------------------------------------------------------
(* Receiving: kmq_dispatch and the window procedure.                        *)

DispatchWait(t) ==
    /\ stack[t] = <<>> /\ ~deleted[t]
    /\ wait_o[t] = "set"
    /\ wait_o' = [wait_o EXCEPT ![t] = "clear"]
    /\ stack' = [stack EXCEPT ![t] = <<Frame("woken", NoMsg, "none")>>]
    /\ UNCHANGED <<msg, queue, deleted, last_msg, wq, handles, xfer, cs_msg, types>>

\* kmqint_get_queue_message_ref, and the callback starts.
DispatchGet(t) ==
    LET m == Head(queue[t]).m IN
    /\ At(t, "woken")
    /\ queue' = [queue EXCEPT ![t] = Tail(@)]
    /\ wait_o' = [wait_o EXCEPT ![t] = IF Len(queue[t]) > 1 THEN "set" ELSE @]
    /\ IF msg[m].exit THEN UNCHANGED last_msg ELSE SetQueueMessage(t, m)
    /\ stack' = [stack EXCEPT ![t] =
                   <<Frame(IF msg[m].exit THEN "exit" ELSE "callback", m, "none")>>]
    /\ UNCHANGED <<msg, deleted, wq, handles, xfer, cs_msg, types>>

DispatchReturn(t, ok) ==
    LET m == Top(t).m IN
    /\ At(t, "callback")
    /\ cs_msg = NoThread
    /\ SetQueueMessage(t, NoMsg)
    /\ Settle(t, m, Finished(msg[m], ok), Front(stack[t]), "none")
    /\ UNCHANGED <<queue, wait_o, deleted, wq, handles, cs_msg, types>>

\* KMSG_SYSTEM_EXIT is counted and kmq_dispatch returns KHM_ERROR_EXIT.
DispatchExit(t) ==
    LET m == Top(t).m IN
    /\ At(t, "exit")
    /\ cs_msg = NoThread
    /\ Settle(t, m, Finished(msg[m], TRUE), <<Frame("exited", NoMsg, "none")>>, "none")
    /\ UNCHANGED <<queue, wait_o, deleted, last_msg, wq, handles, cs_msg, types>>

\* A thread takes KMQ_WM_DISPATCH off its Windows queue.  One that has exited
\* takes none: what was posted to its windows stays there, counted as sent.
WindowBegin(t) ==
    /\ stack[t] = <<>> /\ ~deleted[t] /\ wq[t] # <<>>
    /\ wq' = [wq EXCEPT ![t] = Tail(@)]
    /\ SetQueueMessage(t, Head(wq[t]))
    /\ stack' = [stack EXCEPT ![t] = <<Frame("wm", Head(wq[t]), "none")>>]
    /\ UNCHANGED <<msg, queue, wait_o, deleted, handles, xfer, cs_msg, types>>

WindowEnd(t, ok) ==
    LET m == Top(t).m IN
    /\ At(t, "wm")
    /\ cs_msg = NoThread
    /\ SetQueueMessage(t, NoMsg)
    /\ Settle(t, m, Finished(msg[m], ok), Front(stack[t]), "none")
    /\ UNCHANGED <<queue, wait_o, deleted, wq, handles, cs_msg, types>>

-----------------------------------------------------------------------------
(* The completion thread: kmqint_completion_thread_proc.                    *)

\* It takes a message off kmq_completion_xfer and puts it again, which this
\* time calls the handler.
ComplTake ==
    /\ stack[Compl] = <<>> /\ xfer # <<>>
    /\ cs_msg = NoThread /\ TypesFree(Compl)
    /\ xfer' = Tail(xfer)
    /\ msg' = [msg EXCEPT ![Head(xfer)].state = "completing"]
    /\ stack' = [stack EXCEPT ![Compl] = <<Frame("handler", Head(xfer), "none")>>]
    /\ UNCHANGED <<queue, wait_o, deleted, last_msg, wq, handles, cs_msg, types>>

\* The handler returns; kmqint_put_message frees the message, and a post that
\* called it returns as well.
HandlerReturn ==
    LET f == Top(Compl) IN
    /\ At(Compl, "handler")
    /\ cs_msg = NoThread
    /\ msg' = [msg EXCEPT ![f.m] = FreeMessage]
    /\ Return(Compl)
    /\ IF HoldsTypes(f.api) THEN LeaveTypes ELSE UNCHANGED types
    /\ UNCHANGED <<queue, wait_o, deleted, last_msg, wq, handles, xfer, cs_msg>>

-----------------------------------------------------------------------------
(* Quit messages and detaching.                                             *)

\* kmq_post_thread_quit_message: the message is made; kmqint_post_queue then
\* reads the target's DELETED flag and, if set, does nothing more.
Quit(t, u, api) ==
    /\ api \in Quits /\ MayCall(t, api)
    /\ u \notin {t, Compl}
    /\ cs_msg = NoThread
    /\ \E m \in Msgs :
         /\ msg[m].state = "free"
         /\ msg' = [msg EXCEPT ![m] = [FreeMessage EXCEPT
                      !.state = "active",
                      !.exit = TRUE,
                      !.refcount = IF HasCall(api) THEN 1 ELSE 0,
                      !.event = IF HasCall(api) THEN "clear" ELSE "none"]]
         /\ LET f == [Frame("count", m, api) EXCEPT !.to = u] IN
            stack' = [stack EXCEPT ![t] =
                IF ~deleted[u] THEN Append(Caller(t), f)
                ELSE IF Waits(api) THEN Append(Caller(t), [f EXCEPT !.pc = "wait"])
                ELSE Caller(t)]
    /\ UNCHANGED <<queue, wait_o, deleted, last_msg, wq, handles, xfer, cs_msg, types>>

QuitCount(t) ==
    LET m == Top(t).m IN
    /\ At(t, "count")
    /\ cs_msg = NoThread
    /\ msg' = [msg EXCEPT ![m] = AddRef(m)]
    /\ Goto(t, "counted")
    /\ UNCHANGED <<queue, wait_o, deleted, last_msg, wq, handles, xfer, cs_msg, types>>

QuitPut(t) ==
    LET m == Top(t).m IN
    /\ At(t, "counted")
    /\ Enqueue(Top(t).to, m, 0)
    /\ IF Waits(Top(t).api) THEN Goto(t, "wait") ELSE Return(t)
    /\ UNCHANGED <<msg, deleted, last_msg, wq, handles, xfer, cs_msg, types>>

\* QGET, or, when nothing is left, CloseHandle on the event.
Drain(t) ==
    IF queue[t] = <<>>
    THEN /\ wait_o' = [wait_o EXCEPT ![t] = "closed"]
         /\ stack' = [stack EXCEPT ![t] = <<>>]
         /\ UNCHANGED queue
    ELSE /\ queue' = [queue EXCEPT ![t] = Tail(@)]
         /\ stack' = [stack EXCEPT ![t] = <<Frame("drain", Head(queue[t]).m, "none")>>]
         /\ UNCHANGED wait_o

\* (Mutant: the flag is not set while the queue is drained.)
MarkDeletedNot(t) == UNCHANGED deleted
MarkDeleted(t) == deleted' = [deleted EXCEPT ![t] = TRUE]

\* kmqint_detach_this_thread, on the way out of a thread that got the quit
\* message.
DetachStart(t) ==
    /\ At(t, "exited")
    /\ MarkDeleted(t)
    /\ Drain(t)
    /\ UNCHANGED <<msg, last_msg, wq, handles, xfer, cs_msg, types>>

DetachFail(t) ==
    LET m == Top(t).m IN
    /\ At(t, "drain")
    /\ cs_msg = NoThread
    /\ Settle(t, m, Finished(msg[m], FALSE), <<Frame("drained", NoMsg, "none")>>, "none")
    /\ UNCHANGED <<queue, wait_o, deleted, last_msg, wq, handles, cs_msg, types>>

DetachNext(t) ==
    /\ At(t, "drained")
    /\ Drain(t)
    /\ UNCHANGED <<msg, deleted, last_msg, wq, handles, xfer, cs_msg, types>>

-----------------------------------------------------------------------------
\* The steps that carry on what a thread has begun.
Publishing(t) == PostCheck(t) \/ PostPut(t) \/ PostDirect(t) \/ PostWindow(t)
                 \/ PostSendWindow(t) \/ SendWindowCount(t) \/ PublishEnd(t)

Waiting(t) == Wait(t) \/ SendReturn(t)

Returning(t) == \E ok \in BOOLEAN : DirectReturn(t, ok) \/ SendWindowEnd(t, ok)
                                    \/ DispatchReturn(t, ok) \/ WindowEnd(t, ok)

Quitting(t) == QuitCount(t) \/ QuitPut(t)

Detaching(t) == DetachStart(t) \/ DetachFail(t) \/ DetachNext(t)

Continue(t) == Publishing(t) \/ Waiting(t) \/ Returning(t) \/ Quitting(t)
               \/ Detaching(t) \/ DispatchGet(t) \/ DispatchExit(t)

\* The calls a thread may begin.
Begin(t) == \/ \E api \in Posts : Post(t, api)
            \/ \E u \in Threads, api \in Quits : Quit(t, u, api)
            \/ \E m \in Msgs : Abort(t, m)

Free(t) == \E m \in Msgs : FreeHandle(t, m)

Next == \/ \E t \in Threads : Begin(t) \/ Free(t) \/ Continue(t) \/ DispatchWait(t) \/ WindowBegin(t)
        \/ ComplTake \/ HandlerReturn

Spec == Init /\ [][Next]_vars

Callers == {t \in Threads : Calls[t] # {}}

\* Threads keep dispatching between the calls they make, callbacks and handlers
\* return (after MaxCalls calls at most), whoever keeps a call handle frees it,
\* and a thread that waits for a critical section which is free again and again
\* gets it.  No thread is bound to make a call; one that makes none is always
\* there to dispatch.
Fairness ==
    /\ \A t \in Threads :
         /\ WF_vars(Publishing(t)) /\ WF_vars(Waiting(t)) /\ WF_vars(Returning(t))
         /\ WF_vars(Quitting(t)) /\ WF_vars(Detaching(t))
         /\ WF_vars(DispatchGet(t)) /\ WF_vars(DispatchExit(t))
    /\ \A t \in Threads \ Callers : WF_vars(DispatchWait(t)) /\ WF_vars(WindowBegin(t))
    /\ \A t \in Callers :
         /\ SF_vars(DispatchWait(t)) /\ SF_vars(WindowBegin(t))
         /\ \A m \in Msgs : SF_vars(FreeHandle(t, m))
    /\ WF_vars(ComplTake) /\ WF_vars(HandlerReturn)

FairSpec == Spec /\ Fairness

-----------------------------------------------------------------------------
(* Who refers to a message.                                                 *)

Frames == UNION {{<<t, i>> : i \in DOMAIN stack[t]} : t \in Threads}
FrameAt(p) == stack[p[1]][p[2]]
FramesOf(m, pcs) == {p \in Frames : FrameAt(p).m = m /\ FrameAt(p).pc \in pcs}

QueuedTo(m, q) == UNION {{<<t, i>> : i \in {j \in DOMAIN q[t] : q[t][j] = m}} : t \in Threads}
Queues == [t \in Threads |-> [i \in DOMAIN queue[t] |-> queue[t][i].m]]

\* A recipient that holds a reference and has not been counted as finished.
RecipientPcs == {"callback", "wm", "exit", "drain", "direct", "counted"}
Recipients(m) == Cardinality(QueuedTo(m, Queues)) + Cardinality(QueuedTo(m, wq))
                 + Cardinality(FramesOf(m, RecipientPcs))

\* A sender's own window holds two references, then one, and is counted first
\* as finished and only then as sent.
OwnWindow(m) == FramesOf(m, {"window"})
OwnWindowDone(m) == FramesOf(m, {"sent"})

\* The call handle: the caller's variable, in a call that has one or after it.
CallPcs == {"publish", "put", "direct", "window", "sent", "wait", "waited", "count", "counted"}
CallFrames(m) == {p \in FramesOf(m, CallPcs) : HasCall(FrameAt(p).api)}
Keepers(m) == {t \in Threads : m \in handles[t]}
CallHandles(m) == Cardinality(CallFrames(m)) + Cardinality(Keepers(m))

\* The thread that is still posting the message.
PublisherPcs == {"publish", "put", "direct", "window", "sent", "count", "counted"}
Publisher(m) == FramesOf(m, PublisherPcs)

Users(m) == Recipients(m) + Cardinality(OwnWindow(m)) + CallHandles(m) + Cardinality(Publisher(m))

Active == {m \in Msgs : msg[m].state = "active"}

-----------------------------------------------------------------------------
(* Properties *)

Pcs == {"publish", "put", "direct", "window", "sent", "wait", "waited", "woken", "callback",
        "exit", "exited", "wm", "handler", "count", "counted", "drain", "drained"}

FrameType == [pc : Pcs, m : Msgs \cup {NoMsg}, api : Posts \cup Quits \cup {"none"},
              i : 1..(Len(Subs) + 1), to : Threads \cup {NoThread},
              calls : 0..MaxCalls]

MessageType == [state : {"free", "active", "xfer", "completing"}, exit : BOOLEAN,
                refcount : Nat, nSent : Nat, nCompleted : Nat, nFailed : Nat,
                event : {"none", "clear", "set"}, aborted : BOOLEAN]

\* Every variable keeps its type; no counter of a kmq_message goes below zero.
TypeOK ==
    /\ msg \in [Msgs -> MessageType]
    /\ queue \in [Threads -> Seq([m : Msgs, sub : 0..Len(Subs)])]
    /\ wait_o \in [Threads -> {"clear", "set", "closed"}]
    /\ deleted \in [Threads -> BOOLEAN]
    /\ last_msg \in [Threads -> Msgs \cup {NoMsg}]
    /\ wq \in [Threads -> Seq(Msgs)]
    /\ stack \in [Threads -> Seq(FrameType)]
    /\ handles \in [Threads -> SUBSET Msgs]
    /\ xfer \in Seq(Msgs)
    /\ cs_msg \in Threads \cup {NoThread}
    /\ types \in [owner : Threads \cup {NoThread}, depth : Nat]

\* kmq_message::refcount counts exactly the queue references, the posted window
\* messages, the running callbacks and the call handle that still refer to the
\* message, whatever the order in which its recipients, its poster and a
\* detaching thread act.
RefcountExact ==
    \A m \in Active :
        msg[m].refcount = Recipients(m) + 2 * Cardinality(OwnWindow(m))
                          + Cardinality(OwnWindowDone(m)) + CallHandles(m)

\* nSent exceeds nCompleted + nFailed by the recipients still to finish, but for
\* the window that SendMessage has just returned from: the test for completion
\* is right at every point where the code makes it, that one apart.
CountsExact ==
    \A m \in Active :
        msg[m].nSent + Cardinality(OwnWindowDone(m))
            = msg[m].nCompleted + msg[m].nFailed + Recipients(m)

\* A message that has left msg_active has no user: no queue, window, callback or
\* call handle refers to it.  It is on kmq_completion_xfer, or in one call of
\* the completion handler, or on the free list, and never in two of these.
NoDangling ==
    /\ \A m \in Msgs \ Active :
         /\ QueuedTo(m, Queues) = {} /\ QueuedTo(m, wq) = {}
         /\ Keepers(m) = {}
         /\ FramesOf(m, Pcs \ {"handler"}) = {}
    /\ IsInjective(xfer) /\ ToSet(xfer) = {m \in Msgs : msg[m].state = "xfer"}
    /\ \A m \in Msgs :
         Cardinality(FramesOf(m, {"handler"})) = IF msg[m].state = "completing" THEN 1 ELSE 0

\* The protocol implements MessageLife: a message is released in the step in
\* which its publisher, its last recipient or its call handle leaves it,
\* whichever is last, neither before nor after, and only once.
Life == INSTANCE MessageLife WITH
            users <- [m \in Msgs |-> Users(m)],
            phase <- [m \in Msgs |-> CASE msg[m].state = "free" -> "free"
                                       [] msg[m].state = "active" -> "open"
                                       [] OTHER -> "released"]

ImplementsLife == Life!Spec

\* kmq.h:614-616: kmq_send_message returns when every subscriber has finished
\* with the message.  Its caller's arguments may be on its stack
\* (ui/CwTable.cpp), so a recipient that is still to run reads freed memory.
SendReturnsDone ==
    \A t \in Threads : At(t, "waited") => Recipients(Top(t).m) = 0

\* kmq.h:534-539: inside a handler that kmq_dispatch or kmq_wm_begin started,
\* kmq_get_current_message and kmq_is_call_aborted see the handler's message.
\* It is false: a handler that another was nested in sees none.
Handling == {"callback", "wm", "window"}

CurrentMessage ==
    \A t \in Threads :
        stack[t] # <<>> /\ Top(t).pc \in Handling => last_msg[t] = Top(t).m

\* What kmq_get_current_message returns, and kmq_is_call_aborted reads, without
\* a reference of its own, is the message of the innermost handler that the
\* thread is in, if it is any: not that of an outer handler, of one that has
\* ended, or one that was freed, however handlers, sends and waits are nested.
Innermost(t, i) == /\ stack[t][i].pc \in Handling
                   /\ \A j \in DOMAIN stack[t] : stack[t][j].pc \in Handling => j <= i

CurrentHandled ==
    \A t \in Threads :
        last_msg[t] # NoMsg =>
            /\ msg[last_msg[t]].state = "active"
            /\ \E i \in DOMAIN stack[t] : Innermost(t, i) /\ stack[t][i].m = last_msg[t]

\* kmq.h:638-639: a post returns at once.  It does if a thread that is outside
\* of the library, or blocked in kmq_wait, never owns cs_kmq_types.
NoLockLeak ==
    \A t \in Threads : stack[t] = <<>> \/ At(t, "wait") => types.owner # t

\* kmq.h:686-692: kmq_send_thread_quit_message returns only when the thread has
\* taken its quit message, or is past dispatching.
QuitSeen ==
    \A t \in Threads :
        At(t, "waited") /\ Top(t).api = "sendquit" =>
            LET u == Top(t).to IN deleted[u] \/ At(u, "exited")

\* Every message is completed and freed in the end, once its subscribers have
\* run and its call handle is freed.
EveryMessageFreed ==
    \A m \in Msgs : msg[m].state # "free" ~> msg[m].state = "free"

\* A thread that sends does not wait for ever.
SendReturns ==
    \A t \in Threads : At(t, "wait") ~> ~At(t, "wait")

-----------------------------------------------------------------------------
(* The inductive invariant.                                                 *)

\* What a frame may be, by where it is.
BottomPcs == {"woken", "callback", "exit", "exited", "wm", "drain", "drained"}

FrameOK(t, i, f) ==
    /\ f.pc \in {"woken", "exited", "drained"} <=> f.m = NoMsg
    /\ f.pc \in {"put", "direct", "window", "sent"} => f.i <= Len(Subs)
    /\ f.pc \in {"direct", "window", "sent"} => TrySend(f.api)
    /\ f.pc \in {"publish", "put"} => f.api \in Posts
    /\ f.pc \in {"wait", "waited"} => Waits(f.api)
    /\ f.pc \in {"count", "counted"} => f.api \in Quits /\ f.to \in Threads \ {Compl}
    /\ f.pc = "handler" => t = Compl
    /\ t = Compl => f.pc \in CallPcs \cup {"handler"}
    /\ f.pc \in BottomPcs => i = 1

\* Below the frame that runs there is only user code that made a call.
StackShape ==
    \A t \in Threads : \A i \in DOMAIN stack[t] :
        /\ FrameOK(t, i, stack[t][i])
        /\ i < Len(stack[t]) => stack[t][i].pc \in UserCode

\* Nothing is queued to the completion thread; an event that is set, and a
\* thread that it woke, find a message; what a deleted thread runs is the rest
\* of its detachment.
QueuesShape ==
    /\ queue[Compl] = <<>> /\ wq[Compl] = <<>> /\ wait_o[Compl] = "clear" /\ ~deleted[Compl]
    /\ \A t \in Threads :
         /\ ~deleted[t] /\ wait_o[t] = "set" => queue[t] # <<>>
         /\ \A i \in DOMAIN stack[t] :
              /\ stack[t][i].pc = "woken" =>
                   queue[t] # <<>> /\ (wait_o[t] = "set" => Len(queue[t]) > 1)
              /\ deleted[t] <=> stack[t][i].pc \in {"drain", "drained"}

\* cs_kmq_msg is held through the posting loop.
PublishLock ==
    \A t \in Threads : \A i \in DOMAIN stack[t] :
        stack[t][i].pc \in {"publish", "put"} => cs_msg = t

\* A message belongs to one call at most, and to nobody's call handle before
\* that call has returned; a quit message is counted before anybody has it.
OneOwner ==
    \A m \in Msgs :
        /\ Cardinality(FramesOf(m, CallPcs)) + Cardinality(Keepers(m)) <= 1
        /\ FramesOf(m, {"count"}) # {} => msg[m].nSent = 0

\* Only finitely many references are out at any time.
Finite ==
    \A m \in Msgs :
        /\ IsFiniteSet(QueuedTo(m, Queues)) /\ IsFiniteSet(QueuedTo(m, wq))
        /\ IsFiniteSet(FramesOf(m, Pcs)) /\ IsFiniteSet(Keepers(m))

\* The frames that posted, or handle, under cs_kmq_types, which its owner has
\* entered at least as often.
TypesFrames(t) == {i \in DOMAIN stack[t] : /\ stack[t][i].pc \in {"publish", "put", "handler"}
                                           /\ HoldsTypes(stack[t][i].api)}

TypesHeld ==
    /\ types.depth = 0 <=> types.owner = NoThread
    /\ \A t \in Threads : TypesFrames(t) # {} =>
         types.owner = t /\ types.depth >= Cardinality(TypesFrames(t))

IInv == /\ TypeOK /\ StackShape /\ QueuesShape /\ PublishLock /\ OneOwner /\ Finite /\ TypesHeld
        /\ RefcountExact /\ CountsExact /\ NoDangling
=============================================================================
