------------------------------ MODULE KmqQueue ------------------------------
(***************************************************************************)
(* One thread's message queue (kmq_queue, src/kmq/kmqinternal.h): the FIFO  *)
(* of message references, the auto-reset event wait_o that its owner sleeps *)
(* on in kmq_dispatch, and the owner's detaching from it while other        *)
(* threads post.                                                            *)
(*                                                                          *)
(* The critical section kmq_queue::cs makes each access to the queue one    *)
(* action; what happens between two holds of it is two actions.  The lock   *)
(* cs_kmq_msg, which serialises the posters of kmqint_post but not those of *)
(* kmqint_post_queue, is left out: posters interleave freely here.          *)
(***************************************************************************)
EXTENDS Naturals, Sequences, SequencesExt

CONSTANTS Posters,     \* the threads that post to this queue
          Owner,       \* the thread the queue belongs to; it may also post
          Refs,        \* kmq_message_ref objects (bound: refs alive at once)
          NoRef,       \* the NULL reference
          Msgs,        \* messages, told apart by what kmq_purge_queue matches
          Exit,        \* <KMSG_SYSTEM, KMSG_SYSTEM_EXIT>
          NoMsg        \* the NULL message

ASSUME QueueAssumption ==
    /\ NoRef \notin Refs
    /\ Exit \in Msgs
    /\ NoMsg \notin Msgs

Threads == Posters \cup {Owner}

VARIABLES queue,     \* the references, oldest first
          wait_o,    \* "set", "clear" or, once CloseHandle ran, "closed"
          flags,     \* KMQ_QUEUE_FLAG_DELETED and _DETACHING, when set
          refmsg,    \* r->msg of every reference; NoMsg: on the free list
          last_msg,  \* the message the owner is handling
          pc,        \* where the owner is
          cur,       \* the reference kmq_dispatch or the drain loop holds
          purged,    \* the reference kmq_purge_queue holds
          match,     \* the messages the running kmq_purge_queue matches
          building   \* the reference a poster made and has not yet put

vars == <<queue, wait_o, flags, refmsg, last_msg, pc, cur, purged, match, building>>

OwnerStates == {"idle", "woken", "got", "callback", "exited", "purge", "purged",
                "drain", "drained", "detached"}

DELETED == "DELETED" \in flags

FreeRefs == {r \in Refs : refmsg[r] = NoMsg}

Init ==                       \* kmqint_attach_this_thread made the queue
    /\ queue = <<>>
    /\ wait_o = "clear"
    /\ flags = {}
    /\ refmsg = [r \in Refs |-> NoMsg]
    /\ last_msg = NoMsg
    /\ pc = "idle"
    /\ cur = NoRef
    /\ purged = NoRef
    /\ match = {}
    /\ building = [t \in Threads |-> NoRef]

-----------------------------------------------------------------------------
(* Posting.  A poster reads the DELETED flag under q->cs, leaves it, makes  *)
(* the reference, and enters q->cs again to put it.                         *)

\* The owner posts to itself from its own code or from a callback only.
MayPost(t) == t = Owner => pc \in {"idle", "callback"}

PostCheck(t, m) ==
    /\ MayPost(t)
    /\ building[t] = NoRef
    /\ ~DELETED
    /\ \E r \in FreeRefs :
         /\ refmsg' = [refmsg EXCEPT ![r] = m]
         /\ building' = [building EXCEPT ![t] = r]
    /\ UNCHANGED <<queue, wait_o, flags, last_msg, pc, cur, purged, match>>

\* Mutant of PostPut: the reference is not tested before it is put.
PostPutUntested(t) ==
    /\ queue' = Append(queue, building[t])
    /\ wait_o' = IF wait_o = "closed" THEN "closed" ELSE "set"
    /\ building' = [building EXCEPT ![t] = NoRef]
    /\ UNCHANGED <<flags, refmsg, last_msg, pc, cur, purged, match>>

\* QPUT and SetEvent, with no second look at the flags.  SetEvent on the
\* NULL handle of a detached queue fails and nobody looks.
PostPut(t) ==
    /\ building[t] # NoRef
    /\ queue' = Append(queue, building[t])
    /\ wait_o' = IF wait_o = "closed" THEN "closed" ELSE "set"
    /\ building' = [building EXCEPT ![t] = NoRef]
    /\ UNCHANGED <<flags, refmsg, last_msg, pc, cur, purged, match>>

-----------------------------------------------------------------------------
(* Dispatching: kmq_dispatch, run by the owner.                             *)

OwnerRuns == building[Owner] = NoRef

\* WaitForSingleObject returns and resets the auto-reset event.
DispatchWait ==
    /\ OwnerRuns
    /\ pc = "idle"
    /\ wait_o = "set"
    /\ wait_o' = "clear"
    /\ pc' = "woken"
    /\ UNCHANGED <<queue, flags, refmsg, last_msg, cur, purged, match, building>>

\* QGET: the oldest reference, or NULL.
QGet ==
    IF queue = <<>>
    THEN /\ cur' = NoRef
         /\ queue' = queue
    ELSE /\ cur' = Head(queue)
         /\ queue' = Tail(queue)

\* Mutant of DispatchGet: the event is set whether or not anything remains.
DispatchGetAlwaysSets ==
    /\ pc = "woken"
    /\ QGet
    /\ wait_o' = "set"
    /\ pc' = "got"
    /\ UNCHANGED <<flags, refmsg, last_msg, purged, match, building>>

\* Mutant of DispatchGet: one signal per wait, nothing set for what remains.
DispatchGetNeverSets ==
    /\ pc = "woken"
    /\ QGet
    /\ pc' = "got"
    /\ UNCHANGED <<wait_o, flags, refmsg, last_msg, purged, match, building>>

\* kmqint_get_queue_message_ref: the event is set again for what remains.
DispatchGet ==
    /\ pc = "woken"
    /\ IF DELETED
       THEN cur' = NoRef /\ UNCHANGED <<queue, wait_o>>
       ELSE /\ QGet
            /\ wait_o' = IF queue' # <<>> THEN "set" ELSE wait_o
    /\ pc' = "got"
    /\ UNCHANGED <<flags, refmsg, last_msg, purged, match, building>>

\* r->msg is read with no test of r; an ordinary message goes to its callback.
DispatchCallback ==
    /\ pc = "got"
    /\ cur # NoRef
    /\ refmsg[cur] # Exit
    /\ last_msg' = refmsg[cur]
    /\ pc' = "callback"
    /\ UNCHANGED <<queue, wait_o, flags, refmsg, cur, purged, match, building>>

PutCurRef ==
    /\ refmsg' = [refmsg EXCEPT ![cur] = NoMsg]
    /\ cur' = NoRef

DispatchReturn ==
    /\ OwnerRuns
    /\ pc = "callback"
    /\ PutCurRef
    /\ last_msg' = NoMsg
    /\ pc' = "idle"
    /\ UNCHANGED <<queue, wait_o, flags, purged, match, building>>

\* The quit message has no callback; the owner leaves its dispatch loop.
DispatchExit ==
    /\ pc = "got"
    /\ cur # NoRef
    /\ refmsg[cur] = Exit
    /\ PutCurRef
    /\ pc' = "exited"
    /\ UNCHANGED <<queue, wait_o, flags, last_msg, purged, match, building>>

-----------------------------------------------------------------------------
(* kmq_purge_queue, which the owner may call between dispatches or from a   *)
(* callback.                                                                *)

PurgeStart(c) ==
    /\ OwnerRuns
    /\ pc \in {"idle", "callback"}
    /\ match' = c
    /\ pc' = "purge"
    /\ UNCHANGED <<queue, wait_o, flags, refmsg, last_msg, cur, purged, building>>

\* The indices the loop from QBOTTOM by QNEXT looks at: QBOTTOM is the newest
\* reference and QNEXT of it is NULL, so the loop ends after one.
Scanned == {i \in DOMAIN queue : i = Len(queue)}

Matching == {i \in Scanned : refmsg[queue[i]] \in match}

\* Mutant of PurgeMatch: the reference found is not taken off the queue.
PurgeMatchKeeps ==
    /\ pc = "purge"
    /\ \E i \in Matching : purged' = queue[i]
    /\ pc' = "purged"
    /\ UNCHANGED <<queue, wait_o, flags, refmsg, last_msg, cur, match, building>>

\* Mutant of PurgeMatch: the event is reset although references remain.
PurgeMatchResets ==
    /\ pc = "purge"
    /\ \E i \in Matching :
         /\ purged' = queue[i]
         /\ queue' = RemoveAt(queue, i)
    /\ wait_o' = "clear"
    /\ pc' = "purged"
    /\ UNCHANGED <<flags, refmsg, last_msg, cur, match, building>>

\* kmqint_get_queue_message_ref_match finds a reference and deletes it.
PurgeMatch ==
    /\ pc = "purge"
    /\ \E i \in Matching :
         /\ purged' = queue[i]
         /\ queue' = RemoveAt(queue, i)
    /\ wait_o' = IF queue' # <<>> THEN "set" ELSE "clear"
    /\ pc' = "purged"
    /\ UNCHANGED <<flags, refmsg, last_msg, cur, match, building>>

PurgePut ==
    /\ pc = "purged"
    /\ refmsg' = [refmsg EXCEPT ![purged] = NoMsg]
    /\ purged' = NoRef
    /\ pc' = "purge"
    /\ UNCHANGED <<queue, wait_o, flags, last_msg, cur, match, building>>

PurgeReturn ==
    /\ pc = "purge"
    /\ Matching = {}
    /\ match' = {}
    /\ pc' = IF cur = NoRef THEN "idle" ELSE "callback"
    /\ UNCHANGED <<queue, wait_o, flags, refmsg, last_msg, cur, purged, building>>

-----------------------------------------------------------------------------
(* kmqint_detach_this_thread, run as the owner's thread ends.               *)

DrainOrClose ==
    /\ QGet
    /\ IF queue = <<>>
       THEN wait_o' = "closed" /\ flags' = {"DELETED"} /\ pc' = "detached"
       ELSE wait_o' = wait_o /\ flags' = {"DELETED", "DETACHING"} /\ pc' = "drain"

DetachStart ==
    /\ OwnerRuns
    /\ pc \in {"idle", "exited"}
    /\ DrainOrClose
    /\ UNCHANGED <<refmsg, last_msg, purged, match, building>>

\* The reference is put back and its message counted as failed, outside q->cs.
DetachFail ==
    /\ pc = "drain"
    /\ PutCurRef
    /\ pc' = "drained"
    /\ UNCHANGED <<queue, wait_o, flags, last_msg, purged, match, building>>

DetachNext ==
    /\ pc = "drained"
    /\ DrainOrClose
    /\ UNCHANGED <<refmsg, last_msg, purged, match, building>>

-----------------------------------------------------------------------------
Post == \E t \in Threads : PostPut(t) \/ \E m \in Msgs : PostCheck(t, m)

Dispatch == DispatchWait \/ DispatchGet \/ DispatchCallback \/ DispatchReturn \/ DispatchExit

Purge == PurgeMatch \/ PurgePut \/ PurgeReturn \/ \E c \in SUBSET Msgs : PurgeStart(c)

Detach == DetachStart \/ DetachFail \/ DetachNext

Next == Post \/ Dispatch \/ Purge \/ Detach

Spec == Init /\ [][Next]_vars

(* Fairness.  A poster between its two holds of q->cs goes on, and so does   *)
(* the owner inside a library call.  The owner calls kmq_dispatch again and *)
(* again, and a callback returns, after finitely many calls of its own      *)
(* (strong fairness: those calls take the owner away and back).  A thread   *)
(* that received the quit message ends, which detaches it.  A purge ends:   *)
(* posters do not keep ahead of its loop for ever.                          *)
Fairness ==
    /\ \A t \in Threads : WF_vars(PostPut(t))
    /\ SF_vars(DispatchWait)
    /\ WF_vars(DispatchGet \/ DispatchCallback \/ DispatchExit)
    /\ SF_vars(DispatchReturn)
    /\ WF_vars(PurgeMatch \/ PurgePut \/ PurgeReturn)
    /\ []<>(pc \notin {"purge", "purged"})
    /\ WF_vars(DetachFail \/ DetachNext \/ (pc = "exited" /\ DetachStart))

FairSpec == Spec /\ Fairness

-----------------------------------------------------------------------------
(* Properties *)

\* The type invariant.
TypeOK ==
    /\ queue \in Seq(Refs)
    /\ wait_o \in {"set", "clear", "closed"}
    /\ flags \subseteq {"DELETED", "DETACHING"}
    /\ refmsg \in [Refs -> Msgs \cup {NoMsg}]
    /\ last_msg \in Msgs \cup {NoMsg}
    /\ pc \in OwnerStates
    /\ cur \in Refs \cup {NoRef}
    /\ purged \in Refs \cup {NoRef}
    /\ match \subseteq Msgs
    /\ building \in [Threads -> Refs \cup {NoRef}]

\* kmq_dispatch reads r->msg without testing r (consumer.c:737), so a wake-up
\* must always find a reference: the event may be set only for a reference
\* that the owner's purges and dispatches have not taken meanwhile.
NoNullRef == pc = "got" => cur # NoRef

\* While the owner is attached, a waiting reference is never without a signal:
\* the event is set, or the owner has consumed it and is about to fetch (the
\* event is auto-reset, one signal may stand for several references, and a
\* purge resets it).
NoLostWakeup == queue # <<>> /\ ~DELETED => wait_o = "set" \/ pc = "woken"

\* A reference is in one place only: once in the queue, or in the hands of one
\* poster, of kmq_dispatch or of kmq_purge_queue, and only then off the free
\* list; so it is put back once, and its message's count lowered once.
Built == {building[t] : t \in Threads}

RefsInOnePlace ==
    /\ IsInjective(queue)
    /\ \A t, u \in Threads : building[t] = building[u] /\ building[t] # NoRef => t = u
    /\ \A r \in Refs :
         /\ r \in ToSet(queue) => r \notin Built \cup {cur, purged}
         /\ r \in Built => r \notin {cur, purged}
         /\ cur = r => purged # r
         /\ refmsg[r] = NoMsg <=> r \notin ToSet(queue) \cup Built \cup {cur, purged}

\* A reference put in the queue of a thread that goes on running is taken out
\* again, by a dispatch or a purge, however posts, purges and wake-ups
\* interleave.
Delivered == \A r \in Refs : r \in ToSet(queue) ~> (r \notin ToSet(queue) \/ DELETED)

-----------------------------------------------------------------------------
(* The inductive invariant behind the three safety properties. *)

\* What each phase of the owner holds.
PhaseOK ==
    /\ pc \in {"got", "callback", "drain"} => cur # NoRef
    /\ pc \in {"idle", "woken", "exited", "drained", "detached"} => cur = NoRef
    /\ purged # NoRef <=> pc = "purged"
    /\ DELETED <=> pc \in {"drain", "drained", "detached"}
    /\ building[Owner] # NoRef => pc \in {"idle", "callback"}

\* While the owner is attached, each signal, set or consumed, means a reference:
\* two of them when a second post came between the wait and the fetch.
SignalOK ==
    ~DELETED => /\ wait_o # "closed"
                /\ wait_o = "set" \/ pc = "woken" => queue # <<>>
                /\ wait_o = "set" /\ pc = "woken" => Len(queue) > 1

\* The conjunction that every step preserves: it says of the owner's phase what
\* NoNullRef and NoLostWakeup leave open.
IInv == TypeOK /\ PhaseOK /\ SignalOK /\ NoLostWakeup /\ RefsInOnePlace

-----------------------------------------------------------------------------
\* kmq_purge_queue as kmq.h:591 describes it: when it returns, no message that
\* matches is in the queue.
PurgesAll ==
    [][pc = "purge" /\ pc' \in {"idle", "callback"} =>
         \A i \in DOMAIN queue : refmsg[queue[i]] \notin match]_vars
=============================================================================
