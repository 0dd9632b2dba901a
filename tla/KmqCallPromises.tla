--------------------------- MODULE KmqCallPromises ---------------------------
(***************************************************************************)
(* Proofs about what KMQ promises its callers: that the current message of a *)
(* thread is that of the innermost handler it is in, that a quit is waited  *)
(* for until its thread has taken it, and that a send returns when every    *)
(* subscriber has finished.  They rest on the invariant of KmqCallProofs,   *)
(* and on one lemma, NextDoes: whatever its action, a step changes one frame *)
(* of one thread and one message, in one of four ways.                      *)
(***************************************************************************)
EXTENDS KmqCallProofs

-----------------------------------------------------------------------------
(* The four kinds of steps: a call begins, goes on, a recipient takes the   *)
(* message from a queue, or the message is settled.                         *)

\* The frame f of t at k makes way for g, and no message but m changes.
Turn(t, k, f, g, m) ==
    /\ Shifts(t, k, f, g) /\ f.m \in {m, NoMsg} /\ g.m \in {m, NoMsg}
    /\ \A x \in Msgs \ {m} : msg'[x] = msg[x]

\* The recipients that a message still waits for, as its counters say.
Owed(r) == r.nSent - r.nCompleted - r.nFailed

\* A frame that is there after a step was there before it, or was brought by it.
LEMMA Elsewhere ==
    ASSUME Inv, Inv', NEW t \in Threads, NEW k, NEW f, NEW g, Shifts(t, k, f, g),
           NEW u \in Threads, NEW i \in DOMAIN stack'[u]
    PROVE  \/ u = t /\ i = k /\ stack'[u][i] = g
           \/ /\ ~(u = t /\ i = k) /\ i \in DOMAIN stack[u]
              /\ SameFrame(stack'[u][i], stack[u][i])
<1>1. i \in Nat
  BY InvHasNext DEF StacksOK
<1>2. CASE u = t /\ i = k
  BY <1>2 DEF Shifts, FrameIs
<1>3. CASE u = t /\ i # k
  BY <1>1, <1>3 DEF Shifts, StackStep
<1>4. CASE u # t
  BY <1>4 DEF Shifts, StackStep, SameFrame
<1> QED
  BY <1>2, <1>3, <1>4

\* The frame that a step changes is one of the stack, or none.
LEMMA FromFrame ==
    ASSUME NEW t, NEW k, NEW f, NEW g, Shifts(t, k, f, g)
    PROVE  (k \in DOMAIN stack[t] /\ f = stack[t][k]) \/ f = NoFrame
BY DEF Shifts, FrameIs

LEMMA NoFrameIs == NoFrame.m = NoMsg /\ NoFrame.pc = "drained" /\ NoFrame.api = "none"
BY DEF NoFrame, Frame

\* A frame of a kind is counted, and two are counted twice.
LEMMA FrameCounted ==
    ASSUME Inv, NEW u \in Threads, NEW i \in DOMAIN stack[u], NEW x \in Msgs, stack[u][i].m = x,
           NEW pcs \in SUBSET Pcs, stack[u][i].pc \in pcs
    PROVE  Cardinality(FramesOf(x, pcs)) \in Nat /\ Cardinality(FramesOf(x, pcs)) >= 1
<1>1. <<u, i>> \in FramesOf(x, pcs)
  BY InFramesOf
<1>2. IsFiniteSet(FramesOf(x, pcs))
  BY InvHas, FinitePart
<1>3. Cardinality(FramesOf(x, pcs)) \in Nat /\ Cardinality(FramesOf(x, pcs)) # 0
  BY <1>1, <1>2, FS_CardinalityType, FS_EmptySet
<1> QED
  BY <1>3

LEMMA TwoFrames ==
    ASSUME Inv, NEW u \in Threads, NEW i \in DOMAIN stack[u], NEW x \in Msgs, stack[u][i].m = x,
           NEW v \in Threads, NEW j \in DOMAIN stack[v], stack[v][j].m = x, ~(u = v /\ i = j),
           NEW pcs \in SUBSET Pcs, stack[u][i].pc \in pcs, stack[v][j].pc \in pcs
    PROVE  Cardinality(FramesOf(x, pcs)) \in Nat /\ Cardinality(FramesOf(x, pcs)) >= 2
<1> DEFINE S == FramesOf(x, pcs)
           p == <<u, i>>
           q == <<v, j>>
<1>1. p \in S /\ q \in S /\ p # q
  BY InFramesOf
<1>2. IsFiniteSet(S)
  BY InvHas, FinitePart
<1> HIDE DEF S, p, q
<1>3. Cardinality(S) \in Nat /\ IsFiniteSet(S \ {p})
      /\ Cardinality(S \ {p}) = Cardinality(S) - 1
  BY <1>1, <1>2, FS_RemoveElement, FS_CardinalityType
<1>4. Cardinality(S \ {p}) \in Nat /\ Cardinality(S \ {p}) # 0
  <2> DEFINE T == S \ {p}
  <2>1. q \in T /\ IsFiniteSet(T)
    BY <1>1, <1>3
  <2> HIDE DEF T
  <2>2. Cardinality(T) \in Nat /\ Cardinality(T) # 0
    BY <2>1, FS_CardinalityType, FS_EmptySet
  <2> QED
    BY <2>2 DEF T
<1>5. Cardinality(S) >= 2
  BY <1>3, <1>4
<1> QED
  BY <1>3, <1>5 DEF S

\* A message that a call or a recipient is at is active.
LEMMA FrameActive ==
    ASSUME Inv, NEW u \in Threads, NEW i \in DOMAIN stack[u],
           stack[u][i].pc \in CallPcs \cup RecipientPcs
    PROVE  /\ stack[u][i] \in FrameType /\ FrameOK(u, i, stack[u][i])
           /\ stack[u][i].m \in Msgs /\ msg[stack[u][i].m].state = "active"
           /\ msg[stack[u][i].m] \in MessageType
<1>1. stack[u][i] \in FrameType /\ FrameOK(u, i, stack[u][i])
  BY InvHas DEF StacksOK, StackShape
<1>2. PICK m \in Msgs : stack[u][i].m = m
  BY <1>1 DEF FrameOK, FrameType, RecipientPcs, CallPcs
<1>3. Cardinality(FramesOf(m, CallPcs)) >= 1 \/ Cardinality(FramesOf(m, RecipientPcs)) >= 1
  BY <1>2, PcsParts, FrameCounted
<1>4. msg[m].state # "active" => Uses(m).calls = 0 /\ Uses(m).running = 0
  BY InvParts DEF Ledger, Balanced
<1>5. Uses(m).calls >= 1 \/ Uses(m).running >= 1
  BY <1>3 DEF Uses
<1> HIDE DEF Uses
<1>6. msg[m].state = "active"
  BY <1>4, <1>5
<1> QED
  BY <1>1, <1>2, <1>6, InvHas

\* A message belongs to one call.
LEMMA OneCall ==
    ASSUME Inv, NEW u \in Threads, NEW i \in DOMAIN stack[u], stack[u][i].pc \in CallPcs,
           NEW v \in Threads, NEW j \in DOMAIN stack[v], stack[v][j].pc \in CallPcs,
           stack[u][i].m = stack[v][j].m
    PROVE  u = v /\ i = j
<1> SUFFICES ASSUME ~(u = v /\ i = j) PROVE FALSE
  OBVIOUS
<1>1. PICK m \in Msgs : stack[u][i].m = m
  BY FrameActive
<1>2. Cardinality(FramesOf(m, CallPcs)) >= 2
  BY <1>1, PcsParts, TwoFrames
<1>3. Uses(m).calls >= 2
  BY <1>2 DEF Uses
<1>4. Uses(m) \in UsesType /\ Uses(m).calls + Uses(m).keepers <= 1
  BY LedgerTyped DEF Balanced
<1> HIDE DEF Uses
<1> QED
  BY <1>3, <1>4 DEF UsesType

\* A call makes m, which it posts, or has a handle of, or has thrown away.
Begins(t, k, g, m) ==
    /\ Turn(t, k, NoFrame, g, m) /\ m \in Msgs
    /\ msg[m].state = "free" /\ msg'[m].event # "set" /\ Owed(msg'[m]) = 0
    /\ \/ g = NoFrame
       \/ /\ g.m = m /\ g.pc \in {"publish", "count", "wait"} /\ g.api \in Calls[t]
          /\ msg'[m].exit <=> g.api \in Quits
    /\ UNCHANGED <<queue, wq, last_msg>>

\* An entry for m is put at the end of the queue of v.
Puts(v, m) == \E n : queue' = [queue EXCEPT ![v] = Append(@, [m |-> m, sub |-> n])]

\* What the place of a posting frame takes from what its message is owed.
Due(pc) == IF pc = "direct" THEN 1 ELSE IF pc = "sent" THEN 0 - 1 ELSE 0

\* The subscribers before the n-th run on the thread t.
OwnFirst(t, n) == \A j \in 1 .. n - 1 : Subs[j].thread = t

\* The subscriber that the frame f of t is at is not called from the loop.
Foreign(t, f) == TrySend(f.api) => Subs[f.i].thread # t

\* How a posting loop of t gets from f to g, m being r before and s after.  As
\* long as its own thread runs every subscriber, only the one it is at is owed.
Loops(t, f, g, r, s) ==
    /\ g.pc = "put" => Foreign(t, g)
    /\ g.pc \in {"direct", "window", "sent"} => g.i \in DOMAIN Subs /\ Subs[g.i].thread = t
    /\ g.pc \in {"window", "sent"} => Subs[g.i].kind = "HWND"
    /\ /\ f.pc = "put" => Foreign(t, f)
       /\ g.pc \in PublisherPcs /\ TrySend(g.api) /\ OwnFirst(t, g.i)
       => OwnFirst(t, f.i) /\ Owed(s) = Owed(r) - Due(f.pc) + Due(g.pc)

\* The loop gives its thread a message where it starts a window procedure.
LastInLoop(t, f, g, m) ==
    IF g.pc = "window" THEN f.pc = "publish" /\ last_msg' = [last_msg EXCEPT ![t] = m]
    ELSE UNCHANGED last_msg

\* The call that m belongs to goes on.
Carries(t, k, f, g, m) ==
    /\ Turn(t, k, f, g, m) /\ m \in Msgs
    /\ f.m = m /\ f.pc \in PublisherPcs \ {"window"}
    /\ \/ g = NoFrame
       \/ /\ g.m = m /\ g.api = f.api /\ g.to = f.to
          /\ g.pc \in PublisherPcs \ {"sent"} \/ (f.pc = "counted" /\ g.pc = "wait")
          /\ Loops(t, f, g, msg[m], msg'[m])
    /\ msg'[m].event = msg[m].event /\ msg'[m].exit = msg[m].exit
    /\ UNCHANGED queue \/ \E v \in Threads : Puts(v, m) /\ (f.api \in Quits => v = f.to)
    /\ \/ UNCHANGED wq
       \/ \E v \in Threads : wq' = [wq EXCEPT ![v] = Append(@, m)] /\ f.api \notin Quits
    /\ LastInLoop(t, f, g, m)

\* A reference to m moves from a queue of t to a frame of its own.
Takes(t, k, f, g, m) ==
    /\ Turn(t, k, f, g, m) /\ m \in Msgs /\ UNCHANGED msg
    /\ f.m = NoMsg /\ g.m = m /\ g.api = "none" /\ g.pc \in {"callback", "exit", "drain", "wm"}
    /\ f.pc = "exited" => deleted'[t]
    /\ \/ /\ g.pc = "wm" /\ wq[t] # <<>> /\ m = Head(wq[t])
          /\ wq' = [wq EXCEPT ![t] = Tail(@)] /\ UNCHANGED queue
       \/ /\ g.pc \in {"callback", "exit", "drain"} /\ queue[t] # <<>> /\ m = Head(queue[t]).m
          /\ queue' = [queue EXCEPT ![t] = Tail(@)] /\ UNCHANGED wq
          /\ g.pc = "callback" => ~msg[m].exit
    /\ IF g.pc \in {"callback", "wm"} THEN last_msg' = [last_msg EXCEPT ![t] = m]
       ELSE UNCHANGED last_msg

\* Nothing of m, or less of it, is left to do; m is NoMsg where there is none.
Finishing == {"callback", "exit", "drain", "wm", "window"}

\* What is left of a message that was r and is s, after a frame at pc.
Lessens(r, s, pc) ==
    /\ r.state = "active" /\ s.exit = r.exit
    /\ Owed(s) = Owed(r) - OneIf(pc \in Finishing)
    /\ s.event = "set" =>
         \/ r.event = "set"
         \/ pc \in Finishing \cup {"publish"} /\ Owed(s) = 0 /\ cs_msg' = NoThread

Outcome(m, pc) == msg'[m].state = "active" => Lessens(msg[m], msg'[m], pc)

Settled(t, k, f, g, m) ==
    /\ Turn(t, k, f, g, m)
    /\ f.pc \in Finishing => f.m = m
    /\ f.pc = "exit" => At(t, "exited")'
    /\ f.pc = "exited" => deleted'[t]
    /\ m \in Msgs => Outcome(m, f.pc)
    /\ \/ g.m = NoMsg /\ g.pc \in {"woken", "exited", "drained"}
       \/ g.pc = "handler"
       \/ /\ g.m = m /\ f.m = m /\ g.api = f.api /\ g.to = f.to /\ g.i = f.i
          /\ <<f.pc, g.pc>> \in {<<"publish", "wait">>, <<"wait", "waited">>, <<"window", "sent">>}
          /\ g.pc = "waited" => msg[m].event = "set"
    /\ UNCHANGED <<queue, wq>>
    /\ IF f.pc \in Handling THEN last_msg' = [last_msg EXCEPT ![t] = NoMsg] ELSE UNCHANGED last_msg

\* What a step of t may be.
Does(t) == \E k, f, g, m : \/ Begins(t, k, g, m) \/ Carries(t, k, f, g, m)
                           \/ Takes(t, k, f, g, m) \/ Settled(t, k, f, g, m)

-----------------------------------------------------------------------------
(* A call begins.                                                           *)

LEMMA NewMessage ==
    ASSUME NEW api
    PROVE  LET r == [FreeMessage EXCEPT !.state = "active",
                       !.refcount = IF HasCall(api) THEN 1 ELSE 0,
                       !.event = IF HasCall(api) THEN "clear" ELSE "none"]
               s == [FreeMessage EXCEPT !.state = "active", !.exit = TRUE,
                       !.refcount = IF HasCall(api) THEN 1 ELSE 0,
                       !.event = IF HasCall(api) THEN "clear" ELSE "none"]
           IN
           /\ r.event # "set" /\ Owed(r) = 0 /\ r.exit = FALSE
           /\ s.event # "set" /\ Owed(s) = 0 /\ s.exit = TRUE
BY DEF FreeMessage, Owed

LEMMA PostDoes ==
    ASSUME Inv, Inv', NEW t \in Threads, NEW api \in Posts, Post(t, api)
    PROVE  Does(t)
<1> DEFINE s == Caller(t)
           n == Len(stack[t]) + 1
           r == [FreeMessage EXCEPT !.state = "active",
                   !.refcount = IF HasCall(api) THEN 1 ELSE 0,
                   !.event = IF HasCall(api) THEN "clear" ELSE "none"]
<1>1. MayCall(t, api)
  BY DEF Post
<1>2. /\ s \in Seq(FrameType) /\ Len(s) = Len(stack[t])
      /\ \A i \in 1 .. Len(s) : SameFrame(s[i], stack[t][i])
  BY <1>1, CallerFacts
<1>3. api \in Calls[t] /\ api \notin Quits
  BY <1>1 DEF MayCall, Posts, Quits
<1> HIDE DEF s
<1>4. PICK m \in Msgs : /\ msg[m].state = "free" /\ msg' = [msg EXCEPT ![m] = r]
                        /\ stack' = [stack EXCEPT ![t] = Append(s, Frame("publish", m, api))]
  BY DEF Post, s
<1>5. r.event # "set" /\ Owed(r) = 0 /\ r.exit = FALSE
  BY NewMessage
<1> HIDE DEF r
<1> DEFINE g == Frame("publish", m, api)
<1>6. g \in FrameType /\ g.m = m /\ g.pc = "publish" /\ g.api = api
  <2>1. 1 \in 1 .. Len(Subs) + 1 /\ 0 \in 0 .. MaxCalls
    BY CallAssumption
  <2> QED
    BY <2>1 DEF Frame, FrameType, Pcs
<1> HIDE DEF g
<1>7. Pushes(t, s, g)
  BY <1>2, <1>4 DEF Pushes, g
<1>8. Shifts(t, n, NoFrame, g)
  BY <1>6, <1>7, PushShifts
<1>9. msg'[m] = r /\ \A x \in Msgs \ {m} : msg'[x] = msg[x]
  BY <1>4, InvHas
<1>10. Turn(t, n, NoFrame, g, m)
  BY <1>6, <1>8, <1>9, NoFrameIs DEF Turn
<1>11. UNCHANGED <<queue, wq, last_msg>>
  BY DEF Post
<1>12. Begins(t, n, g, m)
  BY <1>3, <1>4, <1>5, <1>6, <1>9, <1>10, <1>11 DEF Begins
<1> QED
  BY <1>12 DEF Does

LEMMA QuitDoes ==
    ASSUME Inv, Inv', NEW t \in Threads, NEW u \in Threads, NEW api \in Quits, Quit(t, u, api)
    PROVE  Does(t)
<1> DEFINE s == Caller(t)
           n == Len(stack[t]) + 1
           r == [FreeMessage EXCEPT !.state = "active", !.exit = TRUE,
                   !.refcount = IF HasCall(api) THEN 1 ELSE 0,
                   !.event = IF HasCall(api) THEN "clear" ELSE "none"]
<1>1. MayCall(t, api)
  BY DEF Quit
<1>2. /\ s \in Seq(FrameType) /\ Len(s) = Len(stack[t])
      /\ \A i \in 1 .. Len(s) : SameFrame(s[i], stack[t][i])
      /\ stack[t] # <<>> => Top(t).pc \in UserCode
  BY <1>1, CallerFacts
<1> HIDE DEF s
<1>3. api \in Calls[t]
  BY <1>1 DEF MayCall
<1>4. PICK m \in Msgs :
        /\ msg[m].state = "free" /\ msg' = [msg EXCEPT ![m] = r]
        /\ LET f == [Frame("count", m, api) EXCEPT !.to = u] IN
           stack' = [stack EXCEPT ![t] =
               IF ~deleted[u] THEN Append(s, f)
               ELSE IF Waits(api) THEN Append(s, [f EXCEPT !.pc = "wait"])
               ELSE s]
  BY DEF Quit, s
<1>5. r.event # "set" /\ Owed(r) = 0 /\ r.exit = TRUE
  BY NewMessage
<1> HIDE DEF r
<1> DEFINE f == [Frame("count", m, api) EXCEPT !.to = u]
           w == [f EXCEPT !.pc = "wait"]
<1>6. /\ f \in FrameType /\ f.m = m /\ f.pc = "count" /\ f.api = api
      /\ w \in FrameType /\ w.m = m /\ w.pc = "wait" /\ w.api = api
  <2>1. 1 \in 1 .. Len(Subs) + 1 /\ 0 \in 0 .. MaxCalls
    BY CallAssumption
  <2> QED
    BY <2>1 DEF Frame, FrameType, Pcs
<1>7. \/ stack' = [stack EXCEPT ![t] = Append(s, f)]
      \/ stack' = [stack EXCEPT ![t] = Append(s, w)]
      \/ stack' = [stack EXCEPT ![t] = s]
  BY <1>4
<1> HIDE DEF f, w
<1>8. PICK g : /\ Shifts(t, n, NoFrame, g)
               /\ g = NoFrame \/ (g.m = m /\ g.pc \in {"count", "wait"} /\ g.api = api)
  <2>1. CASE stack' = [stack EXCEPT ![t] = s]
    <3>1. Shifts(t, n, NoFrame, NoFrame)
      BY <1>2, <2>1, InvHas, IdleStep
    <3> QED
      BY <3>1
  <2>2. CASE stack' # [stack EXCEPT ![t] = s]
    <3>1. Pushes(t, s, f) \/ Pushes(t, s, w)
      BY <1>2, <1>7, <2>2 DEF Pushes
    <3> QED
      BY <1>6, <3>1, PushShifts
  <2> QED
    BY <2>1, <2>2
<1>9. msg'[m] = r /\ \A x \in Msgs \ {m} : msg'[x] = msg[x]
  BY <1>4, InvHas
<1>10. Turn(t, n, NoFrame, g, m)
  BY <1>8, <1>9, NoFrameIs DEF Turn
<1>11. UNCHANGED <<queue, wq, last_msg>>
  BY DEF Quit
<1>12. Begins(t, n, g, m)
  BY <1>3, <1>4, <1>5, <1>8, <1>9, <1>10, <1>11 DEF Begins
<1> QED
  BY <1>12 DEF Does

-----------------------------------------------------------------------------
(* The posting loop.                                                        *)

\* How what a message is owed changes with its fields.
LEMMA AddRefOwed ==
    ASSUME NEW m \in Msgs, msg[m] \in MessageType
    PROVE  /\ AddRef(m).event = msg[m].event /\ AddRef(m).exit = msg[m].exit
           /\ Owed(AddRef(m)) = Owed(msg[m]) + 1
<1> DEFINE a == msg[m].nSent
           b == msg[m].nCompleted
           c == msg[m].nFailed
<1>1. /\ AddRef(m).event = msg[m].event /\ AddRef(m).exit = msg[m].exit
      /\ AddRef(m).nSent = a + 1 /\ AddRef(m).nCompleted = b /\ AddRef(m).nFailed = c
  BY DEF AddRef, MessageType
<1>2. a \in Nat /\ b \in Nat /\ c \in Nat
  BY DEF MessageType
<1>3. Owed(AddRef(m)) = (a + 1) - b - c /\ Owed(msg[m]) = a - b - c
  BY <1>1 DEF Owed
<1> HIDE DEF a, b, c
<1> QED
  BY <1>1, <1>2, <1>3

LEMMA CountWindowOwed ==
    ASSUME NEW m \in Msgs, msg[m] \in MessageType
    PROVE  /\ CountWindow(m).event = msg[m].event /\ CountWindow(m).exit = msg[m].exit
           /\ Owed(CountWindow(m)) = Owed(msg[m]) + 1
<1> DEFINE a == msg[m].nSent
           b == msg[m].nCompleted
           c == msg[m].nFailed
<1>1. /\ CountWindow(m).event = msg[m].event /\ CountWindow(m).exit = msg[m].exit
      /\ CountWindow(m).nSent = a + 1 /\ CountWindow(m).nCompleted = b /\ CountWindow(m).nFailed = c
  BY DEF CountWindow, MessageType
<1>2. a \in Nat /\ b \in Nat /\ c \in Nat
  BY DEF MessageType
<1>3. Owed(CountWindow(m)) = (a + 1) - b - c /\ Owed(msg[m]) = a - b - c
  BY <1>1 DEF Owed
<1> HIDE DEF a, b, c
<1> QED
  BY <1>1, <1>2, <1>3

LEMMA AddWindowRefsOwed ==
    ASSUME NEW m \in Msgs, msg[m] \in MessageType
    PROVE  /\ AddWindowRefs(m).event = msg[m].event /\ AddWindowRefs(m).exit = msg[m].exit
           /\ Owed(AddWindowRefs(m)) = Owed(msg[m])
BY DEF AddWindowRefs, MessageType, Owed

LEMMA FinishedOwed ==
    ASSUME NEW s \in MessageType, NEW ok \in BOOLEAN, s.refcount >= 1
    PROVE  /\ Finished(s, ok).event = s.event /\ Finished(s, ok).exit = s.exit
           /\ Owed(Finished(s, ok)) = Owed(s) - 1
<1> DEFINE r == Finished(s, ok)
           a == s.nSent
           b == s.nCompleted
           c == s.nFailed
<1>1. /\ r.nSent = a
      /\ \/ r.nCompleted = b + 1 /\ r.nFailed = c
         \/ r.nCompleted = b /\ r.nFailed = c + 1
  BY FinishedIs
<1>2. r.event = s.event /\ r.exit = s.exit
  BY DEF Finished, Counted, MessageType
<1>3. a \in Nat /\ b \in Nat /\ c \in Nat
  BY DEF MessageType
<1>4. Owed(r) = r.nSent - r.nCompleted - r.nFailed /\ Owed(s) = a - b - c
  BY DEF Owed
<1> HIDE DEF r, a, b, c
<1>5. Owed(r) = Owed(s) - 1
  BY <1>1, <1>3, <1>4
<1> QED
  BY <1>2, <1>5 DEF r

LEMMA OwedTyped == \A r \in MessageType : Owed(r) \in Int
BY DEF MessageType, Owed

\* The loop is past a recipient that another thread runs, or that is skipped.
LEMMA LoopsPast ==
    ASSUME NEW t, NEW f \in FrameType, NEW g, NEW r, NEW s, f.i \in DOMAIN Subs,
           g.pc = "publish", g.i = f.i + 1, g.api = f.api,
           f.pc = "put" \/ Foreign(t, f)
    PROVE  Loops(t, f, g, r, s)
<1>1. f.i \in 1 .. g.i - 1
  BY CallAssumption DEF FrameType
<1>2. TrySend(g.api) /\ Foreign(t, f) => ~OwnFirst(t, g.i)
  BY <1>1 DEF OwnFirst, Foreign
<1> QED
  BY <1>2 DEF Loops

\* The loop is at, or past, a recipient that its own thread runs.
LEMMA LoopsOwn ==
    ASSUME NEW t, NEW f \in FrameType, NEW g, NEW r \in MessageType, NEW s,
           f.i \in DOMAIN Subs,
           \/ g.i = f.i /\ g.pc = "put" /\ Foreign(t, g)
           \/ /\ g.i = f.i /\ Subs[f.i].thread = t
              /\ g.pc \in {"direct", "window", "sent"}
              /\ g.pc \in {"window", "sent"} => Subs[f.i].kind = "HWND"
           \/ g.i = f.i + 1 /\ g.pc = "publish",
           Owed(s) = Owed(r) - Due(f.pc) + Due(g.pc)
    PROVE  Loops(t, f, g, r, s)
<1>1. OwnFirst(t, g.i) => OwnFirst(t, f.i)
  <2>1. f.i \in Nat /\ (g.i = f.i \/ g.i = f.i + 1)
    BY CallAssumption DEF FrameType
  <2> DEFINE a == f.i
             b == g.i
  <2>2. 1 .. a - 1 \subseteq 1 .. b - 1
    <3> HIDE DEF a, b
    <3>1. a \in Nat /\ (b = a \/ b = a + 1)
      BY <2>1 DEF a, b
    <3> QED
      BY <3>1
  <2> QED
    BY <2>2 DEF OwnFirst
<1> QED
  BY <1>1 DEF Loops

\* The frame of the call makes way for the next one of it.
Proceeds(t, m, g, r) ==
    /\ stack[t] # <<>> /\ Top(t).m = m /\ Top(t).pc \in PublisherPcs \ {"window"}
    /\ Changes(t, g) /\ g.m = m /\ g.api = Top(t).api /\ g.to = Top(t).to
    /\ g.pc \in PublisherPcs \ {"sent"} \/ (Top(t).pc = "counted" /\ g.pc = "wait")
    /\ msg' = [msg EXCEPT ![m] = r] /\ r.event = msg[m].event /\ r.exit = msg[m].exit
    /\ Loops(t, Top(t), g, msg[m], r)
    /\ \/ UNCHANGED queue
       \/ \E v \in Threads : Puts(v, m) /\ (Top(t).api \in Quits => v = Top(t).to)
    /\ \/ UNCHANGED wq
       \/ \E v \in Threads : wq' = [wq EXCEPT ![v] = Append(@, m)] /\ Top(t).api \notin Quits
    /\ LastInLoop(t, Top(t), g, m)

LEMMA LoopCarries ==
    ASSUME Inv, Inv', NEW t \in Threads, NEW m \in Msgs, NEW g \in FrameType, NEW r,
           Proceeds(t, m, g, r)
    PROVE  Does(t)
<1> DEFINE k == Len(stack[t])
           f == Top(t)
<1>1. Shifts(t, k, f, g)
  BY ChangeShifts DEF Proceeds
<1>2. msg'[m] = r /\ \A x \in Msgs \ {m} : msg'[x] = msg[x]
  BY InvHas DEF Proceeds
<1>3. Turn(t, k, f, g, m)
  BY <1>1, <1>2 DEF Turn, Proceeds
<1> HIDE DEF k
<1>4. Carries(t, k, f, g, m)
  BY <1>2, <1>3 DEF Carries, Proceeds
<1> QED
  BY <1>4 DEF Does

\* The frame of a call that is posting, and what it may become.
LEMMA LoopFrame ==
    ASSUME Inv, NEW t \in Threads, stack[t] # <<>>, Top(t).pc \in PublisherPcs
    PROVE  /\ Top(t) \in FrameType /\ Top(t).m \in Msgs /\ msg[Top(t).m] \in MessageType
           /\ FrameOK(t, Len(stack[t]), Top(t))
           /\ \A pc \in Pcs : LET g == [Top(t) EXCEPT !.pc = pc, !.calls = 0] IN
                /\ g \in FrameType /\ g.pc = pc /\ g.m = Top(t).m /\ g.api = Top(t).api
                /\ g.i = Top(t).i /\ g.to = Top(t).to
           /\ Top(t).i <= Len(Subs) =>
                LET g == [Top(t) EXCEPT !.pc = "publish", !.i = Top(t).i + 1, !.calls = 0] IN
                /\ g \in FrameType /\ g.pc = "publish" /\ g.m = Top(t).m /\ g.api = Top(t).api
                /\ g.i = Top(t).i + 1 /\ g.to = Top(t).to /\ Top(t).i \in DOMAIN Subs
<1>1. /\ Top(t) \in FrameType /\ Top(t).m \in Msgs /\ msg[Top(t).m] \in MessageType
      /\ FrameOK(t, Len(stack[t]), Top(t))
  BY TopActive
<1>2. ASSUME NEW pc \in Pcs
      PROVE  LET g == [Top(t) EXCEPT !.pc = pc, !.calls = 0] IN
             /\ g \in FrameType /\ g.pc = pc /\ g.m = Top(t).m /\ g.api = Top(t).api
             /\ g.i = Top(t).i /\ g.to = Top(t).to
  BY <1>1, MovedFrame
<1>3. ASSUME Top(t).i <= Len(Subs)
      PROVE  LET g == [Top(t) EXCEPT !.pc = "publish", !.i = Top(t).i + 1, !.calls = 0] IN
             /\ g \in FrameType /\ g.pc = "publish" /\ g.m = Top(t).m /\ g.api = Top(t).api
             /\ g.i = Top(t).i + 1 /\ g.to = Top(t).to /\ Top(t).i \in DOMAIN Subs
  <2>1. Top(t).i \in DOMAIN Subs
    BY <1>1, <1>3, CallAssumption DEF FrameType
  <2> QED
    BY <1>1, <1>3, <2>1, NextSubFrame DEF FrameType
<1> QED
  BY <1>1, <1>2, <1>3

LEMMA PostCheckDoes ==
    ASSUME Inv, Inv', NEW t \in Threads, PostCheck(t)
    PROVE  Does(t)
<1>1. /\ stack[t] # <<>> /\ Top(t).pc = "publish" /\ Top(t).i <= Len(Subs)
      /\ UNCHANGED <<msg, queue, wq, last_msg>> /\ ~Direct(t)
  BY DEF PostCheck, AtSub, At
<1>2. Top(t).pc \in PublisherPcs \ {"window"}
  BY <1>1 DEF PublisherPcs
<1>3. /\ Top(t) \in FrameType /\ Top(t).m \in Msgs /\ msg[Top(t).m] \in MessageType
  BY <1>1, <1>2, LoopFrame
<1>4. PICK m \in Msgs : Top(t).m = m
  BY <1>3
<1> DEFINE x == [Top(t) EXCEPT !.pc = "publish", !.i = Top(t).i + 1, !.calls = 0]
           y == [Top(t) EXCEPT !.pc = "put", !.calls = 0]
<1>5. /\ x \in FrameType /\ x.pc = "publish" /\ x.m = m /\ x.api = Top(t).api
      /\ x.i = Top(t).i + 1 /\ x.to = Top(t).to /\ Top(t).i \in DOMAIN Subs
  BY <1>1, <1>2, <1>4, LoopFrame
<1>6. /\ y \in FrameType /\ y.pc = "put" /\ y.m = m /\ y.api = Top(t).api
      /\ y.i = Top(t).i /\ y.to = Top(t).to
  <2>1. "put" \in Pcs
    BY DEF Pcs
  <2> QED
    BY <1>1, <1>2, <1>4, <2>1, LoopFrame
<1>7. Changes(t, x) \/ Changes(t, y)
  BY <1>1 DEF PostCheck, Changes, NextSub, Goto, Moved
<1>8. msg' = [msg EXCEPT ![m] = msg[m]]
  BY <1>1, InvHas
<1> HIDE DEF x, y
<1>9. Loops(t, Top(t), x, msg[m], msg[m])
  BY <1>1, <1>3, <1>5, LoopsPast DEF Direct, Sub, Foreign
<1>10. Loops(t, Top(t), y, msg[m], msg[m])
  <2>1. Owed(msg[m]) = Owed(msg[m]) - Due(Top(t).pc) + Due("put")
    BY <1>1, <1>3, <1>4, OwedTyped DEF Due
  <2>2. Foreign(t, y)
    BY <1>1, <1>6 DEF Direct, Sub, Foreign
  <2> QED
    BY <1>3, <1>4, <1>5, <1>6, <2>1, <2>2, LoopsOwn
<1>11. PICK g \in FrameType :
         /\ Changes(t, g) /\ g.m = m /\ g.api = Top(t).api /\ g.to = Top(t).to
         /\ g.pc \in PublisherPcs \ {"sent", "window"} /\ Loops(t, Top(t), g, msg[m], msg[m])
  BY <1>5, <1>6, <1>7, <1>9, <1>10 DEF PublisherPcs
<1>12. Proceeds(t, m, g, msg[m])
  BY <1>1, <1>2, <1>4, <1>8, <1>11 DEF Proceeds, LastInLoop
<1> QED
  BY <1>11, <1>12, LoopCarries

\* The two ways in which a subscriber of another thread gets the message.
LEMMA PostOtherDoes ==
    ASSUME Inv, Inv', NEW t \in Threads, PostPut(t) \/ PostWindow(t)
    PROVE  Does(t)
<1>1. /\ stack[t] # <<>> /\ Top(t).pc \in {"publish", "put"}
      /\ UNCHANGED last_msg
  BY DEF PostPut, PostWindow, AtSub, At
<1>2. Top(t).pc \in PublisherPcs \ {"window"}
  BY <1>1 DEF PublisherPcs
<1>3. /\ Top(t) \in FrameType /\ Top(t).m \in Msgs /\ msg[Top(t).m] \in MessageType
      /\ FrameOK(t, Len(stack[t]), Top(t))
  BY <1>1, <1>2, LoopFrame
<1>4. PICK m \in Msgs : Top(t).m = m
  BY <1>3
<1>5. Top(t).i <= Len(Subs)
  BY <1>3 DEF PostPut, PostWindow, AtSub, At, FrameOK
<1> DEFINE g == [Top(t) EXCEPT !.pc = "publish", !.i = Top(t).i + 1, !.calls = 0]
           r == AddRef(m)
<1>6. /\ g \in FrameType /\ g.pc = "publish" /\ g.m = m /\ g.api = Top(t).api
      /\ g.i = Top(t).i + 1 /\ g.to = Top(t).to /\ Top(t).i \in DOMAIN Subs
  BY <1>1, <1>2, <1>4, <1>5, LoopFrame
<1>7. Changes(t, g)
  BY <1>1 DEF PostPut, PostWindow, Changes, NextSub
<1>8. msg' = [msg EXCEPT ![m] = r]
  BY <1>4 DEF PostPut, PostWindow
<1>9. r.event = msg[m].event /\ r.exit = msg[m].exit
  BY <1>3, <1>4, AddRefOwed
<1>10. \/ UNCHANGED <<queue>> /\ \E v \in Threads : wq' = [wq EXCEPT ![v] = Append(@, m)]
       \/ UNCHANGED wq /\ \E v \in Threads : Puts(v, m)
  <2>1. Sub(t).thread \in Threads
    BY <1>1, <1>5, AtSubFacts
  <2>2. CASE PostPut(t)
    BY <1>4, <2>1, <2>2 DEF PostPut, Enqueue, Puts
  <2>3. CASE PostWindow(t)
    BY <1>4, <2>1, <2>3 DEF PostWindow
  <2> QED
    BY <2>2, <2>3
<1>11. Top(t).api \notin Quits
  BY <1>1, <1>3 DEF FrameOK, Posts, Quits
<1>12. g.pc \in PublisherPcs \ {"sent"}
  BY <1>6 DEF PublisherPcs
<1>13. Loops(t, Top(t), g, msg[m], r)
  <2>1. Top(t).pc = "put" \/ Foreign(t, Top(t))
    BY DEF PostPut, PostWindow, At, Direct, Sub, Foreign
  <2> HIDE DEF g, r
  <2> QED
    BY <1>3, <1>6, <2>1, LoopsPast
<1> HIDE DEF g, r
<1>14. Proceeds(t, m, g, r)
  BY <1>1, <1>2, <1>4, <1>6, <1>7, <1>8, <1>9, <1>10, <1>11, <1>12, <1>13 DEF Proceeds, LastInLoop
<1> QED
  BY <1>6, <1>14, LoopCarries

\* The loop calls a subscriber of its own thread.
LEMMA PostOwnDoes ==
    ASSUME Inv, Inv', NEW t \in Threads, PostDirect(t) \/ PostSendWindow(t)
    PROVE  Does(t)
<1>1. /\ stack[t] # <<>> /\ Top(t).pc = "publish" /\ Top(t).i <= Len(Subs)
      /\ Sub(t).thread = t /\ UNCHANGED <<queue, wq>>
  BY DEF PostDirect, PostSendWindow, AtSub, At, Direct
<1>2. Top(t).pc \in PublisherPcs \ {"window"}
  BY <1>1 DEF PublisherPcs
<1>3. /\ Top(t) \in FrameType /\ Top(t).m \in Msgs /\ msg[Top(t).m] \in MessageType
  BY <1>1, <1>2, LoopFrame
<1>4. PICK m \in Msgs : Top(t).m = m
  BY <1>3
<1>5. Top(t).i \in DOMAIN Subs
  BY <1>1, <1>3, CallAssumption DEF FrameType
<1>6. \E g \in FrameType : \E r :
        /\ Changes(t, g) /\ g.m = m /\ g.api = Top(t).api /\ g.to = Top(t).to
        /\ g.i = Top(t).i /\ g.pc \in {"direct", "window"}
        /\ g.pc = "window" => Subs[Top(t).i].kind = "HWND"
        /\ LastInLoop(t, Top(t), g, m)
        /\ msg' = [msg EXCEPT ![m] = r] /\ r.event = msg[m].event /\ r.exit = msg[m].exit
        /\ Owed(r) = Owed(msg[m]) + Due(g.pc)
  <2>1. CASE PostDirect(t)
    <3> DEFINE g == [Top(t) EXCEPT !.pc = "direct", !.calls = 0]
               r == AddRef(m)
    <3>1. "direct" \in Pcs
      BY DEF Pcs
    <3>2. /\ g \in FrameType /\ g.pc = "direct" /\ g.m = m /\ g.api = Top(t).api
          /\ g.i = Top(t).i /\ g.to = Top(t).to
      BY <1>1, <1>2, <1>4, <3>1, LoopFrame
    <3>3. Changes(t, g) /\ msg' = [msg EXCEPT ![m] = r] /\ LastInLoop(t, Top(t), g, m)
      BY <1>1, <1>4, <2>1 DEF PostDirect, Changes, Goto, Moved, LastInLoop
    <3>4. /\ r.event = msg[m].event /\ r.exit = msg[m].exit /\ Owed(r) = Owed(msg[m]) + 1
      BY <1>3, <1>4, AddRefOwed
    <3> HIDE DEF g, r
    <3>5. Due(g.pc) = 1
      BY <3>2 DEF Due
    <3> QED
      BY <3>2, <3>3, <3>4, <3>5
  <2>2. CASE PostSendWindow(t)
    <3> DEFINE g == [Top(t) EXCEPT !.pc = "window", !.calls = 0]
               r == AddWindowRefs(m)
    <3>1. "window" \in Pcs
      BY DEF Pcs
    <3>2. /\ g \in FrameType /\ g.pc = "window" /\ g.m = m /\ g.api = Top(t).api
          /\ g.i = Top(t).i /\ g.to = Top(t).to
      BY <1>1, <1>2, <1>4, <3>1, LoopFrame
    <3>3. /\ Changes(t, g) /\ msg' = [msg EXCEPT ![m] = r] /\ Subs[Top(t).i].kind = "HWND"
          /\ LastInLoop(t, Top(t), g, m)
      BY <1>1, <1>4, <2>2
         DEF PostSendWindow, Changes, Goto, Moved, AtSub, Sub, SetQueueMessage, LastInLoop
    <3>4. /\ r.event = msg[m].event /\ r.exit = msg[m].exit /\ Owed(r) = Owed(msg[m])
      BY <1>3, <1>4, AddWindowRefsOwed
    <3> HIDE DEF g, r
    <3>5. Due(g.pc) = 0 /\ Owed(msg[m]) \in Int
      BY <1>3, <1>4, <3>2, OwedTyped DEF Due
    <3>6. Owed(r) = Owed(msg[m]) + Due(g.pc)
      BY <3>4, <3>5
    <3> QED
      BY <3>2, <3>3, <3>4, <3>6
  <2> QED
    BY <2>1, <2>2
<1>7. PICK g \in FrameType : \E r :
        /\ Changes(t, g) /\ g.m = m /\ g.api = Top(t).api /\ g.to = Top(t).to
        /\ g.i = Top(t).i /\ g.pc \in {"direct", "window"}
        /\ g.pc = "window" => Subs[Top(t).i].kind = "HWND"
        /\ LastInLoop(t, Top(t), g, m)
        /\ msg' = [msg EXCEPT ![m] = r] /\ r.event = msg[m].event /\ r.exit = msg[m].exit
        /\ Owed(r) = Owed(msg[m]) + Due(g.pc)
  BY <1>6
<1>8. PICK r :
        /\ Changes(t, g) /\ g.m = m /\ g.api = Top(t).api /\ g.to = Top(t).to
        /\ g.i = Top(t).i /\ g.pc \in {"direct", "window"}
        /\ g.pc = "window" => Subs[Top(t).i].kind = "HWND"
        /\ LastInLoop(t, Top(t), g, m)
        /\ msg' = [msg EXCEPT ![m] = r] /\ r.event = msg[m].event /\ r.exit = msg[m].exit
        /\ Owed(r) = Owed(msg[m]) + Due(g.pc)
  BY <1>7
<1>9. Owed(r) = Owed(msg[m]) - Due(Top(t).pc) + Due(g.pc)
  <2>1. Due(Top(t).pc) = 0 /\ Owed(msg[m]) \in Int /\ Due(g.pc) \in Int
    BY <1>1, <1>3, <1>4, OwedTyped DEF Due
  <2> QED
    BY <1>8, <2>1
<1>10. Loops(t, Top(t), g, msg[m], r)
  BY <1>1, <1>3, <1>4, <1>5, <1>8, <1>9, LoopsOwn DEF Sub
<1>11. g.pc \in PublisherPcs \ {"sent"}
  BY <1>8 DEF PublisherPcs
<1>12. Proceeds(t, m, g, r)
  BY <1>1, <1>2, <1>4, <1>8, <1>10, <1>11 DEF Proceeds
<1> QED
  BY <1>8, <1>12, LoopCarries

\* The loop is past a subscriber of its own thread.
LEMMA OwnReturnDoes ==
    ASSUME Inv, Inv', NEW t \in Threads, NEW ok \in BOOLEAN, DirectReturn(t, ok) \/ SendWindowCount(t)
    PROVE  Does(t)
<1>1. /\ stack[t] # <<>> /\ Top(t).pc \in {"direct", "sent"}
      /\ UNCHANGED <<queue, wq, last_msg>>
  BY DEF DirectReturn, SendWindowCount, At
<1>2. Top(t).pc \in PublisherPcs \ {"window"}
  BY <1>1 DEF PublisherPcs
<1>3. /\ Top(t) \in FrameType /\ Top(t).m \in Msgs /\ msg[Top(t).m] \in MessageType
      /\ FrameOK(t, Len(stack[t]), Top(t))
  BY <1>1, <1>2, LoopFrame
<1>4. PICK m \in Msgs : Top(t).m = m
  BY <1>3
<1>5. Top(t).i <= Len(Subs)
  BY <1>1, <1>3 DEF FrameOK
<1> DEFINE g == [Top(t) EXCEPT !.pc = "publish", !.i = Top(t).i + 1, !.calls = 0]
<1>6. /\ g \in FrameType /\ g.pc = "publish" /\ g.m = m /\ g.api = Top(t).api
      /\ g.i = Top(t).i + 1 /\ g.to = Top(t).to /\ Top(t).i \in DOMAIN Subs
  BY <1>1, <1>2, <1>4, <1>5, LoopFrame
<1>7. Changes(t, g)
  BY <1>1 DEF DirectReturn, SendWindowCount, Changes, NextSub
<1>8. \E r : /\ msg' = [msg EXCEPT ![m] = r] /\ r.event = msg[m].event /\ r.exit = msg[m].exit
             /\ Owed(r) = Owed(msg[m]) - Due(Top(t).pc)
  <2>1. CASE DirectReturn(t, ok)
    <3> DEFINE r == Finished(msg[m], ok)
    <3>1. Top(t).pc = "direct" /\ msg' = [msg EXCEPT ![m] = r]
      BY <1>4, <2>1, InvHas DEF DirectReturn, At
    <3>2. msg[m].refcount >= 1
      BY <1>1, <1>4, <3>1, FinishedFacts DEF RecipientPcs
    <3>3. r.event = msg[m].event /\ r.exit = msg[m].exit /\ Owed(r) = Owed(msg[m]) - 1
      BY <1>3, <1>4, <3>2, FinishedOwed
    <3>4. Due(Top(t).pc) = 1
      BY <3>1 DEF Due
    <3> HIDE DEF r
    <3> QED
      BY <3>1, <3>3, <3>4
  <2>2. CASE SendWindowCount(t)
    <3> DEFINE r == CountWindow(m)
    <3>1. Top(t).pc = "sent" /\ msg' = [msg EXCEPT ![m] = r]
      BY <1>4, <2>2 DEF SendWindowCount, At
    <3>2. r.event = msg[m].event /\ r.exit = msg[m].exit /\ Owed(r) = Owed(msg[m]) + 1
      BY <1>3, <1>4, CountWindowOwed
    <3>3. Due(Top(t).pc) = 0 - 1 /\ Owed(msg[m]) \in Int
      BY <1>3, <1>4, <3>1, OwedTyped DEF Due
    <3> HIDE DEF r
    <3>4. Owed(r) = Owed(msg[m]) - Due(Top(t).pc)
      BY <3>2, <3>3
    <3> QED
      BY <3>1, <3>2, <3>4
  <2> QED
    BY <2>1, <2>2
<1>9. PICK r : /\ msg' = [msg EXCEPT ![m] = r] /\ r.event = msg[m].event /\ r.exit = msg[m].exit
               /\ Owed(r) = Owed(msg[m]) - Due(Top(t).pc)
  BY <1>8
<1> HIDE DEF g
<1>10. Owed(r) = Owed(msg[m]) - Due(Top(t).pc) + Due(g.pc)
  <2>1. Due(Top(t).pc) \in Int /\ Owed(msg[m]) \in Int /\ Due(g.pc) = 0
    BY <1>3, <1>4, <1>6, OwedTyped DEF Due
  <2> QED
    BY <1>9, <2>1
<1>11. Loops(t, Top(t), g, msg[m], r)
  BY <1>3, <1>4, <1>6, <1>10, LoopsOwn
<1>12. g.pc \in PublisherPcs \ {"sent"}
  BY <1>6 DEF PublisherPcs
<1>13. Proceeds(t, m, g, r)
  BY <1>1, <1>2, <1>4, <1>6, <1>7, <1>9, <1>11, <1>12 DEF Proceeds, LastInLoop
<1> QED
  BY <1>6, <1>13, LoopCarries

\* A loop that sends to nobody of its own thread.
LEMMA LoopsNot ==
    ASSUME NEW t, NEW f, NEW g, NEW r, NEW s, g.api \in Quits, g.pc \in {"counted", "wait"}
    PROVE  Loops(t, f, g, r, s)
BY DEF Loops, TrySend, Quits

\* A quit message is counted, and put into the queue of its thread.
LEMMA QuitStepsDoes ==
    ASSUME Inv, Inv', NEW t \in Threads, QuitCount(t) \/ QuitPut(t)
    PROVE  Does(t)
<1>1. stack[t] # <<>> /\ Top(t).pc \in {"count", "counted"} /\ UNCHANGED <<wq, last_msg>>
  BY DEF QuitCount, QuitPut, At
<1>2. Top(t).pc \in PublisherPcs \ {"window"}
  BY <1>1 DEF PublisherPcs
<1>3. /\ Top(t) \in FrameType /\ Top(t).m \in Msgs /\ msg[Top(t).m] \in MessageType
      /\ FrameOK(t, Len(stack[t]), Top(t))
  BY <1>1, <1>2, LoopFrame
<1>4. PICK m \in Msgs : Top(t).m = m
  BY <1>3
<1>5. Top(t).api \in Quits /\ Top(t).to \in Threads
  BY <1>1, <1>3 DEF FrameOK
<1>6. "counted" \in Pcs /\ "wait" \in Pcs
  BY DEF Pcs
<1> DEFINE g == [Top(t) EXCEPT !.pc = "counted", !.calls = 0]
           h == [Top(t) EXCEPT !.pc = "wait", !.calls = 0]
           k == Len(stack[t])
<1>7. /\ g \in FrameType /\ g.pc = "counted" /\ g.m = m /\ g.api = Top(t).api /\ g.to = Top(t).to
      /\ h \in FrameType /\ h.pc = "wait" /\ h.m = m /\ h.api = Top(t).api /\ h.to = Top(t).to
  BY <1>1, <1>2, <1>4, <1>6, LoopFrame
<1>8. CASE QuitCount(t)
  <2> DEFINE r == AddRef(m)
  <2>1. Changes(t, g) /\ msg' = [msg EXCEPT ![m] = r] /\ UNCHANGED queue
    BY <1>1, <1>4, <1>8 DEF QuitCount, Changes, Goto, Moved
  <2>2. r.event = msg[m].event /\ r.exit = msg[m].exit
    BY <1>3, <1>4, AddRefOwed
  <2> HIDE DEF g, r
  <2>3. Loops(t, Top(t), g, msg[m], r) /\ g.pc \in PublisherPcs \ {"sent"}
    BY <1>5, <1>7, LoopsNot DEF PublisherPcs
  <2>4. Proceeds(t, m, g, r)
    BY <1>1, <1>2, <1>4, <1>7, <2>1, <2>2, <2>3 DEF Proceeds, LastInLoop
  <2> QED
    BY <1>7, <2>4, LoopCarries
<1>9. CASE QuitPut(t)
  <2>1. /\ Top(t).pc = "counted" /\ UNCHANGED msg /\ Puts(Top(t).to, m)
        /\ Changes(t, h) \/ Pops(t)
    BY <1>1, <1>4, <1>9 DEF QuitPut, At, Enqueue, Puts, Changes, Pops, Goto, Moved, Return
  <2> HIDE DEF h
  <2>2. CASE Changes(t, h)
    <3>1. Loops(t, Top(t), h, msg[m], msg[m])
      BY <1>5, <1>7, LoopsNot
    <3>2. msg' = [msg EXCEPT ![m] = msg[m]]
      BY <2>1, InvHas
    <3>3. Proceeds(t, m, h, msg[m])
      BY <1>1, <1>2, <1>4, <1>5, <1>7, <2>1, <2>2, <3>1, <3>2 DEF Proceeds, LastInLoop
    <3> QED
      BY <1>7, <3>3, LoopCarries
  <2>3. CASE Pops(t)
    <3>1. Shifts(t, k, Top(t), NoFrame)
      BY <2>3, PopShifts
    <3> HIDE DEF k
    <3>2. Turn(t, k, Top(t), NoFrame, m)
      BY <1>4, <2>1, <3>1, NoFrameIs DEF Turn
    <3>3. Carries(t, k, Top(t), NoFrame, m)
      BY <1>1, <1>2, <1>4, <1>5, <2>1, <3>2, NoFrameIs DEF Carries, LastInLoop
    <3> QED
      BY <3>3 DEF Does
  <2> QED
    BY <2>1, <2>2, <2>3
<1> QED
  BY <1>8, <1>9

-----------------------------------------------------------------------------
(* A recipient takes a message.                                             *)

LEMMA FrameNone ==
    ASSUME NEW pc \in Pcs, NEW m \in Msgs \cup {NoMsg}
    PROVE  LET g == Frame(pc, m, "none") IN
           g \in FrameType /\ g.pc = pc /\ g.m = m /\ g.api = "none"
<1>1. Frame(pc, m, "none").api = "none"
  BY DEF Frame
<1> QED
  BY <1>1, PlainFrame

LEMMA WindowBeginDoes ==
    ASSUME Inv, Inv', NEW t \in Threads, WindowBegin(t)
    PROVE  Does(t)
<1>1. /\ stack[t] = <<>> /\ UNCHANGED <<msg, queue>> /\ wq[t] # <<>>
      /\ wq' = [wq EXCEPT ![t] = Tail(@)]
  BY DEF WindowBegin
<1>2. PICK m \in Msgs : m = Head(wq[t])
  <2>1. wq[t] # <<>> /\ wq[t] \in Seq(Msgs)
    BY <1>1, InvHas DEF TypeOK
  <2> QED
    BY <2>1
<1> DEFINE g == Frame("wm", m, "none")
           k == Len(stack[t]) + 1
<1>3. g \in FrameType /\ g.pc = "wm" /\ g.m = m /\ g.api = "none"
  <2>1. "wm" \in Pcs
    BY DEF Pcs
  <2> QED
    BY <2>1, FrameNone
<1>4. stack' = [stack EXCEPT ![t] = <<g>>] /\ last_msg' = [last_msg EXCEPT ![t] = m]
  BY <1>2 DEF WindowBegin, SetQueueMessage
<1> HIDE DEF g
<1>5. Shifts(t, k, NoFrame, g)
  <2>1. Pushes(t, <<>>, g)
    BY <1>1, <1>4, FirstPush
  <2> QED
    BY <1>3, <2>1, PushShifts
<1> HIDE DEF k
<1>6. Turn(t, k, NoFrame, g, m)
  BY <1>1, <1>3, <1>5, NoFrameIs DEF Turn
<1>7. Takes(t, k, NoFrame, g, m)
  BY <1>1, <1>2, <1>3, <1>4, <1>6, NoFrameIs DEF Takes
<1> QED
  BY <1>7 DEF Does

\* The one frame of a stack, which has no message, makes way for g.
LEMMA AloneShifts ==
    ASSUME Inv, Inv', NEW t \in Threads, stack[t] # <<>>, Top(t).pc \in {"woken", "exited", "drained"}
    PROVE  /\ Top(t).m = NoMsg
           /\ \A g \in FrameType : stack' = [stack EXCEPT ![t] = <<g>>] =>
                Shifts(t, Len(stack[t]), Top(t), g)
           /\ stack' = [stack EXCEPT ![t] = <<>>] =>
                Shifts(t, Len(stack[t]), Top(t), NoFrame)
<1>1. Top(t).m = NoMsg
  BY InvHas, TopFacts DEF FrameOK
<1>2. stack[t] \in Seq(FrameType) /\ Len(stack[t]) = 1
  BY InvHas, BottomAlone DEF StacksOK, BottomPcs
<1>3. ASSUME NEW g \in FrameType, stack' = [stack EXCEPT ![t] = <<g>>]
      PROVE  Shifts(t, Len(stack[t]), Top(t), g)
  <2>1. WithTop(t, g) = <<g>>
    BY <1>2 DEF WithTop
  <2>2. Changes(t, g)
    BY <1>3, <2>1 DEF Changes
  <2> QED
    BY <2>2, ChangeShifts
<1>4. ASSUME stack' = [stack EXCEPT ![t] = <<>>]
      PROVE  Shifts(t, Len(stack[t]), Top(t), NoFrame)
  <2>1. Front(stack[t]) = <<>>
    BY <1>2 DEF Front
  <2>2. Pops(t)
    BY <1>4, <2>1 DEF Pops
  <2> QED
    BY <2>2, PopShifts
<1> QED
  BY <1>1, <1>3, <1>4

\* It makes way for a frame that takes the first message of the queue.
LEMMA GetDoes ==
    ASSUME Inv, Inv', NEW t \in Threads, stack[t] # <<>>,
           Top(t).pc \in {"woken", "exited", "drained"}, queue[t] # <<>>,
           Top(t).pc = "exited" => deleted'[t],
           queue' = [queue EXCEPT ![t] = Tail(@)], NEW pc \in {"callback", "exit", "drain"},
           stack' = [stack EXCEPT ![t] = <<Frame(pc, Head(queue[t]).m, "none")>>],
           UNCHANGED <<msg, wq>>, pc = "callback" => ~msg[Head(queue[t]).m].exit,
           IF pc = "callback" THEN last_msg' = [last_msg EXCEPT ![t] = Head(queue[t]).m]
           ELSE UNCHANGED last_msg
    PROVE  Does(t)
<1>1. PICK m \in Msgs : m = Head(queue[t]).m
  <2>1. queue[t] # <<>> /\ queue[t] \in Seq(Entry)
    BY InvParts DEF QueuesOK
  <2>2. Head(queue[t]) \in Entry
    BY <2>1
  <2> QED
    BY <2>2 DEF Entry
<1> DEFINE g == Frame(pc, m, "none")
           k == Len(stack[t])
<1>2. g \in FrameType /\ g.pc = pc /\ g.m = m /\ g.api = "none"
  <2>1. pc \in Pcs
    BY DEF Pcs
  <2> QED
    BY <2>1, FrameNone
<1>3. stack' = [stack EXCEPT ![t] = <<g>>]
  BY <1>1
<1> HIDE DEF g
<1>4. Shifts(t, k, Top(t), g) /\ Top(t).m = NoMsg
  BY <1>2, <1>3, AloneShifts
<1> HIDE DEF k
<1>5. Turn(t, k, Top(t), g, m)
  BY <1>2, <1>4 DEF Turn
<1>6. Takes(t, k, Top(t), g, m)
  <2>1. IF g.pc \in {"callback", "wm"} THEN last_msg' = [last_msg EXCEPT ![t] = m]
        ELSE UNCHANGED last_msg
    BY <1>1, <1>2
  <2> QED
    BY <1>1, <1>2, <1>4, <1>5, <2>1 DEF Takes
<1> QED
  BY <1>6 DEF Does

LEMMA DispatchGetDoes ==
    ASSUME Inv, Inv', NEW t \in Threads, DispatchGet(t)
    PROVE  Does(t)
<1>1. stack[t] # <<>> /\ Top(t).pc = "woken" /\ UNCHANGED <<msg, wq>>
  BY DEF DispatchGet, At
<1>2. queue[t] # <<>>
  BY <1>1, InvParts, TopFacts DEF QueuesShape
<1> DEFINE pc == IF msg[Head(queue[t]).m].exit THEN "exit" ELSE "callback"
<1>3. /\ stack' = [stack EXCEPT ![t] = <<Frame(pc, Head(queue[t]).m, "none")>>]
      /\ queue' = [queue EXCEPT ![t] = Tail(@)]
  BY DEF DispatchGet
<1>4. /\ pc \in {"callback", "exit", "drain"}
      /\ pc = "callback" => ~msg[Head(queue[t]).m].exit
      /\ IF pc = "callback" THEN last_msg' = [last_msg EXCEPT ![t] = Head(queue[t]).m]
         ELSE UNCHANGED last_msg
  BY DEF DispatchGet, SetQueueMessage
<1> HIDE DEF pc
<1> QED
  BY <1>1, <1>2, <1>3, <1>4, GetDoes

-----------------------------------------------------------------------------
(* What is left of a message.                                               *)

\* A message that kmqint_put_message lets go of is active no longer.
LEMMA LetGo ==
    ASSUME NEW t, NEW m, NEW r, "state" \in DOMAIN r, NEW rest, NEW api,
           PutTransfer(t, m, r, rest) \/ PutFree(t, m, r, rest) \/ PutHandle(t, m, r, rest, api)
    PROVE  \E s : msg' = [msg EXCEPT ![m] = s] /\ s.state # "active"
<1> DEFINE a == [r EXCEPT !.state = "xfer"]
           b == [r EXCEPT !.state = "completing"]
<1>1. a.state # "active" /\ b.state # "active" /\ FreeMessage.state # "active"
  BY DEF FreeMessage
<1>2. msg' = [msg EXCEPT ![m] = a] \/ msg' = [msg EXCEPT ![m] = b]
      \/ msg' = [msg EXCEPT ![m] = FreeMessage]
  BY DEF PutTransfer, PutFree, PutHandle
<1> HIDE DEF a, b
<1> QED
  BY <1>1, <1>2

\* The frames that remain when kmqint_put_message returns, or the handler starts.
Remain(t, m, rest, api) ==
    \/ stack' = [stack EXCEPT ![t] = rest]
    \/ t = Compl /\ stack' = [stack EXCEPT ![t] = Append(rest, Frame("handler", m, api))]

\* kmqint_put_message may signal the message, or take it away.
LEMMA SettleSets ==
    ASSUME Inv, NEW t \in Threads, NEW m \in Msgs, NEW r \in MessageType, NEW rest, NEW api,
           Settle(t, m, r, rest, api)
    PROVE  /\ \A x \in Msgs \ {m} : msg'[x] = msg[x]
           /\ msg'[m].state = "active" =>
                /\ msg'[m].exit = r.exit /\ Owed(msg'[m]) = Owed(r)
                /\ msg'[m].event = "set" => r.event = "set" \/ Owed(r) = 0
           /\ Remain(t, m, rest, api)
<1>1. CASE msg' = [msg EXCEPT ![m] = r] /\ stack' = [stack EXCEPT ![t] = rest]
  BY <1>1, InvHas DEF Remain
<1>2. CASE AllDone(r) /\ PutSignal(t, m, r, rest)
  <2> DEFINE e == IF r.event = "none" THEN "none" ELSE "set"
             s == [r EXCEPT !.event = e]
  <2>1. msg' = [msg EXCEPT ![m] = s] /\ stack' = [stack EXCEPT ![t] = rest]
    BY <1>2 DEF PutSignal
  <2>2. s.exit = r.exit /\ Owed(s) = Owed(r)
    BY DEF Owed, MessageType
  <2>3. Owed(r) = 0
    <3> DEFINE a == r.nSent
               b == r.nCompleted
               c == r.nFailed
    <3>1. a \in Nat /\ b \in Nat /\ c \in Nat /\ b + c = a
      BY <1>2 DEF AllDone, MessageType
    <3>2. Owed(r) = a - b - c
      BY DEF Owed
    <3> HIDE DEF a, b, c
    <3> QED
      BY <3>1, <3>2
  <2> HIDE DEF s
  <2> QED
    BY <2>1, <2>2, <2>3, InvHas DEF Remain
<1>3. CASE PutTransfer(t, m, r, rest) \/ PutFree(t, m, r, rest) \/ PutHandle(t, m, r, rest, api)
  <2>1. PICK s : msg' = [msg EXCEPT ![m] = s] /\ s.state # "active"
    <3>1. "state" \in DOMAIN r
      BY DEF MessageType
    <3> QED
      BY <1>3, <3>1, LetGo
  <2>2. Remain(t, m, rest, api)
    BY <1>3 DEF PutTransfer, PutFree, PutHandle, Remain
  <2> QED
    BY <2>1, <2>2, InvHas
<1> QED
  BY <1>1, <1>2, <1>3 DEF Settle, PutMessage

LEMMA FreeCallSets ==
    ASSUME Inv, NEW t \in Threads, NEW m \in Msgs, NEW rest, FreeCall(t, m, rest)
    PROVE  /\ \A x \in Msgs \ {m} : msg'[x] = msg[x]
           /\ msg'[m].state = "active" =>
                /\ msg'[m].exit = msg[m].exit /\ Owed(msg'[m]) = Owed(msg[m])
                /\ msg'[m].event = msg[m].event /\ msg[m].state = "active"
           /\ Remain(t, m, rest, "none")
<1> DEFINE r == [msg[m] EXCEPT !.refcount = msg[m].refcount - 1]
<1>1. IF r.refcount = 0
      THEN PutMessage(t, m, r, rest, "none")
      ELSE /\ msg' = [msg EXCEPT ![m] = r]
           /\ stack' = [stack EXCEPT ![t] = rest]
           /\ UNCHANGED xfer
  BY DEF FreeCall
<1>2. /\ r.exit = msg[m].exit /\ r.event = msg[m].event /\ r.state = msg[m].state
      /\ Owed(r) = Owed(msg[m])
  BY InvHas DEF MessageType, Owed
<1> HIDE DEF r
<1>3. CASE msg' = [msg EXCEPT ![m] = r] /\ stack' = [stack EXCEPT ![t] = rest]
  BY <1>2, <1>3, InvHas DEF Remain
<1>4. CASE PutTransfer(t, m, r, rest) \/ PutFree(t, m, r, rest) \/ PutHandle(t, m, r, rest, "none")
  <2>1. DOMAIN r = DOMAIN msg[m] /\ "state" \in DOMAIN r
    BY InvHas DEF r, MessageType
  <2>2. PICK s : msg' = [msg EXCEPT ![m] = s] /\ s.state # "active"
    BY <1>4, <2>1, LetGo
  <2>3. Remain(t, m, rest, "none")
    BY <1>4 DEF PutTransfer, PutFree, PutHandle, Remain
  <2> QED
    BY <2>2, <2>3, InvHas
<1> QED
  BY <1>1, <1>3, <1>4 DEF PutMessage, PutSignal

\* A recipient is finished.
LEMMA FinishSets ==
    ASSUME Inv, NEW t \in Threads, stack[t] # <<>>, Top(t).pc \in Finishing, NEW ok \in BOOLEAN,
           NEW rest, NEW api, cs_msg' = NoThread,
           Settle(t, Top(t).m, Finished(msg[Top(t).m], ok), rest, api)
    PROVE  \E m \in Msgs :
             /\ Top(t).m = m
             /\ \A x \in Msgs \ {m} : msg'[x] = msg[x]
             /\ Outcome(m, Top(t).pc)
             /\ Remain(t, m, rest, api)
<1> DEFINE x == Top(t).m
           z == Finished(msg[x], ok)
<1>1. x \in Msgs /\ msg[x].state = "active" /\ msg[x].refcount >= 1 /\ z \in MessageType
  BY FinishedFacts DEF Finishing, RecipientPcs
<1>2. z.event = msg[x].event /\ z.exit = msg[x].exit /\ Owed(z) = Owed(msg[x]) - 1
  BY <1>1, InvHas, FinishedOwed
<1> HIDE DEF z
<1>3. PICK m \in Msgs, r \in MessageType :
        /\ Top(t).m = m /\ msg[m].state = "active" /\ r.event = msg[m].event
        /\ r.exit = msg[m].exit /\ Owed(r) = Owed(msg[m]) - 1 /\ Settle(t, m, r, rest, api)
  BY <1>1, <1>2 DEF z
<1>4. /\ \A y \in Msgs \ {m} : msg'[y] = msg[y]
      /\ msg'[m].state = "active" =>
           /\ msg'[m].exit = r.exit /\ Owed(msg'[m]) = Owed(r)
           /\ msg'[m].event = "set" => r.event = "set" \/ Owed(r) = 0
      /\ Remain(t, m, rest, api)
  <2>1. Settle(t, m, r, rest, api)
    BY <1>3
  <2> QED
    BY <2>1, SettleSets
<1>5. OneIf(Top(t).pc \in Finishing) = 1
  BY DEF OneIf
<1>6. Outcome(m, Top(t).pc)
  <2> HIDE DEF Finishing
  <2> QED
    BY <1>3, <1>4, <1>5 DEF Outcome, Lessens
<1> QED
  BY <1>3, <1>4, <1>6

\* The frame of a call, or of a recipient, goes; the handler's may take its place.
LEMMA LeavesShifts ==
    ASSUME Inv, Inv', NEW t \in Threads, stack[t] # <<>>, NEW m \in Msgs,
           NEW api \in Posts \cup Quits \cup {"none"},
           Remain(t, m, Front(stack[t]), api)
    PROVE  \E g : /\ Shifts(t, Len(stack[t]), Top(t), g)
                  /\ g = NoFrame \/ (g.m = m /\ g.pc = "handler")
<1>1. CASE stack' = [stack EXCEPT ![t] = Front(stack[t])]
  <2>1. Pops(t)
    BY <1>1 DEF Pops
  <2> QED
    BY <2>1, PopShifts
<1>2. CASE stack' = [stack EXCEPT ![t] = Append(Front(stack[t]), Frame("handler", m, api))]
  <2> DEFINE h == Frame("handler", m, api)
  <2>1. h \in FrameType /\ h.m = m /\ h.pc = "handler"
    BY HandlerFrame
  <2> HIDE DEF h
  <2>2. Changes(t, h)
    BY <1>2, <2>1, InvHas, FrontTop DEF Changes, h
  <2> QED
    BY <2>1, <2>2, ChangeShifts
<1> QED
  BY <1>1, <1>2 DEF Remain

LEMMA DispatchReturnDoes ==
    ASSUME Inv, Inv', NEW t \in Threads, NEW ok \in BOOLEAN, DispatchReturn(t, ok) \/ WindowEnd(t, ok)
    PROVE  Does(t)
<1>1. /\ stack[t] # <<>> /\ Top(t).pc \in {"callback", "wm"} /\ UNCHANGED <<queue, wq>>
      /\ last_msg' = [last_msg EXCEPT ![t] = NoMsg]
      /\ Settle(t, Top(t).m, Finished(msg[Top(t).m], ok), Front(stack[t]), "none")
      /\ cs_msg' = NoThread
  BY DEF DispatchReturn, WindowEnd, At, SetQueueMessage
<1>2. Top(t).pc \in Finishing
  BY <1>1 DEF Finishing
<1>3. PICK m \in Msgs :
        /\ Top(t).m = m
        /\ \A x \in Msgs \ {m} : msg'[x] = msg[x]
        /\ Outcome(m, Top(t).pc)
        /\ Remain(t, m, Front(stack[t]), "none")
  BY <1>1, <1>2, FinishSets
<1>4. Len(stack[t]) = 1 /\ t # Compl
  BY <1>1, InvHas, BottomAlone DEF BottomPcs
<1>5. stack' = [stack EXCEPT ![t] = Front(stack[t])] /\ stack'[t] = <<>>
  <2>1. stack[t] \in Seq(FrameType)
    BY InvHas DEF StacksOK
  <2>2. Front(stack[t]) = <<>>
    BY <1>4, <2>1 DEF Front
  <2> QED
    BY <1>3, <1>4, <2>2, InvHas DEF StacksOK, Remain
<1> DEFINE k == Len(stack[t])
           f == Top(t)
<1>6. Shifts(t, k, f, NoFrame)
  <2>1. Pops(t)
    BY <1>1, <1>5 DEF Pops
  <2> QED
    BY <2>1, PopShifts
<1> HIDE DEF k
<1>7. Turn(t, k, f, NoFrame, m)
  BY <1>3, <1>6, NoFrameIs DEF Turn
<1>8. Settled(t, k, f, NoFrame, m)
  BY <1>1, <1>3, <1>5, <1>7, NoFrameIs DEF Settled, Handling
<1> QED
  BY <1>8 DEF Does

\* The one frame of a thread that is quitting makes way for the next.
LEMMA ExitDoes ==
    ASSUME Inv, Inv', NEW t \in Threads, DispatchExit(t) \/ DetachFail(t)
    PROVE  Does(t)
<1> DEFINE pc == IF DispatchExit(t) THEN "exited" ELSE "drained"
           g == Frame(pc, NoMsg, "none")
           f == Top(t)
           k == Len(stack[t])
<1>1. /\ stack[t] # <<>> /\ f.pc \in {"exit", "drain"} /\ UNCHANGED <<queue, wq, last_msg>>
      /\ f.pc = "exit" => pc = "exited"
      /\ cs_msg' = NoThread
      /\ \E ok \in BOOLEAN : Settle(t, f.m, Finished(msg[f.m], ok), <<g>>, "none")
  <2>1. CASE DispatchExit(t)
    <3>1. TRUE \in BOOLEAN
      OBVIOUS
    <3> QED
      BY <2>1, <3>1 DEF DispatchExit, At
  <2>2. CASE ~DispatchExit(t)
    <3>1. FALSE \in BOOLEAN /\ DetachFail(t)
      BY <2>2
    <3> QED
      BY <2>2, <3>1 DEF DetachFail, At
  <2> QED
    BY <2>1, <2>2
<1>2. pc \in {"exited", "drained"}
  OBVIOUS
<1> HIDE DEF pc
<1>3. g \in FrameType /\ g.pc = pc /\ g.m = NoMsg
  <2>1. pc \in Pcs
    BY <1>2 DEF Pcs
  <2> QED
    BY <2>1, FrameNone
<1> HIDE DEF g
<1>4. f.pc \in Finishing /\ f.pc \in BottomPcs
  BY <1>1 DEF Finishing, BottomPcs
<1>5. PICK m \in Msgs :
        /\ f.m = m
        /\ \A x \in Msgs \ {m} : msg'[x] = msg[x]
        /\ Outcome(m, f.pc)
        /\ Remain(t, m, <<g>>, "none")
  BY <1>1, <1>4, FinishSets
<1>6. Len(stack[t]) = 1 /\ t # Compl
  BY <1>1, <1>4, InvHas, BottomAlone
<1>7. stack' = [stack EXCEPT ![t] = <<g>>] /\ stack'[t] = <<g>>
  BY <1>5, <1>6, InvHas DEF StacksOK, Remain
<1>8. Shifts(t, k, f, g)
  <2>1. stack[t] \in Seq(FrameType)
    BY InvHas DEF StacksOK
  <2>2. WithTop(t, g) = <<g>>
    BY <1>6, <2>1 DEF WithTop
  <2>3. Changes(t, g)
    BY <1>1, <1>7, <2>2 DEF Changes
  <2> QED
    BY <1>3, <2>3, ChangeShifts
<1>9. f.pc = "exit" => At(t, "exited")'
  <2>1. Last(<<g>>) = g /\ <<g>> # <<>>
    BY DEF Last
  <2> QED
    BY <1>1, <1>3, <1>7, <2>1 DEF At, Top
<1> HIDE DEF k
<1>10. Turn(t, k, f, g, m)
  BY <1>3, <1>5, <1>8 DEF Turn
<1>11. Settled(t, k, f, g, m)
  BY <1>1, <1>2, <1>3, <1>5, <1>9, <1>10 DEF Settled, Handling
<1> QED
  BY <1>11 DEF Does

LEMMA SendWindowEndDoes ==
    ASSUME Inv, Inv', NEW t \in Threads, NEW ok \in BOOLEAN, SendWindowEnd(t, ok)
    PROVE  Does(t)
<1> DEFINE g == [Top(t) EXCEPT !.pc = "sent", !.calls = 0]
           f == Top(t)
           k == Len(stack[t])
<1>1. /\ stack[t] # <<>> /\ f.pc = "window" /\ UNCHANGED <<queue, wq>>
      /\ last_msg' = [last_msg EXCEPT ![t] = NoMsg]
      /\ Settle(t, f.m, Finished(msg[f.m], ok), WithTop(t, g), "none")
      /\ cs_msg' = NoThread
  BY DEF SendWindowEnd, At, SetQueueMessage, Moved
<1>2. f.pc \in Finishing /\ f.pc \in CallPcs /\ f.pc \in PublisherPcs
  BY <1>1 DEF Finishing, CallPcs, PublisherPcs
<1>3. g \in FrameType /\ g.pc = "sent" /\ g.m = f.m /\ g.api = f.api /\ g.i = f.i /\ g.to = f.to
  <2>1. "sent" \in Pcs
    BY DEF Pcs
  <2> QED
    BY <1>1, <1>2, <2>1, LoopFrame
<1>4. FALSE \/ stack' = [stack EXCEPT ![t] = WithTop(t, g)]
  <2> DEFINE x == Top(t).m
             s == Finished(msg[x], ok)
  <2>1. s \in MessageType /\ s.refcount # 0
    <3>1. /\ x \in Msgs /\ msg[x].refcount \in Nat /\ msg[x].refcount >= 2
          /\ s \in MessageType /\ s.refcount = msg[x].refcount - 1
      BY <1>1, FinishedFacts
    <3> HIDE DEF s
    <3> QED
      BY <3>1
  <2> HIDE DEF s, g
  <2>2. Kept(t, x, s, WithTop(t, g))
    BY <1>1, <2>1, SettleCases DEF Gone, PutTransfer, PutFree, PutHandle, s
  <2> QED
    BY <2>2 DEF Kept
<1> HIDE DEF g
<1>5. PICK m \in Msgs :
        /\ f.m = m
        /\ \A x \in Msgs \ {m} : msg'[x] = msg[x]
        /\ Outcome(m, f.pc)
  BY <1>1, <1>2, FinishSets
<1>6. Shifts(t, k, f, g)
  <2>1. Changes(t, g)
    BY <1>1, <1>4 DEF Changes
  <2> QED
    BY <1>3, <2>1, ChangeShifts
<1> HIDE DEF k
<1>7. Turn(t, k, f, g, m)
  BY <1>3, <1>5, <1>6 DEF Turn
<1>8. Settled(t, k, f, g, m)
  BY <1>1, <1>3, <1>5, <1>7 DEF Settled, Handling
<1> QED
  BY <1>8 DEF Does

\* A step that settles a message without a recipient's result.
LEMMA PlainSettled ==
    ASSUME NEW t, NEW k, NEW f, NEW g, NEW m, Turn(t, k, f, g, m),
           f.pc \notin Finishing, f.pc = "exited" => deleted'[t], m \in Msgs => Outcome(m, f.pc),
           \/ g.m = NoMsg /\ g.pc \in {"woken", "exited", "drained"}
           \/ g.pc = "handler"
           \/ /\ g.m = m /\ f.m = m /\ g.api = f.api /\ g.to = f.to /\ g.i = f.i
              /\ <<f.pc, g.pc>> \in {<<"publish", "wait">>, <<"wait", "waited">>}
              /\ g.pc = "waited" => msg[m].event = "set",
           UNCHANGED <<queue, wq, last_msg>>
    PROVE  Does(t)
<1>1. f.pc # "exit"
  BY DEF Finishing
<1>2. Settled(t, k, f, g, m)
  BY <1>1 DEF Settled, Handling, Finishing
<1> QED
  BY <1>2 DEF Does

\* What a message is owed does not change.
LEMMA PlainOutcome ==
    ASSUME Inv, Inv', NEW m \in Msgs, NEW pc, pc \notin Finishing,
           msg'[m].state = "active" =>
             /\ msg[m].state = "active" /\ msg'[m].exit = msg[m].exit
             /\ Owed(msg'[m]) = Owed(msg[m])
             /\ msg'[m].event = "set" =>
                  \/ msg[m].event = "set"
                  \/ pc = "publish" /\ Owed(msg[m]) = 0 /\ cs_msg' = NoThread
    PROVE  Outcome(m, pc)
<1>1. OneIf(pc \in Finishing) = 0
  BY DEF OneIf
<1>2. Owed(msg[m]) \in Int
  BY InvHas, OwedTyped
<1>3. Owed(msg[m]) = Owed(msg[m]) - OneIf(pc \in Finishing)
  BY <1>1, <1>2
<1> HIDE DEF Finishing
<1> QED
  BY <1>3 DEF Outcome, Lessens

LEMMA PublishEndDoes ==
    ASSUME Inv, Inv', NEW t \in Threads, PublishEnd(t)
    PROVE  Does(t)
<1> DEFINE f == Top(t)
           k == Len(stack[t])
           w == [Top(t) EXCEPT !.pc = "wait", !.calls = 0]
           rest == IF Waits(f.api) THEN WithTop(t, w) ELSE Front(stack[t])
<1>1. /\ stack[t] # <<>> /\ f.pc = "publish" /\ UNCHANGED <<queue, wq, last_msg>>
      /\ Settle(t, f.m, msg[f.m], rest, f.api) /\ cs_msg' = NoThread
  BY DEF PublishEnd, At, Moved
<1>2. /\ f \in FrameType /\ f.m \in Msgs /\ FrameOK(t, k, f)
      /\ msg[f.m].state = "active" /\ msg[f.m] \in MessageType
  BY <1>1, TopActive DEF CallPcs
<1>3. PICK m \in Msgs, r \in MessageType :
        f.m = m /\ r = msg[m] /\ Settle(t, m, r, rest, f.api) /\ r.state = "active"
  BY <1>1, <1>2
<1>4. /\ \A x \in Msgs \ {m} : msg'[x] = msg[x]
      /\ msg'[m].state = "active" =>
           /\ msg'[m].exit = r.exit /\ Owed(msg'[m]) = Owed(r)
           /\ msg'[m].event = "set" => r.event = "set" \/ Owed(r) = 0
      /\ Remain(t, m, rest, f.api)
  <2> HIDE DEF rest
  <2> QED
    BY <1>3, SettleSets
<1>5. f.pc \notin Finishing
  BY <1>1 DEF Finishing
<1>6. Outcome(m, f.pc)
  BY <1>1, <1>3, <1>4, <1>5, PlainOutcome
<1>7. CASE ~Waits(f.api)
  <2>1. Remain(t, m, Front(stack[t]), f.api) /\ f.api \in Posts \cup Quits \cup {"none"}
    BY <1>2, <1>4, <1>7 DEF FrameType
  <2>2. PICK g : Shifts(t, k, f, g) /\ (g = NoFrame \/ (g.m = m /\ g.pc = "handler"))
    BY <1>1, <2>1, LeavesShifts
  <2>3. Turn(t, k, f, g, m)
    BY <1>3, <1>4, <2>2, NoFrameIs DEF Turn
  <2> HIDE DEF k
  <2> QED
    BY <1>1, <1>5, <1>6, <2>2, <2>3, NoFrameIs, PlainSettled
<1>8. CASE Waits(f.api)
  <2>1. r.refcount # 0
    <3>1. HasCall(Top(t).api)
      BY <1>8 DEF HasCall, Waits
    <3>2. Uses(m).handles >= 1
      BY <1>1, <1>3, <3>1, TopHandle DEF CallPcs, Uses
    <3>3. Uses(m).handles + Uses(m).keepers >= 1
      <4>1. Uses(m) \in UsesType
        BY LedgerTyped
      <4> HIDE DEF Uses
      <4> QED
        BY <3>2, <4>1 DEF UsesType
    <3>4. msg[m].refcount \in Nat /\ msg[m].refcount >= 1
      BY <3>3, CallFreed
    <3> QED
      BY <1>3, <3>4
  <2>2. w \in FrameType /\ w.pc = "wait" /\ w.m = m /\ w.api = f.api /\ w.i = f.i /\ w.to = f.to
    <3>1. "wait" \in Pcs
      BY DEF Pcs
    <3> QED
      BY <1>2, <1>3, <3>1, MovedFrame
  <2> HIDE DEF w
  <2>3. Settle(t, m, r, WithTop(t, w), f.api)
    BY <1>3, <1>8
  <2>4. Kept(t, m, r, WithTop(t, w))
    BY <2>1, <2>3, SettleCases DEF Gone, PutTransfer, PutFree, PutHandle
  <2>5. Changes(t, w)
    BY <1>1, <2>4 DEF Kept, Changes
  <2>6. Shifts(t, k, f, w)
    BY <2>2, <2>5, ChangeShifts
  <2> HIDE DEF k
  <2>7. Turn(t, k, f, w, m)
    BY <1>3, <1>4, <2>2, <2>6 DEF Turn
  <2> QED
    BY <1>1, <1>3, <1>5, <1>6, <2>2, <2>7, PlainSettled
<1> QED
  BY <1>7, <1>8

LEMMA SendReturnDoes ==
    ASSUME Inv, Inv', NEW t \in Threads, SendReturn(t)
    PROVE  Does(t)
<1> DEFINE f == Top(t)
           k == Len(stack[t])
<1>1. stack[t] # <<>> /\ f.pc = "waited" /\ FreeCall(t, f.m, Front(stack[t]))
  BY DEF SendReturn, At
<1>2. PICK m \in Msgs : f.m = m
  BY <1>1, TopActive DEF CallPcs
<1>3. /\ \A x \in Msgs \ {m} : msg'[x] = msg[x]
      /\ msg'[m].state = "active" =>
           /\ msg'[m].exit = msg[m].exit /\ Owed(msg'[m]) = Owed(msg[m])
           /\ msg'[m].event = msg[m].event /\ msg[m].state = "active"
      /\ Remain(t, m, Front(stack[t]), "none")
  BY <1>1, <1>2, FreeCallSets
<1>4. UNCHANGED <<queue, wq, last_msg>>
  BY <1>1 DEF FreeCall
<1>5. f.pc \notin Finishing
  BY <1>1 DEF Finishing
<1>6. Outcome(m, f.pc)
  BY <1>3, <1>5, PlainOutcome
<1>7. PICK g : Shifts(t, k, f, g) /\ (g = NoFrame \/ (g.m = m /\ g.pc = "handler"))
  BY <1>1, <1>3, LeavesShifts
<1>8. Turn(t, k, f, g, m)
  BY <1>2, <1>3, <1>7, NoFrameIs DEF Turn
<1> HIDE DEF k
<1> QED
  BY <1>1, <1>4, <1>5, <1>6, <1>7, <1>8, NoFrameIs, PlainSettled

LEMMA FreeHandleDoes ==
    ASSUME Inv, Inv', NEW t \in Threads, NEW m \in Msgs, FreeHandle(t, m)
    PROVE  Does(t)
<1> DEFINE rest == stack[t]
           h == Frame("handler", m, "none")
           k == Len(stack[t]) + 1
<1>1. /\ \A x \in Msgs \ {m} : msg'[x] = msg[x]
      /\ msg'[m].state = "active" =>
           /\ msg'[m].exit = msg[m].exit /\ Owed(msg'[m]) = Owed(msg[m])
           /\ msg'[m].event = msg[m].event /\ msg[m].state = "active"
      /\ Remain(t, m, rest, "none")
  <2>1. FreeCall(t, m, rest)
    BY DEF FreeHandle
  <2> HIDE DEF rest
  <2> QED
    BY <2>1, FreeCallSets
<1>2. UNCHANGED <<queue, wq, last_msg>>
  BY DEF FreeCall, FreeHandle
<1>3. NoFrame.pc \notin Finishing
  BY NoFrameIs DEF Finishing
<1>4. Outcome(m, NoFrame.pc)
  BY <1>1, <1>3, PlainOutcome
<1>5. stack[t] \in Seq(FrameType)
  BY InvHas DEF StacksOK
<1>6. \E g : Shifts(t, k, NoFrame, g) /\ (g = NoFrame \/ (g.m = m /\ g.pc = "handler"))
  <2>1. CASE stack' = [stack EXCEPT ![t] = stack[t]]
    <3>1. /\ \A i \in 1 .. Len(stack[t]) : SameFrame(stack[t][i], stack[t][i])
          /\ stack[t] # <<>> => Top(t).pc \in UserCode
      BY DEF SameFrame, FreeHandle
    <3> QED
      BY <1>5, <2>1, <3>1, InvHas, IdleStep
  <2>2. CASE stack' = [stack EXCEPT ![t] = Append(stack[t], h)]
    <3>1. h \in FrameType /\ h.m = m /\ h.pc = "handler"
      BY HandlerFrame
    <3> HIDE DEF h
    <3>2. Pushes(t, stack[t], h)
      BY <1>5, <2>2 DEF Pushes, SameFrame
    <3> QED
      BY <3>1, <3>2, PushShifts
  <2> QED
    BY <1>1, <2>1, <2>2 DEF Remain
<1>7. PICK g : Shifts(t, k, NoFrame, g) /\ (g = NoFrame \/ (g.m = m /\ g.pc = "handler"))
  BY <1>6
<1>8. Turn(t, k, NoFrame, g, m)
  BY <1>1, <1>7, NoFrameIs DEF Turn
<1> HIDE DEF k
<1> QED
  BY <1>2, <1>3, <1>4, <1>7, <1>8, NoFrameIs, PlainSettled

LEMMA AbortDoes ==
    ASSUME Inv, Inv', NEW t \in Threads, NEW m \in Msgs, Abort(t, m)
    PROVE  Does(t)
<1> DEFINE r == [msg[m] EXCEPT !.aborted = TRUE]
           k == Len(stack[t]) + 1
<1>1. msg' = [msg EXCEPT ![m] = r] /\ UNCHANGED <<stack, queue, wq, last_msg>>
  BY DEF Abort
<1>2. /\ r.exit = msg[m].exit /\ r.event = msg[m].event /\ r.state = msg[m].state
      /\ Owed(r) = Owed(msg[m])
  BY InvHas DEF MessageType, Owed
<1> HIDE DEF r
<1>3. msg'[m] = r /\ \A x \in Msgs \ {m} : msg'[x] = msg[x]
  BY <1>1, InvHas
<1>4. Shifts(t, k, NoFrame, NoFrame)
  <2>1. stack[t] \in Seq(FrameType) /\ stack' = [stack EXCEPT ![t] = stack[t]]
    BY <1>1, InvHas DEF StacksOK
  <2>2. /\ \A i \in 1 .. Len(stack[t]) : SameFrame(stack[t][i], stack[t][i])
        /\ stack[t] # <<>> => Top(t).pc \in UserCode
    BY DEF SameFrame, Abort
  <2> QED
    BY <2>1, <2>2, InvHas, IdleStep
<1> HIDE DEF k
<1>5. Turn(t, k, NoFrame, NoFrame, m)
  BY <1>3, <1>4, NoFrameIs DEF Turn
<1>6. NoFrame.pc \notin Finishing
  BY NoFrameIs DEF Finishing
<1>7. Outcome(m, NoFrame.pc)
  BY <1>2, <1>3, <1>6, PlainOutcome
<1> QED
  BY <1>1, <1>5, <1>6, <1>7, NoFrameIs, PlainSettled

LEMMA WaitDoes ==
    ASSUME Inv, Inv', NEW t \in Threads, Wait(t)
    PROVE  Does(t)
<1> DEFINE f == Top(t)
           k == Len(stack[t])
           g == [Top(t) EXCEPT !.pc = "waited", !.calls = 0]
<1>1. stack[t] # <<>> /\ f.pc = "wait" /\ UNCHANGED <<queue, wq, last_msg>>
  BY DEF Wait, At
<1>2. f \in FrameType /\ f.m \in Msgs
  BY <1>1, TopActive DEF CallPcs
<1>3. PICK m \in Msgs : f.m = m
  BY <1>2
<1>4. /\ g \in FrameType /\ g.pc = "waited" /\ g.m = m /\ g.api = f.api /\ g.i = f.i /\ g.to = f.to
  <2>1. "waited" \in Pcs
    BY DEF Pcs
  <2> QED
    BY <1>2, <1>3, <2>1, MovedFrame
<1> DEFINE r == [msg[m] EXCEPT !.event = "clear"]
<1>5. Changes(t, g) /\ msg' = [msg EXCEPT ![m] = r] /\ msg[m].event = "set"
  BY <1>1, <1>3, InvHas DEF Wait, Changes, Goto, Moved
<1>6. /\ r.exit = msg[m].exit /\ r.event # "set" /\ r.state = msg[m].state
      /\ Owed(r) = Owed(msg[m])
  BY InvHas DEF MessageType, Owed
<1> HIDE DEF g, r
<1>7. msg'[m] = r /\ \A x \in Msgs \ {m} : msg'[x] = msg[x]
  BY <1>5, InvHas
<1>8. Shifts(t, k, f, g)
  BY <1>4, <1>5, ChangeShifts
<1> HIDE DEF k
<1>9. Turn(t, k, f, g, m)
  BY <1>3, <1>4, <1>7, <1>8 DEF Turn
<1>10. f.pc \notin Finishing
  BY <1>1 DEF Finishing
<1>11. Outcome(m, f.pc)
  BY <1>6, <1>7, <1>10, PlainOutcome
<1> QED
  BY <1>1, <1>3, <1>4, <1>5, <1>9, <1>10, <1>11, PlainSettled

LEMMA DispatchWaitDoes ==
    ASSUME Inv, Inv', NEW t \in Threads, DispatchWait(t)
    PROVE  Does(t)
<1> DEFINE g == Frame("woken", NoMsg, "none")
           k == Len(stack[t]) + 1
<1>1. stack[t] = <<>> /\ UNCHANGED <<msg, queue, wq, last_msg>>
  BY DEF DispatchWait
<1>2. g \in FrameType /\ g.pc = "woken" /\ g.m = NoMsg
  <2>1. "woken" \in Pcs
    BY DEF Pcs
  <2> QED
    BY <2>1, FrameNone
<1>3. stack' = [stack EXCEPT ![t] = <<g>>]
  BY DEF DispatchWait
<1> HIDE DEF g
<1>4. Shifts(t, k, NoFrame, g)
  <2>1. Pushes(t, <<>>, g)
    BY <1>1, <1>3, FirstPush
  <2> QED
    BY <1>2, <2>1, PushShifts
<1> HIDE DEF k
<1>5. Turn(t, k, NoFrame, g, NoMsg)
  BY <1>1, <1>2, <1>4, NoFrameIs DEF Turn
<1>6. NoFrame.pc \notin Finishing /\ NoMsg \notin Msgs
  BY NoFrameIs, CallAssumption DEF Finishing
<1> QED
  BY <1>1, <1>2, <1>5, <1>6, NoFrameIs, PlainSettled

LEMMA DetachDoes ==
    ASSUME Inv, Inv', NEW t \in Threads, DetachStart(t) \/ DetachNext(t)
    PROVE  Does(t)
<1>1. /\ stack[t] # <<>> /\ Top(t).pc \in {"exited", "drained"} /\ Drain(t)
      /\ UNCHANGED <<msg, wq, last_msg>>
      /\ Top(t).pc = "exited" => deleted'[t]
  BY InvParts DEF DetachStart, DetachNext, At, MarkDeleted
<1>2. CASE queue[t] # <<>>
  <2>1. /\ queue' = [queue EXCEPT ![t] = Tail(@)]
        /\ stack' = [stack EXCEPT ![t] = <<Frame("drain", Head(queue[t]).m, "none")>>]
    BY <1>1, <1>2 DEF Drain
  <2> QED
    BY <1>1, <1>2, <2>1, GetDoes
<1>3. CASE queue[t] = <<>>
  <2> DEFINE k == Len(stack[t])
             f == Top(t)
  <2>1. UNCHANGED queue /\ stack' = [stack EXCEPT ![t] = <<>>]
    BY <1>1, <1>3 DEF Drain
  <2>2. Shifts(t, k, f, NoFrame) /\ f.m = NoMsg
    BY <1>1, <2>1, AloneShifts
  <2> HIDE DEF k
  <2>3. Turn(t, k, f, NoFrame, NoMsg)
    BY <1>1, <2>2, NoFrameIs DEF Turn
  <2>4. f.pc \notin Finishing /\ NoMsg \notin Msgs
    BY <1>1, CallAssumption DEF Finishing
  <2> QED
    BY <1>1, <2>1, <2>3, <2>4, NoFrameIs, PlainSettled
<1> QED
  BY <1>2, <1>3

LEMMA ComplDoes ==
    ASSUME Inv, Inv', ComplTake \/ HandlerReturn
    PROVE  Does(Compl)
<1>1. Compl \in Threads
  BY CallAssumption
<1>2. CASE ComplTake
  <2> DEFINE k == Len(stack[Compl]) + 1
  <2>1. /\ stack[Compl] = <<>> /\ xfer # <<>>
        /\ msg' = [msg EXCEPT ![Head(xfer)] = [msg[Head(xfer)] EXCEPT !.state = "completing"]]
        /\ stack' = [stack EXCEPT ![Compl] = <<Frame("handler", Head(xfer), "none")>>]
        /\ UNCHANGED <<queue, wq, last_msg>>
    BY <1>2 DEF ComplTake
  <2>2. PICK m \in Msgs : m = Head(xfer)
    BY <2>1, InvParts, TailFacts DEF XferOK
  <2>3. msg'[m].state = "completing" /\ \A x \in Msgs \ {m} : msg'[x] = msg[x]
    BY <2>1, <2>2, InvHas DEF MessageType
  <2> DEFINE g == Frame("handler", m, "none")
  <2>4. g \in FrameType /\ g.m = m /\ g.pc = "handler"
    BY HandlerFrame
  <2>5. stack' = [stack EXCEPT ![Compl] = <<g>>]
    BY <2>1, <2>2
  <2> HIDE DEF g
  <2>6. Shifts(Compl, k, NoFrame, g)
    <3>1. Pushes(Compl, <<>>, g)
      BY <1>1, <2>1, <2>5, FirstPush
    <3> QED
      BY <1>1, <2>4, <3>1, PushShifts
  <2> HIDE DEF k
  <2>7. Turn(Compl, k, NoFrame, g, m)
    BY <2>3, <2>4, <2>6, NoFrameIs DEF Turn
  <2>8. NoFrame.pc \notin Finishing /\ Outcome(m, NoFrame.pc)
    BY <2>3, NoFrameIs DEF Finishing, Outcome
  <2> QED
    BY <2>1, <2>4, <2>7, <2>8, NoFrameIs, PlainSettled
<1>3. CASE HandlerReturn
  <2> DEFINE k == Len(stack[Compl])
             f == Top(Compl)
  <2>1. /\ stack[Compl] # <<>> /\ f.pc = "handler"
        /\ msg' = [msg EXCEPT ![f.m] = FreeMessage]
        /\ stack' = [stack EXCEPT ![Compl] = Front(stack[Compl])]
        /\ UNCHANGED <<queue, wq, last_msg>>
    BY <1>3 DEF HandlerReturn, At, Return
  <2>2. PICK m \in Msgs : f.m = m
    BY <1>1, <2>1, InvParts, TopFacts DEF FrameOK, FrameType
  <2>3. msg'[m].state = "free" /\ \A x \in Msgs \ {m} : msg'[x] = msg[x]
    BY <2>1, <2>2, InvHas DEF FreeMessage
  <2>4. Shifts(Compl, k, f, NoFrame)
    <3>1. Pops(Compl)
      BY <2>1 DEF Pops
    <3> QED
      BY <1>1, <3>1, PopShifts
  <2> HIDE DEF k
  <2>5. Turn(Compl, k, f, NoFrame, m)
    BY <2>2, <2>3, <2>4, NoFrameIs DEF Turn
  <2>6. f.pc \notin Finishing /\ Outcome(m, f.pc)
    BY <2>1, <2>3 DEF Finishing, Outcome
  <2> QED
    BY <2>1, <2>5, <2>6, NoFrameIs, PlainSettled
<1> QED
  BY <1>2, <1>3

LEMMA ContinueDoes ==
    ASSUME Inv, Inv', NEW t \in Threads, Continue(t)
    PROVE  Does(t)
<1>1. ASSUME Publishing(t) PROVE Does(t)
  <2>1. ASSUME SendWindowCount(t) PROVE Does(t)
    <3>1. TRUE \in BOOLEAN
      OBVIOUS
    <3> QED
      BY <2>1, <3>1, OwnReturnDoes
  <2> QED
    BY <1>1, <2>1, PostCheckDoes, PostOtherDoes, PostOwnDoes, PublishEndDoes DEF Publishing
<1>2. ASSUME Waiting(t) PROVE Does(t)
  BY <1>2, WaitDoes, SendReturnDoes DEF Waiting
<1>3. ASSUME Returning(t) PROVE Does(t)
  BY <1>3, OwnReturnDoes, SendWindowEndDoes, DispatchReturnDoes DEF Returning
<1>4. ASSUME Quitting(t) PROVE Does(t)
  BY <1>4, QuitStepsDoes DEF Quitting
<1>5. ASSUME Detaching(t) PROVE Does(t)
  BY <1>5, DetachDoes, ExitDoes DEF Detaching
<1> QED
  BY <1>1, <1>2, <1>3, <1>4, <1>5, DispatchGetDoes, ExitDoes DEF Continue

\* Every step is of one of the four kinds.
LEMMA NextDoes ==
    ASSUME Inv, Inv', [Next]_vars
    PROVE  (\E t \in Threads : Does(t)) \/ UNCHANGED vars
<1>1. ASSUME NEW t \in Threads, Begin(t) PROVE Does(t)
  BY <1>1, PostDoes, QuitDoes, AbortDoes DEF Begin
<1>2. ASSUME NEW t \in Threads, Free(t) PROVE Does(t)
  BY <1>2, FreeHandleDoes DEF Free
<1>3. ASSUME NEW t \in Threads, Continue(t) \/ DispatchWait(t) \/ WindowBegin(t) PROVE Does(t)
  BY <1>3, ContinueDoes, DispatchWaitDoes, WindowBeginDoes
<1>4. ASSUME ComplTake \/ HandlerReturn PROVE \E t \in Threads : Does(t)
  BY <1>4, ComplDoes, CallAssumption
<1> QED
  BY <1>1, <1>2, <1>3, <1>4 DEF Next

-----------------------------------------------------------------------------
(* What a callback sees as its message.                                     *)

\* A publisher makes a call that its thread makes.
CallsKept ==
    \A t \in Threads : \A i \in DOMAIN stack[t] :
        stack[t][i].pc \in PublisherPcs => stack[t][i].api \in Calls[t]

LEMMA CallsKeptStep ==
    ASSUME Inv, Inv', CallsKept, NEW t \in Threads, Does(t)
    PROVE  CallsKept'
<1> SUFFICES ASSUME NEW u \in Threads, NEW i \in DOMAIN stack'[u], stack'[u][i].pc \in PublisherPcs
             PROVE  stack'[u][i].api \in Calls[u]
  BY DEF CallsKept
<1>1. PICK k, f, g, m : \/ (Begins(t, k, g, m) /\ f = NoFrame) \/ Carries(t, k, f, g, m)
                        \/ Takes(t, k, f, g, m) \/ Settled(t, k, f, g, m)
  BY DEF Does
<1>2. Shifts(t, k, f, g)
  BY <1>1 DEF Begins, Carries, Takes, Settled, Turn
<1>3. CASE u = t /\ i = k /\ stack'[u][i] = g
  <2>1. CASE Begins(t, k, g, m)
    BY <1>3, <2>1, NoFrameIs DEF Begins, PublisherPcs
  <2>2. CASE ~Begins(t, k, g, m)
    <3>1. f.pc \in PublisherPcs /\ g.api = f.api
      BY <1>1, <1>3, <2>2, NoFrameIs DEF Carries, Takes, Settled, PublisherPcs
    <3>2. k \in DOMAIN stack[t] /\ f = stack[t][k]
      BY <1>2, <3>1, FromFrame, NoFrameIs DEF PublisherPcs
    <3> QED
      BY <1>3, <3>1, <3>2 DEF CallsKept
  <2> QED
    BY <2>1, <2>2
<1>4. CASE i \in DOMAIN stack[u] /\ SameFrame(stack'[u][i], stack[u][i])
  BY <1>4 DEF SameFrame, CallsKept
<1> QED
  BY <1>2, <1>3, <1>4, Elsewhere

\* The last message of a thread is that of the innermost handler it is in.
LastHeld ==
    \A t \in Threads : last_msg[t] # NoMsg =>
        \E i \in DOMAIN stack[t] : Innermost(t, i) /\ stack[t][i].m = last_msg[t]

\* A frame that is no user code is the last one of its thread.
LEMMA FrameOnTop ==
    ASSUME Inv, NEW u \in Threads, NEW i \in DOMAIN stack[u], stack[u][i].pc \notin UserCode
    PROVE  \A j \in DOMAIN stack[u] : j <= i
<1>1. /\ i \in 1 .. Len(stack[u]) /\ Len(stack[u]) \in Nat
      /\ DOMAIN stack[u] = 1 .. Len(stack[u])
  BY InvHas DEF StacksOK
<1>2. ~(i < Len(stack[u]))
  BY InvHas DEF StackShape
<1> QED
  BY <1>1, <1>2

\* A handler that starts in the place of f is the innermost one.
LEMMA StartsInnermost ==
    ASSUME Inv, Inv', NEW t \in Threads, NEW k, NEW f, NEW g, Shifts(t, k, f, g),
           g.pc \in Handling,
           \/ k \in DOMAIN stack[t] /\ f.pc \notin UserCode
           \/ k = 1 /\ f = NoFrame
    PROVE  k \in DOMAIN stack'[t] /\ stack'[t][k] = g /\ Innermost(t, k)'
<1>1. k \in DOMAIN stack'[t] /\ stack'[t][k] = g
  BY NoFrameIs DEF Shifts, FrameIs, Handling
<1>2. \A j \in DOMAIN stack'[t] : j \in Nat /\ (j # k => j \in DOMAIN stack[t])
  <2>1. \A j \in DOMAIN stack'[t] : j \in Nat
    BY InvHasNext DEF StacksOK
  <2> QED
    BY <2>1 DEF Shifts, StackStep
<1>3. \A j \in DOMAIN stack'[t] : j <= k
  <2>1. k \in Nat
    BY DEF Shifts
  <2>2. CASE k \in DOMAIN stack[t] /\ f.pc \notin UserCode
    <3>1. stack[t][k].pc \notin UserCode
      BY <2>2 DEF Shifts, FrameIs
    <3> QED
      BY <1>2, <2>1, <2>2, <3>1, FrameOnTop
  <2>3. CASE k = 1 /\ f = NoFrame
    <3>1. DOMAIN stack[t] = 1 .. Len(stack[t]) /\ Len(stack[t]) \in Nat
      BY InvHas DEF StacksOK
    <3>2. CASE 1 \in DOMAIN stack[t]
      <4>1. stack[t][1].pc \notin UserCode
        BY <2>3, <3>2, NoFrameIs DEF Shifts, FrameIs, UserCode
      <4> QED
        BY <1>2, <2>1, <2>3, <3>2, <4>1, FrameOnTop
    <3>3. CASE 1 \notin DOMAIN stack[t]
      BY <1>2, <2>3, <3>1, <3>3
    <3> QED
      BY <3>2, <3>3
  <2> QED
    BY <2>2, <2>3
<1> QED
  BY <1>1, <1>3 DEF Innermost

LEMMA LastHeldStep ==
    ASSUME Inv, Inv', LastHeld, NEW t \in Threads, Does(t)
    PROVE  LastHeld'
<1> SUFFICES ASSUME NEW u \in Threads, last_msg'[u] # NoMsg
             PROVE  \E i \in DOMAIN stack'[u] : Innermost(u, i)' /\ stack'[u][i].m = last_msg'[u]
  BY DEF LastHeld
<1>1. PICK k, f, g, m : \/ (Begins(t, k, g, m) /\ f = NoFrame) \/ Carries(t, k, f, g, m)
                        \/ Takes(t, k, f, g, m) \/ Settled(t, k, f, g, m)
  BY DEF Does
<1>2. Shifts(t, k, f, g)
  BY <1>1 DEF Begins, Carries, Takes, Settled, Turn
<1>3. last_msg \in [Threads -> Msgs \cup {NoMsg}]
  BY InvParts
<1>4. CASE u # t
  <2>1. last_msg'[u] = last_msg[u]
    BY <1>1, <1>3, <1>4 DEF Begins, Carries, Takes, Settled, LastInLoop
  <2>2. stack'[u] = stack[u]
    BY <1>2, <1>4 DEF Shifts, StackStep
  <2>3. PICK i \in DOMAIN stack[u] : Innermost(u, i) /\ stack[u][i].m = last_msg[u]
    BY <2>1 DEF LastHeld
  <2> QED
    BY <2>1, <2>2, <2>3 DEF Innermost
<1>5. CASE u = t /\ g.pc \in Handling
  <2>1. CASE Takes(t, k, f, g, m)
    <3>1. g.pc \in {"callback", "wm"} /\ last_msg'[t] = m /\ g.m = m /\ f.m = NoMsg /\ m \in Msgs
      BY <1>3, <1>5, <2>1 DEF Takes, Handling
    <3>2. k \in DOMAIN stack'[t] /\ g = stack'[t][k]
      BY <1>2, <3>1, NoFrameIs DEF Shifts, FrameIs
    <3>3. FrameOK(t, k, g)
      BY <3>2, InvHasNext DEF StackShape, FrameOK
    <3>4. k = 1
      BY <3>1, <3>3 DEF FrameOK, BottomPcs
    <3>5. \/ k \in DOMAIN stack[t] /\ f.pc \notin UserCode
          \/ f = NoFrame
      <4> SUFFICES ASSUME k \in DOMAIN stack[t], f = stack[t][k] PROVE f.pc \notin UserCode
        BY <1>2, FromFrame
      <4>1. FrameOK(t, k, f)
        BY InvHas DEF StackShape
      <4> QED
        BY <3>1, <4>1 DEF FrameOK, UserCode
    <3>6. k \in DOMAIN stack'[t] /\ stack'[t][k] = g /\ Innermost(t, k)'
      BY <1>2, <1>5, <3>4, <3>5, StartsInnermost
    <3> QED
      BY <1>5, <3>1, <3>6
  <2>2. CASE Carries(t, k, f, g, m)
    <3>1. g.pc = "window"
      BY <1>5, <2>2, NoFrameIs DEF Carries, Handling, PublisherPcs
    <3>2. f.pc = "publish" /\ last_msg'[t] = m /\ g.m = m
      BY <1>3, <2>2, <3>1, NoFrameIs DEF Carries, LastInLoop
    <3>3. k \in DOMAIN stack[t] /\ f.pc \notin UserCode
      BY <1>2, <3>2, FromFrame, NoFrameIs DEF UserCode
    <3>4. k \in DOMAIN stack'[t] /\ stack'[t][k] = g /\ Innermost(t, k)'
      BY <1>2, <1>5, <3>3, StartsInnermost
    <3> QED
      BY <1>5, <3>2, <3>4
  <2> QED
    BY <1>1, <1>5, <2>1, <2>2, NoFrameIs DEF Begins, Settled, Handling
<1>6. CASE u = t /\ g.pc \notin Handling
  <2>1. last_msg'[t] = last_msg[t] /\ f.pc \notin Handling
    <3>1. CASE Begins(t, k, g, m) /\ f = NoFrame
      BY <3>1, NoFrameIs DEF Begins, Handling
    <3>2. CASE Carries(t, k, f, g, m)
      BY <1>6, <3>2 DEF Carries, LastInLoop, Handling, PublisherPcs
    <3>3. CASE Takes(t, k, f, g, m)
      <4>1. f.pc \notin Handling
        <5> SUFFICES ASSUME k \in DOMAIN stack[t], f = stack[t][k] PROVE f.pc \notin Handling
          BY <1>2, FromFrame, NoFrameIs DEF Handling
        <5>1. FrameOK(t, k, f)
          BY InvHas DEF StackShape
        <5> QED
          BY <3>3, <5>1 DEF FrameOK, Handling, Takes
      <4> QED
        BY <1>6, <3>3, <4>1 DEF Takes, Handling
    <3>4. CASE Settled(t, k, f, g, m)
      BY <1>3, <1>6, <3>4 DEF Settled
    <3> QED
      BY <1>1, <3>1, <3>2, <3>3, <3>4
  <2>2. PICK i \in DOMAIN stack[t] : Innermost(t, i) /\ stack[t][i].m = last_msg[t]
    BY <1>6, <2>1 DEF LastHeld
  <2>3. i # k
    <3> SUFFICES ASSUME i = k PROVE FALSE
      OBVIOUS
    <3>1. f = stack[t][k]
      BY <1>2, <2>2 DEF Shifts, FrameIs
    <3> QED
      BY <2>1, <2>2, <3>1 DEF Innermost
  <2>4. i \in DOMAIN stack'[t] /\ SameFrame(stack'[t][i], stack[t][i])
    <3>1. i \in Nat
      BY InvHas DEF StacksOK
    <3> QED
      BY <1>2, <2>3, <3>1 DEF Shifts, StackStep
  <2>5. ASSUME NEW j \in DOMAIN stack'[t], stack'[t][j].pc \in Handling PROVE j <= i
    <3>1. ~(j = k /\ stack'[t][j] = g)
      BY <1>6, <2>5
    <3>2. j \in DOMAIN stack[t] /\ SameFrame(stack'[t][j], stack[t][j])
      BY <1>2, <3>1, Elsewhere
    <3> QED
      BY <2>2, <2>5, <3>2 DEF SameFrame, Innermost
  <2> QED
    BY <1>6, <2>1, <2>2, <2>4, <2>5 DEF Innermost, SameFrame
<1> QED
  BY <1>4, <1>5, <1>6

LEMMA CallsKeptInit == Init => CallsKept /\ LastHeld
BY DEF Init, CallsKept, LastHeld

LEMMA StutterKeeps == UNCHANGED vars => /\ CallsKept => CallsKept'
                                        /\ LastHeld => LastHeld'
BY DEF vars, CallsKept, LastHeld, Innermost

LEMMA LastHeldNext == Inv /\ Inv' /\ [Next]_vars /\ LastHeld => LastHeld'
BY NextDoes, StutterKeeps, LastHeldStep

LEMMA LastHeldMeans == Inv /\ LastHeld => CurrentHandled
<1> SUFFICES ASSUME Inv, LastHeld, NEW t \in Threads, last_msg[t] # NoMsg
             PROVE  /\ msg[last_msg[t]].state = "active"
                    /\ \E i \in DOMAIN stack[t] : Innermost(t, i) /\ stack[t][i].m = last_msg[t]
  BY DEF CurrentHandled
<1>1. PICK i \in DOMAIN stack[t] : Innermost(t, i) /\ stack[t][i].m = last_msg[t]
  BY DEF LastHeld
<1>2. stack[t][i].pc \in CallPcs \cup RecipientPcs
  BY <1>1 DEF Innermost, Handling, CallPcs, RecipientPcs
<1>3. msg[stack[t][i].m].state = "active"
  BY <1>2, FrameActive
<1> QED
  BY <1>1, <1>3

\* What kmq_get_current_message returns, which holds no reference of its own, is
\* the message of the innermost handler that the thread is in, or none, and it
\* is never a freed message: for every list of subscribers, the sender's own
\* windows included, and however sends, handlers and waits are nested.
THEOREM CurrentHandledCorrect == Spec => []CurrentHandled
<1>1. Init => Inv /\ LastHeld
  BY InitInv, CallsKeptInit
<1>2. Inv /\ LastHeld /\ [Next]_vars => (Inv /\ LastHeld)'
  BY NextInv, LastHeldNext
<1>3. Inv /\ LastHeld => CurrentHandled
  BY LastHeldMeans
<1> QED
  BY <1>1, <1>2, <1>3, PTL DEF Spec

-----------------------------------------------------------------------------
(* What kmq_send_thread_quit_message promises.                              *)

LEMMA AppendFrom ==
    ASSUME NEW S, NEW q \in Seq(S), NEW e, NEW j \in DOMAIN Append(q, e)
    PROVE  (j \in DOMAIN q /\ Append(q, e)[j] = q[j]) \/ Append(q, e)[j] = e
OBVIOUS

LEMMA TailFrom ==
    ASSUME NEW S, NEW q \in Seq(S), q # <<>>, NEW j \in DOMAIN Tail(q)
    PROVE  j + 1 \in DOMAIN q /\ Tail(q)[j] = q[j + 1]
OBVIOUS

\* A message that is queued is active.
LEMMA QueuedActive ==
    ASSUME Inv
    PROVE  /\ \A v \in Threads : \A j \in DOMAIN queue[v] :
                queue[v][j].m \in Msgs /\ msg[queue[v][j].m].state = "active"
           /\ \A v \in Threads : \A j \in DOMAIN wq[v] :
                wq[v][j] \in Msgs /\ msg[wq[v][j]].state = "active"
<1>1. NoDangling /\ QueuesOK /\ wq \in [Threads -> Seq(Msgs)]
  BY InvIs, InvParts, InvHas DEF IInv, TypeOK
<1>2. ASSUME NEW v \in Threads, NEW j \in DOMAIN queue[v]
      PROVE  queue[v][j].m \in Msgs /\ msg[queue[v][j].m].state = "active"
  <2>1. queue[v] \in Seq(Entry)
    BY <1>1 DEF QueuesOK
  <2>2. queue[v][j] \in Entry
    BY <2>1, ElementOfSeq
  <2>3. queue[v][j].m \in Msgs
    BY <2>2 DEF Entry
  <2>4. <<v, j>> \in QueuedTo(queue[v][j].m, Queues)
    <3>1. j \in DOMAIN Queues[v] /\ Queues[v][j] = queue[v][j].m
      BY DEF Queues
    <3> QED
      BY <3>1, InQueuedTo
  <2> QED
    BY <1>1, <2>3, <2>4 DEF NoDangling, Active
<1>3. ASSUME NEW v \in Threads, NEW j \in DOMAIN wq[v]
      PROVE  wq[v][j] \in Msgs /\ msg[wq[v][j]].state = "active"
  <2>1. wq[v] \in Seq(Msgs)
    BY <1>1
  <2>2. wq[v][j] \in Msgs
    BY <2>1, ElementOfSeq
  <2>3. <<v, j>> \in QueuedTo(wq[v][j], wq)
    BY InQueuedTo
  <2> QED
    BY <1>1, <2>2, <2>3 DEF NoDangling, Active
<1> QED
  BY <1>2, <1>3

\* The thread u has taken its quit message, or is past dispatching.
Past(u) == deleted[u] \/ At(u, "exited")

LEMMA DeletedKept ==
    ASSUME Inv, [Next]_vars, NEW u \in Threads, deleted[u]
    PROVE  deleted'[u]
<1>1. deleted \in [Threads -> BOOLEAN]
  BY InvParts
<1>2. ASSUME NEW t \in Threads, MarkDeleted(t) PROVE deleted'[u]
  BY <1>1, <1>2 DEF MarkDeleted
<1>3. ASSUME NEW t \in Threads, Publishing(t) PROVE UNCHANGED deleted
  BY <1>3 DEF Publishing, PostCheck, PostPut, PostDirect, PostWindow, PostSendWindow,
              SendWindowCount, PublishEnd
<1>4. ASSUME NEW t \in Threads, Waiting(t) \/ Returning(t) \/ Quitting(t) PROVE UNCHANGED deleted
  BY <1>4 DEF Waiting, Returning, Quitting, Wait, SendReturn, FreeCall, DirectReturn, SendWindowEnd,
              DispatchReturn, WindowEnd, QuitCount, QuitPut
<1>5. ASSUME NEW t \in Threads, Detaching(t) \/ DispatchGet(t) \/ DispatchExit(t)
      PROVE  UNCHANGED deleted \/ MarkDeleted(t)
  BY <1>5 DEF Detaching, DetachStart, DetachFail, DetachNext, DispatchGet, DispatchExit
<1>6. ASSUME NEW t \in Threads, Begin(t) \/ Free(t) \/ DispatchWait(t) \/ WindowBegin(t)
      PROVE  UNCHANGED deleted
  BY <1>6 DEF Begin, Post, Quit, Abort, Free, FreeHandle, FreeCall, DispatchWait, WindowBegin
<1>7. ASSUME ComplTake \/ HandlerReturn PROVE UNCHANGED deleted
  BY <1>7 DEF ComplTake, HandlerReturn
<1>8. ASSUME UNCHANGED vars PROVE UNCHANGED deleted
  BY <1>8 DEF vars
<1>9. UNCHANGED deleted \/ \E t \in Threads : MarkDeleted(t)
  BY <1>3, <1>4, <1>5, <1>6, <1>7, <1>8 DEF Next, Continue
<1> QED
  BY <1>2, <1>9

\* A thread that has taken its quit message does nothing but detach itself.
LEMMA ExitedKept ==
    ASSUME Inv, Inv', NEW t \in Threads, Does(t), At(t, "exited")
    PROVE  deleted'[t] \/ At(t, "exited")'
<1>1. PICK k, f, g, m : \/ (Begins(t, k, g, m) /\ f = NoFrame) \/ Carries(t, k, f, g, m)
                        \/ Takes(t, k, f, g, m) \/ Settled(t, k, f, g, m)
  BY DEF Does
<1>2. Shifts(t, k, f, g)
  BY <1>1 DEF Begins, Carries, Takes, Settled, Turn
<1>3. stack[t] # <<>> /\ Top(t).pc = "exited" /\ Top(t) = stack[t][Len(stack[t])]
      /\ Len(stack[t]) = 1 /\ Len(stack[t]) \in DOMAIN stack[t]
  BY InvHas, TopFacts, BottomAlone DEF At, BottomPcs
<1>4. k = 1
  <2> SUFFICES ASSUME k # 1 PROVE FALSE
    OBVIOUS
  <2>1. 1 \in DOMAIN stack'[t] /\ SameFrame(stack'[t][1], stack[t][1])
    BY <1>2, <1>3 DEF Shifts, StackStep
  <2>2. stack'[t][1].pc \in UserCode
    BY <1>2, <2>1 DEF Shifts
  <2> QED
    BY <1>3, <2>1, <2>2 DEF SameFrame, UserCode
<1>5. f.pc = "exited" /\ f # NoFrame
  BY <1>2, <1>3, <1>4, NoFrameIs DEF Shifts, FrameIs
<1> QED
  BY <1>1, <1>5 DEF Carries, PublisherPcs, Takes, Settled

LEMMA PastKept ==
    ASSUME Inv, Inv', [Next]_vars, NEW u \in Threads, Past(u)
    PROVE  Past(u)'
<1>1. CASE deleted[u]
  BY <1>1, DeletedKept DEF Past
<1>2. CASE At(u, "exited") /\ UNCHANGED vars
  BY <1>2 DEF Past, At, Top, vars
<1>3. CASE At(u, "exited") /\ \E t \in Threads : Does(t)
  <2>1. PICK t \in Threads : Does(t)
    BY <1>3
  <2>2. CASE t = u
    BY <1>3, <2>1, <2>2, ExitedKept DEF Past
  <2>3. CASE t # u
    <3>1. stack'[u] = stack[u]
      BY <2>1, <2>3 DEF Does, Begins, Carries, Takes, Settled, Turn, Shifts, StackStep
    <3> QED
      BY <1>3, <3>1 DEF Past, At, Top
  <2> QED
    BY <2>2, <2>3
<1> QED
  BY <1>1, <1>2, <1>3, NextDoes DEF Past

\* The step of t is of one of the four kinds, with f, g and m as they are there.
Kind(t, k, f, g, m) ==
    \/ Begins(t, k, g, m) /\ f = NoFrame
    \/ Carries(t, k, f, g, m)
    \/ Takes(t, k, f, g, m)
    \/ Settled(t, k, f, g, m)

LEMMA DoesKind ==
    ASSUME NEW t, Does(t)
    PROVE  \E k, f, g, m : Kind(t, k, f, g, m)
BY DEF Does, Kind

LEMMA KindShifts ==
    ASSUME NEW t, NEW k, NEW f, NEW g, NEW m, Kind(t, k, f, g, m)
    PROVE  Shifts(t, k, f, g)
BY DEF Kind, Begins, Carries, Takes, Settled, Turn

\* The same call, at a place of the stack before and after a step.
SameCall(g, f) == f.pc \in CallPcs /\ g.m = f.m /\ g.api = f.api /\ g.to = f.to

\* A call begins or was there before.
LEMMA CallFrom ==
    ASSUME Inv, Inv', NEW t \in Threads, NEW k, NEW f, NEW g, NEW m, Kind(t, k, f, g, m),
           NEW u \in Threads, NEW i \in DOMAIN stack'[u], stack'[u][i].pc \in CallPcs
    PROVE  \/ Begins(t, k, g, m) /\ stack'[u][i] = g /\ g # NoFrame
           \/ i \in DOMAIN stack[u] /\ SameCall(stack'[u][i], stack[u][i])
<1>1. Shifts(t, k, f, g)
  BY KindShifts
<1>2. CASE u = t /\ i = k /\ stack'[u][i] = g
  <2>1. g # NoFrame
    BY <1>2, NoFrameIs DEF CallPcs
  <2>2. CASE Begins(t, k, g, m)
    BY <1>2, <2>1, <2>2
  <2>3. CASE ~Begins(t, k, g, m)
    <3>1. f.pc \in CallPcs /\ g.m = f.m /\ g.api = f.api /\ g.to = f.to
      <4>1. Carries(t, k, f, g, m) \/ Takes(t, k, f, g, m) \/ Settled(t, k, f, g, m)
        BY <2>3 DEF Kind
      <4>2. g.pc \in CallPcs
        BY <1>2
      <4> QED
        BY <2>1, <4>1, <4>2 DEF Carries, Takes, Settled, PublisherPcs, CallPcs
    <3>2. k \in DOMAIN stack[t] /\ f = stack[t][k]
      BY <1>1, <3>1, FromFrame, NoFrameIs DEF CallPcs
    <3> QED
      BY <1>2, <3>1, <3>2 DEF SameCall
  <2> QED
    BY <2>2, <2>3
<1>3. CASE i \in DOMAIN stack[u] /\ SameFrame(stack'[u][i], stack[u][i])
  BY <1>3 DEF SameFrame, SameCall
<1> QED
  BY <1>1, <1>2, <1>3, Elsewhere

\* What FrameActive and QueuedActive say, of the next state.
ActiveFrames ==
    \A u \in Threads : \A i \in DOMAIN stack[u] :
        stack[u][i].pc \in CallPcs \cup RecipientPcs =>
            /\ FrameOK(u, i, stack[u][i])
            /\ stack[u][i].m \in Msgs /\ msg[stack[u][i].m].state = "active"

ActiveQueues ==
    /\ \A v \in Threads : \A j \in DOMAIN queue[v] :
         queue[v][j].m \in Msgs /\ msg[queue[v][j].m].state = "active"
    /\ \A v \in Threads : \A j \in DOMAIN wq[v] :
         wq[v][j] \in Msgs /\ msg[wq[v][j]].state = "active"

LEMMA AreActive == Inv => ActiveFrames /\ ActiveQueues
BY FrameActive, QueuedActive DEF ActiveFrames, ActiveQueues

LEMMA AreActiveNext == (Inv => ActiveFrames /\ ActiveQueues)'
BY AreActive, PTL

\* A message is for a quit from its beginning to its end.
LEMMA ExitKept ==
    ASSUME NEW t, NEW k, NEW f, NEW g, NEW m, Kind(t, k, f, g, m),
           NEW x \in Msgs, msg[x].state = "active", msg'[x].state = "active"
    PROVE  msg'[x].exit = msg[x].exit
<1>1. CASE x # m
  BY <1>1 DEF Kind, Begins, Carries, Takes, Settled, Turn
<1>2. CASE x = m
  BY <1>2 DEF Kind, Begins, Carries, Takes, Settled, Outcome, Lessens
<1> QED
  BY <1>1, <1>2

\* A quit message is the one of a quit call, and no callback is called for it.
QuitsApart ==
    \A u \in Threads : \A i \in DOMAIN stack[u] :
        /\ stack[u][i].pc \in CallPcs => (msg[stack[u][i].m].exit <=> stack[u][i].api \in Quits)
        /\ stack[u][i].pc \in {"callback", "wm"} => ~msg[stack[u][i].m].exit

NoWindowQuit == \A v \in Threads : \A j \in DOMAIN wq[v] : ~msg[wq[v][j]].exit

LEMMA NoWindowQuitStep ==
    ASSUME Inv, Inv', QuitsApart, NoWindowQuit, NEW t \in Threads, Does(t)
    PROVE  NoWindowQuit'
<1> SUFFICES ASSUME NEW v \in Threads, NEW j \in DOMAIN wq'[v] PROVE ~msg'[wq'[v][j]].exit
  BY DEF NoWindowQuit
<1>1. PICK k, f, g, m : Kind(t, k, f, g, m)
  BY DoesKind
<1> DEFINE x == wq'[v][j]
<1>2. x \in Msgs /\ msg'[x].state = "active"
  BY AreActiveNext DEF ActiveQueues
<1>3. WindowsOK
  BY InvParts
<1>4. ASSUME NEW i \in DOMAIN wq[v], x = wq[v][i] PROVE ~msg'[x].exit
  <2>1. msg[x].state = "active" /\ ~msg[x].exit
    BY <1>4, AreActive DEF ActiveQueues, NoWindowQuit
  <2> QED
    BY <1>1, <1>2, <2>1, ExitKept
<1>5. CASE \E w \in Threads : wq' = [wq EXCEPT ![w] = Append(@, m)] /\ Carries(t, k, f, g, m)
                              /\ f.api \notin Quits
  <2>1. PICK w \in Threads : wq' = [wq EXCEPT ![w] = Append(@, m)]
    BY <1>5
  <2>2. wq[v] \in Seq(Msgs) /\ (wq'[v] = wq[v] \/ wq'[v] = Append(wq[v], m))
    BY <1>3, <2>1 DEF WindowsOK
  <2>3. (j \in DOMAIN wq[v] /\ x = wq[v][j]) \/ x = m
    BY <2>2, AppendFrom
  <2>4. ASSUME x = m PROVE ~msg'[x].exit
    <3>1. f.m = m /\ f.pc \in PublisherPcs /\ msg'[m].exit = msg[m].exit
      BY <1>5 DEF Carries
    <3>2. k \in DOMAIN stack[t] /\ f = stack[t][k]
      BY <1>1, <3>1, KindShifts, FromFrame, NoFrameIs DEF PublisherPcs
    <3>3. ~msg[m].exit
      BY <1>5, <3>1, <3>2 DEF QuitsApart, PublisherPcs, CallPcs
    <3> QED
      BY <2>4, <3>1, <3>3
  <2> QED
    BY <1>4, <2>3, <2>4
<1>6. CASE wq[t] # <<>> /\ wq' = [wq EXCEPT ![t] = Tail(@)]
  <2>1. wq[v] \in Seq(Msgs) /\ (wq'[v] = wq[v] \/ (wq'[v] = Tail(wq[v]) /\ wq[v] # <<>>))
    BY <1>3, <1>6 DEF WindowsOK
  <2>2. \E i \in DOMAIN wq[v] : x = wq[v][i]
    BY <2>1, TailFrom
  <2> QED
    BY <1>4, <2>2
<1>7. CASE UNCHANGED wq
  BY <1>4, <1>7
<1>8. \/ UNCHANGED wq \/ (wq[t] # <<>> /\ wq' = [wq EXCEPT ![t] = Tail(@)])
      \/ \E w \in Threads : wq' = [wq EXCEPT ![w] = Append(@, m)] /\ Carries(t, k, f, g, m)
                            /\ f.api \notin Quits
  BY <1>1 DEF Kind, Begins, Carries, Takes, Settled
<1> QED
  BY <1>5, <1>6, <1>7, <1>8

LEMMA QuitsApartStep ==
    ASSUME Inv, Inv', QuitsApart, NoWindowQuit, NEW t \in Threads, Does(t)
    PROVE  QuitsApart'
<1>1. PICK k, f, g, m : Kind(t, k, f, g, m)
  BY DoesKind
<1>2. ASSUME NEW u \in Threads, NEW i \in DOMAIN stack'[u], stack'[u][i].pc \in CallPcs
      PROVE  msg'[stack'[u][i].m].exit <=> stack'[u][i].api \in Quits
  <2>1. CASE Begins(t, k, g, m) /\ stack'[u][i] = g /\ g # NoFrame
    BY <2>1 DEF Begins
  <2>2. CASE i \in DOMAIN stack[u] /\ SameCall(stack'[u][i], stack[u][i])
    <3> DEFINE x == stack[u][i].m
    <3>1. x \in Msgs /\ msg[x].state = "active" /\ (msg[x].exit <=> stack[u][i].api \in Quits)
      BY <2>2, AreActive DEF ActiveFrames, QuitsApart, SameCall
    <3>2. msg'[x].state = "active"
      BY <1>2, <2>2, AreActiveNext DEF ActiveFrames, SameCall
    <3>3. msg'[x].exit = msg[x].exit
      BY <1>1, <3>1, <3>2, ExitKept
    <3> QED
      BY <2>2, <3>1, <3>3 DEF SameCall
  <2> QED
    BY <1>1, <1>2, <2>1, <2>2, CallFrom
<1>3. ASSUME NEW u \in Threads, NEW i \in DOMAIN stack'[u], stack'[u][i].pc \in {"callback", "wm"}
      PROVE  ~msg'[stack'[u][i].m].exit
  <2>1. CASE u = t /\ i = k /\ stack'[u][i] = g
    <3>1. Takes(t, k, f, g, m)
      BY <1>1, <1>3, <2>1, NoFrameIs DEF Kind, Begins, Carries, Settled, PublisherPcs
    <3>2. CASE g.pc = "callback"
      BY <2>1, <3>1, <3>2 DEF Takes
    <3>3. CASE g.pc = "wm"
      <4>1. wq[t] # <<>> /\ m = Head(wq[t]) /\ wq[t] \in Seq(Msgs)
        BY <3>1, <3>3, InvParts DEF Takes, WindowsOK
      <4>2. 1 \in DOMAIN wq[t] /\ m = wq[t][1]
        BY <4>1
      <4> QED
        BY <2>1, <3>1, <4>2 DEF Takes, NoWindowQuit
    <3> QED
      BY <1>3, <2>1, <3>2, <3>3
  <2>2. CASE i \in DOMAIN stack[u] /\ SameFrame(stack'[u][i], stack[u][i])
    <3> DEFINE x == stack[u][i].m
    <3>1. x \in Msgs /\ msg[x].state = "active" /\ ~msg[x].exit
      BY <1>3, <2>2, AreActive DEF ActiveFrames, QuitsApart, SameFrame, RecipientPcs
    <3>2. msg'[x].state = "active"
      BY <1>3, <2>2, AreActiveNext DEF ActiveFrames, SameFrame, RecipientPcs
    <3>3. msg'[x].exit = msg[x].exit
      BY <1>1, <3>1, <3>2, ExitKept
    <3> QED
      BY <2>2, <3>1, <3>3 DEF SameFrame
  <2> QED
    BY <1>1, <2>1, <2>2, KindShifts, Elsewhere
<1> QED
  BY <1>2, <1>3 DEF QuitsApart

\* Until its quit message is handled, it is with the thread that a call sent it to.
OnlyTo(u, i) ==
    /\ \A v \in Threads : \A j \in DOMAIN queue[v] :
         queue[v][j].m = stack[u][i].m => v = stack[u][i].to
    /\ \A v \in Threads : \A j \in DOMAIN stack[v] :
         stack[v][j].m = stack[u][i].m /\ stack[v][j].pc \in {"exit", "drain"}
         => v = stack[u][i].to

\* The call f ends in kmq_wait on a quit message.
SendsQuit(f) == f.pc \in CallPcs /\ f.api = "sendquit"

QuitsOnly ==
    \A u \in Threads : \A i \in DOMAIN stack[u] :
        SendsQuit(stack[u][i]) => OnlyTo(u, i)

\* A call that was sending a quit message sends it to the same thread.
LEMMA SendsQuitFrom ==
    ASSUME NEW h, NEW f, SendsQuit(h), SameCall(h, f)
    PROVE  SendsQuit(f) /\ h.m = f.m /\ h.to = f.to
BY DEF SendsQuit, SameCall

LEMMA QueueOnlyStep ==
    ASSUME Inv, Inv', QuitsOnly, NEW t \in Threads, Does(t),
           NEW u \in Threads, NEW i \in DOMAIN stack'[u], SendsQuit(stack'[u][i]),
           NEW v \in Threads, NEW j \in DOMAIN queue'[v], queue'[v][j].m = stack'[u][i].m
    PROVE  v = stack'[u][i].to
<1> DEFINE h == stack'[u][i]
           e == stack[u][i]
<1>1. PICK k, f, g, m : Kind(t, k, f, g, m)
  BY DoesKind
<1>2. queue \in [Threads -> Seq(Entry)] /\ queue[v] \in Seq(Entry)
  BY InvParts DEF QueuesOK
<1>3. ASSUME NEW w \in DOMAIN queue[v], queue[v][w].m = h.m PROVE v = h.to
  <2>1. msg[h.m].state = "active"
    BY <1>3, AreActive DEF ActiveQueues
  <2>2. CASE Begins(t, k, g, m) /\ h = g /\ g # NoFrame
    BY <2>1, <2>2 DEF Begins
  <2>3. CASE i \in DOMAIN stack[u] /\ SameCall(h, e)
    <3>1. SendsQuit(e) /\ h.m = e.m /\ h.to = e.to
      BY <2>3, SendsQuitFrom
    <3> QED
      BY <1>3, <2>3, <3>1 DEF QuitsOnly, OnlyTo
  <2> QED
    BY <1>1, <2>2, <2>3, CallFrom DEF SendsQuit
<1>4. CASE Carries(t, k, f, g, m) /\ ~UNCHANGED queue
  <2>0. PICK w \in Threads : \E n :
          /\ queue' = [queue EXCEPT ![w] = Append(@, [m |-> m, sub |-> n])]
          /\ f.api \in Quits => w = f.to
    BY <1>4 DEF Carries, Puts
  <2>1. PICK n :
          /\ queue' = [queue EXCEPT ![w] = Append(@, [m |-> m, sub |-> n])]
          /\ f.api \in Quits => w = f.to
    BY <2>0
  <2> DEFINE entry == [m |-> m, sub |-> n]
  <2>2. queue'[v] = queue[v] \/ (v = w /\ queue'[v] = Append(queue[v], entry))
    BY <1>2, <2>1
  <2>3. (j \in DOMAIN queue[v] /\ queue'[v][j] = queue[v][j]) \/ (v = w /\ queue'[v][j].m = m)
    <3> HIDE DEF entry
    <3>1. \/ j \in DOMAIN queue[v] /\ queue'[v][j] = queue[v][j]
          \/ v = w /\ queue'[v][j] = entry
      <4>1. CASE queue'[v] = queue[v]
        BY <4>1
      <4>2. CASE v = w /\ queue'[v] = Append(queue[v], entry)
        <5>1. j \in DOMAIN Append(queue[v], entry)
          BY <4>2
        <5>2. \/ j \in DOMAIN queue[v] /\ Append(queue[v], entry)[j] = queue[v][j]
              \/ Append(queue[v], entry)[j] = entry
          BY <1>2, <5>1, AppendFrom
        <5> QED
          BY <4>2, <5>2
      <4> QED
        BY <2>2, <4>1, <4>2
    <3> QED
      BY <3>1 DEF entry
  <2>4. ASSUME v = w, h.m = m PROVE v = h.to
    <3>1. f.m = m /\ f.pc \in CallPcs
      BY <1>4 DEF Carries, PublisherPcs, CallPcs
    <3>2. k \in DOMAIN stack[t] /\ f = stack[t][k]
      BY <1>1, <3>1, KindShifts, FromFrame, NoFrameIs DEF CallPcs
    <3>3. ~Begins(t, k, g, m)
      BY <3>1, <3>2, AreActive DEF ActiveFrames, Begins
    <3>4. i \in DOMAIN stack[u] /\ SameCall(h, e)
      BY <1>1, <3>3, CallFrom DEF SendsQuit
    <3>5. u = t /\ i = k
      BY <2>4, <3>1, <3>2, <3>4, OneCall DEF SameCall
    <3>6. f.api \in Quits /\ h.to = f.to
      BY <3>2, <3>4, <3>5 DEF SendsQuit, SameCall, Quits
    <3> QED
      BY <2>1, <2>4, <3>6
  <2> QED
    BY <1>3, <2>3, <2>4
<1>5. CASE queue[t] # <<>> /\ queue' = [queue EXCEPT ![t] = Tail(@)]
  <2>1. queue'[v] = queue[v] \/ (queue'[v] = Tail(queue[v]) /\ queue[v] # <<>>)
    BY <1>2, <1>5
  <2>2. \E w \in DOMAIN queue[v] : queue'[v][j] = queue[v][w]
    BY <1>2, <2>1, TailFrom
  <2> QED
    BY <1>3, <2>2
<1>6. CASE UNCHANGED queue
  BY <1>3, <1>6
<1>7. \/ UNCHANGED queue \/ (Carries(t, k, f, g, m) /\ ~UNCHANGED queue)
      \/ queue[t] # <<>> /\ queue' = [queue EXCEPT ![t] = Tail(@)]
  BY <1>1 DEF Kind, Begins, Takes, Settled
<1> QED
  BY <1>4, <1>5, <1>6, <1>7

LEMMA FrameOnlyStep ==
    ASSUME Inv, Inv', QuitsOnly, NEW t \in Threads, Does(t),
           NEW u \in Threads, NEW i \in DOMAIN stack'[u], SendsQuit(stack'[u][i]),
           NEW v \in Threads, NEW j \in DOMAIN stack'[v], stack'[v][j].m = stack'[u][i].m,
           stack'[v][j].pc \in {"exit", "drain"}
    PROVE  v = stack'[u][i].to
<1> DEFINE h == stack'[u][i]
           e == stack[u][i]
           q == stack'[v][j]
<1>1. PICK k, f, g, m : Kind(t, k, f, g, m)
  BY DoesKind
<1>2. CASE j \in DOMAIN stack[v] /\ SameFrame(q, stack[v][j])
  <2>1. msg[h.m].state = "active"
    BY <1>2, AreActive DEF ActiveFrames, SameFrame, RecipientPcs
  <2>2. i \in DOMAIN stack[u] /\ SameCall(h, e)
    BY <1>1, <2>1, CallFrom DEF SendsQuit, Begins
  <2>3. SendsQuit(e) /\ h.m = e.m /\ h.to = e.to
    BY <2>2, SendsQuitFrom
  <2>4. OnlyTo(u, i)
    BY <2>2, <2>3 DEF QuitsOnly
  <2>5. j \in DOMAIN stack[v] /\ stack[v][j].m = e.m /\ stack[v][j].pc \in {"exit", "drain"}
    BY <1>2, <2>3 DEF SameFrame
  <2>6. v = e.to
    BY <2>4, <2>5 DEF OnlyTo
  <2> QED
    BY <2>3, <2>6
<1>3. CASE v = t /\ j = k /\ q = g
  <2>1. Takes(t, k, f, g, m)
    BY <1>1, <1>3, NoFrameIs DEF Kind, Begins, Carries, Settled, PublisherPcs
  <2>2. queue[t] # <<>> /\ m = Head(queue[t]).m /\ g.m = m
    BY <1>3, <2>1 DEF Takes
  <2>3. queue[t] \in Seq(Entry)
    BY InvParts DEF QueuesOK
  <2>4. 1 \in DOMAIN queue[t] /\ m = queue[t][1].m
    BY <2>2, <2>3
  <2>5. msg[h.m].state = "active"
    BY <1>3, <2>2, <2>4, AreActive DEF ActiveQueues
  <2>6. i \in DOMAIN stack[u] /\ SameCall(h, e)
    BY <1>1, <2>5, CallFrom DEF SendsQuit, Begins
  <2>7. SendsQuit(e) /\ h.m = e.m /\ h.to = e.to
    BY <2>6, SendsQuitFrom
  <2>8. OnlyTo(u, i)
    BY <2>6, <2>7 DEF QuitsOnly
  <2>9. queue[t][1].m = e.m
    BY <1>3, <2>2, <2>4, <2>7
  <2>10. t = e.to
    BY <2>4, <2>8, <2>9 DEF OnlyTo
  <2> QED
    BY <1>3, <2>7, <2>10
<1> QED
  BY <1>1, <1>2, <1>3, KindShifts, Elsewhere

LEMMA QuitsOnlyStep ==
    ASSUME Inv, Inv', QuitsOnly, NEW t \in Threads, Does(t)
    PROVE  QuitsOnly'
<1> SUFFICES ASSUME NEW u \in Threads, NEW i \in DOMAIN stack'[u], SendsQuit(stack'[u][i])
             PROVE  OnlyTo(u, i)'
  BY DEF QuitsOnly, SendsQuit
<1> QED
  BY QueueOnlyStep, FrameOnlyStep DEF OnlyTo

\* A call whose event is set, or that has been woken by it, is on a quit message
\* that its thread has taken, or is past taking.
Heard(f) == SendsQuit(f) /\ (msg[f.m].event = "set" \/ f.pc = "waited")
            => f.to \in Threads /\ Past(f.to)

QuitsHeard == \A u \in Threads : \A i \in DOMAIN stack[u] : Heard(stack[u][i])

\* The event of a quit message is set by the thread that it was sent to.
LEMMA NewlyHeard ==
    ASSUME Inv, Inv', [Next]_vars, QuitsApart, QuitsOnly,
           NEW t \in Threads, NEW k, NEW f, NEW g, NEW m \in Msgs, Settled(t, k, f, g, m),
           NEW u \in Threads, NEW i \in DOMAIN stack[u], SendsQuit(stack[u][i]),
           stack[u][i].m = m, msg'[m].state = "active",
           msg'[m].event = "set", msg[m].event # "set"
    PROVE  stack[u][i].to = t /\ Past(t)'
<1> DEFINE e == stack[u][i]
<1>1. f.pc \in Finishing \cup {"publish"}
  BY DEF Settled, Outcome, Lessens
<1>2. k \in DOMAIN stack[t] /\ f = stack[t][k]
  <2>1. f # NoFrame
    BY <1>1, NoFrameIs DEF Finishing
  <2> QED
    BY <2>1, FromFrame DEF Settled, Turn
<1>3. f.pc \in CallPcs \cup RecipientPcs
  BY <1>1 DEF Finishing, CallPcs, RecipientPcs
<1>4. FrameOK(t, k, f) /\ f.m = m
  <2>1. FrameOK(t, k, f) /\ f.m \in Msgs
    BY <1>2, <1>3, AreActive DEF ActiveFrames
  <2>2. f.m \in {m, NoMsg}
    BY DEF Settled, Turn
  <2> QED
    BY <2>1, <2>2, CallAssumption
<1>5. f.pc \notin CallPcs
  <2> SUFFICES ASSUME f.pc \in CallPcs PROVE FALSE
    OBVIOUS
  <2>1. u = t /\ i = k
    BY <1>2, <1>4, OneCall DEF SendsQuit
  <2>2. f.api = "sendquit"
    BY <1>2, <2>1 DEF SendsQuit
  <2>3. f.pc \in {"publish", "window"}
    BY <1>1 DEF Finishing, CallPcs
  <2> QED
    BY <1>4, <2>2, <2>3 DEF FrameOK, Posts, TrySend
<1>6. msg[m].exit
  BY DEF QuitsApart, SendsQuit, Quits
<1>7. f.pc \in {"exit", "drain"}
  BY <1>1, <1>2, <1>4, <1>5, <1>6 DEF QuitsApart, Finishing, CallPcs
<1>8. t = e.to
  <2>1. OnlyTo(u, i)
    BY DEF QuitsOnly
  <2> QED
    BY <1>2, <1>4, <1>7, <2>1 DEF OnlyTo
<1>9. CASE f.pc = "exit"
  BY <1>8, <1>9 DEF Settled, Past
<1>10. CASE f.pc = "drain"
  <2>1. deleted[t]
    BY <1>2, <1>10, InvParts DEF QueuesShape
  <2>2. deleted'[t]
    BY <2>1, DeletedKept
  <2> QED
    BY <1>8, <2>2 DEF Past
<1> QED
  BY <1>7, <1>9, <1>10

LEMMA QuitsHeardStep ==
    ASSUME Inv, Inv', [Next]_vars, QuitsApart, QuitsOnly, QuitsHeard, NEW t \in Threads, Does(t)
    PROVE  QuitsHeard'
<1> SUFFICES ASSUME NEW u \in Threads, NEW i \in DOMAIN stack'[u], SendsQuit(stack'[u][i]),
                    msg'[stack'[u][i].m].event = "set" \/ stack'[u][i].pc = "waited"
             PROVE  stack'[u][i].to \in Threads /\ \A w \in Threads : w = stack'[u][i].to => Past(w)'
  BY DEF QuitsHeard, Heard, SendsQuit, Past, At, Top
<1> DEFINE h == stack'[u][i]
           e == stack[u][i]
<1>1. PICK k, f, g, m : Kind(t, k, f, g, m)
  BY DoesKind
<1>2. i \in DOMAIN stack[u] /\ SameCall(h, e)
  <2>1. ~(Begins(t, k, g, m) /\ h = g /\ g # NoFrame)
    BY DEF Begins
  <2> QED
    BY <1>1, <2>1, CallFrom DEF SendsQuit
<1>3. SendsQuit(e) /\ h.m = e.m /\ h.to = e.to
  BY <1>2, SendsQuitFrom
<1>4. e.m \in Msgs /\ msg[e.m].state = "active" /\ FrameOK(u, i, e)
  BY <1>2, <1>3, AreActive DEF ActiveFrames, SendsQuit
<1>5. msg'[e.m].state = "active"
  BY <1>3, AreActiveNext DEF ActiveFrames, SendsQuit
<1>6. CASE msg[e.m].event = "set" \/ e.pc = "waited"
  <2>1. e.to \in Threads /\ Past(e.to)
    BY <1>2, <1>3, <1>6 DEF QuitsHeard, Heard
  <2> QED
    BY <1>3, <2>1, PastKept
<1>7. CASE ~(msg[e.m].event = "set" \/ e.pc = "waited")
  <2>1. h.pc # "waited"
    <3> SUFFICES ASSUME h.pc = "waited" PROVE FALSE
      OBVIOUS
    <3>1. u = t /\ i = k /\ h = g
      BY <1>1, <1>7, KindShifts, Elsewhere DEF SameFrame
    <3>2. Settled(t, k, f, g, m) /\ g.m = m /\ msg[m].event = "set"
      BY <1>1, <3>1, NoFrameIs DEF Kind, Begins, Carries, Takes, Settled, PublisherPcs
    <3> QED
      BY <1>3, <1>7, <3>1, <3>2
  <2>2. msg'[e.m].event = "set" /\ msg'[e.m] # msg[e.m]
    BY <1>3, <1>7, <2>1
  <2>3. m = e.m /\ Settled(t, k, f, g, m)
    BY <1>1, <1>4, <1>7, <2>2 DEF Kind, Begins, Carries, Takes, Settled, Turn
  <2>4. e.to = t /\ Past(t)'
    BY <1>2, <1>3, <1>4, <1>5, <1>7, <2>2, <2>3, NewlyHeard
  <2> QED
    BY <1>3, <2>4
<1> QED
  BY <1>6, <1>7

QuitInv == QuitsApart /\ NoWindowQuit /\ QuitsOnly /\ QuitsHeard

LEMMA QuitInit == Init => QuitInv
BY DEF Init, QuitInv, QuitsApart, NoWindowQuit, QuitsOnly, QuitsHeard

LEMMA QuitStutter == QuitInv /\ UNCHANGED vars => QuitInv'
<1> SUFFICES ASSUME QuitInv, UNCHANGED vars PROVE QuitInv'
  OBVIOUS
<1>1. UNCHANGED <<msg, queue, wq, stack, deleted>>
  BY DEF vars
<1>2. QuitsApart' /\ NoWindowQuit'
  BY <1>1 DEF QuitInv, QuitsApart, NoWindowQuit
<1>3. QuitsOnly'
  BY <1>1 DEF QuitInv, QuitsOnly, SendsQuit, OnlyTo
<1>4. QuitsHeard'
  BY <1>1 DEF QuitInv, QuitsHeard, Heard, SendsQuit, Past, At, Top
<1> QED
  BY <1>2, <1>3, <1>4 DEF QuitInv

LEMMA QuitNext == Inv /\ Inv' /\ [Next]_vars /\ QuitInv => QuitInv'
<1> SUFFICES ASSUME Inv, Inv', [Next]_vars, QuitInv PROVE QuitInv'
  OBVIOUS
<1>1. ASSUME NEW t \in Threads, Does(t) PROVE QuitInv'
  <2>1. QuitsApart /\ NoWindowQuit /\ QuitsOnly /\ QuitsHeard
    BY DEF QuitInv
  <2>2. QuitsApart' /\ NoWindowQuit' /\ QuitsOnly'
    BY <1>1, <2>1, QuitsApartStep, NoWindowQuitStep, QuitsOnlyStep
  <2>3. QuitsHeard'
    BY <1>1, <2>1, QuitsHeardStep
  <2> QED
    BY <2>2, <2>3 DEF QuitInv
<1> QED
  BY <1>1, NextDoes, QuitStutter

LEMMA QuitMeans == Inv /\ QuitInv => QuitSeen
<1> SUFFICES ASSUME Inv, QuitInv, NEW t \in Threads, At(t, "waited"), Top(t).api = "sendquit"
             PROVE  Past(Top(t).to)
  BY DEF QuitSeen, Past
<1>1. stack[t] # <<>> /\ Top(t).pc = "waited"
  BY DEF At
<1>2. Len(stack[t]) \in DOMAIN stack[t] /\ Top(t) = stack[t][Len(stack[t])]
  BY <1>1, InvHas, TopFacts
<1>3. Heard(Top(t))
  BY <1>2 DEF QuitInv, QuitsHeard
<1> QED
  BY <1>1, <1>3 DEF Heard, SendsQuit, CallPcs

\* kmq_send_thread_quit_message returns only when the thread has taken its quit
\* message or is past dispatching, whatever else is sent meanwhile: the event of
\* the message is set by that thread alone, as it handles the message in
\* kmq_dispatch or throws it out of its queue in kmqint_detach_this_thread.
THEOREM QuitSeenCorrect == Spec => []QuitSeen
<1>1. Init => Inv /\ QuitInv
  BY InitInv, QuitInit
<1>2. Inv /\ QuitInv /\ [Next]_vars => (Inv /\ QuitInv)'
  BY NextInv, QuitNext
<1>3. Inv /\ QuitInv => QuitSeen
  BY QuitMeans
<1> QED
  BY <1>1, <1>2, <1>3, PTL DEF Spec

-----------------------------------------------------------------------------
(* What kmq_send_message promises.                                          *)

\* What is owed is what the ledger counts.
LEMMA OwedIs ==
    ASSUME Inv, NEW x \in Msgs, msg[x].state = "active"
    PROVE  /\ Owed(msg[x]) = UsedBy(Uses(x)) - Uses(x).done
           /\ Uses(x).running \in Nat /\ Uses(x).done \in Nat
           /\ UsedBy(Uses(x)) \in Nat /\ UsedBy(Uses(x)) >= Uses(x).running
<1> DEFINE r == msg[x]
           v == Uses(x)
<1>1. r \in MessageType /\ v \in UsesType /\ Balanced(r, v)
  BY InvHas, LedgerTyped
<1> HIDE DEF v
<1>2. v.queued \in Nat /\ v.windows \in Nat /\ v.running \in Nat /\ v.done \in Nat
  BY <1>1 DEF UsesType
<1>3. UsedBy(v) \in Nat /\ UsedBy(v) >= v.running
  BY <1>2 DEF UsedBy
<1>4. /\ r.nSent \in Nat /\ r.nCompleted \in Nat /\ r.nFailed \in Nat
      /\ r.nSent + v.done = r.nCompleted + r.nFailed + UsedBy(v)
  BY <1>1 DEF MessageType, Balanced
<1>5. Owed(r) = UsedBy(v) - v.done
  <2> DEFINE a == r.nSent
             b == r.nCompleted
             c == r.nFailed
             d == v.done
             n == UsedBy(v)
  <2>1. /\ a \in Nat /\ b \in Nat /\ c \in Nat /\ d \in Nat /\ n \in Nat
        /\ a + d = b + c + n
    BY <1>2, <1>3, <1>4
  <2>2. Owed(r) = a - b - c
    BY DEF Owed
  <2> HIDE DEF a, b, c, d, n
  <2>3. a - b - c = n - d
    BY <2>1
  <2> QED
    BY <2>2, <2>3 DEF n, d
<1> QED
  BY <1>2, <1>3, <1>5 DEF v

LEMMA NoneDone ==
    ASSUME NEW x \in Msgs,
           \A u \in Threads : \A i \in DOMAIN stack[u] :
               ~(stack[u][i].m = x /\ stack[u][i].pc = "sent")
    PROVE  Uses(x).done = 0
<1>1. FramesOf(x, {"sent"}) = {}
  BY InFramesOf
<1>2. Cardinality(OwnWindowDone(x)) = 0
  BY <1>1, FS_EmptySet DEF OwnWindowDone
<1> QED
  BY <1>2 DEF Uses

\* A call is alone with its message, and so is the window that it has sent it to.
LEMMA CallDone ==
    ASSUME Inv, NEW u \in Threads, NEW i \in DOMAIN stack[u], stack[u][i].pc \in CallPcs
    PROVE  Uses(stack[u][i].m).done = OneIf(stack[u][i].pc = "sent")
<1> DEFINE x == stack[u][i].m
<1>1. x \in Msgs
  BY FrameActive
<1>2. CASE stack[u][i].pc # "sent"
  <2>1. ASSUME NEW v \in Threads, NEW j \in DOMAIN stack[v],
               stack[v][j].m = x, stack[v][j].pc = "sent"
        PROVE  FALSE
    <3>1. stack[v][j].pc \in CallPcs
      BY <2>1 DEF CallPcs
    <3>2. u = v /\ i = j
      BY <2>1, <3>1, OneCall
    <3> QED
      BY <1>2, <2>1, <3>2
  <2> QED
    BY <1>1, <1>2, <2>1, NoneDone DEF OneIf
<1>3. CASE stack[u][i].pc = "sent"
  <2>1. <<u, i>> \in FramesOf(x, {"sent"})
    BY <1>3, InFramesOf
  <2>2. ASSUME NEW p, p \in FramesOf(x, {"sent"}) PROVE p = <<u, i>>
    <3>1. PICK v, j : /\ v \in Threads /\ j \in DOMAIN stack[v] /\ p = <<v, j>>
                      /\ stack[v][j].m = x /\ stack[v][j].pc \in {"sent"}
      BY <2>2, InFramesOf
    <3>2. stack[v][j].pc \in CallPcs
      BY <3>1 DEF CallPcs
    <3>3. u = v /\ i = j
      BY <3>1, <3>2, OneCall
    <3> QED
      BY <3>1, <3>3
  <2>3. FramesOf(x, {"sent"}) = {<<u, i>>}
    BY <2>1, <2>2
  <2>4. Cardinality(OwnWindowDone(x)) = 1
    BY <2>3, FS_Singleton DEF OwnWindowDone
  <2> QED
    BY <1>3, <2>4 DEF Uses, OneIf
<1> QED
  BY <1>2, <1>3

\* While another frame handles its message, a call is owed more than it accounts for.
LEMMA OtherOwed ==
    ASSUME Inv, NEW u \in Threads, NEW i \in DOMAIN stack[u], stack[u][i].pc \in CallPcs,
           NEW t \in Threads, NEW k \in DOMAIN stack[t], stack[t][k].pc \in Finishing,
           stack[t][k].m = stack[u][i].m, ~(u = t /\ i = k)
    PROVE  /\ Owed(msg[stack[u][i].m]) \in Int
           /\ Owed(msg[stack[u][i].m]) > Due(stack[u][i].pc)
           /\ stack[u][i].pc = "counted" => Owed(msg[stack[u][i].m]) >= 2
<1> DEFINE e == stack[u][i]
           x == e.m
<1>1. x \in Msgs /\ msg[x].state = "active"
  BY FrameActive
<1>2. stack[t][k].pc \in RecipientPcs
  <2>1. stack[t][k].pc \notin CallPcs
    BY OneCall
  <2> QED
    BY <2>1 DEF Finishing, CallPcs, RecipientPcs
<1>3. Uses(x).running >= 1
  BY <1>1, <1>2, PcsParts, FrameCounted DEF Uses
<1>4. e.pc \in {"direct", "counted"} => Uses(x).running >= 2
  <2> SUFFICES ASSUME e.pc \in {"direct", "counted"} PROVE Uses(x).running >= 2
    OBVIOUS
  <2>1. e.pc \in RecipientPcs
    BY DEF RecipientPcs
  <2>2. Cardinality(FramesOf(x, RecipientPcs)) >= 2
    BY <1>1, <1>2, <2>1, PcsParts, TwoFrames
  <2> QED
    BY <2>2 DEF Uses
<1>5. Uses(x).done = OneIf(e.pc = "sent")
  BY CallDone
<1> DEFINE n == UsedBy(Uses(x))
           w == Owed(msg[x])
<1>6. n \in Nat /\ n >= 1 /\ w = n - OneIf(e.pc = "sent")
      /\ (e.pc \in {"direct", "counted"} => n >= 2)
  BY <1>1, <1>3, <1>4, <1>5, OwedIs
<1> HIDE DEF n, w
<1>7. w \in Int /\ w > Due(e.pc) /\ (e.pc = "counted" => w >= 2)
  <2>1. CASE e.pc = "sent"
    BY <1>6, <2>1 DEF OneIf, Due
  <2>2. CASE e.pc # "sent"
    BY <1>6, <2>2 DEF OneIf, Due
  <2> QED
    BY <2>1, <2>2
<1> QED
  BY <1>7 DEF w

\* A thread that sends to a window of its own runs every subscriber before it.
OwnWindowsFirst ==
    \A i \in DOMAIN Subs :
        Subs[i].kind = "HWND" /\ Calls[Subs[i].thread] \cap {"send", "sendsubs"} # {}
        => OwnFirst(Subs[i].thread, i)

\* Where a posting loop of u may be, and what its message is owed as long as u
\* itself runs every subscriber.
LoopAt(u, f) ==
    /\ f.pc = "put" => Foreign(u, f)
    /\ f.pc \in {"direct", "window", "sent"} => f.i \in DOMAIN Subs /\ Subs[f.i].thread = u
    /\ f.pc \in {"window", "sent"} => Subs[f.i].kind = "HWND"

OwesOwn(u, f) ==
    f.pc \in PublisherPcs /\ TrySend(f.api) /\ OwnFirst(u, f.i) => Owed(msg[f.m]) = Due(f.pc)

LoopsAt == \A u \in Threads : \A i \in DOMAIN stack[u] : LoopAt(u, stack[u][i])
OweOwn  == \A u \in Threads : \A i \in DOMAIN stack[u] : OwesOwn(u, stack[u][i])

LEMMA LoopsAtStep ==
    ASSUME Inv, Inv', LoopsAt, NEW t \in Threads, Does(t)
    PROVE  LoopsAt'
<1> SUFFICES ASSUME NEW u \in Threads, NEW i \in DOMAIN stack'[u] PROVE LoopAt(u, stack'[u][i])
  BY DEF LoopsAt, LoopAt, Foreign
<1>1. PICK k, f, g, m : Kind(t, k, f, g, m)
  BY DoesKind
<1>2. CASE i \in DOMAIN stack[u] /\ SameFrame(stack'[u][i], stack[u][i])
  BY <1>2 DEF SameFrame, LoopsAt, LoopAt, Foreign
<1>3. CASE u = t /\ stack'[u][i] = g
  <2>1. CASE g.pc \notin {"put", "direct", "window", "sent"}
    BY <1>3, <2>1 DEF LoopAt
  <2>2. CASE g.pc \in {"put", "direct", "window", "sent"} /\ Carries(t, k, f, g, m)
    BY <1>3, <2>2, NoFrameIs DEF Carries, Loops, LoopAt
  <2>3. CASE g.pc \in {"put", "direct", "window", "sent"} /\ ~Carries(t, k, f, g, m)
    <3>1. f.pc = "window" /\ g.pc = "sent" /\ g.i = f.i
      BY <1>1, <2>3, NoFrameIs DEF Kind, Begins, Takes, Settled
    <3>2. k \in DOMAIN stack[t] /\ f = stack[t][k]
      BY <1>1, <3>1, KindShifts, FromFrame, NoFrameIs
    <3> QED
      BY <1>3, <3>1, <3>2 DEF LoopsAt, LoopAt
  <2> QED
    BY <2>1, <2>2, <2>3
<1> QED
  BY <1>1, <1>2, <1>3, KindShifts, Elsewhere

\* A call that stays where it is, owed what it accounts for, is owed that still.
LEMMA SameOwed ==
    ASSUME Inv, NEW t \in Threads, NEW k, NEW f, NEW g, NEW m, Kind(t, k, f, g, m),
           NEW u \in Threads, NEW i \in DOMAIN stack[u], stack[u][i].pc \in CallPcs,
           ~(u = t /\ i = k), Owed(msg[stack[u][i].m]) = Due(stack[u][i].pc),
           msg'[stack[u][i].m].state = "active"
    PROVE  Owed(msg'[stack[u][i].m]) = Owed(msg[stack[u][i].m])
<1> DEFINE x == stack[u][i].m
<1>1. x \in Msgs /\ msg[x].state = "active" /\ msg[x] \in MessageType
  BY FrameActive
<1>2. CASE msg'[x] = msg[x]
  BY <1>2
<1>3. CASE msg'[x] # msg[x]
  <2>1. x = m /\ (Carries(t, k, f, g, m) \/ Settled(t, k, f, g, m))
    BY <1>1, <1>3 DEF Kind, Begins, Carries, Takes, Settled, Turn
  <2>2. ~(k \in DOMAIN stack[t] /\ f = stack[t][k] /\ f.m = x /\ f.pc \in CallPcs \cup Finishing)
    <3> SUFFICES ASSUME k \in DOMAIN stack[t], f = stack[t][k], f.m = x,
                        f.pc \in CallPcs \cup Finishing
                 PROVE  FALSE
      OBVIOUS
    <3>1. f.pc \notin CallPcs
      BY OneCall
    <3>2. Owed(msg[x]) > Due(stack[u][i].pc) /\ Owed(msg[x]) \in Int
      BY <3>1, OtherOwed
    <3> QED
      BY <3>2
  <2>3. (k \in DOMAIN stack[t] /\ f = stack[t][k]) \/ f = NoFrame
    BY KindShifts, FromFrame
  <2>4. Settled(t, k, f, g, m)
    <3> SUFFICES ASSUME Carries(t, k, f, g, m) PROVE FALSE
      BY <2>1
    <3> QED
      BY <2>1, <2>2, <2>3, NoFrameIs DEF Carries, PublisherPcs, CallPcs
  <2>5. f.pc \notin Finishing
    BY <2>1, <2>2, <2>3, <2>4, NoFrameIs DEF Settled, Finishing
  <2>6. Owed(msg'[x]) = Owed(msg[x]) - 0
    BY <1>1, <2>1, <2>4, <2>5 DEF Settled, Outcome, Lessens, OneIf
  <2>7. Owed(msg[x]) \in Int
    BY <1>1, OwedTyped
  <2> QED
    BY <2>6, <2>7
<1> QED
  BY <1>2, <1>3

LEMMA OweOwnStep ==
    ASSUME Inv, Inv', LoopsAt, OweOwn, NEW t \in Threads, Does(t)
    PROVE  OweOwn'
<1> SUFFICES ASSUME NEW u \in Threads, NEW i \in DOMAIN stack'[u],
                    stack'[u][i].pc \in PublisherPcs, TrySend(stack'[u][i].api),
                    OwnFirst(u, stack'[u][i].i)
             PROVE  Owed(msg'[stack'[u][i].m]) = Due(stack'[u][i].pc)
  BY DEF OweOwn, OwesOwn, Owed
<1> DEFINE h == stack'[u][i]
           e == stack[u][i]
<1>1. PICK k, f, g, m : Kind(t, k, f, g, m)
  BY DoesKind
<1>2. h.pc \in CallPcs
  BY DEF PublisherPcs, CallPcs
<1>3. h.m \in Msgs /\ msg'[h.m].state = "active"
  BY <1>2, AreActiveNext DEF ActiveFrames
<1>4. CASE u = t /\ i = k /\ h = g
  <2>1. CASE Begins(t, k, g, m)
    <3>1. g.pc \in {"publish", "count"}
      BY <1>4, <2>1, NoFrameIs DEF Begins, PublisherPcs
    <3> QED
      BY <1>4, <2>1, <3>1, NoFrameIs DEF Begins, PublisherPcs, Due
  <2>2. CASE Carries(t, k, f, g, m)
    <3>1. /\ f.m = m /\ g.m = m /\ f.pc \in PublisherPcs /\ f.api = g.api
          /\ Loops(t, f, g, msg[m], msg'[m])
      BY <1>4, <2>2, NoFrameIs DEF Carries, PublisherPcs
    <3>2. k \in DOMAIN stack[t] /\ f = stack[t][k]
      BY <1>1, <3>1, KindShifts, FromFrame, NoFrameIs DEF PublisherPcs
    <3>3. f.pc = "put" => Foreign(t, f)
      BY <3>2 DEF LoopsAt, LoopAt
    <3>4. OwnFirst(t, f.i) /\ Owed(msg'[m]) = Owed(msg[m]) - Due(f.pc) + Due(g.pc)
      BY <1>4, <3>1, <3>3 DEF Loops
    <3>5. Owed(msg[m]) = Due(f.pc)
      BY <1>4, <3>1, <3>2, <3>4 DEF OweOwn, OwesOwn
    <3>6. Due(f.pc) \in Int /\ Due(g.pc) \in Int
      BY DEF Due
    <3>7. Owed(msg'[m]) = Due(g.pc)
      BY <3>4, <3>5, <3>6
    <3> QED
      BY <1>4, <3>1, <3>7
  <2>3. CASE Settled(t, k, f, g, m)
    <3>1. f.pc = "window" /\ g.pc = "sent" /\ g.i = f.i /\ g.m = m /\ f.m = m /\ g.api = f.api
      BY <1>4, <2>3, NoFrameIs DEF Settled, PublisherPcs
    <3>2. k \in DOMAIN stack[t] /\ f = stack[t][k]
      BY <1>1, <3>1, KindShifts, FromFrame, NoFrameIs
    <3>3. Owed(msg[m]) = 0
      BY <1>4, <3>1, <3>2 DEF OweOwn, OwesOwn, PublisherPcs, Due
    <3>4. Owed(msg'[m]) = Owed(msg[m]) - 1
      BY <1>3, <1>4, <2>3, <3>1 DEF Settled, Outcome, Lessens, Finishing, OneIf
    <3>5. Owed(msg'[m]) = 0 - 1
      BY <3>3, <3>4
    <3> QED
      BY <1>4, <3>1, <3>5 DEF Due
  <2> QED
    BY <1>1, <1>4, <2>1, <2>2, <2>3, NoFrameIs DEF Kind, Takes, PublisherPcs
<1>5. CASE ~(u = t /\ i = k) /\ i \in DOMAIN stack[u] /\ SameFrame(h, e)
  <2>1. e.pc = h.pc /\ e.m = h.m /\ Owed(msg[h.m]) = Due(h.pc)
    BY <1>5 DEF SameFrame, OweOwn, OwesOwn
  <2>2. Owed(msg'[h.m]) = Owed(msg[h.m])
    BY <1>1, <1>2, <1>3, <1>5, <2>1, SameOwed DEF SameFrame
  <2> QED
    BY <2>1, <2>2
<1> QED
  BY <1>1, <1>4, <1>5, KindShifts, Elsewhere

\* Nobody is posting x any more.
Unposted(x) ==
    \A u \in Threads : \A i \in DOMAIN stack[u] :
        stack[u][i].m = x => stack[u][i].pc \notin PublisherPcs

\* The event of a message is set after its posting and its last recipient.
Answered ==
    \A x \in Msgs : msg[x].state = "active" /\ msg[x].event = "set" => Owed(msg[x]) = 0 /\ Unposted(x)

AllReturned ==
    \A u \in Threads : \A i \in DOMAIN stack[u] :
        stack[u][i].pc = "waited" => Owed(msg[stack[u][i].m]) = 0

\* A message that is being posted was so before, or is new.
LEMMA UnpostedKept ==
    ASSUME Inv, Inv', NEW t \in Threads, NEW k, NEW f, NEW g, NEW m, Kind(t, k, f, g, m),
           ~Begins(t, k, g, m), NEW x, Unposted(x)
    PROVE  Unposted(x)'
<1> SUFFICES ASSUME NEW u \in Threads, NEW i \in DOMAIN stack'[u], stack'[u][i].m = x,
                    stack'[u][i].pc \in PublisherPcs
             PROVE  FALSE
  BY DEF Unposted
<1>1. CASE u = t /\ i = k /\ stack'[u][i] = g
  <2>1. f.pc \in PublisherPcs /\ f.m = g.m
    BY <1>1, NoFrameIs DEF Kind, Carries, Takes, Settled, PublisherPcs
  <2>2. k \in DOMAIN stack[t] /\ f = stack[t][k]
    BY <2>1, KindShifts, FromFrame, NoFrameIs DEF PublisherPcs
  <2> QED
    BY <1>1, <2>1, <2>2 DEF Unposted
<1>2. CASE i \in DOMAIN stack[u] /\ SameFrame(stack'[u][i], stack[u][i])
  BY <1>2 DEF SameFrame, Unposted
<1> QED
  BY <1>1, <1>2, KindShifts, Elsewhere

\* A message that is owed nothing, and posted no more, is handled by nobody.
LEMMA NoneFinishing ==
    ASSUME Inv, NEW x \in Msgs, msg[x].state = "active", Owed(msg[x]) = 0, Unposted(x),
           NEW t \in Threads, NEW k \in DOMAIN stack[t], stack[t][k].m = x,
           stack[t][k].pc \in Finishing
    PROVE  FALSE
<1>1. stack[t][k].pc \in RecipientPcs
  BY DEF Unposted, Finishing, PublisherPcs, RecipientPcs
<1>2. Uses(x).running >= 1
  BY <1>1, PcsParts, FrameCounted DEF Uses
<1>3. Uses(x).done = 0
  BY NoneDone DEF Unposted, PublisherPcs
<1> DEFINE n == UsedBy(Uses(x))
<1>4. n \in Nat /\ n >= 1 /\ Owed(msg[x]) = n - 0
  BY <1>2, <1>3, OwedIs
<1> HIDE DEF n
<1> QED
  BY <1>4

\* The window that its own sender is at has been owed nothing, if the thread
\* runs every subscriber before it.
LEMMA WindowOwes ==
    ASSUME Inv, OwnWindowsFirst, CallsKept, LoopsAt, OweOwn,
           NEW u \in Threads, NEW i \in DOMAIN stack[u], stack[u][i].pc \in {"window", "sent"}
    PROVE  Owed(msg[stack[u][i].m]) = Due(stack[u][i].pc)
<1> DEFINE e == stack[u][i]
<1>1. e.i \in DOMAIN Subs /\ Subs[e.i].thread = u /\ Subs[e.i].kind = "HWND"
  BY DEF LoopsAt, LoopAt
<1>2. e.pc \in PublisherPcs /\ e.api \in Calls[u]
  BY DEF CallsKept, PublisherPcs
<1>3. FrameOK(u, i, e)
  BY InvHas DEF StackShape
<1>4. TrySend(e.api)
  BY <1>3 DEF FrameOK
<1>5. OwnFirst(u, e.i)
  BY <1>1, <1>2, <1>4 DEF OwnWindowsFirst, TrySend
<1> QED
  BY <1>2, <1>4, <1>5 DEF OweOwn, OwesOwn

LEMMA PublishLockNext == (Inv => PublishLock)'
BY InvParts, PTL

\* When the last recipient sets the event of its message, nobody posts it any more.
LEMMA NewlyAnswered ==
    ASSUME Inv, Inv', OwnWindowsFirst, CallsKept, LoopsAt, OweOwn,
           NEW t \in Threads, NEW k, NEW f, NEW g, NEW m \in Msgs, Settled(t, k, f, g, m),
           msg'[m].state = "active", msg'[m].event = "set", msg[m].event # "set"
    PROVE  Owed(msg'[m]) = 0 /\ Unposted(m)'
<1>1. /\ f.pc \in Finishing \cup {"publish"} /\ Owed(msg'[m]) = 0 /\ cs_msg' = NoThread
      /\ Owed(msg'[m]) = Owed(msg[m]) - OneIf(f.pc \in Finishing)
      /\ msg[m].state = "active"
  BY DEF Settled, Outcome, Lessens
<1>2. k \in DOMAIN stack[t] /\ f = stack[t][k]
  <2>1. f # NoFrame
    BY <1>1, NoFrameIs DEF Finishing
  <2> QED
    BY <2>1, FromFrame DEF Settled, Turn
<1>3. f.m = m /\ FrameOK(t, k, f)
  <2>1. f.pc \in CallPcs \cup RecipientPcs
    BY <1>1 DEF Finishing, CallPcs, RecipientPcs
  <2>2. FrameOK(t, k, f) /\ f.m \in Msgs
    BY <1>2, <2>1, AreActive DEF ActiveFrames
  <2>3. f.m \in {m, NoMsg}
    BY DEF Settled, Turn
  <2> QED
    BY <2>2, <2>3, CallAssumption
<1>4. f.pc \in Finishing => Owed(msg[m]) = 1
  <2>1. Owed(msg[m]) \in Int
    BY InvHas, OwedTyped
  <2> QED
    BY <1>1, <2>1 DEF OneIf
<1> SUFFICES ASSUME NEW u \in Threads, NEW i \in DOMAIN stack'[u], stack'[u][i].m = m,
                    stack'[u][i].pc \in PublisherPcs
             PROVE  FALSE
  BY <1>1 DEF Unposted
<1> DEFINE h == stack'[u][i]
           e == stack[u][i]
<1>5. h.pc \notin {"publish", "put"}
  BY <1>1, PublishLockNext, CallAssumption DEF PublishLock
<1>6. CASE u = t /\ i = k /\ h = g
  <2>1. f.pc = "window"
    BY <1>6, NoFrameIs DEF Settled, PublisherPcs
  <2>2. Owed(msg[m]) = 0
    BY <1>2, <1>3, <2>1, WindowOwes DEF Due
  <2> QED
    BY <1>4, <2>1, <2>2 DEF Finishing
<1>7. CASE ~(u = t /\ i = k) /\ i \in DOMAIN stack[u] /\ SameFrame(h, e)
  <2>1. e.m = m /\ e.pc \in {"direct", "window", "sent", "count", "counted"} /\ e.pc \in CallPcs
    BY <1>5, <1>7 DEF SameFrame, PublisherPcs, CallPcs
  <2>2. f.pc \in Finishing
    <3>1. f.pc \notin CallPcs
      BY <1>2, <1>3, <1>7, <2>1, OneCall
    <3> QED
      BY <1>1, <3>1 DEF CallPcs
  <2>3. /\ Owed(msg[m]) > Due(e.pc) /\ (e.pc = "counted" => Owed(msg[m]) >= 2)
        /\ Owed(msg[m]) = 1
    BY <1>2, <1>3, <1>4, <1>7, <2>1, <2>2, OtherOwed
  <2>4. e.pc = "count"
    BY <1>7, <2>1, <2>3, WindowOwes DEF Due
  <2>5. msg[m].nSent = 0
    <3>1. Uses(m).count >= 1
      BY <1>7, <2>1, <2>4, PcsParts, FrameCounted DEF Uses
    <3>2. Uses(m).count \in Nat /\ (Uses(m).count > 0 => msg[m].nSent = 0)
      BY LedgerTyped DEF UsesType, Balanced
    <3> HIDE DEF Uses
    <3> QED
      BY <3>1, <3>2
  <2> QED
    BY <2>3, <2>5, InvHas DEF Owed, MessageType
<1> QED
  BY <1>6, <1>7, Elsewhere DEF Settled, Turn

LEMMA AnsweredStep ==
    ASSUME Inv, Inv', OwnWindowsFirst, CallsKept, LoopsAt, OweOwn, Answered,
           NEW t \in Threads, Does(t)
    PROVE  Answered'
<1> SUFFICES ASSUME NEW x \in Msgs, msg'[x].state = "active", msg'[x].event = "set"
             PROVE  Owed(msg'[x]) = 0 /\ Unposted(x)'
  BY DEF Answered, Owed
<1>1. PICK k, f, g, m : Kind(t, k, f, g, m)
  BY DoesKind
<1>2. CASE msg'[x] = msg[x]
  <2>1. msg[x].state = "active" /\ Owed(msg'[x]) = 0 /\ Unposted(x)
    BY <1>2 DEF Answered
  <2>2. CASE ~Begins(t, k, g, m)
    BY <1>1, <2>1, <2>2, UnpostedKept
  <2>3. CASE Begins(t, k, g, m)
    <3>1. Unposted(x)'
      <4> SUFFICES ASSUME NEW u \in Threads, NEW i \in DOMAIN stack'[u], stack'[u][i].m = x
                   PROVE  stack'[u][i].pc \notin PublisherPcs
        BY DEF Unposted
      <4>1. stack'[u][i] # g
        BY <2>1, <2>3, CallAssumption DEF Begins, Turn
      <4>2. i \in DOMAIN stack[u] /\ SameFrame(stack'[u][i], stack[u][i])
        BY <1>1, <4>1, KindShifts, Elsewhere
      <4> QED
        BY <2>1, <4>2 DEF Unposted, SameFrame
    <3> QED
      BY <2>1, <3>1
  <2> QED
    BY <2>2, <2>3
<1>3. CASE msg'[x] # msg[x]
  <2>1. x = m /\ ~Begins(t, k, g, m) /\ (Carries(t, k, f, g, m) \/ Settled(t, k, f, g, m))
    BY <1>1, <1>3 DEF Kind, Begins, Carries, Takes, Settled, Turn
  <2>2. CASE msg[x].state = "active" /\ msg[x].event = "set"
    <3>1. Owed(msg[x]) = 0 /\ Unposted(x)
      BY <2>2 DEF Answered
    <3>2. (k \in DOMAIN stack[t] /\ f = stack[t][k]) \/ f = NoFrame
      BY <1>1, KindShifts, FromFrame
    <3>3. Settled(t, k, f, g, m)
      BY <2>1, <3>1, <3>2, NoFrameIs DEF Carries, Unposted, PublisherPcs
    <3>4. f.pc \notin Finishing
      BY <2>1, <2>2, <3>1, <3>2, <3>3, NoFrameIs, NoneFinishing DEF Settled, Finishing
    <3>5. Owed(msg'[x]) = 0 - 0
      BY <2>1, <3>1, <3>3, <3>4 DEF Settled, Outcome, Lessens, OneIf
    <3> QED
      BY <1>1, <2>1, <3>1, <3>5, UnpostedKept
  <2>3. CASE ~(msg[x].state = "active" /\ msg[x].event = "set")
    <3>1. Settled(t, k, f, g, m)
      <4> SUFFICES ASSUME Carries(t, k, f, g, m) PROVE FALSE
        BY <2>1
      <4>1. f.m = m /\ f.pc \in PublisherPcs /\ msg[m].event = "set"
        BY <2>1 DEF Carries
      <4>2. k \in DOMAIN stack[t] /\ f = stack[t][k]
        BY <1>1, <4>1, KindShifts, FromFrame, NoFrameIs DEF PublisherPcs
      <4>3. msg[m].state = "active"
        BY <4>1, <4>2, AreActive DEF ActiveFrames, PublisherPcs, CallPcs
      <4> QED
        BY <2>1, <2>3, <4>1, <4>3
    <3>2. msg[x].state = "active"
      BY <2>1, <3>1 DEF Settled, Outcome, Lessens
    <3> QED
      BY <2>1, <2>3, <3>1, <3>2, NewlyAnswered
  <2> QED
    BY <2>2, <2>3
<1> QED
  BY <1>2, <1>3

LEMMA AllReturnedStep ==
    ASSUME Inv, Inv', Answered, AllReturned, NEW t \in Threads, Does(t)
    PROVE  AllReturned'
<1> SUFFICES ASSUME NEW u \in Threads, NEW i \in DOMAIN stack'[u], stack'[u][i].pc = "waited"
             PROVE  Owed(msg'[stack'[u][i].m]) = 0
  BY DEF AllReturned, Owed
<1> DEFINE h == stack'[u][i]
           e == stack[u][i]
<1>1. PICK k, f, g, m : Kind(t, k, f, g, m)
  BY DoesKind
<1>2. h.m \in Msgs /\ msg'[h.m].state = "active"
  BY AreActiveNext DEF ActiveFrames, CallPcs
<1>3. CASE u = t /\ i = k /\ h = g
  <2>1. Settled(t, k, f, g, m) /\ g.m = m /\ f.pc = "wait" /\ msg[m].event = "set"
    BY <1>1, <1>3, NoFrameIs DEF Kind, Begins, Carries, Takes, Settled, PublisherPcs
  <2>2. msg[m].state = "active" /\ Owed(msg'[m]) = Owed(msg[m]) - 0
    BY <1>2, <1>3, <2>1 DEF Settled, Outcome, Lessens, Finishing, OneIf
  <2>3. Owed(msg[m]) = 0
    BY <1>2, <1>3, <2>1, <2>2 DEF Answered
  <2> QED
    BY <1>3, <2>1, <2>2, <2>3
<1>4. CASE ~(u = t /\ i = k) /\ i \in DOMAIN stack[u] /\ SameFrame(h, e)
  <2>1. e.pc = "waited" /\ e.m = h.m /\ Owed(msg[h.m]) = 0
    BY <1>4 DEF SameFrame, AllReturned
  <2>2. e.pc \in CallPcs /\ Owed(msg[e.m]) = Due(e.pc)
    BY <2>1 DEF CallPcs, Due
  <2>3. Owed(msg'[h.m]) = Owed(msg[h.m])
    BY <1>1, <1>2, <1>4, <2>1, <2>2, SameOwed
  <2> QED
    BY <2>1, <2>3
<1> QED
  BY <1>1, <1>3, <1>4, KindShifts, Elsewhere

AnswerInv == CallsKept /\ LoopsAt /\ OweOwn /\ Answered /\ AllReturned

LEMMA AnswerInit == Init => AnswerInv
<1> SUFFICES ASSUME Init PROVE AnswerInv
  OBVIOUS
<1>1. CallsKept /\ LoopsAt /\ OweOwn /\ AllReturned
  BY DEF Init, CallsKept, LoopsAt, OweOwn, AllReturned
<1>2. Answered
  BY DEF Init, FreeMessage, Answered
<1> QED
  BY <1>1, <1>2 DEF AnswerInv

LEMMA AnswerStutter == AnswerInv /\ UNCHANGED vars => AnswerInv'
<1> SUFFICES ASSUME AnswerInv, UNCHANGED vars PROVE AnswerInv'
  OBVIOUS
<1>1. UNCHANGED <<msg, stack>>
  BY DEF vars
<1>2. CallsKept' /\ LoopsAt'
  BY <1>1 DEF AnswerInv, CallsKept, LoopsAt, LoopAt, Foreign
<1>3. OweOwn'
  BY <1>1 DEF AnswerInv, OweOwn, OwesOwn
<1>4. Answered' /\ AllReturned'
  BY <1>1 DEF AnswerInv, Answered, Unposted, AllReturned
<1> QED
  BY <1>2, <1>3, <1>4 DEF AnswerInv

LEMMA AnswerNext == OwnWindowsFirst /\ Inv /\ Inv' /\ [Next]_vars /\ AnswerInv => AnswerInv'
<1> SUFFICES ASSUME OwnWindowsFirst, Inv, Inv', [Next]_vars, AnswerInv PROVE AnswerInv'
  OBVIOUS
<1>1. ASSUME NEW t \in Threads, Does(t) PROVE AnswerInv'
  <2>1. CallsKept /\ LoopsAt /\ OweOwn /\ Answered /\ AllReturned
    BY DEF AnswerInv
  <2>2. CallsKept' /\ LoopsAt' /\ OweOwn'
    BY <1>1, <2>1, CallsKeptStep, LoopsAtStep, OweOwnStep
  <2>3. Answered' /\ AllReturned'
    BY <1>1, <2>1, AnsweredStep, AllReturnedStep
  <2> QED
    BY <2>2, <2>3 DEF AnswerInv
<1> QED
  BY <1>1, NextDoes, AnswerStutter

LEMMA AnswerMeans == Inv /\ AnswerInv => SendReturnsDone
<1> SUFFICES ASSUME Inv, AnswerInv, NEW t \in Threads, At(t, "waited")
             PROVE  Recipients(Top(t).m) = 0
  BY DEF SendReturnsDone
<1> DEFINE x == Top(t).m
<1>1. stack[t] # <<>> /\ Top(t).pc = "waited"
  BY DEF At
<1>2. Len(stack[t]) \in DOMAIN stack[t] /\ Top(t) = stack[t][Len(stack[t])]
  BY <1>1, InvHas, TopFacts
<1>3. Top(t).pc \in CallPcs
  BY <1>1 DEF CallPcs
<1>4. x \in Msgs /\ msg[x].state = "active"
  BY <1>2, <1>3, FrameActive
<1>5. Owed(msg[x]) = 0
  BY <1>1, <1>2 DEF AnswerInv, AllReturned
<1>6. Uses(x).done = 0
  BY <1>1, <1>2, <1>3, CallDone DEF OneIf
<1>7. UsedBy(Uses(x)) = 0
  <2> DEFINE n == UsedBy(Uses(x))
  <2>1. n \in Nat /\ 0 = n - 0
    BY <1>4, <1>5, <1>6, OwedIs
  <2> HIDE DEF n
  <2>2. n = 0
    BY <2>1
  <2> QED
    BY <2>2 DEF n
<1> QED
  BY <1>7 DEF Uses, UsedBy, Recipients

\* kmq_send_message returns when every subscriber has finished with the message:
\* no queue, no window and no callback refers to it then.  A thread that sends
\* to a window of its own must run all subscribers before it, as SendMessage
\* counts such a window as finished first and as sent later: with a subscriber
\* of another thread before it the event is set one recipient too early.
THEOREM SendReturnsCorrect == OwnWindowsFirst => (Spec => []SendReturnsDone)
<1> SUFFICES ASSUME OwnWindowsFirst PROVE Spec => []SendReturnsDone
  OBVIOUS
<1>1. Init => Inv /\ AnswerInv
  BY InitInv, AnswerInit
<1>2. Inv /\ AnswerInv /\ [Next]_vars => (Inv /\ AnswerInv)'
  BY NextInv, AnswerNext
<1>3. Inv /\ AnswerInv => SendReturnsDone
  BY AnswerMeans
<1> QED
  BY <1>1, <1>2, <1>3, PTL DEF Spec

=============================================================================
