---------------------------- MODULE KmqCallProofs ----------------------------
(***************************************************************************)
(* Proofs about KmqCall, for any threads, messages, list of subscribers,    *)
(* calls and depth of nesting.  The reference count of a message is compared *)
(* with the cardinalities of the sets of places that refer to it: a place in *)
(* a queue, a frame of a stack, a call handle.  The first lemmas say how     *)
(* these cardinalities move when one queue, stack or set of handles does.    *)
(***************************************************************************)
EXTENDS KmqCall, SequenceFacts, FunctionTheorems

OneIf(b) == IF b THEN 1 ELSE 0

-----------------------------------------------------------------------------
(* Queues                                                                   *)

LEMMA InQueuedTo ==
    ASSUME NEW x, NEW q, NEW p
    PROVE  p \in QueuedTo(x, q) <=>
             \E t, i : t \in Threads /\ i \in DOMAIN q[t] /\ p = <<t, i>> /\ q[t][i] = x
BY DEF QueuedTo

\* QPUT on the queue of t, and QGET: r is q with y at the end, or q is r with
\* y in front.
Longer(q, r, t, n, y) ==
    /\ n \in Nat /\ DOMAIN q[t] = 1 .. n /\ DOMAIN r[t] = 1 .. n + 1
    /\ (\A i \in 1 .. n : r[t][i] = q[t][i]) /\ r[t][n + 1] = y
    /\ \A u \in Threads \ {t} : r[u] = q[u]

Shorter(q, r, t, n, y) ==
    /\ n \in Nat /\ DOMAIN q[t] = 1 .. n + 1 /\ DOMAIN r[t] = 1 .. n
    /\ (\A i \in 1 .. n : r[t][i] = q[t][i + 1]) /\ q[t][1] = y
    /\ \A u \in Threads \ {t} : r[u] = q[u]
    /\ \A u \in Threads : DOMAIN q[u] \subseteq Nat

LEMMA QueuedMore ==
    ASSUME NEW q, NEW r, NEW t \in Threads, NEW n, NEW y, NEW x, Longer(q, r, t, n, y),
           IsFiniteSet(QueuedTo(x, q))
    PROVE  /\ IsFiniteSet(QueuedTo(x, r))
           /\ Cardinality(QueuedTo(x, q)) \in Nat
           /\ Cardinality(QueuedTo(x, r)) = Cardinality(QueuedTo(x, q)) + OneIf(x = y)
<1> USE DEF Longer
<1> DEFINE p == <<t, n + 1>>
<1>1. \A u \in Threads, i \in Nat :
          <<u, i>> # p => ((i \in DOMAIN r[u] <=> i \in DOMAIN q[u])
                           /\ (i \in DOMAIN q[u] => r[u][i] = q[u][i]))
  OBVIOUS
<1>2. QueuedTo(x, q) \ {p} = QueuedTo(x, r) \ {p}
  <2>1. ASSUME NEW z, z # p PROVE z \in QueuedTo(x, q) <=> z \in QueuedTo(x, r)
    <3>1. ASSUME z \in QueuedTo(x, q) PROVE z \in QueuedTo(x, r)
      <4>1. PICK u, i : u \in Threads /\ i \in DOMAIN q[u] /\ z = <<u, i>> /\ q[u][i] = x
        BY <3>1, InQueuedTo
      <4>2. i \in DOMAIN r[u] /\ r[u][i] = x
        BY <2>1, <4>1
      <4> QED
        BY <4>1, <4>2, InQueuedTo
    <3>2. ASSUME z \in QueuedTo(x, r) PROVE z \in QueuedTo(x, q)
      <4>1. PICK u, i : u \in Threads /\ i \in DOMAIN r[u] /\ z = <<u, i>> /\ r[u][i] = x
        BY <3>2, InQueuedTo
      <4>2. i \in DOMAIN q[u] /\ q[u][i] = x
        BY <2>1, <4>1
      <4> QED
        BY <4>1, <4>2, InQueuedTo
    <3> QED
      BY <3>1, <3>2
  <2> QED
    BY <2>1
<1>3. p \notin QueuedTo(x, q)
  BY InQueuedTo
<1>4. p \in QueuedTo(x, r) <=> x = y
  <2>1. n + 1 \in DOMAIN r[t]
    OBVIOUS
  <2> QED
    BY <2>1, InQueuedTo
<1> QED
  BY <1>2, <1>3, <1>4, OnePoint DEF OneIf

LEMMA QueuedLess ==
    ASSUME NEW q, NEW r, NEW t \in Threads, NEW n, NEW y, NEW x, Shorter(q, r, t, n, y),
           IsFiniteSet(QueuedTo(x, q))
    PROVE  /\ IsFiniteSet(QueuedTo(x, r))
           /\ Cardinality(QueuedTo(x, q)) \in Nat
           /\ Cardinality(QueuedTo(x, r)) \in Nat
           /\ Cardinality(QueuedTo(x, r)) = Cardinality(QueuedTo(x, q)) - OneIf(x = y)
<1> USE DEF Shorter
<1> DEFINE p == <<t, 1>>
           X == QueuedTo(x, q) \ {p}
           Y == QueuedTo(x, r)
           F == [z \in X |-> IF z[1] = t THEN <<t, z[2] - 1>> ELSE z]
<1>1. \A z \in X : \E u, i : u \in Threads /\ i \in DOMAIN q[u] /\ z = <<u, i>> /\ q[u][i] = x /\ z # p
  BY InQueuedTo
<1>2. \A z \in Y : \E u, i : u \in Threads /\ i \in DOMAIN r[u] /\ z = <<u, i>> /\ r[u][i] = x
  BY InQueuedTo
<1>3. ASSUME NEW z \in X PROVE F[z] \in Y
  <2>1. PICK u, i : u \in Threads /\ i \in DOMAIN q[u] /\ z = <<u, i>> /\ q[u][i] = x /\ z # p
    BY <1>1
  <2>2. CASE u = t
    <3>1. i - 1 \in 1 .. n /\ r[t][i - 1] = x
      BY <2>1, <2>2
    <3>2. F[z] = <<t, i - 1>>
      BY <2>1, <2>2
    <3> QED
      BY <3>1, <3>2, InQueuedTo
  <2>3. CASE u # t
    <3>1. F[z] = <<u, i>> /\ i \in DOMAIN r[u] /\ r[u][i] = x
      BY <2>1, <2>3
    <3> QED
      BY <3>1, InQueuedTo
  <2> QED
    BY <2>2, <2>3
<1>4. ASSUME NEW z \in X, NEW w \in X, F[z] = F[w] PROVE z = w
  <2>1. PICK u, i : u \in Threads /\ i \in DOMAIN q[u] /\ z = <<u, i>> /\ z # p
    BY <1>1
  <2>2. PICK v, j : v \in Threads /\ j \in DOMAIN q[v] /\ w = <<v, j>> /\ w # p
    BY <1>1
  <2>3. i \in Nat /\ j \in Nat
    BY <2>1, <2>2
  <2>4. F[z] = (IF u = t THEN <<t, i - 1>> ELSE <<u, i>>)
    BY <2>1
  <2>5. F[w] = (IF v = t THEN <<t, j - 1>> ELSE <<v, j>>)
    BY <2>2
  <2> HIDE DEF F, X
  <2>6. u = v
    BY <2>4, <2>5, <1>4
  <2>7. i = j
    BY <2>3, <2>4, <2>5, <2>6, <1>4
  <2> QED
    BY <2>1, <2>2, <2>6, <2>7
<1>5. ASSUME NEW w \in Y PROVE \E z \in X : F[z] = w
  <2>1. PICK u, i : u \in Threads /\ i \in DOMAIN r[u] /\ w = <<u, i>> /\ r[u][i] = x
    BY <1>2
  <2>2. CASE u = t
    <3>1. i + 1 \in 1 .. n + 1 /\ i + 1 # 1 /\ q[t][i + 1] = x /\ i \in Nat
      BY <2>1, <2>2
    <3>2. <<t, i + 1>> \in X
      BY <3>1, InQueuedTo
    <3>3. F[<<t, i + 1>>] = w
      BY <2>1, <2>2, <3>1, <3>2
    <3> QED
      BY <3>2, <3>3
  <2>3. CASE u # t
    <3>1. i \in DOMAIN q[u] /\ q[u][i] = x
      BY <2>1, <2>3
    <3>2. w \in X
      BY <2>1, <2>3, <3>1, InQueuedTo
    <3>3. F[w] = w
      BY <2>1, <2>3, <3>2
    <3> QED
      BY <3>2, <3>3
  <2> QED
    BY <2>2, <2>3
<1>6. ExistsBijection(X, Y)
  <2>1. F \in [X -> Y]
    BY <1>3
  <2> HIDE DEF F, X, Y
  <2>2. F \in Bijection(X, Y)
    BY <2>1, <1>4, <1>5, Fun_IsBij
  <2> QED
    BY <2>2, Fun_ExistsBij
<1>7. IsFiniteSet(X) /\ IsFiniteSet(Y) /\ Cardinality(Y) = Cardinality(X)
  <2>1. IsFiniteSet(X)
    BY FS_RemoveElement
  <2> HIDE DEF X, Y
  <2> QED
    BY <2>1, <1>6, FS_Bijection
<1>8. p \in QueuedTo(x, q) <=> x = y
  <2>1. 1 \in DOMAIN q[t]
    OBVIOUS
  <2> QED
    BY <2>1, InQueuedTo
<1>9. /\ Cardinality(QueuedTo(x, q)) \in Nat
      /\ Cardinality(X) = Cardinality(QueuedTo(x, q)) - OneIf(x = y)
  <2>1. X \ {p} = QueuedTo(x, q) \ {p} /\ p \notin X
    OBVIOUS
  <2> HIDE DEF X
  <2> QED
    BY <2>1, <1>8, OnePoint, SMTT(60) DEF OneIf
<1>10. Cardinality(Y) \in Nat
  BY <1>7, FS_CardinalityType
<1> QED
  BY <1>7, <1>9, <1>10

-----------------------------------------------------------------------------
(* Stacks                                                                   *)

\* A frame that differs in calls only.
SameFrame(f, g) == f.pc = g.pc /\ f.m = g.m /\ f.api = g.api /\ f.i = g.i /\ f.to = g.to

StacksOK == stack \in [Threads -> Seq(FrameType)]

\* A step that changes the stack of t at k and nowhere else.
StackStep(t, k) ==
    /\ stack' \in [Threads -> Seq(FrameType)]
    /\ \A u \in Threads \ {t} : stack'[u] = stack[u]
    /\ \A i \in Nat \ {k} : /\ i \in DOMAIN stack'[t] <=> i \in DOMAIN stack[t]
                            /\ i \in DOMAIN stack[t] => SameFrame(stack'[t][i], stack[t][i])

LEMMA InFramesOf ==
    ASSUME NEW x, NEW pcs, NEW p
    PROVE  p \in FramesOf(x, pcs) <=>
             \E t, i : /\ t \in Threads /\ i \in DOMAIN stack[t] /\ p = <<t, i>>
                       /\ stack[t][i].m = x /\ stack[t][i].pc \in pcs
<1>1. p \in Frames <=> \E t, i : t \in Threads /\ i \in DOMAIN stack[t] /\ p = <<t, i>>
  BY DEF Frames
<1>2. \A t, i : FrameAt(<<t, i>>) = stack[t][i]
  BY DEF FrameAt
<1> QED
  BY <1>1, <1>2 DEF FramesOf

LEMMA InFramesOfNext ==
    ASSUME NEW x, NEW pcs, NEW p
    PROVE  p \in FramesOf(x, pcs)' <=>
             \E t, i : /\ t \in Threads /\ i \in DOMAIN stack'[t] /\ p = <<t, i>>
                       /\ stack'[t][i].m = x /\ stack'[t][i].pc \in pcs
<1>1. p \in Frames' <=> \E t, i : t \in Threads /\ i \in DOMAIN stack'[t] /\ p = <<t, i>>
  BY DEF Frames
<1>2. \A t, i : FrameAt(<<t, i>>)' = stack'[t][i]
  BY DEF FrameAt
<1> QED
  BY <1>1, <1>2 DEF FramesOf

LEMMA InCallFrames ==
    ASSUME NEW x, NEW p
    PROVE  /\ p \in CallFrames(x) <=>
                \E t, i : /\ t \in Threads /\ i \in DOMAIN stack[t] /\ p = <<t, i>>
                          /\ stack[t][i].m = x /\ stack[t][i].pc \in CallPcs
                          /\ HasCall(stack[t][i].api)
           /\ p \in CallFrames(x)' <=>
                \E t, i : /\ t \in Threads /\ i \in DOMAIN stack'[t] /\ p = <<t, i>>
                          /\ stack'[t][i].m = x /\ stack'[t][i].pc \in CallPcs
                          /\ HasCall(stack'[t][i].api)
<1>1. \A t, i : FrameAt(<<t, i>>) = stack[t][i] /\ FrameAt(<<t, i>>)' = stack'[t][i]
  BY DEF FrameAt
<1>2. p \in CallFrames(x) <=> p \in FramesOf(x, CallPcs) /\ HasCall(FrameAt(p).api)
  BY DEF CallFrames
<1>3. p \in CallFrames(x)' <=> p \in FramesOf(x, CallPcs)' /\ HasCall(FrameAt(p)'.api)
  BY DEF CallFrames, HasCall
<1> HIDE DEF CallPcs, HasCall
<1> QED
  BY <1>1, <1>2, <1>3, InFramesOf, InFramesOfNext

\* The sets of frames change at <<t, k>> and nowhere else.
LEMMA FramesMove ==
    ASSUME StacksOK, NEW t \in Threads, NEW k \in Nat, StackStep(t, k), NEW x, NEW pcs
    PROVE  /\ FramesOf(x, pcs) \ {<<t, k>>} = FramesOf(x, pcs)' \ {<<t, k>>}
           /\ CallFrames(x) \ {<<t, k>>} = CallFrames(x)' \ {<<t, k>>}
<1>1. ASSUME NEW u \in Threads, NEW i, <<u, i>> # <<t, k>>
      PROVE  /\ i \in DOMAIN stack'[u] <=> i \in DOMAIN stack[u]
             /\ i \in DOMAIN stack[u] => SameFrame(stack'[u][i], stack[u][i])
  <2>1. DOMAIN stack[u] \subseteq Nat /\ DOMAIN stack'[u] \subseteq Nat
    BY DEF StacksOK, StackStep
  <2>2. CASE u = t
    <3>1. i # k
      BY <1>1, <2>2
    <3> QED
      BY <2>1, <2>2, <3>1 DEF StackStep
  <2>3. CASE u # t
    BY <2>3 DEF StackStep, SameFrame
  <2> QED
    BY <2>2, <2>3
<1>2. ASSUME NEW z, z # <<t, k>>
      PROVE  /\ z \in FramesOf(x, pcs) <=> z \in FramesOf(x, pcs)'
             /\ z \in CallFrames(x) <=> z \in CallFrames(x)'
  <2>1. CASE \E u, i : u \in Threads /\ z = <<u, i>>
    <3>1. PICK u, i : u \in Threads /\ z = <<u, i>>
      BY <2>1
    <3>2. /\ i \in DOMAIN stack'[u] <=> i \in DOMAIN stack[u]
          /\ i \in DOMAIN stack[u] => SameFrame(stack'[u][i], stack[u][i])
      BY <1>1, <1>2, <3>1
    <3>3. z \in FramesOf(x, pcs) <=>
            i \in DOMAIN stack[u] /\ stack[u][i].m = x /\ stack[u][i].pc \in pcs
      BY <3>1, InFramesOf
    <3>4. z \in FramesOf(x, pcs)' <=>
            i \in DOMAIN stack'[u] /\ stack'[u][i].m = x /\ stack'[u][i].pc \in pcs
      BY <3>1, InFramesOfNext
    <3>5. z \in CallFrames(x) <=>
            /\ i \in DOMAIN stack[u] /\ stack[u][i].m = x /\ stack[u][i].pc \in CallPcs
            /\ HasCall(stack[u][i].api)
      BY <3>1, InCallFrames
    <3>6. z \in CallFrames(x)' <=>
            /\ i \in DOMAIN stack'[u] /\ stack'[u][i].m = x /\ stack'[u][i].pc \in CallPcs
            /\ HasCall(stack'[u][i].api)
      BY <3>1, InCallFrames
    <3> HIDE DEF HasCall, CallPcs
    <3> QED
      BY <3>2, <3>3, <3>4, <3>5, <3>6 DEF SameFrame
  <2>2. CASE ~(\E u, i : u \in Threads /\ z = <<u, i>>)
    BY <2>2, InFramesOf, InFramesOfNext, InCallFrames
  <2> QED
    BY <2>1, <2>2
<1> QED
  BY <1>2

\* The three ways in which the code changes a stack.
Pushes(t, s, g) ==
    /\ s \in Seq(FrameType) /\ Len(s) = Len(stack[t])
    /\ \A i \in 1 .. Len(s) : SameFrame(s[i], stack[t][i])
    /\ stack' = [stack EXCEPT ![t] = Append(s, g)]

Pops(t) == stack[t] # <<>> /\ stack' = [stack EXCEPT ![t] = Front(stack[t])]

Changes(t, g) == stack[t] # <<>> /\ stack' = [stack EXCEPT ![t] = WithTop(t, g)]

\* A call or a handler begins.
LEMMA PushFacts ==
    ASSUME StacksOK, NEW t \in Threads, NEW s, NEW g \in FrameType, Pushes(t, s, g)
    PROVE  /\ StackStep(t, Len(stack[t]) + 1)
           /\ Len(stack[t]) \in Nat
           /\ DOMAIN stack[t] = 1 .. Len(stack[t])
           /\ DOMAIN stack'[t] = 1 .. Len(stack[t]) + 1
           /\ Len(stack'[t]) = Len(stack[t]) + 1
           /\ stack'[t][Len(stack[t]) + 1] = g
<1> DEFINE n == Len(stack[t])
<1>1. stack[t] \in Seq(FrameType) /\ n \in Nat /\ DOMAIN stack[t] = 1 .. n
  BY DEF StacksOK
<1>2. /\ Append(s, g) \in Seq(FrameType) /\ Len(Append(s, g)) = n + 1
      /\ \A i \in 1 .. n : Append(s, g)[i] = s[i]
      /\ Append(s, g)[n + 1] = g
  BY AppendProperties DEF Pushes
<1>3. stack'[t] = Append(s, g) /\ \A u \in Threads \ {t} : stack'[u] = stack[u]
  BY DEF Pushes, StacksOK
<1>4. DOMAIN stack'[t] = 1 .. n + 1
  BY <1>2, <1>3, LenProperties
<1>5. stack' \in [Threads -> Seq(FrameType)]
  BY <1>2 DEF Pushes, StacksOK
<1>6. \A i \in 1 .. n : SameFrame(stack'[t][i], stack[t][i])
  BY <1>2, <1>3 DEF Pushes
<1>7. \A i \in Nat \ {n + 1} : /\ i \in DOMAIN stack'[t] <=> i \in DOMAIN stack[t]
                               /\ i \in DOMAIN stack[t] => SameFrame(stack'[t][i], stack[t][i])
  <2> HIDE DEF n
  <2> QED
    BY <1>1, <1>4, <1>6
<1>8. StackStep(t, n + 1)
  BY <1>3, <1>5, <1>7 DEF StackStep
<1> QED
  BY <1>1, <1>2, <1>3, <1>4, <1>8

\* A call or a callback returns.
LEMMA PopFacts ==
    ASSUME StacksOK, NEW t \in Threads, Pops(t)
    PROVE  /\ StackStep(t, Len(stack[t]))
           /\ Len(stack[t]) \in Nat \ {0}
           /\ DOMAIN stack[t] = 1 .. Len(stack[t])
           /\ DOMAIN stack'[t] = 1 .. Len(stack[t]) - 1
           /\ Len(stack'[t]) = Len(stack[t]) - 1
           /\ Top(t) = stack[t][Len(stack[t])] /\ Top(t) \in FrameType
<1> DEFINE n == Len(stack[t])
<1>1. stack[t] \in Seq(FrameType) /\ n \in Nat \ {0} /\ DOMAIN stack[t] = 1 .. n
  BY EmptySeq DEF StacksOK, Pops
<1>2. /\ Front(stack[t]) \in Seq(FrameType) /\ Len(Front(stack[t])) = n - 1
      /\ \A i \in 1 .. n - 1 : Front(stack[t])[i] = stack[t][i]
  BY <1>1, FrontFacts DEF Pops
<1>3. stack'[t] = Front(stack[t]) /\ \A u \in Threads \ {t} : stack'[u] = stack[u]
  BY DEF Pops, StacksOK
<1>4. DOMAIN stack'[t] = 1 .. n - 1
  BY <1>2, <1>3, LenProperties
<1>5. stack' \in [Threads -> Seq(FrameType)]
  BY <1>2 DEF Pops, StacksOK
<1>6. \A i \in 1 .. n - 1 : SameFrame(stack'[t][i], stack[t][i])
  BY <1>2, <1>3 DEF SameFrame
<1>7. \A i \in Nat \ {n} : /\ i \in DOMAIN stack'[t] <=> i \in DOMAIN stack[t]
                           /\ i \in DOMAIN stack[t] => SameFrame(stack'[t][i], stack[t][i])
  <2> HIDE DEF n
  <2> QED
    BY <1>1, <1>4, <1>6
<1>8. StackStep(t, n)
  BY <1>3, <1>5, <1>7 DEF StackStep
<1>9. Top(t) = stack[t][n] /\ Top(t) \in FrameType
  BY <1>1 DEF Top, Last
<1> QED
  BY <1>1, <1>2, <1>3, <1>4, <1>8, <1>9

\* The frame that runs goes on.
LEMMA ChangeFacts ==
    ASSUME StacksOK, NEW t \in Threads, NEW g \in FrameType, Changes(t, g)
    PROVE  /\ StackStep(t, Len(stack[t]))
           /\ Len(stack[t]) \in Nat \ {0}
           /\ DOMAIN stack[t] = 1 .. Len(stack[t])
           /\ DOMAIN stack'[t] = 1 .. Len(stack[t])
           /\ Len(stack'[t]) = Len(stack[t])
           /\ Top(t) = stack[t][Len(stack[t])] /\ Top(t) \in FrameType
           /\ stack'[t][Len(stack[t])] = g
<1> DEFINE n == Len(stack[t])
<1>1. stack[t] \in Seq(FrameType) /\ n \in Nat \ {0} /\ DOMAIN stack[t] = 1 .. n
  BY EmptySeq DEF StacksOK, Changes
<1>2. /\ WithTop(t, g) \in Seq(FrameType) /\ Len(WithTop(t, g)) = n
      /\ \A i \in 1 .. n : WithTop(t, g)[i] = IF i = n THEN g ELSE stack[t][i]
  <2>1. n \in 1 .. n
    BY <1>1
  <2> QED
    BY <1>1, <2>1, ExceptSeq DEF WithTop
<1>3. stack'[t] = WithTop(t, g) /\ \A u \in Threads \ {t} : stack'[u] = stack[u]
  BY DEF Changes, StacksOK
<1>4. DOMAIN stack'[t] = 1 .. n
  BY <1>2, <1>3, LenProperties
<1>5. stack' \in [Threads -> Seq(FrameType)]
  BY <1>2 DEF Changes, StacksOK
<1>6. \A i \in 1 .. n : i # n => SameFrame(stack'[t][i], stack[t][i])
  BY <1>2, <1>3 DEF SameFrame
<1>7. \A i \in Nat \ {n} : /\ i \in DOMAIN stack'[t] <=> i \in DOMAIN stack[t]
                           /\ i \in DOMAIN stack[t] => SameFrame(stack'[t][i], stack[t][i])
  <2> HIDE DEF n
  <2> QED
    BY <1>1, <1>4, <1>6
<1>8. StackStep(t, n)
  BY <1>3, <1>5, <1>7 DEF StackStep
<1>9. Top(t) = stack[t][n] /\ Top(t) \in FrameType
  BY <1>1 DEF Top, Last
<1>10. stack'[t][n] = g
  BY <1>1, <1>2, <1>3
<1> QED
  BY <1>1, <1>2, <1>3, <1>4, <1>8, <1>9, <1>10

-----------------------------------------------------------------------------
(* What a step of a stack does to the sets of frames                        *)

\* A place without a frame counts as one with this frame, which is of no message.
NoFrame == Frame("drained", NoMsg, "none")

FrameIs(s, k, f) == IF k \in DOMAIN s THEN f = s[k] ELSE f = NoFrame

\* The frame f of t at k makes way for g; user code runs in the others.
Shifts(t, k, f, g) ==
    /\ k \in Nat /\ StackStep(t, k)
    /\ FrameIs(stack[t], k, f) /\ FrameIs(stack'[t], k, g)
    /\ \A i \in DOMAIN stack'[t] : i # k => stack'[t][i].pc \in UserCode

Hits(f, x, pcs) == OneIf(f.m = x /\ f.pc \in pcs)
HitsCall(f, x) == OneIf(f.m = x /\ f.pc \in CallPcs /\ HasCall(f.api))

LEMMA FinitePart ==
    ASSUME Finite, NEW x \in Msgs, NEW pcs \in SUBSET Pcs
    PROVE  IsFiniteSet(FramesOf(x, pcs))
<1>1. FramesOf(x, pcs) \subseteq FramesOf(x, Pcs)
  BY DEF FramesOf
<1> QED
  BY <1>1, FS_Subset DEF Finite

\* Every message's frames of some kind are counted.
LEMMA ShiftCounts ==
    ASSUME StacksOK, Finite, NEW t \in Threads, NEW k, NEW f, NEW g, Shifts(t, k, f, g),
           NEW x \in Msgs, NEW pcs \in SUBSET Pcs
    PROVE  /\ IsFiniteSet(FramesOf(x, pcs)')
           /\ Cardinality(FramesOf(x, pcs)) \in Nat
           /\ Cardinality(FramesOf(x, pcs)') \in Nat
           /\ Cardinality(FramesOf(x, pcs)')
                = Cardinality(FramesOf(x, pcs)) - Hits(f, x, pcs) + Hits(g, x, pcs)
<1>1. FramesOf(x, pcs) \ {<<t, k>>} = FramesOf(x, pcs)' \ {<<t, k>>}
  BY FramesMove DEF Shifts
<1>2. IsFiniteSet(FramesOf(x, pcs))
  BY FinitePart
<1>3. x # NoMsg
  BY CallAssumption
<1>4. <<t, k>> \in FramesOf(x, pcs) <=> f.m = x /\ f.pc \in pcs
  BY <1>3, InFramesOf DEF Shifts, FrameIs, NoFrame, Frame
<1>5. <<t, k>> \in FramesOf(x, pcs)' <=> g.m = x /\ g.pc \in pcs
  BY <1>3, InFramesOfNext DEF Shifts, FrameIs, NoFrame, Frame
<1> QED
  BY <1>1, <1>2, <1>4, <1>5, OnePoint DEF Hits, OneIf

LEMMA ShiftCallCounts ==
    ASSUME StacksOK, Finite, NEW t \in Threads, NEW k, NEW f, NEW g, Shifts(t, k, f, g),
           NEW x \in Msgs
    PROVE  /\ Cardinality(CallFrames(x)) \in Nat
           /\ Cardinality(CallFrames(x)') \in Nat
           /\ Cardinality(CallFrames(x)')
                = Cardinality(CallFrames(x)) - HitsCall(f, x) + HitsCall(g, x)
<1>1. CallFrames(x) \ {<<t, k>>} = CallFrames(x)' \ {<<t, k>>}
  BY FramesMove DEF Shifts
<1>2. IsFiniteSet(CallFrames(x))
  <2>1. CallPcs \in SUBSET Pcs
    BY DEF CallPcs, Pcs
  <2>2. CallFrames(x) \subseteq FramesOf(x, CallPcs)
    BY DEF CallFrames
  <2> QED
    BY <2>1, <2>2, FinitePart, FS_Subset
<1>3. x # NoMsg
  BY CallAssumption
<1>4. <<t, k>> \in CallFrames(x) <=> f.m = x /\ f.pc \in CallPcs /\ HasCall(f.api)
  <2> HIDE DEF HasCall, CallPcs
  <2> QED
    BY <1>3, InCallFrames DEF Shifts, FrameIs, NoFrame, Frame
<1>5. <<t, k>> \in CallFrames(x)' <=> g.m = x /\ g.pc \in CallPcs /\ HasCall(g.api)
  <2> HIDE DEF HasCall, CallPcs
  <2> QED
    BY <1>3, InCallFrames DEF Shifts, FrameIs, NoFrame, Frame
<1> QED
  BY <1>1, <1>2, <1>4, <1>5, OnePoint DEF HitsCall, OneIf

-----------------------------------------------------------------------------
(* The shape of the stacks                                                  *)

LEMMA SameFrameOK ==
    ASSUME NEW t, NEW i, NEW f, NEW g, SameFrame(f, g), FrameOK(t, i, g)
    PROVE  FrameOK(t, i, f)
BY DEF SameFrame, FrameOK

LEMMA PushStep ==
    ASSUME StacksOK, StackShape, NEW t \in Threads, NEW s, NEW g \in FrameType,
           Pushes(t, s, g), stack[t] # <<>> => Top(t).pc \in UserCode,
           FrameOK(t, Len(stack[t]) + 1, g)
    PROVE  StackShape' /\ Shifts(t, Len(stack[t]) + 1, NoFrame, g)
<1> DEFINE n == Len(stack[t])
<1>1. /\ StackStep(t, n + 1) /\ n \in Nat /\ DOMAIN stack[t] = 1 .. n
      /\ DOMAIN stack'[t] = 1 .. n + 1 /\ Len(stack'[t]) = n + 1 /\ stack'[t][n + 1] = g
  BY PushFacts
<1>2. n # 0 => stack[t][n].pc \in UserCode
  BY <1>1 DEF Top, Last
<1>3. \A i \in 1 .. n : SameFrame(stack'[t][i], stack[t][i])
  BY <1>1, SMTT(60) DEF StackStep
<1> HIDE DEF n
<1>4. \A i \in 1 .. n : FrameOK(t, i, stack'[t][i]) /\ stack'[t][i].pc \in UserCode
  <2> SUFFICES ASSUME NEW i \in 1 .. n
               PROVE  FrameOK(t, i, stack'[t][i]) /\ stack'[t][i].pc \in UserCode
    OBVIOUS
  <2>1. FrameOK(t, i, stack[t][i]) /\ (i < n => stack[t][i].pc \in UserCode)
    BY <1>1 DEF StackShape, n
  <2>2. stack[t][i].pc \in UserCode
    BY <1>1, <1>2, <2>1
  <2> QED
    BY <1>3, <2>1, <2>2, SameFrameOK DEF SameFrame
<1>5. StackShape'
  <2> SUFFICES ASSUME NEW u \in Threads, NEW i \in DOMAIN stack'[u]
               PROVE  /\ FrameOK(u, i, stack'[u][i])
                      /\ i < Len(stack'[u]) => stack'[u][i].pc \in UserCode
    BY DEF StackShape, FrameOK
  <2>1. CASE u # t
    BY <1>1, <2>1 DEF StackStep, StackShape
  <2>2. CASE u = t /\ i = n + 1
    <3>1. ~(i < Len(stack'[u]))
      BY <1>1, <2>2
    <3> QED
      BY <1>1, <2>2, <3>1 DEF n
  <2>3. CASE u = t /\ i # n + 1
    <3>1. i \in 1 .. n
      BY <1>1, <2>3
    <3> QED
      BY <1>4, <2>3, <3>1
  <2> QED
    BY <2>1, <2>2, <2>3
<1>6. Shifts(t, n + 1, NoFrame, g)
  BY <1>1, <1>4 DEF Shifts, FrameIs
<1> QED
  BY <1>5, <1>6 DEF n

LEMMA PopStep ==
    ASSUME StacksOK, StackShape, NEW t \in Threads, Pops(t)
    PROVE  StackShape' /\ Shifts(t, Len(stack[t]), Top(t), NoFrame)
<1> DEFINE n == Len(stack[t])
<1>1. /\ StackStep(t, n) /\ n \in Nat \ {0} /\ DOMAIN stack[t] = 1 .. n
      /\ DOMAIN stack'[t] = 1 .. n - 1 /\ Len(stack'[t]) = n - 1 /\ Top(t) = stack[t][n]
  BY PopFacts
<1>2. \A i \in 1 .. n - 1 : SameFrame(stack'[t][i], stack[t][i])
  BY <1>1 DEF StackStep
<1> HIDE DEF n
<1>3. \A i \in 1 .. n - 1 : FrameOK(t, i, stack'[t][i]) /\ stack'[t][i].pc \in UserCode
  <2> SUFFICES ASSUME NEW i \in 1 .. n - 1
               PROVE  FrameOK(t, i, stack'[t][i]) /\ stack'[t][i].pc \in UserCode
    OBVIOUS
  <2>1. FrameOK(t, i, stack[t][i]) /\ stack[t][i].pc \in UserCode
    BY <1>1 DEF StackShape, n
  <2> QED
    BY <1>2, <2>1, SameFrameOK DEF SameFrame
<1>4. StackShape'
  <2> SUFFICES ASSUME NEW u \in Threads, NEW i \in DOMAIN stack'[u]
               PROVE  /\ FrameOK(u, i, stack'[u][i])
                      /\ i < Len(stack'[u]) => stack'[u][i].pc \in UserCode
    BY DEF StackShape, FrameOK
  <2>1. CASE u # t
    BY <1>1, <2>1 DEF StackStep, StackShape
  <2>2. CASE u = t
    BY <1>1, <1>3, <2>2
  <2> QED
    BY <2>1, <2>2
<1>5. Shifts(t, n, Top(t), NoFrame)
  BY <1>1, <1>3 DEF Shifts, FrameIs
<1> QED
  BY <1>4, <1>5 DEF n

LEMMA ChangeStep ==
    ASSUME StacksOK, StackShape, NEW t \in Threads, NEW g \in FrameType, Changes(t, g),
           FrameOK(t, Len(stack[t]), g)
    PROVE  StackShape' /\ Shifts(t, Len(stack[t]), Top(t), g)
<1> DEFINE n == Len(stack[t])
<1>1. /\ StackStep(t, n) /\ n \in Nat \ {0} /\ DOMAIN stack[t] = 1 .. n
      /\ DOMAIN stack'[t] = 1 .. n /\ Len(stack'[t]) = n /\ Top(t) = stack[t][n]
      /\ stack'[t][n] = g
  BY ChangeFacts
<1>2. \A i \in 1 .. n : i # n => SameFrame(stack'[t][i], stack[t][i])
  BY <1>1 DEF StackStep
<1> HIDE DEF n
<1>3. \A i \in 1 .. n : i # n => FrameOK(t, i, stack'[t][i]) /\ stack'[t][i].pc \in UserCode
  <2> SUFFICES ASSUME NEW i \in 1 .. n, i # n
               PROVE  FrameOK(t, i, stack'[t][i]) /\ stack'[t][i].pc \in UserCode
    OBVIOUS
  <2>1. FrameOK(t, i, stack[t][i]) /\ stack[t][i].pc \in UserCode
    BY <1>1 DEF StackShape, n
  <2> QED
    BY <1>2, <2>1, SameFrameOK DEF SameFrame
<1>4. StackShape'
  <2> SUFFICES ASSUME NEW u \in Threads, NEW i \in DOMAIN stack'[u]
               PROVE  /\ FrameOK(u, i, stack'[u][i])
                      /\ i < Len(stack'[u]) => stack'[u][i].pc \in UserCode
    BY DEF StackShape, FrameOK
  <2>1. CASE u # t
    BY <1>1, <2>1 DEF StackStep, StackShape
  <2>2. CASE u = t /\ i = n
    <3>1. FrameOK(t, n, g) /\ ~(i < Len(stack'[u]))
      BY <1>1, <2>2 DEF n
    <3> QED
      BY <1>1, <2>2, <3>1
  <2>3. CASE u = t /\ i # n
    BY <1>1, <1>3, <2>3
  <2> QED
    BY <2>1, <2>2, <2>3
<1>5. Shifts(t, n, Top(t), g)
  BY <1>1, <1>3 DEF Shifts, FrameIs
<1> QED
  BY <1>4, <1>5 DEF n

-----------------------------------------------------------------------------
(* The ledger of a message: how many places of each kind refer to it.       *)

Uses(x) == [queued    |-> Cardinality(QueuedTo(x, Queues)),
            windows   |-> Cardinality(QueuedTo(x, wq)),
            running   |-> Cardinality(FramesOf(x, RecipientPcs)),
            own       |-> Cardinality(OwnWindow(x)),
            done      |-> Cardinality(OwnWindowDone(x)),
            calls     |-> Cardinality(FramesOf(x, CallPcs)),
            handles   |-> Cardinality(CallFrames(x)),
            keepers   |-> Cardinality(Keepers(x)),
            publisher |-> Cardinality(Publisher(x)),
            handler   |-> Cardinality(FramesOf(x, {"handler"})),
            count     |-> Cardinality(FramesOf(x, {"count"}))]

UsesType == [queued : Nat, windows : Nat, running : Nat, own : Nat, done : Nat, calls : Nat,
             handles : Nat, keepers : Nat, publisher : Nat, handler : Nat, count : Nat]

UsedBy(u) == u.queued + u.windows + u.running

\* What the invariant says of a message r that is used as u says.
Balanced(r, u) ==
    /\ r.state = "active" =>
         /\ r.refcount = UsedBy(u) + 2 * u.own + u.done + u.handles + u.keepers
         /\ r.nSent + u.done = r.nCompleted + r.nFailed + UsedBy(u)
    /\ r.state # "active" =>
         /\ u.queued = 0 /\ u.windows = 0 /\ u.running = 0 /\ u.own = 0 /\ u.done = 0
         /\ u.calls = 0 /\ u.handles = 0 /\ u.keepers = 0 /\ u.publisher = 0
    /\ u.calls + u.keepers <= 1
    /\ u.count > 0 => r.nSent = 0
    /\ u.handler = IF r.state = "completing" THEN 1 ELSE 0

Ledger == \A x \in Msgs : Balanced(msg[x], Uses(x))

XferExact == IsInjective(xfer) /\ ToSet(xfer) = {m \in Msgs : msg[m].state = "xfer"}

LEMMA PcsParts ==
    /\ RecipientPcs \in SUBSET Pcs /\ CallPcs \in SUBSET Pcs /\ PublisherPcs \in SUBSET Pcs
    /\ {"window"} \in SUBSET Pcs /\ {"sent"} \in SUBSET Pcs /\ {"handler"} \in SUBSET Pcs
    /\ {"count"} \in SUBSET Pcs /\ Pcs \in SUBSET Pcs
BY DEF RecipientPcs, CallPcs, PublisherPcs, Pcs

LEMMA CallFramesFinite ==
    ASSUME Finite, NEW x \in Msgs
    PROVE  IsFiniteSet(CallFrames(x))
<1>1. CallFrames(x) \subseteq FramesOf(x, CallPcs)
  BY DEF CallFrames
<1> QED
  BY <1>1, PcsParts, FinitePart, FS_Subset

LEMMA UsesTyped == Finite => \A x \in Msgs : Uses(x) \in UsesType
<1> SUFFICES ASSUME Finite, NEW x \in Msgs PROVE Uses(x) \in UsesType
  OBVIOUS
<1>1. \A pcs \in SUBSET Pcs : Cardinality(FramesOf(x, pcs)) \in Nat
  BY FinitePart, FS_CardinalityType
<1>2. /\ Cardinality(QueuedTo(x, Queues)) \in Nat /\ Cardinality(QueuedTo(x, wq)) \in Nat
      /\ Cardinality(Keepers(x)) \in Nat
  BY FS_CardinalityType DEF Finite
<1>3. Cardinality(CallFrames(x)) \in Nat
  BY CallFramesFinite, FS_CardinalityType
<1> QED
  BY <1>1, <1>2, <1>3, PcsParts DEF Uses, UsesType, OwnWindow, OwnWindowDone, Publisher

\* The ledger is what the four properties say.
LEMMA LedgerIs ==
    StacksOK /\ StackShape /\ Finite =>
      (Ledger /\ XferExact <=> RefcountExact /\ CountsExact /\ OneOwner /\ NoDangling)
<1> SUFFICES ASSUME StacksOK, StackShape, Finite
             PROVE  Ledger /\ XferExact <=> RefcountExact /\ CountsExact /\ OneOwner /\ NoDangling
  OBVIOUS
<1>1. ASSUME NEW x \in Msgs, NEW pcs \in SUBSET Pcs
      PROVE  /\ IsFiniteSet(FramesOf(x, pcs)) /\ Cardinality(FramesOf(x, pcs)) \in Nat
             /\ Cardinality(FramesOf(x, pcs)) = 0 <=> FramesOf(x, pcs) = {}
  BY FinitePart, FS_CardinalityType, FS_EmptySet
<1>2. ASSUME NEW x \in Msgs
      PROVE  /\ Cardinality(QueuedTo(x, Queues)) = 0 <=> QueuedTo(x, Queues) = {}
             /\ Cardinality(QueuedTo(x, wq)) = 0 <=> QueuedTo(x, wq) = {}
             /\ Cardinality(Keepers(x)) = 0 <=> Keepers(x) = {}
             /\ Cardinality(CallFrames(x)) = 0 <=> CallFrames(x) = {}
  BY CallFramesFinite, FS_EmptySet DEF Finite
<1>3. ASSUME NEW x \in Msgs
      PROVE  FramesOf(x, Pcs \ {"handler"}) = {} <=>
               /\ FramesOf(x, RecipientPcs) = {} /\ OwnWindow(x) = {} /\ OwnWindowDone(x) = {}
               /\ FramesOf(x, CallPcs) = {} /\ CallFrames(x) = {} /\ Publisher(x) = {}
  <2>1. ASSUME NEW p \in FramesOf(x, Pcs \ {"handler"})
        PROVE  p \in FramesOf(x, RecipientPcs) \cup FramesOf(x, CallPcs)
    <3>1. PICK t, i : /\ t \in Threads /\ i \in DOMAIN stack[t] /\ p = <<t, i>>
                      /\ stack[t][i].m = x /\ stack[t][i].pc \in Pcs \ {"handler"}
      BY <2>1, InFramesOf
    <3>2. stack[t][i].pc \notin {"woken", "exited", "drained"}
      BY <3>1, CallAssumption DEF StackShape, FrameOK
    <3>3. stack[t][i].pc \in RecipientPcs \cup CallPcs
      BY <3>1, <3>2 DEF Pcs, RecipientPcs, CallPcs
    <3> QED
      BY <3>1, <3>3, InFramesOf
  <2>2. /\ FramesOf(x, RecipientPcs) \subseteq FramesOf(x, Pcs \ {"handler"})
        /\ FramesOf(x, CallPcs) \subseteq FramesOf(x, Pcs \ {"handler"})
        /\ OwnWindow(x) \subseteq FramesOf(x, CallPcs)
        /\ OwnWindowDone(x) \subseteq FramesOf(x, CallPcs)
        /\ Publisher(x) \subseteq FramesOf(x, CallPcs)
        /\ CallFrames(x) \subseteq FramesOf(x, CallPcs)
    BY DEF FramesOf, CallFrames, OwnWindow, OwnWindowDone, Publisher, Pcs, RecipientPcs, CallPcs,
       PublisherPcs
  <2> QED
    BY <2>1, <2>2
<1> DEFINE U(x) == Uses(x)
<1>4. ASSUME NEW x \in Msgs
      PROVE  /\ U(x) \in UsesType
             /\ Recipients(x) = UsedBy(U(x)) /\ CallHandles(x) = U(x).handles + U(x).keepers
             /\ Cardinality(OwnWindow(x)) = U(x).own /\ Cardinality(OwnWindowDone(x)) = U(x).done
             /\ Cardinality(FramesOf(x, CallPcs)) = U(x).calls
             /\ Cardinality(Keepers(x)) = U(x).keepers
             /\ FramesOf(x, {"count"}) = {} <=> U(x).count = 0
             /\ Cardinality(FramesOf(x, {"handler"})) = U(x).handler
             /\ QueuedTo(x, Queues) = {} <=> U(x).queued = 0
             /\ QueuedTo(x, wq) = {} <=> U(x).windows = 0
             /\ Keepers(x) = {} <=> U(x).keepers = 0
             /\ FramesOf(x, Pcs \ {"handler"}) = {} <=>
                  /\ U(x).running = 0 /\ U(x).own = 0 /\ U(x).done = 0
                  /\ U(x).calls = 0 /\ U(x).handles = 0 /\ U(x).publisher = 0
  <2>1. U(x) \in UsesType
    BY UsesTyped
  <2>2. \A pcs \in SUBSET Pcs : FramesOf(x, pcs) = {} <=> Cardinality(FramesOf(x, pcs)) = 0
    BY <1>1
  <2>3. FramesOf(x, Pcs \ {"handler"}) = {} <=>
          /\ Cardinality(FramesOf(x, RecipientPcs)) = 0 /\ Cardinality(OwnWindow(x)) = 0
          /\ Cardinality(OwnWindowDone(x)) = 0 /\ Cardinality(FramesOf(x, CallPcs)) = 0
          /\ Cardinality(CallFrames(x)) = 0 /\ Cardinality(Publisher(x)) = 0
    BY <1>2, <1>3, <2>2, PcsParts DEF OwnWindow, OwnWindowDone, Publisher
  <2> QED
    BY <1>2, <2>1, <2>2, <2>3, PcsParts DEF Uses, UsedBy, Recipients, CallHandles
<1> HIDE DEF U
<1>5. ASSUME NEW x \in Msgs
      PROVE  Balanced(msg[x], U(x)) <=>
               /\ msg[x].state = "active" =>
                    /\ msg[x].refcount = Recipients(x) + 2 * Cardinality(OwnWindow(x))
                                         + Cardinality(OwnWindowDone(x)) + CallHandles(x)
                    /\ msg[x].nSent + Cardinality(OwnWindowDone(x))
                         = msg[x].nCompleted + msg[x].nFailed + Recipients(x)
               /\ msg[x].state # "active" =>
                    /\ QueuedTo(x, Queues) = {} /\ QueuedTo(x, wq) = {}
                    /\ Keepers(x) = {}
                    /\ FramesOf(x, Pcs \ {"handler"}) = {}
               /\ Cardinality(FramesOf(x, CallPcs)) + Cardinality(Keepers(x)) <= 1
               /\ FramesOf(x, {"count"}) # {} => msg[x].nSent = 0
               /\ Cardinality(FramesOf(x, {"handler"}))
                    = (IF msg[x].state = "completing" THEN 1 ELSE 0)
  <2>1. U(x) \in UsesType
    BY <1>4
  <2>2. /\ U(x).handles + U(x).keepers \in Nat /\ U(x).count \in Nat /\ UsedBy(U(x)) \in Nat
        /\ U(x).handles \in Nat /\ U(x).keepers \in Nat /\ U(x).own \in Nat /\ U(x).done \in Nat
    BY <2>1 DEF UsesType, UsedBy
  <2>3. UsedBy(U(x)) + 2 * U(x).own + U(x).done + (U(x).handles + U(x).keepers)
          = UsedBy(U(x)) + 2 * U(x).own + U(x).done + U(x).handles + U(x).keepers
    BY <2>2
  <2> DEFINE u == U(x)
             r == msg[x]
  <2>4. r.refcount = Recipients(x) + 2 * Cardinality(OwnWindow(x))
                     + Cardinality(OwnWindowDone(x)) + CallHandles(x)
        <=> r.refcount = UsedBy(u) + 2 * u.own + u.done + u.handles + u.keepers
    BY <1>4, <2>3
  <2>5. r.nSent + Cardinality(OwnWindowDone(x)) = r.nCompleted + r.nFailed + Recipients(x)
        <=> r.nSent + u.done = r.nCompleted + r.nFailed + UsedBy(u)
    BY <1>4
  <2>6. /\ QueuedTo(x, Queues) = {} /\ QueuedTo(x, wq) = {}
        /\ Keepers(x) = {} /\ FramesOf(x, Pcs \ {"handler"}) = {}
        <=> /\ u.queued = 0 /\ u.windows = 0 /\ u.running = 0 /\ u.own = 0 /\ u.done = 0
            /\ u.calls = 0 /\ u.handles = 0 /\ u.keepers = 0 /\ u.publisher = 0
    BY <1>4
  <2>7. Cardinality(FramesOf(x, CallPcs)) + Cardinality(Keepers(x)) <= 1
        <=> u.calls + u.keepers <= 1
    BY <1>4
  <2>8. FramesOf(x, {"count"}) # {} <=> u.count > 0
    BY <1>4, <2>2
  <2>9. Cardinality(FramesOf(x, {"handler"})) = u.handler
    BY <1>4
  <2> HIDE DEF UsedBy
  <2> QED
    BY <2>4, <2>5, <2>6, <2>7, <2>8, <2>9 DEF Balanced
<1>6. Ledger <=> \A x \in Msgs : Balanced(msg[x], U(x))
  BY DEF Ledger, U
<1> QED
  BY <1>5, <1>6 DEF XferExact, RefcountExact, CountsExact, OneOwner, NoDangling, Active

-----------------------------------------------------------------------------
(* How a step moves the ledger.                                             *)

Entry == [m : Msgs, sub : 0 .. Len(Subs)]
QueuesOK == queue \in [Threads -> Seq(Entry)]
WindowsOK == wq \in [Threads -> Seq(Msgs)]
HandlesOK == handles \in [Threads -> SUBSET Msgs]

LEMMA QueuesIs ==
    ASSUME QueuesOK, NEW t \in Threads
    PROVE  /\ DOMAIN Queues[t] = 1 .. Len(queue[t]) /\ Len(queue[t]) \in Nat
           /\ \A i \in 1 .. Len(queue[t]) : Queues[t][i] = queue[t][i].m /\ Queues[t][i] \in Msgs
<1>1. queue[t] \in Seq(Entry)
  BY DEF QueuesOK
<1>2. /\ Len(queue[t]) \in Nat /\ DOMAIN queue[t] = 1 .. Len(queue[t])
      /\ \A i \in 1 .. Len(queue[t]) : queue[t][i] \in Entry
  BY <1>1, LenProperties, ElementOfSeq
<1>3. Queues[t] = [i \in DOMAIN queue[t] |-> queue[t][i].m]
  BY DEF Queues
<1> QED
  BY <1>2, <1>3 DEF Entry

LEMMA QueuesIsNext ==
    ASSUME QueuesOK', NEW t \in Threads
    PROVE  /\ DOMAIN Queues'[t] = 1 .. Len(queue'[t]) /\ Len(queue'[t]) \in Nat
           /\ \A i \in 1 .. Len(queue'[t]) : Queues'[t][i] = queue'[t][i].m
<1>1. queue'[t] \in Seq(Entry)
  BY DEF QueuesOK
<1>2. Len(queue'[t]) \in Nat /\ DOMAIN queue'[t] = 1 .. Len(queue'[t])
  BY <1>1, LenProperties
<1>3. Queues'[t] = [i \in DOMAIN queue'[t] |-> queue'[t][i].m]
  BY DEF Queues
<1> QED
  BY <1>2, <1>3

\* QPUT
LEMMA QueuePut ==
    ASSUME QueuesOK, Finite, NEW t \in Threads, NEW e \in Entry,
           queue' = [queue EXCEPT ![t] = Append(@, e)]
    PROVE  /\ QueuesOK' /\ queue'[t] # <<>> /\ Len(queue'[t]) = Len(queue[t]) + 1
           /\ \A x \in Msgs :
                /\ IsFiniteSet(QueuedTo(x, Queues)')
                /\ Cardinality(QueuedTo(x, Queues)')
                     = Cardinality(QueuedTo(x, Queues)) + OneIf(x = e.m)
<1> DEFINE n == Len(queue[t])
<1>1. queue[t] \in Seq(Entry) /\ n \in Nat
  BY DEF QueuesOK
<1>2. /\ Append(queue[t], e) \in Seq(Entry) /\ Len(Append(queue[t], e)) = n + 1
      /\ Append(queue[t], e) # <<>>
      /\ \A i \in 1 .. n : Append(queue[t], e)[i] = queue[t][i]
      /\ Append(queue[t], e)[n + 1] = e
  BY <1>1, AppendProperties
<1>3. queue'[t] = Append(queue[t], e) /\ \A u \in Threads \ {t} : queue'[u] = queue[u]
  BY DEF QueuesOK
<1>4. QueuesOK'
  BY <1>2 DEF QueuesOK
<1>5. /\ DOMAIN Queues[t] = 1 .. n /\ DOMAIN Queues'[t] = 1 .. n + 1
      /\ \A i \in 1 .. n : Queues'[t][i] = Queues[t][i]
      /\ Queues'[t][n + 1] = e.m
  <2>1. DOMAIN Queues[t] = 1 .. n /\ \A i \in 1 .. n : Queues[t][i] = queue[t][i].m
    BY QueuesIs
  <2>2. /\ DOMAIN Queues'[t] = 1 .. n + 1
        /\ \A i \in 1 .. n + 1 : Queues'[t][i] = queue'[t][i].m
    BY <1>2, <1>3, <1>4, QueuesIsNext
  <2>3. n + 1 \in 1 .. n + 1 /\ \A i \in 1 .. n : i \in 1 .. n + 1
    BY <1>1
  <2> HIDE DEF n
  <2> QED
    BY <1>2, <1>3, <2>1, <2>2, <2>3
<1>6. \A u \in Threads \ {t} : Queues'[u] = Queues[u]
  BY <1>3 DEF Queues
<1>7. ASSUME NEW x \in Msgs
      PROVE  /\ IsFiniteSet(QueuedTo(x, Queues'))
             /\ Cardinality(QueuedTo(x, Queues'))
                  = Cardinality(QueuedTo(x, Queues)) + OneIf(x = e.m)
  <2>1. IsFiniteSet(QueuedTo(x, Queues))
    BY DEF Finite
  <2>2. Longer(Queues, Queues', t, n, e.m)
    BY <1>1, <1>5, <1>6 DEF Longer
  <2> QED
    BY <2>1, <2>2, QueuedMore
<1>8. \A x : QueuedTo(x, Queues)' = QueuedTo(x, Queues')
  BY DEF QueuedTo
<1> QED
  BY <1>2, <1>3, <1>4, <1>7, <1>8

\* QGET
LEMMA QueueGet ==
    ASSUME QueuesOK, Finite, NEW t \in Threads, queue[t] # <<>>,
           queue' = [queue EXCEPT ![t] = Tail(@)]
    PROVE  /\ QueuesOK' /\ Head(queue[t]) \in Entry
           /\ Len(queue'[t]) = Len(queue[t]) - 1 /\ Len(queue[t]) \in Nat
           /\ \A x \in Msgs :
                /\ IsFiniteSet(QueuedTo(x, Queues)')
                /\ Cardinality(QueuedTo(x, Queues)')
                     = Cardinality(QueuedTo(x, Queues)) - OneIf(x = Head(queue[t]).m)
<1> DEFINE q == queue[t]
           n == Len(q) - 1
<1>1. q \in Seq(Entry) /\ n \in Nat /\ Head(q) = q[1] /\ Len(q) = n + 1
  BY EmptySeq DEF QueuesOK
<1>2. /\ Tail(q) \in Seq(Entry) /\ Len(Tail(q)) = n /\ Head(q) \in Entry
      /\ \A i \in 1 .. n : Tail(q)[i] = q[i + 1]
  BY <1>1, HeadTailProperties
<1>3. queue'[t] = Tail(q) /\ \A u \in Threads \ {t} : queue'[u] = queue[u]
  BY DEF QueuesOK
<1>4. QueuesOK'
  BY <1>2 DEF QueuesOK
<1>5. /\ DOMAIN Queues[t] = 1 .. n + 1 /\ DOMAIN Queues'[t] = 1 .. n
      /\ \A i \in 1 .. n : Queues'[t][i] = Queues[t][i + 1]
      /\ Queues[t][1] = Head(q).m
  <2>1. DOMAIN Queues[t] = 1 .. n + 1 /\ \A i \in 1 .. n + 1 : Queues[t][i] = q[i].m
    BY <1>1, QueuesIs
  <2>2. DOMAIN Queues'[t] = 1 .. n /\ \A i \in 1 .. n : Queues'[t][i] = queue'[t][i].m
    BY <1>2, <1>3, <1>4, QueuesIsNext, ZenonT(60)
  <2>3. 1 \in 1 .. n + 1 /\ \A i \in 1 .. n : i + 1 \in 1 .. n + 1
    BY <1>1
  <2>4. queue'[t] = Tail(q)
    BY <1>3
  <2>5. \A i \in 1 .. n : Queues'[t][i] = Tail(q)[i].m /\ Queues[t][i + 1] = q[i + 1].m
    BY <2>1, <2>2, <2>3, <2>4
  <2>6. \A i \in 1 .. n : Tail(q)[i] = q[i + 1]
    BY <1>2
  <2>7. \A i \in 1 .. n : Queues'[t][i] = Queues[t][i + 1]
    BY <2>5, <2>6, Zenon
  <2>8. Queues[t][1] = Head(q).m
    BY <1>1, <2>1, <2>3
  <2> QED
    BY <2>1, <2>2, <2>7, <2>8
<1>6. \A u \in Threads \ {t} : Queues'[u] = Queues[u]
  BY <1>3 DEF Queues
<1>7. \A u \in Threads : DOMAIN Queues[u] \subseteq Nat
  BY QueuesIs
<1>8. ASSUME NEW x \in Msgs
      PROVE  /\ IsFiniteSet(QueuedTo(x, Queues'))
             /\ Cardinality(QueuedTo(x, Queues'))
                  = Cardinality(QueuedTo(x, Queues)) - OneIf(x = Head(q).m)
  <2>1. IsFiniteSet(QueuedTo(x, Queues))
    BY DEF Finite
  <2>2. Shorter(Queues, Queues', t, n, Head(q).m)
    <3> HIDE DEF n, q
    <3> QED
      BY <1>1, <1>5, <1>6, <1>7 DEF Shorter
  <2> QED
    BY <2>1, <2>2, QueuedLess
<1>9. \A x : QueuedTo(x, Queues)' = QueuedTo(x, Queues')
  BY DEF QueuedTo
<1>10. Len(queue'[t]) = Len(queue[t]) - 1 /\ Len(queue[t]) \in Nat
  <2>1. Len(queue'[t]) = n
    BY <1>2, <1>3
  <2>2. Len(q) \in Nat
    BY <1>1
  <2> QED
    BY <2>1, <2>2
<1> QED
  BY <1>2, <1>4, <1>8, <1>9, <1>10

\* PostMessage
LEMMA WindowPut ==
    ASSUME WindowsOK, Finite, NEW t \in Threads, NEW m \in Msgs,
           wq' = [wq EXCEPT ![t] = Append(@, m)]
    PROVE  /\ WindowsOK'
           /\ \A x \in Msgs :
                /\ IsFiniteSet(QueuedTo(x, wq)')
                /\ Cardinality(QueuedTo(x, wq)') = Cardinality(QueuedTo(x, wq)) + OneIf(x = m)
<1> DEFINE n == Len(wq[t])
<1>1. wq[t] \in Seq(Msgs) /\ n \in Nat /\ DOMAIN wq[t] = 1 .. n
  BY DEF WindowsOK
<1>2. /\ Append(wq[t], m) \in Seq(Msgs) /\ Len(Append(wq[t], m)) = n + 1
      /\ \A i \in 1 .. n : Append(wq[t], m)[i] = wq[t][i]
      /\ Append(wq[t], m)[n + 1] = m
  BY <1>1, AppendProperties
<1>3. wq'[t] = Append(wq[t], m) /\ \A u \in Threads \ {t} : wq'[u] = wq[u]
  BY DEF WindowsOK
<1>4. WindowsOK'
  BY <1>2 DEF WindowsOK
<1>5. DOMAIN wq'[t] = 1 .. n + 1
  BY <1>2, <1>3, LenProperties
<1>6. ASSUME NEW x \in Msgs
      PROVE  /\ IsFiniteSet(QueuedTo(x, wq'))
             /\ Cardinality(QueuedTo(x, wq')) = Cardinality(QueuedTo(x, wq)) + OneIf(x = m)
  <2>1. IsFiniteSet(QueuedTo(x, wq))
    BY DEF Finite
  <2>2. (\A i \in 1 .. n : wq'[t][i] = wq[t][i]) /\ wq'[t][n + 1] = m
    BY <1>2, <1>3
  <2>3. Longer(wq, wq', t, n, m)
    BY <1>1, <1>3, <1>5, <2>2 DEF Longer
  <2> QED
    BY <2>1, <2>3, QueuedMore
<1>7. \A x : QueuedTo(x, wq)' = QueuedTo(x, wq')
  BY DEF QueuedTo
<1> QED
  BY <1>4, <1>6, <1>7

\* GetMessage
LEMMA WindowGet ==
    ASSUME WindowsOK, Finite, NEW t \in Threads, wq[t] # <<>>,
           wq' = [wq EXCEPT ![t] = Tail(@)]
    PROVE  /\ WindowsOK' /\ Head(wq[t]) \in Msgs
           /\ \A x \in Msgs :
                /\ IsFiniteSet(QueuedTo(x, wq)')
                /\ Cardinality(QueuedTo(x, wq)')
                     = Cardinality(QueuedTo(x, wq)) - OneIf(x = Head(wq[t]))
<1> DEFINE q == wq[t]
           n == Len(q) - 1
<1>1. q \in Seq(Msgs) /\ n \in Nat /\ Head(q) = q[1] /\ Len(q) = n + 1 /\ DOMAIN q = 1 .. n + 1
  BY EmptySeq DEF WindowsOK
<1>2. /\ Tail(q) \in Seq(Msgs) /\ Len(Tail(q)) = n /\ Head(q) \in Msgs
      /\ \A i \in 1 .. n : Tail(q)[i] = q[i + 1]
  BY <1>1, HeadTailProperties
<1>3. wq'[t] = Tail(q) /\ \A u \in Threads \ {t} : wq'[u] = wq[u]
  BY DEF WindowsOK
<1>4. WindowsOK'
  BY <1>2 DEF WindowsOK
<1>5. DOMAIN wq'[t] = 1 .. n /\ (\A i \in 1 .. n : wq'[t][i] = q[i + 1])
  BY <1>2, <1>3, LenProperties
<1>6. \A u \in Threads : DOMAIN wq[u] \subseteq Nat
  BY DEF WindowsOK
<1>7. ASSUME NEW x \in Msgs
      PROVE  /\ IsFiniteSet(QueuedTo(x, wq'))
             /\ Cardinality(QueuedTo(x, wq')) = Cardinality(QueuedTo(x, wq)) - OneIf(x = Head(q))
  <2>1. IsFiniteSet(QueuedTo(x, wq))
    BY DEF Finite
  <2>2. Shorter(wq, wq', t, n, Head(q))
    BY <1>1, <1>3, <1>5, <1>6 DEF Shorter
  <2> QED
    BY <2>1, <2>2, QueuedLess
<1>8. \A x : QueuedTo(x, wq)' = QueuedTo(x, wq')
  BY DEF QueuedTo
<1> QED
  BY <1>2, <1>4, <1>7, <1>8

\* A thread keeps a call handle, or frees one.
LEMMA KeepersMove ==
    ASSUME HandlesOK, Finite, NEW t \in Threads, NEW hs \in SUBSET Msgs,
           handles' = [handles EXCEPT ![t] = hs], NEW x \in Msgs
    PROVE  /\ HandlesOK' /\ IsFiniteSet(Keepers(x)')
           /\ Cardinality(Keepers(x)')
                = Cardinality(Keepers(x)) - OneIf(x \in handles[t]) + OneIf(x \in hs)
<1>1. handles'[t] = hs /\ \A u \in Threads \ {t} : handles'[u] = handles[u]
  BY DEF HandlesOK
<1>2. Keepers(x) \ {t} = Keepers(x)' \ {t}
  BY <1>1 DEF Keepers
<1>3. (t \in Keepers(x) <=> x \in handles[t]) /\ (t \in Keepers(x)' <=> x \in hs)
  BY <1>1 DEF Keepers
<1>4. HandlesOK'
  BY DEF HandlesOK
<1> QED
  BY <1>2, <1>3, <1>4, OnePoint DEF Finite, OneIf

LEMMA TypeParts ==
    TypeOK => StacksOK /\ QueuesOK /\ WindowsOK /\ HandlesOK
BY DEF TypeOK, StacksOK, QueuesOK, WindowsOK, HandlesOK, Entry

\* Frames of two kinds are no more than those of a kind that has both.
LEMMA PartsAdd ==
    ASSUME Finite, NEW x \in Msgs, NEW a \in SUBSET Pcs, NEW b \in SUBSET Pcs,
           NEW c \in SUBSET Pcs, a \cap b = {}, a \cup b \subseteq c
    PROVE  Cardinality(FramesOf(x, a)) + Cardinality(FramesOf(x, b))
             <= Cardinality(FramesOf(x, c))
<1> DEFINE A == FramesOf(x, a)
           B == FramesOf(x, b)
           C == FramesOf(x, c)
<1>1. IsFiniteSet(A) /\ IsFiniteSet(B) /\ IsFiniteSet(C)
  BY FinitePart
<1>2. A \cap B = {} /\ A \cup B \subseteq C
  BY DEF FramesOf
<1> HIDE DEF A, B, C
<1>3. Cardinality(A \cup B) = Cardinality(A) + Cardinality(B) - Cardinality(A \cap B)
  BY <1>1, FS_Union
<1>4. Cardinality(A \cap B) = 0
  BY <1>2, FS_EmptySet
<1>5. Cardinality(A \cup B) <= Cardinality(C)
  BY <1>1, <1>2, FS_Subset
<1>6. Cardinality(A) \in Nat /\ Cardinality(B) \in Nat
  BY <1>1, FS_CardinalityType
<1>7. Cardinality(A) + Cardinality(B) <= Cardinality(C)
  BY <1>3, <1>4, <1>5, <1>6
<1> QED
  BY <1>7 DEF A, B, C

LEMMA UsesBounds ==
    ASSUME Finite, NEW x \in Msgs
    PROVE  /\ Uses(x) \in UsesType
           /\ Uses(x).count + Uses(x).done <= Uses(x).calls
           /\ Uses(x).publisher <= Uses(x).calls
<1>1. Uses(x) \in UsesType
  BY UsesTyped
<1>2. Cardinality(FramesOf(x, {"count"})) + Cardinality(FramesOf(x, {"sent"}))
        <= Cardinality(FramesOf(x, CallPcs))
  <2>1. {"count"} \cap {"sent"} = {} /\ {"count"} \cup {"sent"} \subseteq CallPcs
    BY DEF CallPcs
  <2> QED
    BY <2>1, PcsParts, PartsAdd
<1>3. Cardinality(FramesOf(x, {})) + Cardinality(FramesOf(x, PublisherPcs))
        <= Cardinality(FramesOf(x, CallPcs))
  <2>1. {} \cup PublisherPcs \subseteq CallPcs
    BY DEF CallPcs, PublisherPcs
  <2> QED
    BY <2>1, PcsParts, PartsAdd
<1>4. Cardinality(FramesOf(x, {})) = 0
  BY FS_EmptySet DEF FramesOf
<1> QED
  BY <1>1, <1>2, <1>3, <1>4 DEF Uses, UsesType, OwnWindowDone, Publisher

\* How the frames' part of the ledger moves.
LEMMA ShiftUses ==
    ASSUME StacksOK, Finite, NEW t \in Threads, NEW k, NEW f, NEW g, Shifts(t, k, f, g),
           NEW x \in Msgs
    PROVE  /\ IsFiniteSet(FramesOf(x, Pcs)')
           /\ Uses(x)'.running = Uses(x).running - Hits(f, x, RecipientPcs) + Hits(g, x, RecipientPcs)
           /\ Uses(x)'.own = Uses(x).own - Hits(f, x, {"window"}) + Hits(g, x, {"window"})
           /\ Uses(x)'.done = Uses(x).done - Hits(f, x, {"sent"}) + Hits(g, x, {"sent"})
           /\ Uses(x)'.calls = Uses(x).calls - Hits(f, x, CallPcs) + Hits(g, x, CallPcs)
           /\ Uses(x)'.handles = Uses(x).handles - HitsCall(f, x) + HitsCall(g, x)
           /\ Uses(x)'.publisher
                = Uses(x).publisher - Hits(f, x, PublisherPcs) + Hits(g, x, PublisherPcs)
           /\ Uses(x)'.handler = Uses(x).handler - Hits(f, x, {"handler"}) + Hits(g, x, {"handler"})
           /\ Uses(x)'.count = Uses(x).count - Hits(f, x, {"count"}) + Hits(g, x, {"count"})
<1>1. \A pcs \in SUBSET Pcs :
        /\ IsFiniteSet(FramesOf(x, pcs)')
        /\ Cardinality(FramesOf(x, pcs)')
             = Cardinality(FramesOf(x, pcs)) - Hits(f, x, pcs) + Hits(g, x, pcs)
  BY ShiftCounts
<1>2. Cardinality(CallFrames(x)') = Cardinality(CallFrames(x)) - HitsCall(f, x) + HitsCall(g, x)
  BY ShiftCallCounts
<1>3. /\ Uses(x)'.running = Cardinality(FramesOf(x, RecipientPcs)')
      /\ Uses(x)'.own = Cardinality(FramesOf(x, {"window"})')
      /\ Uses(x)'.done = Cardinality(FramesOf(x, {"sent"})')
      /\ Uses(x)'.calls = Cardinality(FramesOf(x, CallPcs)')
      /\ Uses(x)'.handles = Cardinality(CallFrames(x)')
      /\ Uses(x)'.publisher = Cardinality(FramesOf(x, PublisherPcs)')
      /\ Uses(x)'.handler = Cardinality(FramesOf(x, {"handler"})')
      /\ Uses(x)'.count = Cardinality(FramesOf(x, {"count"})')
  BY DEF Uses, OwnWindow, OwnWindowDone, Publisher
<1>4. /\ Uses(x).running = Cardinality(FramesOf(x, RecipientPcs))
      /\ Uses(x).own = Cardinality(FramesOf(x, {"window"}))
      /\ Uses(x).done = Cardinality(FramesOf(x, {"sent"}))
      /\ Uses(x).calls = Cardinality(FramesOf(x, CallPcs))
      /\ Uses(x).handles = Cardinality(CallFrames(x))
      /\ Uses(x).publisher = Cardinality(FramesOf(x, PublisherPcs))
      /\ Uses(x).handler = Cardinality(FramesOf(x, {"handler"}))
      /\ Uses(x).count = Cardinality(FramesOf(x, {"count"}))
  BY DEF Uses, OwnWindow, OwnWindowDone, Publisher
<1> HIDE DEF Uses
<1> QED
  BY <1>1, <1>2, <1>3, <1>4, PcsParts

\* The queues' part, when the queues, or the handles, stay as they are.
LEMMA QueuesStay ==
    ASSUME Finite, UNCHANGED queue, NEW x \in Msgs
    PROVE  Uses(x)'.queued = Uses(x).queued /\ IsFiniteSet(QueuedTo(x, Queues)')
<1>1. QueuedTo(x, Queues)' = QueuedTo(x, Queues)
  BY DEF QueuedTo, Queues
<1> QED
  BY <1>1 DEF Uses, Finite

LEMMA WindowsStay ==
    ASSUME Finite, UNCHANGED wq, NEW x \in Msgs
    PROVE  Uses(x)'.windows = Uses(x).windows /\ IsFiniteSet(QueuedTo(x, wq)')
<1>1. QueuedTo(x, wq)' = QueuedTo(x, wq)
  BY DEF QueuedTo
<1> QED
  BY <1>1 DEF Uses, Finite

LEMMA KeepersStay ==
    ASSUME Finite, UNCHANGED handles, NEW x \in Msgs
    PROVE  Uses(x)'.keepers = Uses(x).keepers /\ IsFiniteSet(Keepers(x)')
<1>1. Keepers(x)' = Keepers(x)
  BY DEF Keepers
<1> QED
  BY <1>1 DEF Uses, Finite

\* A message that the step is not about.
LEMMA UsesOther ==
    ASSUME StacksOK, Finite, NEW t \in Threads, NEW k, NEW f, NEW g, Shifts(t, k, f, g),
           NEW x \in Msgs, f.m # x, g.m # x,
           Uses(x)'.queued = Uses(x).queued, Uses(x)'.windows = Uses(x).windows,
           Uses(x)'.keepers = Uses(x).keepers
    PROVE  Uses(x)' = Uses(x)
<1>1. \A pcs : Hits(f, x, pcs) = 0 /\ Hits(g, x, pcs) = 0
  BY DEF Hits, OneIf
<1>2. HitsCall(f, x) = 0 /\ HitsCall(g, x) = 0
  BY DEF HitsCall, OneIf
<1>3. /\ Uses(x)'.running = Uses(x).running - 0 + 0 /\ Uses(x)'.own = Uses(x).own - 0 + 0
      /\ Uses(x)'.done = Uses(x).done - 0 + 0 /\ Uses(x)'.calls = Uses(x).calls - 0 + 0
      /\ Uses(x)'.handles = Uses(x).handles - 0 + 0
      /\ Uses(x)'.publisher = Uses(x).publisher - 0 + 0
      /\ Uses(x)'.handler = Uses(x).handler - 0 + 0 /\ Uses(x)'.count = Uses(x).count - 0 + 0
  BY <1>1, <1>2, ShiftUses
<1>4. Uses(x) \in UsesType
  BY UsesTyped
<1>5. \A a, b : Uses(x)' = a /\ Uses(x) = b =>
        a = [queued |-> a.queued, windows |-> a.windows, running |-> a.running, own |-> a.own,
             done |-> a.done, calls |-> a.calls, handles |-> a.handles, keepers |-> a.keepers,
             publisher |-> a.publisher, handler |-> a.handler, count |-> a.count]
  BY DEF Uses
<1>6. Uses(x) =
        [queued |-> Uses(x).queued, windows |-> Uses(x).windows, running |-> Uses(x).running,
         own |-> Uses(x).own, done |-> Uses(x).done, calls |-> Uses(x).calls,
         handles |-> Uses(x).handles, keepers |-> Uses(x).keepers,
         publisher |-> Uses(x).publisher, handler |-> Uses(x).handler, count |-> Uses(x).count]
  BY DEF Uses
<1> HIDE DEF Uses
<1> QED
  BY <1>3, <1>4, <1>5, <1>6 DEF UsesType

LEMMA LedgerStep ==
    ASSUME Ledger, NEW m \in Msgs, Balanced(msg'[m], Uses(m)'),
           \A x \in Msgs \ {m} : msg'[x] = msg[x] /\ Uses(x)' = Uses(x)
    PROVE  Ledger'
<1> SUFFICES ASSUME NEW x \in Msgs PROVE Balanced(msg'[x], Uses(x)')
  BY DEF Ledger, Balanced, UsedBy
<1> HIDE DEF Balanced, Uses
<1> QED
  BY DEF Ledger

-----------------------------------------------------------------------------
(* What every step has to show.                                             *)

\* IInv, with the ledger in the place of the properties that it states.
Inv == /\ TypeOK /\ StackShape /\ QueuesShape /\ PublishLock /\ TypesHeld /\ Finite
       /\ Ledger /\ XferExact

LEMMA InvIs == Inv <=> IInv
<1>1. TypeOK => StacksOK
  BY TypeParts
<1> QED
  BY <1>1, LedgerIs DEF Inv, IInv

\* A frame of x that is there is counted.
LEMMA Present ==
    ASSUME StacksOK, Finite, NEW t \in Threads, NEW k, NEW f, NEW g, Shifts(t, k, f, g),
           NEW pcs \in SUBSET Pcs, f.m \in Msgs, f.pc \in pcs
    PROVE  Cardinality(FramesOf(f.m, pcs)) >= 1
<1>1. <<t, k>> \in FramesOf(f.m, pcs)
  <2>1. f.m # NoMsg
    BY CallAssumption
  <2> QED
    BY <2>1, InFramesOf DEF Shifts, FrameIs, NoFrame, Frame
<1>2. IsFiniteSet(FramesOf(f.m, pcs))
  BY FinitePart
<1>3. Cardinality(FramesOf(f.m, pcs)) # 0 /\ Cardinality(FramesOf(f.m, pcs)) \in Nat
  BY <1>1, <1>2, FS_EmptySet, FS_CardinalityType
<1> QED
  BY <1>3

\* A quit message that is not counted yet has no other call.
LEMMA CountAlone ==
    ASSUME StacksOK, Finite, Ledger, NEW t \in Threads, NEW k, NEW f, NEW g,
           Shifts(t, k, f, g), f.m \in Msgs, f.pc \in CallPcs \ {"count"}
    PROVE  Uses(f.m).count = 0 /\ Uses(f.m).calls = 1 /\ Uses(f.m).keepers = 0
<1> DEFINE a == {"count"}
           b == CallPcs \ {"count"}
<1>1. b \in SUBSET Pcs /\ a \cap b = {} /\ a \cup b \subseteq CallPcs
  BY DEF CallPcs, Pcs
<1> HIDE DEF b
<1>2. Cardinality(FramesOf(f.m, b)) >= 1
  BY <1>1, Present DEF b
<1>3. Cardinality(FramesOf(f.m, a)) + Cardinality(FramesOf(f.m, b))
        <= Cardinality(FramesOf(f.m, CallPcs))
  BY <1>1, PcsParts, PartsAdd
<1>4. Cardinality(FramesOf(f.m, b)) \in Nat /\ Cardinality(FramesOf(f.m, a)) \in Nat
  BY <1>1, PcsParts, FinitePart, FS_CardinalityType
<1>5. /\ Uses(f.m).count = Cardinality(FramesOf(f.m, a))
      /\ Uses(f.m).calls = Cardinality(FramesOf(f.m, CallPcs))
  BY DEF Uses
<1>6. Uses(f.m).calls + Uses(f.m).keepers <= 1 /\ Uses(f.m) \in UsesType
  BY UsesTyped DEF Ledger, Balanced
<1> HIDE DEF a, Uses
<1> QED
  BY <1>2, <1>3, <1>4, <1>5, <1>6 DEF UsesType

LEMMA FiniteStep ==
    ASSUME StacksOK, Finite, NEW t \in Threads, NEW k, NEW f, NEW g, Shifts(t, k, f, g),
           \A x \in Msgs : /\ IsFiniteSet(QueuedTo(x, Queues)') /\ IsFiniteSet(QueuedTo(x, wq)')
                           /\ IsFiniteSet(Keepers(x)')
    PROVE  Finite'
<1>1. \A x \in Msgs : IsFiniteSet(FramesOf(x, Pcs)')
  BY ShiftUses
<1> QED
  BY <1>1 DEF Finite

\* While nobody posts, the only calls that have no call handle are quit messages
\* on their way to the queue.
LEMMA CallsLeft ==
    StacksOK /\ StackShape /\ PublishLock /\ Finite /\ cs_msg = NoThread =>
      \A x \in Msgs :
        Uses(x).handles = 0 /\ Uses(x).running = 0 /\ Uses(x).count = 0 => Uses(x).calls = 0
<1> SUFFICES ASSUME StacksOK, StackShape, PublishLock, Finite, cs_msg = NoThread, NEW x \in Msgs,
                    Uses(x).handles = 0, Uses(x).running = 0, Uses(x).count = 0
             PROVE  Uses(x).calls = 0
  OBVIOUS
<1>1. \A pcs \in SUBSET Pcs : Cardinality(FramesOf(x, pcs)) = 0 <=> FramesOf(x, pcs) = {}
  BY FinitePart, FS_EmptySet
<1>2. FramesOf(x, RecipientPcs) = {} /\ FramesOf(x, {"count"}) = {} /\ CallFrames(x) = {}
  BY <1>1, PcsParts, CallFramesFinite, FS_EmptySet DEF Uses
<1>3. ASSUME NEW p \in FramesOf(x, CallPcs) PROVE FALSE
  <2>1. PICK t, i : /\ t \in Threads /\ i \in DOMAIN stack[t] /\ p = <<t, i>>
                    /\ stack[t][i].m = x /\ stack[t][i].pc \in CallPcs
    BY <1>3, InFramesOf
  <2>2. stack[t][i].pc \notin {"publish", "put"}
    BY <2>1, CallAssumption DEF PublishLock
  <2>3. stack[t][i].pc \notin {"count", "counted"}
    BY <1>2, <2>1, InFramesOf DEF RecipientPcs
  <2>4. ~HasCall(stack[t][i].api)
    <3> HIDE DEF CallPcs, HasCall
    <3> QED
      BY <1>2, <2>1, InCallFrames
  <2>5. FrameOK(t, i, stack[t][i])
    BY <2>1 DEF StackShape
  <2> QED
    BY <2>1, <2>2, <2>3, <2>4, <2>5 DEF FrameOK, CallPcs, HasCall, TrySend, Waits
<1>4. Cardinality(FramesOf(x, CallPcs)) = 0
  BY <1>1, <1>3, PcsParts
<1> QED
  BY <1>4 DEF Uses

LEMMA CallsLeftNext ==
    (StacksOK /\ StackShape /\ PublishLock /\ Finite /\ cs_msg = NoThread =>
      \A x \in Msgs :
        Uses(x).handles = 0 /\ Uses(x).running = 0 /\ Uses(x).count = 0 => Uses(x).calls = 0)'
BY CallsLeft, PTL

\* A thread enters cs_kmq_msg to post, and leaves it when it does not.
LEMMA PublishLockStep ==
    ASSUME StacksOK, PublishLock, NEW t \in Threads, NEW k, NEW f, NEW g, Shifts(t, k, f, g),
           \/ cs_msg' = cs_msg
           \/ cs_msg \in {t, NoThread},
           g.pc \in {"publish", "put"} => cs_msg' = t
    PROVE  PublishLock'
<1> SUFFICES ASSUME NEW u \in Threads, NEW i \in DOMAIN stack'[u],
                    stack'[u][i].pc \in {"publish", "put"}
             PROVE  cs_msg' = u
  BY DEF PublishLock
<1>1. CASE u = t
  <2>1. i = k
    BY <1>1 DEF Shifts, UserCode
  <2> QED
    BY <1>1, <2>1 DEF Shifts, FrameIs
<1>2. CASE u # t
  <2>1. cs_msg = u
    BY <1>2 DEF Shifts, StackStep, PublishLock
  <2> QED
    BY <1>2, <2>1, CallAssumption
<1> QED
  BY <1>1, <1>2

\* The queues as they were.
LEMMA QueuesShapeStep ==
    ASSUME StacksOK, QueuesShape, NEW t \in Threads, NEW k, NEW f, NEW g, Shifts(t, k, f, g),
           UNCHANGED <<queue, wait_o, deleted>>, wq'[Compl] = <<>>,
           g.pc # "woken", k \in DOMAIN stack'[t] => (deleted[t] <=> g.pc \in {"drain", "drained"}),
           deleted[t] => Len(stack'[t]) <= 1 /\ k = 1
    PROVE  QueuesShape'
<1>1. ASSUME NEW u \in Threads, NEW i \in DOMAIN stack'[u]
      PROVE  /\ stack'[u][i].pc = "woken" =>
                  queue[u] # <<>> /\ (wait_o[u] = "set" => Len(queue[u]) > 1)
             /\ deleted[u] <=> stack'[u][i].pc \in {"drain", "drained"}
  <2>1. CASE u # t
    BY <2>1, SMTT(60) DEF Shifts, StackStep, QueuesShape
  <2>2. CASE u = t /\ i = k
    BY <2>2 DEF Shifts, FrameIs
  <2>3. CASE u = t /\ i # k
    <3>1. stack'[u][i].pc \in UserCode /\ stack'[t] \in Seq(FrameType)
      BY <2>3 DEF Shifts, StackStep
    <3>2. deleted[u] => FALSE
      <4>1. i \in 1 .. Len(stack'[t]) /\ Len(stack'[t]) \in Nat
        BY <2>3, <3>1, LenProperties
      <4> QED
        BY <2>3, <4>1
    <3> QED
      BY <3>1, <3>2 DEF UserCode
  <2> QED
    BY <2>1, <2>2, <2>3
<1> QED
  BY <1>1, CallAssumption DEF QueuesShape

\* The other frames of a thread are user code, and it is not deleted.
LEMMA NotDeleted ==
    ASSUME StacksOK, QueuesShape, NEW t \in Threads, stack[t] # <<>>,
           Top(t).pc \notin {"drain", "drained"}
    PROVE  ~deleted[t]
<1>1. Len(stack[t]) \in DOMAIN stack[t] /\ Top(t) = stack[t][Len(stack[t])]
  BY EmptySeq DEF StacksOK, Top, Last
<1> QED
  BY <1>1 DEF QueuesShape

InTypes(f) == f.pc \in {"publish", "put", "handler"} /\ HoldsTypes(f.api)

LEMMA TypesStep ==
    ASSUME StacksOK, TypesHeld, types \in [owner : Threads \cup {NoThread}, depth : Nat],
           NEW t \in Threads, NEW k, NEW f, NEW g, Shifts(t, k, f, g),
           \/ UNCHANGED types /\ (InTypes(g) => InTypes(f))
           \/ EnterTypes(t) /\ TypesFree(t)
           \/ EnterTypes(t) /\ InTypes(f)
           \/ LeaveTypes /\ InTypes(f) /\ ~InTypes(g)
    PROVE  TypesHeld' /\ types' \in [owner : Threads \cup {NoThread}, depth : Nat]
<1> DEFINE X == TypesFrames(t)
           Y == TypesFrames(t)'
<1>1. ~InTypes(NoFrame)
  BY DEF InTypes, NoFrame, Frame
<1>2. (k \in X <=> InTypes(f)) /\ (k \in Y <=> InTypes(g))
  BY <1>1 DEF Shifts, FrameIs, TypesFrames, InTypes
<1>3. X \ {k} = Y \ {k}
  <2>1. \A i \in Nat \ {k} : /\ i \in DOMAIN stack'[t] <=> i \in DOMAIN stack[t]
                             /\ i \in DOMAIN stack[t] => SameFrame(stack'[t][i], stack[t][i])
    BY DEF Shifts, StackStep
  <2>2. DOMAIN stack[t] \subseteq Nat /\ DOMAIN stack'[t] \subseteq Nat
    BY DEF StacksOK, Shifts, StackStep
  <2> QED
    BY <2>1, <2>2 DEF TypesFrames, SameFrame
<1>4. IsFiniteSet(X)
  <2>1. X \subseteq 1 .. Len(stack[t])
    BY DEF TypesFrames, StacksOK
  <2>2. Len(stack[t]) \in Int /\ 1 \in Int
    BY DEF StacksOK
  <2>3. IsFiniteSet(1 .. Len(stack[t]))
    BY <2>2, FS_Interval
  <2> QED
    BY <2>1, <2>3, FS_Subset
<1>5. \A u \in Threads \ {t} : TypesFrames(u)' = TypesFrames(u)
  BY DEF TypesFrames, Shifts, StackStep
<1> HIDE DEF X, Y
<1>6. /\ Cardinality(X) \in Nat /\ Cardinality(Y) \in Nat /\ IsFiniteSet(Y)
      /\ Cardinality(Y) = Cardinality(X) - OneIf(InTypes(f)) + OneIf(InTypes(g))
  BY <1>2, <1>3, <1>4, OnePoint DEF OneIf
<1>7. (Cardinality(X) = 0 <=> X = {}) /\ (Cardinality(Y) = 0 <=> Y = {})
  BY <1>4, <1>6, FS_EmptySet
<1>8. X # {} => types.owner = t /\ types.depth >= Cardinality(X)
  BY DEF TypesHeld, X
<1>9. \A u \in Threads : TypesFrames(u) # {} => types.owner = u /\ types.depth >= Cardinality(TypesFrames(u))
  BY DEF TypesHeld
<1>10. types.depth = 0 <=> types.owner = NoThread
  BY DEF TypesHeld
<1>11. SUFFICES
         /\ types' \in [owner : Threads \cup {NoThread}, depth : Nat]
         /\ types'.depth = 0 <=> types'.owner = NoThread
         /\ Y # {} => types'.owner = t /\ types'.depth >= Cardinality(Y)
         /\ types' = types \/ \A u \in Threads \ {t} : TypesFrames(u) = {}
  BY <1>5, <1>9 DEF TypesHeld, Y
<1>12. NoThread \notin Threads
  BY CallAssumption
<1>13. InTypes(f) => types.owner = t /\ types.depth >= 1
  BY <1>2, <1>6, <1>7, <1>8
<1>14. types.owner \in {NoThread, t} => \A u \in Threads \ {t} : TypesFrames(u) = {}
  BY <1>9, <1>12
<1>15. CASE UNCHANGED types /\ (InTypes(g) => InTypes(f))
  BY <1>15, <1>6, <1>7, <1>8, <1>10 DEF OneIf
<1>16. CASE EnterTypes(t) /\ (TypesFree(t) \/ InTypes(f))
  <2>1. types' = [owner |-> t, depth |-> types.depth + 1] /\ types.owner \in {NoThread, t}
    BY <1>13, <1>16 DEF EnterTypes, TypesFree
  <2>2. types.depth + 1 >= Cardinality(Y)
    BY <1>6, <1>7, <1>8 DEF OneIf
  <2> QED
    BY <1>12, <1>14, <2>1, <2>2
<1>17. CASE LeaveTypes /\ InTypes(f) /\ ~InTypes(g)
  <2>1. types.owner = t /\ types.depth >= 1 /\ types.depth \in Nat
    BY <1>13, <1>17
  <2>2. Cardinality(Y) = Cardinality(X) - 1 /\ X # {}
    BY <1>2, <1>6, <1>17 DEF OneIf
  <2>3. CASE types.depth = 1
    <3>1. types' = [owner |-> NoThread, depth |-> 0]
      BY <1>17, <2>3 DEF LeaveTypes, NoLock
    <3>2. Y = {}
      BY <1>6, <1>7, <1>8, <2>2, <2>3
    <3> QED
      BY <1>14, <2>1, <3>1, <3>2
  <2>4. CASE types.depth # 1
    <3>1. types' = [types EXCEPT !.depth = types.depth - 1]
      BY <1>17, <2>4 DEF LeaveTypes
    <3>2. types'.owner = t /\ types'.depth = types.depth - 1
      BY <2>1, <3>1
    <3>3. types' \in [owner : Threads \cup {NoThread}, depth : Nat]
      BY <2>1, <2>4, <3>1
    <3>4. types.depth - 1 >= Cardinality(Y) /\ types.depth - 1 # 0
      BY <1>6, <1>8, <2>1, <2>2, <2>4
    <3> QED
      BY <1>12, <1>14, <2>1, <3>2, <3>3, <3>4
  <2> QED
    BY <2>3, <2>4
<1> QED
  BY <1>15, <1>16, <1>17

-----------------------------------------------------------------------------
(* kmqint_put_message                                                       *)

MsgsOK == msg \in [Msgs -> MessageType]
XferOK == xfer \in Seq(Msgs)

\* The message stays with those who still use it.
Kept(t, m, r, rest) ==
    /\ r.refcount # 0 \/ ~AllDone(r)
    /\ \E e \in {"none", "clear", "set"} : msg' = [msg EXCEPT ![m] = [r EXCEPT !.event = e]]
    /\ stack' = [stack EXCEPT ![t] = rest]
    /\ UNCHANGED xfer

\* Nobody uses it any more: it goes to the completion thread, or is free.
Gone(t, m, r, rest) == PutTransfer(t, m, r, rest) \/ PutFree(t, m, r, rest)

LEMMA KeptIs ==
    ASSUME NEW t, NEW m, NEW r \in MessageType, NEW rest, stack' = [stack EXCEPT ![t] = rest],
           xfer' = xfer, r.refcount # 0 \/ ~AllDone(r), NEW e \in {"none", "clear", "set"},
           msg' = [msg EXCEPT ![m] = [r EXCEPT !.event = e]]
    PROVE  Kept(t, m, r, rest)
BY DEF Kept

LEMMA PlainKept ==
    ASSUME NEW t, NEW m, NEW r \in MessageType, NEW rest, stack' = [stack EXCEPT ![t] = rest],
           xfer' = xfer, r.refcount # 0 \/ ~AllDone(r), msg' = [msg EXCEPT ![m] = r]
    PROVE  Kept(t, m, r, rest)
<1>1. r = [r EXCEPT !.event = r.event] /\ r.event \in {"none", "clear", "set"}
  BY DEF MessageType
<1> QED
  BY <1>1, KeptIs

LEMMA PutCases ==
    ASSUME NEW t, NEW m, NEW r \in MessageType, NEW rest, NEW api, PutMessage(t, m, r, rest, api)
    PROVE  Kept(t, m, r, rest) \/ Gone(t, m, r, rest) \/ PutHandle(t, m, r, rest, api)
<1>1. ASSUME PutSignal(t, m, r, rest) PROVE Kept(t, m, r, rest)
  <2> DEFINE e == IF r.event = "none" THEN "none" ELSE "set"
  <2>1. e \in {"none", "clear", "set"}
    OBVIOUS
  <2>2. msg' = [msg EXCEPT ![m] = [r EXCEPT !.event = e]]
    BY <1>1 DEF PutSignal
  <2> HIDE DEF e
  <2> QED
    BY <1>1, <2>1, <2>2, KeptIs DEF PutSignal
<1> QED
  BY <1>1 DEF PutMessage, Gone

LEMMA SettleCases ==
    ASSUME NEW t, NEW m, NEW r \in MessageType, NEW rest, NEW api, Settle(t, m, r, rest, api)
    PROVE  Kept(t, m, r, rest) \/ Gone(t, m, r, rest) \/ PutHandle(t, m, r, rest, api)
BY PutCases, PlainKept DEF Settle

LEMMA FreeCallCases ==
    ASSUME NEW t, NEW m, NEW rest, FreeCall(t, m, rest),
           [msg[m] EXCEPT !.refcount = msg[m].refcount - 1] \in MessageType
    PROVE  /\ cs_msg = NoThread
           /\ UNCHANGED <<queue, wait_o, deleted, last_msg, wq, cs_msg, types>>
           /\ LET r == [msg[m] EXCEPT !.refcount = msg[m].refcount - 1] IN
              Kept(t, m, r, rest) \/ Gone(t, m, r, rest) \/ PutHandle(t, m, r, rest, "none")
<1> DEFINE r == [msg[m] EXCEPT !.refcount = msg[m].refcount - 1]
<1>1. r \in MessageType
  OBVIOUS
<1>2. IF r.refcount = 0
      THEN PutMessage(t, m, r, rest, "none")
      ELSE /\ msg' = [msg EXCEPT ![m] = r]
           /\ stack' = [stack EXCEPT ![t] = rest]
           /\ UNCHANGED xfer
  BY DEF FreeCall
<1> HIDE DEF r
<1>3. Kept(t, m, r, rest) \/ Gone(t, m, r, rest) \/ PutHandle(t, m, r, rest, "none")
  BY <1>1, <1>2, PutCases, PlainKept
<1> QED
  BY <1>3 DEF FreeCall, r

\* What Balanced says of a message r that is in use and past being counted.
Open(r, u) ==
    /\ r.state = "active"
    /\ r.refcount = UsedBy(u) + 2 * u.own + u.done + u.handles + u.keepers
    /\ r.nSent + u.done = r.nCompleted + r.nFailed + UsedBy(u)
    /\ u.calls + u.keepers <= 1
    /\ u.count = 0

LEMMA XferStay ==
    ASSUME MsgsOK, XferExact, UNCHANGED xfer, NEW m \in Msgs, NEW r, msg' = [msg EXCEPT ![m] = r],
           r.state = "xfer" <=> msg[m].state = "xfer"
    PROVE  XferExact'
<1>1. \A x \in Msgs : msg'[x].state = "xfer" <=> msg[x].state = "xfer"
  BY DEF MsgsOK
<1> QED
  BY <1>1 DEF XferExact

\* The same of the state after a step.
LEMMA Bounds ==
    Finite => \A x \in Msgs : /\ Uses(x) \in UsesType
                              /\ Uses(x).count + Uses(x).done <= Uses(x).calls
                              /\ Uses(x).publisher <= Uses(x).calls
BY UsesBounds

LEMMA BoundsNext ==
    (Finite => \A x \in Msgs : /\ Uses(x) \in UsesType
                               /\ Uses(x).count + Uses(x).done <= Uses(x).calls
                               /\ Uses(x).publisher <= Uses(x).calls)'
BY Bounds, PTL

LEMMA ZeroSum ==
    ASSUME NEW a \in Nat, NEW b \in Nat, NEW c \in Nat, NEW d \in Nat, NEW e \in Nat,
           a + 2 * b + c + d + e = 0
    PROVE  a = 0 /\ b = 0 /\ c = 0 /\ d = 0 /\ e = 0
OBVIOUS

LEMMA PutStep ==
    ASSUME MsgsOK, XferOK, XferExact, Ledger,
           StacksOK', StackShape', PublishLock', Finite', cs_msg' = NoThread,
           NEW t \in Threads, NEW m \in Msgs, NEW r \in MessageType, NEW rest, NEW api,
           msg[m].state = "active", Open(r, Uses(m)'),
           \A x \in Msgs \ {m} : Uses(x)' = Uses(x),
           \/ Kept(t, m, r, rest) /\ Uses(m)'.handler = 0
           \/ Gone(t, m, r, rest) /\ Uses(m)'.handler = 0
           \/ PutHandle(t, m, r, rest, api) /\ Uses(m)'.handler = 1
    PROVE  MsgsOK' /\ XferOK' /\ XferExact' /\ Ledger'
<1>1. /\ Uses(m)' \in UsesType
      /\ Uses(m)'.publisher <= Uses(m)'.calls
      /\ Uses(m)'.handles = 0 /\ Uses(m)'.running = 0 /\ Uses(m)'.count = 0 => Uses(m)'.calls = 0
  BY BoundsNext, CallsLeftNext
<1> DEFINE v == Uses(m)'
           u == UsedBy(v)
<1>2. Open(r, v) /\ v \in UsesType
  BY <1>1
<1>3. v.publisher <= v.calls /\ (v.handles = 0 /\ v.running = 0 /\ v.count = 0 => v.calls = 0)
  BY <1>1
<1> HIDE DEF v
<1>4. /\ v.queued \in Nat /\ v.windows \in Nat /\ v.running \in Nat /\ v.own \in Nat
      /\ v.done \in Nat /\ v.calls \in Nat /\ v.handles \in Nat /\ v.keepers \in Nat
      /\ v.publisher \in Nat /\ v.count \in Nat
  BY <1>2 DEF UsesType
<1>5. u \in Nat /\ (u = 0 => v.queued = 0 /\ v.windows = 0 /\ v.running = 0)
  BY <1>4 DEF UsedBy
<1>6. r.refcount = u + 2 * v.own + v.done + v.handles + v.keepers /\ v.count = 0
  BY <1>2 DEF Open
<1> HIDE DEF u
<1>7. ASSUME r.refcount = 0
      PROVE  /\ v.queued = 0 /\ v.windows = 0 /\ v.running = 0 /\ v.own = 0 /\ v.done = 0
             /\ v.calls = 0 /\ v.handles = 0 /\ v.keepers = 0 /\ v.publisher = 0
  <2>1. u = 0 /\ v.own = 0 /\ v.done = 0 /\ v.handles = 0 /\ v.keepers = 0
    <3> DEFINE a == v.own
               b == v.done
               c == v.handles
               d == v.keepers
    <3>1. u \in Nat /\ a \in Nat /\ b \in Nat /\ c \in Nat /\ d \in Nat
      BY <1>4, <1>5
    <3>2. r.refcount = u + 2 * a + b + c + d
      BY <1>6
    <3> HIDE DEF a, b, c, d
    <3>3. u + 2 * a + b + c + d = 0
      BY <1>7, <3>2
    <3>4. u = 0 /\ a = 0 /\ b = 0 /\ c = 0 /\ d = 0
      BY <3>1, <3>3, ZeroSum
    <3> QED
      BY <3>4 DEF a, b, c, d
  <2>2. v.calls = 0
    BY <1>3, <1>5, <1>6, <2>1
  <2> QED
    BY <1>3, <1>4, <1>5, <2>1, <2>2
<1>8. /\ FreeMessage \in MessageType /\ FreeMessage.state = "free"
      /\ [r EXCEPT !.state = "xfer"] \in MessageType
      /\ [r EXCEPT !.state = "completing"] \in MessageType
      /\ [r EXCEPT !.state = "xfer"].state = "xfer"
      /\ [r EXCEPT !.state = "completing"].state = "completing"
      /\ \A e \in {"none", "clear", "set"} : [r EXCEPT !.event = e] \in MessageType
  BY DEF FreeMessage, MessageType
<1>9. ASSUME r.refcount = 0, NEW s, s.state # "active",
             v.handler = IF s.state = "completing" THEN 1 ELSE 0
      PROVE  Balanced(s, v)
  <2>1. v.calls + v.keepers <= 1 /\ ~(v.count > 0)
    BY <1>6, <1>7, <1>9
  <2> QED
    BY <1>7, <1>9, <2>1 DEF Balanced
<1>10. /\ msg'[m] \in MessageType
      /\ msg' = [msg EXCEPT ![m] = msg'[m]]
      /\ Balanced(msg'[m], v)
      /\ XferOK' /\ XferExact'
  <2>1. CASE Kept(t, m, r, rest) /\ v.handler = 0
    <3>1. PICK e \in {"none", "clear", "set"} : msg' = [msg EXCEPT ![m] = [r EXCEPT !.event = e]]
      BY <2>1 DEF Kept
    <3>2. msg'[m] = [r EXCEPT !.event = e]
      BY <3>1 DEF MsgsOK
    <3>3. /\ msg'[m].state = "active" /\ msg'[m].refcount = r.refcount /\ msg'[m].nSent = r.nSent
          /\ msg'[m].nCompleted = r.nCompleted /\ msg'[m].nFailed = r.nFailed
      BY <1>2, <3>2 DEF Open, MessageType
    <3>4. Balanced(msg'[m], v)
      BY <1>2, <2>1, <3>3 DEF Balanced, Open
    <3>5. XferOK' /\ XferExact'
      BY <2>1, <3>1, <3>2, <3>3, XferStay DEF Kept, XferOK
    <3> QED
      BY <1>8, <3>1, <3>2, <3>4, <3>5
  <2>2. CASE PutTransfer(t, m, r, rest) /\ v.handler = 0
    <3>1. msg' = [msg EXCEPT ![m] = [r EXCEPT !.state = "xfer"]] /\ xfer' = Append(xfer, m)
      BY <2>2 DEF PutTransfer
    <3>2. msg'[m] = [r EXCEPT !.state = "xfer"] /\ \A x \in Msgs \ {m} : msg'[x] = msg[x]
      BY <3>1 DEF MsgsOK
    <3>3. Balanced(msg'[m], v)
      BY <1>8, <1>9, <2>2, <3>2 DEF PutTransfer
    <3>4. m \notin ToSet(xfer)
      BY DEF XferExact
    <3>5. XferOK' /\ IsInjective(xfer') /\ ToSet(xfer') = ToSet(xfer) \cup {m}
      BY <3>1, <3>4, AppendFacts DEF XferOK, XferExact
    <3>6. XferExact'
      BY <1>8, <3>2, <3>5 DEF XferExact
    <3> QED
      BY <1>8, <3>1, <3>2, <3>3, <3>5, <3>6
  <2>3. CASE PutFree(t, m, r, rest) /\ v.handler = 0
    <3>1. msg' = [msg EXCEPT ![m] = FreeMessage] /\ msg'[m] = FreeMessage
      BY <2>3 DEF PutFree, MsgsOK
    <3>2. Balanced(msg'[m], v)
      BY <1>8, <1>9, <2>3, <3>1 DEF PutFree
    <3>3. XferOK' /\ XferExact'
      BY <1>8, <2>3, <3>1, XferStay DEF PutFree, XferOK
    <3> QED
      BY <1>8, <3>1, <3>2, <3>3
  <2>4. CASE PutHandle(t, m, r, rest, api) /\ v.handler = 1
    <3>1. /\ msg' = [msg EXCEPT ![m] = [r EXCEPT !.state = "completing"]]
          /\ msg'[m] = [r EXCEPT !.state = "completing"]
      BY <2>4 DEF PutHandle, MsgsOK
    <3>2. Balanced(msg'[m], v)
      BY <1>8, <1>9, <2>4, <3>1 DEF PutHandle
    <3>3. XferOK' /\ XferExact'
      BY <1>8, <2>4, <3>1, XferStay DEF PutHandle, XferOK
    <3> QED
      BY <1>8, <3>1, <3>2, <3>3
  <2> QED
    BY <2>1, <2>2, <2>3, <2>4 DEF Gone, v
<1>11. MsgsOK' /\ \A x \in Msgs \ {m} : msg'[x] = msg[x]
  BY <1>10 DEF MsgsOK
<1>12. Ledger'
  <2>1. Balanced(msg'[m], Uses(m)')
    BY <1>10 DEF v
  <2> QED
    BY <1>11, <2>1, LedgerStep
<1> QED
  BY <1>10, <1>11, <1>12

-----------------------------------------------------------------------------
(* Steps that leave the queues and the handles alone.                       *)

LEMMA TopFacts ==
    ASSUME StacksOK, StackShape, NEW t \in Threads, stack[t] # <<>>
    PROVE  /\ Top(t) \in FrameType /\ Len(stack[t]) \in Nat \ {0}
           /\ Top(t) = stack[t][Len(stack[t])] /\ Len(stack[t]) \in DOMAIN stack[t]
           /\ FrameOK(t, Len(stack[t]), Top(t))
<1>1. stack[t] \in Seq(FrameType) /\ Len(stack[t]) \in Nat \ {0}
  BY EmptySeq DEF StacksOK
<1>2. Len(stack[t]) \in DOMAIN stack[t] /\ Top(t) = stack[t][Len(stack[t])]
  BY <1>1 DEF Top, Last
<1> QED
  BY <1>1, <1>2, ElementOfSeq DEF StackShape

LEMMA OnlyFrames ==
    ASSUME StacksOK, Finite, UNCHANGED <<queue, wq, handles>>, NEW t \in Threads,
           NEW k, NEW f, NEW g, Shifts(t, k, f, g), NEW m, f.m \in {m, NoMsg}, g.m \in {m, NoMsg}
    PROVE  /\ Finite'
           /\ \A x \in Msgs \ {m} : Uses(x)' = Uses(x)
           /\ \A x \in Msgs : /\ Uses(x)'.queued = Uses(x).queued
                              /\ Uses(x)'.windows = Uses(x).windows
                              /\ Uses(x)'.keepers = Uses(x).keepers
<1>1. ASSUME NEW x \in Msgs
      PROVE  /\ IsFiniteSet(QueuedTo(x, Queues)') /\ IsFiniteSet(QueuedTo(x, wq)')
             /\ IsFiniteSet(Keepers(x)')
             /\ Uses(x)'.queued = Uses(x).queued
             /\ Uses(x)'.windows = Uses(x).windows
             /\ Uses(x)'.keepers = Uses(x).keepers
  BY QueuesStay, WindowsStay, KeepersStay
<1>2. Finite'
  BY <1>1, FiniteStep
<1>3. ASSUME NEW x \in Msgs \ {m} PROVE Uses(x)' = Uses(x)
  <2>1. f.m # x /\ g.m # x
    BY CallAssumption
  <2> QED
    BY <1>1, <2>1, UsesOther
<1> QED
  BY <1>1, <1>2, <1>3

\* A recipient that is counted leaves.
LEMMA FinishOpen ==
    ASSUME NEW r \in MessageType, NEW u \in UsesType, NEW v \in UsesType, NEW ok \in BOOLEAN,
           r.state = "active", Balanced(r, u), u.count + u.done <= u.calls,
           UsedBy(v) = UsedBy(u) - 1, v.own = u.own, v.done = u.done, v.handles = u.handles,
           v.keepers = u.keepers, v.calls <= u.calls, v.count = u.count
    PROVE  Finished(r, ok) \in MessageType /\ Open(Finished(r, ok), v)
<1> DEFINE a == UsedBy(u)
           b == UsedBy(v)
           c == u.own
           d == u.done
           h == u.handles
           j == u.keepers
           l == u.calls
           n == u.count
<1>1. /\ a \in Nat /\ b \in Nat /\ c \in Nat /\ d \in Nat /\ h \in Nat /\ j \in Nat /\ l \in Nat
      /\ n \in Nat /\ v.calls \in Nat
  BY DEF UsesType, UsedBy
<1>2. /\ r.refcount = a + 2 * c + d + h + j /\ r.nSent + d = r.nCompleted + r.nFailed + a
      /\ l + j <= 1 /\ (n > 0 => r.nSent = 0) /\ b = a - 1 /\ n + d <= l /\ v.calls <= l
  BY DEF Balanced
<1>3. /\ r.refcount \in Nat /\ r.nSent \in Nat /\ r.nCompleted \in Nat /\ r.nFailed \in Nat
  BY DEF MessageType
<1>4. Open(Finished(r, ok), v) <=>
        /\ r.refcount - 1 = b + 2 * c + d + h + j
        /\ r.nSent + d = r.nCompleted + r.nFailed + 1 + b
        /\ v.calls + j <= 1 /\ n = 0
  <2> DEFINE s == Finished(r, ok)
  <2>1. /\ s.state = "active" /\ s.refcount = r.refcount - 1 /\ s.nSent = r.nSent
        /\ s.nCompleted + s.nFailed = r.nCompleted + r.nFailed + 1
    BY <1>3 DEF Finished, Counted, MessageType
  <2> HIDE DEF s
  <2>2. Open(s, v) <=>
          /\ s.refcount = b + 2 * c + d + h + j
          /\ s.nSent + d = s.nCompleted + s.nFailed + b
          /\ v.calls + j <= 1 /\ n = 0
    BY <2>1 DEF Open
  <2> QED
    BY <2>1, <2>2 DEF s
<1>5. ASSUME r.refcount - 1 \in Nat PROVE Finished(r, ok) \in MessageType
  <2> DEFINE s == [r EXCEPT !.refcount = @ - 1]
  <2>1. s \in MessageType
    BY <1>5 DEF MessageType
  <2>2. Finished(r, ok) = IF ok THEN [s EXCEPT !.nCompleted = s.nCompleted + 1]
                                ELSE [s EXCEPT !.nFailed = s.nFailed + 1]
    BY DEF Finished, Counted
  <2> HIDE DEF s
  <2>3. [s EXCEPT !.nCompleted = s.nCompleted + 1] \in MessageType
    BY <2>1 DEF MessageType
  <2>4. [s EXCEPT !.nFailed = s.nFailed + 1] \in MessageType
    BY <2>1 DEF MessageType
  <2> QED
    BY <2>2, <2>3, <2>4
<1> HIDE DEF a, b, c, d, h, j, l, n
<1>6. r.refcount - 1 = b + 2 * c + d + h + j /\ r.refcount - 1 \in Nat
  BY <1>1, <1>2
<1>7. r.nSent + d = r.nCompleted + r.nFailed + 1 + b
  BY <1>1, <1>2, <1>3
<1>8. n = 0 /\ v.calls + j <= 1
  BY <1>1, <1>2, <1>3, <1>7
<1> QED
  BY <1>4, <1>5, <1>6, <1>7, <1>8

\* A callback, a window procedure or a detaching thread is done with a message:
\* its frame goes, or makes way for one of no message.
LEMMA RecipientLeaves ==
    ASSUME Inv, NEW t \in Threads, stack[t] # <<>>, NEW m \in Msgs, Top(t).m = m,
           Top(t).pc \in {"callback", "wm", "exit", "drain"}, cs_msg = NoThread,
           NEW ok \in BOOLEAN, NEW rest, NEW k, NEW g, g.m = NoMsg, g.pc \in {"exited", "drained"},
           Settle(t, m, Finished(msg[m], ok), rest, "none"),
           stack' = [stack EXCEPT ![t] = rest] =>
             Shifts(t, k, Top(t), g) /\ StackShape' /\ QueuesShape',
           UNCHANGED <<queue, wait_o, deleted, wq, handles, cs_msg, types>>,
           last_msg' \in [Threads -> Msgs \cup {NoMsg}]
    PROVE  Inv'
<1> DEFINE f == Top(t)
           u == Uses(m)
           v == Uses(m)'
           r == Finished(msg[m], ok)
<1>1. /\ StacksOK /\ QueuesOK /\ WindowsOK /\ HandlesOK /\ MsgsOK /\ XferOK /\ Finite /\ Ledger
      /\ XferExact /\ StackShape /\ QueuesShape /\ PublishLock /\ TypesHeld
      /\ types \in [owner : Threads \cup {NoThread}, depth : Nat]
  BY TypeParts DEF Inv, TypeOK, MsgsOK, XferOK
<1>2. f \in FrameType /\ FrameOK(t, Len(stack[t]), f)
  BY <1>1, TopFacts
<1>3. m # NoMsg /\ t # Compl
  BY <1>2, CallAssumption DEF FrameOK, FrameType, CallPcs
<1>4. u \in UsesType /\ u.count + u.done <= u.calls /\ Balanced(msg[m], u)
  BY <1>1, <1>3, UsesBounds DEF Ledger
<1>5. ASSUME stack' = [stack EXCEPT ![t] = rest]
      PROVE  /\ Shifts(t, k, f, g) /\ StackShape' /\ QueuesShape' /\ Finite'
             /\ \A x \in Msgs \ {m} : Uses(x)' = Uses(x)
             /\ v.queued = u.queued /\ v.windows = u.windows /\ v.keepers = u.keepers
             /\ v.running = u.running - 1 /\ v.own = u.own /\ v.done = u.done
             /\ v.calls = u.calls /\ v.handles = u.handles /\ v.publisher = u.publisher
             /\ v.handler = u.handler /\ v.count = u.count
  <2>1. Shifts(t, k, f, g) /\ StackShape' /\ QueuesShape'
    BY <1>5
  <2>2. /\ Finite' /\ \A x \in Msgs \ {m} : Uses(x)' = Uses(x)
        /\ v.queued = u.queued /\ v.windows = u.windows /\ v.keepers = u.keepers
    BY <1>1, <1>3, <2>1, OnlyFrames, SMTT(60)
  <2>3. \A pcs : Hits(g, m, pcs) = 0 /\ HitsCall(g, m) = 0
    BY <1>3 DEF Hits, HitsCall, OneIf
  <2>4. /\ Hits(f, m, RecipientPcs) = 1 /\ Hits(f, m, CallPcs) = 0 /\ HitsCall(f, m) = 0
        /\ Hits(f, m, PublisherPcs) = 0 /\ Hits(f, m, {"window"}) = 0 /\ Hits(f, m, {"sent"}) = 0
        /\ Hits(f, m, {"handler"}) = 0 /\ Hits(f, m, {"count"}) = 0
    BY DEF Hits, HitsCall, OneIf, RecipientPcs, CallPcs, PublisherPcs
  <2>5. /\ v.running = u.running - 1 + 0 /\ v.own = u.own - 0 + 0 /\ v.done = u.done - 0 + 0
        /\ v.calls = u.calls - 0 + 0 /\ v.handles = u.handles - 0 + 0
        /\ v.publisher = u.publisher - 0 + 0 /\ v.handler = u.handler - 0 + 0
        /\ v.count = u.count - 0 + 0
    BY <1>1, <1>3, <2>1, <2>3, <2>4, ShiftUses
  <2> HIDE DEF u, v
  <2> QED
    BY <1>4, <2>1, <2>2, <2>5 DEF UsesType
<1>6. stack' = [stack EXCEPT ![t] = rest]
  BY <1>3 DEF Settle, PutMessage, PutSignal, PutTransfer, PutHandle, PutFree
<1>7. StacksOK'
  BY <1>5, <1>6 DEF Shifts, StackStep, StacksOK
<1>8. v \in UsesType
  BY <1>5, <1>6, BoundsNext
<1> HIDE DEF u, v
<1>9. msg[m] \in MessageType /\ msg[m].state = "active" /\ v.handler = 0
  <2>1. u.running >= 1
    BY <1>4, <1>5, <1>6, <1>8 DEF UsesType
  <2>2. msg[m].state = "active"
    BY <1>4, <2>1 DEF Balanced
  <2> QED
    BY <1>1, <1>4, <1>5, <1>6, <2>2 DEF Balanced, MsgsOK
<1>10. r \in MessageType /\ Open(r, v)
  <2>1. UsedBy(v) = UsedBy(u) - 1
    <3>1. v.queued = u.queued /\ v.windows = u.windows /\ v.running = u.running - 1
      BY <1>5, <1>6
    <3>2. u.queued \in Nat /\ u.windows \in Nat /\ u.running \in Nat
      BY <1>4 DEF UsesType
    <3> QED
      BY <3>1, <3>2 DEF UsedBy
  <2>2. v.calls <= u.calls
    BY <1>4, <1>5, <1>6 DEF UsesType
  <2> HIDE DEF r
  <2>3. Finished(msg[m], ok) \in MessageType /\ Open(Finished(msg[m], ok), v)
    BY <1>4, <1>5, <1>6, <1>8, <1>9, <2>1, <2>2, FinishOpen
  <2> QED
    BY <2>3 DEF r
<1>11. Kept(t, m, r, rest) \/ Gone(t, m, r, rest)
  <2>1. ~PutHandle(t, m, r, rest, "none")
    BY <1>3 DEF PutHandle
  <2>2. Settle(t, m, r, rest, "none")
    OBVIOUS
  <2> HIDE DEF r
  <2> QED
    BY <1>10, <2>1, <2>2, SettleCases
<1>12. PublishLock'
  BY <1>1, <1>5, <1>6, PublishLockStep
<1>13. MsgsOK' /\ XferOK' /\ XferExact' /\ Ledger'
  <2>1. Open(r, Uses(m)') /\ Uses(m)'.handler = 0
    BY <1>9, <1>10 DEF v
  <2>2. \A x \in Msgs \ {m} : Uses(x)' = Uses(x)
    BY <1>5, <1>6
  <2> HIDE DEF r
  <2> QED
    BY <1>1, <1>5, <1>6, <1>7, <1>9, <1>10, <1>11, <1>12, <2>1, <2>2, PutStep
<1>14. TypesHeld' /\ types' \in [owner : Threads \cup {NoThread}, depth : Nat]
  <2>1. ~InTypes(g)
    BY DEF InTypes
  <2> QED
    BY <1>1, <1>5, <1>6, <2>1, TypesStep
<1>15. TypeOK'
  BY <1>7, <1>13, <1>14 DEF Inv, TypeOK, MsgsOK, XferOK, StacksOK
<1> QED
  BY <1>5, <1>6, <1>12, <1>13, <1>14, <1>15 DEF Inv

-----------------------------------------------------------------------------
(* The steps of Next, one by one.                                           *)

LEMMA InvParts ==
    Inv => /\ StacksOK /\ QueuesOK /\ WindowsOK /\ HandlesOK /\ MsgsOK /\ XferOK /\ Finite
           /\ Ledger /\ XferExact /\ StackShape /\ QueuesShape /\ PublishLock /\ TypesHeld
           /\ types \in [owner : Threads \cup {NoThread}, depth : Nat]
           /\ last_msg \in [Threads -> Msgs \cup {NoMsg}]
           /\ deleted \in [Threads -> BOOLEAN]
           /\ wait_o \in [Threads -> {"clear", "set", "closed"}]
           /\ cs_msg \in Threads \cup {NoThread}
BY TypeParts DEF Inv, TypeOK, MsgsOK, XferOK

LEMMA PopRecipient ==
    ASSUME Inv, NEW t \in Threads, NEW ok \in BOOLEAN, stack[t] # <<>>,
           Top(t).pc \in {"callback", "wm"}, cs_msg = NoThread, SetQueueMessage(t, NoMsg),
           Settle(t, Top(t).m, Finished(msg[Top(t).m], ok), Front(stack[t]), "none"),
           UNCHANGED <<queue, wait_o, deleted, wq, handles, cs_msg, types>>
    PROVE  Inv'
<1>1. PICK m \in Msgs : Top(t).m = m
  BY InvParts, TopFacts DEF FrameOK, FrameType
<1>2. last_msg' \in [Threads -> Msgs \cup {NoMsg}]
  BY InvParts DEF SetQueueMessage
<1>3. ASSUME stack' = [stack EXCEPT ![t] = Front(stack[t])]
      PROVE  Shifts(t, Len(stack[t]), Top(t), NoFrame) /\ StackShape' /\ QueuesShape'
  <2>1. Pops(t)
    BY <1>3 DEF Pops
  <2>2. Shifts(t, Len(stack[t]), Top(t), NoFrame) /\ StackShape'
    BY <2>1, InvParts, PopStep
  <2>3. ~deleted[t]
    BY InvParts, NotDeleted
  <2>4. NoFrame.pc # "woken" /\ wq'[Compl] = <<>>
    BY InvParts DEF NoFrame, Frame, QueuesShape
  <2>5. Len(stack[t]) \notin DOMAIN stack'[t]
    BY <2>1, InvParts, PopFacts
  <2> QED
    BY <2>2, <2>3, <2>4, <2>5, InvParts, QueuesShapeStep
<1>4. NoFrame.m = NoMsg /\ NoFrame.pc \in {"exited", "drained"}
  BY DEF NoFrame, Frame
<1>5. Settle(t, m, Finished(msg[m], ok), Front(stack[t]), "none")
  BY <1>1
<1> QED
  BY <1>1, <1>2, <1>3, <1>4, <1>5, RecipientLeaves

LEMMA DispatchReturnStep ==
    ASSUME Inv, NEW t \in Threads, NEW ok \in BOOLEAN, DispatchReturn(t, ok) \/ WindowEnd(t, ok)
    PROVE  Inv'
BY PopRecipient DEF DispatchReturn, WindowEnd, At

\* The one frame of a thread makes way for f.
Replaces(t, f) == /\ stack[t] # <<>> /\ Len(stack[t]) = 1
                  /\ stack' = [stack EXCEPT ![t] = <<f>>]

LEMMA ReplaceStep ==
    ASSUME StacksOK, StackShape, NEW t \in Threads, NEW f \in FrameType, Replaces(t, f),
           FrameOK(t, 1, f)
    PROVE  StackShape' /\ Shifts(t, 1, Top(t), f) /\ stack'[t] = <<f>>
<1>1. stack[t] \in Seq(FrameType)
  BY DEF StacksOK
<1>2. WithTop(t, f) = <<f>>
  BY <1>1 DEF WithTop, Replaces
<1>3. Changes(t, f)
  BY <1>2 DEF Changes, Replaces
<1>4. stack'[t] = <<f>>
  BY DEF Replaces, StacksOK
<1> QED
  BY <1>3, <1>4, ChangeStep DEF Replaces

LEMMA BottomAlone ==
    ASSUME StacksOK, StackShape, NEW t \in Threads, stack[t] # <<>>, Top(t).pc \in BottomPcs
    PROVE  Len(stack[t]) = 1 /\ t # Compl
BY TopFacts DEF FrameOK, BottomPcs, CallPcs

LEMMA DispatchExitStep ==
    ASSUME Inv, NEW t \in Threads, DispatchExit(t)
    PROVE  Inv'
<1> DEFINE g == Frame("exited", NoMsg, "none")
<1>1. stack[t] # <<>> /\ Top(t).pc = "exit"
  BY DEF DispatchExit, At
<1>2. PICK m \in Msgs : Top(t).m = m
  BY <1>1, InvParts, TopFacts DEF FrameOK, FrameType
<1>3. g.m = NoMsg /\ g.pc = "exited" /\ g \in FrameType
  BY CallAssumption DEF Frame, FrameType, Pcs
<1>4. Len(stack[t]) = 1 /\ t # Compl
  BY <1>1, InvParts, BottomAlone DEF BottomPcs
<1>5. FrameOK(t, 1, g)
  BY <1>3, <1>4 DEF FrameOK
<1> HIDE DEF g
<1>6. ASSUME stack' = [stack EXCEPT ![t] = <<g>>]
      PROVE  Shifts(t, 1, Top(t), g) /\ StackShape' /\ QueuesShape'
  <2>1. Shifts(t, 1, Top(t), g) /\ StackShape'
    BY <1>1, <1>3, <1>4, <1>5, <1>6, InvParts, ReplaceStep DEF Replaces
  <2>2. ~deleted[t]
    BY <1>1, InvParts, NotDeleted
  <2>3. wq'[Compl] = <<>> /\ UNCHANGED <<queue, wait_o, deleted>>
    BY InvParts DEF QueuesShape, DispatchExit
  <2> QED
    BY <1>3, <2>1, <2>2, <2>3, InvParts, QueuesShapeStep
<1>7. Settle(t, m, Finished(msg[m], TRUE), <<g>>, "none")
  BY <1>2 DEF DispatchExit, g
<1>8. /\ UNCHANGED <<queue, wait_o, deleted, wq, handles, cs_msg, types>> /\ cs_msg = NoThread
      /\ last_msg' \in [Threads -> Msgs \cup {NoMsg}]
  BY InvParts DEF DispatchExit
<1> QED
  BY <1>1, <1>2, <1>3, <1>6, <1>7, <1>8, RecipientLeaves

LEMMA DetachFailStep ==
    ASSUME Inv, NEW t \in Threads, DetachFail(t)
    PROVE  Inv'
<1> DEFINE g == Frame("drained", NoMsg, "none")
<1>1. stack[t] # <<>> /\ Top(t).pc = "drain"
  BY DEF DetachFail, At
<1>2. PICK m \in Msgs : Top(t).m = m
  BY <1>1, InvParts, TopFacts DEF FrameOK, FrameType
<1>3. g.m = NoMsg /\ g.pc = "drained" /\ g \in FrameType
  BY CallAssumption DEF Frame, FrameType, Pcs
<1>4. Len(stack[t]) = 1 /\ t # Compl
  BY <1>1, InvParts, BottomAlone DEF BottomPcs
<1>5. FrameOK(t, 1, g)
  BY <1>3, <1>4 DEF FrameOK
<1> HIDE DEF g
<1>6. ASSUME stack' = [stack EXCEPT ![t] = <<g>>]
      PROVE  Shifts(t, 1, Top(t), g) /\ StackShape' /\ QueuesShape'
  <2>1. Shifts(t, 1, Top(t), g) /\ StackShape' /\ stack'[t] = <<g>>
    BY <1>1, <1>3, <1>4, <1>5, <1>6, InvParts, ReplaceStep DEF Replaces
  <2>2. wq'[Compl] = <<>> /\ UNCHANGED <<queue, wait_o, deleted>>
    BY InvParts DEF QueuesShape, DetachFail
  <2>3. Len(stack'[t]) <= 1
    BY <2>1
  <2>4. deleted[t]
    BY <1>1, InvParts, TopFacts DEF QueuesShape
  <2> QED
    BY <1>3, <2>1, <2>2, <2>3, <2>4, InvParts, QueuesShapeStep
<1>7. Settle(t, m, Finished(msg[m], FALSE), <<g>>, "none")
  BY <1>2 DEF DetachFail, g
<1>8. /\ UNCHANGED <<queue, wait_o, deleted, wq, handles, cs_msg, types>> /\ cs_msg = NoThread
      /\ last_msg' \in [Threads -> Msgs \cup {NoMsg}]
  BY InvParts DEF DetachFail
<1>9. FALSE \in BOOLEAN /\ g.pc \in {"exited", "drained"}
  BY <1>3
<1> QED
  BY <1>1, <1>2, <1>3, <1>6, <1>7, <1>8, <1>9, RecipientLeaves

-----------------------------------------------------------------------------
(* Posting.                                                                 *)

\* A message r becomes s, used as v instead of u.
LEMMA OpenMoves ==
    ASSUME NEW r \in MessageType, NEW s \in MessageType, NEW u \in UsesType, NEW v \in UsesType,
           r.state = "active", s.state = "active", Balanced(r, u),
           NEW a \in Int, NEW b \in Int, NEW c \in Int, NEW d \in Int,
           UsedBy(v) = UsedBy(u) + a, v.own = u.own + b, v.done = u.done + c,
           v.handles + v.keepers = u.handles + u.keepers + d,
           s.refcount = r.refcount + a + 2 * b + c + d,
           s.nSent - s.nCompleted - s.nFailed = r.nSent - r.nCompleted - r.nFailed + a - c,
           v.calls + v.keepers <= 1, v.count = 0
    PROVE  Open(s, v) /\ (v.handler = 0 => Balanced(s, v))
<1> DEFINE a1 == UsedBy(u)
           b1 == u.own
           c1 == u.done
           d1 == u.handles
           e1 == u.keepers
           a2 == UsedBy(v)
           b2 == v.own
           c2 == v.done
           d2 == v.handles
           e2 == v.keepers
<1>1. /\ a1 \in Nat /\ b1 \in Nat /\ c1 \in Nat /\ d1 \in Nat /\ e1 \in Nat
      /\ a2 \in Nat /\ b2 \in Nat /\ c2 \in Nat /\ d2 \in Nat /\ e2 \in Nat
  BY DEF UsesType, UsedBy
<1>2. /\ r.refcount \in Nat /\ r.nSent \in Nat /\ r.nCompleted \in Nat /\ r.nFailed \in Nat
      /\ s.refcount \in Nat /\ s.nSent \in Nat /\ s.nCompleted \in Nat /\ s.nFailed \in Nat
  BY DEF MessageType
<1>3. r.refcount = a1 + 2 * b1 + c1 + d1 + e1 /\ r.nSent + c1 = r.nCompleted + r.nFailed + a1
  BY DEF Balanced
<1>4. a2 = a1 + a /\ b2 = b1 + b /\ c2 = c1 + c /\ d2 + e2 = d1 + e1 + d
  OBVIOUS
<1>5. Open(s, v) <=> s.refcount = a2 + 2 * b2 + c2 + d2 + e2
                     /\ s.nSent + c2 = s.nCompleted + s.nFailed + a2
  BY DEF Open
<1> HIDE DEF a1, b1, c1, d1, e1, a2, b2, c2, d2, e2
<1>6. s.refcount = a2 + 2 * b2 + c2 + d2 + e2
  BY <1>1, <1>2, <1>3, <1>4
<1>7. s.nSent + c2 = s.nCompleted + s.nFailed + a2
  <2> DEFINE x == s.nSent
             y == s.nCompleted
             z == s.nFailed
             i == r.nSent
             j == r.nCompleted
             l == r.nFailed
  <2>1. x \in Nat /\ y \in Nat /\ z \in Nat /\ i \in Nat /\ j \in Nat /\ l \in Nat
    BY <1>2
  <2>2. i + c1 = j + l + a1 /\ x - y - z = i - j - l + a - c
    BY <1>3
  <2> HIDE DEF x, y, z, i, j, l
  <2>3. x + c2 = y + z + a2
    BY <1>1, <1>4, <2>1, <2>2
  <2> QED
    BY <2>3 DEF x, y, z
<1>8. Open(s, v)
  BY <1>5, <1>6, <1>7
<1> QED
  BY <1>8 DEF Open, Balanced

\* The posting call moves on in its own frame.
LEMMA PublishUses ==
    ASSUME StacksOK, Finite, Ledger, NEW t \in Threads, NEW k, NEW f, NEW g, Shifts(t, k, f, g),
           NEW m \in Msgs, f.m = m, g.m = m, f.api = g.api,
           f.pc \in PublisherPcs \ {"count"}, g.pc \in PublisherPcs \ {"count"}
    PROVE  /\ msg[m].state = "active" /\ Uses(m) \in UsesType /\ Balanced(msg[m], Uses(m))
           /\ Uses(m).calls = 1 /\ Uses(m).keepers = 0 /\ Uses(m).count = 0 /\ Uses(m).handler = 0
           /\ Uses(m)'.calls = 1 /\ Uses(m)'.handles = Uses(m).handles
           /\ Uses(m)'.publisher = Uses(m).publisher /\ Uses(m)'.handler = 0 /\ Uses(m)'.count = 0
           /\ Uses(m)'.running = Uses(m).running - OneIf(f.pc \in RecipientPcs)
                                                 + OneIf(g.pc \in RecipientPcs)
           /\ Uses(m)'.own = Uses(m).own - OneIf(f.pc = "window") + OneIf(g.pc = "window")
           /\ Uses(m)'.done = Uses(m).done - OneIf(f.pc = "sent") + OneIf(g.pc = "sent")
<1> DEFINE u == Uses(m)
           v == Uses(m)'
<1>1. f.pc \in CallPcs \ {"count"} /\ g.pc \in CallPcs \ {"count"}
  BY DEF PublisherPcs, CallPcs
<1>2. u.count = 0 /\ u.calls = 1 /\ u.keepers = 0
  BY <1>1, CountAlone
<1>3. u \in UsesType /\ Balanced(msg[m], u)
  BY UsesTyped DEF Ledger
<1>4. msg[m].state = "active" /\ u.handler = 0
  BY <1>2, <1>3 DEF Balanced
<1>5. /\ Hits(f, m, CallPcs) = 1 /\ Hits(g, m, CallPcs) = 1 /\ HitsCall(f, m) = HitsCall(g, m)
      /\ HitsCall(f, m) \in {0, 1}
      /\ Hits(f, m, PublisherPcs) = 1 /\ Hits(g, m, PublisherPcs) = 1
      /\ Hits(f, m, {"handler"}) = 0 /\ Hits(g, m, {"handler"}) = 0
      /\ Hits(f, m, {"count"}) = 0 /\ Hits(g, m, {"count"}) = 0
      /\ Hits(f, m, {"window"}) = OneIf(f.pc = "window")
      /\ Hits(g, m, {"window"}) = OneIf(g.pc = "window")
      /\ Hits(f, m, {"sent"}) = OneIf(f.pc = "sent") /\ Hits(g, m, {"sent"}) = OneIf(g.pc = "sent")
      /\ Hits(f, m, RecipientPcs) = OneIf(f.pc \in RecipientPcs)
      /\ Hits(g, m, RecipientPcs) = OneIf(g.pc \in RecipientPcs)
  <2>1. \A pcs : /\ Hits(f, m, pcs) = OneIf(f.pc \in pcs) /\ Hits(g, m, pcs) = OneIf(g.pc \in pcs)
    BY DEF Hits
  <2>2. /\ f.pc \in PublisherPcs /\ g.pc \in PublisherPcs /\ f.pc \notin {"count"}
        /\ g.pc \notin {"count"} /\ f.pc \notin {"handler"} /\ g.pc \notin {"handler"}
    BY DEF PublisherPcs
  <2>3. HitsCall(f, m) = OneIf(HasCall(f.api)) /\ HitsCall(g, m) = OneIf(HasCall(f.api))
    BY <1>1 DEF HitsCall, OneIf
  <2> QED
    BY <1>1, <2>1, <2>2, <2>3 DEF OneIf
<1>6. /\ v.running = u.running - Hits(f, m, RecipientPcs) + Hits(g, m, RecipientPcs)
      /\ v.own = u.own - Hits(f, m, {"window"}) + Hits(g, m, {"window"})
      /\ v.done = u.done - Hits(f, m, {"sent"}) + Hits(g, m, {"sent"})
      /\ v.calls = u.calls - Hits(f, m, CallPcs) + Hits(g, m, CallPcs)
      /\ v.handles = u.handles - HitsCall(f, m) + HitsCall(g, m)
      /\ v.publisher = u.publisher - Hits(f, m, PublisherPcs) + Hits(g, m, PublisherPcs)
      /\ v.handler = u.handler - Hits(f, m, {"handler"}) + Hits(g, m, {"handler"})
      /\ v.count = u.count - Hits(f, m, {"count"}) + Hits(g, m, {"count"})
  BY ShiftUses
<1> HIDE DEF u, v
<1>7. v.running = u.running - OneIf(f.pc \in RecipientPcs) + OneIf(g.pc \in RecipientPcs)
  BY <1>5, <1>6
<1>8. /\ v.own = u.own - OneIf(f.pc = "window") + OneIf(g.pc = "window")
      /\ v.done = u.done - OneIf(f.pc = "sent") + OneIf(g.pc = "sent")
  BY <1>5, <1>6
<1>9. v.calls = 1 /\ v.handler = 0 /\ v.count = 0 /\ v.publisher = u.publisher
  BY <1>2, <1>3, <1>4, <1>5, <1>6 DEF UsesType
<1>10. v.handles = u.handles
  BY <1>3, <1>5, <1>6 DEF UsesType
<1> QED
  BY <1>2, <1>3, <1>4, <1>7, <1>8, <1>9, <1>10 DEF u, v

\* A step that does not release a message.
LEMMA QuietStep ==
    ASSUME Inv, NEW t \in Threads, NEW k, NEW f, NEW g, Shifts(t, k, f, g), StackShape',
           NEW m \in Msgs, f.m \in {m, NoMsg}, g.m \in {m, NoMsg},
           NEW r \in MessageType, msg' = [msg EXCEPT ![m] = r],
           r.state = "xfer" <=> msg[m].state = "xfer", Balanced(r, Uses(m)'),
           UNCHANGED xfer, QueuesOK', WindowsOK', HandlesOK',
           wait_o' \in [Threads -> {"clear", "set", "closed"}],
           deleted' \in [Threads -> BOOLEAN],
           last_msg' \in [Threads -> Msgs \cup {NoMsg}],
           cs_msg' \in Threads \cup {NoThread},
           QueuesShape',
           cs_msg' = cs_msg \/ cs_msg \in {t, NoThread},
           g.pc \in {"publish", "put"} => cs_msg' = t,
           \/ UNCHANGED types /\ (InTypes(g) => InTypes(f))
           \/ EnterTypes(t) /\ TypesFree(t)
           \/ EnterTypes(t) /\ InTypes(f)
           \/ LeaveTypes /\ InTypes(f) /\ ~InTypes(g),
           \A x \in Msgs : /\ IsFiniteSet(QueuedTo(x, Queues)') /\ IsFiniteSet(QueuedTo(x, wq)')
                           /\ IsFiniteSet(Keepers(x)'),
           \A x \in Msgs \ {m} : /\ Uses(x)'.queued = Uses(x).queued
                                 /\ Uses(x)'.windows = Uses(x).windows
                                 /\ Uses(x)'.keepers = Uses(x).keepers
    PROVE  Inv'
<1>1. Finite'
  BY InvParts, FiniteStep
<1>2. \A x \in Msgs \ {m} : Uses(x)' = Uses(x)
  <2> SUFFICES ASSUME NEW x \in Msgs \ {m} PROVE Uses(x)' = Uses(x)
    OBVIOUS
  <2>1. f.m # x /\ g.m # x
    BY CallAssumption
  <2> QED
    BY <2>1, InvParts, UsesOther
<1>3. msg'[m] = r /\ \A x \in Msgs \ {m} : msg'[x] = msg[x]
  BY InvParts DEF MsgsOK
<1>4. Ledger'
  <2>1. Balanced(msg'[m], Uses(m)')
    BY <1>3
  <2> QED
    BY <1>2, <1>3, <2>1, InvParts, LedgerStep
<1>5. XferExact'
  BY InvParts, XferStay
<1>6. PublishLock'
  BY InvParts, PublishLockStep
<1>7. TypesHeld' /\ types' \in [owner : Threads \cup {NoThread}, depth : Nat]
  BY InvParts, TypesStep
<1>8. TypeOK'
  <2>1. stack' \in [Threads -> Seq(FrameType)]
    BY DEF Shifts, StackStep
  <2>2. msg' \in [Msgs -> MessageType] /\ xfer' \in Seq(Msgs)
    BY InvParts DEF MsgsOK, XferOK
  <2> QED
    BY <1>7, <2>1, <2>2 DEF TypeOK, QueuesOK, WindowsOK, HandlesOK, Entry
<1> QED
  BY <1>1, <1>4, <1>5, <1>6, <1>7, <1>8 DEF Inv

\* The facts about a thread that is posting m.
LEMMA PostingFacts ==
    ASSUME Inv, NEW t \in Threads, stack[t] # <<>>,
           Top(t).pc \in PublisherPcs
    PROVE  /\ Top(t) \in FrameType /\ Top(t).m \in Msgs /\ Top(t).m # NoMsg
           /\ Len(stack[t]) \in Nat \ {0} /\ FrameOK(t, Len(stack[t]), Top(t))
           /\ ~deleted[t]
           /\ Top(t).pc \in {"publish", "put"} => cs_msg = t
           /\ InTypes(Top(t)) => types.owner = t
<1>1. /\ Top(t) \in FrameType /\ Len(stack[t]) \in Nat \ {0} /\ FrameOK(t, Len(stack[t]), Top(t))
      /\ Top(t) = stack[t][Len(stack[t])] /\ Len(stack[t]) \in DOMAIN stack[t]
  BY InvParts, TopFacts
<1>2. Top(t).m \in Msgs /\ Top(t).m # NoMsg
  BY <1>1, CallAssumption DEF FrameOK, FrameType, PublisherPcs
<1>3. ~deleted[t]
  BY InvParts, NotDeleted DEF PublisherPcs
<1>4. Top(t).pc \in {"publish", "put"} => cs_msg = t
  BY <1>1, InvParts DEF PublishLock
<1>5. ASSUME InTypes(Top(t)) PROVE types.owner = t
  <2>1. Len(stack[t]) \in TypesFrames(t)
    BY <1>1, <1>5 DEF InTypes, TypesFrames
  <2> QED
    BY <2>1, InvParts DEF TypesHeld
<1> QED
  BY <1>1, <1>2, <1>3, <1>4, <1>5

\* The frame after it has gone on to pc, or to the next subscriber.
LEMMA MovedFrame ==
    ASSUME NEW f \in FrameType, NEW pc \in Pcs
    PROVE  LET g == [f EXCEPT !.pc = pc, !.calls = 0] IN
           /\ g \in FrameType /\ g.pc = pc /\ g.m = f.m /\ g.api = f.api /\ g.i = f.i /\ g.to = f.to
<1>1. 0 \in 0 .. MaxCalls
  BY CallAssumption
<1> QED
  BY <1>1 DEF FrameType

LEMMA NextSubFrame ==
    ASSUME NEW f \in FrameType, f.i <= Len(Subs)
    PROVE  LET g == [f EXCEPT !.pc = "publish", !.i = f.i + 1, !.calls = 0] IN
           /\ g \in FrameType /\ g.pc = "publish" /\ g.m = f.m /\ g.api = f.api
<1>1. Len(Subs) \in Nat /\ MaxCalls \in Nat
  BY CallAssumption
<1>2. f.i + 1 \in 1 .. (Len(Subs) + 1) /\ 0 \in 0 .. MaxCalls /\ "publish" \in Pcs
  BY <1>1 DEF FrameType, Pcs
<1> QED
  BY <1>2 DEF FrameType

\* What the place of a frame adds to refcount, and to nSent - nCompleted - nFailed.
Weight(pc) == OneIf(pc \in RecipientPcs) + 2 * OneIf(pc = "window") + OneIf(pc = "sent")
Pending(pc) == OneIf(pc \in RecipientPcs) - OneIf(pc = "sent")

LEMMA Weights ==
    /\ Weight("publish") = 0 /\ Weight("put") = 0 /\ Weight("direct") = 1
    /\ Weight("window") = 2 /\ Weight("sent") = 1
    /\ Pending("publish") = 0 /\ Pending("put") = 0 /\ Pending("direct") = 1
    /\ Pending("window") = 0 /\ Pending("sent") = 0 - 1
<1>1. /\ "direct" \in RecipientPcs
      /\ \A pc \in {"publish", "put", "window", "sent"} : pc \notin RecipientPcs
  BY DEF RecipientPcs
<1> QED
  BY <1>1 DEF Weight, Pending, OneIf

LEMMA PublishBalanced ==
    ASSUME NEW r \in MessageType, NEW s \in MessageType, NEW u \in UsesType, NEW v \in UsesType,
           NEW from, NEW to, NEW q \in Int,
           r.state = "active", s.state = "active", Balanced(r, u),
           v.queued + v.windows = u.queued + u.windows + q,
           v.running = u.running - OneIf(from \in RecipientPcs) + OneIf(to \in RecipientPcs),
           v.own = u.own - OneIf(from = "window") + OneIf(to = "window"),
           v.done = u.done - OneIf(from = "sent") + OneIf(to = "sent"),
           v.handles = u.handles, v.keepers = u.keepers,
           v.calls + v.keepers <= 1, v.count = 0, v.handler = 0,
           s.refcount = r.refcount + q + Weight(to) - Weight(from),
           s.nSent - s.nCompleted - s.nFailed
             = r.nSent - r.nCompleted - r.nFailed + q + Pending(to) - Pending(from)
    PROVE  Balanced(s, v)
<1> DEFINE x1 == OneIf(from \in RecipientPcs)
           x2 == OneIf(to \in RecipientPcs)
           y1 == OneIf(from = "window")
           y2 == OneIf(to = "window")
           z1 == OneIf(from = "sent")
           z2 == OneIf(to = "sent")
           a == q + x2 - x1
           b == y2 - y1
           c == z2 - z1
           d == 0
<1>1. /\ x1 \in Int /\ x2 \in Int /\ y1 \in Int /\ y2 \in Int /\ z1 \in Int /\ z2 \in Int
  BY DEF OneIf
<1>2. /\ Weight(to) = x2 + 2 * y2 + z2 /\ Weight(from) = x1 + 2 * y1 + z1
      /\ Pending(to) = x2 - z2 /\ Pending(from) = x1 - z1
  BY DEF Weight, Pending
<1>3. /\ v.running = u.running - x1 + x2 /\ v.own = u.own - y1 + y2 /\ v.done = u.done - z1 + z2
  OBVIOUS
<1> HIDE DEF x1, x2, y1, y2, z1, z2
<1>4. /\ u.own \in Nat /\ u.done \in Nat /\ u.running \in Nat /\ u.queued \in Nat
      /\ u.windows \in Nat /\ v.queued \in Nat /\ v.windows \in Nat /\ v.running \in Nat
      /\ u.handles \in Nat /\ u.keepers \in Nat
  BY DEF UsesType
<1>5. a \in Int /\ b \in Int /\ c \in Int /\ d \in Int
  BY <1>1
<1>6. v.own = u.own + b /\ v.done = u.done + c
  BY <1>1, <1>3, <1>4
<1>7. UsedBy(v) = UsedBy(u) + a
  BY <1>1, <1>3, <1>4 DEF UsedBy
<1>8. s.refcount = r.refcount + a + 2 * b + c + d
  <2>1. r.refcount \in Nat
    BY DEF MessageType
  <2> QED
    BY <1>1, <1>2, <2>1
<1>9. s.nSent - s.nCompleted - s.nFailed = r.nSent - r.nCompleted - r.nFailed + a - c
  <2> DEFINE x == r.nSent - r.nCompleted - r.nFailed
             y == s.nSent - s.nCompleted - s.nFailed
  <2>1. x \in Int /\ y = x + q + Pending(to) - Pending(from)
    BY DEF MessageType
  <2> HIDE DEF x, y
  <2>2. y = x + a - c
    BY <1>1, <1>2, <2>1
  <2> QED
    BY <2>2 DEF x, y
<1>10. v.handles + v.keepers = u.handles + u.keepers + d
  BY <1>4
<1> HIDE DEF a, b, c, d
<1> QED
  BY <1>5, <1>6, <1>7, <1>8, <1>9, <1>10, OpenMoves

\* A step of the posting loop: q more references to m are queued, r is m's new
\* state, and g the frame that follows.
Publishes(t, m, g, r, q) ==
    /\ stack[t] # <<>> /\ Top(t).m = m /\ Top(t).pc \in PublisherPcs \ {"count"}
    /\ g.m = m /\ g.api = Top(t).api /\ g.pc \in PublisherPcs \ {"count"}
    /\ FrameOK(t, Len(stack[t]), g) /\ Changes(t, g)
    /\ msg' = [msg EXCEPT ![m] = r] /\ r.state = msg[m].state
    /\ Uses(m)'.queued + Uses(m)'.windows = Uses(m).queued + Uses(m).windows + q
    /\ r.refcount = msg[m].refcount + q + Weight(g.pc) - Weight(Top(t).pc)
    /\ r.nSent - r.nCompleted - r.nFailed
         = msg[m].nSent - msg[m].nCompleted - msg[m].nFailed + q
           + Pending(g.pc) - Pending(Top(t).pc)
    /\ UNCHANGED <<handles, deleted, xfer>>
    /\ QueuesOK' /\ WindowsOK'
    /\ wait_o' \in [Threads -> {"clear", "set", "closed"}]
    /\ last_msg' \in [Threads -> Msgs \cup {NoMsg}]
    /\ (UNCHANGED <<queue, wait_o>> /\ wq'[Compl] = <<>>) \/ QueuesShape'
    /\ cs_msg' \in Threads \cup {NoThread}
    /\ cs_msg' = cs_msg \/ cs_msg \in {t, NoThread}
    /\ g.pc \in {"publish", "put"} => cs_msg' = t
    /\ \/ UNCHANGED types /\ (InTypes(g) => InTypes(Top(t)))
       \/ EnterTypes(t) /\ TypesFree(t)
       \/ LeaveTypes /\ InTypes(Top(t)) /\ ~InTypes(g)
    /\ \A x \in Msgs : IsFiniteSet(QueuedTo(x, Queues)') /\ IsFiniteSet(QueuedTo(x, wq)')
    /\ \A x \in Msgs \ {m} : /\ Uses(x)'.queued = Uses(x).queued
                             /\ Uses(x)'.windows = Uses(x).windows

LEMMA PublishStep ==
    ASSUME Inv, NEW t \in Threads, NEW m \in Msgs, NEW g \in FrameType, NEW r \in MessageType,
           NEW q \in Int, Publishes(t, m, g, r, q)
    PROVE  Inv'
<1> DEFINE f == Top(t)
           u == Uses(m)
           v == Uses(m)'
<1> USE DEF Publishes
<1>1. StackShape' /\ Shifts(t, Len(stack[t]), f, g)
  BY InvParts, ChangeStep
<1>2. \A x \in Msgs : Uses(x)'.keepers = Uses(x).keepers /\ IsFiniteSet(Keepers(x)')
  BY InvParts, KeepersStay
<1>3. Finite'
  BY <1>1, <1>2, InvParts, FiniteStep
<1>4. v \in UsesType
  BY <1>3, BoundsNext
<1>5. /\ msg[m].state = "active" /\ u \in UsesType /\ Balanced(msg[m], u)
      /\ u.keepers = 0
      /\ v.calls = 1 /\ v.handles = u.handles /\ v.handler = 0 /\ v.count = 0
      /\ v.running = u.running - OneIf(f.pc \in RecipientPcs) + OneIf(g.pc \in RecipientPcs)
      /\ v.own = u.own - OneIf(f.pc = "window") + OneIf(g.pc = "window")
      /\ v.done = u.done - OneIf(f.pc = "sent") + OneIf(g.pc = "sent")
  BY <1>1, InvParts, PublishUses
<1>6. v.keepers = 0
  BY <1>2, <1>5
<1>7. v.queued + v.windows = u.queued + u.windows + q
  OBVIOUS
<1> HIDE DEF u, v
<1>8. msg[m] \in MessageType /\ r.state = "active"
  BY <1>5, InvParts DEF MsgsOK
<1>9. v.keepers = u.keepers /\ v.calls + v.keepers <= 1
  BY <1>5, <1>6
<1>12. Balanced(r, v)
  BY <1>4, <1>5, <1>7, <1>8, <1>9, PublishBalanced
<1>13. QueuesShape'
  <2>1. ~deleted[t]
    BY InvParts, NotDeleted DEF PublisherPcs
  <2>2. g.pc \notin {"woken", "drain", "drained"}
    BY DEF PublisherPcs
  <2> QED
    BY <1>1, <2>1, <2>2, InvParts, QueuesShapeStep
<1>14. Balanced(r, Uses(m)')
  BY <1>12 DEF v
<1>15. r.state = "xfer" <=> msg[m].state = "xfer"
  OBVIOUS
<1>16. HandlesOK' /\ deleted' \in [Threads -> BOOLEAN]
  BY InvParts DEF HandlesOK
<1>17. /\ \A x \in Msgs : /\ IsFiniteSet(QueuedTo(x, Queues)') /\ IsFiniteSet(QueuedTo(x, wq)')
                          /\ IsFiniteSet(Keepers(x)')
       /\ \A x \in Msgs \ {m} : /\ Uses(x)'.queued = Uses(x).queued
                                /\ Uses(x)'.windows = Uses(x).windows
                                /\ Uses(x)'.keepers = Uses(x).keepers
  BY <1>2
<1>18. \/ UNCHANGED types /\ (InTypes(g) => InTypes(f))
       \/ EnterTypes(t) /\ TypesFree(t)
       \/ EnterTypes(t) /\ InTypes(f)
       \/ LeaveTypes /\ InTypes(f) /\ ~InTypes(g)
  OBVIOUS
<1>19. f.m \in {m, NoMsg} /\ g.m \in {m, NoMsg}
  OBVIOUS
<1> HIDE DEF f
<1> QED
  BY <1>1, <1>13, <1>14, <1>15, <1>16, <1>17, <1>18, <1>19, QuietStep

\* QPUT and SetEvent keep the shape of the queues.
LEMMA EnqueueShape ==
    ASSUME StacksOK, QueuesOK, QueuesShape, wait_o \in [Threads -> {"clear", "set", "closed"}],
           NEW q \in Threads \ {Compl}, NEW m, NEW sub, Enqueue(q, m, sub),
           queue'[q] # <<>>, Len(queue'[q]) = Len(queue[q]) + 1,
           UNCHANGED <<deleted, wq>>,
           NEW t \in Threads, NEW k, NEW f, NEW g, Shifts(t, k, f, g), g.pc # "woken", ~deleted[t],
           k \in DOMAIN stack'[t] => g.pc \notin {"drain", "drained"}
    PROVE  QueuesShape' /\ wait_o' \in [Threads -> {"clear", "set", "closed"}]
<1>1. wait_o' \in [Threads -> {"clear", "set", "closed"}]
  BY DEF Enqueue
<1>2. /\ \A u \in Threads \ {q} : queue'[u] = queue[u] /\ wait_o'[u] = wait_o[u]
  BY DEF Enqueue, QueuesOK
<1>3. queue'[Compl] = <<>> /\ wq'[Compl] = <<>> /\ wait_o'[Compl] = "clear" /\ ~deleted'[Compl]
  BY <1>2, CallAssumption DEF QueuesShape
<1>4. ASSUME NEW u \in Threads, NEW i \in DOMAIN stack'[u]
      PROVE  /\ stack'[u][i].pc = "woken" => i \in DOMAIN stack[u] /\ stack[u][i].pc = "woken"
             /\ deleted[u] => i \in DOMAIN stack[u] /\ stack'[u][i].pc = stack[u][i].pc
  <2>1. CASE u # t
    BY <2>1 DEF Shifts, StackStep
  <2>2. CASE u = t
    <3>1. i = k => stack'[u][i].pc # "woken"
      BY <2>2 DEF Shifts, FrameIs
    <3>2. i # k => stack'[u][i].pc # "woken"
      BY <2>2 DEF Shifts, UserCode
    <3> QED
      BY <2>2, <3>1, <3>2
  <2> QED
    BY <2>1, <2>2
<1>5. queue[q] # <<>> => Len(queue[q]) \in Nat \ {0}
  BY EmptySeq DEF QueuesOK
<1>6. ASSUME NEW u \in Threads, NEW i \in DOMAIN stack'[u]
      PROVE  /\ stack'[u][i].pc = "woken" =>
                  queue'[u] # <<>> /\ (wait_o'[u] = "set" => Len(queue'[u]) > 1)
             /\ deleted[u] <=> stack'[u][i].pc \in {"drain", "drained"}
  <2>1. deleted[u] <=> stack'[u][i].pc \in {"drain", "drained"}
    <3>1. CASE u # t
      BY <3>1 DEF Shifts, StackStep, QueuesShape
    <3>2. CASE u = t
      BY <3>2 DEF Shifts, FrameIs, UserCode
    <3> QED
      BY <3>1, <3>2
  <2>2. ASSUME stack'[u][i].pc = "woken"
        PROVE  queue'[u] # <<>> /\ (wait_o'[u] = "set" => Len(queue'[u]) > 1)
    <3>1. queue[u] # <<>> /\ (wait_o[u] = "set" => Len(queue[u]) > 1)
      BY <1>4, <2>2 DEF QueuesShape
    <3>2. CASE u = q
      BY <1>5, <3>1, <3>2
    <3>3. CASE u # q
      BY <1>2, <3>1, <3>3
    <3> QED
      BY <3>2, <3>3
  <2> QED
    BY <2>1, <2>2
<1>7. \A u \in Threads : ~deleted[u] /\ wait_o'[u] = "set" => queue'[u] # <<>>
  BY <1>2 DEF QueuesShape
<1> QED
  BY <1>1, <1>3, <1>6, <1>7 DEF QueuesShape

\* Where the loop stands.
LEMMA AtSubFacts ==
    ASSUME Inv, NEW t \in Threads, stack[t] # <<>>, Top(t).pc \in {"publish", "put"},
           Top(t).i <= Len(Subs)
    PROVE  Sub(t).thread \in Threads \ {Compl} /\ Top(t).i \in 0 .. Len(Subs)
<1>1. Top(t) \in FrameType
  BY PostingFacts DEF PublisherPcs
<1>2. Top(t).i \in 1 .. Len(Subs)
  BY <1>1 DEF FrameType
<1>3. Subs[Top(t).i] \in [kind : {"CB", "HWND"}, thread : Threads \ {Compl}]
  BY <1>2, CallAssumption, ElementOfSeq, ZenonT(60)
<1> QED
  BY <1>2, <1>3 DEF Sub

LEMMA SameQueues ==
    ASSUME Inv, UNCHANGED queue
    PROVE  /\ QueuesOK'
           /\ \A x \in Msgs : /\ Uses(x)'.queued = Uses(x).queued
                              /\ IsFiniteSet(QueuedTo(x, Queues)')
<1>1. QueuesOK'
  BY InvParts DEF QueuesOK
<1> QED
  BY <1>1, InvParts, QueuesStay

LEMMA SameWindows ==
    ASSUME Inv, UNCHANGED wq
    PROVE  /\ WindowsOK' /\ wq'[Compl] = <<>>
           /\ \A x \in Msgs : /\ Uses(x)'.windows = Uses(x).windows
                              /\ IsFiniteSet(QueuedTo(x, wq)')
<1>1. WindowsOK' /\ wq'[Compl] = <<>>
  BY InvParts DEF WindowsOK, QueuesShape
<1> QED
  BY <1>1, InvParts, WindowsStay

LEMMA PostCheckStep ==
    ASSUME Inv, NEW t \in Threads, PostCheck(t)
    PROVE  Inv'
<1> DEFINE f == Top(t)
           g == IF deleted[Sub(t).thread]
                THEN [f EXCEPT !.pc = "publish", !.i = f.i + 1, !.calls = 0]
                ELSE [f EXCEPT !.pc = "put", !.calls = 0]
<1>1. stack[t] # <<>> /\ f.pc = "publish" /\ f.i <= Len(Subs)
  BY DEF PostCheck, AtSub, At
<1>2. /\ f \in FrameType /\ f.m \in Msgs /\ FrameOK(t, Len(stack[t]), f) /\ ~deleted[t]
      /\ cs_msg = t
  BY <1>1, PostingFacts DEF PublisherPcs
<1>3. PICK m \in Msgs : f.m = m
  BY <1>2
<1>4. g \in FrameType /\ g.pc \in {"publish", "put"} /\ g.m = m /\ g.api = f.api
      /\ (g.pc = "put" => g.i = f.i)
  <2>1. "put" \in Pcs
    BY DEF Pcs
  <2> QED
    BY <1>1, <1>2, <1>3, <2>1, MovedFrame, NextSubFrame
<1>5. FrameOK(t, Len(stack[t]), g)
  BY <1>1, <1>2, <1>3, <1>4, CallAssumption DEF FrameOK, CallPcs, BottomPcs
<1>6. Changes(t, g)
  BY <1>1 DEF PostCheck, Changes, NextSub, Goto, Moved
<1> HIDE DEF g
<1>7. /\ UNCHANGED <<msg, queue, wait_o, deleted, last_msg, wq, handles, xfer, cs_msg, types>>
  BY DEF PostCheck
<1>8. msg[m] \in MessageType /\ msg' = [msg EXCEPT ![m] = msg[m]]
  BY <1>7, InvParts DEF MsgsOK
<1>9. /\ Weight(g.pc) = 0 /\ Weight(f.pc) = 0 /\ Pending(g.pc) = 0 /\ Pending(f.pc) = 0
  BY <1>1, <1>4, Weights
<1> DEFINE q == 0
<1>10. /\ q \in Int
       /\ Uses(m)'.queued + Uses(m)'.windows = Uses(m).queued + Uses(m).windows + q
       /\ msg[m].refcount = msg[m].refcount + q + Weight(g.pc) - Weight(f.pc)
       /\ msg[m].nSent - msg[m].nCompleted - msg[m].nFailed
            = msg[m].nSent - msg[m].nCompleted - msg[m].nFailed + q + Pending(g.pc) - Pending(f.pc)
  <2>1. Uses(m) \in UsesType
    BY InvParts, UsesTyped
  <2>2. Uses(m)'.queued = Uses(m).queued /\ Uses(m)'.windows = Uses(m).windows
    BY <1>7, SameQueues, SameWindows
  <2>3. Uses(m)'.queued + Uses(m)'.windows = Uses(m).queued + Uses(m).windows + q
    BY <2>1, <2>2 DEF UsesType
  <2> QED
    BY <1>8, <1>9, <2>3 DEF MessageType
<1> HIDE DEF q
<1>11. /\ InTypes(g) => InTypes(f)
       /\ f.pc \in PublisherPcs \ {"count"} /\ g.pc \in PublisherPcs \ {"count"}
       /\ cs_msg' \in Threads \cup {NoThread} /\ cs_msg' = t
  BY <1>1, <1>2, <1>4, <1>7 DEF InTypes, PublisherPcs
<1>12. /\ QueuesOK' /\ WindowsOK' /\ wq'[Compl] = <<>>
       /\ \A x \in Msgs : /\ IsFiniteSet(QueuedTo(x, Queues)') /\ IsFiniteSet(QueuedTo(x, wq)')
                          /\ Uses(x)'.queued = Uses(x).queued
                          /\ Uses(x)'.windows = Uses(x).windows
  BY <1>7, SameQueues, SameWindows
<1>13. /\ wait_o' \in [Threads -> {"clear", "set", "closed"}]
       /\ last_msg' \in [Threads -> Msgs \cup {NoMsg}]
  BY <1>7, InvParts
<1> DEFINE r == msg[m]
<1>14. /\ r \in MessageType /\ msg' = [msg EXCEPT ![m] = r] /\ r.state = msg[m].state
       /\ r.refcount = msg[m].refcount + q + Weight(g.pc) - Weight(f.pc)
       /\ r.nSent - r.nCompleted - r.nFailed
            = msg[m].nSent - msg[m].nCompleted - msg[m].nFailed + q + Pending(g.pc) - Pending(f.pc)
  BY <1>8, <1>10
<1>15. /\ (UNCHANGED <<queue, wait_o>> /\ wq'[Compl] = <<>>) \/ QueuesShape'
       /\ cs_msg' = cs_msg \/ cs_msg \in {t, NoThread}
       /\ g.pc \in {"publish", "put"} => cs_msg' = t
  BY <1>7, <1>11, <1>12
<1>16. \/ UNCHANGED types /\ (InTypes(g) => InTypes(f))
       \/ EnterTypes(t) /\ TypesFree(t)
       \/ LeaveTypes /\ InTypes(f) /\ ~InTypes(g)
  BY <1>7, <1>11
<1>17. UNCHANGED <<handles, deleted, xfer>>
  BY <1>7
<1> HIDE DEF r
<1>18. Publishes(t, m, g, r, q)
  BY <1>1, <1>3, <1>4, <1>5, <1>6, <1>10, <1>11, <1>12, <1>13, <1>14, <1>15, <1>16, <1>17
     DEF Publishes
<1> QED
  BY <1>4, <1>10, <1>14, <1>18, PublishStep

LEMMA AddRefIs ==
    ASSUME NEW m \in Msgs, msg[m] \in MessageType
    PROVE  /\ AddRef(m) \in MessageType /\ AddRef(m).state = msg[m].state
           /\ AddRef(m).refcount = msg[m].refcount + 1 /\ AddRef(m).nSent = msg[m].nSent + 1
           /\ AddRef(m).nCompleted = msg[m].nCompleted /\ AddRef(m).nFailed = msg[m].nFailed
<1> DEFINE a == msg[m].refcount + 1
           b == msg[m].nSent + 1
<1>1. a \in Nat /\ b \in Nat
  BY DEF MessageType
<1>2. AddRef(m) = [msg[m] EXCEPT !.refcount = a, !.nSent = b]
  BY DEF AddRef
<1> HIDE DEF a, b
<1> DEFINE s == msg[m]
           r == [s EXCEPT !.refcount = a, !.nSent = b]
<1>3. s \in MessageType
  OBVIOUS
<1> HIDE DEF s
<1>4. /\ r \in MessageType /\ r.state = s.state /\ r.refcount = a /\ r.nSent = b
      /\ r.nCompleted = s.nCompleted /\ r.nFailed = s.nFailed
  BY <1>1, <1>3 DEF MessageType
<1> QED
  BY <1>2, <1>4 DEF a, b, s

LEMMA AddWindowRefsIs ==
    ASSUME NEW m \in Msgs, msg[m] \in MessageType
    PROVE  LET r == AddWindowRefs(m) IN
           /\ r \in MessageType /\ r.state = msg[m].state
           /\ r.refcount = msg[m].refcount + 2 /\ r.nSent = msg[m].nSent
           /\ r.nCompleted = msg[m].nCompleted /\ r.nFailed = msg[m].nFailed
BY DEF AddWindowRefs, MessageType

LEMMA CountWindowIs ==
    ASSUME NEW m \in Msgs, msg[m] \in MessageType, msg[m].refcount >= 1
    PROVE  LET r == CountWindow(m) IN
           /\ r \in MessageType /\ r.state = msg[m].state
           /\ r.refcount = msg[m].refcount - 1 /\ r.nSent = msg[m].nSent + 1
           /\ r.nCompleted = msg[m].nCompleted /\ r.nFailed = msg[m].nFailed
<1> DEFINE a == msg[m].refcount - 1
           b == msg[m].nSent + 1
<1>1. a \in Nat /\ b \in Nat
  BY DEF MessageType
<1>2. CountWindow(m) = [msg[m] EXCEPT !.refcount = a, !.nSent = b]
  BY DEF CountWindow
<1> HIDE DEF a, b
<1> DEFINE s == msg[m]
           r == [s EXCEPT !.refcount = a, !.nSent = b]
<1>3. s \in MessageType
  OBVIOUS
<1> HIDE DEF s
<1>4. /\ r \in MessageType /\ r.state = s.state /\ r.refcount = a /\ r.nSent = b
      /\ r.nCompleted = s.nCompleted /\ r.nFailed = s.nFailed
  BY <1>1, <1>3 DEF MessageType
<1> QED
  BY <1>2, <1>4 DEF a, b, s

LEMMA FinishedIs ==
    ASSUME NEW s \in MessageType, NEW ok \in BOOLEAN, s.refcount >= 1
    PROVE  LET r == Finished(s, ok) IN
           /\ r \in MessageType /\ r.state = s.state /\ r.refcount = s.refcount - 1
           /\ r.nSent = s.nSent
           /\ \/ r.nCompleted = s.nCompleted + 1 /\ r.nFailed = s.nFailed
              \/ r.nCompleted = s.nCompleted /\ r.nFailed = s.nFailed + 1
<1> DEFINE w == [s EXCEPT !.refcount = @ - 1]
<1>1. /\ w \in MessageType /\ w.state = s.state /\ w.refcount = s.refcount - 1 /\ w.nSent = s.nSent
      /\ w.nCompleted = s.nCompleted /\ w.nFailed = s.nFailed
  BY DEF MessageType
<1>2. Finished(s, ok) = IF ok THEN [w EXCEPT !.nCompleted = w.nCompleted + 1]
                              ELSE [w EXCEPT !.nFailed = w.nFailed + 1]
  BY DEF Finished, Counted
<1> HIDE DEF w
<1>3. CASE ok
  BY <1>1, <1>2, <1>3 DEF MessageType
<1>4. CASE ~ok
  BY <1>1, <1>2, <1>4 DEF MessageType
<1> QED
  BY <1>3, <1>4

LEMMA PostPutStep ==
    ASSUME Inv, NEW t \in Threads, PostPut(t)
    PROVE  Inv'
<1> DEFINE f == Top(t)
           g == [f EXCEPT !.pc = "publish", !.i = f.i + 1, !.calls = 0]
<1>1. stack[t] # <<>> /\ f.pc = "put"
  BY DEF PostPut, AtSub, At
<1>2. /\ f \in FrameType /\ f.m \in Msgs /\ FrameOK(t, Len(stack[t]), f) /\ ~deleted[t]
      /\ f.pc \in {"publish", "put"} => cs_msg = t
      /\ f.i <= Len(Subs)
  <2>1. /\ f \in FrameType /\ f.m \in Msgs /\ FrameOK(t, Len(stack[t]), f) /\ ~deleted[t]
        /\ f.pc \in {"publish", "put"} => cs_msg = t
    BY <1>1, PostingFacts DEF PublisherPcs
  <2> QED
    BY <1>1, <2>1 DEF PostPut, AtSub, FrameOK
<1>3. PICK m \in Msgs : f.m = m
  BY <1>2
<1>4. g \in FrameType /\ g.pc = "publish" /\ g.m = m /\ g.api = f.api
  <2>1. "publish" \in Pcs
    BY DEF Pcs
  <2> QED
    BY <1>1, <1>2, <1>3, <2>1, NextSubFrame
<1>5. FrameOK(t, Len(stack[t]), g)
  BY <1>1, <1>2, <1>3, <1>4, CallAssumption DEF FrameOK, CallPcs, BottomPcs, TrySend, Posts
<1>6. Changes(t, g)
  BY <1>1 DEF PostPut, Changes, NextSub, Goto, Moved
<1> HIDE DEF g
<1> DEFINE r == AddRef(m)
           q == 1
<1>7. /\ msg' = [msg EXCEPT ![m] = r]
      /\ UNCHANGED <<handles, deleted, xfer, last_msg>>
  BY <1>3 DEF PostPut
<1>8. /\ msg[m] \in MessageType /\ msg[m].state = "active"
  <2>1. StackShape' /\ Shifts(t, Len(stack[t]), f, g)
    BY <1>4, <1>5, <1>6, InvParts, ChangeStep
  <2>2. f.pc \in PublisherPcs \ {"count"} /\ g.pc \in PublisherPcs \ {"count"}
    BY <1>1, <1>4 DEF PublisherPcs
  <2>3. msg[m].state = "active"
    BY <1>3, <1>4, <2>1, <2>2, InvParts, PublishUses
  <2> QED
    BY <2>3, InvParts DEF MsgsOK
<1>9. /\ Weight(g.pc) = 0 /\ Weight(f.pc) = 0
      /\ Pending(g.pc) = 0 /\ Pending(f.pc) = 0
  BY <1>1, <1>4, Weights
<1>10. /\ r \in MessageType /\ r.state = msg[m].state /\ q \in Int
       /\ r.refcount = msg[m].refcount + q + Weight(g.pc) - Weight(f.pc)
       /\ r.nSent - r.nCompleted - r.nFailed
            = msg[m].nSent - msg[m].nCompleted - msg[m].nFailed + q + Pending(g.pc) - Pending(f.pc)
  <2>1. /\ msg[m].refcount \in Nat /\ msg[m].nSent \in Nat /\ msg[m].nCompleted \in Nat
        /\ msg[m].nFailed \in Nat /\ q \in Int
    BY <1>8 DEF MessageType
  <2>2. /\ r \in MessageType /\ r.state = msg[m].state /\ r.refcount = msg[m].refcount + 1
        /\ r.nSent = msg[m].nSent + 1 /\ r.nCompleted = msg[m].nCompleted
        /\ r.nFailed = msg[m].nFailed
    BY <1>8, AddRefIs
  <2> HIDE DEF r
  <2> QED
    BY <1>9, <2>1, <2>2
<1> HIDE DEF r
<1>11. /\ QueuesShape' /\ QueuesOK' /\ WindowsOK'
       /\ wait_o' \in [Threads -> {"clear", "set", "closed"}]
       /\ Uses(m)'.queued + Uses(m)'.windows = Uses(m).queued + Uses(m).windows + q
       /\ \A x \in Msgs : IsFiniteSet(QueuedTo(x, Queues)') /\ IsFiniteSet(QueuedTo(x, wq)')
       /\ \A x \in Msgs \ {m} : /\ Uses(x)'.queued = Uses(x).queued
                                /\ Uses(x)'.windows = Uses(x).windows
  <2> DEFINE s == Sub(t).thread
             e == [m |-> m, sub |-> f.i]
  <2>1. s \in Threads \ {Compl} /\ e \in Entry /\ e.m = m
    BY <1>1, <1>2, AtSubFacts DEF Entry
  <2>2. Enqueue(s, m, f.i) /\ UNCHANGED <<deleted, wq>>
    BY <1>3 DEF PostPut
  <2>3. queue' = [queue EXCEPT ![s] = Append(@, e)]
    BY <2>2 DEF Enqueue
  <2> HIDE DEF e, s
  <2>4. /\ QueuesOK' /\ queue'[s] # <<>> /\ Len(queue'[s]) = Len(queue[s]) + 1
        /\ \A x \in Msgs : /\ IsFiniteSet(QueuedTo(x, Queues)')
                           /\ Cardinality(QueuedTo(x, Queues)')
                                = Cardinality(QueuedTo(x, Queues)) + OneIf(x = m)
    BY <2>1, <2>3, InvParts, QueuePut
  <2>5. \A x \in Msgs : Uses(x)'.queued = Uses(x).queued + OneIf(x = m)
    BY <2>4 DEF Uses
  <2>6. \A x \in Msgs : Uses(x) \in UsesType
    BY InvParts, UsesTyped
  <2>7. /\ WindowsOK'
        /\ \A x \in Msgs : Uses(x)'.windows = Uses(x).windows /\ IsFiniteSet(QueuedTo(x, wq)')
    BY <2>2, SameWindows
  <2>8. Shifts(t, Len(stack[t]), f, g)
    BY <1>4, <1>5, <1>6, InvParts, ChangeStep
  <2>9. QueuesShape' /\ wait_o' \in [Threads -> {"clear", "set", "closed"}]
    BY <1>2, <1>4, <2>1, <2>2, <2>4, <2>8, InvParts, EnqueueShape
  <2>10. Uses(m)'.queued + Uses(m)'.windows = Uses(m).queued + Uses(m).windows + q
    <3>1. Uses(m)'.queued = Uses(m).queued + 1 /\ Uses(m)'.windows = Uses(m).windows
      BY <2>5, <2>7 DEF OneIf
    <3> QED
      BY <2>6, <3>1 DEF UsesType
  <2>11. \A x \in Msgs \ {m} : Uses(x)'.queued = Uses(x).queued
    <3>1. \A x \in Msgs \ {m} : Uses(x)'.queued = Uses(x).queued + 0
      BY <2>5 DEF OneIf
    <3> QED
      BY <2>6, <3>1 DEF UsesType
  <2> QED
    BY <2>4, <2>7, <2>9, <2>10, <2>11
<1> HIDE DEF q
<1>12. /\ f.pc \in PublisherPcs \ {"count"} /\ g.pc \in PublisherPcs \ {"count"}
       /\ cs_msg' \in Threads \cup {NoThread}
       /\ cs_msg' = cs_msg \/ cs_msg \in {t, NoThread}
       /\ g.pc \in {"publish", "put"} => cs_msg' = t
  BY <1>1, <1>2, <1>4 DEF PostPut, PublisherPcs
<1>13. \/ UNCHANGED types /\ (InTypes(g) => InTypes(f))
       \/ EnterTypes(t) /\ TypesFree(t)
       \/ LeaveTypes /\ InTypes(f) /\ ~InTypes(g)
  BY <1>1, <1>2, <1>4 DEF PostPut, InTypes, HoldsTypes, TrySend
<1>14. last_msg' \in [Threads -> Msgs \cup {NoMsg}]
  BY <1>3, InvParts DEF PostPut
<1>15. /\ (UNCHANGED <<queue, wait_o>> /\ wq'[Compl] = <<>>) \/ QueuesShape'
       /\ UNCHANGED <<handles, deleted, xfer>>
  BY <1>7, <1>11
<1>16. stack[t] # <<>> /\ g \in FrameType /\ g.m = m /\ g.api = f.api
  BY <1>1, <1>4
<1>17. msg' = [msg EXCEPT ![m] = r]
  BY <1>7
<1>18. Publishes(t, m, g, r, q)
  BY <1>3, <1>5, <1>6, <1>10, <1>11, <1>12, <1>13, <1>14, <1>15, <1>16, <1>17 DEF Publishes
<1> QED
  BY <1>10, <1>16, <1>18, PublishStep

LEMMA PostDirectStep ==
    ASSUME Inv, NEW t \in Threads, PostDirect(t)
    PROVE  Inv'
<1> DEFINE f == Top(t)
           g == [f EXCEPT !.pc = "direct", !.calls = 0]
<1>1. stack[t] # <<>> /\ f.pc = "publish"
  BY DEF PostDirect, AtSub, At
<1>2. /\ f \in FrameType /\ f.m \in Msgs /\ FrameOK(t, Len(stack[t]), f) /\ ~deleted[t]
      /\ f.pc \in {"publish", "put"} => cs_msg = t
      /\ f.i <= Len(Subs) /\ TrySend(f.api)
  <2>1. /\ f \in FrameType /\ f.m \in Msgs /\ FrameOK(t, Len(stack[t]), f) /\ ~deleted[t]
        /\ f.pc \in {"publish", "put"} => cs_msg = t
    BY <1>1, PostingFacts DEF PublisherPcs
  <2> QED
    BY <1>1, <2>1 DEF PostDirect, AtSub, FrameOK, Direct
<1>3. PICK m \in Msgs : f.m = m
  BY <1>2
<1>4. g \in FrameType /\ g.pc = "direct" /\ g.m = m /\ g.api = f.api /\ g.i = f.i
  <2>1. "direct" \in Pcs
    BY DEF Pcs
  <2> QED
    BY <1>1, <1>2, <1>3, <2>1, MovedFrame
<1>5. FrameOK(t, Len(stack[t]), g)
  BY <1>1, <1>2, <1>3, <1>4, CallAssumption DEF FrameOK, CallPcs, BottomPcs, TrySend, Posts
<1>6. Changes(t, g)
  BY <1>1 DEF PostDirect, Changes, NextSub, Goto, Moved
<1> HIDE DEF g
<1> DEFINE r == AddRef(m)
           q == 0
<1>7. /\ msg' = [msg EXCEPT ![m] = r]
      /\ UNCHANGED <<handles, deleted, xfer, queue, wait_o, wq>>
  BY <1>3 DEF PostDirect
<1>8. /\ msg[m] \in MessageType /\ msg[m].state = "active"
  <2>1. StackShape' /\ Shifts(t, Len(stack[t]), f, g)
    BY <1>4, <1>5, <1>6, InvParts, ChangeStep
  <2>2. f.pc \in PublisherPcs \ {"count"} /\ g.pc \in PublisherPcs \ {"count"}
    BY <1>1, <1>4 DEF PublisherPcs
  <2>3. msg[m].state = "active"
    BY <1>3, <1>4, <2>1, <2>2, InvParts, PublishUses
  <2> QED
    BY <2>3, InvParts DEF MsgsOK
<1>9. /\ Weight(g.pc) = 1 /\ Weight(f.pc) = 0
      /\ Pending(g.pc) = 1 /\ Pending(f.pc) = 0
  BY <1>1, <1>4, Weights
<1>10. /\ r \in MessageType /\ r.state = msg[m].state /\ q \in Int
       /\ r.refcount = msg[m].refcount + q + Weight(g.pc) - Weight(f.pc)
       /\ r.nSent - r.nCompleted - r.nFailed
            = msg[m].nSent - msg[m].nCompleted - msg[m].nFailed + q + Pending(g.pc) - Pending(f.pc)
  <2>1. /\ msg[m].refcount \in Nat /\ msg[m].nSent \in Nat /\ msg[m].nCompleted \in Nat
        /\ msg[m].nFailed \in Nat /\ q \in Int
    BY <1>8 DEF MessageType
  <2>2. /\ r \in MessageType /\ r.state = msg[m].state /\ r.refcount = msg[m].refcount + 1
        /\ r.nSent = msg[m].nSent + 1 /\ r.nCompleted = msg[m].nCompleted
        /\ r.nFailed = msg[m].nFailed
    BY <1>8, AddRefIs
  <2> HIDE DEF r
  <2> QED
    BY <1>9, <2>1, <2>2
<1> HIDE DEF r
<1>11. /\ UNCHANGED <<queue, wait_o>> /\ wq'[Compl] = <<>>
       /\ QueuesOK' /\ WindowsOK' /\ wait_o' \in [Threads -> {"clear", "set", "closed"}]
       /\ Uses(m)'.queued + Uses(m)'.windows = Uses(m).queued + Uses(m).windows + q
       /\ \A x \in Msgs : IsFiniteSet(QueuedTo(x, Queues)') /\ IsFiniteSet(QueuedTo(x, wq)')
       /\ \A x \in Msgs \ {m} : /\ Uses(x)'.queued = Uses(x).queued
                                /\ Uses(x)'.windows = Uses(x).windows
  <2>1. Uses(m) \in UsesType
    BY InvParts, UsesTyped
  <2>2. Uses(m)'.queued = Uses(m).queued /\ Uses(m)'.windows = Uses(m).windows
    BY <1>7, SameQueues, SameWindows
  <2>3. Uses(m)'.queued + Uses(m)'.windows = Uses(m).queued + Uses(m).windows + q
    BY <2>1, <2>2 DEF UsesType
  <2> QED
    BY <1>7, <2>3, InvParts, SameQueues, SameWindows
<1> HIDE DEF q
<1>12. /\ f.pc \in PublisherPcs \ {"count"} /\ g.pc \in PublisherPcs \ {"count"}
       /\ cs_msg' \in Threads \cup {NoThread}
       /\ cs_msg' = cs_msg \/ cs_msg \in {t, NoThread}
       /\ g.pc \in {"publish", "put"} => cs_msg' = t
  BY <1>1, <1>2, <1>4 DEF PostDirect, PublisherPcs
<1>13. \/ UNCHANGED types /\ (InTypes(g) => InTypes(f))
       \/ EnterTypes(t) /\ TypesFree(t)
       \/ LeaveTypes /\ InTypes(f) /\ ~InTypes(g)
  BY <1>1, <1>2, <1>4 DEF PostDirect, InTypes, HoldsTypes, TrySend
<1>14. last_msg' \in [Threads -> Msgs \cup {NoMsg}]
  BY <1>3, InvParts DEF PostDirect
<1>15. /\ (UNCHANGED <<queue, wait_o>> /\ wq'[Compl] = <<>>) \/ QueuesShape'
       /\ UNCHANGED <<handles, deleted, xfer>>
  BY <1>7, <1>11
<1>16. stack[t] # <<>> /\ g \in FrameType /\ g.m = m /\ g.api = f.api
  BY <1>1, <1>4
<1>17. msg' = [msg EXCEPT ![m] = r]
  BY <1>7
<1>18. Publishes(t, m, g, r, q)
  BY <1>3, <1>5, <1>6, <1>10, <1>11, <1>12, <1>13, <1>14, <1>15, <1>16, <1>17 DEF Publishes
<1> QED
  BY <1>10, <1>16, <1>18, PublishStep

LEMMA DirectReturnStep ==
    ASSUME Inv, NEW t \in Threads, NEW ok \in BOOLEAN, DirectReturn(t, ok)
    PROVE  Inv'
<1> DEFINE f == Top(t)
           g == [f EXCEPT !.pc = "publish", !.i = f.i + 1, !.calls = 0]
<1>1. stack[t] # <<>> /\ f.pc = "direct"
  BY DEF DirectReturn, AtSub, At
<1>2. /\ f \in FrameType /\ f.m \in Msgs /\ FrameOK(t, Len(stack[t]), f) /\ ~deleted[t]
      /\ f.pc \in {"publish", "put"} => cs_msg = t
      /\ f.i <= Len(Subs) /\ TrySend(f.api)
  <2>1. /\ f \in FrameType /\ f.m \in Msgs /\ FrameOK(t, Len(stack[t]), f) /\ ~deleted[t]
        /\ f.pc \in {"publish", "put"} => cs_msg = t
    BY <1>1, PostingFacts DEF PublisherPcs
  <2> QED
    BY <1>1, <2>1 DEF DirectReturn, AtSub, FrameOK
<1>3. PICK m \in Msgs : f.m = m
  BY <1>2
<1>4. g \in FrameType /\ g.pc = "publish" /\ g.m = m /\ g.api = f.api
  <2>1. "publish" \in Pcs
    BY DEF Pcs
  <2> QED
    BY <1>1, <1>2, <1>3, <2>1, NextSubFrame
<1>5. FrameOK(t, Len(stack[t]), g)
  BY <1>1, <1>2, <1>3, <1>4, CallAssumption DEF FrameOK, CallPcs, BottomPcs, TrySend, Posts
<1>6. Changes(t, g)
  BY <1>1 DEF DirectReturn, Changes, NextSub, Goto, Moved
<1> HIDE DEF g
<1> DEFINE r == Finished(msg[m], ok)
           q == 0
<1>7. /\ msg' = [msg EXCEPT ![m] = r]
      /\ UNCHANGED <<handles, deleted, xfer, queue, wait_o, wq>>
  BY <1>3 DEF DirectReturn
<1>8. /\ msg[m] \in MessageType /\ msg[m].state = "active" /\ msg[m].refcount >= 1
  <2>1. StackShape' /\ Shifts(t, Len(stack[t]), f, g)
    BY <1>4, <1>5, <1>6, InvParts, ChangeStep
  <2>2. f.pc \in PublisherPcs \ {"count"} /\ g.pc \in PublisherPcs \ {"count"}
    BY <1>1, <1>4 DEF PublisherPcs
  <2>3. msg[m].state = "active"
    BY <1>3, <1>4, <2>1, <2>2, InvParts, PublishUses
  <2>4. Cardinality(FramesOf(m, RecipientPcs)) >= 1
    BY <1>1, <1>3, <2>1, InvParts, PcsParts, Present DEF RecipientPcs
  <2>5. Uses(m).running >= 1 /\ Uses(m) \in UsesType
    BY <2>4, InvParts, UsesTyped DEF Uses
  <2>6. Balanced(msg[m], Uses(m))
    BY InvParts DEF Ledger
  <2>7. msg[m] \in MessageType
    BY InvParts DEF MsgsOK
  <2> DEFINE u == Uses(m)
  <2>8. /\ u.queued \in Nat /\ u.windows \in Nat /\ u.running \in Nat /\ u.own \in Nat
        /\ u.done \in Nat /\ u.handles \in Nat /\ u.keepers \in Nat /\ u.running >= 1
        /\ msg[m].refcount = UsedBy(u) + 2 * u.own + u.done + u.handles + u.keepers
    BY <2>3, <2>5, <2>6 DEF Balanced, UsesType
  <2> HIDE DEF u
  <2>9. msg[m].refcount >= 1
    BY <2>8 DEF UsedBy
  <2> QED
    BY <2>3, <2>7, <2>9
<1>9. /\ Weight(g.pc) = 0 /\ Weight(f.pc) = 1
      /\ Pending(g.pc) = 0 /\ Pending(f.pc) = 1
  BY <1>1, <1>4, Weights
<1>10. /\ r \in MessageType /\ r.state = msg[m].state /\ q \in Int
       /\ r.refcount = msg[m].refcount + q + Weight(g.pc) - Weight(f.pc)
       /\ r.nSent - r.nCompleted - r.nFailed
            = msg[m].nSent - msg[m].nCompleted - msg[m].nFailed + q + Pending(g.pc) - Pending(f.pc)
  <2>1. /\ msg[m].refcount \in Nat /\ msg[m].nSent \in Nat /\ msg[m].nCompleted \in Nat
        /\ msg[m].nFailed \in Nat
    BY <1>8 DEF MessageType
  <2>2. /\ r \in MessageType /\ r.state = msg[m].state /\ r.refcount = msg[m].refcount - 1
        /\ r.nSent = msg[m].nSent
        /\ \/ r.nCompleted = msg[m].nCompleted + 1 /\ r.nFailed = msg[m].nFailed
           \/ r.nCompleted = msg[m].nCompleted /\ r.nFailed = msg[m].nFailed + 1
    BY <1>8, <2>1, FinishedIs
  <2> HIDE DEF r
  <2> QED
    BY <1>9, <2>1, <2>2
<1> HIDE DEF r
<1>11. /\ UNCHANGED <<queue, wait_o>> /\ wq'[Compl] = <<>>
       /\ QueuesOK' /\ WindowsOK' /\ wait_o' \in [Threads -> {"clear", "set", "closed"}]
       /\ Uses(m)'.queued + Uses(m)'.windows = Uses(m).queued + Uses(m).windows + q
       /\ \A x \in Msgs : IsFiniteSet(QueuedTo(x, Queues)') /\ IsFiniteSet(QueuedTo(x, wq)')
       /\ \A x \in Msgs \ {m} : /\ Uses(x)'.queued = Uses(x).queued
                                /\ Uses(x)'.windows = Uses(x).windows
  <2>1. Uses(m) \in UsesType
    BY InvParts, UsesTyped
  <2>2. Uses(m)'.queued = Uses(m).queued /\ Uses(m)'.windows = Uses(m).windows
    BY <1>7, SameQueues, SameWindows
  <2>3. Uses(m)'.queued + Uses(m)'.windows = Uses(m).queued + Uses(m).windows + q
    BY <2>1, <2>2 DEF UsesType
  <2> QED
    BY <1>7, <2>3, InvParts, SameQueues, SameWindows
<1> HIDE DEF q
<1>12. /\ f.pc \in PublisherPcs \ {"count"} /\ g.pc \in PublisherPcs \ {"count"}
       /\ cs_msg' \in Threads \cup {NoThread}
       /\ cs_msg' = cs_msg \/ cs_msg \in {t, NoThread}
       /\ g.pc \in {"publish", "put"} => cs_msg' = t
  BY <1>1, <1>2, <1>4 DEF DirectReturn, PublisherPcs
<1>13. \/ UNCHANGED types /\ (InTypes(g) => InTypes(f))
       \/ EnterTypes(t) /\ TypesFree(t)
       \/ LeaveTypes /\ InTypes(f) /\ ~InTypes(g)
  BY <1>1, <1>2, <1>4 DEF DirectReturn, InTypes, HoldsTypes, TrySend
<1>14. last_msg' \in [Threads -> Msgs \cup {NoMsg}]
  BY <1>3, InvParts DEF DirectReturn
<1>15. /\ (UNCHANGED <<queue, wait_o>> /\ wq'[Compl] = <<>>) \/ QueuesShape'
       /\ UNCHANGED <<handles, deleted, xfer>>
  BY <1>7, <1>11
<1>16. stack[t] # <<>> /\ g \in FrameType /\ g.m = m /\ g.api = f.api
  BY <1>1, <1>4
<1>17. msg' = [msg EXCEPT ![m] = r]
  BY <1>7
<1>18. Publishes(t, m, g, r, q)
  BY <1>3, <1>5, <1>6, <1>10, <1>11, <1>12, <1>13, <1>14, <1>15, <1>16, <1>17 DEF Publishes
<1> QED
  BY <1>10, <1>16, <1>18, PublishStep

LEMMA PostWindowStep ==
    ASSUME Inv, NEW t \in Threads, PostWindow(t)
    PROVE  Inv'
<1> DEFINE f == Top(t)
           g == [f EXCEPT !.pc = "publish", !.i = f.i + 1, !.calls = 0]
<1>1. stack[t] # <<>> /\ f.pc = "publish"
  BY DEF PostWindow, AtSub, At
<1>2. /\ f \in FrameType /\ f.m \in Msgs /\ FrameOK(t, Len(stack[t]), f) /\ ~deleted[t]
      /\ f.pc \in {"publish", "put"} => cs_msg = t
      /\ f.i <= Len(Subs)
  <2>1. /\ f \in FrameType /\ f.m \in Msgs /\ FrameOK(t, Len(stack[t]), f) /\ ~deleted[t]
        /\ f.pc \in {"publish", "put"} => cs_msg = t
    BY <1>1, PostingFacts DEF PublisherPcs
  <2> QED
    BY <1>1, <2>1 DEF PostWindow, AtSub, FrameOK
<1>3. PICK m \in Msgs : f.m = m
  BY <1>2
<1>4. g \in FrameType /\ g.pc = "publish" /\ g.m = m /\ g.api = f.api
  <2>1. "publish" \in Pcs
    BY DEF Pcs
  <2> QED
    BY <1>1, <1>2, <1>3, <2>1, NextSubFrame
<1>5. FrameOK(t, Len(stack[t]), g)
  BY <1>1, <1>2, <1>3, <1>4, CallAssumption DEF FrameOK, CallPcs, BottomPcs, TrySend, Posts
<1>6. Changes(t, g)
  BY <1>1 DEF PostWindow, Changes, NextSub, Goto, Moved
<1> HIDE DEF g
<1> DEFINE r == AddRef(m)
           q == 1
<1>7. /\ msg' = [msg EXCEPT ![m] = r]
      /\ UNCHANGED <<handles, deleted, xfer, queue, wait_o, last_msg>>
  BY <1>3 DEF PostWindow
<1>8. /\ msg[m] \in MessageType /\ msg[m].state = "active"
  <2>1. StackShape' /\ Shifts(t, Len(stack[t]), f, g)
    BY <1>4, <1>5, <1>6, InvParts, ChangeStep
  <2>2. f.pc \in PublisherPcs \ {"count"} /\ g.pc \in PublisherPcs \ {"count"}
    BY <1>1, <1>4 DEF PublisherPcs
  <2>3. msg[m].state = "active"
    BY <1>3, <1>4, <2>1, <2>2, InvParts, PublishUses
  <2> QED
    BY <2>3, InvParts DEF MsgsOK
<1>9. /\ Weight(g.pc) = 0 /\ Weight(f.pc) = 0
      /\ Pending(g.pc) = 0 /\ Pending(f.pc) = 0
  BY <1>1, <1>4, Weights
<1>10. /\ r \in MessageType /\ r.state = msg[m].state /\ q \in Int
       /\ r.refcount = msg[m].refcount + q + Weight(g.pc) - Weight(f.pc)
       /\ r.nSent - r.nCompleted - r.nFailed
            = msg[m].nSent - msg[m].nCompleted - msg[m].nFailed + q + Pending(g.pc) - Pending(f.pc)
  <2>1. /\ msg[m].refcount \in Nat /\ msg[m].nSent \in Nat /\ msg[m].nCompleted \in Nat
        /\ msg[m].nFailed \in Nat /\ q \in Int
    BY <1>8 DEF MessageType
  <2>2. /\ r \in MessageType /\ r.state = msg[m].state /\ r.refcount = msg[m].refcount + 1
        /\ r.nSent = msg[m].nSent + 1 /\ r.nCompleted = msg[m].nCompleted
        /\ r.nFailed = msg[m].nFailed
    BY <1>8, AddRefIs
  <2> HIDE DEF r
  <2> QED
    BY <1>9, <2>1, <2>2
<1> HIDE DEF r
<1>11. /\ UNCHANGED <<queue, wait_o>> /\ wq'[Compl] = <<>>
       /\ QueuesOK' /\ WindowsOK' /\ wait_o' \in [Threads -> {"clear", "set", "closed"}]
       /\ Uses(m)'.queued + Uses(m)'.windows = Uses(m).queued + Uses(m).windows + q
       /\ \A x \in Msgs : IsFiniteSet(QueuedTo(x, Queues)') /\ IsFiniteSet(QueuedTo(x, wq)')
       /\ \A x \in Msgs \ {m} : /\ Uses(x)'.queued = Uses(x).queued
                                /\ Uses(x)'.windows = Uses(x).windows
  <2> DEFINE s == Sub(t).thread
  <2>1. s \in Threads \ {Compl}
    BY <1>1, <1>2, AtSubFacts
  <2>2. wq' = [wq EXCEPT ![s] = Append(@, m)]
    BY <1>3 DEF PostWindow
  <2> HIDE DEF s
  <2>3. /\ WindowsOK'
        /\ \A x \in Msgs : /\ IsFiniteSet(QueuedTo(x, wq)')
                           /\ Cardinality(QueuedTo(x, wq)')
                                = Cardinality(QueuedTo(x, wq)) + OneIf(x = m)
    BY <2>1, <2>2, InvParts, WindowPut, ZenonT(60)
  <2>4. \A x \in Msgs : Uses(x)'.windows = Uses(x).windows + OneIf(x = m)
    BY <2>3 DEF Uses
  <2>5. \A x \in Msgs : Uses(x) \in UsesType
    BY InvParts, UsesTyped
  <2>6. /\ QueuesOK'
        /\ \A x \in Msgs : Uses(x)'.queued = Uses(x).queued /\ IsFiniteSet(QueuedTo(x, Queues)')
    BY <1>7, SameQueues
  <2>7. wq'[Compl] = <<>>
    BY <2>1, <2>2, InvParts, CallAssumption DEF WindowsOK, QueuesShape
  <2>8. Uses(m)'.queued + Uses(m)'.windows = Uses(m).queued + Uses(m).windows + q
    <3>1. Uses(m)'.windows = Uses(m).windows + 1 /\ Uses(m)'.queued = Uses(m).queued
      BY <2>4, <2>6 DEF OneIf
    <3> QED
      BY <2>5, <3>1 DEF UsesType
  <2>9. \A x \in Msgs \ {m} : Uses(x)'.windows = Uses(x).windows
    <3>1. \A x \in Msgs \ {m} : Uses(x)'.windows = Uses(x).windows + 0
      BY <2>4 DEF OneIf
    <3> QED
      BY <2>5, <3>1 DEF UsesType
  <2> QED
    BY <1>7, <2>3, <2>6, <2>7, <2>8, <2>9, InvParts
<1> HIDE DEF q
<1>12. /\ f.pc \in PublisherPcs \ {"count"} /\ g.pc \in PublisherPcs \ {"count"}
       /\ cs_msg' \in Threads \cup {NoThread}
       /\ cs_msg' = cs_msg \/ cs_msg \in {t, NoThread}
       /\ g.pc \in {"publish", "put"} => cs_msg' = t
  BY <1>1, <1>2, <1>4 DEF PostWindow, PublisherPcs
<1>13. \/ UNCHANGED types /\ (InTypes(g) => InTypes(f))
       \/ EnterTypes(t) /\ TypesFree(t)
       \/ LeaveTypes /\ InTypes(f) /\ ~InTypes(g)
  BY <1>1, <1>2, <1>4 DEF PostWindow, InTypes, HoldsTypes, TrySend
<1>14. last_msg' \in [Threads -> Msgs \cup {NoMsg}]
  BY <1>3, InvParts DEF PostWindow
<1>15. /\ (UNCHANGED <<queue, wait_o>> /\ wq'[Compl] = <<>>) \/ QueuesShape'
       /\ UNCHANGED <<handles, deleted, xfer>>
  BY <1>7, <1>11
<1>16. stack[t] # <<>> /\ g \in FrameType /\ g.m = m /\ g.api = f.api
  BY <1>1, <1>4
<1>17. msg' = [msg EXCEPT ![m] = r]
  BY <1>7
<1>18. Publishes(t, m, g, r, q)
  BY <1>3, <1>5, <1>6, <1>10, <1>11, <1>12, <1>13, <1>14, <1>15, <1>16, <1>17 DEF Publishes
<1> QED
  BY <1>10, <1>16, <1>18, PublishStep

LEMMA PostSendWindowStep ==
    ASSUME Inv, NEW t \in Threads, PostSendWindow(t)
    PROVE  Inv'
<1> DEFINE f == Top(t)
           g == [f EXCEPT !.pc = "window", !.calls = 0]
<1>1. stack[t] # <<>> /\ f.pc = "publish"
  BY DEF PostSendWindow, AtSub, At
<1>2. /\ f \in FrameType /\ f.m \in Msgs /\ FrameOK(t, Len(stack[t]), f) /\ ~deleted[t]
      /\ f.pc \in {"publish", "put"} => cs_msg = t
      /\ f.i <= Len(Subs) /\ TrySend(f.api)
  <2>1. /\ f \in FrameType /\ f.m \in Msgs /\ FrameOK(t, Len(stack[t]), f) /\ ~deleted[t]
        /\ f.pc \in {"publish", "put"} => cs_msg = t
    BY <1>1, PostingFacts DEF PublisherPcs
  <2> QED
    BY <1>1, <2>1 DEF PostSendWindow, AtSub, FrameOK, Direct
<1>3. PICK m \in Msgs : f.m = m
  BY <1>2
<1>4. g \in FrameType /\ g.pc = "window" /\ g.m = m /\ g.api = f.api /\ g.i = f.i
  <2>1. "window" \in Pcs
    BY DEF Pcs
  <2> QED
    BY <1>1, <1>2, <1>3, <2>1, MovedFrame
<1>5. FrameOK(t, Len(stack[t]), g)
  BY <1>1, <1>2, <1>3, <1>4, CallAssumption DEF FrameOK, CallPcs, BottomPcs, TrySend, Posts
<1>6. Changes(t, g)
  BY <1>1 DEF PostSendWindow, Changes, NextSub, Goto, Moved
<1> HIDE DEF g
<1> DEFINE r == AddWindowRefs(m)
           q == 0
<1>7. /\ msg' = [msg EXCEPT ![m] = r]
      /\ UNCHANGED <<handles, deleted, xfer, queue, wait_o, wq>>
  BY <1>3 DEF PostSendWindow
<1>8. /\ msg[m] \in MessageType /\ msg[m].state = "active"
  <2>1. StackShape' /\ Shifts(t, Len(stack[t]), f, g)
    BY <1>4, <1>5, <1>6, InvParts, ChangeStep
  <2>2. f.pc \in PublisherPcs \ {"count"} /\ g.pc \in PublisherPcs \ {"count"}
    BY <1>1, <1>4 DEF PublisherPcs
  <2>3. msg[m].state = "active"
    BY <1>3, <1>4, <2>1, <2>2, InvParts, PublishUses
  <2> QED
    BY <2>3, InvParts DEF MsgsOK
<1>9. /\ Weight(g.pc) = 2 /\ Weight(f.pc) = 0
      /\ Pending(g.pc) = 0 /\ Pending(f.pc) = 0
  BY <1>1, <1>4, Weights
<1>10. /\ r \in MessageType /\ r.state = msg[m].state /\ q \in Int
       /\ r.refcount = msg[m].refcount + q + Weight(g.pc) - Weight(f.pc)
       /\ r.nSent - r.nCompleted - r.nFailed
            = msg[m].nSent - msg[m].nCompleted - msg[m].nFailed + q + Pending(g.pc) - Pending(f.pc)
  <2>1. /\ msg[m].refcount \in Nat /\ msg[m].nSent \in Nat /\ msg[m].nCompleted \in Nat
        /\ msg[m].nFailed \in Nat /\ q \in Int
    BY <1>8 DEF MessageType
  <2>2. /\ r \in MessageType /\ r.state = msg[m].state /\ r.refcount = msg[m].refcount + 2
        /\ r.nSent = msg[m].nSent /\ r.nCompleted = msg[m].nCompleted
        /\ r.nFailed = msg[m].nFailed
    BY <1>8, AddWindowRefsIs
  <2> HIDE DEF r
  <2> QED
    BY <1>9, <2>1, <2>2
<1> HIDE DEF r
<1>11. /\ UNCHANGED <<queue, wait_o>> /\ wq'[Compl] = <<>>
       /\ QueuesOK' /\ WindowsOK' /\ wait_o' \in [Threads -> {"clear", "set", "closed"}]
       /\ Uses(m)'.queued + Uses(m)'.windows = Uses(m).queued + Uses(m).windows + q
       /\ \A x \in Msgs : IsFiniteSet(QueuedTo(x, Queues)') /\ IsFiniteSet(QueuedTo(x, wq)')
       /\ \A x \in Msgs \ {m} : /\ Uses(x)'.queued = Uses(x).queued
                                /\ Uses(x)'.windows = Uses(x).windows
  <2>1. Uses(m) \in UsesType
    BY InvParts, UsesTyped
  <2>2. Uses(m)'.queued = Uses(m).queued /\ Uses(m)'.windows = Uses(m).windows
    BY <1>7, SameQueues, SameWindows
  <2>3. Uses(m)'.queued + Uses(m)'.windows = Uses(m).queued + Uses(m).windows + q
    BY <2>1, <2>2 DEF UsesType
  <2> QED
    BY <1>7, <2>3, InvParts, SameQueues, SameWindows
<1> HIDE DEF q
<1>12. /\ f.pc \in PublisherPcs \ {"count"} /\ g.pc \in PublisherPcs \ {"count"}
       /\ cs_msg' \in Threads \cup {NoThread}
       /\ cs_msg' = cs_msg \/ cs_msg \in {t, NoThread}
       /\ g.pc \in {"publish", "put"} => cs_msg' = t
  BY <1>1, <1>2, <1>4 DEF PostSendWindow, PublisherPcs
<1>13. \/ UNCHANGED types /\ (InTypes(g) => InTypes(f))
       \/ EnterTypes(t) /\ TypesFree(t)
       \/ LeaveTypes /\ InTypes(f) /\ ~InTypes(g)
  BY <1>1, <1>2, <1>4 DEF PostSendWindow, InTypes, HoldsTypes, TrySend
<1>14. last_msg' \in [Threads -> Msgs \cup {NoMsg}]
  BY <1>3, InvParts DEF PostSendWindow, SetQueueMessage
<1>15. /\ (UNCHANGED <<queue, wait_o>> /\ wq'[Compl] = <<>>) \/ QueuesShape'
       /\ UNCHANGED <<handles, deleted, xfer>>
  BY <1>7, <1>11
<1>16. stack[t] # <<>> /\ g \in FrameType /\ g.m = m /\ g.api = f.api
  BY <1>1, <1>4
<1>17. msg' = [msg EXCEPT ![m] = r]
  BY <1>7
<1>18. Publishes(t, m, g, r, q)
  BY <1>3, <1>5, <1>6, <1>10, <1>11, <1>12, <1>13, <1>14, <1>15, <1>16, <1>17 DEF Publishes
<1> QED
  BY <1>10, <1>16, <1>18, PublishStep

LEMMA SendWindowCountStep ==
    ASSUME Inv, NEW t \in Threads, SendWindowCount(t)
    PROVE  Inv'
<1> DEFINE f == Top(t)
           g == [f EXCEPT !.pc = "publish", !.i = f.i + 1, !.calls = 0]
<1>1. stack[t] # <<>> /\ f.pc = "sent"
  BY DEF SendWindowCount, AtSub, At
<1>2. /\ f \in FrameType /\ f.m \in Msgs /\ FrameOK(t, Len(stack[t]), f) /\ ~deleted[t]
      /\ f.pc \in {"publish", "put"} => cs_msg = t
      /\ f.i <= Len(Subs) /\ TrySend(f.api)
  <2>1. /\ f \in FrameType /\ f.m \in Msgs /\ FrameOK(t, Len(stack[t]), f) /\ ~deleted[t]
        /\ f.pc \in {"publish", "put"} => cs_msg = t
    BY <1>1, PostingFacts DEF PublisherPcs
  <2> QED
    BY <1>1, <2>1 DEF SendWindowCount, AtSub, FrameOK
<1>3. PICK m \in Msgs : f.m = m
  BY <1>2
<1>4. g \in FrameType /\ g.pc = "publish" /\ g.m = m /\ g.api = f.api
  <2>1. "publish" \in Pcs
    BY DEF Pcs
  <2> QED
    BY <1>1, <1>2, <1>3, <2>1, NextSubFrame
<1>5. FrameOK(t, Len(stack[t]), g)
  BY <1>1, <1>2, <1>3, <1>4, CallAssumption DEF FrameOK, CallPcs, BottomPcs, TrySend, Posts
<1>6. Changes(t, g)
  BY <1>1 DEF SendWindowCount, Changes, NextSub, Goto, Moved
<1> HIDE DEF g
<1> DEFINE r == CountWindow(m)
           q == 0
<1>7. /\ msg' = [msg EXCEPT ![m] = r]
      /\ UNCHANGED <<handles, deleted, xfer, queue, wait_o, wq>>
  BY <1>3 DEF SendWindowCount
<1>8. /\ msg[m] \in MessageType /\ msg[m].state = "active" /\ msg[m].refcount >= 1
  <2>1. StackShape' /\ Shifts(t, Len(stack[t]), f, g)
    BY <1>4, <1>5, <1>6, InvParts, ChangeStep
  <2>2. f.pc \in PublisherPcs \ {"count"} /\ g.pc \in PublisherPcs \ {"count"}
    BY <1>1, <1>4 DEF PublisherPcs
  <2>3. msg[m].state = "active"
    BY <1>3, <1>4, <2>1, <2>2, InvParts, PublishUses
  <2>4. Cardinality(FramesOf(m, {"sent"})) >= 1
    BY <1>1, <1>3, <2>1, InvParts, PcsParts, Present
  <2>5. Uses(m).done >= 1 /\ Uses(m) \in UsesType
    BY <2>4, InvParts, UsesTyped DEF Uses, OwnWindowDone
  <2>6. Balanced(msg[m], Uses(m))
    BY InvParts DEF Ledger
  <2>7. msg[m] \in MessageType
    BY InvParts DEF MsgsOK
  <2> DEFINE u == Uses(m)
  <2>8. /\ u.queued \in Nat /\ u.windows \in Nat /\ u.running \in Nat /\ u.own \in Nat
        /\ u.done \in Nat /\ u.handles \in Nat /\ u.keepers \in Nat /\ u.done >= 1
        /\ msg[m].refcount = UsedBy(u) + 2 * u.own + u.done + u.handles + u.keepers
    BY <2>3, <2>5, <2>6 DEF Balanced, UsesType
  <2> HIDE DEF u
  <2>9. msg[m].refcount >= 1
    BY <2>8 DEF UsedBy
  <2> QED
    BY <2>3, <2>7, <2>9
<1>9. /\ Weight(g.pc) = 0 /\ Weight(f.pc) = 1
      /\ Pending(g.pc) = 0 /\ Pending(f.pc) = 0 - 1
  BY <1>1, <1>4, Weights
<1>10. /\ r \in MessageType /\ r.state = msg[m].state /\ q \in Int
       /\ r.refcount = msg[m].refcount + q + Weight(g.pc) - Weight(f.pc)
       /\ r.nSent - r.nCompleted - r.nFailed
            = msg[m].nSent - msg[m].nCompleted - msg[m].nFailed + q + Pending(g.pc) - Pending(f.pc)
  <2>1. /\ msg[m].refcount \in Nat /\ msg[m].nSent \in Nat /\ msg[m].nCompleted \in Nat
        /\ msg[m].nFailed \in Nat /\ q \in Int
    BY <1>8 DEF MessageType
  <2>2. /\ r \in MessageType /\ r.state = msg[m].state /\ r.refcount = msg[m].refcount - 1
        /\ r.nSent = msg[m].nSent + 1 /\ r.nCompleted = msg[m].nCompleted
        /\ r.nFailed = msg[m].nFailed
    BY <1>8, CountWindowIs
  <2> HIDE DEF r
  <2> QED
    BY <1>9, <2>1, <2>2
<1> HIDE DEF r
<1>11. /\ UNCHANGED <<queue, wait_o>> /\ wq'[Compl] = <<>>
       /\ QueuesOK' /\ WindowsOK' /\ wait_o' \in [Threads -> {"clear", "set", "closed"}]
       /\ Uses(m)'.queued + Uses(m)'.windows = Uses(m).queued + Uses(m).windows + q
       /\ \A x \in Msgs : IsFiniteSet(QueuedTo(x, Queues)') /\ IsFiniteSet(QueuedTo(x, wq)')
       /\ \A x \in Msgs \ {m} : /\ Uses(x)'.queued = Uses(x).queued
                                /\ Uses(x)'.windows = Uses(x).windows
  <2>1. Uses(m) \in UsesType
    BY InvParts, UsesTyped
  <2>2. Uses(m)'.queued = Uses(m).queued /\ Uses(m)'.windows = Uses(m).windows
    BY <1>7, SameQueues, SameWindows
  <2>3. Uses(m)'.queued + Uses(m)'.windows = Uses(m).queued + Uses(m).windows + q
    BY <2>1, <2>2 DEF UsesType
  <2> QED
    BY <1>7, <2>3, InvParts, SameQueues, SameWindows
<1> HIDE DEF q
<1>12. /\ f.pc \in PublisherPcs \ {"count"} /\ g.pc \in PublisherPcs \ {"count"}
       /\ cs_msg' \in Threads \cup {NoThread}
       /\ cs_msg' = cs_msg \/ cs_msg \in {t, NoThread}
       /\ g.pc \in {"publish", "put"} => cs_msg' = t
  BY <1>1, <1>2, <1>4 DEF SendWindowCount, PublisherPcs
<1>13. \/ UNCHANGED types /\ (InTypes(g) => InTypes(f))
       \/ EnterTypes(t) /\ TypesFree(t)
       \/ LeaveTypes /\ InTypes(f) /\ ~InTypes(g)
  BY <1>1, <1>2, <1>4 DEF SendWindowCount, InTypes, HoldsTypes, TrySend
<1>14. last_msg' \in [Threads -> Msgs \cup {NoMsg}]
  BY <1>3, InvParts DEF SendWindowCount
<1>15. /\ (UNCHANGED <<queue, wait_o>> /\ wq'[Compl] = <<>>) \/ QueuesShape'
       /\ UNCHANGED <<handles, deleted, xfer>>
  BY <1>7, <1>11
<1>16. stack[t] # <<>> /\ g \in FrameType /\ g.m = m /\ g.api = f.api
  BY <1>1, <1>4
<1>17. msg' = [msg EXCEPT ![m] = r]
  BY <1>7
<1>18. Publishes(t, m, g, r, q)
  BY <1>3, <1>5, <1>6, <1>10, <1>11, <1>12, <1>13, <1>14, <1>15, <1>16, <1>17 DEF Publishes
<1> QED
  BY <1>10, <1>16, <1>18, PublishStep

-----------------------------------------------------------------------------
(* Steps that may release a message.                                        *)

\* Thread t, whose frame f at k makes way for g, has m put with the fields r.
Releases(t, m, r, k, f, g, rest, api) ==
    /\ Shifts(t, k, f, g) /\ StackShape' /\ QueuesShape'
    /\ f.m \in {m, NoMsg} /\ g.m \in {m, NoMsg} /\ g.pc \notin {"publish", "put"}
    /\ msg[m].state = "active" /\ Open(r, Uses(m)')
    /\ \/ Kept(t, m, r, rest) /\ Uses(m)'.handler = 0
       \/ Gone(t, m, r, rest) /\ Uses(m)'.handler = 0
       \/ PutHandle(t, m, r, rest, api) /\ Uses(m)'.handler = 1
    /\ UNCHANGED <<queue, wait_o, wq, deleted>>
    /\ HandlesOK' /\ last_msg' \in [Threads -> Msgs \cup {NoMsg}]
    /\ cs_msg' = NoThread /\ cs_msg \in {t, NoThread}
    /\ \/ UNCHANGED types /\ (InTypes(g) => InTypes(f))
       \/ EnterTypes(t) /\ InTypes(f)
       \/ LeaveTypes /\ InTypes(f) /\ ~InTypes(g)
    /\ \A x \in Msgs : IsFiniteSet(Keepers(x)')
    /\ \A x \in Msgs \ {m} : Uses(x)'.keepers = Uses(x).keepers

LEMMA ReleaseStep ==
    ASSUME Inv, NEW t \in Threads, NEW m \in Msgs, NEW r \in MessageType, NEW k, NEW f, NEW g,
           NEW rest, NEW api, Releases(t, m, r, k, f, g, rest, api)
    PROVE  Inv'
<1>1. /\ Shifts(t, k, f, g) /\ StackShape' /\ QueuesShape'
      /\ f.m \in {m, NoMsg} /\ g.m \in {m, NoMsg} /\ g.pc \notin {"publish", "put"}
      /\ msg[m].state = "active" /\ Open(r, Uses(m)')
      /\ UNCHANGED <<queue, wait_o, wq, deleted>>
      /\ HandlesOK' /\ last_msg' \in [Threads -> Msgs \cup {NoMsg}]
      /\ cs_msg' = NoThread /\ cs_msg \in {t, NoThread}
  BY DEF Releases
<1>2. /\ QueuesOK' /\ WindowsOK'
      /\ \A x \in Msgs : /\ Uses(x)'.queued = Uses(x).queued /\ IsFiniteSet(QueuedTo(x, Queues)')
                         /\ Uses(x)'.windows = Uses(x).windows /\ IsFiniteSet(QueuedTo(x, wq)')
  BY <1>1, SameQueues, SameWindows
<1>3. /\ \A x \in Msgs : IsFiniteSet(Keepers(x)')
      /\ \A x \in Msgs \ {m} : Uses(x)'.keepers = Uses(x).keepers
  BY DEF Releases
<1>4. Finite'
  BY <1>1, <1>2, <1>3, InvParts, FiniteStep
<1>5. \A x \in Msgs \ {m} : Uses(x)' = Uses(x)
  <2> SUFFICES ASSUME NEW x \in Msgs \ {m} PROVE Uses(x)' = Uses(x)
    OBVIOUS
  <2>1. f.m # x /\ g.m # x
    BY <1>1, CallAssumption
  <2> QED
    BY <1>1, <1>2, <1>3, <2>1, InvParts, UsesOther
<1>6. PublishLock'
  BY <1>1, InvParts, PublishLockStep
<1>7. StacksOK'
  BY <1>1 DEF Shifts, StackStep, StacksOK
<1>8. MsgsOK' /\ XferOK' /\ XferExact' /\ Ledger'
  <2>1. \/ Kept(t, m, r, rest) /\ Uses(m)'.handler = 0
        \/ Gone(t, m, r, rest) /\ Uses(m)'.handler = 0
        \/ PutHandle(t, m, r, rest, api) /\ Uses(m)'.handler = 1
    BY DEF Releases
  <2> QED
    BY <1>1, <1>4, <1>5, <1>6, <1>7, <2>1, InvParts, PutStep
<1>9. TypesHeld' /\ types' \in [owner : Threads \cup {NoThread}, depth : Nat]
  <2>1. \/ UNCHANGED types /\ (InTypes(g) => InTypes(f))
        \/ EnterTypes(t) /\ InTypes(f)
        \/ LeaveTypes /\ InTypes(f) /\ ~InTypes(g)
    BY DEF Releases
  <2> QED
    BY <1>1, <2>1, InvParts, TypesStep
<1>10. TypeOK'
  <2>1. /\ wait_o' \in [Threads -> {"clear", "set", "closed"}] /\ deleted' \in [Threads -> BOOLEAN]
        /\ cs_msg' \in Threads \cup {NoThread}
    BY <1>1, InvParts
  <2> QED
    BY <1>1, <1>2, <1>7, <1>8, <1>9, <2>1
       DEF TypeOK, QueuesOK, WindowsOK, HandlesOK, StacksOK, MsgsOK, XferOK, Entry
<1> QED
  BY <1>1, <1>4, <1>6, <1>8, <1>9, <1>10 DEF Inv

\* A frame that is not of x, and one that is.
LEMMA NoHits ==
    ASSUME NEW x, NEW f, f.m # x
    PROVE  (\A pcs : Hits(f, x, pcs) = 0) /\ HitsCall(f, x) = 0
BY DEF Hits, HitsCall, OneIf

LEMMA CallHits ==
    ASSUME NEW x, NEW f, f.m = x, f.pc \in {"publish", "wait", "waited"}
    PROVE  /\ Hits(f, x, RecipientPcs) = 0 /\ Hits(f, x, {"window"}) = 0 /\ Hits(f, x, {"sent"}) = 0
           /\ Hits(f, x, CallPcs) = 1 /\ HitsCall(f, x) = OneIf(HasCall(f.api))
           /\ Hits(f, x, PublisherPcs) = OneIf(f.pc = "publish")
           /\ Hits(f, x, {"handler"}) = 0 /\ Hits(f, x, {"count"}) = 0
<1>1. f.pc \in CallPcs /\ f.pc \notin RecipientPcs /\ (f.pc \in PublisherPcs <=> f.pc = "publish")
  BY DEF CallPcs, RecipientPcs, PublisherPcs
<1> QED
  BY <1>1 DEF Hits, HitsCall, OneIf

LEMMA HandlerHits ==
    ASSUME NEW x, NEW api
    PROVE  LET h == Frame("handler", x, api) IN
           /\ Hits(h, x, RecipientPcs) = 0 /\ Hits(h, x, {"window"}) = 0 /\ Hits(h, x, {"sent"}) = 0
           /\ Hits(h, x, CallPcs) = 0 /\ HitsCall(h, x) = 0 /\ Hits(h, x, PublisherPcs) = 0
           /\ Hits(h, x, {"handler"}) = 1 /\ Hits(h, x, {"count"}) = 0
BY DEF Frame, Hits, HitsCall, OneIf, RecipientPcs, CallPcs, PublisherPcs

\* The frames of a thread that does not move, but for what a callback counts.
LEMMA IdleStep ==
    ASSUME StacksOK, StackShape, NEW t \in Threads, NEW s, s \in Seq(FrameType),
           Len(s) = Len(stack[t]), \A i \in 1 .. Len(s) : SameFrame(s[i], stack[t][i]),
           stack' = [stack EXCEPT ![t] = s], stack[t] # <<>> => Top(t).pc \in UserCode
    PROVE  /\ StackShape' /\ Shifts(t, Len(stack[t]) + 1, NoFrame, NoFrame)
           /\ Len(stack'[t]) = Len(stack[t]) /\ Len(stack[t]) + 1 \notin DOMAIN stack'[t]
<1> DEFINE n == Len(stack[t])
<1>1. n \in Nat /\ DOMAIN stack[t] = 1 .. n /\ DOMAIN s = 1 .. n /\ stack'[t] = s
  BY DEF StacksOK
<1>2. \A u \in Threads \ {t} : stack'[u] = stack[u]
  BY DEF StacksOK
<1>3. n # 0 => stack[t][n].pc \in UserCode
  BY <1>1 DEF Top, Last
<1>4. \A i \in 1 .. n : SameFrame(stack'[t][i], stack[t][i])
  BY <1>1
<1>5. stack' \in [Threads -> Seq(FrameType)] /\ Len(stack'[t]) = n
  BY <1>1 DEF StacksOK
<1> HIDE DEF n
<1>6. \A i \in 1 .. n : FrameOK(t, i, stack'[t][i]) /\ stack'[t][i].pc \in UserCode
  <2> SUFFICES ASSUME NEW i \in 1 .. n
               PROVE  FrameOK(t, i, stack'[t][i]) /\ stack'[t][i].pc \in UserCode
    OBVIOUS
  <2>1. FrameOK(t, i, stack[t][i]) /\ (i < n => stack[t][i].pc \in UserCode)
    BY <1>1 DEF StackShape, n
  <2>2. stack[t][i].pc \in UserCode
    BY <1>1, <1>3, <2>1
  <2> QED
    BY <1>4, <2>1, <2>2, SameFrameOK DEF SameFrame
<1>7. StackShape'
  <2> SUFFICES ASSUME NEW u \in Threads, NEW i \in DOMAIN stack'[u]
               PROVE  /\ FrameOK(u, i, stack'[u][i])
                      /\ i < Len(stack'[u]) => stack'[u][i].pc \in UserCode
    BY DEF StackShape, FrameOK
  <2>1. CASE u # t
    BY <1>2, <2>1 DEF StackShape
  <2>2. CASE u = t
    BY <1>1, <1>6, <2>2
  <2> QED
    BY <2>1, <2>2
<1>8. StackStep(t, n + 1)
  BY <1>1, <1>2, <1>4, <1>5 DEF StackStep
<1>9. Shifts(t, n + 1, NoFrame, NoFrame)
  BY <1>1, <1>6, <1>8 DEF Shifts, FrameIs
<1> QED
  BY <1>1, <1>5, <1>7, <1>9 DEF n

\* The frame that runs is counted.
LEMMA TopCounted ==
    ASSUME Inv, NEW t \in Threads, stack[t] # <<>>, NEW m \in Msgs, Top(t).m = m,
           NEW pcs \in SUBSET Pcs, Top(t).pc \in pcs
    PROVE  Cardinality(FramesOf(m, pcs)) >= 1
<1>1. <<t, Len(stack[t])>> \in FramesOf(m, pcs)
  BY InvParts, TopFacts, InFramesOf
<1>2. IsFiniteSet(FramesOf(m, pcs))
  BY InvParts, FinitePart
<1>3. Cardinality(FramesOf(m, pcs)) # 0 /\ Cardinality(FramesOf(m, pcs)) \in Nat
  BY <1>1, <1>2, FS_EmptySet, FS_CardinalityType
<1> QED
  BY <1>3

\* What the ledger says of a message in use: it is active, and referenced.
LEMMA LedgerFacts ==
    ASSUME Inv, NEW m \in Msgs
    PROVE  LET u == Uses(m) IN
           /\ u \in UsesType /\ msg[m] \in MessageType /\ Balanced(msg[m], u)
           /\ u.running >= 1 \/ u.own >= 1 \/ u.done >= 1 \/ u.handles >= 1 \/ u.keepers >= 1 =>
                msg[m].state = "active" /\ msg[m].refcount >= 1
           /\ u.calls >= 1 => msg[m].state = "active"
           /\ u.handler >= 1 => msg[m].state = "completing"
<1> DEFINE u == Uses(m)
           r == msg[m]
           a == UsedBy(u)
<1>1. u \in UsesType /\ r \in MessageType /\ Balanced(r, u)
  BY InvParts, UsesTyped DEF Ledger, MsgsOK
<1> HIDE DEF u, r
<1>2. /\ u.queued \in Nat /\ u.windows \in Nat /\ u.running \in Nat /\ u.own \in Nat
      /\ u.done \in Nat /\ u.handles \in Nat /\ u.keepers \in Nat /\ u.calls \in Nat
      /\ u.handler \in Nat
  BY <1>1 DEF UsesType
<1>3. a \in Nat /\ a >= u.running
  BY <1>2 DEF UsedBy
<1>4. r.state = "active" => r.refcount = a + 2 * u.own + u.done + u.handles + u.keepers
  BY <1>1 DEF Balanced
<1>5. r.state # "active" =>
        /\ u.running = 0 /\ u.own = 0 /\ u.done = 0 /\ u.handles = 0 /\ u.keepers = 0
        /\ u.calls = 0
  BY <1>1 DEF Balanced
<1>6. u.handler = IF r.state = "completing" THEN 1 ELSE 0
  BY <1>1 DEF Balanced
<1> HIDE DEF a
<1>7. ASSUME u.running >= 1 \/ u.own >= 1 \/ u.done >= 1 \/ u.handles >= 1 \/ u.keepers >= 1
      PROVE  r.state = "active" /\ r.refcount >= 1
  <2>1. r.state = "active"
    BY <1>2, <1>5, <1>7
  <2> DEFINE b == u.own
             c == u.done
             d == u.handles
             e == u.keepers
             i == u.running
  <2>2. /\ b \in Nat /\ c \in Nat /\ d \in Nat /\ e \in Nat /\ i \in Nat /\ a >= i
        /\ r.refcount = a + 2 * b + c + d + e
        /\ i >= 1 \/ b >= 1 \/ c >= 1 \/ d >= 1 \/ e >= 1
    BY <1>2, <1>3, <1>4, <1>7, <2>1
  <2> HIDE DEF b, c, d, e, i
  <2>3. a + 2 * b + c + d + e >= 1
    BY <1>3, <2>2
  <2> QED
    BY <2>1, <2>2, <2>3
<1> QED
  BY <1>1, <1>2, <1>5, <1>6, <1>7 DEF u, r

LEMMA SendWindowEndStep ==
    ASSUME Inv, NEW t \in Threads, NEW ok \in BOOLEAN, SendWindowEnd(t, ok)
    PROVE  Inv'
<1> DEFINE f == Top(t)
           g == [f EXCEPT !.pc = "sent", !.calls = 0]
<1>1. stack[t] # <<>> /\ f.pc = "window"
  BY DEF SendWindowEnd, AtSub, At
<1>2. /\ f \in FrameType /\ f.m \in Msgs /\ FrameOK(t, Len(stack[t]), f) /\ ~deleted[t]
      /\ f.pc \in {"publish", "put"} => cs_msg = t
      /\ f.i <= Len(Subs) /\ TrySend(f.api)
  <2>1. /\ f \in FrameType /\ f.m \in Msgs /\ FrameOK(t, Len(stack[t]), f) /\ ~deleted[t]
        /\ f.pc \in {"publish", "put"} => cs_msg = t
    BY <1>1, PostingFacts DEF PublisherPcs
  <2> QED
    BY <1>1, <2>1 DEF SendWindowEnd, AtSub, FrameOK
<1>3. PICK m \in Msgs : f.m = m
  BY <1>2
<1>4. g \in FrameType /\ g.pc = "sent" /\ g.m = m /\ g.api = f.api /\ g.i = f.i
  <2>1. "sent" \in Pcs
    BY DEF Pcs
  <2> QED
    BY <1>1, <1>2, <1>3, <2>1, MovedFrame
<1>5. FrameOK(t, Len(stack[t]), g)
  BY <1>1, <1>2, <1>3, <1>4, CallAssumption DEF FrameOK, CallPcs, BottomPcs, TrySend, Posts
<1> HIDE DEF g
<1> DEFINE w == Finished(msg[m], ok)
           r == msg'[m]
           q == 0
<1>6. msg[m] \in MessageType /\ msg[m].state = "active" /\ msg[m].refcount >= 2
  <2>1. Cardinality(FramesOf(m, {"window"})) >= 1
    BY <1>1, <1>3, PcsParts, TopCounted
  <2>2. Uses(m).own >= 1
    BY <2>1 DEF Uses, OwnWindow
  <2>3. /\ Uses(m) \in UsesType /\ msg[m] \in MessageType /\ msg[m].state = "active"
        /\ Balanced(msg[m], Uses(m))
    BY <2>2, LedgerFacts
  <2> DEFINE u == Uses(m)
  <2>4. /\ UsedBy(u) \in Nat /\ u.own \in Nat /\ u.done \in Nat /\ u.handles \in Nat
        /\ u.keepers \in Nat /\ u.own >= 1
        /\ msg[m].refcount = UsedBy(u) + 2 * u.own + u.done + u.handles + u.keepers
    BY <2>2, <2>3 DEF Balanced, UsesType, UsedBy
  <2> HIDE DEF u
  <2>5. msg[m].refcount >= 2
    BY <2>4
  <2> QED
    BY <2>3, <2>5
<1>7. /\ w \in MessageType /\ w.state = msg[m].state /\ w.refcount = msg[m].refcount - 1
      /\ w.nSent = msg[m].nSent
      /\ \/ w.nCompleted = msg[m].nCompleted + 1 /\ w.nFailed = msg[m].nFailed
         \/ w.nCompleted = msg[m].nCompleted /\ w.nFailed = msg[m].nFailed + 1
  BY <1>6, FinishedIs DEF MessageType
<1>8. /\ msg' = [msg EXCEPT ![m] = r] /\ r \in MessageType
      /\ r.state = w.state /\ r.refcount = w.refcount /\ r.nSent = w.nSent
      /\ r.nCompleted = w.nCompleted /\ r.nFailed = w.nFailed
      /\ UNCHANGED <<handles, deleted, xfer, queue, wait_o, wq>>
      /\ Changes(t, g)
  <2>1. Settle(t, m, w, Moved(t, "sent"), "none")
    BY <1>3 DEF SendWindowEnd
  <2> HIDE DEF w
  <2>2. Kept(t, m, w, Moved(t, "sent"))
    <3>1. w.refcount # 0
      BY <1>6, <1>7 DEF MessageType
    <3> QED
      BY <1>7, <2>1, <3>1, SettleCases DEF Gone, PutTransfer, PutFree, PutHandle
  <2>3. PICK e \in {"none", "clear", "set"} : msg' = [msg EXCEPT ![m] = [w EXCEPT !.event = e]]
    BY <2>2 DEF Kept
  <2>4. r = [w EXCEPT !.event = e]
    BY <2>3, InvParts DEF MsgsOK
  <2>5. msg' = [msg EXCEPT ![m] = r]
    BY <2>3, <2>4
  <2>6. Changes(t, g)
    BY <1>1, <2>2 DEF Kept, Changes, Moved, g
  <2> HIDE DEF r
  <2>7. /\ r \in MessageType /\ r.state = w.state /\ r.refcount = w.refcount /\ r.nSent = w.nSent
        /\ r.nCompleted = w.nCompleted /\ r.nFailed = w.nFailed
    BY <1>7, <2>4 DEF MessageType
  <2> QED
    BY <2>2, <2>5, <2>6, <2>7 DEF SendWindowEnd, Kept
<1> HIDE DEF r
<1>9. /\ Weight(g.pc) = 1 /\ Weight(f.pc) = 2
      /\ Pending(g.pc) = 0 - 1 /\ Pending(f.pc) = 0
  BY <1>1, <1>4, Weights
<1>10. /\ r \in MessageType /\ r.state = msg[m].state /\ q \in Int
       /\ r.refcount = msg[m].refcount + q + Weight(g.pc) - Weight(f.pc)
       /\ r.nSent - r.nCompleted - r.nFailed
            = msg[m].nSent - msg[m].nCompleted - msg[m].nFailed + q + Pending(g.pc) - Pending(f.pc)
  <2>1. /\ msg[m].refcount \in Nat /\ msg[m].nSent \in Nat /\ msg[m].nCompleted \in Nat
        /\ msg[m].nFailed \in Nat
    BY <1>6 DEF MessageType
  <2>2. /\ r \in MessageType /\ r.state = msg[m].state /\ r.refcount = msg[m].refcount - 1
        /\ r.nSent = msg[m].nSent
        /\ \/ r.nCompleted = msg[m].nCompleted + 1 /\ r.nFailed = msg[m].nFailed
           \/ r.nCompleted = msg[m].nCompleted /\ r.nFailed = msg[m].nFailed + 1
    BY <1>7, <1>8
  <2> QED
    BY <1>9, <2>1, <2>2
<1>11. /\ UNCHANGED <<queue, wait_o>> /\ wq'[Compl] = <<>>
       /\ QueuesOK' /\ WindowsOK' /\ wait_o' \in [Threads -> {"clear", "set", "closed"}]
       /\ Uses(m)'.queued + Uses(m)'.windows = Uses(m).queued + Uses(m).windows + q
       /\ \A x \in Msgs : IsFiniteSet(QueuedTo(x, Queues)') /\ IsFiniteSet(QueuedTo(x, wq)')
       /\ \A x \in Msgs \ {m} : /\ Uses(x)'.queued = Uses(x).queued
                                /\ Uses(x)'.windows = Uses(x).windows
  <2>1. Uses(m) \in UsesType
    BY InvParts, UsesTyped
  <2>2. Uses(m)'.queued = Uses(m).queued /\ Uses(m)'.windows = Uses(m).windows
    BY <1>8, SameQueues, SameWindows
  <2>3. Uses(m)'.queued + Uses(m)'.windows = Uses(m).queued + Uses(m).windows + q
    BY <2>1, <2>2 DEF UsesType
  <2> QED
    BY <1>8, <2>3, InvParts, SameQueues, SameWindows
<1> HIDE DEF q
<1>12. /\ f.pc \in PublisherPcs \ {"count"} /\ g.pc \in PublisherPcs \ {"count"}
       /\ cs_msg' \in Threads \cup {NoThread}
       /\ cs_msg' = cs_msg \/ cs_msg \in {t, NoThread}
       /\ g.pc \in {"publish", "put"} => cs_msg' = t
  BY <1>1, <1>2, <1>4 DEF SendWindowEnd, PublisherPcs
<1>13. \/ UNCHANGED types /\ (InTypes(g) => InTypes(f))
       \/ EnterTypes(t) /\ TypesFree(t)
       \/ LeaveTypes /\ InTypes(f) /\ ~InTypes(g)
  BY <1>1, <1>2, <1>4 DEF SendWindowEnd, InTypes, HoldsTypes, TrySend
<1>14. last_msg' \in [Threads -> Msgs \cup {NoMsg}]
  BY <1>3, InvParts DEF SendWindowEnd, SetQueueMessage
<1>15. /\ (UNCHANGED <<queue, wait_o>> /\ wq'[Compl] = <<>>) \/ QueuesShape'
       /\ UNCHANGED <<handles, deleted, xfer>>
  BY <1>8, <1>11
<1>16. stack[t] # <<>> /\ g \in FrameType /\ g.m = m /\ g.api = f.api
  BY <1>1, <1>4
<1>17. msg' = [msg EXCEPT ![m] = r] /\ Changes(t, g)
  BY <1>8
<1>18. Publishes(t, m, g, r, q)
  BY <1>3, <1>5, <1>10, <1>11, <1>12, <1>13, <1>14, <1>15, <1>16, <1>17 DEF Publishes
<1> QED
  BY <1>10, <1>16, <1>18, PublishStep


LEMMA TopHandle ==
    ASSUME Inv, NEW t \in Threads, stack[t] # <<>>, NEW m \in Msgs, Top(t).m = m,
           Top(t).pc \in CallPcs, HasCall(Top(t).api)
    PROVE  Cardinality(CallFrames(m)) >= 1
<1>1. <<t, Len(stack[t])>> \in CallFrames(m)
  <2> HIDE DEF CallPcs, HasCall
  <2> QED
    BY InvParts, TopFacts, InCallFrames
<1>2. IsFiniteSet(CallFrames(m))
  BY InvParts, CallFramesFinite
<1>3. Cardinality(CallFrames(m)) # 0 /\ Cardinality(CallFrames(m)) \in Nat
  BY <1>1, <1>2, FS_EmptySet, FS_CardinalityType
<1> QED
  BY <1>3

LEMMA FrontTop ==
    ASSUME StacksOK, NEW t \in Threads, stack[t] # <<>>, NEW h \in FrameType
    PROVE  Append(Front(stack[t]), h) = WithTop(t, h)
<1> DEFINE s == stack[t]
           n == Len(s)
           a == Append(Front(s), h)
           b == WithTop(t, h)
<1>1. s \in Seq(FrameType) /\ n \in Nat \ {0} /\ n \in 1 .. n
  BY EmptySeq DEF StacksOK
<1>2. /\ Front(s) \in Seq(FrameType) /\ Len(Front(s)) = n - 1
      /\ \A i \in 1 .. n - 1 : Front(s)[i] = s[i]
  BY <1>1, FrontFacts
<1>3. /\ a \in Seq(FrameType) /\ Len(a) = (n - 1) + 1
      /\ \A i \in 1 .. n - 1 : a[i] = Front(s)[i]
      /\ a[(n - 1) + 1] = h
  BY <1>2, AppendProperties
<1>4. /\ b \in Seq(FrameType) /\ Len(b) = n
      /\ \A i \in 1 .. n : b[i] = IF i = n THEN h ELSE s[i]
  BY <1>1, ExceptSeq DEF WithTop
<1> HIDE DEF a, b, n, s
<1>5. Len(a) = Len(b) /\ \A i \in 1 .. Len(a) : a[i] = b[i]
  <2>1. (n - 1) + 1 = n
    BY <1>1
  <2>2. ASSUME NEW i \in 1 .. n PROVE a[i] = b[i]
    <3>1. CASE i = n
      BY <1>3, <1>4, <2>1, <3>1
    <3>2. CASE i # n
      <4>1. i \in 1 .. n - 1
        BY <1>1, <3>2
      <4> QED
        BY <1>2, <1>3, <1>4, <3>2, <4>1
    <3> QED
      BY <3>1, <3>2
  <2> QED
    BY <1>3, <1>4, <2>1, <2>2
<1>6. a = b
  BY <1>3, <1>4, <1>5, SeqEqual
<1> QED
  BY <1>6 DEF a, b, s

\* A call handle is given back.
LEMMA HandleLeaves ==
    ASSUME NEW r \in MessageType, NEW u \in UsesType, NEW v \in UsesType,
           r.state = "active", Balanced(r, u), r.refcount >= 1,
           v.queued = u.queued, v.windows = u.windows, v.running = u.running, v.own = u.own,
           v.done = u.done, v.handles + v.keepers = u.handles + u.keepers - 1,
           v.calls + v.keepers <= 1, v.count = 0
    PROVE  Open([r EXCEPT !.refcount = r.refcount - 1], v)
<1> DEFINE n == r.refcount - 1
           s == [r EXCEPT !.refcount = n]
           a == 0
           d == -1
<1>1. n \in Nat /\ a \in Int /\ d \in Int
  BY DEF MessageType
<1>2. s \in MessageType
  <2> HIDE DEF n
  <2> QED
    BY <1>1 DEF MessageType
<1>3. /\ s.state = "active" /\ s.refcount = n /\ s.nSent = r.nSent
      /\ s.nCompleted = r.nCompleted /\ s.nFailed = r.nFailed
  <2> HIDE DEF n
  <2> QED
    BY DEF MessageType
<1> HIDE DEF s
<1>4. s.refcount = r.refcount + a + 2 * a + a + d
  BY <1>3 DEF MessageType
<1>5. s.nSent - s.nCompleted - s.nFailed = r.nSent - r.nCompleted - r.nFailed + a - a
  BY <1>3 DEF MessageType
<1>6. /\ UsedBy(v) = UsedBy(u) + a /\ v.own = u.own + a /\ v.done = u.done + a
      /\ v.handles + v.keepers = u.handles + u.keepers + d
  BY DEF UsedBy, UsesType
<1> HIDE DEF a, d
<1>7. Open(s, v)
  BY <1>1, <1>2, <1>3, <1>4, <1>5, <1>6, OpenMoves
<1> QED
  BY <1>7 DEF s

\* A call goes, or the completion thread calls the handler in its place.
LEMMA CallGone ==
    ASSUME Inv, NEW t \in Threads, NEW k, NEW f, NEW g, Shifts(t, k, f, g), NEW m \in Msgs,
           f.m = m, f.pc \in {"publish", "wait", "waited"},
           NEW api, g = NoFrame \/ g = Frame("handler", m, api), UNCHANGED <<queue, wq>>
    PROVE  LET u == Uses(m) IN
           /\ u \in UsesType /\ u.keepers = 0 /\ msg[m].state = "active"
           /\ msg[m] \in MessageType /\ Balanced(msg[m], u)
           /\ Uses(m)'.queued = u.queued /\ Uses(m)'.windows = u.windows
           /\ Uses(m)'.running = u.running /\ Uses(m)'.own = u.own /\ Uses(m)'.done = u.done
           /\ Uses(m)'.calls = 0 /\ Uses(m)'.count = 0
           /\ Uses(m)'.handles = u.handles - OneIf(HasCall(f.api))
           /\ Uses(m)'.handler = IF g = NoFrame THEN 0 ELSE 1
<1> DEFINE u == Uses(m)
           v == Uses(m)'
<1>1. f.pc \in CallPcs \ {"count"} /\ m # NoMsg
  BY CallAssumption DEF CallPcs
<1>2. u.count = 0 /\ u.calls = 1 /\ u.keepers = 0
  BY <1>1, InvParts, CountAlone
<1>3. /\ u \in UsesType /\ msg[m] \in MessageType /\ Balanced(msg[m], u)
      /\ msg[m].state = "active"
  BY <1>2, LedgerFacts
<1>4. u.handler = 0
  BY <1>3 DEF Balanced
<1>5. v.queued = u.queued /\ v.windows = u.windows
  BY SameQueues, SameWindows
<1>6. /\ v.running = u.running - Hits(f, m, RecipientPcs) + Hits(g, m, RecipientPcs)
      /\ v.own = u.own - Hits(f, m, {"window"}) + Hits(g, m, {"window"})
      /\ v.done = u.done - Hits(f, m, {"sent"}) + Hits(g, m, {"sent"})
      /\ v.calls = u.calls - Hits(f, m, CallPcs) + Hits(g, m, CallPcs)
      /\ v.handles = u.handles - HitsCall(f, m) + HitsCall(g, m)
      /\ v.handler = u.handler - Hits(f, m, {"handler"}) + Hits(g, m, {"handler"})
      /\ v.count = u.count - Hits(f, m, {"count"}) + Hits(g, m, {"count"})
  BY InvParts, ShiftUses
<1>7. /\ Hits(g, m, RecipientPcs) = 0 /\ Hits(g, m, {"window"}) = 0 /\ Hits(g, m, {"sent"}) = 0
      /\ Hits(g, m, CallPcs) = 0 /\ HitsCall(g, m) = 0 /\ Hits(g, m, {"count"}) = 0
      /\ Hits(g, m, {"handler"}) = IF g = NoFrame THEN 0 ELSE 1
  <2>1. NoFrame.m # m /\ Frame("handler", m, api).m = m
    BY <1>1 DEF NoFrame, Frame
  <2>2. CASE g = NoFrame
    BY <2>1, <2>2, NoHits
  <2>3. CASE g = Frame("handler", m, api)
    BY <2>1, <2>3, HandlerHits
  <2> QED
    BY <2>2, <2>3
<1>8. /\ Hits(f, m, RecipientPcs) = 0 /\ Hits(f, m, {"window"}) = 0 /\ Hits(f, m, {"sent"}) = 0
      /\ Hits(f, m, CallPcs) = 1 /\ HitsCall(f, m) = OneIf(HasCall(f.api))
      /\ Hits(f, m, {"handler"}) = 0 /\ Hits(f, m, {"count"}) = 0
  BY CallHits
<1> HIDE DEF u, v
<1>9. v.running = u.running /\ v.own = u.own /\ v.done = u.done /\ v.calls = 0 /\ v.count = 0
  BY <1>2, <1>3, <1>6, <1>7, <1>8 DEF UsesType
<1>10. v.handles = u.handles - OneIf(HasCall(f.api))
  <2> DEFINE h == OneIf(HasCall(f.api))
  <2>1. h \in Int
    BY DEF OneIf
  <2>2. v.handles = u.handles - h + 0
    BY <1>6, <1>7, <1>8
  <2> HIDE DEF h
  <2>3. v.handles = u.handles - h
    BY <1>3, <2>1, <2>2 DEF UsesType
  <2> QED
    BY <2>3 DEF h
<1>11. v.handler = IF g = NoFrame THEN 0 ELSE 1
  BY <1>4, <1>6, <1>7, <1>8
<1> QED
  BY <1>2, <1>3, <1>5, <1>9, <1>10, <1>11 DEF u, v

\* The place of a call, or of the completion handler in it.
LEMMA PlaceOK ==
    ASSUME NEW t \in Threads, NEW i, NEW x \in Msgs, NEW api \in Posts \cup Quits \cup {"none"}
    PROVE  /\ Frame("handler", x, api) \in FrameType
           /\ t = Compl => FrameOK(t, i, Frame("handler", x, api))
<1>1. /\ 1 \in 1 .. (Len(Subs) + 1) /\ 0 \in 0 .. MaxCalls /\ x # NoMsg /\ "handler" \in Pcs
  BY CallAssumption DEF Pcs
<1> QED
  BY <1>1 DEF Frame, FrameType, FrameOK, BottomPcs, CallPcs

\* The frame of a call pops off, or the handler's comes in its place.
LEMMA CallEnds ==
    ASSUME Inv, NEW t \in Threads, stack[t] # <<>>, NEW g,
           \/ g = NoFrame /\ stack' = [stack EXCEPT ![t] = Front(stack[t])]
           \/ /\ g.pc = "handler" /\ g \in FrameType /\ FrameOK(t, Len(stack[t]), g)
              /\ stack' = [stack EXCEPT ![t] = Append(Front(stack[t]), g)],
           Top(t).pc \notin {"drain", "drained"}, UNCHANGED <<queue, wait_o, deleted, wq>>
    PROVE  Shifts(t, Len(stack[t]), Top(t), g) /\ StackShape' /\ QueuesShape'
<1>1. Shifts(t, Len(stack[t]), Top(t), g) /\ StackShape'
  <2>1. CASE g = NoFrame /\ stack' = [stack EXCEPT ![t] = Front(stack[t])]
    <3>1. Pops(t)
      BY <2>1 DEF Pops
    <3> QED
      BY <2>1, <3>1, InvParts, PopStep
  <2>2. CASE /\ g.pc = "handler" /\ g \in FrameType /\ FrameOK(t, Len(stack[t]), g)
             /\ stack' = [stack EXCEPT ![t] = Append(Front(stack[t]), g)]
    <3>1. Changes(t, g)
      BY <2>2, InvParts, FrontTop DEF Changes
    <3> QED
      BY <2>2, <3>1, InvParts, ChangeStep
  <2> QED
    BY <2>1, <2>2
<1>2. ~deleted[t] /\ g.pc # "woken"
  BY InvParts, NotDeleted DEF NoFrame, Frame
<1>3. wq'[Compl] = <<>>
  BY InvParts DEF QueuesShape
<1>4. Len(stack[t]) \in DOMAIN stack'[t] => g.pc \notin {"drain", "drained"}
  <2>1. CASE stack' = [stack EXCEPT ![t] = Front(stack[t])]
    <3>1. Pops(t)
      BY <2>1 DEF Pops
    <3>2. Len(stack[t]) \in Nat /\ DOMAIN stack'[t] = 1 .. Len(stack[t]) - 1
      BY <3>1, InvParts, PopFacts
    <3> QED
      BY <3>2
  <2> QED
    BY <2>1
<1> QED
  BY <1>1, <1>2, <1>3, <1>4, InvParts, QueuesShapeStep

LEMMA SendReturnStep ==
    ASSUME Inv, NEW t \in Threads, SendReturn(t)
    PROVE  Inv'
<1> DEFINE f == Top(t)
           n == Len(stack[t])
<1>1. stack[t] # <<>> /\ f.pc = "waited"
  BY DEF SendReturn, At
<1>2. f \in FrameType /\ FrameOK(t, n, f)
  BY <1>1, InvParts, TopFacts
<1>3. PICK m \in Msgs : f.m = m
  BY <1>1, <1>2 DEF FrameOK, FrameType
<1>4. HasCall(f.api)
  BY <1>1, <1>2 DEF FrameOK, Waits, HasCall
<1>5. Uses(m).handles >= 1
  BY <1>1, <1>3, <1>4, TopHandle DEF CallPcs, Uses
<1>6. msg[m] \in MessageType /\ msg[m].state = "active" /\ msg[m].refcount >= 1
  BY <1>5, LedgerFacts
<1> DEFINE r == [msg[m] EXCEPT !.refcount = msg[m].refcount - 1]
<1>7. r \in MessageType
  BY <1>6 DEF MessageType
<1>8. /\ cs_msg = NoThread
      /\ UNCHANGED <<queue, wait_o, deleted, last_msg, wq, cs_msg, types, handles>>
      /\ \/ Kept(t, m, r, Front(stack[t])) \/ Gone(t, m, r, Front(stack[t]))
         \/ PutHandle(t, m, r, Front(stack[t]), "none")
  <2>1. FreeCall(t, m, Front(stack[t])) /\ UNCHANGED handles
    BY <1>3 DEF SendReturn
  <2> QED
    BY <1>7, <2>1, FreeCallCases
<1> HIDE DEF r
<1> DEFINE h == Frame("handler", m, "none")
<1>9. \E g : /\ \/ g = NoFrame /\ (Kept(t, m, r, Front(stack[t])) \/ Gone(t, m, r, Front(stack[t])))
                \/ g = h /\ PutHandle(t, m, r, Front(stack[t]), "none")
             /\ Shifts(t, n, f, g) /\ StackShape' /\ QueuesShape'
  <2>1. CASE Kept(t, m, r, Front(stack[t])) \/ Gone(t, m, r, Front(stack[t]))
    <3>1. stack' = [stack EXCEPT ![t] = Front(stack[t])]
      BY <2>1 DEF Kept, Gone, PutTransfer, PutFree
    <3> QED
      BY <1>1, <1>8, <2>1, <3>1, CallEnds
  <2>2. CASE PutHandle(t, m, r, Front(stack[t]), "none")
    <3>1. stack' = [stack EXCEPT ![t] = Append(Front(stack[t]), h)] /\ t = Compl
      BY <2>2 DEF PutHandle
    <3>2. h \in FrameType /\ FrameOK(t, n, h) /\ h.pc = "handler"
      BY <3>1, PlaceOK DEF Frame
    <3> HIDE DEF h
    <3> QED
      BY <1>1, <1>8, <2>2, <3>1, <3>2, CallEnds
  <2> QED
    BY <1>8, <2>1, <2>2
<1>10. PICK g : /\ \/ g = NoFrame /\ (Kept(t, m, r, Front(stack[t])) \/ Gone(t, m, r, Front(stack[t])))
                   \/ g = h /\ PutHandle(t, m, r, Front(stack[t]), "none")
                /\ Shifts(t, n, f, g) /\ StackShape' /\ QueuesShape'
  BY <1>9
<1>11. LET u == Uses(m) IN
       /\ u \in UsesType /\ u.keepers = 0 /\ Balanced(msg[m], u)
       /\ Uses(m)'.queued = u.queued /\ Uses(m)'.windows = u.windows
       /\ Uses(m)'.running = u.running /\ Uses(m)'.own = u.own /\ Uses(m)'.done = u.done
       /\ Uses(m)'.calls = 0 /\ Uses(m)'.count = 0
       /\ Uses(m)'.handles = u.handles - OneIf(HasCall(f.api))
       /\ Uses(m)'.handler = IF g = NoFrame THEN 0 ELSE 1
  <2>1. g = NoFrame \/ g = Frame("handler", m, "none")
    BY <1>10
  <2> QED
    BY <1>1, <1>3, <1>8, <1>10, <2>1, CallGone
<1>12. \A x \in Msgs : Uses(x)'.keepers = Uses(x).keepers /\ IsFiniteSet(Keepers(x)')
  BY <1>8, InvParts, KeepersStay
<1>13. Open(r, Uses(m)')
  <2> DEFINE u == Uses(m)
             v == Uses(m)'
  <2>1. u \in UsesType /\ v \in UsesType
    <3>1. Finite'
      BY <1>8, <1>10, <1>12, InvParts, SameQueues, SameWindows, FiniteStep
    <3> QED
      BY <1>11, <3>1, BoundsNext
  <2>2. v.keepers = u.keepers /\ v.keepers = 0
    BY <1>11, <1>12
  <2>3. v.handles = u.handles - 1
    BY <1>4, <1>11 DEF OneIf
  <2>4. /\ v.queued = u.queued /\ v.windows = u.windows /\ v.running = u.running
        /\ v.own = u.own /\ v.done = u.done /\ v.calls = 0 /\ v.count = 0
        /\ Balanced(msg[m], u)
    BY <1>11
  <2> HIDE DEF u, v
  <2>5. v.handles + v.keepers = u.handles + u.keepers - 1 /\ v.calls + v.keepers <= 1
    BY <2>1, <2>2, <2>3, <2>4 DEF UsesType
  <2>6. Open([msg[m] EXCEPT !.refcount = msg[m].refcount - 1], v)
    BY <1>6, <2>1, <2>4, <2>5, HandleLeaves
  <2> QED
    BY <2>6 DEF r, v
<1>14. /\ g.m \in {m, NoMsg} /\ g.pc \notin {"publish", "put"} /\ (InTypes(g) => InTypes(f))
       /\ (g = h => g # NoFrame)
  <2>1. NoFrame.pc = "drained" /\ NoFrame.m = NoMsg /\ h.pc = "handler" /\ h.m = m /\ ~InTypes(h)
    BY DEF NoFrame, Frame, InTypes, HoldsTypes
  <2>2. ~InTypes(NoFrame)
    BY <2>1 DEF InTypes
  <2> HIDE DEF h
  <2> QED
    BY <1>10, <2>1, <2>2
<1>15. \/ Kept(t, m, r, Front(stack[t])) /\ Uses(m)'.handler = 0
       \/ Gone(t, m, r, Front(stack[t])) /\ Uses(m)'.handler = 0
       \/ PutHandle(t, m, r, Front(stack[t]), "none") /\ Uses(m)'.handler = 1
  BY <1>10, <1>11, <1>14
<1>16. /\ HandlesOK' /\ last_msg' \in [Threads -> Msgs \cup {NoMsg}]
       /\ cs_msg' = NoThread /\ UNCHANGED types
  BY <1>8, InvParts DEF HandlesOK
<1>17. Releases(t, m, r, n, f, g, Front(stack[t]), "none")
  BY <1>3, <1>6, <1>8, <1>10, <1>12, <1>13, <1>14, <1>15, <1>16 DEF Releases
<1> QED
  BY <1>7, <1>17, ReleaseStep DEF r

\* What refers to the message stays as much.
LEMMA OpenStays ==
    ASSUME NEW r \in MessageType, NEW u \in UsesType, NEW v \in UsesType,
           r.state = "active", Balanced(r, u),
           v.queued = u.queued, v.windows = u.windows, v.running = u.running, v.own = u.own,
           v.done = u.done, v.handles + v.keepers = u.handles + u.keepers,
           v.calls + v.keepers <= 1, v.count = 0
    PROVE  Open(r, v)
<1> DEFINE a == 0
<1>1. a \in Int /\ r.refcount = r.refcount + a + 2 * a + a + a
  BY DEF MessageType
<1>2. r.nSent - r.nCompleted - r.nFailed = r.nSent - r.nCompleted - r.nFailed + a - a
  BY DEF MessageType
<1>3. /\ UsedBy(v) = UsedBy(u) + a /\ v.own = u.own + a /\ v.done = u.done + a
      /\ v.handles + v.keepers = u.handles + u.keepers + a
  BY DEF UsedBy, UsesType
<1> HIDE DEF a
<1> QED
  BY <1>1, <1>2, <1>3, OpenMoves

\* The end of the posting loop.
LEMMA PublishEndFacts ==
    ASSUME Inv, NEW t \in Threads, PublishEnd(t)
    PROVE  /\ stack[t] # <<>> /\ Top(t).pc = "publish" /\ Top(t) \in FrameType
           /\ Top(t).m \in Msgs /\ Top(t).api \in Posts /\ cs_msg = t
           /\ FrameOK(t, Len(stack[t]), Top(t)) /\ Top(t).pc \notin {"drain", "drained"}
           /\ cs_msg' = NoThread /\ UNCHANGED <<queue, wait_o, deleted, last_msg, wq>>
           /\ last_msg' \in [Threads -> Msgs \cup {NoMsg}]
           /\ HasCall(Top(t).api) => msg[Top(t).m].refcount >= 1
           /\ msg[Top(t).m].state = "active" /\ msg[Top(t).m] \in MessageType
           /\ InTypes(Top(t)) <=> HoldsTypes(Top(t).api)
<1> DEFINE f == Top(t)
<1>1. stack[t] # <<>> /\ f.pc = "publish"
  BY DEF PublishEnd, At
<1>2. /\ f \in FrameType /\ f.m \in Msgs /\ FrameOK(t, Len(stack[t]), f) /\ cs_msg = t
  BY <1>1, PostingFacts DEF PublisherPcs
<1>3. f.api \in Posts
  BY <1>1, <1>2 DEF FrameOK
<1>4. PICK m \in Msgs : f.m = m
  BY <1>2
<1>5. Uses(m).calls >= 1
  BY <1>1, <1>4, PcsParts, TopCounted DEF Uses, CallPcs
<1>6. msg[m].state = "active" /\ msg[m] \in MessageType
  BY <1>5, LedgerFacts
<1>7. ASSUME HasCall(f.api) PROVE msg[m].refcount >= 1
  <2>1. Uses(m).handles >= 1
    BY <1>1, <1>4, <1>7, TopHandle DEF CallPcs, Uses
  <2> QED
    BY <2>1, LedgerFacts
<1>8. /\ cs_msg' = NoThread /\ UNCHANGED <<queue, wait_o, deleted, last_msg, wq>>
      /\ last_msg' \in [Threads -> Msgs \cup {NoMsg}]
  BY InvParts DEF PublishEnd
<1> QED
  BY <1>1, <1>2, <1>3, <1>4, <1>6, <1>7, <1>8 DEF InTypes

LEMMA PublishEndWaits ==
    ASSUME Inv, NEW t \in Threads, PublishEnd(t), Waits(Top(t).api)
    PROVE  Inv'
<1> DEFINE f == Top(t)
           n == Len(stack[t])
           g == [f EXCEPT !.pc = "wait", !.calls = 0]
<1>1. /\ stack[t] # <<>> /\ f.pc = "publish" /\ f \in FrameType
      /\ f.m \in Msgs /\ f.api \in Posts /\ cs_msg = t /\ FrameOK(t, n, f)
      /\ f.pc \notin {"drain", "drained"}
      /\ cs_msg' = NoThread /\ UNCHANGED <<queue, wait_o, deleted, last_msg, wq>>
      /\ last_msg' \in [Threads -> Msgs \cup {NoMsg}]
      /\ HasCall(f.api) => msg[f.m].refcount >= 1
      /\ msg[f.m].state = "active" /\ msg[f.m] \in MessageType
      /\ InTypes(f) <=> HoldsTypes(f.api)
  BY PublishEndFacts
<1>2. PICK m \in Msgs : f.m = m
  BY <1>1
<1>3. /\ g \in FrameType /\ g.pc = "wait" /\ g.m = m /\ g.api = f.api
      /\ f.api \in {"send", "sendsubs"} /\ HasCall(f.api) /\ HoldsTypes(f.api)
  <2>1. "wait" \in Pcs
    BY DEF Pcs
  <2>2. f.api \in {"send", "sendsubs"}
    BY <1>1 DEF Waits, Posts
  <2> QED
    BY <1>1, <1>2, <2>1, <2>2, MovedFrame DEF HasCall, HoldsTypes
<1>4. FrameOK(t, n, g)
  BY <1>1, <1>2, <1>3, CallAssumption DEF FrameOK, CallPcs, BottomPcs, Waits
<1> DEFINE r == msg[m]
<1>5. Kept(t, m, r, Moved(t, "wait"))
  <2>1. Settle(t, m, msg[m], Moved(t, "wait"), f.api)
    BY <1>2 DEF PublishEnd
  <2>2. r.refcount # 0 /\ r \in MessageType
    BY <1>1, <1>2, <1>3
  <2> HIDE DEF r
  <2> QED
    BY <2>1, <2>2, SettleCases DEF Gone, PutTransfer, PutFree, PutHandle, r
<1>6. Changes(t, g)
  BY <1>1, <1>5 DEF Kept, Changes, Moved
<1> HIDE DEF g
<1>7. StackShape' /\ Shifts(t, n, f, g)
  BY <1>3, <1>4, <1>6, InvParts, ChangeStep
<1>8. QueuesShape'
  <2>1. ~deleted[t] /\ wq'[Compl] = <<>>
    BY <1>1, InvParts, NotDeleted DEF QueuesShape
  <2> QED
    BY <1>1, <1>3, <1>7, <2>1, InvParts, QueuesShapeStep
<1>9. handles' = handles
  BY <1>3 DEF PublishEnd
<1>10. \A x \in Msgs : Uses(x)'.keepers = Uses(x).keepers /\ IsFiniteSet(Keepers(x)')
  BY <1>9, InvParts, KeepersStay
<1>11. Finite'
  BY <1>1, <1>7, <1>10, InvParts, SameQueues, SameWindows, FiniteStep
<1>12. Open(r, Uses(m)') /\ Uses(m)'.handler = 0
  <2> DEFINE u == Uses(m)
             v == Uses(m)'
  <2>1. u \in UsesType /\ v \in UsesType /\ v.queued = u.queued /\ v.windows = u.windows
        /\ v.keepers = u.keepers
    BY <1>1, <1>10, <1>11, InvParts, UsesTyped, BoundsNext, SameQueues, SameWindows
  <2>2. u.count = 0 /\ u.calls = 1 /\ u.keepers = 0
    BY <1>1, <1>2, <1>7, InvParts, CountAlone DEF CallPcs
  <2>3. Balanced(r, u) /\ r.state = "active" /\ u.handler = 0
    BY <1>1, <1>2, LedgerFacts DEF Balanced
  <2>4. /\ v.running = u.running - 0 + 0 /\ v.own = u.own - 0 + 0 /\ v.done = u.done - 0 + 0
        /\ v.calls = u.calls - 1 + 1 /\ v.handles = u.handles - 1 + 1
        /\ v.handler = u.handler - 0 + 0 /\ v.count = u.count - 0 + 0
    <3>1. HasCall(f.api) /\ HasCall(g.api) /\ f.pc = "publish" /\ g.pc = "wait"
      BY <1>1, <1>3
    <3>2. /\ Hits(f, m, RecipientPcs) = 0 /\ Hits(f, m, {"window"}) = 0 /\ Hits(f, m, {"sent"}) = 0
          /\ Hits(f, m, CallPcs) = 1 /\ HitsCall(f, m) = 1
          /\ Hits(f, m, {"handler"}) = 0 /\ Hits(f, m, {"count"}) = 0
      BY <1>2, <3>1, CallHits DEF OneIf
    <3>3. /\ Hits(g, m, RecipientPcs) = 0 /\ Hits(g, m, {"window"}) = 0 /\ Hits(g, m, {"sent"}) = 0
          /\ Hits(g, m, CallPcs) = 1 /\ HitsCall(g, m) = 1
          /\ Hits(g, m, {"handler"}) = 0 /\ Hits(g, m, {"count"}) = 0
      BY <1>3, <3>1, CallHits DEF OneIf
    <3> QED
      BY <1>7, <3>2, <3>3, InvParts, ShiftUses
  <2> HIDE DEF u, v
  <2>5. /\ v.running = u.running /\ v.own = u.own /\ v.done = u.done /\ v.calls = 1
        /\ v.handles = u.handles /\ v.handler = 0 /\ v.count = 0
    BY <2>1, <2>2, <2>3, <2>4 DEF UsesType
  <2>6. v.handles + v.keepers = u.handles + u.keepers /\ v.calls + v.keepers <= 1
    BY <2>1, <2>2, <2>5
  <2>7. Open(r, v)
    BY <1>1, <1>2, <2>1, <2>3, <2>5, <2>6, OpenStays
  <2> QED
    BY <2>5, <2>7 DEF v
<1>13. \/ UNCHANGED types /\ (InTypes(g) => InTypes(f))
       \/ EnterTypes(t) /\ InTypes(f)
       \/ LeaveTypes /\ InTypes(f) /\ ~InTypes(g)
  <2>1. msg'[m].state # "completing"
    <3>1. PICK e \in {"none", "clear", "set"} : msg' = [msg EXCEPT ![m] = [r EXCEPT !.event = e]]
      BY <1>5 DEF Kept
    <3>2. msg'[m].state = r.state
      BY <1>1, <1>2, <3>1, InvParts DEF MsgsOK, MessageType
    <3> QED
      BY <1>1, <1>2, <3>2
  <2>2. LeavePublish(t, f.api)
    BY <1>2, <1>3, <2>1 DEF PublishEnd
  <2>3. InTypes(f) /\ ~InTypes(g)
    BY <1>1, <1>3 DEF InTypes
  <2> QED
    BY <2>2, <2>3 DEF LeavePublish
<1>14. HandlesOK' /\ \A x \in Msgs \ {m} : Uses(x)'.keepers = Uses(x).keepers
  BY <1>9, <1>10, InvParts DEF HandlesOK
<1>15. r \in MessageType /\ r.state = "active"
  BY <1>1, <1>2
<1> HIDE DEF r
<1>16. Releases(t, m, r, n, f, g, Moved(t, "wait"), f.api)
  <2>1. g.pc \notin {"publish", "put"} /\ msg[m].state = "active"
    BY <1>1, <1>2, <1>3
  <2> QED
    BY <1>1, <1>2, <1>3, <1>5, <1>7, <1>8, <1>10, <1>12, <1>13, <1>14, <2>1 DEF Releases
<1> QED
  BY <1>15, <1>16, ReleaseStep

LEMMA PublishEndPost ==
    ASSUME Inv, NEW t \in Threads, PublishEnd(t), Top(t).api = "post"
    PROVE  Inv'
<1> DEFINE f == Top(t)
           n == Len(stack[t])
           rest == Front(stack[t])
<1>1. /\ stack[t] # <<>> /\ f.pc = "publish" /\ f.m \in Msgs /\ f.api = "post" /\ cs_msg = t
      /\ f.pc \notin {"drain", "drained"}
      /\ cs_msg' = NoThread /\ UNCHANGED <<queue, wait_o, deleted, last_msg, wq>>
      /\ last_msg' \in [Threads -> Msgs \cup {NoMsg}]
      /\ msg[f.m].state = "active" /\ msg[f.m] \in MessageType /\ InTypes(f)
  BY PublishEndFacts DEF HoldsTypes
<1>2. PICK m \in Msgs : f.m = m
  BY <1>1
<1>3. ~Waits("post") /\ ~HasCall("post") /\ HoldsTypes("post") /\ "post" \in Posts
  BY DEF Waits, HasCall, HoldsTypes, Posts
<1> DEFINE r == msg[m]
           h == Frame("handler", m, "post")
<1>4. r \in MessageType /\ r.state = "active"
  BY <1>1, <1>2
<1>5. /\ Kept(t, m, r, rest) \/ Gone(t, m, r, rest) \/ PutHandle(t, m, r, rest, "post")
      /\ handles' = handles
      /\ IF msg'[m].state # "completing" THEN LeaveTypes ELSE UNCHANGED types
  <2>1. /\ Settle(t, m, r, rest, "post") /\ handles' = handles
        /\ IF msg'[m].state # "completing" THEN LeavePublish(t, "post") ELSE UNCHANGED types
    BY <1>1, <1>2, <1>3 DEF PublishEnd
  <2> HIDE DEF r, rest
  <2> QED
    BY <1>4, <2>1, SettleCases DEF LeavePublish
<1>6. \E g : /\ \/ g = NoFrame /\ (Kept(t, m, r, rest) \/ Gone(t, m, r, rest))
                \/ g = h /\ PutHandle(t, m, r, rest, "post")
             /\ Shifts(t, n, f, g) /\ StackShape' /\ QueuesShape'
  <2>1. CASE Kept(t, m, r, rest) \/ Gone(t, m, r, rest)
    <3>1. stack' = [stack EXCEPT ![t] = Front(stack[t])]
      BY <2>1 DEF Kept, Gone, PutTransfer, PutFree
    <3> QED
      BY <1>1, <2>1, <3>1, CallEnds
  <2>2. CASE PutHandle(t, m, r, rest, "post")
    <3>1. stack' = [stack EXCEPT ![t] = Append(Front(stack[t]), h)] /\ t = Compl
      BY <2>2 DEF PutHandle
    <3>2. h \in FrameType /\ FrameOK(t, n, h) /\ h.pc = "handler"
      BY <1>3, <3>1, PlaceOK DEF Frame
    <3> HIDE DEF h
    <3> QED
      BY <1>1, <2>2, <3>1, <3>2, CallEnds
  <2> QED
    BY <1>5, <2>1, <2>2
<1>7. PICK g : /\ \/ g = NoFrame /\ (Kept(t, m, r, rest) \/ Gone(t, m, r, rest))
                  \/ g = h /\ PutHandle(t, m, r, rest, "post")
               /\ Shifts(t, n, f, g) /\ StackShape' /\ QueuesShape'
  BY <1>6
<1>8. LET u == Uses(m) IN
      /\ u \in UsesType /\ u.keepers = 0 /\ Balanced(msg[m], u)
      /\ Uses(m)'.queued = u.queued /\ Uses(m)'.windows = u.windows
      /\ Uses(m)'.running = u.running /\ Uses(m)'.own = u.own /\ Uses(m)'.done = u.done
      /\ Uses(m)'.calls = 0 /\ Uses(m)'.count = 0
      /\ Uses(m)'.handles = u.handles - OneIf(HasCall(f.api))
      /\ Uses(m)'.handler = IF g = NoFrame THEN 0 ELSE 1
  <2>1. g = NoFrame \/ g = Frame("handler", m, "post")
    BY <1>7
  <2> QED
    BY <1>1, <1>2, <1>7, <2>1, CallGone
<1>9. \A x \in Msgs : Uses(x)'.keepers = Uses(x).keepers /\ IsFiniteSet(Keepers(x)')
  BY <1>5, InvParts, KeepersStay
<1>10. Open(r, Uses(m)')
  <2> DEFINE u == Uses(m)
             v == Uses(m)'
  <2>1. u \in UsesType /\ v \in UsesType
    <3>1. Finite'
      BY <1>1, <1>7, <1>9, InvParts, SameQueues, SameWindows, FiniteStep
    <3> QED
      BY <1>8, <3>1, BoundsNext
  <2>2. v.keepers = u.keepers /\ v.keepers = 0
    BY <1>8, <1>9
  <2>3. v.handles = u.handles - 0
    BY <1>1, <1>3, <1>8 DEF OneIf
  <2>4. /\ v.queued = u.queued /\ v.windows = u.windows /\ v.running = u.running
        /\ v.own = u.own /\ v.done = u.done /\ v.calls = 0 /\ v.count = 0
        /\ Balanced(r, u)
    BY <1>8
  <2> HIDE DEF u, v, r
  <2>5. v.handles + v.keepers = u.handles + u.keepers /\ v.calls + v.keepers <= 1
    BY <2>1, <2>2, <2>3, <2>4 DEF UsesType
  <2>6. Open(r, v)
    BY <1>4, <2>1, <2>4, <2>5, OpenStays
  <2> QED
    BY <2>6 DEF v
<1>11. /\ g.m \in {m, NoMsg} /\ g.pc \notin {"publish", "put"}
       /\ (g = h => g # NoFrame) /\ ~InTypes(NoFrame)
  <2>1. NoFrame.pc = "drained" /\ NoFrame.m = NoMsg /\ h.pc = "handler" /\ h.m = m
    BY DEF NoFrame, Frame
  <2>2. ~InTypes(NoFrame)
    BY <2>1 DEF InTypes
  <2> HIDE DEF h
  <2> QED
    BY <1>7, <2>1, <2>2
<1>12. \/ Kept(t, m, r, rest) /\ Uses(m)'.handler = 0
       \/ Gone(t, m, r, rest) /\ Uses(m)'.handler = 0
       \/ PutHandle(t, m, r, rest, "post") /\ Uses(m)'.handler = 1
  BY <1>7, <1>8, <1>11
<1>13. \/ UNCHANGED types /\ (InTypes(g) => InTypes(f))
       \/ LeaveTypes /\ InTypes(f) /\ ~InTypes(g)
  <2>1. CASE g = h /\ PutHandle(t, m, r, rest, "post")
    <3>1. msg'[m].state = "completing"
      BY <1>4, <2>1, InvParts DEF PutHandle, MsgsOK, MessageType
    <3> QED
      BY <1>1, <1>5, <3>1
  <2>2. CASE g = NoFrame /\ Kept(t, m, r, rest)
    <3>1. PICK e \in {"none", "clear", "set"} : msg' = [msg EXCEPT ![m] = [r EXCEPT !.event = e]]
      BY <2>2 DEF Kept
    <3>2. msg'[m].state # "completing"
      BY <1>4, <3>1, InvParts DEF MsgsOK, MessageType
    <3> QED
      BY <1>1, <1>5, <1>11, <2>2, <3>2
  <2>3. CASE g = NoFrame /\ Gone(t, m, r, rest)
    <3>1. msg'[m].state # "completing"
      BY <1>4, <2>3, InvParts DEF Gone, PutTransfer, PutFree, FreeMessage, MsgsOK, MessageType
    <3> QED
      BY <1>1, <1>5, <1>11, <2>3, <3>1
  <2> QED
    BY <1>7, <2>1, <2>2, <2>3
<1>14. HandlesOK'
  BY <1>5, InvParts DEF HandlesOK
<1>15. Releases(t, m, r, n, f, g, rest, "post")
  BY <1>1, <1>2, <1>4, <1>7, <1>9, <1>10, <1>11, <1>12, <1>13, <1>14 DEF Releases
<1> HIDE DEF r
<1> QED
  BY <1>4, <1>15, ReleaseStep

LEMMA PublishEndPostSubs ==
    ASSUME Inv, NEW t \in Threads, PublishEnd(t), Top(t).api = "postsubs"
    PROVE  Inv'
<1> DEFINE f == Top(t)
           n == Len(stack[t])
           rest == Front(stack[t])
           g == NoFrame
<1>1. /\ stack[t] # <<>> /\ f.pc = "publish" /\ f.m \in Msgs /\ f.api = "postsubs" /\ cs_msg = t
      /\ f.pc \notin {"drain", "drained"}
      /\ cs_msg' = NoThread /\ UNCHANGED <<queue, wait_o, deleted, last_msg, wq>>
      /\ last_msg' \in [Threads -> Msgs \cup {NoMsg}]
      /\ msg[f.m].state = "active" /\ msg[f.m] \in MessageType /\ msg[f.m].refcount >= 1
  BY PublishEndFacts DEF HasCall
<1>2. PICK m \in Msgs : f.m = m
  BY <1>1
<1>3. ~Waits("postsubs") /\ HasCall("postsubs") /\ ~HoldsTypes("postsubs")
  BY DEF Waits, HasCall, HoldsTypes
<1> DEFINE r == msg[m]
           hs == handles[t] \cup {m}
<1>4. r \in MessageType /\ r.state = "active" /\ r.refcount # 0
  BY <1>1, <1>2
<1>5. Kept(t, m, r, rest) /\ handles' = [handles EXCEPT ![t] = hs] /\ UNCHANGED types
  <2>1. /\ Settle(t, m, r, rest, "postsubs") /\ handles' = [handles EXCEPT ![t] = hs]
        /\ UNCHANGED types
    BY <1>1, <1>2, <1>3 DEF PublishEnd
  <2> HIDE DEF r, rest
  <2> QED
    BY <1>4, <2>1, SettleCases DEF Gone, PutTransfer, PutFree, PutHandle
<1>6. Shifts(t, n, f, g) /\ StackShape' /\ QueuesShape'
  <2>1. stack' = [stack EXCEPT ![t] = Front(stack[t])]
    BY <1>5 DEF Kept
  <2> QED
    BY <1>1, <2>1, CallEnds
<1>7. hs \in SUBSET Msgs
  BY InvParts DEF HandlesOK
<1> HIDE DEF hs
<1>8. /\ HandlesOK'
      /\ \A x \in Msgs : IsFiniteSet(Keepers(x)')
      /\ \A x \in Msgs : Cardinality(Keepers(x)')
           = Cardinality(Keepers(x)) - OneIf(x \in handles[t]) + OneIf(x \in hs)
  BY <1>2, <1>5, <1>7, InvParts, KeepersMove
<1>9. \A x \in Msgs \ {m} : Uses(x)'.keepers = Uses(x).keepers
  <2> SUFFICES ASSUME NEW x \in Msgs \ {m} PROVE Uses(x)'.keepers = Uses(x).keepers
    OBVIOUS
  <2>1. OneIf(x \in hs) = OneIf(x \in handles[t])
    BY DEF hs, OneIf
  <2>2. Cardinality(Keepers(x)) \in Nat /\ OneIf(x \in hs) \in Int
    BY InvParts, FS_CardinalityType DEF Finite, OneIf
  <2>3. Cardinality(Keepers(x)') = Cardinality(Keepers(x))
    BY <1>8, <2>1, <2>2
  <2> QED
    BY <2>3 DEF Uses
<1>10. LET u == Uses(m) IN
      /\ u \in UsesType /\ u.keepers = 0 /\ Balanced(msg[m], u)
      /\ Uses(m)'.queued = u.queued /\ Uses(m)'.windows = u.windows
      /\ Uses(m)'.running = u.running /\ Uses(m)'.own = u.own /\ Uses(m)'.done = u.done
      /\ Uses(m)'.calls = 0 /\ Uses(m)'.count = 0
      /\ Uses(m)'.handles = u.handles - OneIf(HasCall(f.api))
      /\ Uses(m)'.handler = IF g = NoFrame THEN 0 ELSE 1
  BY <1>1, <1>2, <1>6, CallGone
<1>11. Uses(m)'.keepers = 1
  <2>1. Keepers(m) = {} /\ Cardinality(Keepers(m)) = 0
    BY <1>10, InvParts, FS_EmptySet DEF Uses, Finite
  <2>2. m \notin handles[t] /\ m \in hs
    BY <2>1 DEF Keepers, hs
  <2>3. Cardinality(Keepers(m)') = 0 - 0 + 1
    BY <1>8, <2>1, <2>2 DEF OneIf
  <2> QED
    BY <2>3 DEF Uses
<1>12. Open(r, Uses(m)')
  <2> DEFINE u == Uses(m)
             v == Uses(m)'
  <2>1. u \in UsesType /\ v \in UsesType
    <3>1. Finite'
      BY <1>1, <1>6, <1>8, InvParts, SameQueues, SameWindows, FiniteStep
    <3> QED
      BY <1>10, <3>1, BoundsNext
  <2>2. v.handles = u.handles - 1 /\ v.keepers = 1 /\ u.keepers = 0
    BY <1>1, <1>3, <1>10, <1>11 DEF OneIf
  <2>3. /\ v.queued = u.queued /\ v.windows = u.windows /\ v.running = u.running
        /\ v.own = u.own /\ v.done = u.done /\ v.calls = 0 /\ v.count = 0
        /\ Balanced(r, u)
    BY <1>10
  <2> HIDE DEF u, v, r
  <2>4. v.handles + v.keepers = u.handles + u.keepers /\ v.calls + v.keepers <= 1
    BY <2>1, <2>2, <2>3 DEF UsesType
  <2>5. Open(r, v)
    BY <1>4, <2>1, <2>3, <2>4, OpenStays
  <2> QED
    BY <2>5 DEF v
<1>13. /\ g.m \in {m, NoMsg} /\ g.pc \notin {"publish", "put"} /\ ~InTypes(g)
       /\ Uses(m)'.handler = 0
  BY <1>10 DEF NoFrame, Frame, InTypes
<1>14. Releases(t, m, r, n, f, g, rest, "postsubs")
  BY <1>1, <1>2, <1>4, <1>5, <1>6, <1>8, <1>9, <1>12, <1>13 DEF Releases
<1> HIDE DEF r
<1> QED
  BY <1>4, <1>14, ReleaseStep

LEMMA PublishEndStep ==
    ASSUME Inv, NEW t \in Threads, PublishEnd(t)
    PROVE  Inv'
<1>1. Top(t).api \in Posts
  BY PublishEndFacts
<1>2. Waits(Top(t).api) \/ Top(t).api = "post" \/ Top(t).api = "postsubs"
  BY <1>1 DEF Posts, Waits
<1> QED
  BY <1>2, PublishEndWaits, PublishEndPost, PublishEndPostSubs

-----------------------------------------------------------------------------
(* The user code of a thread, outside of the library's calls.               *)

LEMMA IdleShape ==
    ASSUME Inv, NEW t \in Threads, stack[t] # <<>> => Top(t).pc \in UserCode,
           NEW f, NEW g, Shifts(t, Len(stack[t]) + 1, f, g), g.pc # "woken",
           UNCHANGED <<queue, wait_o, deleted, wq>>,
           deleted[t] => Len(stack'[t]) = Len(stack[t]),
           Len(stack[t]) + 1 \in DOMAIN stack'[t] => ~deleted[t] /\ g.pc \notin {"drain", "drained"}
    PROVE  QueuesShape'
<1>1. deleted[t] => stack[t] = <<>> /\ Len(stack[t]) = 0
  <2>1. deleted[t] => stack[t] = <<>>
    BY InvParts, NotDeleted DEF UserCode
  <2> QED
    BY <2>1
<1>2. wq'[Compl] = <<>>
  BY SameWindows
<1> QED
  BY <1>1, <1>2, InvParts, QueuesShapeStep

\* A frame of the completion handler appears, or none.
LEMMA HandlerPlaced ==
    ASSUME Inv, NEW t \in Threads, NEW k, NEW g, Shifts(t, k, NoFrame, g), NEW m \in Msgs,
           NEW api, g = NoFrame \/ g = Frame("handler", m, api)
    PROVE  LET u == Uses(m)
               v == Uses(m)'
           IN
           /\ v.running = u.running /\ v.own = u.own /\ v.done = u.done /\ v.calls = u.calls
           /\ v.handles = u.handles /\ v.publisher = u.publisher /\ v.count = u.count
           /\ v.handler = u.handler + OneIf(g # NoFrame)
<1> DEFINE u == Uses(m)
           v == Uses(m)'
<1>1. u \in UsesType
  BY LedgerFacts
<1>2. NoFrame.m # m /\ Frame("handler", m, api).m = m
  BY CallAssumption DEF NoFrame, Frame
<1>3. /\ Hits(NoFrame, m, RecipientPcs) = 0 /\ Hits(NoFrame, m, {"window"}) = 0
      /\ Hits(NoFrame, m, {"sent"}) = 0 /\ Hits(NoFrame, m, CallPcs) = 0
      /\ HitsCall(NoFrame, m) = 0 /\ Hits(NoFrame, m, PublisherPcs) = 0
      /\ Hits(NoFrame, m, {"handler"}) = 0 /\ Hits(NoFrame, m, {"count"}) = 0
  BY <1>2, NoHits
<1>4. /\ Hits(g, m, RecipientPcs) = 0 /\ Hits(g, m, {"window"}) = 0
      /\ Hits(g, m, {"sent"}) = 0 /\ Hits(g, m, CallPcs) = 0
      /\ HitsCall(g, m) = 0 /\ Hits(g, m, PublisherPcs) = 0
      /\ Hits(g, m, {"handler"}) = OneIf(g # NoFrame) /\ Hits(g, m, {"count"}) = 0
  BY <1>2, <1>3, HandlerHits DEF OneIf
<1>5. /\ v.running = u.running - 0 + 0 /\ v.own = u.own - 0 + 0 /\ v.done = u.done - 0 + 0
      /\ v.calls = u.calls - 0 + 0 /\ v.handles = u.handles - 0 + 0
      /\ v.publisher = u.publisher - 0 + 0 /\ v.count = u.count - 0 + 0
      /\ v.handler = u.handler - 0 + OneIf(g # NoFrame)
  BY <1>3, <1>4, InvParts, ShiftUses
<1>6. OneIf(g # NoFrame) \in Int
  BY DEF OneIf
<1> HIDE DEF u, v
<1>7. /\ v.running = u.running /\ v.own = u.own /\ v.done = u.done /\ v.calls = u.calls
      /\ v.handles = u.handles /\ v.publisher = u.publisher /\ v.count = u.count
      /\ v.handler = u.handler + OneIf(g # NoFrame)
  BY <1>1, <1>5, <1>6 DEF UsesType
<1> QED
  BY <1>7 DEF u, v

\* A thread that has a call handle of m.
LEMMA KeeperFacts ==
    ASSUME Inv, NEW t \in Threads, NEW m \in Msgs, m \in handles[t]
    PROVE  /\ Uses(m) \in UsesType /\ Uses(m).keepers = 1 /\ Uses(m).calls = 0
           /\ Uses(m).count = 0 /\ Uses(m).handler = 0 /\ Balanced(msg[m], Uses(m))
           /\ msg[m] \in MessageType /\ msg[m].state = "active" /\ msg[m].refcount >= 1
<1> DEFINE u == Uses(m)
<1>1. u.keepers >= 1
  <2>1. t \in Keepers(m) /\ IsFiniteSet(Keepers(m))
    BY InvParts DEF Keepers, Finite
  <2>2. Cardinality(Keepers(m)) >= 1
    BY <2>1, FS_EmptySet, FS_CardinalityType
  <2> QED
    BY <2>2 DEF Uses
<1>2. /\ u \in UsesType /\ msg[m] \in MessageType /\ Balanced(msg[m], u)
      /\ msg[m].state = "active" /\ msg[m].refcount >= 1
  BY <1>1, LedgerFacts
<1>3. u.count + u.done <= u.calls
  BY InvParts, UsesBounds
<1> HIDE DEF u
<1>4. u.keepers = 1 /\ u.calls = 0
  BY <1>1, <1>2 DEF Balanced, UsesType
<1>5. u.count = 0
  BY <1>2, <1>3, <1>4 DEF UsesType
<1>6. u.handler = 0
  BY <1>2 DEF Balanced
<1> QED
  BY <1>2, <1>4, <1>5, <1>6 DEF u

LEMMA FreeHandleStep ==
    ASSUME Inv, NEW t \in Threads, NEW m \in Msgs, FreeHandle(t, m)
    PROVE  Inv'
<1> DEFINE n == Len(stack[t]) + 1
           hs == handles[t] \ {m}
           r == [msg[m] EXCEPT !.refcount = msg[m].refcount - 1]
           h == Frame("handler", m, "none")
           rest == stack[t]
<1>1. /\ m \in handles[t] /\ (stack[t] # <<>> => Top(t).pc \in UserCode)
      /\ FreeCall(t, m, rest) /\ handles' = [handles EXCEPT ![t] = hs]
  BY DEF FreeHandle
<1>2. /\ Uses(m) \in UsesType /\ Uses(m).keepers = 1 /\ Uses(m).calls = 0
      /\ Uses(m).count = 0 /\ Uses(m).handler = 0 /\ Balanced(msg[m], Uses(m))
      /\ msg[m] \in MessageType /\ msg[m].state = "active" /\ msg[m].refcount >= 1
  BY <1>1, KeeperFacts
<1>3. r \in MessageType
  BY <1>2 DEF MessageType
<1>4. /\ cs_msg = NoThread
      /\ UNCHANGED <<queue, wait_o, deleted, last_msg, wq, cs_msg, types>>
      /\ Kept(t, m, r, rest) \/ Gone(t, m, r, rest) \/ PutHandle(t, m, r, rest, "none")
  <2> HIDE DEF rest
  <2> QED
    BY <1>1, <1>3, FreeCallCases
<1> HIDE DEF r
<1>5. \E g : /\ \/ g = NoFrame /\ (Kept(t, m, r, rest) \/ Gone(t, m, r, rest))
                \/ g = h /\ PutHandle(t, m, r, rest, "none")
             /\ Shifts(t, n, NoFrame, g) /\ StackShape' /\ QueuesShape'
  <2>0. rest \in Seq(FrameType) /\ \A i \in 1 .. Len(rest) : SameFrame(rest[i], stack[t][i])
    BY InvParts DEF StacksOK, SameFrame
  <2>1. CASE Kept(t, m, r, rest) \/ Gone(t, m, r, rest)
    <3>1. stack' = [stack EXCEPT ![t] = rest]
      BY <2>1 DEF Kept, Gone, PutTransfer, PutFree
    <3>2. /\ StackShape' /\ Shifts(t, n, NoFrame, NoFrame) /\ Len(stack'[t]) = Len(stack[t])
          /\ n \notin DOMAIN stack'[t]
      BY <1>1, <2>0, <3>1, InvParts, IdleStep
    <3>3. NoFrame.pc # "woken"
      BY DEF NoFrame, Frame
    <3>4. QueuesShape'
      BY <1>1, <1>4, <3>2, <3>3, IdleShape
    <3> QED
      BY <2>1, <3>2, <3>4
  <2>2. CASE PutHandle(t, m, r, rest, "none")
    <3>1. stack' = [stack EXCEPT ![t] = Append(rest, h)] /\ t = Compl
      BY <2>2 DEF PutHandle
    <3>2. h \in FrameType /\ FrameOK(t, n, h) /\ h.pc \notin {"woken", "drain", "drained"}
      BY <3>1, PlaceOK DEF Frame
    <3> HIDE DEF h
    <3>3. Pushes(t, rest, h)
      BY <2>0, <3>1 DEF Pushes
    <3>4. StackShape' /\ Shifts(t, n, NoFrame, h)
      BY <1>1, <3>2, <3>3, InvParts, PushStep
    <3>5. ~deleted[t]
      BY <3>1, InvParts DEF QueuesShape
    <3>6. QueuesShape'
      BY <1>1, <1>4, <3>2, <3>4, <3>5, IdleShape
    <3> QED
      BY <2>2, <3>4, <3>6
  <2> QED
    BY <1>4, <2>1, <2>2
<1>6. PICK g : /\ \/ g = NoFrame /\ (Kept(t, m, r, rest) \/ Gone(t, m, r, rest))
                  \/ g = h /\ PutHandle(t, m, r, rest, "none")
               /\ Shifts(t, n, NoFrame, g) /\ StackShape' /\ QueuesShape'
  BY <1>5
<1>7. hs \in SUBSET Msgs
  BY InvParts DEF HandlesOK
<1> HIDE DEF hs
<1>8. /\ HandlesOK'
      /\ \A x \in Msgs : IsFiniteSet(Keepers(x)')
      /\ \A x \in Msgs : Cardinality(Keepers(x)')
           = Cardinality(Keepers(x)) - OneIf(x \in handles[t]) + OneIf(x \in hs)
  BY <1>1, <1>7, InvParts, KeepersMove
<1>9. \A x \in Msgs \ {m} : Uses(x)'.keepers = Uses(x).keepers
  <2> SUFFICES ASSUME NEW x \in Msgs \ {m} PROVE Uses(x)'.keepers = Uses(x).keepers
    OBVIOUS
  <2>1. OneIf(x \in hs) = OneIf(x \in handles[t])
    BY DEF hs, OneIf
  <2>2. Cardinality(Keepers(x)) \in Nat /\ OneIf(x \in hs) \in Int
    BY InvParts, FS_CardinalityType DEF Finite, OneIf
  <2>3. Cardinality(Keepers(x)') = Cardinality(Keepers(x))
    BY <1>8, <2>1, <2>2
  <2> QED
    BY <2>3 DEF Uses
<1>10. Uses(m)'.keepers = 0
  <2>1. Cardinality(Keepers(m)) = 1
    BY <1>2 DEF Uses
  <2>2. m \notin hs
    BY DEF hs
  <2>3. Cardinality(Keepers(m)') = 1 - 1 + 0
    BY <1>1, <1>8, <2>1, <2>2 DEF OneIf
  <2> QED
    BY <2>3 DEF Uses
<1>11. /\ g.m \in {m, NoMsg} /\ g.pc \notin {"publish", "put"} /\ ~InTypes(g)
       /\ h # NoFrame /\ NoFrame.m = NoMsg
  <2>1. NoFrame.pc = "drained" /\ NoFrame.m = NoMsg /\ h.pc = "handler" /\ h.m = m /\ ~InTypes(h)
    BY DEF NoFrame, Frame, InTypes, HoldsTypes
  <2>2. ~InTypes(NoFrame)
    BY <2>1 DEF InTypes
  <2> HIDE DEF h
  <2> QED
    BY <1>6, <2>1, <2>2
<1>12. LET u == Uses(m)
           v == Uses(m)'
       IN
       /\ v.running = u.running /\ v.own = u.own /\ v.done = u.done /\ v.calls = u.calls
       /\ v.handles = u.handles /\ v.publisher = u.publisher /\ v.count = u.count
       /\ v.handler = u.handler + OneIf(g # NoFrame)
  <2>1. g = NoFrame \/ g = Frame("handler", m, "none")
    BY <1>6
  <2> QED
    BY <1>6, <2>1, HandlerPlaced
<1>13. Uses(m)'.queued = Uses(m).queued /\ Uses(m)'.windows = Uses(m).windows
  BY <1>4, SameQueues, SameWindows
<1>14. Open(r, Uses(m)')
  <2> DEFINE u == Uses(m)
             v == Uses(m)'
  <2>1. u \in UsesType /\ v \in UsesType
    <3>1. Finite'
      BY <1>4, <1>6, <1>8, InvParts, SameQueues, SameWindows, FiniteStep
    <3> QED
      BY <1>2, <3>1, BoundsNext
  <2>2. /\ v.queued = u.queued /\ v.windows = u.windows /\ v.running = u.running
        /\ v.own = u.own /\ v.done = u.done /\ v.calls = 0 /\ v.count = 0
        /\ v.handles = u.handles /\ v.keepers = 0 /\ u.keepers = 1
        /\ Balanced(msg[m], u)
    BY <1>2, <1>10, <1>12, <1>13
  <2> HIDE DEF u, v
  <2>3. v.handles + v.keepers = u.handles + u.keepers - 1 /\ v.calls + v.keepers <= 1
    BY <2>1, <2>2 DEF UsesType
  <2>4. Open([msg[m] EXCEPT !.refcount = msg[m].refcount - 1], v)
    BY <1>2, <2>1, <2>2, <2>3, HandleLeaves
  <2> QED
    BY <2>4 DEF r, v
<1>15. \/ Kept(t, m, r, rest) /\ Uses(m)'.handler = 0
       \/ Gone(t, m, r, rest) /\ Uses(m)'.handler = 0
       \/ PutHandle(t, m, r, rest, "none") /\ Uses(m)'.handler = 1
  BY <1>2, <1>6, <1>11, <1>12 DEF OneIf
<1>16. /\ last_msg' \in [Threads -> Msgs \cup {NoMsg}] /\ cs_msg' = NoThread /\ UNCHANGED types
  BY <1>4, InvParts
<1>17. Releases(t, m, r, n, NoFrame, g, rest, "none")
  <2> HIDE DEF n, rest, h
  <2> QED
    BY <1>2, <1>4, <1>6, <1>8, <1>9, <1>11, <1>14, <1>15, <1>16 DEF Releases
<1> QED
  BY <1>3, <1>17, ReleaseStep

LEMMA WaitStep ==
    ASSUME Inv, NEW t \in Threads, Wait(t)
    PROVE  Inv'
<1> DEFINE f == Top(t)
           n == Len(stack[t])
           g == [f EXCEPT !.pc = "waited", !.calls = 0]
<1>1. stack[t] # <<>> /\ f.pc = "wait"
  BY DEF Wait, At
<1>2. f \in FrameType /\ FrameOK(t, n, f)
  BY <1>1, InvParts, TopFacts
<1>3. PICK m \in Msgs : f.m = m
  BY <1>1, <1>2 DEF FrameOK, FrameType
<1>4. g \in FrameType /\ g.pc = "waited" /\ g.m = m /\ g.api = f.api
  <2>1. "waited" \in Pcs
    BY DEF Pcs
  <2> QED
    BY <1>2, <1>3, <2>1, MovedFrame
<1>5. FrameOK(t, n, g)
  BY <1>1, <1>2, <1>3, <1>4, CallAssumption DEF FrameOK, CallPcs, BottomPcs
<1>6. /\ Changes(t, g) /\ msg' = [msg EXCEPT ![m].event = "clear"]
      /\ UNCHANGED <<queue, wait_o, deleted, last_msg, wq, handles, xfer, cs_msg, types>>
  BY <1>1, <1>3 DEF Wait, Changes, Goto, Moved
<1> HIDE DEF g
<1>7. StackShape' /\ Shifts(t, n, f, g)
  BY <1>4, <1>5, <1>6, InvParts, ChangeStep
<1> DEFINE r == [msg[m] EXCEPT !.event = "clear"]
<1>8. Uses(m).calls >= 1
  BY <1>1, <1>3, TopCounted DEF Uses, CallPcs, Pcs
<1>9. /\ msg[m] \in MessageType /\ Balanced(msg[m], Uses(m)) /\ Uses(m) \in UsesType
      /\ msg[m].state = "active"
  BY <1>8, LedgerFacts
<1>10. r \in MessageType /\ r.state = msg[m].state /\ msg' = [msg EXCEPT ![m] = r]
  BY <1>6, <1>9, InvParts DEF MessageType
<1>11. \A x \in Msgs : /\ Uses(x)'.queued = Uses(x).queued /\ IsFiniteSet(QueuedTo(x, Queues)')
                       /\ Uses(x)'.windows = Uses(x).windows /\ IsFiniteSet(QueuedTo(x, wq)')
                       /\ Uses(x)'.keepers = Uses(x).keepers /\ IsFiniteSet(Keepers(x)')
  BY <1>6, SameQueues, SameWindows, InvParts, KeepersStay
<1>12. Uses(m)' = Uses(m)
  <2> DEFINE u == Uses(m)
             v == Uses(m)'
  <2>1. /\ Hits(f, m, RecipientPcs) = 0 /\ Hits(f, m, {"window"}) = 0 /\ Hits(f, m, {"sent"}) = 0
        /\ Hits(f, m, CallPcs) = 1 /\ HitsCall(f, m) = OneIf(HasCall(f.api))
        /\ Hits(f, m, PublisherPcs) = 0 /\ Hits(f, m, {"handler"}) = 0 /\ Hits(f, m, {"count"}) = 0
    BY <1>1, <1>3, CallHits DEF OneIf
  <2>2. /\ Hits(g, m, RecipientPcs) = 0 /\ Hits(g, m, {"window"}) = 0 /\ Hits(g, m, {"sent"}) = 0
        /\ Hits(g, m, CallPcs) = 1 /\ HitsCall(g, m) = OneIf(HasCall(f.api))
        /\ Hits(g, m, PublisherPcs) = 0 /\ Hits(g, m, {"handler"}) = 0 /\ Hits(g, m, {"count"}) = 0
    BY <1>4, CallHits DEF OneIf
  <2> DEFINE c == OneIf(HasCall(f.api))
  <2>3. /\ v.running = u.running - 0 + 0 /\ v.own = u.own - 0 + 0 /\ v.done = u.done - 0 + 0
        /\ v.calls = u.calls - 1 + 1 /\ v.handles = u.handles - c + c
        /\ v.publisher = u.publisher - 0 + 0 /\ v.count = u.count - 0 + 0
        /\ v.handler = u.handler - 0 + 0
    BY <1>7, <2>1, <2>2, InvParts, ShiftUses
  <2>4. c \in Int
    BY DEF OneIf
  <2>5. v.queued = u.queued /\ v.windows = u.windows /\ v.keepers = u.keepers
    BY <1>11
  <2>6. v \in UsesType
    <3>1. Finite'
      BY <1>7, <1>11, InvParts, FiniteStep
    <3> QED
      BY <3>1, BoundsNext
  <2>7. u \in UsesType
    BY <1>9
  <2> HIDE DEF u, v, c
  <2>8. v = u
    BY <2>3, <2>4, <2>5, <2>6, <2>7 DEF UsesType
  <2> QED
    BY <2>8 DEF u, v
<1> DEFINE u == Uses(m)
<1>13. Balanced(r, Uses(m)')
  <2>1. Uses(m)' = u /\ Balanced(msg[m], u)
    BY <1>9, <1>12
  <2> HIDE DEF u
  <2>2. /\ r.refcount = msg[m].refcount /\ r.nSent = msg[m].nSent
        /\ r.nCompleted = msg[m].nCompleted /\ r.nFailed = msg[m].nFailed
    BY <1>9 DEF MessageType
  <2>3. Balanced(r, u)
    BY <1>10, <2>1, <2>2 DEF Balanced
  <2> QED
    BY <2>1, <2>3
<1>14. QueuesShape'
  <2>1. ~deleted[t]
    BY <1>1, InvParts, NotDeleted
  <2>2. wq'[Compl] = <<>>
    BY <1>6, SameWindows
  <2> QED
    BY <1>4, <1>6, <1>7, <2>1, <2>2, InvParts, QueuesShapeStep
<1>15. QueuesOK' /\ WindowsOK'
  BY <1>6, SameQueues, SameWindows
<1>16. /\ HandlesOK' /\ cs_msg' \in Threads \cup {NoThread}
       /\ wait_o' \in [Threads -> {"clear", "set", "closed"}]
       /\ deleted' \in [Threads -> BOOLEAN] /\ last_msg' \in [Threads -> Msgs \cup {NoMsg}]
  BY <1>6, InvParts DEF HandlesOK
<1>17. ~InTypes(g) /\ g.pc \notin {"publish", "put"}
  BY <1>4 DEF InTypes
<1>18. r.state = "xfer" <=> msg[m].state = "xfer"
  BY <1>10
<1>19. UNCHANGED types /\ (InTypes(g) => InTypes(f))
  BY <1>6, <1>17
<1>20. \A x \in Msgs : /\ IsFiniteSet(QueuedTo(x, Queues)') /\ IsFiniteSet(QueuedTo(x, wq)')
                       /\ IsFiniteSet(Keepers(x)')
  BY <1>11
<1>21. \A x \in Msgs \ {m} : /\ Uses(x)'.queued = Uses(x).queued
                             /\ Uses(x)'.windows = Uses(x).windows
                             /\ Uses(x)'.keepers = Uses(x).keepers
  BY <1>11
<1>22. f.m \in {m, NoMsg} /\ g.m \in {m, NoMsg}
  BY <1>3, <1>4
<1> HIDE DEF r, n, f
<1> QED
  BY <1>6, <1>7, <1>10, <1>13, <1>14, <1>15, <1>16, <1>17, <1>18, <1>19, <1>20, <1>21, <1>22,
     QuietStep

LEMMA AbortStep ==
    ASSUME Inv, NEW t \in Threads, NEW m \in Msgs, Abort(t, m)
    PROVE  Inv'
<1> DEFINE n == Len(stack[t]) + 1
           r == [msg[m] EXCEPT !.aborted = TRUE]
<1>1. /\ m \in handles[t] /\ (stack[t] # <<>> => Top(t).pc \in UserCode)
      /\ msg' = [msg EXCEPT ![m].aborted = TRUE]
      /\ UNCHANGED <<queue, wait_o, deleted, last_msg, wq, stack, handles, xfer, cs_msg, types>>
  BY DEF Abort
<1>2. /\ Uses(m) \in UsesType /\ Balanced(msg[m], Uses(m)) /\ msg[m] \in MessageType
      /\ msg[m].state = "active"
  BY <1>1, KeeperFacts
<1>3. r \in MessageType /\ r.state = msg[m].state /\ msg' = [msg EXCEPT ![m] = r]
  BY <1>1, <1>2, InvParts DEF MessageType
<1>4. /\ StackShape' /\ Shifts(t, n, NoFrame, NoFrame) /\ Len(stack'[t]) = Len(stack[t])
      /\ n \notin DOMAIN stack'[t]
  <2> DEFINE s == stack[t]
  <2>1. /\ s \in Seq(FrameType) /\ Len(s) = Len(stack[t])
        /\ \A i \in 1 .. Len(s) : SameFrame(s[i], stack[t][i])
        /\ stack' = [stack EXCEPT ![t] = s]
    BY <1>1, InvParts DEF StacksOK, SameFrame
  <2> HIDE DEF s
  <2> QED
    BY <1>1, <2>1, InvParts, IdleStep
<1>5. NoFrame.pc = "drained" /\ NoFrame.m = NoMsg /\ ~InTypes(NoFrame)
  BY DEF NoFrame, Frame, InTypes
<1>6. QueuesShape'
  BY <1>1, <1>4, <1>5, IdleShape
<1>7. \A x \in Msgs : /\ Uses(x)'.queued = Uses(x).queued /\ IsFiniteSet(QueuedTo(x, Queues)')
                      /\ Uses(x)'.windows = Uses(x).windows /\ IsFiniteSet(QueuedTo(x, wq)')
                      /\ Uses(x)'.keepers = Uses(x).keepers /\ IsFiniteSet(Keepers(x)')
  BY <1>1, SameQueues, SameWindows, InvParts, KeepersStay
<1>8. Uses(m)' = Uses(m)
  BY <1>4, <1>5, <1>7, InvParts, UsesOther, CallAssumption
<1> DEFINE u == Uses(m)
<1>9. Balanced(r, Uses(m)')
  <2>1. Uses(m)' = u /\ Balanced(msg[m], u)
    BY <1>2, <1>8
  <2> HIDE DEF u
  <2>2. /\ r.refcount = msg[m].refcount /\ r.nSent = msg[m].nSent
        /\ r.nCompleted = msg[m].nCompleted /\ r.nFailed = msg[m].nFailed
    BY <1>2 DEF MessageType
  <2>3. Balanced(r, u)
    BY <1>3, <2>1, <2>2 DEF Balanced
  <2> QED
    BY <2>1, <2>3
<1>10. QueuesOK' /\ WindowsOK'
  BY <1>1, SameQueues, SameWindows
<1>11. /\ HandlesOK' /\ cs_msg' \in Threads \cup {NoThread}
       /\ wait_o' \in [Threads -> {"clear", "set", "closed"}]
       /\ deleted' \in [Threads -> BOOLEAN] /\ last_msg' \in [Threads -> Msgs \cup {NoMsg}]
  BY <1>1, InvParts DEF HandlesOK
<1>12. r.state = "xfer" <=> msg[m].state = "xfer"
  BY <1>3
<1>13. UNCHANGED types /\ (InTypes(NoFrame) => InTypes(NoFrame))
  BY <1>1
<1>14. \A x \in Msgs : /\ IsFiniteSet(QueuedTo(x, Queues)') /\ IsFiniteSet(QueuedTo(x, wq)')
                       /\ IsFiniteSet(Keepers(x)')
  BY <1>7
<1>15. \A x \in Msgs \ {m} : /\ Uses(x)'.queued = Uses(x).queued
                             /\ Uses(x)'.windows = Uses(x).windows
                             /\ Uses(x)'.keepers = Uses(x).keepers
  BY <1>7
<1> HIDE DEF r, n
<1> QED
  BY <1>1, <1>3, <1>4, <1>5, <1>6, <1>9, <1>10, <1>11, <1>12, <1>13, <1>14, <1>15, QuietStep

-----------------------------------------------------------------------------
(* A call begins.                                                           *)

LEMMA CallerFacts ==
    ASSUME Inv, NEW t \in Threads, NEW api, MayCall(t, api)
    PROVE  LET s == Caller(t) IN
           /\ s \in Seq(FrameType) /\ Len(s) = Len(stack[t])
           /\ \A i \in 1 .. Len(s) : SameFrame(s[i], stack[t][i])
           /\ stack[t] # <<>> => Top(t).pc \in UserCode
           /\ ~deleted[t]
<1>1. stack[t] \in Seq(FrameType)
  BY InvParts DEF StacksOK
<1>2. (stack[t] # <<>> => Top(t).pc \in UserCode) /\ ~deleted[t]
  BY DEF MayCall
<1>3. CASE stack[t] = <<>>
  BY <1>1, <1>2, <1>3 DEF Caller
<1>4. CASE stack[t] # <<>>
  <2> DEFINE g == [Top(t) EXCEPT !.calls = Top(t).calls + 1]
             n == Len(stack[t])
  <2>1. Top(t) \in FrameType /\ n \in Nat \ {0} /\ Top(t) = stack[t][n]
    BY <1>4, InvParts, TopFacts
  <2>2. g \in FrameType /\ SameFrame(g, Top(t))
    <3>1. Top(t).calls < MaxCalls
      BY <1>4 DEF MayCall
    <3>2. Top(t).calls + 1 \in 0 .. MaxCalls
      BY <2>1, <3>1, CallAssumption DEF FrameType
    <3> QED
      BY <2>1, <3>2 DEF FrameType, SameFrame
  <2>3. Caller(t) = WithTop(t, g)
    BY <1>4 DEF Caller
  <2> HIDE DEF g
  <2>4. /\ Caller(t) \in Seq(FrameType) /\ Len(Caller(t)) = n
        /\ \A i \in 1 .. n : Caller(t)[i] = IF i = n THEN g ELSE stack[t][i]
    BY <1>1, <2>1, <2>2, <2>3 DEF WithTop
  <2>5. \A i \in 1 .. n : SameFrame(Caller(t)[i], stack[t][i])
    BY <2>1, <2>2, <2>4 DEF SameFrame
  <2> QED
    BY <1>2, <2>4, <2>5
<1> QED
  BY <1>3, <1>4

\* A message that was free is counted for the call that made it.
LEMMA BornBalanced ==
    ASSUME NEW s, NEW r \in MessageType, NEW u \in UsesType, NEW v \in UsesType,
           s.state = "free", Balanced(s, u), r.state = "active",
           r.nSent = 0, r.nCompleted = 0, r.nFailed = 0,
           NEW c \in {0, 1}, NEW h \in {0, 1}, r.refcount = h,
           v.queued = u.queued, v.windows = u.windows, v.keepers = u.keepers,
           v.running = u.running, v.own = u.own, v.done = u.done,
           v.calls = u.calls + c, v.handles = u.handles + h, v.handler = u.handler
    PROVE  Balanced(r, v)
<1>1. /\ v.queued = 0 /\ v.windows = 0 /\ v.keepers = 0 /\ v.running = 0 /\ v.own = 0
      /\ v.done = 0 /\ v.calls = c /\ v.handles = h /\ v.handler = 0
  BY DEF Balanced
<1>2. UsedBy(v) = 0
  BY <1>1 DEF UsedBy
<1>3. r.refcount = UsedBy(v) + 2 * v.own + v.done + v.handles + v.keepers
  BY <1>1, <1>2
<1>4. r.nSent + v.done = r.nCompleted + r.nFailed + UsedBy(v)
  BY <1>1, <1>2
<1> QED
  BY <1>1, <1>3, <1>4 DEF Balanced

\* A thread makes a message, and g is the frame of the call, if there is one.
Born(t, m, r, k, g, api) ==
    /\ Shifts(t, k, NoFrame, g) /\ StackShape' /\ QueuesShape'
    /\ \/ g = NoFrame /\ ~HasCall(api)
       \/ g.m = m /\ g.pc \in {"publish", "count", "wait"} /\ g.api = api
    /\ msg[m].state = "free" /\ msg' = [msg EXCEPT ![m] = r]
    /\ r.state = "active" /\ r.refcount = OneIf(HasCall(api))
    /\ r.nSent = 0 /\ r.nCompleted = 0 /\ r.nFailed = 0
    /\ UNCHANGED <<queue, wait_o, deleted, last_msg, wq, handles, xfer>>
    /\ cs_msg = NoThread /\ cs_msg' \in {t, NoThread} /\ (g.pc = "publish" => cs_msg' = t)
    /\ \/ UNCHANGED types /\ ~InTypes(g)
       \/ EnterTypes(t) /\ TypesFree(t)

LEMMA BornStep ==
    ASSUME Inv, NEW t \in Threads, NEW m \in Msgs, NEW r \in MessageType, NEW k, NEW g, NEW api,
           Born(t, m, r, k, g, api)
    PROVE  Inv'
<1> DEFINE u == Uses(m)
           v == Uses(m)'
           c == OneIf(g # NoFrame)
           h == OneIf(HasCall(api))
<1> USE DEF Born
<1>1. u \in UsesType /\ Balanced(msg[m], u) /\ msg[m] \in MessageType
  BY LedgerFacts
<1>2. \A x \in Msgs : /\ Uses(x)'.queued = Uses(x).queued /\ IsFiniteSet(QueuedTo(x, Queues)')
                      /\ Uses(x)'.windows = Uses(x).windows /\ IsFiniteSet(QueuedTo(x, wq)')
                      /\ Uses(x)'.keepers = Uses(x).keepers /\ IsFiniteSet(Keepers(x)')
  BY SameQueues, SameWindows, InvParts, KeepersStay
<1>3. v \in UsesType
  <2>1. Finite'
    BY <1>2, InvParts, FiniteStep
  <2> QED
    BY <2>1, BoundsNext
<1>4. NoFrame.m = NoMsg /\ NoFrame.m # m /\ ~InTypes(NoFrame) /\ NoFrame.pc = "drained"
  BY CallAssumption DEF NoFrame, Frame, InTypes
<1>5. /\ Hits(NoFrame, m, RecipientPcs) = 0 /\ Hits(NoFrame, m, {"window"}) = 0
      /\ Hits(NoFrame, m, {"sent"}) = 0 /\ Hits(NoFrame, m, CallPcs) = 0
      /\ HitsCall(NoFrame, m) = 0 /\ Hits(NoFrame, m, {"handler"}) = 0
  BY <1>4, NoHits
<1>6. /\ Hits(g, m, RecipientPcs) = 0 /\ Hits(g, m, {"window"}) = 0
      /\ Hits(g, m, {"sent"}) = 0 /\ Hits(g, m, CallPcs) = c
      /\ HitsCall(g, m) = h /\ Hits(g, m, {"handler"}) = 0
  <2>1. CASE g = NoFrame /\ ~HasCall(api)
    BY <1>5, <2>1 DEF OneIf
  <2>2. CASE g.m = m /\ g.pc \in {"publish", "count", "wait"} /\ g.api = api
    BY <1>4, <2>2 DEF Hits, HitsCall, OneIf, RecipientPcs, CallPcs
  <2> QED
    BY <2>1, <2>2
<1>7. /\ v.running = u.running - 0 + 0 /\ v.own = u.own - 0 + 0 /\ v.done = u.done - 0 + 0
      /\ v.calls = u.calls - 0 + c /\ v.handles = u.handles - 0 + h
      /\ v.handler = u.handler - 0 + 0
  BY <1>5, <1>6, InvParts, ShiftUses
<1>8. c \in {0, 1} /\ h \in {0, 1} /\ r.refcount = h
  BY DEF OneIf
<1>9. v.queued = u.queued /\ v.windows = u.windows /\ v.keepers = u.keepers
  BY <1>2
<1> HIDE DEF u, v, c, h
<1>10. /\ v.running = u.running /\ v.own = u.own /\ v.done = u.done
       /\ v.calls = u.calls + c /\ v.handles = u.handles + h /\ v.handler = u.handler
  BY <1>1, <1>3, <1>7, <1>8 DEF UsesType
<1>11. Balanced(r, v)
  BY <1>1, <1>3, <1>8, <1>9, <1>10, BornBalanced
<1>12. Balanced(r, Uses(m)')
  BY <1>11 DEF v
<1>13. QueuesOK' /\ WindowsOK'
  BY SameQueues, SameWindows
<1>14. /\ HandlesOK' /\ cs_msg' \in Threads \cup {NoThread}
       /\ wait_o' \in [Threads -> {"clear", "set", "closed"}]
       /\ deleted' \in [Threads -> BOOLEAN] /\ last_msg' \in [Threads -> Msgs \cup {NoMsg}]
  BY InvParts DEF HandlesOK
<1>15. g.m \in {m, NoMsg} /\ (g.pc \in {"publish", "put"} => cs_msg' = t)
  BY <1>4
<1>16. r.state = "xfer" <=> msg[m].state = "xfer"
  OBVIOUS
<1>17. \A x \in Msgs : /\ IsFiniteSet(QueuedTo(x, Queues)') /\ IsFiniteSet(QueuedTo(x, wq)')
                       /\ IsFiniteSet(Keepers(x)')
  BY <1>2
<1>18. \A x \in Msgs \ {m} : /\ Uses(x)'.queued = Uses(x).queued
                             /\ Uses(x)'.windows = Uses(x).windows
                             /\ Uses(x)'.keepers = Uses(x).keepers
  BY <1>2
<1>19. \/ UNCHANGED types /\ (InTypes(g) => InTypes(NoFrame))
       \/ EnterTypes(t) /\ TypesFree(t)
  OBVIOUS
<1>20. Shifts(t, k, NoFrame, g) /\ StackShape' /\ QueuesShape' /\ UNCHANGED xfer
  OBVIOUS
<1>21. cs_msg \in {t, NoThread} /\ msg' = [msg EXCEPT ![m] = r]
  OBVIOUS
<1>22. NoFrame.m \in {m, NoMsg}
  BY <1>4
<1> HIDE DEF Born
<1> QED
  BY <1>12, <1>13, <1>14, <1>15, <1>16, <1>17, <1>18, <1>19, <1>20, <1>21, <1>22, QuietStep

\* The fields of a new message.
LEMMA NewIs ==
    ASSUME NEW api
    PROVE  LET r == [FreeMessage EXCEPT !.state = "active",
                       !.refcount = IF HasCall(api) THEN 1 ELSE 0,
                       !.event = IF HasCall(api) THEN "clear" ELSE "none"]
               s == [FreeMessage EXCEPT !.state = "active", !.exit = TRUE,
                       !.refcount = IF HasCall(api) THEN 1 ELSE 0,
                       !.event = IF HasCall(api) THEN "clear" ELSE "none"]
           IN
           \A x \in {r, s} :
             /\ x \in MessageType /\ x.state = "active" /\ x.refcount = OneIf(HasCall(api))
             /\ x.nSent = 0 /\ x.nCompleted = 0 /\ x.nFailed = 0
<1> DEFINE c == IF HasCall(api) THEN 1 ELSE 0
           e == IF HasCall(api) THEN "clear" ELSE "none"
           r == [FreeMessage EXCEPT !.state = "active", !.refcount = c, !.event = e]
           s == [FreeMessage EXCEPT !.state = "active", !.exit = TRUE, !.refcount = c, !.event = e]
<1>1. c \in Nat /\ c = OneIf(HasCall(api)) /\ e \in {"none", "clear", "set"}
  BY DEF OneIf
<1> HIDE DEF c, e
<1>2. /\ r \in MessageType /\ r.state = "active" /\ r.refcount = c
      /\ r.nSent = 0 /\ r.nCompleted = 0 /\ r.nFailed = 0
  BY <1>1 DEF FreeMessage, MessageType
<1>3. /\ s \in MessageType /\ s.state = "active" /\ s.refcount = c
      /\ s.nSent = 0 /\ s.nCompleted = 0 /\ s.nFailed = 0
  BY <1>1 DEF FreeMessage, MessageType
<1> HIDE DEF r, s
<1>4. \A x \in {r, s} :
        /\ x \in MessageType /\ x.state = "active" /\ x.refcount = OneIf(HasCall(api))
        /\ x.nSent = 0 /\ x.nCompleted = 0 /\ x.nFailed = 0
  BY <1>1, <1>2, <1>3
<1> QED
  BY <1>4 DEF r, s, c, e

LEMMA PostStep ==
    ASSUME Inv, NEW t \in Threads, NEW api \in Posts, Post(t, api)
    PROVE  Inv'
<1> DEFINE s == Caller(t)
           n == Len(stack[t]) + 1
<1>1. /\ s \in Seq(FrameType) /\ Len(s) = Len(stack[t])
      /\ \A i \in 1 .. Len(s) : SameFrame(s[i], stack[t][i])
      /\ stack[t] # <<>> => Top(t).pc \in UserCode
      /\ ~deleted[t]
  <2>1. MayCall(t, api)
    BY DEF Post
  <2> QED
    BY <2>1, CallerFacts
<1> HIDE DEF s
<1> DEFINE r == [FreeMessage EXCEPT !.state = "active",
                   !.refcount = IF HasCall(api) THEN 1 ELSE 0,
                   !.event = IF HasCall(api) THEN "clear" ELSE "none"]
<1>2. PICK m \in Msgs : /\ msg[m].state = "free" /\ msg' = [msg EXCEPT ![m] = r]
                        /\ stack' = [stack EXCEPT ![t] = Append(s, Frame("publish", m, api))]
  BY DEF Post, s
<1>3. /\ r \in MessageType /\ r.state = "active" /\ r.refcount = OneIf(HasCall(api))
      /\ r.nSent = 0 /\ r.nCompleted = 0 /\ r.nFailed = 0
  BY NewIs
<1> HIDE DEF r
<1> DEFINE g == Frame("publish", m, api)
<1>4. /\ g \in FrameType /\ g.m = m /\ g.pc = "publish" /\ g.api = api
      /\ FrameOK(t, n, g)
  <2>1. 1 \in 1 .. Len(Subs) + 1 /\ 0 \in 0 .. MaxCalls
    BY CallAssumption
  <2>2. g \in FrameType
    BY <2>1 DEF Frame, FrameType, Pcs
  <2>3. g.m = m /\ g.pc = "publish" /\ g.api = api
    BY DEF Frame
  <2> HIDE DEF g
  <2> QED
    BY <2>2, <2>3, CallAssumption DEF FrameOK, CallPcs, BottomPcs
<1> HIDE DEF g
<1>5. Pushes(t, s, g)
  BY <1>1, <1>2 DEF Pushes, g
<1>6. StackShape' /\ Shifts(t, n, NoFrame, g)
  BY <1>1, <1>4, <1>5, InvParts, PushStep
<1>7. /\ UNCHANGED <<queue, wait_o, deleted, last_msg, wq, handles, xfer>>
      /\ cs_msg = NoThread /\ cs_msg' = t
      /\ \/ HoldsTypes(api) /\ TypesFree(t) /\ EnterTypes(t)
         \/ ~HoldsTypes(api) /\ UNCHANGED types
  BY DEF Post
<1>8. QueuesShape'
  BY <1>1, <1>4, <1>6, <1>7, IdleShape
<1>9. \/ UNCHANGED types /\ ~InTypes(g)
      \/ EnterTypes(t) /\ TypesFree(t)
  BY <1>4, <1>7 DEF InTypes
<1>10. Born(t, m, r, n, g, api)
  BY <1>2, <1>3, <1>4, <1>6, <1>7, <1>8, <1>9 DEF Born
<1> QED
  BY <1>3, <1>10, BornStep

LEMMA QuitStep ==
    ASSUME Inv, NEW t \in Threads, NEW u \in Threads, NEW api \in Quits, Quit(t, u, api)
    PROVE  Inv'
<1> DEFINE s == Caller(t)
           n == Len(stack[t]) + 1
           r == [FreeMessage EXCEPT !.state = "active", !.exit = TRUE,
                   !.refcount = IF HasCall(api) THEN 1 ELSE 0,
                   !.event = IF HasCall(api) THEN "clear" ELSE "none"]
<1>1. /\ s \in Seq(FrameType) /\ Len(s) = Len(stack[t])
      /\ \A i \in 1 .. Len(s) : SameFrame(s[i], stack[t][i])
      /\ stack[t] # <<>> => Top(t).pc \in UserCode
      /\ ~deleted[t]
  <2>1. MayCall(t, api)
    BY DEF Quit
  <2> QED
    BY <2>1, CallerFacts
<1> HIDE DEF s
<1>2. PICK m \in Msgs :
        /\ msg[m].state = "free" /\ msg' = [msg EXCEPT ![m] = r]
        /\ LET f == [Frame("count", m, api) EXCEPT !.to = u] IN
           stack' = [stack EXCEPT ![t] =
               IF ~deleted[u] THEN Append(s, f)
               ELSE IF Waits(api) THEN Append(s, [f EXCEPT !.pc = "wait"])
               ELSE s]
  BY DEF Quit, s
<1>3. /\ r \in MessageType /\ r.state = "active" /\ r.refcount = OneIf(HasCall(api))
      /\ r.nSent = 0 /\ r.nCompleted = 0 /\ r.nFailed = 0
  BY NewIs
<1> HIDE DEF r
<1>4. /\ UNCHANGED <<queue, wait_o, deleted, last_msg, wq, handles, xfer, types>>
      /\ cs_msg = NoThread /\ cs_msg' = cs_msg /\ u # Compl
  BY DEF Quit
<1> DEFINE f == [Frame("count", m, api) EXCEPT !.to = u]
           w == [f EXCEPT !.pc = "wait"]
<1>5. /\ f \in FrameType /\ f.m = m /\ f.pc = "count" /\ f.api = api /\ f.to = u
      /\ w \in FrameType /\ w.m = m /\ w.pc = "wait" /\ w.api = api
  <2>1. 1 \in 1 .. Len(Subs) + 1 /\ 0 \in 0 .. MaxCalls
    BY CallAssumption
  <2> QED
    BY <2>1 DEF Frame, FrameType, Pcs
<1>6. HasCall(api) <=> Waits(api)
  BY DEF HasCall, Waits, Quits
<1> HIDE DEF f, w
<1>7. FrameOK(t, n, f) /\ (Waits(api) => FrameOK(t, n, w))
  BY <1>4, <1>5, CallAssumption DEF FrameOK, CallPcs, BottomPcs
<1>8. NoFrame.pc = "drained" /\ ~InTypes(NoFrame) /\ NoFrame # f /\ NoFrame # w
  <2>1. NoFrame.pc = "drained"
    BY DEF NoFrame, Frame
  <2> QED
    BY <1>5, <2>1 DEF InTypes
<1>9. \E g : /\ \/ g = NoFrame /\ ~HasCall(api)
                \/ g = f
                \/ g = w
             /\ StackShape' /\ Shifts(t, n, NoFrame, g)
             /\ g = NoFrame => n \notin DOMAIN stack'[t]
  <2>1. CASE ~deleted[u]
    <3>1. Pushes(t, s, f)
      BY <1>1, <1>2, <2>1 DEF Pushes, f
    <3> QED
      BY <1>1, <1>5, <1>7, <1>8, <3>1, InvParts, PushStep
  <2>2. CASE deleted[u] /\ Waits(api)
    <3>1. Pushes(t, s, w)
      BY <1>1, <1>2, <2>2 DEF Pushes, f, w
    <3> QED
      BY <1>1, <1>5, <1>7, <1>8, <2>2, <3>1, InvParts, PushStep
  <2>3. CASE deleted[u] /\ ~Waits(api)
    <3>1. stack' = [stack EXCEPT ![t] = s]
      BY <1>2, <2>3
    <3> QED
      BY <1>1, <1>6, <2>3, <3>1, InvParts, IdleStep
  <2> QED
    BY <2>1, <2>2, <2>3
<1>10. PICK g : /\ \/ g = NoFrame /\ ~HasCall(api)
                   \/ g = f
                   \/ g = w
                /\ StackShape' /\ Shifts(t, n, NoFrame, g)
                /\ g = NoFrame => n \notin DOMAIN stack'[t]
  BY <1>9
<1>11. /\ g.pc \notin {"publish", "woken"} /\ ~InTypes(g)
       /\ \/ g = NoFrame /\ ~HasCall(api)
          \/ g.m = m /\ g.pc \in {"publish", "count", "wait"} /\ g.api = api
  BY <1>5, <1>8, <1>10 DEF InTypes
<1>12. QueuesShape'
  <2>1. n \in DOMAIN stack'[t] => g.pc \notin {"drain", "drained"}
    BY <1>10, <1>11
  <2>2. g.pc # "woken" /\ (stack[t] # <<>> => Top(t).pc \in UserCode) /\ ~deleted[t]
    BY <1>1, <1>8, <1>11
  <2>3. Shifts(t, n, NoFrame, g) /\ UNCHANGED <<queue, wait_o, deleted, wq>>
    BY <1>4, <1>10
  <2> QED
    BY <2>1, <2>2, <2>3, IdleShape
<1>13. Born(t, m, r, n, g, api)
  BY <1>2, <1>3, <1>4, <1>10, <1>11, <1>12 DEF Born
<1> QED
  BY <1>3, <1>13, BornStep

-----------------------------------------------------------------------------
(* References that move.                                                    *)

\* The shape of the queues after a step of t, by what t and its queue became.
LEMMA QueuesShapeAt ==
    ASSUME QueuesShape, NEW t \in Threads \ {Compl}, StacksOK',
           \A u \in Threads \ {t} : /\ queue'[u] = queue[u] /\ wait_o'[u] = wait_o[u]
                                    /\ deleted'[u] = deleted[u] /\ stack'[u] = stack[u],
           wq'[Compl] = <<>>,
           ~deleted'[t] /\ wait_o'[t] = "set" => queue'[t] # <<>>,
           NEW g,
           \/ stack'[t] = <<>>
           \/ /\ stack'[t] = <<g>>
              /\ g.pc = "woken" => queue'[t] # <<>> /\ (wait_o'[t] = "set" => Len(queue'[t]) > 1)
              /\ deleted'[t] <=> g.pc \in {"drain", "drained"}
    PROVE  QueuesShape'
<1>1. \A i \in DOMAIN stack'[t] : stack'[t] = <<g>> /\ stack'[t][i] = g
  OBVIOUS
<1>2. ASSUME NEW u \in Threads
      PROVE  /\ ~deleted'[u] /\ wait_o'[u] = "set" => queue'[u] # <<>>
             /\ \A i \in DOMAIN stack'[u] :
                  /\ stack'[u][i].pc = "woken" =>
                       queue'[u] # <<>> /\ (wait_o'[u] = "set" => Len(queue'[u]) > 1)
                  /\ deleted'[u] <=> stack'[u][i].pc \in {"drain", "drained"}
  <2>1. CASE u = t
    BY <1>1, <2>1
  <2>2. CASE u # t
    BY <2>2 DEF QueuesShape
  <2> QED
    BY <2>1, <2>2
<1>3. queue'[Compl] = <<>> /\ wait_o'[Compl] = "clear" /\ ~deleted'[Compl]
  BY CallAssumption DEF QueuesShape
<1> QED
  BY <1>2, <1>3 DEF QueuesShape

\* An idle thread enters its first frame.
LEMMA PlaceFirst ==
    ASSUME Inv, NEW t \in Threads, stack[t] = <<>>, NEW g \in FrameType, FrameOK(t, 1, g),
           stack' = [stack EXCEPT ![t] = <<g>>]
    PROVE  StackShape' /\ Shifts(t, 1, NoFrame, g) /\ stack'[t] = <<g>> /\ StacksOK'
<1>1. stack'[t] = <<g>>
  BY InvParts DEF StacksOK
<1>2. Pushes(t, <<>>, g)
  BY DEF Pushes
<1>3. Len(stack[t]) + 1 = 1
  OBVIOUS
<1>4. StackShape' /\ Shifts(t, 1, NoFrame, g)
  BY <1>2, <1>3, InvParts, PushStep
<1> QED
  BY <1>1, <1>4 DEF Shifts, StackStep, StacksOK

\* A step that is about no message.
Silent(t, k, f, g) ==
    /\ Shifts(t, k, f, g) /\ StackShape' /\ QueuesShape'
    /\ f.m = NoMsg /\ g.m = NoMsg /\ g.pc \notin {"publish", "put", "handler"}
    /\ UNCHANGED <<msg, queue, last_msg, wq, handles, xfer, cs_msg, types>>
    /\ wait_o' \in [Threads -> {"clear", "set", "closed"}]
    /\ deleted' \in [Threads -> BOOLEAN]

LEMMA SilentStep ==
    ASSUME Inv, NEW t \in Threads, NEW k, NEW f, NEW g, Silent(t, k, f, g)
    PROVE  Inv'
<1> USE DEF Silent
<1>1. \A x \in Msgs : /\ Uses(x)'.queued = Uses(x).queued /\ IsFiniteSet(QueuedTo(x, Queues)')
                      /\ Uses(x)'.windows = Uses(x).windows /\ IsFiniteSet(QueuedTo(x, wq)')
                      /\ Uses(x)'.keepers = Uses(x).keepers /\ IsFiniteSet(Keepers(x)')
  BY SameQueues, SameWindows, InvParts, KeepersStay
<1>2. Finite'
  BY <1>1, InvParts, FiniteStep
<1>3. \A x \in Msgs : Uses(x)' = Uses(x)
  <2> SUFFICES ASSUME NEW x \in Msgs PROVE Uses(x)' = Uses(x)
    OBVIOUS
  <2>1. f.m # x /\ g.m # x
    BY CallAssumption
  <2> QED
    BY <1>1, <2>1, InvParts, UsesOther
<1>4. Ledger'
  <2> SUFFICES ASSUME NEW x \in Msgs PROVE Balanced(msg'[x], Uses(x)')
    BY DEF Ledger, Balanced, UsedBy
  <2>1. Balanced(msg[x], Uses(x))
    BY InvParts DEF Ledger
  <2>2. Uses(x)' = Uses(x) /\ msg'[x] = msg[x]
    BY <1>3
  <2> HIDE DEF Balanced, Uses
  <2> QED
    BY <2>1, <2>2
<1>5. XferExact'
  BY InvParts DEF XferExact
<1>6. PublishLock'
  BY InvParts, PublishLockStep
<1>7. ~InTypes(g)
  BY DEF InTypes
<1>8. TypesHeld' /\ types' \in [owner : Threads \cup {NoThread}, depth : Nat]
  BY <1>7, InvParts, TypesStep
<1>9. TypeOK'
  <2>1. stack' \in [Threads -> Seq(FrameType)]
    BY DEF Shifts, StackStep
  <2> QED
    BY <1>8, <2>1 DEF TypeOK, Inv
<1> QED
  BY <1>2, <1>4, <1>5, <1>6, <1>8, <1>9 DEF Inv

\* A reference to m moves from one place to another.
Moves(t, m, k, f, g) ==
    /\ Shifts(t, k, f, g) /\ StackShape' /\ QueuesShape'
    /\ f.m \in {m, NoMsg} /\ g.m \in {m, NoMsg}
    /\ g.pc \notin {"publish", "put", "handler"}
    /\ UNCHANGED <<msg, handles, xfer, cs_msg, types>>
    /\ msg[m].state = "active"
    /\ LET u == Uses(m)
           v == Uses(m)'
       IN /\ v.queued + v.windows + v.running = u.queued + u.windows + u.running
          /\ v.own = u.own /\ v.done = u.done /\ v.handles = u.handles
          /\ v.calls <= u.calls /\ v.handler = 0 /\ v.count = 0
    /\ wait_o' \in [Threads -> {"clear", "set", "closed"}]
    /\ deleted' \in [Threads -> BOOLEAN]
    /\ last_msg' \in [Threads -> Msgs \cup {NoMsg}]
    /\ QueuesOK' /\ WindowsOK'
    /\ \A x \in Msgs : IsFiniteSet(QueuedTo(x, Queues)') /\ IsFiniteSet(QueuedTo(x, wq)')
    /\ \A x \in Msgs \ {m} : /\ Uses(x)'.queued = Uses(x).queued
                             /\ Uses(x)'.windows = Uses(x).windows

LEMMA MoveBalanced ==
    ASSUME NEW r \in MessageType, NEW u \in UsesType, NEW v \in UsesType,
           r.state = "active", Balanced(r, u),
           v.queued + v.windows + v.running = u.queued + u.windows + u.running,
           v.own = u.own, v.done = u.done, v.handles = u.handles, v.keepers = u.keepers,
           v.calls <= u.calls, v.handler = 0, v.count = 0
    PROVE  Balanced(r, v)
<1>1. UsedBy(v) = UsedBy(u)
  BY DEF UsedBy, UsesType
<1>2. r.refcount = UsedBy(v) + 2 * v.own + v.done + v.handles + v.keepers
  BY <1>1 DEF Balanced
<1>3. r.nSent + v.done = r.nCompleted + r.nFailed + UsedBy(v)
  BY <1>1 DEF Balanced
<1>4. v.calls + v.keepers <= 1
  BY DEF Balanced, UsesType
<1>5. ~(v.count > 0)
  OBVIOUS
<1> QED
  BY <1>2, <1>3, <1>4, <1>5 DEF Balanced

LEMMA MoveStep ==
    ASSUME Inv, NEW t \in Threads, NEW m \in Msgs, NEW k, NEW f, NEW g, Moves(t, m, k, f, g)
    PROVE  Inv'
<1> DEFINE u == Uses(m)
           v == Uses(m)'
           r == msg[m]
<1> USE DEF Moves
<1>1. u \in UsesType /\ Balanced(r, u) /\ r \in MessageType
  BY LedgerFacts
<1>2. \A x \in Msgs : Uses(x)'.keepers = Uses(x).keepers /\ IsFiniteSet(Keepers(x)')
  BY InvParts, KeepersStay
<1>3. v \in UsesType
  <2>1. Finite'
    BY <1>2, InvParts, FiniteStep
  <2> QED
    BY <2>1, BoundsNext
<1>4. v.keepers = u.keepers
  BY <1>2
<1>5. /\ v.queued + v.windows + v.running = u.queued + u.windows + u.running
      /\ v.own = u.own /\ v.done = u.done /\ v.handles = u.handles
      /\ v.calls <= u.calls /\ v.handler = 0 /\ v.count = 0 /\ r.state = "active"
  OBVIOUS
<1> HIDE DEF u, v, r
<1>6. Balanced(r, v)
  BY <1>1, <1>3, <1>4, <1>5, MoveBalanced
<1>7. Balanced(r, Uses(m)')
  BY <1>6 DEF v
<1>8. msg' = [msg EXCEPT ![m] = r] /\ (r.state = "xfer" <=> msg[m].state = "xfer")
  BY InvParts DEF r, MsgsOK
<1>9. HandlesOK' /\ cs_msg' \in Threads \cup {NoThread} /\ cs_msg' = cs_msg
  BY InvParts DEF HandlesOK
<1>10. UNCHANGED types /\ (InTypes(g) => InTypes(f))
  BY DEF InTypes
<1>11. \A x \in Msgs : /\ IsFiniteSet(QueuedTo(x, Queues)') /\ IsFiniteSet(QueuedTo(x, wq)')
                       /\ IsFiniteSet(Keepers(x)')
  BY <1>2
<1>12. \A x \in Msgs \ {m} : /\ Uses(x)'.queued = Uses(x).queued
                             /\ Uses(x)'.windows = Uses(x).windows
                             /\ Uses(x)'.keepers = Uses(x).keepers
  BY <1>2
<1>13. /\ Shifts(t, k, f, g) /\ StackShape' /\ QueuesShape' /\ UNCHANGED xfer
       /\ f.m \in {m, NoMsg} /\ g.m \in {m, NoMsg} /\ QueuesOK' /\ WindowsOK'
       /\ wait_o' \in [Threads -> {"clear", "set", "closed"}]
       /\ deleted' \in [Threads -> BOOLEAN]
       /\ last_msg' \in [Threads -> Msgs \cup {NoMsg}]
       /\ (g.pc \in {"publish", "put"} => cs_msg' = t)
  OBVIOUS
<1> HIDE DEF Moves
<1> QED
  BY <1>1, <1>7, <1>8, <1>9, <1>10, <1>11, <1>12, <1>13, QuietStep

\* A message that is in a queue, or posted to a window, is referred to.
LEMMA QueuedFacts ==
    ASSUME Inv, NEW x \in Msgs, Uses(x).queued + Uses(x).windows >= 1
    PROVE  msg[x].state = "active"
<1> DEFINE u == Uses(x)
<1>1. u \in UsesType /\ Balanced(msg[x], u)
  BY LedgerFacts
<1>2. u.queued + u.windows >= 1
  OBVIOUS
<1> HIDE DEF u
<1> QED
  BY <1>1, <1>2 DEF Balanced

LEMMA DispatchWaitStep ==
    ASSUME Inv, NEW t \in Threads, DispatchWait(t)
    PROVE  Inv'
<1> DEFINE g == Frame("woken", NoMsg, "none")
<1>1. /\ stack[t] = <<>> /\ ~deleted[t] /\ wait_o[t] = "set"
      /\ wait_o' = [wait_o EXCEPT ![t] = "clear"] /\ stack' = [stack EXCEPT ![t] = <<g>>]
      /\ UNCHANGED <<msg, queue, deleted, last_msg, wq, handles, xfer, cs_msg, types>>
  BY DEF DispatchWait
<1>2. t # Compl /\ queue[t] # <<>> /\ wq'[Compl] = <<>>
  BY <1>1, InvParts DEF QueuesShape
<1>3. g.m = NoMsg /\ g.pc = "woken" /\ g \in FrameType
  <2>1. 1 \in 1 .. Len(Subs) + 1 /\ 0 \in 0 .. MaxCalls
    BY CallAssumption
  <2> QED
    BY <2>1 DEF Frame, FrameType, Pcs
<1> HIDE DEF g
<1>4. FrameOK(t, 1, g)
  BY <1>2, <1>3 DEF FrameOK
<1>5. StackShape' /\ Shifts(t, 1, NoFrame, g) /\ stack'[t] = <<g>> /\ StacksOK'
  BY <1>1, <1>3, <1>4, PlaceFirst
<1>6. wait_o' \in [Threads -> {"clear", "set", "closed"}] /\ wait_o'[t] = "clear"
      /\ deleted' \in [Threads -> BOOLEAN]
  BY <1>1, InvParts
<1>7. QueuesShape'
  <2>1. \A u \in Threads \ {t} : /\ queue'[u] = queue[u] /\ wait_o'[u] = wait_o[u]
                                 /\ deleted'[u] = deleted[u] /\ stack'[u] = stack[u]
    BY <1>1, InvParts DEF StacksOK
  <2> QED
    BY <1>1, <1>2, <1>3, <1>5, <1>6, <2>1, InvParts, QueuesShapeAt
<1>8. NoFrame.m = NoMsg
  BY DEF NoFrame, Frame
<1>9. Silent(t, 1, NoFrame, g)
  BY <1>1, <1>3, <1>5, <1>6, <1>7, <1>8 DEF Silent
<1> QED
  BY <1>9, SilentStep

LEMMA MovedSum ==
    ASSUME NEW u \in UsesType, NEW v, v.running = u.running + 1, v.calls = u.calls,
           \/ v.queued = u.queued - 1 /\ v.windows = u.windows
           \/ v.queued = u.queued /\ v.windows = u.windows - 1
    PROVE  /\ v.queued + v.windows + v.running = u.queued + u.windows + u.running
           /\ v.calls <= u.calls
BY DEF UsesType

\* A recipient starts.
LEMMA RecipientPlaced ==
    ASSUME Inv, NEW t \in Threads, NEW k, NEW f, NEW g, Shifts(t, k, f, g), NEW m \in Msgs,
           f.m = NoMsg, g.m = m, g.pc \in {"callback", "exit", "wm", "drain"}
    PROVE  LET u == Uses(m)
               v == Uses(m)'
           IN
           /\ v.running = u.running + 1 /\ v.own = u.own /\ v.done = u.done /\ v.calls = u.calls
           /\ v.handles = u.handles /\ v.count = u.count /\ v.handler = u.handler
<1> DEFINE u == Uses(m)
           v == Uses(m)'
<1>1. u \in UsesType
  BY LedgerFacts
<1>2. f.m # m
  BY CallAssumption
<1>3. /\ Hits(f, m, RecipientPcs) = 0 /\ Hits(f, m, {"window"}) = 0
      /\ Hits(f, m, {"sent"}) = 0 /\ Hits(f, m, CallPcs) = 0
      /\ HitsCall(f, m) = 0 /\ Hits(f, m, {"handler"}) = 0 /\ Hits(f, m, {"count"}) = 0
  BY <1>2, NoHits
<1>4. /\ Hits(g, m, RecipientPcs) = 1 /\ Hits(g, m, {"window"}) = 0
      /\ Hits(g, m, {"sent"}) = 0 /\ Hits(g, m, CallPcs) = 0
      /\ HitsCall(g, m) = 0 /\ Hits(g, m, {"handler"}) = 0 /\ Hits(g, m, {"count"}) = 0
  BY DEF Hits, HitsCall, OneIf, RecipientPcs, CallPcs
<1>5. /\ v.running = u.running - 0 + 1 /\ v.own = u.own - 0 + 0 /\ v.done = u.done - 0 + 0
      /\ v.calls = u.calls - 0 + 0 /\ v.handles = u.handles - 0 + 0
      /\ v.count = u.count - 0 + 0 /\ v.handler = u.handler - 0 + 0
  BY <1>3, <1>4, InvParts, ShiftUses
<1> HIDE DEF u, v
<1>6. /\ v.running = u.running + 1 /\ v.own = u.own /\ v.done = u.done /\ v.calls = u.calls
      /\ v.handles = u.handles /\ v.count = u.count /\ v.handler = u.handler
  BY <1>1, <1>5 DEF UsesType
<1> QED
  BY <1>6 DEF u, v

\* A queued or posted message is nobody's yet to count or to handle.
LEMMA QueuedQuiet ==
    ASSUME Inv, NEW m \in Msgs, Uses(m).queued + Uses(m).windows >= 1
    PROVE  /\ Uses(m) \in UsesType /\ msg[m].state = "active"
           /\ Uses(m).handler = 0 /\ Uses(m).count = 0
<1> DEFINE u == Uses(m)
           r == msg[m]
<1>1. u \in UsesType /\ Balanced(r, u) /\ r \in MessageType
  BY LedgerFacts
<1>2. r.state = "active"
  BY QueuedFacts
<1>3. u.count + u.done <= u.calls
  BY InvParts, UsesBounds
<1>4. u.queued + u.windows >= 1
  OBVIOUS
<1> HIDE DEF u, r
<1>5. u.handler = 0
  BY <1>1, <1>2 DEF Balanced
<1>6. u.count = 0
  <2> SUFFICES ASSUME u.count > 0 PROVE FALSE
    BY <1>1 DEF UsesType
  <2>1. r.nSent = 0 /\ u.done = 0
    BY <1>1, <1>3 DEF Balanced, UsesType
  <2>2. r.nSent + u.done = r.nCompleted + r.nFailed + UsedBy(u) /\ UsedBy(u) >= 1
    BY <1>1, <1>2, <1>4 DEF Balanced, UsedBy, UsesType
  <2> QED
    BY <1>1, <2>1, <2>2 DEF MessageType, UsedBy, UsesType
<1> QED
  BY <1>1, <1>2, <1>5, <1>6 DEF u, r

\* QGET: the first message of the queue of t comes to a frame of t.
Gets(t, m, g) ==
    /\ queue[t] # <<>> /\ Head(queue[t]).m = m /\ queue' = [queue EXCEPT ![t] = Tail(@)]
    /\ stack[t] # <<>> /\ Top(t).pc \in BottomPcs /\ Top(t).m = NoMsg
    /\ g.m = m /\ g.pc \in {"callback", "exit", "drain"}
    /\ stack' = [stack EXCEPT ![t] = <<g>>]
    /\ wait_o' \in [Threads -> {"clear", "set", "closed"}]
    /\ \A u \in Threads \ {t} : wait_o'[u] = wait_o[u] /\ deleted'[u] = deleted[u]
    /\ ~deleted'[t] /\ wait_o'[t] = "set" => queue'[t] # <<>>
    /\ deleted' \in [Threads -> BOOLEAN]
    /\ deleted'[t] <=> g.pc = "drain"
    /\ last_msg' \in [Threads -> Msgs \cup {NoMsg}]
    /\ UNCHANGED <<msg, wq, handles, xfer, cs_msg, types>>

LEMMA GetStep ==
    ASSUME Inv, NEW t \in Threads \ {Compl}, NEW m \in Msgs, NEW g \in FrameType, Gets(t, m, g)
    PROVE  Inv'
<1> USE DEF Gets
<1>1. Len(stack[t]) = 1
  BY InvParts, BottomAlone
<1>2. FrameOK(t, 1, g)
  BY CallAssumption DEF FrameOK
<1>3. StackShape' /\ Shifts(t, 1, Top(t), g) /\ stack'[t] = <<g>>
  BY <1>1, <1>2, InvParts, ReplaceStep DEF Replaces
<1>4. /\ QueuesOK'
      /\ \A x \in Msgs :
           /\ IsFiniteSet(QueuedTo(x, Queues)')
           /\ Cardinality(QueuedTo(x, Queues)')
                = Cardinality(QueuedTo(x, Queues)) - OneIf(x = Head(queue[t]).m)
  BY InvParts, QueueGet
<1>5. \A x \in Msgs : /\ Cardinality(QueuedTo(x, Queues)) \in Nat
                      /\ Cardinality(QueuedTo(x, Queues)') \in Nat
  BY <1>4, InvParts, FS_CardinalityType DEF Finite
<1>6. /\ Uses(m)'.queued = Uses(m).queued - 1 /\ Uses(m).queued >= 1
      /\ \A x \in Msgs \ {m} : Uses(x)'.queued = Uses(x).queued
  <2>1. Cardinality(QueuedTo(m, Queues)') = Cardinality(QueuedTo(m, Queues)) - 1
    BY <1>4 DEF OneIf
  <2>2. \A x \in Msgs \ {m} : Cardinality(QueuedTo(x, Queues)') = Cardinality(QueuedTo(x, Queues)) - 0
    BY <1>4 DEF OneIf
  <2> QED
    BY <1>5, <2>1, <2>2 DEF Uses
<1>7. /\ WindowsOK' /\ wq'[Compl] = <<>>
      /\ \A x \in Msgs : Uses(x)'.windows = Uses(x).windows /\ IsFiniteSet(QueuedTo(x, wq)')
  BY SameWindows
<1>8. /\ Uses(m) \in UsesType /\ msg[m].state = "active" /\ Uses(m).handler = 0 /\ Uses(m).count = 0
  <2> DEFINE u == Uses(m)
  <2>1. u \in UsesType /\ u.queued >= 1
    BY <1>6, LedgerFacts
  <2> HIDE DEF u
  <2>2. u.queued + u.windows >= 1
    BY <2>1 DEF UsesType
  <2>3. Uses(m).queued + Uses(m).windows >= 1
    BY <2>2 DEF u
  <2> QED
    BY <2>3, QueuedQuiet
<1>9. LET u == Uses(m)
          v == Uses(m)'
      IN /\ v.queued + v.windows + v.running = u.queued + u.windows + u.running
         /\ v.own = u.own /\ v.done = u.done /\ v.handles = u.handles
         /\ v.calls <= u.calls /\ v.handler = 0 /\ v.count = 0
  <2> DEFINE u == Uses(m)
             v == Uses(m)'
  <2>1. /\ v.running = u.running + 1 /\ v.own = u.own /\ v.done = u.done /\ v.calls = u.calls
        /\ v.handles = u.handles /\ v.count = u.count /\ v.handler = u.handler
    BY <1>3, RecipientPlaced
  <2>2. v.queued = u.queued - 1 /\ v.windows = u.windows /\ u \in UsesType
        /\ u.handler = 0 /\ u.count = 0
    BY <1>6, <1>7, <1>8
  <2> HIDE DEF u, v
  <2>3. /\ v.queued + v.windows + v.running = u.queued + u.windows + u.running
        /\ v.calls <= u.calls
    BY <2>1, <2>2, MovedSum
  <2> QED
    BY <2>1, <2>2, <2>3 DEF u, v
<1>10. QueuesShape'
  <2>1. StacksOK'
    BY <1>3 DEF Shifts, StackStep, StacksOK
  <2>2. \A u \in Threads \ {t} : /\ queue'[u] = queue[u] /\ wait_o'[u] = wait_o[u]
                                 /\ deleted'[u] = deleted[u] /\ stack'[u] = stack[u]
    BY InvParts DEF StacksOK, QueuesOK
  <2>3. stack'[t] = <<g>> /\ g.pc # "woken" /\ (deleted'[t] <=> g.pc \in {"drain", "drained"})
    BY <1>3
  <2> QED
    BY <1>7, <2>1, <2>2, <2>3, InvParts, QueuesShapeAt
<1>11. \A x \in Msgs : IsFiniteSet(QueuedTo(x, Queues)') /\ IsFiniteSet(QueuedTo(x, wq)')
  BY <1>4, <1>7
<1>12. Moves(t, m, 1, Top(t), g)
  BY <1>3, <1>4, <1>6, <1>7, <1>8, <1>9, <1>10, <1>11 DEF Moves
<1> QED
  BY <1>12, MoveStep

LEMMA PlainFrame ==
    ASSUME NEW pc \in Pcs, NEW m \in Msgs \cup {NoMsg}
    PROVE  LET g == Frame(pc, m, "none") IN g \in FrameType /\ g.pc = pc /\ g.m = m
<1>1. 1 \in 1 .. Len(Subs) + 1 /\ 0 \in 0 .. MaxCalls
  BY CallAssumption
<1> QED
  BY <1>1 DEF Frame, FrameType

LEMMA DispatchGetStep ==
    ASSUME Inv, NEW t \in Threads, DispatchGet(t)
    PROVE  Inv'
<1>1. stack[t] # <<>> /\ Top(t).pc = "woken"
  BY DEF DispatchGet, At
<1>2. /\ Top(t).m = NoMsg /\ Top(t) = stack[t][Len(stack[t])] /\ Len(stack[t]) \in DOMAIN stack[t]
  BY <1>1, InvParts, TopFacts DEF FrameOK
<1>3. t # Compl /\ ~deleted[t]
  BY <1>1, InvParts, BottomAlone, NotDeleted DEF BottomPcs
<1>4. queue[t] # <<>> /\ (wait_o[t] = "set" => Len(queue[t]) > 1)
  BY <1>1, <1>2, InvParts DEF QueuesShape
<1>5. queue[t] \in Seq(Entry)
  BY InvParts DEF QueuesOK
<1>6. Head(queue[t]) \in Entry
  BY <1>4, <1>5
<1>7. PICK m \in Msgs : Head(queue[t]).m = m
  BY <1>6 DEF Entry
<1> DEFINE g == Frame(IF msg[m].exit THEN "exit" ELSE "callback", m, "none")
<1>8. g \in FrameType /\ g.m = m /\ g.pc \in {"callback", "exit", "drain"} /\ g.pc # "drain"
  <2>1. "exit" \in Pcs /\ "callback" \in Pcs
    BY DEF Pcs
  <2> QED
    BY <2>1, PlainFrame
<1>9. /\ queue' = [queue EXCEPT ![t] = Tail(@)]
      /\ wait_o' = [wait_o EXCEPT ![t] = IF Len(queue[t]) > 1 THEN "set" ELSE @]
      /\ stack' = [stack EXCEPT ![t] = <<g>>]
      /\ last_msg' = last_msg \/ last_msg' = [last_msg EXCEPT ![t] = m]
      /\ UNCHANGED <<msg, deleted, wq, handles, xfer, cs_msg, types>>
  BY <1>7 DEF DispatchGet, SetQueueMessage
<1> HIDE DEF g
<1>10. /\ last_msg' \in [Threads -> Msgs \cup {NoMsg}]
       /\ wait_o' \in [Threads -> {"clear", "set", "closed"}]
       /\ deleted' \in [Threads -> BOOLEAN]
       /\ \A u \in Threads \ {t} : wait_o'[u] = wait_o[u] /\ deleted'[u] = deleted[u]
       /\ wait_o'[t] = IF Len(queue[t]) > 1 THEN "set" ELSE wait_o[t]
  BY <1>9, InvParts
<1>11. wait_o'[t] = "set" => queue'[t] # <<>>
  <2>1. queue'[t] = Tail(queue[t])
    BY <1>9, InvParts DEF QueuesOK
  <2>2. wait_o'[t] = "set" => Len(queue[t]) > 1
    BY <1>4, <1>10
  <2>3. Len(Tail(queue[t])) = Len(queue[t]) - 1 /\ Len(queue[t]) \in Nat
    BY <1>4, <1>5
  <2>4. Len(queue[t]) > 1 => Tail(queue[t]) # <<>>
    <3>0. Tail(queue[t]) \in Seq(Entry)
      BY <1>4, <1>5
    <3>1. Tail(queue[t]) = <<>> => Len(Tail(queue[t])) = 0
      BY <3>0, EmptySeq
    <3> QED
      BY <2>3, <3>1
  <2> QED
    BY <2>1, <2>2, <2>4
<1>12. Top(t).pc \in BottomPcs /\ (deleted'[t] <=> g.pc = "drain")
  BY <1>1, <1>3, <1>8, <1>9 DEF BottomPcs
<1>13. Gets(t, m, g)
  BY <1>1, <1>2, <1>4, <1>7, <1>8, <1>9, <1>10, <1>11, <1>12 DEF Gets
<1> QED
  BY <1>3, <1>8, <1>13, GetStep

LEMMA WindowBeginStep ==
    ASSUME Inv, NEW t \in Threads, WindowBegin(t)
    PROVE  Inv'
<1>1. /\ stack[t] = <<>> /\ ~deleted[t] /\ wq[t] # <<>>
      /\ wq' = [wq EXCEPT ![t] = Tail(@)]
      /\ UNCHANGED <<msg, queue, wait_o, deleted, handles, xfer, cs_msg, types>>
  BY DEF WindowBegin
<1>2. t # Compl
  BY <1>1, InvParts DEF QueuesShape
<1>3. /\ WindowsOK' /\ Head(wq[t]) \in Msgs
      /\ \A x \in Msgs :
           /\ IsFiniteSet(QueuedTo(x, wq)')
           /\ Cardinality(QueuedTo(x, wq)') = Cardinality(QueuedTo(x, wq)) - OneIf(x = Head(wq[t]))
  BY <1>1, InvParts, WindowGet
<1>4. PICK m \in Msgs : m = Head(wq[t])
  BY <1>3
<1> DEFINE g == Frame("wm", m, "none")
<1>5. g \in FrameType /\ g.m = m /\ g.pc = "wm"
  <2>1. "wm" \in Pcs
    BY DEF Pcs
  <2> QED
    BY <2>1, PlainFrame
<1>6. stack' = [stack EXCEPT ![t] = <<g>>] /\ last_msg' = [last_msg EXCEPT ![t] = m]
  BY <1>4 DEF WindowBegin, SetQueueMessage
<1> HIDE DEF g
<1>7. FrameOK(t, 1, g)
  BY <1>2, <1>5, CallAssumption DEF FrameOK
<1>8. StackShape' /\ Shifts(t, 1, NoFrame, g) /\ stack'[t] = <<g>> /\ StacksOK'
  BY <1>1, <1>5, <1>6, <1>7, PlaceFirst
<1>9. /\ Uses(m)'.windows = Uses(m).windows - 1 /\ Uses(m).windows >= 1
      /\ \A x \in Msgs \ {m} : Uses(x)'.windows = Uses(x).windows
  <2>1. \A x \in Msgs : /\ Cardinality(QueuedTo(x, wq)) \in Nat
                        /\ Cardinality(QueuedTo(x, wq)') \in Nat
    BY <1>3, InvParts, FS_CardinalityType DEF Finite
  <2>2. Cardinality(QueuedTo(m, wq)') = Cardinality(QueuedTo(m, wq)) - 1
    BY <1>3, <1>4 DEF OneIf
  <2>3. \A x \in Msgs \ {m} : Cardinality(QueuedTo(x, wq)') = Cardinality(QueuedTo(x, wq)) - 0
    BY <1>3, <1>4 DEF OneIf
  <2> QED
    BY <2>1, <2>2, <2>3 DEF Uses
<1>10. /\ QueuesOK'
       /\ \A x \in Msgs : Uses(x)'.queued = Uses(x).queued /\ IsFiniteSet(QueuedTo(x, Queues)')
  BY <1>1, SameQueues
<1>11. /\ Uses(m) \in UsesType /\ msg[m].state = "active" /\ Uses(m).handler = 0 /\ Uses(m).count = 0
  <2> DEFINE u == Uses(m)
  <2>1. u \in UsesType /\ u.windows >= 1
    BY <1>9, LedgerFacts
  <2> HIDE DEF u
  <2>2. u.queued + u.windows >= 1
    BY <2>1 DEF UsesType
  <2>3. Uses(m).queued + Uses(m).windows >= 1
    BY <2>2 DEF u
  <2> QED
    BY <2>3, QueuedQuiet
<1>12. NoFrame.m = NoMsg
  BY DEF NoFrame, Frame
<1>13. LET u == Uses(m)
           v == Uses(m)'
       IN /\ v.queued + v.windows + v.running = u.queued + u.windows + u.running
          /\ v.own = u.own /\ v.done = u.done /\ v.handles = u.handles
          /\ v.calls <= u.calls /\ v.handler = 0 /\ v.count = 0
  <2> DEFINE u == Uses(m)
             v == Uses(m)'
  <2>1. /\ v.running = u.running + 1 /\ v.own = u.own /\ v.done = u.done /\ v.calls = u.calls
        /\ v.handles = u.handles /\ v.count = u.count /\ v.handler = u.handler
    BY <1>5, <1>8, <1>12, RecipientPlaced
  <2>2. v.windows = u.windows - 1 /\ v.queued = u.queued /\ u \in UsesType
        /\ u.handler = 0 /\ u.count = 0
    BY <1>9, <1>10, <1>11
  <2> HIDE DEF u, v
  <2>3. /\ v.queued + v.windows + v.running = u.queued + u.windows + u.running
        /\ v.calls <= u.calls
    BY <2>1, <2>2, MovedSum
  <2> QED
    BY <2>1, <2>2, <2>3 DEF u, v
<1>14. QueuesShape'
  <2>1. \A u \in Threads \ {t} : /\ queue'[u] = queue[u] /\ wait_o'[u] = wait_o[u]
                                 /\ deleted'[u] = deleted[u] /\ stack'[u] = stack[u]
    BY <1>1, <1>6, InvParts DEF StacksOK
  <2>2. stack'[t] = <<g>> /\ g.pc # "woken" /\ (deleted'[t] <=> g.pc \in {"drain", "drained"})
    BY <1>1, <1>5, <1>8
  <2>3. wq'[Compl] = <<>>
    BY <1>1, <1>2, InvParts, CallAssumption DEF WindowsOK, QueuesShape
  <2>4. ~deleted'[t] /\ wait_o'[t] = "set" => queue'[t] # <<>>
    BY <1>1, InvParts DEF QueuesShape
  <2> QED
    BY <1>2, <1>8, <2>1, <2>2, <2>3, <2>4, InvParts, QueuesShapeAt
<1>15. /\ last_msg' \in [Threads -> Msgs \cup {NoMsg}]
       /\ wait_o' \in [Threads -> {"clear", "set", "closed"}] /\ deleted' \in [Threads -> BOOLEAN]
  BY <1>1, <1>6, InvParts
<1>16. \A x \in Msgs : IsFiniteSet(QueuedTo(x, Queues)') /\ IsFiniteSet(QueuedTo(x, wq)')
  BY <1>3, <1>10
<1>17. Moves(t, m, 1, NoFrame, g)
  BY <1>1, <1>3, <1>5, <1>8, <1>9, <1>10, <1>11, <1>12, <1>13, <1>14, <1>15, <1>16 DEF Moves
<1> QED
  BY <1>17, MoveStep

\* kmqint_detach_this_thread takes the next message off the queue, or is done.
LEMMA DrainStep ==
    ASSUME Inv, NEW t \in Threads, stack[t] # <<>>, Top(t).pc \in {"exited", "drained"}, Drain(t),
           deleted' \in [Threads -> BOOLEAN], deleted'[t],
           \A u \in Threads \ {t} : deleted'[u] = deleted[u],
           UNCHANGED <<msg, last_msg, wq, handles, xfer, cs_msg, types>>
    PROVE  Inv'
<1>1. Top(t).m = NoMsg /\ Top(t).pc \in BottomPcs
  BY InvParts, TopFacts DEF FrameOK, BottomPcs
<1>2. t # Compl /\ Len(stack[t]) = 1
  BY <1>1, InvParts, BottomAlone
<1>3. CASE queue[t] = <<>>
  <2>1. /\ wait_o' = [wait_o EXCEPT ![t] = "closed"]
        /\ stack' = [stack EXCEPT ![t] = <<>>] /\ UNCHANGED queue
    BY <1>3 DEF Drain
  <2>2. Front(stack[t]) = <<>>
    <3>1. stack[t] \in Seq(FrameType)
      BY InvParts DEF StacksOK
    <3> QED
      BY <1>2, <3>1 DEF Front
  <2>3. Pops(t)
    BY <2>1, <2>2 DEF Pops
  <2>4. StackShape' /\ Shifts(t, 1, Top(t), NoFrame)
    BY <1>2, <2>3, InvParts, PopStep
  <2>5. wait_o' \in [Threads -> {"clear", "set", "closed"}]
    BY <2>1, InvParts
  <2>6. QueuesShape'
    <3>1. StacksOK'
      BY <2>4 DEF Shifts, StackStep, StacksOK
    <3>2. \A u \in Threads \ {t} : /\ queue'[u] = queue[u] /\ wait_o'[u] = wait_o[u]
                                   /\ deleted'[u] = deleted[u] /\ stack'[u] = stack[u]
      BY <2>1, InvParts DEF StacksOK
    <3>3. stack'[t] = <<>>
      BY <2>1, InvParts DEF StacksOK
    <3>4. wq'[Compl] = <<>>
      BY InvParts DEF QueuesShape
    <3> QED
      BY <1>2, <3>1, <3>2, <3>3, <3>4, InvParts, QueuesShapeAt
  <2>7. NoFrame.m = NoMsg /\ NoFrame.pc \notin {"publish", "put", "handler"}
    BY DEF NoFrame, Frame
  <2>8. Silent(t, 1, Top(t), NoFrame)
    BY <1>1, <2>1, <2>4, <2>5, <2>6, <2>7 DEF Silent
  <2> QED
    BY <2>8, SilentStep
<1>4. CASE queue[t] # <<>>
  <2>1. queue[t] \in Seq(Entry)
    BY InvParts DEF QueuesOK
  <2>2. Head(queue[t]) \in Entry
    BY <1>4, <2>1
  <2>3. PICK m \in Msgs : Head(queue[t]).m = m
    BY <2>2 DEF Entry
  <2> DEFINE g == Frame("drain", m, "none")
  <2>4. g \in FrameType /\ g.m = m /\ g.pc = "drain"
    <3>1. "drain" \in Pcs
      BY DEF Pcs
    <3> QED
      BY <3>1, PlainFrame
  <2>5. /\ queue' = [queue EXCEPT ![t] = Tail(@)] /\ UNCHANGED wait_o
        /\ stack' = [stack EXCEPT ![t] = <<g>>]
    BY <1>4, <2>3 DEF Drain
  <2> HIDE DEF g
  <2>6. wait_o' \in [Threads -> {"clear", "set", "closed"}]
    BY <2>5, InvParts
  <2>7. last_msg' \in [Threads -> Msgs \cup {NoMsg}]
    BY InvParts
  <2>8. Gets(t, m, g)
    BY <1>1, <1>4, <2>3, <2>4, <2>5, <2>6, <2>7 DEF Gets
  <2> QED
    BY <1>2, <2>4, <2>8, GetStep
<1> QED
  BY <1>3, <1>4

LEMMA DetachStartStep ==
    ASSUME Inv, NEW t \in Threads, DetachStart(t)
    PROVE  Inv'
<1>1. /\ stack[t] # <<>> /\ Top(t).pc \in {"exited", "drained"} /\ Drain(t)
      /\ deleted' = [deleted EXCEPT ![t] = TRUE]
      /\ UNCHANGED <<msg, last_msg, wq, handles, xfer, cs_msg, types>>
  BY DEF DetachStart, At, MarkDeleted
<1>2. /\ deleted' \in [Threads -> BOOLEAN] /\ deleted'[t]
      /\ \A u \in Threads \ {t} : deleted'[u] = deleted[u]
  BY <1>1, InvParts
<1> QED
  BY <1>1, <1>2, DrainStep

LEMMA DetachNextStep ==
    ASSUME Inv, NEW t \in Threads, DetachNext(t)
    PROVE  Inv'
<1>1. /\ stack[t] # <<>> /\ Top(t).pc = "drained" /\ Drain(t)
      /\ UNCHANGED <<msg, deleted, last_msg, wq, handles, xfer, cs_msg, types>>
  BY DEF DetachNext, At
<1>2. deleted[t]
  BY <1>1, InvParts, TopFacts DEF QueuesShape
<1>3. /\ deleted' \in [Threads -> BOOLEAN] /\ deleted'[t]
      /\ \A u \in Threads \ {t} : deleted'[u] = deleted[u]
  BY <1>1, <1>2, InvParts
<1> QED
  BY <1>1, <1>3, DrainStep

-----------------------------------------------------------------------------
(* The completion handler.                                                  *)

LEMMA HandlerReturnStep ==
    ASSUME Inv, HandlerReturn
    PROVE  Inv'
<1> DEFINE t == Compl
           f == Top(t)
           n == Len(stack[t])
           r == FreeMessage
<1>1. /\ stack[t] # <<>> /\ f.pc = "handler" /\ cs_msg = NoThread
      /\ msg' = [msg EXCEPT ![f.m] = r] /\ stack' = [stack EXCEPT ![t] = Front(@)]
      /\ IF HoldsTypes(f.api) THEN LeaveTypes ELSE UNCHANGED types
      /\ UNCHANGED <<queue, wait_o, deleted, last_msg, wq, handles, xfer, cs_msg>>
  BY DEF HandlerReturn, At, Return
<1>2. t \in Threads
  BY CallAssumption
<1>3. f \in FrameType /\ FrameOK(t, n, f)
  BY <1>1, <1>2, InvParts, TopFacts
<1>4. PICK m \in Msgs : f.m = m
  BY <1>1, <1>3 DEF FrameOK, FrameType
<1>5. Shifts(t, n, f, NoFrame) /\ StackShape' /\ QueuesShape'
  <2>1. f.pc \notin {"drain", "drained"} /\ UNCHANGED <<queue, wait_o, deleted, wq>>
    BY <1>1
  <2>2. stack' = [stack EXCEPT ![t] = Front(stack[t])]
    BY <1>1
  <2> QED
    BY <1>1, <1>2, <2>1, <2>2, CallEnds
<1>6. Uses(m).handler >= 1
  <2>1. {"handler"} \in SUBSET Pcs
    BY PcsParts
  <2> QED
    BY <1>1, <1>2, <1>4, <2>1, TopCounted DEF Uses
<1>7. /\ Uses(m) \in UsesType /\ Balanced(msg[m], Uses(m)) /\ msg[m] \in MessageType
      /\ msg[m].state = "completing"
  BY <1>6, LedgerFacts
<1>8. /\ r \in MessageType /\ r.state = "free" /\ msg' = [msg EXCEPT ![m] = r]
  BY <1>1, <1>4 DEF FreeMessage, MessageType
<1>9. \A x \in Msgs : /\ Uses(x)'.queued = Uses(x).queued /\ IsFiniteSet(QueuedTo(x, Queues)')
                      /\ Uses(x)'.windows = Uses(x).windows /\ IsFiniteSet(QueuedTo(x, wq)')
                      /\ Uses(x)'.keepers = Uses(x).keepers /\ IsFiniteSet(Keepers(x)')
  BY <1>1, SameQueues, SameWindows, InvParts, KeepersStay
<1> DEFINE u == Uses(m)
           v == Uses(m)'
<1>10. /\ NoFrame.m = NoMsg /\ NoFrame.m # m /\ NoFrame.pc \notin {"publish", "put"}
       /\ ~InTypes(NoFrame)
  BY CallAssumption DEF NoFrame, Frame, InTypes
<1>11. /\ v.running = u.running - 0 + 0 /\ v.own = u.own - 0 + 0 /\ v.done = u.done - 0 + 0
       /\ v.calls = u.calls - 0 + 0 /\ v.handles = u.handles - 0 + 0
       /\ v.publisher = u.publisher - 0 + 0 /\ v.count = u.count - 0 + 0
       /\ v.handler = u.handler - 1 + 0
  <2>1. /\ Hits(NoFrame, m, RecipientPcs) = 0 /\ Hits(NoFrame, m, {"window"}) = 0
        /\ Hits(NoFrame, m, {"sent"}) = 0 /\ Hits(NoFrame, m, CallPcs) = 0
        /\ HitsCall(NoFrame, m) = 0 /\ Hits(NoFrame, m, PublisherPcs) = 0
        /\ Hits(NoFrame, m, {"handler"}) = 0 /\ Hits(NoFrame, m, {"count"}) = 0
    BY <1>10, NoHits
  <2>2. /\ Hits(f, m, RecipientPcs) = 0 /\ Hits(f, m, {"window"}) = 0
        /\ Hits(f, m, {"sent"}) = 0 /\ Hits(f, m, CallPcs) = 0
        /\ HitsCall(f, m) = 0 /\ Hits(f, m, PublisherPcs) = 0
        /\ Hits(f, m, {"handler"}) = 1 /\ Hits(f, m, {"count"}) = 0
    BY <1>1, <1>4 DEF Hits, HitsCall, OneIf, RecipientPcs, CallPcs, PublisherPcs
  <2> QED
    BY <1>2, <1>5, <2>1, <2>2, InvParts, ShiftUses
<1>12. v \in UsesType
  <2>1. Finite'
    BY <1>2, <1>5, <1>9, InvParts, FiniteStep
  <2> QED
    BY <2>1, BoundsNext
<1>13. /\ v.queued = u.queued /\ v.windows = u.windows /\ v.keepers = u.keepers
       /\ u \in UsesType /\ Balanced(msg[m], u)
  BY <1>7, <1>9
<1>14. Balanced(r, Uses(m)')
  <2> HIDE DEF u, v, r
  <2>1. /\ u.queued = 0 /\ u.windows = 0 /\ u.running = 0 /\ u.own = 0 /\ u.done = 0
        /\ u.calls = 0 /\ u.handles = 0 /\ u.keepers = 0 /\ u.publisher = 0 /\ u.handler = 1
    BY <1>7, <1>13 DEF Balanced
  <2>2. u.count = 0
    <3>1. u.count + u.done <= u.calls
      BY InvParts, UsesBounds DEF u
    <3> QED
      BY <1>13, <2>1, <3>1 DEF UsesType
  <2>3. /\ v.queued = 0 /\ v.windows = 0 /\ v.running = 0 /\ v.own = 0 /\ v.done = 0
        /\ v.calls = 0 /\ v.handles = 0 /\ v.keepers = 0 /\ v.publisher = 0 /\ v.handler = 0
        /\ v.count = 0
    BY <1>11, <1>13, <2>1, <2>2
  <2>4. Balanced(r, v)
    BY <1>8, <2>3 DEF Balanced
  <2> QED
    BY <2>4 DEF v
<1>15. QueuesOK' /\ WindowsOK'
  BY <1>1, SameQueues, SameWindows
<1>16. /\ HandlesOK' /\ cs_msg' \in Threads \cup {NoThread} /\ cs_msg' = cs_msg
       /\ wait_o' \in [Threads -> {"clear", "set", "closed"}]
       /\ deleted' \in [Threads -> BOOLEAN] /\ last_msg' \in [Threads -> Msgs \cup {NoMsg}]
  BY <1>1, InvParts DEF HandlesOK
<1>17. r.state = "xfer" <=> msg[m].state = "xfer"
  BY <1>7, <1>8
<1>18. \/ UNCHANGED types /\ (InTypes(NoFrame) => InTypes(f))
       \/ LeaveTypes /\ InTypes(f) /\ ~InTypes(NoFrame)
  BY <1>1, <1>10 DEF InTypes
<1>19. \A x \in Msgs : /\ IsFiniteSet(QueuedTo(x, Queues)') /\ IsFiniteSet(QueuedTo(x, wq)')
                       /\ IsFiniteSet(Keepers(x)')
  BY <1>9
<1>20. \A x \in Msgs \ {m} : /\ Uses(x)'.queued = Uses(x).queued
                             /\ Uses(x)'.windows = Uses(x).windows
                             /\ Uses(x)'.keepers = Uses(x).keepers
  BY <1>9
<1>21. f.m \in {m, NoMsg} /\ NoFrame.m \in {m, NoMsg} /\ UNCHANGED xfer
  BY <1>1, <1>4, <1>10
<1> HIDE DEF f, r, n, t
<1> QED
  BY <1>2, <1>5, <1>8, <1>10, <1>14, <1>15, <1>16, <1>17, <1>18, <1>19, <1>20, <1>21, QuietStep

LEMMA ComplTakeStep ==
    ASSUME Inv, ComplTake
    PROVE  Inv'
<1> DEFINE t == Compl
<1>1. /\ stack[t] = <<>> /\ xfer # <<>> /\ cs_msg = NoThread
      /\ xfer' = Tail(xfer) /\ msg' = [msg EXCEPT ![Head(xfer)].state = "completing"]
      /\ stack' = [stack EXCEPT ![t] = <<Frame("handler", Head(xfer), "none")>>]
      /\ UNCHANGED <<queue, wait_o, deleted, last_msg, wq, handles, cs_msg, types>>
  BY DEF ComplTake
<1>2. t \in Threads
  BY CallAssumption
<1>3. /\ Head(xfer) \in Msgs /\ Tail(xfer) \in Seq(Msgs) /\ IsInjective(Tail(xfer))
      /\ ToSet(Tail(xfer)) = ToSet(xfer) \ {Head(xfer)} /\ Head(xfer) \in ToSet(xfer)
  BY <1>1, InvParts, TailFacts DEF XferOK, XferExact
<1>4. PICK m \in Msgs : m = Head(xfer)
  BY <1>3
<1> DEFINE g == Frame("handler", m, "none")
           r == [msg[m] EXCEPT !.state = "completing"]
<1>5. /\ msg[m].state = "xfer" /\ msg[m] \in MessageType
      /\ Uses(m) \in UsesType /\ Balanced(msg[m], Uses(m))
  BY <1>3, <1>4, InvParts, LedgerFacts DEF XferExact
<1>6. r \in MessageType /\ r.state = "completing" /\ msg' = [msg EXCEPT ![m] = r]
  BY <1>1, <1>4, <1>5, InvParts DEF MessageType, MsgsOK
<1>7. g \in FrameType /\ FrameOK(t, 1, g) /\ g.m = m /\ g.pc = "handler" /\ ~InTypes(g)
      /\ g # NoFrame
  <2>1. g \in FrameType /\ FrameOK(t, 1, g)
    BY <1>2, PlaceOK
  <2>2. g.m = m /\ g.pc = "handler" /\ g.api = "none" /\ NoFrame.pc = "drained"
    BY DEF Frame, NoFrame
  <2> HIDE DEF g
  <2> QED
    BY <2>1, <2>2 DEF InTypes, HoldsTypes
<1>8. StackShape' /\ Shifts(t, 1, NoFrame, g) /\ StacksOK'
  <2>1. stack' = [stack EXCEPT ![t] = <<g>>]
    BY <1>1, <1>4
  <2> HIDE DEF g
  <2> QED
    BY <1>1, <1>2, <1>7, <2>1, PlaceFirst
<1>9. \A x \in Msgs : /\ Uses(x)'.queued = Uses(x).queued /\ IsFiniteSet(QueuedTo(x, Queues)')
                      /\ Uses(x)'.windows = Uses(x).windows /\ IsFiniteSet(QueuedTo(x, wq)')
                      /\ Uses(x)'.keepers = Uses(x).keepers /\ IsFiniteSet(Keepers(x)')
  BY <1>1, SameQueues, SameWindows, InvParts, KeepersStay
<1>10. Finite'
  BY <1>2, <1>8, <1>9, InvParts, FiniteStep
<1>11. NoFrame.m = NoMsg /\ NoFrame.pc = "drained"
  BY DEF NoFrame, Frame
<1>12. \A x \in Msgs \ {m} : Uses(x)' = Uses(x)
  <2> SUFFICES ASSUME NEW x \in Msgs \ {m} PROVE Uses(x)' = Uses(x)
    OBVIOUS
  <2>1. NoFrame.m # x /\ g.m # x
    BY <1>7, <1>11, CallAssumption
  <2> HIDE DEF g
  <2> QED
    BY <1>2, <1>8, <1>9, <2>1, InvParts, UsesOther
<1>13. LET u == Uses(m)
           v == Uses(m)'
       IN
       /\ v.running = u.running /\ v.own = u.own /\ v.done = u.done /\ v.calls = u.calls
       /\ v.handles = u.handles /\ v.publisher = u.publisher /\ v.count = u.count
       /\ v.handler = u.handler + OneIf(g # NoFrame)
  BY <1>2, <1>8, HandlerPlaced
<1>14. Balanced(r, Uses(m)')
  <2> DEFINE u == Uses(m)
             v == Uses(m)'
  <2>1. /\ v.running = u.running /\ v.own = u.own /\ v.done = u.done /\ v.calls = u.calls
        /\ v.handles = u.handles /\ v.publisher = u.publisher /\ v.count = u.count
        /\ v.handler = u.handler + 1
        /\ v.queued = u.queued /\ v.windows = u.windows /\ v.keepers = u.keepers
        /\ Balanced(msg[m], u)
    BY <1>5, <1>7, <1>9, <1>13 DEF OneIf
  <2> HIDE DEF u, v
  <2>2. r.nSent = msg[m].nSent
    BY <1>5 DEF MessageType
  <2>3. Balanced(r, v)
    <3> HIDE DEF r
    <3> QED
      BY <1>5, <1>6, <2>1, <2>2 DEF Balanced
  <2> QED
    BY <2>3 DEF v
<1> HIDE DEF g, r
<1>15. Ledger'
  <2>1. msg'[m] = r /\ \A x \in Msgs \ {m} : msg'[x] = msg[x]
    BY <1>6, InvParts DEF MsgsOK
  <2>2. Balanced(msg'[m], Uses(m)')
    BY <1>14, <2>1
  <2> QED
    BY <1>12, <2>1, <2>2, InvParts, LedgerStep
<1>16. XferExact'
  <2>1. \A x \in Msgs : msg'[x].state = "xfer" <=> x # m /\ msg[x].state = "xfer"
    BY <1>5, <1>6, InvParts DEF MsgsOK
  <2>2. ToSet(xfer') = {x \in Msgs : msg'[x].state = "xfer"}
    BY <1>1, <1>3, <1>4, <2>1, InvParts DEF XferExact
  <2> QED
    BY <1>1, <1>3, <2>2 DEF XferExact
<1>17. PublishLock'
  BY <1>1, <1>2, <1>7, <1>8, InvParts, PublishLockStep
<1>18. TypesHeld' /\ types' \in [owner : Threads \cup {NoThread}, depth : Nat]
  BY <1>1, <1>2, <1>7, <1>8, InvParts, TypesStep
<1>19. QueuesShape'
  <2>1. ~deleted[t] /\ wq'[Compl] = <<>> /\ UNCHANGED <<queue, wait_o, deleted>>
    BY <1>1, InvParts DEF QueuesShape
  <2> QED
    BY <1>2, <1>7, <1>8, <2>1, InvParts, QueuesShapeStep
<1>20. TypeOK'
  <2>1. msg' \in [Msgs -> MessageType] /\ xfer' \in Seq(Msgs)
    BY <1>1, <1>3, <1>6, InvParts DEF MsgsOK
  <2> QED
    BY <1>1, <1>8, <1>18, <2>1 DEF TypeOK, Inv, StacksOK
<1> QED
  BY <1>8, <1>10, <1>15, <1>16, <1>17, <1>18, <1>19, <1>20 DEF Inv

-----------------------------------------------------------------------------
(* Quit messages.                                                           *)

LEMMA CountBalanced ==
    ASSUME NEW r \in MessageType, NEW s \in MessageType, NEW u \in UsesType, NEW v \in UsesType,
           r.state = "active", s.state = "active", Balanced(r, u),
           s.refcount = r.refcount + 1, s.nSent = r.nSent + 1, s.nCompleted = r.nCompleted,
           s.nFailed = r.nFailed,
           v.queued = u.queued, v.windows = u.windows, v.running = u.running + 1,
           v.own = u.own, v.done = u.done, v.handles = u.handles, v.keepers = u.keepers,
           v.calls = u.calls, v.count = 0, v.handler = 0
    PROVE  Balanced(s, v)
<1>1. UsedBy(v) = UsedBy(u) + 1 /\ UsedBy(u) \in Nat /\ UsedBy(v) \in Nat
  BY DEF UsedBy, UsesType
<1>2. s.refcount = UsedBy(v) + 2 * v.own + v.done + v.handles + v.keepers
  BY <1>1 DEF Balanced, MessageType, UsesType
<1>3. s.nSent + v.done = s.nCompleted + s.nFailed + UsedBy(v)
  <2>1. r.nSent + u.done = r.nCompleted + r.nFailed + UsedBy(u)
    BY DEF Balanced
  <2>2. r.nSent \in Nat /\ r.nCompleted \in Nat /\ r.nFailed \in Nat /\ u.done \in Nat
    BY DEF MessageType, UsesType
  <2> QED
    BY <1>1, <2>1, <2>2
<1>4. v.calls + v.keepers <= 1
  BY DEF Balanced
<1> QED
  BY <1>2, <1>3, <1>4 DEF Balanced

LEMMA QuitCountStep ==
    ASSUME Inv, NEW t \in Threads, QuitCount(t)
    PROVE  Inv'
<1> DEFINE f == Top(t)
           n == Len(stack[t])
           g == [f EXCEPT !.pc = "counted", !.calls = 0]
<1>1. stack[t] # <<>> /\ f.pc = "count" /\ cs_msg = NoThread
  BY DEF QuitCount, At
<1>2. f \in FrameType /\ FrameOK(t, n, f)
  BY <1>1, InvParts, TopFacts
<1>3. PICK m \in Msgs : f.m = m
  BY <1>1, <1>2 DEF FrameOK, FrameType
<1>4. g \in FrameType /\ g.pc = "counted" /\ g.m = m /\ g.api = f.api /\ g.to = f.to
  <2>1. "counted" \in Pcs
    BY DEF Pcs
  <2> QED
    BY <1>2, <1>3, <2>1, MovedFrame
<1>5. FrameOK(t, n, g)
  BY <1>1, <1>2, <1>3, <1>4, CallAssumption DEF FrameOK, CallPcs, BottomPcs
<1> DEFINE r == AddRef(m)
<1>6. /\ Changes(t, g) /\ msg' = [msg EXCEPT ![m] = r]
      /\ UNCHANGED <<queue, wait_o, deleted, last_msg, wq, handles, xfer, cs_msg, types>>
  BY <1>1, <1>3 DEF QuitCount, Changes, Goto, Moved
<1> HIDE DEF g
<1>7. StackShape' /\ Shifts(t, n, f, g)
  BY <1>4, <1>5, <1>6, InvParts, ChangeStep
<1>8. Uses(m).calls >= 1 /\ Uses(m).count >= 1
  <2>1. CallPcs \in SUBSET Pcs /\ {"count"} \in SUBSET Pcs /\ "count" \in CallPcs
    BY PcsParts DEF CallPcs
  <2> QED
    BY <1>1, <1>3, <2>1, TopCounted DEF Uses
<1>9. /\ msg[m] \in MessageType /\ Balanced(msg[m], Uses(m)) /\ Uses(m) \in UsesType
      /\ msg[m].state = "active"
  BY <1>8, LedgerFacts
<1>10. /\ r \in MessageType /\ r.state = msg[m].state
       /\ r.refcount = msg[m].refcount + 1 /\ r.nSent = msg[m].nSent + 1
       /\ r.nCompleted = msg[m].nCompleted /\ r.nFailed = msg[m].nFailed
  BY <1>9, AddRefIs
<1>11. \A x \in Msgs : /\ Uses(x)'.queued = Uses(x).queued /\ IsFiniteSet(QueuedTo(x, Queues)')
                       /\ Uses(x)'.windows = Uses(x).windows /\ IsFiniteSet(QueuedTo(x, wq)')
                       /\ Uses(x)'.keepers = Uses(x).keepers /\ IsFiniteSet(Keepers(x)')
  BY <1>6, SameQueues, SameWindows, InvParts, KeepersStay
<1> DEFINE u == Uses(m)
           v == Uses(m)'
           c == OneIf(HasCall(f.api))
<1>12. /\ v.running = u.running - 0 + 1 /\ v.own = u.own - 0 + 0 /\ v.done = u.done - 0 + 0
       /\ v.calls = u.calls - 1 + 1 /\ v.handles = u.handles - c + c
       /\ v.count = u.count - 1 + 0 /\ v.handler = u.handler - 0 + 0
  <2>1. /\ Hits(f, m, RecipientPcs) = 0 /\ Hits(f, m, {"window"}) = 0
        /\ Hits(f, m, {"sent"}) = 0 /\ Hits(f, m, CallPcs) = 1
        /\ HitsCall(f, m) = c /\ Hits(f, m, {"handler"}) = 0 /\ Hits(f, m, {"count"}) = 1
    BY <1>1, <1>3 DEF Hits, HitsCall, OneIf, RecipientPcs, CallPcs
  <2>2. /\ Hits(g, m, RecipientPcs) = 1 /\ Hits(g, m, {"window"}) = 0
        /\ Hits(g, m, {"sent"}) = 0 /\ Hits(g, m, CallPcs) = 1
        /\ HitsCall(g, m) = c /\ Hits(g, m, {"handler"}) = 0 /\ Hits(g, m, {"count"}) = 0
    BY <1>4 DEF Hits, HitsCall, OneIf, RecipientPcs, CallPcs
  <2> QED
    BY <1>7, <2>1, <2>2, InvParts, ShiftUses
<1>13. v \in UsesType
  <2>1. Finite'
    BY <1>7, <1>11, InvParts, FiniteStep
  <2> QED
    BY <2>1, BoundsNext
<1>14. /\ v.queued = u.queued /\ v.windows = u.windows /\ v.keepers = u.keepers
       /\ u \in UsesType /\ Balanced(msg[m], u) /\ u.calls >= 1 /\ u.count >= 1 /\ c \in Int
       /\ u.count + u.done <= u.calls
  BY <1>8, <1>9, <1>11, InvParts, UsesBounds DEF OneIf
<1>15. Balanced(r, Uses(m)')
  <2> HIDE DEF u, v, r, c
  <2>1. u.handler = 0
    BY <1>9, <1>14 DEF Balanced
  <2>2. u.count = 1
    BY <1>14 DEF Balanced, UsesType
  <2>3. /\ v.running = u.running + 1 /\ v.own = u.own /\ v.done = u.done /\ v.calls = u.calls
        /\ v.handles = u.handles /\ v.count = 0 /\ v.handler = 0
    BY <1>12, <1>13, <1>14, <2>1, <2>2 DEF UsesType
  <2>4. Balanced(r, v)
    BY <1>9, <1>10, <1>13, <1>14, <2>3, CountBalanced
  <2> QED
    BY <2>4 DEF v
<1>16. QueuesOK' /\ WindowsOK'
  BY <1>6, SameQueues, SameWindows
<1>17. /\ HandlesOK' /\ cs_msg' \in Threads \cup {NoThread} /\ cs_msg' = cs_msg
       /\ wait_o' \in [Threads -> {"clear", "set", "closed"}]
       /\ deleted' \in [Threads -> BOOLEAN] /\ last_msg' \in [Threads -> Msgs \cup {NoMsg}]
  BY <1>6, InvParts DEF HandlesOK
<1>18. QueuesShape'
  <2>1. ~deleted[t]
    BY <1>1, InvParts, NotDeleted
  <2>2. wq'[Compl] = <<>>
    BY <1>6, SameWindows
  <2> QED
    BY <1>4, <1>6, <1>7, <2>1, <2>2, InvParts, QueuesShapeStep
<1>19. g.pc \notin {"publish", "put"} /\ UNCHANGED types /\ (InTypes(g) => InTypes(f))
  BY <1>4, <1>6 DEF InTypes
<1>20. \A x \in Msgs : /\ IsFiniteSet(QueuedTo(x, Queues)') /\ IsFiniteSet(QueuedTo(x, wq)')
                       /\ IsFiniteSet(Keepers(x)')
  BY <1>11
<1>21. \A x \in Msgs \ {m} : /\ Uses(x)'.queued = Uses(x).queued
                             /\ Uses(x)'.windows = Uses(x).windows
                             /\ Uses(x)'.keepers = Uses(x).keepers
  BY <1>11
<1>22. /\ f.m \in {m, NoMsg} /\ g.m \in {m, NoMsg} /\ UNCHANGED xfer
       /\ (r.state = "xfer" <=> msg[m].state = "xfer")
  BY <1>3, <1>4, <1>6, <1>10
<1> HIDE DEF f, r, n
<1> QED
  BY <1>6, <1>7, <1>10, <1>15, <1>16, <1>17, <1>18, <1>19, <1>20, <1>21, <1>22, QuietStep

LEMMA QuitPutStep ==
    ASSUME Inv, NEW t \in Threads, QuitPut(t)
    PROVE  Inv'
<1> DEFINE f == Top(t)
           n == Len(stack[t])
           w == [f EXCEPT !.pc = "wait", !.calls = 0]
<1>1. stack[t] # <<>> /\ f.pc = "counted"
  BY DEF QuitPut, At
<1>2. f \in FrameType /\ FrameOK(t, n, f)
  BY <1>1, InvParts, TopFacts
<1>3. PICK m \in Msgs : f.m = m
  BY <1>1, <1>2 DEF FrameOK, FrameType
<1>4. PICK q \in Threads \ {Compl} : f.to = q
  BY <1>1, <1>2 DEF FrameOK
<1>5. f.api \in Quits /\ (HasCall(f.api) <=> Waits(f.api))
  BY <1>1, <1>2 DEF FrameOK, HasCall, Waits, Quits
<1> DEFINE e == [m |-> m, sub |-> 0]
<1>6. /\ Enqueue(q, m, 0)
      /\ UNCHANGED <<msg, deleted, last_msg, wq, handles, xfer, cs_msg, types>>
      /\ IF Waits(f.api) THEN stack' = [stack EXCEPT ![t] = WithTop(t, w)]
         ELSE stack' = [stack EXCEPT ![t] = Front(stack[t])]
  BY <1>3, <1>4 DEF QuitPut, Goto, Return, Moved
<1>7. w \in FrameType /\ w.pc = "wait" /\ w.m = m /\ w.api = f.api
  <2>1. "wait" \in Pcs
    BY DEF Pcs
  <2> QED
    BY <1>2, <1>3, <2>1, MovedFrame
<1> HIDE DEF w
<1>8. Waits(f.api) => FrameOK(t, n, w)
  BY <1>2, <1>3, <1>5, <1>7, CallAssumption DEF FrameOK, CallPcs, BottomPcs
<1>9. NoFrame.m = NoMsg /\ NoFrame.m # m /\ NoFrame.pc = "drained"
  BY CallAssumption DEF NoFrame, Frame
<1>10. \E g : /\ \/ g = w /\ Waits(f.api)
                 \/ g = NoFrame /\ ~Waits(f.api) /\ n \notin DOMAIN stack'[t]
              /\ StackShape' /\ Shifts(t, n, f, g)
  <2>1. CASE Waits(f.api)
    <3>1. Changes(t, w)
      BY <1>1, <1>6, <2>1 DEF Changes
    <3> QED
      BY <1>7, <1>8, <2>1, <3>1, InvParts, ChangeStep
  <2>2. CASE ~Waits(f.api)
    <3>1. Pops(t)
      BY <1>1, <1>6, <2>2 DEF Pops
    <3>2. n \in Nat /\ DOMAIN stack'[t] = 1 .. n - 1
      BY <3>1, InvParts, PopFacts
    <3>3. n \notin DOMAIN stack'[t]
      <4> HIDE DEF n
      <4> QED
        BY <3>2
    <3> QED
      BY <2>2, <3>1, <3>3, InvParts, PopStep
  <2> QED
    BY <2>1, <2>2
<1>11. PICK g : /\ \/ g = w /\ Waits(f.api)
                   \/ g = NoFrame /\ ~Waits(f.api) /\ n \notin DOMAIN stack'[t]
                /\ StackShape' /\ Shifts(t, n, f, g)
  BY <1>10
<1>12. g.m \in {m, NoMsg} /\ g.pc \in {"wait", "drained"} /\ f.m \in {m, NoMsg}
       /\ (n \in DOMAIN stack'[t] => g.pc = "wait")
  BY <1>3, <1>7, <1>9, <1>11
<1>13. e \in Entry /\ e.m = m /\ queue' = [queue EXCEPT ![q] = Append(@, e)]
  <2>1. 0 \in 0 .. Len(Subs)
    BY CallAssumption
  <2> QED
    BY <1>6, <2>1 DEF Entry, Enqueue
<1> HIDE DEF e
<1>14. /\ QueuesOK' /\ queue'[q] # <<>> /\ Len(queue'[q]) = Len(queue[q]) + 1
       /\ \A x \in Msgs :
            /\ IsFiniteSet(QueuedTo(x, Queues)')
            /\ Cardinality(QueuedTo(x, Queues)')
                 = Cardinality(QueuedTo(x, Queues)) + OneIf(x = e.m)
  BY <1>13, InvParts, QueuePut
<1>15. QueuesShape' /\ wait_o' \in [Threads -> {"clear", "set", "closed"}]
  <2>1. ~deleted[t]
    BY <1>1, InvParts, NotDeleted
  <2>2. /\ g.pc # "woken" /\ UNCHANGED <<deleted, wq>>
        /\ n \in DOMAIN stack'[t] => g.pc \notin {"drain", "drained"}
    BY <1>6, <1>12
  <2>3. Shifts(t, n, f, g) /\ Enqueue(q, m, 0)
    BY <1>6, <1>11
  <2> HIDE DEF n, f
  <2> QED
    BY <1>14, <2>1, <2>2, <2>3, InvParts, EnqueueShape
<1>16. /\ WindowsOK' /\ \A x \in Msgs : Uses(x)'.windows = Uses(x).windows
                                        /\ IsFiniteSet(QueuedTo(x, wq)')
  BY <1>6, SameWindows
<1>17. /\ Uses(m)'.queued = Uses(m).queued + 1
       /\ \A x \in Msgs \ {m} : Uses(x)'.queued = Uses(x).queued
  <2>1. \A x \in Msgs : Cardinality(QueuedTo(x, Queues)) \in Nat
    BY InvParts, FS_CardinalityType DEF Finite
  <2>2. Cardinality(QueuedTo(m, Queues)') = Cardinality(QueuedTo(m, Queues)) + 1
    BY <1>13, <1>14 DEF OneIf
  <2>3. \A x \in Msgs \ {m} : Cardinality(QueuedTo(x, Queues)') = Cardinality(QueuedTo(x, Queues)) + 0
    BY <1>13, <1>14 DEF OneIf
  <2> QED
    BY <2>1, <2>2, <2>3 DEF Uses
<1>18. Uses(m).calls >= 1
  <2>1. CallPcs \in SUBSET Pcs /\ "counted" \in CallPcs
    BY PcsParts DEF CallPcs
  <2> QED
    BY <1>1, <1>3, <2>1, TopCounted DEF Uses
<1>19. /\ msg[m].state = "active" /\ Balanced(msg[m], Uses(m)) /\ Uses(m) \in UsesType
       /\ msg[m] \in MessageType
  BY <1>18, LedgerFacts
<1>20. Uses(m).count = 0
  BY <1>1, <1>3, <1>11, InvParts, CountAlone DEF CallPcs
<1> DEFINE u == Uses(m)
           v == Uses(m)'
           h == OneIf(HasCall(f.api))
           d == OneIf(Waits(f.api))
<1>21. /\ v.running = u.running - 1 + 0 /\ v.own = u.own - 0 + 0 /\ v.done = u.done - 0 + 0
       /\ v.calls = u.calls - 1 + d /\ v.handles = u.handles - h + d
       /\ v.count = u.count - 0 + 0 /\ v.handler = u.handler - 0 + 0
  <2>1. /\ Hits(f, m, RecipientPcs) = 1 /\ Hits(f, m, {"window"}) = 0
        /\ Hits(f, m, {"sent"}) = 0 /\ Hits(f, m, CallPcs) = 1
        /\ HitsCall(f, m) = h /\ Hits(f, m, {"handler"}) = 0 /\ Hits(f, m, {"count"}) = 0
    BY <1>1, <1>3 DEF Hits, HitsCall, OneIf, RecipientPcs, CallPcs
  <2>2. /\ Hits(g, m, RecipientPcs) = 0 /\ Hits(g, m, {"window"}) = 0
        /\ Hits(g, m, {"sent"}) = 0 /\ Hits(g, m, CallPcs) = d
        /\ HitsCall(g, m) = d /\ Hits(g, m, {"handler"}) = 0 /\ Hits(g, m, {"count"}) = 0
    <3>1. CASE g = NoFrame /\ ~Waits(f.api)
      BY <1>9, <3>1, NoHits DEF OneIf
    <3>2. CASE g = w /\ Waits(f.api)
      BY <1>5, <1>7, <3>2 DEF Hits, HitsCall, OneIf, RecipientPcs, CallPcs
    <3> QED
      BY <1>11, <3>1, <3>2
  <2> QED
    BY <1>11, <2>1, <2>2, InvParts, ShiftUses
<1>22. h = d /\ d \in {0, 1}
  BY <1>5 DEF OneIf
<1>23. /\ v.queued + v.windows + v.running = u.queued + u.windows + u.running
       /\ v.own = u.own /\ v.done = u.done /\ v.handles = u.handles
       /\ v.calls <= u.calls /\ v.handler = 0 /\ v.count = 0
  <2>1. /\ v.queued = u.queued + 1 /\ v.windows = u.windows /\ u.count = 0 /\ u \in UsesType
        /\ Balanced(msg[m], u)
    BY <1>16, <1>17, <1>19, <1>20
  <2> HIDE DEF u, v, h, d
  <2>2. u.handler = 0
    BY <1>19, <2>1 DEF Balanced
  <2> QED
    BY <1>21, <1>22, <2>1, <2>2 DEF UsesType
<1>24. deleted' \in [Threads -> BOOLEAN] /\ last_msg' \in [Threads -> Msgs \cup {NoMsg}]
  BY <1>6, InvParts
<1>25. \A x \in Msgs : IsFiniteSet(QueuedTo(x, Queues)') /\ IsFiniteSet(QueuedTo(x, wq)')
  BY <1>14, <1>16
<1>26. UNCHANGED <<msg, handles, xfer, cs_msg, types>> /\ g.pc \notin {"publish", "put", "handler"}
  BY <1>6, <1>12
<1> HIDE DEF n, f
<1>27. Moves(t, m, n, f, g)
  BY <1>11, <1>12, <1>14, <1>15, <1>16, <1>17, <1>19, <1>23, <1>24, <1>25, <1>26 DEF Moves
<1> QED
  BY <1>27, MoveStep

-----------------------------------------------------------------------------
(* The theorems.                                                            *)

LEMMA NothingQueued ==
    ASSUME Init, NEW x \in Msgs
    PROVE  QueuedTo(x, Queues) = {} /\ QueuedTo(x, wq) = {}
<1> DEFINE q == Queues
           w == wq
<1>1. \A t \in Threads : DOMAIN queue[t] = {} /\ DOMAIN w[t] = {}
  BY DEF Init
<1>2. \A t \in Threads : DOMAIN q[t] = {}
  BY <1>1 DEF Queues
<1> HIDE DEF q, w
<1>3. \A t \in Threads : {j \in DOMAIN q[t] : q[t][j] = x} = {} /\ {j \in DOMAIN w[t] : w[t][j] = x} = {}
  BY <1>1, <1>2
<1>4. QueuedTo(x, q) = {} /\ QueuedTo(x, w) = {}
  BY <1>3 DEF QueuedTo
<1> QED
  BY <1>4 DEF q, w

LEMMA EmptyUses ==
    ASSUME Init, NEW x \in Msgs
    PROVE  Uses(x) = [queued |-> 0, windows |-> 0, running |-> 0, own |-> 0, done |-> 0,
                      calls |-> 0, handles |-> 0, keepers |-> 0, publisher |-> 0,
                      handler |-> 0, count |-> 0]
<1>1. \A t \in Threads : queue[t] = <<>> /\ wq[t] = <<>> /\ stack[t] = <<>> /\ handles[t] = {}
  BY DEF Init
<1>2. QueuedTo(x, Queues) = {} /\ QueuedTo(x, wq) = {}
  BY NothingQueued
<1>3. Frames = {}
  BY <1>1 DEF Frames
<1>4. (\A pcs : FramesOf(x, pcs) = {}) /\ CallFrames(x) = {}
  BY <1>3 DEF FramesOf, CallFrames
<1>5. Keepers(x) = {}
  BY <1>1 DEF Keepers
<1>6. Cardinality({}) = 0
  BY FS_EmptySet
<1>7. /\ Cardinality(QueuedTo(x, Queues)) = 0 /\ Cardinality(QueuedTo(x, wq)) = 0
      /\ \A pcs : Cardinality(FramesOf(x, pcs)) = 0
      /\ Cardinality(CallFrames(x)) = 0 /\ Cardinality(Keepers(x)) = 0
  BY <1>2, <1>4, <1>5, <1>6
<1>8. /\ Cardinality(OwnWindow(x)) = 0 /\ Cardinality(OwnWindowDone(x)) = 0
      /\ Cardinality(Publisher(x)) = 0
  BY <1>7 DEF OwnWindow, OwnWindowDone, Publisher
<1> QED
  BY <1>7, <1>8 DEF Uses

LEMMA InitInv == Init => Inv
<1> SUFFICES ASSUME Init PROVE Inv
  OBVIOUS
<1>1. FreeMessage \in MessageType
  BY DEF FreeMessage, MessageType
<1>2. NoLock \in [owner : Threads \cup {NoThread}, depth : Nat]
  BY DEF NoLock
<1>3. TypeOK
  <2>1. /\ msg \in [Msgs -> MessageType]
        /\ queue \in [Threads -> Seq([m : Msgs, sub : 0 .. Len(Subs)])]
        /\ wait_o \in [Threads -> {"clear", "set", "closed"}] /\ deleted \in [Threads -> BOOLEAN]
        /\ last_msg \in [Threads -> Msgs \cup {NoMsg}] /\ wq \in [Threads -> Seq(Msgs)]
        /\ stack \in [Threads -> Seq(FrameType)] /\ handles \in [Threads -> SUBSET Msgs]
        /\ xfer \in Seq(Msgs)
    BY <1>1 DEF Init
  <2>2. cs_msg \in Threads \cup {NoThread} /\ types \in [owner : Threads \cup {NoThread}, depth : Nat]
    BY <1>2 DEF Init
  <2> QED
    BY <2>1, <2>2 DEF TypeOK
<1>4. \A t \in Threads : DOMAIN stack[t] = {} /\ stack[t] = <<>>
  BY DEF Init
<1>5. StackShape /\ PublishLock
  BY <1>4 DEF StackShape, PublishLock
<1>6. QueuesShape
  BY <1>4, CallAssumption DEF QueuesShape, Init
<1>7. TypesHeld
  <2>1. \A t \in Threads : TypesFrames(t) = {}
    BY <1>4 DEF TypesFrames
  <2> QED
    BY <2>1 DEF TypesHeld, Init, NoLock
<1>8. Finite
  <2> SUFFICES ASSUME NEW x \in Msgs
               PROVE  /\ IsFiniteSet(QueuedTo(x, Queues)) /\ IsFiniteSet(QueuedTo(x, wq))
                      /\ IsFiniteSet(FramesOf(x, Pcs)) /\ IsFiniteSet(Keepers(x))
    BY DEF Finite
  <2>1. \A t \in Threads : queue[t] = <<>> /\ wq[t] = <<>> /\ handles[t] = {}
    BY DEF Init
  <2>2. QueuedTo(x, Queues) = {} /\ QueuedTo(x, wq) = {}
    BY NothingQueued
  <2>3. Frames = {}
    BY <1>4 DEF Frames
  <2>4. FramesOf(x, Pcs) = {} /\ Keepers(x) = {}
    BY <2>1, <2>3 DEF FramesOf, Keepers
  <2> QED
    BY <2>2, <2>4, FS_EmptySet
<1>9. Ledger
  <2> SUFFICES ASSUME NEW x \in Msgs PROVE Balanced(msg[x], Uses(x))
    BY DEF Ledger
  <2> DEFINE u == Uses(x)
  <2>1. u = [queued |-> 0, windows |-> 0, running |-> 0, own |-> 0, done |-> 0,
             calls |-> 0, handles |-> 0, keepers |-> 0, publisher |-> 0,
             handler |-> 0, count |-> 0]
    BY EmptyUses
  <2> HIDE DEF u
  <2>2. /\ u.queued = 0 /\ u.windows = 0 /\ u.running = 0 /\ u.own = 0 /\ u.done = 0
        /\ u.calls = 0 /\ u.handles = 0 /\ u.keepers = 0 /\ u.publisher = 0
        /\ u.handler = 0 /\ u.count = 0
    BY <2>1
  <2>3. msg[x].state = "free"
    BY DEF Init, FreeMessage
  <2>4. Balanced(msg[x], u)
    BY <2>2, <2>3 DEF Balanced
  <2> QED
    BY <2>4 DEF u
<1>10. XferExact
  <2>1. xfer = <<>> /\ \A m \in Msgs : msg[m].state = "free"
    BY DEF Init, FreeMessage
  <2>2. IsInjective(<<>>) /\ ToSet(<<>>) = {}
    BY DEF IsInjective, ToSet
  <2> QED
    BY <2>1, <2>2 DEF XferExact
<1> QED
  BY <1>3, <1>5, <1>6, <1>7, <1>8, <1>9, <1>10 DEF Inv

LEMMA StutterInv == Inv /\ UNCHANGED vars => Inv'
<1> SUFFICES ASSUME Inv, UNCHANGED vars PROVE Inv'
  OBVIOUS
<1>1. /\ UNCHANGED <<msg, queue, wait_o, deleted, last_msg, wq>>
      /\ UNCHANGED <<stack, handles, xfer, cs_msg, types>>
  BY DEF vars
<1>2. TypeOK' /\ StackShape' /\ QueuesShape' /\ PublishLock'
  BY <1>1 DEF Inv, TypeOK, StackShape, QueuesShape, PublishLock
<1>3. TypesHeld'
  BY <1>1 DEF Inv, TypesHeld, TypesFrames
<1>4. Finite'
  <2> SUFFICES ASSUME NEW x \in Msgs
               PROVE  /\ IsFiniteSet(QueuedTo(x, Queues)') /\ IsFiniteSet(QueuedTo(x, wq)')
                      /\ IsFiniteSet(FramesOf(x, Pcs)') /\ IsFiniteSet(Keepers(x)')
    BY DEF Finite
  <2>1. /\ IsFiniteSet(QueuedTo(x, Queues)) /\ IsFiniteSet(QueuedTo(x, wq))
        /\ IsFiniteSet(FramesOf(x, Pcs)) /\ IsFiniteSet(Keepers(x))
    BY DEF Inv, Finite
  <2>2. QueuedTo(x, Queues)' = QueuedTo(x, Queues)
    BY <1>1 DEF QueuedTo, Queues
  <2>3. QueuedTo(x, wq)' = QueuedTo(x, wq)
    BY <1>1 DEF QueuedTo
  <2>4. FramesOf(x, Pcs)' = FramesOf(x, Pcs)
    BY <1>1 DEF FramesOf, Frames, FrameAt
  <2>5. Keepers(x)' = Keepers(x)
    BY <1>1 DEF Keepers
  <2> QED
    BY <2>1, <2>2, <2>3, <2>4, <2>5
<1>5. \A x \in Msgs : Uses(x)' = Uses(x)
  BY <1>1 DEF Uses, QueuedTo, Queues, FramesOf, Frames, FrameAt, Keepers, CallFrames, OwnWindow,
              OwnWindowDone, Publisher
<1>6. Ledger'
  <2> SUFFICES ASSUME NEW x \in Msgs PROVE Balanced(msg'[x], Uses(x)')
    BY DEF Ledger, Balanced, UsedBy
  <2>1. Balanced(msg[x], Uses(x)) /\ Uses(x)' = Uses(x) /\ msg'[x] = msg[x]
    BY <1>1, <1>5 DEF Inv, Ledger
  <2> HIDE DEF Balanced, Uses
  <2> QED
    BY <2>1
<1>7. XferExact'
  BY <1>1 DEF Inv, XferExact
<1> QED
  BY <1>2, <1>3, <1>4, <1>6, <1>7 DEF Inv

LEMMA ContinueInv ==
    ASSUME Inv, NEW t \in Threads, Continue(t)
    PROVE  Inv'
<1>1. ASSUME Publishing(t) PROVE Inv'
  BY <1>1, PostCheckStep, PostPutStep, PostDirectStep, PostWindowStep, PostSendWindowStep,
     SendWindowCountStep, PublishEndStep DEF Publishing
<1>2. ASSUME Waiting(t) PROVE Inv'
  BY <1>2, WaitStep, SendReturnStep DEF Waiting
<1>3. ASSUME Returning(t) PROVE Inv'
  BY <1>3, DirectReturnStep, SendWindowEndStep, DispatchReturnStep DEF Returning
<1>4. ASSUME Quitting(t) PROVE Inv'
  BY <1>4, QuitCountStep, QuitPutStep DEF Quitting
<1>5. ASSUME Detaching(t) PROVE Inv'
  BY <1>5, DetachStartStep, DetachFailStep, DetachNextStep DEF Detaching
<1> QED
  BY <1>1, <1>2, <1>3, <1>4, <1>5, DispatchGetStep, DispatchExitStep DEF Continue

LEMMA BeginInv ==
    ASSUME Inv, NEW t \in Threads, Begin(t) \/ Free(t)
    PROVE  Inv'
<1>1. ASSUME Begin(t) PROVE Inv'
  BY <1>1, PostStep, QuitStep, AbortStep DEF Begin
<1>2. ASSUME Free(t) PROVE Inv'
  BY <1>2, FreeHandleStep DEF Free
<1> QED
  BY <1>1, <1>2

LEMMA NextInv == Inv /\ [Next]_vars => Inv'
<1> SUFFICES ASSUME Inv, [Next]_vars PROVE Inv'
  OBVIOUS
<1>1. ASSUME NEW t \in Threads,
             Begin(t) \/ Free(t) \/ Continue(t) \/ DispatchWait(t) \/ WindowBegin(t)
      PROVE  Inv'
  BY <1>1, BeginInv, ContinueInv, DispatchWaitStep, WindowBeginStep
<1>2. ASSUME ComplTake \/ HandlerReturn PROVE Inv'
  BY <1>2, ComplTakeStep, HandlerReturnStep
<1>3. ASSUME UNCHANGED vars PROVE Inv'
  BY <1>3, StutterInv
<1> QED
  BY <1>1, <1>2, <1>3 DEF Next

\* In the initial state nothing refers to a message.
THEOREM InitHolds == Init => IInv
BY InitInv, InvIs

\* Every step of the library, and every step of the user code that it calls,
\* keeps the inductive invariant.
THEOREM StepHolds == IInv /\ [Next]_vars => IInv'
<1>1. Inv' <=> IInv'
  BY InvIs, PTL
<1> QED
  BY <1>1, NextInv, InvIs

\* The inductive invariant holds in every state of the program.
THEOREM Invariance == Spec => []IInv
BY InitHolds, StepHolds, PTL DEF Spec

\* Every variable keeps its type: no counter of a kmq_message goes below zero,
\* whatever the order in which posts, dispatches, calls and detachments act.
THEOREM TypeCorrect == Spec => []TypeOK
<1>1. IInv => TypeOK
  BY DEF IInv
<1> QED
  BY <1>1, Invariance, PTL

\* refcount is exactly the number of references that are out: kmqint_put_message
\* finds it zero when and only when nobody can reach the message any more.
THEOREM RefcountCorrect == Spec => []RefcountExact
<1>1. IInv => RefcountExact
  BY DEF IInv
<1> QED
  BY <1>1, Invariance, PTL

\* nSent - nCompleted - nFailed is the number of recipients still to finish,
\* but for the window that SendMessage has just returned from.
THEOREM CountsCorrect == Spec => []CountsExact
<1>1. IInv => CountsExact
  BY DEF IInv
<1> QED
  BY <1>1, Invariance, PTL

\* No queue, window, callback or call handle refers to a message that has been
\* freed or handed to the completion thread, which gets it once.
THEOREM NoneDangles == Spec => []NoDangling
<1>1. IInv => NoDangling
  BY DEF IInv
<1> QED
  BY <1>1, Invariance, PTL

-----------------------------------------------------------------------------
(* The refinement of MessageLife.  A user of an open message is a reference  *)
(* that is counted, or a thread that posts it; a thread that is in its own   *)
(* window has two references there and is counted for one of them.           *)

Posting == {"publish", "put", "direct", "count", "counted"}

Posters(x) == Cardinality(FramesOf(x, Posting))

Load(x) == msg[x].refcount + Posters(x)

InUse == \A x \in Msgs : msg[x].state = "active" => Load(x) > 0

\* A quit message that is posted to a thread that is gone is never freed: its
\* reference count, zero from the start, is not looked at again.
NoPostQuit == \A t \in Threads : "postquit" \notin Calls[t]

\* Frames of two kinds are as many as those of both.
LEMMA PartsSum ==
    ASSUME Finite, NEW x \in Msgs, NEW a \in SUBSET Pcs, NEW b \in SUBSET Pcs, a \cap b = {}
    PROVE  /\ Cardinality(FramesOf(x, a \cup b))
                = Cardinality(FramesOf(x, a)) + Cardinality(FramesOf(x, b))
           /\ Cardinality(FramesOf(x, a)) \in Nat /\ Cardinality(FramesOf(x, b)) \in Nat
<1> DEFINE A == FramesOf(x, a)
           B == FramesOf(x, b)
<1>1. IsFiniteSet(A) /\ IsFiniteSet(B)
  BY FinitePart
<1>2. A \cap B = {} /\ A \cup B = FramesOf(x, a \cup b)
  BY DEF FramesOf
<1> HIDE DEF A, B
<1>3. Cardinality(A \cup B) = Cardinality(A) + Cardinality(B) - Cardinality(A \cap B)
  BY <1>1, FS_Union
<1>4. Cardinality(A \cap B) = 0
  BY <1>2, FS_EmptySet
<1>5. Cardinality(A) \in Nat /\ Cardinality(B) \in Nat
  BY <1>1, FS_CardinalityType
<1>6. Cardinality(A \cup B) = Cardinality(A) + Cardinality(B)
  BY <1>3, <1>4, <1>5
<1>7. /\ Cardinality(FramesOf(x, a \cup b)) = Cardinality(A) + Cardinality(B)
      /\ Cardinality(A) \in Nat /\ Cardinality(B) \in Nat
  BY <1>2, <1>5, <1>6
<1> QED
  BY <1>7 DEF A, B

LEMMA PostersSum ==
    ASSUME Finite, NEW x \in Msgs
    PROVE  /\ Posters(x) \in Nat
           /\ Uses(x).publisher = Posters(x) + Uses(x).own + Uses(x).done
<1> DEFINE a == Posting
           b == {"window"}
           c == {"sent"}
<1>1. /\ a \in SUBSET Pcs /\ b \in SUBSET Pcs /\ c \in SUBSET Pcs /\ a \cup b \in SUBSET Pcs
      /\ a \cap b = {} /\ (a \cup b) \cap c = {} /\ PublisherPcs = (a \cup b) \cup c
  BY DEF Posting, PublisherPcs, Pcs
<1> HIDE DEF a, b, c
<1>2. Cardinality(FramesOf(x, PublisherPcs))
        = Cardinality(FramesOf(x, a \cup b)) + Cardinality(FramesOf(x, c))
  BY <1>1, PartsSum
<1>3. /\ Cardinality(FramesOf(x, a \cup b))
           = Cardinality(FramesOf(x, a)) + Cardinality(FramesOf(x, b))
      /\ Cardinality(FramesOf(x, a)) \in Nat
  BY <1>1, PartsSum
<1>4. /\ Uses(x).publisher = Cardinality(FramesOf(x, PublisherPcs))
      /\ Uses(x).own = Cardinality(FramesOf(x, b))
      /\ Uses(x).done = Cardinality(FramesOf(x, c))
      /\ Posters(x) = Cardinality(FramesOf(x, a))
  BY DEF Uses, Publisher, OwnWindow, OwnWindowDone, Posters, a, b, c
<1> HIDE DEF Uses
<1> QED
  BY <1>2, <1>3, <1>4

\* The users of a message are its load.
LEMMA UsersAre ==
    Inv => \A x \in Msgs :
             /\ msg[x].refcount \in Nat /\ Posters(x) \in Nat
             /\ msg[x].state = "active" => Users(x) = Load(x)
             /\ msg[x].state # "active" => Users(x) = 0 /\ Posters(x) = 0
<1> SUFFICES ASSUME Inv, NEW x \in Msgs
             PROVE  /\ msg[x].refcount \in Nat /\ Posters(x) \in Nat
                    /\ msg[x].state = "active" => Users(x) = Load(x)
                    /\ msg[x].state # "active" => Users(x) = 0 /\ Posters(x) = 0
  OBVIOUS
<1>1. Finite /\ Balanced(msg[x], Uses(x))
  BY DEF Inv, Ledger
<1>2. msg[x].refcount \in Nat
  BY DEF Inv, TypeOK, MessageType
<1>3. Users(x) = UsedBy(Uses(x)) + Uses(x).own + (Uses(x).handles + Uses(x).keepers)
                 + Uses(x).publisher
  BY DEF Users, UsedBy, Uses, Recipients, CallHandles
<1>4. /\ Posters(x) \in Nat /\ Uses(x) \in UsesType
      /\ Uses(x).publisher = Posters(x) + Uses(x).own + Uses(x).done
  BY <1>1, PostersSum, UsesTyped
<1> DEFINE u == Uses(x)
           p == Posters(x)
           n == Users(x)
           r == msg[x]
<1>5. /\ r.refcount \in Nat /\ p \in Nat /\ u \in UsesType /\ Balanced(r, u)
      /\ u.publisher = p + u.own + u.done
      /\ n = UsedBy(u) + u.own + (u.handles + u.keepers) + u.publisher
  BY <1>1, <1>2, <1>3, <1>4
<1> HIDE DEF u, p, n, r
<1>6. r.state = "active" => n = r.refcount + p
  BY <1>5 DEF Balanced, UsedBy, UsesType
<1>7. r.state # "active" => n = 0 /\ p = 0
  BY <1>5 DEF Balanced, UsedBy, UsesType
<1> QED
  BY <1>5, <1>6, <1>7 DEF Load, n, p, r

LEMMA UsersAreNext ==
    (Inv => \A x \in Msgs :
             /\ msg[x].refcount \in Nat /\ Posters(x) \in Nat
             /\ msg[x].state = "active" => Users(x) = Load(x)
             /\ msg[x].state # "active" => Users(x) = 0 /\ Posters(x) = 0)'
BY UsersAre, PTL

\* A step that concerns the message m only.
Concerns(m) ==
    \A x \in Msgs \ {m} : msg'[x].state = msg[x].state /\ Load(x)' = Load(x)

\* What a step has to keep, and to be, in MessageLife.
Lives == InUse' /\ [Life!Next]_(Life!vars)

Phase(s) == CASE s = "free" -> "free" [] s = "active" -> "open" [] OTHER -> "released"

LEMMA SubstIs ==
    /\ [m \in Msgs |-> CASE msg[m].state = "free" -> "free"
                         [] msg[m].state = "active" -> "open"
                         [] OTHER -> "released"] = [m \in Msgs |-> Phase(msg[m].state)]
    /\ [m \in Msgs |-> CASE msg[m].state = "free" -> "free"
                         [] msg[m].state = "active" -> "open"
                         [] OTHER -> "released"]' = [m \in Msgs |-> Phase(msg'[m].state)]
BY DEF Phase

\* The messages that a step does not concern.
LEMMA Unconcerned ==
    ASSUME Inv, Inv', InUse, NEW m, Concerns(m), NEW x \in Msgs, x # m
    PROVE  /\ Users(x)' = Users(x) /\ msg'[x].state = msg[x].state
           /\ msg'[x].state = "active" => Load(x)' > 0
<1>1. msg'[x].state = msg[x].state /\ Load(x)' = Load(x)
  BY DEF Concerns
<1>2. /\ msg[x].state = "active" => Users(x) = Load(x)
      /\ msg[x].state # "active" => Users(x) = 0
  BY UsersAre
<1>3. /\ msg'[x].state = "active" => Users(x)' = Load(x)'
      /\ msg'[x].state # "active" => Users(x)' = 0
  BY UsersAreNext
<1>4. msg[x].state = "active" => Load(x) > 0
  BY DEF InUse
<1> QED
  BY <1>1, <1>2, <1>3, <1>4

\* The step m makes in MessageLife.
LEMMA JoinLives ==
    ASSUME Inv, Inv', InUse, NEW m \in Msgs, Concerns(m),
           msg[m].state = "active", msg'[m].state = "active", Load(m)' = Load(m) + 1
    PROVE  Lives
<1> DEFINE u == [x \in Msgs |-> Users(x)]
           v == [x \in Msgs |-> Users(x)']
           p == [x \in Msgs |-> Phase(msg[x].state)]
           q == [x \in Msgs |-> Phase(msg'[x].state)]
<1>1. \A x \in Msgs : x # m => Users(x)' = Users(x) /\ msg'[x].state = msg[x].state
  BY Unconcerned
<1>2. Users(m) = Load(m) /\ Users(m)' = Load(m)' /\ Load(m) > 0
  BY UsersAre, UsersAreNext DEF InUse
<1>3. Load(m) \in Nat
  BY UsersAre DEF Load
<1>4. InUse'
  <2> SUFFICES ASSUME NEW x \in Msgs, msg'[x].state = "active" PROVE Load(x)' > 0
    BY DEF InUse
  <2>1. CASE x = m
    BY <2>1, <1>2, <1>3
  <2> QED
    BY <2>1, Unconcerned
<1>5. q = p /\ p[m] = "open"
  BY <1>1 DEF Phase
<1>6. v = [u EXCEPT ![m] = @ + 1]
  BY <1>1, <1>2
<1>7. Life!Join(m)
  BY <1>5, <1>6, SubstIs DEF Life!Join
<1> QED
  BY <1>4, <1>7 DEF Lives, Life!Next

LEMMA SameLives ==
    ASSUME Inv, Inv', InUse, NEW m, Concerns(m),
           m \in Msgs => /\ msg'[m].state = msg[m].state
                         /\ msg[m].state = "active" => Load(m)' = Load(m)
    PROVE  Lives
<1>1. ASSUME NEW x \in Msgs
      PROVE  /\ Users(x)' = Users(x) /\ msg'[x].state = msg[x].state
             /\ msg'[x].state = "active" => Load(x)' > 0
  <2>1. CASE x = m
    <3>1. /\ msg[x].state = "active" => Users(x) = Load(x) /\ Load(x) > 0
          /\ msg[x].state # "active" => Users(x) = 0
      BY UsersAre DEF InUse
    <3>2. /\ msg'[x].state = "active" => Users(x)' = Load(x)'
          /\ msg'[x].state # "active" => Users(x)' = 0
      BY UsersAreNext
    <3> QED
      BY <2>1, <3>1, <3>2
  <2> QED
    BY <2>1, Unconcerned
<1>2. InUse'
  BY <1>1 DEF InUse
<1>3. /\ [x \in Msgs |-> Users(x)]' = [x \in Msgs |-> Users(x)]
      /\ [x \in Msgs |-> Phase(msg'[x].state)] = [x \in Msgs |-> Phase(msg[x].state)]
  BY <1>1
<1> QED
  BY <1>2, <1>3, SubstIs DEF Lives, Life!vars

\* The last user leaves with a reference count of zero; a is the count that the
\* others have left.
LEMMA LeaveLives ==
    ASSUME Inv, Inv', InUse, NEW m \in Msgs, Concerns(m), NEW a \in Nat,
           msg[m].state = "active", a + Posters(m)' = Load(m) - 1,
           msg'[m].state = "active" => msg'[m].refcount = a /\ Load(m)' > 0,
           msg'[m].state # "active" => a = 0
    PROVE  Lives
<1> DEFINE u == [x \in Msgs |-> Users(x)]
           v == [x \in Msgs |-> Users(x)']
           p == [x \in Msgs |-> Phase(msg[x].state)]
           q == [x \in Msgs |-> Phase(msg'[x].state)]
<1>1. \A x \in Msgs : x # m => Users(x)' = Users(x) /\ msg'[x].state = msg[x].state
  BY Unconcerned
<1>2. Users(m) = Load(m) /\ Load(m) > 0 /\ Load(m) \in Nat
  BY UsersAre DEF InUse, Load
<1>3. CASE msg'[m].state = "active"
  <2>1. Users(m)' = Load(m)' /\ Load(m)' = a + Posters(m)'
    BY <1>3, UsersAreNext DEF Load
  <2>2. Users(m)' = Users(m) - 1 /\ Users(m) > 0 /\ Users(m) # 1
    BY <1>2, <1>3, <2>1
  <2>3. v = [u EXCEPT ![m] = @ - 1] /\ u[m] > 0 /\ u[m] # 1
    BY <1>1, <2>2
  <2>4. q = p
    BY <1>1, <1>3 DEF Phase
  <2>5. Life!Leave(m)
    BY <2>3, <2>4, SubstIs DEF Life!Leave
  <2>6. InUse'
    <3> SUFFICES ASSUME NEW x \in Msgs, msg'[x].state = "active" PROVE Load(x)' > 0
      BY DEF InUse
    <3>1. CASE x = m
      BY <3>1
    <3> QED
      BY <3>1, Unconcerned
  <2> QED
    BY <2>5, <2>6 DEF Lives, Life!Next
<1>4. CASE msg'[m].state # "active"
  <2>1. Users(m)' = 0 /\ Posters(m)' = 0
    BY <1>4, UsersAreNext
  <2>2. Users(m) = 1 /\ Users(m)' = Users(m) - 1 /\ Users(m) > 0
    BY <1>2, <1>4, <2>1
  <2>3. v = [u EXCEPT ![m] = @ - 1] /\ u[m] > 0 /\ u[m] = 1
    BY <1>1, <2>2
  <2>4. q = [p EXCEPT ![m] = Phase(msg'[m].state)]
    BY <1>1
  <2>5. Phase(msg'[m].state) \in {"released", "free"}
    BY <1>4 DEF Phase
  <2>6. Life!Leave(m)
    BY <2>3, <2>4, <2>5, SubstIs DEF Life!Leave
  <2>7. InUse'
    <3> SUFFICES ASSUME NEW x \in Msgs, msg'[x].state = "active" PROVE Load(x)' > 0
      BY DEF InUse
    <3>1. x # m
      BY <1>4
    <3> QED
      BY <3>1, Unconcerned
  <2> QED
    BY <2>6, <2>7 DEF Lives, Life!Next
<1> QED
  BY <1>3, <1>4

\* How the posters of a message change with the stack of one thread.
PostsIn(f, x) == OneIf(f.m = x /\ f.pc \in Posting)

LEMMA PostersShift ==
    ASSUME StacksOK, Finite, NEW t \in Threads, NEW k, NEW f, NEW g, Shifts(t, k, f, g)
    PROVE  \A x \in Msgs : /\ Posters(x) \in Nat /\ Posters(x)' \in Nat
                           /\ Posters(x)' = Posters(x) - PostsIn(f, x) + PostsIn(g, x)
<1>1. Posting \in SUBSET Pcs
  BY DEF Posting, Pcs
<1> QED
  BY <1>1, ShiftCounts DEF Posters, PostsIn, Hits

LEMMA InvHas ==
    Inv => /\ TypeOK /\ StacksOK /\ Finite /\ StackShape /\ Ledger
           /\ msg \in [Msgs -> MessageType]
BY DEF Inv, TypeOK, StacksOK

LEMMA InvHasNext ==
    (Inv => /\ TypeOK /\ StacksOK /\ Finite /\ StackShape /\ Ledger
            /\ msg \in [Msgs -> MessageType])'
BY InvHas, PTL

\* The three ways a stack changes.
LEMMA PushShifts ==
    ASSUME Inv, Inv', NEW t \in Threads, NEW s, NEW g \in FrameType, Pushes(t, s, g)
    PROVE  Shifts(t, Len(stack[t]) + 1, NoFrame, g)
<1>1. /\ StackStep(t, Len(stack[t]) + 1) /\ Len(stack[t]) \in Nat
      /\ DOMAIN stack[t] = 1 .. Len(stack[t])
      /\ DOMAIN stack'[t] = 1 .. Len(stack[t]) + 1 /\ Len(stack'[t]) = Len(stack[t]) + 1
      /\ stack'[t][Len(stack[t]) + 1] = g
  BY InvHas, PushFacts
<1>2. \A i \in DOMAIN stack'[t] : i < Len(stack'[t]) => stack'[t][i].pc \in UserCode
  BY InvHasNext DEF StackShape
<1> DEFINE n == Len(stack[t])
<1> HIDE DEF n
<1>3. \A i \in DOMAIN stack'[t] : i # n + 1 => stack'[t][i].pc \in UserCode
  BY <1>1, <1>2 DEF n
<1> QED
  BY <1>1, <1>3 DEF Shifts, FrameIs, n

LEMMA PopShifts ==
    ASSUME Inv, Inv', NEW t \in Threads, Pops(t)
    PROVE  Shifts(t, Len(stack[t]), Top(t), NoFrame)
BY InvHas, PopStep

LEMMA ChangeShifts ==
    ASSUME Inv, Inv', NEW t \in Threads, NEW g \in FrameType, Changes(t, g)
    PROVE  Shifts(t, Len(stack[t]), Top(t), g)
<1>1. /\ StackStep(t, Len(stack[t])) /\ Len(stack[t]) \in Nat \ {0}
      /\ DOMAIN stack[t] = 1 .. Len(stack[t])
      /\ DOMAIN stack'[t] = 1 .. Len(stack[t]) /\ Len(stack'[t]) = Len(stack[t])
      /\ Top(t) = stack[t][Len(stack[t])]
      /\ stack'[t][Len(stack[t])] = g
  BY InvHas, ChangeFacts
<1>2. \A i \in DOMAIN stack'[t] : i < Len(stack'[t]) => stack'[t][i].pc \in UserCode
  BY InvHasNext DEF StackShape
<1> DEFINE n == Len(stack[t])
<1> HIDE DEF n
<1>3. \A i \in DOMAIN stack'[t] : i # n => stack'[t][i].pc \in UserCode
  BY <1>1, <1>2 DEF n
<1> QED
  BY <1>1, <1>3 DEF Shifts, FrameIs, n

\* A step of one thread's stack that concerns the message of its frames.
LEMMA ConcernsOne ==
    ASSUME Inv, Inv', NEW t \in Threads, NEW k, NEW f, NEW g, Shifts(t, k, f, g), NEW m,
           f.m \in {m, NoMsg}, g.m \in {m, NoMsg},
           \A x \in Msgs \ {m} : msg'[x] = msg[x]
    PROVE  /\ Concerns(m)
           /\ m \in Msgs => /\ Posters(m) \in Nat /\ Posters(m)' \in Nat
                            /\ Posters(m)' = Posters(m) - PostsIn(f, m) + PostsIn(g, m)
<1>1. \A x \in Msgs : /\ Posters(x) \in Nat /\ Posters(x)' \in Nat
                      /\ Posters(x)' = Posters(x) - PostsIn(f, x) + PostsIn(g, x)
  BY InvHas, PostersShift
<1>2. ASSUME NEW x \in Msgs \ {m} PROVE msg'[x].state = msg[x].state /\ Load(x)' = Load(x)
  <2>1. x # NoMsg
    BY CallAssumption
  <2>2. PostsIn(f, x) = 0 /\ PostsIn(g, x) = 0
    BY <1>2, <2>1 DEF PostsIn, OneIf
  <2>3. Posters(x)' = Posters(x) - 0 + 0 /\ Posters(x) \in Nat
    BY <1>1, <2>2
  <2>4. Posters(x)' = Posters(x)
    BY <2>3
  <2> QED
    BY <1>2, <2>4 DEF Load
<1> QED
  BY <1>1, <1>2 DEF Concerns

\* A message that its publisher, or its recipient, is at is active.
LEMMA TopActive ==
    ASSUME Inv, NEW t \in Threads, stack[t] # <<>>,
           Top(t).pc \in PublisherPcs \cup RecipientPcs \cup CallPcs
    PROVE  /\ Top(t) \in FrameType /\ Top(t).m \in Msgs /\ msg[Top(t).m].state = "active"
           /\ msg[Top(t).m] \in MessageType
           /\ FrameOK(t, Len(stack[t]), Top(t))
<1>1. /\ Top(t) \in FrameType /\ FrameOK(t, Len(stack[t]), Top(t))
  BY InvParts, TopFacts
<1>2. PICK m \in Msgs : Top(t).m = m
  BY <1>1 DEF FrameOK, FrameType, PublisherPcs, RecipientPcs, CallPcs
<1>3. Cardinality(FramesOf(m, CallPcs)) >= 1 \/ Cardinality(FramesOf(m, RecipientPcs)) >= 1
  <2>1. PublisherPcs \subseteq CallPcs
    BY DEF PublisherPcs, CallPcs
  <2> QED
    BY <1>2, <2>1, PcsParts, TopCounted
<1>4. msg[m].state # "active" => Uses(m).calls = 0 /\ Uses(m).running = 0
  BY InvParts DEF Ledger, Balanced
<1>5. Uses(m).calls >= 1 \/ Uses(m).running >= 1
  BY <1>3 DEF Uses
<1> HIDE DEF Uses
<1>6. msg[m].state = "active"
  BY <1>4, <1>5
<1> QED
  BY <1>1, <1>2, <1>6, InvParts DEF MsgsOK

\* A step of a thread from its frame for a message to the next frame for it.
LEMMA PosterMoves ==
    ASSUME Inv, Inv', NEW t \in Threads, NEW m \in Msgs, stack[t] # <<>>, Top(t).m = m,
           NEW g \in FrameType, g.m = m, Changes(t, g), NEW r, msg' = [msg EXCEPT ![m] = r],
           msg[m].state = "active", r.state = "active"
    PROVE  /\ Concerns(m) /\ msg'[m] = r
           /\ r.refcount \in Nat /\ msg[m].refcount \in Nat
           /\ Posters(m) \in Nat /\ Posters(m)' \in Nat
           /\ Posters(m)' = Posters(m) - OneIf(Top(t).pc \in Posting) + OneIf(g.pc \in Posting)
           /\ Load(m) = msg[m].refcount + Posters(m)
           /\ Load(m)' = r.refcount + Posters(m)'
<1>1. Shifts(t, Len(stack[t]), Top(t), g)
  BY ChangeShifts
<1>2. msg \in [Msgs -> MessageType] /\ msg' \in [Msgs -> MessageType]
  BY InvHas, InvHasNext
<1>3. msg'[m] = r /\ \A x \in Msgs \ {m} : msg'[x] = msg[x]
  BY <1>2
<1>4. r.refcount \in Nat /\ msg[m].refcount \in Nat
  BY <1>2, <1>3 DEF MessageType
<1>5. /\ Concerns(m) /\ Posters(m) \in Nat /\ Posters(m)' \in Nat
      /\ Posters(m)' = Posters(m) - PostsIn(Top(t), m) + PostsIn(g, m)
  BY <1>1, <1>3, ConcernsOne
<1>6. /\ PostsIn(Top(t), m) = OneIf(Top(t).pc \in Posting)
      /\ PostsIn(g, m) = OneIf(g.pc \in Posting)
  BY DEF PostsIn
<1>7. Load(m) = msg[m].refcount + Posters(m) /\ Load(m)' = r.refcount + Posters(m)'
  BY <1>3 DEF Load
<1> QED
  BY <1>3, <1>4, <1>5, <1>6, <1>7

LEMMA LoadSum ==
    ASSUME NEW x \in Nat, NEW y \in Nat, NEW p \in Nat, NEW q \in Nat, NEW a \in Nat, NEW b \in Nat,
           NEW d \in Int, q = p - a + b, x + b = y + a + d
    PROVE  x + q = y + p + d
OBVIOUS

\* One more reference is counted, or is no longer needed by its publisher.
LEMMA MoreLives ==
    ASSUME Inv, Inv', InUse, NEW t \in Threads, NEW m \in Msgs, stack[t] # <<>>, Top(t).m = m,
           NEW g \in FrameType, g.m = m, Changes(t, g), NEW r, msg' = [msg EXCEPT ![m] = r],
           msg[m].state = "active", r.state = "active", NEW d \in {0, 1},
           r.refcount + OneIf(g.pc \in Posting)
             = msg[m].refcount + OneIf(Top(t).pc \in Posting) + d
    PROVE  Lives
<1> DEFINE a == OneIf(Top(t).pc \in Posting)
           b == OneIf(g.pc \in Posting)
           p == Posters(m)
           q == Posters(m)'
<1>1. /\ Concerns(m) /\ msg'[m] = r /\ r.refcount \in Nat /\ msg[m].refcount \in Nat
      /\ p \in Nat /\ q \in Nat /\ q = p - a + b
      /\ Load(m) = msg[m].refcount + p /\ Load(m)' = r.refcount + q
  BY PosterMoves, ZenonT(60)
<1>2. a \in Nat /\ b \in Nat
  BY DEF OneIf
<1>3. r.refcount + b = msg[m].refcount + a + d
  OBVIOUS
<1> HIDE DEF a, b, p, q
<1>4. Load(m)' = Load(m) + d
  <2> DEFINE x == r.refcount
             y == msg[m].refcount
  <2>1. x \in Nat /\ y \in Nat /\ d \in Int /\ x + b = y + a + d
    BY <1>1, <1>3
  <2>2. Load(m) = y + p /\ Load(m)' = x + q
    BY <1>1
  <2> HIDE DEF x, y
  <2>3. x + q = y + p + d
    BY <1>1, <1>2, <2>1, LoadSum
  <2> QED
    BY <2>2, <2>3
<1>5. CASE d = 1
  BY <1>1, <1>4, <1>5, JoinLives
<1>6. CASE d = 0
  <2>1. Load(m)' = Load(m)
    BY <1>1, <1>2, <1>4, <1>6
  <2> QED
    BY <1>1, <2>1, SameLives
<1> QED
  BY <1>5, <1>6

LEMMA LedgerTyped ==
    Inv => \A x \in Msgs : Uses(x) \in UsesType /\ Balanced(msg[x], Uses(x))
BY InvParts, UsesTyped DEF Ledger

LEMMA LedgerTypedNext ==
    (Inv => \A x \in Msgs : Uses(x) \in UsesType /\ Balanced(msg[x], Uses(x)))'
BY LedgerTyped, PTL

\* While a recipient is not finished, or a reference is out, the count is not zero.
LEMMA KeptCounts ==
    ASSUME NEW s \in MessageType, NEW v \in UsesType, Balanced(s, v), s.state = "active",
           s.refcount # 0 \/ s.nCompleted + s.nFailed # s.nSent
    PROVE  s.refcount > 0
<1>1. /\ s.refcount \in Nat /\ s.nSent \in Nat /\ s.nCompleted \in Nat /\ s.nFailed \in Nat
      /\ v.own \in Nat /\ v.done \in Nat /\ v.handles \in Nat /\ v.keepers \in Nat
      /\ UsedBy(v) \in Nat
  BY DEF MessageType, UsesType, UsedBy
<1>2. /\ s.refcount = UsedBy(v) + 2 * v.own + v.done + v.handles + v.keepers
      /\ s.nSent + v.done = s.nCompleted + s.nFailed + UsedBy(v)
  BY DEF Balanced
<1>3. ASSUME s.refcount = 0 PROVE FALSE
  <2> DEFINE a == UsedBy(v)
             b == v.own
             c == v.done
             d == v.handles
             e == v.keepers
  <2>a. /\ a \in Nat /\ b \in Nat /\ c \in Nat /\ d \in Nat /\ e \in Nat
        /\ a + 2 * b + c + d + e = 0
    BY <1>1, <1>2, <1>3
  <2> HIDE DEF a, b, c, d, e
  <2>b. a = 0 /\ c = 0
    BY <2>a, ZeroSum
  <2>1. UsedBy(v) = 0 /\ v.done = 0
    BY <2>b DEF a, c
  <2>2. s.nSent + 0 = s.nCompleted + s.nFailed + 0
    BY <1>2, <2>1
  <2> QED
    BY <1>1, <1>3, <2>2
<1> QED
  BY <1>1, <1>3

\* m is put with the fields r, a user of it less.
LEMMA FinishLives ==
    ASSUME Inv, Inv', InUse, NEW t \in Threads, NEW k, NEW f, NEW g, Shifts(t, k, f, g),
           NEW m \in Msgs, f.m \in {m, NoMsg}, g.m \in {m, NoMsg},
           msg[m].state = "active", NEW r \in MessageType, r.state = "active",
           NEW rest, NEW api,
           Kept(t, m, r, rest) \/ Gone(t, m, r, rest) \/ PutHandle(t, m, r, rest, api),
           r.refcount + PostsIn(g, m) = msg[m].refcount + PostsIn(f, m) - 1
    PROVE  Lives
<1>1. msg \in [Msgs -> MessageType] /\ msg' \in [Msgs -> MessageType]
  BY InvHas, InvHasNext
<1>2. \A x \in Msgs \ {m} : msg'[x] = msg[x]
  BY <1>1 DEF Kept, Gone, PutTransfer, PutFree, PutHandle
<1>3. /\ Concerns(m) /\ Posters(m) \in Nat /\ Posters(m)' \in Nat
      /\ Posters(m)' = Posters(m) - PostsIn(f, m) + PostsIn(g, m)
  BY <1>2, ConcernsOne
<1> DEFINE a == r.refcount
           b == msg[m].refcount
           c == PostsIn(f, m)
           d == PostsIn(g, m)
<1>4. a \in Nat /\ b \in Nat /\ c \in Nat /\ d \in Nat /\ a + d = b + c - 1
  BY <1>1 DEF MessageType, PostsIn, OneIf
<1>5. Load(m) = b + Posters(m)
  BY DEF Load
<1>6. a + Posters(m)' = Load(m) - 1
  <2> DEFINE p == Posters(m)
             q == Posters(m)'
             e == -1
  <2>1. p \in Nat /\ q \in Nat /\ q = p - c + d /\ e \in Int /\ a + d = b + c + e
    BY <1>3, <1>4
  <2>2. Load(m) = b + p
    BY <1>5
  <2> HIDE DEF a, b, c, d, p, q, e
  <2>3. a + q = b + p + e
    BY <1>4, <2>1, LoadSum
  <2>4. a + q = (b + p) - 1
    BY <1>4, <2>1, <2>3 DEF e
  <2> QED
    BY <2>2, <2>4 DEF q
<1>7. ASSUME Kept(t, m, r, rest)
      PROVE  msg'[m].refcount = a /\ Load(m)' > 0 /\ msg'[m].state = "active"
  <2>1. PICK e \in {"none", "clear", "set"} : msg' = [msg EXCEPT ![m] = [r EXCEPT !.event = e]]
    BY <1>7 DEF Kept
  <2>2. /\ msg'[m].state = "active" /\ msg'[m].refcount = a /\ msg'[m].nSent = r.nSent
        /\ msg'[m].nCompleted = r.nCompleted /\ msg'[m].nFailed = r.nFailed
    BY <1>1, <2>1 DEF MessageType
  <2>3. Uses(m)' \in UsesType /\ Balanced(msg'[m], Uses(m)')
    BY LedgerTypedNext DEF Balanced, UsedBy
  <2>4. r.refcount # 0 \/ ~AllDone(r)
    BY <1>7 DEF Kept
  <2>5. msg'[m].refcount # 0 \/ msg'[m].nCompleted + msg'[m].nFailed # msg'[m].nSent
    BY <2>2, <2>4 DEF AllDone
  <2>6. msg'[m] \in MessageType
    BY <1>1
  <2>7. msg'[m].refcount > 0
    BY <2>2, <2>3, <2>5, <2>6, KeptCounts
  <2>8. Load(m)' = msg'[m].refcount + Posters(m)' /\ msg'[m].refcount \in Nat
    BY <2>6 DEF Load, MessageType
  <2>9. Load(m)' > 0
    BY <1>3, <2>7, <2>8
  <2> QED
    BY <2>2, <2>9
<1>8. ASSUME Gone(t, m, r, rest) \/ PutHandle(t, m, r, rest, api)
      PROVE  a = 0 /\ msg'[m].state # "active"
  <2>1. ASSUME PutTransfer(t, m, r, rest) PROVE a = 0 /\ msg'[m].state = "xfer"
    <3>1. msg' = [msg EXCEPT ![m] = [r EXCEPT !.state = "xfer"]] /\ a = 0
      BY <2>1 DEF PutTransfer
    <3> QED
      BY <1>1, <3>1 DEF MessageType
  <2>2. ASSUME PutFree(t, m, r, rest) PROVE a = 0 /\ msg'[m].state = "free"
    BY <1>1, <2>2 DEF PutFree, FreeMessage
  <2>3. ASSUME PutHandle(t, m, r, rest, api) PROVE a = 0 /\ msg'[m].state = "completing"
    <3>1. msg' = [msg EXCEPT ![m] = [r EXCEPT !.state = "completing"]] /\ a = 0
      BY <2>3 DEF PutHandle
    <3> QED
      BY <1>1, <3>1 DEF MessageType
  <2> QED
    BY <1>8, <2>1, <2>2, <2>3 DEF Gone
<1> HIDE DEF a, b, c, d
<1> QED
  BY <1>3, <1>4, <1>6, <1>7, <1>8, LeaveLives

\* The posting loop.
LEMMA NextSubIs ==
    ASSUME Inv, NEW t \in Threads, stack[t] # <<>>, Top(t).pc \in PublisherPcs \cup CallPcs,
           Top(t).i <= Len(Subs)
    PROVE  LET g == [Top(t) EXCEPT !.pc = "publish", !.i = Top(t).i + 1, !.calls = 0] IN
           g \in FrameType /\ g.pc = "publish" /\ g.m = Top(t).m /\ g.pc \in Posting
<1>1. Top(t) \in FrameType
  BY TopActive
<1> QED
  BY <1>1, NextSubFrame DEF Posting

LEMMA PostCheckLives ==
    ASSUME Inv, Inv', InUse, NEW t \in Threads, PostCheck(t)
    PROVE  Lives
<1>1. stack[t] # <<>> /\ Top(t).pc = "publish" /\ Top(t).i <= Len(Subs) /\ UNCHANGED msg
  BY DEF PostCheck, AtSub, At
<1>2. /\ Top(t) \in FrameType /\ Top(t).m \in Msgs /\ msg[Top(t).m].state = "active"
      /\ msg \in [Msgs -> MessageType]
  BY <1>1, TopActive, InvHas DEF PublisherPcs
<1>3. PICK m \in Msgs : Top(t).m = m
  BY <1>2
<1>4. PICK g \in FrameType : g.m = m /\ g.pc \in {"publish", "put"} /\ Changes(t, g)
  <2> DEFINE x == [Top(t) EXCEPT !.pc = "publish", !.i = Top(t).i + 1, !.calls = 0]
             y == [Top(t) EXCEPT !.pc = "put", !.calls = 0]
  <2>1. x \in FrameType /\ x.pc = "publish" /\ x.m = m
    BY <1>1, <1>3, NextSubIs DEF PublisherPcs
  <2>2. "put" \in Pcs
    BY DEF Pcs
  <2>3. y \in FrameType /\ y.pc = "put" /\ y.m = m
    BY <1>2, <1>3, <2>2, MovedFrame
  <2>4. Changes(t, x) \/ Changes(t, y)
    BY <1>1 DEF PostCheck, Changes, NextSub, Goto, Moved
  <2> HIDE DEF x, y
  <2> QED
    BY <2>1, <2>3, <2>4
<1>5. msg' = [msg EXCEPT ![m] = msg[m]]
  BY <1>1, <1>2
<1>6. msg[m].refcount + OneIf(g.pc \in Posting)
        = msg[m].refcount + OneIf(Top(t).pc \in Posting) + 0
  <2>1. msg[m].refcount \in Nat
    BY <1>2 DEF MessageType
  <2>2. OneIf(g.pc \in Posting) = 1 /\ OneIf(Top(t).pc \in Posting) = 1
    BY <1>1, <1>4 DEF Posting, OneIf
  <2> QED
    BY <2>1, <2>2
<1> DEFINE r == msg[m]
           d == 0
<1>7. /\ msg' = [msg EXCEPT ![m] = r] /\ r.state = "active" /\ d \in {0, 1}
      /\ r.refcount + OneIf(g.pc \in Posting) = msg[m].refcount + OneIf(Top(t).pc \in Posting) + d
  BY <1>2, <1>3, <1>5, <1>6
<1>8. msg[m].state = "active" /\ stack[t] # <<>>
  BY <1>1, <1>2, <1>3
<1> HIDE DEF r, d
<1> QED
  BY <1>3, <1>4, <1>7, <1>8, MoreLives

\* A reference more for a recipient of the posting loop's.
LEMMA AddRefLives ==
    ASSUME Inv, Inv', InUse, NEW t \in Threads, NEW m \in Msgs, stack[t] # <<>>, Top(t).m = m,
           Top(t).pc \in {"publish", "put", "count"}, NEW g \in FrameType, g.m = m,
           g.pc \in {"publish", "direct", "counted"}, Changes(t, g),
           msg' = [msg EXCEPT ![m] = AddRef(m)]
    PROVE  Lives
<1>1. msg[m].state = "active" /\ msg[m] \in MessageType
  BY TopActive DEF PublisherPcs
<1>2. AddRef(m).state = "active" /\ AddRef(m).refcount = msg[m].refcount + 1
  BY <1>1, AddRefIs
<1>3. AddRef(m).refcount + OneIf(g.pc \in Posting)
        = msg[m].refcount + OneIf(Top(t).pc \in Posting) + 1
  <2>1. msg[m].refcount \in Nat
    BY <1>1 DEF MessageType
  <2>2. OneIf(g.pc \in Posting) = 1 /\ OneIf(Top(t).pc \in Posting) = 1
    BY DEF Posting, OneIf
  <2> HIDE DEF AddRef
  <2> QED
    BY <1>2, <2>1, <2>2
<1> HIDE DEF AddRef
<1> QED
  BY <1>1, <1>2, <1>3, MoreLives

LEMMA PostRefLives ==
    ASSUME Inv, Inv', InUse, NEW t \in Threads,
           PostPut(t) \/ PostDirect(t) \/ PostWindow(t) \/ QuitCount(t)
    PROVE  Lives
<1>1. stack[t] # <<>> /\ Top(t).pc \in {"publish", "put", "count"}
  BY DEF PostPut, PostDirect, PostWindow, QuitCount, AtSub, At
<1>2. Top(t) \in FrameType /\ Top(t).m \in Msgs /\ FrameOK(t, Len(stack[t]), Top(t))
  BY <1>1, TopActive DEF PublisherPcs
<1>3. PICK m \in Msgs : Top(t).m = m
  BY <1>2
<1>4. msg' = [msg EXCEPT ![m] = AddRef(m)]
  BY <1>3 DEF PostPut, PostDirect, PostWindow, QuitCount
<1> DEFINE x == [Top(t) EXCEPT !.pc = "publish", !.i = Top(t).i + 1, !.calls = 0]
           y == [Top(t) EXCEPT !.pc = "direct", !.calls = 0]
           z == [Top(t) EXCEPT !.pc = "counted", !.calls = 0]
<1>5. CASE PostPut(t) \/ PostWindow(t)
  <2>1. Top(t).i <= Len(Subs)
    BY <1>2, <1>5 DEF PostPut, PostWindow, AtSub, At, FrameOK
  <2>2. x \in FrameType /\ x.pc = "publish" /\ x.m = m
    BY <1>1, <1>3, <2>1, NextSubIs DEF PublisherPcs
  <2>3. Changes(t, x)
    BY <1>1, <1>5 DEF PostPut, PostWindow, Changes, NextSub
  <2> HIDE DEF x
  <2> QED
    BY <1>1, <1>3, <1>4, <2>2, <2>3, AddRefLives
<1>6. CASE PostDirect(t)
  <2>1. "direct" \in Pcs
    BY DEF Pcs
  <2>2. y \in FrameType /\ y.pc = "direct" /\ y.m = m
    BY <1>2, <1>3, <2>1, MovedFrame
  <2>3. Changes(t, y)
    BY <1>1, <1>6 DEF PostDirect, Changes, Goto, Moved
  <2> HIDE DEF y
  <2> QED
    BY <1>1, <1>3, <1>4, <2>2, <2>3, AddRefLives
<1>7. CASE QuitCount(t)
  <2>1. "counted" \in Pcs
    BY DEF Pcs
  <2>2. z \in FrameType /\ z.pc = "counted" /\ z.m = m
    BY <1>2, <1>3, <2>1, MovedFrame
  <2>3. Changes(t, z)
    BY <1>1, <1>7 DEF QuitCount, Changes, Goto, Moved
  <2> HIDE DEF z
  <2> QED
    BY <1>1, <1>3, <1>4, <2>2, <2>3, AddRefLives
<1> QED
  BY <1>5, <1>6, <1>7

\* The publisher's own window: two references and no poster, then one, then
\* none and a poster again.
LEMMA PostSendWindowLives ==
    ASSUME Inv, Inv', InUse, NEW t \in Threads, PostSendWindow(t)
    PROVE  Lives
<1>1. stack[t] # <<>> /\ Top(t).pc = "publish"
  BY DEF PostSendWindow, AtSub, At
<1>2. Top(t) \in FrameType /\ Top(t).m \in Msgs
  BY <1>1, TopActive DEF PublisherPcs
<1>3. PICK m \in Msgs : Top(t).m = m
  BY <1>2
<1>4. msg[m].state = "active" /\ msg[m] \in MessageType
  BY <1>1, <1>3, TopActive DEF PublisherPcs
<1> DEFINE g == [Top(t) EXCEPT !.pc = "window", !.calls = 0]
           r == AddWindowRefs(m)
<1>5. g \in FrameType /\ g.pc = "window" /\ g.m = m
  <2>1. "window" \in Pcs
    BY DEF Pcs
  <2> QED
    BY <1>2, <1>3, <2>1, MovedFrame
<1>6. Changes(t, g) /\ msg' = [msg EXCEPT ![m] = r]
  BY <1>1, <1>3 DEF PostSendWindow, Changes, Goto, Moved
<1>7. r.state = "active" /\ r.refcount = msg[m].refcount + 2
  BY <1>4, AddWindowRefsIs
<1> HIDE DEF g, r
<1>8. r.refcount + OneIf(g.pc \in Posting) = msg[m].refcount + OneIf(Top(t).pc \in Posting) + 1
  <2>1. msg[m].refcount \in Nat
    BY <1>4 DEF MessageType
  <2>2. OneIf(g.pc \in Posting) = 0 /\ OneIf(Top(t).pc \in Posting) = 1
    BY <1>1, <1>5 DEF Posting, OneIf
  <2> QED
    BY <1>7, <2>1, <2>2
<1> QED
  BY <1>1, <1>3, <1>4, <1>5, <1>6, <1>7, <1>8, MoreLives

LEMMA SendWindowCountLives ==
    ASSUME Inv, Inv', InUse, NEW t \in Threads, SendWindowCount(t)
    PROVE  Lives
<1>1. stack[t] # <<>> /\ Top(t).pc = "sent"
  BY DEF SendWindowCount, At
<1>2. Top(t) \in FrameType /\ Top(t).m \in Msgs /\ FrameOK(t, Len(stack[t]), Top(t))
  BY <1>1, TopActive DEF PublisherPcs
<1>3. PICK m \in Msgs : Top(t).m = m
  BY <1>2
<1>4. msg[m].state = "active" /\ msg[m] \in MessageType
  BY <1>1, <1>3, TopActive DEF PublisherPcs
<1>5. msg[m].refcount >= 1
  <2>1. Uses(m).done >= 1
    BY <1>1, <1>3, PcsParts, TopCounted DEF Uses, OwnWindowDone
  <2>2. Balanced(msg[m], Uses(m)) /\ Uses(m) \in UsesType
    BY LedgerTyped
  <2> HIDE DEF Uses
  <2> QED
    BY <1>4, <2>1, <2>2 DEF Balanced, UsesType, UsedBy
<1> DEFINE g == [Top(t) EXCEPT !.pc = "publish", !.i = Top(t).i + 1, !.calls = 0]
           r == CountWindow(m)
<1>6. g \in FrameType /\ g.pc = "publish" /\ g.m = m
  <2>1. Top(t).i <= Len(Subs)
    BY <1>1, <1>2 DEF FrameOK
  <2> QED
    BY <1>1, <1>3, <2>1, NextSubIs DEF PublisherPcs
<1>7. Changes(t, g) /\ msg' = [msg EXCEPT ![m] = r]
  BY <1>1, <1>3 DEF SendWindowCount, Changes, NextSub
<1>8. r.state = "active" /\ r.refcount = msg[m].refcount - 1
  BY <1>4, <1>5, CountWindowIs
<1> HIDE DEF g, r
<1>9. r.refcount + OneIf(g.pc \in Posting) = msg[m].refcount + OneIf(Top(t).pc \in Posting) + 0
  <2>1. msg[m].refcount \in Nat
    BY <1>4 DEF MessageType
  <2>2. OneIf(g.pc \in Posting) = 1 /\ OneIf(Top(t).pc \in Posting) = 0
    BY <1>1, <1>6 DEF Posting, OneIf
  <2> QED
    BY <1>8, <2>1, <2>2
<1> QED
  BY <1>1, <1>3, <1>4, <1>6, <1>7, <1>8, <1>9, MoreLives

\* The frames that a call or a callback leaves when it returns.
LEMMA HandlerFrame ==
    ASSUME NEW m \in Msgs, NEW api \in Posts \cup Quits \cup {"none"}
    PROVE  LET h == Frame("handler", m, api) IN
           h \in FrameType /\ h.m = m /\ h.pc = "handler" /\ PostsIn(h, m) = 0
BY CallAssumption DEF Frame, FrameType, Pcs, PostsIn, Posting, OneIf

LEMMA NoFramePosts ==
    ASSUME NEW m
    PROVE  NoFrame.m = NoMsg /\ PostsIn(NoFrame, m) = 0
BY DEF NoFrame, Frame, PostsIn, Posting, OneIf

LEMMA ReturnLives ==
    ASSUME Inv, Inv', InUse, NEW t \in Threads, stack[t] # <<>>, NEW m \in Msgs, Top(t).m = m,
           msg[m].state = "active", NEW r \in MessageType, r.state = "active",
           NEW api \in Posts \cup Quits \cup {"none"},
           \/ Kept(t, m, r, Front(stack[t])) \/ Gone(t, m, r, Front(stack[t]))
           \/ PutHandle(t, m, r, Front(stack[t]), api),
           r.refcount = msg[m].refcount + OneIf(Top(t).pc \in Posting) - 1
    PROVE  Lives
<1> DEFINE rest == Front(stack[t])
           h == Frame("handler", m, api)
<1>1. \E g : /\ Shifts(t, Len(stack[t]), Top(t), g) /\ g.m \in {m, NoMsg} /\ PostsIn(g, m) = 0
  <2>1. CASE Kept(t, m, r, rest) \/ Gone(t, m, r, rest)
    <3>1. Pops(t)
      BY <2>1 DEF Kept, Gone, PutTransfer, PutFree, Pops
    <3> QED
      BY <3>1, PopShifts, NoFramePosts
  <2>2. CASE PutHandle(t, m, r, rest, api)
    <3>1. stack' = [stack EXCEPT ![t] = Append(rest, h)]
      BY <2>2 DEF PutHandle
    <3>2. h \in FrameType /\ h.m = m /\ PostsIn(h, m) = 0
      BY HandlerFrame
    <3> HIDE DEF h
    <3>3. Changes(t, h)
      BY <3>1, <3>2, InvHas, FrontTop DEF Changes
    <3> QED
      BY <3>2, <3>3, ChangeShifts
  <2> QED
    BY <2>1, <2>2
<1>2. PICK g : /\ Shifts(t, Len(stack[t]), Top(t), g) /\ g.m \in {m, NoMsg} /\ PostsIn(g, m) = 0
  BY <1>1
<1>3. PostsIn(Top(t), m) = OneIf(Top(t).pc \in Posting) /\ PostsIn(Top(t), m) \in Nat
  BY DEF PostsIn, OneIf
<1>4. r.refcount \in Nat /\ msg[m].refcount \in Nat
  BY InvHas DEF MessageType
<1>5. r.refcount + PostsIn(g, m) = msg[m].refcount + PostsIn(Top(t), m) - 1
  <2> DEFINE a == r.refcount
             b == msg[m].refcount
             c == PostsIn(Top(t), m)
  <2>1. a \in Nat /\ b \in Nat /\ c \in Nat /\ a = b + c - 1
    BY <1>3, <1>4
  <2> HIDE DEF a, b, c
  <2>2. a + 0 = b + c - 1
    BY <2>1
  <2> QED
    BY <1>2, <2>2 DEF a, b, c
<1> HIDE DEF rest, h
<1> QED
  BY <1>2, <1>5, FinishLives, SMTT(60) DEF rest

\* A recipient is finished.
LEMMA FinishedFacts ==
    ASSUME Inv, NEW t \in Threads, stack[t] # <<>>, Top(t).pc \in RecipientPcs \cup {"window"},
           NEW ok \in BOOLEAN
    PROVE  LET m == Top(t).m IN
           /\ m \in Msgs /\ msg[m].state = "active" /\ msg[m].refcount \in Nat
           /\ msg[m].refcount >= 1
           /\ Top(t).pc = "window" => msg[m].refcount >= 2
           /\ Finished(msg[m], ok) \in MessageType /\ Finished(msg[m], ok).state = "active"
           /\ Finished(msg[m], ok).refcount = msg[m].refcount - 1
<1>1. PICK m \in Msgs : Top(t).m = m
  BY TopActive DEF CallPcs
<1>2. msg[m].state = "active" /\ msg[m] \in MessageType
  BY <1>1, TopActive DEF CallPcs
<1>3. /\ Top(t).pc = "window" => Uses(m).own >= 1
      /\ Top(t).pc # "window" => Uses(m).running >= 1
  BY <1>1, PcsParts, TopCounted DEF Uses, OwnWindow
<1>4. Balanced(msg[m], Uses(m)) /\ Uses(m) \in UsesType
  BY LedgerTyped
<1>5. /\ msg[m].refcount \in Nat /\ msg[m].refcount >= 1
      /\ Top(t).pc = "window" => msg[m].refcount >= 2
  <2> DEFINE u == Uses(m)
             s == msg[m].refcount
  <2>1. /\ s \in Nat /\ u.queued \in Nat /\ u.windows \in Nat /\ u.running \in Nat /\ u.own \in Nat
        /\ u.done \in Nat /\ u.handles \in Nat /\ u.keepers \in Nat
        /\ s = u.queued + u.windows + u.running + 2 * u.own + u.done + u.handles + u.keepers
        /\ Top(t).pc = "window" => u.own >= 1
        /\ Top(t).pc # "window" => u.running >= 1
    BY <1>2, <1>3, <1>4 DEF Balanced, UsesType, UsedBy, MessageType
  <2> HIDE DEF u, s
  <2>2. s \in Nat /\ (u.own >= 1 => s >= 2) /\ (u.running >= 1 => s >= 1)
    <3> DEFINE a == u.queued
               b == u.windows
               c == u.running
               d == u.own
               e == u.done
               f == u.handles
               g == u.keepers
    <3>1. /\ a \in Nat /\ b \in Nat /\ c \in Nat /\ d \in Nat /\ e \in Nat /\ f \in Nat /\ g \in Nat
          /\ s \in Nat /\ s = a + b + c + 2 * d + e + f + g
      BY <2>1
    <3> HIDE DEF a, b, c, d, e, f, g
    <3>2. d >= 1 => s >= 2
      BY <3>1
    <3>3. c >= 1 => s >= 1
      BY <3>1
    <3> QED
      BY <3>1, <3>2, <3>3 DEF c, d
  <2>3. (u.own >= 1 => s >= 1) /\ s \in Nat
    BY <2>2
  <2> QED
    BY <2>1, <2>2, <2>3 DEF s
<1>6. /\ Finished(msg[m], ok) \in MessageType /\ Finished(msg[m], ok).state = "active"
      /\ Finished(msg[m], ok).refcount = msg[m].refcount - 1
  BY <1>2, <1>5, FinishedIs
<1> QED
  BY <1>1, <1>2, <1>5, <1>6

LEMMA DispatchReturnLives ==
    ASSUME Inv, Inv', InUse, NEW t \in Threads, NEW ok \in BOOLEAN,
           DispatchReturn(t, ok) \/ WindowEnd(t, ok)
    PROVE  Lives
<1>1. stack[t] # <<>> /\ Top(t).pc \in {"callback", "wm"}
  BY DEF DispatchReturn, WindowEnd, At
<1> DEFINE x == Top(t).m
           s == Finished(msg[x], ok)
<1>2. /\ x \in Msgs /\ msg[x].state = "active" /\ msg[x].refcount \in Nat
      /\ s \in MessageType /\ s.state = "active" /\ s.refcount = msg[x].refcount - 1
  BY <1>1, FinishedFacts DEF RecipientPcs
<1>3. Settle(t, x, s, Front(stack[t]), "none")
  BY DEF DispatchReturn, WindowEnd
<1> HIDE DEF s
<1>4. PICK m \in Msgs, r \in MessageType :
        /\ Top(t).m = m /\ msg[m].state = "active" /\ msg[m].refcount \in Nat
        /\ r.state = "active" /\ r.refcount = msg[m].refcount - 1
        /\ Settle(t, m, r, Front(stack[t]), "none")
  BY <1>2, <1>3
<1>5. \/ Kept(t, m, r, Front(stack[t])) \/ Gone(t, m, r, Front(stack[t]))
      \/ PutHandle(t, m, r, Front(stack[t]), "none")
  BY <1>4, SettleCases
<1>6. OneIf(Top(t).pc \in Posting) = 0
  BY <1>1 DEF OneIf, Posting
<1>7. r.refcount = msg[m].refcount + OneIf(Top(t).pc \in Posting) - 1
  BY <1>4, <1>6
<1> QED
  BY <1>1, <1>4, <1>5, <1>7, ReturnLives

\* The rest of a thread's life: the one frame of its stack makes way for g.
LEMMA ExitLives ==
    ASSUME Inv, Inv', InUse, NEW t \in Threads, NEW ok \in BOOLEAN, stack[t] # <<>>,
           Top(t).pc \in {"exit", "drain"}, NEW g \in FrameType, g.m = NoMsg,
           Settle(t, Top(t).m, Finished(msg[Top(t).m], ok), <<g>>, "none")
    PROVE  Lives
<1> DEFINE x == Top(t).m
           s == Finished(msg[x], ok)
<1>1. /\ x \in Msgs /\ msg[x].state = "active" /\ msg[x].refcount \in Nat
      /\ s \in MessageType /\ s.state = "active" /\ s.refcount = msg[x].refcount - 1
  BY FinishedFacts DEF RecipientPcs
<1> HIDE DEF s
<1>2. PICK m \in Msgs, r \in MessageType :
        /\ Top(t).m = m /\ msg[m].state = "active" /\ msg[m].refcount \in Nat
        /\ r.state = "active" /\ r.refcount = msg[m].refcount - 1
        /\ Settle(t, m, r, <<g>>, "none")
  BY <1>1 DEF s
<1>3. Len(stack[t]) = 1 /\ t # Compl
  BY InvHas, BottomAlone DEF BottomPcs
<1>4. Kept(t, m, r, <<g>>) \/ Gone(t, m, r, <<g>>) \/ PutHandle(t, m, r, <<g>>, "none")
  BY <1>2, SettleCases
<1>5. stack' = [stack EXCEPT ![t] = <<g>>]
  BY <1>3, <1>4 DEF Kept, Gone, PutTransfer, PutFree, PutHandle
<1>6. WithTop(t, g) = <<g>>
  BY <1>3, InvHas DEF WithTop, StacksOK
<1>7. Changes(t, g)
  BY <1>5, <1>6 DEF Changes
<1>8. Shifts(t, Len(stack[t]), Top(t), g)
  BY <1>7, ChangeShifts
<1>9. PostsIn(Top(t), m) = 0 /\ PostsIn(g, m) = 0
  BY CallAssumption DEF PostsIn, OneIf, Posting
<1>10. r.refcount + PostsIn(g, m) = msg[m].refcount + PostsIn(Top(t), m) - 1
  <2> DEFINE a == r.refcount
             b == msg[m].refcount
  <2>1. b \in Nat /\ a = b - 1
    BY <1>2
  <2> HIDE DEF a, b
  <2>2. a + 0 = b + 0 - 1
    BY <2>1
  <2> QED
    BY <1>9, <2>2 DEF a, b
<1> QED
  BY <1>2, <1>4, <1>8, <1>10, FinishLives

LEMMA DispatchExitLives ==
    ASSUME Inv, Inv', InUse, NEW t \in Threads, DispatchExit(t) \/ DetachFail(t)
    PROVE  Lives
<1> DEFINE g == Frame("exited", NoMsg, "none")
           h == Frame("drained", NoMsg, "none")
<1>1. g \in FrameType /\ g.m = NoMsg /\ h \in FrameType /\ h.m = NoMsg
  BY CallAssumption DEF Frame, FrameType, Pcs
<1> HIDE DEF g, h
<1>2. CASE DispatchExit(t)
  <2>1. /\ stack[t] # <<>> /\ Top(t).pc = "exit"
        /\ Settle(t, Top(t).m, Finished(msg[Top(t).m], TRUE), <<g>>, "none")
    BY <1>2 DEF DispatchExit, At, g
  <2> QED
    BY <1>1, <2>1, ExitLives
<1>3. CASE DetachFail(t)
  <2>1. /\ stack[t] # <<>> /\ Top(t).pc = "drain"
        /\ Settle(t, Top(t).m, Finished(msg[Top(t).m], FALSE), <<h>>, "none")
    BY <1>3 DEF DetachFail, At, h
  <2> QED
    BY <1>1, <2>1, ExitLives
<1> QED
  BY <1>2, <1>3

\* A call handle is given back, by the call or after it.
LEMMA CallFreed ==
    ASSUME Inv, NEW m \in Msgs, Uses(m).handles + Uses(m).keepers >= 1
    PROVE  LET r == [msg[m] EXCEPT !.refcount = msg[m].refcount - 1] IN
           /\ msg[m].state = "active" /\ msg[m].refcount \in Nat /\ msg[m].refcount >= 1
           /\ r \in MessageType /\ r.state = "active" /\ r.refcount = msg[m].refcount - 1
<1> DEFINE u == Uses(m)
           s == msg[m].refcount
           n == s - 1
<1>1. Balanced(msg[m], u) /\ u \in UsesType /\ msg[m] \in MessageType /\ u.handles + u.keepers >= 1
  BY LedgerTyped, InvHas
<1>2. s \in Nat
  BY <1>1 DEF MessageType
<1> HIDE DEF u
<1>3. msg[m].state = "active"
  BY <1>1 DEF Balanced, UsesType
<1>4. s = u.queued + u.windows + u.running + 2 * u.own + u.done + u.handles + u.keepers
  BY <1>1, <1>3 DEF Balanced, UsedBy
<1>5. s >= 1 /\ n \in Nat
  <2> HIDE DEF s
  <2> QED
    BY <1>1, <1>2, <1>4 DEF UsesType
<1> HIDE DEF n
<1>6. LET r == [msg[m] EXCEPT !.refcount = n] IN
      r \in MessageType /\ r.state = "active" /\ r.refcount = n
  BY <1>1, <1>3, <1>5 DEF MessageType
<1> QED
  BY <1>2, <1>3, <1>5, <1>6 DEF n

LEMMA SendReturnLives ==
    ASSUME Inv, Inv', InUse, NEW t \in Threads, SendReturn(t)
    PROVE  Lives
<1>1. stack[t] # <<>> /\ Top(t).pc = "waited"
  BY DEF SendReturn, At
<1>2. Top(t).m \in Msgs /\ FrameOK(t, Len(stack[t]), Top(t))
  BY <1>1, TopActive DEF CallPcs
<1>3. PICK m \in Msgs : Top(t).m = m
  BY <1>2
<1>4. HasCall(Top(t).api)
  BY <1>1, <1>2 DEF FrameOK, Waits, HasCall
<1>5. Uses(m).handles + Uses(m).keepers >= 1
  <2>1. Uses(m).handles >= 1 /\ Uses(m) \in UsesType
    BY <1>1, <1>3, <1>4, TopHandle, LedgerTyped DEF CallPcs, Uses
  <2> HIDE DEF Uses
  <2> QED
    BY <2>1 DEF UsesType
<1> DEFINE s == [msg[m] EXCEPT !.refcount = msg[m].refcount - 1]
<1>6. /\ msg[m].state = "active" /\ msg[m].refcount \in Nat /\ s \in MessageType
      /\ s.state = "active" /\ s.refcount = msg[m].refcount - 1
  BY <1>5, CallFreed
<1>7. \/ Kept(t, m, s, Front(stack[t])) \/ Gone(t, m, s, Front(stack[t]))
      \/ PutHandle(t, m, s, Front(stack[t]), "none")
  <2>1. FreeCall(t, m, Front(stack[t]))
    BY <1>3 DEF SendReturn
  <2> QED
    BY <1>6, <2>1, FreeCallCases
<1> HIDE DEF s
<1>8. OneIf(Top(t).pc \in Posting) = 0
  BY <1>1 DEF OneIf, Posting
<1>9. s.refcount = msg[m].refcount + OneIf(Top(t).pc \in Posting) - 1
  BY <1>6, <1>8
<1> QED
  BY <1>1, <1>3, <1>6, <1>7, <1>9, ReturnLives

LEMMA FreeHandleLives ==
    ASSUME Inv, Inv', InUse, NEW t \in Threads, NEW m \in Msgs, FreeHandle(t, m)
    PROVE  Lives
<1> DEFINE s == [msg[m] EXCEPT !.refcount = msg[m].refcount - 1]
           rest == stack[t]
           h == Frame("handler", m, "none")
<1>1. Uses(m).handles + Uses(m).keepers >= 1
  <2>1. Uses(m).keepers = 1 /\ Uses(m) \in UsesType
    BY KeeperFacts DEF FreeHandle
  <2> HIDE DEF Uses
  <2> QED
    BY <2>1 DEF UsesType
<1>2. /\ msg[m].state = "active" /\ msg[m].refcount \in Nat /\ s \in MessageType
      /\ s.state = "active" /\ s.refcount = msg[m].refcount - 1
  BY <1>1, CallFreed
<1>3. Kept(t, m, s, rest) \/ Gone(t, m, s, rest) \/ PutHandle(t, m, s, rest, "none")
  <2>1. FreeCall(t, m, rest)
    BY DEF FreeHandle
  <2> HIDE DEF rest
  <2> QED
    BY <1>2, <2>1, FreeCallCases
<1> HIDE DEF s
<1>4. stack[t] \in Seq(FrameType)
  BY InvHas DEF StacksOK
<1>5. \E k, f, g : /\ Shifts(t, k, f, g) /\ f.m \in {m, NoMsg} /\ g.m \in {m, NoMsg}
                   /\ PostsIn(f, m) = 0 /\ PostsIn(g, m) = 0
  <2>1. CASE Kept(t, m, s, rest) \/ Gone(t, m, s, rest)
    <3>1. stack' = [stack EXCEPT ![t] = stack[t]]
      BY <2>1 DEF Kept, Gone, PutTransfer, PutFree
    <3>2. /\ \A i \in 1 .. Len(stack[t]) : SameFrame(stack[t][i], stack[t][i])
          /\ stack[t] # <<>> => Top(t).pc \in UserCode
      BY DEF SameFrame, FreeHandle
    <3>3. Shifts(t, Len(stack[t]) + 1, NoFrame, NoFrame)
      BY <1>4, <3>1, <3>2, InvHas, IdleStep
    <3> QED
      BY <3>3, NoFramePosts
  <2>2. CASE PutHandle(t, m, s, rest, "none")
    <3>1. stack' = [stack EXCEPT ![t] = Append(stack[t], h)]
      BY <2>2 DEF PutHandle
    <3>2. h \in FrameType /\ h.m = m /\ PostsIn(h, m) = 0
      BY HandlerFrame
    <3> HIDE DEF h
    <3>3. Pushes(t, stack[t], h)
      BY <1>4, <3>1 DEF Pushes, SameFrame
    <3>4. Shifts(t, Len(stack[t]) + 1, NoFrame, h)
      BY <3>2, <3>3, PushShifts
    <3> QED
      BY <3>2, <3>4, NoFramePosts
  <2> QED
    BY <1>3, <2>1, <2>2
<1>6. PICK k, f, g : /\ Shifts(t, k, f, g) /\ f.m \in {m, NoMsg} /\ g.m \in {m, NoMsg}
                     /\ PostsIn(f, m) = 0 /\ PostsIn(g, m) = 0
  BY <1>5
<1>7. s.refcount + PostsIn(g, m) = msg[m].refcount + PostsIn(f, m) - 1
  <2> DEFINE a == s.refcount
             b == msg[m].refcount
  <2>1. b \in Nat /\ a = b - 1
    BY <1>2
  <2> HIDE DEF a, b
  <2>2. a + 0 = b + 0 - 1
    BY <2>1
  <2> QED
    BY <1>6, <2>2 DEF a, b
<1> HIDE DEF rest
<1> QED
  BY <1>2, <1>3, <1>6, <1>7, FinishLives

\* The publisher gives up cs_kmq_msg; its message may be finished with.
LEMMA PublishEndLives ==
    ASSUME Inv, Inv', InUse, NEW t \in Threads, PublishEnd(t)
    PROVE  Lives
<1>1. stack[t] # <<>> /\ Top(t).pc = "publish"
  BY DEF PublishEnd, At
<1>2. /\ Top(t) \in FrameType /\ Top(t).m \in Msgs /\ FrameOK(t, Len(stack[t]), Top(t))
      /\ msg[Top(t).m].state = "active" /\ msg[Top(t).m] \in MessageType
  BY <1>1, TopActive DEF CallPcs
<1>3. PICK m \in Msgs : Top(t).m = m
  BY <1>2
<1>4. PICK r \in MessageType : r = msg[m] /\ r.state = "active" /\ r.refcount \in Nat
  BY <1>2, <1>3 DEF MessageType
<1>5. PICK api \in Posts \cup Quits \cup {"none"} : api = Top(t).api
  BY <1>2 DEF FrameType
<1>6. OneIf(Top(t).pc \in Posting) = 1 /\ PostsIn(Top(t), m) = 1
  BY <1>1, <1>3 DEF OneIf, PostsIn, Posting
<1>7. CASE ~Waits(api)
  <2>1. Settle(t, m, r, Front(stack[t]), api)
    BY <1>3, <1>4, <1>5, <1>7 DEF PublishEnd
  <2>2. \/ Kept(t, m, r, Front(stack[t])) \/ Gone(t, m, r, Front(stack[t]))
        \/ PutHandle(t, m, r, Front(stack[t]), api)
    BY <2>1, SettleCases
  <2>3. r.refcount = msg[m].refcount + OneIf(Top(t).pc \in Posting) - 1
    BY <1>4, <1>6
  <2>4. msg[m].state = "active"
    BY <1>4
  <2> QED
    BY <1>1, <1>3, <1>4, <2>2, <2>3, <2>4, ReturnLives
<1>8. CASE Waits(api)
  <2> DEFINE g == [Top(t) EXCEPT !.pc = "wait", !.calls = 0]
  <2>1. g \in FrameType /\ g.pc = "wait" /\ g.m = m
    <3>1. "wait" \in Pcs
      BY DEF Pcs
    <3> QED
      BY <1>2, <1>3, <3>1, MovedFrame
  <2>2. Settle(t, m, r, WithTop(t, g), api)
    BY <1>3, <1>4, <1>5, <1>8 DEF PublishEnd, Moved
  <2> HIDE DEF g
  <2>3. r.refcount # 0
    <3>1. HasCall(Top(t).api)
      BY <1>5, <1>8 DEF HasCall, Waits
    <3>2. Uses(m).handles >= 1
      BY <1>1, <1>3, <3>1, TopHandle DEF CallPcs, Uses
    <3>3. Uses(m).handles + Uses(m).keepers >= 1
      <4>1. Uses(m) \in UsesType
        BY LedgerTyped
      <4> HIDE DEF Uses
      <4> QED
        BY <3>2, <4>1 DEF UsesType
    <3>4. msg[m].refcount \in Nat /\ msg[m].refcount >= 1
      BY <3>3, CallFreed
    <3> QED
      BY <1>4, <3>4
  <2>4. Kept(t, m, r, WithTop(t, g))
    BY <2>2, <2>3, SettleCases DEF Gone, PutTransfer, PutFree, PutHandle
  <2>5. Changes(t, g)
    BY <1>1, <2>4 DEF Kept, Changes
  <2>6. Shifts(t, Len(stack[t]), Top(t), g)
    BY <2>1, <2>5, ChangeShifts
  <2>7. PostsIn(g, m) = 0
    BY <2>1 DEF PostsIn, OneIf, Posting
  <2>8. r.refcount + PostsIn(g, m) = msg[m].refcount + PostsIn(Top(t), m) - 1
    BY <1>4, <1>6, <2>7
  <2>9. msg[m].state = "active"
    BY <1>4
  <2> QED
    BY <1>3, <1>4, <2>1, <2>4, <2>6, <2>8, <2>9, FinishLives
<1> QED
  BY <1>7, <1>8

\* SendMessage to the publisher's own window is over.
LEMMA SendWindowEndLives ==
    ASSUME Inv, Inv', InUse, NEW t \in Threads, NEW ok \in BOOLEAN, SendWindowEnd(t, ok)
    PROVE  Lives
<1>1. stack[t] # <<>> /\ Top(t).pc = "window"
  BY DEF SendWindowEnd, At
<1> DEFINE x == Top(t).m
           s == Finished(msg[x], ok)
           g == [Top(t) EXCEPT !.pc = "sent", !.calls = 0]
<1>2. /\ x \in Msgs /\ msg[x].state = "active" /\ msg[x].refcount \in Nat /\ msg[x].refcount >= 2
      /\ s \in MessageType /\ s.state = "active" /\ s.refcount = msg[x].refcount - 1
  BY <1>1, FinishedFacts
<1>3. g \in FrameType /\ g.pc = "sent" /\ g.m = x
  <2>1. "sent" \in Pcs /\ Top(t) \in FrameType
    BY <1>1, TopActive DEF Pcs, CallPcs
  <2> QED
    BY <2>1, MovedFrame
<1>4. Settle(t, x, s, WithTop(t, g), "none")
  BY DEF SendWindowEnd, Moved
<1> HIDE DEF s, g
<1>5. PICK m \in Msgs, r \in MessageType :
        /\ Top(t).m = m /\ msg[m].state = "active" /\ msg[m].refcount \in Nat
        /\ msg[m].refcount >= 2 /\ r.state = "active" /\ r.refcount = msg[m].refcount - 1
        /\ Settle(t, m, r, WithTop(t, g), "none") /\ g.m = m
  BY <1>2, <1>3, <1>4
<1>6. r.refcount # 0
  BY <1>5
<1>7. Kept(t, m, r, WithTop(t, g))
  BY <1>5, <1>6, SettleCases DEF Gone, PutTransfer, PutFree, PutHandle
<1>8. Changes(t, g)
  BY <1>1, <1>7 DEF Kept, Changes
<1>9. Shifts(t, Len(stack[t]), Top(t), g)
  BY <1>3, <1>8, ChangeShifts
<1>10. PostsIn(g, m) = 0 /\ PostsIn(Top(t), m) = 0
  BY <1>1, <1>3 DEF PostsIn, OneIf, Posting
<1>11. r.refcount + PostsIn(g, m) = msg[m].refcount + PostsIn(Top(t), m) - 1
  <2> DEFINE a == r.refcount
             b == msg[m].refcount
  <2>1. b \in Nat /\ a = b - 1
    BY <1>5
  <2> HIDE DEF a, b
  <2>2. a + 0 = b + 0 - 1
    BY <2>1
  <2> QED
    BY <1>10, <2>2 DEF a, b
<1> QED
  BY <1>5, <1>7, <1>9, <1>11, FinishLives

\* The publisher's own callback is over.
LEMMA DirectReturnLives ==
    ASSUME Inv, Inv', InUse, NEW t \in Threads, NEW ok \in BOOLEAN, DirectReturn(t, ok)
    PROVE  Lives
<1>1. stack[t] # <<>> /\ Top(t).pc = "direct"
  BY DEF DirectReturn, At
<1> DEFINE x == Top(t).m
           s == Finished(msg[x], ok)
           y == [Top(t) EXCEPT !.pc = "publish", !.i = Top(t).i + 1, !.calls = 0]
<1>2. /\ x \in Msgs /\ msg[x].state = "active" /\ msg[x].refcount \in Nat /\ msg[x].refcount >= 1
      /\ s \in MessageType /\ s.state = "active" /\ s.refcount = msg[x].refcount - 1
  BY <1>1, FinishedFacts DEF RecipientPcs
<1>3. y \in FrameType /\ y.pc = "publish" /\ y.m = x
  <2>1. Top(t).i <= Len(Subs)
    BY <1>1, TopActive DEF FrameOK, CallPcs
  <2> QED
    BY <1>1, <2>1, NextSubIs DEF CallPcs
<1>4. Changes(t, y) /\ msg' = [msg EXCEPT ![x] = s]
  BY <1>1, <1>2 DEF DirectReturn, Changes, NextSub
<1> HIDE DEF s, y
<1>5. PICK m \in Msgs, r \in MessageType, g \in FrameType :
        /\ Top(t).m = m /\ msg[m].state = "active" /\ msg[m].refcount \in Nat
        /\ msg[m].refcount >= 1 /\ r.state = "active" /\ r.refcount = msg[m].refcount - 1
        /\ g.m = m /\ g.pc = "publish" /\ Changes(t, g) /\ msg' = [msg EXCEPT ![m] = r]
  BY <1>2, <1>3, <1>4
<1>6. /\ Concerns(m) /\ msg'[m] = r /\ r.refcount \in Nat
      /\ Posters(m) \in Nat /\ Posters(m)' \in Nat
      /\ Posters(m)' = Posters(m) - OneIf(Top(t).pc \in Posting) + OneIf(g.pc \in Posting)
      /\ Load(m) = msg[m].refcount + Posters(m)
      /\ Load(m)' = r.refcount + Posters(m)'
  BY <1>1, <1>5, PosterMoves, ZenonT(60)
<1>7. OneIf(Top(t).pc \in Posting) = 1 /\ OneIf(g.pc \in Posting) = 1
  BY <1>1, <1>5 DEF OneIf, Posting
<1>8. Posters(m) >= 1
  BY <1>1, <1>5, TopCounted DEF Posters, Posting, Pcs
<1> DEFINE a == r.refcount
           b == msg[m].refcount
           p == Posters(m)
           q == Posters(m)'
<1>9. /\ a \in Nat /\ b \in Nat /\ p \in Nat /\ q \in Nat /\ a = b - 1 /\ q = p - 1 + 1 /\ p >= 1
      /\ Load(m) = b + p /\ Load(m)' = a + q
  BY <1>5, <1>6, <1>7, <1>8
<1> HIDE DEF a, b, p, q
<1>10. a + q = Load(m) - 1 /\ Load(m)' > 0
  BY <1>9
<1>11. /\ msg'[m].state = "active" /\ msg'[m].refcount = a
  BY <1>5, <1>6 DEF a
<1>12. a + Posters(m)' = Load(m) - 1
  BY <1>10 DEF q
<1> QED
  BY <1>5, <1>6, <1>9, <1>10, <1>11, <1>12, LeaveLives

\* A quit message is in the queue of its thread.
LEMMA QuitPutLives ==
    ASSUME Inv, Inv', InUse, NEW t \in Threads, QuitPut(t)
    PROVE  Lives
<1>1. stack[t] # <<>> /\ Top(t).pc = "counted"
  BY DEF QuitPut, At
<1>2. /\ Top(t) \in FrameType /\ Top(t).m \in Msgs /\ msg[Top(t).m].state = "active"
  BY <1>1, TopActive DEF CallPcs
<1>3. PICK m \in Msgs : Top(t).m = m
  BY <1>2
<1>4. /\ msg[m].state = "active" /\ msg[m].refcount \in Nat /\ msg[m].refcount >= 1
  BY <1>1, <1>3, FinishedFacts DEF RecipientPcs
<1>5. \E g : /\ Shifts(t, Len(stack[t]), Top(t), g) /\ g.m \in {m, NoMsg} /\ PostsIn(g, m) = 0
  <2> DEFINE h == [Top(t) EXCEPT !.pc = "wait", !.calls = 0]
  <2>1. h \in FrameType /\ h.pc = "wait" /\ h.m = m
    <3>1. "wait" \in Pcs
      BY DEF Pcs
    <3> QED
      BY <1>2, <1>3, <3>1, MovedFrame
  <2>2. Changes(t, h) \/ Pops(t)
    BY <1>1 DEF QuitPut, Changes, Pops, Goto, Moved, Return
  <2> HIDE DEF h
  <2>3. PostsIn(h, m) = 0
    BY <2>1 DEF PostsIn, OneIf, Posting
  <2> QED
    BY <2>1, <2>2, <2>3, ChangeShifts, PopShifts, NoFramePosts
<1>6. PICK g : /\ Shifts(t, Len(stack[t]), Top(t), g) /\ g.m \in {m, NoMsg} /\ PostsIn(g, m) = 0
  BY <1>5
<1>7. UNCHANGED msg
  BY DEF QuitPut
<1>8. PostsIn(Top(t), m) = 1
  BY <1>1, <1>3 DEF PostsIn, OneIf, Posting
<1>9. /\ Concerns(m) /\ Posters(m) \in Nat /\ Posters(m)' \in Nat
      /\ Posters(m)' = Posters(m) - 1 + 0
  <2>1. \A x \in Msgs \ {m} : msg'[x] = msg[x]
    BY <1>7
  <2> QED
    BY <1>3, <1>6, <1>8, <2>1, ConcernsOne
<1> DEFINE a == msg[m].refcount
           p == Posters(m)
           q == Posters(m)'
<1>10. /\ a \in Nat /\ a >= 1 /\ p \in Nat /\ q \in Nat /\ q = p - 1 + 0
       /\ Load(m) = a + p /\ Load(m)' = a + q /\ msg'[m].state = "active" /\ msg'[m].refcount = a
  BY <1>4, <1>7, <1>9 DEF Load
<1> HIDE DEF a, p, q
<1>11. a + q = Load(m) - 1 /\ Load(m)' > 0
  BY <1>10
<1>12. a + Posters(m)' = Load(m) - 1
  BY <1>11 DEF q
<1> QED
  BY <1>4, <1>9, <1>10, <1>11, <1>12, LeaveLives

\* A message that was free is opened.
LEMMA OpenLives ==
    ASSUME Inv, Inv', InUse, NEW m \in Msgs, Concerns(m),
           msg[m].state = "free", msg'[m].state = "active", Load(m)' \in {1, 2}
    PROVE  Lives
<1> DEFINE u == [x \in Msgs |-> Users(x)]
           v == [x \in Msgs |-> Users(x)']
           p == [x \in Msgs |-> Phase(msg[x].state)]
           q == [x \in Msgs |-> Phase(msg'[x].state)]
<1>1. \A x \in Msgs : x # m => Users(x)' = Users(x) /\ msg'[x].state = msg[x].state
  BY Unconcerned
<1>2. Users(m)' = Load(m)'
  BY UsersAreNext
<1>3. p[m] = "free" /\ q = [p EXCEPT ![m] = "open"]
  BY <1>1 DEF Phase
<1>4. v = [u EXCEPT ![m] = Load(m)']
  BY <1>1, <1>2
<1>5. Life!Open(m)
  <2>1. PICK n \in {1, 2} : n = Load(m)'
    OBVIOUS
  <2>2. v = [u EXCEPT ![m] = n]
    BY <1>4, <2>1
  <2> QED
    BY <1>3, <2>2, SubstIs DEF Life!Open
<1>6. InUse'
  <2> SUFFICES ASSUME NEW x \in Msgs, msg'[x].state = "active" PROVE Load(x)' > 0
    BY DEF InUse
  <2>1. CASE x = m
    BY <2>1
  <2> QED
    BY <2>1, Unconcerned
<1> QED
  BY <1>5, <1>6 DEF Lives, Life!Next

\* A message that was released is handled, by a thread that takes it first.
LEMMA ReleasedLives ==
    ASSUME Inv, Inv', InUse, NEW m \in Msgs, Concerns(m), msg[m].state \in {"xfer", "completing"},
           msg'[m].state \in {"completing", "free"}
    PROVE  Lives
<1> DEFINE u == [x \in Msgs |-> Users(x)]
           v == [x \in Msgs |-> Users(x)']
           p == [x \in Msgs |-> Phase(msg[x].state)]
           q == [x \in Msgs |-> Phase(msg'[x].state)]
<1>1. \A x \in Msgs : x # m => Users(x)' = Users(x) /\ msg'[x].state = msg[x].state
  BY Unconcerned
<1>2. Users(m) = 0 /\ Users(m)' = 0
  BY UsersAre, UsersAreNext
<1>3. v = u /\ p[m] = "released"
  BY <1>1, <1>2 DEF Phase
<1>4. ASSUME msg'[m].state = "free" PROVE [Life!Next]_(Life!vars)
  <2>1. q = [p EXCEPT ![m] = "free"]
    BY <1>1, <1>4 DEF Phase
  <2>2. Life!Handled(m)
    BY <1>3, <2>1, SubstIs DEF Life!Handled
  <2> QED
    BY <2>2 DEF Life!Next
<1>5. ASSUME msg'[m].state = "completing" PROVE [Life!Next]_(Life!vars)
  <2>1. q = p
    BY <1>1, <1>3, <1>5 DEF Phase
  <2> QED
    BY <1>3, <2>1, SubstIs DEF Life!vars
<1>6. [Life!Next]_(Life!vars)
  BY <1>4, <1>5
<1>7. InUse'
  <2> SUFFICES ASSUME NEW x \in Msgs, msg'[x].state = "active" PROVE Load(x)' > 0
    BY DEF InUse
  <2>1. x # m
    OBVIOUS
  <2> QED
    BY <2>1, Unconcerned
<1> QED
  BY <1>6, <1>7 DEF Lives

\* A call makes a message, which the call is posting or has a handle of.
LEMMA BornLives ==
    ASSUME Inv, Inv', InUse, NEW t \in Threads, NEW m \in Msgs, NEW k, NEW g,
           Shifts(t, k, NoFrame, g), g.m = m, NEW api, NEW r,
           msg[m].state = "free", msg' = [msg EXCEPT ![m] = r],
           r.state = "active", r.refcount = OneIf(HasCall(api)), g.pc \in Posting \/ HasCall(api)
    PROVE  Lives
<1>1. msg'[m] = r /\ \A x \in Msgs \ {m} : msg'[x] = msg[x]
  BY InvHas
<1>2. /\ Concerns(m)
      /\ Posters(m)' = Posters(m) - PostsIn(NoFrame, m) + PostsIn(g, m)
  BY <1>1, NoFramePosts, ConcernsOne
<1>3. Posters(m) = 0 /\ PostsIn(NoFrame, m) = 0
  BY UsersAre, NoFramePosts
<1>4. PostsIn(g, m) = OneIf(g.pc \in Posting)
  BY DEF PostsIn
<1>5. PostsIn(g, m) \in {0, 1} /\ r.refcount \in {0, 1} /\ (PostsIn(g, m) = 1 \/ r.refcount = 1)
  BY <1>4 DEF OneIf
<1>6. Load(m)' = r.refcount + PostsIn(g, m)
  <2> DEFINE a == PostsIn(g, m)
             b == Posters(m)'
  <2>1. b = 0 - 0 + a /\ a \in {0, 1}
    BY <1>2, <1>3, <1>5
  <2>2. Load(m)' = r.refcount + b
    BY <1>1 DEF Load
  <2> HIDE DEF a, b
  <2>3. b = a
    BY <2>1
  <2> QED
    BY <2>2, <2>3 DEF a
<1>7. Load(m)' \in {1, 2}
  BY <1>5, <1>6
<1> QED
  BY <1>1, <1>2, <1>7, OpenLives

LEMMA PostLives ==
    ASSUME Inv, Inv', InUse, NEW t \in Threads, NEW api \in Posts, Post(t, api)
    PROVE  Lives
<1> DEFINE s == Caller(t)
           n == Len(stack[t]) + 1
           r == [FreeMessage EXCEPT !.state = "active",
                   !.refcount = IF HasCall(api) THEN 1 ELSE 0,
                   !.event = IF HasCall(api) THEN "clear" ELSE "none"]
<1>1. /\ s \in Seq(FrameType) /\ Len(s) = Len(stack[t])
      /\ \A i \in 1 .. Len(s) : SameFrame(s[i], stack[t][i])
  <2>1. MayCall(t, api)
    BY DEF Post
  <2> QED
    BY <2>1, CallerFacts
<1> HIDE DEF s
<1>2. PICK m \in Msgs : /\ msg[m].state = "free" /\ msg' = [msg EXCEPT ![m] = r]
                        /\ stack' = [stack EXCEPT ![t] = Append(s, Frame("publish", m, api))]
  BY DEF Post, s
<1>3. r.state = "active" /\ r.refcount = OneIf(HasCall(api))
  BY NewIs
<1> HIDE DEF r
<1> DEFINE g == Frame("publish", m, api)
<1>4. g \in FrameType /\ g.m = m /\ g.pc = "publish"
  <2>1. 1 \in 1 .. Len(Subs) + 1 /\ 0 \in 0 .. MaxCalls
    BY CallAssumption
  <2> QED
    BY <2>1 DEF Frame, FrameType, Pcs
<1> HIDE DEF g
<1>5. Pushes(t, s, g)
  BY <1>1, <1>2 DEF Pushes, g
<1>6. Shifts(t, n, NoFrame, g)
  BY <1>4, <1>5, PushShifts
<1>7. g.pc \in Posting
  BY <1>4 DEF Posting
<1> QED
  BY <1>2, <1>3, <1>4, <1>6, <1>7, BornLives

LEMMA QuitLives ==
    ASSUME Inv, Inv', InUse, NoPostQuit, NEW t \in Threads, NEW u \in Threads, NEW api \in Quits,
           Quit(t, u, api)
    PROVE  Lives
<1> DEFINE s == Caller(t)
           n == Len(stack[t]) + 1
           r == [FreeMessage EXCEPT !.state = "active", !.exit = TRUE,
                   !.refcount = IF HasCall(api) THEN 1 ELSE 0,
                   !.event = IF HasCall(api) THEN "clear" ELSE "none"]
<1>1. MayCall(t, api)
  BY DEF Quit
<1>2. /\ s \in Seq(FrameType) /\ Len(s) = Len(stack[t])
      /\ \A i \in 1 .. Len(s) : SameFrame(s[i], stack[t][i])
  BY <1>1, CallerFacts
<1> HIDE DEF s
<1>3. HasCall(api) /\ Waits(api)
  BY <1>1 DEF MayCall, NoPostQuit, Quits, HasCall, Waits
<1>4. PICK m \in Msgs :
        /\ msg[m].state = "free" /\ msg' = [msg EXCEPT ![m] = r]
        /\ LET f == [Frame("count", m, api) EXCEPT !.to = u] IN
           stack' = [stack EXCEPT ![t] =
               IF ~deleted[u] THEN Append(s, f)
               ELSE IF Waits(api) THEN Append(s, [f EXCEPT !.pc = "wait"])
               ELSE s]
  BY DEF Quit, s
<1>5. r.state = "active" /\ r.refcount = OneIf(HasCall(api))
  BY NewIs
<1> HIDE DEF r
<1> DEFINE f == [Frame("count", m, api) EXCEPT !.to = u]
           w == [f EXCEPT !.pc = "wait"]
<1>6. /\ f \in FrameType /\ f.m = m
      /\ w \in FrameType /\ w.m = m
  <2>1. 1 \in 1 .. Len(Subs) + 1 /\ 0 \in 0 .. MaxCalls
    BY CallAssumption
  <2> QED
    BY <2>1 DEF Frame, FrameType, Pcs
<1>7. stack' = [stack EXCEPT ![t] = Append(s, f)] \/ stack' = [stack EXCEPT ![t] = Append(s, w)]
  BY <1>3, <1>4
<1> HIDE DEF f, w
<1>8. Pushes(t, s, f) \/ Pushes(t, s, w)
  BY <1>2, <1>7 DEF Pushes
<1>9. PICK g : g.m = m /\ Shifts(t, n, NoFrame, g)
  BY <1>6, <1>8, PushShifts
<1> QED
  BY <1>3, <1>4, <1>5, <1>9, BornLives

\* A step that only moves a message, between frames that do not post it.
LEMMA QuietLives ==
    ASSUME Inv, Inv', InUse, NEW t \in Threads, NEW k, NEW f, NEW g, Shifts(t, k, f, g), NEW m,
           f.m \in {m, NoMsg}, g.m \in {m, NoMsg}, f.pc \notin Posting, g.pc \notin Posting,
           UNCHANGED msg
    PROVE  Lives
<1>1. /\ Concerns(m)
      /\ m \in Msgs => /\ Posters(m) \in Nat
                       /\ Posters(m)' = Posters(m) - PostsIn(f, m) + PostsIn(g, m)
  BY ConcernsOne
<1>2. ASSUME m \in Msgs PROVE Load(m)' = Load(m)
  <2>1. PostsIn(f, m) = 0 /\ PostsIn(g, m) = 0
    BY DEF PostsIn, OneIf
  <2>2. Posters(m)' = Posters(m) - 0 + 0 /\ Posters(m) \in Nat
    BY <1>1, <1>2, <2>1
  <2>3. Posters(m)' = Posters(m)
    BY <2>2
  <2> QED
    BY <2>3 DEF Load
<1>3. m \in Msgs => msg'[m].state = msg[m].state
  OBVIOUS
<1> QED
  BY <1>1, <1>2, <1>3, SameLives

LEMMA FirstPush ==
    ASSUME NEW t \in Threads, NEW g, stack[t] = <<>>, stack' = [stack EXCEPT ![t] = <<g>>]
    PROVE  Pushes(t, <<>>, g)
BY DEF Pushes

\* The steps that only move a message, or none.
LEMMA DispatchLives ==
    ASSUME Inv, Inv', InUse, NEW t \in Threads, DispatchWait(t) \/ WindowBegin(t)
    PROVE  Lives
<1>1. stack[t] = <<>> /\ UNCHANGED msg
  BY DEF DispatchWait, WindowBegin
<1> DEFINE e == Frame("woken", NoMsg, "none")
           h == Frame("wm", Head(wq[t]), "none")
<1>2. \E g : /\ Shifts(t, Len(stack[t]) + 1, NoFrame, g) /\ g.pc \notin Posting
             /\ g.m \in Msgs \cup {NoMsg}
  <2>1. CASE DispatchWait(t)
    <3>1. "woken" \in Pcs /\ "woken" \notin Posting
      BY DEF Pcs, Posting
    <3>2. e \in FrameType /\ e.pc = "woken" /\ e.m = NoMsg
      BY <3>1, PlainFrame
    <3>3. stack' = [stack EXCEPT ![t] = <<e>>]
      BY <2>1 DEF DispatchWait
    <3> HIDE DEF e
    <3>4. Pushes(t, <<>>, e)
      BY <1>1, <3>3, FirstPush
    <3> QED
      BY <3>1, <3>2, <3>4, PushShifts
  <2>2. CASE WindowBegin(t)
    <3>1. "wm" \in Pcs /\ "wm" \notin Posting
      BY DEF Pcs, Posting
    <3>2. Head(wq[t]) \in Msgs
      <4>1. wq[t] # <<>> /\ wq[t] \in Seq(Msgs)
        BY <2>2, InvHas DEF WindowBegin, TypeOK
      <4> QED
        BY <4>1
    <3>3. h \in FrameType /\ h.pc = "wm" /\ h.m \in Msgs
      BY <3>1, <3>2, PlainFrame
    <3>4. stack' = [stack EXCEPT ![t] = <<h>>]
      BY <2>2 DEF WindowBegin
    <3> HIDE DEF h
    <3>5. Pushes(t, <<>>, h)
      BY <1>1, <3>4, FirstPush
    <3> QED
      BY <3>1, <3>3, <3>5, PushShifts
  <2> QED
    BY <2>1, <2>2
<1>3. PICK g : /\ Shifts(t, Len(stack[t]) + 1, NoFrame, g) /\ g.pc \notin Posting
               /\ g.m \in Msgs \cup {NoMsg}
  BY <1>2
<1>4. NoFrame.m = NoMsg /\ NoFrame.pc \notin Posting
  BY DEF NoFrame, Frame, Posting
<1> QED
  BY <1>1, <1>3, <1>4, QuietLives

\* The one frame of a stack, which has no message, makes way for another.
LEMMA TakeLives ==
    ASSUME Inv, Inv', InUse, NEW t \in Threads, stack[t] # <<>>,
           Top(t).pc \in {"woken", "exited", "drained"}, UNCHANGED msg, NEW pc \in Pcs \ Posting,
           \/ stack' = [stack EXCEPT ![t] = <<>>]
           \/ /\ queue[t] # <<>>
              /\ stack' = [stack EXCEPT ![t] = <<Frame(pc, Head(queue[t]).m, "none")>>]
    PROVE  Lives
<1>1. Top(t).m = NoMsg /\ Top(t).pc \notin Posting /\ Len(stack[t]) = 1
  <2>1. Top(t).m = NoMsg
    BY InvHas, TopFacts DEF FrameOK
  <2> QED
    BY <2>1, InvHas, BottomAlone DEF BottomPcs, Posting
<1>2. stack[t] \in Seq(FrameType)
  BY InvHas DEF StacksOK
<1> DEFINE h == Frame(pc, Head(queue[t]).m, "none")
<1>3. \E g : /\ Shifts(t, Len(stack[t]), Top(t), g) /\ g.pc \notin Posting
             /\ g.m \in Msgs \cup {NoMsg}
  <2>1. CASE stack' = [stack EXCEPT ![t] = <<>>]
    <3>1. Front(stack[t]) = <<>>
      BY <1>1, <1>2 DEF Front
    <3>2. Pops(t)
      BY <2>1, <3>1 DEF Pops
    <3>3. NoFrame.m = NoMsg /\ NoFrame.pc \notin Posting
      BY DEF NoFrame, Frame, Posting
    <3> QED
      BY <3>2, <3>3, PopShifts
  <2>2. CASE queue[t] # <<>> /\ stack' = [stack EXCEPT ![t] = <<h>>]
    <3>1. Head(queue[t]).m \in Msgs
      <4>1. queue[t] # <<>> /\ queue[t] \in Seq(Entry)
        BY <2>2, InvParts DEF QueuesOK
      <4>2. Head(queue[t]) \in Entry
        BY <4>1
      <4> QED
        BY <4>2 DEF Entry
    <3>2. h \in FrameType /\ h.pc = pc /\ h.m \in Msgs
      BY <3>1, PlainFrame
    <3> HIDE DEF h
    <3>3. WithTop(t, h) = <<h>>
      BY <1>1, <1>2 DEF WithTop
    <3>4. Changes(t, h)
      BY <2>2, <3>3 DEF Changes
    <3> QED
      BY <3>2, <3>4, ChangeShifts
  <2> QED
    BY <2>1, <2>2
<1>4. PICK g : /\ Shifts(t, Len(stack[t]), Top(t), g) /\ g.pc \notin Posting
               /\ g.m \in Msgs \cup {NoMsg}
  BY <1>3
<1> QED
  BY <1>1, <1>4, QuietLives

LEMMA DispatchGetLives ==
    ASSUME Inv, Inv', InUse, NEW t \in Threads, DispatchGet(t)
    PROVE  Lives
<1>1. stack[t] # <<>> /\ Top(t).pc = "woken" /\ UNCHANGED msg
  BY DEF DispatchGet, At
<1>2. queue[t] # <<>>
  BY <1>1, InvParts, TopFacts DEF QueuesShape
<1>3. PICK pc \in {"exit", "callback"} :
        stack' = [stack EXCEPT ![t] = <<Frame(pc, Head(queue[t]).m, "none")>>]
  BY DEF DispatchGet
<1>4. pc \in Pcs \ Posting
  BY DEF Pcs, Posting
<1> QED
  BY <1>1, <1>2, <1>3, <1>4, TakeLives

LEMMA DetachLives ==
    ASSUME Inv, Inv', InUse, NEW t \in Threads, DetachStart(t) \/ DetachNext(t)
    PROVE  Lives
<1>1. /\ stack[t] # <<>> /\ Top(t).pc \in {"exited", "drained"} /\ UNCHANGED msg
      /\ Drain(t)
  BY DEF DetachStart, DetachNext, At
<1>2. \/ stack' = [stack EXCEPT ![t] = <<>>]
      \/ /\ queue[t] # <<>>
         /\ stack' = [stack EXCEPT ![t] = <<Frame("drain", Head(queue[t]).m, "none")>>]
  BY <1>1 DEF Drain
<1>3. "drain" \in Pcs \ Posting
  BY DEF Pcs, Posting
<1> QED
  BY <1>1, <1>2, <1>3, TakeLives

LEMMA WaitLives ==
    ASSUME Inv, Inv', InUse, NEW t \in Threads, Wait(t)
    PROVE  Lives
<1>1. stack[t] # <<>> /\ Top(t).pc = "wait"
  BY DEF Wait, At
<1>2. /\ Top(t) \in FrameType /\ Top(t).m \in Msgs /\ msg[Top(t).m].state = "active"
      /\ msg[Top(t).m] \in MessageType
  BY <1>1, TopActive DEF CallPcs
<1>3. PICK m \in Msgs : Top(t).m = m
  BY <1>2
<1> DEFINE g == [Top(t) EXCEPT !.pc = "waited", !.calls = 0]
           r == [msg[m] EXCEPT !.event = "clear"]
           d == 0
<1>4. g \in FrameType /\ g.pc = "waited" /\ g.m = m
  <2>1. "waited" \in Pcs
    BY DEF Pcs
  <2> QED
    BY <1>2, <1>3, <2>1, MovedFrame
<1>5. Changes(t, g) /\ msg' = [msg EXCEPT ![m] = r]
  BY <1>1, <1>3, InvHas DEF Wait, Changes, Goto, Moved
<1>6. r.state = "active" /\ r.refcount = msg[m].refcount /\ msg[m].refcount \in Nat
  BY <1>2, <1>3 DEF MessageType
<1> HIDE DEF g, r
<1>7. r.refcount + OneIf(g.pc \in Posting) = msg[m].refcount + OneIf(Top(t).pc \in Posting) + d
  <2>1. OneIf(g.pc \in Posting) = 0 /\ OneIf(Top(t).pc \in Posting) = 0
    BY <1>1, <1>4 DEF OneIf, Posting
  <2> QED
    BY <1>6, <2>1
<1>8. msg[m].state = "active" /\ d \in {0, 1}
  BY <1>2, <1>3
<1> HIDE DEF d
<1> QED
  BY <1>1, <1>3, <1>4, <1>5, <1>6, <1>7, <1>8, MoreLives

LEMMA AbortLives ==
    ASSUME Inv, Inv', InUse, NEW t \in Threads, NEW m \in Msgs, Abort(t, m)
    PROVE  Lives
<1>1. msg' = [msg EXCEPT ![m] = [msg[m] EXCEPT !.aborted = TRUE]] /\ UNCHANGED stack
  BY DEF Abort
<1>2. \A x \in Msgs : msg'[x].state = msg[x].state /\ msg'[x].refcount = msg[x].refcount
  BY <1>1, InvHas DEF MessageType
<1>3. \A x \in Msgs : Posters(x)' = Posters(x)
  BY <1>1 DEF Posters, FramesOf, Frames, FrameAt
<1>4. \A x \in Msgs : Load(x)' = Load(x)
  BY <1>2, <1>3 DEF Load
<1>5. Concerns(m)
  BY <1>2, <1>4 DEF Concerns
<1> QED
  BY <1>2, <1>4, <1>5, SameLives

\* The completion thread takes a released message, and has handled it.
LEMMA ComplLives ==
    ASSUME Inv, Inv', InUse, ComplTake \/ HandlerReturn
    PROVE  Lives
<1>1. Compl \in Threads
  BY CallAssumption
<1>2. ASSUME ComplTake PROVE Lives
  <2>1. /\ stack[Compl] = <<>> /\ xfer # <<>>
        /\ msg' = [msg EXCEPT ![Head(xfer)] = [msg[Head(xfer)] EXCEPT !.state = "completing"]]
        /\ stack' = [stack EXCEPT ![Compl] = <<Frame("handler", Head(xfer), "none")>>]
    BY <1>2 DEF ComplTake
  <2>2. Head(xfer) \in Msgs /\ Head(xfer) \in ToSet(xfer)
    BY <2>1, InvParts, TailFacts DEF XferOK, XferExact
  <2>3. PICK m \in Msgs : m = Head(xfer)
    BY <2>2
  <2>4. msg[m].state = "xfer"
    BY <2>2, <2>3, InvParts DEF XferExact
  <2>5. msg'[m].state = "completing" /\ \A x \in Msgs \ {m} : msg'[x] = msg[x]
    BY <2>1, <2>3, InvHas DEF MessageType
  <2> DEFINE g == Frame("handler", m, "none")
  <2>6. g \in FrameType /\ g.m = m
    BY HandlerFrame
  <2>7. stack' = [stack EXCEPT ![Compl] = <<g>>]
    BY <2>1, <2>3
  <2> HIDE DEF g
  <2>8. Pushes(Compl, <<>>, g)
    BY <1>1, <2>1, <2>7, FirstPush
  <2>9. Shifts(Compl, Len(stack[Compl]) + 1, NoFrame, g)
    BY <1>1, <2>6, <2>8, PushShifts
  <2>10. Concerns(m)
    BY <1>1, <2>5, <2>6, <2>9, NoFramePosts, ConcernsOne
  <2> QED
    BY <2>4, <2>5, <2>10, ReleasedLives
<1>3. ASSUME HandlerReturn PROVE Lives
  <2>1. /\ stack[Compl] # <<>> /\ Top(Compl).pc = "handler"
        /\ msg' = [msg EXCEPT ![Top(Compl).m] = FreeMessage]
        /\ stack' = [stack EXCEPT ![Compl] = Front(stack[Compl])]
    BY <1>3 DEF HandlerReturn, At, Return
  <2>2. PICK m \in Msgs : Top(Compl).m = m
    BY <1>1, <2>1, InvParts, TopFacts DEF FrameOK, FrameType
  <2>3. Uses(m).handler >= 1
    <3>1. {"handler"} \in SUBSET Pcs
      BY DEF Pcs
    <3> QED
      BY <1>1, <2>1, <2>2, <3>1, InvParts, TopCounted DEF Uses
  <2>4. msg[m].state = "completing"
    <3>1. Balanced(msg[m], Uses(m))
      BY LedgerTyped
    <3> HIDE DEF Uses
    <3> QED
      BY <2>3, <3>1 DEF Balanced
  <2>5. msg'[m].state = "free" /\ \A x \in Msgs \ {m} : msg'[x] = msg[x]
    BY <2>1, <2>2, InvHas DEF FreeMessage
  <2>6. Pops(Compl)
    BY <2>1 DEF Pops
  <2>7. Shifts(Compl, Len(stack[Compl]), Top(Compl), NoFrame)
    BY <1>1, <2>6, PopShifts
  <2>8. Concerns(m)
    BY <1>1, <2>2, <2>5, <2>7, NoFramePosts, ConcernsOne
  <2> QED
    BY <2>4, <2>5, <2>8, ReleasedLives
<1> QED
  BY <1>2, <1>3

LEMMA StutterLives ==
    ASSUME Inv, Inv', InUse, UNCHANGED vars
    PROVE  Lives
<1>1. UNCHANGED <<msg, stack>>
  BY DEF vars
<1>2. \A x \in Msgs : Posters(x)' = Posters(x)
  BY <1>1 DEF Posters, FramesOf, Frames, FrameAt
<1>3. \A x \in Msgs : msg'[x].state = msg[x].state /\ Load(x)' = Load(x)
  BY <1>1, <1>2 DEF Load
<1>4. Concerns(NoMsg)
  BY <1>3 DEF Concerns
<1> QED
  BY <1>3, <1>4, SameLives

LEMMA ContinueLives ==
    ASSUME Inv, Inv', InUse, NEW t \in Threads, Continue(t)
    PROVE  Lives
<1>1. ASSUME Publishing(t) PROVE Lives
  BY <1>1, PostCheckLives, PostRefLives, PostSendWindowLives, SendWindowCountLives,
     PublishEndLives DEF Publishing
<1>2. ASSUME Waiting(t) PROVE Lives
  BY <1>2, WaitLives, SendReturnLives DEF Waiting
<1>3. ASSUME Returning(t) PROVE Lives
  BY <1>3, DirectReturnLives, SendWindowEndLives, DispatchReturnLives DEF Returning
<1>4. ASSUME Quitting(t) PROVE Lives
  BY <1>4, PostRefLives, QuitPutLives DEF Quitting
<1>5. ASSUME Detaching(t) PROVE Lives
  BY <1>5, DetachLives, DispatchExitLives DEF Detaching
<1> QED
  BY <1>1, <1>2, <1>3, <1>4, <1>5, DispatchGetLives, DispatchExitLives DEF Continue

LEMMA NextLives ==
    NoPostQuit /\ Inv /\ Inv' /\ InUse /\ [Next]_vars => Lives
<1> SUFFICES ASSUME NoPostQuit, Inv, Inv', InUse, [Next]_vars PROVE Lives
  OBVIOUS
<1>1. ASSUME NEW t \in Threads, Begin(t) PROVE Lives
  BY <1>1, PostLives, QuitLives, AbortLives DEF Begin
<1>2. ASSUME NEW t \in Threads, Free(t) PROVE Lives
  BY <1>2, FreeHandleLives DEF Free
<1>3. ASSUME NEW t \in Threads, Continue(t) \/ DispatchWait(t) \/ WindowBegin(t) PROVE Lives
  BY <1>3, ContinueLives, DispatchLives
<1>4. ASSUME ComplTake \/ HandlerReturn PROVE Lives
  BY <1>4, ComplLives
<1>5. ASSUME UNCHANGED vars PROVE Lives
  BY <1>5, StutterLives
<1> QED
  BY <1>1, <1>2, <1>3, <1>4, <1>5 DEF Next

LEMMA InitLives == Init => Life!Init /\ InUse
<1> SUFFICES ASSUME Init PROVE Life!Init /\ InUse
  OBVIOUS
<1>1. Inv
  BY InitInv
<1>2. \A x \in Msgs : msg[x].state = "free"
  BY DEF Init, FreeMessage
<1>3. \A x \in Msgs : Users(x) = 0 /\ Phase(msg[x].state) = "free"
  BY <1>1, <1>2, UsersAre DEF Phase
<1>4. InUse
  BY <1>2 DEF InUse
<1>5. Life!Init
  BY <1>3, SubstIs DEF Life!Init
<1> QED
  BY <1>4, <1>5

\* Every step of KMQ, in the library or in the code that it calls, is one of a
\* message's life or none: the step in which its publisher, its last recipient
\* or its call handle leaves it, whichever is last, releases it, once.  No quit
\* message may be posted: one for a thread that is gone is never released.
THEOREM LifeImplemented == NoPostQuit => (Spec => ImplementsLife)
<1> SUFFICES ASSUME NoPostQuit PROVE Spec => ImplementsLife
  OBVIOUS
<1>1. Init => Inv /\ InUse /\ Life!Init
  BY InitInv, InitLives
<1>2. Inv /\ InUse /\ [Next]_vars => Inv' /\ InUse' /\ [Life!Next]_(Life!vars)
  BY NextInv, NextLives DEF Lives
<1> QED
  BY <1>1, <1>2, PTL DEF Spec, ImplementsLife, Life!Spec
=============================================================================
