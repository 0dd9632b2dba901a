---------------------------- MODULE KherrProofs ----------------------------
(****************************************************************************)
(* Proofs about error contexts: the reference count of a context is the     *)
(* number of its users, it ends once, with nobody left, and its events are  *)
(* committed once, as long as no two threads commit in one context and no   *)
(* walk meets one that ends.                                                *)
(****************************************************************************)
EXTENDS Kherr, SequenceFacts

Fields == {"live", "refcount", "parent", "events", "severity", "err", "desc", "ended"}
CallFields == {"pc", "c", "id", "after", "new", "done"}

LEMMA FieldFacts ==
    /\ DOMAIN Fresh = Fields /\ DOMAIN Free = Fields /\ DOMAIN Idle = CallFields
    /\ Free.live = FALSE /\ Free.refcount = 0 /\ Free.parent = NoCtx /\ Free.ended = 0
    /\ Idle.pc = "idle" /\ Idle.c = NoCtx /\ Idle.done = <<>>
BY DEF Fresh, Free, Idle, Fields, CallFields

\* What the invariant says of a context.
Alike(r, s) == /\ r.live = s.live /\ r.refcount = s.refcount /\ r.parent = s.parent /\ r.ended = s.ended
               /\ DOMAIN r = DOMAIN s
Contexts(k) == DOMAIN k = Ctxs /\ \A c \in Ctxs : DOMAIN k[c] = Fields

-----------------------------------------------------------------------------
(* How the users of a context change.                                       *)

LEMMA StackedGrows ==
    ASSUME Shape, NEW t \in Threads, NEW c \in Ctxs, stack' = [stack EXCEPT ![t] = Append(@, c)]
    PROVE  /\ Stacked(c)' = Stacked(c) \cup {<<"stack", t, Len(stack[t]) + 1>>}
           /\ <<"stack", t, Len(stack[t]) + 1>> \notin Stacked(c)
           /\ \A d \in Ctxs \ {c} : Stacked(d)' = Stacked(d)
           /\ stack' \in [Threads -> Seq(Ctxs)] /\ \A u \in Threads \ {t} : stack'[u] = stack[u]
<1> DEFINE n == Len(stack[t])
<1>1. /\ stack[t] \in Seq(Ctxs) /\ stack'[t] = Append(stack[t], c) /\ stack'[t] \in Seq(Ctxs)
      /\ \A u \in Threads \ {t} : stack'[u] = stack[u]
      /\ stack' \in [Threads -> Seq(Ctxs)]
  BY DEF Shape
<1>2. /\ n \in Nat /\ DOMAIN stack[t] = 1 .. n /\ DOMAIN stack'[t] = 1 .. n + 1
      /\ stack'[t][n + 1] = c /\ \A i \in 1 .. n : stack'[t][i] = stack[t][i]
  BY <1>1
<1>3. /\ n + 1 \in DOMAIN stack'[t] /\ n + 1 \notin DOMAIN stack[t]
      /\ \A i : i \in DOMAIN stack'[t] <=> i \in DOMAIN stack[t] \/ i = n + 1
      /\ \A i \in DOMAIN stack[t] : stack'[t][i] = stack[t][i]
  BY <1>2
<1> HIDE DEF n
<1>4. Stacked(c)' = Stacked(c) \cup {<<"stack", t, n + 1>>}
  BY <1>1, <1>2, <1>3 DEF Stacked
<1>5. <<"stack", t, n + 1>> \notin Stacked(c)
  BY <1>3 DEF Stacked
<1>6. \A d \in Ctxs \ {c} : Stacked(d)' = Stacked(d)
  BY <1>1, <1>2, <1>3 DEF Stacked
<1> QED
  BY <1>1, <1>4, <1>5, <1>6 DEF n

LEMMA StackedShrinks ==
    ASSUME Shape, NEW t \in Threads, stack[t] # <<>>, stack' = [stack EXCEPT ![t] = Front(@)],
           NEW c, c = Top(t)
    PROVE  /\ c \in Ctxs
           /\ <<"stack", t, Len(stack[t])>> \in Stacked(c)
           /\ Stacked(c)' = Stacked(c) \ {<<"stack", t, Len(stack[t])>>}
           /\ \A d \in Ctxs \ {c} : Stacked(d)' = Stacked(d)
           /\ stack' \in [Threads -> Seq(Ctxs)] /\ \A u \in Threads \ {t} : stack'[u] = stack[u]
<1> DEFINE n == Len(stack[t])
<1>1. /\ stack[t] \in Seq(Ctxs) /\ stack'[t] = Front(stack[t])
      /\ \A u \in Threads \ {t} : stack'[u] = stack[u]
  BY DEF Shape
<1>2. /\ n \in Nat \ {0} /\ DOMAIN stack[t] = 1 .. n /\ c = stack[t][n] /\ c \in Ctxs
  BY <1>1 DEF Top, Last
<1>3. /\ stack'[t] \in Seq(Ctxs) /\ DOMAIN stack'[t] = 1 .. n - 1
      /\ \A i \in 1 .. n - 1 : stack'[t][i] = stack[t][i]
  BY <1>1, <1>2, FrontFacts
<1>4. stack' \in [Threads -> Seq(Ctxs)]
  BY <1>1, <1>3 DEF Shape
<1>5. /\ n \in DOMAIN stack[t] /\ n \notin DOMAIN stack'[t]
      /\ \A i : i \in DOMAIN stack[t] <=> i \in DOMAIN stack'[t] \/ i = n
      /\ \A i \in DOMAIN stack'[t] : stack'[t][i] = stack[t][i]
  BY <1>2, <1>3
<1> HIDE DEF n
<1>6. <<"stack", t, n>> \in Stacked(c)
  BY <1>2, <1>5 DEF Stacked
<1>7. Stacked(c)' = Stacked(c) \ {<<"stack", t, n>>}
  BY <1>1, <1>2, <1>5 DEF Stacked
<1>8. \A d \in Ctxs \ {c} : Stacked(d)' = Stacked(d)
  BY <1>1, <1>2, <1>5 DEF Stacked
<1> QED
  BY <1>1, <1>2, <1>4, <1>6, <1>7, <1>8 DEF n

\* The parts of Uses have nothing in common.
LEMMA Parts ==
    ASSUME NEW c
    PROVE  /\ \A x \in Stacked(c) : x[1] = "stack"
           /\ \A x \in Posted(c) : x[1] = "message"
           /\ \A x \in Walked(c) : x[1] = "cursor"
           /\ \A x \in LeftAt(c) : x[1] = "left"
           /\ \A x \in Childs(c) : x[1] = "child"
           /\ \A x \in Folded(c) : x[1] = "fold"
BY DEF Stacked, Posted, Walked, LeftAt, Childs, Folded

\* What a thread's call holds.
LEMMA CallUses ==
    ASSUME NEW t \in Threads, \A u \in Threads \ {t} : op'[u] = op[u], NEW c
    PROVE  /\ LeftAt(c)' \ {<<"left", t, 0>>} = LeftAt(c) \ {<<"left", t, 0>>}
           /\ <<"left", t, 0>> \in LeftAt(c) <=> op[t].pc = "left" /\ op[t].c = c
           /\ <<"left", t, 0>> \in LeftAt(c)' <=> op'[t].pc = "left" /\ op'[t].c = c
           /\ Folded(c)' \ {<<"fold", t, 0>>} = Folded(c) \ {<<"fold", t, 0>>}
           /\ <<"fold", t, 0>> \in Folded(c) <=> FoldHeld(t) /\ op[t].c = c
           /\ <<"fold", t, 0>> \in Folded(c)' <=> FoldHeld(t)' /\ op'[t].c = c
BY DEF LeftAt, Folded, FoldHeld

LEMMA ChildsSame ==
    ASSUME NEW c, \A d \in Ctxs : ctx'[d].live /\ ctx'[d].parent = c <=> ctx[d].live /\ ctx[d].parent = c
    PROVE  Childs(c)' = Childs(c)
BY DEF Childs, Children

-----------------------------------------------------------------------------
(* Steps that keep the counts exact.                                        *)

\* A context keeps its count: at most one use p goes and one use q comes.
ExactAt(c) == /\ IsFiniteSet(Uses(c))
              /\ IF ctx[c].live THEN ctx[c].refcount = Cardinality(Uses(c)) ELSE Uses(c) = {}

LEMMA UseFacts ==
    ASSUME Exact, NEW c \in Ctxs
    PROVE  /\ ExactAt(c) /\ IsFiniteSet(Uses(c)) /\ Cardinality(Uses(c)) \in Nat
           /\ Uses(c) # {} => ctx[c].live /\ ctx[c].refcount >= 1 /\ ctx[c].refcount \in Nat
           /\ ctx[c].refcount = 0 => Uses(c) = {}
<1>1. ExactAt(c) /\ IsFiniteSet(Uses(c))
  BY DEF Exact, ExactAt
<1>2. Cardinality(Uses(c)) \in Nat /\ (Cardinality(Uses(c)) = 0 <=> Uses(c) = {})
  BY <1>1, FS_CardinalityType, FS_EmptySet
<1> QED
  BY <1>1, <1>2 DEF ExactAt

LEMMA ExactSame ==
    ASSUME Exact, NEW c \in Ctxs, Uses(c)' = Uses(c),
           ctx'[c].live = ctx[c].live, ctx'[c].refcount = ctx[c].refcount
    PROVE  ExactAt(c)'
BY DEF Exact, ExactAt

LEMMA ExactMoves ==
    ASSUME Exact, NEW c \in Ctxs, NEW p, NEW q,
           p \in Uses(c), q \notin Uses(c), Uses(c)' = (Uses(c) \ {p}) \cup {q},
           ctx'[c].live = ctx[c].live, ctx'[c].refcount = ctx[c].refcount
    PROVE  ExactAt(c)'
<1>1. IsFiniteSet(Uses(c)) /\ Cardinality(Uses(c)) \in Nat /\ ctx[c].live /\ ctx[c].refcount = Cardinality(Uses(c))
  BY UseFacts DEF ExactAt
<1> DEFINE R == Uses(c) \ {p}
<1>2. IsFiniteSet(R) /\ Cardinality(R) = Cardinality(Uses(c)) - 1 /\ q \notin R
  BY <1>1, FS_RemoveElement
<1>3. IsFiniteSet(R \cup {q}) /\ Cardinality(R \cup {q}) = Cardinality(R) + 1
  BY <1>2, FS_AddElement
<1> HIDE DEF R
<1>4. Cardinality(R \cup {q}) = Cardinality(Uses(c))
  BY <1>1, <1>2, <1>3
<1>5. Uses(c)' = R \cup {q}
  BY DEF R
<1> QED
  BY <1>1, <1>3, <1>4, <1>5 DEF ExactAt

LEMMA ExactMore ==
    ASSUME Exact, NEW c \in Ctxs, NEW q,
           q \notin Uses(c), Uses(c)' = Uses(c) \cup {q},
           ctx[c].live, ctx'[c].live, ctx'[c].refcount = ctx[c].refcount + 1
    PROVE  ExactAt(c)'
<1>1. IsFiniteSet(Uses(c)) /\ Cardinality(Uses(c)) \in Nat /\ ctx[c].refcount = Cardinality(Uses(c))
  BY UseFacts DEF ExactAt
<1>2. IsFiniteSet(Uses(c) \cup {q}) /\ Cardinality(Uses(c) \cup {q}) = Cardinality(Uses(c)) + 1
  BY <1>1, FS_AddElement
<1> QED
  BY <1>1, <1>2 DEF ExactAt

LEMMA ExactNew ==
    ASSUME NEW c \in Ctxs, NEW q, Uses(c)' = {q}, ctx'[c].refcount = 1, ctx'[c].live
    PROVE  ExactAt(c)'
<1>1. IsFiniteSet({q}) /\ Cardinality({q}) = 1
  BY FS_Singleton
<1> QED
  BY <1>1 DEF ExactAt

LEMMA ExactLess ==
    ASSUME Exact, NEW c \in Ctxs, NEW p,
           p \in Uses(c), Uses(c)' = Uses(c) \ {p},
           ctx'[c].live, ctx'[c].refcount = ctx[c].refcount - 1
    PROVE  ExactAt(c)'
<1>1. IsFiniteSet(Uses(c)) /\ Cardinality(Uses(c)) \in Nat /\ ctx[c].live /\ ctx[c].refcount = Cardinality(Uses(c))
  BY UseFacts DEF ExactAt
<1>2. IsFiniteSet(Uses(c) \ {p}) /\ Cardinality(Uses(c) \ {p}) = Cardinality(Uses(c)) - 1
  BY <1>1, FS_RemoveElement
<1> QED
  BY <1>1, <1>2 DEF ExactAt

LEMMA ExactFree ==
    ASSUME NEW c \in Ctxs, Uses(c)' = {}, ~ ctx'[c].live
    PROVE  ExactAt(c)'
BY FS_EmptySet DEF ExactAt

LEMMA ExactUnused ==
    ASSUME NEW c \in Ctxs, Uses(c)' = {}, ctx'[c].refcount = 0
    PROVE  ExactAt(c)'
BY FS_EmptySet DEF ExactAt

LEMMA ExactAll ==
    ASSUME \A c \in Ctxs : ExactAt(c)'
    PROVE  Exact'
BY DEF Exact, ExactAt

-----------------------------------------------------------------------------
(* A thread's step, seen by the others.                                     *)

\* What t has to itself: nobody else ends it or has ended it.
Own(t, c) == Engaged(t, c) \/ c \in Over(t)

LEMMA OwnFacts ==
    ASSUME IInv, NEW t \in Threads, NEW u \in Threads \ {t}, NEW c \in Ctxs, Own(t, c)
    PROVE  ~ Engaged(u, c) /\ c \notin Over(u)
BY DEF IInv, OneEngaged, EndedApart, Own

\* What has users is not being ended, and was not.
LEMMA UsedFacts ==
    ASSUME IInv, NEW c \in Ctxs, ctx[c].refcount # 0 \/ ~ ctx[c].live
    PROVE  \A t \in Threads : ~ Ending(t, c) /\ c \notin Over(t)
BY DEF IInv, Within, WithinCall, EndedApart, Ending

LEMMA CallMoves ==
    ASSUME IInv, Shape', Exact', NEW t \in Threads,
           \A u \in Threads \ {t} : op'[u] = op[u] /\ stack'[u] = stack[u],
           \A c \in Ctxs : \/ /\ ctx'[c].live = ctx[c].live /\ ctx'[c].refcount = ctx[c].refcount
                              /\ ctx'[c].parent = ctx[c].parent /\ ctx'[c].ended = ctx[c].ended
                           \/ ctx'[c].live /\ ctx[c].refcount # 0
                           \/ ~ ctx[c].live
                           \/ Own(t, c),
           \A c \in Ctxs : Engaged(t, c)' => \/ Engaged(t, c)
                                             \/ ctx[c].refcount # 0 /\ \A u \in Threads \ {t} : ~ Engaged(u, c),
           \A c \in Ctxs : c \in Over(t)' => Own(t, c),
           WithinCall(t)',
           \A c \in Over(t)' : /\ ctx'[c].live /\ ctx'[c].refcount = 0 /\ ctx'[c].parent = NoCtx
                               /\ ~ Engaged(t, c)',
           \A c \in Ctxs : IF Ending(t, c)' THEN ctx'[c].ended = 1
                           ELSE \/ ~ Ending(t, c) /\ ctx'[c].ended = ctx[c].ended
                                \/ (Ending(t, c) \/ ~ ctx[c].live) /\ ctx'[c].ended = 0
    PROVE  IInv'
<1>1. \A u \in Threads \ {t} : \A c \in Ctxs : /\ Engaged(u, c)' <=> Engaged(u, c)
                                               /\ Ending(u, c)' <=> Ending(u, c)
                                               /\ c \in Over(u)' <=> c \in Over(u)
  BY DEF Engaged, Ending, Over
<1>2. \A u \in Threads : \A c \in Over(u) \cup Over(u)' : c \in Ctxs
  <2>1. \A u \in Threads : op[u].done \in Seq(Ctxs) /\ op'[u].done \in Seq(Ctxs)
    BY DEF IInv, Shape
  <2> QED
    BY <2>1 DEF Over, Range
<1>3. \A u \in Threads \ {t} : \A c \in Ctxs : Engaged(u, c) \/ c \in Over(u) => ~ Own(t, c)
  BY OwnFacts
<1>4. \A u \in Threads \ {t} : \A c \in Ctxs : Ending(u, c) \/ c \in Over(u) =>
        /\ ctx'[c].live = ctx[c].live /\ ctx'[c].refcount = ctx[c].refcount
        /\ ctx'[c].parent = ctx[c].parent /\ ctx'[c].ended = ctx[c].ended
  <2> SUFFICES ASSUME NEW u \in Threads \ {t}, NEW c \in Ctxs, Ending(u, c) \/ c \in Over(u)
               PROVE  ctx[c].live /\ ctx[c].refcount = 0 /\ ~ Own(t, c)
    OBVIOUS
  <2>1. ctx[c].live /\ ctx[c].refcount = 0
    BY UsedFacts
  <2>2. Engaged(u, c) \/ c \in Over(u)
    BY DEF Ending, Engaged
  <2> QED
    BY <1>3, <2>1, <2>2
<1>5. \A u \in Threads \ {t} : \A c \in Ctxs : Engaged(u, c) => ctx'[c].live
  <2> SUFFICES ASSUME NEW u \in Threads \ {t}, NEW c \in Ctxs, Engaged(u, c)
               PROVE  ctx'[c].live
    OBVIOUS
  <2>1. ctx[c].live
    BY DEF IInv, Within, WithinCall, Engaged
  <2> QED
    BY <1>3, <2>1
<1>6. Within'
  <2>1. ASSUME NEW u \in Threads \ {t} PROVE WithinCall(u)'
    <3>1. WithinCall(u) /\ op'[u] = op[u] /\ stack'[u] = stack[u]
      BY DEF IInv, Within
    <3>2. op[u].pc \in {"commit", "error"} => op[u].c \in Ctxs /\ ctx'[op[u].c].live
      BY <1>5, <3>1 DEF WithinCall, Engaged
    <3>3. op[u].pc = "end" => /\ op[u].c \in Ctxs /\ ctx'[op[u].c].live
                              /\ ctx'[op[u].c].refcount = 0 /\ ctx'[op[u].c].ended = 1
      BY <1>4, <3>1 DEF WithinCall, Ending
    <3>4. Top(u)' = Top(u)
      BY <3>1 DEF Top
    <3> QED
      BY <3>1, <3>2, <3>3, <3>4 DEF WithinCall
  <2> QED
    BY <2>1 DEF Within
<1>7. OneEngaged'
  <2>1. ASSUME NEW u \in Threads \ {t}, NEW c \in Ctxs, Engaged(t, c)', Engaged(u, c)' PROVE FALSE
    BY <1>1, <2>1, <1>3 DEF Own
  <2>2. \A u, v \in Threads \ {t} : \A c \in Ctxs : Engaged(u, c)' /\ Engaged(v, c)' => u = v
    BY <1>1 DEF IInv, OneEngaged
  <2> QED
    BY <2>1, <2>2 DEF OneEngaged
<1>8. EndedApart'
  <2>1. ASSUME NEW c \in Over(t)'
        PROVE  /\ ctx'[c].live /\ ctx'[c].refcount = 0 /\ ctx'[c].parent = NoCtx
               /\ \A u \in Threads : ~ Engaged(u, c)' /\ (c \in Over(u)' => u = t)
    <3>1. c \in Ctxs /\ Own(t, c)
      BY <1>2, <2>1
    <3>2. \A u \in Threads \ {t} : ~ Engaged(u, c) /\ c \notin Over(u)
      BY <3>1, OwnFacts
    <3> QED
      BY <1>1, <2>1, <3>1, <3>2
  <2>2. ASSUME NEW u \in Threads \ {t}, NEW c \in Over(u)'
        PROVE  /\ ctx'[c].live /\ ctx'[c].refcount = 0 /\ ctx'[c].parent = NoCtx
               /\ \A v \in Threads : ~ Engaged(v, c)' /\ (c \in Over(v)' => v = u)
    <3>1. c \in Ctxs /\ c \in Over(u)
      BY <1>1, <1>2, <2>2
    <3>2. /\ ctx[c].live /\ ctx[c].refcount = 0 /\ ctx[c].parent = NoCtx
          /\ \A v \in Threads : ~ Engaged(v, c) /\ (c \in Over(v) => v = u)
      BY <3>1 DEF IInv, EndedApart
    <3>3. ~ Engaged(t, c)' /\ c \notin Over(t)'
      BY <3>1, <3>2 DEF Own
    <3> QED
      BY <1>1, <1>4, <3>1, <3>2, <3>3
  <2> QED
    BY <2>1, <2>2 DEF EndedApart
<1>9. EndCounted'
  <2> SUFFICES ASSUME NEW c \in Ctxs
               PROVE  /\ (\E u \in Threads : Ending(u, c)') => ctx'[c].ended = 1
                      /\ (\A u \in Threads : ~ Ending(u, c)') => ctx'[c].ended = 0
    BY DEF EndCounted
  <2>1. /\ (\E u \in Threads : Ending(u, c)) => ctx[c].ended = 1
        /\ (\A u \in Threads : ~ Ending(u, c)) => ctx[c].ended = 0
    BY DEF IInv, EndCounted
  <2>2. ASSUME NEW u \in Threads \ {t}, Ending(u, c)' PROVE ctx'[c].ended = 1
    BY <1>1, <1>4, <2>1, <2>2
  <2>3. (\A u \in Threads : ~ Ending(u, c)') => ctx'[c].ended = 0
    BY <1>1, <2>1
  <2> QED
    BY <2>2, <2>3
<1> QED
  BY <1>6, <1>7, <1>8, <1>9 DEF IInv

-----------------------------------------------------------------------------
(* How a call leaves cs_error: in the handlers of an event of c, of the end of*)
(* c or of a fold in c, or done.                                            *)

Same(k) == \A d \in Ctxs : Alike(ctx'[d], k[d])

\* k is what the call has made of the contexts, a what comes after a commit.
Outcome(t, k, c, rec, a) ==
    /\ DOMAIN op' = Threads /\ DOMAIN op'[t] = CallFields /\ DOMAIN ctx' = Ctxs
    /\ \A u \in Threads \ {t} : op'[u] = op[u]
    /\ \/ /\ op'[t].pc \in {"commit", "error"} /\ op'[t].c = c /\ op'[t].done = rec.done /\ op'[t].after = a
          /\ Same(k)
       \/ /\ a = "count" /\ k[c].refcount = 0
          /\ op'[t].pc = "end" /\ op'[t].c = c /\ op'[t].done = rec.done
          /\ ctx'[c].live = k[c].live /\ ctx'[c].refcount = k[c].refcount /\ ctx'[c].parent = k[c].parent
          /\ ctx'[c].ended = k[c].ended + 1 /\ DOMAIN ctx'[c] = DOMAIN k[c]
          /\ \A d \in Ctxs \ {c} : Alike(ctx'[d], k[d])
       \/ /\ a = "put" /\ rec.done # <<>>
          /\ op'[t].pc = "folded" /\ op'[t].c = c /\ op'[t].done = rec.done
          /\ Same(k)
       \/ /\ a = "put" => rec.done = <<>>
          /\ op'[t].pc = "idle" /\ op'[t].c = NoCtx /\ op'[t].done = <<>>
          /\ \A d \in Ctxs : IF d \in Range(rec.done) THEN ctx'[d] = Free ELSE Alike(ctx'[d], k[d])

LEMMA GotoFacts ==
    ASSUME DOMAIN op = Threads, NEW t \in Threads, NEW rec, Goto(t, rec)
    PROVE  DOMAIN op' = Threads /\ op'[t] = rec /\ \A u \in Threads \ {t} : op'[u] = op[u]
BY DEF Goto

LEMMA FinishOutcome ==
    ASSUME DOMAIN op = Threads, NEW t \in Threads, NEW k, Contexts(k), NEW c, NEW rec,
           NEW a, a = "put" => rec.done = <<>>, Finish(t, k, rec)
    PROVE  Outcome(t, k, c, rec, a)
<1>1. /\ DOMAIN op' = Threads /\ op'[t] = Idle /\ \A u \in Threads \ {t} : op'[u] = op[u]
      /\ ctx' = [d \in Ctxs |-> IF d \in Range(rec.done) THEN Free ELSE k[d]]
  BY GotoFacts DEF Finish
<1>2. \A d \in Ctxs : IF d \in Range(rec.done) THEN ctx'[d] = Free ELSE Alike(ctx'[d], k[d])
  BY <1>1 DEF Alike
<1> QED
  BY <1>1, <1>2, FieldFacts DEF Outcome

LEMMA CommitOutcome ==
    ASSUME DOMAIN op = Threads, NEW t \in Threads, NEW k, Contexts(k), NEW c \in Ctxs, NEW rec,
           DOMAIN rec = CallFields, NEW a, Commit(t, k, c, [rec EXCEPT !.after = a])
    PROVE  Outcome(t, k, c, rec, a)
<1> DEFINE go == [[rec EXCEPT !.after = a] EXCEPT !.pc = "commit", !.c = c, !.id = Last(k[c].events).id]
<1>1. /\ DOMAIN op' = Threads /\ op'[t] = go /\ \A u \in Threads \ {t} : op'[u] = op[u]
  BY GotoFacts DEF Commit
<1>2. DOMAIN go = CallFields /\ go.pc = "commit" /\ go.c = c /\ go.after = a /\ go.done = rec.done
  BY DEF CallFields
<1> HIDE DEF go
<1>3. ctx' = [k EXCEPT ![c].events[Len(k[c].events)].notified = @ + 1]
  BY DEF Commit
<1>4. DOMAIN ctx' = Ctxs /\ Same(k)
  BY <1>3 DEF Contexts, Same, Alike, Fields
<1> QED
  BY <1>1, <1>2, <1>4 DEF Outcome

LEMMA PutOutcome ==
    ASSUME DOMAIN op = Threads, NEW t \in Threads, NEW k, Contexts(k), NEW c \in Ctxs, NEW rec,
           DOMAIN rec = CallFields, Put(t, k, c, rec)
    PROVE  Outcome(t, k, c, rec, "put")
<1> DEFINE put == [k EXCEPT ![c].events = Append(@, Event(NewId(c), rec.new, t))]
<1>1. Contexts(put) /\ \A d \in Ctxs : Alike(put[d], k[d])
  BY DEF Contexts, Alike, Fields
<1>2. CASE rec.done = <<>>
  <2>1. Finish(t, put, rec)
    BY <1>2 DEF Put
  <2>2. Outcome(t, put, c, rec, "put")
    BY <1>1, <1>2, <2>1, FinishOutcome
  <2> HIDE DEF put
  <2> QED
    BY <1>1, <1>2, <2>2 DEF Outcome, Same, Alike
<1>3. CASE rec.done # <<>>
  <2> DEFINE go == [rec EXCEPT !.pc = "folded", !.c = c]
  <2>1. ctx' = put /\ Goto(t, go)
    BY <1>3 DEF Put
  <2>2. DOMAIN op' = Threads /\ op'[t] = go /\ \A u \in Threads \ {t} : op'[u] = op[u]
    BY <2>1, GotoFacts
  <2>3. DOMAIN go = CallFields /\ go.pc = "folded" /\ go.c = c /\ go.done = rec.done
    BY DEF CallFields
  <2>4. DOMAIN ctx' = Ctxs /\ Same(k)
    BY <1>1, <2>1 DEF Contexts, Same
  <2> HIDE DEF go
  <2> QED
    BY <1>3, <2>2, <2>3, <2>4 DEF Outcome
<1> QED
  BY <1>2, <1>3

LEMMA CountOutcome ==
    ASSUME DOMAIN op = Threads, NEW t \in Threads, NEW k, Contexts(k), NEW c \in Ctxs, NEW rec,
           DOMAIN rec = CallFields, Count(t, k, c, rec)
    PROVE  Outcome(t, k, c, rec, "count")
<1>1. CASE k[c].refcount # 0
  BY <1>1, FinishOutcome DEF Count
<1>2. CASE k[c].refcount = 0
  <2> DEFINE go == [rec EXCEPT !.pc = "end", !.c = c]
  <2>1. ctx' = [k EXCEPT ![c].ended = @ + 1] /\ Goto(t, go)
    BY <1>2 DEF Count
  <2>2. DOMAIN op' = Threads /\ op'[t] = go /\ \A u \in Threads \ {t} : op'[u] = op[u]
    BY <2>1, GotoFacts
  <2>3. DOMAIN go = CallFields /\ go.pc = "end" /\ go.c = c /\ go.done = rec.done
    BY DEF CallFields
  <2> HIDE DEF go
  <2>4. /\ DOMAIN ctx' = Ctxs
        /\ ctx'[c].live = k[c].live /\ ctx'[c].refcount = k[c].refcount /\ ctx'[c].parent = k[c].parent
        /\ ctx'[c].ended = k[c].ended + 1 /\ DOMAIN ctx'[c] = DOMAIN k[c]
        /\ \A d \in Ctxs \ {c} : Alike(ctx'[d], k[d])
    BY <2>1 DEF Contexts, Alike, Fields
  <2> QED
    BY <1>2, <2>2, <2>3, <2>4 DEF Outcome
<1> QED
  BY <1>1, <1>2

LEMMA AddEventOutcome ==
    ASSUME DOMAIN op = Threads, NEW t \in Threads, NEW k, Contexts(k), NEW c \in Ctxs, NEW rec,
           DOMAIN rec = CallFields, AddEvent(t, k, c, rec)
    PROVE  Outcome(t, k, c, rec, "put")
BY CommitOutcome, PutOutcome DEF AddEvent

\* release_context gives one reference back.
Lessened(k, c) == [k EXCEPT ![c].refcount = ctx[c].refcount - 1]

LEMMA ReleaseOutcome ==
    ASSUME DOMAIN op = Threads, NEW t \in Threads, NEW k, Contexts(k), NEW c \in Ctxs, NEW rec,
           DOMAIN rec = CallFields, Release(t, k, c, rec)
    PROVE  Outcome(t, Lessened(k, c), c, rec, "count")
<1>1. Contexts(Lessened(k, c))
  BY DEF Contexts, Lessened, Fields
<1>2. \/ Commit(t, Lessened(k, c), c, [rec EXCEPT !.after = "count"])
      \/ Count(t, Lessened(k, c), c, rec)
  BY DEF Release, Lessened, Less
<1> QED
  BY <1>1, <1>2, CommitOutcome, CountOutcome

LEMMA LessenedFacts ==
    ASSUME NEW k, Contexts(k), NEW c \in Ctxs
    PROVE  /\ Contexts(Lessened(k, c))
           /\ \A d \in Ctxs \ {c} : Lessened(k, c)[d] = k[d]
           /\ Lessened(k, c)[c].refcount = ctx[c].refcount - 1
           /\ Lessened(k, c)[c].live = k[c].live /\ Lessened(k, c)[c].parent = k[c].parent
           /\ Lessened(k, c)[c].ended = k[c].ended
BY DEF Contexts, Lessened, Fields

LEMMA AfterOutcome ==
    ASSUME DOMAIN op = Threads, NEW t \in Threads, NEW k, Contexts(k), op[t].c \in Ctxs,
           DOMAIN op[t] = CallFields, op[t].after \in {"put", "count"}, After(t, k)
    PROVE  Outcome(t, k, op[t].c, op[t], op[t].after)
<1>1. CASE op[t].after = "put"
  BY <1>1, PutOutcome DEF After
<1>2. CASE op[t].after = "count"
  BY <1>2, CountOutcome DEF After
<1> QED
  BY <1>1, <1>2

\* What a call may leave cs_error with.
Ready(t, k, c, rec) ==
    /\ Contexts(k)
    /\ \A d \in Ctxs : /\ k[d].refcount \in Int /\ k[d].parent \in Ctxs \cup {NoCtx}
                       /\ k[d].live = ctx[d].live /\ k[d].ended = ctx[d].ended
                       /\ \/ k[d].refcount = ctx[d].refcount /\ k[d].parent = ctx[d].parent
                          \/ ctx[d].live /\ ctx[d].refcount # 0
                          \/ Own(t, d)
    /\ DOMAIN rec = CallFields /\ rec.done \in Seq(Ctxs)
    /\ c \in Ctxs /\ ctx[c].live /\ c \notin Range(rec.done)
    /\ \/ Engaged(t, c)
       \/ ctx[c].refcount # 0 /\ \A u \in Threads \ {t} : ~ Engaged(u, c)
    /\ \A d \in Ctxs : Ending(t, d) <=> d \in Range(rec.done)
    /\ \A d \in Range(rec.done) : k[d].refcount = 0 /\ k[d].parent = NoCtx

LEMMA ReadyFacts ==
    ASSUME IInv, NEW t \in Threads, NEW k, NEW c, NEW rec, Ready(t, k, c, rec)
    PROVE  /\ Range(rec.done) \subseteq Ctxs
           /\ \A d \in Range(rec.done) : ctx[d].live /\ ctx[d].refcount = 0 /\ ctx[d].ended = 1 /\ Own(t, d)
           /\ ctx[c].ended = 0 /\ \A u \in Threads : ~ Ending(u, c)
<1>1. Range(rec.done) \subseteq Ctxs
  BY DEF Ready, Range
<1>2. ASSUME NEW d \in Range(rec.done)
      PROVE  ctx[d].live /\ ctx[d].refcount = 0 /\ ctx[d].ended = 1 /\ Own(t, d)
  <2>1. d \in Ctxs /\ Ending(t, d)
    BY <1>1 DEF Ready
  <2>2. ctx[d].live /\ ctx[d].refcount = 0
    BY <2>1, UsedFacts
  <2>3. ctx[d].ended = 1
    BY <2>1 DEF IInv, EndCounted
  <2>4. Own(t, d)
    BY <2>1 DEF Ending, Own, Engaged
  <2> QED
    BY <2>2, <2>3, <2>4
<1>3. \A u \in Threads : ~ Ending(u, c)
  <2>1. c \in Ctxs /\ ~ Ending(t, c)
    BY DEF Ready
  <2>2. CASE Engaged(t, c)
    <3>1. \A u \in Threads \ {t} : ~ Engaged(u, c) /\ c \notin Over(u)
      BY <2>1, <2>2, OwnFacts DEF Own
    <3> QED
      BY <2>1, <3>1 DEF Ending, Engaged
  <2>3. CASE ctx[c].refcount # 0
    BY <2>1, <2>3, UsedFacts
  <2> QED
    BY <2>2, <2>3 DEF Ready
<1>4. ctx[c].ended = 0
  BY <1>3 DEF IInv, EndCounted, Ready
<1> QED
  BY <1>1, <1>2, <1>3, <1>4

\* Who uses the contexts when a call has left cs_error.
LEMMA OutcomeUses ==
    ASSUME IInv, NEW t \in Threads, NEW k, NEW c, NEW rec, NEW a \in {"put", "count"},
           Ready(t, k, c, rec), Outcome(t, k, c, rec, a), NEW d \in Ctxs
    PROVE  /\ LeftAt(d)' = LeftAt(d) \ {<<"left", t, 0>>}
           /\ a = "put" /\ rec.done # <<>> /\ d = c => Folded(d)' = (Folded(d) \ {<<"fold", t, 0>>}) \cup {<<"fold", t, 0>>}
           /\ ~ (a = "put" /\ rec.done # <<>> /\ d = c) => Folded(d)' = Folded(d) \ {<<"fold", t, 0>>}
           /\ (\A e \in Ctxs : k[e].parent = d <=> ctx[e].parent = d) => Childs(d)' = Childs(d)
           /\ ctx'[d].refcount = k[d].refcount /\ ctx'[d].parent = k[d].parent
           /\ d \notin Range(rec.done) => ctx'[d].live = ctx[d].live
           /\ d \in Range(rec.done) => Uses(d) = {}
<1>1. \A u \in Threads \ {t} : op'[u] = op[u]
  BY DEF Outcome
<1>2. op'[t].pc # "left" /\ (FoldHeld(t)' /\ op'[t].c = d <=> a = "put" /\ rec.done # <<>> /\ d = c)
  <2>1. op'[t].pc \in {"commit", "error", "end", "folded", "idle"}
    BY DEF Outcome
  <2>2. FoldHeld(t)' /\ op'[t].c = d => a = "put" /\ rec.done # <<>> /\ d = c
    BY DEF Outcome, FoldHeld
  <2>3. a = "put" /\ rec.done # <<>> /\ d = c => FoldHeld(t)' /\ op'[t].c = d
    BY DEF Outcome, FoldHeld
  <2> QED
    BY <2>1, <2>2, <2>3
<1>3. /\ <<"left", t, 0>> \notin LeftAt(d)'
      /\ <<"fold", t, 0>> \in Folded(d)' <=> a = "put" /\ rec.done # <<>> /\ d = c
      /\ LeftAt(d)' \ {<<"left", t, 0>>} = LeftAt(d) \ {<<"left", t, 0>>}
      /\ Folded(d)' \ {<<"fold", t, 0>>} = Folded(d) \ {<<"fold", t, 0>>}
  BY <1>1, <1>2, CallUses
<1>4. \A e \in Ctxs : /\ ctx'[e].refcount = k[e].refcount /\ ctx'[e].parent = k[e].parent
                      /\ e \notin Range(rec.done) => ctx'[e].live = ctx[e].live
                      /\ e \in Range(rec.done) => ctx'[e].parent = NoCtx
  BY FieldFacts DEF Outcome, Ready, Same, Alike
<1>5. NoCtx \notin Ctxs
  BY KherrAssumption
<1>6. ASSUME \A e \in Ctxs : k[e].parent = d <=> ctx[e].parent = d
      PROVE  Childs(d)' = Childs(d)
  <2>1. ASSUME NEW e \in Ctxs
        PROVE  ctx'[e].live /\ ctx'[e].parent = d <=> ctx[e].live /\ ctx[e].parent = d
    BY <1>4, <1>5, <1>6
  <2> QED
    BY <2>1, ChildsSame
<1>7. d \in Range(rec.done) => Uses(d) = {}
  BY ReadyFacts, UseFacts DEF IInv
<1> QED
  BY <1>3, <1>4, <1>6, <1>7

\* What else a step may change.
Elsewhere(t) == /\ stack' \in [Threads -> Seq(Ctxs)] /\ \A u \in Threads \ {t} : stack'[u] = stack[u]
                /\ message' \subseteq Ctxs
                /\ cursor' \in [Threads -> Ctxs \cup {NoCtx}]

LEMMA OutcomeShape ==
    ASSUME IInv, NEW t \in Threads, NEW k, NEW c, NEW rec, NEW a,
           Ready(t, k, c, rec), Outcome(t, k, c, rec, a), Elsewhere(t)
    PROVE  Shape'
<1>1. Shape
  BY DEF IInv
<1>2. \A d \in Ctxs : /\ DOMAIN ctx'[d] = DOMAIN Fresh /\ ctx'[d].live \in BOOLEAN /\ ctx'[d].refcount \in Int
                      /\ ctx'[d].ended \in Int /\ ctx'[d].parent \in Ctxs \cup {NoCtx}
  <2> SUFFICES ASSUME NEW d \in Ctxs
               PROVE  /\ DOMAIN ctx'[d] = Fields /\ ctx'[d].live \in BOOLEAN /\ ctx'[d].refcount \in Int
                      /\ ctx'[d].ended \in Int /\ ctx'[d].parent \in Ctxs \cup {NoCtx}
    BY FieldFacts
  <2>1. /\ DOMAIN k[d] = Fields /\ k[d].live \in BOOLEAN /\ k[d].refcount \in Int
        /\ k[d].ended \in Int /\ k[d].parent \in Ctxs \cup {NoCtx}
    BY <1>1 DEF Ready, Contexts, Shape
  <2>2. Alike(ctx'[d], k[d]) \/ ctx'[d] = Free
        \/ /\ DOMAIN ctx'[d] = DOMAIN k[d] /\ ctx'[d].live = k[d].live /\ ctx'[d].refcount = k[d].refcount
           /\ ctx'[d].parent = k[d].parent /\ ctx'[d].ended = k[d].ended + 1
    BY DEF Outcome, Same
  <2>3. CASE Alike(ctx'[d], k[d])
    BY <2>1, <2>3 DEF Alike
  <2>4. CASE ctx'[d] = Free
    <3>1. DOMAIN Free = Fields /\ Free.live \in BOOLEAN /\ Free.parent = NoCtx /\ Free.refcount = 0 /\ Free.ended = 0
      BY FieldFacts
    <3>2. 0 \in Int
      OBVIOUS
    <3> QED
      BY <2>4, <3>1, <3>2, Zenon
  <2>5. CASE /\ DOMAIN ctx'[d] = DOMAIN k[d] /\ ctx'[d].live = k[d].live /\ ctx'[d].refcount = k[d].refcount
             /\ ctx'[d].parent = k[d].parent /\ ctx'[d].ended = k[d].ended + 1
    <3>1. ctx'[d].ended \in Int
      BY <2>1, <2>5
    <3> QED
      BY <2>1, <2>5, <3>1
  <2> QED
    BY <2>2, <2>3, <2>4, <2>5
<1>3. \A u \in Threads : /\ DOMAIN op'[u] = DOMAIN Idle
                         /\ op'[u].c \in Ctxs \cup {NoCtx} /\ op'[u].done \in Seq(Ctxs)
  <2>1. \A u \in Threads \ {t} : op'[u] = op[u]
    BY DEF Outcome
  <2>2. DOMAIN op'[t] = DOMAIN Idle /\ op'[t].c \in Ctxs \cup {NoCtx} /\ op'[t].done \in Seq(Ctxs)
    <3>1. DOMAIN op'[t] = DOMAIN Idle
      BY FieldFacts DEF Outcome
    <3>2. c \in Ctxs /\ rec.done \in Seq(Ctxs) /\ <<>> \in Seq(Ctxs)
      BY DEF Ready
    <3>3. op'[t].c \in {c, NoCtx} /\ op'[t].done \in {rec.done, <<>>}
      BY DEF Outcome
    <3> QED
      BY <3>1, <3>2, <3>3
  <2> QED
    BY <1>1, <2>1, <2>2 DEF Shape
<1> QED
  BY <1>2, <1>3 DEF Shape, Outcome, Elsewhere

LEMMA OutcomeKeeps ==
    ASSUME IInv, NEW t \in Threads, NEW k, NEW c, NEW rec, NEW a \in {"put", "count"},
           Ready(t, k, c, rec), Outcome(t, k, c, rec, a), Elsewhere(t), \A d \in Ctxs : ExactAt(d)',
           op'[t].pc \in {"commit", "error"} /\ a = "put" /\ rec.done = <<>> => Top(t)' = c
    PROVE  IInv'
<1> DEFINE done == Range(rec.done)
<1>1. Shape' /\ Exact'
  BY OutcomeShape, ExactAll
<1>2. /\ done \subseteq Ctxs
      /\ \A d \in done : ctx[d].live /\ ctx[d].refcount = 0 /\ ctx[d].ended = 1 /\ Own(t, d)
      /\ ctx[c].ended = 0 /\ \A u \in Threads : ~ Ending(u, c)
      /\ c \in Ctxs /\ ctx[c].live /\ c \notin done
      /\ \A d \in Ctxs : Ending(t, d) <=> d \in done
  BY ReadyFacts DEF Ready
<1>3. \A d \in Ctxs : /\ ctx'[d].refcount = k[d].refcount /\ ctx'[d].parent = k[d].parent
                      /\ d \notin done => ctx'[d].live = ctx[d].live
  BY OutcomeUses
<1>4. \A d \in done : k[d].refcount = 0 /\ k[d].parent = NoCtx /\ k[d].live
  BY <1>2 DEF Ready
<1>5. op'[t].pc \in {"commit", "error", "end", "folded", "idle"} /\ (op'[t].pc # "idle" => op'[t].c = c)
  BY DEF Outcome
<1>6. /\ op'[t].pc # "idle" => Over(t)' = done
      /\ op'[t].pc = "idle" => Over(t)' = {}
  BY DEF Outcome, Over, Range
<1>7. op'[t].pc # "idle" => \A d \in Ctxs \ {c} : ctx'[d].live = k[d].live /\ ctx'[d].ended = k[d].ended
  BY DEF Outcome, Same, Alike
<1>8. op'[t].pc \notin {"idle", "end"} => ctx'[c].live = k[c].live /\ ctx'[c].ended = k[c].ended
  BY <1>2 DEF Outcome, Same, Alike
<1>9. op'[t].pc = "end" => ctx'[c].live /\ ctx'[c].refcount = 0 /\ ctx'[c].ended = 1
  <2>1. k[c].live = ctx[c].live /\ k[c].ended = ctx[c].ended
    BY <1>2 DEF Ready
  <2>2. op'[t].pc = "end" => /\ k[c].refcount = 0 /\ ctx'[c].live = k[c].live
                             /\ ctx'[c].refcount = k[c].refcount /\ ctx'[c].ended = k[c].ended + 1
    BY DEF Outcome
  <2>3. ctx[c].live /\ ctx[c].ended = 0
    BY <1>2
  <2>4. op'[t].pc = "end" => ctx'[c].live
    BY <2>1, <2>2, <2>3, Zenon
  <2>5. op'[t].pc = "end" => ctx'[c].refcount = 0 /\ ctx'[c].ended = 1
    BY <2>1, <2>2, <2>3
  <2> QED
    BY <2>4, <2>5
<1>10. op'[t].pc = "idle" => \A d \in Ctxs : /\ d \in done => ctx'[d].ended = 0
                                             /\ d \notin done => ctx'[d].ended = ctx[d].ended
  BY FieldFacts DEF Outcome, Ready, Alike
<1>11. \A d \in Ctxs : k[d].live = ctx[d].live /\ k[d].ended = ctx[d].ended
  BY DEF Ready
<1>12. \A d \in Ctxs : Engaged(t, d)' => d = c
  BY <1>5 DEF Engaged
<1>13. \A d \in Ctxs : Ending(t, d)' <=> op'[t].pc # "idle" /\ (d \in done \/ (op'[t].pc = "end" /\ d = c))
  BY <1>5, <1>6 DEF Ending
<1>14. \A d \in Over(t)' : /\ ctx'[d].live /\ ctx'[d].refcount = 0 /\ ctx'[d].parent = NoCtx
                           /\ ~ Engaged(t, d)'
  <2> SUFFICES ASSUME NEW d \in Over(t)'
               PROVE  ctx'[d].live /\ ctx'[d].refcount = 0 /\ ctx'[d].parent = NoCtx /\ ~ Engaged(t, d)'
    OBVIOUS
  <2>1. op'[t].pc # "idle" /\ d \in done /\ d \in Ctxs /\ d # c
    BY <1>2, <1>6
  <2>2. ctx'[d].live
    BY <1>4, <1>7, <2>1
  <2> QED
    BY <1>3, <1>4, <1>12, <2>1, <2>2
<1>15. WithinCall(t)'
  <2>1. ctx'[c].live
    BY <1>2, <1>3
  <2>2. op'[t].pc = "idle" => op'[t].done = <<>>
    BY DEF Outcome
  <2>3. op'[t].pc = "folded" => op'[t].done # <<>>
    BY DEF Outcome
  <2>4. op'[t].pc \in {"commit", "error"} => /\ op'[t].after \in {"put", "count"}
                                             /\ op'[t].after = "put" /\ op'[t].done = <<>> => Top(t)' = c
    BY DEF Outcome
  <2> QED
    BY <1>2, <1>5, <1>9, <2>1, <2>2, <2>3, <2>4 DEF WithinCall
<1>16. \A d \in Ctxs : IF Ending(t, d)' THEN ctx'[d].ended = 1
                       ELSE \/ ~ Ending(t, d) /\ ctx'[d].ended = ctx[d].ended
                            \/ (Ending(t, d) \/ ~ ctx[d].live) /\ ctx'[d].ended = 0
  <2> SUFFICES ASSUME NEW d \in Ctxs
               PROVE  IF Ending(t, d)' THEN ctx'[d].ended = 1
                      ELSE \/ ~ Ending(t, d) /\ ctx'[d].ended = ctx[d].ended
                           \/ (Ending(t, d) \/ ~ ctx[d].live) /\ ctx'[d].ended = 0
    OBVIOUS
  <2>1. CASE op'[t].pc = "idle"
    BY <1>2, <1>10, <1>13, <2>1
  <2>2. CASE op'[t].pc # "idle" /\ d # c
    BY <1>2, <1>7, <1>11, <1>13, <2>2
  <2>3. CASE op'[t].pc # "idle" /\ d = c
    BY <1>2, <1>5, <1>8, <1>9, <1>11, <1>13, <2>3
  <2> QED
    BY <2>1, <2>2, <2>3
<1>17. \A d \in Ctxs : \/ /\ ctx'[d].live = ctx[d].live /\ ctx'[d].refcount = ctx[d].refcount
                          /\ ctx'[d].parent = ctx[d].parent /\ ctx'[d].ended = ctx[d].ended
                       \/ ctx'[d].live /\ ctx[d].refcount # 0
                       \/ ~ ctx[d].live
                       \/ Own(t, d)
  <2> SUFFICES ASSUME NEW d \in Ctxs, ~ Own(t, d), ctx[d].live
               PROVE  \/ /\ ctx'[d].live = ctx[d].live /\ ctx'[d].refcount = ctx[d].refcount
                         /\ ctx'[d].parent = ctx[d].parent /\ ctx'[d].ended = ctx[d].ended
                      \/ ctx'[d].live /\ ctx[d].refcount # 0
    OBVIOUS
  <2>1. d \notin done /\ ctx'[d].live = ctx[d].live
    BY <1>2, <1>3
  <2>2. d # c \/ op'[t].pc # "end" => ctx'[d].ended = ctx[d].ended
    BY <1>7, <1>8, <1>10, <1>11, <2>1
  <2>3. CASE d = c /\ op'[t].pc = "end"
    <3>1. Engaged(t, c) \/ ctx[c].refcount # 0
      BY DEF Ready
    <3>2. ctx[c].refcount # 0
      BY <2>3, <3>1 DEF Own
    <3> QED
      BY <2>1, <2>3, <3>2
  <2>4. CASE d # c \/ op'[t].pc # "end"
    <3>1. \/ k[d].refcount = ctx[d].refcount /\ k[d].parent = ctx[d].parent
          \/ ctx[d].live /\ ctx[d].refcount # 0
      BY DEF Ready
    <3> QED
      BY <1>3, <2>1, <2>2, <2>4, <3>1
  <2> QED
    BY <2>3, <2>4
<1>18. \A d \in Ctxs : Engaged(t, d)' => \/ Engaged(t, d)
                                         \/ ctx[d].refcount # 0 /\ \A u \in Threads \ {t} : ~ Engaged(u, d)
  BY <1>12 DEF Ready
<1>19. \A d \in Ctxs : d \in Over(t)' => Own(t, d)
  BY <1>2, <1>6
<1>20. \A u \in Threads \ {t} : op'[u] = op[u] /\ stack'[u] = stack[u]
  BY DEF Outcome, Elsewhere
<1> QED
  BY <1>1, <1>14, <1>15, <1>16, <1>17, <1>18, <1>19, <1>20, CallMoves

-----------------------------------------------------------------------------
(* Calls that give a reference back.                                        *)

\* Who uses a context that is in use, alone, is the only one at work in it.
LEMMA AloneFacts ==
    ASSUME IInv, Deviations = {}, NEW t \in Threads, NEW c \in Ctxs, Alone(t, c), NEW p, p \in Uses(c)
    PROVE  /\ ctx[c].live /\ ctx[c].refcount # 0
           /\ \A u \in Threads \ {t} : ~ Engaged(u, c)
           /\ \A u \in Threads : ~ Ending(u, c) /\ c \notin Over(u)
<1>1. ctx[c].live /\ ctx[c].refcount # 0
  BY UseFacts DEF IInv
<1>2. \A u \in Threads : ~ Ending(u, c) /\ c \notin Over(u)
  BY <1>1, UsedFacts
<1> QED
  BY <1>1, <1>2 DEF Alone, Engaged, Ending

LEMMA ReleaseKeeps ==
    ASSUME IInv, Deviations = {}, NEW t \in Threads, NEW c \in Ctxs, NEW p, p \in Uses(c), Alone(t, c),
           NEW rec, DOMAIN rec = CallFields, rec.done = op[t].done, op[t].pc # "end",
           Release(t, ctx, c, rec), Elsewhere(t),
           \A d \in Ctxs : Stacked(d)' \cup Posted(d)' \cup Walked(d)' \cup (LeftAt(d) \ {<<"left", t, 0>>})
                             \cup Childs(d) \cup (Folded(d) \ {<<"fold", t, 0>>})
                           = IF d = c THEN Uses(c) \ {p} ELSE Uses(d)
    PROVE  IInv'
<1> DEFINE k == Lessened(ctx, c)
<1>1. Shape /\ Exact
  BY DEF IInv
<1>2. Contexts(ctx) /\ DOMAIN op = Threads
  BY <1>1, FieldFacts DEF Shape, Contexts
<1>3. /\ ctx[c].live /\ ctx[c].refcount # 0
      /\ \A u \in Threads \ {t} : ~ Engaged(u, c)
      /\ \A u \in Threads : ~ Ending(u, c) /\ c \notin Over(u)
  BY AloneFacts
<1>4. Outcome(t, k, c, rec, "count")
  BY <1>2, ReleaseOutcome
<1>5. /\ Contexts(k) /\ \A d \in Ctxs \ {c} : k[d] = ctx[d]
      /\ k[c].refcount = ctx[c].refcount - 1 /\ k[c].live = ctx[c].live
      /\ k[c].parent = ctx[c].parent /\ k[c].ended = ctx[c].ended
  BY <1>2, LessenedFacts
<1> HIDE DEF k
<1>6. Range(rec.done) = Over(t) /\ rec.done \in Seq(Ctxs)
  BY <1>1 DEF Over, Shape
<1>7. Ready(t, k, c, rec)
  <2>1. \A d \in Ctxs : Ending(t, d) <=> d \in Range(rec.done)
    BY <1>6 DEF Ending
  <2>2. ASSUME NEW d \in Range(rec.done)
        PROVE  k[d].refcount = 0 /\ k[d].parent = NoCtx
    <3>1. d \in Over(t) /\ d \in Ctxs /\ d # c
      BY <1>3, <1>6 DEF Range
    <3> QED
      BY <1>5, <3>1 DEF IInv, EndedApart
  <2>3. ASSUME NEW d \in Ctxs
        PROVE  /\ k[d].parent = ctx[d].parent /\ k[d].live = ctx[d].live /\ k[d].ended = ctx[d].ended
               /\ d # c => k[d].refcount = ctx[d].refcount
    BY <1>5
  <2>4. \A d \in Ctxs : k[d].refcount \in Int
    <3>1. \A d \in Ctxs : ctx[d].refcount \in Int
      BY <1>1 DEF Shape
    <3> QED
      BY <1>5, <3>1
  <2>5. \A d \in Ctxs : k[d].parent \in Ctxs \cup {NoCtx}
    BY <1>1, <2>3 DEF Shape
  <2> QED
    BY <1>3, <1>5, <1>6, <2>1, <2>2, <2>3, <2>4, <2>5, Zenon DEF Ready
<1>8. \A d \in Ctxs : k[d].parent = ctx[d].parent
  BY <1>5
<1>9. ASSUME NEW d \in Ctxs PROVE ExactAt(d)'
  <2>1. /\ LeftAt(d)' = LeftAt(d) \ {<<"left", t, 0>>} /\ Folded(d)' = Folded(d) \ {<<"fold", t, 0>>}
        /\ Childs(d)' = Childs(d)
        /\ ctx'[d].refcount = k[d].refcount
        /\ d \notin Range(rec.done) => ctx'[d].live = ctx[d].live
        /\ d \in Range(rec.done) => Uses(d) = {}
    BY <1>4, <1>7, <1>8, OutcomeUses
  <2>2. Uses(d)' = IF d = c THEN Uses(c) \ {p} ELSE Uses(d)
    BY <2>1 DEF Uses
  <2>3. CASE d = c
    <3>1. ctx'[c].live
      BY <1>3, <1>6, <2>1, <2>3
    <3>2. ctx'[c].refcount = ctx[c].refcount - 1
      BY <1>5, <2>1, <2>3
    <3> QED
      BY <1>1, <2>2, <2>3, <3>1, <3>2, ExactLess
  <2>4. CASE d # c /\ d \notin Range(rec.done)
    BY <1>1, <1>5, <2>1, <2>2, <2>4, ExactSame
  <2>5. CASE d # c /\ d \in Range(rec.done)
    <3>1. Uses(d)' = {} /\ ctx'[d].refcount = 0
      BY <1>7, <2>1, <2>2, <2>5 DEF Ready
    <3> QED
      BY <3>1, ExactUnused
  <2> QED
    BY <2>3, <2>4, <2>5
<1> QED
  BY <1>4, <1>7, <1>9, OutcomeKeeps

\* A thread between two calls holds nothing by its call.
LEMMA BetweenCalls ==
    ASSUME IInv, NEW t \in Threads, op[t].pc \in {"idle", "begin"}, NEW d
    PROVE  /\ op[t].done = <<>> /\ ~ FoldHeld(t)
           /\ LeftAt(d) \ {<<"left", t, 0>>} = LeftAt(d) /\ <<"left", t, 0>> \notin LeftAt(d)
           /\ Folded(d) \ {<<"fold", t, 0>>} = Folded(d) /\ <<"fold", t, 0>> \notin Folded(d)
<1>1. op[t].done = <<>>
  BY DEF IInv, Within, WithinCall
<1>2. ~ FoldHeld(t)
  BY <1>1 DEF FoldHeld
<1> QED
  BY <1>1, <1>2 DEF LeftAt, Folded

LEMMA PopKeeps ==
    ASSUME IInv, Deviations = {}, NEW t \in Threads, Pop(t)
    PROVE  IInv'
<1> SUFFICES ASSUME NEW c, c = Top(t)
             PROVE  IInv'
  OBVIOUS
<1> DEFINE p == <<"stack", t, Len(stack[t])>>
<1>1. /\ op[t].pc = "idle" /\ c # NoCtx /\ Alone(t, c)
      /\ stack' = [stack EXCEPT ![t] = Front(@)]
      /\ Release(t, ctx, c, Idle) /\ message' = message /\ cursor' = cursor
  BY DEF Pop
<1>2. Shape /\ stack[t] # <<>>
  BY <1>1 DEF IInv, Top
<1>3. /\ c \in Ctxs /\ p \in Stacked(c) /\ Stacked(c)' = Stacked(c) \ {p}
      /\ \A d \in Ctxs \ {c} : Stacked(d)' = Stacked(d)
      /\ stack' \in [Threads -> Seq(Ctxs)] /\ \A u \in Threads \ {t} : stack'[u] = stack[u]
  BY <1>1, <1>2, StackedShrinks
<1>4. p[1] = "stack"
  OBVIOUS
<1> HIDE DEF p
<1>5. Elsewhere(t)
  BY <1>1, <1>2, <1>3 DEF Elsewhere, Shape
<1>6. ASSUME NEW d \in Ctxs
      PROVE  Stacked(d)' \cup Posted(d)' \cup Walked(d)' \cup (LeftAt(d) \ {<<"left", t, 0>>})
                \cup Childs(d) \cup (Folded(d) \ {<<"fold", t, 0>>})
             = IF d = c THEN Uses(c) \ {p} ELSE Uses(d)
  <2>1. Posted(d)' = Posted(d) /\ Walked(d)' = Walked(d)
    BY <1>1 DEF Posted, Walked
  <2>2. LeftAt(d) \ {<<"left", t, 0>>} = LeftAt(d) /\ Folded(d) \ {<<"fold", t, 0>>} = Folded(d)
    BY <1>1, BetweenCalls
  <2>3. \A x \in Posted(d) \cup Walked(d) \cup LeftAt(d) \cup Childs(d) \cup Folded(d) : x # p
    BY <1>4, Parts
  <2> QED
    BY <1>3, <2>1, <2>2, <2>3 DEF Uses
<1>7. p \in Uses(c)
  BY <1>3 DEF Uses
<1>8. DOMAIN Idle = CallFields /\ Idle.done = op[t].done /\ op[t].pc # "end"
  BY <1>1, BetweenCalls, FieldFacts
<1> QED
  BY <1>1, <1>3, <1>5, <1>6, <1>7, <1>8, ReleaseKeeps

LEMMA DetachKeeps ==
    ASSUME IInv, Deviations = {}, NEW t \in Threads, Detach(t)
    PROVE  IInv'
<1>1. PICK c \in message : Alone(t, c) /\ message' = message \ {c} /\ Release(t, ctx, c, Idle)
  BY DEF Detach
<1> DEFINE p == <<"message", c, 0>>
<1>2. op[t].pc = "idle" /\ stack' = stack /\ cursor' = cursor /\ Shape
  BY DEF Detach, Calls, IInv
<1>3. c \in Ctxs /\ message' \subseteq Ctxs
  BY <1>1, <1>2 DEF Shape
<1>4. /\ p \in Posted(c) /\ Posted(c)' = Posted(c) \ {p}
      /\ \A d \in Ctxs \ {c} : Posted(d)' = Posted(d)
      /\ p[1] = "message"
  BY <1>1 DEF Posted
<1> HIDE DEF p
<1>5. Elsewhere(t)
  BY <1>2, <1>3 DEF Elsewhere, Shape
<1>6. ASSUME NEW d \in Ctxs
      PROVE  Stacked(d)' \cup Posted(d)' \cup Walked(d)' \cup (LeftAt(d) \ {<<"left", t, 0>>})
                \cup Childs(d) \cup (Folded(d) \ {<<"fold", t, 0>>})
             = IF d = c THEN Uses(c) \ {p} ELSE Uses(d)
  <2>1. Stacked(d)' = Stacked(d) /\ Walked(d)' = Walked(d)
    BY <1>2 DEF Stacked, Walked
  <2>2. LeftAt(d) \ {<<"left", t, 0>>} = LeftAt(d) /\ Folded(d) \ {<<"fold", t, 0>>} = Folded(d)
    BY <1>2, BetweenCalls
  <2>3. \A x \in Stacked(d) \cup Walked(d) \cup LeftAt(d) \cup Childs(d) \cup Folded(d) : x # p
    BY <1>4, Parts
  <2> QED
    BY <1>4, <2>1, <2>2, <2>3 DEF Uses
<1>7. p \in Uses(c)
  BY <1>4 DEF Uses
<1>8. DOMAIN Idle = CallFields /\ Idle.done = op[t].done /\ op[t].pc # "end"
  BY <1>2, BetweenCalls, FieldFacts
<1> QED
  BY <1>1, <1>3, <1>5, <1>6, <1>7, <1>8, ReleaseKeeps

\* A walk gives back the hold on the child it has left.
LEMMA LeftKeeps ==
    ASSUME IInv, Deviations = {}, NEW t \in Threads, Left(t)
    PROVE  IInv'
<1> SUFFICES ASSUME NEW c, c = op[t].c
             PROVE  IInv'
  OBVIOUS
<1> DEFINE p == <<"left", t, 0>>
<1>1. /\ op[t].pc = "left" /\ Alone(t, c) /\ Release(t, ctx, c, Idle)
      /\ stack' = stack /\ message' = message /\ cursor' = cursor
  BY DEF Left, Resumes
<1>2. Shape /\ c \in Ctxs /\ op[t].done = <<>>
  BY <1>1 DEF IInv, Within, WithinCall
<1>3. p \in LeftAt(c) /\ \A d \in Ctxs \ {c} : LeftAt(d) \ {p} = LeftAt(d)
  BY <1>1 DEF LeftAt
<1>4. p[1] = "left" /\ Elsewhere(t)
  BY <1>1, <1>2 DEF Elsewhere, Shape
<1>5. ASSUME NEW d \in Ctxs
      PROVE  Stacked(d)' \cup Posted(d)' \cup Walked(d)' \cup (LeftAt(d) \ {p})
                \cup Childs(d) \cup (Folded(d) \ {<<"fold", t, 0>>})
             = IF d = c THEN Uses(c) \ {p} ELSE Uses(d)
  <2>1. Stacked(d)' = Stacked(d) /\ Posted(d)' = Posted(d) /\ Walked(d)' = Walked(d)
    BY <1>1 DEF Stacked, Posted, Walked
  <2>2. Folded(d) \ {<<"fold", t, 0>>} = Folded(d)
    BY <1>2 DEF Folded, FoldHeld
  <2>3. \A x \in Stacked(d) \cup Posted(d) \cup Walked(d) \cup Childs(d) \cup Folded(d) : x # p
    BY <1>4, Parts
  <2> HIDE DEF p
  <2> QED
    BY <1>3, <2>1, <2>2, <2>3 DEF Uses
<1>6. p \in Uses(c)
  BY <1>3 DEF Uses
<1>7. DOMAIN Idle = CallFields /\ Idle.done = op[t].done /\ op[t].pc # "end"
  BY <1>1, <1>2, FieldFacts
<1> QED
  BY <1>1, <1>2, <1>4, <1>5, <1>6, <1>7, ReleaseKeeps

\* A child that was folded gives its parent back.
LEMMA FoldToldKeeps ==
    ASSUME IInv, Deviations = {}, NEW t \in Threads, FoldTold(t)
    PROVE  IInv'
<1> SUFFICES ASSUME NEW c, c = op[t].c
             PROVE  IInv'
  OBVIOUS
<1> DEFINE p == <<"fold", t, 0>>
<1>1. /\ op[t].pc = "folded" /\ Alone(t, c) /\ Release(t, ctx, c, op[t])
      /\ stack' = stack /\ message' = message /\ cursor' = cursor
  BY DEF FoldTold, Resumes
<1>2. Shape /\ c \in Ctxs /\ op[t].done # <<>>
  BY <1>1 DEF IInv, Within, WithinCall
<1>3. p \in Folded(c) /\ \A d \in Ctxs \ {c} : Folded(d) \ {p} = Folded(d)
  BY <1>1, <1>2 DEF Folded, FoldHeld
<1>4. p[1] = "fold" /\ Elsewhere(t)
  BY <1>1, <1>2 DEF Elsewhere, Shape
<1>5. ASSUME NEW d \in Ctxs
      PROVE  Stacked(d)' \cup Posted(d)' \cup Walked(d)' \cup (LeftAt(d) \ {<<"left", t, 0>>})
                \cup Childs(d) \cup (Folded(d) \ {p})
             = IF d = c THEN Uses(c) \ {p} ELSE Uses(d)
  <2>1. Stacked(d)' = Stacked(d) /\ Posted(d)' = Posted(d) /\ Walked(d)' = Walked(d)
    BY <1>1 DEF Stacked, Posted, Walked
  <2>2. LeftAt(d) \ {<<"left", t, 0>>} = LeftAt(d)
    BY <1>1 DEF LeftAt
  <2>3. \A x \in Stacked(d) \cup Posted(d) \cup Walked(d) \cup Childs(d) \cup LeftAt(d) : x # p
    BY <1>4, Parts
  <2> HIDE DEF p
  <2> QED
    BY <1>3, <2>1, <2>2, <2>3 DEF Uses
<1>6. p \in Uses(c)
  BY <1>3 DEF Uses
<1>7. DOMAIN op[t] = CallFields /\ op[t].pc # "end"
  BY <1>1, <1>2, FieldFacts DEF Shape
<1> QED
  BY <1>1, <1>2, <1>4, <1>5, <1>6, <1>7, ReleaseKeeps

-----------------------------------------------------------------------------
(* Calls that change events only.                                           *)

LEMMA TopUse ==
    ASSUME Shape, NEW t \in Threads, NEW c, c = Top(t), c # NoCtx
    PROVE  c \in Ctxs /\ stack[t] # <<>> /\ <<"stack", t, Len(stack[t])>> \in Uses(c)
<1>1. stack[t] # <<>> /\ stack[t] \in Seq(Ctxs)
  BY DEF Top, Shape
<1>2. Len(stack[t]) \in DOMAIN stack[t] /\ c = stack[t][Len(stack[t])] /\ c \in Ctxs
  BY <1>1 DEF Top, Last
<1> QED
  BY <1>1, <1>2 DEF Uses, Stacked

LEMMA StayKeeps ==
    ASSUME IInv, NEW t \in Threads, NEW k, NEW c, NEW rec, NEW a \in {"put", "count"},
           Ready(t, k, c, rec), Outcome(t, k, c, rec, a),
           \A d \in Ctxs : k[d].refcount = ctx[d].refcount /\ k[d].parent = ctx[d].parent,
           stack' = stack, message' = message, cursor' = cursor,
           op[t].pc # "left", \A d \in Ctxs : FoldHeld(t) /\ op[t].c = d <=> a = "put" /\ rec.done # <<>> /\ d = c,
           op'[t].pc \in {"commit", "error"} /\ a = "put" /\ rec.done = <<>> => Top(t) = c
    PROVE  IInv'
<1>1. Elsewhere(t)
  BY DEF IInv, Shape, Elsewhere
<1>2. Top(t)' = Top(t)
  BY DEF Top
<1>3. ASSUME NEW d \in Ctxs PROVE ExactAt(d)'
  <2>1. /\ LeftAt(d)' = LeftAt(d) \ {<<"left", t, 0>>}
        /\ a = "put" /\ rec.done # <<>> /\ d = c => Folded(d)' = (Folded(d) \ {<<"fold", t, 0>>}) \cup {<<"fold", t, 0>>}
        /\ ~ (a = "put" /\ rec.done # <<>> /\ d = c) => Folded(d)' = Folded(d) \ {<<"fold", t, 0>>}
        /\ Childs(d)' = Childs(d)
        /\ ctx'[d].refcount = k[d].refcount
        /\ d \notin Range(rec.done) => ctx'[d].live = ctx[d].live
        /\ d \in Range(rec.done) => Uses(d) = {}
    BY OutcomeUses
  <2>2. LeftAt(d)' = LeftAt(d)
    BY <2>1 DEF LeftAt
  <2>3. Folded(d)' = Folded(d)
    <3>1. <<"fold", t, 0>> \in Folded(d) <=> a = "put" /\ rec.done # <<>> /\ d = c
      BY DEF Folded
    <3> QED
      BY <2>1, <3>1
  <2>4. Stacked(d)' = Stacked(d) /\ Posted(d)' = Posted(d) /\ Walked(d)' = Walked(d)
    BY DEF Stacked, Posted, Walked
  <2>5. Uses(d)' = Uses(d)
    BY <2>1, <2>2, <2>3, <2>4 DEF Uses
  <2>6. CASE d \notin Range(rec.done)
    BY <2>1, <2>5, <2>6, ExactSame DEF IInv
  <2>7. CASE d \in Range(rec.done)
    <3>1. Uses(d)' = {} /\ ctx'[d].refcount = 0
      BY <2>1, <2>5, <2>7 DEF Ready
    <3> QED
      BY <3>1, ExactUnused
  <2> QED
    BY <2>6, <2>7
<1> QED
  BY <1>1, <1>2, <1>3, OutcomeKeeps

LEMMA ReportKeeps ==
    ASSUME IInv, Deviations = {}, NEW t \in Threads, Report(t)
    PROVE  IInv'
<1> SUFFICES ASSUME NEW c, c = Top(t)
             PROVE  IInv'
  OBVIOUS
<1>1. /\ op[t].pc = "idle" /\ c # NoCtx /\ Alone(t, c)
      /\ stack' = stack /\ message' = message /\ cursor' = cursor
  BY DEF Report, Calls
<1>2. PICK severity \in Severities : AddEvent(t, ctx, c, [Idle EXCEPT !.new = severity])
  BY DEF Report
<1> DEFINE rec == [Idle EXCEPT !.new = severity]
<1>3. DOMAIN rec = CallFields /\ rec.done = <<>> /\ Range(rec.done) = {}
  BY DEF Idle, CallFields, Range
<1>4. AddEvent(t, ctx, c, rec)
  BY <1>2
<1> HIDE DEF rec
<1>5. Shape
  BY DEF IInv
<1>6. c \in Ctxs /\ <<"stack", t, Len(stack[t])>> \in Uses(c)
  BY <1>1, <1>5, TopUse
<1>7. /\ ctx[c].live /\ ctx[c].refcount # 0
      /\ \A u \in Threads \ {t} : ~ Engaged(u, c)
  BY <1>1, <1>6, AloneFacts
<1>8. Contexts(ctx) /\ DOMAIN op = Threads
  BY <1>5, FieldFacts DEF Shape, Contexts
<1>9. Outcome(t, ctx, c, rec, "put")
  BY <1>3, <1>4, <1>6, <1>8, AddEventOutcome
<1>10. op[t].done = <<>> /\ ~ FoldHeld(t)
  BY <1>1, BetweenCalls
<1>11. Ready(t, ctx, c, rec)
  <2>1. \A d \in Ctxs : ~ Ending(t, d)
    BY <1>1, <1>10 DEF Ending, Over, Range
  <2>2. <<>> \in Seq(Ctxs)
    OBVIOUS
  <2>3. \A d \in Ctxs : ctx[d].refcount \in Int /\ ctx[d].parent \in Ctxs \cup {NoCtx}
    BY <1>5 DEF Shape
  <2> QED
    BY <1>3, <1>6, <1>7, <1>8, <2>1, <2>2, <2>3, Zenon DEF Ready
<1> QED
  BY <1>1, <1>3, <1>9, <1>10, <1>11, StayKeeps

\* A thread that tells the handlers of an event goes on with its call.
LEMMA CallGoesOn ==
    ASSUME IInv, NEW t \in Threads, op[t].pc \in {"commit", "error"}, NEW k,
           DOMAIN k = Ctxs, \A d \in Ctxs : Alike(k[d], ctx[d]),
           NEW c, c = op[t].c, Outcome(t, k, c, op[t], op[t].after),
           stack' = stack, message' = message, cursor' = cursor
    PROVE  IInv'
<1>1. Shape /\ Exact
  BY DEF IInv
<1>2. /\ c \in Ctxs /\ ctx[c].live /\ op[t].after \in {"put", "count"}
      /\ op[t].after = "put" /\ op[t].done = <<>> => Top(t) = c
  BY DEF IInv, Within, WithinCall
<1>3. Ready(t, k, c, op[t])
  <2>1. Contexts(k)
    BY <1>1, FieldFacts DEF Contexts, Alike, Shape
  <2>2. \A d \in Ctxs : Ending(t, d) <=> d \in Range(op[t].done)
    BY DEF Ending, Over
  <2>3. Engaged(t, c)
    BY DEF Engaged
  <2>4. c \notin Range(op[t].done) /\ \A d \in Range(op[t].done) : ctx[d].refcount = 0 /\ ctx[d].parent = NoCtx
    BY <2>3 DEF IInv, EndedApart, Over
  <2>5. Range(op[t].done) \subseteq Ctxs /\ op[t].done \in Seq(Ctxs) /\ DOMAIN op[t] = CallFields
    BY <1>1, FieldFacts DEF Shape, Range
  <2>6. \A d \in Ctxs : /\ k[d].refcount = ctx[d].refcount /\ k[d].parent = ctx[d].parent
                        /\ k[d].live = ctx[d].live /\ k[d].ended = ctx[d].ended
    BY DEF Alike
  <2>7. \A d \in Ctxs : ctx[d].refcount \in Int /\ ctx[d].parent \in Ctxs \cup {NoCtx}
    BY <1>1 DEF Shape
  <2>8. \A d \in Range(op[t].done) : k[d].refcount = 0 /\ k[d].parent = NoCtx
    BY <2>4, <2>5, <2>6
  <2>9. \A d \in Ctxs : k[d].refcount \in Int /\ k[d].parent \in Ctxs \cup {NoCtx}
    BY <2>6, <2>7
  <2> QED
    BY <1>2, <2>1, <2>2, <2>3, <2>4, <2>5, <2>6, <2>8, <2>9, Zenon DEF Ready
<1>4. \A d \in Ctxs : FoldHeld(t) /\ op[t].c = d <=> op[t].after = "put" /\ op[t].done # <<>> /\ d = c
  BY DEF FoldHeld
<1>5. \A d \in Ctxs : k[d].refcount = ctx[d].refcount /\ k[d].parent = ctx[d].parent
  BY DEF Alike
<1> QED
  BY <1>2, <1>3, <1>4, <1>5, StayKeeps

LEMMA ErrorToldKeeps ==
    ASSUME IInv, NEW t \in Threads, ErrorTold(t)
    PROVE  IInv'
<1> SUFFICES ASSUME NEW c, c = op[t].c
             PROVE  IInv'
  OBVIOUS
<1>1. /\ op[t].pc = "error" /\ After(t, ctx) /\ stack' = stack /\ message' = message /\ cursor' = cursor
  BY DEF ErrorTold, Resumes
<1>2. Shape /\ c \in Ctxs /\ op[t].after \in {"put", "count"}
  BY <1>1 DEF IInv, Within, WithinCall
<1>3. Contexts(ctx) /\ DOMAIN op = Threads /\ DOMAIN op[t] = CallFields
  BY <1>2, FieldFacts DEF Shape, Contexts
<1>4. Outcome(t, ctx, c, op[t], op[t].after)
  BY <1>1, <1>2, <1>3, AfterOutcome
<1>5. DOMAIN ctx = Ctxs /\ \A d \in Ctxs : Alike(ctx[d], ctx[d])
  BY <1>3 DEF Contexts, Alike
<1> QED
  BY <1>1, <1>4, <1>5, CallGoesOn

LEMMA CommittedKeeps ==
    ASSUME IInv, NEW t \in Threads, Committed(t)
    PROVE  IInv'
<1> SUFFICES ASSUME NEW c, c = op[t].c
             PROVE  IInv'
  OBVIOUS
<1> DEFINE at == Position(c, op[t].id)
           i == CHOOSE i \in at : TRUE
           e == ctx[c].events[i]
           worse == IF ctx[c].severity >= e.severity
                    THEN [Marked(c, i) EXCEPT ![c].severity = e.severity, ![c].err = e.id]
                    ELSE Marked(c, i)
           told == [op[t] EXCEPT !.pc = "error"]
<1>1. /\ op[t].pc = "commit" /\ stack' = stack /\ message' = message /\ cursor' = cursor
      /\ \/ After(t, ctx)
         \/ ctx' = worse /\ Goto(t, told)
         \/ After(t, worse)
  BY DEF Committed, Resumes
<1>2. Shape /\ c \in Ctxs /\ op[t].after \in {"put", "count"}
  BY <1>1 DEF IInv, Within, WithinCall
<1>3. Contexts(ctx) /\ DOMAIN op = Threads /\ DOMAIN op[t] = CallFields
  BY <1>2, FieldFacts DEF Shape, Contexts
<1>4. DOMAIN ctx = Ctxs /\ \A d \in Ctxs : Alike(ctx[d], ctx[d])
  BY <1>3 DEF Contexts, Alike
<1>5. DOMAIN Marked(c, i) = Ctxs /\ \A d \in Ctxs : Alike(Marked(c, i)[d], ctx[d])
  BY <1>3 DEF Marked, Contexts, Alike, Fields
<1>6. DOMAIN worse = Ctxs /\ \A d \in Ctxs : Alike(worse[d], ctx[d])
  <2> DEFINE m == Marked(c, i)
             w == [m EXCEPT ![c].severity = e.severity, ![c].err = e.id]
  <2>1. DOMAIN m = Ctxs /\ (\A d \in Ctxs : Alike(m[d], ctx[d])) /\ \A d \in Ctxs : DOMAIN m[d] = Fields
    BY <1>3, <1>5 DEF Alike, Contexts
  <2> HIDE DEF m, i, e
  <2>2. DOMAIN w = Ctxs /\ \A d \in Ctxs : Alike(w[d], ctx[d])
    BY <2>1 DEF Alike, Fields
  <2>3. worse = w \/ worse = m
    BY DEF m
  <2> HIDE DEF w, worse
  <2> QED
    BY <2>1, <2>2, <2>3
<1> HIDE DEF worse
<1>7. Contexts(worse)
  BY <1>3, <1>6 DEF Contexts, Alike
<1>8. CASE After(t, ctx)
  <2>1. Outcome(t, ctx, c, op[t], op[t].after)
    BY <1>2, <1>3, <1>8, AfterOutcome
  <2> QED
    BY <1>1, <1>4, <2>1, CallGoesOn
<1>9. CASE After(t, worse)
  <2>1. Outcome(t, worse, c, op[t], op[t].after)
    BY <1>2, <1>3, <1>7, <1>9, AfterOutcome
  <2> QED
    BY <1>1, <1>6, <2>1, CallGoesOn
<1>10. CASE ctx' = worse /\ Goto(t, told)
  <2>1. DOMAIN op' = Threads /\ op'[t] = told /\ \A u \in Threads \ {t} : op'[u] = op[u]
    BY <1>3, <1>10, GotoFacts
  <2>2. /\ DOMAIN told = CallFields /\ told.pc = "error" /\ told.c = c
        /\ told.done = op[t].done /\ told.after = op[t].after
    BY <1>3 DEF CallFields
  <2> HIDE DEF told
  <2>3. DOMAIN ctx' = Ctxs /\ Same(worse)
    BY <1>6, <1>10 DEF Same, Alike
  <2>4. Outcome(t, worse, c, op[t], op[t].after)
    BY <2>1, <2>2, <2>3 DEF Outcome
  <2> QED
    BY <1>1, <1>6, <2>4, CallGoesOn
<1> QED
  BY <1>1, <1>8, <1>9, <1>10

-----------------------------------------------------------------------------
(* A context ends.                                                          *)

\* The context c that t ends is in nobody's hands; done is what it has ended then.
Parted(t, c, done) ==
    /\ c \in Ctxs /\ ctx[c].live /\ ctx[c].refcount = 0 /\ ctx[c].ended = 1 /\ Uses(c) = {}
    /\ done \in Seq(Ctxs) /\ done # <<>>
    /\ Range(done) = Over(t) \cup {c} /\ Over(t) \subseteq Ctxs
    /\ Own(t, c) /\ \A d \in Ctxs : Ending(t, d) <=> d \in Range(done)
    /\ \A d \in Over(t) : ctx[d].live /\ ctx[d].refcount = 0 /\ ctx[d].parent = NoCtx

LEMMA EndFacts ==
    ASSUME IInv, NEW t \in Threads, op[t].pc = "end", NEW c, c = op[t].c,
           NEW done, done = Append(op[t].done, c)
    PROVE  Parted(t, c, done)
<1>1. c \in Ctxs /\ ctx[c].live /\ ctx[c].refcount = 0 /\ ctx[c].ended = 1
  BY DEF IInv, Within, WithinCall
<1>2. Uses(c) = {}
  BY <1>1, UseFacts DEF IInv
<1>3. op[t].done \in Seq(Ctxs)
  BY DEF IInv, Shape
<1>4. done \in Seq(Ctxs) /\ done # <<>> /\ Range(done) = Range(op[t].done) \cup {c}
  <2>1. /\ done \in Seq(Ctxs) /\ Len(done) = Len(op[t].done) + 1
        /\ \A i \in DOMAIN op[t].done : done[i] = op[t].done[i]
        /\ done[Len(op[t].done) + 1] = c
    BY <1>1, <1>3
  <2>2. DOMAIN op[t].done = 1 .. Len(op[t].done) /\ DOMAIN done = 1 .. Len(op[t].done) + 1 /\ Len(op[t].done) \in Nat
    BY <1>3, <2>1
  <2>3. \A i : i \in DOMAIN done <=> i \in DOMAIN op[t].done \/ i = Len(op[t].done) + 1
    BY <2>2
  <2>4. done # <<>>
    BY <2>1, <2>2
  <2> QED
    BY <2>1, <2>3, <2>4 DEF Range
<1>5. Over(t) \subseteq Ctxs
  BY <1>3 DEF Over, Range
<1>6. Own(t, c) /\ \A d \in Ctxs : Ending(t, d) <=> d \in Range(done)
  BY <1>4 DEF Own, Engaged, Ending, Over
<1>7. \A d \in Over(t) : ctx[d].live /\ ctx[d].refcount = 0 /\ ctx[d].parent = NoCtx
  BY DEF IInv, EndedApart
<1> QED
  BY <1>1, <1>2, <1>4, <1>5, <1>6, <1>7 DEF Over, Parted

\* k is ctx without the link from c to p, which counts the child until it is folded.
Unlinked(k, c, p, a) ==
    /\ Contexts(k) /\ ctx[c].parent = p /\ k[c].parent = NoCtx
    /\ \A d \in Ctxs : k[d].live = ctx[d].live
    /\ \A d \in Ctxs : k[d].ended = ctx[d].ended
    /\ \A d \in Ctxs \ {c} : k[d].parent = ctx[d].parent
    /\ \A d \in Ctxs \ {p} : k[d].refcount = ctx[d].refcount
    /\ k[p].refcount = ctx[p].refcount - IF a = "put" THEN 0 ELSE 1

\* A child leaves the tree, and its use of the parent becomes that of the call
\* that folds it, or is given back.
LEMMA UnlinkKeeps ==
    ASSUME IInv, Deviations = {}, NEW t \in Threads, op[t].pc = "end", NEW c, NEW p \in Ctxs, Alone(t, p),
           NEW k, NEW rec, DOMAIN rec = CallFields, Parted(t, c, rec.done),
           NEW a \in {"put", "count"}, Unlinked(k, c, p, a), Outcome(t, k, p, rec, a),
           stack' = stack, message' = message, cursor' = cursor
    PROVE  IInv'
<1> DEFINE child == <<"child", c, 0>>
           fold == <<"fold", t, 0>>
<1>1. Shape /\ Exact /\ Elsewhere(t) /\ NoCtx \notin Ctxs
  BY KherrAssumption DEF IInv, Elsewhere, Shape
<1>2. ctx[c].parent = p /\ k[c].parent = NoCtx
  BY DEF Unlinked
<1>21. \A d \in Ctxs : k[d].live = ctx[d].live /\ k[d].ended = ctx[d].ended
  BY Zenon DEF Unlinked
<1>22. \A d \in Ctxs \ {c} : k[d].parent = ctx[d].parent
  BY DEF Unlinked
<1>23. \A d \in Ctxs \ {p} : k[d].refcount = ctx[d].refcount
  BY DEF Unlinked
<1>24. Contexts(k) /\ k[p].refcount = ctx[p].refcount - IF a = "put" THEN 0 ELSE 1
  BY DEF Unlinked
<1>20. \A d \in Ctxs : <<"left", t, 0>> \notin LeftAt(d) /\ fold \notin Folded(d)
  BY DEF LeftAt, Folded, FoldHeld
<1>3. child \in Childs(p) /\ child \in Uses(p) /\ child[1] = "child" /\ fold[1] = "fold"
  BY <1>2 DEF Parted, Childs, Children, Uses
<1> HIDE DEF child, fold
<1>4. fold \notin Uses(p)
  BY <1>20, <1>3, Parts DEF Uses
<1>5. p # c
  BY <1>2, <1>3 DEF Parted
<1>6. /\ ctx[p].live /\ ctx[p].refcount # 0
      /\ \A u \in Threads \ {t} : ~ Engaged(u, p)
      /\ \A u \in Threads : ~ Ending(u, p) /\ p \notin Over(u)
  BY <1>3, AloneFacts
<1>7. Ready(t, k, p, rec)
  <2>1. \A d \in Ctxs : ctx[d].refcount \in Int /\ ctx[d].parent \in Ctxs \cup {NoCtx}
    BY <1>1 DEF Shape
  <2>2. \A d \in Ctxs : k[d].refcount \in Int
    BY <1>23, <1>24, <2>1
  <2>3. \A d \in Ctxs : k[d].parent \in Ctxs \cup {NoCtx}
    BY <1>2, <1>22, <2>1
  <2>4. \A d \in Range(rec.done) : k[d].refcount = 0 /\ k[d].parent = NoCtx
    <3> SUFFICES ASSUME NEW d \in Range(rec.done) PROVE k[d].refcount = 0 /\ k[d].parent = NoCtx
      OBVIOUS
    <3>1. d \in Ctxs /\ d # p /\ k[d].refcount = ctx[d].refcount
      BY <1>5, <1>6, <1>23 DEF Parted
    <3>2. CASE d = c
      BY <1>2, <3>1, <3>2 DEF Parted
    <3>3. CASE d # c
      BY <1>22, <3>1, <3>3 DEF Parted
    <3> QED
      BY <3>2, <3>3
  <2>5. \A d \in Ctxs : \/ k[d].refcount = ctx[d].refcount /\ k[d].parent = ctx[d].parent
                        \/ ctx[d].live /\ ctx[d].refcount # 0
                        \/ Own(t, d)
    BY <1>6, <1>22, <1>23 DEF Parted
  <2>6. p \notin Range(rec.done)
    BY <1>2, <1>5, <1>6 DEF Parted
  <2> QED
    BY <1>6, <1>21, <1>24, <2>2, <2>3, <2>4, <2>5, <2>6, Zenon DEF Parted, Ready
<1>8. \A d \in Ctxs : /\ LeftAt(d)' = LeftAt(d)
                      /\ a = "put" /\ d = p => Folded(d)' = Folded(d) \cup {fold}
                      /\ ~ (a = "put" /\ d = p) => Folded(d)' = Folded(d)
                      /\ Stacked(d)' = Stacked(d) /\ Posted(d)' = Posted(d) /\ Walked(d)' = Walked(d)
  <2> SUFFICES ASSUME NEW d \in Ctxs
               PROVE  /\ LeftAt(d)' = LeftAt(d)
                      /\ a = "put" /\ d = p => Folded(d)' = Folded(d) \cup {fold}
                      /\ ~ (a = "put" /\ d = p) => Folded(d)' = Folded(d)
                      /\ Stacked(d)' = Stacked(d) /\ Posted(d)' = Posted(d) /\ Walked(d)' = Walked(d)
    OBVIOUS
  <2>1. /\ LeftAt(d)' = LeftAt(d) \ {<<"left", t, 0>>}
        /\ a = "put" /\ rec.done # <<>> /\ d = p => Folded(d)' = (Folded(d) \ {fold}) \cup {fold}
        /\ ~ (a = "put" /\ rec.done # <<>> /\ d = p) => Folded(d)' = Folded(d) \ {fold}
    BY <1>7, OutcomeUses DEF fold
  <2>2. Stacked(d)' = Stacked(d) /\ Posted(d)' = Posted(d) /\ Walked(d)' = Walked(d)
    BY DEF Stacked, Posted, Walked
  <2>3. rec.done # <<>>
    BY DEF Parted
  <2>4. LeftAt(d)' = LeftAt(d)
    BY <1>20, <2>1
  <2>5. fold \notin Folded(d)
    BY <1>20
  <2> QED
    BY <2>1, <2>2, <2>3, <2>4, <2>5
<1>9. \A d \in Ctxs : /\ ctx'[d].refcount = k[d].refcount /\ ctx'[d].parent = k[d].parent
                      /\ d \notin Range(rec.done) => ctx'[d].live = ctx[d].live
                      /\ d \in Range(rec.done) => Uses(d) = {}
  BY <1>7, OutcomeUses
<1>10. \A d \in Ctxs : Childs(d)' = IF d = p THEN Childs(p) \ {child} ELSE Childs(d)
  <2> SUFFICES ASSUME NEW d \in Ctxs
               PROVE  Childs(d)' = IF d = p THEN Childs(p) \ {child} ELSE Childs(d)
    OBVIOUS
  <2>1. CASE d # p
    <3>1. \A e \in Ctxs : k[e].parent = d <=> ctx[e].parent = d
      BY <1>1, <1>2, <1>22, <2>1
    <3> QED
      BY <1>7, <2>1, <3>1, OutcomeUses
  <2>2. CASE d = p
    <3>1. \A e \in Ctxs : ctx'[e].live /\ ctx'[e].parent = p <=> e # c /\ ctx[e].live /\ ctx[e].parent = p
      <4> SUFFICES ASSUME NEW e \in Ctxs
                   PROVE  ctx'[e].live /\ ctx'[e].parent = p <=> e # c /\ ctx[e].live /\ ctx[e].parent = p
        OBVIOUS
      <4>1. CASE e = c
        BY <1>1, <1>2, <1>9, <4>1
      <4>2. CASE e # c /\ e \in Over(t)
        BY <1>1, <1>9, <1>22, <4>2 DEF Parted
      <4>3. CASE e # c /\ e \notin Over(t)
        BY <1>9, <1>22, <4>3 DEF Parted
      <4> QED
        BY <4>1, <4>2, <4>3
    <3> QED
      BY <2>2, <3>1 DEF Childs, Children, child
  <2> QED
    BY <2>1, <2>2
<1>11. ASSUME NEW d \in Ctxs PROVE ExactAt(d)'
  <2>1. CASE d \in Range(rec.done)
    <3>1. d # p /\ ctx'[d].refcount = 0
      BY <1>2, <1>5, <1>6, <1>7, <1>9, <2>1 DEF Parted, Ready
    <3>2. Uses(d)' = Uses(d)
      BY <1>8, <1>10, <3>1 DEF Uses
    <3> QED
      BY <1>9, <2>1, <3>1, <3>2, ExactUnused
  <2>2. CASE d \notin Range(rec.done) /\ d # p
    <3>1. Uses(d)' = Uses(d)
      BY <1>8, <1>10, <2>2 DEF Uses
    <3> QED
      BY <1>1, <1>9, <1>23, <2>2, <3>1, ExactSame
  <2>3. CASE d = p
    <3>1. ctx'[p].live = ctx[p].live
      BY <1>2, <1>5, <1>6, <1>9 DEF Parted
    <3>2. \A x \in Stacked(p) \cup Posted(p) \cup Walked(p) \cup LeftAt(p) \cup Folded(p) : x # child
      BY <1>3, Parts
    <3>3. CASE a = "put"
      <4>1. Uses(p)' = (Uses(p) \ {child}) \cup {fold}
        BY <1>8, <1>10, <3>2, <3>3 DEF Uses
      <4>2. ctx'[p].refcount = ctx[p].refcount
        <5>1. ctx[p].refcount \in Int
          BY <1>1 DEF Shape
        <5> QED
          BY <1>9, <1>24, <3>3, <5>1
      <4> QED
        BY <1>1, <1>3, <1>4, <2>3, <3>1, <4>1, <4>2, ExactMoves
    <3>4. CASE a = "count"
      <4>1. Uses(p)' = Uses(p) \ {child}
        BY <1>8, <1>10, <3>2, <3>4 DEF Uses
      <4>2. ctx'[p].live
        BY <1>6, <3>1
      <4>3. ctx'[p].refcount = ctx[p].refcount - 1
        BY <1>9, <1>24, <3>4
      <4> QED
        BY <1>1, <1>3, <2>3, <4>1, <4>2, <4>3, ExactLess
    <3> QED
      BY <3>3, <3>4
  <2> QED
    BY <2>1, <2>2, <2>3
<1> QED
  BY <1>1, <1>2, <1>7, <1>11, OutcomeKeeps DEF Parted

\* A context without a parent is freed, with all the call has ended before.
LEMMA RootKeeps ==
    ASSUME IInv, NEW t \in Threads, op[t].pc = "end", NEW c, ctx[c].parent = NoCtx,
           NEW k, Contexts(k), \A d \in Ctxs : Alike(k[d], ctx[d]), NEW rec, Parted(t, c, rec.done), Finish(t, k, rec),
           stack' = stack, message' = message, cursor' = cursor
    PROVE  IInv'
<1> DEFINE done == Range(rec.done)
<1>1. Shape /\ Exact /\ NoCtx \notin Ctxs
  BY KherrAssumption DEF IInv
<1>2. /\ DOMAIN op' = Threads /\ op'[t] = Idle /\ \A u \in Threads \ {t} : op'[u] = op[u]
      /\ ctx' = [d \in Ctxs |-> IF d \in done THEN Free ELSE k[d]]
  BY <1>1, GotoFacts DEF Finish, Shape
<1>3. /\ done \subseteq Ctxs
      /\ \A d \in done : ctx[d].live /\ ctx[d].refcount = 0 /\ ctx[d].parent = NoCtx /\ Uses(d) = {} /\ Own(t, d)
      /\ \A d \in Ctxs : Ending(t, d) <=> d \in done
  <2>1. \A d \in Over(t) : Own(t, d) /\ d \in Ctxs
    BY DEF Parted, Own
  <2>2. \A d \in Over(t) : Uses(d) = {}
    BY <1>1, <2>1, UseFacts DEF Parted
  <2> QED
    BY <2>1, <2>2 DEF Parted
<1> HIDE DEF done
<1>4. /\ DOMAIN ctx' = Ctxs
      /\ \A d \in done : ctx'[d] = Free
      /\ \A d \in Ctxs \ done : Alike(ctx'[d], ctx[d])
  BY <1>2, <1>3 DEF Alike
<1>5. \A d \in Ctxs : ctx'[d].refcount = ctx[d].refcount /\ ctx'[d].parent = ctx[d].parent
  BY <1>3, <1>4, FieldFacts DEF Alike
<1>6. op'[t].pc = "idle" /\ op'[t].c = NoCtx /\ op'[t].done = <<>> /\ DOMAIN op'[t] = DOMAIN Idle
  BY <1>2, FieldFacts
<1>7. ASSUME NEW d \in Ctxs PROVE ExactAt(d)'
  <2>1. LeftAt(d)' = LeftAt(d) /\ Folded(d)' = Folded(d)
    <3>1. /\ LeftAt(d)' \ {<<"left", t, 0>>} = LeftAt(d) \ {<<"left", t, 0>>}
          /\ <<"left", t, 0>> \in LeftAt(d) <=> op[t].pc = "left" /\ op[t].c = d
          /\ <<"left", t, 0>> \in LeftAt(d)' <=> op'[t].pc = "left" /\ op'[t].c = d
          /\ Folded(d)' \ {<<"fold", t, 0>>} = Folded(d) \ {<<"fold", t, 0>>}
          /\ <<"fold", t, 0>> \in Folded(d) <=> FoldHeld(t) /\ op[t].c = d
          /\ <<"fold", t, 0>> \in Folded(d)' <=> FoldHeld(t)' /\ op'[t].c = d
      BY <1>2, CallUses
    <3>2. ~ FoldHeld(t) /\ ~ FoldHeld(t)'
      BY <1>6 DEF FoldHeld
    <3>3. /\ <<"left", t, 0>> \notin LeftAt(d) /\ <<"left", t, 0>> \notin LeftAt(d)'
          /\ <<"fold", t, 0>> \notin Folded(d) /\ <<"fold", t, 0>> \notin Folded(d)'
      BY <1>6, <3>1, <3>2
    <3>4. \A S, R, x : S \ {x} = R \ {x} /\ x \notin S /\ x \notin R => S = R
      OBVIOUS
    <3> QED
      BY <3>1, <3>3, <3>4, Zenon
  <2>2. Stacked(d)' = Stacked(d) /\ Posted(d)' = Posted(d) /\ Walked(d)' = Walked(d)
    BY DEF Stacked, Posted, Walked
  <2>3. Childs(d)' = Childs(d)
    <3>1. ASSUME NEW e \in Ctxs
          PROVE  ctx'[e].live /\ ctx'[e].parent = d <=> ctx[e].live /\ ctx[e].parent = d
      <4>1. CASE e \in done
        BY <1>1, <1>3, <1>5, <4>1
      <4>2. CASE e \notin done
        BY <1>4, <4>2 DEF Alike
      <4> QED
        BY <4>1, <4>2
    <3> QED
      BY <3>1, ChildsSame
  <2>4. Uses(d)' = Uses(d)
    BY <2>1, <2>2, <2>3 DEF Uses
  <2>5. CASE d \in done
    BY <1>3, <1>5, <2>4, <2>5, ExactUnused
  <2>6. CASE d \notin done
    BY <1>1, <1>4, <2>4, <2>6, ExactSame DEF Alike
  <2> QED
    BY <2>5, <2>6
<1>8. Exact'
  BY <1>7, ExactAll
<1>9. Shape'
  <2>1. ASSUME NEW d \in Ctxs
        PROVE  /\ DOMAIN ctx'[d] = DOMAIN Fresh /\ ctx'[d].live \in BOOLEAN
               /\ ctx'[d].ended \in Int
    <3>1. CASE d \in done
      <4>1. DOMAIN Free = DOMAIN Fresh /\ Free.live \in BOOLEAN /\ Free.ended = 0
        BY FieldFacts
      <4>2. 0 \in Int
        OBVIOUS
      <4> QED
        BY <1>4, <3>1, <4>1, <4>2, Zenon
    <3>2. CASE d \notin done
      BY <1>1, <1>4, <3>2 DEF Alike, Shape
    <3> QED
      BY <3>1, <3>2
  <2>2. \A d \in Ctxs : ctx'[d].refcount \in Int /\ ctx'[d].parent \in Ctxs \cup {NoCtx}
    BY <1>1, <1>5 DEF Shape
  <2>3. \A u \in Threads : /\ DOMAIN op'[u] = DOMAIN Idle
                           /\ op'[u].c \in Ctxs \cup {NoCtx} /\ op'[u].done \in Seq(Ctxs)
    <3>1. <<>> \in Seq(Ctxs)
      OBVIOUS
    <3> QED
      BY <1>1, <1>2, <1>6, <3>1 DEF Shape
  <2> QED
    BY <1>1, <1>2, <1>4, <2>1, <2>2, <2>3 DEF Shape
<1>10. \A d \in Ctxs : ~ Engaged(t, d)' /\ ~ Ending(t, d)' /\ d \notin Over(t)'
  BY <1>6 DEF Engaged, Ending, Over, Range
<1>11. WithinCall(t)'
  BY <1>6 DEF WithinCall
<1>12. \A d \in Ctxs : d \notin done => ctx'[d].live = ctx[d].live /\ ctx'[d].ended = ctx[d].ended
  BY <1>4 DEF Alike
<1>13. \A d \in done : ctx'[d].ended = 0
  BY <1>4, FieldFacts
<1>14. Over(t)' = {}
  BY <1>6 DEF Over, Range
<1> QED
  BY <1>2, <1>3, <1>5, <1>8, <1>9, <1>10, <1>11, <1>12, <1>13, <1>14, CallMoves

LEMMA LessUnlinked ==
    ASSUME NEW k, NEW c \in Ctxs, NEW p \in Ctxs, Unlinked(k, c, p, "put")
    PROVE  Unlinked(Lessened(k, p), c, p, "count")
<1> DEFINE l == Lessened(k, p)
<1>1. Contexts(k)
  BY DEF Unlinked
<1>2. /\ Contexts(l) /\ \A d \in Ctxs \ {p} : l[d] = k[d]
      /\ l[p].refcount = ctx[p].refcount - 1
      /\ l[p].live = k[p].live /\ l[p].parent = k[p].parent /\ l[p].ended = k[p].ended
  BY <1>1, LessenedFacts
<1> HIDE DEF l
<1>3. \A d \in Ctxs : l[d].live = k[d].live /\ l[d].parent = k[d].parent /\ l[d].ended = k[d].ended
  BY <1>2, Zenon
<1>4. \A d \in Ctxs \ {p} : l[d].refcount = ctx[d].refcount
  BY <1>2 DEF Unlinked
<1>5. l[p].refcount = ctx[p].refcount - IF "count" = "put" THEN 0 ELSE 1
  BY <1>2
<1>6. ctx[c].parent = p /\ l[c].parent = NoCtx /\ \A d \in Ctxs \ {c} : l[d].parent = ctx[d].parent
  BY <1>3 DEF Unlinked
<1>7. \A d \in Ctxs : l[d].live = ctx[d].live
  BY <1>3, Zenon DEF Unlinked
<1>8. \A d \in Ctxs : l[d].ended = ctx[d].ended
  BY <1>3, Zenon DEF Unlinked
<1> QED
  BY <1>2, <1>4, <1>5, <1>6, <1>7, <1>8 DEF Unlinked, l

LEMMA EndedKeeps ==
    ASSUME IInv, Deviations = {}, NEW t \in Threads, Ended(t)
    PROVE  IInv'
<1> SUFFICES ASSUME NEW c, c = op[t].c, NEW p, p = ctx[c].parent
             PROVE  IInv'
  OBVIOUS
<1> DEFINE unlinked == [ctx EXCEPT ![c].parent = NoCtx]
           rec == [op[t] EXCEPT !.done = Append(@, c), !.new = FoldSeverity(c)]
<1>1. /\ op[t].pc = "end" /\ stack' = stack /\ message' = message /\ cursor' = cursor
      /\ IF p = NoCtx THEN Finish(t, unlinked, rec)
         ELSE Alone(t, p) /\ (AddEvent(t, unlinked, p, rec) \/ Release(t, unlinked, p, rec))
  BY DEF Ended, Resumes
<1>2. Shape /\ c \in Ctxs
  BY <1>1 DEF IInv, Within, WithinCall
<1>3. Contexts(ctx) /\ DOMAIN op = Threads /\ DOMAIN op[t] = CallFields /\ p \in Ctxs \cup {NoCtx}
  BY <1>2, FieldFacts DEF Shape, Contexts
<1>4. DOMAIN rec = CallFields /\ rec.done = Append(op[t].done, c)
  BY <1>3 DEF CallFields
<1>5. /\ Contexts(unlinked) /\ unlinked[c].parent = NoCtx
      /\ \A d \in Ctxs \ {c} : unlinked[d].parent = ctx[d].parent
      /\ \A d \in Ctxs : unlinked[d].refcount = ctx[d].refcount /\ unlinked[d].live = ctx[d].live
                         /\ unlinked[d].ended = ctx[d].ended /\ DOMAIN unlinked[d] = DOMAIN ctx[d]
  BY <1>2, <1>3 DEF Contexts, Fields
<1> HIDE DEF rec, unlinked
<1>6. Parted(t, c, rec.done)
  BY <1>1, <1>4, EndFacts
<1>7. CASE p = NoCtx
  <2>1. \A d \in Ctxs : Alike(unlinked[d], ctx[d])
    BY <1>2, <1>5, <1>7 DEF Alike
  <2> QED
    BY <1>1, <1>5, <1>6, <1>7, <2>1, RootKeeps
<1>10. p # NoCtx => Unlinked(unlinked, c, p, "put")
  <2> SUFFICES ASSUME p # NoCtx PROVE Unlinked(unlinked, c, p, "put")
    OBVIOUS
  <2>1. ctx[p].refcount \in Int
    BY <1>2, <1>3 DEF Shape
  <2>2. unlinked[p].refcount = ctx[p].refcount - IF "put" = "put" THEN 0 ELSE 1
    BY <1>3, <1>5, <2>1
  <2> QED
    BY <1>5, <2>2 DEF Unlinked
<1>8. CASE p # NoCtx /\ AddEvent(t, unlinked, p, rec)
  <2>1. Outcome(t, unlinked, p, rec, "put")
    BY <1>3, <1>4, <1>5, <1>8, AddEventOutcome
  <2> QED
    BY <1>1, <1>3, <1>4, <1>6, <1>8, <1>10, <2>1, UnlinkKeeps
<1>9. CASE p # NoCtx /\ Release(t, unlinked, p, rec)
  <2> DEFINE k == Lessened(unlinked, p)
  <2>1. Outcome(t, k, p, rec, "count")
    BY <1>3, <1>4, <1>5, <1>9, ReleaseOutcome
  <2>2. Unlinked(k, c, p, "count")
    BY <1>2, <1>3, <1>9, <1>10, LessUnlinked
  <2> HIDE DEF k
  <2> QED
    BY <1>1, <1>3, <1>4, <1>6, <1>9, <2>1, <2>2, UnlinkKeeps
<1> QED
  BY <1>1, <1>7, <1>8, <1>9

-----------------------------------------------------------------------------
(* Calls that take references, and those that only look at the tree.        *)

\* t goes from one call to the next.
Quiet(t) ==
    /\ op[t].pc \in {"idle", "begin"}
    /\ DOMAIN op' = Threads /\ \A u \in Threads \ {t} : op'[u] = op[u]
    /\ DOMAIN op'[t] = CallFields
    /\ op'[t].pc \in {"idle", "begin", "left"} /\ op'[t].done = <<>>
    /\ op'[t].c \in Ctxs \cup {NoCtx} /\ (op'[t].pc = "left" => op'[t].c \in Ctxs)

LEMMA QuietIdle ==
    ASSUME IInv, NEW t \in Threads, op[t].pc \in {"idle", "begin"}, op' = op
    PROVE  Quiet(t)
<1>1. Shape /\ op[t].done = <<>>
  BY BetweenCalls DEF IInv
<1> QED
  BY <1>1, FieldFacts DEF Quiet, Shape

LEMMA QuietGoto ==
    ASSUME IInv, NEW t \in Threads, op[t].pc \in {"idle", "begin"}, NEW pc \in {"begin", "left"}, NEW c \in Ctxs,
           Goto(t, [Idle EXCEPT !.pc = pc, !.c = c])
    PROVE  Quiet(t) /\ op'[t].pc = pc /\ op'[t].c = c
<1> DEFINE rec == [Idle EXCEPT !.pc = pc, !.c = c]
<1>1. DOMAIN op = Threads
  BY DEF IInv, Shape
<1>2. DOMAIN op' = Threads /\ op'[t] = rec /\ \A u \in Threads \ {t} : op'[u] = op[u]
  BY <1>1, GotoFacts
<1>3. DOMAIN rec = CallFields /\ rec.pc = pc /\ rec.c = c /\ rec.done = <<>>
  BY DEF Idle, CallFields
<1> HIDE DEF rec
<1> QED
  BY <1>2, <1>3 DEF Quiet

LEMMA QuietUses ==
    ASSUME IInv, NEW t \in Threads, Quiet(t), NEW d \in Ctxs
    PROVE  /\ Folded(d)' = Folded(d)
           /\ <<"left", t, 0>> \notin LeftAt(d)
           /\ op'[t].pc = "left" /\ op'[t].c = d => LeftAt(d)' = LeftAt(d) \cup {<<"left", t, 0>>}
           /\ ~ (op'[t].pc = "left" /\ op'[t].c = d) => LeftAt(d)' = LeftAt(d)
<1>1. \A u \in Threads \ {t} : op'[u] = op[u]
  BY DEF Quiet
<1>2. /\ <<"left", t, 0>> \notin LeftAt(d) /\ <<"fold", t, 0>> \notin Folded(d)
  BY BetweenCalls DEF Quiet
<1>3. ~ FoldHeld(t)'
  BY DEF Quiet, FoldHeld
<1>4. /\ LeftAt(d)' \ {<<"left", t, 0>>} = LeftAt(d) \ {<<"left", t, 0>>}
      /\ <<"left", t, 0>> \in LeftAt(d)' <=> op'[t].pc = "left" /\ op'[t].c = d
      /\ Folded(d)' \ {<<"fold", t, 0>>} = Folded(d) \ {<<"fold", t, 0>>}
      /\ <<"fold", t, 0>> \in Folded(d)' <=> FoldHeld(t)' /\ op'[t].c = d
  BY <1>1, CallUses
<1>5. \A S, R, x : S \ {x} = R \ {x} /\ x \notin R => S = IF x \in S THEN R \cup {x} ELSE R
  OBVIOUS
<1>6. Folded(d)' = Folded(d)
  <2>1. <<"fold", t, 0>> \notin Folded(d)'
    BY <1>3, <1>4, Zenon
  <2> QED
    BY <1>2, <1>4, <1>5, <2>1, Zenon
<1>7. LeftAt(d)' = IF op'[t].pc = "left" /\ op'[t].c = d THEN LeftAt(d) \cup {<<"left", t, 0>>} ELSE LeftAt(d)
  BY <1>2, <1>4, <1>5, Zenon
<1> QED
  BY <1>2, <1>6, <1>7, Zenon

\* A context is left alone, is referred to once more, or is new.
Once(c) == /\ ctx[c].live /\ ctx[c].refcount # 0 /\ ctx'[c].live /\ ctx'[c].refcount = ctx[c].refcount + 1
           /\ ctx'[c].parent = ctx[c].parent /\ ctx'[c].ended = ctx[c].ended /\ DOMAIN ctx'[c] = DOMAIN ctx[c]
New(c) == /\ ~ ctx[c].live /\ ctx'[c].live /\ ctx'[c].refcount = 1
          /\ ctx'[c].parent \in Ctxs \cup {NoCtx} /\ ctx'[c].ended = 0 /\ DOMAIN ctx'[c] = Fields

LEMMA QuietKeeps ==
    ASSUME IInv, NEW t \in Threads, Quiet(t), Elsewhere(t), DOMAIN ctx' = Ctxs,
           \A c \in Ctxs : Alike(ctx'[c], ctx[c]) \/ Once(c) \/ New(c),
           \A c \in Ctxs : ExactAt(c)'
    PROVE  IInv'
<1>1. Shape
  BY DEF IInv
<1>2. op[t].done = <<>> /\ op[t].pc \in {"idle", "begin"}
  BY BetweenCalls DEF Quiet
<1>3. ASSUME NEW c \in Ctxs
      PROVE  /\ DOMAIN ctx'[c] = DOMAIN Fresh /\ ctx'[c].live \in BOOLEAN /\ ctx'[c].refcount \in Int
             /\ ctx'[c].parent \in Ctxs \cup {NoCtx} /\ ctx'[c].ended \in Int
  <2>1. /\ DOMAIN ctx[c] = DOMAIN Fresh /\ ctx[c].live \in BOOLEAN /\ ctx[c].refcount \in Int
        /\ ctx[c].parent \in Ctxs \cup {NoCtx} /\ ctx[c].ended \in Int
    BY <1>1 DEF Shape
  <2>2. CASE Alike(ctx'[c], ctx[c])
    BY <2>1, <2>2, Zenon DEF Alike
  <2>3. CASE Once(c)
    <3>1. ctx'[c].refcount \in Int
      BY <2>1, <2>3 DEF Once
    <3> QED
      BY <2>1, <2>3, <3>1, Zenon DEF Once
  <2>4. CASE New(c)
    <3>1. ctx'[c].refcount \in Int /\ ctx'[c].ended \in Int
      BY <2>4 DEF New
    <3>2. DOMAIN Fresh = Fields
      BY FieldFacts
    <3> QED
      BY <2>4, <3>1, <3>2, Zenon DEF New
  <2> QED
    BY <1>3, <2>2, <2>3, <2>4
<1>4. \A u \in Threads : /\ DOMAIN op'[u] = DOMAIN Idle
                         /\ op'[u].c \in Ctxs \cup {NoCtx} /\ op'[u].done \in Seq(Ctxs)
  <2>1. <<>> \in Seq(Ctxs)
    OBVIOUS
  <2> QED
    BY <1>1, <2>1, FieldFacts DEF Shape, Quiet
<1>5. Shape'
  BY <1>3, <1>4 DEF Shape, Elsewhere, Quiet
<1>6. Exact'
  BY ExactAll
<1>7. \A c \in Ctxs : ~ Engaged(t, c)' /\ ~ Ending(t, c)' /\ ~ Ending(t, c)
  BY <1>2 DEF Quiet, Engaged, Ending, Over, Range
<1>8. Over(t)' = {}
  BY DEF Quiet, Over, Range
<1>9. WithinCall(t)'
  BY DEF Quiet, WithinCall
<1>10. \A c \in Ctxs : ctx'[c].ended = ctx[c].ended \/ (~ ctx[c].live /\ ctx'[c].ended = 0)
  BY DEF Alike, Once, New
<1>11. \A c \in Ctxs : \/ /\ ctx'[c].live = ctx[c].live /\ ctx'[c].refcount = ctx[c].refcount
                          /\ ctx'[c].parent = ctx[c].parent /\ ctx'[c].ended = ctx[c].ended
                       \/ ctx'[c].live /\ ctx[c].refcount # 0
                       \/ ~ ctx[c].live
  BY DEF Alike, Once, New
<1>12. \A u \in Threads \ {t} : op'[u] = op[u] /\ stack'[u] = stack[u]
  BY DEF Quiet, Elsewhere
<1> QED
  BY <1>5, <1>6, <1>7, <1>8, <1>9, <1>10, <1>11, <1>12, CallMoves, Zenon

\* The same references, by the same users.
LEMMA QuietStays ==
    ASSUME IInv, NEW t \in Threads, Quiet(t), op'[t].pc # "left", DOMAIN ctx' = Ctxs,
           \A c \in Ctxs : Alike(ctx'[c], ctx[c]), stack' = stack, message' = message, cursor' = cursor
    PROVE  IInv'
<1>1. Elsewhere(t) /\ Exact
  BY DEF IInv, Shape, Elsewhere
<1>2. ASSUME NEW c \in Ctxs PROVE ExactAt(c)'
  <2>1. Folded(c)' = Folded(c) /\ LeftAt(c)' = LeftAt(c)
    BY QuietUses
  <2>2. Stacked(c)' = Stacked(c) /\ Posted(c)' = Posted(c) /\ Walked(c)' = Walked(c)
    BY DEF Stacked, Posted, Walked
  <2>3. Childs(c)' = Childs(c)
    BY ChildsSame DEF Alike
  <2>4. Uses(c)' = Uses(c)
    BY <2>1, <2>2, <2>3 DEF Uses
  <2> QED
    BY <1>1, <2>4, ExactSame DEF Alike
<1> QED
  BY <1>1, <1>2, QuietKeeps

LEMMA BegunKeeps ==
    ASSUME IInv, NEW t \in Threads, Begun(t)
    PROVE  IInv'
<1>1. /\ op[t].pc = "begin" /\ Goto(t, Idle) /\ ctx' = ctx
      /\ stack' = stack /\ message' = message /\ cursor' = cursor
  BY DEF Begun, Resumes
<1>2. Shape
  BY DEF IInv
<1>3. DOMAIN op' = Threads /\ op'[t] = Idle /\ \A u \in Threads \ {t} : op'[u] = op[u]
  BY <1>1, <1>2, GotoFacts DEF Shape
<1>4. Quiet(t) /\ op'[t].pc # "left"
  BY <1>1, <1>3, FieldFacts DEF Quiet
<1>5. DOMAIN ctx' = Ctxs /\ \A c \in Ctxs : Alike(ctx'[c], ctx[c])
  BY <1>1, <1>2 DEF Alike, Shape
<1> QED
  BY <1>1, <1>4, <1>5, QuietStays

LEMMA DescribeKeeps ==
    ASSUME IInv, NEW t \in Threads, Describe(t)
    PROVE  IInv'
<1> SUFFICES ASSUME NEW c, c = Top(t)
             PROVE  IInv'
  OBVIOUS
<1>1. /\ op[t].pc = "idle" /\ c # NoCtx /\ Goto(t, [Idle EXCEPT !.pc = "begin", !.c = c])
      /\ stack' = stack /\ message' = message /\ cursor' = cursor
  BY DEF Describe, Calls
<1>2. PICK i : ctx' = [ctx EXCEPT ![c].events = RemoveAt(@, i), ![c].desc = ctx[c].events[i].id]
  BY DEF Describe
<1>3. Shape /\ c \in Ctxs
  BY <1>1, TopUse DEF IInv
<1>4. Quiet(t) /\ op'[t].pc = "begin"
  BY <1>1, <1>3, QuietGoto
<1>5. Contexts(ctx)
  BY <1>3, FieldFacts DEF Shape, Contexts
<1>6. DOMAIN ctx' = Ctxs /\ \A d \in Ctxs : Alike(ctx'[d], ctx[d])
  BY <1>2, <1>3, <1>5 DEF Contexts, Fields, Alike
<1> QED
  BY <1>1, <1>4, <1>6, QuietStays

LEMMA DeleteLastKeeps ==
    ASSUME IInv, NEW t \in Threads, DeleteLast(t)
    PROVE  IInv'
<1> SUFFICES ASSUME NEW c, c = Top(t)
             PROVE  IInv'
  OBVIOUS
<1>1. /\ op[t].pc = "idle" /\ c # NoCtx /\ op' = op
      /\ stack' = stack /\ message' = message /\ cursor' = cursor
  BY DEF DeleteLast, Calls
<1>2. PICK left : \/ ctx' = [ctx EXCEPT ![c].events = left]
                  \/ ctx' = [ctx EXCEPT ![c].events = left, ![c].err = Picked(left), ![c].severity = Worst(left)]
  BY DEF DeleteLast
<1>3. Shape /\ c \in Ctxs
  BY <1>1, TopUse DEF IInv
<1>4. Quiet(t) /\ op'[t].pc # "left"
  BY <1>1, QuietIdle
<1>5. Contexts(ctx)
  BY <1>3, FieldFacts DEF Shape, Contexts
<1>6. DOMAIN ctx' = Ctxs /\ \A d \in Ctxs : Alike(ctx'[d], ctx[d])
  BY <1>2, <1>3, <1>5 DEF Contexts, Fields, Alike
<1> QED
  BY <1>1, <1>4, <1>6, QuietStays

\* One more reference to c.
LEMMA HeldOnce ==
    ASSUME IInv, NEW c \in Ctxs, ctx[c].live, ctx[c].refcount # 0, ctx' = [ctx EXCEPT ![c].refcount = @ + 1]
    PROVE  /\ DOMAIN ctx' = Ctxs /\ Once(c) /\ \A d \in Ctxs \ {c} : Alike(ctx'[d], ctx[d])
           /\ \A d \in Ctxs : Childs(d)' = Childs(d)
<1>1. Contexts(ctx)
  BY FieldFacts DEF IInv, Shape, Contexts
<1>2. DOMAIN ctx' = Ctxs /\ Once(c) /\ \A d \in Ctxs \ {c} : Alike(ctx'[d], ctx[d])
  BY <1>1 DEF Contexts, Fields, Alike, Once
<1>3. \A e \in Ctxs : ctx'[e].live = ctx[e].live /\ ctx'[e].parent = ctx[e].parent
  BY <1>2, Zenon DEF Alike, Once
<1> QED
  BY <1>2, <1>3, ChildsSame

\* A thread, a message or a walk comes to hold c by the use q.
LEMMA HoldKeeps ==
    ASSUME IInv, NEW t \in Threads, Quiet(t), op'[t].pc # "left", Elsewhere(t), NEW c \in Ctxs,
           ctx[c].live, ctx[c].refcount # 0, ctx' = [ctx EXCEPT ![c].refcount = @ + 1],
           NEW q, q \notin Uses(c),
           \A d \in Ctxs : Stacked(d)' \cup Posted(d)' \cup Walked(d)'
                           = Stacked(d) \cup Posted(d) \cup Walked(d) \cup IF d = c THEN {q} ELSE {}
    PROVE  IInv'
<1>1. /\ DOMAIN ctx' = Ctxs /\ Once(c) /\ \A d \in Ctxs \ {c} : Alike(ctx'[d], ctx[d])
      /\ \A d \in Ctxs : Childs(d)' = Childs(d)
  BY HeldOnce
<1>2. ASSUME NEW d \in Ctxs PROVE ExactAt(d)'
  <2>1. Folded(d)' = Folded(d) /\ LeftAt(d)' = LeftAt(d)
    BY QuietUses
  <2>2. Uses(d)' = Uses(d) \cup IF d = c THEN {q} ELSE {}
    BY <1>1, <2>1 DEF Uses
  <2>3. CASE d = c
    <3>1. Uses(c)' = Uses(c) \cup {q}
      BY <2>2, <2>3
    <3> QED
      BY <1>1, <2>3, <3>1, ExactMore DEF IInv, Once
  <2>4. CASE d # c
    <3>1. Uses(d)' = Uses(d)
      BY <2>2, <2>4
    <3> QED
      BY <1>1, <2>4, <3>1, ExactSame DEF IInv, Alike
  <2> QED
    BY <2>3, <2>4
<1> QED
  BY <1>1, <1>2, QuietKeeps

LEMMA AttachKeeps ==
    ASSUME IInv, NEW t \in Threads, Attach(t)
    PROVE  IInv'
<1> SUFFICES ASSUME NEW c, c = Top(t)
             PROVE  IInv'
  OBVIOUS
<1> DEFINE q == <<"message", c, 0>>
<1>1. /\ op[t].pc = "idle" /\ c # NoCtx /\ c \notin message /\ message' = message \cup {c}
      /\ ctx' = [ctx EXCEPT ![c].refcount = @ + 1]
      /\ op' = op /\ stack' = stack /\ cursor' = cursor
  BY DEF Attach, Calls
<1>2. Shape /\ Exact
  BY DEF IInv
<1>3. c \in Ctxs /\ <<"stack", t, Len(stack[t])>> \in Uses(c)
  BY <1>1, <1>2, TopUse
<1>4. ctx[c].live /\ ctx[c].refcount # 0
  BY <1>2, <1>3, UseFacts
<1>5. Quiet(t) /\ op'[t].pc # "left" /\ Elsewhere(t)
  <2>1. Quiet(t)
    BY <1>1, QuietIdle
  <2> QED
    BY <1>1, <1>2, <1>3, <2>1 DEF Elsewhere, Shape
<1>6. q[1] = "message" /\ q \notin Posted(c) /\ \A d \in Ctxs : Posted(d)' = Posted(d) \cup IF d = c THEN {q} ELSE {}
  BY <1>1, <1>3 DEF Posted
<1> HIDE DEF q
<1>7. q \notin Uses(c)
  BY <1>6, Parts DEF Uses
<1>8. \A d \in Ctxs : Stacked(d)' = Stacked(d) /\ Walked(d)' = Walked(d)
  BY <1>1 DEF Stacked, Walked
<1>9. \A d \in Ctxs : Stacked(d)' \cup Posted(d)' \cup Walked(d)'
                      = Stacked(d) \cup Posted(d) \cup Walked(d) \cup IF d = c THEN {q} ELSE {}
  BY <1>6, <1>8
<1> QED
  BY <1>1, <1>3, <1>4, <1>5, <1>7, <1>9, HoldKeeps

LEMMA PushKeeps ==
    ASSUME IInv, NEW t \in Threads, Push(t)
    PROVE  IInv'
<1>1. PICK c \in message : ctx' = [ctx EXCEPT ![c].refcount = @ + 1] /\ stack' = [stack EXCEPT ![t] = Append(@, c)]
  BY DEF Push
<1> DEFINE q == <<"stack", t, Len(stack[t]) + 1>>
<1>2. op[t].pc = "idle" /\ op' = op /\ message' = message /\ cursor' = cursor /\ Shape /\ Exact
  BY DEF Push, Calls, IInv
<1>3. c \in Ctxs /\ <<"message", c, 0>> \in Uses(c)
  BY <1>1, <1>2 DEF Shape, Uses, Posted
<1>4. ctx[c].live /\ ctx[c].refcount # 0
  BY <1>2, <1>3, UseFacts
<1>5. /\ Stacked(c)' = Stacked(c) \cup {q} /\ q \notin Stacked(c)
      /\ \A d \in Ctxs \ {c} : Stacked(d)' = Stacked(d)
      /\ stack' \in [Threads -> Seq(Ctxs)] /\ \A u \in Threads \ {t} : stack'[u] = stack[u]
  BY <1>1, <1>2, <1>3, StackedGrows
<1>6. Quiet(t) /\ op'[t].pc # "left" /\ Elsewhere(t)
  <2>1. Quiet(t)
    BY <1>2, QuietIdle
  <2> QED
    BY <1>2, <1>5, <2>1 DEF Elsewhere, Shape
<1>7. q[1] = "stack"
  OBVIOUS
<1> HIDE DEF q
<1>8. q \notin Uses(c)
  BY <1>5, <1>7, Parts DEF Uses
<1>9. \A d \in Ctxs : Posted(d)' = Posted(d) /\ Walked(d)' = Walked(d)
  BY <1>2 DEF Posted, Walked
<1>10. \A d \in Ctxs : Stacked(d)' \cup Posted(d)' \cup Walked(d)'
                       = Stacked(d) \cup Posted(d) \cup Walked(d) \cup IF d = c THEN {q} ELSE {}
  BY <1>5, <1>9
<1> QED
  BY <1>1, <1>3, <1>4, <1>6, <1>8, <1>10, HoldKeeps

LEMMA WalkUses ==
    ASSUME Shape, NEW t \in Threads, NEW x, cursor' = [cursor EXCEPT ![t] = x], NEW d
    PROVE  Walked(d)' = IF x = d THEN Walked(d) \cup {<<"cursor", t, 0>>} ELSE Walked(d) \ {<<"cursor", t, 0>>}
<1>1. cursor'[t] = x /\ \A u \in Threads \ {t} : cursor'[u] = cursor[u]
  BY DEF Shape
<1> QED
  BY <1>1 DEF Walked

LEMMA FirstKeeps ==
    ASSUME IInv, Deviations = {}, NEW t \in Threads, First(t)
    PROVE  IInv'
<1>1. PICK d \in Ctxs : /\ ctx[d].live /\ Visits(d) /\ ctx' = [ctx EXCEPT ![d].refcount = @ + 1]
                        /\ cursor' = [cursor EXCEPT ![t] = d]
  BY DEF First, Children
<1> DEFINE q == <<"cursor", t, 0>>
<1>2. op[t].pc = "idle" /\ cursor[t] = NoCtx /\ op' = op /\ message' = message /\ stack' = stack /\ Shape
  BY DEF First, Calls, IInv
<1>3. ctx[d].live /\ ctx[d].refcount # 0 /\ NoCtx \notin Ctxs
  BY <1>1, KherrAssumption DEF Visits
<1>4. Quiet(t) /\ op'[t].pc # "left" /\ Elsewhere(t)
  <2>1. Quiet(t)
    BY <1>2, QuietIdle
  <2> QED
    BY <1>1, <1>2, <2>1 DEF Elsewhere, Shape
<1>5. \A e \in Ctxs : q \notin Walked(e)
  BY <1>2, <1>3 DEF Walked
<1>6. \A e \in Ctxs : Walked(e)' = IF d = e THEN Walked(e) \cup {q} ELSE Walked(e) \ {q}
  BY <1>1, <1>2, WalkUses
<1>7. q[1] = "cursor"
  OBVIOUS
<1> HIDE DEF q
<1>8. q \notin Uses(d)
  BY <1>5, <1>7, Parts DEF Uses
<1>9. \A e \in Ctxs : Stacked(e)' = Stacked(e) /\ Posted(e)' = Posted(e)
  BY <1>2 DEF Stacked, Posted
<1>10. \A e \in Ctxs : Stacked(e)' \cup Posted(e)' \cup Walked(e)'
                       = Stacked(e) \cup Posted(e) \cup Walked(e) \cup IF e = d THEN {q} ELSE {}
  BY <1>5, <1>6, <1>9
<1> QED
  BY <1>1, <1>3, <1>4, <1>8, <1>10, HoldKeeps

LEMMA NextContextKeeps ==
    ASSUME IInv, Deviations = {}, NEW t \in Threads, NextContext(t)
    PROVE  IInv'
<1> SUFFICES ASSUME NEW c, c = cursor[t]
             PROVE  IInv'
  OBVIOUS
<1> DEFINE held == <<"cursor", t, 0>>
           left == <<"left", t, 0>>
<1>1. /\ op[t].pc = "idle" /\ c # NoCtx /\ Goto(t, [Idle EXCEPT !.pc = "left", !.c = c])
      /\ stack' = stack /\ message' = message
  BY DEF NextContext, Calls
<1>2. Shape /\ Exact /\ c \in Ctxs /\ NoCtx \notin Ctxs
  BY <1>1, KherrAssumption DEF IInv, Shape
<1>3. PICK x \in Ctxs \cup {NoCtx} :
        /\ cursor' = [cursor EXCEPT ![t] = x] /\ x # c
        /\ IF x = NoCtx THEN ctx' = ctx
           ELSE ctx[x].live /\ ctx[x].refcount # 0 /\ ctx' = [ctx EXCEPT ![x].refcount = @ + 1]
  <2>1. CASE \E d \in Children(ctx[c].parent) \ {c} : /\ Visits(d) /\ ctx' = [ctx EXCEPT ![d].refcount = @ + 1]
                                                      /\ cursor' = [cursor EXCEPT ![t] = d]
    <3>1. PICK d \in Ctxs \ {c} : /\ ctx[d].live /\ Visits(d) /\ ctx' = [ctx EXCEPT ![d].refcount = @ + 1]
                                  /\ cursor' = [cursor EXCEPT ![t] = d]
      BY <2>1 DEF Children
    <3>2. ctx[d].refcount # 0 /\ d # NoCtx
      BY <1>2, <3>1 DEF Visits
    <3> QED
      BY <3>1, <3>2
  <2>2. CASE cursor' = [cursor EXCEPT ![t] = NoCtx] /\ ctx' = ctx
    BY <1>2, <2>2
  <2> QED
    BY <2>1, <2>2 DEF NextContext
<1>4. Quiet(t) /\ op'[t].pc = "left" /\ op'[t].c = c
  BY <1>1, <1>2, QuietGoto
<1>5. Elsewhere(t)
  BY <1>1, <1>2, <1>3 DEF Elsewhere, Shape
<1>6. \A d \in Ctxs : /\ Walked(d)' = IF x = d THEN Walked(d) \cup {held} ELSE Walked(d) \ {held}
                      /\ held \in Walked(d) <=> d = c
  <2>1. \A d \in Ctxs : held \in Walked(d) <=> d = c
    BY DEF Walked
  <2> QED
    BY <1>2, <1>3, <2>1, WalkUses
<1>7. \A d \in Ctxs : /\ Folded(d)' = Folded(d) /\ left \notin LeftAt(d)
                      /\ LeftAt(d)' = IF d = c THEN LeftAt(d) \cup {left} ELSE LeftAt(d)
  <2> SUFFICES ASSUME NEW d \in Ctxs
               PROVE  /\ Folded(d)' = Folded(d) /\ left \notin LeftAt(d)
                      /\ LeftAt(d)' = IF d = c THEN LeftAt(d) \cup {left} ELSE LeftAt(d)
    OBVIOUS
  <2> QED
    BY <1>4, QuietUses, Zenon
<1>8. \A d \in Ctxs : Stacked(d)' = Stacked(d) /\ Posted(d)' = Posted(d)
  BY <1>1 DEF Stacked, Posted
<1>9. /\ DOMAIN ctx' = Ctxs
      /\ x # NoCtx => Once(x)
      /\ \A d \in Ctxs \ {x} : Alike(ctx'[d], ctx[d])
      /\ \A d \in Ctxs : Childs(d)' = Childs(d)
  <2>1. CASE x = NoCtx
    <3>1. ctx' = ctx
      BY <1>3, <2>1
    <3> QED
      BY <1>2, <2>1, <3>1 DEF Shape, Alike, Childs, Children
  <2>2. CASE x # NoCtx
    BY <1>3, <2>2, HeldOnce
  <2> QED
    BY <2>1, <2>2
<1>10. held[1] = "cursor" /\ left[1] = "left" /\ held # left
  OBVIOUS
<1> HIDE DEF held, left
<1>11. \A d \in Ctxs : /\ held \in Uses(d) <=> d = c
                       /\ left \notin Uses(d)
  BY <1>6, <1>7, <1>10, Parts DEF Uses
<1>12. \A d \in Ctxs : held \notin Stacked(d) \cup Posted(d) \cup LeftAt(d) \cup Childs(d) \cup Folded(d)
  BY <1>10, Parts
<1>13. ASSUME NEW d \in Ctxs PROVE ExactAt(d)'
  <2>1. CASE d = c
    <3>1. Uses(c)' = (Uses(c) \ {held}) \cup {left}
      BY <1>2, <1>3, <1>6, <1>7, <1>8, <1>9, <1>12 DEF Uses
    <3>2. Alike(ctx'[c], ctx[c])
      BY <1>2, <1>3, <1>9
    <3> QED
      BY <1>2, <1>11, <2>1, <3>1, <3>2, ExactMoves DEF Alike
  <2>2. CASE d # c /\ d = x
    <3>1. Uses(d)' = Uses(d) \cup {held}
      BY <1>6, <1>7, <1>8, <1>9, <2>2 DEF Uses
    <3>2. Once(d) /\ held \notin Uses(d)
      BY <1>2, <1>9, <1>11, <2>2
    <3> QED
      BY <1>2, <3>1, <3>2, ExactMore DEF Once
  <2>3. CASE d # c /\ d # x
    <3>1. Uses(d)' = Uses(d)
      BY <1>6, <1>7, <1>8, <1>9, <2>3 DEF Uses
    <3> QED
      BY <1>2, <1>9, <2>3, <3>1, ExactSame DEF Alike
  <2> QED
    BY <2>1, <2>2, <2>3
<1>14. \A d \in Ctxs : Alike(ctx'[d], ctx[d]) \/ Once(d)
  BY <1>2, <1>9
<1> QED
  BY <1>4, <1>5, <1>9, <1>13, <1>14, QuietKeeps

LEMMA PushNewKeeps ==
    ASSUME IInv, NEW t \in Threads, PushNew(t)
    PROVE  IInv'
<1> SUFFICES ASSUME NEW p, p = Top(t)
             PROVE  IInv'
  OBVIOUS
<1>1. PICK c \in Ctxs : /\ ~ ctx[c].live
                        /\ ctx' = [d \in Ctxs |->
                                     CASE d = c -> [Fresh EXCEPT !.refcount = 1, !.parent = p]
                                       [] d = p -> [ctx[p] EXCEPT !.refcount = ParentHeld(p)]
                                       [] OTHER -> ctx[d]]
                        /\ stack' = [stack EXCEPT ![t] = Append(@, c)]
                        /\ Goto(t, [Idle EXCEPT !.pc = "begin", !.c = c])
  BY ZenonT(60) DEF PushNew
<1> DEFINE top == <<"stack", t, Len(stack[t]) + 1>>
           child == <<"child", c, 0>>
<1>2. op[t].pc = "idle" /\ message' = message /\ cursor' = cursor
  BY DEF PushNew, Calls
<1>3. Shape /\ Exact /\ Contexts(ctx) /\ NoCtx \notin Ctxs
  BY FieldFacts, KherrAssumption DEF IInv, Shape, Contexts
<1>4. p # NoCtx => p \in Ctxs /\ ctx[p].live /\ ctx[p].refcount # 0
  <2> SUFFICES ASSUME p # NoCtx PROVE p \in Ctxs /\ ctx[p].live /\ ctx[p].refcount # 0
    OBVIOUS
  <2>1. p \in Ctxs /\ <<"stack", t, Len(stack[t])>> \in Uses(p)
    BY <1>3, TopUse
  <2> QED
    BY <1>3, <2>1, UseFacts
<1>5. p # c /\ p \in Ctxs \cup {NoCtx}
  BY <1>1, <1>3, <1>4
<1>6. Quiet(t) /\ op'[t].pc = "begin"
  BY <1>1, <1>2, QuietGoto
<1>7. New(c) /\ ctx'[c].parent = p
  <2>1. ctx'[c] = [Fresh EXCEPT !.refcount = 1, !.parent = p]
    BY <1>1, <1>5
  <2> QED
    BY <1>1, <1>5, <2>1 DEF New, Fresh, Fields
<1>8. p # NoCtx => Once(p)
  <2> SUFFICES ASSUME p # NoCtx PROVE Once(p)
    OBVIOUS
  <2>1. ctx'[p] = [ctx[p] EXCEPT !.refcount = ctx[p].refcount + 1]
    BY <1>1, <1>4, <1>5 DEF ParentHeld
  <2> QED
    BY <1>3, <1>4, <2>1 DEF Once, Contexts, Fields
<1>9. DOMAIN ctx' = Ctxs /\ \A d \in Ctxs \ {c, p} : ctx'[d] = ctx[d]
  BY <1>1
<1>10. /\ Stacked(c)' = Stacked(c) \cup {top}
       /\ \A d \in Ctxs \ {c} : Stacked(d)' = Stacked(d)
       /\ stack' \in [Threads -> Seq(Ctxs)] /\ \A u \in Threads \ {t} : stack'[u] = stack[u]
  BY <1>1, <1>3, StackedGrows
<1>11. Elsewhere(t)
  BY <1>2, <1>3, <1>10 DEF Elsewhere, Shape
<1>12. \A d \in Ctxs : /\ Folded(d)' = Folded(d) /\ LeftAt(d)' = LeftAt(d)
                       /\ Posted(d)' = Posted(d) /\ Walked(d)' = Walked(d)
  <2>1. \A d \in Ctxs : Folded(d)' = Folded(d) /\ LeftAt(d)' = LeftAt(d)
    BY <1>6, QuietUses
  <2> QED
    BY <1>2, <2>1 DEF Posted, Walked
<1>13. \A d \in Ctxs : Childs(d)' = Childs(d) \cup IF d = p THEN {child} ELSE {}
  <2> SUFFICES ASSUME NEW d \in Ctxs
               PROVE  Childs(d)' = Childs(d) \cup IF d = p THEN {child} ELSE {}
    OBVIOUS
  <2>1. \A e \in Ctxs \ {c} : ctx'[e].live = ctx[e].live /\ ctx'[e].parent = ctx[e].parent
    <3>1. p # NoCtx => ctx'[p].live = ctx[p].live /\ ctx'[p].parent = ctx[p].parent
      BY <1>8, Zenon DEF Once
    <3> QED
      BY <1>3, <1>9, <3>1
  <2>2. Children(d)' = Children(d) \cup IF d = p THEN {c} ELSE {}
    BY <1>1, <1>7, <2>1 DEF Children, New
  <2>3. Childs(d)' = {<<"child", e, 0>> : e \in Children(d)'}
    BY DEF Childs
  <2> QED
    BY <2>2, <2>3 DEF Childs
<1>14. child \notin Uses(p)
  <2>1. child \notin Childs(p)
    BY <1>1 DEF Childs, Children
  <2> QED
    BY <2>1, Parts DEF Uses
<1> HIDE DEF top, child
<1>15. ASSUME NEW d \in Ctxs PROVE ExactAt(d)'
  <2>1. CASE d = c
    <3>1. Uses(c) = {}
      BY <1>1, <1>3 DEF Exact
    <3>2. Uses(c)' = {top}
      BY <1>5, <1>10, <1>12, <1>13, <3>1 DEF Uses
    <3> QED
      BY <1>7, <2>1, <3>2, ExactNew DEF New
  <2>2. CASE d = p
    <3>1. Uses(p)' = Uses(p) \cup {child}
      BY <1>5, <1>10, <1>12, <1>13, <2>2 DEF Uses
    <3>2. Once(p)
      BY <1>3, <1>8, <2>2
    <3> QED
      BY <1>3, <1>14, <2>2, <3>1, <3>2, ExactMore DEF Once
  <2>3. CASE d # c /\ d # p
    <3>1. Uses(d)' = Uses(d)
      BY <1>10, <1>12, <1>13, <2>3 DEF Uses
    <3> QED
      BY <1>3, <1>9, <2>3, <3>1, ExactSame
  <2> QED
    BY <2>1, <2>2, <2>3
<1>16. \A d \in Ctxs : Alike(ctx'[d], ctx[d]) \/ Once(d) \/ New(d)
  BY <1>3, <1>7, <1>8, <1>9 DEF Alike
<1> QED
  BY <1>6, <1>9, <1>11, <1>15, <1>16, QuietKeeps

-----------------------------------------------------------------------------
(* The theorems.                                                            *)

LEMMA InitHolds == Init => IInv
<1> SUFFICES ASSUME Init PROVE IInv
  OBVIOUS
<1>1. /\ ctx = [c \in Ctxs |-> Free] /\ stack = [t \in Threads |-> <<>>] /\ message = {}
      /\ cursor = [t \in Threads |-> NoCtx] /\ op = [t \in Threads |-> Idle] /\ NoCtx \notin Ctxs
  BY KherrAssumption DEF Init
<1>2. \A t \in Threads : op[t].pc = "idle" /\ op[t].c = NoCtx /\ op[t].done = <<>> /\ DOMAIN op[t] = DOMAIN Idle
  BY <1>1, FieldFacts
<1>3. \A c \in Ctxs : /\ ctx[c].live = FALSE /\ ctx[c].refcount = 0 /\ ctx[c].parent = NoCtx
                      /\ ctx[c].ended = 0 /\ DOMAIN ctx[c] = DOMAIN Fresh
  BY <1>1, FieldFacts
<1>4. Shape
  <2>1. \A c \in Ctxs : ctx[c].refcount \in Int /\ ctx[c].ended \in Int
    BY <1>3
  <2>2. \A c \in Ctxs : DOMAIN ctx[c] = DOMAIN Fresh /\ ctx[c].live \in BOOLEAN /\ ctx[c].parent \in Ctxs \cup {NoCtx}
    BY <1>3
  <2>3. \A t \in Threads : DOMAIN op[t] = DOMAIN Idle /\ op[t].c \in Ctxs \cup {NoCtx} /\ op[t].done \in Seq(Ctxs)
    <3>1. <<>> \in Seq(Ctxs)
      OBVIOUS
    <3> QED
      BY <1>2, <3>1, Zenon
  <2>4. stack \in [Threads -> Seq(Ctxs)] /\ cursor \in [Threads -> Ctxs \cup {NoCtx}] /\ message \subseteq Ctxs
    BY <1>1
  <2>5. DOMAIN ctx = Ctxs /\ DOMAIN op = Threads
    BY <1>1
  <2> QED
    BY <2>1, <2>2, <2>3, <2>4, <2>5, Zenon DEF Shape
<1>5. Exact
  <2> SUFFICES ASSUME NEW c \in Ctxs PROVE IsFiniteSet(Uses(c)) /\ ~ ctx[c].live /\ Uses(c) = {}
    BY DEF Exact
  <2>1. Stacked(c) = {} /\ Posted(c) = {} /\ Walked(c) = {}
    BY <1>1 DEF Stacked, Posted, Walked
  <2>2. LeftAt(c) = {} /\ Folded(c) = {}
    BY <1>2 DEF LeftAt, Folded, FoldHeld
  <2>3. Childs(c) = {}
    BY <1>3 DEF Childs, Children
  <2>4. Uses(c) = {}
    BY <2>1, <2>2, <2>3 DEF Uses
  <2> QED
    BY <1>3, <2>4, FS_EmptySet
<1>6. Within
  BY <1>2 DEF Within, WithinCall
<1>7. OneEngaged
  BY <1>2 DEF OneEngaged, Engaged
<1>8. \A t \in Threads : Over(t) = {}
  BY <1>2 DEF Over, Range
<1>9. EndedApart /\ EndCounted
  <2>1. \A t \in Threads : \A c \in Ctxs : ~ Ending(t, c)
    BY <1>2, <1>8 DEF Ending
  <2> QED
    BY <1>3, <1>8, <2>1 DEF EndedApart, EndCounted
<1> QED
  BY <1>4, <1>5, <1>6, <1>7, <1>9 DEF IInv

LEMMA StepHolds == ASSUME Deviations = {} PROVE IInv /\ [Next]_vars => IInv'
<1> SUFFICES ASSUME IInv, [Next]_vars PROVE IInv'
  OBVIOUS
<1>1. ASSUME NEW t \in Threads,
             \/ PushNew(t) \/ Begun(t) \/ Attach(t) \/ Push(t) \/ Pop(t) \/ Detach(t)
             \/ Report(t) \/ Describe(t) \/ DeleteLast(t)
             \/ First(t) \/ NextContext(t) \/ Left(t)
             \/ Committed(t) \/ ErrorTold(t) \/ Ended(t) \/ FoldTold(t)
      PROVE  IInv'
  <2>1. CASE PushNew(t) \/ Attach(t) \/ Push(t) \/ First(t) \/ NextContext(t)
    BY <2>1, PushNewKeeps, AttachKeeps, PushKeeps, FirstKeeps, NextContextKeeps
  <2>2. CASE Begun(t) \/ Describe(t) \/ DeleteLast(t) \/ Report(t)
    BY <2>2, BegunKeeps, DescribeKeeps, DeleteLastKeeps, ReportKeeps
  <2>3. CASE Pop(t) \/ Detach(t) \/ Left(t) \/ FoldTold(t)
    BY <2>3, PopKeeps, DetachKeeps, LeftKeeps, FoldToldKeeps
  <2>4. CASE Committed(t) \/ ErrorTold(t) \/ Ended(t)
    BY <2>4, CommittedKeeps, ErrorToldKeeps, EndedKeeps
  <2> QED
    BY <1>1, <2>1, <2>2, <2>3, <2>4
<1>2. CASE UNCHANGED vars
  <2>1. ctx' = ctx /\ stack' = stack /\ message' = message /\ cursor' = cursor /\ op' = op
    BY <1>2 DEF vars
  <2>2. Shape' /\ Within' /\ OneEngaged' /\ EndedApart' /\ EndCounted'
    BY <2>1 DEF IInv, Shape, Within, WithinCall, Top, OneEngaged, Engaged, EndedApart, Over, EndCounted, Ending
  <2>3. \A c \in Ctxs : Uses(c)' = Uses(c)
    BY <2>1 DEF Uses, Stacked, Posted, Walked, LeftAt, Childs, Children, Folded, FoldHeld
  <2>4. Exact'
    BY <2>1, <2>3 DEF IInv, Exact
  <2> QED
    BY <2>2, <2>4 DEF IInv
<1> QED
  BY <1>1, <1>2 DEF Next

\* As long as no context is used while another thread tells the handlers of an
\* event in it, and no walk comes upon an ending one: a count is that of the
\* users, and what a call has ended is in nobody else's hands.
THEOREM Invariance == ASSUME Deviations = {} PROVE Spec => []IInv
<1>1. Init => IInv
  BY InitHolds
<1>2. IInv /\ [Next]_vars => IInv'
  BY StepHolds
<1> QED
  BY <1>1, <1>2, PTL DEF Spec

\* kherr_context::refcount is the number of the stacks, messages, walks, children
\* and folds that refer to the context, between any two entries of cs_error; a
\* context in the free list is referred to by none.
THEOREM RefcountCorrect == ASSUME Deviations = {} PROVE Spec => []RefcountExact
<1>1. IInv => RefcountExact
  <2> SUFFICES ASSUME IInv, NEW c \in Ctxs
               PROVE  IF ctx[c].live THEN ctx[c].refcount = Users(c) ELSE Users(c) = 0
    BY DEF RefcountExact
  <2>1. IF ctx[c].live THEN ctx[c].refcount = Cardinality(Uses(c)) ELSE Uses(c) = {}
    BY DEF IInv, Exact
  <2> QED
    BY <2>1, FS_EmptySet DEF Users
<1> QED
  BY <1>1, Invariance, PTL

\* KHERR_CTX_END is signalled once in the life of a context, when nobody refers to
\* it any more, and the context is not freed under the handlers (kherr.h:494).
THEOREM EndsOnceCorrect == ASSUME Deviations = {} PROVE Spec => []EndsOnce
<1>1. IInv => EndsOnce
  <2> SUFFICES ASSUME IInv PROVE EndsOnce
    OBVIOUS
  <2>1. \A c \in Ctxs : ctx[c].ended <= 1
    BY DEF IInv, EndCounted
  <2>2. ASSUME NEW t \in Threads, op[t].pc = "end"
        PROVE  ctx[op[t].c].live /\ Users(op[t].c) = 0
    <3> SUFFICES ASSUME NEW c, c = op[t].c PROVE ctx[c].live /\ Users(c) = 0
      OBVIOUS
    <3>1. c \in Ctxs /\ ctx[c].live /\ ctx[c].refcount = 0
      BY <2>2 DEF IInv, Within, WithinCall
    <3>2. Uses(c) = {}
      BY <3>1, UseFacts DEF IInv
    <3> QED
      BY <3>1, <3>2, FS_EmptySet DEF Users
  <2> QED
    BY <2>1, <2>2 DEF EndsOnce
<1> QED
  BY <1>1, Invariance, PTL

-----------------------------------------------------------------------------
(* The events of a context: sequences of events, told and committed.        *)

LEMMA EventTyped ==
    ASSUME NEW id \in Nat, NEW severity \in {Error, Info, None}, NEW t \in Threads
    PROVE  /\ Event(id, severity, t) \in EventType
           /\ Event(id, severity, t).id = id /\ Event(id, severity, t).notified = 0
BY DEF Event, EventType

LEMMA NothingSettled == Settled(<<>>)
<1>1. <<>> \in Seq(EventType) /\ DOMAIN <<>> = {}
  OBVIOUS
<1> QED
  BY <1>1 DEF Settled, Distinct

\* Describing a context, and deleting an event, take one out.
LEMMA RemoveSettled ==
    ASSUME NEW s, Settled(s), NEW i \in DOMAIN s
    PROVE  Settled(RemoveAt(s, i))
<1> DEFINE r == RemoveAt(s, i)
<1>1. /\ s \in Seq(EventType) /\ \A j, k \in DOMAIN s : s[j].id = s[k].id => j = k
      /\ \A j \in DOMAIN s : s[j].notified <= 1 /\ (s[j].notified = 1 => s[j].commit)
  BY DEF Settled, Distinct
<1>2. i \in 1 .. Len(s)
  BY <1>1
<1>3. IsInjective(s)
  BY <1>1 DEF IsInjective
<1>4. r \in Seq(EventType) /\ IsInjective(r) /\ ToSet(r) = ToSet(s) \ {s[i]}
  BY <1>1, <1>2, <1>3, RemoveAtFacts
<1> HIDE DEF r
<1>5. \A j \in DOMAIN r : \E k \in DOMAIN s : r[j] = s[k]
  BY <1>4 DEF ToSet
<1>6. ASSUME NEW j \in DOMAIN r, NEW k \in DOMAIN r, r[j].id = r[k].id PROVE j = k
  <2>1. PICK x \in DOMAIN s : r[j] = s[x]
    BY <1>5
  <2>2. PICK y \in DOMAIN s : r[k] = s[y]
    BY <1>5
  <2>3. r[j] = r[k]
    BY <1>1, <1>6, <2>1, <2>2
  <2> QED
    BY <1>4, <2>3 DEF IsInjective
<1>7. \A j \in DOMAIN r : r[j].notified <= 1 /\ (r[j].notified = 1 => r[j].commit)
  BY <1>1, <1>5
<1>8. Settled(r)
  BY <1>4, <1>6, <1>7 DEF Settled, Distinct
<1> QED
  BY <1>8 DEF r

\* An event with an id of its own, of which nobody was told, is added.
LEMMA PutSettled ==
    ASSUME NEW s, Settled(s), NEW e \in EventType, e.notified = 0, \A i \in DOMAIN s : s[i].id # e.id
    PROVE  Settled(Append(s, e))
<1> DEFINE r == Append(s, e)
           n == Len(s)
<1>1. /\ s \in Seq(EventType) /\ \A j, k \in DOMAIN s : s[j].id = s[k].id => j = k
      /\ \A j \in DOMAIN s : s[j].notified <= 1 /\ (s[j].notified = 1 => s[j].commit)
  BY DEF Settled, Distinct
<1>2. /\ r \in Seq(EventType) /\ n \in Nat /\ DOMAIN s = 1 .. n /\ DOMAIN r = 1 .. n + 1
      /\ r[n + 1] = e /\ \A j \in 1 .. n : r[j] = s[j]
  BY <1>1
<1>3. \A j \in DOMAIN r : (j \in DOMAIN s /\ r[j] = s[j]) \/ (j = n + 1 /\ r[j] = e)
  BY <1>2
<1> HIDE DEF r, n
<1>4. \A j, k \in DOMAIN r : r[j].id = r[k].id => j = k
  BY <1>1, <1>3
<1>5. \A j \in DOMAIN r : r[j].notified <= 1 /\ (r[j].notified = 1 => r[j].commit)
  BY <1>1, <1>3
<1>6. Settled(r)
  BY <1>2, <1>4, <1>5 DEF Settled, Distinct
<1> QED
  BY <1>6 DEF r

\* The handlers are told of the last event, which is not committed yet.
LEMMA OpensLast ==
    ASSUME NEW s, Settled(s), s # <<>>, ~ Last(s).commit
    PROVE  Opened([s EXCEPT ![Len(s)].notified = @ + 1], Last(s).id)
<1> DEFINE n == Len(s)
           e == [s[n] EXCEPT !.notified = @ + 1]
           r == [s EXCEPT ![n] = e]
<1>1. /\ s \in Seq(EventType) /\ \A j, k \in DOMAIN s : s[j].id = s[k].id => j = k
      /\ \A j \in DOMAIN s : s[j].notified <= 1 /\ (s[j].notified = 1 => s[j].commit)
  BY DEF Settled, Distinct
<1>2. n \in Nat /\ n # 0 /\ DOMAIN s = 1 .. n /\ n \in DOMAIN s /\ Last(s) = s[n] /\ s[n] \in EventType
  BY <1>1 DEF Last
<1>3. s[n].notified = 0
  BY <1>1, <1>2 DEF EventType
<1>4. e \in EventType /\ e.id = s[n].id /\ e.notified = 1
  BY <1>2, <1>3 DEF EventType
<1> HIDE DEF e
<1>5. /\ r \in Seq(EventType) /\ Len(r) = n /\ DOMAIN r = DOMAIN s /\ r[n] = e
      /\ \A j \in DOMAIN s : r[j] = IF j = n THEN e ELSE s[j]
  BY <1>1, <1>2, <1>4
<1> HIDE DEF r
<1>6. \A j, k \in DOMAIN r : r[j].id = r[k].id => j = k
  BY <1>1, <1>2, <1>4, <1>5
<1>7. r # <<>> /\ Last(r).id = Last(s).id
  BY <1>2, <1>4, <1>5 DEF Last
<1>8. \A j \in DOMAIN r : r[j].notified <= 1 /\ (r[j].notified = 1 => r[j].commit \/ j = Len(r))
  BY <1>1, <1>4, <1>5
<1>9. Opened(r, Last(s).id)
  BY <1>5, <1>6, <1>7, <1>8 DEF Opened, Distinct
<1> QED
  BY <1>9 DEF r, e

\* The event that was told is found, and committed.
LEMMA MarkSettles ==
    ASSUME NEW s, NEW id, Opened(s, id), NEW i, i \in DOMAIN s, s[i].id = id
    PROVE  Settled([s EXCEPT ![i].commit = TRUE])
<1> DEFINE n == Len(s)
           e == [s[i] EXCEPT !.commit = TRUE]
           r == [s EXCEPT ![i] = e]
<1>1. /\ s \in Seq(EventType) /\ s # <<>> /\ Last(s).id = id /\ \A j, k \in DOMAIN s : s[j].id = s[k].id => j = k
      /\ \A j \in DOMAIN s : s[j].notified <= 1 /\ (s[j].notified = 1 => s[j].commit \/ j = n)
  BY DEF Opened, Distinct
<1>2. n \in DOMAIN s /\ Last(s) = s[n] /\ s[i] \in EventType
  BY <1>1 DEF Last
<1>3. i = n
  BY <1>1, <1>2
<1>4. e \in EventType /\ e.id = s[i].id /\ e.notified = s[i].notified /\ e.commit
  BY <1>2 DEF EventType
<1> HIDE DEF e, n
<1>5. /\ r \in Seq(EventType) /\ DOMAIN r = DOMAIN s
      /\ \A j \in DOMAIN s : r[j] = IF j = i THEN e ELSE s[j]
  BY <1>1, <1>4
<1> HIDE DEF r
<1>6. \A j, k \in DOMAIN r : r[j].id = r[k].id => j = k
  BY <1>1, <1>4, <1>5
<1>7. \A j \in DOMAIN r : r[j].notified <= 1 /\ (r[j].notified = 1 => r[j].commit)
  BY <1>1, <1>3, <1>4, <1>5
<1>8. Settled(r)
  BY <1>5, <1>6, <1>7 DEF Settled, Distinct
<1> QED
  BY <1>8 DEF r, e

\* There is always an id that no event of the context has, nor its description.
LEMMA NewIdFresh ==
    ASSUME NEW c, ctx[c].events \in Seq(EventType)
    PROVE  NewId(c) \in Nat /\ \A i \in DOMAIN ctx[c].events : ctx[c].events[i].id # NewId(c)
<1> DEFINE s == ctx[c].events
           n == Len(s)
           I == {s[i].id : i \in 1 .. n}
           J == I \cup {ctx[c].desc}
           f == [i \in 1 .. n |-> s[i].id]
<1>1. n \in Nat /\ DOMAIN s = 1 .. n
  OBVIOUS
<1>2. IsFiniteSet(1 .. n) /\ Cardinality(1 .. n) = n
  BY <1>1, FS_Interval
<1>3. IsFiniteSet(1 .. n + 2) /\ Cardinality(1 .. n + 2) = n + 2
  <2> HIDE DEF n
  <2> QED
    BY <1>1, FS_Interval
<1>4. f \in Surjection(1 .. n, I)
  <2> HIDE DEF s, n
  <2> QED
    BY DEF Surjection
<1>5. IsFiniteSet(I) /\ Cardinality(I) <= n /\ Cardinality(I) \in Nat
  <2> HIDE DEF f, I, n
  <2> QED
    BY <1>2, <1>4, FS_Surjection, FS_CardinalityType
<1>6. IsFiniteSet(J) /\ Cardinality(J) <= n + 1 /\ Cardinality(J) \in Nat
  <2> DEFINE x == ctx[c].desc
  <2> HIDE DEF I, n, x
  <2>1. /\ IsFiniteSet(I \cup {x})
        /\ Cardinality(I \cup {x}) = IF x \in I THEN Cardinality(I) ELSE Cardinality(I) + 1
    BY <1>5, FS_AddElement
  <2>2. Cardinality(I \cup {x}) <= n + 1 /\ Cardinality(I \cup {x}) \in Nat
    BY <1>1, <1>5, <2>1
  <2> QED
    BY <2>1, <2>2 DEF x
<1>7. ~ (1 .. n + 2 \subseteq J)
  <2> HIDE DEF J, n
  <2> SUFFICES ASSUME 1 .. n + 2 \subseteq J PROVE FALSE
    OBVIOUS
  <2>1. Cardinality(1 .. n + 2) <= Cardinality(J)
    BY <1>6, FS_Subset
  <2> QED
    BY <1>1, <1>3, <1>6, <2>1
<1>8. \E m \in 1 .. n + 2 : Position(c, m) = {} /\ m # ctx[c].desc
  <2>1. PICK m \in 1 .. n + 2 : m \notin J
    BY <1>7
  <2>2. Position(c, m) = {} /\ m # ctx[c].desc
    BY <1>1, <2>1 DEF Position
  <2> QED
    BY <2>2
<1>9. NewId(c) \in 1 .. n + 2 /\ Position(c, NewId(c)) = {}
  BY <1>8 DEF NewId
<1> QED
  BY <1>1, <1>9 DEF Position

-----------------------------------------------------------------------------
(* What a call does to the events, from one entry of cs_error to the next   *)
(* leave.                                                                   *)

\* Nobody else tells the handlers of an event of c.
Apart(t, c) == \A u \in Threads \ {t} : ~ Commits(u, c)

\* A step of t leaves the events of a context alone, or has them to itself.
Tells(t) ==
    /\ \A u \in Threads \ {t} : op'[u] = op[u]
    /\ op'[t].new \in {Error, Info, None}
    /\ \A d \in Ctxs :
         \/ ctx'[d].events = ctx[d].events /\ ~ Commits(t, d) /\ ~ Commits(t, d)'
         \/ /\ Apart(t, d)
            /\ IF Commits(t, d)' THEN Opened(ctx'[d].events, op'[t].id) ELSE Settled(ctx'[d].events)

\* t may write in c, and k is what it has made of the contexts so far.
Writes(t, k, c, rec) ==
    /\ DOMAIN op = Threads /\ Contexts(k)
    /\ DOMAIN rec = CallFields /\ rec.new \in {Error, Info, None}
    /\ Apart(t, c) /\ Settled(k[c].events)
    /\ \A d \in Ctxs \ {c} : k[d].events = ctx[d].events /\ ~ Commits(t, d)
    /\ \A d \in Range(rec.done) : Apart(t, d)

LEMMA TellsKeeps ==
    ASSUME EventsTold, NEW t \in Threads, Tells(t)
    PROVE  EventsTold'
<1>1. ASSUME NEW c \in Ctxs
      PROVE  /\ \A u \in Threads : Commits(u, c)' => Opened(ctx'[c].events, op'[u].id)
             /\ (\A u \in Threads : ~ Commits(u, c)') => Settled(ctx'[c].events)
  <2>1. \A u \in Threads \ {t} : /\ Commits(u, c)' <=> Commits(u, c)
                                 /\ op'[u].id = op[u].id
    BY DEF Tells, Commits
  <2>2. /\ \A u \in Threads : Commits(u, c) => Opened(ctx[c].events, op[u].id)
        /\ (\A u \in Threads : ~ Commits(u, c)) => Settled(ctx[c].events)
    BY DEF EventsTold
  <2>3. CASE ctx'[c].events = ctx[c].events /\ ~ Commits(t, c) /\ ~ Commits(t, c)'
    BY <2>1, <2>2, <2>3
  <2>4. CASE /\ Apart(t, c)
             /\ IF Commits(t, c)' THEN Opened(ctx'[c].events, op'[t].id) ELSE Settled(ctx'[c].events)
    BY <2>1, <2>4 DEF Apart
  <2> QED
    BY <2>3, <2>4 DEF Tells
<1>2. \A u \in Threads : op'[u].new \in {Error, Info, None}
  BY DEF Tells, EventsTold
<1> QED
  BY <1>1, <1>2 DEF EventsTold

LEMMA IdleFacts == /\ Idle.pc = "idle" /\ Idle.new = None /\ Idle.done = <<>> /\ Free.events = <<>>
                   /\ DOMAIN Idle = CallFields
BY FieldFacts DEF Idle, Free, Fresh

LEMMA FinishTells ==
    ASSUME NEW t \in Threads, NEW k, NEW c \in Ctxs, NEW rec, Writes(t, k, c, rec), Finish(t, k, rec)
    PROVE  Tells(t)
<1>1. /\ DOMAIN op = Threads /\ Apart(t, c) /\ Settled(k[c].events)
      /\ \A d \in Ctxs \ {c} : k[d].events = ctx[d].events /\ ~ Commits(t, d)
      /\ \A d \in Range(rec.done) : Apart(t, d)
  BY DEF Writes
<1>2. op'[t] = Idle /\ \A u \in Threads \ {t} : op'[u] = op[u]
  BY <1>1, GotoFacts DEF Finish
<1>3. op'[t].new \in {Error, Info, None} /\ \A d \in Ctxs : ~ Commits(t, d)'
  BY <1>2, IdleFacts DEF Commits
<1>4. \A d \in Ctxs : ctx'[d] = IF d \in Range(rec.done) THEN Free ELSE k[d]
  BY DEF Finish
<1>5. ASSUME NEW d \in Ctxs
      PROVE  \/ ctx'[d].events = ctx[d].events /\ ~ Commits(t, d)
             \/ Apart(t, d) /\ Settled(ctx'[d].events)
  <2>1. CASE d \in Range(rec.done)
    BY <1>1, <1>4, <2>1, IdleFacts, NothingSettled
  <2>2. CASE d \notin Range(rec.done)
    BY <1>1, <1>4, <2>2
  <2> QED
    BY <2>1, <2>2
<1> QED
  BY <1>2, <1>3, <1>5 DEF Tells

\* The call leaves cs_error with what it has written, in no commit.
LEMMA LeavesTells ==
    ASSUME NEW t \in Threads, NEW k, NEW c \in Ctxs, NEW rec, Writes(t, k, c, rec),
           ctx' = k, NEW pc \in {"folded", "error", "end"}, Goto(t, [rec EXCEPT !.pc = pc, !.c = c])
    PROVE  Tells(t)
<1> DEFINE go == [rec EXCEPT !.pc = pc, !.c = c]
<1>1. /\ DOMAIN op = Threads /\ Apart(t, c) /\ Settled(k[c].events) /\ DOMAIN rec = CallFields
      /\ \A d \in Ctxs \ {c} : k[d].events = ctx[d].events /\ ~ Commits(t, d)
      /\ rec.new \in {Error, Info, None}
  BY DEF Writes
<1>2. op'[t] = go /\ \A u \in Threads \ {t} : op'[u] = op[u]
  BY <1>1, GotoFacts
<1>3. go.new = rec.new /\ go.pc = pc
  BY <1>1 DEF CallFields
<1> HIDE DEF go
<1>4. op'[t].new \in {Error, Info, None} /\ \A d \in Ctxs : ~ Commits(t, d)'
  BY <1>1, <1>2, <1>3 DEF Commits
<1> QED
  BY <1>1, <1>2, <1>4 DEF Tells

LEMMA CommitTells ==
    ASSUME NEW t \in Threads, NEW k, NEW c \in Ctxs, NEW rec, Writes(t, k, c, rec),
           k[c].events # <<>>, ~ Last(k[c].events).commit,
           NEW a, Commit(t, k, c, [rec EXCEPT !.after = a])
    PROVE  Tells(t)
<1> DEFINE s == k[c].events
           go == [[rec EXCEPT !.after = a] EXCEPT !.pc = "commit", !.c = c, !.id = Last(s).id]
           r == [s EXCEPT ![Len(s)].notified = @ + 1]
<1>1. /\ DOMAIN op = Threads /\ Apart(t, c) /\ Settled(s) /\ DOMAIN rec = CallFields /\ Contexts(k)
      /\ \A d \in Ctxs \ {c} : k[d].events = ctx[d].events /\ ~ Commits(t, d)
      /\ rec.new \in {Error, Info, None}
  BY DEF Writes
<1>2. op'[t] = go /\ \A u \in Threads \ {t} : op'[u] = op[u]
  BY <1>1, GotoFacts DEF Commit
<1>3. go.new = rec.new /\ go.pc = "commit" /\ go.c = c /\ go.id = Last(s).id
  BY <1>1 DEF CallFields
<1>4. ctx' = [k EXCEPT ![c].events[Len(k[c].events)].notified = @ + 1]
  BY DEF Commit
<1>5. ctx'[c].events = r /\ \A d \in Ctxs \ {c} : ctx'[d] = k[d]
  BY <1>1, <1>4 DEF Contexts, Fields
<1>6. Opened(r, Last(s).id)
  BY <1>1, OpensLast
<1> HIDE DEF go, r, s
<1>7. /\ op'[t].new \in {Error, Info, None} /\ Commits(t, c)' /\ op'[t].id = Last(s).id
      /\ \A d \in Ctxs \ {c} : ~ Commits(t, d)'
  BY <1>1, <1>2, <1>3 DEF Commits
<1> QED
  BY <1>1, <1>2, <1>5, <1>6, <1>7 DEF Tells

\* The events of a context have not changed but for what was told of them.
SameIds(r, s) == DOMAIN r = DOMAIN s /\ \A i \in DOMAIN s : r[i].id = s[i].id

LEMMA PutTells ==
    ASSUME NEW t \in Threads, NEW k, NEW c \in Ctxs, NEW rec, Writes(t, k, c, rec),
           ctx[c].events \in Seq(EventType), SameIds(k[c].events, ctx[c].events), Put(t, k, c, rec)
    PROVE  Tells(t)
<1> DEFINE e == Event(NewId(c), rec.new, t)
           put == [k EXCEPT ![c].events = Append(@, e)]
<1>1. /\ DOMAIN op = Threads /\ Apart(t, c) /\ Settled(k[c].events) /\ DOMAIN rec = CallFields /\ Contexts(k)
      /\ \A d \in Ctxs \ {c} : k[d].events = ctx[d].events /\ ~ Commits(t, d)
      /\ \A d \in Range(rec.done) : Apart(t, d)
      /\ rec.new \in {Error, Info, None}
  BY DEF Writes
<1>2. e \in EventType /\ e.id = NewId(c) /\ e.notified = 0
  BY <1>1, NewIdFresh, EventTyped
<1>3. \A i \in DOMAIN k[c].events : k[c].events[i].id # e.id
  BY <1>2, NewIdFresh DEF SameIds
<1> HIDE DEF e
<1>4. /\ put[c].events = Append(k[c].events, e) /\ Contexts(put)
      /\ \A d \in Ctxs \ {c} : put[d].events = k[d].events
  BY <1>1 DEF Contexts, Fields
<1>5. Settled(put[c].events)
  BY <1>1, <1>2, <1>3, <1>4, PutSettled
<1> HIDE DEF put
<1>6. Writes(t, put, c, rec)
  BY <1>1, <1>4, <1>5 DEF Writes
<1>7. \/ Finish(t, put, rec)
      \/ ctx' = put /\ Goto(t, [rec EXCEPT !.pc = "folded", !.c = c])
  BY DEF Put, put, e
<1>8. CASE Finish(t, put, rec)
  BY <1>6, <1>8, FinishTells
<1>9. CASE ctx' = put /\ Goto(t, [rec EXCEPT !.pc = "folded", !.c = c])
  BY <1>6, <1>9, LeavesTells
<1> QED
  BY <1>7, <1>8, <1>9

LEMMA CountTells ==
    ASSUME NEW t \in Threads, NEW k, NEW c \in Ctxs, NEW rec, Writes(t, k, c, rec), Count(t, k, c, rec)
    PROVE  Tells(t)
<1> DEFINE w == [k EXCEPT ![c].ended = @ + 1]
<1>1. \/ Finish(t, k, rec)
      \/ ctx' = w /\ Goto(t, [rec EXCEPT !.pc = "end", !.c = c])
  BY DEF Count
<1>2. Contexts(w) /\ \A d \in Ctxs : w[d].events = k[d].events
  BY DEF Writes, Contexts, Fields
<1> HIDE DEF w
<1>3. Writes(t, w, c, rec)
  BY <1>2 DEF Writes
<1>4. CASE Finish(t, k, rec)
  BY <1>4, FinishTells
<1>5. CASE ctx' = w /\ Goto(t, [rec EXCEPT !.pc = "end", !.c = c])
  BY <1>3, <1>5, LeavesTells
<1> QED
  BY <1>1, <1>4, <1>5

LEMMA AddEventTells ==
    ASSUME NEW t \in Threads, NEW k, NEW c \in Ctxs, NEW rec, Writes(t, k, c, rec),
           k[c].events = ctx[c].events, AddEvent(t, k, c, rec)
    PROVE  Tells(t)
<1>1. ctx[c].events \in Seq(EventType) /\ SameIds(k[c].events, ctx[c].events)
  BY DEF Writes, Settled, Distinct, SameIds
<1>2. CASE Uncommitted(c) /\ Commit(t, k, c, [rec EXCEPT !.after = "put"])
  <2>1. k[c].events # <<>> /\ ~ Last(k[c].events).commit
    BY <1>2 DEF Uncommitted, Bottom
  <2> QED
    BY <1>2, <2>1, CommitTells
<1>3. CASE Put(t, k, c, rec)
  BY <1>1, <1>3, PutTells
<1> QED
  BY <1>2, <1>3 DEF AddEvent

LEMMA ReleaseTells ==
    ASSUME NEW t \in Threads, NEW k, NEW c \in Ctxs, NEW rec, Writes(t, k, c, rec),
           k[c].events = ctx[c].events, Release(t, k, c, rec)
    PROVE  Tells(t)
<1> DEFINE less == Lessened(k, c)
<1>1. Contexts(less) /\ \A d \in Ctxs : less[d].events = k[d].events
  BY DEF Writes, Contexts, Lessened, Fields
<1>2. \/ Uncommitted(c) /\ Commit(t, less, c, [rec EXCEPT !.after = "count"])
      \/ Count(t, less, c, rec)
  BY DEF Release, Lessened, Less, CommitsAtRelease
<1> HIDE DEF less
<1>3. Writes(t, less, c, rec)
  BY <1>1 DEF Writes
<1>4. CASE Uncommitted(c) /\ Commit(t, less, c, [rec EXCEPT !.after = "count"])
  <2>1. less[c].events # <<>> /\ ~ Last(less[c].events).commit
    BY <1>1, <1>4 DEF Uncommitted, Bottom
  <2> QED
    BY <1>3, <1>4, <2>1, CommitTells
<1>5. CASE Count(t, less, c, rec)
  BY <1>3, <1>5, CountTells
<1> QED
  BY <1>2, <1>4, <1>5

LEMMA AfterTells ==
    ASSUME NEW t \in Threads, NEW k, NEW c \in Ctxs, c = op[t].c, Writes(t, k, c, op[t]),
           ctx[c].events \in Seq(EventType), SameIds(k[c].events, ctx[c].events), After(t, k)
    PROVE  Tells(t)
BY PutTells, CountTells DEF After

-----------------------------------------------------------------------------
(* Every step tells the handlers of an event at most once.                  *)

LEMMA AloneApart ==
    ASSUME EventsTold, Deviations = {}, NEW t \in Threads, NEW c \in Ctxs, Alone(t, c), op[t].pc # "commit"
    PROVE  Apart(t, c) /\ Settled(ctx[c].events)
<1>1. Apart(t, c)
  BY DEF Alone, Apart, Commits
<1>2. \A u \in Threads : ~ Commits(u, c)
  BY <1>1 DEF Apart, Commits
<1> QED
  BY <1>1, <1>2 DEF EventsTold

\* A call writes in a context that t has to itself.
LEMMA AloneWrites ==
    ASSUME EventsTold, Deviations = {}, NEW t \in Threads, NEW c \in Ctxs, Alone(t, c), op[t].pc # "commit",
           DOMAIN op = Threads, NEW k, Contexts(k), \A d \in Ctxs : k[d].events = ctx[d].events,
           NEW rec, DOMAIN rec = CallFields, rec.new \in {Error, Info, None},
           \A d \in Range(rec.done) : Apart(t, d)
    PROVE  Writes(t, k, c, rec)
<1>1. Apart(t, c) /\ Settled(ctx[c].events)
  BY AloneApart
<1>2. \A d \in Ctxs : ~ Commits(t, d)
  BY DEF Commits
<1> QED
  BY <1>1, <1>2 DEF Writes

\* What a call has ended, nobody commits in.
LEMMA EndedQuiet ==
    ASSUME IInv, NEW t \in Threads, NEW d \in Over(t)
    PROVE  Apart(t, d)
BY DEF IInv, EndedApart, Engaged, Apart, Commits

LEMMA IdleDone == Idle.done = <<>> /\ Range(Idle.done) = {} /\ Idle.new \in {Error, Info, None}
BY FieldFacts, IdleFacts DEF Range

\* A step that is in no commit.
LEMMA SilentTells ==
    ASSUME NEW t \in Threads, op[t].pc # "commit", op'[t].pc # "commit", op'[t].new \in {Error, Info, None},
           \A u \in Threads \ {t} : op'[u] = op[u],
           \A d \in Ctxs : \/ ctx'[d].events = ctx[d].events
                           \/ Apart(t, d) /\ Settled(ctx'[d].events)
    PROVE  Tells(t)
<1>1. \A d \in Ctxs : ~ Commits(t, d) /\ ~ Commits(t, d)'
  BY DEF Commits
<1> QED
  BY <1>1 DEF Tells

\* The functions that release_context and kherr_report begin.
LEMMA CallTells ==
    ASSUME IInv, EventsTold, Deviations = {}, NEW t \in Threads,
           Pop(t) \/ Detach(t) \/ Report(t) \/ Left(t) \/ FoldTold(t)
    PROVE  Tells(t)
<1>1. Shape /\ Contexts(ctx) /\ DOMAIN op = Threads /\ DOMAIN op[t] = CallFields
  BY FieldFacts DEF IInv, Shape, Contexts
<1>2. CASE Pop(t) \/ Report(t)
  <2>1. PICK c : c = Top(t)
    OBVIOUS
  <2>2. c # NoCtx /\ Alone(t, c) /\ op[t].pc = "idle"
    BY <1>2, <2>1 DEF Pop, Report, Calls
  <2>3. c \in Ctxs
    BY <1>1, <2>1, <2>2, TopUse
  <2>4. CASE Pop(t)
    <3>1. Writes(t, ctx, c, Idle)
      BY <1>1, <2>2, <2>3, IdleDone, IdleFacts, AloneWrites
    <3> QED
      BY <2>1, <2>3, <2>4, <3>1, ReleaseTells DEF Pop
  <2>5. CASE Report(t)
    <3>1. PICK severity \in Severities : AddEvent(t, ctx, c, [Idle EXCEPT !.new = severity])
      BY <2>1, <2>5 DEF Report
    <3> DEFINE rec == [Idle EXCEPT !.new = severity]
    <3>2. DOMAIN rec = CallFields /\ rec.new = severity /\ rec.done = Idle.done
      BY IdleFacts DEF CallFields
    <3>3. severity \in {Error, Info, None}
      BY KherrAssumption DEF Error, Info
    <3> HIDE DEF rec
    <3>4. Writes(t, ctx, c, rec)
      BY <1>1, <2>2, <2>3, <3>2, <3>3, IdleDone, AloneWrites
    <3> QED
      BY <2>3, <3>1, <3>4, AddEventTells DEF rec
  <2> QED
    BY <1>2, <2>4, <2>5
<1>3. CASE Detach(t)
  <2>1. PICK c \in message : Alone(t, c) /\ Release(t, ctx, c, Idle)
    BY <1>3 DEF Detach
  <2>2. c \in Ctxs /\ op[t].pc = "idle"
    BY <1>1, <1>3, <2>1 DEF Shape, Detach, Calls
  <2>3. Writes(t, ctx, c, Idle)
    BY <1>1, <2>1, <2>2, IdleDone, IdleFacts, AloneWrites
  <2> QED
    BY <2>1, <2>2, <2>3, ReleaseTells
<1>4. CASE Left(t)
  <2>1. PICK c : c = op[t].c
    OBVIOUS
  <2>2. op[t].pc = "left" /\ Alone(t, c) /\ Release(t, ctx, c, Idle)
    BY <1>4, <2>1 DEF Left, Resumes
  <2>3. c \in Ctxs
    BY <2>1, <2>2 DEF IInv, Within, WithinCall
  <2>4. Writes(t, ctx, c, Idle)
    BY <1>1, <2>2, <2>3, IdleDone, IdleFacts, AloneWrites
  <2> QED
    BY <2>2, <2>3, <2>4, ReleaseTells
<1>5. CASE FoldTold(t)
  <2>1. PICK c : c = op[t].c
    OBVIOUS
  <2>2. op[t].pc = "folded" /\ Alone(t, c) /\ Release(t, ctx, c, op[t])
    BY <1>5, <2>1 DEF FoldTold, Resumes
  <2>3. c \in Ctxs
    BY <2>1, <2>2 DEF IInv, Within, WithinCall
  <2>4. \A d \in Range(op[t].done) : Apart(t, d)
    BY EndedQuiet DEF Over
  <2>5. op[t].new \in {Error, Info, None}
    BY DEF EventsTold
  <2>6. Writes(t, ctx, c, op[t])
    BY <1>1, <2>2, <2>3, <2>4, <2>5, AloneWrites
  <2> QED
    BY <2>2, <2>3, <2>6, ReleaseTells
<1> QED
  BY <1>2, <1>3, <1>4, <1>5

\* kherr_set_desc_event and kherr_del_last_event take an event out.
LEMMA TakesOut ==
    ASSUME IInv, EventsTold, Deviations = {}, NEW t \in Threads, Describe(t) \/ DeleteLast(t)
    PROVE  Tells(t)
<1>1. Shape /\ Contexts(ctx) /\ DOMAIN op = Threads
  BY FieldFacts DEF IInv, Shape, Contexts
<1>2. PICK c : c = Top(t)
  OBVIOUS
<1>3. c # NoCtx /\ Alone(t, c) /\ op[t].pc = "idle"
  BY <1>2 DEF Describe, DeleteLast, Calls
<1>4. c \in Ctxs
  BY <1>1, <1>2, <1>3, TopUse
<1>5. Apart(t, c) /\ Settled(ctx[c].events)
  BY <1>3, <1>4, AloneApart
<1>6. \E i \in DOMAIN ctx[c].events :
        /\ ctx'[c].events = RemoveAt(ctx[c].events, i)
        /\ \A d \in Ctxs \ {c} : ctx'[d] = ctx[d]
  <2>1. CASE Describe(t)
    <3>1. PICK i \in OwnLast(t, c) :
            ctx' = [ctx EXCEPT ![c].events = RemoveAt(@, i), ![c].desc = ctx[c].events[i].id]
      BY <1>2, <2>1 DEF Describe
    <3>2. i \in DOMAIN ctx[c].events
      BY DEF OwnLast
    <3>3. ctx'[c].events = RemoveAt(ctx[c].events, i) /\ \A d \in Ctxs \ {c} : ctx'[d] = ctx[d]
      BY <1>1, <1>4, <3>1 DEF Contexts, Fields
    <3> QED
      BY <3>2, <3>3
  <2>2. CASE DeleteLast(t)
    <3> DEFINE left(i) == RemoveAt(ctx[c].events, i)
               less(i) == [ctx EXCEPT ![c].events = left(i)]
               worst(i) == [ctx EXCEPT ![c].events = left(i), ![c].err = Picked(left(i)),
                                       ![c].severity = Worst(left(i))]
    <3>1. PICK i \in OwnLast(t, c) : ctx' = less(i) \/ ctx' = worst(i)
      BY <1>2, <2>2 DEF DeleteLast
    <3>2. i \in DOMAIN ctx[c].events
      BY DEF OwnLast
    <3> HIDE DEF left
    <3>3. ctx'[c].events = left(i) /\ \A d \in Ctxs \ {c} : ctx'[d] = ctx[d]
      <4>1. CASE ctx' = less(i)
        BY <1>1, <1>4, <4>1 DEF Contexts, Fields
      <4>2. CASE ctx' = worst(i)
        BY <1>1, <1>4, <4>2 DEF Contexts, Fields
      <4> QED
        BY <3>1, <4>1, <4>2
    <3> USE DEF left
    <3> QED
      BY <3>2, <3>3
  <2> QED
    BY <2>1, <2>2
<1>7. Settled(ctx'[c].events)
  BY <1>5, <1>6, RemoveSettled
<1>8. /\ \A u \in Threads \ {t} : op'[u] = op[u]
      /\ op'[t].pc # "commit" /\ op'[t].new \in {Error, Info, None}
  <2>1. CASE Describe(t)
    <3> DEFINE go == [Idle EXCEPT !.pc = "begin", !.c = c]
    <3>1. op'[t] = go /\ \A u \in Threads \ {t} : op'[u] = op[u]
      BY <1>1, <1>2, <2>1, GotoFacts DEF Describe
    <3>2. go.pc = "begin" /\ go.new = None
      BY IdleFacts DEF CallFields
    <3> QED
      BY <3>1, <3>2
  <2>2. CASE DeleteLast(t)
    BY <1>3, <2>2 DEF DeleteLast, EventsTold
  <2> QED
    BY <2>1, <2>2
<1> QED
  BY <1>3, <1>5, <1>6, <1>7, <1>8, SilentTells

\* The others leave the events alone; a context that is made has none.
LEMMA QuietTells ==
    ASSUME IInv, EventsTold, NEW t \in Threads,
           PushNew(t) \/ Begun(t) \/ Attach(t) \/ Push(t) \/ First(t) \/ NextContext(t)
    PROVE  Tells(t)
<1>1. Shape /\ Contexts(ctx) /\ DOMAIN op = Threads
  BY FieldFacts DEF IInv, Shape, Contexts
<1>2. op[t].pc # "commit" /\ op[t].new \in {Error, Info, None}
  BY DEF PushNew, Begun, Attach, Push, First, NextContext, Calls, Resumes, EventsTold
<1>3. /\ \A u \in Threads \ {t} : op'[u] = op[u]
      /\ op'[t].pc # "commit" /\ op'[t].new \in {Error, Info, None}
  <2>1. CASE op' = op
    BY <1>2, <2>1
  <2>2. CASE Goto(t, Idle)
    BY <1>1, <2>2, GotoFacts, IdleFacts
  <2>3. ASSUME NEW pc \in {"begin", "left"}, NEW c, Goto(t, [Idle EXCEPT !.pc = pc, !.c = c])
        PROVE  /\ \A u \in Threads \ {t} : op'[u] = op[u]
               /\ op'[t].pc # "commit" /\ op'[t].new \in {Error, Info, None}
    <3> DEFINE go == [Idle EXCEPT !.pc = pc, !.c = c]
    <3>1. op'[t] = go /\ \A u \in Threads \ {t} : op'[u] = op[u]
      BY <1>1, <2>3, GotoFacts
    <3>2. go.pc = pc /\ go.new = None
      BY IdleFacts DEF CallFields
    <3> QED
      BY <3>1, <3>2
  <2>4. \/ op' = op \/ Goto(t, Idle)
        \/ \E pc \in {"begin", "left"} : \E c : Goto(t, [Idle EXCEPT !.pc = pc, !.c = c])
    BY DEF PushNew, Begun, Attach, Push, First, NextContext
  <2> QED
    BY <2>1, <2>2, <2>3, <2>4
<1>4. ASSUME NEW d \in Ctxs
      PROVE  \/ ctx'[d].events = ctx[d].events
             \/ Apart(t, d) /\ Settled(ctx'[d].events)
  <2>1. CASE ctx' = ctx
    BY <2>1
  <2>2. CASE \E c \in Ctxs : ctx' = [ctx EXCEPT ![c].refcount = @ + 1]
    BY <1>1, <2>2 DEF Contexts, Fields
  <2>3. CASE PushNew(t)
    <3> DEFINE p == Top(t)
    <3>1. p = Top(t)
      OBVIOUS
    <3>2. PICK c \in Ctxs :
            /\ ~ ctx[c].live
            /\ ctx' = [x \in Ctxs |->
                         CASE x = c -> [Fresh EXCEPT !.refcount = 1, !.parent = p]
                           [] x = p -> [ctx[p] EXCEPT !.refcount = ParentHeld(p)]
                           [] OTHER -> ctx[x]]
      BY <2>3 DEF PushNew
    <3> HIDE DEF p
    <3>3. p # c
      <4>1. p # NoCtx => p \in Ctxs /\ Uses(p) # {}
        BY <1>1, <3>1, TopUse
      <4>2. p # NoCtx => ctx[p].live
        BY <4>1, UseFacts DEF IInv
      <4> QED
        BY <3>2, <4>2, KherrAssumption
    <3>4. CASE d = c
      <4> DEFINE fresh == [Fresh EXCEPT !.refcount = 1, !.parent = p]
      <4>1. fresh.events = <<>>
        BY FieldFacts DEF Fresh, Fields
      <4>2. ctx' = [x \in Ctxs |-> CASE x = c -> fresh
                                     [] x = p -> [ctx[p] EXCEPT !.refcount = ParentHeld(p)]
                                     [] OTHER -> ctx[x]]
        BY <3>2
      <4> HIDE DEF fresh
      <4>3. ctx'[d] = fresh
        BY <3>3, <3>4, <4>2
      <4>4. Apart(t, d)
        BY <3>2, <3>4 DEF IInv, Within, WithinCall, Apart, Commits
      <4> QED
        BY <4>1, <4>3, <4>4, NothingSettled
    <3>5. CASE d # c /\ d = p
      <4>1. ctx'[d] = [ctx[d] EXCEPT !.refcount = ParentHeld(p)]
        BY <3>3, <3>2, <3>5
      <4> QED
        BY <1>1, <4>1 DEF Contexts, Fields
    <3>6. CASE d # c /\ d # p
      BY <3>2, <3>6
    <3> QED
      BY <3>4, <3>5, <3>6
  <2>4. \/ ctx' = ctx \/ PushNew(t)
        \/ \E c \in Ctxs : ctx' = [ctx EXCEPT ![c].refcount = @ + 1]
    <3>1. CASE Attach(t)
      BY <1>1, <3>1, TopUse DEF Attach
    <3>2. CASE Push(t)
      BY <1>1, <3>2 DEF Push, Shape
    <3>3. CASE First(t)
      BY <3>3 DEF First, Children
    <3>4. CASE NextContext(t)
      BY <3>4 DEF NextContext, Children
    <3> QED
      BY <3>1, <3>2, <3>3, <3>4 DEF Begun
  <2> QED
    BY <2>1, <2>2, <2>3, <2>4
<1> QED
  BY <1>2, <1>3, <1>4, SilentTells

\* The call goes on when the handlers were told.
LEMMA TellingTells ==
    ASSUME IInv, EventsTold, NEW t \in Threads, op[t].pc \in {"commit", "error"},
           NEW c, c = op[t].c,
           NEW k, Contexts(k), SameIds(k[c].events, ctx[c].events), Settled(k[c].events),
           \A d \in Ctxs \ {c} : k[d].events = ctx[d].events,
           After(t, k) \/ (ctx' = k /\ Goto(t, [op[t] EXCEPT !.pc = "error"]))
    PROVE  Tells(t)
<1>1. Shape /\ DOMAIN op = Threads /\ DOMAIN op[t] = CallFields
  BY FieldFacts DEF IInv, Shape
<1>2. c \in Ctxs
  BY DEF IInv, Within, WithinCall
<1>3. Apart(t, c)
  BY <1>2 DEF IInv, OneEngaged, Engaged, Apart, Commits
<1>4. \A d \in Range(op[t].done) : Apart(t, d)
  BY EndedQuiet DEF Over
<1>5. Writes(t, k, c, op[t])
  BY <1>1, <1>3, <1>4 DEF Writes, EventsTold, Commits
<1>6. ctx[c].events \in Seq(EventType)
  BY <1>2 DEF EventsTold, Settled, Opened, Distinct
<1>7. CASE After(t, k)
  BY <1>2, <1>5, <1>6, <1>7, AfterTells
<1>8. CASE ctx' = k /\ Goto(t, [op[t] EXCEPT !.pc = "error"])
  <2>1. [op[t] EXCEPT !.pc = "error"] = [op[t] EXCEPT !.pc = "error", !.c = c]
    BY <1>1 DEF CallFields
  <2> QED
    BY <1>2, <1>5, <1>8, <2>1, LeavesTells
<1> QED
  BY <1>7, <1>8

LEMMA ErrorToldTells ==
    ASSUME IInv, EventsTold, NEW t \in Threads, ErrorTold(t)
    PROVE  Tells(t)
<1>1. PICK c : c = op[t].c
  OBVIOUS
<1>2. op[t].pc = "error" /\ After(t, ctx)
  BY DEF ErrorTold, Resumes
<1>3. c \in Ctxs /\ Contexts(ctx)
  BY <1>1, <1>2, FieldFacts DEF IInv, Within, WithinCall, Shape, Contexts
<1>4. \A u \in Threads : ~ Commits(u, c)
  BY <1>1, <1>2, <1>3 DEF IInv, OneEngaged, Engaged, Commits
<1>5. Settled(ctx[c].events) /\ SameIds(ctx[c].events, ctx[c].events)
  BY <1>3, <1>4 DEF EventsTold, SameIds
<1> QED
  BY <1>1, <1>2, <1>3, <1>5, TellingTells

LEMMA CommittedTells ==
    ASSUME IInv, EventsTold, NEW t \in Threads, Committed(t)
    PROVE  Tells(t)
<1>1. PICK c : c = op[t].c
  OBVIOUS
<1> DEFINE s == ctx[c].events
           at == Position(c, op[t].id)
           i == CHOOSE j \in at : TRUE
           e == s[i]
           m == Marked(c, i)
           w == [m EXCEPT ![c].severity = e.severity, ![c].err = e.id]
           worse == IF ctx[c].severity >= e.severity THEN w ELSE m
<1>2. /\ op[t].pc = "commit"
      /\ IF at = {} THEN After(t, ctx)
         ELSE IF e.severity = Error THEN ctx' = worse /\ Goto(t, [op[t] EXCEPT !.pc = "error"])
         ELSE After(t, worse)
  BY <1>1 DEF Committed, Resumes
<1>3. c \in Ctxs /\ Contexts(ctx)
  BY <1>1, <1>2, FieldFacts DEF IInv, Within, WithinCall, Shape, Contexts
<1>4. Opened(s, op[t].id)
  BY <1>1, <1>2, <1>3 DEF EventsTold, Commits
<1>5. i \in DOMAIN s /\ s[i].id = op[t].id /\ at # {}
  <2>1. s \in Seq(EventType) /\ s # <<>> /\ Last(s).id = op[t].id
    BY <1>4 DEF Opened, Distinct
  <2>2. Len(s) \in DOMAIN s /\ s[Len(s)].id = op[t].id
    BY <2>1 DEF Last
  <2>3. at = {j \in DOMAIN s : s[j].id = op[t].id}
    BY DEF Position
  <2> QED
    BY <2>2, <2>3
<1> DEFINE r == [s EXCEPT ![i].commit = TRUE]
<1>6. Settled(r)
  BY <1>4, <1>5, MarkSettles
<1>7. SameIds(r, s)
  <2>1. s \in Seq(EventType)
    BY <1>4 DEF Opened, Distinct
  <2>2. s[i] \in EventType
    BY <1>5, <2>1
  <2> HIDE DEF i, s
  <2> QED
    BY <1>5, <2>2 DEF SameIds, EventType
<1>8. m = [ctx EXCEPT ![c].events[i].commit = TRUE]
  BY DEF Marked
<1> HIDE DEF i, e, m
<1>9. Contexts(m) /\ m[c].events = r /\ \A d \in Ctxs \ {c} : m[d].events = ctx[d].events
  BY <1>3, <1>8 DEF Contexts, Fields
<1>10. Contexts(w) /\ w[c].events = r /\ \A d \in Ctxs \ {c} : w[d].events = ctx[d].events
  BY <1>3, <1>9 DEF Contexts, Fields
<1>11. /\ Contexts(worse) /\ worse[c].events = r
       /\ \A d \in Ctxs \ {c} : worse[d].events = ctx[d].events
  BY <1>9, <1>10
<1>12. After(t, worse) \/ (ctx' = worse /\ Goto(t, [op[t] EXCEPT !.pc = "error"]))
  BY <1>2, <1>5
<1> HIDE DEF worse, w, r
<1> QED
  BY <1>1, <1>2, <1>6, <1>7, <1>11, <1>12, TellingTells

\* The severity of a fold is one of an event.
LEMMA FoldTyped ==
    ASSUME NEW c, ctx[c].events \in Seq(EventType)
    PROVE  FoldSeverity(c) \in {Error, Info, None}
<1> DEFINE err == IF ctx[c].err # 0 THEN ctx[c].err ELSE Picked(ctx[c].events)
           at == Position(c, err)
           i == CHOOSE i \in at : TRUE
<1>1. FoldSeverity(c) = IF at = {} THEN None ELSE ctx[c].events[i].severity
  BY DEF FoldSeverity
<1> HIDE DEF err
<1>2. at # {} => i \in DOMAIN ctx[c].events
  BY DEF Position
<1> HIDE DEF at, i
<1>3. at # {} => ctx[c].events[i] \in EventType
  BY <1>2
<1> QED
  BY <1>1, <1>3 DEF EventType

LEMMA EndedTells ==
    ASSUME IInv, EventsTold, Deviations = {}, NEW t \in Threads, Ended(t)
    PROVE  Tells(t)
<1>1. PICK c : c = op[t].c
  OBVIOUS
<1>2. PICK p : p = ctx[c].parent
  OBVIOUS
<1> DEFINE unlinked == [ctx EXCEPT ![c].parent = NoCtx]
           rec == [op[t] EXCEPT !.done = Append(@, c), !.new = FoldSeverity(c)]
<1>3. /\ op[t].pc = "end"
      /\ IF p = NoCtx THEN Finish(t, unlinked, rec)
         ELSE Alone(t, p) /\ (AddEvent(t, unlinked, p, rec) \/ Release(t, unlinked, p, rec))
  BY <1>1, <1>2 DEF Ended, Resumes
<1>4. /\ c \in Ctxs /\ Contexts(ctx) /\ DOMAIN op = Threads /\ DOMAIN op[t] = CallFields
      /\ op[t].done \in Seq(Ctxs)
  BY <1>1, <1>3, FieldFacts DEF IInv, Within, WithinCall, Shape, Contexts
<1>5. p \in Ctxs \cup {NoCtx}
  BY <1>2, <1>4 DEF IInv, Shape
<1>6. \A u \in Threads : ~ Commits(u, c)
  BY <1>1, <1>3, <1>4 DEF IInv, OneEngaged, Engaged, Commits
<1>7. Settled(ctx[c].events) /\ ctx[c].events \in Seq(EventType)
  BY <1>4, <1>6 DEF EventsTold, Settled, Distinct
<1>8. DOMAIN rec = CallFields /\ rec.new = FoldSeverity(c) /\ rec.done = Append(op[t].done, c)
  BY <1>4 DEF CallFields
<1>9. Contexts(unlinked) /\ \A d \in Ctxs : unlinked[d].events = ctx[d].events
  BY <1>4 DEF Contexts, Fields
<1> HIDE DEF unlinked, rec
<1>10. \A d \in Range(rec.done) : Apart(t, d)
  <2>1. \A d \in Range(rec.done) : d \in Over(t) \/ d = c
    <3>1. Parted(t, c, rec.done)
      BY <1>1, <1>3, <1>8, EndFacts
    <3> QED
      BY <3>1 DEF Parted
  <2> QED
    BY <1>6, <2>1, EndedQuiet DEF Apart
<1>11. rec.new \in {Error, Info, None}
  BY <1>7, <1>8, FoldTyped
<1>12. CASE p = NoCtx
  <2>1. Apart(t, c) /\ \A d \in Ctxs : ~ Commits(t, d)
    BY <1>3, <1>6 DEF Apart, Commits
  <2>2. Writes(t, unlinked, c, rec)
    BY <1>4, <1>7, <1>8, <1>9, <1>10, <1>11, <2>1 DEF Writes
  <2> QED
    BY <1>3, <1>4, <1>12, <2>2, FinishTells
<1>13. CASE p # NoCtx
  <2>1. p \in Ctxs /\ Alone(t, p) /\ (AddEvent(t, unlinked, p, rec) \/ Release(t, unlinked, p, rec))
    BY <1>3, <1>5, <1>13
  <2>2. Writes(t, unlinked, p, rec)
    BY <1>3, <1>4, <1>8, <1>9, <1>10, <1>11, <2>1, AloneWrites
  <2> QED
    BY <1>9, <2>1, <2>2, AddEventTells, ReleaseTells
<1> QED
  BY <1>12, <1>13

LEMMA InitTold == Init => EventsTold
<1> SUFFICES ASSUME Init PROVE EventsTold
  OBVIOUS
<1>1. /\ \A c \in Ctxs : ctx[c].events = <<>>
      /\ \A t \in Threads : op[t].new = None /\ \A c : ~ Commits(t, c)
  BY IdleFacts DEF Init, Commits
<1> QED
  BY <1>1, NothingSettled DEF EventsTold

LEMMA StepTold == ASSUME Deviations = {} PROVE IInv /\ EventsTold /\ [Next]_vars => EventsTold'
<1> SUFFICES ASSUME IInv, EventsTold, [Next]_vars PROVE EventsTold'
  OBVIOUS
<1>1. ASSUME NEW t \in Threads,
             \/ PushNew(t) \/ Begun(t) \/ Attach(t) \/ Push(t) \/ Pop(t) \/ Detach(t)
             \/ Report(t) \/ Describe(t) \/ DeleteLast(t)
             \/ First(t) \/ NextContext(t) \/ Left(t)
             \/ Committed(t) \/ ErrorTold(t) \/ Ended(t) \/ FoldTold(t)
      PROVE  Tells(t)
  BY <1>1, QuietTells, CallTells, TakesOut, CommittedTells, ErrorToldTells, EndedTells
<1>2. CASE Next
  BY <1>1, <1>2, TellsKeeps DEF Next
<1>3. CASE UNCHANGED vars
  BY <1>3 DEF vars, EventsTold, Commits
<1> QED
  BY <1>2, <1>3

\* What was told of a context's events is committed, but for the last event while
\* its handlers are called; the ids of the events are all different.
THEOREM ToldInvariance == ASSUME Deviations = {} PROVE Spec => []EventsTold
<1>1. Init => IInv /\ EventsTold
  BY InitHolds, InitTold
<1>2. (IInv /\ EventsTold) /\ [Next]_vars => (IInv /\ EventsTold)'
  BY StepHolds, StepTold
<1> QED
  BY <1>1, <1>2, PTL DEF Spec

\* The handlers are told of an event once, when commit_event commits it, and it is
\* then the last event of its context (kherr.h:501).
THEOREM CommitsOnceCorrect == ASSUME Deviations = {} PROVE Spec => []CommitsOnce
<1>1. IInv /\ EventsTold => CommitsOnce
  <2> SUFFICES ASSUME IInv, EventsTold PROVE CommitsOnce
    OBVIOUS
  <2>1. \A c \in Ctxs : Settled(ctx[c].events) \/ \E id : Opened(ctx[c].events, id)
    BY DEF EventsTold
  <2>2. \A c \in Ctxs : \A i \in DOMAIN ctx[c].events : ctx[c].events[i].notified <= 1
    BY <2>1 DEF Settled, Opened
  <2>3. ASSUME NEW t \in Threads, op[t].pc = "commit"
        PROVE  ctx[op[t].c].events # <<>> /\ Bottom(op[t].c).id = op[t].id
    <3>1. op[t].c \in Ctxs
      BY <2>3 DEF IInv, Within, WithinCall
    <3>2. Opened(ctx[op[t].c].events, op[t].id)
      BY <2>3, <3>1 DEF EventsTold, Commits
    <3> QED
      BY <3>2 DEF Opened, Bottom
  <2> QED
    BY <2>2, <2>3 DEF CommitsOnce
<1> QED
  BY <1>1, Invariance, ToldInvariance, PTL
=============================================================================
