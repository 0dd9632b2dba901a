---------------------------- MODULE SequenceFacts ----------------------------
(* What the FIFO operations of khlist.h do to a sequence without             *)
(* repetitions, and what they and a stack's do to any sequence: the facts    *)
(* that proofs about queues and stacks rest on.                              *)
EXTENDS SequencesExt, SequenceTheorems, FiniteSetTheorems, TLAPS

(* Taking an element off a sequence without repetitions, and adding one.    *)

\* QGET on the sequence of references: the head goes, the rest stays.
LEMMA TailFacts ==
    ASSUME NEW S, NEW q \in Seq(S), q # <<>>, IsInjective(q)
    PROVE  /\ Head(q) \in S
           /\ Tail(q) \in Seq(S)
           /\ IsInjective(Tail(q))
           /\ ToSet(Tail(q)) = ToSet(q) \ {Head(q)}
           /\ Head(q) \in ToSet(q)
<1>1. /\ Head(q) \in S /\ Tail(q) \in Seq(S)
      /\ Len(Tail(q)) = Len(q) - 1
      /\ \A i \in 1 .. Len(Tail(q)) : Tail(q)[i] = q[i + 1]
  BY HeadTailProperties
<1>2. Len(q) \in Nat /\ Len(q) > 0 /\ Head(q) = q[1] /\ DOMAIN q = 1 .. Len(q)
  OBVIOUS
<1>3. DOMAIN Tail(q) = 1 .. Len(q) - 1
  BY <1>1, <1>2
<1>4. IsInjective(Tail(q))
  BY <1>1, <1>2, <1>3 DEF IsInjective
<1>5. ToSet(Tail(q)) \subseteq ToSet(q) \ {Head(q)}
  BY <1>1, <1>2, <1>3 DEF IsInjective, ToSet
<1>6. ASSUME NEW x \in ToSet(q) \ {Head(q)} PROVE x \in ToSet(Tail(q))
  <2>1. PICK i \in 1 .. Len(q) : q[i] = x
    BY <1>2 DEF ToSet
  <2>2. i - 1 \in 1 .. Len(q) - 1 /\ Tail(q)[i - 1] = x
    BY <1>1, <1>2, <1>3, <1>6, <2>1
  <2> QED
    BY <2>2, <1>3 DEF ToSet
<1> QED
  BY <1>1, <1>2, <1>4, <1>5, <1>6 DEF ToSet

\* kmq_purge_queue's QDEL: one element goes, the others stay.
LEMMA RemoveAtFacts ==
    ASSUME NEW S, NEW q \in Seq(S), NEW i \in 1 .. Len(q), IsInjective(q)
    PROVE  /\ RemoveAt(q, i) \in Seq(S)
           /\ IsInjective(RemoveAt(q, i))
           /\ ToSet(RemoveAt(q, i)) = ToSet(q) \ {q[i]}
           /\ q[i] \in ToSet(q) /\ q[i] \in S
<1> DEFINE n == Len(q)
           a == SubSeq(q, 1, i - 1)
           b == SubSeq(q, i + 1, n)
           p == RemoveAt(q, i)
<1>1. n \in Nat /\ DOMAIN q = 1 .. n /\ \A j \in 1 .. n : q[j] \in S
  OBVIOUS
<1>2. /\ a \in Seq(S) /\ Len(a) = i - 1
      /\ \A j \in 1 .. i - 1 : a[j] = q[j]
  BY <1>1, SubSeqProperties
<1>3. /\ b \in Seq(S) /\ Len(b) = n - i
      /\ \A j \in 1 .. n - i : b[j] = q[i + j]
  <2>1. \A j \in i + 1 .. n : q[j] \in S
    BY <1>1
  <2>2. /\ b \in Seq(S)
        /\ Len(b) = IF i + 1 <= n THEN n - (i + 1) + 1 ELSE 0
        /\ \A j \in 1 .. n - (i + 1) + 1 : b[j] = q[i + 1 + j - 1]
    BY <1>1, <2>1, SubSeqProperties
  <2> HIDE DEF a, b, p
  <2>3. \A j \in 1 .. n - i : j \in 1 .. n - (i + 1) + 1 /\ i + 1 + j - 1 = i + j
    BY <1>1
  <2>4. \A j \in 1 .. n - i : b[j] = q[i + j]
    BY <2>2, <2>3, Zenon
  <2>5. Len(b) = n - i
    <3> HIDE DEF n
    <3>1. n \in Nat /\ i \in 1 .. n
      BY <1>1 DEF n
    <3>2. Len(b) = IF i + 1 <= n THEN n - (i + 1) + 1 ELSE 0
      BY <2>2
    <3> QED
      BY <3>1, <3>2
  <2> QED
    BY <2>2, <2>4, <2>5
<1>4. p = a \o b
  BY DEF RemoveAt
<1>5. /\ p \in Seq(S) /\ Len(p) = n - 1
      /\ \A j \in 1 .. n - 1 : p[j] = IF j <= i - 1 THEN a[j] ELSE b[j - (i - 1)]
  <2>1. /\ a \o b \in Seq(S)
        /\ Len(a \o b) = Len(a) + Len(b)
        /\ \A j \in 1 .. Len(a) + Len(b) :
             (a \o b)[j] = IF j <= Len(a) THEN a[j] ELSE b[j - Len(a)]
    BY <1>2, <1>3, ConcatProperties
  <2> HIDE DEF a, b, p
  <2>2. Len(a) + Len(b) = n - 1
    BY <1>1, <1>2, <1>3
  <2> QED
    BY <2>1, <2>2, <1>2, <1>4
<1>6. \A j \in 1 .. n - 1 : p[j] = IF j < i THEN q[j] ELSE q[j + 1]
  <2> HIDE DEF a, b, p
  <2> QED
    BY <1>1, <1>2, <1>3, <1>5
<1>7. DOMAIN p = 1 .. n - 1
  <2> HIDE DEF p, a, b
  <2> QED
    BY <1>1, <1>5
<1>8. IsInjective(p)
  <2> SUFFICES ASSUME NEW j \in 1 .. n - 1, NEW k \in 1 .. n - 1, p[j] = p[k]
               PROVE  j = k
    BY <1>7 DEF IsInjective
  <2> DEFINE at(m) == IF m < i THEN m ELSE m + 1
  <2>1. at(j) \in 1 .. n /\ at(k) \in 1 .. n /\ p[j] = q[at(j)] /\ p[k] = q[at(k)]
    <3> HIDE DEF a, b, p
    <3> QED
      BY <1>1, <1>6
  <2>2. at(j) = at(k)
    <3> HIDE DEF a, b, p, at, n
    <3> QED
      BY <1>1, <2>1 DEF IsInjective
  <2> QED
    BY <1>1, <2>2
<1>9. ToSet(p) \subseteq ToSet(q) \ {q[i]}
  <2> HIDE DEF p
  <2> QED
    BY <1>1, <1>6, <1>7 DEF IsInjective, ToSet
<1>10. ASSUME NEW x \in ToSet(q) \ {q[i]} PROVE x \in ToSet(p)
  <2>1. PICK j \in 1 .. n : q[j] = x
    BY <1>1 DEF ToSet
  <2>2. j # i
    BY <2>1, <1>10
  <2> HIDE DEF p
  <2>3. CASE j < i
    BY <1>1, <1>6, <1>7, <2>1, <2>3 DEF ToSet
  <2>4. CASE j > i
    <3>1. j - 1 \in 1 .. n - 1 /\ p[j - 1] = x
      BY <1>1, <1>6, <2>1, <2>4
    <3> QED
      BY <3>1, <1>7 DEF ToSet
  <2> QED
    BY <1>1, <2>1, <2>2, <2>3, <2>4
<1> QED
  BY <1>1, <1>5, <1>8, <1>9, <1>10 DEF ToSet

\* QPUT of a reference that is not in the queue.
LEMMA AppendFacts ==
    ASSUME NEW S, NEW q \in Seq(S), NEW e \in S, e \notin ToSet(q), IsInjective(q)
    PROVE  /\ Append(q, e) \in Seq(S)
           /\ Append(q, e) # <<>>
           /\ IsInjective(Append(q, e))
           /\ ToSet(Append(q, e)) = ToSet(q) \cup {e}
<1>1. /\ Append(q, e) \in Seq(S) /\ Append(q, e) # <<>>
      /\ Len(Append(q, e)) = Len(q) + 1
      /\ \A i \in 1 .. Len(q) : Append(q, e)[i] = q[i]
      /\ Append(q, e)[Len(q) + 1] = e
  BY AppendProperties
<1>2. Len(q) \in Nat /\ DOMAIN q = 1 .. Len(q) /\ DOMAIN Append(q, e) = 1 .. Len(q) + 1
  BY <1>1
<1>3. IsInjective(Append(q, e))
  BY <1>1, <1>2 DEF IsInjective, ToSet
<1>4. ToSet(Append(q, e)) = ToSet(q) \cup {e}
  BY <1>1, <1>2 DEF ToSet
<1> QED
  BY <1>1, <1>3, <1>4

(* A stack, innermost last.                                                 *)

\* Front drops the last element and leaves the others where they are.
LEMMA FrontFacts ==
    ASSUME NEW S, NEW q \in Seq(S), q # <<>>
    PROVE  /\ Front(q) \in Seq(S)
           /\ Len(Front(q)) = Len(q) - 1
           /\ \A i \in 1 .. Len(q) - 1 : Front(q)[i] = q[i]
<1>1. Len(q) \in Nat \ {0} /\ \A i \in 1 .. Len(q) : q[i] \in S
  OBVIOUS
<1>2. Front(q) = SubSeq(q, 1, Len(q) - 1)
  BY DEF Front
<1>3. /\ SubSeq(q, 1, Len(q) - 1) \in Seq(S)
      /\ Len(SubSeq(q, 1, Len(q) - 1)) =
           IF 1 <= Len(q) - 1 THEN Len(q) - 1 - 1 + 1 ELSE 0
      /\ \A i \in 1 .. Len(q) - 1 - 1 + 1 : SubSeq(q, 1, Len(q) - 1)[i] = q[1 + i - 1]
  <2>1. \A i \in 1 .. Len(q) - 1 : q[i] \in S
    BY <1>1
  <2>2. 1 \in Int /\ Len(q) - 1 \in Int
    BY <1>1
  <2> QED
    BY <2>1, <2>2, SubSeqProperties
<1>4. \A i \in 1 .. Len(q) - 1 : i \in 1 .. Len(q) - 1 - 1 + 1 /\ 1 + i - 1 = i
  BY <1>1
<1>5. \A i \in 1 .. Len(q) - 1 : Front(q)[i] = q[i]
  BY <1>2, <1>3, <1>4, Zenon
<1>6. Len(Front(q)) = IF 1 <= Len(q) - 1 THEN Len(q) - 1 - 1 + 1 ELSE 0
  BY <1>2, <1>3
<1>7. Len(Front(q)) = Len(q) - 1
  <2> DEFINE n == Len(q)
  <2>1. n \in Nat \ {0} /\ Len(Front(q)) = IF 1 <= n - 1 THEN n - 1 - 1 + 1 ELSE 0
    BY <1>1, <1>6
  <2> HIDE DEF n
  <2>2. Len(Front(q)) = n - 1
    BY <2>1
  <2> QED
    BY <2>2 DEF n
<1> QED
  BY <1>2, <1>3, <1>5, <1>7

(* Sets that differ in one place.                                           *)

\* The cardinality moves by what happens at that place.
LEMMA OnePoint ==
    ASSUME NEW X, NEW Y, NEW p, IsFiniteSet(X), X \ {p} = Y \ {p}
    PROVE  /\ IsFiniteSet(Y)
           /\ Cardinality(X) \in Nat /\ Cardinality(Y) \in Nat
           /\ Cardinality(Y) = Cardinality(X) - (IF p \in X THEN 1 ELSE 0)
                                              + (IF p \in Y THEN 1 ELSE 0)
<1>1. ASSUME NEW V, IsFiniteSet(V)
      PROVE  /\ IsFiniteSet(V \ {p}) /\ Cardinality(V) \in Nat
             /\ Cardinality(V) = Cardinality(V \ {p}) + (IF p \in V THEN 1 ELSE 0)
  <2>1. IsFiniteSet(V \ {p}) /\ Cardinality(V \ {p}) \in Nat /\ Cardinality(V) \in Nat
    BY <1>1, FS_RemoveElement, FS_CardinalityType
  <2>2. CASE p \in V
    <3>1. Cardinality(V \ {p}) = Cardinality(V) - 1
      BY <1>1, <2>2, FS_RemoveElement
    <3> QED
      BY <2>1, <2>2, <3>1
  <2>3. CASE p \notin V
    <3>1. V \ {p} = V
      BY <2>3
    <3> QED
      BY <2>1, <2>3, <3>1
  <2> QED
    BY <2>2, <2>3
<1>2. IsFiniteSet(Y)
  <2>1. IsFiniteSet(X \ {p})
    BY <1>1
  <2>2. Y = X \ {p} \/ Y = (X \ {p}) \cup {p}
    OBVIOUS
  <2> QED
    BY <2>1, <2>2, FS_AddElement
<1>3. /\ Cardinality(X) \in Nat
      /\ Cardinality(X) = Cardinality(X \ {p}) + (IF p \in X THEN 1 ELSE 0)
  BY <1>1
<1>4. /\ Cardinality(Y) \in Nat
      /\ Cardinality(Y) = Cardinality(X \ {p}) + (IF p \in Y THEN 1 ELSE 0)
  BY <1>1, <1>2
<1>5. Cardinality(X \ {p}) \in Nat
  BY <1>1, FS_CardinalityType
<1> QED
  BY <1>2, <1>3, <1>4, <1>5
=============================================================================
