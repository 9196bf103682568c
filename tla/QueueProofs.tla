---------------------------- MODULE QueueProofs ----------------------------
(***************************************************************************)
(* What Clear leaves of a queue, for queues of any length; and, for that   *)
(* and for the other recursive functions and the finite sets of the models,*)
(* induction over the natural numbers in a form that is about sets and not *)
(* about operators, so that first-order provers can use it.                *)
(***************************************************************************)
EXTENDS Queues, WellFoundedInduction, TLAPS

\* A set of natural numbers that is not empty has a least element.
LEMMA LeastNumber ==
    ASSUME NEW T \in SUBSET Nat, T # {}
    PROVE  \E x \in T : \A y \in T : x <= y
<1>1. PICK x \in T : \A y \in T : <<y, x>> \notin OpToRel(<, Nat)
  BY NatLessThanWellFounded, WFMin, Zenon
<1>2. \A y \in T : <<y, x>> \in Nat \X Nat
  BY <1>1
<1>3. \A y \in T : ~(y < x)
  BY <1>1, <1>2, Zenon DEF OpToRel
<1> QED
  BY <1>3

\* A set of natural numbers with zero and with the successor of each of its
\* members has them all.
LEMMA Induction ==
    ASSUME NEW T \in SUBSET Nat, 0 \in T, \A n \in T : n + 1 \in T
    PROVE  T = Nat
<1> SUFFICES ASSUME Nat \ T # {} PROVE FALSE
  OBVIOUS
<1>1. PICK x \in Nat \ T : \A y \in Nat \ T : x <= y
  BY LeastNumber
<1>2. x - 1 \in T
  BY <1>1
<1> QED
  BY <1>1, <1>2

-----------------------------------------------------------------------------

\* One pass of the loop over the queue.
Pass(q, M, g, i) ==
    IF i = 0 THEN <<>>
    ELSE IF q[i] \in M THEN g[i - 1] ELSE Append(g[i - 1], q[i])

\* The loop has a result for every queue.
LEMMA PassesExist ==
    ASSUME NEW S, NEW q \in Seq(S), NEW M
    PROVE  \E g : g = [i \in 0 .. Len(q) |-> Pass(q, M, g, i)]
<1> DEFINE Has(n) == \E g \in [0 .. n -> Seq(S)] :
                        \A i \in 0 .. n : g[i] = Pass(q, M, g, i)
           T == {n \in Nat : n <= Len(q) => Has(n)}
<1>1. 0 \in T
  <2> DEFINE e == [i \in 0 .. 0 |-> <<>>]
  <2>1. e \in [0 .. 0 -> Seq(S)] /\ \A i \in 0 .. 0 : e[i] = Pass(q, M, e, i)
    BY DEF Pass
  <2> QED
    BY <2>1
<1>2. ASSUME NEW n \in T PROVE n + 1 \in T
  <2>0. n \in Nat /\ n + 1 \in Nat /\ Len(q) \in Nat
    OBVIOUS
  <2> SUFFICES ASSUME n + 1 <= Len(q) PROVE Has(n + 1)
    <3> HIDE DEF Has
    <3> QED
      BY <2>0
  <2>1. PICK g \in [0 .. n -> Seq(S)] : \A i \in 0 .. n : g[i] = Pass(q, M, g, i)
    OBVIOUS
  <2> DEFINE v == IF q[n + 1] \in M THEN g[n] ELSE Append(g[n], q[n + 1])
             h == [i \in 0 .. n + 1 |-> IF i = n + 1 THEN v ELSE g[i]]
  <2>2. v \in Seq(S)
    OBVIOUS
  <2>3. h \in [0 .. n + 1 -> Seq(S)]
    BY <2>2
  <2>4. ASSUME NEW i \in 0 .. n + 1 PROVE h[i] = Pass(q, M, h, i)
    <3>1. CASE i = n + 1
      BY <3>1 DEF Pass
    <3>2. CASE i \in 0 .. n
      <4>1. h[i] = g[i] /\ (i # 0 => h[i - 1] = g[i - 1])
        BY <3>2
      <4> QED
        BY <2>1, <3>2, <4>1 DEF Pass
    <3> QED
      BY <3>1, <3>2
  <2> QED
    BY <2>3, <2>4
<1>3. T = Nat
  <2> HIDE DEF T
  <2>1. T \in SUBSET Nat
    BY DEF T
  <2> QED
    BY <1>1, <1>2, <2>1, Induction
<1>4. Has(Len(q))
  <2> HIDE DEF Has
  <2>1. Len(q) \in Nat
    OBVIOUS
  <2>2. Len(q) \in {n \in Nat : n <= Len(q) => Has(n)}
    BY <1>3, <2>1
  <2> QED
    BY <2>1, <2>2
<1>5. PICK g \in [0 .. Len(q) -> Seq(S)] : \A i \in 0 .. Len(q) : g[i] = Pass(q, M, g, i)
  BY <1>4
<1>6. g = [i \in 0 .. Len(q) |-> Pass(q, M, g, i)]
  BY <1>5
<1> QED
  BY <1>6

\* Remove is the last pass.
LEMMA RemoveUnfolds ==
    ASSUME NEW S, NEW q \in Seq(S), NEW M
    PROVE  \E g : /\ g = [i \in 0 .. Len(q) |-> Pass(q, M, g, i)]
                  /\ Remove(q, M) = g[Len(q)]
<1> DEFINE g == CHOOSE f : f = [i \in 0 .. Len(q) |-> Pass(q, M, f, i)]
<1>1. g = [i \in 0 .. Len(q) |-> Pass(q, M, g, i)]
  <2> HIDE DEF g
  <2>1. \E f : f = [i \in 0 .. Len(q) |-> Pass(q, M, f, i)]
    BY PassesExist, Zenon
  <2>2. LET P(f) == f = [i \in 0 .. Len(q) |-> Pass(q, M, f, i)]
        IN  (\E f : P(f)) => P(CHOOSE f : P(f))
    BY Zenon
  <2> QED
    BY <2>1, <2>2, Zenon DEF g
<1>2. Remove(q, M) = g[Len(q)]
  BY Zenon DEF Remove, Pass
<1> QED
  BY <1>1, <1>2

\* What remains is the messages that are not of M, in their order.
LEMMA RemoveEmbeds ==
    ASSUME NEW S, NEW q \in Seq(S), NEW M
    PROVE  /\ Remove(q, M) \in Seq(S)
           /\ \E e \in [1 .. Len(Remove(q, M)) -> 1 .. Len(q)] :
                 /\ \A i, j \in 1 .. Len(Remove(q, M)) : i < j => e[i] < e[j]
                 /\ \A i \in 1 .. Len(Remove(q, M)) :
                       q[e[i]] \notin M /\ Remove(q, M)[i] = q[e[i]]
                 /\ \A j \in 1 .. Len(q) : q[j] \notin M =>
                       \E i \in 1 .. Len(Remove(q, M)) : e[i] = j
<1>1. PICK g : /\ g = [i \in 0 .. Len(q) |-> Pass(q, M, g, i)]
               /\ Remove(q, M) = g[Len(q)]
  BY RemoveUnfolds
<1> DEFINE Emb(r, n) ==
              /\ r \in Seq(S)
              /\ \E e \in [1 .. Len(r) -> 1 .. n] :
                    /\ \A i, j \in 1 .. Len(r) : i < j => e[i] < e[j]
                    /\ \A i \in 1 .. Len(r) : q[e[i]] \notin M /\ r[i] = q[e[i]]
                    /\ \A j \in 1 .. n : q[j] \notin M =>
                          \E i \in 1 .. Len(r) : e[i] = j
           T == {n \in Nat : n <= Len(q) => Emb(g[n], n)}
<1>2. 0 \in T
  <2>1. g[0] = <<>>
    BY <1>1 DEF Pass
  <2> DEFINE e == [i \in 1 .. 0 |-> 0]
  <2>2. e \in [1 .. Len(g[0]) -> 1 .. 0] /\ Len(g[0]) = 0 /\ g[0] \in Seq(S)
    BY <2>1
  <2> HIDE DEF e
  <2>3. Emb(g[0], 0)
    BY <2>2
  <2> HIDE DEF Emb
  <2> QED
    BY <2>3
<1>3. ASSUME NEW n \in T PROVE n + 1 \in T
  <2>0. n \in Nat /\ n + 1 \in Nat /\ Len(q) \in Nat
    OBVIOUS
  <2> SUFFICES ASSUME n + 1 <= Len(q) PROVE Emb(g[n + 1], n + 1)
    <3> HIDE DEF Emb
    <3> QED
      BY <2>0
  <2> DEFINE r == g[n]
  <2>6. Emb(r, n)
    <3> HIDE DEF Emb
    <3> QED
      BY <2>0
  <2>1. r \in Seq(S) /\ Len(r) \in Nat /\ n \in Nat
    BY <2>0, <2>6
  <2>2. PICK e \in [1 .. Len(r) -> 1 .. n] :
                    /\ \A i, j \in 1 .. Len(r) : i < j => e[i] < e[j]
                    /\ \A i \in 1 .. Len(r) : q[e[i]] \notin M /\ r[i] = q[e[i]]
                    /\ \A j \in 1 .. n : q[j] \notin M =>
                          \E i \in 1 .. Len(r) : e[i] = j
    BY <2>6
  <2>3. g[n + 1] = IF q[n + 1] \in M THEN r ELSE Append(r, q[n + 1])
    <3>1. n + 1 \in 0 .. Len(q) /\ n + 1 # 0 /\ (n + 1) - 1 = n
      BY <2>0
    <3>2. g[n + 1] = Pass(q, M, g, n + 1)
      BY <1>1, <3>1
    <3> QED
      BY <3>1, <3>2 DEF Pass
  <2> HIDE DEF r, T
  <2>4. CASE q[n + 1] \in M
    <3>1. e \in [1 .. Len(r) -> 1 .. n + 1]
      BY <2>1
    <3>2. \A j \in 1 .. n + 1 : q[j] \notin M => \E i \in 1 .. Len(r) : e[i] = j
      BY <2>1, <2>2, <2>4
    <3>3. Emb(r, n + 1)
      BY <2>1, <2>2, <3>1, <3>2
    <3> HIDE DEF Emb
    <3> QED
      BY <2>3, <2>4, <3>3
  <2>5. CASE q[n + 1] \notin M
    <3> DEFINE d == [i \in 1 .. Len(r) + 1 |-> IF i = Len(r) + 1 THEN n + 1 ELSE e[i]]
               a == Append(r, q[n + 1])
    <3>1. q[n + 1] \in S
      BY <2>0
    <3>2. a \in Seq(S) /\ Len(a) = Len(r) + 1 /\ a[Len(r) + 1] = q[n + 1]
          /\ \A i \in 1 .. Len(r) : a[i] = r[i]
      BY <2>1, <3>1
    <3>3. d \in [1 .. Len(r) + 1 -> 1 .. n + 1] /\ d[Len(r) + 1] = n + 1
          /\ \A i \in 1 .. Len(r) : d[i] = e[i]
      BY <2>1, <2>2
    <3> HIDE DEF a, d
    <3>4. \A i, j \in 1 .. Len(r) + 1 : i < j => d[i] < d[j]
      <4> SUFFICES ASSUME NEW i \in 1 .. Len(r) + 1, NEW j \in 1 .. Len(r) + 1, i < j
                   PROVE  d[i] < d[j]
        OBVIOUS
      <4>1. i \in 1 .. Len(r) /\ d[i] = e[i] /\ e[i] \in 1 .. n
        BY <2>1, <3>3
      <4>2. CASE j = Len(r) + 1
        BY <2>1, <3>3, <4>1, <4>2
      <4>3. CASE j \in 1 .. Len(r)
        BY <2>2, <3>3, <4>1, <4>3
      <4> QED
        BY <2>1, <4>2, <4>3
    <3>5. \A i \in 1 .. Len(r) + 1 : q[d[i]] \notin M /\ a[i] = q[d[i]]
      BY <2>1, <2>2, <2>5, <3>2, <3>3
    <3>6. \A j \in 1 .. n + 1 : q[j] \notin M => \E i \in 1 .. Len(r) + 1 : d[i] = j
      <4> SUFFICES ASSUME NEW j \in 1 .. n + 1, q[j] \notin M
                   PROVE  \E i \in 1 .. Len(r) + 1 : d[i] = j
        OBVIOUS
      <4>1. CASE j = n + 1
        BY <2>1, <3>3, <4>1
      <4>2. CASE j \in 1 .. n
        BY <2>1, <2>2, <3>3, <4>2
      <4> QED
        BY <2>1, <4>1, <4>2
    <3>7. Emb(a, n + 1)
      BY <3>2, <3>3, <3>4, <3>5, <3>6
    <3> HIDE DEF Emb
    <3> QED
      BY <2>3, <2>5, <3>7 DEF a
  <2> QED
    BY <2>4, <2>5
<1>4. T = Nat
  <2> HIDE DEF T
  <2>1. T \in SUBSET Nat
    BY DEF T
  <2> QED
    BY <1>2, <1>3, <2>1, Induction
<1>5. Emb(g[Len(q)], Len(q))
  <2> HIDE DEF Emb
  <2>1. Len(q) \in Nat
    OBVIOUS
  <2>2. Len(q) \in {n \in Nat : n <= Len(q) => Emb(g[n], n)}
    BY <1>4, <2>1
  <2> QED
    BY <2>1, <2>2
<1>6. Emb(Remove(q, M), Len(q))
  <2> HIDE DEF Emb
  <2> QED
    BY <1>1, <1>5
<1> QED
  BY <1>6, Zenon

\* The same for the sets of messages, and for queues without repetition.
LEMMA RemoveFacts ==
    ASSUME NEW S, NEW q \in Seq(S), NEW M
    PROVE  /\ Remove(q, M) \in Seq(S)
           /\ \A i \in DOMAIN Remove(q, M) :
                 /\ Remove(q, M)[i] \notin M
                 /\ \E j \in DOMAIN q : q[j] = Remove(q, M)[i]
           /\ \A j \in DOMAIN q : q[j] \notin M =>
                 \E i \in DOMAIN Remove(q, M) : Remove(q, M)[i] = q[j]
           /\ (\A i, j \in DOMAIN q : q[i] = q[j] => i = j) =>
                 \A i, j \in DOMAIN Remove(q, M) :
                     Remove(q, M)[i] = Remove(q, M)[j] => i = j
           /\ q = <<>> => Remove(q, M) = <<>>
<1> DEFINE r == Remove(q, M)
<1>1. r \in Seq(S)
  BY RemoveEmbeds
<1>2. PICK e \in [1 .. Len(r) -> 1 .. Len(q)] :
                 /\ \A i, j \in 1 .. Len(r) : i < j => e[i] < e[j]
                 /\ \A i \in 1 .. Len(r) : q[e[i]] \notin M /\ r[i] = q[e[i]]
                 /\ \A j \in 1 .. Len(q) : q[j] \notin M =>
                       \E i \in 1 .. Len(r) : e[i] = j
  BY RemoveEmbeds
<1> HIDE DEF r
<1>3. DOMAIN r = 1 .. Len(r) /\ DOMAIN q = 1 .. Len(q) /\ Len(r) \in Nat
      /\ Len(q) \in Nat
  BY <1>1
<1>4. \A i \in DOMAIN r : r[i] \notin M /\ \E j \in DOMAIN q : q[j] = r[i]
  BY <1>2, <1>3
<1>5. \A j \in DOMAIN q : q[j] \notin M => \E i \in DOMAIN r : r[i] = q[j]
  BY <1>2, <1>3
<1>6. ASSUME \A i, j \in DOMAIN q : q[i] = q[j] => i = j,
             NEW i \in DOMAIN r, NEW j \in DOMAIN r, r[i] = r[j]
      PROVE  i = j
  <2>1. e[i] = e[j]
    BY <1>2, <1>3, <1>6
  <2>2. ~(i < j) /\ ~(j < i)
    BY <1>2, <1>3, <2>1
  <2> QED
    BY <1>3, <2>2
<1>7. q = <<>> => r = <<>>
  <2> SUFFICES ASSUME q = <<>> PROVE r = <<>>
    OBVIOUS
  <2>1. Len(r) = 0
    BY <1>2, <1>3
  <2> QED
    BY <1>1, <2>1
<1> QED
  BY <1>1, <1>4, <1>5, <1>6, <1>7 DEF r
=============================================================================
