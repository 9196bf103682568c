-------------------------- MODULE PseudoTcpProofs --------------------------
(***************************************************************************)
(* What PseudoTcp.tla keeps for every size of the buffers, every table of  *)
(* packet levels, every number of bytes and every number of faults.        *)
(*                                                                         *)
(* The invariant Inv says of each end:                                     *)
(*   - the send list lies, segment after segment, from the oldest byte not *)
(*     acknowledged to the end of the send buffer, what was sent before    *)
(*     what was not (SenderOK, Covers), and its joints are cuts: the only  *)
(*     numbers a peer can ever acknowledge (CutsOf);                       *)
(*   - nothing is sent and no window is believed beyond the right edge the *)
(*     peer has reached (WindowOK), an edge that never moves back;         *)
(*   - what is stored out of order holds the bytes of its numbers, and so  *)
(*     does what waits for the application (ReceiverOK, ReceivedOK);       *)
(*   - every packet on its way carries the bytes of its numbers and news   *)
(*     that was true when it was sent (PacketOK), which later steps cannot *)
(*     make false (Grows);                                                 *)
(*   - if the handshake is spared faults, the connect message arrives      *)
(*     before any other data (Heralded).                                   *)
(*                                                                         *)
(* The proof follows a call through the object it is made on: Sound is the *)
(* part of Inv one object answers for, given what it may rely on from its  *)
(* peer (Context), and every function of pseudotcp.cc is shown to keep it, *)
(* from the send list up to process(); the actions come last.  PseudoTcp   *)
(* has no recursive operator: its loops are folds, and what a fold gives   *)
(* is proved from a set its accumulator never leaves (LoopRuns).           *)
(***************************************************************************)
EXTENDS PseudoTcp, SequenceTheorems, FiniteSetTheorems, WellFoundedInduction, TLAPS

(***************************************************************************)
(* Numbers, sequences and folds                                            *)
(***************************************************************************)

\* A set of natural numbers that is not empty has a least element.
LEMMA LeastNumber ==
    ASSUME NEW T \in SUBSET Nat, T # {}
    PROVE  \E x \in T : \A y \in T : x <= y
<1>1. PICK x \in T : \A y \in T : <<y, x>> \notin OpToRel(<, Nat)
  BY NatLessThanWellFounded, WFMin, Zenon
<1>2. \A y \in T : <<y, x>> \in Nat \X Nat
  BY <1>1, Zenon
<1>3. \A y \in T : ~(y < x)
  BY <1>1, <1>2, Zenon DEF OpToRel
<1> QED
  BY <1>3

\* A set of natural numbers with zero and with the successor of each of its
\* members has them all.
LEMMA Induction ==
    ASSUME NEW T \in SUBSET Nat, 0 \in T, \A n \in T : n + 1 \in T
    PROVE  T = Nat
<1> SUFFICES ASSUME Nat \ T # {} PROVE FALSE
  OBVIOUS
<1>1. PICK x \in Nat \ T : \A y \in Nat \ T : x <= y
  BY LeastNumber
<1>2. x - 1 \in T
  BY <1>1
<1> QED
  BY <1>1, <1>2

\* u is s with e put in at i.
Inserted(s, i, e, u) ==
    /\ Len(u) = Len(s) + 1
    /\ \A k \in 1 .. i - 1 : u[k] = s[k]
    /\ u[i] = e
    /\ \A k \in i + 1 .. Len(s) + 1 : u[k] = s[k - 1]

\* An element put into a sequence moves the others from its place on by one.
LEMMA InsertFacts ==
    ASSUME NEW S, NEW s \in Seq(S), NEW i \in 1 .. Len(s) + 1, NEW e \in S,
           NEW u, u = InsertAt(s, i, e)
    PROVE  u \in Seq(S) /\ Inserted(s, i, e, u)
<1> DEFINE a == SubSeq(s, 1, i - 1)
           b == SubSeq(s, i, Len(s))
<1>0. Len(s) \in Nat /\ i \in Nat /\ i >= 1 /\ i - 1 <= Len(s)
  OBVIOUS
<1>1. a \in Seq(S) /\ Len(a) = i - 1 /\ \A k \in 1 .. i - 1 : a[k] = s[k]
  BY <1>0
<1>2. b \in Seq(S) /\ Len(b) = Len(s) - i + 1
      /\ \A k \in 1 .. Len(s) - i + 1 : b[k] = s[i + k - 1]
  BY <1>0
<1> DEFINE c == a \o <<e>>
<1> HIDE DEF a, b
<1>3. c \in Seq(S) /\ Len(c) = i /\ c[i] = e /\ \A k \in 1 .. i - 1 : c[k] = a[k]
  BY <1>0, <1>1
<1>4. u = c \o b
  BY DEF InsertAt, a, b
<1> HIDE DEF c
<1>5. u \in Seq(S) /\ Len(u) = Len(s) + 1
  <2>1. u \in Seq(S)
    BY <1>2, <1>3, <1>4, ConcatProperties
  <2>2. Len(u) = Len(c) + Len(b)
    <3>1. Len(c \o b) = Len(c) + Len(b)
      BY <1>2, <1>3, ConcatProperties, Zenon
    <3> QED
      BY <3>1, <1>4
  <2>3. Len(c) = i /\ Len(b) = Len(s) - i + 1
    BY <1>2, <1>3
  <2> QED
    BY <1>0, <2>1, <2>2, <2>3
<1>6. \A k \in 1 .. i : u[k] = c[k]
  BY <1>0, <1>2, <1>3, <1>4
<1>7. ASSUME NEW k \in i + 1 .. Len(s) + 1 PROVE u[k] = b[k - i]
  <2>1. k \in Len(c) + 1 .. Len(c) + Len(b)
    BY <1>0, <1>2, <1>3
  <2>2. u[k] = b[k - Len(c)]
    BY <1>2, <1>3, <1>4, <2>1
  <2> QED
    BY <1>3, <2>2
<1>8. ASSUME NEW k \in i + 1 .. Len(s) + 1 PROVE u[k] = s[k - 1]
  <2>1. k - i \in 1 .. Len(s) - i + 1 /\ i + (k - i) - 1 = k - 1
    BY <1>0
  <2> QED
    BY <2>1, <1>2, <1>7
<1> QED
  BY <1>0, <1>1, <1>3, <1>5, <1>6, <1>8 DEF Inserted

(***************************************************************************)
(* The send list: splitting, marking, queueing and acknowledging           *)
(***************************************************************************)

\* Every segment begins where the one before it ends.
Chain(slist) ==
    /\ \A i \in 1 .. Len(slist) : slist[i].len > 0
    /\ \A i \in 1 .. Len(slist) - 1 : slist[i + 1].seq = slist[i].seq + slist[i].len

\* The segments of a chain lie one after the other.
LEMMA ChainSorted ==
    ASSUME NEW s \in Seq(SSegment), Chain(s),
           NEW i \in 1 .. Len(s), NEW j \in 1 .. Len(s), i < j
    PROVE  s[i].seq + s[i].len <= s[j].seq
<1> DEFINE P(k) == i < k /\ k <= Len(s) => s[i].seq + s[i].len <= s[k].seq
           T == {k \in Nat : P(k)}
<1>0. Len(s) \in Nat /\ i \in Nat /\ j \in Nat
  OBVIOUS
<1>1. ASSUME NEW k \in 1 .. Len(s)
      PROVE s[k].seq \in Nat /\ s[k].len \in Nat /\ s[k].len > 0
  <2>1. s[k] \in SSegment /\ s[k].len > 0
    BY DEF Chain
  <2> QED
    BY <2>1 DEF SSegment
<1>2. 0 \in T
  BY <1>0
<1>3. ASSUME NEW k \in T PROVE k + 1 \in T
  <2>1. CASE i < k /\ k + 1 <= Len(s)
    <3>1. s[i].seq + s[i].len <= s[k].seq
      BY <1>0, <2>1
    <3>2. s[k + 1].seq = s[k].seq + s[k].len
      BY <1>0, <2>1 DEF Chain
    <3>3. s[k].seq \in Nat /\ s[k].len \in Nat /\ s[i].seq \in Nat /\ s[i].len \in Nat
      BY <1>0, <1>1, <2>1
    <3> QED
      BY <3>1, <3>2, <3>3, SMTT(40)
  <2>2. CASE i = k /\ k + 1 <= Len(s)
    <3>1. s[k + 1].seq = s[k].seq + s[k].len
      BY <1>0, <2>2 DEF Chain
    <3>2. s[k].seq \in Nat /\ s[k].len \in Nat
      BY <1>0, <1>1, <2>2
    <3> QED
      BY <2>2, <3>1, <3>2
  <2>3. CASE ~(i < k + 1 /\ k + 1 <= Len(s))
    BY <2>3
  <2> QED
    BY <1>0, <2>1, <2>2, <2>3
<1>4. T = Nat
  <2> HIDE DEF T
  <2>1. T \in SUBSET Nat
    BY DEF T
  <2> QED
    BY <1>2, <1>3, <2>1, Induction
<1>5. j \in T
  BY <1>0, <1>4
<1> QED
  BY <1>0, <1>5

\* u is s with the segment at i cut after n bytes.
CutAt(s, i, n, u) ==
    /\ Len(u) = Len(s) + 1
    /\ \A k \in 1 .. i - 1 : u[k] = s[k]
    /\ u[i].seq = s[i].seq /\ u[i].len = n
    /\ u[i].ctl = s[i].ctl /\ u[i].xmit = s[i].xmit
    /\ u[i + 1].seq = s[i].seq + n /\ u[i + 1].len = s[i].len - n
    /\ u[i + 1].ctl = s[i].ctl /\ u[i + 1].xmit = s[i].xmit
    /\ \A k \in i + 2 .. Len(s) + 1 : u[k] = s[k - 1]

\* Splitting a segment, as transmit does at pseudotcp.cc:1016.
LEMMA SplitFacts ==
    ASSUME NEW s \in Seq(SSegment), NEW i \in 1 .. Len(s), NEW n \in Nat,
           0 < n, n < s[i].len, NEW u, u = Split(s, i, n)
    PROVE  u \in Seq(SSegment) /\ CutAt(s, i, n, u)
<1> DEFINE c == [s EXCEPT ![i].len = n]
           e == [s[i] EXCEPT !.seq = s[i].seq + n, !.len = s[i].len - n]
<1>0. s[i] \in SSegment /\ Len(s) \in Nat /\ i \in Nat
  OBVIOUS
<1>1. s[i].seq \in Nat /\ s[i].len \in Nat
  BY <1>0 DEF SSegment
<1>2. e \in SSegment
  <2> DEFINE x == s[i].seq + n
             y == s[i].len - n
  <2>1. x \in Nat /\ y \in Nat
    BY <1>1, SMT
  <2> HIDE DEF x, y
  <2>2. [s[i] EXCEPT !.seq = x, !.len = y] \in SSegment
    BY <1>0, <2>1 DEF SSegment
  <2> QED
    BY <2>2 DEF x, y
<1>3. [s[i] EXCEPT !.len = n] \in SSegment
  BY <1>0 DEF SSegment
<1>4. c = [s EXCEPT ![i] = [s[i] EXCEPT !.len = n]]
  OBVIOUS
<1>5. c \in Seq(SSegment) /\ Len(c) = Len(s) /\ c[i] = [s[i] EXCEPT !.len = n]
      /\ \A k \in 1 .. Len(s) : k # i => c[k] = s[k]
  BY <1>3, <1>4, <1>0
<1>6. u = InsertAt(c, i + 1, e)
  BY <1>1 DEF Split
<1> HIDE DEF c, e
<1>7. /\ u \in Seq(SSegment) /\ Len(u) = Len(c) + 1
      /\ \A k \in 1 .. i : u[k] = c[k]
      /\ u[i + 1] = e
      /\ \A k \in i + 2 .. Len(c) + 1 : u[k] = c[k - 1]
  <2>1. i + 1 \in 1 .. Len(c) + 1
    BY <1>0, <1>5
  <2> DEFINE j == i + 1
  <2>2. j \in 1 .. Len(c) + 1 /\ u = InsertAt(c, j, e)
    BY <2>1, <1>6
  <2>3. j - 1 = i /\ j + 1 = i + 2
    BY <1>0
  <2> HIDE DEF j
  <2>4. u \in Seq(SSegment) /\ Inserted(c, j, e, u)
    BY <1>2, <1>5, <2>2, InsertFacts
  <2> QED
    BY <2>3, <2>4 DEF j, Inserted
<1>8. \A k \in 1 .. i - 1 : u[k] = s[k]
  BY <1>0, <1>5, <1>7
<1>9. \A k \in i + 2 .. Len(s) + 1 : u[k] = s[k - 1]
  BY <1>0, <1>5, <1>7
<1>10. u[i] = [s[i] EXCEPT !.len = n]
  BY <1>0, <1>5, <1>7
<1>11. u[i].seq = s[i].seq /\ u[i].len = n
       /\ u[i].ctl = s[i].ctl /\ u[i].xmit = s[i].xmit
  BY <1>0, <1>10 DEF SSegment
<1>12. u[i + 1].seq = s[i].seq + n /\ u[i + 1].len = s[i].len - n
       /\ u[i + 1].ctl = s[i].ctl /\ u[i + 1].xmit = s[i].xmit
  <2>1. u[i + 1] = e
    BY <1>7
  <2> QED
    BY <1>0, <2>1 DEF SSegment, e
<1> QED
  BY <1>5, <1>7, <1>8, <1>9, <1>11, <1>12 DEF CutAt

\* The joints of the send list: the numbers a peer may acknowledge.
CutsOf(slist, una) ==
    0 .. una \cup
    {slist[i].seq + slist[i].len : i \in {j \in DOMAIN slist : slist[j].xmit > 0}}

\* Only the connect message has number 0, and it is one byte long.
SegmentsOK(slist) ==
    \A i \in DOMAIN slist :
        /\ slist[i].ctl <=> slist[i].seq = 0
        /\ slist[i].ctl => slist[i].len = 1

\* What an operation on the send list s with result u leaves true.
Keeps(s, u, una, nxt, end) ==
    /\ u \in Seq(SSegment)
    /\ Covers(u, una, nxt, end)
    /\ SegmentsOK(u)
    /\ CutsOf(s, una) \subseteq CutsOf(u, una)

LEMMA SegmentType ==
    ASSUME NEW s \in Seq(SSegment), NEW i \in 1 .. Len(s)
    PROVE  /\ s[i].seq \in Nat /\ s[i].len \in Nat /\ s[i].xmit \in Nat
           /\ s[i].ctl \in BOOLEAN /\ i \in DOMAIN s /\ s[i] \in SSegment
<1>1. s[i] \in SSegment
  OBVIOUS
<1> QED
  BY <1>1 DEF SSegment

\* u is s, with no more than n bytes in the segment at i, which is still there.
SplitInto(s, i, n, u, una, nxt, end) ==
    /\ Keeps(s, u, una, nxt, end)
    /\ i \in 1 .. Len(u) /\ Len(s) <= Len(u)
    /\ u[i].seq = s[i].seq /\ u[i].len = Lower(s[i].len, n)
    /\ u[i].ctl = s[i].ctl /\ u[i].xmit = s[i].xmit
    /\ \A k \in 1 .. i - 1 : u[k] = s[k]

\* A split keeps the cover of the buffer and adds a cut.
LEMMA SplitKeeps ==
    ASSUME NEW s \in Seq(SSegment), NEW una \in Nat, NEW nxt \in Nat,
           NEW end \in Nat, Covers(s, una, nxt, end), SegmentsOK(s),
           NEW i \in 1 .. Len(s), NEW n \in Nat, 0 < n,
           NEW u, u = Split(s, i, n)
    PROVE  SplitInto(s, i, n, u, una, nxt, end)
<1>0. Len(s) \in Nat /\ i \in Nat
  OBVIOUS
<1>s. s[i].seq \in Nat /\ s[i].len \in Nat /\ s[i].xmit \in Nat /\ s[i].len > 0
  BY SegmentType DEF Covers
<1>1. CASE n >= s[i].len
  <2>1. u = s
    BY <1>1 DEF Split
  <2> QED
    BY <1>s, <1>1, <2>1 DEF Lower, Keeps, SplitInto
<1>2. CASE n < s[i].len
  <2>1. u \in Seq(SSegment) /\ CutAt(s, i, n, u)
    BY <1>2, SplitFacts
  <2>2. Len(u) = Len(s) + 1
    BY <2>1 DEF CutAt
  <2>3. ASSUME NEW k \in 1 .. Len(u)
        PROVE  \/ (k < i /\ u[k] = s[k] /\ k \in 1 .. Len(s))
               \/ k = i
               \/ k = i + 1
               \/ k > i + 1 /\ u[k] = s[k - 1] /\ k - 1 \in 1 .. Len(s)
    <3>1. CASE k < i
      <4>1. k \in 1 .. i - 1
        BY <3>1, <1>0
      <4> QED
        BY <4>1, <2>1, <1>0 DEF CutAt
    <3>2. CASE k > i + 1
      <4>1. k \in i + 2 .. Len(s) + 1
        BY <3>2, <1>0, <2>2
      <4> QED
        BY <4>1, <3>2, <2>1, <1>0 DEF CutAt
    <3> QED
      BY <3>1, <3>2, <1>0
  <2>i. u[i].seq = s[i].seq /\ u[i].len = n
        /\ u[i].ctl = s[i].ctl /\ u[i].xmit = s[i].xmit
    BY <2>1 DEF CutAt
  <2>j. u[i + 1].seq = s[i].seq + n /\ u[i + 1].len = s[i].len - n
        /\ u[i + 1].ctl = s[i].ctl /\ u[i + 1].xmit = s[i].xmit
    BY <2>1 DEF CutAt
  <2>4. ASSUME NEW k \in 1 .. Len(u)
        PROVE  /\ u[k].len > 0
               /\ IF u[k].xmit > 0 THEN u[k].seq + u[k].len <= nxt
                  ELSE u[k].seq >= nxt
    <3>1. IF s[i].xmit > 0 THEN s[i].seq + s[i].len <= nxt ELSE s[i].seq >= nxt
      BY DEF Covers
    <3>2. CASE k = i
      BY <3>1, <3>2, <2>i, <1>s, <1>2, SMT
    <3>3. CASE k = i + 1
      <4>1. u[k].seq = s[i].seq + n /\ u[k].len = s[i].len - n
            /\ u[k].xmit = s[i].xmit
        BY <3>3, <2>j
      <4>2. u[k].seq + u[k].len = s[i].seq + s[i].len /\ u[k].len > 0
            /\ u[k].seq >= s[i].seq
        <5>1. /\ (s[i].seq + n) + (s[i].len - n) = s[i].seq + s[i].len
              /\ s[i].len - n > 0 /\ s[i].seq + n >= s[i].seq
          <6>1. (s[i].seq + n) + (s[i].len - n) = s[i].seq + s[i].len
            BY <1>s, SMTT(40)
          <6>2. s[i].len - n > 0
            BY <1>s, <1>2, SMT
          <6>3. s[i].seq + n >= s[i].seq
            BY <1>s, SMT
          <6> QED
            BY <6>1, <6>2, <6>3
        <5>2. u[k].seq + u[k].len = (s[i].seq + n) + (s[i].len - n)
          BY <4>1
        <5>3. u[k].len > 0 /\ u[k].seq >= s[i].seq
          BY <4>1, <5>1
        <5> QED
          BY <5>1, <5>2, <5>3
      <4> QED
        BY <4>1, <4>2, <3>1, <1>s, SMT
    <3>4. CASE k # i /\ k # i + 1
      BY <3>4, <2>3 DEF Covers
    <3> QED
      BY <3>2, <3>3, <3>4
  <2>5. ASSUME NEW k \in 1 .. Len(u) - 1
        PROVE  u[k + 1].seq = u[k].seq + u[k].len
    <3>0. k \in 1 .. Len(u) /\ k + 1 \in 1 .. Len(u) /\ k \in Nat
      BY <2>2, <1>0
    <3>c. \A x \in 1 .. Len(s) - 1 : s[x + 1].seq = s[x].seq + s[x].len
      BY DEF Covers
    <3>1. CASE k + 1 < i
      BY <3>0, <3>1, <3>c, <2>3, <1>0
    <3>2. CASE k + 1 = i
      <4>1. u[k] = s[k] /\ k \in 1 .. Len(s) - 1
        BY <3>0, <3>2, <2>3, <1>0
      <4> QED
        BY <4>1, <3>2, <3>c, <2>i
    <3>3. CASE k = i
      BY <3>3, <2>i, <2>j
    <3>4. CASE k = i + 1
      <4>1. u[k + 1] = s[i + 1] /\ i \in 1 .. Len(s) - 1
        <5>1. u[k + 1] = s[k + 1 - 1]
          BY <3>0, <3>4, <2>3, <1>0
        <5> QED
          BY <5>1, <3>4, <2>2, <1>0, SMT
      <4>2. s[i + 1].seq = s[i].seq + s[i].len
        BY <4>1, <3>c
      <4> QED
        <5>1. u[k].seq = s[i].seq + n /\ u[k].len = s[i].len - n
          BY <3>4, <2>j
        <5>2. u[k].seq + u[k].len = s[i].seq + s[i].len
          <6>1. (s[i].seq + n) + (s[i].len - n) = s[i].seq + s[i].len
            BY <1>s, <1>2, SMTT(40)
          <6>2. u[k].seq + u[k].len = (s[i].seq + n) + (s[i].len - n)
            BY <5>1, Zenon
          <6> QED
            BY <6>1, <6>2, Zenon
        <5> QED
          BY <4>1, <4>2, <5>2
    <3>5. CASE k > i + 1
      <4>1. u[k] = s[k - 1] /\ u[k + 1] = s[k + 1 - 1] /\ k - 1 \in 1 .. Len(s) - 1
        BY <3>0, <3>5, <2>3, <2>2, <1>0, SMT
      <4>2. s[(k - 1) + 1].seq = s[k - 1].seq + s[k - 1].len
        BY <4>1, <3>c
      <4>3. (k - 1) + 1 = k /\ k + 1 - 1 = k
        BY <3>0
      <4> QED
        BY <4>1, <4>2, <4>3
    <3> QED
      BY <3>0, <3>1, <3>2, <3>3, <3>4, <3>5, <1>0
  <2>6. u[1].seq = una /\ u[Len(u)].seq + u[Len(u)].len = end
    <3>1. s[1].seq = una /\ s[Len(s)].seq + s[Len(s)].len = end
      BY <1>0 DEF Covers
    <3>2. u[1].seq = una
      <4>1. CASE i = 1
        BY <4>1, <3>1, <2>i
      <4>2. CASE i > 1
        <5>1. u[1] = s[1]
          BY <4>2, <2>3, <2>2, <1>0
        <5> QED
          BY <5>1, <3>1
      <4> QED
        BY <4>1, <4>2, <1>0
    <3>3. u[Len(u)].seq + u[Len(u)].len = end
      <4>1. CASE i = Len(s)
        <5>1. u[Len(u)].seq = s[i].seq + n /\ u[Len(u)].len = s[i].len - n
          BY <4>1, <2>j, <2>2
        <5>2. u[Len(u)].seq + u[Len(u)].len = s[i].seq + s[i].len
          <6>1. (s[i].seq + n) + (s[i].len - n) = s[i].seq + s[i].len
            BY <1>s, <1>2, SMTT(40)
          <6>2. u[Len(u)].seq + u[Len(u)].len = (s[i].seq + n) + (s[i].len - n)
            BY <5>1, Zenon
          <6> QED
            BY <6>1, <6>2, Zenon
        <5> QED
          BY <4>1, <5>2, <3>1
      <4>2. CASE i < Len(s)
        <5>1. u[Len(u)] = s[Len(u) - 1] /\ Len(u) - 1 = Len(s)
          BY <4>2, <2>3, <2>2, <1>0
        <5> QED
          BY <5>1, <3>1
      <4> QED
        BY <4>1, <4>2, <1>0
    <3> QED
      BY <3>2, <3>3
  <2>7. Covers(u, una, nxt, end)
    <3>1. una <= nxt /\ nxt <= end
      BY DEF Covers
    <3> QED
      BY <3>1, <2>4, <2>5, <2>6, <2>2, <1>0 DEF Covers
  <2>8. SegmentsOK(u)
    <3> SUFFICES ASSUME NEW k \in 1 .. Len(u)
                 PROVE  (u[k].ctl <=> u[k].seq = 0) /\ (u[k].ctl => u[k].len = 1)
      BY <2>1 DEF SegmentsOK
    <3>0. \A x \in 1 .. Len(s) : (s[x].ctl <=> s[x].seq = 0) /\ (s[x].ctl => s[x].len = 1)
      BY DEF SegmentsOK
    <3>1. ~s[i].ctl /\ s[i].seq # 0
      BY <3>0, <1>2, <1>s, SMT
    <3>2. CASE k = i
      BY <3>1, <3>2, <2>i
    <3>3. CASE k = i + 1
      BY <3>1, <3>3, <2>j, <1>s, SMTT(40)
    <3>4. CASE k # i /\ k # i + 1
      <4>1. \E x \in 1 .. Len(s) : u[k] = s[x]
        BY <3>4, <2>3
      <4>2. PICK x \in 1 .. Len(s) : u[k] = s[x]
        BY <4>1
      <4> QED
        BY <3>0, <4>2
    <3> QED
      BY <3>2, <3>3, <3>4
  <2>9. CutsOf(s, una) \subseteq CutsOf(u, una)
    <3> SUFFICES ASSUME NEW k \in 1 .. Len(s), s[k].xmit > 0
                 PROVE  \E x \in 1 .. Len(u) : /\ u[x].xmit > 0
                            /\ s[k].seq + s[k].len = u[x].seq + u[x].len
      BY <2>1 DEF CutsOf
    <3>1. CASE k < i
      <4>1. u[k] = s[k] /\ k \in 1 .. Len(u)
        BY <3>1, <2>3, <2>2, <1>0
      <4> QED
        BY <4>1
    <3>2. CASE k = i
      <4>1. i + 1 \in 1 .. Len(u) /\ u[i + 1].xmit > 0
            /\ s[k].seq + s[k].len = u[i + 1].seq + u[i + 1].len
        <5>1. i + 1 \in 1 .. Len(u)
          BY <2>2, <1>0
        <5>2. u[i + 1].xmit > 0
          BY <3>2, <2>j
        <5>3. (s[i].seq + n) + (s[i].len - n) = s[i].seq + s[i].len
          BY <1>s, SMTT(40)
        <5>4. s[k].seq + s[k].len = u[i + 1].seq + u[i + 1].len
          BY <3>2, <2>j, <5>3
        <5> QED
          BY <5>1, <5>2, <5>4
      <4> QED
        BY <4>1
    <3>3. CASE k > i
      <4>1. u[k + 1] = s[k + 1 - 1] /\ k + 1 \in 1 .. Len(u)
        BY <3>3, <2>3, <2>2, <1>0
      <4>2. k + 1 - 1 = k
        BY <1>0
      <4> QED
        BY <4>1, <4>2
    <3> QED
      BY <3>1, <3>2, <3>3, <1>0
  <2>10. \A k \in 1 .. i - 1 : u[k] = s[k]
    BY <2>1 DEF CutAt
  <2> QED
    BY <2>1, <2>2, <2>i, <2>7, <2>8, <2>9, <2>10, <1>0, <1>s, <1>2, SMT DEF Keeps, Lower, SplitInto
<1> QED
  BY <1>1, <1>2, <1>s DEF SplitInto

\* A list that covers the buffer is a chain.
LEMMA CoversChain ==
    ASSUME NEW s \in Seq(SSegment), NEW una, NEW nxt, NEW end,
           Covers(s, una, nxt, end)
    PROVE  Chain(s)
  BY DEF Covers, Chain

\* Every segment lies within what the list covers.
LEMMA SegmentsWithin ==
    ASSUME NEW s \in Seq(SSegment), NEW una \in Nat, NEW nxt \in Nat,
           NEW end \in Nat, Covers(s, una, nxt, end), NEW i \in 1 .. Len(s)
    PROVE  una <= s[i].seq /\ s[i].seq + s[i].len <= end
<1>0. Len(s) \in Nat /\ i \in Nat /\ Len(s) > 0
  OBVIOUS
<1>1. s[1].seq = una /\ s[Len(s)].seq + s[Len(s)].len = end
  BY <1>0 DEF Covers
<1>2. /\ s[1].len \in Nat /\ s[1].len > 0
      /\ s[i].seq \in Nat /\ s[i].len \in Nat /\ s[Len(s)].seq \in Nat
      /\ s[Len(s)].len \in Nat
  <2>1. 1 \in 1 .. Len(s) /\ Len(s) \in 1 .. Len(s)
    BY <1>0
  <2> QED
    BY <2>1, SegmentType DEF Covers
<1>3. una <= s[i].seq
  <2>1. CASE i = 1
    BY <2>1, <1>1
  <2>2. CASE i # 1
    <3>1. s[1].seq + s[1].len <= s[i].seq
      BY <2>2, <1>0, CoversChain, ChainSorted
    <3> QED
      BY <3>1, <1>1, <1>2, SMTT(40)
  <2> QED
    BY <2>1, <2>2
<1>4. s[i].seq + s[i].len <= end
  <2>1. CASE i = Len(s)
    BY <2>1, <1>1, <1>2
  <2>2. CASE i # Len(s)
    <3>1. s[i].seq + s[i].len <= s[Len(s)].seq
      BY <2>2, <1>0, CoversChain, ChainSorted
    <3>2. s[Len(s)].seq <= end
      BY <1>1, <1>2, SMTT(40)
    <3> QED
      BY <3>1, <3>2, <1>2, SMTT(40)
  <2> QED
    BY <2>1, <2>2
<1> QED
  BY <1>3, <1>4

\* u is s with one more transmission of the segment at i.
Marked(s, i, u) ==
    /\ Len(u) = Len(s)
    /\ \A k \in 1 .. Len(s) :
          /\ u[k].seq = s[k].seq /\ u[k].len = s[k].len /\ u[k].ctl = s[k].ctl
          /\ u[k].xmit = IF k = i THEN s[k].xmit + 1 ELSE s[k].xmit

\* Counting a transmission changes no other segment.
LEMMA MarkFacts ==
    ASSUME NEW s \in Seq(SSegment), NEW i \in 1 .. Len(s),
           NEW u, u = [s EXCEPT ![i].xmit = @ + 1]
    PROVE  u \in Seq(SSegment) /\ Marked(s, i, u)
<1> DEFINE x == s[i].xmit + 1
           e == [s[i] EXCEPT !.xmit = x]
<1>1. s[i] \in SSegment /\ x \in Nat
  BY SegmentType
<1> HIDE DEF x
<1>2. /\ e \in SSegment
      /\ e.seq = s[i].seq /\ e.len = s[i].len /\ e.ctl = s[i].ctl /\ e.xmit = x
  BY <1>1 DEF SSegment
<1>3. u = [s EXCEPT ![i] = e]
  BY DEF x
<1> HIDE DEF e
<1>4. u \in Seq(SSegment) /\ Len(u) = Len(s)
  BY <1>2, <1>3
<1>5. ASSUME NEW k \in 1 .. Len(s)
      PROVE  /\ u[k].seq = s[k].seq /\ u[k].len = s[k].len /\ u[k].ctl = s[k].ctl
             /\ u[k].xmit = IF k = i THEN s[k].xmit + 1 ELSE s[k].xmit
  <2>1. CASE k = i
    <3>1. u[k] = e
      BY <2>1, <1>3
    <3> QED
      BY <3>1, <2>1, <1>2 DEF x
  <2>2. CASE k # i
    <3>1. u[k] = s[k]
      BY <2>2, <1>3
    <3> QED
      BY <3>1, <2>2
  <2> QED
    BY <2>1, <2>2
<1> QED
  BY <1>4, <1>5 DEF Marked

\* u is what marking the segment of s at i as sent leaves, and nxt2 where sending
\* has got to.
MarkedKeeps(s, i, u, una, nxt, nxt2, end) ==
    /\ nxt2 \in Nat /\ Keeps(s, u, una, nxt2, end)
    /\ s[i].seq + s[i].len \in CutsOf(u, una)
    /\ una < nxt2 /\ nxt <= nxt2
    /\ s[i].xmit = 0 => s[i].seq = nxt

\* Sending the first segment that was not sent moves snd_nxt to its end.
LEMMA MarkKeeps ==
    ASSUME NEW s \in Seq(SSegment), NEW una \in Nat, NEW nxt \in Nat,
           NEW end \in Nat, Covers(s, una, nxt, end), SegmentsOK(s),
           NEW i \in 1 .. Len(s),
           s[i].xmit = 0 => \A k \in 1 .. i - 1 : s[k].xmit > 0,
           NEW u, u = [s EXCEPT ![i].xmit = @ + 1],
           NEW nxt2, nxt2 = IF s[i].xmit = 0 THEN nxt + s[i].len ELSE nxt
    PROVE  MarkedKeeps(s, i, u, una, nxt, nxt2, end)
<1>0. Len(s) \in Nat /\ i \in Nat
  OBVIOUS
<1>1. u \in Seq(SSegment) /\ Marked(s, i, u)
  BY MarkFacts
<1>2. Len(u) = Len(s) /\ DOMAIN u = 1 .. Len(s)
  BY <1>1 DEF Marked
<1>s. s[i].seq \in Nat /\ s[i].len \in Nat /\ s[i].xmit \in Nat /\ s[i].len > 0
  BY SegmentType DEF Covers
<1>w. una <= s[i].seq /\ s[i].seq + s[i].len <= end
  BY SegmentsWithin
<1>n. IF s[i].xmit > 0 THEN s[i].seq + s[i].len <= nxt ELSE s[i].seq >= nxt
  BY DEF Covers
<1>3. s[i].xmit = 0 => s[i].seq = nxt
  <2> SUFFICES ASSUME s[i].xmit = 0 PROVE s[i].seq = nxt
    OBVIOUS
  <2>1. s[i].seq >= nxt
    BY <1>n, <1>s
  <2>2. s[i].seq <= nxt
    <3>1. CASE i = 1
      BY <3>1, <1>0 DEF Covers
    <3>2. CASE i # 1
      <4>0. i - 1 \in 1 .. Len(s) /\ i - 1 \in 1 .. i - 1 /\ i - 1 \in 1 .. Len(s) - 1
            /\ (i - 1) + 1 = i
        BY <3>2, <1>0
      <4>1. s[i - 1].xmit > 0
        BY <4>0
      <4>2. s[i - 1].seq + s[i - 1].len <= nxt
        BY <4>0, <4>1 DEF Covers
      <4>3. \A x \in 1 .. Len(s) - 1 : s[x + 1].seq = s[x].seq + s[x].len
        BY DEF Covers
      <4>4. s[i].seq = s[i - 1].seq + s[i - 1].len
        BY <4>0, <4>3
      <4> QED
        BY <4>2, <4>4
    <3> QED
      BY <3>1, <3>2
  <2> QED
    BY <2>1, <2>2, <1>s, SMT
<1>4. nxt2 \in Nat /\ nxt <= nxt2 /\ nxt2 <= end /\ una < nxt2
  <2>0. una <= nxt /\ nxt <= end
    BY DEF Covers
  <2>1. CASE s[i].xmit = 0
    BY <2>0, <2>1, <1>3, <1>s, <1>w, SMT
  <2>2. CASE s[i].xmit # 0
    <3>1. s[i].seq + s[i].len <= nxt
      BY <2>2, <1>n, <1>s, SMT
    <3>2. una < s[i].seq + s[i].len
      BY <1>w, <1>s, SMT
    <3> QED
      BY <2>0, <2>2, <3>1, <3>2, <1>s
  <2> QED
    BY <2>1, <2>2
<1>5. s[i].seq + s[i].len <= nxt2
  <2>1. CASE s[i].xmit = 0
    BY <2>1, <1>3, <1>s
  <2>2. CASE s[i].xmit # 0
    BY <2>2, <1>n, <1>s, SMT
  <2> QED
    BY <2>1, <2>2
<1>6. ASSUME NEW k \in 1 .. Len(s)
      PROVE  /\ u[k].len > 0
             /\ IF u[k].xmit > 0 THEN u[k].seq + u[k].len <= nxt2
                ELSE u[k].seq >= nxt2
  <2>0. /\ u[k].seq = s[k].seq /\ u[k].len = s[k].len
        /\ u[k].xmit = IF k = i THEN s[k].xmit + 1 ELSE s[k].xmit
    BY <1>1 DEF Marked
  <2>1. /\ s[k].len > 0
        /\ IF s[k].xmit > 0 THEN s[k].seq + s[k].len <= nxt ELSE s[k].seq >= nxt
    BY DEF Covers
  <2>2. s[k].seq \in Nat /\ s[k].len \in Nat /\ s[k].xmit \in Nat
    BY SegmentType
  <2>3. CASE k = i
    BY <2>0, <2>1, <2>3, <1>5, <1>s
  <2>4. CASE k # i /\ s[k].xmit > 0
    BY <2>0, <2>1, <2>2, <2>4, <1>4, SMTT(40)
  <2>5. CASE k # i /\ s[k].xmit = 0
    <3>1. CASE s[i].xmit = 0
      <4>1. k > i
        BY <2>5, <3>1, <1>0, SMT
      <4>2. s[i].seq + s[i].len <= s[k].seq
        BY <4>1, CoversChain, ChainSorted
      <4>3. nxt2 = s[i].seq + s[i].len
        BY <3>1, <1>3
      <4> QED
        BY <4>2, <4>3, <2>0, <2>1, <2>5
    <3>2. CASE s[i].xmit # 0
      BY <3>2, <2>0, <2>1, <2>5
    <3> QED
      BY <3>1, <3>2
  <2> QED
    BY <2>2, <2>3, <2>4, <2>5
<1>7. ASSUME NEW k \in 1 .. Len(s) - 1
      PROVE  u[k + 1].seq = u[k].seq + u[k].len
  <2>0. k \in 1 .. Len(s) /\ k + 1 \in 1 .. Len(s)
    BY <1>0, SMT
  <2>1. s[k + 1].seq = s[k].seq + s[k].len
    BY DEF Covers
  <2>2. u[k + 1].seq = s[k + 1].seq /\ u[k].seq = s[k].seq /\ u[k].len = s[k].len
    BY <2>0, <1>1 DEF Marked
  <2> QED
    BY <2>1, <2>2
<1>8. u[1].seq = una /\ u[Len(u)].seq + u[Len(u)].len = end
  <2>0. 1 \in 1 .. Len(s) /\ Len(s) \in 1 .. Len(s)
    BY <1>0
  <2>1. s[1].seq = una /\ s[Len(s)].seq + s[Len(s)].len = end
    BY <1>0 DEF Covers
  <2>2. u[1].seq = s[1].seq /\ u[Len(s)].seq = s[Len(s)].seq
        /\ u[Len(s)].len = s[Len(s)].len
    BY <2>0, <1>1 DEF Marked
  <2> QED
    BY <2>1, <2>2, <1>2
<1>9. Covers(u, una, nxt2, end)
  <2>1. una <= nxt2 /\ nxt2 <= end /\ Len(u) # 0
    BY <1>0, <1>2, <1>4
  <2> QED
    BY <2>1, <1>2, <1>6, <1>7, <1>8 DEF Covers
<1>10. SegmentsOK(u)
  <2> SUFFICES ASSUME NEW k \in 1 .. Len(s)
               PROVE  (u[k].ctl <=> u[k].seq = 0) /\ (u[k].ctl => u[k].len = 1)
    BY <1>2 DEF SegmentsOK
  <2>1. (s[k].ctl <=> s[k].seq = 0) /\ (s[k].ctl => s[k].len = 1)
    BY DEF SegmentsOK
  <2>2. u[k].seq = s[k].seq /\ u[k].len = s[k].len /\ u[k].ctl = s[k].ctl
    BY <1>1 DEF Marked
  <2> QED
    BY <2>1, <2>2
<1>11. ASSUME NEW k \in 1 .. Len(s), s[k].xmit > 0 \/ k = i
       PROVE  s[k].seq + s[k].len \in CutsOf(u, una)
  <2>1. u[k].seq = s[k].seq /\ u[k].len = s[k].len
        /\ u[k].xmit = IF k = i THEN s[k].xmit + 1 ELSE s[k].xmit
    BY <1>1 DEF Marked
  <2>2. s[k].xmit \in Nat
    BY SegmentType
  <2>3. u[k].xmit > 0 /\ k \in DOMAIN u
    BY <2>1, <2>2, <1>11, <1>2
  <2>4. u[k].seq + u[k].len = s[k].seq + s[k].len
    BY <2>1
  <2> QED
    BY <2>3, <2>4 DEF CutsOf
<1>12. CutsOf(s, una) \subseteq CutsOf(u, una)
  BY <1>11 DEF CutsOf
<1>13. s[i].seq + s[i].len \in CutsOf(u, una)
  BY <1>11
<1> QED
  BY <1>1, <1>3, <1>4, <1>9, <1>10, <1>12, <1>13 DEF Keeps, MarkedKeeps

\* While something was not sent, the first segment that was not sent is there.
LEMMA UnsentExists ==
    ASSUME NEW s \in Seq(SSegment), NEW una \in Nat, NEW nxt \in Nat,
           NEW end \in Nat, Covers(s, una, nxt, end), nxt < end,
           NEW i, i = Least({j \in DOMAIN s : s[j].xmit = 0})
    PROVE  /\ i \in 1 .. Len(s) /\ s[i].xmit = 0
           /\ \A k \in 1 .. i - 1 : s[k].xmit > 0
<1> DEFINE T == {j \in DOMAIN s : s[j].xmit = 0}
<1>0. Len(s) \in Nat /\ Len(s) # 0
  <2>1. una <= nxt /\ nxt <= end
    BY DEF Covers
  <2> QED
    BY <2>1 DEF Covers
<1>1. Len(s) \in T
  <2>1. Len(s) \in 1 .. Len(s)
    BY <1>0
  <2>2. s[Len(s)].seq + s[Len(s)].len = end
    BY <1>0 DEF Covers
  <2>3. s[Len(s)].xmit > 0 => s[Len(s)].seq + s[Len(s)].len <= nxt
    BY <2>1 DEF Covers
  <2>4. s[Len(s)].xmit \in Nat
    BY <2>1, SegmentType
  <2> QED
    BY <2>1, <2>2, <2>3, <2>4
<1>2. T \in SUBSET Nat
  OBVIOUS
<1>3. \E x \in T : \A y \in T : x <= y
  BY <1>1, <1>2, LeastNumber
<1>4. i \in T /\ \A y \in T : i <= y
  <2> HIDE DEF T
  <2>1. LET P(x) == x \in T /\ \A y \in T : x <= y
        IN  (\E x : P(x)) => P(CHOOSE x : P(x))
    BY Zenon
  <2>2. i = CHOOSE x : x \in T /\ \A y \in T : x <= y
    BY DEF Least, T
  <2> QED
    BY <1>3, <2>1, <2>2
<1>5. ASSUME NEW k \in 1 .. i - 1 PROVE s[k].xmit > 0
  <2>1. k \in 1 .. Len(s) /\ k < i
    BY <1>4, <1>0
  <2>2. s[k].xmit # 0
    <3>1. k \notin T
      <4> HIDE DEF T
      <4>1. i \in Nat /\ k \in Nat
        BY <2>1, <1>2, <1>4
      <4> QED
        BY <2>1, <1>4, <4>1
    <3>2. k \in DOMAIN s
      BY <2>1
    <3> QED
      BY <3>1, <3>2
  <2>3. s[k].xmit \in Nat
    BY <2>1, SegmentType
  <2> QED
    BY <2>2, <2>3
<1> QED
  BY <1>4, <1>5

\* Nothing is in flight unless the first segment was sent.
LEMMA FirstIsSent ==
    ASSUME NEW s \in Seq(SSegment), NEW una \in Nat, NEW nxt \in Nat,
           NEW end \in Nat, Covers(s, una, nxt, end), una # nxt
    PROVE  1 \in 1 .. Len(s) /\ s[1].xmit > 0
<1>0. Len(s) \in Nat /\ una < nxt /\ nxt <= end
  BY DEF Covers
<1>1. Len(s) # 0
  BY <1>0 DEF Covers
<1>2. 1 \in 1 .. Len(s) /\ s[1].seq = una
  BY <1>0, <1>1 DEF Covers
<1>3. s[1].xmit > 0 \/ s[1].seq >= nxt
  BY <1>2 DEF Covers
<1> QED
  BY <1>0, <1>2, <1>3

\* The send list s, which ends at end, when n bytes join it.
Queued(s, end, n, ctl) ==
    IF Len(s) > 0 /\ s[Len(s)].ctl = ctl /\ s[Len(s)].xmit = 0
    THEN [s EXCEPT ![Len(s)].len = @ + n]
    ELSE Append(s, [seq |-> end, len |-> n, ctl |-> ctl, xmit |-> 0])

\* Bytes queued behind the others.
LEMMA QueueKeeps ==
    ASSUME NEW s \in Seq(SSegment), NEW una \in Nat, NEW nxt \in Nat,
           NEW end \in Nat, Covers(s, una, nxt, end), SegmentsOK(s),
           NEW ctl \in BOOLEAN, NEW n \in Nat, n > 0,
           ctl <=> end = 0, ctl => n = 1,
           NEW u, u = Queued(s, end, n, ctl)
    PROVE  Keeps(s, u, una, nxt, end + n)
<1> DEFINE e == [seq |-> end, len |-> n, ctl |-> ctl, xmit |-> 0]
<1>0. Len(s) \in Nat /\ una <= nxt /\ nxt <= end
  BY DEF Covers
<1>1. CASE Len(s) > 0 /\ s[Len(s)].ctl = ctl /\ s[Len(s)].xmit = 0
  <2> DEFINE l == Len(s)
             x == s[l].len + n
             f == [s[l] EXCEPT !.len = x]
  <2>1. l \in 1 .. Len(s) /\ l \in Nat
    BY <1>0, <1>1
  <2>2. s[l].seq \in Nat /\ s[l].len \in Nat /\ s[l] \in SSegment /\ s[l].len > 0
    BY <2>1, SegmentType DEF Covers
  <2>3. s[l].seq + s[l].len = end /\ s[l].seq >= nxt
    BY <1>1, <2>1 DEF Covers
  <2>4. u = [s EXCEPT ![l] = f]
    BY <1>1 DEF Queued
  <2>5. x \in Nat /\ x > 0 /\ s[l].seq + x = end + n
    <3>1. x \in Nat /\ x > 0
      BY <2>2, SMT
    <3>2. s[l].seq + (s[l].len + n) = (s[l].seq + s[l].len) + n
      BY <2>2
    <3> QED
      BY <3>1, <3>2, <2>3
  <2> HIDE DEF l, x
  <2>6. f \in SSegment /\ f.seq = s[l].seq /\ f.len = x /\ f.ctl = s[l].ctl
        /\ f.xmit = s[l].xmit
    BY <2>2, <2>5 DEF SSegment
  <2> HIDE DEF f
  <2>7. u \in Seq(SSegment) /\ Len(u) = l /\ u[l] = f
        /\ \A k \in 1 .. l - 1 : u[k] = s[k]
    BY <2>1, <2>4, <2>6 DEF l
  <2>8. s[l].xmit = 0 /\ s[l].ctl = ctl /\ l > 0
    BY <1>1 DEF l
  <2>9. Len(s) = l
    BY DEF l
  <2>10. ASSUME NEW k \in 1 .. l
         PROVE  /\ u[k].len > 0
                /\ IF u[k].xmit > 0 THEN u[k].seq + u[k].len <= nxt
                   ELSE u[k].seq >= nxt
    <3>1. CASE k = l
      <4>1. u[k].len = x /\ u[k].seq = s[l].seq /\ u[k].xmit = 0
        BY <3>1, <2>6, <2>7, <2>8
      <4> QED
        BY <4>1, <2>3, <2>5
    <3>2. CASE k # l
      <4>1. u[k] = s[k] /\ k \in 1 .. Len(s)
        BY <3>2, <2>1, <2>7, <2>9
      <4> QED
        BY <4>1 DEF Covers
    <3> QED
      BY <3>1, <3>2
  <2>11. ASSUME NEW k \in 1 .. l - 1 PROVE u[k + 1].seq = u[k].seq + u[k].len
    <3>1. s[k + 1].seq = s[k].seq + s[k].len
      BY <2>9 DEF Covers
    <3>2. u[k] = s[k]
      BY <2>7
    <3>3. u[k + 1].seq = s[k + 1].seq
      <4>1. CASE k + 1 = l
        BY <4>1, <2>6, <2>7
      <4>2. CASE k + 1 # l
        <5>1. k + 1 \in 1 .. l - 1
          BY <4>2, <2>1
        <5> QED
          BY <5>1, <2>7
      <4> QED
        BY <4>1, <4>2
    <3> QED
      BY <3>1, <3>2, <3>3
  <2>12. u[1].seq = una
    <3>1. s[1].seq = una
      BY <2>8, <2>9, <1>0 DEF Covers
    <3>2. CASE l = 1
      BY <3>1, <3>2, <2>6, <2>7
    <3>3. CASE l # 1
      <4>1. 1 \in 1 .. l - 1
        BY <3>3, <2>1
      <4> QED
        BY <4>1, <3>1, <2>7
    <3> QED
      BY <3>2, <3>3
  <2>13. u[l].seq + u[l].len = end + n
    BY <2>5, <2>6, <2>7
  <2>14. Covers(u, una, nxt, end + n)
    <3>1. una <= nxt /\ nxt <= end + n /\ Len(u) # 0
      BY <1>0, <2>7, <2>8, <2>9
    <3> QED
      BY <3>1, <2>7, <2>10, <2>11, <2>12, <2>13 DEF Covers
  <2>15. SegmentsOK(u)
    <3> SUFFICES ASSUME NEW k \in 1 .. l
                 PROVE  (u[k].ctl <=> u[k].seq = 0) /\ (u[k].ctl => u[k].len = 1)
      BY <2>7 DEF SegmentsOK
    <3>1. k \in 1 .. Len(s)
      BY <2>9
    <3>2. (s[k].ctl <=> s[k].seq = 0) /\ (s[k].ctl => s[k].len = 1)
      BY <3>1 DEF SegmentsOK
    <3>3. CASE k = l
      <4>1. ~s[l].ctl
        <5>1. end # 0
          BY <2>2, <2>3
        <5> QED
          BY <5>1, <2>8
      <4> QED
        BY <4>1, <3>2, <3>3, <2>6, <2>7
    <3>4. CASE k # l
      <4>1. u[k] = s[k]
        BY <3>4, <2>1, <2>7
      <4> QED
        BY <4>1, <3>2
    <3> QED
      BY <3>3, <3>4
  <2>16. CutsOf(s, una) \subseteq CutsOf(u, una)
    <3> SUFFICES ASSUME NEW k \in 1 .. Len(s), s[k].xmit > 0
                 PROVE  \E y \in 1 .. Len(u) : /\ u[y].xmit > 0
                            /\ s[k].seq + s[k].len = u[y].seq + u[y].len
      BY <2>7, <2>9 DEF CutsOf
    <3>1. k # l
      BY <2>8
    <3>2. u[k] = s[k] /\ k \in 1 .. Len(u)
      BY <3>1, <2>1, <2>7, <2>9
    <3> QED
      BY <3>2
  <2> QED
    BY <2>7, <2>14, <2>15, <2>16 DEF Keeps
<1>2. CASE ~(Len(s) > 0 /\ s[Len(s)].ctl = ctl /\ s[Len(s)].xmit = 0)
  <2>1. e \in SSegment
    BY DEF SSegment
  <2>2. u = Append(s, e)
    BY <1>2 DEF Queued
  <2>e. e.seq = end /\ e.len = n /\ e.ctl = ctl /\ e.xmit = 0
    OBVIOUS
  <2> HIDE DEF e
  <2>3. u \in Seq(SSegment) /\ Len(u) = Len(s) + 1 /\ u[Len(s) + 1] = e
        /\ \A k \in 1 .. Len(s) : u[k] = s[k]
    BY <2>1, <2>2
  <2>4. ASSUME NEW k \in 1 .. Len(u)
        PROVE  (k \in 1 .. Len(s) /\ u[k] = s[k]) \/ (k = Len(s) + 1 /\ u[k] = e)
    BY <2>3, <1>0
  <2>5. ASSUME NEW k \in 1 .. Len(u)
        PROVE  /\ u[k].len > 0
               /\ IF u[k].xmit > 0 THEN u[k].seq + u[k].len <= nxt
                  ELSE u[k].seq >= nxt
    <3>1. CASE u[k] = e
      <4>1. u[k].len = n /\ u[k].seq = end /\ u[k].xmit = 0
        BY <3>1, <2>e
      <4> QED
        BY <4>1, <1>0
    <3>2. CASE k \in 1 .. Len(s) /\ u[k] = s[k]
      BY <3>2 DEF Covers
    <3> QED
      BY <2>4, <3>1, <3>2
  <2>6. ASSUME NEW k \in 1 .. Len(u) - 1 PROVE u[k + 1].seq = u[k].seq + u[k].len
    <3>1. k \in 1 .. Len(s) /\ u[k] = s[k]
      BY <2>3, <1>0
    <3>2. CASE k = Len(s)
      <4>1. u[k + 1] = e
        BY <3>2, <2>3
      <4>2. s[k].seq + s[k].len = end
        BY <3>1, <3>2 DEF Covers
      <4> QED
        BY <4>1, <4>2, <3>1, <2>e
    <3>3. CASE k # Len(s)
      <4>1. k \in 1 .. Len(s) - 1 /\ k + 1 \in 1 .. Len(s)
        BY <3>1, <3>3, <1>0
      <4>2. s[k + 1].seq = s[k].seq + s[k].len
        BY <4>1 DEF Covers
      <4>3. u[k + 1] = s[k + 1]
        BY <4>1, <2>3
      <4> QED
        BY <4>2, <4>3, <3>1
    <3> QED
      BY <3>2, <3>3
  <2>7. u[1].seq = una
    <3>1. CASE Len(s) = 0
      <4>1. u[1] = e /\ una = end
        BY <3>1, <2>3 DEF Covers
      <4> QED
        BY <4>1, <2>e
    <3>2. CASE Len(s) # 0
      <4>1. u[1] = s[1] /\ s[1].seq = una
        BY <3>2, <2>3, <1>0 DEF Covers
      <4> QED
        BY <4>1
    <3> QED
      BY <3>1, <3>2
  <2>8. u[Len(u)].seq + u[Len(u)].len = end + n
    BY <2>3, <2>e
  <2>9. Covers(u, una, nxt, end + n)
    <3>1. una <= nxt /\ nxt <= end + n /\ Len(u) # 0
      BY <1>0, <2>3
    <3> QED
      BY <3>1, <2>5, <2>6, <2>7, <2>8 DEF Covers
  <2>10. SegmentsOK(u)
    <3> SUFFICES ASSUME NEW k \in 1 .. Len(u)
                 PROVE  (u[k].ctl <=> u[k].seq = 0) /\ (u[k].ctl => u[k].len = 1)
      BY <2>3 DEF SegmentsOK
    <3>1. CASE u[k] = e
      <4>1. u[k].len = n /\ u[k].seq = end /\ u[k].ctl = ctl
        BY <3>1, <2>e
      <4> QED
        BY <4>1
    <3>2. CASE k \in 1 .. Len(s) /\ u[k] = s[k]
      <4>1. \A y \in 1 .. Len(s) : (s[y].ctl <=> s[y].seq = 0) /\ (s[y].ctl => s[y].len = 1)
        BY DEF SegmentsOK
      <4> QED
        BY <3>2, <4>1, Zenon
    <3> QED
      BY <2>4, <3>1, <3>2
  <2>11. CutsOf(s, una) \subseteq CutsOf(u, una)
    <3> SUFFICES ASSUME NEW k \in 1 .. Len(s), s[k].xmit > 0
                 PROVE  \E y \in 1 .. Len(u) : /\ u[y].xmit > 0
                            /\ s[k].seq + s[k].len = u[y].seq + u[y].len
      BY <2>3 DEF CutsOf
    <3>1. u[k] = s[k] /\ k \in 1 .. Len(u)
      BY <2>3, <1>0
    <3> QED
      BY <3>1
  <2> QED
    BY <2>3, <2>9, <2>10, <2>11 DEF Keeps
<1> QED
  BY <1>1, <1>2

(***************************************************************************)
(* Loops: what a fold gives, when its accumulator stays in a set           *)
(***************************************************************************)

\* The one member of a singleton.
LEMMA OnlyOne == \A y : Only({y}) = y
<1>1. \A y : \A z \in {y} : z = y
  OBVIOUS
<1>2. ASSUME NEW y PROVE (CHOOSE z \in {y} : TRUE) = y
  <2>1. LET P(z) == z \in {y} /\ TRUE IN (\E z : P(z)) => P(CHOOSE z : P(z))
    BY Zenon
  <2>2. \E z : z \in {y} /\ TRUE
    OBVIOUS
  <2>3. (CHOOSE z : z \in {y} /\ TRUE) \in {y}
    BY <2>1, <2>2, Zenon
  <2>4. (CHOOSE z \in {y} : TRUE) = (CHOOSE z : z \in {y} /\ TRUE)
    OBVIOUS
  <2> QED
    BY <2>3, <2>4
<1> QED
  BY <1>2, Zenon DEF Only

\* g is a run of n rounds of the loop with body f, from x.
HasRun(V, f, x, n) ==
    \E g \in [0 .. n -> V] : g[0] = x /\ \A k \in 1 .. n : g[k] = f[g[k - 1]]

\* A loop whose body maps V into V has a run of every length.
LEMMA LoopRuns ==
    ASSUME NEW V, NEW f \in [V -> V], NEW x \in V, NEW n \in Nat
    PROVE  HasRun(V, f, x, n)
<1> DEFINE Has(m) == \E g \in [0 .. m -> V] :
                        g[0] = x /\ \A k \in 1 .. m : g[k] = f[g[k - 1]]
           T == {m \in Nat : Has(m)}
<1>1. 0 \in T
  <2> DEFINE g == [i \in 0 .. 0 |-> x]
  <2>1. g \in [0 .. 0 -> V] /\ g[0] = x /\ \A k \in 1 .. 0 : g[k] = f[g[k - 1]]
    OBVIOUS
  <2> QED
    BY <2>1
<1>2. ASSUME NEW m \in T PROVE m + 1 \in T
  <2>0. m \in Nat /\ m + 1 \in Nat
    OBVIOUS
  <2>1. PICK g \in [0 .. m -> V] : g[0] = x /\ \A k \in 1 .. m : g[k] = f[g[k - 1]]
    OBVIOUS
  <2> DEFINE h == [i \in 0 .. m + 1 |-> IF i = m + 1 THEN f[g[m]] ELSE g[i]]
  <2>2. h \in [0 .. m + 1 -> V]
    <3>1. f[g[m]] \in V
      BY <2>0
    <3>2. \A i \in 0 .. m + 1 : i # m + 1 => g[i] \in V
      BY <2>0
    <3> QED
      BY <3>1, <3>2
  <2>3. h[0] = x
    BY <2>0, <2>1
  <2>4. ASSUME NEW k \in 1 .. m + 1 PROVE h[k] = f[h[k - 1]]
    <3>1. CASE k = m + 1
      BY <3>1, <2>0
    <3>2. CASE k # m + 1
      <4>1. k \in 1 .. m /\ k - 1 \in 0 .. m
        BY <3>2, <2>0
      <4>2. h[k] = g[k] /\ h[k - 1] = g[k - 1]
        BY <4>1, <2>0
      <4> QED
        BY <4>1, <4>2, <2>1
    <3> QED
      BY <3>1, <3>2
  <2> HIDE DEF h
  <2>5. Has(m + 1)
    BY <2>2, <2>3, <2>4
  <2> QED
    BY <2>0, <2>5
<1>3. T = Nat
  <2> HIDE DEF T
  <2>1. T \in SUBSET Nat
    BY DEF T
  <2> QED
    BY <1>1, <1>2, <2>1, Induction
<1> QED
  BY <1>3 DEF HasRun

-----------------------------------------------------------------------------

\* A round of the loop that frees bytes, as its body is evaluated.
FreeStep(r) == Only({FreeRound(s) : s \in {r}})

\* One round of the loop that frees what an acknowledgement covers.
LEMMA FreeStepIs == \A r : FreeStep(r) = FreeRound(r)
<1> SUFFICES ASSUME NEW r PROVE FreeStep(r) = FreeRound(r)
  OBVIOUS
<1>1. {FreeRound(s) : s \in {r}} = {FreeRound(r)}
  OBVIOUS
<1> QED
  BY <1>1, OnlyOne DEF FreeStep

\* The run of the loop, given a set that its states stay in.
LEMMA FreeRuns ==
    ASSUME NEW V, \A r \in V : FreeRound(r) \in V,
           NEW s, NEW n, NEW x, x = [slist |-> s, n |-> n], x \in V,
           Len(s) \in Nat
    PROVE  \E g : /\ g[0] = x
                  /\ \A k \in 1 .. Len(s) : g[k] = FreeRound(g[k - 1])
                  /\ Free(s, n) = g[Len(s)].slist
<1> DEFINE N == Len(s)
           f == [r \in V |-> FreeRound(r)]
           P(g) == g = [k \in 0 .. Len(s) |->
                           IF k = 0 THEN [slist |-> s, n |-> n]
                           ELSE FreeStep(g[k - 1])]
<1>1. f \in [V -> V]
  OBVIOUS
<1> HIDE DEF N
<1>0. N \in Nat
  BY DEF N
<1>2. PICK g \in [0 .. N -> V] : g[0] = x /\ \A k \in 1 .. N : g[k] = f[g[k - 1]]
  <2> HIDE DEF f
  <2>1. HasRun(V, f, x, N)
    BY <1>0, <1>1, LoopRuns
  <2> QED
    BY <2>1 DEF HasRun
<1>3. P(g)
  <2> DEFINE h == [k \in 0 .. N |-> IF k = 0 THEN x ELSE FreeStep(g[k - 1])]
  <2>1. ASSUME NEW k \in 0 .. N PROVE g[k] = h[k]
    <3>1. CASE k = 0
      BY <3>1, <1>2
    <3>2. CASE k # 0
      <4>1. k \in 1 .. N /\ k - 1 \in 0 .. N
        BY <3>2, <1>0
      <4>2. g[k] = FreeRound(g[k - 1])
        BY <4>1, <1>2
      <4>3. h[k] = FreeStep(g[k - 1])
        BY <3>2
      <4> QED
        BY <4>2, <4>3, FreeStepIs
    <3> QED
      BY <3>1, <3>2
  <2>2. DOMAIN g = DOMAIN h /\ g = [k \in DOMAIN g |-> g[k]]
    OBVIOUS
  <2>3. h = [k \in DOMAIN h |-> h[k]]
    OBVIOUS
  <2> HIDE DEF h
  <2>4. g = h
    BY <2>1, <2>2, <2>3
  <2> QED
    BY <2>4 DEF h, N
<1> DEFINE a == CHOOSE h : P(h)
<1>4. P(a)
  <2> HIDE DEF a
  <2>1. \E h : P(h)
    BY <1>3, Zenon
  <2>2. LET Q(h) == P(h) IN (\E h : Q(h)) => Q(CHOOSE h : Q(h))
    BY Zenon
  <2> QED
    BY <2>1, <2>2, Zenon DEF a
<1>5. Free(s, n) = a[Len(s)].slist
  BY Zenon DEF Free, FreeStep
<1> HIDE DEF a
<1>6. a[0] = x
  BY <1>0, <1>4 DEF N
<1>7. ASSUME NEW k \in 1 .. N PROVE a[k] = FreeRound(a[k - 1])
  <2>1. k \in 0 .. N /\ k # 0
    BY <1>0
  <2>2. a[k] = FreeStep(a[k - 1])
    BY <2>1, <1>4 DEF N
  <2> QED
    BY <2>2, FreeStepIs
<1> QED
  BY <1>5, <1>6, <1>7 DEF N

LEMMA TwoOrMore == ASSUME NEW n \in Nat, n # 0, n # 1 PROVE n > 1
  OBVIOUS

LEMMA Reorganised ==
    ASSUME NEW a \in Nat, NEW n \in Nat, NEW m \in Nat, NEW l \in Nat,
           m + l = n, NEW e, a + n = e
    PROVE  e - m = a + l
  OBVIOUS

LEMMA AtMostSum ==
    ASSUME NEW a \in Nat, NEW b \in Nat, NEW c \in Nat, a <= b
    PROVE  a <= b + c
  OBVIOUS

\* What freeing the first segment of s leaves, with una2 the first byte of u.
ShorterKeeps(s, u, una, una2, nxt, end) ==
    /\ una2 \in Nat /\ una <= una2 /\ Len(u) = Len(s) - 1
    /\ u \in Seq(SSegment) /\ Covers(u, una2, nxt, end) /\ SegmentsOK(u)
    /\ CutsOf(s, una) \subseteq CutsOf(u, una2)

\* Without its first segment the list covers what is left of the buffer.
LEMMA TailKeeps ==
    ASSUME NEW s \in Seq(SSegment), NEW una \in Nat, NEW nxt \in Nat,
           NEW end \in Nat, Covers(s, una, nxt, end), SegmentsOK(s),
           Len(s) # 0, una + s[1].len <= nxt,
           NEW u, u = Tail(s), NEW una2, una2 = una + s[1].len
    PROVE  ShorterKeeps(s, u, una, una2, nxt, end)
<1>0. Len(s) \in Nat /\ 1 \in 1 .. Len(s) /\ Len(s) \in 1 .. Len(s)
  OBVIOUS
<1>1. /\ s[1].seq \in Nat /\ s[1].len \in Nat /\ s[1].len > 0 /\ s[1].seq = una
      /\ s[Len(s)].seq + s[Len(s)].len = end
  BY <1>0, SegmentType DEF Covers
<1>2. /\ u \in Seq(SSegment) /\ Len(u) = Len(s) - 1 /\ DOMAIN u = 1 .. Len(s) - 1
      /\ \A k \in 1 .. Len(s) - 1 : u[k] = s[k + 1] /\ k + 1 \in 1 .. Len(s)
  BY <1>0
<1>3. una2 \in Nat /\ una <= una2 /\ una2 <= nxt
  BY <1>1
<1>4. \A k \in 1 .. Len(u) :
         /\ u[k].len > 0
         /\ IF u[k].xmit > 0 THEN u[k].seq + u[k].len <= nxt ELSE u[k].seq >= nxt
  BY <1>2 DEF Covers
<1>5. ASSUME NEW k \in 1 .. Len(u) - 1 PROVE u[k + 1].seq = u[k].seq + u[k].len
  <2>1. k \in 1 .. Len(s) - 1 /\ k + 1 \in 1 .. Len(s) - 1
    BY <1>0, <1>2
  <2>2. u[k] = s[k + 1] /\ u[k + 1] = s[(k + 1) + 1]
    BY <2>1, <1>2
  <2>3. s[(k + 1) + 1].seq = s[k + 1].seq + s[k + 1].len
    BY <2>1 DEF Covers
  <2> QED
    BY <2>2, <2>3
<1>6. IF Len(u) = 0 THEN una2 = end
      ELSE u[1].seq = una2 /\ u[Len(u)].seq + u[Len(u)].len = end
  <2>1. CASE Len(s) = 1
    BY <2>1, <1>1, <1>2
  <2>2. CASE Len(s) # 1
    <3>0. Len(s) > 1
      BY <2>2, <1>0, TwoOrMore
    <3>1. 1 \in 1 .. Len(s) - 1 /\ Len(s) - 1 \in 1 .. Len(s) - 1
          /\ (Len(s) - 1) + 1 = Len(s) /\ 1 + 1 = 2
      <4>1. 1 \in 1 .. Len(s) - 1
        BY <3>0, <1>0
      <4>2. Len(s) - 1 \in 1 .. Len(s) - 1
        BY <3>0, <1>0
      <4>3. (Len(s) - 1) + 1 = Len(s) /\ 1 + 1 = 2
        BY <1>0
      <4> QED
        BY <4>1, <4>2, <4>3
    <3>2. u[1] = s[2] /\ u[Len(s) - 1] = s[Len(s)]
      BY <3>1, <1>2
    <3>3. s[1 + 1].seq = s[1].seq + s[1].len
      BY <3>1 DEF Covers
    <3> QED
      BY <3>1, <3>2, <3>3, <1>1, <1>2
  <2> QED
    BY <2>1, <2>2
<1>7. Covers(u, una2, nxt, end)
  <2>1. nxt <= end
    BY DEF Covers
  <2> QED
    BY <2>1, <1>3, <1>4, <1>5, <1>6 DEF Covers
<1>8. SegmentsOK(u)
  BY <1>0, <1>2 DEF SegmentsOK
<1>9. ASSUME NEW c \in CutsOf(s, una) PROVE c \in CutsOf(u, una2)
  <2>1. CASE c \in 0 .. una
    BY <2>1, <1>3 DEF CutsOf
  <2>2. CASE c \notin 0 .. una
    <3>1. PICK i \in 1 .. Len(s) : s[i].xmit > 0 /\ c = s[i].seq + s[i].len
      BY <2>2 DEF CutsOf
    <3>2. CASE i = 1
      BY <3>1, <3>2, <1>1, <1>3 DEF CutsOf
    <3>3. CASE i # 1
      <4>1. i - 1 \in 1 .. Len(s) - 1 /\ (i - 1) + 1 = i
        BY <3>3, <1>0
      <4>2. u[i - 1] = s[i]
        BY <4>1, <1>2
      <4>3. i - 1 \in DOMAIN u /\ u[i - 1].xmit > 0
            /\ c = u[i - 1].seq + u[i - 1].len
        BY <4>1, <4>2, <3>1, <1>2
      <4> QED
        BY <4>3 DEF CutsOf
    <3> QED
      BY <3>2, <3>3
  <2> QED
    BY <2>1, <2>2
<1> QED
  BY <1>2, <1>3, <1>7, <1>8, <1>9 DEF ShorterKeeps

\* r is what is left of s, which began at una, on the way to freeing up to ack.
FreeOK(r, s, una, nxt, end, ack) ==
    /\ r.n <= ack
    /\ Covers(r.slist, ack - r.n, nxt, end) /\ SegmentsOK(r.slist)
    /\ CutsOf(s, una) \subseteq CutsOf(r.slist, ack - r.n)

FreeType == [slist : Seq(SSegment), n : Nat]

\* A round of that loop keeps the list covering the rest.
LEMMA FreeRoundKeeps ==
    ASSUME NEW s, NEW una \in Nat, NEW nxt \in Nat, NEW end \in Nat, NEW ack \in Nat,
           ack <= nxt, ack \in CutsOf(s, una),
           NEW r \in FreeType, FreeOK(r, s, una, nxt, end, ack)
    PROVE  /\ FreeRound(r) \in FreeType
           /\ FreeOK(FreeRound(r), s, una, nxt, end, ack)
           /\ \/ r.n = 0 /\ FreeRound(r) = r
              \/ r.slist = <<>> /\ FreeRound(r) = r
              \/ Len(FreeRound(r).slist) = Len(r.slist) - 1
<1>1. CASE r.n = 0 \/ r.slist = <<>>
  BY <1>1 DEF FreeRound
<1>2. CASE ~(r.n = 0 \/ r.slist = <<>>)
  <2> DEFINE c == r.slist
             a == ack - r.n
  <2>0. c \in Seq(SSegment) /\ Len(c) \in Nat /\ Len(c) # 0 /\ 1 \in 1 .. Len(c)
        /\ r.n \in Nat /\ r.n > 0 /\ a \in Nat /\ a + r.n = ack
    BY <1>2 DEF FreeType, FreeOK
  <2>1. Covers(c, a, nxt, end) /\ SegmentsOK(c) /\ ack \in CutsOf(c, a)
        /\ CutsOf(s, una) \subseteq CutsOf(c, a)
    BY DEF FreeOK
  <2> HIDE DEF a
  <2>2. PICK i \in 1 .. Len(c) : ack = c[i].seq + c[i].len
    BY <2>0, <2>1 DEF CutsOf
  <2>3. c[1].seq = a /\ c[1].len \in Nat /\ c[1].len > 0
        /\ c[i].seq \in Nat /\ c[i].len \in Nat /\ c[i].len > 0
    BY <2>0, <2>1, SegmentType DEF Covers
  <2>4. r.n >= c[1].len
    <3>1. CASE i = 1
      BY <3>1, <2>0, <2>2, <2>3, SMTT(40)
    <3>2. CASE i # 1
      <4>1. c[1].seq + c[1].len <= c[i].seq
        BY <3>2, <2>0, <2>1, CoversChain, ChainSorted, SMT
      <4>2. a + c[1].len <= ack
        <5>1. a + c[1].len <= c[i].seq /\ a + c[1].len \in Nat
          BY <4>1, <2>0, <2>3, SMTT(40)
        <5> QED
          BY <5>1, <2>2, <2>3, AtMostSum
      <4>3. a + c[1].len <= a + r.n
        BY <4>2, <2>0
      <4> QED
        BY <4>3, <2>0, <2>3, SMTT(40)
    <3> QED
      BY <3>1, <3>2
  <2> DEFINE m == r.n - c[1].len
             b == ack - m
  <2>m. m \in Nat /\ m <= r.n /\ m + c[1].len = r.n
    BY <2>0, <2>3, <2>4, SMTT(40)
  <2> HIDE DEF m
  <2>5. b = a + c[1].len /\ b <= nxt /\ m <= ack
    <3>1. b = a + c[1].len
      <4> DEFINE x == c[1].len
                 n == r.n
      <4>1. x \in Nat /\ n \in Nat /\ a \in Nat /\ m \in Nat
        BY <2>0, <2>3, <2>m
      <4>2. m + x = n /\ a + n = ack
        BY <2>0, <2>m
      <4> HIDE DEF x, n
      <4>3. ack - m = a + x
        BY <4>1, <4>2, Reorganised
      <4> QED
        BY <4>3 DEF b, x
    <3>2. b <= nxt
      BY <2>m
    <3>3. r.n <= ack
      BY <2>0
    <3>4. m <= ack
      BY <2>0, <2>m, <3>3
    <3> QED
      BY <3>1, <3>2, <3>4
  <2>6. FreeRound(r) = [slist |-> Tail(c), n |-> m]
    <3>1. ~(r.n < r.slist[1].len)
      BY <2>0, <2>3, <2>4, SMTT(40)
    <3> QED
      BY <3>1, <1>2 DEF FreeRound, m
  <2> HIDE DEF b
  <2>7. /\ Len(Tail(c)) = Len(c) - 1
        /\ Tail(c) \in Seq(SSegment) /\ Covers(Tail(c), b, nxt, end)
        /\ SegmentsOK(Tail(c))
        /\ CutsOf(c, a) \subseteq CutsOf(Tail(c), b)
    <3>1. a + c[1].len <= nxt
      BY <2>5
    <3>2. b = a + c[1].len
      BY <2>5
    <3> DEFINE d == Tail(c)
    <3> HIDE DEF d
    <3>3. /\ Len(d) = Len(c) - 1 /\ d \in Seq(SSegment)
          /\ Covers(d, b, nxt, end) /\ SegmentsOK(d)
          /\ CutsOf(c, a) \subseteq CutsOf(d, b)
      <4>1. ShorterKeeps(c, d, a, b, nxt, end)
        BY <2>0, <2>1, <3>1, <3>2, TailKeeps DEF d
      <4> QED
        BY <4>1 DEF ShorterKeeps
    <3> QED
      BY <3>3 DEF d
  <2>8. FreeRound(r) \in FreeType
    BY <2>m, <2>6, <2>7 DEF FreeType
  <2>9. FreeRound(r).slist = Tail(c) /\ FreeRound(r).n = m
    BY <2>6
  <2>10. FreeOK(FreeRound(r), s, una, nxt, end, ack)
    BY <2>1, <2>5, <2>7, <2>9 DEF FreeOK, b
  <2> QED
    BY <2>7, <2>8, <2>9, <2>10
<1> QED
  BY <1>1, <1>2

\* Acknowledged up to a cut, the send list begins there.
LEMMA FreeFacts ==
    ASSUME NEW s \in Seq(SSegment), NEW una \in Nat, NEW nxt \in Nat,
           NEW end \in Nat, Covers(s, una, nxt, end), SegmentsOK(s),
           NEW ack \in Nat, una <= ack, ack <= nxt, ack \in CutsOf(s, una),
           NEW u, u = Free(s, ack - una)
    PROVE  /\ u \in Seq(SSegment) /\ Covers(u, ack, nxt, end) /\ SegmentsOK(u)
           /\ CutsOf(s, una) \subseteq CutsOf(u, ack)
<1> DEFINE V == {r \in FreeType : FreeOK(r, s, una, nxt, end, ack)}
           n == ack - una
           x == [slist |-> s, n |-> n]
           N == Len(s)
<1>0. N \in Nat /\ n \in Nat /\ n <= ack /\ ack - n = una
  OBVIOUS
<1> HIDE DEF n
<1>1. x \in V
  BY <1>0 DEF FreeOK, FreeType
<1>2. \A r \in V : FreeRound(r) \in V
  BY FreeRoundKeeps
<1>3. \E g : /\ g[0] = x
             /\ \A k \in 1 .. Len(s) : g[k] = FreeRound(g[k - 1])
             /\ Free(s, n) = g[Len(s)].slist
  <2> HIDE DEF V
  <2> QED
    BY <1>0, <1>1, <1>2, FreeRuns
<1>4. PICK g : /\ g[0] = x
               /\ \A k \in 1 .. Len(s) : g[k] = FreeRound(g[k - 1])
               /\ Free(s, n) = g[Len(s)].slist
  BY <1>3
<1> DEFINE Done(r) == r.n = 0 \/ r.slist = <<>>
           T == {k \in Nat : k <= N =>
                    g[k] \in V /\ (Done(g[k]) \/ Len(g[k].slist) = N - k)}
<1> HIDE DEF x, N
<1>5. 0 \in T
  BY <1>0, <1>1, <1>4 DEF x, N
<1>6. ASSUME NEW k \in T PROVE k + 1 \in T
  <2>1. CASE k + 1 <= N
    <3>1. k \in Nat /\ k + 1 \in 1 .. N /\ (k + 1) - 1 = k /\ k <= N
      BY <2>1, <1>0, SMTT(40)
    <3>2. g[k] \in V /\ (Done(g[k]) \/ Len(g[k].slist) = N - k)
      BY <3>1
    <3>3. g[k + 1] = FreeRound(g[k])
      BY <3>1, <1>4 DEF N
    <3>4. g[k + 1] \in V
      BY <1>2, <3>2, <3>3
    <3>5. \/ Done(g[k]) /\ FreeRound(g[k]) = g[k]
          \/ Len(FreeRound(g[k]).slist) = Len(g[k].slist) - 1
      BY <3>2, FreeRoundKeeps
    <3>6. Done(g[k + 1]) \/ Len(g[k + 1].slist) = N - (k + 1)
      <4>1. CASE Done(g[k]) /\ FreeRound(g[k]) = g[k]
        BY <4>1, <3>3
      <4>2. CASE Len(FreeRound(g[k]).slist) = Len(g[k].slist) - 1
        <5>1. CASE Done(g[k])
          BY <5>1, <3>3 DEF FreeRound
        <5>2. CASE ~Done(g[k])
          <6>1. Len(g[k].slist) = N - k
            BY <5>2, <3>2
          <6>2. Len(g[k + 1].slist) = (N - k) - 1
            BY <4>2, <6>1, <3>3
          <6>3. (N - k) - 1 = N - (k + 1)
            BY <3>1, <1>0
          <6> QED
            BY <6>2, <6>3
        <5> QED
          BY <5>1, <5>2
      <4> QED
        BY <3>5, <4>1, <4>2
    <3> HIDE DEF V, Done
    <3> QED
      BY <3>1, <3>4, <3>6
  <2>2. CASE ~(k + 1 <= N)
    BY <2>2
  <2> QED
    BY <2>1, <2>2
<1>7. T = Nat
  <2> HIDE DEF T
  <2>1. T \in SUBSET Nat
    BY DEF T
  <2> QED
    BY <1>5, <1>6, <2>1, Induction
<1>8. g[N] \in V /\ (Done(g[N]) \/ Len(g[N].slist) = N - N)
  <2> HIDE DEF V, Done
  <2>1. N \in T
    BY <1>7, <1>0
  <2> QED
    BY <2>1, <1>0
<1>9. u = g[N].slist
  BY <1>4 DEF N, n
<1>10. u \in Seq(SSegment) /\ g[N].n \in Nat
       /\ FreeOK(g[N], s, una, nxt, end, ack)
  BY <1>8, <1>9 DEF FreeType
<1>11. g[N].n = 0
  <2>1. CASE g[N].n = 0
    BY <2>1
  <2>2. CASE Len(u) = 0
    <3>1. Covers(u, ack - g[N].n, nxt, end)
      BY <1>9, <1>10 DEF FreeOK
    <3>2. ack - g[N].n = end /\ nxt <= end
      BY <2>2, <3>1 DEF Covers
    <3> QED
      BY <3>2, <1>10, SMT
  <2>3. g[N].slist = <<>> => Len(u) = 0
    BY <1>9
  <2> QED
    BY <2>1, <2>2, <2>3, <1>0, <1>8, <1>9
<1>12. ack - 0 = ack
  OBVIOUS
<1> QED
  BY <1>9, <1>10, <1>11, <1>12 DEF FreeOK

(***************************************************************************)
(* The receive list: what the stored segments reach                        *)
(***************************************************************************)

LEMMA RSegmentType ==
    ASSUME NEW s \in Seq(RSegment), NEW i \in DOMAIN s
    PROVE  s[i].seq \in Nat /\ s[i].len \in Nat /\ s[i] \in RSegment
<1>1. s[i] \in RSegment
  OBVIOUS
<1> QED
  BY <1>1 DEF RSegment

LEMMA TailFacts ==
    ASSUME NEW S, NEW s \in Seq(S), s # <<>>, NEW u, u = Tail(s)
    PROVE  /\ u \in Seq(S)
           /\ \A k \in DOMAIN u : k + 1 \in DOMAIN s /\ u[k] = s[k + 1]
  OBVIOUS

LEMMA UpperIs ==
    ASSUME NEW a \in Int, NEW b \in Int
    PROVE  Upper(a, b) >= a /\ Upper(a, b) >= b /\ Upper(a, b) \in {a, b}
  BY DEF Upper

LEMMA LowerIs ==
    ASSUME NEW a \in Int, NEW b \in Int
    PROVE  Lower(a, b) <= a /\ Lower(a, b) <= b /\ Lower(a, b) \in {a, b}
  BY DEF Lower

\* The stored segment at i holds position p.
Holds(rlist, i, p) == p \in rlist[i].seq .. rlist[i].seq + rlist[i].len - 1

\* r says where the stream that ended at nxt ends with stored segments counted.
ReachOK(r, rlist, nxt) ==
    /\ nxt <= r.nxt
    /\ r.nxt = nxt \/ \E i \in DOMAIN rlist : r.nxt = rlist[i].seq + rlist[i].len
    /\ \A p \in nxt .. r.nxt - 1 : \E i \in DOMAIN rlist : Holds(rlist, i, p)
    /\ \A k \in DOMAIN r.rlist : \E i \in DOMAIN rlist : r.rlist[k] = rlist[i]

ReachType == [rlist : Seq(RSegment), nxt : Nat]

\* Absorbing a stored segment moves rcv_nxt to its end, or not at all.
LEMMA AbsorbKeeps ==
    ASSUME NEW rlist \in Seq(RSegment), NEW nxt \in Nat,
           NEW r \in ReachType, ReachOK(r, rlist, nxt)
    PROVE  Absorb(r) \in ReachType /\ ReachOK(Absorb(r), rlist, nxt)
<1>1. CASE r.rlist = <<>> \/ r.rlist[1].seq > r.nxt
  BY <1>1 DEF Absorb
<1>2. CASE ~(r.rlist = <<>> \/ r.rlist[1].seq > r.nxt)
  <2> DEFINE h == r.rlist[1]
             e == h.seq + h.len
             x == Upper(r.nxt, e)
             q == Tail(r.rlist)
             n == r.nxt
  <2>1. r.rlist \in Seq(RSegment) /\ r.rlist # <<>> /\ r.nxt \in Nat
        /\ 1 \in DOMAIN r.rlist
    BY <1>2 DEF ReachType
  <2>2. h.seq \in Nat /\ h.len \in Nat /\ e \in Nat
    BY <2>1, RSegmentType, SMT
  <2>3. h.seq <= n
    BY <1>2, <2>1, <2>2, SMT
  <2>4. PICK i \in DOMAIN rlist : h = rlist[i]
    BY <2>1 DEF ReachOK
  <2> HIDE DEF h
  <2>5. Absorb(r) = [rlist |-> q, nxt |-> x]
    BY <1>2 DEF Absorb, h
  <2>6. x \in Nat /\ x >= n /\ (x = n \/ x = e)
    <3> HIDE DEF e, n
    <3>1. e \in Int /\ n \in Int /\ e \in Nat /\ n \in Nat
      BY <2>1, <2>2 DEF n
    <3>2. x >= n /\ x \in {n, e}
      BY <3>1, UpperIs DEF n
    <3> QED
      BY <3>1, <3>2
  <2>7. q \in Seq(RSegment)
        /\ \A k \in DOMAIN q : k + 1 \in DOMAIN r.rlist /\ q[k] = r.rlist[k + 1]
    BY <2>1, TailFacts
  <2> HIDE DEF q, x
  <2>8. Absorb(r) \in ReachType
    BY <2>5, <2>6, <2>7 DEF ReachType
  <2>9. Absorb(r).rlist = q /\ Absorb(r).nxt = x
    BY <2>5
  <2>10. x = nxt \/ \E j \in DOMAIN rlist : x = rlist[j].seq + rlist[j].len
    BY <2>4, <2>6 DEF ReachOK
  <2>11. nxt <= x
    BY <2>1, <2>6 DEF ReachOK
  <2>12. ASSUME NEW p \in nxt .. x - 1
         PROVE  \E j \in DOMAIN rlist : Holds(rlist, j, p)
    <3>0. p \in Int /\ p <= x - 1 /\ nxt <= p
      BY <2>6
    <3>1. CASE p < n
      <4>1. p \in nxt .. n - 1
        BY <3>0, <3>1, <2>1
      <4> QED
        BY <4>1 DEF ReachOK
    <3>2. CASE ~(p < n)
      <4>1. p >= n
        BY <3>0, <3>2, <2>1
      <4>2. x = e
        BY <3>0, <4>1, <2>1, <2>6
      <4>3. p \in h.seq .. e - 1
        <5>1. h.seq <= p
          BY <2>1, <2>2, <2>3, <3>0, <4>1 DEF n
        <5> QED
          <6>1. p \in Int /\ p <= e - 1
            BY <4>2, <3>0
          <6> HIDE DEF e
          <6> QED
            BY <5>1, <6>1, <2>2
      <4>4. Holds(rlist, i, p)
        <5>1. p \in h.seq .. h.seq + h.len - 1
          BY <4>3, <2>2, SMT
        <5>2. h.seq = rlist[i].seq /\ h.len = rlist[i].len
          BY <2>4
        <5>3. p \in rlist[i].seq .. rlist[i].seq + rlist[i].len - 1
          BY <5>1, <5>2
        <5> QED
          BY <5>3 DEF Holds
      <4> QED
        BY <4>4
    <3> QED
      BY <3>1, <3>2
  <2>13. ASSUME NEW k \in DOMAIN q
         PROVE  \E j \in DOMAIN rlist : q[k] = rlist[j]
    BY <2>7 DEF ReachOK
  <2> QED
    BY <2>8, <2>9, <2>10, <2>11, <2>12, <2>13 DEF ReachOK
<1> QED
  BY <1>1, <1>2

ReachStep(r) == Only({Absorb(s) : s \in {r}})

\* One round of the loop over the stored segments.
LEMMA ReachStepIs == \A r : ReachStep(r) = Absorb(r)
<1> SUFFICES ASSUME NEW r PROVE ReachStep(r) = Absorb(r)
  OBVIOUS
<1>1. {Absorb(s) : s \in {r}} = {Absorb(r)}
  OBVIOUS
<1> QED
  BY <1>1, OnlyOne DEF ReachStep

\* The loop over the stored segments, given a set that its states stay in.
LEMMA ReachRuns ==
    ASSUME NEW V, \A r \in V : Absorb(r) \in V,
           NEW s, NEW n, NEW x, x = [rlist |-> s, nxt |-> n], x \in V,
           Len(s) \in Nat
    PROVE  Reach(s, n) \in V
<1> DEFINE N == Len(s)
           f == [r \in V |-> Absorb(r)]
           P(g) == g = [k \in 0 .. Len(s) |->
                           IF k = 0 THEN [rlist |-> s, nxt |-> n]
                           ELSE ReachStep(g[k - 1])]
<1>1. f \in [V -> V]
  OBVIOUS
<1> HIDE DEF N
<1>0. N \in Nat
  BY DEF N
<1>2. PICK g \in [0 .. N -> V] : g[0] = x /\ \A k \in 1 .. N : g[k] = f[g[k - 1]]
  <2> HIDE DEF f
  <2>1. HasRun(V, f, x, N)
    BY <1>0, <1>1, LoopRuns
  <2> QED
    BY <2>1 DEF HasRun
<1>3. P(g)
  <2> DEFINE h == [k \in 0 .. N |-> IF k = 0 THEN x ELSE ReachStep(g[k - 1])]
  <2>1. ASSUME NEW k \in 0 .. N PROVE g[k] = h[k]
    <3>1. CASE k = 0
      BY <3>1, <1>2
    <3>2. CASE k # 0
      <4>1. k \in 1 .. N /\ k - 1 \in 0 .. N
        BY <3>2, <1>0
      <4>2. g[k] = Absorb(g[k - 1])
        BY <4>1, <1>2
      <4>3. h[k] = ReachStep(g[k - 1])
        BY <3>2
      <4> QED
        BY <4>2, <4>3, ReachStepIs
    <3> QED
      BY <3>1, <3>2
  <2>2. DOMAIN g = DOMAIN h /\ g = [k \in DOMAIN g |-> g[k]]
    OBVIOUS
  <2>3. h = [k \in DOMAIN h |-> h[k]]
    OBVIOUS
  <2> HIDE DEF h
  <2>4. g = h
    BY <2>1, <2>2, <2>3
  <2> QED
    BY <2>4 DEF h, N
<1> DEFINE a == CHOOSE h : P(h)
<1>4. P(a)
  <2> HIDE DEF a
  <2>1. \E h : P(h)
    BY <1>3, Zenon
  <2>2. LET Q(h) == P(h) IN (\E h : Q(h)) => Q(CHOOSE h : Q(h))
    BY Zenon
  <2> QED
    BY <2>1, <2>2, Zenon DEF a
<1>5. Reach(s, n) = a[Len(s)]
  BY Zenon DEF Reach, ReachStep
<1> HIDE DEF a
<1> DEFINE T == {k \in Nat : k <= N => a[k] \in V}
<1>6. 0 \in T
  BY <1>0, <1>4 DEF N
<1>7. ASSUME NEW k \in T PROVE k + 1 \in T
  <2>1. CASE k + 1 <= N
    <3>1. k + 1 \in 0 .. N /\ k + 1 # 0 /\ k \in Nat /\ (k + 1) - 1 = k /\ k <= N
      BY <2>1, <1>0
    <3>2. a[k] \in V
      BY <3>1
    <3>3. a[k + 1] = ReachStep(a[k])
      BY <3>1, <1>4 DEF N
    <3>4. a[k + 1] \in V
      BY <3>2, <3>3, ReachStepIs
    <3> QED
      BY <3>1, <3>4
  <2>2. CASE ~(k + 1 <= N)
    BY <2>2
  <2> QED
    BY <2>1, <2>2
<1>8. T = Nat
  <2> HIDE DEF T
  <2>1. T \in SUBSET Nat
    BY DEF T
  <2> QED
    BY <1>6, <1>7, <2>1, Induction
<1> QED
  BY <1>0, <1>5, <1>8 DEF N

\* Where that loop ends: rcv_nxt, or the end of some stored segment.
LEMMA ReachFacts ==
    ASSUME NEW rlist \in Seq(RSegment), NEW nxt \in Nat
    PROVE  Reach(rlist, nxt) \in ReachType /\ ReachOK(Reach(rlist, nxt), rlist, nxt)
<1> DEFINE V == {r \in ReachType : ReachOK(r, rlist, nxt)}
           x == [rlist |-> rlist, nxt |-> nxt]
<1>0. Len(rlist) \in Nat
  OBVIOUS
<1>1. x \in V
  BY DEF ReachType, ReachOK
<1>2. \A r \in V : Absorb(r) \in V
  BY AbsorbKeeps
<1>3. Reach(rlist, nxt) \in V
  <2> HIDE DEF V
  <2> QED
    BY <1>0, <1>1, <1>2, ReachRuns
<1> QED
  BY <1>3

(***************************************************************************)
(* The part of the invariant that one object answers for                   *)
(***************************************************************************)

\* The right edge of what the object can receive.
Edge(t) == t.rcv_nxt + t.rcv_wnd

\* The joints of the send list of t.
Cuts(t) == CutsOf(t.slist, t.snd_una)

\* The send buffer holds the bytes snd_una onwards and the send list covers it;
\* the retransmission timer runs exactly while something is not acknowledged.
SenderOK(t) ==
    /\ Covers(t.slist, t.snd_una, t.snd_nxt, t.snd_una + Len(t.sbuf))
    /\ SegmentsOK(t.slist)
    /\ \A i \in DOMAIN t.sbuf : t.sbuf[i] = t.snd_una + (i - 1)
    /\ t.rto <=> t.snd_una # t.snd_nxt
    /\ t.recover <= t.snd_nxt
    /\ t.state = "LISTEN" => t.snd_una + Len(t.sbuf) = 0
    /\ Len(t.sbuf) <= SndBuf
    /\ t.swnd_unit \in {1, Unit}

\* Nothing is sent, and no window believed, beyond the edge of the peer.
WindowOK(t, edge, nxt) ==
    /\ t.snd_nxt <= edge
    /\ t.snd_una + t.snd_wnd <= edge
    /\ t.snd_una <= nxt

\* A segment of the receive list has its bytes in place.
StoredOK(t) ==
    \A i \in DOMAIN t.rlist :
        \A p \in t.rlist[i].seq .. t.rlist[i].seq + t.rlist[i].len - 1 :
            p >= t.rcv_nxt => /\ p - t.rcv_nxt + 1 \in DOMAIN t.ahead
                              /\ t.ahead[p - t.rcv_nxt + 1] = p

\* What waits for the application are the bytes before rcv_nxt.
ReceivedOK(t) ==
    /\ \A i \in DOMAIN t.rbuf : t.rbuf[i] = (t.rcv_nxt - Len(t.rbuf)) + (i - 1)
    /\ StoredOK(t)
    /\ t.rcv_nxt = 0 => t.rlist = <<>>

\* rcv_nxt and the ends of stored segments are cuts of the peer; the window fits
\* the room; OnTcpReadable is owed only while there is nothing to read.
ReceiverOK(t, cuts, given) ==
    /\ t.rcv_nxt \in cuts
    /\ t.rcv_wnd <= RcvBuf - Len(t.rbuf)
    /\ 1 <= Edge(t)
    /\ \A i \in DOMAIN t.rlist : t.rlist[i].seq + t.rlist[i].len \in cuts
    /\ t.readEnable => t.rbuf = <<>>
    /\ t.shutdown = "NONE" =>
          given + Len(t.rbuf) = IF t.rcv_nxt = 0 THEN 0 ELSE t.rcv_nxt - 1
    /\ ~HandshakeFaults /\ t.shutdown = "NONE" => ReceivedOK(t)

\* A packet with data carries the bytes of its numbers.
DataOK(p) ==
    IF p.data = <<>> THEN ~p.ctl
    ELSE /\ p.seq \in Nat
         /\ p.ctl <=> p.seq = 0
         /\ p.ctl => Len(p.data) = 1
         /\ \A i \in DOMAIN p.data : p.data[i] = p.seq + (i - 1)

\* What a packet from t says is true: its data ends at a cut, its news holds.
PacketOK(p, t, cuts) ==
    /\ DataOK(p)
    /\ p.data # <<>> => p.seq + Len(p.data) \in Cuts(t)
    /\ p.ack \in cuts /\ p.ack <= t.rcv_nxt
    /\ p.ack + p.wnd * Unit <= Edge(t)
    /\ p.unit = Unit

\* Number 0 is the connect message; byte n of the application is number n.
WrittenOK(t, w) ==
    /\ IF t.snd_una + Len(t.sbuf) = 0 THEN w = 0
       ELSE t.snd_una + Len(t.sbuf) = w + 1
    /\ t.state \notin {"LISTEN", "CLOSED"} => t.snd_una + Len(t.sbuf) > 0

\* Data that is not the connect message.
Late(m) == m.data # <<>> /\ ~m.ctl

\* What a call on one object knows of the rest: what the peer may have been
\* acknowledged (cuts), its right edge and what it has received (edge, nxt), the
\* bytes read and written by the application (given, taken), and what the
\* object had sent before (sent).
Context == [cuts : SUBSET Nat, edge : Nat \ {0}, nxt : Nat, given : Nat, taken : Nat,
            sent : Nat]

\* The first data of a connection goes out behind the connect message.
Opens(t, sent) ==
    sent = 0 =>
        IF t.snd_nxt = 0 THEN \A j \in DOMAIN t.out : ~Late(t.out[j])
        ELSE \E i \in DOMAIN t.out :
                /\ t.out[i].ctl
                /\ \A j \in DOMAIN t.out : Late(t.out[j]) => i < j

\* The packets that the call has sent so far.
OutOK(t, cuts) == \A i \in DOMAIN t.out : PacketOK(t.out[i], t, cuts)

\* The part of the invariant that one object answers for.
Sound(t, c) ==
    /\ t \in Tcb
    /\ SenderOK(t)
    /\ WindowOK(t, c.edge, c.nxt)
    /\ ReceiverOK(t, c.cuts, c.given)
    /\ WrittenOK(t, c.taken)
    /\ OutOK(t, c.cuts)
    /\ Opens(t, c.sent)
    /\ \A x \in c.cuts : x <= Edge(t)

\* What never shrinks.
Grows(t, u) ==
    /\ Cuts(t) \subseteq Cuts(u)
    /\ t.rcv_nxt <= u.rcv_nxt /\ Edge(t) <= Edge(u)

\* A connection opens or closes, and does nothing else.
StateMoves(t, u) ==
    \/ u.state = t.state
    \/ u.state = "CLOSED"
    \/ t.state \in {"SYN_SENT", "SYN_RECEIVED"} /\ u.state = "ESTABLISHED"

\* The receiving side does not change.
SameReceiver(t, u) ==
    /\ u.rcv_nxt = t.rcv_nxt /\ u.rcv_wnd = t.rcv_wnd /\ u.rbuf = t.rbuf
    /\ u.ahead = t.ahead /\ u.rlist = t.rlist /\ u.readEnable = t.readEnable
    /\ u.shutdown = t.shutdown \/ u.shutdown # "NONE"

\* The sending side does not change, congestion control aside.
SameSender(t, u) ==
    /\ u.slist = t.slist /\ u.sbuf = t.sbuf /\ u.snd_una = t.snd_una
    /\ u.snd_nxt = t.snd_nxt /\ u.snd_wnd = t.snd_wnd /\ u.rto = t.rto
    /\ u.recover \in {t.recover, t.snd_nxt}
    /\ u.swnd_unit \in {t.swnd_unit, Unit}
    /\ StateMoves(t, u)

\* A change of what the invariant does not speak of.
Quiet(t, u) == u \in Tcb /\ SameSender(t, u) /\ SameReceiver(t, u) /\ u.out = t.out

\* The types of the fields, for the arithmetic below.
LEMMA TcbType ==
    ASSUME NEW t \in Tcb
    PROVE  /\ t.slist \in Seq(SSegment) /\ t.sbuf \in Seq(Nat)
           /\ t.snd_una \in Nat /\ t.snd_nxt \in Nat /\ t.snd_wnd \in Nat
           /\ t.rcv_nxt \in Nat /\ t.rcv_wnd \in Nat
           /\ t.rbuf \in Seq(Nat) /\ t.ahead \in Seq(Nat) /\ t.rlist \in Seq(RSegment)
           /\ t.out \in Seq(Packet)
           /\ t.mss \in Nat /\ t.mss > 0 /\ t.cwnd \in Nat /\ t.cwnd > 0
           /\ t.ssthresh \in Nat /\ t.ssthresh > 0 /\ t.dup_acks \in Nat
           /\ t.recover \in Nat /\ t.told \in Nat /\ t.swnd_unit \in Nat
           /\ t.msslevel \in DOMAIN Levels
           /\ t.mtu_advise \in Nat /\ t.mtu_advise > 0
           /\ Len(t.sbuf) \in Nat /\ Len(t.slist) \in Nat /\ Len(t.rbuf) \in Nat
           /\ Len(t.rlist) \in Nat
<1>1. /\ t.slist \in Seq(SSegment) /\ t.sbuf \in Seq(Nat)
      /\ t.snd_una \in Nat /\ t.snd_nxt \in Nat /\ t.snd_wnd \in Nat
      /\ t.rcv_nxt \in Nat /\ t.rcv_wnd \in Nat
      /\ t.rbuf \in Seq(Nat) /\ t.ahead \in Seq(Nat) /\ t.rlist \in Seq(RSegment)
      /\ t.out \in Seq(Packet)
  BY DEF Tcb
<1>2. /\ t.mss \in Nat \ {0} /\ t.cwnd \in Nat \ {0}
      /\ t.ssthresh \in Nat \ {0} /\ t.dup_acks \in Nat
      /\ t.recover \in Nat /\ t.told \in Nat /\ t.swnd_unit \in Nat
      /\ t.msslevel \in DOMAIN Levels
      /\ t.mtu_advise \in Nat \ {0}
  BY DEF Tcb
<1>3. /\ Len(t.sbuf) \in Nat /\ Len(t.slist) \in Nat /\ Len(t.rbuf) \in Nat
      /\ Len(t.rlist) \in Nat
  BY <1>1, SMTT(40)
<1>4. \A n \in Nat \ {0} : n \in Nat /\ n > 0
  OBVIOUS
<1>5. /\ t.mss \in Nat /\ t.mss > 0 /\ t.cwnd \in Nat /\ t.cwnd > 0
      /\ t.ssthresh \in Nat /\ t.ssthresh > 0
      /\ t.mtu_advise \in Nat /\ t.mtu_advise > 0
  BY <1>2, <1>4
<1> QED
  BY <1>1, <1>2, <1>3, <1>5

LEMMA SameSenderKeeps ==
    ASSUME NEW t \in Tcb, NEW u, SenderOK(t), SameSender(t, u)
    PROVE  SenderOK(u)
  BY TcbType DEF SenderOK, SameSender, StateMoves

LEMMA SameSenderWindow ==
    ASSUME NEW t, NEW u, NEW edge, NEW nxt, WindowOK(t, edge, nxt), SameSender(t, u)
    PROVE  WindowOK(u, edge, nxt)
  BY DEF WindowOK, SameSender

LEMMA SameSenderWritten ==
    ASSUME NEW t, NEW u, NEW w, WrittenOK(t, w), SameSender(t, u)
    PROVE  WrittenOK(u, w)
  BY DEF WrittenOK, SameSender, StateMoves

LEMMA SameReceiverKeeps ==
    ASSUME NEW t, NEW u, NEW cuts, NEW given, ReceiverOK(t, cuts, given),
           SameReceiver(t, u)
    PROVE  ReceiverOK(u, cuts, given) /\ Edge(u) = Edge(t)
<1>1. ReceivedOK(t) => ReceivedOK(u)
  BY DEF ReceivedOK, StoredOK, SameReceiver
<1>2. Edge(u) = Edge(t)
  BY DEF Edge, SameReceiver
<1>3. u.shutdown = "NONE" => t.shutdown = "NONE"
  BY DEF SameReceiver
<1> QED
  BY <1>1, <1>2, <1>3 DEF ReceiverOK, SameReceiver

\* Packets stay right when the object that sent them moves on.
LEMMA PacketStays ==
    ASSUME NEW p \in Packet, NEW t \in Tcb, NEW u \in Tcb, NEW cuts,
           PacketOK(p, t, cuts), Grows(t, u)
    PROVE  PacketOK(p, u, cuts)
<1>2. t.rcv_nxt \in Nat /\ u.rcv_nxt \in Nat /\ Edge(t) \in Nat /\ Edge(u) \in Nat
  BY TcbType DEF Edge
<1>3. p.ack \in Nat /\ p.wnd \in Nat /\ Unit \in Nat
  BY SizesAssumption DEF Packet
<1>4. p.ack + p.wnd * Unit \in Nat
  BY <1>3
<1>5. p.ack <= u.rcv_nxt
  BY <1>2, <1>3 DEF PacketOK, Grows
<1>6. p.ack + p.wnd * Unit <= Edge(u)
  <2> DEFINE x == p.ack + p.wnd * Unit
             a == Edge(t)
             b == Edge(u)
  <2>1. x \in Nat /\ a \in Nat /\ b \in Nat /\ x <= a /\ a <= b
    BY <1>2, <1>4 DEF PacketOK, Grows
  <2> HIDE DEF x, a, b
  <2>2. x <= b
    BY <2>1
  <2> QED
    BY <2>2 DEF x, b
<1> QED
  BY <1>5, <1>6 DEF PacketOK, Grows

\* Such a change keeps the object sound.
LEMMA QuietKeeps ==
    ASSUME NEW t, NEW u, NEW c \in Context, Sound(t, c), Quiet(t, u)
    PROVE  Sound(u, c) /\ Grows(t, u)
<1>0. t \in Tcb /\ u \in Tcb
  BY DEF Sound, Quiet
<1>1. SenderOK(u)
  BY <1>0, SameSenderKeeps DEF Sound, Quiet
<1>2. WindowOK(u, c.edge, c.nxt)
  BY SameSenderWindow DEF Sound, Quiet
<1>3. WrittenOK(u, c.taken)
  BY SameSenderWritten DEF Sound, Quiet
<1>4. ReceiverOK(u, c.cuts, c.given) /\ Edge(u) = Edge(t)
  BY SameReceiverKeeps DEF Sound, Quiet
<1>5. Grows(t, u)
  <2>1. Cuts(u) = Cuts(t)
    BY DEF Cuts, Quiet, SameSender
  <2>2. t.rcv_nxt <= u.rcv_nxt
    BY <1>0, TcbType DEF Quiet, SameReceiver
  <2>3. Edge(t) <= Edge(u)
    BY <1>0, <1>4, TcbType DEF Edge
  <2> QED
    BY <2>1, <2>2, <2>3 DEF Grows
<1>6. OutOK(u, c.cuts)
  <2>1. ASSUME NEW i \in DOMAIN u.out PROVE PacketOK(u.out[i], u, c.cuts)
    <3>1. u.out = t.out /\ i \in DOMAIN t.out
      BY DEF Quiet
    <3>2. PacketOK(t.out[i], t, c.cuts)
      BY <3>1 DEF Sound, OutOK
    <3>3. t.out[i] \in Packet
      BY <1>0, <3>1, TcbType
    <3> QED
      BY <1>0, <1>5, <3>1, <3>2, <3>3, PacketStays
  <2> QED
    BY <2>1 DEF OutOK
<1>7. Opens(u, c.sent)
  BY DEF Sound, Quiet, SameSender, Opens
<1>8. \A x \in c.cuts : x <= Edge(u)
  BY <1>4 DEF Sound
<1> QED
  BY <1>0, <1>1, <1>2, <1>3, <1>4, <1>5, <1>6, <1>7, <1>8 DEF Sound

LEMMA QuietTrans ==
    ASSUME NEW t, NEW u, NEW v, Quiet(t, u), Quiet(u, v)
    PROVE  Quiet(t, v)
  BY DEF Quiet, SameSender, SameReceiver, StateMoves

LEMMA GrowsTrans ==
    ASSUME NEW t \in Tcb, NEW u \in Tcb, NEW v \in Tcb, Grows(t, u), Grows(u, v)
    PROVE  Grows(t, v)
<1>1. t.rcv_nxt \in Nat /\ u.rcv_nxt \in Nat /\ v.rcv_nxt \in Nat
      /\ Edge(t) \in Nat /\ Edge(u) \in Nat /\ Edge(v) \in Nat
  BY TcbType, SMT DEF Edge
<1>2. t.rcv_nxt <= v.rcv_nxt
  BY <1>1 DEF Grows
<1>3. Edge(t) <= Edge(v)
  BY <1>1 DEF Grows
<1> QED
  BY <1>2, <1>3 DEF Grows

(***************************************************************************)
(* Sending: packet(), transmit() and attemptSend()                         *)
(***************************************************************************)

\* p is what packet() writes for these arguments.
PacketOf(p, t, seq, ctl, offset, len) ==
    /\ p \in Packet
    /\ p.seq = seq /\ p.ctl = ctl /\ p.unit = Unit
    /\ p.ack = t.rcv_nxt /\ p.wnd = t.rcv_wnd \div Unit
    /\ Len(p.data) = len
    /\ \A i \in 1 .. len :
          p.data[i] = IF offset + i \in DOMAIN t.sbuf THEN t.sbuf[offset + i] ELSE 0

\* u is t once it has sent p.
Says(t, u, p) ==
    /\ u \in Tcb
    /\ u.out = Append(t.out, p)
    /\ SameReceiver(t, u) /\ u.shutdown = t.shutdown
    /\ u.sbuf = t.sbuf /\ u.writeEnable = t.writeEnable /\ u.state = t.state
    /\ u.snd_una = t.snd_una /\ u.snd_wnd = t.snd_wnd
    /\ u.recover = t.recover /\ u.swnd_unit = t.swnd_unit

LEMMA SaysTyped ==
    ASSUME NEW t \in Tcb, NEW n \in Nat, NEW out \in Seq(Packet),
           NEW u, u = [t EXCEPT !.t_ack = FALSE, !.told = n, !.out = out]
    PROVE  u \in Tcb
  BY DEF Tcb

\* u is t once it has written the packet for these arguments.
Writes(t, u, seq, ctl, offset, len) ==
    /\ Says(t, u, u.out[Len(t.out) + 1])
    /\ PacketOf(u.out[Len(t.out) + 1], t, seq, ctl, offset, len)
    /\ u.slist = t.slist /\ u.snd_nxt = t.snd_nxt /\ u.rto = t.rto

\* packet() appends one packet and no longer owes an acknowledgement.
LEMMA PacketIs ==
    ASSUME NEW t \in Tcb, NEW seq \in Int, NEW ctl \in BOOLEAN, NEW offset \in Nat,
           NEW len \in Nat, NEW u, u = packet(t, seq, ctl, offset, len)
    PROVE  Writes(t, u, seq, ctl, offset, len)
<1> DEFINE at(i) == IF offset + i \in DOMAIN t.sbuf THEN t.sbuf[offset + i] ELSE 0
           data == [i \in 1 .. len |-> at(i)]
           wnd == t.rcv_wnd \div Unit
           p == [seq |-> seq, ack |-> t.rcv_nxt, wnd |-> wnd,
                 ctl |-> ctl, data |-> data,
                 unit |-> Unit, place |-> 0]
           out == Append(t.out, p)
           nxt == t.rcv_nxt
<1>1. u = [t EXCEPT !.t_ack = FALSE, !.told = nxt, !.out = out]
  BY DEF packet
<1>2. wnd \in Nat /\ nxt \in Nat /\ Unit \in Nat
  <2>1. t.rcv_wnd \in Nat /\ Unit \in Nat /\ Unit > 0
    BY TcbType, SizesAssumption, SMT
  <2>2. wnd \in Nat
    <3> DEFINE w == t.rcv_wnd
    <3>1. w \in Nat
      BY <2>1
    <3> HIDE DEF w
    <3>2. w \div Unit \in Nat
      BY <2>1, <3>1
    <3> QED
      BY <3>2 DEF w
  <2> QED
    BY <2>1, <2>2, TcbType
<1>3. data \in Seq(Nat) /\ Len(data) = len /\ \A i \in 1 .. len : data[i] = at(i)
  <2>1. \A i \in 1 .. len : at(i) \in Nat
    BY TcbType
  <2> HIDE DEF at
  <2> QED
    BY <2>1
<1> HIDE DEF data, wnd
<1>4. p \in Packet
  BY <1>2, <1>3 DEF Packet, nxt
<1>5. p.seq = seq /\ p.ctl = ctl /\ p.unit = Unit /\ p.ack = t.rcv_nxt
      /\ p.wnd = wnd /\ p.data = data
  OBVIOUS
<1> HIDE DEF p
<1>6. out \in Seq(Packet)
  BY <1>4, TcbType
<1>o. out[Len(t.out) + 1] = p
  BY <1>4, TcbType
<1> HIDE DEF out, nxt
<1>7. u \in Tcb
  BY <1>1, <1>2, <1>6, SaysTyped, Zenon
<1>8. /\ u.out = out /\ u.slist = t.slist /\ u.snd_nxt = t.snd_nxt /\ u.rto = t.rto
      /\ u.rcv_nxt = t.rcv_nxt /\ u.rcv_wnd = t.rcv_wnd /\ u.rbuf = t.rbuf
      /\ u.ahead = t.ahead /\ u.rlist = t.rlist /\ u.readEnable = t.readEnable
      /\ u.shutdown = t.shutdown
      /\ u.sbuf = t.sbuf /\ u.writeEnable = t.writeEnable /\ u.state = t.state
      /\ u.snd_una = t.snd_una /\ u.snd_wnd = t.snd_wnd
      /\ u.recover = t.recover /\ u.swnd_unit = t.swnd_unit
  BY <1>1 DEF Tcb
<1>9. Says(t, u, p)
  BY <1>7, <1>8 DEF Says, SameReceiver, out
<1>10. PacketOf(p, t, seq, ctl, offset, len)
  BY <1>3, <1>4, <1>5 DEF PacketOf, wnd
<1>11. u.out[Len(t.out) + 1] = p
  BY <1>o, <1>8
<1> QED
  BY <1>8, <1>9, <1>10, <1>11 DEF Writes

\* What sending does to the object, and leaves of it.
Sends(t, u, c) ==
    /\ Sound(u, c) /\ Grows(t, u) /\ SameReceiver(t, u)
    /\ u.shutdown = t.shutdown
    /\ u.sbuf = t.sbuf /\ u.writeEnable = t.writeEnable /\ u.state = t.state
    /\ u.snd_una = t.snd_una

\* The send list and where sending has got to, before and after sending p.
SendsOn(t, u, p) ==
    /\ Keeps(t.slist, u.slist, t.snd_una, u.snd_nxt, t.snd_una + Len(t.sbuf))
    /\ t.snd_nxt <= u.snd_nxt
    /\ u.rto <=> u.snd_una # u.snd_nxt
    /\ DataOK(p)
    /\ p.data # <<>> => p.seq + Len(p.data) \in Cuts(u)
    /\ Late(p) => t.snd_nxt > 0
    /\ p.ctl \/ u.snd_nxt = 0 \/ t.snd_nxt > 0

\* Sending a right packet keeps the object sound.
LEMMA SaysKeeps ==
    ASSUME NEW c \in Context, NEW t, Sound(t, c), NEW p, NEW u, Says(t, u, p),
           SendsOn(t, u, p), u.snd_nxt <= c.edge,
           NEW seq, NEW ctl, NEW offset, NEW len, PacketOf(p, t, seq, ctl, offset, len)
    PROVE  Sends(t, u, c)
<1>0. t \in Tcb /\ u \in Tcb
  BY DEF Sound, Says
<1>1. SenderOK(u)
  <2>1. /\ SegmentsOK(u.slist)
        /\ Covers(u.slist, u.snd_una, u.snd_nxt, u.snd_una + Len(u.sbuf))
    BY DEF Says, SendsOn, Keeps
  <2>2. u.recover <= u.snd_nxt
    <3>1. t.recover <= t.snd_nxt /\ t.snd_nxt <= u.snd_nxt /\ u.recover = t.recover
      BY DEF Sound, SenderOK, SendsOn, Says
    <3>2. t.recover \in Nat /\ t.snd_nxt \in Nat /\ u.snd_nxt \in Nat
      BY <1>0, TcbType
    <3> QED
      BY <3>1, <3>2
  <2>3. u.rto <=> u.snd_una # u.snd_nxt
    BY DEF SendsOn
  <2> QED
    BY <2>1, <2>2, <2>3 DEF SenderOK, Says, Sound
<1>2. WindowOK(u, c.edge, c.nxt)
  BY DEF Sound, WindowOK, Says
<1>3. ReceiverOK(u, c.cuts, c.given) /\ Edge(u) = Edge(t)
  BY SameReceiverKeeps DEF Sound, Says
<1>4. WrittenOK(u, c.taken)
  BY DEF Sound, WrittenOK, Says
<1>5. Grows(t, u)
  <2>1. Cuts(t) \subseteq Cuts(u)
    BY DEF Cuts, SendsOn, Keeps, Says
  <2>2. t.rcv_nxt <= u.rcv_nxt /\ Edge(t) <= Edge(u)
    BY <1>0, <1>3, TcbType, SMTT(40) DEF Edge, Says, SameReceiver
  <2> QED
    BY <2>1, <2>2 DEF Grows
<1>6. p \in Packet /\ t.out \in Seq(Packet) /\ u.out = Append(t.out, p)
  BY <1>0, TcbType DEF PacketOf, Says
<1>7. /\ Len(t.out) \in Nat /\ DOMAIN t.out = 1 .. Len(t.out)
      /\ DOMAIN u.out = 1 .. Len(t.out) + 1 /\ u.out[Len(t.out) + 1] = p
      /\ \A i \in 1 .. Len(t.out) : u.out[i] = t.out[i] /\ t.out[i] \in Packet
  BY <1>6
<1>8. PacketOK(p, u, c.cuts)
  <2>1. p.ack \in c.cuts /\ p.ack <= u.rcv_nxt /\ p.unit = Unit
    <3>1. p.ack = t.rcv_nxt /\ u.rcv_nxt = t.rcv_nxt /\ p.unit = Unit
      BY DEF PacketOf, Says, SameReceiver
    <3> QED
      BY <3>1, <1>0, TcbType DEF Sound, ReceiverOK
  <2>2. p.ack + p.wnd * Unit <= Edge(u)
    <3> DEFINE n == t.rcv_nxt
               w == t.rcv_wnd
               x == (w \div Unit) * Unit
    <3>1. n \in Nat /\ w \in Nat /\ Unit \in Nat /\ Unit > 0
      BY <1>0, TcbType, SizesAssumption
    <3>2. p.ack = n /\ p.wnd = w \div Unit /\ Edge(u) = n + w
      BY <1>3 DEF Edge, PacketOf
    <3> HIDE DEF n, w
    <3>3. x <= w /\ x \in Nat
      BY <3>1
    <3>4. p.ack + p.wnd * Unit = n + x
      BY <3>2
    <3> HIDE DEF x
    <3> QED
      BY <3>1, <3>2, <3>3, <3>4
  <2> QED
    BY <2>1, <2>2 DEF PacketOK, SendsOn
<1>9. OutOK(u, c.cuts)
  <2>1. ASSUME NEW i \in 1 .. Len(t.out) + 1 PROVE PacketOK(u.out[i], u, c.cuts)
    <3>1. CASE i = Len(t.out) + 1
      BY <3>1, <1>7, <1>8
    <3>2. CASE i # Len(t.out) + 1
      <4>1. i \in 1 .. Len(t.out)
        BY <3>2, <1>7
      <4>2. PacketOK(t.out[i], t, c.cuts)
        BY <4>1, <1>7 DEF Sound, OutOK
      <4>3. u.out[i] = t.out[i] /\ t.out[i] \in Packet
        BY <4>1, <1>7
      <4> QED
        BY <4>2, <4>3, <1>0, <1>5, PacketStays
    <3> QED
      BY <3>1, <3>2
  <2> QED
    BY <2>1, <1>7 DEF OutOK
<1>10. Opens(u, c.sent)
  <2>1. SUFFICES ASSUME c.sent = 0
                 PROVE  IF u.snd_nxt = 0 THEN \A j \in DOMAIN u.out : ~Late(u.out[j])
                        ELSE \E i \in DOMAIN u.out :
                                /\ u.out[i].ctl
                                /\ \A j \in DOMAIN u.out : Late(u.out[j]) => i < j
    BY DEF Opens
  <2>2. IF t.snd_nxt = 0 THEN \A j \in DOMAIN t.out : ~Late(t.out[j])
        ELSE \E i \in DOMAIN t.out :
                /\ t.out[i].ctl
                /\ \A j \in DOMAIN t.out : Late(t.out[j]) => i < j
    BY <2>1 DEF Sound, Opens
  <2>3. t.snd_nxt \in Nat /\ u.snd_nxt \in Nat /\ t.snd_nxt <= u.snd_nxt
    BY <1>0, TcbType DEF SendsOn
  <2>4. \A j \in 1 .. Len(t.out) + 1 : j # Len(t.out) + 1 => j \in 1 .. Len(t.out)
    BY <1>7
  <2>5. CASE t.snd_nxt # 0
    <3>1. PICK i \in DOMAIN t.out :
                /\ t.out[i].ctl
                /\ \A j \in DOMAIN t.out : Late(t.out[j]) => i < j
      BY <2>2, <2>5
    <3>2. i \in 1 .. Len(t.out) + 1 /\ u.out[i].ctl /\ i < Len(t.out) + 1
      BY <3>1, <1>7
    <3>3. ASSUME NEW j \in 1 .. Len(t.out) + 1, Late(u.out[j]) PROVE i < j
      <4>1. CASE j = Len(t.out) + 1
        BY <4>1, <3>2
      <4>2. CASE j # Len(t.out) + 1
        <5>1. j \in 1 .. Len(t.out)
          BY <4>2, <2>4
        <5>2. Late(t.out[j])
          BY <5>1, <3>3, <1>7
        <5> QED
          BY <5>1, <5>2, <3>1, <1>7
      <4> QED
        BY <4>1, <4>2
    <3>4. u.snd_nxt # 0
      BY <2>3, <2>5
    <3> QED
      BY <3>2, <3>3, <3>4, <1>7
  <2>6. CASE t.snd_nxt = 0
    <3>1. ASSUME NEW j \in 1 .. Len(t.out) + 1 PROVE ~Late(u.out[j])
      <4>1. CASE j = Len(t.out) + 1
        BY <4>1, <1>7, <2>6 DEF SendsOn
      <4>2. CASE j # Len(t.out) + 1
        <5>1. j \in 1 .. Len(t.out)
          BY <4>2, <2>4
        <5> QED
          BY <5>1, <2>2, <2>6, <1>7
      <4> QED
        BY <4>1, <4>2
    <3>2. CASE u.snd_nxt = 0
      BY <3>1, <3>2, <1>7
    <3>3. CASE u.snd_nxt # 0
      <4>1. p.ctl
        BY <2>6, <3>3 DEF SendsOn
      <4>2. Len(t.out) + 1 \in DOMAIN u.out /\ u.out[Len(t.out) + 1].ctl
        BY <4>1, <1>7
      <4> QED
        BY <3>1, <3>3, <4>2, <1>7
    <3> QED
      BY <3>2, <3>3
  <2> QED
    BY <2>5, <2>6
<1>11. \A x \in c.cuts : x <= Edge(u)
  BY <1>3 DEF Sound
<1>12. Sound(u, c)
  BY <1>0, <1>1, <1>2, <1>3, <1>4, <1>9, <1>10, <1>11 DEF Sound
<1> QED
  BY <1>5, <1>12 DEF Sends, Says

\* The fields Transmitted sets in s, over those that packet() sets.
Marks(s, u, list, nxt) ==
    /\ u \in Tcb
    /\ u.slist = list /\ u.snd_nxt = nxt /\ u.rto
    /\ SameReceiver(s, u) /\ u.shutdown = s.shutdown
    /\ u.sbuf = s.sbuf /\ u.writeEnable = s.writeEnable /\ u.state = s.state
    /\ u.snd_una = s.snd_una /\ u.snd_wnd = s.snd_wnd
    /\ u.recover = s.recover /\ u.swnd_unit = s.swnd_unit
    /\ u.out = s.out

LEMMA TransmittedTyped ==
    ASSUME NEW s \in Tcb, NEW list \in Seq(SSegment), NEW nxt \in Nat,
           NEW u, u = [s EXCEPT !.slist = list, !.snd_nxt = nxt, !.rto = TRUE]
    PROVE  Marks(s, u, list, nxt)
<1>1. u \in Tcb
  BY DEF Tcb
<1>2. /\ u.slist = list /\ u.snd_nxt = nxt /\ u.rto
      /\ SameReceiver(s, u) /\ u.shutdown = s.shutdown
      /\ u.sbuf = s.sbuf /\ u.writeEnable = s.writeEnable /\ u.state = s.state
      /\ u.snd_una = s.snd_una /\ u.snd_wnd = s.snd_wnd
      /\ u.recover = s.recover /\ u.swnd_unit = s.swnd_unit
      /\ u.out = s.out
  BY DEF Tcb, SameReceiver
<1> QED
  BY <1>1, <1>2 DEF Marks

\* The bytes of a packet are those of the segment at i.
LEMMA DataIs ==
    ASSUME NEW t \in Tcb, SenderOK(t), NEW i \in 1 .. Len(t.slist), NEW n \in Nat,
           n > 0, n <= t.slist[i].len,
           NEW p, PacketOf(p, t, t.slist[i].seq, t.slist[i].ctl,
                           t.slist[i].seq - t.snd_una, n)
    PROVE  DataOK(p) /\ p.data # <<>>
<1> DEFINE seq == t.slist[i].seq
           len == t.slist[i].len
           una == t.snd_una
           offset == seq - una
           size == Len(t.sbuf)
<1>1. /\ t.slist \in Seq(SSegment) /\ una \in Nat /\ t.snd_nxt \in Nat
      /\ size \in Nat /\ una + size \in Nat /\ t.sbuf \in Seq(Nat)
  BY TcbType
<1>2. Covers(t.slist, una, t.snd_nxt, una + size)
  BY DEF SenderOK
<1>3. seq \in Nat /\ len \in Nat
  BY <1>1, SegmentType
<1>4. una <= seq /\ seq + len <= una + size
  <2> HIDE DEF size
  <2>1. una <= t.slist[i].seq /\ t.slist[i].seq + t.slist[i].len <= una + size
    BY <1>1, <1>2, SegmentsWithin
  <2> QED
    BY <2>1
<1>5. p \in Packet /\ p.seq = seq /\ p.ctl = t.slist[i].ctl /\ Len(p.data) = n
  BY DEF PacketOf
<1>6. p.data \in Seq(Nat)
  BY <1>5 DEF Packet
<1>7. DOMAIN p.data = 1 .. n /\ p.data # <<>>
  BY <1>5, <1>6
<1>8. (p.ctl <=> p.seq = 0) /\ (p.ctl => Len(p.data) = 1)
  <2>1. i \in DOMAIN t.slist
    BY <1>1
  <2>2. (t.slist[i].ctl <=> seq = 0) /\ (t.slist[i].ctl => len = 1)
    BY <2>1 DEF SenderOK, SegmentsOK
  <2>3. n <= 1 => n = 1
    OBVIOUS
  <2> QED
    BY <2>2, <2>3, <1>5
<1>9. ASSUME NEW j \in 1 .. n PROVE p.data[j] = seq + (j - 1)
  <2>1. offset \in Nat /\ j \in Nat /\ j >= 1 /\ j <= n /\ offset + j \in Nat
        /\ offset + j >= 1
    BY <1>1, <1>3, <1>4, SMTT(40)
  <2>2. offset + j <= size
    <3> HIDE DEF seq, len, una, size
    <3>1. j <= len
      BY <2>1, <1>3, SMT DEF len
    <3> QED
      BY <3>1, <2>1, <1>1, <1>3, <1>4, SMT
  <2>3. offset + j \in DOMAIN t.sbuf
    BY <1>1, <2>1, <2>2
  <2>4. p.data[j] = t.sbuf[offset + j]
    BY <2>3 DEF PacketOf
  <2>5. t.sbuf[offset + j] = una + ((offset + j) - 1)
    BY <2>3 DEF SenderOK
  <2>6. una + ((offset + j) - 1) = seq + (j - 1)
    <3> HIDE DEF seq, una
    <3> QED
      BY <1>1, <1>3, <2>1
  <2> QED
    BY <2>4, <2>5, <2>6
<1> QED
  BY <1>3, <1>5, <1>7, <1>8, <1>9 DEF DataOK

\* What transmit changes once the packet fits keeps the object sound.
LEMMA TransmittedKeeps ==
    ASSUME NEW c \in Context, NEW t, Sound(t, c),
           NEW i \in 1 .. Len(t.slist), NEW n \in Nat, n > 0, n <= t.slist[i].len,
           t.slist[i].xmit = 0 => \A k \in 1 .. i - 1 : t.slist[k].xmit > 0,
           t.slist[i].xmit = 0 => t.snd_nxt + n <= c.edge,
           NEW u, u = Transmitted(t, i, n)
    PROVE  Sends(t, u, c)
<1> DEFINE seg == t.slist[i]
           una == t.snd_una
           nxt == t.snd_nxt
           end == t.snd_una + Len(t.sbuf)
           s == packet(t, seg.seq, seg.ctl, seg.seq - una, n)
           cut == Split(t.slist, i, n)
           list == [cut EXCEPT ![i].xmit = @ + 1]
           nxt2 == IF seg.xmit = 0 THEN nxt + n ELSE nxt
           p == s.out[Len(t.out) + 1]
<1>1. t \in Tcb /\ SenderOK(t)
  BY DEF Sound
<1>2. /\ t.slist \in Seq(SSegment) /\ una \in Nat /\ nxt \in Nat
      /\ Len(t.sbuf) \in Nat /\ end \in Nat
  BY <1>1, TcbType
<1>3. Covers(t.slist, una, nxt, end) /\ SegmentsOK(t.slist)
  BY <1>1 DEF SenderOK
<1>4. seg.seq \in Nat /\ seg.len \in Nat /\ seg.xmit \in Nat /\ seg.ctl \in BOOLEAN
      /\ i \in DOMAIN t.slist
  BY <1>2, SegmentType
<1> HIDE DEF end
<1>5. una <= seg.seq /\ seg.seq + seg.len <= end
  BY <1>2, <1>3, SegmentsWithin
<1>6. /\ Keeps(t.slist, cut, una, nxt, end)
      /\ i \in 1 .. Len(cut)
      /\ cut[i].seq = seg.seq /\ cut[i].len = Lower(seg.len, n)
      /\ cut[i].xmit = seg.xmit
      /\ \A k \in 1 .. i - 1 : cut[k] = t.slist[k]
  <2>1. cut = Split(t.slist, i, n)
    OBVIOUS
  <2> HIDE DEF cut
  <2>2. SplitInto(t.slist, i, n, cut, una, nxt, end)
    BY <1>2, <1>3, <2>1, SplitKeeps
  <2> QED
    BY <2>2 DEF SplitInto
<1>7. cut[i].len = n
  BY <1>4, <1>6 DEF Lower
<1> HIDE DEF cut
<1>8. cut \in Seq(SSegment) /\ Covers(cut, una, nxt, end) /\ SegmentsOK(cut)
      /\ CutsOf(t.slist, una) \subseteq CutsOf(cut, una)
  BY <1>6 DEF Keeps
<1>9. cut[i].xmit = 0 => \A k \in 1 .. i - 1 : cut[k].xmit > 0
  BY <1>6
<1>10. nxt2 = IF cut[i].xmit = 0 THEN nxt + cut[i].len ELSE nxt
  BY <1>6, <1>7
<1> HIDE DEF nxt2
<1>l. list = [cut EXCEPT ![i].xmit = @ + 1]
  OBVIOUS
<1> HIDE DEF list
<1>m. MarkedKeeps(cut, i, list, una, nxt, nxt2, end)
  BY <1>2, <1>6, <1>8, <1>9, <1>10, <1>l, MarkKeeps
<1>11. /\ nxt2 \in Nat /\ Keeps(cut, list, una, nxt2, end)
       /\ cut[i].seq + cut[i].len \in CutsOf(list, una)
       /\ una < nxt2 /\ nxt <= nxt2
       /\ cut[i].xmit = 0 => cut[i].seq = nxt
  BY <1>m DEF MarkedKeeps
<1>12. Keeps(t.slist, list, una, nxt2, end)
  BY <1>8, <1>11 DEF Keeps
<1>13. /\ Says(t, s, p) /\ PacketOf(p, t, seg.seq, seg.ctl, seg.seq - una, n)
       /\ s.snd_nxt = nxt /\ s.slist = t.slist
  <2>1. seg.seq \in Int /\ seg.seq - una \in Nat
    BY <1>2, <1>4, <1>5, SMT
  <2> HIDE DEF seg, una
  <2>2. s = packet(t, seg.seq, seg.ctl, seg.seq - una, n)
    OBVIOUS
  <2> HIDE DEF s
  <2>3. Writes(t, s, seg.seq, seg.ctl, seg.seq - una, n)
    BY <1>1, <1>4, <2>1, <2>2, PacketIs
  <2> QED
    BY <2>3 DEF Writes
<1> HIDE DEF p, s
<1>14. u = [s EXCEPT !.slist = list, !.snd_nxt = nxt2, !.rto = TRUE]
  <2>1. u = [s EXCEPT !.slist = list,
                      !.snd_nxt = IF seg.xmit = 0 THEN @ + n ELSE @, !.rto = TRUE]
    BY DEF Transmitted, s, list, cut
  <2>2. (IF seg.xmit = 0 THEN s.snd_nxt + n ELSE s.snd_nxt) = nxt2
    BY <1>13 DEF nxt2
  <2> QED
    BY <2>1, <2>2
<1>15. /\ u \in Tcb
       /\ u.slist = list /\ u.snd_nxt = nxt2 /\ u.rto
       /\ SameReceiver(s, u) /\ u.shutdown = s.shutdown
       /\ u.sbuf = s.sbuf /\ u.writeEnable = s.writeEnable /\ u.state = s.state
       /\ u.snd_una = s.snd_una /\ u.snd_wnd = s.snd_wnd
       /\ u.recover = s.recover /\ u.swnd_unit = s.swnd_unit
       /\ u.out = s.out
  <2>1. s \in Tcb /\ list \in Seq(SSegment)
    BY <1>12, <1>13 DEF Says, Keeps
  <2>2. nxt2 \in Nat
    BY <1>11
  <2>3. Marks(s, u, list, nxt2)
    BY <1>14, <2>1, <2>2, TransmittedTyped, Zenon
  <2> QED
    BY <2>3 DEF Marks
<1>16. Says(t, u, p)
  BY <1>13, <1>15 DEF Says, SameReceiver
<1>17. DataOK(p) /\ p.data # <<>> /\ p.seq = seg.seq /\ Len(p.data) = n
       /\ p.ctl = seg.ctl
  BY <1>1, <1>13, DataIs DEF PacketOf
<1>18. seg.ctl <=> seg.seq = 0
  BY <1>3, <1>4 DEF SegmentsOK
<1>19. seg.xmit > 0 => nxt > 0
  <2>1. seg.len > 0 /\ (seg.xmit > 0 => seg.seq + seg.len <= nxt)
    BY <1>3 DEF Covers
  <2> HIDE DEF seg, nxt
  <2>2. ASSUME seg.xmit > 0 PROVE nxt > 0
    <3>1. seg.seq + seg.len <= nxt
      BY <2>1, <2>2
    <3> QED
      BY <3>1, <2>1, <1>2, <1>4
  <2> QED
    BY <2>2
<1>20. seg.xmit = 0 => seg.seq = nxt
  BY <1>6, <1>11
<1>21. SendsOn(t, u, p)
  <2>1. Keeps(t.slist, u.slist, una, u.snd_nxt, t.snd_una + Len(t.sbuf))
    BY <1>12, <1>15 DEF end
  <2>2. nxt <= u.snd_nxt
    BY <1>11, <1>15
  <2>3. u.rto <=> u.snd_una # u.snd_nxt
    <3>1. u.snd_una = una /\ u.snd_nxt = nxt2 /\ u.rto
      BY <1>15, <1>16 DEF Says
    <3>2. una # nxt2
      BY <1>2, <1>11
    <3> QED
      BY <3>1, <3>2
  <2>4. p.seq + Len(p.data) \in Cuts(u)
    <3>1. u.snd_una = una /\ u.slist = list
      BY <1>15, <1>16 DEF Says
    <3> QED
      BY <3>1, <1>6, <1>7, <1>11, <1>17 DEF Cuts
  <2>5. Late(p) => t.snd_nxt > 0
    <3>1. Late(p) => seg.seq # 0
      BY <1>17, <1>18 DEF Late
    <3> QED
      BY <3>1, <1>2, <1>4, <1>19, <1>20, SMT
  <2>6. p.ctl \/ u.snd_nxt = 0 \/ t.snd_nxt > 0
    <3>1. CASE nxt = 0
      <4>1. ~(seg.xmit > 0)
        BY <3>1, <1>19
      <4>2. seg.seq = 0
        BY <4>1, <3>1, <1>4, <1>20
      <4> QED
        BY <4>2, <1>17, <1>18
    <3>2. CASE nxt # 0
      BY <3>2, <1>2
    <3> QED
      BY <3>1, <3>2
  <2> QED
    BY <2>1, <2>2, <2>3, <2>4, <2>5, <2>6, <1>17 DEF SendsOn
<1>22. u.snd_nxt <= c.edge
  <2>1. nxt <= c.edge
    BY DEF Sound, WindowOK
  <2> QED
    BY <2>1, <1>15 DEF nxt2
<1> QED
  BY <1>13, <1>16, <1>21, <1>22, SaysKeeps

LEMMA LeastIs ==
    ASSUME NEW S \in SUBSET Nat, S # {}
    PROVE  Least(S) \in S
<1>1. \E x \in S : \A y \in S : x <= y
  BY LeastNumber
<1>2. LET P(x) == x \in S /\ \A y \in S : x <= y IN (\E x : P(x)) => P(CHOOSE x : P(x))
  BY Zenon
<1>3. Least(S) = CHOOSE x : x \in S /\ \A y \in S : x <= y
  BY DEF Least
<1>4. \E x : x \in S /\ \A y \in S : x <= y
  BY <1>1
<1> QED
  BY <1>2, <1>3, <1>4, Zenon

\* A change of what sending may change beside the packets.
Calm(t, u) ==
    /\ Quiet(t, u)
    /\ u.shutdown = t.shutdown /\ u.state = t.state
    /\ u.writeEnable = t.writeEnable

LEMMA CalmSends ==
    ASSUME NEW c \in Context, NEW t, Sound(t, c), NEW u, Calm(t, u)
    PROVE  Sends(t, u, c)
<1>1. Sound(u, c) /\ Grows(t, u)
  BY QuietKeeps DEF Calm
<1> QED
  BY <1>1 DEF Sends, Calm, Quiet, SameSender

LEMMA CalmTrans ==
    ASSUME NEW t, NEW u, NEW v, Calm(t, u), Calm(u, v)
    PROVE  Calm(t, v)
  BY QuietTrans DEF Calm

LEMMA CalmSelf ==
    ASSUME NEW t \in Tcb
    PROVE  Calm(t, t)
  BY DEF Calm, Quiet, SameSender, SameReceiver, StateMoves

LEMMA SendsTrans ==
    ASSUME NEW c, NEW t \in Tcb, NEW u, NEW v, Sends(t, u, c), Sends(u, v, c)
    PROVE  Sends(t, v, c)
<1>1. u \in Tcb /\ v \in Tcb
  BY DEF Sends, Sound
<1>2. Grows(t, v)
  BY <1>1, GrowsTrans DEF Sends
<1>3. SameReceiver(t, v)
  BY DEF Sends, SameReceiver
<1> QED
  BY <1>2, <1>3 DEF Sends

LEMMA LevelType ==
    ASSUME NEW l \in DOMAIN Levels
    PROVE  Levels[l] \in Nat \ {0} /\ 2 * Levels[l] \in Nat \ {0}
<1>1. Levels \in Seq(Nat \ {0})
  BY SizesAssumption
<1>2. Levels[l] \in Nat \ {0}
  BY <1>1
<1> DEFINE x == Levels[l]
<1>3. x \in Nat /\ x # 0
  BY <1>2
<1> HIDE DEF x
<1>4. 2 * x \in Nat /\ 2 * x # 0
  BY <1>3
<1> QED
  BY <1>2, <1>4 DEF x

LEMMA LastLevel == Len(Levels) \in DOMAIN Levels /\ DOMAIN Levels = 1 .. Len(Levels)
<1>1. Levels \in Seq(Nat \ {0}) /\ Levels # <<>>
  BY SizesAssumption
<1> QED
  BY <1>1

LEMMA LevelTyped ==
    ASSUME NEW t \in Tcb, NEW l \in DOMAIN Levels, NEW m \in Nat \ {0},
           NEW w \in Nat \ {0},
           NEW u, u = [t EXCEPT !.msslevel = l, !.mss = m, !.cwnd = w]
    PROVE  u \in Tcb
  BY DEF Tcb

\* A smaller level of the table (pseudotcp.cc:1004) changes no byte.
LEMMA UseLevelCalm ==
    ASSUME NEW t \in Tcb, NEW l \in DOMAIN Levels, NEW u, u = UseLevel(t, l)
    PROVE  Calm(t, u)
<1> DEFINE m == Levels[l]
           w == 2 * Levels[l]
<1>1. m \in Nat \ {0} /\ w \in Nat \ {0}
  BY LevelType
<1>2. u = [t EXCEPT !.msslevel = l, !.mss = m, !.cwnd = w]
  BY DEF UseLevel
<1> HIDE DEF m, w
<1>3. u \in Tcb
  BY <1>1, <1>2, LevelTyped, Zenon
<1>4. /\ SameSender(t, u) /\ SameReceiver(t, u) /\ u.out = t.out
      /\ u.shutdown = t.shutdown /\ u.state = t.state
      /\ u.writeEnable = t.writeEnable
  BY <1>2 DEF Tcb, SameSender, SameReceiver, StateMoves
<1> QED
  BY <1>3, <1>4 DEF Calm, Quiet

\* Nor does going down the table until the packet fits.
LEMMA FitCalm ==
    ASSUME NEW t \in Tcb, NEW n \in Nat, NEW u, u = Fit(t, n)
    PROVE  Calm(t, u)
<1>1. CASE u = t
  BY <1>1, CalmSelf
<1>2. CASE SmallerLevels(t, n) # {} /\ u = UseLevel(t, Least(SmallerLevels(t, n)))
  <2>1. SmallerLevels(t, n) \in SUBSET Nat
        /\ SmallerLevels(t, n) \subseteq 1 .. Len(Levels)
    <3>1. t.msslevel \in DOMAIN Levels
      BY TcbType
    <3>2. t.msslevel \in Nat /\ t.msslevel >= 1 /\ Len(Levels) \in Nat
      BY <3>1, LastLevel
    <3> QED
      BY <3>2 DEF SmallerLevels
  <2>2. Least(SmallerLevels(t, n)) \in SmallerLevels(t, n)
    BY <1>2, <2>1, LeastIs
  <2>3. Least(SmallerLevels(t, n)) \in DOMAIN Levels
    BY <2>1, <2>2, LastLevel
  <2> QED
    BY <1>2, <2>3, UseLevelCalm
<1>3. CASE u = UseLevel(t, Len(Levels))
  BY <1>3, LastLevel, UseLevelCalm
<1> QED
  BY <1>1, <1>2, <1>3 DEF Fit

\* What transmit() returns: whether it succeeds, and the object.
SendType == [ok : BOOLEAN, tcb : Tcb]

\* transmit() keeps the object sound, whether the network takes the packet or not.
LEMMA TransmitKeeps ==
    ASSUME NEW c \in Context, NEW t, Sound(t, c), NEW env,
           NEW i \in 1 .. Len(t.slist),
           t.slist[i].xmit = 0 => \A k \in 1 .. i - 1 : t.slist[k].xmit > 0,
           t.slist[i].xmit = 0 => t.snd_nxt + t.slist[i].len <= c.edge,
           NEW r, r = transmit(t, i, env)
    PROVE  r \in SendType /\ Sends(t, r.tcb, c)
<1> DEFINE seg == t.slist[i]
           n == Lower(seg.len, t.mss)
           fit == Fit(t, n)
           m == Lower(n, fit.mss)
<1>1. t \in Tcb /\ t.slist \in Seq(SSegment) /\ t.snd_nxt \in Nat
      /\ t.mss \in Nat /\ t.mss > 0
  <2>1. t \in Tcb
    BY DEF Sound
  <2> QED
    BY <2>1, TcbType
<1>2. seg.len \in Nat /\ seg.len > 0
  <2>1. Covers(t.slist, t.snd_una, t.snd_nxt, t.snd_una + Len(t.sbuf))
    BY DEF Sound, SenderOK
  <2> QED
    BY <2>1, <1>1, SegmentType DEF Covers
<1>3. n \in Nat /\ n > 0 /\ n <= seg.len
  BY <1>1, <1>2 DEF Lower
<1>4. Calm(t, fit)
  BY <1>1, <1>3, FitCalm
<1>5. Sends(t, fit, c)
  BY <1>4, CalmSends
<1>6. Sound(fit, c) /\ fit \in Tcb /\ fit.mss \in Nat /\ fit.mss > 0
  <2>1. Sound(fit, c) /\ fit \in Tcb
    BY <1>5 DEF Sends, Sound
  <2> HIDE DEF fit
  <2> QED
    BY <2>1, TcbType
<1>7. fit.slist = t.slist /\ fit.snd_nxt = t.snd_nxt
  BY <1>4 DEF Calm, Quiet, SameSender
<1> HIDE DEF fit
<1>8. m \in Nat /\ m > 0 /\ m <= seg.len
  <2>1. m \in Nat /\ m > 0 /\ m <= n
    <3> HIDE DEF n
    <3> QED
      BY <1>3, <1>6 DEF Lower
  <2> HIDE DEF m, n, seg
  <2> QED
    BY <2>1, <1>3, <1>2
<1> HIDE DEF m, n
<1>9. Sends(fit, Transmitted(fit, i, m), c)
  <2>1. fit.slist[i].xmit = 0 => fit.snd_nxt + m <= c.edge
    <3>1. ASSUME seg.xmit = 0 PROVE t.snd_nxt + m <= c.edge
      <4>1. t.snd_nxt + seg.len <= c.edge /\ c.edge \in Nat
        BY <3>1 DEF Context
      <4> DEFINE x == t.snd_nxt
                 l == seg.len
                 e == c.edge
      <4>2. x + l <= e /\ e \in Nat /\ x \in Nat /\ l \in Nat /\ m <= l
        BY <4>1, <1>1, <1>2, <1>8
      <4> HIDE DEF x, l, e
      <4>3. x + m <= e
        BY <4>2, <1>8
      <4> QED
        BY <4>3 DEF x, e
    <3> QED
      BY <3>1, <1>7
  <2>2. i \in 1 .. Len(fit.slist) /\ m <= fit.slist[i].len
        /\ (fit.slist[i].xmit = 0 => \A k \in 1 .. i - 1 : fit.slist[k].xmit > 0)
    BY <1>7, <1>8
  <2> QED
    BY <1>6, <1>8, <2>1, <2>2, TransmittedKeeps
<1>10. Sends(t, Transmitted(fit, i, m), c)
  BY <1>1, <1>5, <1>9, SendsTrans
<1>11. Sends(t, t, c)
  BY <1>1, CalmSelf, CalmSends
<1>12. \/ r = [ok |-> FALSE, tcb |-> t]
       \/ r = [ok |-> FALSE, tcb |-> fit]
       \/ r = [ok |-> TRUE, tcb |-> Transmitted(fit, i, m)]
  BY DEF transmit, fit, n, m
<1>13. (r.ok = TRUE \/ r.ok = FALSE)
       /\ (r.tcb = t \/ r.tcb = fit \/ r.tcb = Transmitted(fit, i, m))
  <2> HIDE DEF seg
  <2>1. CASE r = [ok |-> FALSE, tcb |-> t]
    BY <2>1
  <2>2. CASE r = [ok |-> FALSE, tcb |-> fit]
    BY <2>2
  <2>3. CASE r = [ok |-> TRUE, tcb |-> Transmitted(fit, i, m)]
    BY <2>3
  <2> QED
    BY <1>12, <2>1, <2>2, <2>3
<1>14. Sends(t, r.tcb, c)
  BY <1>5, <1>10, <1>11, <1>13
<1>15. t \in Tcb /\ fit \in Tcb /\ Transmitted(fit, i, m) \in Tcb
  BY <1>1, <1>6, <1>10 DEF Sends, Sound
<1>16. r \in SendType
  <2> DEFINE x == Transmitted(fit, i, m)
  <2>1. r = [ok |-> FALSE, tcb |-> t] \/ r = [ok |-> FALSE, tcb |-> fit]
        \/ r = [ok |-> TRUE, tcb |-> x]
    BY <1>12
  <2> HIDE DEF x
  <2>2. x \in Tcb
    BY <1>15 DEF x
  <2>3. \A b \in BOOLEAN, y \in Tcb : [ok |-> b, tcb |-> y] \in SendType
    BY DEF SendType
  <2>4. FALSE \in BOOLEAN /\ TRUE \in BOOLEAN
    OBVIOUS
  <2>5. CASE r = [ok |-> FALSE, tcb |-> t]
    BY <2>3, <2>4, <2>5, <1>15
  <2>6. CASE r = [ok |-> FALSE, tcb |-> fit]
    BY <2>3, <2>4, <2>6, <1>15
  <2>7. CASE r = [ok |-> TRUE, tcb |-> x]
    BY <2>2, <2>3, <2>4, <2>7
  <2> QED
    BY <2>1, <2>5, <2>6, <2>7
<1> QED
  BY <1>14, <1>16

\* What may be sent is buffered, not sent yet and within the window.
UseableOK(t) ==
    /\ Useable(t) \in Nat
    /\ Useable(t) > 0 =>
          /\ t.snd_nxt + Useable(t) <= t.snd_una + Len(t.sbuf)
          /\ t.snd_nxt + Useable(t) <= t.snd_una + t.snd_wnd

\* The bytes that may be sent lie within the window of the peer.
LEMMA UseableFacts ==
    ASSUME NEW t \in Tcb, SenderOK(t)
    PROVE  UseableOK(t)
<1> DEFINE una == t.snd_una
           nxt == t.snd_nxt
           size == Len(t.sbuf)
           wnd == t.snd_wnd
           mss == t.mss
           cwnd == IF t.dup_acks \in {1, 2} THEN t.cwnd + t.dup_acks * t.mss
                   ELSE t.cwnd
           window == Lower(wnd, cwnd)
           flight == nxt - una
           available == Lower(size - flight, mss)
           useable == IF flight < window THEN window - flight ELSE 0
           result == IF available <= useable THEN available
                     ELSE IF useable * 4 < window THEN 0 ELSE useable
<1>1. una \in Nat /\ nxt \in Nat /\ size \in Nat /\ wnd \in Nat /\ mss \in Nat
      /\ mss > 0
  BY TcbType
<1>2. una <= nxt /\ nxt <= una + size
  BY DEF SenderOK, Covers
<1>3. cwnd \in Nat
  <2>1. t.dup_acks \in {1, 2} =>
           t.dup_acks * t.mss = t.mss \/ t.dup_acks * t.mss = 2 * t.mss
    <3> HIDE DEF mss
    <3>1. t.mss \in Nat
      BY TcbType
    <3>2. \A x \in Nat : 1 * x = x
      OBVIOUS
    <3> QED
      BY <3>1, <3>2
  <2>2. t.cwnd \in Nat /\ t.mss \in Nat
    BY TcbType
  <2> DEFINE x == t.dup_acks * t.mss
  <2>3. t.dup_acks \in {1, 2} => x \in Nat
    BY <2>1, <2>2
  <2> HIDE DEF x
  <2>4. t.dup_acks \in {1, 2} => t.cwnd + x \in Nat
    BY <2>2, <2>3
  <2> QED
    BY <2>2, <2>4 DEF x
<1>4. Useable(t) = result
  BY DEF Useable, InFlight
<1> HIDE DEF cwnd, una, nxt, size, wnd, mss
<1>5. flight \in Nat /\ una + flight = nxt /\ flight <= size
  BY <1>1, <1>2
<1>6. window \in Nat /\ window <= wnd
  BY <1>1, <1>3 DEF Lower
<1> HIDE DEF window, flight
<1>7. useable \in Nat /\ (useable > 0 => flight + useable <= wnd)
  BY <1>1, <1>5, <1>6
<1>8. available \in Nat /\ flight + available <= size
  BY <1>1, <1>5 DEF Lower
<1> HIDE DEF useable, available
<1>9. result \in {available, useable, 0} /\ (result # 0 => result <= available)
      /\ (result # 0 => result <= useable)
  BY <1>7, <1>8
<1> HIDE DEF result
<1>10. result \in Nat
  BY <1>7, <1>8, <1>9
<1>11. ASSUME result > 0 PROVE nxt + result <= una + size /\ nxt + result <= una + wnd
  <2>1. result <= available /\ result <= useable /\ useable > 0
    BY <1>7, <1>8, <1>9, <1>10, <1>11
  <2>2. flight + result <= size
    BY <2>1, <1>1, <1>5, <1>7, <1>8, <1>10
  <2>3. flight + result <= wnd
    BY <2>1, <1>1, <1>5, <1>7, <1>8, <1>10
  <2>4. nxt + result = una + (flight + result)
    BY <1>1, <1>5, <1>10
  <2> QED
    BY <2>2, <2>3, <2>4, <1>1, <1>5, <1>10
<1>12. /\ Useable(t) \in Nat
       /\ Useable(t) > 0 => nxt + Useable(t) <= una + size
       /\ Useable(t) > 0 => nxt + Useable(t) <= una + wnd
  BY <1>4, <1>10, <1>11
<1> QED
  BY <1>12 DEF UseableOK, nxt, una, size, wnd

\* u is t but for the send list.
SameButList(t, u) ==
    /\ u.sbuf = t.sbuf /\ u.snd_una = t.snd_una
    /\ u.snd_nxt = t.snd_nxt /\ u.snd_wnd = t.snd_wnd /\ u.rto = t.rto
    /\ u.recover = t.recover /\ u.swnd_unit = t.swnd_unit
    /\ u.state = t.state /\ SameReceiver(t, u) /\ u.shutdown = t.shutdown
    /\ u.out = t.out /\ u.writeEnable = t.writeEnable

LEMMA ListTyped ==
    ASSUME NEW t \in Tcb, NEW list \in Seq(SSegment),
           NEW u, u = [t EXCEPT !.slist = list]
    PROVE  u \in Tcb /\ u.slist = list
  BY DEF Tcb

LEMMA ListSame ==
    ASSUME NEW t \in Tcb, NEW list, NEW u, u = [t EXCEPT !.slist = list]
    PROVE  SameButList(t, u)
  BY DEF Tcb, SameReceiver, SameButList

\* The send list may be cut up.
LEMMA ListKeeps ==
    ASSUME NEW c \in Context, NEW t, Sound(t, c), NEW list,
           Keeps(t.slist, list, t.snd_una, t.snd_nxt, t.snd_una + Len(t.sbuf)),
           NEW u, u = [t EXCEPT !.slist = list]
    PROVE  Sends(t, u, c)
<1>1. t \in Tcb /\ list \in Seq(SSegment)
  BY DEF Sound, Keeps
<1>2. u \in Tcb /\ u.slist = list
  BY <1>1, ListTyped
<1>3. /\ u.sbuf = t.sbuf /\ u.snd_una = t.snd_una
      /\ u.snd_nxt = t.snd_nxt /\ u.snd_wnd = t.snd_wnd /\ u.rto = t.rto
      /\ u.recover = t.recover /\ u.swnd_unit = t.swnd_unit
      /\ u.state = t.state /\ SameReceiver(t, u) /\ u.shutdown = t.shutdown
      /\ u.out = t.out /\ u.writeEnable = t.writeEnable
  <2>1. SameButList(t, u)
    BY <1>1, ListSame
  <2> QED
    BY <2>1 DEF SameButList
<1>4. SenderOK(u)
  BY <1>2, <1>3 DEF SenderOK, Sound, Keeps
<1>5. WindowOK(u, c.edge, c.nxt)
  BY <1>3 DEF WindowOK, Sound
<1>6. WrittenOK(u, c.taken)
  BY <1>3 DEF WrittenOK, Sound
<1>7. ReceiverOK(u, c.cuts, c.given) /\ Edge(u) = Edge(t)
  BY <1>3, SameReceiverKeeps DEF Sound
<1>8. Grows(t, u)
  <2>1. Cuts(t) \subseteq Cuts(u)
    BY <1>2, <1>3 DEF Cuts, Keeps
  <2>2. t.rcv_nxt <= u.rcv_nxt /\ Edge(t) <= Edge(u)
    BY <1>1, <1>3, <1>7, TcbType DEF Edge, SameReceiver
  <2> QED
    BY <2>1, <2>2 DEF Grows
<1>9. OutOK(u, c.cuts)
  <2>1. ASSUME NEW i \in DOMAIN u.out PROVE PacketOK(u.out[i], u, c.cuts)
    <3>1. i \in DOMAIN t.out /\ u.out[i] = t.out[i]
      BY <1>3
    <3>2. PacketOK(t.out[i], t, c.cuts)
      BY <3>1 DEF Sound, OutOK
    <3>3. t.out[i] \in Packet
      BY <1>1, <3>1, TcbType
    <3> QED
      BY <1>1, <1>2, <1>8, <3>1, <3>2, <3>3, PacketStays
  <2> QED
    BY <2>1 DEF OutOK
<1>10. Opens(u, c.sent)
  BY <1>3 DEF Sound, Opens
<1>11. \A x \in c.cuts : x <= Edge(u)
  BY <1>7 DEF Sound
<1>12. Sound(u, c)
  BY <1>2, <1>4, <1>5, <1>6, <1>7, <1>9, <1>10, <1>11 DEF Sound
<1> QED
  BY <1>3, <1>8, <1>12 DEF Sends

LEMMA OnlyTransmit ==
    \A s, i, env : Only({transmit(x, i, env) : x \in {s}}) = transmit(s, i, env)
<1> SUFFICES ASSUME NEW s, NEW i, NEW env
             PROVE  Only({transmit(x, i, env) : x \in {s}}) = transmit(s, i, env)
  OBVIOUS
<1>1. {transmit(x, i, env) : x \in {s}} = {transmit(s, i, env)}
  OBVIOUS
<1> QED
  BY <1>1, OnlyOne

\* The next segment, split at the useable window, is sent.
LEMMA SendNextKeeps ==
    ASSUME NEW c \in Context, NEW t, Sound(t, c), NEW env,
           NEW n, n = Useable(t), n # 0,
           NEW r, r = SendNext(t, n, env)
    PROVE  r \in SendType /\ Sends(t, r.tcb, c)
<1> DEFINE i == Least({j \in DOMAIN t.slist : t.slist[j].xmit = 0})
           end == t.snd_una + Len(t.sbuf)
           cut == Split(t.slist, i, n)
           s == [t EXCEPT !.slist = cut]
<1>1. t \in Tcb /\ SenderOK(t) /\ WindowOK(t, c.edge, c.nxt)
  BY DEF Sound
<1>2. /\ t.slist \in Seq(SSegment) /\ t.snd_una \in Nat /\ t.snd_nxt \in Nat
      /\ Len(t.sbuf) \in Nat /\ end \in Nat /\ t.snd_wnd \in Nat
  BY <1>1, TcbType
<1>3. Covers(t.slist, t.snd_una, t.snd_nxt, end) /\ SegmentsOK(t.slist)
  BY <1>1 DEF SenderOK
<1>4. n \in Nat /\ n > 0 /\ t.snd_nxt + n <= end
      /\ t.snd_nxt + n <= t.snd_una + t.snd_wnd
  <2>1. UseableOK(t)
    BY <1>1, UseableFacts
  <2>2. n \in Nat
    BY <2>1 DEF UseableOK
  <2>3. n > 0
    BY <2>2
  <2> QED
    BY <2>1, <2>2, <2>3 DEF UseableOK
<1> HIDE DEF end
<1>5. t.snd_nxt < end
  BY <1>2, <1>4
<1>6. i \in 1 .. Len(t.slist) /\ t.slist[i].xmit = 0
      /\ \A k \in 1 .. i - 1 : t.slist[k].xmit > 0
  BY <1>2, <1>3, <1>5, UnsentExists
<1> HIDE DEF i
<1>7. /\ Keeps(t.slist, cut, t.snd_una, t.snd_nxt, end)
      /\ i \in 1 .. Len(cut)
      /\ cut[i].len = Lower(t.slist[i].len, n)
      /\ cut[i].xmit = t.slist[i].xmit
      /\ \A k \in 1 .. i - 1 : cut[k] = t.slist[k]
  <2>1. cut = Split(t.slist, i, n)
    OBVIOUS
  <2> HIDE DEF cut
  <2>2. SplitInto(t.slist, i, n, cut, t.snd_una, t.snd_nxt, end)
    BY <1>2, <1>3, <1>4, <1>6, <2>1, SplitKeeps
  <2> QED
    BY <2>2 DEF SplitInto
<1>8. cut[i].len \in Nat /\ cut[i].len <= n
  <2>1. t.slist[i].len \in Nat
    BY <1>2, <1>6, SegmentType
  <2> DEFINE l == t.slist[i].len
  <2>2. Lower(l, n) \in Nat /\ Lower(l, n) <= n
    <3> HIDE DEF l
    <3> QED
      BY <2>1, <1>4 DEF l, Lower
  <2> QED
    BY <2>2, <1>7
<1> HIDE DEF cut
<1>9. Sends(t, s, c)
  BY <1>7, ListKeeps DEF end
<1>10. s.slist = cut /\ s.snd_nxt = t.snd_nxt
  <2>1. cut \in Seq(SSegment)
    BY <1>7 DEF Keeps
  <2> QED
    BY <1>1, <2>1, ListTyped, ListSame DEF SameButList
<1> HIDE DEF s
<1>11. s.snd_nxt + s.slist[i].len <= c.edge
  <2> DEFINE l == cut[i].len
             x == t.snd_nxt
             y == t.snd_una + t.snd_wnd
             e == c.edge
  <2>1. l \in Nat /\ l <= n /\ x \in Nat /\ x + n <= y /\ y <= e /\ y \in Nat
        /\ e \in Nat
    BY <1>1, <1>2, <1>4, <1>8 DEF WindowOK, Context
  <2> HIDE DEF l, x, y, e
  <2>2. x + l <= e
    BY <2>1, <1>4
  <2> QED
    BY <2>2, <1>10 DEF l, x, e
<1>12. i \in 1 .. Len(s.slist) /\ s.slist[i].xmit = 0
       /\ \A k \in 1 .. i - 1 : s.slist[k].xmit > 0
  BY <1>6, <1>7, <1>10
<1>13. r = transmit(s, i, env)
  BY OnlyTransmit DEF SendNext, s, i, cut
<1>14. r \in SendType /\ Sends(s, r.tcb, c)
  BY <1>9, <1>11, <1>12, <1>13, TransmitKeeps DEF Sends
<1> QED
  BY <1>1, <1>9, <1>14, SendsTrans

\* A round of the loop of attemptSend.
LEMMA SendRoundKeeps ==
    ASSUME NEW c \in Context, NEW t \in Tcb, NEW env,
           NEW r \in SendType, Sends(t, r.tcb, c),
           NEW q, q = SendRound(r, env)
    PROVE  q \in SendType /\ Sends(t, q.tcb, c)
<1>1. CASE q = [r EXCEPT !.ok = FALSE]
  BY <1>1 DEF SendType
<1>2. CASE Useable(r.tcb) # 0 /\ q = SendNext(r.tcb, Useable(r.tcb), env)
  <2>1. Sound(r.tcb, c)
    BY DEF Sends
  <2>2. q \in SendType /\ Sends(r.tcb, q.tcb, c)
    BY <2>1, <1>2, SendNextKeeps
  <2>3. Sends(t, q.tcb, c)
    BY <2>2, SendsTrans
  <2> QED
    BY <2>2, <2>3
<1> QED
  BY <1>1, <1>2 DEF SendRound

SendStep(r, env) == Only({SendRound(s, env) : s \in {r}})

LEMMA SendStepIs == \A r, env : SendStep(r, env) = SendRound(r, env)
<1> SUFFICES ASSUME NEW r, NEW env PROVE SendStep(r, env) = SendRound(r, env)
  OBVIOUS
<1>1. {SendRound(s, env) : s \in {r}} = {SendRound(r, env)}
  OBVIOUS
<1> QED
  BY <1>1, OnlyOne DEF SendStep

\* The loop that sends, given a set that its states stay in.
LEMMA SendRuns ==
    ASSUME NEW V, NEW env, \A r \in V : SendRound(r, env) \in V,
           NEW t, NEW x, x = [ok |-> TRUE, tcb |-> t], x \in V,
           Len(t.sbuf) \in Nat
    PROVE  \E r \in V : SendAll(t, env) = r.tcb
<1> DEFINE N == Len(t.sbuf)
           f == [r \in V |-> SendRound(r, env)]
           P(g) == g = [k \in 0 .. Len(t.sbuf) |->
                           IF k = 0 THEN [ok |-> TRUE, tcb |-> t]
                           ELSE SendStep(g[k - 1], env)]
<1>1. f \in [V -> V]
  OBVIOUS
<1> HIDE DEF N
<1>0. N \in Nat
  BY DEF N
<1>2. PICK g \in [0 .. N -> V] : g[0] = x /\ \A k \in 1 .. N : g[k] = f[g[k - 1]]
  <2> HIDE DEF f
  <2>1. HasRun(V, f, x, N)
    BY <1>0, <1>1, LoopRuns
  <2> QED
    BY <2>1 DEF HasRun
<1>3. P(g)
  <2> DEFINE h == [k \in 0 .. N |-> IF k = 0 THEN x ELSE SendStep(g[k - 1], env)]
  <2>1. ASSUME NEW k \in 0 .. N PROVE g[k] = h[k]
    <3>1. CASE k = 0
      BY <3>1, <1>2
    <3>2. CASE k # 0
      <4>1. k \in 1 .. N /\ k - 1 \in 0 .. N
        BY <3>2, <1>0
      <4>2. g[k] = SendRound(g[k - 1], env)
        BY <4>1, <1>2
      <4>3. h[k] = SendStep(g[k - 1], env)
        BY <3>2
      <4> QED
        BY <4>2, <4>3, SendStepIs
    <3> QED
      BY <3>1, <3>2
  <2>2. DOMAIN g = DOMAIN h /\ g = [k \in DOMAIN g |-> g[k]]
    OBVIOUS
  <2>3. h = [k \in DOMAIN h |-> h[k]]
    OBVIOUS
  <2> HIDE DEF h
  <2>4. g = h
    BY <2>1, <2>2, <2>3
  <2> QED
    BY <2>4 DEF h, N
<1> DEFINE a == CHOOSE h : P(h)
<1>4. P(a)
  <2> HIDE DEF a
  <2>1. \E h : P(h)
    BY <1>3, Zenon
  <2>2. LET Q(h) == P(h) IN (\E h : Q(h)) => Q(CHOOSE h : Q(h))
    BY Zenon
  <2> QED
    BY <2>1, <2>2, Zenon DEF a
<1>5. SendAll(t, env) = a[Len(t.sbuf)].tcb
  BY Zenon DEF SendAll, SendStep
<1> HIDE DEF a
<1> DEFINE T == {k \in Nat : k <= N => a[k] \in V}
<1>6. 0 \in T
  BY <1>0, <1>4 DEF N
<1>7. ASSUME NEW k \in T PROVE k + 1 \in T
  <2>1. CASE k + 1 <= N
    <3>1. k + 1 \in 0 .. N /\ k + 1 # 0 /\ k \in Nat /\ (k + 1) - 1 = k /\ k <= N
      BY <2>1, <1>0
    <3>2. a[k] \in V
      BY <3>1
    <3>3. a[k + 1] = SendStep(a[k], env)
      BY <3>1, <1>4 DEF N
    <3>4. a[k + 1] \in V
      BY <3>2, <3>3, SendStepIs
    <3> QED
      BY <3>1, <3>4
  <2>2. CASE ~(k + 1 <= N)
    BY <2>2
  <2> QED
    BY <2>1, <2>2
<1>8. T = Nat
  <2> HIDE DEF T
  <2>1. T \in SUBSET Nat
    BY DEF T
  <2> QED
    BY <1>6, <1>7, <2>1, Induction
<1>9. a[N] \in V
  BY <1>0, <1>8
<1> QED
  BY <1>5, <1>9 DEF N

\* That loop, however many rounds it makes.
LEMMA SendAllKeeps ==
    ASSUME NEW c \in Context, NEW t, Sound(t, c), NEW env
    PROVE  Sends(t, SendAll(t, env), c)
<1> DEFINE V == {r \in SendType : Sends(t, r.tcb, c)}
           x == [ok |-> TRUE, tcb |-> t]
<1>1. t \in Tcb /\ Len(t.sbuf) \in Nat
  <2>1. t \in Tcb
    BY DEF Sound
  <2> QED
    BY <2>1, TcbType
<1>2. x \in V
  <2>1. x \in SendType /\ x.tcb = t
    BY <1>1 DEF SendType
  <2> QED
    BY <2>1, <1>1, CalmSelf, CalmSends
<1>3. ASSUME NEW r \in V PROVE SendRound(r, env) \in V
  <2>1. r \in SendType /\ Sends(t, r.tcb, c)
    OBVIOUS
  <2>2. SendRound(r, env) \in SendType /\ Sends(t, SendRound(r, env).tcb, c)
    BY <2>1, <1>1, SendRoundKeeps
  <2> QED
    BY <2>2
<1>4. \A r \in V : SendRound(r, env) \in V
  BY <1>3
<1>5. \E r \in V : SendAll(t, env) = r.tcb
  <2> HIDE DEF V
  <2> QED
    BY <1>1, <1>2, <1>4, SendRuns
<1> QED
  BY <1>5

\* A packet without data may be sent at any time.
LEMMA EmptyKeeps ==
    ASSUME NEW c \in Context, NEW t, Sound(t, c), NEW seq \in Int,
           NEW u, u = packet(t, seq, FALSE, 0, 0)
    PROVE  Sends(t, u, c)
<1> DEFINE p == u.out[Len(t.out) + 1]
<1>1. t \in Tcb /\ SenderOK(t) /\ WindowOK(t, c.edge, c.nxt)
  BY DEF Sound
<1>2. Writes(t, u, seq, FALSE, 0, 0)
  <2>1. FALSE \in BOOLEAN /\ 0 \in Nat
    OBVIOUS
  <2> QED
    BY <1>1, <2>1, PacketIs
<1>3. Says(t, u, p) /\ PacketOf(p, t, seq, FALSE, 0, 0)
  BY <1>2 DEF Writes
<1>4. u.slist = t.slist /\ u.snd_nxt = t.snd_nxt /\ u.rto = t.rto
      /\ u.snd_una = t.snd_una
  BY <1>2, <1>3 DEF Writes, Says
<1> HIDE DEF p
<1>5. p.data = <<>> /\ p.ctl = FALSE
  <2>1. p.data \in Seq(Nat) /\ Len(p.data) = 0 /\ p.ctl = FALSE
    BY <1>3 DEF PacketOf, Packet
  <2> QED
    BY <2>1
<1>6. SendsOn(t, u, p)
  <2>1. Keeps(t.slist, u.slist, t.snd_una, u.snd_nxt, t.snd_una + Len(t.sbuf))
    BY <1>1, <1>4, TcbType DEF Keeps, SenderOK
  <2>2. t.snd_nxt <= u.snd_nxt /\ (u.snd_nxt = 0 \/ t.snd_nxt > 0)
    <3>1. t.snd_nxt \in Nat /\ u.snd_nxt = t.snd_nxt
      BY <1>1, <1>4, TcbType
    <3>2. \A n \in Nat : n <= n /\ (n = 0 \/ n > 0)
      OBVIOUS
    <3>3. t.snd_nxt <= t.snd_nxt /\ (t.snd_nxt = 0 \/ t.snd_nxt > 0)
      BY <3>1, <3>2
    <3> QED
      BY <3>1, <3>3
  <2>3. u.rto <=> u.snd_una # u.snd_nxt
    BY <1>1, <1>4 DEF SenderOK
  <2> QED
    <3>1. DataOK(p) /\ ~Late(p)
      BY <1>5 DEF DataOK, Late
    <3> QED
      BY <1>5, <2>1, <2>2, <2>3, <3>1 DEF SendsOn
<1>7. u.snd_nxt <= c.edge
  BY <1>1, <1>4 DEF WindowOK
<1> QED
  BY <1>3, <1>6, <1>7, SaysKeeps

LEMMA OweTyped ==
    ASSUME NEW t \in Tcb, NEW u, u = [t EXCEPT !.t_ack = TRUE]
    PROVE  Calm(t, u)
<1>1. u \in Tcb
  BY DEF Tcb
<1>2. /\ SameSender(t, u) /\ SameReceiver(t, u) /\ u.out = t.out
      /\ u.shutdown = t.shutdown /\ u.state = t.state
      /\ u.writeEnable = t.writeEnable
  BY DEF Tcb, SameSender, SameReceiver, StateMoves
<1> QED
  BY <1>1, <1>2 DEF Calm, Quiet

LEMMA CwndTyped ==
    ASSUME NEW t \in Tcb, NEW n \in Nat \ {0}, NEW u, u = [t EXCEPT !.cwnd = n]
    PROVE  Calm(t, u)
<1>1. u \in Tcb
  BY DEF Tcb
<1>2. /\ SameSender(t, u) /\ SameReceiver(t, u) /\ u.out = t.out
      /\ u.shutdown = t.shutdown /\ u.state = t.state
      /\ u.writeEnable = t.writeEnable
  BY DEF Tcb, SameSender, SameReceiver, StateMoves
<1> QED
  BY <1>1, <1>2 DEF Calm, Quiet

\* An acknowledgement that is sent or owed.
LEMMA AcknowledgeKeeps ==
    ASSUME NEW c \in Context, NEW t, Sound(t, c), NEW flags,
           NEW u, u = Acknowledge(t, flags)
    PROVE  Sends(t, u, c)
<1>1. t \in Tcb
  BY DEF Sound
<1>2. CASE u = t
  BY <1>1, <1>2, CalmSelf, CalmSends
<1>3. CASE u = packet(t, t.snd_nxt, FALSE, 0, 0)
  <2>1. t.snd_nxt \in Int
    BY <1>1, TcbType
  <2> QED
    BY <2>1, <1>3, EmptyKeeps
<1>4. CASE u = [t EXCEPT !.t_ack = TRUE]
  BY <1>1, <1>4, OweTyped, CalmSends
<1> QED
  BY <1>2, <1>3, <1>4 DEF Acknowledge

\* attemptSend once slow start was looked at.
SendStage(s, flags, env) ==
    IF Useable(s) = 0 THEN Acknowledge(s, flags) ELSE SendAll(s, env)

\* attemptSend in two stages: the idle window, then acknowledge or send.
LEMMA attemptSendIs ==
    \A t, flags, env :
        attemptSend(t, flags, env) =
            SendStage(IF env.idle THEN [t EXCEPT !.cwnd = t.mss] ELSE t, flags, env)
<1> SUFFICES ASSUME NEW t, NEW flags, NEW env
             PROVE  attemptSend(t, flags, env) =
                       SendStage(IF env.idle THEN [t EXCEPT !.cwnd = t.mss] ELSE t,
                                 flags, env)
  BY Zenon
<1> DEFINE v == IF env.idle THEN [t EXCEPT !.cwnd = t.mss] ELSE t
<1>1. attemptSend(t, flags, env) = Only({SendStage(s, flags, env) : s \in {v}})
  BY Zenon DEF attemptSend, SendStage
<1> HIDE DEF v
<1>2. {SendStage(s, flags, env) : s \in {v}} = {SendStage(v, flags, env)}
  OBVIOUS
<1> QED
  BY <1>1, <1>2, OnlyOne DEF v

\* Whatever attemptSend does, the object stays sound.
LEMMA attemptSendKeeps ==
    ASSUME NEW c \in Context, NEW t, Sound(t, c), NEW flags, NEW env,
           NEW u, u = attemptSend(t, flags, env)
    PROVE  Sends(t, u, c)
<1> DEFINE v == IF env.idle THEN [t EXCEPT !.cwnd = t.mss] ELSE t
<1>1. t \in Tcb
  BY DEF Sound
<1>2. Calm(t, v)
  <2>1. CASE v = t
    BY <2>1, <1>1, CalmSelf
  <2>2. CASE v = [t EXCEPT !.cwnd = t.mss]
    <3>1. t.mss \in Nat \ {0}
      BY <1>1 DEF Tcb
    <3> HIDE DEF v
    <3> QED
      BY <2>2, <3>1, <1>1, CwndTyped
  <2> QED
    BY <2>1, <2>2
<1>3. u = SendStage(v, flags, env)
  BY attemptSendIs
<1> HIDE DEF v
<1>4. Sends(t, v, c)
  BY <1>2, CalmSends
<1>5. Sound(v, c)
  BY <1>4 DEF Sends
<1>6. Sends(v, u, c)
  BY <1>3, <1>5, AcknowledgeKeeps, SendAllKeeps DEF SendStage
<1> QED
  BY <1>1, <1>4, <1>6, SendsTrans

(***************************************************************************)
(* Acknowledgements: closedown, retransmission and congestion control      *)
(***************************************************************************)

\* u is a later stage of a call than t, with nothing received in between.
Advances(t, u, c) ==
    Sound(u, c) /\ Grows(t, u) /\ SameReceiver(t, u) /\ u.shutdown = t.shutdown

\* u is t, closed or with other congestion control, options or limits.
Tuned(t, u) == Quiet(t, u) /\ u.shutdown = t.shutdown

LEMMA SendsAdvances ==
    ASSUME NEW t, NEW u, NEW c, Sends(t, u, c)
    PROVE  Advances(t, u, c)
  BY DEF Sends, Advances

LEMMA TunedAdvances ==
    ASSUME NEW c \in Context, NEW t, Sound(t, c), NEW u, Tuned(t, u)
    PROVE  Advances(t, u, c)
<1>1. Sound(u, c) /\ Grows(t, u)
  BY QuietKeeps DEF Tuned
<1> QED
  BY <1>1 DEF Advances, Tuned, Quiet

LEMMA TunedSelf ==
    ASSUME NEW t \in Tcb
    PROVE  Tuned(t, t)
  BY DEF Tuned, Quiet, SameSender, SameReceiver, StateMoves

LEMMA TunedTrans ==
    ASSUME NEW t, NEW u, NEW v, Tuned(t, u), Tuned(u, v)
    PROVE  Tuned(t, v)
  BY QuietTrans DEF Tuned

LEMMA AdvancesTrans ==
    ASSUME NEW c, NEW t \in Tcb, NEW u, NEW v, Advances(t, u, c), Advances(u, v, c)
    PROVE  Advances(t, v, c)
<1>1. u \in Tcb /\ v \in Tcb
  BY DEF Advances, Sound
<1>2. Grows(t, v)
  BY <1>1, GrowsTrans DEF Advances
<1>3. SameReceiver(t, v)
  BY DEF Advances, SameReceiver
<1> QED
  BY <1>2, <1>3 DEF Advances

LEMMA TwiceType ==
    ASSUME NEW n \in Nat, n > 0
    PROVE  2 * n \in Nat /\ 2 * n > 0 /\ 3 * n \in Nat /\ n \in Nat \ {0}
           /\ 2 * n \in Nat \ {0}
  OBVIOUS

LEMMA UpperType ==
    ASSUME NEW a \in Nat, NEW b \in Nat, a > 0 \/ b > 0
    PROVE  Upper(a, b) \in Nat \ {0}
  BY DEF Upper

LEMMA LowerType ==
    ASSUME NEW a \in Nat, NEW b \in Nat, a > 0, b > 0
    PROVE  Lower(a, b) \in Nat \ {0}
  BY DEF Lower

\* t with new limits.
Limited(t, l, m, s, w) ==
    [t EXCEPT !.msslevel = l, !.mss = m, !.ssthresh = s, !.cwnd = w]

LEMMA MtuTyped ==
    ASSUME NEW t \in Tcb, NEW l \in DOMAIN Levels, NEW m \in Nat \ {0},
           NEW s \in Nat \ {0}, NEW w \in Nat \ {0},
           NEW u, u = Limited(t, l, m, s, w)
    PROVE  Tuned(t, u) /\ u.state = t.state
<1> USE DEF Limited
<1>1. u \in Tcb
  BY DEF Tcb
<1>2. /\ SameSender(t, u) /\ SameReceiver(t, u) /\ u.out = t.out
      /\ u.shutdown = t.shutdown /\ u.state = t.state
  BY DEF Tcb, SameSender, SameReceiver, StateMoves
<1> QED
  BY <1>1, <1>2 DEF Tuned, Quiet

\* adjustMTU changes limits, not bytes.
LEMMA adjustMTUTunes ==
    ASSUME NEW t \in Tcb, NEW u, u = adjustMTU(t)
    PROVE  Tuned(t, u) /\ u.state = t.state
<1> DEFINE S == {l \in DOMAIN Levels : Levels[l] <= t.mtu_advise} \cup {Len(Levels)}
           l == Least(S)
           m == t.mtu_advise
           s == Upper(t.ssthresh, 2 * m)
           w == Upper(t.cwnd, m)
<1>1. S \in SUBSET Nat /\ S # {} /\ S \subseteq DOMAIN Levels
  <2>1. Len(Levels) \in DOMAIN Levels /\ DOMAIN Levels = 1 .. Len(Levels)
    BY LastLevel
  <2> QED
    BY <2>1
<1>2. l \in DOMAIN Levels
  <2> HIDE DEF S
  <2> QED
    BY <1>1, LeastIs
<1>3. m \in Nat /\ m > 0 /\ t.ssthresh \in Nat /\ t.cwnd \in Nat
  BY TcbType
<1> HIDE DEF m
<1>4. m \in Nat \ {0} /\ s \in Nat \ {0} /\ w \in Nat \ {0}
  <2>1. m \in Nat \ {0} /\ 2 * m \in Nat /\ 2 * m > 0
    BY <1>3, TwiceType
  <2> QED
    BY <2>1, <1>3, UpperType
<1>5. u = Limited(t, l, m, s, w)
  BY DEF adjustMTU, Limited, m
<1> HIDE DEF S, l, s, w
<1> QED
  BY <1>2, <1>4, <1>5, MtuTyped

LEMMA StateTyped ==
    ASSUME NEW t \in Tcb, NEW x \in TcpState, NEW v \in Nat,
           NEW u, u = [t EXCEPT !.state = x]
    PROVE  /\ u \in Tcb /\ u.state = x
           /\ StateMoves(t, u) => Tuned(t, u)
<1>1. u \in Tcb /\ u.state = x
  BY DEF Tcb
<1>2. /\ StateMoves(t, u) => SameSender(t, u)
      /\ SameReceiver(t, u) /\ u.out = t.out
      /\ u.shutdown = t.shutdown
  BY DEF Tcb, SameSender, SameReceiver
<1> QED
  BY <1>1, <1>2 DEF Tuned, Quiet

\* closedown changes the state alone.
LEMMA closedownTunes ==
    ASSUME NEW t \in Tcb, NEW u, u = closedown(t)
    PROVE  Tuned(t, u) /\ u.state = "CLOSED"
<1>1. u = [t EXCEPT !.state = "CLOSED"] /\ "CLOSED" \in TcpState /\ 0 \in Nat
  BY DEF closedown, TcpState
<1>2. u.state = "CLOSED"
  BY <1>1, StateTyped
<1>3. StateMoves(t, u)
  BY <1>2 DEF StateMoves
<1> QED
  BY <1>1, <1>2, <1>3, StateTyped

\* The connection is established with the limits it starts with.
LEMMA EstablishTunes ==
    ASSUME NEW t \in Tcb, t.state \in {"SYN_SENT", "SYN_RECEIVED"},
           NEW u, u = adjustMTU([t EXCEPT !.state = "ESTABLISHED"])
    PROVE  Tuned(t, u)
<1> DEFINE s == [t EXCEPT !.state = "ESTABLISHED"]
<1>1. "ESTABLISHED" \in TcpState /\ 0 \in Nat
  BY DEF TcpState
<1>2. s \in Tcb /\ s.state = "ESTABLISHED"
  BY <1>1, StateTyped
<1>3. StateMoves(t, s)
  <2> HIDE DEF s
  <2> QED
    BY <1>2 DEF StateMoves
<1>4. Tuned(t, s)
  BY <1>1, <1>3, StateTyped
<1>5. u = adjustMTU(s)
  OBVIOUS
<1> HIDE DEF s
<1> QED
  BY <1>2, <1>4, <1>5, adjustMTUTunes, TunedTrans

LEMMA UnitTyped ==
    ASSUME NEW t \in Tcb, NEW n \in Nat, n = Unit,
           NEW u, u = [t EXCEPT !.swnd_unit = n]
    PROVE  Tuned(t, u) /\ u.state = t.state
<1>1. u \in Tcb
  BY DEF Tcb
<1>2. /\ SameSender(t, u) /\ SameReceiver(t, u) /\ u.out = t.out
      /\ u.shutdown = t.shutdown /\ u.state = t.state
  BY DEF Tcb, SameSender, SameReceiver, StateMoves
<1> QED
  BY <1>1, <1>2 DEF Tuned, Quiet

\* Congestion control.
LEMMA ControlTyped ==
    ASSUME NEW t \in Tcb, NEW d \in Nat, NEW w \in Nat \ {0},
           NEW u, u = [t EXCEPT !.dup_acks = d, !.cwnd = w]
    PROVE  Tuned(t, u)
<1>1. u \in Tcb
  BY DEF Tcb
<1>2. /\ SameSender(t, u) /\ SameReceiver(t, u) /\ u.out = t.out
      /\ u.shutdown = t.shutdown
  BY DEF Tcb, SameSender, SameReceiver, StateMoves
<1> QED
  BY <1>1, <1>2 DEF Tuned, Quiet

LEMMA DupAcksTyped ==
    ASSUME NEW t \in Tcb, NEW d \in Nat, NEW u, u = [t EXCEPT !.dup_acks = d]
    PROVE  Tuned(t, u)
<1>1. u \in Tcb
  BY DEF Tcb
<1>2. /\ SameSender(t, u) /\ SameReceiver(t, u) /\ u.out = t.out
      /\ u.shutdown = t.shutdown
  BY DEF Tcb, SameSender, SameReceiver, StateMoves
<1> QED
  BY <1>1, <1>2 DEF Tuned, Quiet

LEMMA RecoveryTyped ==
    ASSUME NEW t \in Tcb, NEW s \in Nat \ {0}, NEW w \in Nat \ {0},
           NEW u, u = [t EXCEPT !.recover = t.snd_nxt, !.ssthresh = s, !.cwnd = w]
    PROVE  Tuned(t, u)
<1>1. u \in Tcb
  <2>1. t.snd_nxt \in Nat
    BY TcbType
  <2> QED
    BY <2>1 DEF Tcb
<1>2. /\ SameSender(t, u) /\ SameReceiver(t, u) /\ u.out = t.out
      /\ u.shutdown = t.shutdown
  BY DEF Tcb, SameSender, SameReceiver, StateMoves
<1> QED
  BY <1>1, <1>2 DEF Tuned, Quiet

LEMMA CalmTunes ==
    ASSUME NEW t, NEW u, Calm(t, u)
    PROVE  Tuned(t, u)
  BY DEF Calm, Tuned

\* A packet m of the peer as the object t and its surroundings c take it.
MessageOK(m, t, c) ==
    /\ m \in Packet /\ DataOK(m)
    /\ m.data # <<>> => m.seq + Len(m.data) \in c.cuts
    /\ m.ack \in Cuts(t) /\ m.ack <= c.nxt
    /\ m.ack + m.wnd * Unit <= c.edge
    /\ m.unit = Unit

\* A packet that is being processed stays right while the object moves on.
LEMMA MessageStays ==
    ASSUME NEW m, NEW t, NEW u, NEW c, MessageOK(m, t, c), Grows(t, u)
    PROVE  MessageOK(m, u, c)
  BY DEF MessageOK, Grows

\* The window a packet announces, in bytes.
LEMMA AnnouncedWindow ==
    ASSUME NEW t \in Tcb, SenderOK(t), NEW c \in Context, NEW m, MessageOK(m, t, c)
    PROVE  /\ m.ack \in Nat /\ m.wnd * t.swnd_unit \in Nat
           /\ m.ack + m.wnd * t.swnd_unit <= c.edge
<1>1. m.ack \in Nat /\ m.wnd \in Nat /\ Unit \in Nat /\ Unit > 0
  BY SizesAssumption DEF MessageOK, Packet
<1>2. t.swnd_unit = 1 \/ t.swnd_unit = Unit
  BY DEF SenderOK
<1> DEFINE w == m.wnd
           a == m.ack
           e == c.edge
<1>3. a + w * Unit <= e /\ e \in Nat
  BY DEF MessageOK, Context
<1>4. w \in Nat /\ a \in Nat
  BY <1>1
<1> HIDE DEF w, a, e
<1>5. w * 1 \in Nat /\ w * Unit \in Nat /\ w * 1 <= w * Unit
  BY <1>1, <1>4
<1>6. a + w * 1 <= e
  BY <1>3, <1>4, <1>5
<1>7. w * t.swnd_unit \in Nat /\ a + w * t.swnd_unit <= e
  <2>1. CASE t.swnd_unit = 1
    BY <2>1, <1>5, <1>6
  <2>2. CASE t.swnd_unit = Unit
    BY <2>2, <1>3, <1>5
  <2> QED
    BY <1>2, <2>1, <2>2
<1> QED
  BY <1>4, <1>7 DEF w, a, e

\* u is t but for what an acknowledgement sets.
Acks(t, u, wnd, una, rto, sbuf, slist) ==
    /\ u \in Tcb
    /\ u.snd_wnd = wnd /\ u.snd_una = una /\ u.rto = rto
    /\ u.sbuf = sbuf /\ u.slist = slist
    /\ u.snd_nxt = t.snd_nxt /\ u.recover = t.recover /\ u.swnd_unit = t.swnd_unit
    /\ u.state = t.state /\ u.out = t.out
    /\ SameReceiver(t, u) /\ u.shutdown = t.shutdown
    /\ u.dup_acks = t.dup_acks

Acked(t, wnd, una, rto, sbuf, slist) ==
    [t EXCEPT !.snd_wnd = wnd, !.snd_una = una, !.rto = rto,
              !.sbuf = sbuf, !.slist = slist]

LEMMA AckTyped ==
    ASSUME NEW t \in Tcb, NEW wnd \in Nat, NEW una \in Nat, NEW rto \in BOOLEAN,
           NEW sbuf \in Seq(Nat), NEW slist \in Seq(SSegment),
           NEW u, u = Acked(t, wnd, una, rto, sbuf, slist)
    PROVE  Acks(t, u, wnd, una, rto, sbuf, slist)
<1> USE DEF Acked
<1>1. u \in Tcb
  BY ZenonT(40) DEF Tcb
<1>2. /\ u.snd_wnd = wnd /\ u.snd_una = una /\ u.rto = rto
      /\ u.sbuf = sbuf /\ u.slist = slist
      /\ u.snd_nxt = t.snd_nxt /\ u.recover = t.recover /\ u.swnd_unit = t.swnd_unit
      /\ u.state = t.state /\ u.out = t.out
      /\ u.shutdown = t.shutdown /\ u.dup_acks = t.dup_acks
  BY DEF Tcb
<1>3. SameReceiver(t, u)
  BY DEF Tcb, SameReceiver
<1> QED
  BY <1>1, <1>2, <1>3 DEF Acks

\* What an acknowledgement of what was sent so far leaves is sound.
LEMMA AcksKeeps ==
    ASSUME NEW c \in Context, NEW t, Sound(t, c), NEW u, NEW wnd, NEW una, NEW rto,
           NEW sbuf, NEW slist, Acks(t, u, wnd, una, rto, sbuf, slist),
           Covers(slist, una, t.snd_nxt, una + Len(sbuf)), SegmentsOK(slist),
           CutsOf(t.slist, t.snd_una) \subseteq CutsOf(slist, una),
           \A i \in DOMAIN sbuf : sbuf[i] = una + (i - 1),
           rto <=> una # t.snd_nxt,
           una + Len(sbuf) = t.snd_una + Len(t.sbuf), Len(sbuf) <= SndBuf,
           una + wnd <= c.edge, una <= c.nxt
    PROVE  Advances(t, u, c)
<1>1. t \in Tcb /\ u \in Tcb
  BY DEF Sound, Acks
<1>2. SenderOK(u)
  BY DEF SenderOK, Sound, Acks
<1>3. WindowOK(u, c.edge, c.nxt)
  BY DEF WindowOK, Sound, Acks
<1>4. WrittenOK(u, c.taken)
  BY DEF WrittenOK, Sound, Acks
<1>5. ReceiverOK(u, c.cuts, c.given) /\ Edge(u) = Edge(t)
  BY SameReceiverKeeps DEF Sound, Acks
<1>6. Grows(t, u)
  <2>1. Cuts(t) \subseteq Cuts(u)
    BY DEF Cuts, Acks
  <2>2. t.rcv_nxt <= u.rcv_nxt
    BY <1>1, TcbType DEF Acks, SameReceiver
  <2>3. Edge(t) <= Edge(u)
    BY <1>1, <1>5, TcbType DEF Edge
  <2> QED
    BY <2>1, <2>2, <2>3 DEF Grows
<1>7. OutOK(u, c.cuts)
  <2>1. ASSUME NEW i \in DOMAIN u.out PROVE PacketOK(u.out[i], u, c.cuts)
    <3>1. i \in DOMAIN t.out /\ u.out[i] = t.out[i]
      BY DEF Acks
    <3>2. PacketOK(t.out[i], t, c.cuts)
      BY <3>1 DEF Sound, OutOK
    <3>3. t.out[i] \in Packet
      BY <1>1, <3>1, TcbType
    <3> QED
      BY <1>1, <1>6, <3>1, <3>2, <3>3, PacketStays
  <2> QED
    BY <2>1 DEF OutOK
<1>8. Opens(u, c.sent)
  BY DEF Sound, Opens, Acks
<1>9. \A x \in c.cuts : x <= Edge(u)
  BY <1>5 DEF Sound
<1>10. Sound(u, c)
  BY <1>1, <1>2, <1>3, <1>4, <1>5, <1>7, <1>8, <1>9 DEF Sound
<1> QED
  BY <1>6, <1>10 DEF Advances, Acks

LEMMA RestOfBuffer ==
    ASSUME NEW s \in Seq(Nat), NEW n \in Nat, n <= Len(s), NEW u,
           u = SubSeq(s, n + 1, Len(s))
    PROVE  /\ u \in Seq(Nat) /\ Len(u) = Len(s) - n
           /\ \A i \in 1 .. Len(s) - n : n + i \in 1 .. Len(s) /\ u[i] = s[n + i]
<1>1. Len(s) \in Nat
  OBVIOUS
<1>2. u \in Seq(Nat) /\ Len(u) = Len(s) - n
  <2>1. u \in Seq(Nat)
    BY <1>1, SMT
  <2>2. Len(u) = IF n + 1 <= Len(s) THEN (Len(s) - (n + 1)) + 1 ELSE 0
    BY <1>1
  <2> QED
    BY <1>1, <2>1, <2>2
<1>3. ASSUME NEW i \in 1 .. Len(s) - n
      PROVE  n + i \in 1 .. Len(s) /\ u[i] = s[n + i]
  <2>1. i \in Nat /\ i >= 1 /\ i <= Len(s) - n
    BY <1>1
  <2>2. n + i <= Len(s) /\ n + i >= 1 /\ n + i \in Nat
    BY <1>1, <2>1
  <2>3. i \in 1 .. (Len(s) - (n + 1)) + 1
    BY <1>1, <2>1
  <2>4. u[i] = s[((n + 1) + i) - 1]
    BY <1>1, <2>3
  <2>5. ((n + 1) + i) - 1 = n + i
    BY <2>1
  <2> QED
    BY <1>1, <2>2, <2>4, <2>5
<1> QED
  BY <1>2, <1>3

\* A new acknowledgement frees the buffer up to a cut (pseudotcp.cc:758).
LEMMA NewAckAdvances ==
    ASSUME NEW c \in Context, NEW t, Sound(t, c), NEW m, MessageOK(m, t, c),
           m.ack > t.snd_una, m.ack <= t.snd_nxt, NEW u, u = NewAck(t, m)
    PROVE  Advances(t, u, c) /\ u.dup_acks = t.dup_acks
<1> DEFINE una == t.snd_una
           nxt == t.snd_nxt
           size == Len(t.sbuf)
           end == una + size
           ack == m.ack
           n == ack - una
           wnd == m.wnd * t.swnd_unit
           rto == ack # nxt
           sbuf == SubSeq(t.sbuf, n + 1, Len(t.sbuf))
           slist == Free(t.slist, n)
<1>1. t \in Tcb /\ SenderOK(t)
  BY DEF Sound
<1>2. /\ t.slist \in Seq(SSegment) /\ una \in Nat /\ nxt \in Nat
      /\ size \in Nat /\ end \in Nat /\ t.sbuf \in Seq(Nat)
  BY <1>1, TcbType
<1>3. Covers(t.slist, una, nxt, end) /\ SegmentsOK(t.slist)
  BY <1>1 DEF SenderOK
<1>4. ack \in Nat /\ wnd \in Nat /\ ack + wnd <= c.edge
  BY <1>1, AnnouncedWindow
<1>5. una <= ack /\ ack <= nxt /\ nxt <= end /\ una < ack
  BY <1>2, <1>3, <1>4 DEF Covers
<1>6. ack \in CutsOf(t.slist, una) /\ ack <= c.nxt
  BY DEF MessageOK, Cuts
<1> HIDE DEF end
<1>7. /\ slist \in Seq(SSegment) /\ Covers(slist, ack, nxt, end) /\ SegmentsOK(slist)
      /\ CutsOf(t.slist, una) \subseteq CutsOf(slist, ack)
  BY <1>2, <1>3, <1>4, <1>5, <1>6, FreeFacts
<1>8. n \in Nat /\ n <= size
  <2> HIDE DEF una, nxt, ack, size
  <2> QED
    BY <1>2, <1>4, <1>5 DEF end
<1> HIDE DEF ack, n
<1>9. /\ sbuf \in Seq(Nat) /\ Len(sbuf) = size - n
      /\ \A i \in 1 .. size - n : n + i \in 1 .. size /\ sbuf[i] = t.sbuf[n + i]
  BY <1>2, <1>8, RestOfBuffer
<1> HIDE DEF sbuf, slist, wnd
<1>10. ack + Len(sbuf) = end
  <2> HIDE DEF una, nxt, size
  <2> QED
    BY <1>2, <1>4, <1>5, <1>8, <1>9 DEF end, n
<1>11. ASSUME NEW i \in DOMAIN sbuf PROVE sbuf[i] = ack + (i - 1)
  <2>1. i \in 1 .. size - n /\ i \in Nat
    BY <1>2, <1>8, <1>9, SMTT(40)
  <2>2. n + i \in 1 .. size /\ sbuf[i] = t.sbuf[n + i]
    BY <2>1, <1>9
  <2>3. t.sbuf[n + i] = una + ((n + i) - 1)
    BY <2>2, <1>1, <1>2 DEF SenderOK
  <2>4. una + ((n + i) - 1) = ack + (i - 1)
    <3> HIDE DEF una
    <3> QED
      BY <2>1, <1>2, <1>4, <1>5, <1>8 DEF n
  <2> QED
    BY <2>2, <2>3, <2>4
<1>12. Len(sbuf) <= SndBuf
  <2>1. size <= SndBuf /\ SndBuf \in Nat
    BY <1>1, SizesAssumption DEF SenderOK
  <2> HIDE DEF size
  <2> QED
    BY <2>1, <1>2, <1>8, <1>9
<1>13. rto \in BOOLEAN
  OBVIOUS
<1>14. u = Acked(t, wnd, ack, rto, sbuf, slist)
  BY DEF NewAck, Acked, wnd, ack, rto, sbuf, slist, n
<1> HIDE DEF rto
<1>15. Acks(t, u, wnd, ack, rto, sbuf, slist)
  BY <1>1, <1>4, <1>7, <1>9, <1>13, <1>14, AckTyped
<1>16. Covers(slist, ack, t.snd_nxt, ack + Len(sbuf))
  BY <1>7, <1>10
<1>17. ack + Len(sbuf) = t.snd_una + Len(t.sbuf)
  BY <1>10 DEF end
<1>18. rto <=> ack # t.snd_nxt
  BY DEF rto
<1>19. Advances(t, u, c)
  BY <1>4, <1>6, <1>7, <1>11, <1>12, <1>15, <1>16, <1>17, <1>18, AcksKeeps
<1> QED
  BY <1>15, <1>19 DEF Acks

\* u is a later stage of a call than t, with the same data to send.
Steady(t, u, c) ==
    /\ Advances(t, u, c)
    /\ u.sbuf = t.sbuf /\ u.writeEnable = t.writeEnable
    /\ u.state = t.state \/ u.state = "CLOSED"
    /\ u.snd_una = t.snd_una

LEMMA SteadyTrans ==
    ASSUME NEW c, NEW t \in Tcb, NEW u, NEW v, Steady(t, u, c), Steady(u, v, c)
    PROVE  Steady(t, v, c)
<1>1. Advances(t, v, c)
  BY AdvancesTrans DEF Steady
<1> QED
  BY <1>1 DEF Steady

\* No peer can acknowledge what was not sent.
LEMMA CutsWithin ==
    ASSUME NEW t \in Tcb, SenderOK(t), NEW x \in Cuts(t)
    PROVE  x \in Nat /\ x <= t.snd_nxt
<1>1. /\ t.slist \in Seq(SSegment) /\ t.snd_una \in Nat /\ t.snd_nxt \in Nat
      /\ t.snd_una <= t.snd_nxt
  BY TcbType DEF SenderOK, Covers
<1>2. CASE x \in 0 .. t.snd_una
  BY <1>1, <1>2
<1>3. ASSUME NEW i \in DOMAIN t.slist, t.slist[i].xmit > 0,
             x = t.slist[i].seq + t.slist[i].len
      PROVE  x \in Nat /\ x <= t.snd_nxt
  <2>1. i \in 1 .. Len(t.slist)
    BY <1>1
  <2>2. t.slist[i].seq \in Nat /\ t.slist[i].len \in Nat
    BY <1>1, <2>1, SegmentType
  <2>3. t.slist[i].seq + t.slist[i].len <= t.snd_nxt
    BY <1>3, <2>1 DEF SenderOK, Covers
  <2> QED
    BY <1>3, <2>2, <2>3
<1> QED
  BY <1>2, <1>3 DEF Cuts, CutsOf

\* The first segment ends beyond what is acknowledged, at what may be.
LEMMA FirstIsCut ==
    ASSUME NEW t \in Tcb, SenderOK(t), t.snd_una # t.snd_nxt
    PROVE  \E x \in Cuts(t) : x > t.snd_una
<1> DEFINE x == t.slist[1].seq + t.slist[1].len
<1>1. /\ t.slist \in Seq(SSegment) /\ t.snd_una \in Nat /\ t.snd_nxt \in Nat
      /\ t.snd_una + Len(t.sbuf) \in Nat
      /\ Covers(t.slist, t.snd_una, t.snd_nxt, t.snd_una + Len(t.sbuf))
  <2>1. Len(t.sbuf) \in Nat
    BY TcbType
  <2> QED
    BY <2>1, TcbType DEF SenderOK
<1>2. 1 \in 1 .. Len(t.slist) /\ t.slist[1].xmit > 0
  BY <1>1, FirstIsSent
<1>3. x \in Cuts(t)
  BY <1>1, <1>2 DEF Cuts, CutsOf
<1>4. t.slist[1].seq = t.snd_una /\ t.slist[1].len > 0
  BY <1>1, <1>2 DEF Covers
<1>5. t.slist[1].len \in Nat
  BY <1>1, <1>2, SegmentType
<1>6. x > t.snd_una
  BY <1>1, <1>4, <1>5
<1> QED
  BY <1>3, <1>6

\* What is not acknowledged stays timed.
LEMMA StillUnacked ==
    ASSUME NEW c, NEW t \in Tcb, SenderOK(t), t.snd_una # t.snd_nxt,
           NEW u, Steady(t, u, c)
    PROVE  u.snd_una # u.snd_nxt /\ u.rto
<1>1. u \in Tcb /\ SenderOK(u) /\ Cuts(t) \subseteq Cuts(u)
      /\ u.snd_una = t.snd_una
  BY DEF Steady, Advances, Sound, Grows
<1>2. PICK x \in Cuts(t) : x > t.snd_una
  BY FirstIsCut
<1>3. x \in Nat /\ x <= u.snd_nxt
  BY <1>1, <1>2, CutsWithin
<1>4. t.snd_una \in Nat /\ u.snd_nxt \in Nat
  BY <1>1, TcbType
<1>5. u.snd_una # u.snd_nxt
  BY <1>1, <1>2, <1>3, <1>4
<1> QED
  BY <1>1, <1>5 DEF SenderOK

\* closedown is steady.
LEMMA closedownSteady ==
    ASSUME NEW c \in Context, NEW t, Sound(t, c), NEW u, u = closedown(t)
    PROVE  Steady(t, u, c) /\ u.state = "CLOSED"
<1>1. t \in Tcb
  BY DEF Sound
<1>2. Tuned(t, u) /\ u.state = "CLOSED"
  BY <1>1, closedownTunes
<1>3. u.sbuf = t.sbuf /\ u.writeEnable = t.writeEnable /\ u.snd_una = t.snd_una
  BY <1>1 DEF closedown, Tcb
<1>4. Advances(t, u, c)
  BY <1>2, TunedAdvances
<1> QED
  BY <1>2, <1>3, <1>4 DEF Steady

\* Retransmit: the first segment again, or the connection is closed.
LEMMA RetransmitIs ==
    \A t, env : Retransmit(t, env) = IF transmit(t, 1, env).ok
                                     THEN transmit(t, 1, env).tcb
                                     ELSE closedown(transmit(t, 1, env).tcb)
<1> DEFINE F(r) == IF r.ok THEN r.tcb ELSE closedown(r.tcb)
<1> SUFFICES ASSUME NEW t, NEW env
             PROVE  Retransmit(t, env) = F(transmit(t, 1, env))
  OBVIOUS
<1>1. Retransmit(t, env) = Only({F(r) : r \in {transmit(t, 1, env)}})
  BY Zenon DEF Retransmit
<1> HIDE DEF F
<1>2. \A x : {F(r) : r \in {x}} = {F(x)}
  OBVIOUS
<1> QED
  BY <1>1, <1>2, OnlyOne

\* Retransmission keeps the object sound.
LEMMA RetransmitKeeps ==
    ASSUME NEW c \in Context, NEW t, Sound(t, c), t.snd_una # t.snd_nxt, NEW env,
           NEW u, u = Retransmit(t, env)
    PROVE  Steady(t, u, c)
<1> DEFINE r == transmit(t, 1, env)
<1>1. t \in Tcb /\ SenderOK(t)
  BY DEF Sound
<1>2. 1 \in 1 .. Len(t.slist) /\ t.slist[1].xmit > 0
  <2>1. /\ t.slist \in Seq(SSegment) /\ t.snd_una \in Nat /\ t.snd_nxt \in Nat
        /\ t.snd_una + Len(t.sbuf) \in Nat
        /\ Covers(t.slist, t.snd_una, t.snd_nxt, t.snd_una + Len(t.sbuf))
    <3>1. Len(t.sbuf) \in Nat
      BY <1>1, TcbType
    <3> QED
      BY <1>1, <3>1, TcbType DEF SenderOK
  <2> QED
    BY <2>1, FirstIsSent
<1>3. u = IF r.ok THEN r.tcb ELSE closedown(r.tcb)
  BY RetransmitIs
<1>4. t.slist[1].xmit # 0
  BY <1>2
<1>5. r \in SendType /\ Sends(t, r.tcb, c)
  BY <1>2, <1>4, TransmitKeeps
<1> HIDE DEF r
<1>6. Steady(t, r.tcb, c)
  <2>1. Advances(t, r.tcb, c)
    BY <1>5, SendsAdvances
  <2> QED
    BY <1>5, <2>1 DEF Sends, Steady
<1>7. Sound(r.tcb, c)
  BY <1>5 DEF Sends
<1>8. CASE u = r.tcb
  BY <1>6, <1>8
<1>9. CASE u = closedown(r.tcb)
  <2>1. Steady(r.tcb, u, c)
    BY <1>7, <1>9, closedownSteady
  <2> QED
    BY <1>1, <1>6, <2>1, SteadyTrans
<1> QED
  BY <1>3, <1>8, <1>9

LEMMA ThresholdType ==
    ASSUME NEW t \in Tcb, SenderOK(t)
    PROVE  InFlight(t) \in Nat /\ Upper(InFlight(t) \div 2, 2 * t.mss) \in Nat \ {0}
<1>1. t.snd_una \in Nat /\ t.snd_nxt \in Nat /\ t.snd_una <= t.snd_nxt
  BY TcbType DEF SenderOK, Covers
<1>2. InFlight(t) \in Nat
  BY <1>1 DEF InFlight
<1> DEFINE f == InFlight(t)
           m == t.mss
<1>3. f \in Nat /\ m \in Nat /\ m > 0
  BY <1>2, TcbType
<1> HIDE DEF f, m
<1>4. f \div 2 \in Nat /\ 2 * m \in Nat /\ 2 * m > 0
  BY <1>3
<1>5. Upper(f \div 2, 2 * m) \in Nat \ {0}
  BY <1>4, UpperType
<1> QED
  BY <1>2, <1>5 DEF f, m

\* What a tuning that leaves the data alone amounts to.
LEMMA TunedSteady ==
    ASSUME NEW c \in Context, NEW t, Sound(t, c), NEW u, Tuned(t, u),
           u.writeEnable = t.writeEnable, u.state = t.state
    PROVE  Steady(t, u, c)
<1>1. Advances(t, u, c)
  BY TunedAdvances
<1> QED
  BY <1>1 DEF Steady, Tuned, Quiet, SameSender

\* t with its retransmission timer running and a new congestion window.
Restarted(t, s, w) == [t EXCEPT !.ssthresh = s, !.cwnd = w, !.rto = TRUE]

LEMMA BackoffTyped ==
    ASSUME NEW t \in Tcb, t.rto, NEW s \in Nat \ {0}, NEW w \in Nat \ {0},
           NEW u, u = Restarted(t, s, w)
    PROVE  Tuned(t, u) /\ u.writeEnable = t.writeEnable /\ u.state = t.state
<1> USE DEF Restarted
<1>1. u \in Tcb
  BY DEF Tcb
<1>2. t.rto = TRUE
  BY DEF Tcb
<1>3. /\ u.shutdown = t.shutdown /\ u.writeEnable = t.writeEnable
      /\ u.state = t.state /\ u.out = t.out
  BY DEF Tcb
<1>4. SameSender(t, u)
  BY <1>2 DEF Tcb, SameSender, StateMoves
<1>5. SameReceiver(t, u)
  BY DEF Tcb, SameReceiver
<1> QED
  BY <1>1, <1>3, <1>4, <1>5 DEF Tuned, Quiet

\* The back-off of an expired timer (pseudotcp.cc:338).
LEMMA BackoffKeeps ==
    ASSUME NEW c \in Context, NEW t, Sound(t, c), t.rto, NEW u, u = Backoff(t)
    PROVE  Steady(t, u, c)
<1>1. t \in Tcb /\ SenderOK(t)
  BY DEF Sound
<1> DEFINE s == Upper(InFlight(t) \div 2, 2 * t.mss)
<1>2. s \in Nat \ {0} /\ t.mss \in Nat \ {0}
  BY <1>1, ThresholdType DEF Tcb
<1>3. CASE u = t
  BY <1>1, <1>3, TunedSelf, TunedSteady
<1>4. CASE u = Restarted(t, s, t.mss)
  <2> HIDE DEF s
  <2>1. Tuned(t, u) /\ u.writeEnable = t.writeEnable /\ u.state = t.state
    BY <1>1, <1>2, <1>4, BackoffTyped
  <2> QED
    BY <2>1, TunedSteady
<1> QED
  BY <1>3, <1>4 DEF Backoff, Restarted

\* The retransmission timer.
LEMMA TimedOutKeeps ==
    ASSUME NEW c \in Context, NEW t, Sound(t, c), t.rto, NEW env,
           NEW u, u = Only({Backoff(r) : r \in {Retransmit(t, env)}})
    PROVE  Steady(t, u, c)
<1> DEFINE r == Retransmit(t, env)
<1>1. t \in Tcb /\ SenderOK(t) /\ t.snd_una # t.snd_nxt
  BY DEF Sound, SenderOK
<1>2. Steady(t, r, c)
  BY <1>1, RetransmitKeeps
<1>3. r.rto /\ Sound(r, c)
  BY <1>1, <1>2, StillUnacked DEF Steady, Advances
<1>4. u = Only({Backoff(x) : x \in {r}})
  OBVIOUS
<1> HIDE DEF r
<1>5. {Backoff(x) : x \in {r}} = {Backoff(r)}
  OBVIOUS
<1>6. u = Backoff(r)
  BY <1>4, <1>5, OnlyOne
<1>7. Steady(r, u, c)
  BY <1>3, <1>6, BackoffKeeps
<1> QED
  BY <1>1, <1>2, <1>7, SteadyTrans

LEMMA EnterRecoveryTunes ==
    ASSUME NEW r \in Tcb, SenderOK(r), NEW u, u = EnterRecovery(r)
    PROVE  Tuned(r, u)
<1> DEFINE s == Upper(InFlight(r) \div 2, 2 * r.mss)
           m == r.mss
           w == s + 3 * m
<1>1. s \in Nat \ {0} /\ m \in Nat /\ m > 0
  BY ThresholdType, TcbType
<1> HIDE DEF s, m
<1>2. w \in Nat \ {0}
  <2>1. 3 * m \in Nat
    BY <1>1
  <2> QED
    BY <1>1, <2>1
<1>3. CASE u = r
  BY <1>3, TunedSelf
<1>4. CASE u = [r EXCEPT !.recover = r.snd_nxt, !.ssthresh = s, !.cwnd = w]
  <2> HIDE DEF w
  <2> QED
    BY <1>1, <1>2, <1>4, RecoveryTyped, Zenon
<1> QED
  BY <1>3, <1>4 DEF EnterRecovery, s, m

LEMMA DeflateTunes ==
    ASSUME NEW r \in Tcb, NEW n \in Nat, NEW u, u = Deflate(r, n)
    PROVE  Tuned(r, u)
<1> DEFINE w == r.cwnd
           m == r.mss
           x == Lower(n, w)
           v == w + m - x
<1>1. w \in Nat /\ m \in Nat /\ m > 0
  BY TcbType
<1> HIDE DEF w, m
<1>2. x \in Nat /\ x <= w
  BY <1>1 DEF Lower
<1> HIDE DEF x
<1>3. v \in Nat \ {0}
  BY <1>1, <1>2
<1>4. CASE u = r
  BY <1>4, TunedSelf
<1>5. CASE u = [r EXCEPT !.cwnd = v]
  <2> HIDE DEF v
  <2> QED
    BY <1>3, <1>5, CwndTyped, CalmTunes
<1>6. u = r \/ u = [r EXCEPT !.cwnd = v]
  BY DEF Deflate, v, x, m, w
<1> QED
  BY <1>4, <1>5, <1>6

\* Congestion avoidance: at least one byte more, for a positive window.
LEMMA GrownWindow ==
    ASSUME NEW w \in Nat, w > 0, NEW m \in Nat, m > 0
    PROVE  w + m \in Nat \ {0} /\ w + Upper(1, (m * m) \div w) \in Nat \ {0}
<1>1. m * m \in Nat
  OBVIOUS
<1> DEFINE q == m * m
<1>2. q \in Nat
  BY <1>1
<1> HIDE DEF q
<1>3. q \div w \in Nat
  BY <1>2
<1>4. Upper(1, q \div w) \in Nat
  BY <1>3 DEF Upper
<1>5. w + Upper(1, q \div w) \in Nat \ {0}
  BY <1>4
<1> QED
  BY <1>5 DEF q

LEMMA RecoverIs ==
    \A t, n, env :
        Recover(t, n, env) =
            IF t.dup_acks < 3
            THEN [t EXCEPT !.dup_acks = 0,
                           !.cwnd = IF @ < t.ssthresh THEN @ + t.mss
                                    ELSE @ + Upper(1, (t.mss * t.mss) \div @)]
            ELSE IF t.snd_una >= t.recover
            THEN [t EXCEPT !.dup_acks = 0,
                           !.cwnd = Lower(t.ssthresh, InFlight(t) + t.mss)]
            ELSE Deflate(Retransmit(t, env), n)
<1> SUFFICES ASSUME NEW t, NEW n, NEW env
             PROVE  Only({Deflate(r, n) : r \in {Retransmit(t, env)}}) =
                       Deflate(Retransmit(t, env), n)
  BY DEF Recover
<1>1. \A x : {Deflate(r, n) : r \in {x}} = {Deflate(x, n)}
  OBVIOUS
<1> QED
  BY <1>1, OnlyOne

\* A new acknowledgement in fast recovery (pseudotcp.cc:772).
LEMMA RecoverAdvances ==
    ASSUME NEW c \in Context, NEW t, Sound(t, c), NEW n \in Nat, NEW env,
           NEW u, u = Recover(t, n, env)
    PROVE  Advances(t, u, c)
<1> DEFINE w == t.cwnd
           m == t.mss
           f == InFlight(t)
           s == t.ssthresh
           w1 == IF w < s THEN w + m ELSE w + Upper(1, (m * m) \div w)
           w2 == Lower(s, f + m)
<1>1. t \in Tcb /\ SenderOK(t)
  BY DEF Sound
<1>2. w \in Nat /\ w > 0 /\ m \in Nat /\ m > 0 /\ s \in Nat /\ s > 0 /\ f \in Nat
      /\ 0 \in Nat /\ t.snd_una \in Nat /\ t.recover \in Nat
  BY <1>1, TcbType, ThresholdType
<1>3. \/ u = [t EXCEPT !.dup_acks = 0, !.cwnd = w1]
      \/ u = [t EXCEPT !.dup_acks = 0, !.cwnd = w2]
      \/ /\ u = Deflate(Retransmit(t, env), n)
         /\ ~(t.snd_una >= t.recover)
  BY RecoverIs, Zenon
<1> HIDE DEF w, m, f, s
<1>4. w1 \in Nat \ {0}
  BY <1>2, GrownWindow
<1>5. w2 \in Nat \ {0}
  <2>1. f + m \in Nat /\ f + m > 0
    BY <1>2
  <2> QED
    BY <1>2, <2>1, LowerType
<1> HIDE DEF w1, w2
<1>6. CASE u = [t EXCEPT !.dup_acks = 0, !.cwnd = w1]
  BY <1>1, <1>2, <1>4, <1>6, ControlTyped, TunedAdvances, Zenon
<1>7. CASE u = [t EXCEPT !.dup_acks = 0, !.cwnd = w2]
  BY <1>1, <1>2, <1>5, <1>7, ControlTyped, TunedAdvances, Zenon
<1>8. CASE u = Deflate(Retransmit(t, env), n) /\ ~(t.snd_una >= t.recover)
  <2> DEFINE r == Retransmit(t, env)
  <2>1. t.snd_una # t.snd_nxt
    <3>1. t.recover <= t.snd_nxt /\ t.snd_nxt \in Nat
      BY <1>1, TcbType DEF SenderOK
    <3> QED
      BY <1>2, <1>8, <3>1
  <2>2. Steady(t, r, c)
    BY <2>1, RetransmitKeeps
  <2>3. Sound(r, c) /\ r \in Tcb /\ Advances(t, r, c)
    BY <2>2 DEF Steady, Advances, Sound
  <2>4. Tuned(r, u)
    <3> HIDE DEF r
    <3>1. u = Deflate(r, n)
      BY <1>8 DEF r
    <3> QED
      BY <2>3, <3>1, DeflateTunes
  <2> HIDE DEF r
  <2>5. Advances(r, u, c)
    BY <2>3, <2>4, TunedAdvances
  <2> QED
    BY <1>1, <2>3, <2>5, AdvancesTrans
<1> QED
  BY <1>3, <1>6, <1>7, <1>8

LEMMA AnnouncedTyped ==
    ASSUME NEW t \in Tcb, NEW w \in Nat, NEW u, u = [t EXCEPT !.snd_wnd = w]
    PROVE  /\ Acks(t, u, w, t.snd_una, t.rto, t.sbuf, t.slist)
           /\ u.writeEnable = t.writeEnable
<1>1. u \in Tcb
  BY DEF Tcb
<1>2. /\ u.snd_wnd = w /\ u.snd_una = t.snd_una /\ u.rto = t.rto
      /\ u.sbuf = t.sbuf /\ u.slist = t.slist
      /\ u.snd_nxt = t.snd_nxt /\ u.recover = t.recover /\ u.swnd_unit = t.swnd_unit
      /\ u.state = t.state /\ u.out = t.out
      /\ u.shutdown = t.shutdown /\ u.dup_acks = t.dup_acks
      /\ u.writeEnable = t.writeEnable
  BY DEF Tcb
<1>3. SameReceiver(t, u)
  BY DEF Tcb, SameReceiver
<1> QED
  BY <1>1, <1>2, <1>3 DEF Acks

\* The window m announces when it acknowledges nothing new.
LEMMA AnnouncedAdvances ==
    ASSUME NEW c \in Context, NEW t, Sound(t, c), NEW m, MessageOK(m, t, c),
           m.ack = t.snd_una, NEW u, u = [t EXCEPT !.snd_wnd = m.wnd * t.swnd_unit]
    PROVE  Advances(t, u, c) /\ u.snd_una = t.snd_una /\ u.snd_nxt = t.snd_nxt
<1> DEFINE w == m.wnd * t.swnd_unit
<1>1. t \in Tcb /\ SenderOK(t) /\ WindowOK(t, c.edge, c.nxt)
  BY DEF Sound
<1>2. w \in Nat /\ t.snd_una + w <= c.edge
  BY <1>1, AnnouncedWindow
<1>3. u = [t EXCEPT !.snd_wnd = w]
  OBVIOUS
<1> HIDE DEF w
<1>4. Acks(t, u, w, t.snd_una, t.rto, t.sbuf, t.slist)
  BY <1>1, <1>2, <1>3, AnnouncedTyped
<1>5. /\ Covers(t.slist, t.snd_una, t.snd_nxt, t.snd_una + Len(t.sbuf))
      /\ SegmentsOK(t.slist)
      /\ CutsOf(t.slist, t.snd_una) \subseteq CutsOf(t.slist, t.snd_una)
      /\ \A i \in DOMAIN t.sbuf : t.sbuf[i] = t.snd_una + (i - 1)
      /\ t.rto <=> t.snd_una # t.snd_nxt
      /\ Len(t.sbuf) <= SndBuf
      /\ t.snd_una <= c.nxt
  BY <1>1 DEF SenderOK, WindowOK
<1>6. Advances(t, u, c)
  BY <1>2, <1>4, <1>5, AcksKeeps
<1> QED
  BY <1>4, <1>6 DEF Acks

LEMMA NextCount ==
    ASSUME NEW n \in Nat, NEW w \in Nat, w > 0, NEW m \in Nat, m > 0
    PROVE  n + 1 \in Nat /\ w + m \in Nat \ {0} /\ 0 \in Nat
  OBVIOUS

\* What a duplicate acknowledgement may lead to.
LEMMA DuplicateAckIs ==
    \A t, m, env :
        LET s == [t EXCEPT !.snd_wnd = m.wnd * t.swnd_unit]
            d == [s EXCEPT !.dup_acks = @ + 1]
        IN  \/ DuplicateAck(t, m, env) = s
            \/ DuplicateAck(t, m, env) = [s EXCEPT !.dup_acks = 0]
            \/ DuplicateAck(t, m, env) = d
            \/ DuplicateAck(t, m, env) = [d EXCEPT !.cwnd = @ + d.mss]
            \/ /\ DuplicateAck(t, m, env) = EnterRecovery(Retransmit(d, env))
               /\ s.snd_una # s.snd_nxt
<1> SUFFICES ASSUME NEW t, NEW m, NEW env
             PROVE  LET s == [t EXCEPT !.snd_wnd = m.wnd * t.swnd_unit]
                        d == [s EXCEPT !.dup_acks = @ + 1]
                    IN  \/ DuplicateAck(t, m, env) = s
                        \/ DuplicateAck(t, m, env) = [s EXCEPT !.dup_acks = 0]
                        \/ DuplicateAck(t, m, env) = d
                        \/ DuplicateAck(t, m, env) = [d EXCEPT !.cwnd = @ + d.mss]
                        \/ /\ DuplicateAck(t, m, env) = EnterRecovery(Retransmit(d, env))
                           /\ s.snd_una # s.snd_nxt
  OBVIOUS
<1> DEFINE s == [t EXCEPT !.snd_wnd = m.wnd * t.swnd_unit]
           d == [s EXCEPT !.dup_acks = @ + 1]
           x == Only({EnterRecovery(r) : r \in {Retransmit(d, env)}})
<1>1. x = EnterRecovery(Retransmit(d, env))
  <2>1. \A y : {EnterRecovery(r) : r \in {y}} = {EnterRecovery(y)}
    OBVIOUS
  <2> QED
    BY <2>1, OnlyOne
<1>2. DuplicateAck(t, m, env) =
        IF m.data # <<>> THEN s
        ELSE IF s.snd_una = s.snd_nxt THEN [s EXCEPT !.dup_acks = 0]
        ELSE IF d.dup_acks < 3 THEN d
        ELSE IF d.dup_acks > 3 THEN [d EXCEPT !.cwnd = @ + d.mss]
        ELSE x
  BY Zenon DEF DuplicateAck
<1> HIDE DEF x, d, s
<1>3. \/ DuplicateAck(t, m, env) = s
      \/ DuplicateAck(t, m, env) = [s EXCEPT !.dup_acks = 0]
      \/ DuplicateAck(t, m, env) = d
      \/ DuplicateAck(t, m, env) = [d EXCEPT !.cwnd = @ + d.mss]
      \/ /\ DuplicateAck(t, m, env) = EnterRecovery(Retransmit(d, env))
         /\ s.snd_una # s.snd_nxt
  BY <1>1, <1>2
<1> QED
  BY <1>3 DEF d, s

\* A duplicate acknowledgement keeps the object sound (pseudotcp.cc:799).
LEMMA DuplicateAckAdvances ==
    ASSUME NEW c \in Context, NEW t, Sound(t, c), NEW m, MessageOK(m, t, c),
           m.ack = t.snd_una, NEW env, NEW u, u = DuplicateAck(t, m, env)
    PROVE  Advances(t, u, c)
<1> DEFINE s == [t EXCEPT !.snd_wnd = m.wnd * t.swnd_unit]
           d == [s EXCEPT !.dup_acks = @ + 1]
           e == [d EXCEPT !.cwnd = @ + d.mss]
<1>1. \/ u = s
      \/ u = [s EXCEPT !.dup_acks = 0]
      \/ u = d
      \/ u = e
      \/ u = EnterRecovery(Retransmit(d, env)) /\ s.snd_una # s.snd_nxt
  BY DuplicateAckIs, Zenon
<1>2. Advances(t, s, c)
  BY AnnouncedAdvances
<1> HIDE DEF s
<1>3. t \in Tcb /\ s \in Tcb /\ Sound(s, c)
  BY <1>2 DEF Advances, Sound
<1>4. Tuned(s, d)
  <2>1. s.dup_acks + 1 \in Nat
    BY <1>3, TcbType
  <2> QED
    BY <1>3, <2>1, DupAcksTyped
<1> HIDE DEF d
<1>5. Advances(s, d, c)
  BY <1>3, <1>4, TunedAdvances
<1>6. Sound(d, c) /\ d \in Tcb
  BY <1>5 DEF Advances, Sound
<1>7. Advances(t, d, c)
  BY <1>2, <1>3, <1>5, AdvancesTrans
<1>8. CASE u = [s EXCEPT !.dup_acks = 0]
  <2>1. Advances(s, u, c)
    BY <1>3, <1>8, DupAcksTyped, TunedAdvances
  <2> QED
    BY <1>2, <1>3, <2>1, AdvancesTrans
<1>9. CASE u = e
  <2>1. d.cwnd \in Nat /\ d.cwnd > 0 /\ d.mss \in Nat /\ d.mss > 0 /\ d.dup_acks \in Nat
    BY <1>6, TcbType
  <2>2. d.cwnd + d.mss \in Nat \ {0}
    BY <2>1, NextCount
  <2>3. Tuned(d, u)
    BY <1>6, <1>9, <2>2, CwndTyped, CalmTunes
  <2>4. Advances(d, u, c)
    BY <1>6, <2>3, TunedAdvances
  <2> QED
    BY <1>3, <1>7, <2>4, AdvancesTrans
<1>10. CASE u = EnterRecovery(Retransmit(d, env)) /\ s.snd_una # s.snd_nxt
  <2> DEFINE r == Retransmit(d, env)
  <2>1. d.snd_una # d.snd_nxt
    BY <1>4, <1>10 DEF Tuned, Quiet, SameSender
  <2>2. Advances(d, r, c)
    BY <1>6, <2>1, RetransmitKeeps DEF Steady
  <2>3. u = EnterRecovery(r)
    BY <1>10
  <2> HIDE DEF r
  <2>4. Sound(r, c) /\ r \in Tcb /\ SenderOK(r)
    BY <2>2 DEF Advances, Sound
  <2>5. Advances(r, u, c)
    BY <2>3, <2>4, EnterRecoveryTunes, TunedAdvances
  <2>6. Advances(d, u, c)
    BY <1>6, <2>2, <2>5, AdvancesTrans
  <2> QED
    BY <1>3, <1>7, <2>6, AdvancesTrans
<1> QED
  BY <1>1, <1>2, <1>7, <1>8, <1>9, <1>10

LEMMA OnAckIs ==
    \A t, m, env :
        OnAck(t, m, env) =
            IF m.ack > t.snd_una /\ m.ack <= t.snd_nxt
            THEN Recover(NewAck(t, m), m.ack - t.snd_una, env)
            ELSE IF m.ack = t.snd_una THEN DuplicateAck(t, m, env)
            ELSE t
<1> SUFFICES ASSUME NEW t, NEW m, NEW env
             PROVE  Only({Recover(s, m.ack - t.snd_una, env) : s \in {NewAck(t, m)}}) =
                       Recover(NewAck(t, m), m.ack - t.snd_una, env)
  BY DEF OnAck
<1>1. \A x : {Recover(s, m.ack - t.snd_una, env) : s \in {x}} =
                {Recover(x, m.ack - t.snd_una, env)}
  OBVIOUS
<1> QED
  BY <1>1, OnlyOne

\* The acknowledgement of a packet, whatever it is.
LEMMA OnAckAdvances ==
    ASSUME NEW c \in Context, NEW t, Sound(t, c), NEW m, MessageOK(m, t, c),
           NEW env, NEW u, u = OnAck(t, m, env)
    PROVE  Advances(t, u, c)
<1>1. t \in Tcb /\ m.ack \in Nat /\ t.snd_una \in Nat
  <2>1. t \in Tcb /\ m \in Packet
    BY DEF Sound, MessageOK
  <2> QED
    BY <2>1, TcbType DEF Packet
<1>2. CASE m.ack > t.snd_una /\ m.ack <= t.snd_nxt
  <2> DEFINE s == NewAck(t, m)
             n == m.ack - t.snd_una
  <2>1. Advances(t, s, c)
    BY <1>2, NewAckAdvances
  <2>2. u = Recover(s, n, env)
    BY <1>2, OnAckIs
  <2>3. n \in Nat
    BY <1>1, <1>2
  <2> HIDE DEF s, n
  <2>4. Sound(s, c)
    BY <2>1 DEF Advances
  <2>5. Advances(s, u, c)
    BY <2>2, <2>3, <2>4, RecoverAdvances
  <2> QED
    BY <1>1, <2>1, <2>5, AdvancesTrans
<1>3. CASE ~(m.ack > t.snd_una /\ m.ack <= t.snd_nxt) /\ m.ack = t.snd_una
  <2>1. u = DuplicateAck(t, m, env)
    BY <1>3, OnAckIs
  <2> QED
    BY <1>3, <2>1, DuplicateAckAdvances
<1>4. CASE u = t
  BY <1>1, <1>4, TunedSelf, TunedAdvances
<1> QED
  BY <1>2, <1>3, <1>4, OnAckIs

(***************************************************************************)
(* Queueing: the connect message and the bytes of the application          *)
(***************************************************************************)

\* The bytes of a buffer are their numbers in the stream, from una on.
Numbered(s, una) == \A i \in DOMAIN s : s[i] = una + (i - 1)

\* d is c but for what the application has written.
SameButTaken(c, d) ==
    /\ d \in Context /\ d.cuts = c.cuts /\ d.edge = c.edge /\ d.nxt = c.nxt
    /\ d.given = c.given /\ d.sent = c.sent

\* u is t with more to send, in state x.
Enqueues(t, u, x, wnd, sbuf, slist) ==
    /\ u \in Tcb
    /\ u.sbuf = sbuf /\ u.slist = slist /\ u.state = x /\ u.snd_wnd = wnd
    /\ u.snd_una = t.snd_una /\ u.snd_nxt = t.snd_nxt /\ u.rto = t.rto
    /\ u.recover = t.recover /\ u.swnd_unit \in {t.swnd_unit, Unit}
    /\ u.out = t.out /\ SameReceiver(t, u) /\ u.shutdown = t.shutdown
    /\ u.writeEnable = t.writeEnable

\* Bytes queued behind the others keep the object sound.
LEMMA EnqueuesKeep ==
    ASSUME NEW c \in Context, NEW d, SameButTaken(c, d), NEW t, Sound(t, c),
           NEW u, NEW x, NEW wnd, NEW sbuf, NEW slist,
           Enqueues(t, u, x, wnd, sbuf, slist), x # "LISTEN",
           Keeps(t.slist, slist, t.snd_una, t.snd_nxt, t.snd_una + Len(sbuf)),
           Numbered(sbuf, t.snd_una),
           Len(sbuf) <= SndBuf, t.snd_una + Len(sbuf) = d.taken + 1,
           t.snd_una + wnd <= c.edge
    PROVE  Advances(t, u, d)
<1>1. t \in Tcb /\ u \in Tcb
  BY DEF Sound, Enqueues
<1>2. SenderOK(u)
  BY DEF SenderOK, Sound, Enqueues, Keeps, Numbered
<1>3. WindowOK(u, d.edge, d.nxt)
  BY DEF WindowOK, Sound, Enqueues, SameButTaken
<1>4. WrittenOK(u, d.taken)
  <2>1. d.taken + 1 # 0 /\ d.taken + 1 > 0
    <3>1. d.taken \in Nat
      BY DEF SameButTaken, Context
    <3> QED
      BY <3>1
  <2>2. u.snd_una + Len(u.sbuf) = d.taken + 1
    BY DEF Enqueues
  <2> QED
    BY <2>1, <2>2 DEF WrittenOK
<1>5. ReceiverOK(u, d.cuts, d.given) /\ Edge(u) = Edge(t)
  BY SameReceiverKeeps DEF Sound, Enqueues, SameButTaken
<1>6. Grows(t, u)
  <2>1. Cuts(t) \subseteq Cuts(u)
    BY DEF Cuts, Enqueues, Keeps
  <2>2. t.rcv_nxt <= u.rcv_nxt
    BY <1>1, TcbType DEF Enqueues, SameReceiver
  <2>3. Edge(t) <= Edge(u)
    BY <1>1, <1>5, TcbType DEF Edge
  <2> QED
    BY <2>1, <2>2, <2>3 DEF Grows
<1>7. OutOK(u, d.cuts)
  <2>1. ASSUME NEW i \in DOMAIN u.out PROVE PacketOK(u.out[i], u, d.cuts)
    <3>1. i \in DOMAIN t.out /\ u.out[i] = t.out[i] /\ d.cuts = c.cuts
      BY DEF Enqueues, SameButTaken
    <3>2. PacketOK(t.out[i], t, c.cuts)
      BY <3>1 DEF Sound, OutOK
    <3>3. t.out[i] \in Packet
      BY <1>1, <3>1, TcbType
    <3> QED
      BY <1>1, <1>6, <3>1, <3>2, <3>3, PacketStays
  <2> QED
    BY <2>1 DEF OutOK
<1>8. Opens(u, d.sent)
  BY DEF Sound, Opens, Enqueues, SameButTaken
<1>9. \A y \in d.cuts : y <= Edge(u)
  BY <1>5 DEF Sound, SameButTaken
<1>10. Sound(u, d)
  BY <1>1, <1>2, <1>3, <1>4, <1>5, <1>7, <1>8, <1>9 DEF Sound
<1> QED
  BY <1>6, <1>10 DEF Advances, Enqueues

\* t with other data to send.
Holding(t, sbuf, slist) == [t EXCEPT !.sbuf = sbuf, !.slist = slist]

LEMMA QueuedTyped ==
    ASSUME NEW t \in Tcb, NEW sbuf \in Seq(Nat), NEW slist \in Seq(SSegment),
           NEW u, u = Holding(t, sbuf, slist)
    PROVE  Enqueues(t, u, t.state, t.snd_wnd, sbuf, slist)
<1> USE DEF Holding
<1>1. u \in Tcb
  BY DEF Tcb
<1>2. /\ u.sbuf = sbuf /\ u.slist = slist /\ u.state = t.state /\ u.snd_wnd = t.snd_wnd
      /\ u.snd_una = t.snd_una /\ u.snd_nxt = t.snd_nxt /\ u.rto = t.rto
      /\ u.recover = t.recover /\ u.swnd_unit \in {t.swnd_unit, Unit}
      /\ u.out = t.out /\ u.shutdown = t.shutdown
      /\ u.writeEnable = t.writeEnable
  BY DEF Tcb
<1>3. SameReceiver(t, u)
  BY DEF Tcb, SameReceiver
<1> QED
  BY <1>1, <1>2, <1>3 DEF Enqueues

\* queue() appends to the buffer, and to its last segment or as a new one.
LEMMA queueIs ==
    \A t, data, ctl :
        queue(t, data, ctl) =
            Holding(t, t.sbuf \o data,
                    Queued(t.slist, t.snd_una + Len(t.sbuf), Len(data), ctl))
  BY DEF queue, Queued, Holding


LEMMA Joined ==
    ASSUME NEW s \in Seq(Nat), NEW d \in Seq(Nat), NEW una \in Nat,
           Numbered(s, una), Numbered(d, una + Len(s)),
           NEW u, u = s \o d
    PROVE  /\ u \in Seq(Nat) /\ Len(u) = Len(s) + Len(d)
           /\ Numbered(u, una)
<1> USE DEF Numbered
<1>1. u \in Seq(Nat) /\ Len(u) = Len(s) + Len(d) /\ Len(s) \in Nat /\ Len(d) \in Nat
      /\ DOMAIN u = 1 .. Len(u) /\ DOMAIN s = 1 .. Len(s) /\ DOMAIN d = 1 .. Len(d)
  OBVIOUS
<1>2. ASSUME NEW i \in DOMAIN u PROVE u[i] = una + (i - 1)
  <2>1. i \in Nat /\ i >= 1 /\ i <= Len(s) + Len(d)
    BY <1>1
  <2>2. CASE i <= Len(s)
    <3>1. u[i] = s[i] /\ i \in DOMAIN s
      BY <1>1, <2>1, <2>2
    <3> QED
      BY <3>1
  <2>3. CASE i > Len(s)
    <3>1. i - Len(s) \in DOMAIN d
      BY <1>1, <2>1, <2>3
    <3>2. u[i] = d[i - Len(s)]
      BY <1>1, <2>1, <2>3
    <3>3. d[i - Len(s)] = (una + Len(s)) + ((i - Len(s)) - 1)
      BY <3>1
    <3> DEFINE l == Len(s)
    <3>4. l \in Nat
      BY <1>1
    <3> HIDE DEF l
    <3>5. (una + l) + ((i - l) - 1) = una + (i - 1)
      BY <3>4, <2>1
    <3> QED
      BY <3>2, <3>3, <3>5 DEF l
  <2> QED
    BY <1>1, <2>1, <2>2, <2>3, SMTT(40)
<1> QED
  BY <1>1, <1>2

\* Data joins what is to be sent.
LEMMA QueueEnqueues ==
    ASSUME NEW t \in Tcb, SenderOK(t), NEW data \in Seq(Nat), Len(data) > 0,
           NEW ctl \in BOOLEAN,
           ctl <=> t.snd_una + Len(t.sbuf) = 0, ctl => Len(data) = 1,
           Numbered(data, t.snd_una + Len(t.sbuf)),
           NEW u, u = queue(t, data, ctl)
    PROVE  \E sbuf, slist :
              /\ Enqueues(t, u, t.state, t.snd_wnd, sbuf, slist)
              /\ Keeps(t.slist, slist, t.snd_una, t.snd_nxt, t.snd_una + Len(sbuf))
              /\ Numbered(sbuf, t.snd_una)
              /\ Len(sbuf) = Len(t.sbuf) + Len(data)
<1> DEFINE end == t.snd_una + Len(t.sbuf)
           n == Len(data)
           sbuf == t.sbuf \o data
           slist == Queued(t.slist, end, n, ctl)
<1>1. /\ t.slist \in Seq(SSegment) /\ t.sbuf \in Seq(Nat) /\ Len(t.sbuf) \in Nat
      /\ t.snd_una \in Nat /\ t.snd_nxt \in Nat /\ n \in Nat
  BY TcbType
<1>2. end \in Nat
  BY <1>1, SMT
<1>3. Covers(t.slist, t.snd_una, t.snd_nxt, end) /\ SegmentsOK(t.slist)
  BY DEF SenderOK
<1>4. Keeps(t.slist, slist, t.snd_una, t.snd_nxt, end + n)
  <2> HIDE DEF end, n, slist
  <2>1. ctl <=> end = 0
    BY DEF end
  <2>2. ctl => n = 1
    BY DEF n
  <2>3. n > 0
    BY DEF n
  <2> QED
    BY <1>1, <1>2, <1>3, <2>1, <2>2, <2>3, QueueKeeps DEF slist
<1>5. /\ sbuf \in Seq(Nat) /\ Len(sbuf) = Len(t.sbuf) + n
      /\ Numbered(sbuf, t.snd_una)
  <2>1. Numbered(t.sbuf, t.snd_una)
    BY DEF SenderOK, Numbered
  <2> HIDE DEF sbuf
  <2> QED
    BY <1>1, <2>1, Joined DEF sbuf
<1>6. u = Holding(t, sbuf, slist)
  BY queueIs
<1>7. slist \in Seq(SSegment)
  BY <1>4 DEF Keeps
<1> HIDE DEF sbuf, slist
<1>8. Enqueues(t, u, t.state, t.snd_wnd, sbuf, slist)
  BY <1>5, <1>6, <1>7, QueuedTyped
<1>9. end + n = t.snd_una + Len(sbuf)
  <2> HIDE DEF n
  <2> QED
    BY <1>1, <1>5, SMT DEF end
<1> QED
  BY <1>4, <1>5, <1>8, <1>9 DEF n

\* s is t, which has not sent or queued anything, about to greet the peer.
Greets(t, s, x) ==
    /\ s \in Tcb /\ s.state = x
    /\ s.snd_wnd = 1
    /\ s.sbuf = t.sbuf /\ s.slist = t.slist
    /\ s.snd_una = t.snd_una /\ s.snd_nxt = t.snd_nxt /\ s.rto = t.rto
    /\ s.recover = t.recover /\ s.swnd_unit \in {t.swnd_unit, Unit}
    /\ s.out = t.out /\ SameReceiver(t, s) /\ s.shutdown = t.shutdown
    /\ s.writeEnable = t.writeEnable

LEMMA GreetsTyped ==
    ASSUME NEW t \in Tcb, NEW x \in TcpState,
           NEW s, s = [t EXCEPT !.state = x], NEW u, u = [s EXCEPT !.snd_wnd = 1]
    PROVE  Greets(t, u, x)
<1>1. u \in Tcb
  BY DEF Tcb
<1>2. /\ u.state = x /\ u.snd_wnd = 1
      /\ u.sbuf = t.sbuf /\ u.slist = t.slist
      /\ u.snd_una = t.snd_una /\ u.snd_nxt = t.snd_nxt /\ u.rto = t.rto
      /\ u.recover = t.recover /\ u.swnd_unit = t.swnd_unit
      /\ u.out = t.out /\ u.shutdown = t.shutdown
      /\ u.writeEnable = t.writeEnable
  BY DEF Tcb
<1>3. SameReceiver(t, u)
  BY DEF Tcb, SameReceiver
<1> QED
  BY <1>1, <1>2, <1>3 DEF Greets

\* u is t once it has greeted, in state x.
Opened(t, u, x, c) ==
    Advances(t, u, c) /\ u.state = x /\ u.writeEnable = t.writeEnable

\* The greeting: one byte, the connect message, at the start of the stream.
LEMMA GreetingAdvances ==
    ASSUME NEW c \in Context, NEW t, Sound(t, c), t.state = "LISTEN",
           NEW x, x # "LISTEN", NEW s, Greets(t, s, x),
           NEW u, u = queue(s, << 0 >>, TRUE)
    PROVE  Opened(t, u, x, c)
<1>1. t \in Tcb /\ s \in Tcb /\ SenderOK(t)
  BY DEF Sound, Greets
<1>2. t.snd_una = 0 /\ Len(t.sbuf) = 0 /\ c.taken = 0
  <2>1. t.snd_una + Len(t.sbuf) = 0
    BY <1>1 DEF SenderOK
  <2>2. t.snd_una \in Nat /\ Len(t.sbuf) \in Nat
    BY <1>1, TcbType
  <2>3. c.taken = 0
    BY <2>1 DEF Sound, WrittenOK
  <2> QED
    BY <2>1, <2>2, <2>3
<1>3. SenderOK(s)
  BY <1>1 DEF SenderOK, Greets
<1>4. << 0 >> \in Seq(Nat) /\ Len(<< 0 >>) = 1
  OBVIOUS
<1>5. s.snd_una + Len(s.sbuf) = 0
  BY <1>2 DEF Greets
<1>6. Numbered(<< 0 >>, s.snd_una + Len(s.sbuf))
  <2> DEFINE z == << 0 >>
  <2>1. DOMAIN z = 1 .. 1 /\ z[1] = 0
    OBVIOUS
  <2>2. 0 + (1 - 1) = 0
    OBVIOUS
  <2> HIDE DEF z
  <2>3. \A i \in DOMAIN z : z[i] = 0 + (i - 1)
    BY <2>1, <2>2
  <2>4. Numbered(z, 0)
    BY <2>3 DEF Numbered
  <2> QED
    BY <2>4, <1>5 DEF z
<1>7. PICK sbuf, slist :
              /\ Enqueues(s, u, s.state, s.snd_wnd, sbuf, slist)
              /\ Keeps(s.slist, slist, s.snd_una, s.snd_nxt, s.snd_una + Len(sbuf))
              /\ Numbered(sbuf, s.snd_una)
              /\ Len(sbuf) = Len(s.sbuf) + Len(<< 0 >>)
  <2> DEFINE z == << 0 >>
  <2>1. z \in Seq(Nat) /\ Len(z) = 1 /\ Len(z) > 0
        /\ Numbered(z, s.snd_una + Len(s.sbuf)) /\ u = queue(s, z, TRUE)
    BY <1>4, <1>6
  <2> HIDE DEF z
  <2>2. TRUE \in BOOLEAN /\ (TRUE <=> s.snd_una + Len(s.sbuf) = 0)
    BY <1>5
  <2>3. \E sbuf, slist :
              /\ Enqueues(s, u, s.state, s.snd_wnd, sbuf, slist)
              /\ Keeps(s.slist, slist, s.snd_una, s.snd_nxt, s.snd_una + Len(sbuf))
              /\ Numbered(sbuf, s.snd_una)
              /\ Len(sbuf) = Len(s.sbuf) + Len(z)
    BY <1>1, <1>3, <2>1, <2>2, QueueEnqueues
  <2> QED
    BY <2>3 DEF z
<1>8. Enqueues(t, u, x, 1, sbuf, slist)
  <2>1. u.swnd_unit \in {t.swnd_unit, Unit}
    BY <1>7 DEF Enqueues, Greets
  <2>2. SameReceiver(t, u)
    BY <1>7 DEF Enqueues, Greets, SameReceiver
  <2> QED
    BY <1>7, <2>1, <2>2 DEF Enqueues, Greets
<1>9. Keeps(t.slist, slist, t.snd_una, t.snd_nxt, t.snd_una + Len(sbuf))
      /\ Numbered(sbuf, t.snd_una)
  BY <1>7 DEF Greets
<1>10. Len(sbuf) = 1
  BY <1>7, <1>2, <1>4 DEF Greets
<1>11. 1 <= SndBuf /\ t.snd_una + Len(sbuf) = c.taken + 1 /\ t.snd_una + 1 <= c.edge
  <2>1. SndBuf \in Nat \ {0} /\ c.edge \in Nat \ {0}
    BY SizesAssumption DEF Context
  <2> QED
    BY <2>1, <1>2, <1>10
<1>12. SameButTaken(c, c)
  BY DEF SameButTaken
<1>13. Advances(t, u, c)
  BY <1>8, <1>9, <1>10, <1>11, <1>12, EnqueuesKeep
<1> QED
  BY <1>8, <1>13 DEF Enqueues, Opened

\* A connect message opens the connection (pseudotcp.cc:693).
LEMMA OnConnectAdvances ==
    ASSUME NEW c \in Context, NEW t, Sound(t, c), NEW m, MessageOK(m, t, c),
           NEW u, u = OnConnect(t, m)
    PROVE  Advances(t, u, c)
<1> DEFINE s == [t EXCEPT !.swnd_unit = m.unit]
<1>1. t \in Tcb /\ m.unit = Unit /\ Unit \in Nat
  BY SizesAssumption DEF Sound, MessageOK
<1>2. Tuned(t, s) /\ s.state = t.state
  BY <1>1, UnitTyped
<1>3. Advances(t, s, c)
  BY <1>2, TunedAdvances
<1> DEFINE a == [s EXCEPT !.state = "SYN_RECEIVED"]
           b == [a EXCEPT !.snd_wnd = 1]
<1>4. \/ u = t
      \/ u = s
      \/ s.state = "LISTEN" /\ u = queue(b, << 0 >>, TRUE)
      \/ s.state = "SYN_SENT" /\ u = adjustMTU([s EXCEPT !.state = "ESTABLISHED"])
  BY DEF OnConnect, queueConnectMessage
<1> HIDE DEF s
<1>5. s \in Tcb /\ Sound(s, c)
  BY <1>3 DEF Advances, Sound
<1>6. CASE u = t
  BY <1>1, <1>6, TunedSelf, TunedAdvances
<1>7. CASE s.state = "LISTEN" /\ u = queue(b, << 0 >>, TRUE)
  <2> DEFINE x == "SYN_RECEIVED"
  <2>1. x \in TcpState /\ x # "LISTEN"
    BY DEF TcpState
  <2>2. b = [a EXCEPT !.snd_wnd = 1] /\ a = [s EXCEPT !.state = x]
    OBVIOUS
  <2> HIDE DEF x, a, b
  <2>3. Greets(s, b, x)
    BY <1>5, <2>1, <2>2, GreetsTyped
  <2>4. Advances(s, u, c)
    BY <1>5, <1>7, <2>1, <2>3, GreetingAdvances DEF Opened
  <2> QED
    BY <1>1, <1>3, <2>4, AdvancesTrans
<1>8. CASE s.state = "SYN_SENT" /\ u = adjustMTU([s EXCEPT !.state = "ESTABLISHED"])
  <2>1. Tuned(s, u)
    BY <1>5, <1>8, EstablishTunes
  <2>2. Advances(s, u, c)
    BY <1>5, <2>1, TunedAdvances
  <2> QED
    BY <1>1, <1>3, <2>2, AdvancesTrans
<1> QED
  BY <1>3, <1>4, <1>6, <1>7, <1>8

\* The calls that the opening leads to keep the object sound.
LEMMA OnOpenAdvances ==
    ASSUME NEW c \in Context, NEW t, Sound(t, c), NEW m, NEW u, u = OnOpen(t, m)
    PROVE  Advances(t, u, c)
<1>1. t \in Tcb
  BY DEF Sound
<1>2. CASE u = t
  BY <1>1, <1>2, TunedSelf, TunedAdvances
<1>3. CASE t.state = "SYN_RECEIVED" /\ u = adjustMTU([t EXCEPT !.state = "ESTABLISHED"])
  <2>1. Tuned(t, u)
    BY <1>1, <1>3, EstablishTunes
  <2> QED
    BY <2>1, TunedAdvances
<1> QED
  BY <1>2, <1>3 DEF OnOpen

(***************************************************************************)
(* Calling back, and trimming what arrives                                 *)
(***************************************************************************)

\* OnTcpWriteable is owed only while the send buffer is not nearly empty.
WriteWaits(t) ==
    t.state # "CLOSED" =>
        (t.writeEnable => Len(t.sbuf) >= (SndBuf + RcvBuf) \div 2)

LEMMA WritableTyped ==
    ASSUME NEW t \in Tcb, NEW b \in BOOLEAN, NEW u, u = [t EXCEPT !.writeEnable = b]
    PROVE  Tuned(t, u) /\ u.state = t.state /\ u.writeEnable = b
<1>1. u \in Tcb
  BY DEF Tcb
<1>2. /\ u.state = t.state /\ u.writeEnable = b /\ u.shutdown = t.shutdown
      /\ u.out = t.out
  BY DEF Tcb
<1>3. SameSender(t, u) /\ SameReceiver(t, u)
  BY DEF Tcb, SameSender, SameReceiver, StateMoves
<1> QED
  BY <1>1, <1>2, <1>3 DEF Tuned, Quiet

\* Calling OnTcpWriteable, or not (pseudotcp.cc:847).
LEMMA OnWriteableAdvances ==
    ASSUME NEW c \in Context, NEW t, Sound(t, c), NEW u, u = OnWriteable(t)
    PROVE  Advances(t, u, c) /\ WriteWaits(u) /\ u.state = t.state
<1> DEFINE full == Len(t.sbuf) >= (SndBuf + RcvBuf) \div 2
           b == t.writeEnable /\ full
<1>1. t \in Tcb
  BY DEF Sound
<1>2. b \in BOOLEAN
  OBVIOUS
<1>3. u = [t EXCEPT !.writeEnable = b]
  BY DEF OnWriteable
<1> HIDE DEF full
<1>4. b => full
  OBVIOUS
<1> HIDE DEF b
<1>5. Tuned(t, u) /\ u.state = t.state /\ u.writeEnable = b
  BY <1>1, <1>2, <1>3, WritableTyped
<1>6. u.sbuf = t.sbuf
  BY <1>5 DEF Tuned, Quiet, SameSender
<1>7. WriteWaits(u)
  BY <1>4, <1>5, <1>6 DEF WriteWaits, full
<1>8. Advances(t, u, c)
  BY <1>5, TunedAdvances
<1> QED
  BY <1>5, <1>7, <1>8

\* The data of d is the end of m's, and new.
Fresh(d, t, m) ==
    /\ d.seq \in Nat /\ t.rcv_nxt <= d.seq /\ m.seq <= d.seq
    /\ m.seq \in Nat /\ m.data # <<>>
    /\ d.seq + Len(d.data) = m.seq + Len(m.data)
    /\ m.seq >= t.rcv_nxt => d.seq = m.seq
    /\ Numbered(d.data, d.seq)

LEMMA RestOfData ==
    ASSUME NEW s \in Seq(Nat), NEW n \in Nat, NEW u, u = SubSeq(s, n + 1, Len(s))
    PROVE  /\ u \in Seq(Nat)
           /\ n >= Len(s) => u = <<>>
           /\ n < Len(s) => /\ Len(u) = Len(s) - n /\ u # <<>>
                            /\ \A i \in 1 .. Len(s) - n :
                                  n + i \in 1 .. Len(s) /\ u[i] = s[n + i]
<1>1. u \in Seq(Nat) /\ Len(s) \in Nat
  OBVIOUS
<1>2. CASE n >= Len(s)
  <2>1. Len(u) = 0
    BY <1>1, <1>2
  <2>2. u = <<>>
    BY <1>1, <2>1
  <2> QED
    BY <1>1, <1>2, <2>2
<1>3. CASE n < Len(s)
  <2>1. /\ Len(u) = Len(s) - n
        /\ \A i \in 1 .. Len(s) - n : n + i \in 1 .. Len(s) /\ u[i] = s[n + i]
    BY <1>3, RestOfBuffer
  <2>2. u # <<>>
    <3>1. Len(<<>>) = 0
      OBVIOUS
    <3>2. Len(u) # 0
      BY <1>1, <1>3, <2>1
    <3> QED
      BY <3>1, <3>2
  <2> QED
    BY <1>1, <1>3, <2>1, <2>2, SMT
<1> QED
  BY <1>1, <1>2, <1>3

LEMMA WholeSequence ==
    ASSUME NEW s \in Seq(Nat)
    PROVE  SubSeq(s, 1, Len(s) - 0) = s
<1>1. Len(s) \in Nat /\ Len(s) - 0 = Len(s)
  OBVIOUS
<1>2. SubSeq(s, 1, Len(s)) = s
  <2> DEFINE u == SubSeq(s, 1, Len(s))
  <2>1. u \in Seq(Nat) /\ Len(u) = Len(s)
    BY <1>1
  <2>2. \A i \in 1 .. Len(s) : u[i] = s[i]
    BY <1>1
  <2> HIDE DEF u
  <2>3. u = s
    BY <1>1, <2>1, <2>2
  <2> QED
    BY <2>3 DEF u
<1> QED
  BY <1>1, <1>2

LEMMA EmptyPart == \A x \in Int : SubSeq(<<>>, 1, 0 - x) = <<>> \/ x < 0
<1> SUFFICES ASSUME NEW x \in Int, ~(x < 0) PROVE SubSeq(<<>>, 1, 0 - x) = <<>>
  OBVIOUS
<1>1. 0 - x <= 0 /\ 0 - x \in Int
  OBVIOUS
<1> DEFINE y == 0 - x
<1>2. y \in Int /\ ~(1 <= y)
  BY <1>1
<1> HIDE DEF y
<1>3. SubSeq(<<>>, 1, y) = <<>>
  <2>1. SubSeq(<<>>, 1, y) = [i \in 1 .. 0 |-> <<>>[i + 1 - 1]] \/ TRUE
    OBVIOUS
  <2>2. <<>> \in Seq(Nat)
    OBVIOUS
  <2> QED
    BY <1>2, <2>2
<1> QED
  BY <1>3 DEF y

\* What is left of a packet lies within the window (pseudotcp.cc:882).
LEMMA TrimFacts ==
    ASSUME NEW c \in Context, NEW t, Sound(t, c), NEW m, MessageOK(m, t, c),
           NEW d, d = Trim(t, m)
    PROVE  /\ d.data \in Seq(Nat)
           /\ d.data # <<>> => Fresh(d, t, m)
           /\ m.data # <<>> /\ m.seq >= t.rcv_nxt => d.data # <<>>
<1> DEFINE nxt == t.rcv_nxt
           seq == m.seq
           len == Len(m.data)
           old == Upper(0, nxt - seq)
           new == SubSeq(m.data, old + 1, len)
           start == IF new = <<>> THEN seq ELSE seq + old
           room == RcvBuf - Len(t.rbuf)
           over == Upper(0, start + Len(new) - nxt - room)
<1>1. t \in Tcb /\ m \in Packet /\ nxt \in Nat /\ seq \in Int /\ m.data \in Seq(Nat)
      /\ len \in Nat /\ t.rcv_wnd \in Nat /\ room \in Int /\ t.rcv_wnd <= room
  <2>1. t \in Tcb /\ m \in Packet /\ t.rcv_wnd <= room
    BY DEF Sound, MessageOK, ReceiverOK
  <2>2. seq \in Int /\ m.data \in Seq(Nat)
    BY <2>1 DEF Packet
  <2>3. room \in Int
    <3>1. t.rbuf \in Seq(Nat)
      BY <2>1, TcbType
    <3>2. Len(t.rbuf) \in Nat /\ RcvBuf \in Nat
      BY <3>1, SizesAssumption
    <3> QED
      BY <3>2
  <2> QED
    BY <2>1, <2>2, <2>3, TcbType
<1>2. d = [seq |-> start, data |-> SubSeq(new, 1, Len(new) - over)]
  BY DEF Trim, Available
<1>3. d.seq = start /\ d.data = SubSeq(new, 1, Len(new) - over)
  <2> DEFINE rest == SubSeq(new, 1, Len(new) - over)
  <2>1. d = [seq |-> start, data |-> rest]
    BY <1>2
  <2> HIDE DEF start, rest
  <2>2. d.seq = start /\ d.data = rest
    BY <2>1
  <2> QED
    BY <2>2 DEF rest
<1>4. nxt - seq \in Int /\ old \in Nat /\ old >= nxt - seq
      /\ (seq >= nxt => old = 0)
  <2> HIDE DEF nxt, seq
  <2>1. nxt - seq \in Int
    BY <1>1
  <2>2. old \in Nat /\ old >= nxt - seq
    BY <2>1 DEF Upper
  <2>3. seq >= nxt => nxt - seq <= 0
    BY <1>1
  <2> QED
    BY <2>1, <2>2, <2>3 DEF Upper
<1> HIDE DEF old
<1>5. /\ new \in Seq(Nat)
      /\ old >= len => new = <<>>
      /\ old < len => /\ Len(new) = len - old /\ new # <<>>
                      /\ \A i \in 1 .. len - old :
                            old + i \in 1 .. len /\ new[i] = m.data[old + i]
  BY <1>1, <1>4, RestOfData
<1>6. CASE old >= len
  <2>1. new = <<>> /\ start = seq
    BY <1>5, <1>6
  <2>2. over \in Int /\ over >= 0
    <3>1. Len(<<>>) = 0
      OBVIOUS
    <3>2. start + Len(new) - nxt - room \in Int
      <4> HIDE DEF new, start, nxt, room, seq
      <4> QED
        BY <1>1, <2>1, <3>1
    <3> DEFINE x == start + Len(new) - nxt - room
    <3>3. over = Upper(0, x) /\ x \in Int
      BY <3>2
    <3> HIDE DEF x, over
    <3>4. Upper(0, x) \in Int /\ Upper(0, x) >= 0
      BY <3>3 DEF Upper
    <3> QED
      BY <3>3, <3>4
  <2> HIDE DEF over, new
  <2>3. Len(new) = 0
    BY <2>1
  <2>4. d.data = SubSeq(<<>>, 1, 0 - over)
    BY <1>3, <2>1, <2>3
  <2>5. d.data = <<>>
    BY <2>2, <2>4, EmptyPart
  <2>6. m.data # <<>> => ~(m.seq >= t.rcv_nxt)
    <3>1. m.data # <<>> => len # 0
      BY <1>1, EmptySeq
    <3>2. seq >= nxt => len <= 0
      BY <1>1, <1>4, <1>6
    <3>3. seq >= nxt => len = 0
      <4> HIDE DEF len, seq, nxt
      <4> QED
        BY <1>1, <3>2
    <3> QED
      BY <3>1, <3>3
  <2> QED
    BY <2>5, <2>6
<1>7. CASE old < len
  <2>1. Len(new) = len - old /\ new # <<>>
        /\ \A i \in 1 .. len - old : old + i \in 1 .. len /\ new[i] = m.data[old + i]
    BY <1>5, <1>7
  <2>2. m.data # <<>>
    <3>1. Len(<<>>) = 0
      OBVIOUS
    <3> QED
      BY <1>1, <1>4, <1>7, <3>1
  <2>3. seq \in Nat /\ \A i \in DOMAIN m.data : m.data[i] = seq + (i - 1)
    BY <2>2 DEF MessageOK, DataOK
  <2>4. seq + len <= nxt + t.rcv_wnd
    BY <2>2 DEF MessageOK, Sound, Edge
  <2>5. start = seq + old
    BY <2>1
  <2> HIDE DEF start, new, nxt, seq, len, room
  <2>6. start \in Nat /\ start + Len(new) = seq + len /\ Len(new) \in Nat
        /\ start >= nxt /\ start >= seq
    BY <1>1, <1>4, <1>7, <2>1, <2>3, <2>5
  <2>7. over = 0
    <3>1. start + Len(new) - nxt - room <= 0
      BY <1>1, <2>4, <2>6
    <3>2. start + Len(new) - nxt - room \in Int
      BY <1>1, <2>6
    <3> QED
      BY <3>1, <3>2 DEF Upper
  <2> HIDE DEF over
  <2>8. d.data = new
    <3>1. d.data = SubSeq(new, 1, Len(new) - 0)
      BY <1>3, <2>7
    <3> QED
      BY <3>1, <1>5, WholeSequence
  <2>9. Numbered(new, start)
    <3>1. ASSUME NEW i \in DOMAIN new PROVE new[i] = start + (i - 1)
      <4>1. i \in 1 .. len - old /\ i \in Nat
        BY <1>1, <1>4, <1>5, <2>1, <2>6, SMTT(40)
      <4>2. old + i \in 1 .. len /\ new[i] = m.data[old + i]
        BY <2>1, <4>1
      <4>3. old + i \in DOMAIN m.data
        BY <1>1, <4>2 DEF len
      <4>4. new[i] = seq + ((old + i) - 1)
        BY <2>3, <4>2, <4>3
      <4> QED
        BY <1>4, <2>3, <2>5, <4>1, <4>4
    <3> QED
      BY <3>1 DEF Numbered
  <2>10. m.seq >= t.rcv_nxt => d.seq = m.seq
    <3>1. seq >= nxt => start = seq
      BY <1>4, <2>3, <2>5
    <3> QED
      BY <3>1, <1>3 DEF seq, nxt
  <2>11. d.seq = start /\ d.data = new
    BY <1>3, <2>8
  <2>12. Fresh(d, t, m)
    BY <2>2, <2>3, <2>6, <2>9, <2>10, <2>11 DEF Fresh, nxt, seq, len
  <2> QED
    BY <1>5, <2>1, <2>11, <2>12
<1> QED
  BY <1>1, <1>4, <1>6, <1>7

(***************************************************************************)
(* Receiving: the buffer, the bytes ahead and the stored segments          *)
(***************************************************************************)

\* u is t but for what it has received.
Receives(t, u) ==
    /\ u \in Tcb
    /\ u.slist = t.slist /\ u.sbuf = t.sbuf /\ u.snd_una = t.snd_una
    /\ u.snd_nxt = t.snd_nxt /\ u.snd_wnd = t.snd_wnd /\ u.rto = t.rto
    /\ u.recover = t.recover /\ u.swnd_unit = t.swnd_unit
    /\ u.state = t.state /\ u.shutdown = t.shutdown
    /\ u.writeEnable = t.writeEnable /\ u.out = t.out

LEMMA ReceivesTrans ==
    ASSUME NEW t, NEW u, NEW v, Receives(t, u), Receives(u, v)
    PROVE  Receives(t, v)
  BY DEF Receives

\* d is c but for what the application has read.
SameButGiven(c, d) ==
    /\ d \in Context /\ d.cuts = c.cuts /\ d.edge = c.edge /\ d.nxt = c.nxt
    /\ d.taken = c.taken /\ d.sent = c.sent

\* A change of the receiving side keeps the object sound, its edge not moving back.
LEMMA ReceivesWith ==
    ASSUME NEW c \in Context, NEW d, SameButGiven(c, d), NEW t, Sound(t, c),
           NEW u, Receives(t, u), ReceiverOK(u, d.cuts, d.given),
           t.rcv_nxt <= u.rcv_nxt, Edge(t) <= Edge(u)
    PROVE  Sound(u, d) /\ Grows(t, u)
<1>1. t \in Tcb /\ u \in Tcb
  BY DEF Sound, Receives
<1>2. SenderOK(u)
  BY DEF SenderOK, Sound, Receives
<1>3. WindowOK(u, d.edge, d.nxt)
  BY DEF WindowOK, Sound, Receives, SameButGiven
<1>4. WrittenOK(u, d.taken)
  BY DEF WrittenOK, Sound, Receives, SameButGiven
<1>5. Grows(t, u)
  <2>1. Cuts(t) = Cuts(u)
    BY DEF Cuts, Receives
  <2> QED
    BY <2>1 DEF Grows
<1>6. OutOK(u, d.cuts)
  <2>1. ASSUME NEW i \in DOMAIN u.out PROVE PacketOK(u.out[i], u, d.cuts)
    <3>1. i \in DOMAIN t.out /\ u.out[i] = t.out[i] /\ d.cuts = c.cuts
      BY DEF Receives, SameButGiven
    <3>2. PacketOK(t.out[i], t, c.cuts)
      BY <3>1 DEF Sound, OutOK
    <3>3. t.out[i] \in Packet
      BY <1>1, <3>1, TcbType
    <3> QED
      BY <1>1, <1>5, <3>1, <3>2, <3>3, PacketStays
  <2> QED
    BY <2>1 DEF OutOK
<1>7. Opens(u, d.sent)
  BY DEF Sound, Opens, Receives, SameButGiven
<1>8. \A x \in d.cuts : x <= Edge(u)
  <2>1. Edge(t) \in Nat /\ Edge(u) \in Nat
    BY <1>1, TcbType DEF Edge
  <2>2. ASSUME NEW x \in c.cuts PROVE x <= Edge(u)
    <3>1. x \in Nat /\ x <= Edge(t)
      BY DEF Sound, Context
    <3> QED
      BY <2>1, <3>1
  <2> QED
    BY <2>2 DEF SameButGiven
<1> QED
  BY <1>1, <1>2, <1>3, <1>4, <1>5, <1>6, <1>7, <1>8 DEF Sound

\* The same, with nothing read meanwhile.
LEMMA ReceivesKeeps ==
    ASSUME NEW c \in Context, NEW t, Sound(t, c), NEW u, Receives(t, u),
           ReceiverOK(u, c.cuts, c.given),
           t.rcv_nxt <= u.rcv_nxt, Edge(t) <= Edge(u)
    PROVE  Sound(u, c) /\ Grows(t, u)
<1>1. SameButGiven(c, c)
  BY DEF SameButGiven
<1> QED
  BY <1>1, ReceivesWith

\* A is what was ahead with data at an offset.
OffsetInto(ahead, data, off, A) ==
    /\ A \in Seq(Nat)
    /\ \A i \in off + 1 .. off + Len(data) : i \in DOMAIN A /\ A[i] = data[i - off]
    /\ \A i \in DOMAIN ahead : i \notin off + 1 .. off + Len(data) =>
          i \in DOMAIN A /\ A[i] = ahead[i]

\* WriteOffset puts the data in place and leaves the bytes outside it alone.
LEMMA WriteOffsetFacts ==
    ASSUME NEW ahead \in Seq(Nat), NEW data \in Seq(Nat), NEW off \in Nat,
           NEW A, A = WriteOffset(ahead, data, off)
    PROVE  OffsetInto(ahead, data, off, A)
<1> USE DEF OffsetInto
<1> DEFINE n == Upper(Len(ahead), off + Len(data))
           at(i) == IF i \in off + 1 .. off + Len(data) THEN data[i - off]
                    ELSE IF i \in DOMAIN ahead THEN ahead[i] ELSE 0
<1>1. A = [i \in 1 .. n |-> at(i)]
  BY DEF WriteOffset
<1>2. Len(ahead) \in Nat /\ Len(data) \in Nat
      /\ DOMAIN ahead = 1 .. Len(ahead) /\ DOMAIN data = 1 .. Len(data)
  OBVIOUS
<1>3. n \in Nat /\ n >= Len(ahead) /\ n >= off + Len(data)
  BY <1>2 DEF Upper
<1>4. \A i \in Nat : at(i) \in Nat
  <2>1. ASSUME NEW i \in off + 1 .. off + Len(data) PROVE data[i - off] \in Nat
    <3>1. i - off \in 1 .. Len(data)
      BY <1>2
    <3> QED
      BY <1>2, <3>1
  <2>2. \A i \in DOMAIN ahead : ahead[i] \in Nat
    OBVIOUS
  <2> QED
    BY <2>1, <2>2
<1>5. \A i \in off + 1 .. off + Len(data) : at(i) = data[i - off] /\ i \in 1 .. n
  BY <1>2, <1>3
<1>6. \A i \in DOMAIN ahead : i \notin off + 1 .. off + Len(data) =>
         at(i) = ahead[i] /\ i \in 1 .. n
  BY <1>2, <1>3
<1> HIDE DEF at, n
<1>7. A \in Seq(Nat) /\ DOMAIN A = 1 .. n /\ \A i \in 1 .. n : A[i] = at(i)
  <2>1. \A i \in 1 .. n : at(i) \in Nat
    <3>1. n \in Nat
      BY <1>3
    <3>2. \A i \in 1 .. n : i \in Nat
      BY <3>1
    <3> QED
      BY <1>4, <3>2
  <2>2. DOMAIN A = 1 .. n /\ \A i \in 1 .. n : A[i] = at(i)
    BY <1>1
  <2>3. A \in [1 .. n -> Nat]
    BY <1>1, <2>1
  <2>4. A \in Seq(Nat)
    BY <1>3, <2>3
  <2> QED
    BY <2>2, <2>4
<1> QED
  BY <1>5, <1>6, <1>7

\* t with other bytes beyond its write position, with other stored segments, and
\* with a later next byte.
Filled(t, A) == [t EXCEPT !.ahead = A]
Stored(t, rlist) == [t EXCEPT !.rlist = rlist]
Skipped(t, n) == [t EXCEPT !.rcv_nxt = n]

\* What u has received, beside what t has.
Shows(t, u, rbuf, ahead, nxt, wnd, rlist) ==
    /\ Receives(t, u)
    /\ u.rbuf = rbuf /\ u.ahead = ahead /\ u.rcv_nxt = nxt
    /\ u.rcv_wnd = wnd /\ u.rlist = rlist

LEMMA AheadTyped ==
    ASSUME NEW t \in Tcb, NEW A \in Seq(Nat), NEW u, u = Filled(t, A)
    PROVE  Shows(t, u, t.rbuf, A, t.rcv_nxt, t.rcv_wnd, t.rlist) /\ u.readEnable = t.readEnable
<1> USE DEF Filled
<1>1. u \in Tcb
  BY DEF Tcb
<1> QED
  BY <1>1 DEF Tcb, Receives, Shows

LEMMA StoreTyped ==
    ASSUME NEW t \in Tcb, NEW rlist \in Seq(RSegment), NEW u, u = Stored(t, rlist)
    PROVE  Shows(t, u, t.rbuf, t.ahead, t.rcv_nxt, t.rcv_wnd, rlist) /\ u.readEnable = t.readEnable
<1> USE DEF Stored
<1>1. u \in Tcb
  BY DEF Tcb
<1> QED
  BY <1>1 DEF Tcb, Receives, Shows

LEMMA SkipTyped ==
    ASSUME NEW t \in Tcb, NEW n \in Nat, NEW u, u = Skipped(t, n)
    PROVE  Shows(t, u, t.rbuf, t.ahead, n, t.rcv_wnd, t.rlist) /\ u.readEnable = t.readEnable
<1> USE DEF Skipped
<1>1. u \in Tcb
  BY DEF Tcb
<1> QED
  BY <1>1 DEF Tcb, Receives, Shows

\* What is taken over from beyond the write position.
Consumed(ahead, k) == [i \in 1 .. k |-> IF i \in DOMAIN ahead THEN ahead[i] ELSE 0]

LEMMA ConsumedType ==
    ASSUME NEW A \in Seq(Nat), NEW k \in Nat
    PROVE  /\ Consumed(A, k) \in Seq(Nat) /\ Len(Consumed(A, k)) = k
           /\ \A i \in 1 .. k : i \in DOMAIN A => Consumed(A, k)[i] = A[i]
<1> DEFINE at(i) == IF i \in DOMAIN A THEN A[i] ELSE 0
<1>1. \A i : at(i) \in Nat
  OBVIOUS
<1>2. \A i \in DOMAIN A : at(i) = A[i]
  OBVIOUS
<1> HIDE DEF at
<1>3. Consumed(A, k) = [i \in 1 .. k |-> at(i)]
  BY DEF Consumed, at
<1> QED
  BY <1>1, <1>2, <1>3

\* t with other contents of its receive buffer.
Refilled(t, rbuf, ahead, nxt, wnd) ==
    [t EXCEPT !.rbuf = rbuf, !.ahead = ahead, !.rcv_nxt = nxt, !.rcv_wnd = wnd]

\* t with other stored segments, its application told that it may read.
Told(t, rlist) == [t EXCEPT !.rlist = rlist, !.readEnable = FALSE]

LEMMA ConsumeTyped ==
    ASSUME NEW t \in Tcb, NEW rbuf \in Seq(Nat), NEW ahead \in Seq(Nat),
           NEW nxt \in Nat, NEW wnd \in Nat,
           NEW u, u = Refilled(t, rbuf, ahead, nxt, wnd)
    PROVE  Shows(t, u, rbuf, ahead, nxt, wnd, t.rlist)
<1> USE DEF Refilled
<1>1. u \in Tcb
  BY DEF Tcb
<1> QED
  BY <1>1 DEF Tcb, Receives, Shows

LEMMA TakenTyped ==
    ASSUME NEW t \in Tcb, NEW rlist \in Seq(RSegment),
           NEW u, u = Told(t, rlist)
    PROVE  Shows(t, u, t.rbuf, t.ahead, t.rcv_nxt, t.rcv_wnd, rlist) /\ ~u.readEnable
<1> USE DEF Told
<1>1. u \in Tcb
  BY DEF Tcb
<1> QED
  BY <1>1 DEF Tcb, Receives, Shows

\* u is t with k bytes more to read, all that A holds of them.
Takes(t, u, A, k, rlist) ==
    /\ Receives(t, u)
    /\ u.rbuf = t.rbuf \o Consumed(A, k)
    /\ u.ahead = SubSeq(A, k + 1, Len(A))
    /\ u.rcv_nxt = t.rcv_nxt + k
    /\ u.rcv_wnd = t.rcv_wnd - k
    /\ u.rlist = rlist
    /\ ~u.readEnable

\* ConsumeWriteBuffer makes readable what was written ahead (pseudotcp.cc:922).
LEMMA ConsumeFacts ==
    ASSUME NEW t \in Tcb, NEW A \in Seq(Nat), NEW k \in Nat, k <= t.rcv_wnd,
           NEW rlist \in Seq(RSegment), NEW w, w = Filled(t, A),
           NEW u, u = Told(ConsumeWriteBuffer(w, k), rlist)
    PROVE  Takes(t, u, A, k, rlist)
<1>1. /\ Receives(t, w)
      /\ w.ahead = A /\ w.rbuf = t.rbuf /\ w.rcv_nxt = t.rcv_nxt
      /\ w.rcv_wnd = t.rcv_wnd
  BY AheadTyped DEF Shows
<1>2. w \in Tcb
  BY <1>1 DEF Receives
<1> DEFINE rbuf == t.rbuf \o Consumed(A, k)
           ahead == SubSeq(A, k + 1, Len(A))
           nxt == t.rcv_nxt + k
           wnd == t.rcv_wnd - k
           v == ConsumeWriteBuffer(w, k)
<1>3. rbuf \in Seq(Nat) /\ ahead \in Seq(Nat) /\ nxt \in Nat /\ wnd \in Nat
  <2>1. t.rbuf \in Seq(Nat) /\ t.rcv_nxt \in Nat /\ t.rcv_wnd \in Nat
    BY TcbType
  <2>2. rbuf \in Seq(Nat)
    <3>1. Consumed(A, k) \in Seq(Nat)
      BY ConsumedType
    <3> QED
      BY <2>1, <3>1
  <2>3. ahead \in Seq(Nat)
    BY RestOfData
  <2>4. nxt \in Nat /\ wnd \in Nat
    <3> DEFINE x == t.rcv_nxt
               y == t.rcv_wnd
    <3>1. x \in Nat /\ y \in Nat /\ k <= y
      BY <2>1
    <3> HIDE DEF x, y
    <3>2. x + k \in Nat /\ y - k \in Nat
      BY <3>1
    <3> QED
      BY <3>2 DEF x, y
  <2> QED
    BY <2>2, <2>3, <2>4
<1>4. v = Refilled(w, rbuf, ahead, nxt, wnd)
  BY <1>1 DEF ConsumeWriteBuffer, Consumed, Refilled
<1>5. u = Told(v, rlist)
  OBVIOUS
<1> HIDE DEF rbuf, ahead, nxt, wnd, v
<1>6. Shows(w, v, rbuf, ahead, nxt, wnd, w.rlist)
  BY <1>2, <1>3, <1>4, ConsumeTyped
<1>7. v \in Tcb
  BY <1>6 DEF Receives, Shows
<1>8. Shows(v, u, v.rbuf, v.ahead, v.rcv_nxt, v.rcv_wnd, rlist) /\ ~u.readEnable
  BY <1>5, <1>7, TakenTyped
<1>9. Receives(t, u)
  BY <1>1, <1>6, <1>8, ReceivesTrans DEF Shows
<1> QED
  BY <1>6, <1>8, <1>9 DEF Takes, Shows, rbuf, ahead, nxt, wnd

\* Byte p of the stream lies in A, which begins at byte nxt.
At(A, nxt, p) == p - nxt + 1 \in DOMAIN A /\ A[p - nxt + 1] = p

\* Data that comes while nothing was received is the connect message, unless
\* the channel mixed up the handshake.
InOrder(m, t) == ~HandshakeFaults /\ t.rcv_nxt = 0 => ~Late(m)

LEMMA StoredAt ==
    ASSUME NEW t
    PROVE  StoredOK(t) <=>
              \A i \in DOMAIN t.rlist :
                  \A p \in t.rlist[i].seq .. t.rlist[i].seq + t.rlist[i].len - 1 :
                      p >= t.rcv_nxt => At(t.ahead, t.rcv_nxt, p)
  BY DEF StoredOK, At

\* Data put at its offset is where its numbers say, and the rest stays.
LEMMA NewIsAt ==
    ASSUME NEW ahead \in Seq(Nat), NEW data \in Seq(Nat), NEW nxt \in Nat,
           NEW seq \in Nat, nxt <= seq, Numbered(data, seq),
           NEW A, A = WriteOffset(ahead, data, seq - nxt)
    PROVE  /\ A \in Seq(Nat)
           /\ \A p \in seq .. seq + Len(data) - 1 : At(A, nxt, p)
           /\ \A p \in Nat : p >= nxt /\ At(ahead, nxt, p) => At(A, nxt, p)
<1> DEFINE off == seq - nxt
           n == Len(data)
<1>1. off \in Nat /\ n \in Nat /\ seq = off + nxt
  OBVIOUS
<1>2. A = WriteOffset(ahead, data, off)
  OBVIOUS
<1> HIDE DEF off
<1>3. /\ A \in Seq(Nat)
      /\ \A i \in off + 1 .. off + n : i \in DOMAIN A /\ A[i] = data[i - off]
      /\ \A i \in DOMAIN ahead : i \notin off + 1 .. off + n =>
            i \in DOMAIN A /\ A[i] = ahead[i]
  <2>1. OffsetInto(ahead, data, off, A)
    BY <1>1, <1>2, WriteOffsetFacts
  <2> QED
    BY <2>1 DEF OffsetInto
<1>4. ASSUME NEW i \in off + 1 .. off + n PROVE A[i] = i + nxt - 1
  <2>1. i - off \in 1 .. n /\ i \in Nat
    BY <1>1
  <2>2. i - off \in DOMAIN data
    BY <2>1
  <2>3. A[i] = seq + ((i - off) - 1)
    BY <1>3, <2>2 DEF Numbered
  <2>4. seq + ((i - off) - 1) = i + nxt - 1
    BY <1>1, <2>1
  <2> QED
    BY <2>3, <2>4
<1>5. ASSUME NEW p \in seq .. seq + n - 1 PROVE At(A, nxt, p)
  <2>1. p \in Nat /\ p - nxt + 1 \in off + 1 .. off + n
    BY <1>1
  <2> DEFINE i == p - nxt + 1
  <2>2. i \in off + 1 .. off + n /\ i + nxt - 1 = p
    BY <1>1, <2>1
  <2> HIDE DEF i
  <2>3. i \in DOMAIN A /\ A[i] = p
    BY <1>3, <1>4, <2>2
  <2> QED
    BY <2>3 DEF At, i
<1>6. ASSUME NEW p \in Nat, p >= nxt, At(ahead, nxt, p) PROVE At(A, nxt, p)
  <2> DEFINE i == p - nxt + 1
  <2>1. i \in DOMAIN ahead /\ ahead[i] = p
    BY <1>6 DEF At
  <2>2. i + nxt - 1 = p
    OBVIOUS
  <2> HIDE DEF i
  <2>3. CASE i \in off + 1 .. off + n
    BY <1>3, <1>4, <2>2, <2>3 DEF At, i
  <2>4. CASE i \notin off + 1 .. off + n
    <3>1. i \in DOMAIN A /\ A[i] = p
      BY <1>3, <2>1, <2>4
    <3> QED
      BY <3>1 DEF At, i
  <2> QED
    BY <2>3, <2>4
<1> QED
  BY <1>3, <1>5, <1>6

\* Bytes further on stay in place when the first ones are consumed.
LEMMA LaterAt ==
    ASSUME NEW A \in Seq(Nat), NEW nxt \in Nat, NEW k \in Nat, NEW p \in Nat,
           p >= nxt + k, At(A, nxt, p), NEW B, B = SubSeq(A, k + 1, Len(A))
    PROVE  At(B, nxt + k, p)
<1> DEFINE i == p - nxt + 1
           j == p - (nxt + k) + 1
<1>1. i \in DOMAIN A /\ A[i] = p
  BY DEF At
<1>2. i = k + j /\ j \in Nat /\ j >= 1
  OBVIOUS
<1> HIDE DEF i, j
<1>3. Len(A) \in Nat /\ i \in 1 .. Len(A)
  BY <1>1
<1>4. k < Len(A) /\ j \in 1 .. Len(A) - k
  BY <1>2, <1>3
<1>5. B \in Seq(Nat) /\ Len(B) = Len(A) - k /\ B[j] = A[k + j]
  BY <1>4, RestOfData
<1>6. j \in DOMAIN B /\ B[j] = p
  BY <1>1, <1>2, <1>4, <1>5
<1> QED
  BY <1>6 DEF At, j

\* u is s followed by d.
Joins(s, d, u) ==
    /\ u \in Seq(Nat) /\ Len(u) = Len(s) + Len(d)
    /\ \A i \in 1 .. Len(s) : u[i] = s[i]
    /\ \A i \in 1 .. Len(d) : u[Len(s) + i] = d[i]

LEMMA Concatenated ==
    ASSUME NEW s \in Seq(Nat), NEW d \in Seq(Nat), NEW u, u = s \o d
    PROVE  Joins(s, d, u)
<1> USE DEF Joins
<1>1. u \in Seq(Nat) /\ Len(u) = Len(s) + Len(d) /\ Len(s) \in Nat /\ Len(d) \in Nat
  OBVIOUS
<1>2. \A i \in 1 .. Len(s) : u[i] = s[i]
  BY <1>1
<1>3. \A i \in 1 .. Len(d) : u[Len(s) + i] = d[i]
  BY <1>1
<1> QED
  BY <1>1, <1>2, <1>3

\* rbuf is what the stream holds before byte nxt.
UpTo(rbuf, nxt) == \A i \in DOMAIN rbuf : rbuf[i] = (nxt - Len(rbuf)) + (i - 1)

\* A holds the k bytes of the stream from byte nxt.
HoldsNext(A, nxt, k) == \A p \in nxt .. nxt + k - 1 : At(A, nxt, p)

\* What is read next is what the stream holds.
LEMMA ReadJoins ==
    ASSUME NEW rbuf \in Seq(Nat), NEW nxt \in Nat, NEW A \in Seq(Nat), NEW k \in Nat,
           UpTo(rbuf, nxt), HoldsNext(A, nxt, k),
           NEW u, u = rbuf \o Consumed(A, k)
    PROVE  u \in Seq(Nat) /\ Len(u) = Len(rbuf) + k /\ UpTo(u, nxt + k)
<1> DEFINE C == Consumed(A, k)
           l == Len(rbuf)
<1>1. C \in Seq(Nat) /\ Len(C) = k /\ \A i \in 1 .. k : i \in DOMAIN A => C[i] = A[i]
  BY ConsumedType
<1>2. l \in Nat
  OBVIOUS
<1>3. u = rbuf \o C
  OBVIOUS
<1> HIDE DEF C
<1>4. /\ u \in Seq(Nat) /\ Len(u) = l + k
      /\ \A i \in 1 .. l : u[i] = rbuf[i]
      /\ \A i \in 1 .. k : u[l + i] = C[i]
  <2>1. Joins(rbuf, C, u)
    BY <1>1, <1>3, Concatenated
  <2> QED
    BY <2>1, <1>1 DEF Joins
<1>5. ASSUME NEW j \in 1 .. k PROVE C[j] = nxt + (j - 1)
  <2> DEFINE p == nxt + (j - 1)
  <2>1. p \in nxt .. nxt + k - 1 /\ p - nxt + 1 = j
    OBVIOUS
  <2> HIDE DEF p
  <2>2. j \in DOMAIN A /\ A[j] = p
    BY <2>1 DEF At, HoldsNext
  <2> QED
    BY <1>1, <2>2 DEF p
<1>6. \A i \in 1 .. l : rbuf[i] = (nxt - l) + (i - 1)
  <2>1. DOMAIN rbuf = 1 .. l
    OBVIOUS
  <2> QED
    BY <2>1 DEF UpTo
<1> HIDE DEF l
<1>7. ASSUME NEW i \in 1 .. l + k PROVE u[i] = ((nxt + k) - (l + k)) + (i - 1)
  <2>1. i \in Nat /\ i >= 1 /\ i <= l + k
    BY <1>2
  <2>2. ASSUME i <= l PROVE u[i] = ((nxt + k) - (l + k)) + (i - 1)
    <3>1. u[i] = (nxt - l) + (i - 1)
      BY <1>2, <1>4, <1>6, <2>1, <2>2
    <3>2. (nxt - l) + (i - 1) = ((nxt + k) - (l + k)) + (i - 1)
      BY <1>2, <2>1
    <3> QED
      BY <3>1, <3>2
  <2>3. ASSUME ~(i <= l) PROVE u[i] = ((nxt + k) - (l + k)) + (i - 1)
    <3> DEFINE j == i - l
    <3>1. j \in 1 .. k /\ l + j = i
      BY <1>2, <2>1, <2>3
    <3>2. nxt + (j - 1) = ((nxt + k) - (l + k)) + (i - 1)
      BY <1>2, <2>1
    <3> HIDE DEF j
    <3>3. u[i] = C[j]
      BY <1>4, <3>1
    <3>4. C[j] = nxt + (j - 1)
      BY <1>5, <3>1
    <3> QED
      BY <3>2, <3>3, <3>4
  <2> QED
    BY <2>2, <2>3, Zenon
<1>8. Len(u) = l + k /\ DOMAIN u = 1 .. l + k
  BY <1>4
<1>9. UpTo(u, nxt + k)
  BY <1>7, <1>8 DEF UpTo
<1> QED
  BY <1>4, <1>9 DEF l

\* A further stage of the object when something is received.
Comes(t, u, c) ==
    /\ Sound(u, c) /\ Grows(t, u)
    /\ u.shutdown = t.shutdown /\ u.state = t.state
    /\ u.sbuf = t.sbuf /\ u.writeEnable = t.writeEnable

LEMMA ReceivesComes ==
    ASSUME NEW c \in Context, NEW t, Sound(t, c), NEW u, Receives(t, u),
           ReceiverOK(u, c.cuts, c.given),
           t.rcv_nxt <= u.rcv_nxt, Edge(t) <= Edge(u)
    PROVE  Comes(t, u, c)
<1>1. Sound(u, c) /\ Grows(t, u)
  BY ReceivesKeeps
<1> QED
  BY <1>1 DEF Receives, Comes

LEMMA NothingRead ==
    ASSUME NEW rbuf \in Seq(Nat), NEW n \in Nat, NEW g \in Nat,
           g + Len(rbuf) = 0
    PROVE  g = 0 /\ Len(rbuf) = 0 /\ UpTo(rbuf, n)
<1>1. Len(rbuf) \in Nat
  OBVIOUS
<1>2. g = 0 /\ Len(rbuf) = 0
  BY <1>1
<1>3. DOMAIN rbuf = {}
  BY <1>2
<1> QED
  BY <1>2, <1>3 DEF UpTo

LEMMA ReceivedIs ==
    ASSUME NEW t
    PROVE  ReceivedOK(t) <=> /\ UpTo(t.rbuf, t.rcv_nxt)
                             /\ StoredOK(t)
                             /\ t.rcv_nxt = 0 => t.rlist = <<>>
  BY DEF ReceivedOK, UpTo

\* The connect message, or data after the application has closed: only counted.
LEMMA SkipComes ==
    ASSUME NEW c \in Context, NEW t, Sound(t, c), NEW m, MessageOK(m, t, c),
           NEW d, Fresh(d, t, m), d.data \in Seq(Nat), d.data # <<>>,
           m.ctl \/ t.shutdown # "NONE", d.seq = t.rcv_nxt,
           NEW u, u = Skipped(t, t.rcv_nxt + Len(d.data))
    PROVE  Comes(t, u, c)
<1> DEFINE n == Len(d.data)
           nxt == t.rcv_nxt + n
<1>1. t \in Tcb /\ ReceiverOK(t, c.cuts, c.given)
  BY DEF Sound
<1>2. n \in Nat /\ n > 0 /\ t.rcv_nxt \in Nat /\ t.rcv_wnd \in Nat /\ nxt \in Nat
      /\ t.rbuf \in Seq(Nat)
  <2>1. n \in Nat /\ n # 0
    BY EmptySeq
  <2> QED
    BY <2>1, <1>1, TcbType
<1>3. u = Skipped(t, nxt)
  OBVIOUS
<1>4. nxt \in c.cuts
  <2>1. nxt = m.seq + Len(m.data)
    BY DEF Fresh
  <2> QED
    BY <2>1 DEF MessageOK, Fresh
<1>5. t.shutdown = "NONE" => t.rcv_nxt = 0 /\ n = 1
  <2>1. SUFFICES ASSUME t.shutdown = "NONE" PROVE t.rcv_nxt = 0 /\ n = 1
    OBVIOUS
  <2>2. m.ctl /\ m.data # <<>>
    BY <2>1 DEF Fresh
  <2>3. m.seq = 0 /\ Len(m.data) = 1
    BY <2>2 DEF MessageOK, DataOK
  <2>4. t.rcv_nxt + n = 1
    BY <2>3 DEF Fresh
  <2> HIDE DEF n
  <2> QED
    BY <1>2, <2>4
<1>6. nxt > 0 /\ t.rcv_nxt <= nxt
  <2> HIDE DEF n
  <2> QED
    BY <1>2, SMT
<1> HIDE DEF nxt
<1>7. /\ Receives(t, u)
      /\ u.ahead = t.ahead /\ u.rbuf = t.rbuf /\ u.rcv_nxt = nxt
      /\ u.rcv_wnd = t.rcv_wnd /\ u.rlist = t.rlist
      /\ u.readEnable = t.readEnable
  BY <1>1, <1>2, <1>3, SkipTyped DEF Shows
<1>8. Edge(t) <= Edge(u) /\ 1 <= Edge(u)
  BY <1>2, <1>6, <1>7 DEF Edge
<1>9. t.shutdown = "NONE" => c.given + Len(t.rbuf) = 0 /\ nxt = 1
  <2>1. t.shutdown = "NONE" => c.given + Len(t.rbuf) = 0
    BY <1>1, <1>5 DEF ReceiverOK
  <2>2. t.shutdown = "NONE" => nxt = 0 + 1
    BY <1>5 DEF nxt
  <2> QED
    BY <2>1, <2>2
<1>10. ~HandshakeFaults /\ t.shutdown = "NONE" => ReceivedOK(u)
  <2>1. SUFFICES ASSUME ~HandshakeFaults, t.shutdown = "NONE" PROVE ReceivedOK(u)
    OBVIOUS
  <2>2. t.rlist = <<>>
    BY <1>1, <1>5, <2>1 DEF ReceiverOK, ReceivedOK
  <2>3. StoredOK(u)
    <3>1. DOMAIN u.rlist = {}
      BY <1>7, <2>2
    <3> QED
      BY <3>1 DEF StoredOK
  <2>4. UpTo(u.rbuf, u.rcv_nxt)
    <3>1. c.given \in Nat
      BY DEF Context
    <3> QED
      BY <1>2, <1>7, <1>9, <2>1, <3>1, NothingRead
  <2> QED
    BY <1>7, <2>2, <2>3, <2>4, ReceivedIs
<1>11. u.shutdown = t.shutdown
  BY <1>7 DEF Receives
<1>12. u.shutdown = "NONE" =>
          c.given + Len(u.rbuf) = IF u.rcv_nxt = 0 THEN 0 ELSE u.rcv_nxt - 1
  <2>1. 1 - 1 = 0
    OBVIOUS
  <2> QED
    BY <1>7, <1>9, <1>11, <2>1
<1>13. ReceiverOK(u, c.cuts, c.given)
  BY <1>1, <1>4, <1>7, <1>8, <1>10, <1>11, <1>12 DEF ReceiverOK
<1> QED
  BY <1>6, <1>7, <1>8, <1>13, ReceivesComes

\* What the stream reaches lies in the buffer: the new data and what was stored.
LEMMA ReachHolds ==
    ASSUME NEW t \in Tcb, StoredOK(t), NEW data \in Seq(Nat), Numbered(data, t.rcv_nxt),
           NEW A, A = WriteOffset(t.ahead, data, t.rcv_nxt - t.rcv_nxt),
           NEW r \in ReachType, ReachOK(r, t.rlist, t.rcv_nxt + Len(data)),
           NEW k \in Nat, t.rcv_nxt + k = r.nxt
    PROVE  HoldsNext(A, t.rcv_nxt, k)
<1> DEFINE nxt == t.rcv_nxt
           n == Len(data)
<1>1. /\ nxt \in Nat /\ n \in Nat /\ t.ahead \in Seq(Nat) /\ t.rlist \in Seq(RSegment)
      /\ nxt <= nxt
  BY TcbType
<1>2. /\ A \in Seq(Nat)
      /\ \A p \in nxt .. nxt + n - 1 : At(A, nxt, p)
      /\ \A p \in Nat : p >= nxt /\ At(t.ahead, nxt, p) => At(A, nxt, p)
  <2> HIDE DEF nxt
  <2>1. A = WriteOffset(t.ahead, data, nxt - nxt) /\ Numbered(data, nxt)
    BY DEF nxt
  <2> QED
    BY <1>1, <2>1, NewIsAt
<1>3. ASSUME NEW p \in nxt .. nxt + k - 1 PROVE At(A, nxt, p)
  <2>1. p \in Nat /\ p >= nxt
    BY <1>1
  <2>2. CASE p <= nxt + n - 1
    <3>1. p \in nxt .. nxt + n - 1
      BY <1>1, <2>1, <2>2
    <3> QED
      BY <1>2, <3>1
  <2>3. CASE ~(p <= nxt + n - 1)
    <3>1. p \in nxt + n .. r.nxt - 1
      BY <1>1, <2>1, <2>3, SMT
    <3>2. PICK i \in DOMAIN t.rlist : Holds(t.rlist, i, p)
      BY <3>1 DEF ReachOK
    <3>3. At(t.ahead, nxt, p)
      BY <2>1, <3>2, StoredAt DEF Holds
    <3> QED
      BY <1>2, <2>1, <3>3
  <2> QED
    BY <2>2, <2>3
<1> QED
  BY <1>3 DEF HoldsNext

\* What stays stored is still in the buffer.
LEMMA RestStored ==
    ASSUME NEW t \in Tcb, StoredOK(t), NEW data \in Seq(Nat), Numbered(data, t.rcv_nxt),
           NEW A, A = WriteOffset(t.ahead, data, t.rcv_nxt - t.rcv_nxt),
           NEW r \in ReachType, ReachOK(r, t.rlist, t.rcv_nxt + Len(data)),
           NEW k \in Nat, NEW u, Takes(t, u, A, k, r.rlist)
    PROVE  StoredOK(u)
<1> DEFINE nxt == t.rcv_nxt
<1>1. /\ nxt \in Nat /\ t.ahead \in Seq(Nat) /\ t.rlist \in Seq(RSegment)
      /\ nxt <= nxt
  BY TcbType
<1>2. /\ A \in Seq(Nat)
      /\ \A p \in Nat : p >= nxt /\ At(t.ahead, nxt, p) => At(A, nxt, p)
  <2> HIDE DEF nxt
  <2>1. A = WriteOffset(t.ahead, data, nxt - nxt) /\ Numbered(data, nxt)
    BY DEF nxt
  <2> QED
    BY <1>1, <2>1, NewIsAt
<1>3. u.rlist = r.rlist /\ u.rcv_nxt = nxt + k /\ u.ahead = SubSeq(A, k + 1, Len(A))
  BY DEF Takes
<1>4. ASSUME NEW i \in DOMAIN u.rlist,
             NEW p \in u.rlist[i].seq .. u.rlist[i].seq + u.rlist[i].len - 1,
             p >= u.rcv_nxt
      PROVE  At(u.ahead, u.rcv_nxt, p)
  <2>1. PICK j \in DOMAIN t.rlist : u.rlist[i] = t.rlist[j]
    BY <1>3 DEF ReachOK
  <2>2. p \in t.rlist[j].seq .. t.rlist[j].seq + t.rlist[j].len - 1
    BY <2>1
  <2>3. t.rlist[j].seq \in Nat /\ t.rlist[j].len \in Nat
    BY <1>1, RSegmentType
  <2>4. p \in Nat
    BY <2>2, <2>3
  <2>5. p >= nxt + k /\ p >= nxt
    <3>1. p >= nxt + k
      BY <1>3, <1>4
    <3> HIDE DEF nxt
    <3> QED
      BY <1>1, <2>4, <3>1
  <2>6. At(t.ahead, nxt, p)
    BY <2>2, <2>5, StoredAt
  <2>7. At(A, nxt, p)
    BY <1>2, <2>4, <2>5, <2>6
  <2> HIDE DEF nxt
  <2>8. At(SubSeq(A, k + 1, Len(A)), nxt + k, p)
    <3> DEFINE B == SubSeq(A, k + 1, Len(A))
    <3>1. B = SubSeq(A, k + 1, Len(A))
      OBVIOUS
    <3> HIDE DEF B
    <3>2. At(B, nxt + k, p)
      BY <1>1, <1>2, <2>4, <2>5, <2>7, <3>1, LaterAt
    <3> QED
      BY <3>2 DEF B
  <2> QED
    BY <1>3, <2>8
<1> QED
  BY <1>4, StoredAt

LEMMA FarFromZero ==
    ASSUME NEW a \in Nat, NEW b \in Nat, a > 0
    PROVE  a + b # 0
  OBVIOUS

\* g bytes and l more are the stream up to byte n; its first byte is numbered 1.
Counted(g, l, n) == g + l = n - 1

LEMMA CountedBytes ==
    ASSUME NEW g \in Nat, NEW l \in Nat, NEW n \in Nat, NEW k \in Nat, Counted(g, l, n)
    PROVE  Counted(g, l + k, n + k)
  BY DEF Counted

\* Data at the end of the stream is taken, with what is stored behind it.
LEMMA TakeComes ==
    ASSUME NEW c \in Context, NEW t, Sound(t, c), NEW m, MessageOK(m, t, c),
           NEW d, Fresh(d, t, m), d.data \in Seq(Nat), d.data # <<>>,
           ~m.ctl, t.shutdown = "NONE", d.seq = t.rcv_nxt,
           NEW A, A = WriteOffset(t.ahead, d.data, d.seq - t.rcv_nxt),
           NEW r, r = Reach(t.rlist, t.rcv_nxt + Len(d.data)),
           NEW k, k = r.nxt - t.rcv_nxt,
           NEW u, u = Told(ConsumeWriteBuffer(Filled(t, A), k), r.rlist)
    PROVE  Comes(t, u, c)
<1> DEFINE n == Len(d.data)
           nxt == t.rcv_nxt
           wnd == t.rcv_wnd
           len == Len(t.rbuf)
<1>1. t \in Tcb /\ ReceiverOK(t, c.cuts, c.given)
  BY DEF Sound
<1>2. /\ n \in Nat /\ n > 0 /\ nxt \in Nat /\ wnd \in Nat /\ len \in Nat
      /\ t.rbuf \in Seq(Nat) /\ t.ahead \in Seq(Nat) /\ t.rlist \in Seq(RSegment)
      /\ nxt + n \in Nat
  <2>1. n \in Nat /\ n # 0
    BY EmptySeq
  <2>2. /\ nxt \in Nat /\ wnd \in Nat
        /\ t.rbuf \in Seq(Nat) /\ t.ahead \in Seq(Nat) /\ t.rlist \in Seq(RSegment)
    BY <1>1, TcbType
  <2>3. len \in Nat
    BY <2>2
  <2> HIDE DEF n, nxt, wnd, len
  <2>4. n > 0 /\ nxt + n \in Nat
    BY <2>1, <2>2
  <2> QED
    BY <2>1, <2>2, <2>3, <2>4
<1>3. r \in ReachType /\ ReachOK(r, t.rlist, nxt + n)
  BY <1>2, ReachFacts
<1>4. r.nxt \in Nat /\ r.rlist \in Seq(RSegment)
  BY <1>3 DEF ReachType
<1>5. nxt + n <= r.nxt
  BY <1>3 DEF ReachOK
<1>6. r.nxt \in c.cuts
  <2>1. nxt + n \in c.cuts
    BY DEF MessageOK, Fresh
  <2>2. \A i \in DOMAIN t.rlist : t.rlist[i].seq + t.rlist[i].len \in c.cuts
    BY <1>1 DEF ReceiverOK
  <2> QED
    BY <1>3, <2>1, <2>2 DEF ReachOK
<1>7. r.nxt <= nxt + wnd
  BY <1>6 DEF Sound, Edge
<1>8. k \in Nat /\ nxt + k = r.nxt /\ k <= wnd /\ k > 0
  <2>1. k = r.nxt - nxt
    OBVIOUS
  <2> HIDE DEF n, nxt, wnd
  <2> QED
    BY <2>1, <1>2, <1>4, <1>5, <1>7, SMTT(40)
<1>9. A \in Seq(Nat)
  <2>1. Numbered(d.data, d.seq) /\ nxt <= d.seq /\ d.seq \in Nat
    BY DEF Fresh
  <2>2. A = WriteOffset(t.ahead, d.data, d.seq - nxt)
    OBVIOUS
  <2> HIDE DEF nxt
  <2> QED
    BY <1>2, <2>1, <2>2, NewIsAt
<1>10. Takes(t, u, A, k, r.rlist)
  BY <1>1, <1>4, <1>8, <1>9, ConsumeFacts
<1>11. nxt > 0
  <2>1. m.seq # 0 /\ m.seq \in Nat /\ m.seq <= nxt
    <3>1. m.data # <<>> /\ m.seq <= d.seq
      BY DEF Fresh
    <3> QED
      BY <3>1 DEF MessageOK, DataOK
  <2> HIDE DEF nxt
  <2> QED
    BY <1>2, <2>1
<1>12. /\ u.rcv_nxt = nxt + k /\ u.rcv_wnd = wnd - k /\ u.rlist = r.rlist /\ ~u.readEnable
       /\ u.rbuf = t.rbuf \o Consumed(A, k) /\ Receives(t, u)
  BY <1>10, Zenon DEF Takes
<1>13. Len(u.rbuf) = len + k
  <2>1. Consumed(A, k) \in Seq(Nat) /\ Len(Consumed(A, k)) = k
    BY <1>8, <1>9, ConsumedType
  <2>2. Joins(t.rbuf, Consumed(A, k), u.rbuf)
    BY <1>2, <1>12, <2>1, Concatenated, Zenon
  <2> QED
    BY <2>1, <2>2 DEF Joins
<1>14. Edge(u) = Edge(t) /\ Edge(t) \in Nat
  <2>1. Edge(u) = (nxt + k) + (wnd - k) /\ Edge(t) = nxt + wnd
    BY <1>12, Zenon DEF Edge
  <2> HIDE DEF nxt, wnd
  <2> QED
    BY <2>1, <1>2, <1>8
<1>15. ReceivedOK(t) => ReceivedOK(u)
  <2>1. SUFFICES ASSUME ReceivedOK(t) PROVE ReceivedOK(u)
    OBVIOUS
  <2>2. UpTo(t.rbuf, nxt) /\ StoredOK(t)
    BY <2>1, ReceivedIs
  <2>3. Numbered(d.data, t.rcv_nxt)
    BY DEF Fresh
  <2>4. A = WriteOffset(t.ahead, d.data, t.rcv_nxt - t.rcv_nxt)
    OBVIOUS
  <2>5. HoldsNext(A, nxt, k)
    BY <1>1, <1>3, <1>8, <2>2, <2>3, <2>4, ReachHolds
  <2>6. StoredOK(u)
    BY <1>1, <1>3, <1>8, <1>10, <2>2, <2>3, <2>4, RestStored
  <2>7. UpTo(u.rbuf, u.rcv_nxt)
    <3> HIDE DEF n, nxt, wnd, len
    <3>2. nxt \in Nat /\ t.rbuf \in Seq(Nat)
      BY <1>2
    <3>3. k \in Nat
      BY <1>8
    <3>4. u.rbuf = t.rbuf \o Consumed(A, k)
      BY <1>12, Zenon
    <3>1. UpTo(u.rbuf, nxt + k)
      BY <1>9, <2>2, <2>5, <3>2, <3>3, <3>4, ReadJoins, ZenonT(40)
    <3> QED
      BY <3>1, <1>12, Zenon
  <2>8. u.rcv_nxt # 0
    <3> HIDE DEF n, nxt, wnd, len
    <3>1. nxt + k # 0
      BY <1>2, <1>8, <1>11, FarFromZero
    <3> QED
      BY <3>1, <1>12, Zenon
  <2> QED
    BY <2>6, <2>7, <2>8, ReceivedIs
<1>16. u.shutdown = t.shutdown
  BY <1>12, Zenon DEF Receives
<1>17. c.given + Len(u.rbuf) = IF u.rcv_nxt = 0 THEN 0 ELSE u.rcv_nxt - 1
  <2>1. c.given + len = nxt - 1 /\ c.given \in Nat
    BY <1>1, <1>2, <1>11 DEF ReceiverOK, Context
  <2> DEFINE g == c.given
  <2>4. Counted(g, len, nxt) /\ g \in Nat
    BY <2>1 DEF Counted
  <2> HIDE DEF n, nxt, wnd, len, g
  <2>5. nxt \in Nat /\ len \in Nat /\ k \in Nat
    BY <1>2, <1>8
  <2>6. Counted(g, len + k, nxt + k)
    BY <2>4, <2>5, CountedBytes
  <2>2. c.given + (len + k) = (nxt + k) - 1
    BY <2>6 DEF g, Counted
  <2>3. nxt + k # 0
    BY <1>2, <1>8, <1>11, FarFromZero
  <2> QED
    BY <2>2, <2>3, <1>12, <1>13, Zenon
<1>18. u.rcv_wnd <= RcvBuf - Len(u.rbuf)
  <2>1. wnd <= RcvBuf - len /\ RcvBuf \in Nat
    BY <1>1, SizesAssumption DEF ReceiverOK
  <2>2. u.rcv_wnd = wnd - k /\ Len(u.rbuf) = len + k
    BY <1>12, <1>13, Zenon
  <2> HIDE DEF wnd, len
  <2>3. wnd - k <= RcvBuf - (len + k)
    BY <1>2, <1>8, <2>1
  <2> QED
    BY <2>2, <2>3
<1>19. ReceiverOK(u, c.cuts, c.given)
  <2>1. u.rcv_nxt \in c.cuts
    BY <1>6, <1>8, <1>12, Zenon
  <2>2. 1 <= Edge(u)
    BY <1>1, <1>14 DEF ReceiverOK
  <2>3. \A i \in DOMAIN u.rlist : u.rlist[i].seq + u.rlist[i].len \in c.cuts
    <3>1. \A i \in DOMAIN r.rlist : \E j \in DOMAIN t.rlist : r.rlist[i] = t.rlist[j]
      BY <1>3 DEF ReachOK
    <3>2. \A j \in DOMAIN t.rlist : t.rlist[j].seq + t.rlist[j].len \in c.cuts
      BY <1>1 DEF ReceiverOK
    <3>3. u.rlist = r.rlist
      BY <1>12, Zenon
    <3> SUFFICES ASSUME NEW i \in DOMAIN u.rlist
                 PROVE  u.rlist[i].seq + u.rlist[i].len \in c.cuts
      OBVIOUS
    <3>4. PICK j \in DOMAIN t.rlist : u.rlist[i] = t.rlist[j]
      BY <3>1, <3>3
    <3>5. t.rlist[j].seq + t.rlist[j].len \in c.cuts
      BY <3>2
    <3> QED
      BY <3>4, <3>5
  <2>4. ~HandshakeFaults /\ u.shutdown = "NONE" => ReceivedOK(u)
    BY <1>1, <1>15 DEF ReceiverOK
  <2> QED
    BY <1>12, <1>17, <1>18, <2>1, <2>2, <2>3, <2>4, Zenon DEF ReceiverOK
<1>20. t.rcv_nxt <= u.rcv_nxt /\ Edge(t) <= Edge(u)
  <2>1. nxt <= nxt + k
    <3> HIDE DEF nxt
    <3> QED
      BY <1>2, <1>8
  <2>2. Edge(t) <= Edge(u)
    BY <1>14
  <2> QED
    BY <2>1, <2>2, <1>12, Zenon
<1> QED
  BY <1>12, <1>19, <1>20, ReceivesComes, Zenon

\* The segment that is stored is the only new one.
LEMMA InsertKeeps ==
    ASSUME NEW rlist \in Seq(RSegment), NEW seg \in RSegment, NEW u, u = Insert(rlist, seg)
    PROVE  /\ u \in Seq(RSegment)
           /\ \A k \in DOMAIN u : u[k] = seg \/ \E j \in DOMAIN rlist : u[k] = rlist[j]
<1> DEFINE later == {i \in DOMAIN rlist : rlist[i].seq >= seg.seq}
           S == later \cup {Len(rlist) + 1}
           i == Least(S)
           l == Len(rlist)
<1>1. l \in Nat /\ DOMAIN rlist = 1 .. l
  OBVIOUS
<1>2. S \in SUBSET Nat /\ S # {} /\ S \subseteq 1 .. l + 1
  BY <1>1
<1>3. i \in 1 .. l + 1
  <2> HIDE DEF S
  <2> QED
    BY <1>2, LeastIs
<1>4. u = InsertAt(rlist, i, seg)
  BY DEF Insert
<1> HIDE DEF i
<1>5. u \in Seq(RSegment) /\ Inserted(rlist, i, seg, u)
  BY <1>3, <1>4, InsertFacts
<1>6. Len(u) = l + 1 /\ DOMAIN u = 1 .. l + 1
  BY <1>1, <1>5 DEF Inserted
<1>7. ASSUME NEW k \in DOMAIN u
      PROVE  u[k] = seg \/ \E j \in DOMAIN rlist : u[k] = rlist[j]
  <2> HIDE DEF l
  <2>1. k \in Nat /\ k \in 1 .. l + 1 /\ i \in Nat
    BY <1>1, <1>3, <1>6
  <2>2. CASE k < i
    <3>1. k \in 1 .. i - 1 /\ k \in 1 .. l
      BY <1>1, <1>3, <2>1, <2>2
    <3>2. u[k] = rlist[k]
      BY <1>5, <3>1 DEF Inserted
    <3> QED
      BY <1>1, <3>1, <3>2
  <2>3. CASE k = i
    BY <1>5, <2>3 DEF Inserted
  <2>4. CASE k > i
    <3>1. k \in i + 1 .. l + 1 /\ k - 1 \in 1 .. l
      BY <1>1, <1>3, <2>1, <2>4
    <3>2. u[k] = rlist[k - 1]
      BY <1>5, <3>1 DEF Inserted, l
    <3> QED
      BY <1>1, <3>1, <3>2
  <2> QED
    BY <2>1, <2>2, <2>3, <2>4
<1> QED
  BY <1>5, <1>7

\* Data beyond the end of the stream is stored.
LEMMA StoreComes ==
    ASSUME NEW c \in Context, NEW t, Sound(t, c), NEW m, MessageOK(m, t, c), InOrder(m, t),
           NEW d, Fresh(d, t, m), d.data \in Seq(Nat), d.data # <<>>,
           ~m.ctl,
           NEW A, A = WriteOffset(t.ahead, d.data, d.seq - t.rcv_nxt),
           NEW seg, seg = [seq |-> d.seq, len |-> Len(d.data)],
           NEW u, u = Stored(Filled(t, A), Insert(t.rlist, seg))
    PROVE  Comes(t, u, c)
<1> DEFINE nxt == t.rcv_nxt
           w == Filled(t, A)
           list == Insert(t.rlist, seg)
<1>1. t \in Tcb /\ ReceiverOK(t, c.cuts, c.given)
  BY DEF Sound
<1>2. /\ nxt \in Nat /\ t.rcv_wnd \in Nat /\ t.ahead \in Seq(Nat)
      /\ t.rlist \in Seq(RSegment) /\ nxt <= nxt
  BY <1>1, TcbType
<1>3. Numbered(d.data, d.seq) /\ nxt <= d.seq /\ d.seq \in Nat
      /\ d.seq + Len(d.data) = m.seq + Len(m.data) /\ m.data # <<>>
  BY DEF Fresh
<1>4. /\ A \in Seq(Nat)
      /\ \A p \in d.seq .. d.seq + Len(d.data) - 1 : At(A, nxt, p)
      /\ \A p \in Nat : p >= nxt /\ At(t.ahead, nxt, p) => At(A, nxt, p)
  <2>2. A = WriteOffset(t.ahead, d.data, d.seq - nxt)
    OBVIOUS
  <2> HIDE DEF nxt
  <2> QED
    BY <1>2, <1>3, <2>2, NewIsAt
<1>5. seg \in RSegment /\ seg.seq = d.seq /\ seg.len = Len(d.data)
  <2>1. Len(d.data) \in Nat
    OBVIOUS
  <2> QED
    BY <1>3, <2>1 DEF RSegment
<1>6. /\ list \in Seq(RSegment)
      /\ \A k \in DOMAIN list : list[k] = seg \/ \E j \in DOMAIN t.rlist : list[k] = t.rlist[j]
  BY <1>2, <1>5, InsertKeeps
<1>7. u = Stored(w, list)
  OBVIOUS
<1> HIDE DEF list
<1>8. Shows(t, w, t.rbuf, A, nxt, t.rcv_wnd, t.rlist) /\ w.readEnable = t.readEnable
  BY <1>1, <1>4, AheadTyped
<1> HIDE DEF w
<1>9. w \in Tcb
  BY <1>8 DEF Shows, Receives
<1>10. Shows(w, u, w.rbuf, w.ahead, w.rcv_nxt, w.rcv_wnd, list)
       /\ u.readEnable = w.readEnable
  BY <1>6, <1>7, <1>9, StoreTyped
<1>11. /\ Receives(t, u)
       /\ u.rbuf = t.rbuf /\ u.ahead = A /\ u.rcv_nxt = nxt /\ u.rcv_wnd = t.rcv_wnd
       /\ u.rlist = list /\ u.readEnable = t.readEnable /\ u.shutdown = t.shutdown
  <2>1. Receives(t, w) /\ Receives(w, u)
    BY <1>8, <1>10 DEF Shows
  <2>2. Receives(t, u)
    BY <2>1, ReceivesTrans
  <2> QED
    BY <1>8, <1>10, <2>2 DEF Shows, Receives
<1>12. Edge(u) = Edge(t) /\ Edge(t) \in Nat
  BY <1>2, <1>11 DEF Edge
<1>13. ~HandshakeFaults => nxt # 0
  BY <1>3 DEF InOrder, Late
<1>14. ASSUME ~HandshakeFaults, ReceivedOK(t) PROVE ReceivedOK(u)
  <2>1. UpTo(t.rbuf, t.rcv_nxt) /\ StoredOK(t)
    BY <1>14, ReceivedIs
  <2>2. UpTo(u.rbuf, u.rcv_nxt)
    BY <2>1, <1>11
  <2>3. ASSUME NEW i \in DOMAIN u.rlist,
               NEW p \in u.rlist[i].seq .. u.rlist[i].seq + u.rlist[i].len - 1,
               p >= u.rcv_nxt
        PROVE  At(u.ahead, u.rcv_nxt, p)
    <3>1. i \in DOMAIN list /\ u.rlist[i] = list[i]
      BY <1>11
    <3>2. CASE list[i] = seg
      <4>1. p \in d.seq .. d.seq + Len(d.data) - 1
        BY <1>5, <3>1, <3>2
      <4> QED
        BY <1>4, <1>11, <4>1
    <3>3. CASE \E j \in DOMAIN t.rlist : list[i] = t.rlist[j]
      <4>1. PICK j \in DOMAIN t.rlist : list[i] = t.rlist[j]
        BY <3>3
      <4>2. p \in t.rlist[j].seq .. t.rlist[j].seq + t.rlist[j].len - 1
        BY <3>1, <4>1
      <4>3. t.rlist[j].seq \in Nat /\ t.rlist[j].len \in Nat
        BY <1>2, RSegmentType
      <4>4. p \in Nat
        BY <4>2, <4>3
      <4>5. p >= nxt
        BY <1>11, <2>3
      <4>6. At(t.ahead, nxt, p)
        BY <2>1, <4>2, <4>5, StoredAt
      <4>7. At(A, nxt, p)
        BY <1>4, <4>4, <4>5, <4>6
      <4> QED
        BY <1>11, <4>7
    <3> QED
      BY <1>6, <3>1, <3>2, <3>3
  <2>4. StoredOK(u)
    BY <2>3, StoredAt
  <2> QED
    BY <1>11, <1>13, <1>14, <2>2, <2>4, ReceivedIs
<1>15. ASSUME NEW i \in DOMAIN u.rlist PROVE u.rlist[i].seq + u.rlist[i].len \in c.cuts
  <2>1. i \in DOMAIN list /\ u.rlist[i] = list[i]
    BY <1>11
  <2>2. CASE list[i] = seg
    <3>1. d.seq + Len(d.data) \in c.cuts
      BY <1>3 DEF MessageOK
    <3> QED
      BY <1>5, <2>1, <2>2, <3>1
  <2>3. CASE \E j \in DOMAIN t.rlist : list[i] = t.rlist[j]
    BY <1>1, <2>1, <2>3 DEF ReceiverOK
  <2> QED
    BY <1>6, <2>1, <2>2, <2>3
<1>16. ReceiverOK(u, c.cuts, c.given)
  <2>1. /\ u.rcv_nxt \in c.cuts /\ u.rcv_wnd <= RcvBuf - Len(u.rbuf) /\ 1 <= Edge(u)
        /\ u.readEnable => u.rbuf = <<>>
    BY <1>1, <1>11, <1>12 DEF ReceiverOK
  <2>2. u.shutdown = "NONE" =>
           c.given + Len(u.rbuf) = IF u.rcv_nxt = 0 THEN 0 ELSE u.rcv_nxt - 1
    BY <1>1, <1>11 DEF ReceiverOK
  <2>3. ~HandshakeFaults /\ u.shutdown = "NONE" => ReceivedOK(u)
    BY <1>1, <1>11, <1>14 DEF ReceiverOK
  <2> QED
    BY <1>15, <2>1, <2>2, <2>3 DEF ReceiverOK
<1>17. t.rcv_nxt <= u.rcv_nxt /\ Edge(t) <= Edge(u)
  BY <1>2, <1>11, <1>12
<1> QED
  BY <1>11, <1>16, <1>17, ReceivesComes

\* The data of a packet, whatever becomes of it.
LEMMA OnDataComes ==
    ASSUME NEW c \in Context, NEW t, Sound(t, c), NEW m, MessageOK(m, t, c), InOrder(m, t),
           NEW d, d = Trim(t, m), NEW u, u = OnData(t, d, m.ctl)
    PROVE  Comes(t, u, c)
<1> DEFINE n == Len(d.data)
           A == WriteOffset(t.ahead, d.data, d.seq - t.rcv_nxt)
           r == Reach(t.rlist, t.rcv_nxt + n)
           k == r.nxt - t.rcv_nxt
           seg == [seq |-> d.seq, len |-> n]
<1>1. t \in Tcb
  BY DEF Sound
<1>2. d.data \in Seq(Nat) /\ (d.data # <<>> => Fresh(d, t, m))
  BY TrimFacts
<1>3. Comes(t, t, c)
  <2>1. Tuned(t, t)
    BY <1>1, TunedSelf
  <2>2. Grows(t, t)
    BY <2>1, TunedAdvances DEF Advances
  <2> QED
    BY <2>2 DEF Comes
<1>4. CASE n = 0
  <2>1. u = t
    BY <1>4 DEF OnData
  <2> QED
    BY <1>3, <2>1
<1>5. CASE n # 0
  <2>1. d.data # <<>>
    BY <1>5
  <2>2. Fresh(d, t, m)
    BY <1>2, <2>1
  <2>3. CASE (m.ctl \/ t.shutdown # "NONE") /\ d.seq = t.rcv_nxt
    <3>1. u = Skipped(t, t.rcv_nxt + n)
      BY <1>5, <2>3 DEF OnData, Skipped
    <3> QED
      BY <1>2, <2>1, <2>2, <2>3, <3>1, SkipComes
  <2>4. CASE (m.ctl \/ t.shutdown # "NONE") /\ d.seq # t.rcv_nxt
    <3>1. u = t
      BY <1>5, <2>4 DEF OnData
    <3> QED
      BY <1>3, <3>1
  <2>5. CASE ~(m.ctl \/ t.shutdown # "NONE") /\ d.seq = t.rcv_nxt
    <3>1. u = Told(ConsumeWriteBuffer(Filled(t, A), k), r.rlist)
      BY <1>5, <2>5 DEF OnData, Told, Filled
    <3>2. r = Reach(t.rlist, t.rcv_nxt + Len(d.data)) /\ k = r.nxt - t.rcv_nxt
          /\ A = WriteOffset(t.ahead, d.data, d.seq - t.rcv_nxt)
      OBVIOUS
    <3> HIDE DEF A, r, k
    <3> QED
      BY <1>2, <2>1, <2>2, <2>5, <3>1, <3>2, TakeComes
  <2>6. CASE ~(m.ctl \/ t.shutdown # "NONE") /\ d.seq # t.rcv_nxt
    <3>1. Filled(t, A).rlist = t.rlist
      <4>1. A \in Seq(Nat)
        <5>1. t.rcv_nxt \in Nat /\ t.ahead \in Seq(Nat)
          BY <1>1, TcbType
        <5> QED
          BY <1>2, <2>2, <5>1, NewIsAt DEF Fresh
      <4> HIDE DEF A
      <4> QED
        BY <1>1, <4>1, AheadTyped DEF Shows
    <3>2. u = Stored(Filled(t, A), Insert(Filled(t, A).rlist, seg))
      BY <1>5, <2>6 DEF OnData, Stored, Filled
    <3>3. u = Stored(Filled(t, A), Insert(t.rlist, seg))
      BY <3>1, <3>2
    <3>4. seg = [seq |-> d.seq, len |-> Len(d.data)]
          /\ A = WriteOffset(t.ahead, d.data, d.seq - t.rcv_nxt)
      OBVIOUS
    <3> HIDE DEF A, seg
    <3> QED
      BY <1>2, <2>1, <2>2, <2>6, <3>3, <3>4, StoreComes
  <2> QED
    BY <2>3, <2>4, <2>5, <2>6
<1> QED
  BY <1>4, <1>5

(***************************************************************************)
(* process() as a whole                                                    *)
(***************************************************************************)

\* A later stage of a call than t.
Goes(t, u, c) == Sound(u, c) /\ Grows(t, u) /\ u.shutdown = t.shutdown

LEMMA AdvancesGoes ==
    ASSUME NEW t, NEW u, NEW c, Advances(t, u, c)
    PROVE  Goes(t, u, c) /\ u.rcv_nxt = t.rcv_nxt
  BY DEF Advances, Goes, SameReceiver

LEMMA GoesTrans ==
    ASSUME NEW c, NEW t \in Tcb, NEW u, NEW v, Goes(t, u, c), Goes(u, v, c)
    PROVE  Goes(t, v, c)
<1>1. u \in Tcb /\ v \in Tcb
  BY DEF Goes, Sound
<1>2. Grows(t, v)
  BY <1>1, GrowsTrans DEF Goes
<1> QED
  BY <1>2 DEF Goes

LEMMA GoesSelf ==
    ASSUME NEW c, NEW t, Sound(t, c)
    PROVE  Goes(t, t, c)
<1>1. t.rcv_nxt \in Nat /\ Edge(t) \in Nat
  BY TcbType DEF Sound, Edge
<1>2. Grows(t, t)
  BY <1>1 DEF Grows
<1> QED
  BY <1>2 DEF Goes

\* The connect message is never passed over: it is taken the first time.
Greeted(m, t, u) == m.ctl /\ t.rcv_nxt = 0 => u.rcv_nxt > 0

\* TakeData: in order, out of order, or nothing new.
LEMMA TakeGoes ==
    ASSUME NEW c \in Context, NEW t, Sound(t, c), NEW m, MessageOK(m, t, c), InOrder(m, t),
           WriteWaits(t), NEW env, NEW u, u = TakeData(t, m, env)
    PROVE  Goes(t, u, c) /\ WriteWaits(u) /\ Greeted(m, t, u) /\ u.state = t.state
<1> DEFINE d == Trim(t, m)
           s == OnData(t, d, m.ctl)
           flags == AckFlags(t, m, d)
<1>1. t \in Tcb
  BY DEF Sound
<1>2. Comes(t, s, c)
  <2>1. d = Trim(t, m)
    OBVIOUS
  <2> HIDE DEF d
  <2>2. s = OnData(t, d, m.ctl)
    OBVIOUS
  <2> HIDE DEF s
  <2> QED
    BY <2>1, <2>2, OnDataComes
<1>3. Greeted(m, t, s)
  <2>1. SUFFICES ASSUME m.ctl, t.rcv_nxt = 0 PROVE s.rcv_nxt > 0
    BY DEF Greeted
  <2>2. m.data # <<>> /\ m.seq = 0
    BY <2>1 DEF MessageOK, DataOK
  <2>3. d.data \in Seq(Nat) /\ d.data # <<>> /\ Fresh(d, t, m)
    <3>1. d = Trim(t, m) /\ m.seq >= t.rcv_nxt
      BY <2>1, <2>2
    <3> HIDE DEF d
    <3> QED
      BY <2>2, <3>1, TrimFacts
  <2>4. d.seq = t.rcv_nxt
    BY <2>1, <2>2, <2>3 DEF Fresh
  <2> HIDE DEF d
  <2>5. Len(d.data) \in Nat /\ Len(d.data) # 0
    BY <2>3, EmptySeq
  <2>6. s = Skipped(t, t.rcv_nxt + Len(d.data))
    BY <2>1, <2>4, <2>5 DEF OnData, Skipped
  <2>7. t.rcv_nxt + Len(d.data) \in Nat /\ t.rcv_nxt + Len(d.data) > 0
    BY <2>1, <2>5
  <2> HIDE DEF s
  <2>8. s.rcv_nxt = t.rcv_nxt + Len(d.data)
    BY <1>1, <2>6, <2>7, SkipTyped DEF Shows
  <2> QED
    BY <2>7, <2>8
<1>4. u = attemptSend(s, flags, env)
  BY DEF TakeData
<1> HIDE DEF s, flags
<1>5. Sound(s, c)
  BY <1>2 DEF Comes
<1>6. Sends(s, u, c)
  BY <1>4, <1>5, attemptSendKeeps
<1>7. Goes(t, s, c) /\ Goes(s, u, c) /\ u.rcv_nxt = s.rcv_nxt
  BY <1>2, <1>6 DEF Comes, Sends, Goes, SameReceiver
<1>8. Goes(t, u, c)
  BY <1>1, <1>7, GoesTrans
<1>9. u.sbuf = t.sbuf /\ u.writeEnable = t.writeEnable /\ u.state = t.state
  BY <1>2, <1>6 DEF Comes, Sends
<1> QED
  BY <1>3, <1>7, <1>8, <1>9 DEF WriteWaits, Greeted

LEMMA OnlyTake ==
    \A s, m, env : Only({TakeData(x, m, env) : x \in {s}}) = TakeData(s, m, env)
<1> SUFFICES ASSUME NEW s, NEW m, NEW env
             PROVE  Only({TakeData(x, m, env) : x \in {s}}) = TakeData(s, m, env)
  OBVIOUS
<1>1. {TakeData(x, m, env) : x \in {s}} = {TakeData(s, m, env)}
  OBVIOUS
<1> QED
  BY <1>1, OnlyOne

LEMMA OnlyProcess ==
    \A s, m, env : Only({ProcessData(x, m, env) : x \in {s}}) = ProcessData(s, m, env)
<1> SUFFICES ASSUME NEW s, NEW m, NEW env
             PROVE  Only({ProcessData(x, m, env) : x \in {s}}) = ProcessData(s, m, env)
  OBVIOUS
<1>1. {ProcessData(x, m, env) : x \in {s}} = {ProcessData(s, m, env)}
  OBVIOUS
<1> QED
  BY <1>1, OnlyOne

\* The data of a packet, after its acknowledgement.
LEMMA ProcessGoes ==
    ASSUME NEW c \in Context, NEW t, Sound(t, c), NEW m, MessageOK(m, t, c), InOrder(m, t),
           NEW env, NEW u, u = ProcessData(t, m, env)
    PROVE  Goes(t, u, c) /\ WriteWaits(u) /\ (u.state = "CLOSED" \/ Greeted(m, t, u))
           /\ (t.state = "CLOSED" => u = t)
<1>1. t \in Tcb
  BY DEF Sound
<1>2. CASE t.state = "CLOSED"
  <2>1. u = t
    BY <1>2 DEF ProcessData
  <2> QED
    BY <1>2, <2>1, GoesSelf DEF WriteWaits
<1>3. CASE t.state # "CLOSED"
  <2> DEFINE o == OnOpen(t, m)
             w == OnWriteable(o)
  <2>1. Advances(t, o, c)
    BY OnOpenAdvances
  <2> HIDE DEF o
  <2>2. Sound(o, c)
    BY <2>1 DEF Advances
  <2>3. Advances(o, w, c) /\ WriteWaits(w)
    BY <2>2, OnWriteableAdvances
  <2>4. u = TakeData(w, m, env)
    <3>1. u = Only({TakeData(s, m, env) : s \in {w}})
      BY <1>3 DEF ProcessData, o
    <3> HIDE DEF w
    <3> QED
      BY <3>1, OnlyTake
  <2> HIDE DEF w
  <2>5. Advances(t, w, c)
    BY <1>1, <2>1, <2>3, AdvancesTrans
  <2>6. Goes(t, w, c) /\ w.rcv_nxt = t.rcv_nxt /\ Sound(w, c)
    BY <2>5, AdvancesGoes DEF Goes
  <2>7. MessageOK(m, w, c)
    BY <2>6, MessageStays DEF Goes
  <2>8. InOrder(m, w)
    BY <2>6 DEF InOrder
  <2>9. Goes(w, u, c) /\ WriteWaits(u) /\ Greeted(m, w, u)
    BY <2>3, <2>4, <2>6, <2>7, <2>8, TakeGoes
  <2> QED
    BY <1>1, <1>3, <2>6, <2>9, GoesTrans DEF Greeted
<1> QED
  BY <1>2, <1>3

\* process() in its three stages.
LEMMA processIs ==
    \A t, m, env :
        process(t, m, env) = IF t.state = "CLOSED" THEN t
                             ELSE ProcessData(OnAck(OnConnect(t, m), m, env), m, env)
<1> SUFFICES ASSUME NEW t, NEW m, NEW env
             PROVE  Only({ProcessData(s, m, env) :
                             s \in {OnAck(r, m, env) : r \in {OnConnect(t, m)}}})
                      = ProcessData(OnAck(OnConnect(t, m), m, env), m, env)
  BY DEF process
<1>1. {OnAck(r, m, env) : r \in {OnConnect(t, m)}} = {OnAck(OnConnect(t, m), m, env)}
  OBVIOUS
<1> QED
  BY <1>1, OnlyProcess

\* A packet taken from the channel.
LEMMA processGoes ==
    ASSUME NEW c \in Context, NEW t, Sound(t, c), NEW m, MessageOK(m, t, c), InOrder(m, t),
           NEW env, NEW u, u = process(t, m, env)
    PROVE  Goes(t, u, c) /\ WriteWaits(u) /\ (u.state = "CLOSED" \/ Greeted(m, t, u))
           /\ (t.state = "CLOSED" => u = t)
<1>1. t \in Tcb
  BY DEF Sound
<1>2. CASE t.state = "CLOSED"
  <2>1. u = t
    BY <1>2, processIs
  <2> QED
    BY <1>2, <2>1, GoesSelf DEF WriteWaits
<1>3. CASE t.state # "CLOSED"
  <2> DEFINE r == OnConnect(t, m)
             s == OnAck(r, m, env)
  <2>1. Advances(t, r, c)
    BY OnConnectAdvances
  <2>2. u = ProcessData(s, m, env)
    BY <1>3, processIs
  <2> HIDE DEF r
  <2>3. Sound(r, c) /\ MessageOK(m, r, c)
    BY <2>1, MessageStays DEF Advances
  <2>4. Advances(r, s, c)
    BY <2>3, OnAckAdvances
  <2> HIDE DEF s
  <2>5. Advances(t, s, c)
    BY <1>1, <2>1, <2>4, AdvancesTrans
  <2>6. Goes(t, s, c) /\ s.rcv_nxt = t.rcv_nxt /\ Sound(s, c)
    BY <2>5, AdvancesGoes DEF Goes
  <2>7. MessageOK(m, s, c)
    BY <2>6, MessageStays DEF Goes
  <2>8. InOrder(m, s)
    BY <2>6 DEF InOrder
  <2>9. Goes(s, u, c) /\ WriteWaits(u) /\ (u.state = "CLOSED" \/ Greeted(m, s, u))
    BY <2>2, <2>6, <2>7, <2>8, ProcessGoes
  <2> QED
    BY <1>1, <1>3, <2>6, <2>9, GoesTrans DEF Greeted
<1> QED
  BY <1>2, <1>3

(***************************************************************************)
(* Calls: every entry point, and the clock after it                        *)
(***************************************************************************)

\* An object that is no longer called was closed, or has nothing left to send.
GoneOK(t) ==
    ~t.alive /\ t.shutdown = "GRACEFUL" /\ t.state = "ESTABLISHED" =>
        t.sbuf = <<>>

\* u is what a call leaves of t.
Call(t, u, c) ==
    /\ Sound(u, c) /\ Grows(t, u)
    /\ WriteWaits(u) /\ GoneOK(u)
    /\ t.state = "CLOSED" => u.state = "CLOSED"

LEMMA ClockIs ==
    \A t : AdjustClock(t) = [t EXCEPT !.alive = clock_check(t)]
<1> SUFFICES ASSUME NEW t
             PROVE  Only({[s EXCEPT !.alive = clock_check(s)] : s \in {t}}) =
                       [t EXCEPT !.alive = clock_check(t)]
  BY DEF AdjustClock
<1>1. {[s EXCEPT !.alive = clock_check(s)] : s \in {t}} = {[t EXCEPT !.alive = clock_check(t)]}
  OBVIOUS
<1> QED
  BY <1>1, OnlyOne

LEMMA AliveTyped ==
    ASSUME NEW t \in Tcb, NEW b \in BOOLEAN, NEW u, u = [t EXCEPT !.alive = b]
    PROVE  Tuned(t, u) /\ u.state = t.state /\ u.alive = b
           /\ u.writeEnable = t.writeEnable
<1>1. u \in Tcb
  BY DEF Tcb
<1>2. /\ u.state = t.state /\ u.alive = b /\ u.shutdown = t.shutdown
      /\ u.out = t.out /\ u.writeEnable = t.writeEnable
  BY DEF Tcb
<1>3. SameSender(t, u) /\ SameReceiver(t, u)
  BY DEF Tcb, SameSender, SameReceiver, StateMoves
<1> QED
  BY <1>1, <1>2, <1>3 DEF Tuned, Quiet

\* AdjustClock after a sound call (pseudotcpchannel.cc:522).
LEMMA AdjustClockCalls ==
    ASSUME NEW c \in Context, NEW t \in Tcb, NEW s, Sound(s, c), Grows(t, s), WriteWaits(s),
           t.state = "CLOSED" => s.state = "CLOSED", NEW u, u = AdjustClock(s)
    PROVE  Call(t, u, c)
<1> DEFINE b == clock_check(s)
<1>1. s \in Tcb
  BY DEF Sound
<1>2. b \in BOOLEAN
  BY DEF clock_check
<1>3. u = [s EXCEPT !.alive = b]
  BY ClockIs
<1>4. ~b /\ s.shutdown = "GRACEFUL" /\ s.state = "ESTABLISHED" => s.sbuf = <<>>
  BY DEF clock_check
<1> HIDE DEF b
<1>5. Tuned(s, u) /\ u.state = s.state /\ u.alive = b /\ u.writeEnable = s.writeEnable
  BY <1>1, <1>2, <1>3, AliveTyped
<1>6. Sound(u, c) /\ Grows(s, u) /\ u.shutdown = s.shutdown
  BY <1>5, TunedAdvances DEF Advances
<1>7. Grows(t, u)
  <2>1. u \in Tcb
    BY <1>6 DEF Sound
  <2> QED
    BY <1>1, <1>6, <2>1, GrowsTrans
<1>8. u.sbuf = s.sbuf
  BY <1>5 DEF Tuned, Quiet, SameSender
<1>9. GoneOK(u)
  BY <1>4, <1>5, <1>6, <1>8 DEF GoneOK
<1>10. WriteWaits(u)
  BY <1>5, <1>8 DEF WriteWaits
<1> QED
  BY <1>5, <1>6, <1>7, <1>9, <1>10 DEF Call

\* The same for a call that cannot end the object.
LEMMA OpenCalls ==
    ASSUME NEW c, NEW t, NEW u, Sound(u, c), Grows(t, u), WriteWaits(u),
           u.shutdown = "NONE", t.state # "CLOSED"
    PROVE  Call(t, u, c)
  BY DEF Call, GoneOK

\* t in another state.
Entering(t, x) == [t EXCEPT !.state = x]
Opening(t) == [t EXCEPT !.snd_wnd = 1]

\* The caller greets.
LEMMA ConnectAdvances ==
    ASSUME NEW c \in Context, NEW t, Sound(t, c), t.state = "LISTEN",
           NEW x \in TcpState, x # "LISTEN",
           NEW a, a = Entering(t, x),
           NEW q, q = queueConnectMessage(a)
    PROVE  Advances(t, q, c) /\ q.state = x /\ q.writeEnable = t.writeEnable
<1> DEFINE b == Opening(a)
<1>1. t \in Tcb
  BY DEF Sound
<1>2. q = queue(b, << 0 >>, TRUE)
  BY DEF queueConnectMessage, Opening
<1>3. Greets(t, b, x)
  BY <1>1, GreetsTyped DEF Entering, Opening
<1> HIDE DEF b
<1>4. Opened(t, q, x, c)
  BY <1>2, <1>3, GreetingAdvances
<1> QED
  BY <1>4 DEF Opened

\* Connect (pseudotcp.cc:287).
LEMMA ConnectCalls ==
    ASSUME NEW c \in Context, NEW t, Sound(t, c), WriteWaits(t), t.state = "LISTEN",
           NEW env, NEW q, Advances(t, q, c), q.writeEnable = t.writeEnable,
           NEW u, u = AdjustClock(attemptSend(q, "none", env))
    PROVE  Call(t, u, c)
<1> DEFINE s == attemptSend(q, "none", env)
<1>1. t \in Tcb
  BY DEF Sound
<1>4. u = AdjustClock(s)
  OBVIOUS
<1>7. ~t.writeEnable
  <2>1. t.snd_una + Len(t.sbuf) = 0
    BY DEF Sound, SenderOK
  <2>2. t.snd_una \in Nat /\ Len(t.sbuf) \in Nat
    BY <1>1, TcbType
  <2>3. Len(t.sbuf) = 0
    BY <2>1, <2>2
  <2>4. t.writeEnable => Len(t.sbuf) >= (SndBuf + RcvBuf) \div 2
    BY DEF WriteWaits
  <2>5. (SndBuf + RcvBuf) \div 2 >= 1
    <3>1. SndBuf \in Nat \ {0} /\ RcvBuf \in Nat \ {0}
      BY SizesAssumption
    <3> QED
      BY <3>1
  <2>6. (SndBuf + RcvBuf) \div 2 \in Nat
    <3>1. SndBuf \in Nat \ {0} /\ RcvBuf \in Nat \ {0}
      BY SizesAssumption
    <3> QED
      BY <3>1
  <2> QED
    BY <2>3, <2>4, <2>5, <2>6
<1>8. Sound(q, c)
  BY DEF Advances
<1>9. Sends(q, s, c)
  BY <1>8, attemptSendKeeps
<1> HIDE DEF s
<1>10. Sound(s, c) /\ WriteWaits(s)
  BY <1>7, <1>9 DEF Sends, WriteWaits
<1>11. Grows(t, s)
  <2>1. q \in Tcb /\ s \in Tcb
    BY <1>8, <1>10 DEF Sound
  <2> QED
    BY <1>1, <1>9, <2>1, GrowsTrans DEF Sends, Advances
<1> QED
  BY <1>1, <1>4, <1>10, <1>11, AdjustClockCalls

LEMMA ShutdownTyped ==
    ASSUME NEW t \in Tcb, NEW x \in {"GRACEFUL", "FORCEFUL"},
           NEW u, u = [t EXCEPT !.shutdown = x]
    PROVE  Quiet(t, u) /\ u.state = t.state /\ u.writeEnable = t.writeEnable
<1>1. u \in Tcb
  BY DEF Tcb
<1>2. /\ u.state = t.state /\ u.out = t.out /\ u.writeEnable = t.writeEnable
      /\ u.shutdown # "NONE"
  BY DEF Tcb
<1>3. SameSender(t, u) /\ SameReceiver(t, u)
  BY DEF Tcb, SameSender, SameReceiver, StateMoves
<1> QED
  BY <1>1, <1>2, <1>3 DEF Quiet

\* Close (pseudotcp.cc:495).
LEMMA CloseCalls ==
    ASSUME NEW c \in Context, NEW t, Sound(t, c), WriteWaits(t),
           NEW x \in {"GRACEFUL", "FORCEFUL"},
           NEW u, u = AdjustClock([t EXCEPT !.shutdown = x])
    PROVE  Call(t, u, c)
<1> DEFINE s == [t EXCEPT !.shutdown = x]
<1>1. t \in Tcb
  BY DEF Sound
<1>2. Quiet(t, s) /\ s.state = t.state /\ s.writeEnable = t.writeEnable
  BY <1>1, ShutdownTyped
<1>3. u = AdjustClock(s)
  OBVIOUS
<1> HIDE DEF s
<1>4. Sound(s, c) /\ Grows(t, s)
  BY <1>2, QuietKeeps
<1>5. WriteWaits(s)
  BY <1>2 DEF WriteWaits, Quiet, SameSender
<1> QED
  BY <1>1, <1>2, <1>3, <1>4, <1>5, AdjustClockCalls

LEMMA AdviseTyped ==
    ASSUME NEW t \in Tcb, NEW n \in Nat \ {0}, NEW u, u = [t EXCEPT !.mtu_advise = n]
    PROVE  Tuned(t, u) /\ u.state = t.state /\ u.writeEnable = t.writeEnable
<1>1. u \in Tcb
  BY DEF Tcb
<1>2. /\ u.state = t.state /\ u.shutdown = t.shutdown
      /\ u.out = t.out /\ u.writeEnable = t.writeEnable
  BY DEF Tcb
<1>3. SameSender(t, u) /\ SameReceiver(t, u)
  BY DEF Tcb, SameSender, SameReceiver, StateMoves
<1> QED
  BY <1>1, <1>2, <1>3 DEF Tuned, Quiet

LEMMA adjustMTUWritable ==
    ASSUME NEW t
    PROVE  t \in Tcb => adjustMTU(t).writeEnable = t.writeEnable
  BY DEF adjustMTU, Tcb

\* NotifyMTU (pseudotcp.cc:302).
LEMMA MtuCalls ==
    ASSUME NEW c \in Context, NEW t, Sound(t, c), WriteWaits(t), NEW n \in Nat \ {0},
           NEW a, a = [t EXCEPT !.mtu_advise = n],
           NEW u, u = AdjustClock(IF a.state = "ESTABLISHED" THEN adjustMTU(a) ELSE a)
    PROVE  Call(t, u, c)
<1> DEFINE s == IF a.state = "ESTABLISHED" THEN adjustMTU(a) ELSE a
<1>1. t \in Tcb
  BY DEF Sound
<1>2. Tuned(t, a) /\ a.state = t.state /\ a.writeEnable = t.writeEnable
  BY <1>1, AdviseTyped
<1>3. a \in Tcb
  BY <1>2 DEF Tuned, Quiet
<1>4. Tuned(a, s) /\ s.state = a.state /\ s.writeEnable = a.writeEnable
  <2>1. CASE a.state = "ESTABLISHED"
    BY <1>3, <2>1, adjustMTUTunes, adjustMTUWritable
  <2>2. CASE a.state # "ESTABLISHED"
    BY <1>3, <2>2, TunedSelf
  <2> QED
    BY <2>1, <2>2
<1>5. u = AdjustClock(s)
  OBVIOUS
<1> HIDE DEF s
<1>6. Tuned(t, s)
  BY <1>2, <1>4, TunedTrans
<1>7. Sound(s, c) /\ Grows(t, s)
  BY <1>6, TunedAdvances DEF Advances
<1>8. WriteWaits(s)
  BY <1>2, <1>4, <1>6 DEF WriteWaits, Tuned, Quiet, SameSender
<1> QED
  BY <1>1, <1>2, <1>4, <1>5, <1>7, <1>8, AdjustClockCalls

\* The retransmission timer (pseudotcp.cc:314).
LEMMA ResendCalls ==
    ASSUME NEW c \in Context, NEW t, Sound(t, c), WriteWaits(t), t.rto, t.state # "CLOSED",
           NEW env,
           NEW s, s = Only({Backoff(r) : r \in {Retransmit(t, env)}}),
           NEW u, u = AdjustClock(s)
    PROVE  Call(t, u, c)
<1>1. t \in Tcb
  BY DEF Sound
<1>2. Steady(t, s, c)
  BY TimedOutKeeps
<1>3. Sound(s, c) /\ Grows(t, s)
  BY <1>2 DEF Steady, Advances
<1>4. WriteWaits(s)
  BY <1>2 DEF Steady, WriteWaits
<1> QED
  BY <1>1, <1>3, <1>4, AdjustClockCalls

\* A probe of a closed window, or a delayed acknowledgement.
LEMMA PacketCalls ==
    ASSUME NEW c \in Context, NEW t, Sound(t, c), WriteWaits(t), t.state # "CLOSED",
           NEW seq \in Int, NEW u, u = AdjustClock(packet(t, seq, FALSE, 0, 0))
    PROVE  Call(t, u, c)
<1> DEFINE s == packet(t, seq, FALSE, 0, 0)
<1>1. t \in Tcb
  BY DEF Sound
<1>2. Sends(t, s, c)
  BY EmptyKeeps
<1>3. u = AdjustClock(s)
  OBVIOUS
<1> HIDE DEF s
<1>4. Sound(s, c) /\ Grows(t, s)
  BY <1>2 DEF Sends
<1>5. WriteWaits(s)
  BY <1>2 DEF Sends, WriteWaits
<1> QED
  BY <1>1, <1>3, <1>4, <1>5, AdjustClockCalls

\* A connection that is given up.
LEMMA AbortCalls ==
    ASSUME NEW c \in Context, NEW t, Sound(t, c), NEW u, u = AdjustClock(closedown(t))
    PROVE  Call(t, u, c)
<1> DEFINE s == closedown(t)
<1>1. t \in Tcb
  BY DEF Sound
<1>2. Tuned(t, s) /\ s.state = "CLOSED"
  BY <1>1, closedownTunes
<1>3. u = AdjustClock(s)
  OBVIOUS
<1> HIDE DEF s
<1>4. Sound(s, c) /\ Grows(t, s)
  BY <1>2, TunedAdvances DEF Advances
<1>5. WriteWaits(s)
  BY <1>2 DEF WriteWaits
<1> QED
  BY <1>1, <1>2, <1>3, <1>4, <1>5, AdjustClockCalls

\* A packet for an object.
LEMMA PacketTaken ==
    ASSUME NEW c \in Context, NEW t, Sound(t, c), NEW m, MessageOK(m, t, c), InOrder(m, t),
           NEW env, NEW u, u = AdjustClock(process(t, m, env))
    PROVE  Call(t, u, c) /\ (u.state = "CLOSED" \/ Greeted(m, t, u))
<1> DEFINE s == process(t, m, env)
<1>1. t \in Tcb
  BY DEF Sound
<1>2. Goes(t, s, c) /\ WriteWaits(s) /\ (s.state = "CLOSED" \/ Greeted(m, t, s))
      /\ (t.state = "CLOSED" => s = t)
  BY processGoes
<1>3. u = AdjustClock(s)
  OBVIOUS
<1> HIDE DEF s
<1>4. Sound(s, c) /\ Grows(t, s) /\ s \in Tcb
  BY <1>2 DEF Goes, Sound
<1>5. Call(t, u, c)
  BY <1>1, <1>2, <1>3, <1>4, AdjustClockCalls
<1>6. clock_check(s) \in BOOLEAN
  BY DEF clock_check
<1>7. Tuned(s, u) /\ u.state = s.state
  BY <1>3, <1>4, <1>6, ClockIs, AliveTyped
<1>8. u.rcv_nxt = s.rcv_nxt
  BY <1>7 DEF Tuned, Quiet, SameReceiver
<1> QED
  BY <1>2, <1>5, <1>7, <1>8 DEF Greeted

\* The next k bytes of the stream, after w.
Offered(w, k) == [i \in 1 .. k |-> w + i]

Bytes(data, k, first) == data \in Seq(Nat) /\ Len(data) = k /\ Numbered(data, first)

\* The bytes that the application offers next.
LEMMA OfferedBytes ==
    ASSUME NEW w \in Nat, NEW k \in Nat, NEW data, data = Offered(w, k)
    PROVE  Bytes(data, k, w + 1)
<1> USE DEF Offered, Bytes
<1>1. \A i \in 1 .. k : w + i \in Nat /\ w + i = (w + 1) + (i - 1)
  OBVIOUS
<1>2. data \in Seq(Nat) /\ Len(data) = k /\ DOMAIN data = 1 .. k
  <2>1. data \in [1 .. k -> Nat]
    BY <1>1
  <2> QED
    BY <2>1
<1>3. \A i \in 1 .. k : data[i] = (w + 1) + (i - 1)
  BY <1>1
<1> QED
  BY <1>2, <1>3 DEF Numbered

\* Bytes taken from the application.
LEMMA SendCalls ==
    ASSUME NEW c \in Context, NEW d, SameButTaken(c, d), NEW t, Sound(t, c), WriteWaits(t),
           t.state = "ESTABLISHED", t.shutdown = "NONE",
           NEW k \in Nat, k > 0, Len(t.sbuf) + k <= SndBuf, d.taken = c.taken + k,
           NEW data, data = Offered(c.taken, k), NEW env,
           NEW u, u = attemptSend(queue(t, data, FALSE), "none", env)
    PROVE  Call(t, u, d)
<1> DEFINE q == queue(t, data, FALSE)
           end == t.snd_una + Len(t.sbuf)
           una == t.snd_una
           len == Len(t.sbuf)
<1>1. t \in Tcb /\ SenderOK(t)
  BY DEF Sound
<1>2. c.taken \in Nat /\ una \in Nat /\ len \in Nat /\ t.snd_wnd \in Nat
  BY <1>1, TcbType DEF Context
<1>3. end = c.taken + 1 /\ end # 0
  <2>1. t.state \notin {"LISTEN", "CLOSED"}
    OBVIOUS
  <2>2. end > 0
    BY <2>1 DEF Sound, WrittenOK
  <2>3. IF end = 0 THEN c.taken = 0 ELSE end = c.taken + 1
    BY DEF Sound, WrittenOK
  <2> HIDE DEF end
  <2>4. end # 0
    BY <2>2
  <2> QED
    BY <2>3, <2>4
<1>4. data \in Seq(Nat) /\ Len(data) = k /\ Numbered(data, c.taken + 1)
  <2>1. Bytes(data, k, c.taken + 1)
    BY <1>2, OfferedBytes
  <2> QED
    BY <2>1 DEF Bytes
<1>5. Numbered(data, end)
  BY <1>3, <1>4
<1>6. PICK sbuf, slist :
              /\ Enqueues(t, q, t.state, t.snd_wnd, sbuf, slist)
              /\ Keeps(t.slist, slist, t.snd_una, t.snd_nxt, t.snd_una + Len(sbuf))
              /\ Numbered(sbuf, t.snd_una)
              /\ Len(sbuf) = Len(t.sbuf) + Len(data)
  <2>1. q = queue(t, data, FALSE) /\ FALSE \in BOOLEAN /\ (FALSE <=> end = 0)
    BY <1>3
  <2> HIDE DEF q
  <2> QED
    BY <1>1, <1>4, <1>5, <2>1, QueueEnqueues
<1>7. Len(sbuf) = len + k
  BY <1>4, <1>6
<1>8. una + Len(sbuf) = d.taken + 1
  <2>1. una + len = c.taken + 1
    BY <1>3
  <2> DEFINE taken == c.taken
  <2>2. d.taken = taken + k /\ taken \in Nat /\ una + len = taken + 1
    BY <1>2, <2>1
  <2> HIDE DEF una, len, taken
  <2>3. una + (len + k) = (taken + k) + 1
    BY <1>2, <2>2
  <2> QED
    BY <1>7, <2>2, <2>3
<1>9. Len(sbuf) <= SndBuf
  BY <1>7
<1>10. una + t.snd_wnd <= c.edge
  BY DEF Sound, WindowOK
<1>11. t.state # "LISTEN"
  OBVIOUS
<1> HIDE DEF q
<1>12. Advances(t, q, d)
  BY <1>6, <1>8, <1>9, <1>10, <1>11, EnqueuesKeep
<1>13. d \in Context /\ Sound(q, d)
  BY <1>12 DEF SameButTaken, Advances
<1>14. Sends(q, u, d)
  BY <1>13, attemptSendKeeps DEF q
<1>15. Sound(u, d) /\ u.shutdown = "NONE"
  BY <1>12, <1>14 DEF Sends, Advances
<1>16. Grows(t, u)
  <2>1. q \in Tcb /\ u \in Tcb
    BY <1>13, <1>15 DEF Sound
  <2> QED
    BY <1>1, <1>12, <1>14, <2>1, GrowsTrans DEF Sends, Advances
<1>17. WriteWaits(u)
  <2>1. u.writeEnable = t.writeEnable /\ u.sbuf = sbuf
    BY <1>6, <1>14 DEF Sends, Enqueues
  <2>2. t.writeEnable => len >= (SndBuf + RcvBuf) \div 2
    BY DEF WriteWaits
  <2>3. (SndBuf + RcvBuf) \div 2 \in Nat
    <3>1. SndBuf \in Nat \ {0} /\ RcvBuf \in Nat \ {0}
      BY SizesAssumption
    <3> QED
      BY <3>1
  <2> DEFINE half == (SndBuf + RcvBuf) \div 2
  <2> HIDE DEF half, len
  <2>4. half \in Nat /\ (t.writeEnable => len >= half)
    BY <2>2, <2>3 DEF half
  <2>5. t.writeEnable => len + k >= half
    BY <1>2, <2>4
  <2> QED
    BY <1>7, <2>1, <2>5 DEF WriteWaits, half
<1> QED
  BY <1>15, <1>16, <1>17, OpenCalls

\* A full buffer: the application waits.
LEMMA FullCalls ==
    ASSUME NEW c \in Context, NEW t, Sound(t, c), t.state = "ESTABLISHED",
           t.shutdown = "NONE", Len(t.sbuf) >= SndBuf,
           NEW u, u = [t EXCEPT !.writeEnable = TRUE]
    PROVE  Call(t, u, c)
<1>1. t \in Tcb /\ Len(t.sbuf) \in Nat
  BY TcbType DEF Sound
<1>2. Tuned(t, u)
  BY <1>1, WritableTyped
<1>3. Sound(u, c) /\ Grows(t, u) /\ u.shutdown = "NONE" /\ u.sbuf = t.sbuf
  BY <1>2, TunedAdvances DEF Advances, Tuned, Quiet, SameSender
<1>4. Len(t.sbuf) >= (SndBuf + RcvBuf) \div 2
  <2>1. SndBuf \in Nat /\ RcvBuf \in Nat /\ RcvBuf <= SndBuf
    <3>1. SndBuf \in Nat \ {0} /\ RcvBuf \in Nat \ {0}
      BY SizesAssumption
    <3>2. RcvBuf + Levels[Len(Levels)] < SndBuf /\ Levels[Len(Levels)] \in Nat
      BY SizesAssumption, LastLevel
    <3> QED
      BY <3>1, <3>2
  <2>2. (SndBuf + RcvBuf) \div 2 \in Nat /\ (SndBuf + RcvBuf) \div 2 <= SndBuf
    BY <2>1
  <2> QED
    BY <1>1, <2>1, <2>2
<1>5. WriteWaits(u)
  BY <1>3, <1>4 DEF WriteWaits
<1> QED
  BY <1>3, <1>5, OpenCalls

\* t with less to read and another window.
Emptied(t, rbuf, wnd) == [t EXCEPT !.rbuf = rbuf, !.rcv_wnd = wnd]

LEMMA EmptiedTyped ==
    ASSUME NEW t \in Tcb, NEW rbuf \in Seq(Nat), NEW wnd \in Nat,
           NEW u, u = Emptied(t, rbuf, wnd)
    PROVE  Shows(t, u, rbuf, t.ahead, t.rcv_nxt, wnd, t.rlist)
           /\ u.readEnable = t.readEnable
<1> USE DEF Emptied
<1>1. u \in Tcb
  BY DEF Tcb
<1> QED
  BY <1>1 DEF Tcb, Receives, Shows

\* What is left to read.
LEMMA UpToRest ==
    ASSUME NEW rbuf \in Seq(Nat), NEW nxt \in Nat, NEW k \in Nat, k <= Len(rbuf),
           UpTo(rbuf, nxt), NEW u, u = SubSeq(rbuf, k + 1, Len(rbuf))
    PROVE  UpTo(u, nxt)
<1> DEFINE l == Len(rbuf)
<1>1. l \in Nat /\ DOMAIN rbuf = 1 .. l /\ k <= l
  OBVIOUS
<1>2. /\ u \in Seq(Nat) /\ Len(u) = l - k
      /\ \A i \in 1 .. l - k : k + i \in 1 .. l /\ u[i] = rbuf[k + i]
  BY RestOfBuffer
<1>3. \A i \in 1 .. l : rbuf[i] = (nxt - l) + (i - 1)
  BY <1>1 DEF UpTo
<1>4. DOMAIN u = 1 .. l - k
  BY <1>2
<1> HIDE DEF l
<1>5. ASSUME NEW i \in 1 .. l - k PROVE u[i] = (nxt - (l - k)) + (i - 1)
  <2>1. i \in Nat /\ k + i \in 1 .. l /\ u[i] = rbuf[k + i]
    BY <1>1, <1>2, SMT
  <2>2. u[i] = (nxt - l) + ((k + i) - 1)
    BY <1>3, <2>1
  <2>3. (nxt - l) + ((k + i) - 1) = (nxt - (l - k)) + (i - 1)
    BY <1>1, <2>1
  <2> QED
    BY <2>2, <2>3
<1>6. Len(u) = l - k
  BY <1>2
<1> QED
  BY <1>4, <1>5, <1>6 DEF UpTo

\* The object after bytes were given to the application.
Read(t, k) == [t EXCEPT !.rbuf = SubSeq(t.rbuf, k + 1, Len(t.rbuf))]
Wider(t) == [t EXCEPT !.rcv_wnd = Window(t)]

\* The window after reading: as before, or wider (pseudotcp.cc:462).
LEMMA WindowFacts ==
    ASSUME NEW t \in Tcb, NEW k \in Nat, k <= Len(t.rbuf),
           t.rcv_wnd <= RcvBuf - Len(t.rbuf),
           NEW w, w = Wider(Read(t, k))
    PROVE  \E wnd \in Nat :
              /\ t.rcv_wnd <= wnd /\ wnd <= RcvBuf - (Len(t.rbuf) - k)
              /\ w = Emptied(t, SubSeq(t.rbuf, k + 1, Len(t.rbuf)), wnd)
<1> DEFINE s == Read(t, k)
           rest == SubSeq(t.rbuf, k + 1, Len(t.rbuf))
           len == Len(t.rbuf)
           old == t.rcv_wnd
           wnd == Window(s)
<1>1. t.rbuf \in Seq(Nat) /\ len \in Nat /\ old \in Nat /\ RcvBuf \in Nat
  BY TcbType, SizesAssumption
<1>2. rest \in Seq(Nat) /\ Len(rest) = len - k
  BY <1>1, RestOfBuffer
<1>3. s.rbuf = rest /\ s.rcv_wnd = old
  BY DEF Tcb, Read
<1>4. wnd \in {RcvBuf - (len - k), old}
  <2>1. Available(s) = RcvBuf - (len - k)
    BY <1>2, <1>3 DEF Available
  <2> HIDE DEF s
  <2> QED
    BY <1>3, <2>1 DEF Window
<1>5. w = Emptied(t, rest, wnd)
  BY DEF Wider, Read, Emptied, Tcb
<1>6. old <= RcvBuf - len /\ k <= len
  OBVIOUS
<1> HIDE DEF wnd, old, len, rest, s
<1>7. wnd \in Nat /\ old <= wnd /\ wnd <= RcvBuf - (len - k)
  BY <1>1, <1>4, <1>6
<1> QED
  BY <1>5, <1>7 DEF old, len, rest

LEMMA LessCounted ==
    ASSUME NEW g \in Nat, NEW l \in Nat, NEW n \in Int, NEW k \in Nat, k <= l, g + l = n
    PROVE  (g + k) + (l - k) = n
  OBVIOUS

\* Reading keeps the object sound.
LEMMA ReadKeeps ==
    ASSUME NEW c \in Context, NEW d, SameButGiven(c, d), NEW t, Sound(t, c),
           t.shutdown = "NONE", NEW k \in Nat, k > 0, k <= Len(t.rbuf),
           d.given = c.given + k,
           NEW w, w = Wider(Read(t, k))
    PROVE  Sound(w, d) /\ Grows(t, w) /\ Receives(t, w)
<1> DEFINE rest == SubSeq(t.rbuf, k + 1, Len(t.rbuf))
           len == Len(t.rbuf)
           nxt == t.rcv_nxt
<1>1. t \in Tcb /\ ReceiverOK(t, c.cuts, c.given)
  BY DEF Sound
<1>2. t.rcv_wnd <= RcvBuf - len
  BY <1>1 DEF ReceiverOK
<1>3. /\ t.rbuf \in Seq(Nat) /\ len \in Nat /\ nxt \in Nat /\ t.rcv_wnd \in Nat
      /\ c.given \in Nat /\ RcvBuf \in Nat
  BY <1>1, TcbType, SizesAssumption DEF Context
<1>4. PICK wnd \in Nat :
              /\ t.rcv_wnd <= wnd /\ wnd <= RcvBuf - (len - k)
              /\ w = Emptied(t, rest, wnd)
  BY <1>1, <1>2, WindowFacts
<1>5. rest \in Seq(Nat) /\ Len(rest) = len - k
  BY <1>3, RestOfBuffer
<1> HIDE DEF rest
<1>6. Shows(t, w, rest, t.ahead, nxt, wnd, t.rlist) /\ w.readEnable = t.readEnable
  BY <1>1, <1>4, <1>5, EmptiedTyped
<1>7. /\ Receives(t, w) /\ w.rbuf = rest /\ w.ahead = t.ahead /\ w.rcv_nxt = nxt
      /\ w.rcv_wnd = wnd /\ w.rlist = t.rlist /\ w.readEnable = t.readEnable
      /\ w.shutdown = "NONE"
  BY <1>6 DEF Shows, Receives
<1>8. Edge(t) <= Edge(w) /\ 1 <= Edge(w)
  <2>1. Edge(t) = nxt + t.rcv_wnd /\ Edge(w) = nxt + wnd /\ 1 <= Edge(t)
    BY <1>1, <1>7 DEF Edge, ReceiverOK
  <2> DEFINE old == t.rcv_wnd
  <2>2. old \in Nat /\ old <= wnd /\ Edge(t) = nxt + old
    BY <1>3, <1>4, <2>1
  <2> HIDE DEF nxt, old
  <2>3. nxt + old <= nxt + wnd
    BY <1>3, <2>2
  <2>4. 1 <= nxt + old
    BY <2>1, <2>2
  <2>5. 1 <= nxt + wnd
    BY <1>3, <2>2, <2>3, <2>4
  <2> QED
    BY <2>1, <2>2, <2>3, <2>5
<1>9. d.given + Len(w.rbuf) = IF w.rcv_nxt = 0 THEN 0 ELSE w.rcv_nxt - 1
  <2> DEFINE x == IF nxt = 0 THEN 0 ELSE nxt - 1
             g == c.given
  <2>1. g + len = x /\ x \in Int
    BY <1>1, <1>3 DEF ReceiverOK
  <2>2. g \in Nat /\ k <= len
    BY <1>3
  <2> HIDE DEF x, g, len
  <2>3. (g + k) + (len - k) = x
    BY <1>3, <2>1, <2>2, LessCounted
  <2>4. d.given = g + k
    BY DEF g
  <2> QED
    BY <1>5, <1>7, <2>3, <2>4 DEF x
<1>10. ASSUME ReceivedOK(t) PROVE ReceivedOK(w)
  <2>1. UpTo(t.rbuf, nxt) /\ StoredOK(t)
    BY <1>10, ReceivedIs
  <2>2. UpTo(rest, nxt)
    <3> HIDE DEF nxt
    <3> QED
      BY <1>3, <2>1, UpToRest DEF rest
  <2>3. StoredOK(w)
    BY <1>7, <2>1 DEF StoredOK
  <2>4. t.rcv_nxt = 0 => t.rlist = <<>>
    BY <1>10, ReceivedIs
  <2> QED
    BY <1>7, <2>2, <2>3, <2>4, ReceivedIs
<1>11. ~w.readEnable
  <2>1. t.rbuf # <<>>
    <3>1. len # 0
      <4> HIDE DEF len
      <4>1. k <= len
        BY DEF len
      <4> QED
        BY <1>3, <4>1
    <3> QED
      BY <1>3, <3>1, EmptySeq
  <2>2. t.readEnable => t.rbuf = <<>>
    BY <1>1 DEF ReceiverOK
  <2> QED
    BY <1>7, <2>1, <2>2
<1>12. w.rcv_wnd <= RcvBuf - Len(w.rbuf)
  BY <1>4, <1>5, <1>7
<1>13. ReceiverOK(w, d.cuts, d.given)
  <2>1. d.cuts = c.cuts
    BY DEF SameButGiven
  <2>2. w.rcv_nxt \in c.cuts /\ \A i \in DOMAIN w.rlist : w.rlist[i].seq + w.rlist[i].len \in c.cuts
    BY <1>1, <1>7 DEF ReceiverOK
  <2>3. ~HandshakeFaults /\ w.shutdown = "NONE" => ReceivedOK(w)
    BY <1>1, <1>10 DEF ReceiverOK
  <2> QED
    BY <1>8, <1>9, <1>11, <1>12, <2>1, <2>2, <2>3 DEF ReceiverOK
<1>14. t.rcv_nxt <= w.rcv_nxt
  BY <1>3, <1>7
<1> QED
  BY <1>7, <1>8, <1>13, <1>14, ReceivesWith

\* Bytes given to the application.
LEMMA RecvCalls ==
    ASSUME NEW c \in Context, NEW d, SameButGiven(c, d), NEW t, Sound(t, c), WriteWaits(t),
           t.state = "ESTABLISHED", t.shutdown = "NONE", NEW k \in Nat, k > 0,
           k <= Len(t.rbuf), d.given = c.given + k,
           NEW w, w = Wider(Read(t, k)), NEW env
    PROVE  Call(t, w, d) /\ Call(t, attemptSend(w, "immediate", env), d)
<1> DEFINE u == attemptSend(w, "immediate", env)
<1>1. t \in Tcb /\ d \in Context
  BY DEF Sound, SameButGiven
<1>2. Sound(w, d) /\ Grows(t, w) /\ Receives(t, w)
  BY ReadKeeps
<1>3. w.shutdown = "NONE" /\ w.state = t.state /\ w.sbuf = t.sbuf
      /\ w.writeEnable = t.writeEnable
  BY <1>2 DEF Receives
<1>4. WriteWaits(w)
  BY <1>3 DEF WriteWaits
<1>5. Call(t, w, d)
  BY <1>2, <1>3, <1>4, OpenCalls
<1>6. Sends(w, u, d)
  BY <1>1, <1>2, attemptSendKeeps
<1> HIDE DEF u
<1>7. Sound(u, d) /\ u.shutdown = "NONE" /\ WriteWaits(u)
  BY <1>3, <1>4, <1>6 DEF Sends, WriteWaits
<1>8. Grows(t, u)
  <2>1. w \in Tcb /\ u \in Tcb
    BY <1>2, <1>7 DEF Sound
  <2> QED
    BY <1>1, <1>2, <1>6, <2>1, GrowsTrans DEF Sends
<1>9. Call(t, u, d)
  BY <1>7, <1>8, OpenCalls
<1> QED
  BY <1>5, <1>9 DEF u

\* Nothing to read: the application waits.
LEMMA WaitTyped ==
    ASSUME NEW t \in Tcb, NEW u, u = [t EXCEPT !.readEnable = TRUE]
    PROVE  Shows(t, u, t.rbuf, t.ahead, t.rcv_nxt, t.rcv_wnd, t.rlist)
<1>1. u \in Tcb
  BY DEF Tcb
<1> QED
  BY <1>1 DEF Tcb, Receives, Shows

\* Reading from an empty buffer.
LEMMA WaitCalls ==
    ASSUME NEW c \in Context, NEW t, Sound(t, c), WriteWaits(t), t.state = "ESTABLISHED",
           t.shutdown = "NONE", t.rbuf = <<>>,
           NEW u, u = [t EXCEPT !.readEnable = TRUE]
    PROVE  Call(t, u, c)
<1>1. t \in Tcb /\ ReceiverOK(t, c.cuts, c.given)
  BY DEF Sound
<1>2. Shows(t, u, t.rbuf, t.ahead, t.rcv_nxt, t.rcv_wnd, t.rlist)
  BY <1>1, WaitTyped
<1>3. /\ Receives(t, u) /\ u.rbuf = t.rbuf /\ u.ahead = t.ahead /\ u.rcv_nxt = t.rcv_nxt
      /\ u.rcv_wnd = t.rcv_wnd /\ u.rlist = t.rlist /\ u.shutdown = t.shutdown
      /\ u.sbuf = t.sbuf /\ u.writeEnable = t.writeEnable /\ u.state = t.state
  BY <1>2 DEF Shows, Receives
<1>4. Edge(u) = Edge(t) /\ Edge(t) \in Nat /\ t.rcv_nxt \in Nat
  BY <1>1, <1>3, TcbType DEF Edge
<1>5. ReceivedOK(t) => ReceivedOK(u)
  BY <1>3 DEF ReceivedOK, StoredOK
<1>6. ReceiverOK(u, c.cuts, c.given)
  BY <1>1, <1>3, <1>4, <1>5 DEF ReceiverOK
<1>7. t.rcv_nxt <= u.rcv_nxt /\ Edge(t) <= Edge(u)
  BY <1>3, <1>4
<1>8. Sound(u, c) /\ Grows(t, u)
  BY <1>3, <1>6, <1>7, ReceivesKeeps
<1>9. WriteWaits(u)
  BY <1>3 DEF WriteWaits
<1> QED
  BY <1>3, <1>8, <1>9, OpenCalls

\* A finite set of numbers has an upper bound, and the least one is 0 or in it.
LEMMA UpperBound ==
    ASSUME NEW S \in SUBSET Nat, IsFiniteSet(S)
    PROVE  \E n \in Nat : \A x \in S : x <= n
<1> DEFINE N == Cardinality(S)
<1>1. N \in Nat
  BY FS_CardinalityType
<1>2. PICK f \in [1 .. N -> S] : \A x \in S : \E i \in 1 .. N : f[i] = x
  <2>1. PICK f : f \in Bijection(1 .. N, S)
    BY FS_CardinalityType DEF ExistsBijection
  <2> QED
    BY <2>1 DEF Bijection, Surjection, Injection
<1> HIDE DEF N
<1> DEFINE T == {k \in Nat : k <= N => \E n \in Nat : \A i \in 1 .. k : f[i] <= n}
<1>3. T \in SUBSET Nat
  OBVIOUS
<1>4. 0 \in T
  <2>1. 1 .. 0 = {} /\ 0 \in Nat
    OBVIOUS
  <2> QED
    BY <2>1
<1>5. ASSUME NEW k \in T PROVE k + 1 \in T
  <2>1. k \in Nat /\ k + 1 \in Nat
    OBVIOUS
  <2>2. SUFFICES ASSUME k + 1 <= N PROVE \E n \in Nat : \A i \in 1 .. k + 1 : f[i] <= n
    BY <2>1
  <2>3. PICK n \in Nat : \A i \in 1 .. k : f[i] <= n
    BY <1>1, <2>1, <2>2
  <2>4. f[k + 1] \in Nat
    <3>1. k + 1 \in 1 .. N
      BY <1>1, <2>1, <2>2
    <3> QED
      BY <3>1
  <2> DEFINE m == n + f[k + 1]
  <2>5. m \in Nat
    BY <2>3, <2>4
  <2>6. ASSUME NEW i \in 1 .. k + 1 PROVE f[i] <= m
    <3>1. i \in 1 .. N /\ f[i] \in Nat
      <4>1. i \in 1 .. N
        BY <1>1, <2>1, <2>2
      <4> QED
        BY <4>1
    <3>2. CASE i = k + 1
      BY <2>3, <2>4, <3>2
    <3>3. CASE i # k + 1
      <4>1. i \in 1 .. k
        BY <2>1, <3>3
      <4>2. f[i] <= n
        BY <2>3, <4>1
      <4> DEFINE x == f[i]
                 y == f[k + 1]
      <4>3. x \in Nat /\ y \in Nat /\ x <= n
        BY <2>4, <3>1, <4>2
      <4> HIDE DEF x, y
      <4>4. x <= n + y
        BY <4>3
      <4> QED
        BY <4>4 DEF x, y
    <3> QED
      BY <3>2, <3>3
  <2> HIDE DEF m
  <2> QED
    BY <2>5, <2>6
<1> HIDE DEF T
<1>6. T = Nat
  BY <1>3, <1>4, <1>5, Induction
<1>7. N \in T
  BY <1>1, <1>6
<1>8. PICK n \in Nat : \A i \in 1 .. N : f[i] <= n
  BY <1>1, <1>7 DEF T
<1> QED
  BY <1>2, <1>8

(***************************************************************************)
(* The packets on their way and their order                                *)
(***************************************************************************)

LEMMA HasLast ==
    ASSUME NEW S \in SUBSET Nat, IsFiniteSet(S)
    PROVE  \E n \in {0} \cup S : \A x \in S : x <= n
<1> DEFINE B == {n \in Nat : \A x \in S : x <= n}
<1>1. B \in SUBSET Nat /\ B # {}
  BY UpperBound
<1>2. PICK n \in B : \A b \in B : n <= b
  BY <1>1, LeastNumber
<1>3. n \in Nat /\ \A x \in S : x <= n
  OBVIOUS
<1>4. ASSUME n # 0, n \notin S PROVE FALSE
  <2>1. n - 1 \in Nat
    BY <1>3, <1>4
  <2>2. \A x \in S : x <= n - 1
    <3> SUFFICES ASSUME NEW x \in S PROVE x <= n - 1
      OBVIOUS
    <3>1. x \in Nat /\ x <= n /\ x # n
      BY <1>3, <1>4
    <3> QED
      BY <1>3, <3>1
  <2>3. n - 1 \in B
    BY <2>1, <2>2
  <2> HIDE DEF B
  <2>4. n <= n - 1
    BY <1>2, <2>3
  <2> QED
    BY <1>3, <2>4
<1> QED
  BY <1>3, <1>4

\* m is p, perhaps at another place.
Alike(m, p) ==
    /\ m \in Packet
    /\ m.seq = p.seq /\ m.ack = p.ack /\ m.wnd = p.wnd /\ m.ctl = p.ctl
    /\ m.data = p.data /\ m.unit = p.unit

LEMMA PlacedAlike ==
    ASSUME NEW p \in Packet, NEW n \in Nat, NEW m, m = [p EXCEPT !.place = n]
    PROVE  Alike(m, p) /\ m.place = n
  BY DEF Packet, Alike

LEMMA AlikeKeeps ==
    ASSUME NEW m, NEW p, Alike(m, p), NEW t, NEW cuts, PacketOK(p, t, cuts)
    PROVE  PacketOK(m, t, cuts)
  BY DEF Alike, PacketOK, DataOK

\* Finite images.
LEMMA FiniteImage ==
    ASSUME NEW S, IsFiniteSet(S), NEW f, DOMAIN f = S
    PROVE  IsFiniteSet({f[x] : x \in S})
<1> DEFINE T == {f[x] : x \in S}
           g == [x \in S |-> f[x]]
<1>1. g \in Surjection(S, T)
  BY DEF Surjection
<1> HIDE DEF g
<1> QED
  BY <1>1, FS_Surjection

\* What packets on their way are known by.
Placed(packets) == \A m \in packets : m.place > 0

Behind(packets) ==
    \E p \in packets : p.ctl /\ \A m \in packets : Late(m) => p.place < m.place

\* The packets before p, and p.
Before(packets, p) == {q \in packets : 0 < q.place /\ q.place <= p.place}

\* Renumbering keeps the order of the packets.
LEMMA RanksGrow ==
    ASSUME NEW packets \in SUBSET Packet, IsFiniteSet(packets),
           NEW p \in packets, NEW m \in packets, p.place > 0, p.place < m.place
    PROVE  Cardinality(Before(packets, p)) < Cardinality(Before(packets, m))
<1>1. \A q \in packets : q.place \in Nat
  BY DEF Packet
<1>2. IsFiniteSet(Before(packets, m))
  <2>1. Before(packets, m) \in SUBSET packets
    BY DEF Before
  <2> QED
    BY <2>1, FS_Subset
<1>3. Before(packets, p) \in SUBSET Before(packets, m)
  BY <1>1 DEF Before
<1>4. m \in Before(packets, m) /\ m \notin Before(packets, p)
  BY <1>1 DEF Before
<1> DEFINE P == Before(packets, p)
           M == Before(packets, m)
<1>5. P # M
  BY <1>4
<1> HIDE DEF P, M
<1>6. IsFiniteSet(P) /\ Cardinality(P) <= Cardinality(M)
      /\ (Cardinality(M) = Cardinality(P) => M = P)
  BY <1>2, <1>3, FS_Subset DEF P, M
<1>7. Cardinality(P) \in Nat /\ Cardinality(M) \in Nat
  BY <1>2, <1>6, FS_CardinalityType DEF M
<1>8. Cardinality(P) < Cardinality(M)
  BY <1>5, <1>6, <1>7
<1> QED
  BY <1>8 DEF P, M

LEMMA RankType ==
    ASSUME NEW packets \in SUBSET Packet, IsFiniteSet(packets), NEW p \in packets
    PROVE  /\ Cardinality(Before(packets, p)) \in Nat
           /\ p.place > 0 => Cardinality(Before(packets, p)) > 0
<1> DEFINE B == Before(packets, p)
<1>1. IsFiniteSet(B)
  <2>1. B \in SUBSET packets
    BY DEF Before
  <2> QED
    BY <2>1, FS_Subset
<1>2. p.place > 0 => p \in B
  <2>1. p.place \in Nat
    BY DEF Packet
  <2> QED
    BY <2>1 DEF Before
<1> HIDE DEF B
<1>3. Cardinality(B) \in Nat
  BY <1>1, FS_CardinalityType
<1>4. Cardinality(B) = 0 => B = {}
  BY <1>1, FS_EmptySet
<1>5. Cardinality(B) \in Nat /\ (p.place > 0 => Cardinality(B) > 0)
  BY <1>2, <1>3, <1>4
<1> QED
  BY <1>5 DEF B

\* Renumbering changes places alone.
LEMMA RenumberIs ==
    \A packets : Renumber(packets) =
        {[p EXCEPT !.place = Cardinality(Before(packets, p))] : p \in packets}
  BY DEF Renumber, Before

\* The packets that are left keep their order.
LEMMA RenumberFacts ==
    ASSUME NEW packets \in SUBSET Packet, IsFiniteSet(packets),
           NEW R, R = Renumber(packets)
    PROVE  /\ R \in SUBSET Packet /\ IsFiniteSet(R)
           /\ \A m \in R : \E p \in packets : Alike(m, p)
           /\ Placed(packets) => Placed(R)
           /\ Placed(packets) /\ Behind(packets) => Behind(R)
<1> DEFINE rank(p) == Cardinality(Before(packets, p))
           put(p) == [p EXCEPT !.place = rank(p)]
<1>1. R = {put(p) : p \in packets}
  BY RenumberIs
<1>2. ASSUME NEW p \in packets
      PROVE  Alike(put(p), p) /\ put(p).place = rank(p)
  <2>1. rank(p) \in Nat
    BY RankType
  <2> DEFINE n == rank(p)
             m == put(p)
  <2>2. n \in Nat /\ m = [p EXCEPT !.place = n]
    BY <2>1
  <2> HIDE DEF n, m
  <2>3. Alike(m, p) /\ m.place = n
    BY <2>2, PlacedAlike
  <2> QED
    BY <2>3 DEF m, n
<1>3. \A p \in packets : \A m \in packets :
          p.place > 0 /\ p.place < m.place => rank(p) < rank(m)
  BY RanksGrow
<1>4. \A p \in packets : p.place > 0 => rank(p) > 0
  BY RankType
<1>5. IsFiniteSet(R)
  <2> DEFINE f == [p \in packets |-> put(p)]
  <2>1. R = {f[p] : p \in packets} /\ DOMAIN f = packets
    BY <1>1
  <2> HIDE DEF f
  <2> QED
    BY <2>1, FiniteImage
<1> HIDE DEF put, rank
<1>6. \A m \in R : \E p \in packets : m = put(p) /\ Alike(m, p) /\ m.place = rank(p)
  BY <1>1, <1>2
<1>7. R \in SUBSET Packet
  BY <1>6 DEF Alike
<1>8. ASSUME Placed(packets) PROVE Placed(R)
  BY <1>4, <1>6, <1>8 DEF Placed
<1>9. ASSUME Placed(packets), Behind(packets) PROVE Behind(R)
  <2>1. PICK p \in packets : p.ctl /\ \A m \in packets : Late(m) => p.place < m.place
    BY <1>9 DEF Behind
  <2>2. put(p) \in R /\ put(p).ctl /\ put(p).place = rank(p)
    BY <1>1, <1>2, <2>1 DEF Alike
  <2>3. ASSUME NEW m \in R, Late(m) PROVE put(p).place < m.place
    <3>1. PICK q \in packets : Alike(m, q) /\ m.place = rank(q)
      BY <1>6
    <3>2. Late(q)
      BY <2>3, <3>1 DEF Late, Alike
    <3>3. p.place > 0 /\ p.place < q.place
      BY <1>9, <2>1, <3>2 DEF Placed
    <3> QED
      BY <1>3, <2>2, <3>1, <3>3
  <2> QED
    BY <2>2, <2>3 DEF Behind
<1> QED
  BY <1>5, <1>6, <1>7, <1>8, <1>9

LastPlace(packets) ==
    CHOOSE n \in {0} \cup {p.place : p \in packets} : \A p \in packets : p.place <= n

LEMMA LastIs ==
    ASSUME NEW packets \in SUBSET Packet, IsFiniteSet(packets)
    PROVE  LastPlace(packets) \in Nat /\ \A p \in packets : p.place <= LastPlace(packets)
<1> DEFINE S == {p.place : p \in packets}
<1>1. S \in SUBSET Nat
  BY DEF Packet
<1>2. IsFiniteSet(S)
  <2> DEFINE f == [p \in packets |-> p.place]
  <2>1. S = {f[p] : p \in packets} /\ DOMAIN f = packets
    OBVIOUS
  <2> HIDE DEF f, S
  <2> QED
    BY <2>1, FiniteImage
<1>3. \E n \in {0} \cup S : \A x \in S : x <= n
  <2> HIDE DEF S
  <2> QED
    BY <1>1, <1>2, HasLast
<1>4. \E n \in {0} \cup S : \A p \in packets : p.place <= n
  BY <1>3
<1> DEFINE n == LastPlace(packets)
<1>5. n \in {0} \cup S /\ \A p \in packets : p.place <= n
  BY <1>4, Zenon DEF LastPlace
<1>6. n \in Nat
  <2> HIDE DEF n, S
  <2> QED
    BY <1>1, <1>5
<1> QED
  BY <1>5, <1>6

\* The connect message goes out before any other data.
GreetsFirst(out) ==
    \E i \in DOMAIN out : out[i].ctl /\ \A j \in DOMAIN out : Late(out[j]) => i < j

\* Packets that go out come behind those on their way.
LEMMA PutFacts ==
    ASSUME NEW packets \in SUBSET Packet, IsFiniteSet(packets), NEW out \in Seq(Packet),
           NEW R, R = Put(packets, out)
    PROVE  /\ R \in SUBSET Packet /\ IsFiniteSet(R)
           /\ \A m \in R : m \in packets \/ \E i \in DOMAIN out : Alike(m, out[i])
           /\ ~Rough /\ Placed(packets) => Placed(R)
           /\ ~Rough /\ Behind(packets) => Behind(R)
           /\ ~Rough /\ (\A m \in packets : ~Late(m)) /\ GreetsFirst(out) => Behind(R)
<1> DEFINE last == LastPlace(packets)
           place(i) == IF Reorder /\ Rough THEN 0 ELSE last + i
           put(i) == [out[i] EXCEPT !.place = place(i)]
           new == {put(i) : i \in DOMAIN out}
<1>1. R = packets \cup new
  BY DEF Put, LastPlace
<1>2. last \in Nat /\ \A p \in packets : p.place <= last
  BY LastIs
<1>3. DOMAIN out = 1 .. Len(out) /\ Len(out) \in Nat /\ \A i \in DOMAIN out : out[i] \in Packet
  OBVIOUS
<1> HIDE DEF last
<1>4. \A i \in DOMAIN out : place(i) \in Nat /\ i \in Nat /\ i > 0
  BY <1>2, <1>3
<1>5. ASSUME NEW i \in DOMAIN out PROVE Alike(put(i), out[i]) /\ put(i).place = place(i)
  <2> DEFINE n == place(i)
             m == put(i)
             p == out[i]
  <2>1. n \in Nat /\ p \in Packet /\ m = [p EXCEPT !.place = n]
    BY <1>3, <1>4
  <2> HIDE DEF n, m, p
  <2>2. Alike(m, p) /\ m.place = n
    BY <2>1, PlacedAlike
  <2> QED
    BY <2>2 DEF m, n, p
<1>6. \A i \in DOMAIN out : ~Rough => place(i) = last + i
  OBVIOUS
<1>7. IsFiniteSet(new)
  <2> DEFINE f == [i \in DOMAIN out |-> put(i)]
  <2>1. new = {f[i] : i \in DOMAIN out} /\ DOMAIN f = DOMAIN out
    OBVIOUS
  <2>2. IsFiniteSet(DOMAIN out)
    BY <1>3, FS_Interval
  <2> HIDE DEF f, new
  <2> QED
    BY <2>1, <2>2, FiniteImage
<1> HIDE DEF put, place
<1>8. \A m \in new : \E i \in DOMAIN out : m = put(i) /\ Alike(m, out[i])
  BY <1>5
<1>9. \A i \in DOMAIN out : put(i) \in new
  OBVIOUS
<1> HIDE DEF new
<1>10. R \in SUBSET Packet
  BY <1>1, <1>8 DEF Alike
<1>11. IsFiniteSet(R)
  BY <1>1, <1>7, FS_Union
<1>12. ASSUME ~Rough, Placed(packets) PROVE Placed(R)
  <2>1. ASSUME NEW m \in new PROVE m.place > 0
    <3>1. PICK i \in DOMAIN out : m = put(i)
      BY <1>8
    <3>2. m.place = last + i /\ i \in Nat /\ i > 0
      BY <1>4, <1>5, <1>6, <1>12, <3>1
    <3> QED
      BY <1>2, <3>2
  <2> QED
    BY <1>1, <1>12, <2>1 DEF Placed
<1>13. ASSUME ~Rough, NEW p \in packets, NEW m \in new PROVE p.place < m.place
  <2>1. PICK i \in DOMAIN out : m = put(i)
    BY <1>8
  <2>2. m.place = last + i /\ i \in Nat /\ i > 0
    BY <1>4, <1>5, <1>6, <1>13, <2>1
  <2>3. p.place \in Nat /\ p.place <= last
    BY <1>2 DEF Packet
  <2> QED
    BY <1>2, <2>2, <2>3
<1>14. ASSUME ~Rough, Behind(packets) PROVE Behind(R)
  <2>1. PICK p \in packets : p.ctl /\ \A m \in packets : Late(m) => p.place < m.place
    BY <1>14 DEF Behind
  <2>2. \A m \in R : Late(m) => p.place < m.place
    BY <1>1, <1>13, <1>14, <2>1
  <2> QED
    BY <1>1, <2>1, <2>2 DEF Behind
<1>15. ASSUME ~Rough, \A m \in packets : ~Late(m), GreetsFirst(out) PROVE Behind(R)
  <2>1. PICK i \in DOMAIN out : out[i].ctl /\ \A j \in DOMAIN out : Late(out[j]) => i < j
    BY <1>15 DEF GreetsFirst
  <2>2. put(i) \in R /\ put(i).ctl /\ put(i).place = last + i
    BY <1>1, <1>5, <1>6, <1>9, <1>15, <2>1 DEF Alike
  <2>3. ASSUME NEW m \in R, Late(m) PROVE put(i).place < m.place
    <3>1. m \in new
      BY <1>1, <1>15, <2>3
    <3>2. PICK j \in DOMAIN out : m = put(j) /\ Alike(m, out[j])
      BY <1>8, <3>1
    <3>3. Late(out[j])
      BY <2>3, <3>2 DEF Late, Alike
    <3>4. i < j
      BY <2>1, <3>3
    <3>5. m.place = last + j
      BY <1>5, <1>6, <1>15, <3>2
    <3>6. i \in Nat /\ j \in Nat
      BY <1>4
    <3> QED
      BY <1>2, <2>2, <3>4, <3>5, <3>6
  <2> QED
    BY <2>2, <2>3 DEF Behind
<1> QED
  BY <1>8, <1>1, <1>10, <1>11, <1>12, <1>14, <1>15

(***************************************************************************)
(* Two ends, the packets between them and their applications               *)
(***************************************************************************)

\* What ends a call changes nothing that the invariant speaks of.
Rests(t, u) ==
    /\ u \in Tcb /\ u.out = <<>> /\ SameSender(t, u) /\ SameReceiver(t, u)
    /\ u.state = t.state /\ u.shutdown = t.shutdown /\ u.alive = t.alive
    /\ u.writeEnable = t.writeEnable

Rested(t, w, k) == [t EXCEPT !.out = <<>>, !.cwnd = w, !.dup_acks = k]

LEMMA SettledTyped ==
    ASSUME NEW t \in Tcb, NEW w \in Nat \ {0}, NEW k \in Nat, NEW u, u = Rested(t, w, k)
    PROVE  Rests(t, u)
<1> USE DEF Rested
<1>1. <<>> \in Seq(Packet)
  OBVIOUS
<1>2. u \in Tcb
  BY <1>1 DEF Tcb
<1>3. /\ u.out = <<>> /\ u.state = t.state /\ u.shutdown = t.shutdown
      /\ u.alive = t.alive /\ u.writeEnable = t.writeEnable
  BY DEF Tcb
<1>4. SameSender(t, u) /\ SameReceiver(t, u)
  BY DEF Tcb, SameSender, SameReceiver, StateMoves
<1> QED
  BY <1>2, <1>3, <1>4 DEF Rests

LEMMA SettledFacts ==
    ASSUME NEW t \in Tcb, NEW u, u = Settled(t)
    PROVE  Rests(t, u)
<1> DEFINE w == Lower(t.cwnd, MaxCwnd)
           k == Lower(t.dup_acks, 4)
<1>1. t.cwnd \in Nat /\ t.cwnd > 0 /\ t.dup_acks \in Nat /\ MaxCwnd \in Nat /\ MaxCwnd > 0
  <2>1. MaxCwnd \in Nat \ {0}
    BY SizesAssumption
  <2> QED
    BY <2>1, TcbType
<1>2. w \in Nat \ {0} /\ k \in Nat
  <2>1. w \in Nat \ {0}
    BY <1>1, LowerType
  <2>2. k \in Nat
    BY <1>1 DEF Lower
  <2> QED
    BY <2>1, <2>2
<1>3. u = Rested(t, w, k)
  BY DEF Settled, Rested
<1> HIDE DEF w, k
<1> QED
  BY <1>2, <1>3, SettledTyped

\* What is right at one endpoint: its object t, the object p of its peer, the
\* bytes taken from and given to its application.
EndOK(t, p, taken, given) ==
    /\ t \in Tcb /\ t.out = <<>>
    /\ SenderOK(t)
    /\ WindowOK(t, Edge(p), p.rcv_nxt)
    /\ ReceiverOK(t, Cuts(p), given)
    /\ WriteWaits(t)
    /\ WrittenOK(t, taken)
    /\ GoneOK(t)

\* The packets on their way from p to t.
NetOK(packets, p, t) ==
    /\ packets \in SUBSET Packet /\ IsFiniteSet(packets)
    /\ \A m \in packets : PacketOK(m, p, Cuts(t))

\* What has come to t while nothing has been received: nothing is ahead of the
\* connect message of p.
Heralded(p, packets) ==
    /\ Placed(packets)
    /\ p.snd_nxt > 0 => Behind(packets)

\* While nothing was received, the connect message is on its way in front.
GreetingOK(t, p, packets) ==
    ~HandshakeFaults /\ t.rcv_nxt = 0 /\ t.alive /\ t.state # "CLOSED" =>
        Heralded(p, packets)

\* What a call on t knows of the rest.
Here(t, p, taken, given) ==
    [cuts |-> Cuts(p), edge |-> Edge(p), nxt |-> p.rcv_nxt, given |-> given,
     taken |-> taken, sent |-> t.snd_nxt]

IsHere(c, t, p, w, g) ==
    /\ c \in Context
    /\ c.cuts = Cuts(p) /\ c.edge = Edge(p) /\ c.nxt = p.rcv_nxt
    /\ c.given = g /\ c.taken = w /\ c.sent = t.snd_nxt

\* The context of an object, given its peer.
LEMMA HereFacts ==
    ASSUME NEW t, NEW p, NEW w \in Nat, NEW g \in Nat, NEW w2, NEW g2,
           EndOK(p, t, w2, g2), t \in Tcb,
           NEW c, c = Here(t, p, w, g)
    PROVE  IsHere(c, t, p, w, g)
<1>1. p \in Tcb /\ SenderOK(p)
  BY DEF EndOK
<1>2. Cuts(p) \in SUBSET Nat
  BY <1>1, CutsWithin
<1>3. Edge(p) \in Nat \ {0}
  <2>1. Edge(p) \in Nat
    BY <1>1, TcbType DEF Edge
  <2>2. 1 <= Edge(p)
    BY DEF EndOK, ReceiverOK
  <2> QED
    BY <2>1, <2>2
<1>4. p.rcv_nxt \in Nat /\ t.snd_nxt \in Nat
  BY <1>1, TcbType
<1> DEFINE cuts == Cuts(p)
           edge == Edge(p)
<1>5. c = [cuts |-> cuts, edge |-> edge, nxt |-> p.rcv_nxt, given |-> g,
           taken |-> w, sent |-> t.snd_nxt]
  BY DEF Here
<1> HIDE DEF cuts, edge
<1>6. /\ c \in Context
      /\ c.cuts = cuts /\ c.edge = edge /\ c.nxt = p.rcv_nxt
      /\ c.given = g /\ c.taken = w /\ c.sent = t.snd_nxt
  <2>1. cuts \in SUBSET Nat /\ edge \in Nat \ {0}
    BY <1>2, <1>3 DEF cuts, edge
  <2> QED
    BY <1>4, <1>5, <2>1 DEF Context
<1> QED
  BY <1>6 DEF cuts, edge, IsHere

\* The invariant of two ends makes each sound in that context.
LEMMA SoundHere ==
    ASSUME NEW t, NEW p, NEW w \in Nat, NEW g \in Nat, NEW w2, NEW g2,
           EndOK(t, p, w, g), EndOK(p, t, w2, g2),
           NEW c, c = Here(t, p, w, g)
    PROVE  c \in Context /\ Sound(t, c)
<1>1. t \in Tcb /\ p \in Tcb /\ t.out = <<>>
  BY DEF EndOK
<1>2. IsHere(c, t, p, w, g)
  BY <1>1, HereFacts
<1>3. DOMAIN t.out = {}
  BY <1>1
<1>4. OutOK(t, c.cuts)
  BY <1>3 DEF OutOK
<1>5. Opens(t, c.sent)
  BY <1>2, <1>3 DEF Opens, IsHere
<1>6. ASSUME NEW x \in Cuts(p) PROVE x <= Edge(t)
  <2>1. x \in Nat /\ x <= p.snd_nxt
    BY <1>1, <1>6, CutsWithin DEF EndOK
  <2>2. p.snd_nxt <= Edge(t)
    BY DEF EndOK, WindowOK
  <2>3. p.snd_nxt \in Nat /\ Edge(t) \in Nat
    BY <1>1, TcbType DEF Edge
  <2> QED
    BY <2>1, <2>2, <2>3
<1> QED
  BY <1>1, <1>2, <1>4, <1>5, <1>6 DEF Sound, EndOK, IsHere

\* v is what is kept of u, which a call leaves of t.
LEMMA RestedGrows ==
    ASSUME NEW t \in Tcb, NEW u \in Tcb, NEW v, Rests(u, v), Grows(t, u)
    PROVE  Grows(t, v) /\ Grows(u, v)
<1>1. Cuts(v) = Cuts(u) /\ Edge(v) = Edge(u) /\ v.rcv_nxt = u.rcv_nxt
  BY DEF Rests, SameSender, SameReceiver, Cuts, Edge
<1>2. u.rcv_nxt \in Nat /\ Edge(u) \in Nat
  BY TcbType DEF Edge
<1> QED
  BY <1>1, <1>2 DEF Grows

\* The endpoint that was called.
LEMMA CallerKeeps ==
    ASSUME NEW t \in Tcb, NEW p \in Tcb, NEW w \in Nat, NEW g \in Nat, NEW w2, NEW g2,
           EndOK(p, t, w2, g2),
           NEW d, d = Here(t, p, w, g), NEW u, Call(t, u, d), NEW v, Rests(u, v)
    PROVE  EndOK(v, p, w, g)
<1>1. /\ d.cuts = Cuts(p) /\ d.edge = Edge(p) /\ d.nxt = p.rcv_nxt
      /\ d.given = g /\ d.taken = w
  <2>1. IsHere(d, t, p, w, g)
    BY HereFacts
  <2> QED
    BY <2>1 DEF IsHere
<1>2. Sound(u, d) /\ u \in Tcb
  BY DEF Call, Sound
<1>3. SameSender(u, v) /\ SameReceiver(u, v) /\ v \in Tcb /\ v.out = <<>>
  BY DEF Rests
<1>4. SenderOK(v)
  BY <1>2, <1>3, SameSenderKeeps DEF Sound
<1>5. WindowOK(v, Edge(p), p.rcv_nxt)
  BY <1>1, <1>2, <1>3, SameSenderWindow DEF Sound
<1>6. WrittenOK(v, w)
  BY <1>1, <1>2, <1>3, SameSenderWritten DEF Sound
<1>7. ReceiverOK(v, Cuts(p), g)
  <2>1. ReceiverOK(u, Cuts(p), g)
    BY <1>1, <1>2 DEF Sound
  <2> QED
    BY <1>3, <2>1, SameReceiverKeeps
<1>8. WriteWaits(v) /\ GoneOK(v)
  <2>1. v.sbuf = u.sbuf
    BY <1>3 DEF SameSender
  <2> QED
    BY <2>1 DEF Call, Rests, WriteWaits, GoneOK
<1> QED
  BY <1>3, <1>4, <1>5, <1>6, <1>7, <1>8 DEF EndOK

\* Its peer.
LEMMA PeerKeeps ==
    ASSUME NEW t \in Tcb, NEW v \in Tcb, NEW p, NEW w2, NEW g2,
           EndOK(p, t, w2, g2), Grows(t, v)
    PROVE  EndOK(p, v, w2, g2)
<1>1. p \in Tcb
  BY DEF EndOK
<1>2. WindowOK(p, Edge(v), v.rcv_nxt)
  <2> DEFINE a == p.snd_nxt
             b == p.snd_una
             n == p.snd_wnd
             x == Edge(t)
             y == Edge(v)
  <2>1. a \in Nat /\ b \in Nat /\ n \in Nat /\ x \in Nat /\ y \in Nat
    BY <1>1, TcbType, SMT DEF Edge
  <2>2. x <= y /\ a <= x /\ b + n <= x
    BY DEF Grows, EndOK, WindowOK
  <2> HIDE DEF a, b, n, x, y
  <2>3. a <= y
    BY <2>1, <2>2
  <2>4. b + n <= y
    BY <2>1, <2>2
  <2>5. p.snd_una <= v.rcv_nxt
    <3>1. p.snd_una <= t.rcv_nxt /\ t.rcv_nxt <= v.rcv_nxt
      BY DEF Grows, EndOK, WindowOK
    <3>2. p.snd_una \in Nat /\ t.rcv_nxt \in Nat /\ v.rcv_nxt \in Nat
      BY <1>1, TcbType
    <3> QED
      BY <3>1, <3>2
  <2> QED
    BY <2>3, <2>4, <2>5 DEF WindowOK, a, b, n, y
<1>3. ReceiverOK(p, Cuts(v), g2)
  <2>1. Cuts(t) \subseteq Cuts(v)
    BY DEF Grows
  <2> QED
    BY <2>1 DEF EndOK, ReceiverOK
<1> QED
  BY <1>2, <1>3 DEF EndOK

\* The packets that are left to t.
LEMMA InNetKeeps ==
    ASSUME NEW t \in Tcb, NEW v \in Tcb, Grows(t, v), NEW p, NEW packets,
           NetOK(packets, p, t), NEW R, R = Renumber(packets)
    PROVE  NetOK(R, p, v)
<1>1. packets \in SUBSET Packet /\ IsFiniteSet(packets)
  BY DEF NetOK
<1>2. R \in SUBSET Packet /\ IsFiniteSet(R) /\ \A m \in R : \E q \in packets : Alike(m, q)
  BY <1>1, RenumberFacts
<1>3. ASSUME NEW m \in R PROVE PacketOK(m, p, Cuts(v))
  <2>1. PICK q \in packets : Alike(m, q)
    BY <1>2
  <2>2. PacketOK(m, p, Cuts(t))
    BY <2>1, AlikeKeeps DEF NetOK
  <2> QED
    BY <2>2 DEF PacketOK, Grows
<1> QED
  BY <1>2, <1>3 DEF NetOK

\* The packets on their way from t.
LEMMA OutNetKeeps ==
    ASSUME NEW t \in Tcb, NEW u \in Tcb, NEW v \in Tcb, Grows(t, v), Grows(u, v),
           NEW p, NEW packets, NetOK(packets, t, p), OutOK(u, Cuts(p)),
           NEW R, R = Put(packets, u.out)
    PROVE  NetOK(R, v, p)
<1>1. packets \in SUBSET Packet /\ IsFiniteSet(packets)
  BY DEF NetOK
<1>2. u.out \in Seq(Packet) /\ \A i \in DOMAIN u.out : u.out[i] \in Packet
  BY TcbType
<1>3. /\ R \in SUBSET Packet /\ IsFiniteSet(R)
      /\ \A m \in R : m \in packets \/ \E i \in DOMAIN u.out : Alike(m, u.out[i])
  BY <1>1, <1>2, PutFacts
<1>4. ASSUME NEW m \in R PROVE PacketOK(m, v, Cuts(p))
  <2>1. CASE m \in packets
    BY <1>1, <2>1, PacketStays DEF NetOK
  <2>2. ASSUME NEW i \in DOMAIN u.out, Alike(m, u.out[i]) PROVE PacketOK(m, v, Cuts(p))
    <3>1. PacketOK(u.out[i], u, Cuts(p))
      BY DEF OutOK
    <3>2. PacketOK(u.out[i], v, Cuts(p))
      BY <1>2, <3>1, PacketStays
    <3> QED
      BY <2>2, <3>2, AlikeKeeps
  <2> QED
    BY <1>3, <2>1, <2>2
<1> QED
  BY <1>3, <1>4 DEF NetOK

\* Before anything is sent no data is on its way.
LEMMA NothingLate ==
    ASSUME NEW t \in Tcb, SenderOK(t), t.snd_nxt = 0, NEW m \in Packet, NEW cuts,
           PacketOK(m, t, cuts)
    PROVE  ~Late(m)
<1>1. SUFFICES ASSUME m.data # <<>> PROVE FALSE
  BY DEF Late
<1>2. m.data \in Seq(Nat) /\ Len(m.data) \in Nat /\ Len(m.data) # 0
  <2>1. m.data \in Seq(Nat)
    BY DEF Packet
  <2> QED
    BY <1>1, <2>1, EmptySeq
<1>3. m.seq \in Nat
  BY <1>1 DEF PacketOK, DataOK
<1>4. m.seq + Len(m.data) \in Cuts(t)
  BY <1>1 DEF PacketOK
<1>5. m.seq + Len(m.data) <= 0
  BY <1>4, CutsWithin
<1> QED
  BY <1>2, <1>3, <1>5

\* What the peer waits for while it has received nothing.
LEMMA GreetingOut ==
    ASSUME NEW t \in Tcb, SenderOK(t), NEW p, NEW packets, NetOK(packets, t, p),
           NEW u \in Tcb, NEW v, v.snd_nxt = u.snd_nxt, Opens(u, t.snd_nxt),
           Grows(t, u), SenderOK(u),
           Heralded(t, packets), ~Rough, NEW R, R = Put(packets, u.out)
    PROVE  Heralded(v, R)
<1>1. packets \in SUBSET Packet /\ IsFiniteSet(packets)
  BY DEF NetOK
<1>2. u.out \in Seq(Packet)
  BY TcbType
<1>3. /\ Placed(packets) => Placed(R)
      /\ Behind(packets) => Behind(R)
      /\ (\A m \in packets : ~Late(m)) /\ GreetsFirst(u.out) => Behind(R)
  BY <1>1, <1>2, PutFacts
<1>4. Placed(R)
  BY <1>3 DEF Heralded
<1>5. ASSUME v.snd_nxt > 0 PROVE Behind(R)
  <2>1. t.snd_nxt \in Nat /\ u.snd_nxt \in Nat
    BY TcbType
  <2>2. CASE t.snd_nxt > 0
    BY <1>3, <2>2 DEF Heralded
  <2>3. CASE t.snd_nxt = 0
    <3>1. \A m \in packets : ~Late(m)
      BY <1>1, <2>3, NothingLate DEF NetOK
    <3>2. u.snd_nxt # 0
      BY <1>5, <2>1
    <3>3. GreetsFirst(u.out)
      BY <2>3, <3>2 DEF Opens, GreetsFirst
    <3> QED
      BY <1>3, <3>1, <3>3
  <2> QED
    BY <2>1, <2>2, <2>3
<1> QED
  BY <1>4, <1>5 DEF Heralded

\* Two endpoints, the packets on their way to them, and their applications.
AllOK(objects, nets, taken, given) ==
    \A e \in Ends :
        /\ EndOK(objects[e], objects[Peer(e)], taken[e], Len(given[e]))
        /\ NetOK(nets[e], objects[Peer(e)], objects[e])
        /\ GreetingOK(objects[e], objects[Peer(e)], nets[e])

\* The inductive invariant.
Inv == TypeOK /\ AllOK(tcb, net, written, read)

\* Two ends, each the peer of the other.
LEMMA Pairs ==
    ASSUME NEW e \in Ends
    PROVE  Peer(e) \in Ends /\ Peer(e) # e /\ Peer(Peer(e)) = e /\ Ends = {e, Peer(e)}
  BY SizesAssumption, SMT DEF Ends, Peer

\* Nothing is received before both ends are connected, unless the channel was
\* smooth until then.
LEMMA NotYetRough ==
    ASSUME Inv, NEW e \in Ends, tcb[Peer(e)].rcv_nxt = 0, ~HandshakeFaults
    PROVE  ~Rough
<1> DEFINE t == tcb[e]
           p == tcb[Peer(e)]
<1>1. t.snd_una <= p.rcv_nxt /\ t \in Tcb
  BY Pairs DEF Inv, AllOK, EndOK, WindowOK
<1>2. t.snd_una \in Nat
  BY <1>1, TcbType
<1>3. ~(t.snd_una > 0)
  BY <1>1, <1>2
<1> QED
  BY <1>3 DEF Rough, Connected

\* The whole after a call on e: u is what it leaves of the object.
LEMMA PairKeeps ==
    ASSUME Inv, NEW e \in Ends, NEW w \in Nat, NEW g \in Nat,
           NEW t, t = tcb[e], NEW p, p = tcb[Peer(e)],
           NEW d, d = Here(t, p, w, g), NEW u, Call(t, u, d),
           NEW inNet \in SUBSET net[e], GreetingOK(u, p, inNet),
           NEW v, v = Settled(u),
           NEW N, N = Renumber(inNet),
           NEW O, O = Put(net[Peer(e)], u.out)
    PROVE  /\ EndOK(v, p, w, g) /\ NetOK(N, p, v) /\ GreetingOK(v, p, N)
           /\ EndOK(p, v, written[Peer(e)], Len(read[Peer(e)])) /\ NetOK(O, v, p)
           /\ GreetingOK(p, v, O)
<1> DEFINE w2 == written[Peer(e)]
           g2 == Len(read[Peer(e)])
           o == net[Peer(e)]
<1>1. /\ EndOK(t, p, written[e], Len(read[e])) /\ NetOK(net[e], p, t)
      /\ EndOK(p, t, w2, g2) /\ NetOK(o, t, p) /\ GreetingOK(p, t, o)
  <2>1. Peer(e) \in Ends /\ Peer(Peer(e)) = e
    BY Pairs
  <2> QED
    BY <2>1 DEF Inv, AllOK
<1>2. t \in Tcb /\ p \in Tcb /\ SenderOK(t)
  BY <1>1 DEF EndOK
<1> HIDE DEF w2, g2, o
<1>3. d.cuts = Cuts(p) /\ d.sent = t.snd_nxt
  <2>1. IsHere(d, t, p, w, g)
    BY <1>1, <1>2, HereFacts
  <2> QED
    BY <2>1 DEF IsHere
<1>4. Sound(u, d) /\ Grows(t, u) /\ u \in Tcb
  BY DEF Call, Sound
<1>5. Rests(u, v) /\ v \in Tcb
  <2>1. Rests(u, v)
    BY <1>4, SettledFacts
  <2> QED
    BY <2>1 DEF Rests
<1>6. Grows(t, v) /\ Grows(u, v)
  BY <1>2, <1>4, <1>5, RestedGrows
<1>7. EndOK(v, p, w, g)
  BY <1>1, <1>2, <1>5, CallerKeeps
<1>8. EndOK(p, v, w2, g2)
  BY <1>1, <1>2, <1>5, <1>6, PeerKeeps
<1>9. NetOK(inNet, p, t)
  <2>1. IsFiniteSet(net[e])
    BY <1>1 DEF NetOK
  <2>2. IsFiniteSet(inNet)
    BY <2>1, FS_Subset
  <2> QED
    BY <1>1, <2>2 DEF NetOK
<1>10. NetOK(N, p, v)
  BY <1>2, <1>5, <1>6, <1>9, InNetKeeps
<1>11. NetOK(O, v, p)
  <2>1. OutOK(u, Cuts(p))
    BY <1>3, <1>4 DEF Sound
  <2>2. O = Put(o, u.out)
    BY DEF o
  <2> QED
    BY <1>1, <1>2, <1>4, <1>5, <1>6, <2>1, <2>2, OutNetKeeps
<1>12. GreetingOK(v, p, N)
  <2>1. SUFFICES ASSUME ~HandshakeFaults, v.rcv_nxt = 0, v.alive, v.state # "CLOSED"
                 PROVE  Heralded(p, N)
    BY DEF GreetingOK
  <2>2. u.rcv_nxt = 0 /\ u.alive /\ u.state # "CLOSED"
    BY <1>5, <2>1 DEF Rests, SameReceiver
  <2>3. Heralded(p, inNet)
    BY <2>1, <2>2 DEF GreetingOK
  <2>4. inNet \in SUBSET Packet /\ IsFiniteSet(inNet)
    BY <1>9 DEF NetOK
  <2>5. (Placed(inNet) => Placed(N)) /\ (Placed(inNet) /\ Behind(inNet) => Behind(N))
    BY <2>4, RenumberFacts
  <2> QED
    BY <2>3, <2>5 DEF Heralded
<1>13. GreetingOK(p, v, O)
  <2>1. SUFFICES ASSUME ~HandshakeFaults, p.rcv_nxt = 0, p.alive, p.state # "CLOSED"
                 PROVE  Heralded(v, O)
    BY DEF GreetingOK
  <2>2. ~Rough
    BY <2>1, NotYetRough
  <2>3. Heralded(t, o)
    BY <1>1, <2>1 DEF GreetingOK
  <2>4. v.snd_nxt = u.snd_nxt
    BY <1>5 DEF Rests, SameSender
  <2>5. Opens(u, t.snd_nxt) /\ SenderOK(u)
    BY <1>3, <1>4 DEF Sound
  <2>6. O = Put(o, u.out)
    BY DEF o
  <2> QED
    BY <1>1, <1>2, <1>4, <2>2, <2>3, <2>4, <2>5, <2>6, GreetingOut
<1> QED
  BY <1>7, <1>8, <1>10, <1>11, <1>12, <1>13 DEF w2, g2

\* Every public call ends this way.
LEMMA ReturnKeeps ==
    ASSUME Inv, NEW e \in Ends, NEW w \in 0 .. MaxBytes, NEW r \in Seq(Nat),
           NEW u, Call(tcb[e], u, Here(tcb[e], tcb[Peer(e)], w, Len(r))),
           NEW inNet \in SUBSET net[e], GreetingOK(u, tcb[Peer(e)], inNet),
           Return(e, u, inNet),
           written' = [written EXCEPT ![e] = w], read' = [read EXCEPT ![e] = r],
           faults' \in 0 .. MaxFaults
    PROVE  Inv'
<1> DEFINE x == Peer(e)
           t == tcb[e]
           p == tcb[x]
           v == Settled(u)
           N == Renumber(inNet)
           O == Put(net[x], u.out)
           g == Len(r)
<1>1. x \in Ends /\ x # e /\ Peer(x) = e /\ Ends = {e, x}
  BY Pairs
<1>2. tcb' = [tcb EXCEPT ![e] = v] /\ net' = [net EXCEPT ![e] = N, ![x] = O]
  BY <1>1 DEF Return
<1>3. w \in Nat /\ g \in Nat
  <2>1. MaxBytes \in Nat
    BY SizesAssumption
  <2> QED
    BY <2>1
<1>4. /\ EndOK(v, p, w, g) /\ NetOK(N, p, v) /\ GreetingOK(v, p, N)
      /\ EndOK(p, v, written[x], Len(read[x])) /\ NetOK(O, v, p)
      /\ GreetingOK(p, v, O)
  BY <1>3, PairKeeps
<1>5. /\ tcb \in [Ends -> Tcb] /\ net \in [Ends -> SUBSET Packet]
      /\ written \in [Ends -> 0 .. MaxBytes] /\ read \in [Ends -> Seq(Nat)]
  BY DEF Inv, TypeOK
<1> HIDE DEF x, t, v, N, O, g
<1>6. /\ tcb'[e] = v /\ tcb'[x] = tcb[x] /\ net'[e] = N /\ net'[x] = O
      /\ written'[e] = w /\ written'[x] = written[x]
      /\ read'[e] = r /\ read'[x] = read[x]
  BY <1>1, <1>2, <1>5
<1>7. p = tcb[x] /\ g = Len(r)
  BY DEF g
<1> HIDE DEF p
<1>8. AllOK(tcb, net, written, read)'
  <2>1. /\ EndOK(tcb'[e], tcb'[x], written'[e], Len(read'[e]))
        /\ NetOK(net'[e], tcb'[x], tcb'[e])
        /\ GreetingOK(tcb'[e], tcb'[x], net'[e])
    BY <1>4, <1>6, <1>7
  <2>2. /\ EndOK(tcb'[x], tcb'[e], written'[x], Len(read'[x]))
        /\ NetOK(net'[x], tcb'[e], tcb'[x])
        /\ GreetingOK(tcb'[x], tcb'[e], net'[x])
    BY <1>4, <1>6, <1>7
  <2>3. ASSUME NEW z \in Ends
        PROVE  /\ EndOK(tcb'[z], tcb'[Peer(z)], written'[z], Len(read'[z]))
               /\ NetOK(net'[z], tcb'[Peer(z)], tcb'[z])
               /\ GreetingOK(tcb'[z], tcb'[Peer(z)], net'[z])
    <3>1. CASE z = e
      <4>1. Peer(z) = x
        BY <3>1 DEF x
      <4> QED
        BY <2>1, <3>1, <4>1
    <3>2. CASE z = x
      <4>1. Peer(z) = e
        BY <1>1, <3>2
      <4> QED
        BY <2>2, <3>2, <4>1
    <3> QED
      BY <1>1, <3>1, <3>2
  <2> QED
    BY <2>3 DEF AllOK
<1>9. v \in Tcb /\ N \in SUBSET Packet /\ O \in SUBSET Packet
  BY <1>4 DEF EndOK, NetOK
<1>10. /\ tcb' \in [Ends -> Tcb] /\ net' \in [Ends -> SUBSET Packet]
       /\ written' \in [Ends -> 0 .. MaxBytes] /\ read' \in [Ends -> Seq(Nat)]
  BY <1>2, <1>5, <1>9
<1>11. ASSUME NEW z \in Ends PROVE Len(tcb'[z].sbuf) <= SndBuf /\ Len(tcb'[z].rbuf) <= RcvBuf
  <2> DEFINE s == tcb'[z]
  <2>1. s \in Tcb
    BY <1>10
  <2>2. SenderOK(s) /\ \E cuts, given : ReceiverOK(s, cuts, given)
    BY <1>8 DEF AllOK, EndOK
  <2> HIDE DEF s
  <2>3. s.rcv_wnd \in Nat /\ Len(s.rbuf) \in Nat /\ RcvBuf \in Nat
    BY <2>1, TcbType, SizesAssumption
  <2>4. s.rcv_wnd <= RcvBuf - Len(s.rbuf)
    BY <2>2 DEF ReceiverOK
  <2>5. Len(s.rbuf) <= RcvBuf
    BY <2>3, <2>4
  <2>6. Len(s.sbuf) <= SndBuf
    BY <2>2 DEF SenderOK
  <2> QED
    BY <2>5, <2>6 DEF s
<1> QED
  BY <1>8, <1>10, <1>11 DEF Inv, TypeOK

\* The object t of e before a call, its peer's p, and what it knows of the rest.
Ready(e, t, p, c) ==
    /\ t = tcb[e] /\ p = tcb[Peer(e)] /\ t \in Tcb /\ p \in Tcb
    /\ c = Here(t, p, written[e], Len(read[e]))
    /\ c \in Context /\ Sound(t, c) /\ WriteWaits(t) /\ GoneOK(t)
    /\ written[e] \in 0 .. MaxBytes /\ written[e] \in Nat
    /\ read[e] \in Seq(Nat) /\ Len(read[e]) \in Nat

(***************************************************************************)
(* The actions                                                             *)
(***************************************************************************)

\* What a step of one end may start from.
LEMMA ReadyHere ==
    ASSUME Inv, NEW e \in Ends, NEW t, t = tcb[e], NEW p, p = tcb[Peer(e)],
           NEW c, c = Here(t, p, written[e], Len(read[e]))
    PROVE  Ready(e, t, p, c)
<1> DEFINE w2 == written[Peer(e)]
           g2 == Len(read[Peer(e)])
<1>1. /\ EndOK(t, p, written[e], Len(read[e]))
      /\ EndOK(p, t, w2, g2)
  <2>1. Peer(e) \in Ends /\ Peer(Peer(e)) = e
    BY Pairs
  <2> QED
    BY <2>1 DEF Inv, AllOK
<1> HIDE DEF w2, g2
<1>2. written[e] \in 0 .. MaxBytes /\ read[e] \in Seq(Nat)
  BY DEF Inv, TypeOK
<1>3. written[e] \in Nat /\ Len(read[e]) \in Nat
  <2>1. MaxBytes \in Nat
    BY SizesAssumption
  <2> QED
    BY <1>2, <2>1
<1>4. c \in Context /\ Sound(t, c)
  BY <1>1, <1>3, SoundHere
<1> QED
  BY <1>1, <1>2, <1>3, <1>4 DEF Ready, EndOK

\* A call that takes and gives no bytes.
LEMMA PlainReturn ==
    ASSUME Inv, NEW e \in Ends, NEW t, NEW p, NEW c, Ready(e, t, p, c),
           NEW u, Call(t, u, c), NEW inNet \in SUBSET net[e], GreetingOK(u, p, inNet),
           Return(e, u, inNet), UNCHANGED <<written, read>>, faults' \in 0 .. MaxFaults
    PROVE  Inv'
<1> DEFINE w == written[e]
           r == read[e]
<1>1. w \in 0 .. MaxBytes /\ r \in Seq(Nat)
  BY DEF Ready
<1>2. written' = [written EXCEPT ![e] = w] /\ read' = [read EXCEPT ![e] = r]
  BY DEF Inv, TypeOK
<1>3. Call(tcb[e], u, Here(tcb[e], tcb[Peer(e)], w, Len(r)))
  BY DEF Ready
<1>4. GreetingOK(u, tcb[Peer(e)], inNet)
  BY DEF Ready
<1> HIDE DEF w, r
<1> QED
  BY <1>1, <1>2, <1>3, <1>4, ReturnKeeps

\* A call that receives nothing.
LEMMA StillGreets ==
    ASSUME Inv, NEW e \in Ends, tcb[e].alive, tcb[e] \in Tcb,
           NEW u \in Tcb, NEW c, Call(tcb[e], u, c)
    PROVE  GreetingOK(u, tcb[Peer(e)], net[e])
<1> DEFINE t == tcb[e]
           p == tcb[Peer(e)]
<1>1. GreetingOK(t, p, net[e])
  BY DEF Inv, AllOK
<1>2. t.rcv_nxt <= u.rcv_nxt /\ (t.state = "CLOSED" => u.state = "CLOSED")
  BY DEF Call, Grows
<1>3. t.rcv_nxt \in Nat /\ u.rcv_nxt \in Nat
  BY TcbType
<1>4. u.rcv_nxt = 0 => t.rcv_nxt = 0
  BY <1>2, <1>3
<1> QED
  BY <1>1, <1>2, <1>4 DEF GreetingOK

\* A step that is one call on an object that is alive.
LEMMA AliveReturn ==
    ASSUME Inv, NEW e \in Ends, NEW t, NEW p, NEW c, Ready(e, t, p, c), t.alive,
           NEW u, Call(t, u, c),
           Return(e, u, net[e]), UNCHANGED <<written, read>>, faults' \in 0 .. MaxFaults
    PROVE  Inv'
<1>1. u \in Tcb
  BY DEF Call, Sound
<1>2. GreetingOK(u, p, net[e])
  BY <1>1, StillGreets DEF Ready
<1> QED
  BY <1>2, PlainReturn

\* Faults stay within their bound.
LEMMA FaultsCounted ==
    ASSUME Inv, NEW env, NEW kind,
           Choose(env) \/ Commit(kind) \/ UNCHANGED faults
    PROVE  faults' \in 0 .. MaxFaults
<1>1. faults \in 0 .. MaxFaults /\ MaxFaults \in Nat
  BY SizesAssumption DEF Inv, TypeOK
<1>2. ASSUME NEW k, Commit(k) PROVE faults' \in 0 .. MaxFaults
  BY <1>1, <1>2 DEF Commit
<1>3. CASE UNCHANGED faults
  BY <1>1, <1>3
<1>4. CASE Choose(env)
  BY <1>2, <1>3, <1>4 DEF Choose
<1> QED
  BY <1>2, <1>3, <1>4

\* Connect keeps the invariant.
LEMMA ConnectKeeps ==
    ASSUME Inv, NEW e \in Ends, Connect(e)
    PROVE  Inv'
<1> DEFINE t == tcb[e]
           p == tcb[Peer(e)]
           c == Here(t, p, written[e], Len(read[e]))
           a == Entering(t, "SYN_SENT")
           q == queueConnectMessage(a)
           u == AdjustClock(attemptSend(q, "none", Smooth))
<1>1. Ready(e, t, p, c)
  BY ReadyHere
<1>2. t.alive /\ t.state = "LISTEN" /\ Return(e, u, net[e])
  BY DEF Connect, Entering
<1>3. UNCHANGED <<written, read>> /\ faults' \in 0 .. MaxFaults
  BY FaultsCounted DEF Connect
<1>4. Sound(t, c) /\ WriteWaits(t) /\ c \in Context
  BY <1>1 DEF Ready
<1>5. "SYN_SENT" \in TcpState
  BY DEF TcpState
<1> DEFINE x == "SYN_SENT"
<1>6. x \in TcpState /\ x # "LISTEN" /\ a = Entering(t, x) /\ q = queueConnectMessage(a)
      /\ u = AdjustClock(attemptSend(q, "none", Smooth))
  BY <1>5
<1> HIDE DEF t, p, c, a, q, u, x
<1>7. Advances(t, q, c) /\ q.state = x /\ q.writeEnable = t.writeEnable
  BY <1>2, <1>4, <1>6, ConnectAdvances
<1>8. Call(t, u, c)
  BY <1>2, <1>4, <1>6, <1>7, ConnectCalls
<1> QED
  BY <1>1, <1>2, <1>3, <1>8, AliveReturn

\* Close keeps the invariant.
LEMMA CloseKeeps ==
    ASSUME Inv, NEW e \in Ends, NEW force, Close(e, force)
    PROVE  Inv'
<1> DEFINE t == tcb[e]
           p == tcb[Peer(e)]
           c == Here(t, p, written[e], Len(read[e]))
           x == IF force THEN "FORCEFUL" ELSE "GRACEFUL"
           u == AdjustClock([t EXCEPT !.shutdown = x])
<1>1. Ready(e, t, p, c)
  BY ReadyHere
<1>2. t.alive /\ Return(e, u, net[e])
  BY DEF Close
<1>3. UNCHANGED <<written, read>> /\ faults' \in 0 .. MaxFaults
  BY FaultsCounted DEF Close
<1>4. Sound(t, c) /\ WriteWaits(t) /\ c \in Context
  BY <1>1 DEF Ready
<1>5. x \in {"GRACEFUL", "FORCEFUL"}
  OBVIOUS
<1>6. u = AdjustClock([t EXCEPT !.shutdown = x])
  OBVIOUS
<1> HIDE DEF t, p, c, x, u
<1>7. Call(t, u, c)
  BY <1>4, <1>5, <1>6, CloseCalls
<1> QED
  BY <1>1, <1>2, <1>3, <1>7, AliveReturn

\* NotifyMTU keeps the invariant.
LEMMA NotifyMTUKeeps ==
    ASSUME Inv, NEW e \in Ends, NEW mtu \in Mtus, NotifyMTU(e, mtu)
    PROVE  Inv'
<1> DEFINE t == tcb[e]
           p == tcb[Peer(e)]
           c == Here(t, p, written[e], Len(read[e]))
           a == [t EXCEPT !.mtu_advise = mtu]
           u == AdjustClock(IF a.state = "ESTABLISHED" THEN adjustMTU(a) ELSE a)
<1>1. Ready(e, t, p, c)
  BY ReadyHere
<1>2. a.alive /\ Return(e, u, net[e])
  BY DEF NotifyMTU
<1>3. UNCHANGED <<written, read>> /\ faults' \in 0 .. MaxFaults
  BY FaultsCounted DEF NotifyMTU
<1>4. Sound(t, c) /\ WriteWaits(t) /\ c \in Context /\ t \in Tcb
  BY <1>1 DEF Ready
<1>5. mtu \in Nat \ {0}
  BY SizesAssumption
<1>6. t.alive
  BY <1>2, <1>4 DEF Tcb
<1>7. a = [t EXCEPT !.mtu_advise = mtu]
      /\ u = AdjustClock(IF a.state = "ESTABLISHED" THEN adjustMTU(a) ELSE a)
  OBVIOUS
<1> HIDE DEF t, p, c, a, u
<1>8. Call(t, u, c)
  BY <1>4, <1>5, <1>7, MtuCalls
<1> QED
  BY <1>1, <1>2, <1>3, <1>6, <1>8, AliveReturn

\* The three timers keep the invariant.
LEMMA NotifyClockKeeps ==
    ASSUME Inv, NEW e \in Ends, NEW timer, NotifyClock(e, timer)
    PROVE  Inv'
<1> DEFINE t == tcb[e]
           p == tcb[Peer(e)]
           c == Here(t, p, written[e], Len(read[e]))
<1>1. Ready(e, t, p, c)
  BY ReadyHere
<1>2. Sound(t, c) /\ WriteWaits(t) /\ c \in Context
  BY <1>1 DEF Ready
<1>3. t.alive /\ t.state # "CLOSED" /\ UNCHANGED <<written, read>>
  BY DEF NotifyClock
<1>4. ASSUME NEW env, OnRetransmitTimer(e, env) PROVE Inv'
  <2> DEFINE s == Only({Backoff(r) : r \in {Retransmit(t, env)}})
             u == AdjustClock(s)
  <2>1. t.rto /\ Return(e, u, net[e])
    BY <1>4 DEF OnRetransmitTimer
  <2>2. faults' \in 0 .. MaxFaults
    BY <1>4, FaultsCounted DEF OnRetransmitTimer
  <2>3. s = Only({Backoff(r) : r \in {Retransmit(t, env)}}) /\ u = AdjustClock(s)
    OBVIOUS
  <2> HIDE DEF t, p, c, s, u
  <2>4. Call(t, u, c)
    BY <1>2, <1>3, <2>1, <2>3, ResendCalls
  <2> QED
    BY <1>1, <1>3, <2>1, <2>2, <2>4, AliveReturn
<1>5. ASSUME NEW seq \in Int, NEW u, u = AdjustClock(packet(t, seq, FALSE, 0, 0)),
             Return(e, u, net[e]), UNCHANGED faults
      PROVE  Inv'
  <2>1. faults' \in 0 .. MaxFaults
    BY <1>5, FaultsCounted
  <2> HIDE DEF t, p, c
  <2>2. Call(t, u, c)
    BY <1>2, <1>3, <1>5, PacketCalls
  <2> QED
    BY <1>1, <1>3, <1>5, <2>1, <2>2, AliveReturn
<1>6. ASSUME NEW u, u = AdjustClock(closedown(t)), Return(e, u, net[e]), Commit("abort")
      PROVE  Inv'
  <2>1. faults' \in 0 .. MaxFaults
    BY <1>6, FaultsCounted
  <2> HIDE DEF t, p, c
  <2>2. Call(t, u, c)
    BY <1>2, <1>6, AbortCalls
  <2> QED
    BY <1>1, <1>3, <1>6, <2>1, <2>2, AliveReturn
<1>7. t.snd_nxt \in Int /\ t.snd_nxt - 1 \in Int
  <2>1. t.snd_nxt \in Nat
    BY <1>2, TcbType DEF Sound
  <2> QED
    BY <2>1
<1>8. OnProbeTimer(e) => Inv'
  BY <1>5, <1>6, <1>7 DEF OnProbeTimer
<1>9. OnAckTimer(e) => Inv'
  BY <1>5, <1>7 DEF OnAckTimer
<1> QED
  BY <1>4, <1>8, <1>9 DEF NotifyClock

LEMMA TookFacts ==
    ASSUME NEW n \in Nat \ {0}, NEW room \in Nat, NEW k, k = Lower(n, room)
    PROVE  k \in Nat /\ k <= n /\ k <= room /\ (k = 0 => room = 0)
  BY DEF Lower

\* The bytes taken and given are counted in the next context.
LEMMA HereMoves ==
    ASSUME Inv, NEW e \in Ends, NEW t, NEW p, NEW c, Ready(e, t, p, c),
           NEW w \in Nat, NEW g \in Nat, NEW d, d = Here(t, p, w, g)
    PROVE  IsHere(c, t, p, written[e], Len(read[e])) /\ IsHere(d, t, p, w, g)
<1> DEFINE w2 == written[Peer(e)]
           g2 == Len(read[Peer(e)])
           w1 == written[e]
           g1 == Len(read[e])
<1>1. EndOK(p, t, w2, g2) /\ t \in Tcb
  <2>1. Peer(e) \in Ends /\ Peer(Peer(e)) = e
    BY Pairs
  <2> QED
    BY <2>1 DEF Inv, AllOK, Ready
<1>2. w1 \in Nat /\ g1 \in Nat /\ c = Here(t, p, w1, g1)
  BY DEF Ready
<1> HIDE DEF w2, g2, w1, g1
<1>3. IsHere(c, t, p, w1, g1) /\ IsHere(d, t, p, w, g)
  BY <1>1, <1>2, HereFacts
<1> QED
  BY <1>3 DEF w1, g1

\* Send keeps the invariant.
LEMMA SendKeeps ==
    ASSUME Inv, NEW e \in Ends, NEW n \in WriteSizes, NEW env, Send(e, n, env)
    PROVE  Inv'
<1> DEFINE t == tcb[e]
           p == tcb[Peer(e)]
           w == written[e]
           g == Len(read[e])
           r == read[e]
           c == Here(t, p, w, g)
           room == SndBuf - Len(t.sbuf)
           k == Lower(n, room)
           d == Here(t, p, w + k, g)
           data == Offered(w, k)
           full == [t EXCEPT !.writeEnable = TRUE]
           sent == attemptSend(queue(t, data, FALSE), "none", env)
<1>1. Ready(e, t, p, c)
  BY ReadyHere
<1>2. /\ t.alive /\ t.state = "ESTABLISHED" /\ t.shutdown = "NONE"
      /\ w + n <= MaxBytes
      /\ IF k = 0 THEN Return(e, full, net[e]) ELSE Return(e, sent, net[e])
      /\ written' = [written EXCEPT ![e] = w + k] /\ UNCHANGED read
  BY DEF Send, Offered
<1>3. faults' \in 0 .. MaxFaults
  BY FaultsCounted DEF Send
<1>4. n \in Nat \ {0}
  BY SizesAssumption
<1>5. room \in Nat /\ Len(t.sbuf) \in Nat
  <2>1. Len(t.sbuf) <= SndBuf
    BY DEF Inv, TypeOK
  <2>2. t \in Tcb
    BY <1>1 DEF Ready
  <2>3. Len(t.sbuf) \in Nat
    BY <2>2, TcbType
  <2>4. SndBuf \in Nat
    BY SizesAssumption
  <2> QED
    BY <2>1, <2>3, <2>4
<1>6. k \in Nat /\ k <= n /\ k <= room /\ (k = 0 => room = 0)
  BY <1>4, <1>5, TookFacts
<1>7. Sound(t, c) /\ WriteWaits(t) /\ c \in Context /\ w \in Nat /\ g \in Nat
      /\ w \in 0 .. MaxBytes /\ r \in Seq(Nat) /\ t \in Tcb
  BY <1>1 DEF Ready
<1>8. SndBuf \in Nat /\ MaxBytes \in Nat
  BY SizesAssumption
<1>9. w + k \in 0 .. MaxBytes /\ w + k \in Nat
  BY <1>2, <1>4, <1>6, <1>7, <1>8
<1>10. Len(t.sbuf) + k <= SndBuf /\ (k = 0 => Len(t.sbuf) >= SndBuf)
  BY <1>5, <1>6, <1>8
<1>11. /\ data = Offered(w, k) /\ full = [t EXCEPT !.writeEnable = TRUE]
       /\ sent = attemptSend(queue(t, data, FALSE), "none", env)
       /\ d = Here(t, p, w + k, g) /\ c = Here(t, p, w, g)
       /\ t = tcb[e] /\ p = tcb[Peer(e)] /\ w = written[e] /\ r = read[e] /\ g = Len(r)
  OBVIOUS
<1> HIDE DEF t, p, w, g, r, c, room, k, d, data, full, sent
<1>12. CASE k = 0
  <2>1. Call(t, full, c)
    BY <1>2, <1>7, <1>10, <1>11, <1>12, FullCalls
  <2>2. written' = written
    <3>1. written \in [Ends -> 0 .. MaxBytes]
      BY DEF Inv, TypeOK
    <3>2. w + k = w
      BY <1>7, <1>12
    <3> QED
      BY <1>2, <1>11, <3>1, <3>2
  <2> QED
    BY <1>1, <1>2, <1>3, <1>12, <2>1, <2>2, AliveReturn
<1>13. CASE k # 0
  <2>1. IsHere(c, t, p, w, g) /\ IsHere(d, t, p, w + k, g)
    <3> DEFINE v == w + k
    <3>1. v \in Nat /\ d = Here(t, p, v, g)
      BY <1>9, <1>11
    <3> HIDE DEF v
    <3>2. IsHere(c, t, p, written[e], Len(read[e])) /\ IsHere(d, t, p, v, g)
      BY <1>1, <1>7, <3>1, HereMoves
    <3> QED
      BY <1>11, <3>2 DEF v
  <2>2. SameButTaken(c, d) /\ d.taken = c.taken + k /\ c.taken = w
    BY <2>1 DEF IsHere, SameButTaken
  <2>3. k > 0
    BY <1>6, <1>13
  <2>4. data = Offered(c.taken, k)
    BY <1>11, <2>2
  <2>5. Call(t, sent, d)
    BY <1>2, <1>6, <1>7, <1>10, <1>11, <2>2, <2>3, <2>4, SendCalls
  <2>6. GreetingOK(sent, p, net[e])
    <3>1. sent \in Tcb
      BY <2>5 DEF Call, Sound
    <3> QED
      BY <1>2, <1>7, <1>11, <2>5, <3>1, StillGreets
  <2>7. read' = [read EXCEPT ![e] = r]
    BY <1>2, <1>11 DEF Inv, TypeOK
  <2>8. Return(e, sent, net[e]) /\ net[e] \in SUBSET net[e]
    BY <1>2, <1>13
  <2> DEFINE v == w + k
  <2>9. v \in 0 .. MaxBytes /\ Call(tcb[e], sent, Here(tcb[e], tcb[Peer(e)], v, Len(r)))
        /\ written' = [written EXCEPT ![e] = v] /\ GreetingOK(sent, tcb[Peer(e)], net[e])
    BY <1>2, <1>9, <1>11, <2>5, <2>6
  <2> HIDE DEF v
  <2> QED
    BY <1>3, <1>7, <2>7, <2>8, <2>9, ReturnKeeps
<1> QED
  BY <1>12, <1>13

LEMMA GivenIs ==
    ASSUME NEW r \in Seq(Nat), NEW rbuf \in Seq(Nat), NEW k \in Nat, k <= Len(rbuf),
           NEW s, s = r \o SubSeq(rbuf, 1, k)
    PROVE  s \in Seq(Nat) /\ Len(s) = Len(r) + k
<1>1. SubSeq(rbuf, 1, k) \in Seq(Nat) /\ Len(SubSeq(rbuf, 1, k)) = k
  OBVIOUS
<1> QED
  BY <1>1

\* Recv keeps the invariant.
LEMMA RecvKeeps ==
    ASSUME Inv, NEW e \in Ends, NEW n \in ReadSizes, NEW env, Recv(e, n, env)
    PROVE  Inv'
<1> DEFINE t == tcb[e]
           p == tcb[Peer(e)]
           w == written[e]
           g == Len(read[e])
           r == read[e]
           c == Here(t, p, w, g)
           k == Lower(n, Len(t.rbuf))
           d == Here(t, p, w, g + k)
           wide == Wider(Read(t, k))
           got == r \o SubSeq(t.rbuf, 1, k)
           waits == [t EXCEPT !.readEnable = TRUE]
           told == attemptSend(wide, "immediate", env)
<1>1. Ready(e, t, p, c)
  BY ReadyHere
<1>2. /\ t.alive /\ t.state = "ESTABLISHED" /\ t.shutdown = "NONE"
      /\ IF k = 0 THEN Return(e, waits, net[e])
         ELSE Return(e, told, net[e]) \/ Return(e, wide, net[e])
      /\ read' = [read EXCEPT ![e] = got] /\ UNCHANGED written
  BY DEF Recv, Read, Wider
<1>3. faults' \in 0 .. MaxFaults
  BY FaultsCounted DEF Recv
<1>4. n \in Nat \ {0}
  BY SizesAssumption
<1>5. Sound(t, c) /\ WriteWaits(t) /\ c \in Context /\ w \in Nat /\ g \in Nat
      /\ w \in 0 .. MaxBytes /\ r \in Seq(Nat) /\ t \in Tcb
  BY <1>1 DEF Ready
<1>6. t.rbuf \in Seq(Nat) /\ Len(t.rbuf) \in Nat
  BY <1>5, TcbType
<1>7. k \in Nat /\ k <= Len(t.rbuf) /\ (k = 0 => Len(t.rbuf) = 0)
  <2> DEFINE room == Len(t.rbuf)
  <2>1. k = Lower(n, room) /\ room \in Nat
    BY <1>6
  <2> HIDE DEF k, room
  <2>2. k \in Nat /\ k <= room /\ (k = 0 => room = 0)
    BY <1>4, <2>1, TookFacts
  <2> QED
    BY <2>2 DEF room
<1>8. got \in Seq(Nat) /\ Len(got) = g + k
  BY <1>5, <1>6, <1>7, GivenIs
<1>9. /\ waits = [t EXCEPT !.readEnable = TRUE] /\ wide = Wider(Read(t, k))
      /\ told = attemptSend(wide, "immediate", env)
      /\ d = Here(t, p, w, g + k) /\ c = Here(t, p, w, g)
      /\ t = tcb[e] /\ p = tcb[Peer(e)] /\ w = written[e] /\ r = read[e] /\ g = Len(r)
  OBVIOUS
<1>10. k = 0 => got = r
  <2>1. ASSUME k = 0 PROVE SubSeq(t.rbuf, 1, k) = <<>>
    BY <1>6, <2>1
  <2> QED
    BY <1>5, <2>1
<1>11. k = 0 => t.rbuf = <<>>
  BY <1>6, <1>7, EmptySeq
<1> HIDE DEF t, p, w, g, r, c, k, d, wide, got, waits, told
<1>12. CASE k = 0
  <2>1. Call(t, waits, c)
    BY <1>2, <1>5, <1>9, <1>11, <1>12, WaitCalls
  <2>2. read' = read
    <3>1. read \in [Ends -> Seq(Nat)]
      BY DEF Inv, TypeOK
    <3> QED
      BY <1>2, <1>9, <1>10, <1>12, <3>1
  <2> QED
    BY <1>1, <1>2, <1>3, <1>12, <2>1, <2>2, AliveReturn
<1>13. CASE k # 0
  <2>1. IsHere(c, t, p, w, g) /\ IsHere(d, t, p, w, g + k)
    <3> DEFINE v == g + k
    <3>1. v \in Nat /\ d = Here(t, p, w, v)
      BY <1>5, <1>7, <1>9
    <3> HIDE DEF v
    <3>2. IsHere(c, t, p, written[e], Len(read[e])) /\ IsHere(d, t, p, w, v)
      BY <1>1, <1>5, <3>1, HereMoves
    <3> QED
      BY <1>9, <3>2 DEF v
  <2>2. SameButGiven(c, d) /\ d.given = c.given + k
    BY <2>1 DEF IsHere, SameButGiven
  <2>3. k > 0
    BY <1>7, <1>13
  <2>4. Call(t, wide, d) /\ Call(t, told, d)
    BY <1>2, <1>5, <1>7, <1>9, <2>2, <2>3, RecvCalls
  <2>5. written' = [written EXCEPT ![e] = w]
    BY <1>2, <1>9 DEF Inv, TypeOK
  <2>6. ASSUME NEW u, Call(t, u, d), Return(e, u, net[e]) PROVE Inv'
    <3>1. GreetingOK(u, tcb[Peer(e)], net[e])
      <4>1. u \in Tcb
        BY <2>6 DEF Call, Sound
      <4> QED
        BY <1>2, <1>5, <1>9, <2>6, <4>1, StillGreets
    <3>2. Call(tcb[e], u, Here(tcb[e], tcb[Peer(e)], w, Len(got)))
      BY <1>8, <1>9, <2>6
    <3>3. net[e] \in SUBSET net[e]
      OBVIOUS
    <3> QED
      BY <1>2, <1>3, <1>5, <1>8, <2>5, <2>6, <3>1, <3>2, <3>3, ReturnKeeps
  <2> QED
    BY <1>2, <1>13, <2>4, <2>6
<1> QED
  BY <1>12, <1>13

\* A packet that comes, seen from the object it comes to.
LEMMA ComesOK ==
    ASSUME Inv, NEW e \in Ends, NEW t, NEW p, NEW c, Ready(e, t, p, c), NEW m \in net[e]
    PROVE  MessageOK(m, t, c) /\ m \in Packet
<1>1. NetOK(net[e], p, t)
  BY DEF Inv, AllOK, Ready
<1>2. m \in Packet /\ PacketOK(m, p, Cuts(t))
  BY <1>1 DEF NetOK
<1>3. IsHere(c, t, p, written[e], Len(read[e]))
  <2> DEFINE w == written[e]
             g == Len(read[e])
  <2>1. w \in Nat /\ g \in Nat /\ c = Here(t, p, w, g)
    BY DEF Ready
  <2> HIDE DEF w, g
  <2>2. IsHere(c, t, p, written[e], Len(read[e]))
    BY <2>1, HereMoves
  <2> QED
    BY <2>2
<1> QED
  BY <1>2, <1>3 DEF MessageOK, PacketOK, IsHere

\* Nothing comes ahead of the connect message of the peer.
LEMMA ComesInOrder ==
    ASSUME Inv, NEW e \in Ends, NEW t, NEW p, NEW c, Ready(e, t, p, c),
           t.alive, t.state # "CLOSED", NEW m \in net[e], CanDeliver(e, m)
    PROVE  InOrder(m, t)
<1>1. SUFFICES ASSUME ~HandshakeFaults, t.rcv_nxt = 0, Late(m) PROVE FALSE
  BY DEF InOrder
<1>2. ~Rough
  <2>1. Peer(e) \in Ends /\ tcb[Peer(Peer(e))].rcv_nxt = 0
    BY <1>1, Pairs DEF Ready
  <2> DEFINE x == Peer(e)
  <2>2. x \in Ends /\ tcb[Peer(x)].rcv_nxt = 0
    BY <2>1
  <2> HIDE DEF x
  <2> QED
    BY <1>1, <2>2, NotYetRough
<1>3. /\ NetOK(net[e], p, t) /\ GreetingOK(t, p, net[e])
      /\ EndOK(p, t, written[Peer(e)], Len(read[Peer(e)]))
  <2>1. Peer(e) \in Ends /\ Peer(Peer(e)) = e
    BY Pairs
  <2> QED
    BY <2>1 DEF Inv, AllOK, Ready
<1>4. Heralded(p, net[e])
  BY <1>1, <1>3 DEF GreetingOK
<1>5. m \in Packet /\ PacketOK(m, p, Cuts(t)) /\ net[e] \in SUBSET Packet
  BY <1>3 DEF NetOK
<1>6. p \in Tcb /\ SenderOK(p)
  BY <1>3 DEF EndOK
<1>7. p.snd_nxt # 0
  BY <1>1, <1>5, <1>6, NothingLate
<1>8. p.snd_nxt > 0
  BY <1>6, <1>7, TcbType
<1>9. PICK q \in net[e] : q.ctl /\ \A o \in net[e] : Late(o) => q.place < o.place
  BY <1>4, <1>8 DEF Heralded, Behind
<1>10. q.place < m.place
  BY <1>1, <1>9
<1>11. m.place <= q.place
  BY <1>2 DEF CanDeliver
<1>12. q.place \in Nat /\ m.place \in Nat
  BY <1>5 DEF Packet
<1> QED
  BY <1>10, <1>11, <1>12

\* What a packet does to an object that lives.
LEMMA ComesCalls ==
    ASSUME Inv, NEW e \in Ends, NEW t, NEW p, NEW c, Ready(e, t, p, c),
           t.alive, NEW m \in net[e], CanDeliver(e, m), NEW env,
           NEW u, u = AdjustClock(process(t, m, env))
    PROVE  Call(t, u, c) /\ (u.state = "CLOSED" \/ Greeted(m, t, u))
<1>1. /\ c \in Context /\ Sound(t, c) /\ WriteWaits(t) /\ t \in Tcb
  BY DEF Ready
<1>2. CASE t.state = "CLOSED"
  <2>1. process(t, m, env) = t
    BY <1>2 DEF process
  <2>2. Grows(t, t)
    BY <1>1, TcbType DEF Grows, Edge
  <2>3. u = AdjustClock(t)
    BY <2>1
  <2>4. Call(t, u, c)
    BY <1>1, <2>2, <2>3, AdjustClockCalls
  <2> QED
    BY <1>2, <2>4 DEF Call
<1>3. CASE t.state # "CLOSED"
  <2>1. MessageOK(m, t, c) /\ InOrder(m, t)
    BY <1>3, ComesOK, ComesInOrder
  <2> QED
    BY <1>1, <2>1, PacketTaken
<1> QED
  BY <1>2, <1>3

\* What an object that is gone does with a packet.
LEMMA GoneReturn ==
    ASSUME Inv, NEW e \in Ends, NEW t, NEW p, NEW c, Ready(e, t, p, c), ~t.alive,
           NEW inNet \in SUBSET net[e], Return(e, t, inNet),
           UNCHANGED <<written, read>>, faults' \in 0 .. MaxFaults
    PROVE  Inv'
<1>1. Grows(t, t)
  BY TcbType DEF Ready, Grows, Edge
<1>2. Call(t, t, c)
  BY <1>1 DEF Call, Ready
<1>3. GreetingOK(t, p, inNet)
  BY DEF GreetingOK
<1> QED
  BY <1>2, <1>3, PlainReturn

\* A packet that is delivered and stays keeps the invariant.
LEMMA DeliverRepeatedlyKeeps ==
    ASSUME Inv, NEW e \in Ends, NEW m \in net[e], DeliverRepeatedly(e, m)
    PROVE  Inv'
<1> DEFINE t == tcb[e]
           p == tcb[Peer(e)]
           c == Here(t, p, written[e], Len(read[e]))
           u == AdjustClock(process(t, m, Smooth))
<1>1. Ready(e, t, p, c)
  BY ReadyHere
<1>2. /\ CanDeliver(e, m) /\ UNCHANGED <<written, read>>
      /\ Return(e, IF t.alive THEN u ELSE t, net[e])
  BY DEF DeliverRepeatedly, NotifyPacket
<1>3. faults' \in 0 .. MaxFaults
  BY FaultsCounted DEF DeliverRepeatedly
<1>4. u = AdjustClock(process(t, m, Smooth))
  OBVIOUS
<1> HIDE DEF t, p, c, u
<1>5. CASE t.alive
  <2>1. Call(t, u, c)
    BY <1>1, <1>2, <1>4, <1>5, ComesCalls
  <2>2. Return(e, u, net[e])
    BY <1>2, <1>5
  <2> QED
    BY <1>1, <1>2, <1>3, <1>5, <2>1, <2>2, AliveReturn
<1>6. CASE ~t.alive
  <2>1. Return(e, t, net[e]) /\ net[e] \in SUBSET net[e]
    BY <1>2, <1>6
  <2> QED
    BY <1>1, <1>2, <1>3, <1>6, <2>1, GoneReturn
<1> QED
  BY <1>5, <1>6

\* Delivery keeps the invariant.
LEMMA DeliverKeeps ==
    ASSUME Inv, NEW e \in Ends, NEW m \in net[e], NEW env, Deliver(e, m, env)
    PROVE  Inv'
<1> DEFINE t == tcb[e]
           p == tcb[Peer(e)]
           c == Here(t, p, written[e], Len(read[e]))
           u == AdjustClock(process(t, m, env))
           rest == net[e] \ {m}
<1>1. Ready(e, t, p, c)
  BY ReadyHere
<1>2. /\ CanDeliver(e, m) /\ UNCHANGED <<written, read>>
      /\ Return(e, IF t.alive THEN u ELSE t, rest)
  BY DEF Deliver, NotifyPacket
<1>3. faults' \in 0 .. MaxFaults
  BY FaultsCounted DEF Deliver
<1>4. u = AdjustClock(process(t, m, env)) /\ rest = net[e] \ {m} /\ rest \in SUBSET net[e]
      /\ t = tcb[e] /\ p = tcb[Peer(e)]
  OBVIOUS
<1> HIDE DEF t, p, c, u, rest
<1>5. CASE t.alive
  <2>1. Call(t, u, c) /\ (u.state = "CLOSED" \/ Greeted(m, t, u))
    BY <1>1, <1>2, <1>4, <1>5, ComesCalls
  <2>2. Return(e, u, rest)
    BY <1>2, <1>5
  <2>3. u \in Tcb /\ t \in Tcb
    BY <1>1, <2>1 DEF Call, Sound, Ready
  <2>4. GreetingOK(u, p, net[e])
    BY <1>4, <1>5, <2>1, <2>3, StillGreets
  <2>5. GreetingOK(u, p, rest)
    <3>1. SUFFICES ASSUME ~HandshakeFaults, u.rcv_nxt = 0, u.alive, u.state # "CLOSED"
                   PROVE  Heralded(p, rest)
      BY DEF GreetingOK
    <3>2. Heralded(p, net[e])
      BY <2>4, <3>1 DEF GreetingOK
    <3>3. t.rcv_nxt = 0
      <4>1. t.rcv_nxt <= u.rcv_nxt
        BY <2>1 DEF Call, Grows
      <4> QED
        BY <2>3, <3>1, <4>1, TcbType
    <3>4. ~m.ctl
      BY <2>1, <3>1, <3>3 DEF Greeted
    <3>5. Placed(rest)
      BY <1>4, <3>2 DEF Heralded, Placed
    <3>6. ASSUME p.snd_nxt > 0 PROVE Behind(rest)
      <4>1. PICK q \in net[e] : q.ctl /\ \A o \in net[e] : Late(o) => q.place < o.place
        BY <3>2, <3>6 DEF Heralded, Behind
      <4>2. q \in rest
        BY <1>4, <3>4, <4>1
      <4>3. \A o \in rest : Late(o) => q.place < o.place
        BY <1>4, <4>1
      <4> QED
        BY <4>1, <4>2, <4>3 DEF Behind
    <3> QED
      BY <3>5, <3>6 DEF Heralded
  <2> QED
    BY <1>1, <1>2, <1>3, <1>4, <2>1, <2>2, <2>5, PlainReturn
<1>6. CASE ~t.alive
  <2>1. Return(e, t, rest)
    BY <1>2, <1>6
  <2> QED
    BY <1>1, <1>2, <1>3, <1>4, <1>6, <2>1, GoneReturn
<1> QED
  BY <1>5, <1>6

\* Loss keeps the invariant.
LEMMA LoseKeeps ==
    ASSUME Inv, NEW e \in Ends, NEW m \in net[e], Lose(e, m)
    PROVE  Inv'
<1> DEFINE t == tcb[e]
           p == tcb[Peer(e)]
           rest == net[e] \ {m}
           N == Renumber(rest)
<1>1. /\ net' = [net EXCEPT ![e] = N] /\ UNCHANGED <<tcb, written, read>>
      /\ Rough
  BY DEF Lose, Commit
<1>2. faults' \in 0 .. MaxFaults
  BY FaultsCounted DEF Lose
<1>3. /\ tcb \in [Ends -> Tcb] /\ net \in [Ends -> SUBSET Packet]
      /\ t \in Tcb
  BY DEF Inv, TypeOK
<1>4. NetOK(net[e], p, t)
  BY DEF Inv, AllOK
<1>5. rest \in SUBSET net[e] /\ N = Renumber(rest) /\ t = tcb[e] /\ p = tcb[Peer(e)]
  OBVIOUS
<1> HIDE DEF t, p, rest, N
<1>6. NetOK(rest, p, t)
  <2>1. IsFiniteSet(rest)
    BY <1>4, <1>5, FS_Subset DEF NetOK
  <2> QED
    BY <1>4, <1>5, <2>1 DEF NetOK
<1>7. NetOK(N, p, t)
  <2>1. Grows(t, t)
    BY <1>3, TcbType DEF Grows, Edge
  <2> QED
    BY <1>3, <1>5, <1>6, <2>1, InNetKeeps
<1>8. GreetingOK(t, p, N)
  <2>1. SUFFICES ASSUME ~HandshakeFaults, t.rcv_nxt = 0 PROVE FALSE
    BY DEF GreetingOK
  <2> DEFINE x == Peer(e)
  <2>2. x \in Ends /\ tcb[Peer(x)].rcv_nxt = 0
    BY <1>5, <2>1, Pairs
  <2> HIDE DEF x
  <2> QED
    BY <1>1, <2>1, <2>2, NotYetRough
<1>9. net' \in [Ends -> SUBSET Packet]
  BY <1>1, <1>3, <1>7 DEF NetOK
<1>10. net'[e] = N /\ \A z \in Ends : z # e => net'[z] = net[z]
  BY <1>1, <1>3
<1>11. AllOK(tcb, net, written, read)'
  <2>1. ASSUME NEW z \in Ends
        PROVE  /\ EndOK(tcb[z], tcb[Peer(z)], written[z], Len(read[z]))
               /\ NetOK(net'[z], tcb[Peer(z)], tcb[z])
               /\ GreetingOK(tcb[z], tcb[Peer(z)], net'[z])
    <3>1. /\ EndOK(tcb[z], tcb[Peer(z)], written[z], Len(read[z]))
          /\ NetOK(net[z], tcb[Peer(z)], tcb[z])
          /\ GreetingOK(tcb[z], tcb[Peer(z)], net[z])
      BY DEF Inv, AllOK
    <3>2. CASE z = e
      BY <1>5, <1>7, <1>8, <1>10, <3>1, <3>2
    <3>3. CASE z # e
      BY <1>10, <3>1, <3>3
    <3> QED
      BY <3>2, <3>3
  <2> QED
    BY <1>1, <2>1 DEF AllOK
<1>12. TypeOK'
  BY <1>1, <1>2, <1>9 DEF Inv, TypeOK
<1> QED
  BY <1>11, <1>12 DEF Inv

LEMMA StutterKeeps ==
    ASSUME Inv, UNCHANGED vars
    PROVE  Inv'
<1>1. TypeOK'
  BY DEF Inv, TypeOK, vars
<1>2. AllOK(tcb, net, written, read)'
  BY DEF Inv, AllOK, vars
<1> QED
  BY <1>1, <1>2 DEF Inv

\* Every step keeps the invariant.
LEMMA NextKeeps ==
    ASSUME Inv, [Next]_vars
    PROVE  Inv'
<1>1. ASSUME NEW e \in Ends, Connect(e) PROVE Inv'
  BY <1>1, ConnectKeeps
<1>2. ASSUME NEW e \in Ends, Application(e) PROVE Inv'
  <2>1. ASSUME NEW n \in WriteSizes, NEW env \in Env, Send(e, n, env) PROVE Inv'
    BY <2>1, SendKeeps
  <2>2. ASSUME NEW n \in ReadSizes, NEW env \in Env, Recv(e, n, env) PROVE Inv'
    BY <2>2, RecvKeeps
  <2>3. ASSUME NEW force \in BOOLEAN, Close(e, force) PROVE Inv'
    BY <2>3, CloseKeeps
  <2> QED
    BY <1>2, <2>1, <2>2, <2>3 DEF Application
<1>3. ASSUME NEW e \in Ends, NEW mtu \in Mtus, NotifyMTU(e, mtu) PROVE Inv'
  BY <1>3, NotifyMTUKeeps
<1>4. ASSUME NEW e \in Ends, NEW timer \in {"rto", "probe", "ack"}, NotifyClock(e, timer)
      PROVE  Inv'
  BY <1>4, NotifyClockKeeps
<1>5. ASSUME NEW e \in Ends, NEW m \in net[e], NEW env \in Env, Deliver(e, m, env)
      PROVE  Inv'
  BY <1>5, DeliverKeeps
<1>6. ASSUME NEW e \in Ends, NEW m \in net[e], DeliverRepeatedly(e, m) PROVE Inv'
  BY <1>6, DeliverRepeatedlyKeeps
<1>7. ASSUME NEW e \in Ends, NEW m \in net[e], Lose(e, m) PROVE Inv'
  BY <1>7, LoseKeeps
<1>8. CASE UNCHANGED vars
  BY <1>8, StutterKeeps
<1>9. CASE Next
  BY <1>9, <1>1, <1>2, <1>3, <1>4, <1>5, <1>6, <1>7 DEF Next
<1> QED
  BY <1>8, <1>9

(***************************************************************************)
(* The theorems                                                            *)
(***************************************************************************)

LEMMA NewTyped == NewTcb \in Tcb
<1>1. Levels \in Seq(Nat \ {0}) /\ Levels # <<>>
  BY SizesAssumption
<1> DEFINE n == Len(Levels)
           last == Levels[n]
           first == Levels[1]
<1>2. n \in Nat /\ n # 0
  BY <1>1, EmptySeq
<1>3. n \in DOMAIN Levels /\ 1 \in DOMAIN Levels
  BY <1>1, <1>2
<1>4. last \in Nat \ {0} /\ first \in Nat \ {0}
  BY <1>1, <1>3
<1>5. RcvBuf \in Nat \ {0}
  BY SizesAssumption
<1> DEFINE double == 2 * last
<1>6. double \in Nat \ {0}
  <2> HIDE DEF last
  <2> QED
    BY <1>4
<1>7. <<>> \in Seq(Nat) /\ <<>> \in Seq(RSegment) /\ <<>> \in Seq(SSegment) /\ <<>> \in Seq(Packet)
  OBVIOUS
<1>8. NewTcb =
    [state |-> "LISTEN", shutdown |-> "NONE", alive |-> TRUE,
     readEnable |-> TRUE, writeEnable |-> FALSE,
     rcv_nxt |-> 0, rcv_wnd |-> RcvBuf, rbuf |-> <<>>, ahead |-> <<>>,
     rlist |-> <<>>, slist |-> <<>>, sbuf |-> <<>>,
     snd_una |-> 0, snd_nxt |-> 0, snd_wnd |-> 1, swnd_unit |-> 1,
     mss |-> last, msslevel |-> 1, mtu_advise |-> first,
     rto |-> FALSE, t_ack |-> FALSE, told |-> 0,
     cwnd |-> double, ssthresh |-> RcvBuf, dup_acks |-> 0,
     recover |-> 0, out |-> <<>>]
  BY DEF NewTcb
<1> HIDE DEF last, first, double
<1> QED
  BY <1>3, <1>4, <1>5, <1>6, <1>7, <1>8 DEF Tcb, TcpState

\* What holds of an object that is new.
IsNew(t) ==
    /\ t \in Tcb
    /\ t.state = "LISTEN" /\ t.shutdown = "NONE" /\ t.alive /\ ~t.writeEnable
    /\ t.rcv_nxt = 0 /\ t.rcv_wnd = RcvBuf /\ t.rbuf = <<>> /\ t.rlist = <<>>
    /\ t.slist = <<>> /\ t.sbuf = <<>> /\ t.snd_una = 0 /\ t.snd_nxt = 0
    /\ t.snd_wnd = 1 /\ t.swnd_unit = 1 /\ t.rto = FALSE /\ t.recover = 0
    /\ t.out = <<>>

LEMMA NewIsFresh == IsNew(NewTcb)
  BY NewTyped DEF IsNew, NewTcb

LEMMA FreshIsOK ==
    ASSUME NEW t, IsNew(t), NEW p, IsNew(p)
    PROVE  EndOK(t, p, 0, 0) /\ NetOK({}, p, t) /\ GreetingOK(t, p, {})
<1>1. RcvBuf \in Nat /\ RcvBuf >= 1 /\ SndBuf \in Nat
  <2>1. RcvBuf \in Nat \ {0} /\ SndBuf \in Nat \ {0}
    BY SizesAssumption
  <2> QED
    BY <2>1
<1>2. Len(<<>>) = 0 /\ DOMAIN <<>> = {}
  OBVIOUS
<1>3. SenderOK(t)
  <2>1. Covers(t.slist, t.snd_una, t.snd_nxt, t.snd_una + Len(t.sbuf))
    BY <1>2 DEF Covers, IsNew
  <2>2. SegmentsOK(t.slist)
    BY <1>2 DEF SegmentsOK, IsNew
  <2> QED
    BY <1>1, <1>2, <2>1, <2>2 DEF SenderOK, IsNew
<1>4. Edge(p) = RcvBuf /\ Edge(t) = RcvBuf
  BY <1>1 DEF Edge, IsNew
<1>5. WindowOK(t, Edge(p), p.rcv_nxt)
  BY <1>1, <1>4 DEF WindowOK, IsNew
<1>6. ReceiverOK(t, Cuts(p), 0)
  <2>1. 0 \in Cuts(p)
    BY DEF Cuts, CutsOf, IsNew
  <2>2. ReceivedOK(t)
    BY <1>2 DEF ReceivedOK, StoredOK, IsNew
  <2> QED
    BY <1>1, <1>2, <1>4, <2>1, <2>2 DEF ReceiverOK, IsNew
<1>7. WriteWaits(t) /\ WrittenOK(t, 0) /\ GoneOK(t)
  BY <1>2 DEF WriteWaits, WrittenOK, GoneOK, IsNew
<1>8. NetOK({}, p, t)
  BY FS_EmptySet DEF NetOK
<1>9. GreetingOK(t, p, {})
  BY DEF GreetingOK, Heralded, Placed, IsNew
<1> QED
  BY <1>3, <1>5, <1>6, <1>7, <1>8, <1>9 DEF EndOK, IsNew

\* Two new objects satisfy the invariant.
LEMMA InitHolds == Init => Inv
<1> SUFFICES ASSUME Init PROVE Inv
  OBVIOUS
<1>1. \A e \in Ends : /\ tcb[e] = NewTcb /\ net[e] = {}
                      /\ written[e] = 0 /\ read[e] = <<>>
  BY DEF Init
<1>2. \A e \in Ends : Peer(e) \in Ends
  BY Pairs
<1> DEFINE t == NewTcb
<1>3. IsNew(t)
  BY NewIsFresh
<1> HIDE DEF t
<1>4. EndOK(t, t, 0, 0) /\ NetOK({}, t, t) /\ GreetingOK(t, t, {})
  BY <1>3, FreshIsOK
<1>5. Len(<<>>) = 0
  OBVIOUS
<1>6. AllOK(tcb, net, written, read)
  BY <1>1, <1>2, <1>4, <1>5 DEF AllOK, t
<1>7. MaxBytes \in Nat /\ MaxFaults \in Nat /\ SndBuf \in Nat /\ RcvBuf \in Nat
  BY SizesAssumption
<1>8. tcb \in [Ends -> Tcb]
  BY NewTyped DEF Init
<1>9. \A e \in Ends : Len(tcb[e].sbuf) <= SndBuf /\ Len(tcb[e].rbuf) <= RcvBuf
  <2>1. t.sbuf = <<>> /\ t.rbuf = <<>>
    BY <1>3 DEF IsNew
  <2> QED
    BY <1>1, <1>5, <1>7, <2>1 DEF t
<1>10. /\ net \in [Ends -> SUBSET Packet] /\ written \in [Ends -> 0 .. MaxBytes]
       /\ read \in [Ends -> Seq(Nat)] /\ faults \in 0 .. MaxFaults
  BY <1>7 DEF Init
<1> QED
  BY <1>6, <1>8, <1>9, <1>10 DEF Inv, TypeOK

\* The inductive invariant holds in every state.
THEOREM InvHolds == Spec => []Inv
<1>1. Init => Inv
  BY InitHolds
<1>2. Inv /\ [Next]_vars => Inv'
  BY NextKeeps
<1> QED
  BY <1>1, <1>2, PTL DEF Spec

\* In every reachable state the fields of both objects, the packets and the two
\* applications have their types: no counter goes below zero.
THEOREM TypesHold == Spec => []TypeOK
<1>1. Inv => TypeOK
  BY DEF Inv
<1> QED
  BY <1>1, InvHolds, PTL

\* In every reachable state the send list of each end lies, without gap or
\* overlap, over exactly the send buffer, what was sent before what was not:
\* splitting, queueing and freeing (pseudotcp.cc:519, :758, :1016, :1121) agree.
THEOREM SegmentsCover == Spec => []SegmentsCoverBuffer
<1>1. Inv => SegmentsCoverBuffer
  BY DEF Inv, AllOK, EndOK, SenderOK, SegmentsCoverBuffer
<1> QED
  BY <1>1, InvHolds, PTL

\* In every reachable state the retransmission timer runs exactly while something
\* is not acknowledged, through new acknowledgements, retransmissions, probes and
\* the closing of the connection (pseudotcp.cc:754, :1033, :1137).
THEOREM UnackedTimed == Spec => []UnackedIsTimed
<1>1. Inv => UnackedIsTimed
  BY DEF Inv, AllOK, EndOK, SenderOK, UnackedIsTimed
<1> QED
  BY <1>1, InvHolds, PTL

\* In every reachable state nothing was sent beyond the edge of the peer, and the
\* window of the peer fits its buffer, however late the news of it arrived and
\* whatever unit each end counts it in (pseudotcp.cc:545, :749, :801, :1057).
THEOREM WindowKept == Spec => []WindowIsKept
<1>1. Inv => WindowIsKept
  <2>1. SUFFICES ASSUME Inv, NEW e \in Ends, NEW r, r = tcb[Peer(e)]
                 PROVE  r.rcv_wnd <= Available(r) /\ tcb[e].snd_nxt <= r.rcv_nxt + r.rcv_wnd
    BY DEF WindowIsKept
  <2>2. tcb[e].snd_nxt <= r.rcv_nxt + r.rcv_wnd
    BY <2>1 DEF Inv, AllOK, EndOK, WindowOK, Edge
  <2>3. r.rcv_wnd <= Available(r)
    BY <2>1, Pairs DEF Inv, AllOK, EndOK, ReceiverOK, Available
  <2> QED
    BY <2>2, <2>3
<1> QED
  BY <1>1, InvHolds, PTL

\* In every reachable state an end that is not closed waits for OnTcpReadable only
\* while it has nothing to read, and for OnTcpWriteable only while its send buffer
\* is not below the refill size (pseudotcp.cc:453, :485, :847, :960).
THEOREM WaitingRight == Spec => []WaitingIsRight
<1>1. Inv => WaitingIsRight
  BY DEF Inv, AllOK, EndOK, ReceiverOK, WriteWaits, WaitingIsRight, Open
<1> QED
  BY <1>1, InvHolds, PTL

\* What a receiver has is what its peer has sent.
LEMMA NotAhead ==
    ASSUME Inv, NEW e \in Ends, NEW t, t = tcb[e], NEW p, p = tcb[Peer(e)]
    PROVE  /\ t \in Tcb /\ p \in Tcb
           /\ p.snd_una <= t.rcv_nxt /\ t.rcv_nxt <= p.snd_nxt
           /\ p.snd_nxt <= p.snd_una + Len(p.sbuf)
<1>1. Peer(e) \in Ends /\ Peer(Peer(e)) = e
  BY Pairs
<1>2. EndOK(t, p, written[e], Len(read[e]))
      /\ EndOK(p, t, written[Peer(e)], Len(read[Peer(e)]))
  BY <1>1 DEF Inv, AllOK
<1>3. t \in Tcb /\ p \in Tcb /\ SenderOK(p) /\ p.snd_una <= t.rcv_nxt
      /\ t.rcv_nxt \in Cuts(p)
  BY <1>2 DEF EndOK, WindowOK, ReceiverOK
<1>4. t.rcv_nxt <= p.snd_nxt
  <2> DEFINE x == t.rcv_nxt
  <2>1. x \in Cuts(p)
    BY <1>3
  <2> HIDE DEF x
  <2>2. x <= p.snd_nxt
    BY <1>3, <2>1, CutsWithin
  <2> QED
    BY <2>2 DEF x
<1> QED
  BY <1>3, <1>4 DEF SenderOK, Covers

\* When a gracefully closed end that was established is no longer called, all
\* that its application wrote has reached its peer (pseudotcp.cc:628, pseudotcpchannel.cc:531).
THEOREM GracefulFlushes == Spec => []GracefulCloseFlushes
<1>1. Inv => GracefulCloseFlushes
  <2> SUFFICES ASSUME Inv, NEW e \in Ends, NEW p, p = tcb[Peer(e)], NEW t, t = tcb[e],
                      ~t.alive, t.shutdown = "GRACEFUL", t.state = "ESTABLISHED",
                      p.shutdown = "NONE"
               PROVE  Len(read[Peer(e)]) + Len(p.rbuf) = written[e]
    BY DEF GracefulCloseFlushes
  <2> DEFINE x == Peer(e)
             w == written[e]
             g == Len(read[x])
  <2>1. x \in Ends /\ Peer(x) = e
    BY Pairs
  <2>2. EndOK(t, p, w, Len(read[e])) /\ EndOK(p, t, written[x], g)
    BY <2>1 DEF Inv, AllOK
  <2> HIDE DEF x
  <2>3. /\ t.snd_una <= p.rcv_nxt /\ p.rcv_nxt <= t.snd_nxt
        /\ t.snd_nxt <= t.snd_una + Len(t.sbuf) /\ t \in Tcb /\ p \in Tcb
    <3>1. t = tcb[Peer(x)] /\ p = tcb[x]
      BY <2>1 DEF x
    <3> QED
      BY <2>1, <3>1, NotAhead
  <2>4. t.sbuf = <<>>
    BY <2>2 DEF EndOK, GoneOK
  <2>5. Len(t.sbuf) = 0
    BY <2>4
  <2>6. t.snd_una + Len(t.sbuf) = w + 1 /\ t.snd_una + Len(t.sbuf) > 0
    BY <2>2 DEF EndOK, WrittenOK
  <2>7. t.snd_una \in Nat /\ t.snd_nxt \in Nat /\ p.rcv_nxt \in Nat
    BY <2>3, TcbType
  <2>8. w \in Nat
    <3>1. w \in 0 .. MaxBytes /\ MaxBytes \in Nat
      BY SizesAssumption DEF Inv, TypeOK
    <3> QED
      BY <3>1
  <2>9. p.rcv_nxt = w + 1
    BY <2>3, <2>5, <2>6, <2>7, <2>8
  <2>10. g + Len(p.rbuf) = IF p.rcv_nxt = 0 THEN 0 ELSE p.rcv_nxt - 1
    BY <2>2 DEF EndOK, ReceiverOK
  <2> DEFINE n == g + Len(p.rbuf)
             y == p.rcv_nxt
  <2>11. n = (IF y = 0 THEN 0 ELSE y - 1) /\ y = w + 1
    BY <2>9, <2>10
  <2> HIDE DEF n, y, w, g
  <2>12. n = w
    BY <2>8, <2>11
  <2> QED
    BY <2>12 DEF n, w, g, x
<1> QED
  BY <1>1, InvHolds, PTL

\* Send writes what there is room for.
LEMMA TakenStep ==
    ASSUME Inv, NEW e \in Ends, NEW n \in WriteSizes, NEW env, Send(e, n, env)
    PROVE  Stream!Write(e, Lower(n, SndBuf - Len(tcb[e].sbuf)))
  BY DEF Send, Stream!Write

\* Send is a step of the streams, or none.
LEMMA TakenSome ==
    ASSUME Inv, NEW e \in Ends, NEW n \in WriteSizes, NEW env, Send(e, n, env)
    PROVE  [Stream!Next]_<<written, read>>
<1> DEFINE t == tcb[e]
           room == SndBuf - Len(t.sbuf)
           k == Lower(n, room)
           w == written[e]
<1>1. /\ w + n <= MaxBytes /\ written' = [written EXCEPT ![e] = w + k] /\ UNCHANGED read
  BY DEF Send
<1>2. n \in Nat \ {0} /\ SndBuf \in Nat /\ MaxBytes \in Nat
  BY SizesAssumption
<1>3. w \in Nat /\ written \in [Ends -> 0 .. MaxBytes]
  BY <1>2 DEF Inv, TypeOK
<1>4. room \in Nat
  <2>1. Len(t.sbuf) <= SndBuf /\ t \in Tcb
    BY DEF Inv, TypeOK
  <2>2. Len(t.sbuf) \in Nat
    BY <2>1, TcbType
  <2> QED
    BY <1>2, <2>1, <2>2
<1>5. Stream!Write(e, k)
  BY TakenStep
<1> HIDE DEF room
<1>6. k \in Nat /\ k <= n
  BY <1>2, <1>4, TookFacts
<1> HIDE DEF k
<1>7. CASE k = 0
  <2>1. written' = written
    BY <1>1, <1>3, <1>7
  <2> QED
    BY <1>1, <2>1
<1>8. CASE k # 0
  <2>1. k \in 1 .. MaxBytes
    BY <1>1, <1>2, <1>3, <1>6, <1>8
  <2>2. Stream!Next
    BY <1>5, <2>1 DEF Stream!Next, Stream!Bytes
  <2> QED
    BY <2>2
<1> QED
  BY <1>7, <1>8

\* What is read is what comes next in the stream of the peer.
LEMMA GivenNext ==
    ASSUME NEW g \in Nat, NEW rbuf \in Seq(Nat), NEW nxt \in Nat, NEW k \in Nat, k > 0,
           k <= Len(rbuf), g + Len(rbuf) = IF nxt = 0 THEN 0 ELSE nxt - 1,
           \A i \in DOMAIN rbuf : rbuf[i] = (nxt - Len(rbuf)) + (i - 1)
    PROVE  /\ SubSeq(rbuf, 1, k) = [i \in 1 .. k |-> g + i]
           /\ g + k + 1 <= nxt
<1> DEFINE l == Len(rbuf)
<1>1. l \in Nat /\ g + l = nxt - 1 /\ l > 0
  <2>1. l \in Nat /\ l > 0
    OBVIOUS
  <2>2. nxt # 0
    BY <2>1
  <2> QED
    BY <2>1, <2>2
<1>2. DOMAIN rbuf = 1 .. l
  OBVIOUS
<1>3. SubSeq(rbuf, 1, k) = [i \in 1 .. k |-> rbuf[i]]
  OBVIOUS
<1> HIDE DEF l
<1>4. ASSUME NEW i \in 1 .. k PROVE rbuf[i] = g + i
  <2>1. i \in DOMAIN rbuf
    BY <1>1, <1>2 DEF l
  <2>2. rbuf[i] = (nxt - l) + (i - 1)
    BY <2>1 DEF l
  <2>3. i \in Nat
    OBVIOUS
  <2> DEFINE y == rbuf[i]
  <2>4. y = (nxt - l) + (i - 1)
    BY <2>2
  <2> HIDE DEF y
  <2>5. y = g + i
    BY <1>1, <2>3, <2>4
  <2> QED
    BY <2>5 DEF y
<1>5. g + k + 1 <= nxt
  BY <1>1 DEF l
<1> QED
  BY <1>3, <1>4, <1>5

\* Recv is a step of the streams: what it reads is what the peer wrote next.
LEMMA GivenSome ==
    ASSUME Inv, ~HandshakeFaults, NEW e \in Ends, NEW n \in ReadSizes, NEW env,
           Recv(e, n, env)
    PROVE  [Stream!Next]_<<written, read>>
<1> DEFINE t == tcb[e]
           p == tcb[Peer(e)]
           k == Lower(n, Len(t.rbuf))
           r == read[e]
           g == Len(r)
           rbuf == t.rbuf
           got == SubSeq(rbuf, 1, k)
           next == [i \in 1 .. k |-> g + i]
<1>1. /\ t.shutdown = "NONE" /\ read' = [read EXCEPT ![e] = r \o got] /\ UNCHANGED written
  BY DEF Recv
<1>2. n \in Nat \ {0} /\ MaxBytes \in Nat
  BY SizesAssumption
<1>3. EndOK(t, p, written[e], g)
  BY DEF Inv, AllOK
<1>4. /\ t \in Tcb /\ p \in Tcb /\ p.snd_una <= t.rcv_nxt /\ t.rcv_nxt <= p.snd_nxt
      /\ p.snd_nxt <= p.snd_una + Len(p.sbuf)
  BY NotAhead
<1>5. rbuf \in Seq(Nat) /\ Len(rbuf) \in Nat /\ t.rcv_nxt \in Nat
  BY <1>4, TcbType
<1>6. k \in Nat /\ k <= Len(rbuf) /\ (k = 0 => Len(rbuf) = 0)
  BY <1>2, <1>5, TookFacts, ZenonT(40)
<1>7. g \in Nat /\ r \in Seq(Nat) /\ read \in [Ends -> Seq(Nat)]
  BY DEF Inv, TypeOK
<1>8. /\ g + Len(rbuf) = IF t.rcv_nxt = 0 THEN 0 ELSE t.rcv_nxt - 1
      /\ \A i \in DOMAIN rbuf : rbuf[i] = (t.rcv_nxt - Len(rbuf)) + (i - 1)
  BY <1>1, <1>3 DEF EndOK, ReceiverOK, ReceivedOK
<1> DEFINE w == written[Peer(e)]
           nxt == t.rcv_nxt
<1>9. WrittenOK(p, w) /\ w \in 0 .. MaxBytes /\ Peer(e) \in Ends
  BY Pairs DEF Inv, AllOK, EndOK, TypeOK
<1>10. CASE k = 0
  <2>1. r \o got = r
    BY <1>5, <1>7, <1>10
  <2>2. read' = read
    BY <1>1, <1>7, <2>1
  <2> QED
    BY <1>1, <2>2
<1>11. CASE k # 0
  <2>1. k > 0
    BY <1>6, <1>11
  <2> HIDE DEF k, g, rbuf, nxt, w
  <2>2. nxt \in Nat /\ g + Len(rbuf) = (IF nxt = 0 THEN 0 ELSE nxt - 1)
        /\ \A i \in DOMAIN rbuf : rbuf[i] = (nxt - Len(rbuf)) + (i - 1)
    BY <1>5, <1>8 DEF nxt
  <2>3. got = next /\ g + k + 1 <= nxt
    BY <1>5, <1>6, <1>7, <2>1, <2>2, GivenNext
  <2>4. nxt <= w + 1
    <3> DEFINE una == p.snd_una
               top == p.snd_nxt
               len == Len(p.sbuf)
    <3>1. una \in Nat /\ top \in Nat /\ len \in Nat
      BY <1>4, TcbType
    <3>2. nxt <= top /\ top <= una + len
      BY <1>4 DEF nxt
    <3>3. IF una + len = 0 THEN w = 0 ELSE una + len = w + 1
      BY <1>9 DEF WrittenOK
    <3>4. w \in Nat
      BY <1>2, <1>9
    <3> HIDE DEF una, top, len
    <3> QED
      BY <2>2, <3>1, <3>2, <3>3, <3>4
  <2>5. w \in Nat /\ w <= MaxBytes
    BY <1>2, <1>9
  <2>6. g + k <= w /\ k <= MaxBytes
    BY <1>2, <1>6, <1>7, <2>2, <2>3, <2>4, <2>5
  <2>7. k \in 1 .. MaxBytes
    BY <1>2, <1>6, <2>1, <2>6
  <2>8. read' = [read EXCEPT ![e] = r \o next]
    BY <1>1, <2>3
  <2>9. Stream!Read(e, k)
    BY <1>1, <2>6, <2>8 DEF Stream!Read, g, w
  <2>10. Stream!Next
    BY <2>7, <2>9 DEF Stream!Next, Stream!Bytes
  <2> QED
    BY <2>10
<1> QED
  BY <1>10, <1>11

\* Every step is a step of the streams, or none.
LEMMA StreamStep ==
    ASSUME Inv, ~HandshakeFaults, [Next]_vars
    PROVE  [Stream!Next]_<<written, read>>
<1>1. ASSUME NEW e \in Ends, Application(e) PROVE [Stream!Next]_<<written, read>>
  <2>1. ASSUME NEW n \in WriteSizes, NEW env \in Env, Send(e, n, env)
        PROVE  [Stream!Next]_<<written, read>>
    BY <2>1, TakenSome
  <2>2. ASSUME NEW n \in ReadSizes, NEW env \in Env, Recv(e, n, env)
        PROVE  [Stream!Next]_<<written, read>>
    BY <2>2, GivenSome
  <2>3. ASSUME NEW force \in BOOLEAN, Close(e, force) PROVE UNCHANGED <<written, read>>
    BY <2>3 DEF Close
  <2> QED
    BY <1>1, <2>1, <2>2, <2>3 DEF Application
<1>2. ASSUME NEW e \in Ends, ~Application(e),
             \/ Connect(e)
             \/ \E mtu \in Mtus : NotifyMTU(e, mtu)
             \/ \E timer \in {"rto", "probe", "ack"} : NotifyClock(e, timer)
             \/ \E m \in net[e] : \/ \E env \in Env : Deliver(e, m, env)
                                  \/ DeliverRepeatedly(e, m)
                                  \/ Lose(e, m)
      PROVE  UNCHANGED <<written, read>>
  BY <1>2 DEF Connect, NotifyMTU, NotifyClock, Deliver, DeliverRepeatedly, NotifyPacket, Lose
<1>3. CASE UNCHANGED vars
  BY <1>3 DEF vars
<1>4. CASE Next
  BY <1>1, <1>2, <1>4 DEF Next
<1> QED
  BY <1>3, <1>4

\* If the handshake is spared faults, each application reads exactly the bytes
\* the other wrote, once each and in order: the two objects and the network
\* implement the byte streams of ByteStream.tla.  With faults in the handshake
\* they do not, which the run of HandshakeFaults shows.
THEOREM StreamsKept == ~HandshakeFaults => (Spec => ImplementsByteStream)
<1> SUFFICES ASSUME ~HandshakeFaults PROVE Spec => ImplementsByteStream
  OBVIOUS
<1>1. Init => Stream!Init
  BY DEF Init, Stream!Init
<1>2. Inv /\ [Next]_vars => [Stream!Next]_<<written, read>>
  BY StreamStep
<1> QED
  BY <1>1, <1>2, InvHolds, PTL DEF Spec, ImplementsByteStream, Stream!Spec

=============================================================================
