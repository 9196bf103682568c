-------------------------- MODULE TransportProofs --------------------------
(***************************************************************************)
(* Invariants of Transport proved for every finite set of contents, every  *)
(* use that they make of the components, and any number of offers.         *)
(***************************************************************************)
EXTENDS Transport, QueueProofs, FiniteSetTheorems

-----------------------------------------------------------------------------
(* Fold.                                                                   *)

After(x, f, g, T) ==
    IF T = {} THEN x ELSE LET c == CHOOSE c \in T : TRUE IN f[<<g[T \ {c}], c>>]

\* The recursive function of Fold.
IsFold(x, f, S, g) == g = [T \in SUBSET S |-> After(x, f, g, T)]

\* The recursive function of Fold exists for every finite set.
LEMMA FoldExists ==
    ASSUME NEW x, NEW f, NEW S, IsFiniteSet(S)
    PROVE  \E g : IsFold(x, f, S, g)
<1> DEFINE Sub(n) == {T \in SUBSET S : Cardinality(T) <= n}
           Ok(n) == \E g : g = [T \in Sub(n) |-> After(x, f, g, T)]
           N == {n \in Nat : Ok(n)}
<1>0. \A T \in SUBSET S : IsFiniteSet(T) /\ Cardinality(T) \in Nat
                          /\ Cardinality(T) <= Cardinality(S)
                          /\ (Cardinality(T) = 0 => T = {})
  BY FS_Subset, FS_CardinalityType, FS_EmptySet
<1>1. 0 \in N
  <2> DEFINE g == [T \in Sub(0) |-> x]
  <2>1. \A T \in Sub(0) : T = {}
    BY <1>0
  <2>2. g = [T \in Sub(0) |-> After(x, f, g, T)]
    BY <2>1 DEF After
  <2> QED
    BY <2>2
<1>2. ASSUME NEW n \in N PROVE n + 1 \in N
  <2>1. PICK g : g = [T \in Sub(n) |-> After(x, f, g, T)]
    BY <1>2
  <2> DEFINE h == [T \in Sub(n + 1) |-> After(x, f, g, T)]
  <2>2. ASSUME NEW T \in Sub(n + 1), T # {}, NEW c \in T
        PROVE  T \ {c} \in Sub(n)
    <3>1. Cardinality(T \ {c}) = Cardinality(T) - 1
      BY <1>0, <2>2, FS_RemoveElement
    <3> QED
      BY <1>0, <2>2, <3>1
  <2>3. ASSUME NEW T \in Sub(n) PROVE T \in Sub(n + 1) /\ h[T] = g[T]
    <3>1. T \in Sub(n + 1)
      BY <1>0
    <3>2. g[T] = After(x, f, g, T)
      BY <2>1
    <3> QED
      BY <3>1, <3>2
  <2>4. ASSUME NEW T \in Sub(n + 1) PROVE After(x, f, g, T) = After(x, f, h, T)
    <3>1. CASE T = {}
      BY <3>1 DEF After
    <3>2. CASE T # {}
      <4> DEFINE c == CHOOSE c \in T : TRUE
      <4>1. c \in T
        BY <3>2
      <4>2. h[T \ {c}] = g[T \ {c}]
        BY <2>2, <2>3, <3>2, <4>1
      <4> QED
        BY <3>2, <4>2 DEF After
    <3> QED
      BY <3>1, <3>2
  <2>5. h = [T \in Sub(n + 1) |-> After(x, f, h, T)]
    BY <2>4
  <2> HIDE DEF h
  <2>6. Ok(n + 1)
    BY <2>5
  <2> HIDE DEF Ok
  <2> QED
    BY <2>6
<1>3. N = Nat
  <2> HIDE DEF N
  <2>1. N \in SUBSET Nat
    BY DEF N
  <2> QED
    BY <1>1, <1>2, <2>1, Induction
<1>4. Ok(Cardinality(S))
  BY <1>0, <1>3
<1>5. Sub(Cardinality(S)) = SUBSET S
  BY <1>0
<1> QED
  BY <1>4, <1>5 DEF IsFold

\* The function that Fold chooses is the recursive one.
LEMMA FoldUnfolds ==
    ASSUME NEW x, NEW f, NEW S, IsFiniteSet(S), NEW g,
           g = CHOOSE h : h = [T \in SUBSET S |-> After(x, f, h, T)]
    PROVE  g = [T \in SUBSET S |-> After(x, f, g, T)]
<1>1. \E h : IsFold(x, f, S, h)
  BY FoldExists
<1>2. IsFold(x, f, S, CHOOSE h : IsFold(x, f, S, h))
  BY <1>1, Zenon
<1>3. g = CHOOSE h : IsFold(x, f, S, h)
  BY Zenon DEF IsFold
<1> QED
  BY <1>2, <1>3 DEF IsFold

\* What holds at first, and is preserved by each step, holds of the result: P
\* gives for each subset what holds when it is done.
LEMMA FoldIn ==
    ASSUME NEW x, NEW f, NEW S, IsFiniteSet(S), NEW P, x \in P[{}],
           \A T \in SUBSET S : \A c \in S \ T : \A y \in P[T] :
               f[<<y, c>>] \in P[T \cup {c}]
    PROVE  Fold(x, S, f) \in P[S]
<1> DEFINE g == CHOOSE h : h = [T \in SUBSET S |-> After(x, f, h, T)]
<1>1. g = [T \in SUBSET S |-> After(x, f, g, T)]
  BY FoldUnfolds
<1>2. Fold(x, S, f) = g[S]
  BY Zenon DEF Fold, After
<1> HIDE DEF g
<1> DEFINE N == {n \in Nat : \A T \in SUBSET S : Cardinality(T) = n => g[T] \in P[T]}
<1>3. \A T \in SUBSET S : IsFiniteSet(T) /\ Cardinality(T) \in Nat
                          /\ (Cardinality(T) = 0 => T = {})
  BY FS_Subset, FS_CardinalityType, FS_EmptySet
<1>4. 0 \in N
  BY <1>1, <1>3 DEF After
<1>5. ASSUME NEW n \in N PROVE n + 1 \in N
  <2> SUFFICES ASSUME NEW T \in SUBSET S, Cardinality(T) = n + 1
               PROVE  g[T] \in P[T]
    OBVIOUS
  <2>0. n \in Nat
    OBVIOUS
  <2>1. T # {}
    <3>1. Cardinality(T) # 0
      <4> HIDE DEF N
      <4> QED
        BY <2>0
    <3> QED
      BY <3>1, FS_EmptySet
  <2> DEFINE c == CHOOSE c \in T : TRUE
  <2>2. c \in T
    BY <2>1
  <2>3. g[T] = f[<<g[T \ {c}], c>>]
    BY <1>1, <2>1 DEF After
  <2> HIDE DEF c
  <2>4. Cardinality(T \ {c}) = n
    <3> HIDE DEF N
    <3> QED
      BY <1>3, <2>0, <2>2, FS_RemoveElement
  <2>5. T \ {c} \in SUBSET S /\ c \in S \ (T \ {c}) /\ (T \ {c}) \cup {c} = T
    BY <2>2
  <2>6. g[T \ {c}] \in P[T \ {c}]
    BY <2>4, <2>5
  <2>7. f[<<g[T \ {c}], c>>] \in P[(T \ {c}) \cup {c}]
    BY <2>5, <2>6
  <2> QED
    BY <2>3, <2>5, <2>7
<1>6. N = Nat
  <2> HIDE DEF N
  <2>1. N \in SUBSET Nat
    BY DEF N
  <2> QED
    BY <1>4, <1>5, <2>1, Induction
<1> QED
  BY <1>2, <1>3, <1>6

-----------------------------------------------------------------------------
(* What the inductive invariant says of a state of the session.            *)

Chan(x, t, c) == x.tr[t].chan[c]
Queued(x, m) == m \in Elements(x.sq)
Posted(x, m) == m \in Elements(x.wq)

Request(t, c) == [type |-> "request", t |-> t, c |-> c]
Write(t) == [type |-> "write", t |-> t]
Ready(t) == [type |-> "signaling", t |-> t]
Update(n, c) == [type |-> "update", n |-> n, c |-> c]

\* A channel without references is none.
Deleted(x) ==
    \A t \in Transports, c \in Component :
        Chan(x, t, c).ref = 0 => Chan(x, t, c) = NoChannel

\* ChannelsGather, but for the channels of E that are to be allocated next.
Gathers(x, E) ==
    \A t \in Transports, c \in Component :
        /\ Has(x, t, c) /\ x.tr[t].connect /\ <<t, c>> \notin E =>
              Chan(x, t, c).gather # "none" \/ Chan(x, t, c).waiting
        /\ Chan(x, t, c).waiting =>
              Queued(x, Request(t, c)) \/ Posted(x, Ready(t))

AllWritable(x, t) ==
    /\ \E c \in Component : Has(x, t, c)
    /\ \A c \in Component : Has(x, t, c) => Chan(x, t, c).writable

\* WritableIsNoticed
Notices(x) ==
    \A t \in Transports :
        AllWritable(x, t) => x.tr[t].writable = "all" \/ Queued(x, Write(t))

Live(x, E) == x \in SessionState /\ Deleted(x) /\ Gathers(x, E) /\ Notices(x)

\* From x to y nothing changes that a proxy sees.
Quiet(x, y) ==
    /\ y \in SessionState /\ y.tp = x.tp
    /\ \A t \in Transports : y.tr[t].writable = x.tr[t].writable
    /\ \A t \in Transports, c \in Component :
          /\ Chan(y, t, c).ref = Chan(x, t, c).ref
          /\ Chan(y, t, c).writable = Chan(x, t, c).writable
    /\ Elements(x.sq) \subseteq Elements(y.sq)
    /\ Elements(x.wq) \subseteq Elements(y.wq)

\* The same, but for what E says of connect.
Same(x, y) == Quiet(x, y) /\ \A t \in Transports : y.tr[t].connect = x.tr[t].connect

-----------------------------------------------------------------------------
(* The operators that change one channel or one queue.                     *)

\* The constants that records of the state are made from have their types.
LEMMA Types ==
    /\ NoChannel \in Channel /\ NewTransport \in TransportState
    /\ NoProxy \in Proxy
    /\ \A t \in Transports, c \in Component :
          /\ Request(t, c) \in SignalingMessage /\ Write(t) \in SignalingMessage
          /\ [type |-> "allocated", t |-> t] \in SignalingMessage
          /\ Ready(t) \in WorkerMessage
    /\ \A n \in Content, c \in Component : Update(n, c) \in WorkerMessage
<1>1. NoChannel \in Channel
  BY DEF NoChannel, Channel
<1>2. NewTransport \in TransportState
  BY <1>1 DEF NewTransport, TransportState
<1>3. NoProxy \in Proxy
  BY DEF NoProxy, Proxy, None
<1>4. \A t \in Transports, c \in Component :
          /\ Request(t, c) \in SignalingMessage /\ Write(t) \in SignalingMessage
          /\ [type |-> "allocated", t |-> t] \in SignalingMessage
          /\ Ready(t) \in WorkerMessage
  BY DEF Request, Write, Ready, SignalingMessage, WorkerMessage
<1>5. \A n \in Content, c \in Component : Update(n, c) \in WorkerMessage
  BY DEF Update, WorkerMessage
<1> QED
  BY <1>1, <1>2, <1>3, <1>4, <1>5

\* Only the channel c of the transport t changes, to k.
Put(x, t, c, k) == [x EXCEPT !.tr[t].chan[c] = k]

Puts(x, y, t, c, k) ==
    /\ y \in SessionState /\ y.tp = x.tp /\ y.sq = x.sq /\ y.wq = x.wq
    /\ \A u \in Transports : /\ y.tr[u].connect = x.tr[u].connect
                              /\ y.tr[u].writable = x.tr[u].writable
    /\ Chan(y, t, c) = k
    /\ \A u \in Transports, d \in Component :
          u # t \/ d # c => Chan(y, u, d) = Chan(x, u, d)

\* Put changes one channel and nothing else.
LEMMA PutFacts ==
    ASSUME NEW x \in SessionState, NEW t \in Transports, NEW c \in Component,
           NEW k \in Channel, NEW y, y = Put(x, t, c, k)
    PROVE  Puts(x, y, t, c, k)
<1> DEFINE r == [x.tr[t] EXCEPT !.chan[c] = k]
<1>1. x.tr \in [Transports -> TransportState] /\ x.tr[t] \in TransportState
  BY DEF SessionState
<1>2. /\ r \in TransportState /\ r.connect = x.tr[t].connect
      /\ r.writable = x.tr[t].writable
      /\ r.chan = [x.tr[t].chan EXCEPT ![c] = k]
      /\ x.tr[t].chan \in [Component -> Channel]
  BY <1>1 DEF TransportState
<1>3. y = [x EXCEPT !.tr[t] = r]
  BY DEF Put
<1> HIDE DEF r

<1>4. /\ y \in SessionState /\ y.tp = x.tp /\ y.sq = x.sq
      /\ y.wq = x.wq /\ y.tr = [x.tr EXCEPT ![t] = r]
  BY <1>2, <1>3 DEF SessionState
<1>5. Chan(y, t, c) = k /\ \A u \in Transports, d \in Component :
          u # t \/ d # c => Chan(y, u, d) = Chan(x, u, d)
  BY <1>1, <1>2, <1>4 DEF Chan
<1>6. \A u \in Transports : y.tr[u].connect = x.tr[u].connect
                            /\ y.tr[u].writable = x.tr[u].writable
  BY <1>1, <1>2, <1>4
<1> QED
  BY <1>4, <1>5, <1>6 DEF Puts

\* A message that is queued is in the queue, with what was there before.
LEMMA QueueFacts ==
    ASSUME NEW S, NEW q \in Seq(S), NEW m \in S
    PROVE  Queue(q, m) \in Seq(S) /\ Elements(Queue(q, m)) = Elements(q) \cup {m}
<1>1. Append(q, m) \in Seq(S) /\ Elements(Append(q, m)) = Elements(q) \cup {m}
  <2>1. Append(q, m) \in Seq(S) /\ Len(Append(q, m)) = Len(q) + 1
        /\ Append(q, m)[Len(q) + 1] = m /\ Len(q) \in Nat
        /\ \A i \in 1 .. Len(q) : Append(q, m)[i] = q[i]
        /\ DOMAIN q = 1 .. Len(q) /\ DOMAIN Append(q, m) = 1 .. Len(q) + 1
    OBVIOUS
  <2> HIDE DEF Append
  <2>2. ASSUME NEW e \in Elements(Append(q, m)) PROVE e \in Elements(q) \cup {m}
    <3>1. PICK i \in 1 .. Len(q) + 1 : e = Append(q, m)[i]
      BY <2>1 DEF Elements
    <3>2. CASE i = Len(q) + 1
      BY <2>1, <3>1, <3>2
    <3>3. CASE i \in 1 .. Len(q)
      BY <2>1, <3>1, <3>3 DEF Elements
    <3> QED
      BY <2>1, <3>2, <3>3
  <2>3. m \in Elements(Append(q, m))
    <3>1. Len(q) + 1 \in DOMAIN Append(q, m)
      BY <2>1
    <3> QED
      BY <2>1, <3>1 DEF Elements
  <2>4. ASSUME NEW i \in DOMAIN q PROVE q[i] \in Elements(Append(q, m))
    <3>1. i \in DOMAIN Append(q, m) /\ Append(q, m)[i] = q[i]
      BY <2>1
    <3> QED
      BY <3>1 DEF Elements
  <2>5. Elements(q) \subseteq Elements(Append(q, m))
    BY <2>4 DEF Elements
  <2> QED
    BY <2>1, <2>2, <2>3, <2>5
<1>2. CASE m.type # "request" /\ \E i \in DOMAIN q : q[i] = m
  BY <1>2 DEF Queue, Elements
<1>3. CASE ~(m.type # "request" /\ \E i \in DOMAIN q : q[i] = m)
  BY <1>1, <1>3 DEF Queue
<1> QED
  BY <1>2, <1>3

\* Posting to the signalling thread changes nothing but its queue.
LEMMA PostSignalingFacts ==
    ASSUME NEW x \in SessionState, NEW m \in SignalingMessage,
           NEW y, y = PostSignaling(x, m)
    PROVE  Same(x, y) /\ Queued(y, m) /\ y.tr = x.tr /\ y.wq = x.wq
<1>1. x.sq \in Seq(SignalingMessage)
  BY DEF SessionState
<1>2. /\ Queue(x.sq, m) \in Seq(SignalingMessage)
      /\ Elements(Queue(x.sq, m)) = Elements(x.sq) \cup {m}
  BY <1>1, QueueFacts
<1>3. /\ y \in SessionState /\ y.tp = x.tp /\ y.tr = x.tr /\ y.wq = x.wq
      /\ y.sq = Queue(x.sq, m)
  BY <1>2 DEF PostSignaling, SessionState
<1> QED
  BY <1>2, <1>3 DEF Same, Quiet, Chan, Queued

\* Posting to the worker changes nothing but its queue.
LEMMA PostWorkerFacts ==
    ASSUME NEW x \in SessionState, NEW m \in WorkerMessage,
           NEW y, y = PostWorker(x, m)
    PROVE  Same(x, y) /\ Posted(y, m) /\ y.tr = x.tr /\ y.sq = x.sq
<1>1. x.wq \in Seq(WorkerMessage)
  BY DEF SessionState
<1>2. /\ Queue(x.wq, m) \in Seq(WorkerMessage)
      /\ Elements(Queue(x.wq, m)) = Elements(x.wq) \cup {m}
  BY <1>1, QueueFacts
<1>3. /\ y \in SessionState /\ y.tp = x.tp /\ y.tr = x.tr /\ y.sq = x.sq
      /\ y.wq = Queue(x.wq, m)
  BY <1>2 DEF PostWorker, SessionState
<1> QED
  BY <1>2, <1>3 DEF Same, Quiet, Chan, Posted

\* The channel c of the transport t now has k references, and is not writable
\* if that is none; no other channel changes for a proxy.
Refers(x, y, t, c, k) ==
    /\ \A u \in Transports, d \in Component :
          u # t \/ d # c => /\ Chan(y, u, d).ref = Chan(x, u, d).ref
                            /\ Chan(y, u, d).writable = Chan(x, u, d).writable
    /\ Chan(y, t, c).ref = k
    /\ k = 0 => ~Chan(y, t, c).writable
    /\ k # 0 => Chan(y, t, c).writable = Chan(x, t, c).writable

Recounted(x, y, t, c, k) ==
    /\ y \in SessionState /\ y.tp = x.tp
    /\ \A u \in Transports : y.tr[u].writable = x.tr[u].writable
    /\ Refers(x, y, t, c, k)
    /\ Elements(x.sq) \subseteq Elements(y.sq)
    /\ Elements(x.wq) \subseteq Elements(y.wq)

\* Every channel has its type, and exists when it has references.
LEMMA ChanType ==
    ASSUME NEW x \in SessionState, NEW t \in Transports, NEW c \in Component
    PROVE  Chan(x, t, c) \in Channel /\ Chan(x, t, c).ref \in Nat
           /\ (Has(x, t, c) <=> Chan(x, t, c).ref # 0)
<1>1. x.tr[t] \in TransportState
  BY DEF SessionState
<1>2. Chan(x, t, c) \in Channel
  BY <1>1 DEF Chan, TransportState
<1>3. Chan(x, t, c).ref \in Nat
  BY <1>2 DEF Channel
<1> QED
  BY <1>2, <1>3 DEF Chan, Has

\* A quiet step keeps what is said of the writable transports.
LEMMA QuietNotices ==
    ASSUME NEW x \in SessionState, NEW y, Quiet(x, y), Notices(x)
    PROVE  Notices(y)
BY DEF Quiet, Notices, AllWritable, Has, Chan, Queued

\* Quiet steps compose.
LEMMA QuietTransitive ==
    ASSUME NEW x, NEW y, NEW z
    PROVE  /\ Quiet(x, y) /\ Quiet(y, z) => Quiet(x, z)
           /\ Same(x, y) /\ Same(y, z) => Same(x, z)
           /\ x \in SessionState => Same(x, x)
           /\ Same(x, y) => Quiet(x, y)
<1>1. Quiet(x, y) /\ Quiet(y, z) => Quiet(x, z)
  BY DEF Quiet
<1>2. x \in SessionState => Quiet(x, x)
  BY DEF Quiet
<1> QED
  BY <1>1, <1>2 DEF Same

\* A message more does no harm.
LEMMA PostLive ==
    ASSUME NEW E, NEW x, Live(x, E)
    PROVE  /\ \A m \in SignalingMessage : Live(PostSignaling(x, m), E)
           /\ \A m \in WorkerMessage : Live(PostWorker(x, m), E)
<1>1. x \in SessionState /\ Deleted(x) /\ Gathers(x, E) /\ Notices(x)
  BY DEF Live
<1> SUFFICES ASSUME NEW y, Same(x, y), y.tr = x.tr PROVE Live(y, E)
  BY <1>1, PostSignalingFacts, PostWorkerFacts
<1>2. Notices(y)
  BY <1>1, QuietNotices, QuietTransitive
<1>3. Deleted(y)
  BY <1>1 DEF Deleted, Chan
<1>4. Gathers(y, E)
  BY <1>1 DEF Gathers, Chan, Has, Queued, Posted, Same, Quiet
<1> QED
  BY <1>2, <1>3, <1>4 DEF Live, Same, Quiet

\* A channel of which only what a proxy does not see changes; it gathers, and
\* does not wait without a message.
LEMMA PutLive ==
    ASSUME NEW E, NEW F, NEW x, Live(x, E), NEW t \in Transports, NEW c \in Component,
           NEW k \in Channel, Has(x, t, c),
           k.ref = Chan(x, t, c).ref, k.writable = Chan(x, t, c).writable,
           k.gather # "none" \/ k.waiting \/ ~x.tr[t].connect \/ <<t, c>> \in F,
           k.waiting => Queued(x, Request(t, c)) \/ Posted(x, Ready(t)),
           E \subseteq F \cup {<<t, c>>},
           NEW y, y = Put(x, t, c, k)
    PROVE  Live(y, F) /\ Same(x, y)
<1>1. x \in SessionState /\ Deleted(x) /\ Gathers(x, E) /\ Notices(x)
  BY DEF Live
<1>2. Puts(x, y, t, c, k)
  BY <1>1, PutFacts
<1>3. Same(x, y)
  BY <1>2 DEF Puts, Same, Quiet
<1>4. Notices(y)
  BY <1>1, <1>3, QuietNotices, QuietTransitive
<1>5. Deleted(y)
  BY <1>1, <1>2, ChanType DEF Deleted, Puts
<1>6. ASSUME NEW u \in Transports, NEW d \in Component
      PROVE  /\ Has(y, u, d) /\ y.tr[u].connect /\ <<u, d>> \notin F =>
                    Chan(y, u, d).gather # "none" \/ Chan(y, u, d).waiting
             /\ Chan(y, u, d).waiting =>
                    Queued(y, Request(u, d)) \/ Posted(y, Ready(u))
  <2>1. CASE u = t /\ d = c
    BY <1>2, <2>1 DEF Puts, Queued, Posted
  <2>2. CASE ~(u = t /\ d = c)
    <3>1. Chan(y, u, d) = Chan(x, u, d) /\ <<u, d>> # <<t, c>>
      BY <1>2, <2>2 DEF Puts
    <3>2. Has(y, u, d) <=> Has(x, u, d)
      BY <3>1 DEF Has, Chan
    <3> QED
      BY <1>1, <1>2, <3>1, <3>2 DEF Gathers, Puts, Queued, Posted
  <2> QED
    BY <2>1, <2>2
<1>7. Gathers(y, F)
  BY <1>6 DEF Gathers
<1> QED
  BY <1>2, <1>3, <1>4, <1>5, <1>7 DEF Live, Puts

\* A channel that is allocated waits, and its request is queued.
LEMMA AllocateLive ==
    ASSUME NEW E, NEW x, Live(x, E), NEW t \in Transports, NEW c \in Component,
           Has(x, t, c)
    PROVE  /\ Live(Allocate(x, t, c), E \ {<<t, c>>})
           /\ Same(x, Allocate(x, t, c))
<1> DEFINE k == [Chan(x, t, c) EXCEPT !.waiting = TRUE]
           m == Request(t, c)
           z == PostSignaling(x, m)
           y == Put(z, t, c, k)
<1>1. x \in SessionState /\ Chan(x, t, c) \in Channel
  BY ChanType DEF Live
<1>2. k \in Channel /\ k.ref = Chan(x, t, c).ref /\ k.writable = Chan(x, t, c).writable
      /\ k.waiting
  BY <1>1 DEF Channel
<1>3. m \in SignalingMessage
  BY Types
<1>4. Live(z, E) /\ Same(x, z) /\ Queued(z, m) /\ z.tr = x.tr
  BY <1>1, <1>3, PostLive, PostSignalingFacts
<1>5. Chan(z, t, c) = Chan(x, t, c) /\ Has(z, t, c)
  BY <1>4 DEF Chan, Has
<1> HIDE DEF k, z
<1>6. Live(y, E \ {<<t, c>>}) /\ Same(z, y)
  BY <1>2, <1>4, <1>5, PutLive
<1>7. y = Allocate(x, t, c)
  BY <1>5 DEF Allocate, Request, Put, k, z, Chan
<1> QED
  BY <1>4, <1>6, <1>7, QuietTransitive

\* A channel is created with one reference, or gets one more.
LEMMA CreateLive ==
    ASSUME NEW x, Live(x, {}), NEW t \in Transports, NEW c \in Component,
           NEW y, y = CreateChannel(x, t, c)
    PROVE  Live(y, {}) /\ Recounted(x, y, t, c, Chan(x, t, c).ref + 1)
<1> DEFINE r == Chan(x, t, c).ref + 1
<1>1. x \in SessionState /\ Deleted(x) /\ Gathers(x, {}) /\ Notices(x)
      /\ Chan(x, t, c) \in Channel /\ Chan(x, t, c).ref \in Nat
  BY ChanType DEF Live, Puts
<1>2. CASE Has(x, t, c)
  <2> DEFINE k == [Chan(x, t, c) EXCEPT !.ref = @ + 1]
  <2>1. k \in Channel /\ k.ref = r /\ k.writable = Chan(x, t, c).writable
        /\ k.gather = Chan(x, t, c).gather /\ k.waiting = Chan(x, t, c).waiting
    BY <1>1 DEF Channel
  <2>2. y = Put(x, t, c, k)
    BY <1>2 DEF CreateChannel, Chan, Put
  <2> HIDE DEF k
  <2>3. Puts(x, y, t, c, k)
    BY <1>1, <2>1, <2>2, PutFacts
  <2>4. Recounted(x, y, t, c, r)
    BY <1>1, <2>1, <2>3 DEF Recounted, Refers, Puts
  <2>5. \A u \in Transports, d \in Component : Has(y, u, d) <=> Has(x, u, d)
    BY <1>1, <1>2, <2>1, <2>3 DEF Has, Chan, Puts
  <2>6. Deleted(y)
    BY <1>1, <2>1, <2>3 DEF Deleted, Puts
  <2>7. Notices(y)
    BY <1>1, <2>1, <2>3, <2>5 DEF Notices, AllWritable, Queued, Puts
  <2>8. Gathers(y, {})
    BY <1>1, <2>1, <2>3, <2>5 DEF Gathers, Queued, Posted, Puts
  <2> QED
    BY <2>3, <2>4, <2>6, <2>7, <2>8 DEF Live, Puts
<1>3. CASE ~Has(x, t, c)
  <2> DEFINE k == PushedDown(x, t)
             z == Put(x, t, c, k)
  <2>1. k \in Channel /\ k.ref = 1 /\ k.writable = FALSE /\ k.waiting = FALSE
    <3>1. x.tr[t].local \in {"none", "session", "generated"}
          /\ x.tr[t].proto \in {"hybrid", "rfc5245"} /\ Described(x, t) \in BOOLEAN
      BY <1>1 DEF SessionState, TransportState, Described
    <3> QED
      BY <3>1 DEF PushedDown, NoChannel, Channel
  <2>2. Chan(x, t, c).ref = 0 /\ r = 1
    BY <1>1, <1>3, ChanType
  <2>3. Chan(x, t, c).writable = FALSE
    BY <1>1, <2>2 DEF Deleted, NoChannel
  <2> HIDE DEF k
  <2>4. Puts(x, z, t, c, k)
    BY <1>1, <2>1, PutFacts
  <2> HIDE DEF z
  <2>5. Recounted(x, z, t, c, r)
    BY <2>1, <2>2, <2>3, <2>4 DEF Recounted, Refers, Puts
  <2>6. \A u \in Transports, d \in Component :
            Has(z, u, d) <=> (Has(x, u, d) \/ (u = t /\ d = c))
    BY <2>1, <2>4 DEF Has, Chan, Puts
  <2>7. Deleted(z)
    BY <1>1, <2>1, <2>4 DEF Deleted, Puts
  <2>8. Notices(z)
    BY <1>1, <2>1, <2>4, <2>6 DEF Notices, AllWritable, Queued, Puts
  <2>9. Gathers(z, {<<t, c>>})
    BY <1>1, <2>1, <2>4, <2>6 DEF Gathers, Queued, Posted, Puts
  <2>10. Live(z, {<<t, c>>})
    BY <2>4, <2>7, <2>8, <2>9 DEF Live, Puts
  <2>11. CASE x.tr[t].connect
    <3>1. y = Allocate(z, t, c)
      BY <1>3, <2>11 DEF CreateChannel, Put, z, k
    <3>2. Live(y, {<<t, c>>} \ {<<t, c>>}) /\ Same(z, y)
      BY <2>6, <2>10, <3>1, AllocateLive
    <3>3. Live(y, {})
      <4>1. {<<t, c>>} \ {<<t, c>>} = {}
        OBVIOUS
      <4> QED
        BY <3>2, <4>1
    <3>4. Recounted(x, y, t, c, r)
      BY <2>5, <3>2 DEF Recounted, Refers, Same, Quiet
    <3> QED
      BY <3>3, <3>4
  <2>12. CASE ~x.tr[t].connect
    <3>1. y = z
      BY <1>3, <2>12 DEF CreateChannel, Put, z, k
    <3>2. Gathers(z, {})
      BY <2>4, <2>9, <2>12 DEF Gathers, Puts
    <3> QED
      BY <2>5, <2>10, <3>1, <3>2 DEF Live, Puts
  <2> QED
    BY <2>11, <2>12
<1> QED
  BY <1>2, <1>3

\* A reference goes, and with the last one the channel.
LEMMA DestroyLive ==
    ASSUME NEW x, Live(x, {}), NEW t \in Transports, NEW c \in Component,
           Has(x, t, c), NEW y, y = DestroyChannel(x, t, c)
    PROVE  Live(y, {}) /\ Recounted(x, y, t, c, Chan(x, t, c).ref - 1)
<1> DEFINE r == Chan(x, t, c).ref - 1
           k == IF r = 0 THEN NoChannel ELSE [Chan(x, t, c) EXCEPT !.ref = @ - 1]
           z == Put(x, t, c, k)
<1>1. x \in SessionState /\ Deleted(x) /\ Gathers(x, {}) /\ Notices(x)
      /\ Chan(x, t, c) \in Channel /\ Chan(x, t, c).ref \in Nat /\ r \in Nat
  BY ChanType DEF Live, Puts
<1>2. /\ k \in Channel /\ k.ref = r /\ (r = 0 => k = NoChannel)
      /\ (r = 0 => k.writable = FALSE)
      /\ (r # 0 => k.writable = Chan(x, t, c).writable)
      /\ (r # 0 => k.gather = Chan(x, t, c).gather /\ k.waiting = Chan(x, t, c).waiting)
      /\ NoChannel.waiting = FALSE
  BY <1>1 DEF Channel, NoChannel
<1>3. y = IF r = 0 THEN OnChannelWritableState(z, t) ELSE z
  <2>1. r = 0 <=> x.tr[t].chan[c].ref = 1
    BY <1>1 DEF Chan
  <2>2. CASE r = 0
    BY <2>1, <2>2 DEF DestroyChannel, Put
  <2>3. CASE r # 0
    <3>1. [Chan(x, t, c) EXCEPT !.ref = @ - 1]
          = [Chan(x, t, c) EXCEPT !.ref = IF @ = 0 THEN 0 ELSE @ - 1]
      BY <1>1
    <3> QED
      BY <2>1, <2>3, <3>1 DEF DestroyChannel, Chan, Put
  <2> QED
    BY <2>2, <2>3
<1> HIDE DEF k
<1>4. Puts(x, z, t, c, k)
  BY <1>1, <1>2, PutFacts
<1> HIDE DEF z
<1>5. Recounted(x, z, t, c, r)
  BY <1>1, <1>2, <1>4 DEF Recounted, Refers, Puts
<1> HIDE DEF r
<1>6. \A u \in Transports, d \in Component :
          Has(z, u, d) <=> (Has(x, u, d) /\ ~(u = t /\ d = c /\ r = 0))
  BY <1>1, <1>2, <1>4 DEF Has, Chan, Puts
<1>7. Deleted(z)
  BY <1>1, <1>2, <1>4 DEF Deleted, Puts
<1>8. Gathers(z, {})
  BY <1>1, <1>2, <1>4, <1>6 DEF Gathers, Queued, Posted, Puts
<1>9. \A u \in Transports :
          AllWritable(z, u) => z.tr[u].writable = "all" \/ Queued(z, Write(u))
                               \/ (u = t /\ r = 0)
  BY <1>1, <1>2, <1>4, <1>6 DEF Notices, AllWritable, Queued, Puts
<1>10. CASE r # 0
  BY <1>3, <1>4, <1>5, <1>7, <1>8, <1>9, <1>10 DEF Live, Notices, Puts, r
<1>11. CASE r = 0
  <2>1. Write(t) \in SignalingMessage
    BY Types
  <2>2. y = PostSignaling(z, Write(t))
    BY <1>3, <1>11 DEF OnChannelWritableState, Write, z
  <2>3. Same(z, y) /\ Queued(y, Write(t)) /\ y.tr = z.tr
    BY <1>4, <2>1, <2>2, PostSignalingFacts DEF Puts
  <2>4. Deleted(y) /\ Gathers(y, {})
    BY <1>7, <1>8, <2>3
       DEF Deleted, Gathers, Chan, Has, Queued, Posted, Same, Quiet
  <2>5. Notices(y)
    BY <1>9, <2>3 DEF Notices, AllWritable, Chan, Has, Queued, Same, Quiet
  <2>6. Recounted(x, y, t, c, r)
    BY <1>5, <2>3 DEF Recounted, Refers, Same, Quiet
  <2> QED
    BY <2>3, <2>4, <2>5, <2>6 DEF Live, Same, Quiet, r
<1> QED
  BY <1>10, <1>11

-----------------------------------------------------------------------------
(* The operators that change a whole transport and no reference.           *)

PutRow(x, t, r) == [x EXCEPT !.tr[t] = r]

\* Every transport has its type.
LEMMA RowType ==
    ASSUME NEW x \in SessionState, NEW t \in Transports
    PROVE  /\ x.tr[t] \in TransportState
           /\ x.tr[t].chan \in [Component -> Channel]
           /\ \A c \in Component : x.tr[t].chan[c] = Chan(x, t, c)
BY DEF SessionState, TransportState, Chan

\* PutRow changes one transport and nothing else.
LEMMA PutRowFacts ==
    ASSUME NEW x \in SessionState, NEW t \in Transports,
           NEW r \in TransportState, NEW y, y = PutRow(x, t, r)
    PROVE  /\ y \in SessionState /\ y.tp = x.tp /\ y.sq = x.sq /\ y.wq = x.wq
           /\ y.tr[t] = r
           /\ \A c \in Component : Chan(y, t, c) = r.chan[c]
           /\ \A u \in Transports \ {t} : y.tr[u] = x.tr[u]
           /\ \A u \in Transports \ {t}, c \in Component : Chan(y, u, c) = Chan(x, u, c)
BY DEF PutRow, SessionState, Chan

\* A transport changes, but not what a proxy sees, nor how its channels gather.
LEMMA RowLive ==
    ASSUME NEW E, NEW F, NEW x, Live(x, E), NEW t \in Transports,
           NEW r \in TransportState,
           r.writable = x.tr[t].writable, E \subseteq F,
           r.connect = x.tr[t].connect \/ \A c \in Component : <<t, c>> \in F,
           \A c \in Component :
               /\ r.chan[c].ref = Chan(x, t, c).ref
               /\ r.chan[c].writable = Chan(x, t, c).writable
               /\ r.chan[c].gather = Chan(x, t, c).gather
               /\ r.chan[c].waiting = Chan(x, t, c).waiting
               /\ r.chan[c].ref = 0 => r.chan[c] = Chan(x, t, c),
           NEW y, y = PutRow(x, t, r)
    PROVE  Live(y, F) /\ Quiet(x, y)
           /\ (r.connect = x.tr[t].connect => Same(x, y))
<1>1. x \in SessionState /\ Deleted(x) /\ Gathers(x, E) /\ Notices(x)
  BY DEF Live
<1>2. /\ y \in SessionState /\ y.tp = x.tp /\ y.sq = x.sq /\ y.wq = x.wq
      /\ y.tr[t] = r
      /\ \A c \in Component : Chan(y, t, c) = r.chan[c]
      /\ \A u \in Transports \ {t} : y.tr[u] = x.tr[u]
      /\ \A u \in Transports \ {t}, c \in Component : Chan(y, u, c) = Chan(x, u, c)
  BY <1>1, PutRowFacts
<1>3. \A u \in Transports, c \in Component :
          /\ Chan(y, u, c).ref = Chan(x, u, c).ref
          /\ Chan(y, u, c).writable = Chan(x, u, c).writable
          /\ Chan(y, u, c).gather = Chan(x, u, c).gather
          /\ Chan(y, u, c).waiting = Chan(x, u, c).waiting
          /\ Chan(y, u, c).ref = 0 => Chan(y, u, c) = Chan(x, u, c)
  BY <1>2
<1>4. \A u \in Transports : y.tr[u].writable = x.tr[u].writable
          /\ (r.connect = x.tr[t].connect => y.tr[u].connect = x.tr[u].connect)
  BY <1>2
<1>5. Quiet(x, y) /\ (r.connect = x.tr[t].connect => Same(x, y))
  BY <1>2, <1>3, <1>4 DEF Quiet, Same
<1>6. Notices(y)
  BY <1>1, <1>5, QuietNotices
<1>7. Deleted(y)
  BY <1>1, <1>3 DEF Deleted
<1>8. Gathers(y, F)
  <2> SUFFICES ASSUME NEW u \in Transports, NEW c \in Component
               PROVE  /\ Has(y, u, c) /\ y.tr[u].connect /\ <<u, c>> \notin F =>
                             Chan(y, u, c).gather # "none" \/ Chan(y, u, c).waiting
                      /\ Chan(y, u, c).waiting =>
                             Queued(y, Request(u, c)) \/ Posted(y, Ready(u))
    BY DEF Gathers
  <2>1. Has(y, u, c) <=> Has(x, u, c)
    BY <1>3 DEF Has, Chan
  <2>2. y.tr[u].connect /\ <<u, c>> \notin F => x.tr[u].connect /\ <<u, c>> \notin E
    BY <1>2
  <2> QED
    BY <1>1, <1>2, <1>3, <2>1, <2>2 DEF Gathers, Queued, Posted
<1> QED
  BY <1>2, <1>5, <1>6, <1>7, <1>8 DEF Live

\* A channel that does not exist need not be exempted.
LEMMA LiveWeaken ==
    ASSUME NEW E, NEW F, NEW x, Live(x, E),
           \A t \in Transports, c \in Component :
               <<t, c>> \in E /\ <<t, c>> \notin F => ~Has(x, t, c)
    PROVE  Live(x, F)
BY DEF Live, Gathers

\* The channels of a transport are components, finitely many.
LEMMA ChannelsFinite ==
    ASSUME NEW x, NEW t
    PROVE  Channels(x, t) \in SUBSET Component /\ IsFiniteSet(Channels(x, t))
BY TransportAssumption, FS_Subset DEF Channels

Creds == {"none", "session", "generated"}

\* Other credentials make a channel gather again, and it is asked for.
LEMMA SetIceLive ==
    ASSUME NEW E, NEW x, Live(x, E), NEW t \in Transports, NEW c \in Component,
           Has(x, t, c), NEW cred \in Creds, NEW y, y = SetIceCredentials(x, t, c, cred)
    PROVE  Live(y, E) /\ Same(x, y)
<1> DEFINE k == [Chan(x, t, c) EXCEPT !.cred = cred]
           z == Put(x, t, c, k)
<1>1. x \in SessionState /\ Chan(x, t, c) \in Channel /\ Gathers(x, E)
  BY ChanType DEF Live
<1>2. k \in Channel /\ k.ref = Chan(x, t, c).ref /\ k.writable = Chan(x, t, c).writable
      /\ k.gather = Chan(x, t, c).gather /\ k.waiting = Chan(x, t, c).waiting
  BY <1>1 DEF Channel, Creds
<1>3. z = [x EXCEPT !.tr[t].chan[c].cred = cred]
  BY DEF Put, Chan
<1>4. y = Allocate(z, t, c) \/ y = z
  <2> HIDE DEF z
  <2> QED
    BY <1>3, Zenon DEF SetIceCredentials
<1> HIDE DEF k, z
<1>5. z = Put(x, t, c, k)
  BY DEF z
<1>6. Live(z, E) /\ Same(x, z)
  <2>1. k.gather # "none" \/ k.waiting \/ ~x.tr[t].connect \/ <<t, c>> \in E
    BY <1>1, <1>2 DEF Gathers
  <2>2. k.waiting => Queued(x, Request(t, c)) \/ Posted(x, Ready(t))
    BY <1>1, <1>2 DEF Gathers
  <2> QED
    BY <1>2, <1>5, <2>1, <2>2, PutLive
<1>7. Has(z, t, c)
  BY <1>6 DEF Same, Quiet, Has, Chan
<1>8. CASE y = Allocate(z, t, c)
  <2>1. Live(y, E \ {<<t, c>>}) /\ Same(z, y)
    BY <1>6, <1>7, <1>8, AllocateLive
  <2>2. Live(y, E)
    BY <2>1, LiveWeaken
  <2> QED
    BY <1>6, <2>1, <2>2, QuietTransitive
<1> QED
  BY <1>4, <1>6, <1>8

\* Negotiation changes only the protocol of a transport's channels.
LEMMA NegotiateLive ==
    ASSUME NEW E, NEW x, Live(x, E), NEW t \in Transports,
           NEW y, y = NegotiateTransportDescription(x, t)
    PROVE  Live(y, E) /\ Same(x, y)
<1> DEFINE r == [x.tr[t] EXCEPT !.proto = "rfc5245"]
           z == PutRow(x, t, r)
           g == [c \in Component |->
                    IF z.tr[t].chan[c].ref > 0
                    THEN [z.tr[t].chan[c] EXCEPT !.proto = "rfc5245"]
                    ELSE z.tr[t].chan[c]]
           s == [z.tr[t] EXCEPT !.chan = g]
<1>1. x \in SessionState
  BY DEF Live
<1>2. /\ r \in TransportState /\ r.chan = x.tr[t].chan /\ r.connect = x.tr[t].connect
      /\ r.writable = x.tr[t].writable
  BY <1>1, RowType DEF TransportState
<1>3. z = [x EXCEPT !.tr[t].proto = "rfc5245"]
  BY DEF PutRow
<1>4. y = PutRow(z, t, s)
  BY <1>3, Zenon DEF PutRow, NegotiateTransportDescription, EachChannel
<1> HIDE DEF r, z
<1>5. Live(z, E) /\ Same(x, z)
  <2>1. \A c \in Component : r.chan[c] = Chan(x, t, c)
    BY <1>1, <1>2, RowType
  <2> QED
    BY <1>2, <2>1, RowLive DEF z
<1>6. z \in SessionState /\ z.tr[t] \in TransportState
      /\ z.tr[t].chan \in [Component -> Channel]
      /\ \A c \in Component : z.tr[t].chan[c] = Chan(z, t, c)
  BY <1>5, RowType DEF Live
<1>7. \A c \in Component :
          /\ g[c] \in Channel
          /\ g[c].ref = Chan(z, t, c).ref
          /\ g[c].writable = Chan(z, t, c).writable
          /\ g[c].gather = Chan(z, t, c).gather
          /\ g[c].waiting = Chan(z, t, c).waiting
          /\ g[c].ref = 0 => g[c] = Chan(z, t, c)
  <2> SUFFICES ASSUME NEW c \in Component
               PROVE  /\ g[c] \in Channel
                      /\ g[c].ref = Chan(z, t, c).ref
                      /\ g[c].writable = Chan(z, t, c).writable
                      /\ g[c].gather = Chan(z, t, c).gather
                      /\ g[c].waiting = Chan(z, t, c).waiting
                      /\ g[c].ref = 0 => g[c] = Chan(z, t, c)
    OBVIOUS
  <2> DEFINE k == Chan(z, t, c)
             v == [k EXCEPT !.proto = "rfc5245"]
  <2>1. k \in Channel /\ z.tr[t].chan[c] = k
    BY <1>6
  <2>2. g[c] = IF k.ref > 0 THEN v ELSE k
    BY <2>1
  <2> HIDE DEF k, g
  <2>3. /\ v \in Channel /\ v.ref = k.ref /\ v.writable = k.writable
        /\ v.gather = k.gather /\ v.waiting = k.waiting /\ k.ref \in Nat
    BY <2>1 DEF Channel
  <2> HIDE DEF v
  <2>4. CASE k.ref > 0
    BY <2>2, <2>3, <2>4 DEF k
  <2>5. CASE ~(k.ref > 0)
    BY <2>1, <2>2, <2>5 DEF k
  <2> QED
    BY <2>4, <2>5
<1>8. g \in [Component -> Channel]
  BY <1>7
<1> HIDE DEF g
<1>9. /\ s \in TransportState /\ s.chan = g /\ s.connect = z.tr[t].connect
      /\ s.writable = z.tr[t].writable
  BY <1>6, <1>8 DEF TransportState
<1> HIDE DEF s
<1>10. Live(y, E) /\ Same(z, y)
  BY <1>4, <1>5, <1>7, <1>9, RowLive
<1> QED
  BY <1>5, <1>10, QuietTransitive

\* A remote description is pushed to the channels, and no more.
LEMMA SetRemoteLive ==
    ASSUME NEW E, NEW x, Live(x, E), NEW t \in Transports, NEW action,
           NEW y, y = SetRemoteDescription(x, t, action)
    PROVE  Live(y, E) /\ Same(x, y)
<1> DEFINE r == [x.tr[t] EXCEPT !.remote = TRUE]
           z == PutRow(x, t, r)
           g == [c \in Component |->
                    IF z.tr[t].chan[c].ref > 0
                    THEN [z.tr[t].chan[c] EXCEPT !.remote = TRUE]
                    ELSE z.tr[t].chan[c]]
           s == [z.tr[t] EXCEPT !.chan = g]
           w == PutRow(z, t, s)
<1>1. x \in SessionState
  BY DEF Live
<1>2. /\ r \in TransportState /\ r.chan = x.tr[t].chan /\ r.connect = x.tr[t].connect
      /\ r.writable = x.tr[t].writable
  BY <1>1, RowType, ZenonT(40) DEF TransportState
<1>3. z = [x EXCEPT !.tr[t].remote = TRUE]
  BY DEF PutRow
<1>4. y = w \/ y = NegotiateTransportDescription(w, t)
  BY <1>3, Zenon DEF PutRow, SetRemoteDescription, EachChannel
<1> HIDE DEF r, z
<1>5. Live(z, E) /\ Same(x, z)
  <2>1. \A c \in Component : r.chan[c] = Chan(x, t, c)
    BY <1>1, <1>2, RowType
  <2> QED
    BY <1>2, <2>1, RowLive DEF z
<1>6. z \in SessionState /\ z.tr[t] \in TransportState
      /\ z.tr[t].chan \in [Component -> Channel]
      /\ \A c \in Component : z.tr[t].chan[c] = Chan(z, t, c)
  BY <1>5, RowType DEF Live
<1>7. \A c \in Component :
          /\ g[c] \in Channel
          /\ g[c].ref = Chan(z, t, c).ref
          /\ g[c].writable = Chan(z, t, c).writable
          /\ g[c].gather = Chan(z, t, c).gather
          /\ g[c].waiting = Chan(z, t, c).waiting
          /\ g[c].ref = 0 => g[c] = Chan(z, t, c)
  <2> SUFFICES ASSUME NEW c \in Component
               PROVE  /\ g[c] \in Channel
                      /\ g[c].ref = Chan(z, t, c).ref
                      /\ g[c].writable = Chan(z, t, c).writable
                      /\ g[c].gather = Chan(z, t, c).gather
                      /\ g[c].waiting = Chan(z, t, c).waiting
                      /\ g[c].ref = 0 => g[c] = Chan(z, t, c)
    OBVIOUS
  <2> DEFINE k == Chan(z, t, c)
             v == [k EXCEPT !.remote = TRUE]
  <2>1. k \in Channel /\ z.tr[t].chan[c] = k
    BY <1>6
  <2>2. g[c] = IF k.ref > 0 THEN v ELSE k
    BY <2>1
  <2> HIDE DEF k, g
  <2>3. /\ v \in Channel /\ v.ref = k.ref /\ v.writable = k.writable
        /\ v.gather = k.gather /\ v.waiting = k.waiting /\ k.ref \in Nat
    BY <2>1 DEF Channel
  <2> HIDE DEF v
  <2>4. CASE k.ref > 0
    BY <2>2, <2>3, <2>4 DEF k
  <2>5. CASE ~(k.ref > 0)
    BY <2>1, <2>2, <2>5 DEF k
  <2> QED
    BY <2>4, <2>5
<1>8. g \in [Component -> Channel]
  BY <1>7
<1> HIDE DEF g
<1>9. /\ s \in TransportState /\ s.chan = g /\ s.connect = z.tr[t].connect
      /\ s.writable = z.tr[t].writable
  BY <1>6, <1>8 DEF TransportState
<1> HIDE DEF s
<1>10. Live(w, E) /\ Same(z, w)
  BY <1>5, <1>7, <1>9, RowLive
<1> HIDE DEF w
<1>11. Same(x, w)
  BY <1>5, <1>10, QuietTransitive
<1>12. CASE y = NegotiateTransportDescription(w, t)
  <2>1. Live(y, E) /\ Same(w, y)
    BY <1>10, <1>12, NegotiateLive
  <2> QED
    BY <1>11, <2>1, QuietTransitive
<1> QED
  BY <1>4, <1>10, <1>11, <1>12

\* A local description makes channels gather again at most.
LEMMA SetLocalLive ==
    ASSUME NEW E, NEW x, Live(x, E), NEW t \in Transports, NEW cred \in Creds,
           NEW action, NEW y, y = SetLocalDescription(x, t, cred, action)
    PROVE  Live(y, E) /\ Same(x, y)
<1> DEFINE r == [x.tr[t] EXCEPT !.local = cred]
           z == PutRow(x, t, r)
           S == Channels(x, t)
           f == [p \in SessionState \X S |-> SetIceCredentials(p[1], t, p[2], cred)]
           w == Fold(z, S, f)
           P == [T \in SUBSET S |-> {v \in SessionState : Live(v, E) /\ Same(z, v)}]
<1>1. x \in SessionState
  BY DEF Live
<1>2. /\ r \in TransportState /\ r.chan = x.tr[t].chan /\ r.connect = x.tr[t].connect
      /\ r.writable = x.tr[t].writable
  BY <1>1, RowType DEF TransportState, Creds
<1>3. z = [x EXCEPT !.tr[t].local = cred]
  BY DEF PutRow
<1>4. y = w \/ y = NegotiateTransportDescription(w, t)
  BY <1>3, Zenon DEF PutRow, SetLocalDescription, Each
<1> HIDE DEF r, z
<1>5. Live(z, E) /\ Same(x, z)
  <2>1. \A c \in Component : r.chan[c] = Chan(x, t, c)
    BY <1>1, <1>2, RowType
  <2> QED
    BY <1>2, <2>1, RowLive DEF z
<1>6. IsFiniteSet(S) /\ S \in SUBSET Component
  BY ChannelsFinite
<1>7. \A c \in S : Has(z, t, c)
  BY <1>5 DEF Channels, Same, Quiet, Has, Chan
<1> HIDE DEF S
<1>8. z \in P[{}]
  BY <1>5, QuietTransitive DEF Live
<1>9. ASSUME NEW T \in SUBSET S, NEW c \in S \ T, NEW v \in P[T]
      PROVE  f[<<v, c>>] \in P[T \cup {c}]
  <2>1. v \in SessionState /\ Live(v, E) /\ Same(z, v) /\ c \in Component /\ c \in S
    BY <1>6
  <2>2. f[<<v, c>>] = SetIceCredentials(v, t, c, cred)
    BY <2>1
  <2>3. Has(v, t, c)
    BY <1>7, <2>1 DEF Same, Quiet, Has, Chan
  <2>4. Live(f[<<v, c>>], E) /\ Same(v, f[<<v, c>>])
    <3> HIDE DEF f
    <3> QED
      BY <2>1, <2>2, <2>3, SetIceLive
  <2>5. Same(z, f[<<v, c>>]) /\ f[<<v, c>>] \in SessionState
    <3> HIDE DEF f
    <3> QED
      BY <2>1, <2>4, QuietTransitive DEF Live
  <2>6. T \cup {c} \in SUBSET S
    OBVIOUS
  <2> HIDE DEF f
  <2> QED
    BY <2>4, <2>5, <2>6
<1>10. w \in P[S]
  <2> HIDE DEF P, f
  <2> QED
    BY <1>6, <1>8, <1>9, FoldIn
<1>11. Live(w, E) /\ Same(x, w)
  <2> HIDE DEF w
  <2>1. Live(w, E) /\ Same(z, w)
    BY <1>10
  <2> QED
    BY <1>5, <2>1, QuietTransitive
<1> HIDE DEF w
<1>12. CASE y = NegotiateTransportDescription(w, t)
  <2>1. Live(y, E) /\ Same(w, y)
    BY <1>11, <1>12, NegotiateLive
  <2> QED
    BY <1>11, <2>1, QuietTransitive
<1> QED
  BY <1>4, <1>11, <1>12

\* The channels of a transport that is asked to connect all begin to gather.
LEMMA ConnectLive ==
    ASSUME NEW x, Live(x, {}), NEW t \in Transports,
           NEW y, y = ConnectTransport(x, t)
    PROVE  Live(y, {}) /\ Quiet(x, y)
<1>1. CASE x.tr[t].connect \/ Channels(x, t) = {}
  BY <1>1, QuietTransitive DEF ConnectTransport, Live
<1>2. CASE ~(x.tr[t].connect \/ Channels(x, t) = {})
  <2> DEFINE r == [x.tr[t] EXCEPT !.connect = TRUE]
             z == PutRow(x, t, r)
             F == {t} \X Component
             w == IF x.tr[t].local # "none" THEN z
                  ELSE SetLocalDescription(z, t, "generated", "offer")
             S == Channels(x, t)
             f == [p \in SessionState \X S |-> Allocate(p[1], t, p[2])]
             P == [T \in SUBSET S |-> {v \in SessionState :
                                          Live(v, {t} \X (S \ T)) /\ Same(w, v)}]
  <2>1. x \in SessionState
    BY DEF Live
  <2>2. /\ r \in TransportState /\ r.chan = x.tr[t].chan
        /\ r.writable = x.tr[t].writable
    BY <2>1, RowType, ZenonT(40) DEF TransportState
  <2>3. z = [x EXCEPT !.tr[t].connect = TRUE]
    BY DEF PutRow
  <2>4. y = Fold(w, S, f)
    BY <1>2, <2>3, Zenon DEF PutRow, ConnectTransport, Each
  <2> HIDE DEF r, z
  <2>5. Live(z, F) /\ Quiet(x, z)
    <3>1. \A c \in Component : r.chan[c] = Chan(x, t, c)
      BY <2>1, <2>2, RowType
    <3> QED
      BY <2>2, <3>1, RowLive DEF z
  <2>6. Live(w, F) /\ Quiet(x, w)
    <3>1. CASE x.tr[t].local # "none"
      BY <2>5, <3>1
    <3>2. CASE ~(x.tr[t].local # "none")
      <4> DEFINE u == SetLocalDescription(z, t, "generated", "offer")
      <4>1. "generated" \in Creds
        BY DEF Creds
      <4> HIDE DEF F
      <4>2. Live(u, F) /\ Same(z, u)
        BY <2>5, <4>1, SetLocalLive
      <4> HIDE DEF u
      <4>3. Quiet(x, u)
        BY <2>5, <4>2, QuietTransitive
      <4> QED
        BY <3>2, <4>2, <4>3 DEF u
    <3> QED
      BY <3>1, <3>2
  <2> HIDE DEF w
  <2>7. IsFiniteSet(S) /\ S \in SUBSET Component
    BY ChannelsFinite
  <2>8. \A c \in Component : Has(w, t, c) <=> c \in S
    BY <2>6 DEF Channels, Quiet, Has, Chan
  <2> HIDE DEF S
  <2>9. w \in P[{}]
    <3>1. Live(w, {t} \X S)
      BY <2>6, <2>8, LiveWeaken
    <3>2. w \in SessionState /\ Same(w, w) /\ S \ {} = S
      BY <2>6, QuietTransitive DEF Live
    <3> QED
      BY <3>1, <3>2
  <2>10. ASSUME NEW T \in SUBSET S, NEW c \in S \ T, NEW v \in P[T]
        PROVE  f[<<v, c>>] \in P[T \cup {c}]
    <3> DEFINE u == f[<<v, c>>]
    <3>1. v \in SessionState /\ Live(v, {t} \X (S \ T)) /\ Same(w, v)
          /\ c \in Component /\ c \in S
      BY <2>7
    <3>2. u = Allocate(v, t, c)
      BY <3>1
    <3>3. Has(v, t, c)
      BY <2>8, <3>1 DEF Same, Quiet, Has, Chan
    <3> HIDE DEF u
    <3>4. Live(u, ({t} \X (S \ T)) \ {<<t, c>>}) /\ Same(v, u)
      BY <3>1, <3>2, <3>3, AllocateLive
    <3>5. Live(u, {t} \X (S \ (T \cup {c})))
      BY <3>4, LiveWeaken
    <3>6. Same(w, u) /\ u \in SessionState
      BY <3>1, <3>4, QuietTransitive DEF Live
    <3>7. T \cup {c} \in SUBSET S
      OBVIOUS
    <3> QED
      BY <3>5, <3>6, <3>7 DEF u
  <2>11. y \in P[S]
    <3> HIDE DEF P, f
    <3> QED
      BY <2>4, <2>7, <2>9, <2>10, FoldIn
  <2>12. Live(y, {t} \X (S \ S)) /\ Same(w, y)
    BY <2>11
  <2>13. Live(y, {})
    BY <2>12, LiveWeaken
  <2> QED
    BY <2>6, <2>12, <2>13, QuietTransitive
<1> QED
  BY <1>1, <1>2

-----------------------------------------------------------------------------
(* What the inductive invariant says of the proxies.                       *)

\* A proxy counts on a channel.
Wants(p, t, c) ==
    /\ p.transport # None
    /\ \/ p.impl[c] = t
       \/ p.transport = t /\ c \in p.chans /\ p.connecting /\ ~p.negotiated

\* The implementation of a channel proxy is the channel of the transport of its
\* content, which has one only when it is negotiated.
Proper(p) ==
    /\ p.transport = None => p = NoProxy
    /\ \A c \in Component : p.impl[c] # None =>
          p.impl[c] = p.transport /\ c \in p.chans /\ p.negotiated

\* Nobody shares the transport of a content that is not negotiated.
Alone(x) ==
    \A n, m \in Content :
        n # m /\ x.tp[n].transport # None /\ ~x.tp[n].negotiated =>
            x.tp[m].transport # x.tp[n].transport

\* ReferencesMatch
Counted(x) ==
    \A t \in Transports, c \in Component :
        Chan(x, t, c).ref = Cardinality(Users(x, t, c))

IsCurrent(x, n, c) ==
    \/ x.tp[n].writable[c] <=>
           x.tp[n].impl[c] # None /\ Chan(x, x.tp[n].impl[c], c).writable
    \/ Posted(x, Update(n, c))

\* ProxyIsCurrent
Current(x) ==
    \A n \in Content, c \in Component : c \in x.tp[n].chans => IsCurrent(x, n, c)

\* What the folds keep, and what the actions keep.
Sound(x) == Live(x, {}) /\ Counted(x) /\ Current(x)

Good(x) == Sound(x) /\ Alone(x) /\ \A n \in Content : Proper(x.tp[n])

\* Every proxy has its type.
LEMMA ProxyType ==
    ASSUME NEW x \in SessionState, NEW n \in Content
    PROVE  /\ x.tp[n] \in Proxy /\ x.tp \in [Content -> Proxy]
           /\ x.tp[n].transport \in Transports \cup {None}
           /\ x.tp[n].impl \in [Component -> Transports \cup {None}]
           /\ x.tp[n].chans \in SUBSET Component
           /\ x.tp[n].writable \in [Component -> BOOLEAN]
           /\ IsFiniteSet(x.tp[n].chans)
           /\ None \notin Transports
<1>1. x.tp[n] \in Proxy /\ x.tp \in [Content -> Proxy]
  BY DEF SessionState
<1>2. None \notin Transports
  BY DEF None, Transports
<1>3. /\ x.tp[n].transport \in Transports \cup {None}
      /\ x.tp[n].impl \in [Component -> Transports \cup {None}]
      /\ x.tp[n].chans \in SUBSET Component
      /\ x.tp[n].writable \in [Component -> BOOLEAN]
  BY <1>1 DEF Proxy
<1>4. IsFiniteSet(x.tp[n].chans)
  BY <1>3, TransportAssumption, FS_Subset
<1> QED
  BY <1>1, <1>2, <1>3, <1>4

\* The users of a channel are the contents that want it, finitely many.
LEMMA UsersFacts ==
    ASSUME NEW x \in SessionState, NEW t, NEW c
    PROVE  /\ Users(x, t, c) = {n \in Content : Wants(x.tp[n], t, c)}
           /\ IsFiniteSet(Users(x, t, c)) /\ Cardinality(Users(x, t, c)) \in Nat
<1>1. Users(x, t, c) = {n \in Content : Wants(x.tp[n], t, c)}
  BY DEF Users, Contents, Wants
<1>2. Users(x, t, c) \in SUBSET Content
  BY <1>1
<1>3. IsFiniteSet(Users(x, t, c))
  BY <1>2, TransportAssumption, FS_Subset
<1> QED
  BY <1>1, <1>3, FS_CardinalityType

\* How the users of a channel change when one proxy does.
LEMMA UsersChange ==
    ASSUME NEW x \in SessionState, NEW y \in SessionState, NEW n \in Content,
           \A m \in Content \ {n} : y.tp[m] = x.tp[m], NEW t, NEW c
    PROVE  /\ (Wants(y.tp[n], t, c) <=> Wants(x.tp[n], t, c)) =>
                  Cardinality(Users(y, t, c)) = Cardinality(Users(x, t, c))
           /\ Wants(y.tp[n], t, c) /\ ~Wants(x.tp[n], t, c) =>
                  Cardinality(Users(y, t, c)) = Cardinality(Users(x, t, c)) + 1
           /\ ~Wants(y.tp[n], t, c) /\ Wants(x.tp[n], t, c) =>
                  Cardinality(Users(y, t, c)) = Cardinality(Users(x, t, c)) - 1
<1> DEFINE U == Users(x, t, c)
           V == Users(y, t, c)
<1>1. U = {m \in Content : Wants(x.tp[m], t, c)} /\ IsFiniteSet(U)
      /\ V = {m \in Content : Wants(y.tp[m], t, c)}
  BY UsersFacts
<1> HIDE DEF U, V
<1>2. ASSUME Wants(y.tp[n], t, c) <=> Wants(x.tp[n], t, c) PROVE V = U
  <2>1. \A m \in Content : Wants(y.tp[m], t, c) <=> Wants(x.tp[m], t, c)
    BY <1>2
  <2> QED
    BY <1>1, <2>1
<1>3. ASSUME Wants(y.tp[n], t, c), ~Wants(x.tp[n], t, c)
      PROVE  V = U \cup {n} /\ n \notin U
  <2>1. \A m \in Content \ {n} : Wants(y.tp[m], t, c) <=> Wants(x.tp[m], t, c)
    OBVIOUS
  <2> QED
    BY <1>1, <1>3, <2>1
<1>4. ASSUME ~Wants(y.tp[n], t, c), Wants(x.tp[n], t, c)
      PROVE  V = U \ {n} /\ n \in U
  <2>1. \A m \in Content \ {n} : Wants(y.tp[m], t, c) <=> Wants(x.tp[m], t, c)
    OBVIOUS
  <2> QED
    BY <1>1, <1>4, <2>1
<1>5. n \notin U => Cardinality(U \cup {n}) = Cardinality(U) + 1
  BY <1>1, FS_AddElement
<1>6. n \in U => Cardinality(U \ {n}) = Cardinality(U) - 1
  BY <1>1, FS_RemoveElement
<1> QED
  BY <1>2, <1>3, <1>4, <1>5, <1>6 DEF U, V

\* A user of a channel has it, and is alone with the last reference.
LEMMA UserHas ==
    ASSUME NEW x \in SessionState, Counted(x), NEW n \in Content,
           NEW t \in Transports, NEW c \in Component, Wants(x.tp[n], t, c)
    PROVE  /\ Has(x, t, c) /\ Chan(x, t, c).ref \in Nat /\ Chan(x, t, c).ref # 0
           /\ Chan(x, t, c).ref = 1 =>
                 \A m \in Content : Wants(x.tp[m], t, c) => m = n
<1> DEFINE U == Users(x, t, c)
<1>1. U = {m \in Content : Wants(x.tp[m], t, c)} /\ IsFiniteSet(U)
      /\ Cardinality(U) \in Nat
  BY UsersFacts
<1>2. Chan(x, t, c).ref = Cardinality(U)
  BY DEF Counted
<1> HIDE DEF U
<1>3. n \in U
  BY <1>1
<1>4. Cardinality(U) # 0
  BY <1>1, <1>3, FS_EmptySet
<1>5. Cardinality(U) = 1 => \A m \in U : m = n
  <2>1. Cardinality(U) = 1 => \E e : U = {e}
    BY <1>1, FS_Singleton
  <2> QED
    BY <1>3, <2>1
<1> QED
  BY <1>1, <1>2, <1>4, <1>5, ChanType

\* The references of a transport that only one content has.
LEMMA AloneCount ==
    ASSUME NEW x, Good(x), NEW n \in Content,
           NEW t \in Transports, x.tp[n].transport = t, ~x.tp[n].negotiated,
           NEW c \in Component
    PROVE  Chan(x, t, c).ref = IF Wants(x.tp[n], t, c) THEN 1 ELSE 0
<1>0. x \in SessionState
  BY DEF Good, Sound, Live
<1> DEFINE U == Users(x, t, c)
<1>1. U = {m \in Content : Wants(x.tp[m], t, c)}
  BY <1>0, UsersFacts
<1>2. Chan(x, t, c).ref = Cardinality(U)
  BY DEF Good, Sound, Counted
<1>3. ASSUME NEW m \in Content, m # n PROVE ~Wants(x.tp[m], t, c)
  <2>1. x.tp[m].transport # t
    BY <1>0, <1>3, ProxyType DEF Good, Alone
  <2>2. x.tp[m].impl[c] # t
    BY <1>0, <2>1, ProxyType DEF Good, Proper
  <2> QED
    BY <2>1, <2>2 DEF Wants
<1> HIDE DEF U
<1>4. Wants(x.tp[n], t, c) => U = {n}
  BY <1>1, <1>3
<1>5. ~Wants(x.tp[n], t, c) => U = {}
  BY <1>1, <1>3
<1> QED
  BY <1>2, <1>4, <1>5, FS_EmptySet, FS_Singleton

\* Of what a proxy does not see nothing follows for it.
LEMMA QuietGood ==
    ASSUME NEW x, NEW y, Quiet(x, y), Live(y, {})
    PROVE  (Sound(x) => Sound(y)) /\ (Good(x) => Good(y))
<1>1. \A t, c : Users(y, t, c) = Users(x, t, c)
  BY DEF Quiet, Users, Contents
<1>2. Counted(x) => Counted(y)
  BY <1>1 DEF Counted, Quiet
<1>3. ASSUME x \in SessionState, Current(x) PROVE Current(y)
  <2> SUFFICES ASSUME NEW n \in Content, NEW c \in Component, c \in y.tp[n].chans
               PROVE  IsCurrent(y, n, c)
    BY DEF Current
  <2>1. IsCurrent(x, n, c) /\ y.tp = x.tp
    BY <1>3 DEF Current, Quiet
  <2>2. Posted(x, Update(n, c)) => Posted(y, Update(n, c))
    BY DEF Quiet, Posted
  <2>3. x.tp[n].impl[c] # None => x.tp[n].impl[c] \in Transports
    BY <1>3, ProxyType
  <2>4. x.tp[n].impl[c] # None => Chan(y, x.tp[n].impl[c], c).writable
                                  = Chan(x, x.tp[n].impl[c], c).writable
    BY <2>3 DEF Quiet
  <2> QED
    BY <2>1, <2>2, <2>4 DEF IsCurrent
<1>4. (Alone(x) => Alone(y)) /\ y.tp = x.tp
  BY DEF Alone, Quiet
<1> QED
  BY <1>2, <1>3, <1>4 DEF Good, Sound, Live

-----------------------------------------------------------------------------
(* The operators on the proxies of one content.                            *)

PutProxy(x, n, p) == [x EXCEPT !.tp[n] = p]

\* PutProxy changes one proxy and nothing else.
LEMMA PutProxyFacts ==
    ASSUME NEW x \in SessionState, NEW n \in Content, NEW p \in Proxy,
           NEW y, y = PutProxy(x, n, p)
    PROVE  /\ y \in SessionState /\ y.tr = x.tr /\ y.sq = x.sq /\ y.wq = x.wq
           /\ y.tp[n] = p /\ \A m \in Content \ {n} : y.tp[m] = x.tp[m]
           /\ \A E : Live(x, E) => Live(y, E)
<1>1. /\ y \in SessionState /\ y.tr = x.tr /\ y.sq = x.sq /\ y.wq = x.wq
      /\ y.tp[n] = p /\ \A m \in Content \ {n} : y.tp[m] = x.tp[m]
  BY DEF PutProxy, SessionState
<1>2. Deleted(x) => Deleted(y)
  BY <1>1 DEF Deleted, Chan
<1>3. Notices(x) => Notices(y)
  BY <1>1 DEF Notices, AllWritable, Has, Chan, Queued
<1>4. ASSUME NEW E, Gathers(x, E) PROVE Gathers(y, E)
  BY <1>1, <1>4 DEF Gathers, Has, Chan, Queued, Posted
<1> QED
  BY <1>1, <1>2, <1>3, <1>4 DEF Live

\* The proxy p with the implementation of its channel c changed.
Pointed(p, c, u) == [p EXCEPT !.impl[c] = u]

Repointed(p, q, c, u) ==
    /\ q \in Proxy /\ q.transport = p.transport /\ q.chans = p.chans
    /\ q.connecting = p.connecting /\ q.negotiated = p.negotiated
    /\ q.writable = p.writable
    /\ q.impl[c] = u /\ \A d \in Component \ {c} : q.impl[d] = p.impl[d]

\* Pointed changes the implementation of one channel proxy.
LEMMA PointedFacts ==
    ASSUME NEW p \in Proxy, NEW c \in Component, NEW u \in Transports \cup {None},
           NEW q, q = Pointed(p, c, u)
    PROVE  Repointed(p, q, c, u)
BY DEF Pointed, Repointed, Proxy

\* From x to y the implementation of a channel proxy becomes u.
Implements(x, y, n, c, u) ==
    /\ Live(y, {}) /\ Posted(y, Update(n, c))
    /\ y.tp[n] = Pointed(x.tp[n], c, u)
    /\ \A m \in Content \ {n} : y.tp[m] = x.tp[m]
    /\ Elements(x.wq) \subseteq Elements(y.wq)
    /\ x.tp[n].impl[c] = None =>
          \A t \in Transports, d \in Component :
              /\ Chan(y, t, d).ref = Chan(x, t, d).ref
              /\ Chan(y, t, d).writable = Chan(x, t, d).writable
    /\ x.tp[n].impl[c] # None =>
          Refers(x, y, x.tp[n].impl[c], c, Chan(x, x.tp[n].impl[c], c).ref - 1)

\* SetImplementation lets go of a channel and posts an update.
LEMMA SetImplLive ==
    ASSUME NEW x, Live(x, {}), NEW n \in Content, NEW c \in Component,
           NEW u \in Transports \cup {None},
           x.tp[n].impl[c] # None => Has(x, x.tp[n].impl[c], c),
           NEW y, y = SetImplementation(x, n, c, u)
    PROVE  Implements(x, y, n, c, u)
<1> DEFINE old == x.tp[n].impl[c]
           z == IF old = None THEN x ELSE DestroyChannel(x, old, c)
           p == Pointed(x.tp[n], c, u)
           w == PutProxy(z, n, p)
           m == Update(n, c)
<1>1. x \in SessionState
  BY DEF Live
<1>2. x.tp[n] \in Proxy /\ old \in Transports \cup {None}
  BY <1>1, ProxyType
<1>3. p \in Proxy
  BY <1>2, PointedFacts DEF Repointed
<1>4. m \in WorkerMessage
  BY Types
<1>5. /\ Live(z, {}) /\ z.tp = x.tp /\ Elements(x.wq) \subseteq Elements(z.wq)
      /\ old = None => z = x
      /\ old # None => Refers(x, z, old, c, Chan(x, old, c).ref - 1)
  <2>1. CASE old = None
    BY <2>1
  <2>2. CASE old # None
    <3>1. Live(z, {}) /\ Recounted(x, z, old, c, Chan(x, old, c).ref - 1)
      <4>1. old \in Transports /\ Has(x, old, c)
        BY <1>2, <2>2
      <4>2. z = DestroyChannel(x, old, c)
        BY <2>2
      <4> HIDE DEF z, old
      <4> QED
        BY <4>1, <4>2, DestroyLive
    <3> HIDE DEF z
    <3> QED
      BY <2>2, <3>1 DEF Recounted
  <2> QED
    BY <2>1, <2>2
<1>6. y = PostWorker(w, m)
  <2>1. w = [z EXCEPT !.tp[n].impl[c] = u]
    <3> HIDE DEF z
    <3>1. p = [z.tp[n] EXCEPT !.impl[c] = u]
      BY <1>5 DEF Pointed
    <3> QED
      BY <3>1 DEF PutProxy
  <2> HIDE DEF w
  <2> QED
    BY <2>1, Zenon DEF SetImplementation, Update
<1> HIDE DEF z, p, m
<1>7. /\ w \in SessionState /\ w.tr = z.tr /\ w.wq = z.wq
      /\ w.tp[n] = p /\ (\A k \in Content \ {n} : w.tp[k] = z.tp[k])
      /\ Live(w, {})
  <2>1. z \in SessionState
    BY <1>5 DEF Live
  <2> QED
    BY <1>3, <1>5, <2>1, PutProxyFacts
<1> HIDE DEF w
<1>8. Live(y, {}) /\ Same(w, y) /\ Posted(y, m)
  BY <1>4, <1>6, <1>7, PostLive, PostWorkerFacts
<1>9. \A t \in Transports, d \in Component :
          /\ Chan(y, t, d).ref = Chan(z, t, d).ref
          /\ Chan(y, t, d).writable = Chan(z, t, d).writable
  BY <1>7, <1>8 DEF Same, Quiet, Chan
<1>10. old # None => Refers(x, y, old, c, Chan(x, old, c).ref - 1)
  BY <1>2, <1>5, <1>9 DEF Refers
<1>11. /\ y.tp[n] = p /\ \A k \in Content \ {n} : y.tp[k] = x.tp[k]
       /\ Elements(x.wq) \subseteq Elements(y.wq)
  BY <1>5, <1>7, <1>8 DEF Same, Quiet
<1> HIDE DEF old
<1> QED
  BY <1>5, <1>8, <1>9, <1>10, <1>11 DEF Implements, old, p, m

\* The channel c of the transport t exists, and was created if it did not.
Present(x, y, t, c) ==
    /\ \A u \in Transports, d \in Component :
          /\ Chan(y, u, d).writable = Chan(x, u, d).writable
          /\ u # t \/ d # c => Chan(y, u, d).ref = Chan(x, u, d).ref
    /\ Chan(x, t, c).ref = 0 => Chan(y, t, c).ref = 1
    /\ Chan(x, t, c).ref # 0 => Chan(y, t, c).ref = Chan(x, t, c).ref

\* A channel that is missing is created with one reference.
LEMMA GetOrCreateLive ==
    ASSUME NEW x, Live(x, {}), NEW n \in Content, NEW c \in Component,
           NEW t \in Transports, t = x.tp[n].transport,
           NEW y, y = GetOrCreateChannelProxyImpl(x, n, c)
    PROVE  /\ Live(y, {}) /\ y.tp = x.tp /\ Present(x, y, t, c)
           /\ Elements(x.wq) \subseteq Elements(y.wq)
<1>1. x \in SessionState /\ (Has(x, t, c) <=> Chan(x, t, c).ref # 0)
      /\ Chan(x, t, c) \in Channel
  BY ChanType DEF Live
<1>2. CASE Has(x, t, c)
  BY <1>1, <1>2 DEF GetOrCreateChannelProxyImpl, Present
<1>3. CASE ~Has(x, t, c)
  <2>1. Live(y, {}) /\ Recounted(x, y, t, c, Chan(x, t, c).ref + 1)
    BY <1>3, CreateLive DEF GetOrCreateChannelProxyImpl
  <2>2. Chan(x, t, c).ref + 1 = 1
    BY <1>1, <1>3
  <2>3. Present(x, y, t, c)
    BY <1>1, <1>3, <2>1, <2>2 DEF Recounted, Refers, Present
  <2> QED
    BY <2>1, <2>3 DEF Recounted
<1> QED
  BY <1>2, <1>3

\* The channel becomes the implementation of its proxy, which had none.
LEMMA HookLive ==
    ASSUME NEW x, Live(x, {}), NEW n \in Content, NEW c \in Component,
           NEW t \in Transports, t = x.tp[n].transport, x.tp[n].impl[c] = None,
           NEW y, y = SetChannelProxyImpl(x, n, c)
    PROVE  /\ Live(y, {}) /\ Posted(y, Update(n, c)) /\ Present(x, y, t, c)
           /\ y.tp[n] = Pointed(x.tp[n], c, t)
           /\ \A m \in Content \ {n} : y.tp[m] = x.tp[m]
           /\ Elements(x.wq) \subseteq Elements(y.wq)
<1> DEFINE z == GetOrCreateChannelProxyImpl(x, n, c)
<1>1. /\ Live(z, {}) /\ z.tp = x.tp /\ Present(x, z, t, c)
      /\ Elements(x.wq) \subseteq Elements(z.wq)
  BY GetOrCreateLive
<1>2. y = SetImplementation(z, n, c, t)
  BY DEF SetChannelProxyImpl
<1> HIDE DEF z
<1>3. z.tp[n].impl[c] = None
  BY <1>1
<1>4. /\ Live(y, {}) /\ Posted(y, Update(n, c))
      /\ y.tp[n] = Pointed(z.tp[n], c, t)
      /\ (\A m \in Content \ {n} : y.tp[m] = z.tp[m])
      /\ Elements(z.wq) \subseteq Elements(y.wq)
      /\ \A u \in Transports, d \in Component :
            /\ Chan(y, u, d).ref = Chan(z, u, d).ref
            /\ Chan(y, u, d).writable = Chan(z, u, d).writable
  <2>1. t \in Transports \cup {None}
    OBVIOUS
  <2>2. z.tp[n].impl[c] # None => Has(z, z.tp[n].impl[c], c)
    BY <1>3
  <2>3. Implements(z, y, n, c, t)
    BY <1>1, <1>2, <2>1, <2>2, SetImplLive
  <2> QED
    BY <1>3, <2>3 DEF Implements
<1>5. Present(x, y, t, c)
  BY <1>1, <1>4 DEF Present
<1> QED
  BY <1>1, <1>4, <1>5

\* What a proxy whose channels and implementation stay sees stays.
LEMMA StaysCurrent ==
    ASSUME NEW x \in SessionState, NEW y \in SessionState,
           NEW n \in Content, NEW c \in Component, IsCurrent(x, n, c),
           y.tp[n].impl[c] = x.tp[n].impl[c],
           y.tp[n].writable[c] = x.tp[n].writable[c],
           x.tp[n].impl[c] # None => Chan(y, x.tp[n].impl[c], c).writable
                                     = Chan(x, x.tp[n].impl[c], c).writable,
           Posted(x, Update(n, c)) => Posted(y, Update(n, c))
    PROVE  IsCurrent(y, n, c)
BY DEF IsCurrent

\* From x to y a content keeps its transport.
Keeps(x, y, n) ==
    /\ y.tp[n].transport = x.tp[n].transport
    /\ x.tp[n].negotiated => y.tp[n].negotiated

\* CompleteNegotiation gives each channel proxy its implementation.
LEMMA CompleteGood ==
    ASSUME NEW x, Good(x), NEW n \in Content, x.tp[n].transport # None,
           NEW y, y = CompleteNegotiation(x, n)
    PROVE  /\ Good(y) /\ y.tp[n].negotiated
           /\ \A m \in Content : Keeps(x, y, m)
<1>1. CASE x.tp[n].negotiated
  BY <1>1 DEF CompleteNegotiation, Keeps
<1>2. CASE ~x.tp[n].negotiated
  <2> DEFINE t == x.tp[n].transport
             S == x.tp[n].chans
             f == [p \in SessionState \X S |-> SetChannelProxyImpl(p[1], n, p[2])]
             z == Fold(x, S, f)
             In(T, v) ==
                 /\ Live(v, {}) /\ Current(v)
                 /\ \A m \in Content \ {n} : v.tp[m] = x.tp[m]
                 /\ v.tp[n].transport = t /\ v.tp[n].chans = S
                 /\ v.tp[n].connecting = x.tp[n].connecting
                 /\ v.tp[n].negotiated = x.tp[n].negotiated
                 /\ \A c \in Component :
                       v.tp[n].impl[c] = IF c \in T THEN t ELSE None
                 /\ \A u \in Transports, d \in Component :
                       /\ Chan(v, u, d).writable = Chan(x, u, d).writable
                       /\ u # t \/ d \notin T =>
                             Chan(v, u, d).ref = Chan(x, u, d).ref
                 /\ \A d \in T : Chan(v, t, d).ref = 1
             P == [T \in SUBSET S |-> {v \in SessionState : In(T, v)}]
  <2>1. x \in SessionState /\ Live(x, {}) /\ Counted(x) /\ Current(x) /\ Alone(x)
        /\ \A m \in Content : Proper(x.tp[m])
    BY DEF Good, Sound, Live
  <2>2. t \in Transports /\ S \in SUBSET Component /\ IsFiniteSet(S)
        /\ None \notin Transports
    BY <2>1, ProxyType
  <2>3. \A c \in Component : x.tp[n].impl[c] = None
    BY <1>2, <2>1 DEF Proper
  <2>4. y = [z EXCEPT !.tp[n].negotiated = TRUE]
    BY <1>2, Zenon DEF CompleteNegotiation, Each
  <2>5. \A c \in Component :
            Chan(x, t, c).ref = IF Wants(x.tp[n], t, c) THEN 1 ELSE 0
    <3> HIDE DEF t
    <3> QED
      BY <1>2, <2>2, AloneCount DEF t
  <2> HIDE DEF t, S
  <2>6. x \in P[{}]
    <3>1. In({}, x)
      BY <2>1, <2>3 DEF t, S
    <3> QED
      BY <2>1, <3>1
  <2>7. ASSUME NEW T \in SUBSET S, NEW c \in S \ T, NEW v \in P[T]
        PROVE  f[<<v, c>>] \in P[T \cup {c}]
    <3> DEFINE w == f[<<v, c>>]
    <3>1. v \in SessionState /\ In(T, v) /\ c \in Component /\ c \in S
      BY <2>2
    <3>2. w = SetChannelProxyImpl(v, n, c)
      BY <3>1
    <3> HIDE DEF f, w, P
    <3>3. /\ Live(w, {}) /\ Posted(w, Update(n, c)) /\ Present(v, w, t, c)
          /\ w.tp[n] = Pointed(v.tp[n], c, t)
          /\ (\A m \in Content \ {n} : w.tp[m] = v.tp[m])
          /\ Elements(v.wq) \subseteq Elements(w.wq)
      BY <2>2, <3>1, <3>2, HookLive
    <3>4. /\ w.tp[n].transport = t /\ w.tp[n].chans = S
          /\ w.tp[n].connecting = x.tp[n].connecting
          /\ w.tp[n].negotiated = x.tp[n].negotiated
          /\ w.tp[n].writable = v.tp[n].writable
          /\ w.tp[n].impl[c] = t
          /\ \A d \in Component \ {c} : w.tp[n].impl[d] = v.tp[n].impl[d]
      <4>1. v.tp[n] \in Proxy
        BY <3>1, ProxyType
      <4>2. Repointed(v.tp[n], w.tp[n], c, t)
        BY <2>2, <3>3, <4>1, PointedFacts
      <4> QED
        BY <3>1, <4>2 DEF Repointed
    <3>5. \A u \in Transports, d \in Component :
              /\ Chan(w, u, d).writable = Chan(v, u, d).writable
              /\ u # t \/ d # c => Chan(w, u, d).ref = Chan(v, u, d).ref
      BY <3>3 DEF Present
    <3>6. Chan(w, t, c).ref = 1
      <4>1. Chan(v, t, c).ref = Chan(x, t, c).ref
        BY <2>2, <3>1
      <4> QED
        BY <2>5, <3>1, <3>3, <4>1 DEF Present
    <3>7. Current(w)
      <4> SUFFICES ASSUME NEW m \in Content, NEW d \in Component, d \in w.tp[m].chans
                   PROVE  IsCurrent(w, m, d)
        BY DEF Current
      <4>1. CASE m = n /\ d = c
        BY <3>3, <4>1 DEF IsCurrent
      <4>2. CASE ~(m = n /\ d = c)
        <5>1. /\ w.tp[m].impl[d] = v.tp[m].impl[d]
              /\ w.tp[m].writable[d] = v.tp[m].writable[d]
              /\ d \in v.tp[m].chans
          BY <3>1, <3>3, <3>4, <4>2
        <5>2. IsCurrent(v, m, d)
          BY <3>1, <5>1 DEF Current
        <5>3. v.tp[m].impl[d] # None => v.tp[m].impl[d] \in Transports
          BY <3>1, ProxyType
        <5>4. w \in SessionState
          BY <3>3 DEF Live
        <5> QED
          BY <3>1, <3>3, <3>5, <5>1, <5>2, <5>3, <5>4, StaysCurrent DEF Posted
      <4> QED
        BY <4>1, <4>2
    <3>8. In(T \cup {c}, w)
      <4>1. \A d \in Component :
                w.tp[n].impl[d] = IF d \in T \cup {c} THEN t ELSE None
        BY <3>1, <3>4
      <4>2. \A u \in Transports, d \in Component :
                /\ Chan(w, u, d).writable = Chan(x, u, d).writable
                /\ u # t \/ d \notin T \cup {c} =>
                      Chan(w, u, d).ref = Chan(x, u, d).ref
        BY <3>1, <3>5
      <4>3. \A d \in T \cup {c} : Chan(w, t, d).ref = 1
        BY <2>2, <3>1, <3>5, <3>6
      <4>4. \A m \in Content \ {n} : w.tp[m] = x.tp[m]
        BY <3>1, <3>3
      <4> QED
        BY <3>3, <3>4, <3>7, <4>1, <4>2, <4>3, <4>4
    <3>9. w \in SessionState /\ T \cup {c} \in SUBSET S
      BY <3>3 DEF Live
    <3> HIDE DEF In
    <3> QED
      BY <3>8, <3>9 DEF P, w
  <2>8. z \in P[S]
    <3> HIDE DEF P, f
    <3> QED
      BY <2>2, <2>6, <2>7, FoldIn
  <2> HIDE DEF z
  <2>9. z \in SessionState /\ In(S, z)
    BY <2>8
  <2> DEFINE q == [z.tp[n] EXCEPT !.negotiated = TRUE]
  <2>10. y = PutProxy(z, n, q)
    BY <2>4 DEF PutProxy
  <2>11. z.tp[n] \in Proxy
    BY <2>9, ProxyType
  <2>12. /\ q \in Proxy /\ q.transport = z.tp[n].transport /\ q.chans = z.tp[n].chans
         /\ q.impl = z.tp[n].impl /\ q.writable = z.tp[n].writable /\ q.negotiated
    BY <2>11 DEF Proxy
  <2> HIDE DEF q
  <2>13. /\ y \in SessionState /\ y.tr = z.tr /\ y.wq = z.wq /\ Live(y, {})
         /\ y.tp[n] = q /\ \A m \in Content \ {n} : y.tp[m] = z.tp[m]
    <3>1. Live(z, {})
      BY <2>9
    <3> HIDE DEF In
    <3> QED
      BY <2>9, <2>10, <2>12, <3>1, PutProxyFacts
  <2>14. \A m \in Content, d \in Component :
             /\ y.tp[m].impl[d] = z.tp[m].impl[d]
             /\ y.tp[m].writable[d] = z.tp[m].writable[d]
             /\ y.tp[m].chans = z.tp[m].chans
    BY <2>12, <2>13
  <2>15. \A u \in Transports, d \in Component : Chan(y, u, d) = Chan(z, u, d)
    BY <2>13 DEF Chan
  <2>16. Current(y)
    <3>1. Current(z)
      BY <2>9
    <3> HIDE DEF In
    <3> SUFFICES ASSUME NEW m \in Content, NEW d \in Component, d \in y.tp[m].chans
                 PROVE  IsCurrent(y, m, d)
      BY DEF Current
    <3>2. IsCurrent(z, m, d)
      BY <2>14, <3>1 DEF Current
    <3>3. z.tp[m].impl[d] # None => z.tp[m].impl[d] \in Transports
      BY <2>9, ProxyType
    <3> QED
      BY <2>9, <2>13, <2>14, <2>15, <3>2, <3>3, StaysCurrent DEF Posted
  <2>17. Counted(y)
    <3> SUFFICES ASSUME NEW u \in Transports, NEW d \in Component
                 PROVE  Chan(y, u, d).ref = Cardinality(Users(y, u, d))
      BY DEF Counted
    <3>1. \A m \in Content \ {n} : y.tp[m] = x.tp[m]
      BY <2>9, <2>13
    <3>2. Chan(x, u, d).ref = Cardinality(Users(x, u, d))
      BY <2>1 DEF Counted
    <3>3. Wants(y.tp[n], u, d) <=> u = t /\ d \in S
      BY <2>2, <2>9, <2>12, <2>13 DEF Wants
    <3>4. ~(u = t /\ d \in S) => ~Wants(x.tp[n], u, d)
      BY <2>2, <2>3 DEF Wants, t, S
    <3>5. Chan(y, u, d).ref = IF u = t /\ d \in S THEN 1 ELSE Chan(x, u, d).ref
      BY <2>9, <2>15
    <3>6. CASE u = t /\ d \in S
      <4>1. Cardinality(Users(x, u, d)) = IF Wants(x.tp[n], t, d) THEN 1 ELSE 0
        BY <2>5, <3>2, <3>6
      <4> QED
        BY <2>1, <2>13, <3>1, <3>3, <3>5, <3>6, <4>1, UsersChange
    <3>7. CASE ~(u = t /\ d \in S)
      BY <2>1, <2>13, <3>1, <3>2, <3>3, <3>4, <3>5, <3>7, UsersChange
    <3> QED
      BY <3>6, <3>7
  <2>18. \A m \in Content : y.tp[m].transport = x.tp[m].transport
             /\ (y.tp[m].negotiated <=> x.tp[m].negotiated \/ m = n)
    BY <2>9, <2>12, <2>13 DEF t
  <2>19. Alone(y)
    BY <2>1, <2>18 DEF Alone
  <2>20. \A m \in Content : Proper(y.tp[m])
    <3>1. Proper(y.tp[n])
      BY <2>2, <2>9, <2>12, <2>13 DEF Proper
    <3> QED
      BY <2>1, <2>9, <2>13, <3>1
  <2> QED
    BY <2>12, <2>13, <2>16, <2>17, <2>18, <2>19, <2>20 DEF Good, Sound, Keeps
<1> QED
  BY <1>1, <1>2

\* A transport is asked to connect, and its channels are created first.
LEMMA ConnectGood ==
    ASSUME NEW x, Good(x), NEW n \in Content, x.tp[n].transport # None,
           NEW y, y = ConnectChannels(x, n)
    PROVE  Good(y) /\ \A m \in Content : Keeps(x, y, m)
<1> DEFINE t == x.tp[n].transport
           S == IF x.tp[n].connecting \/ x.tp[n].negotiated THEN {}
                ELSE x.tp[n].chans
           f == [p \in SessionState \X x.tp[n].chans |->
                    GetOrCreateChannelProxyImpl(p[1], n, p[2])]
           z == IF x.tp[n].connecting \/ x.tp[n].negotiated THEN x
                ELSE Fold(x, x.tp[n].chans, f)
           q == [z.tp[n] EXCEPT !.connecting = TRUE]
           w == PutProxy(z, n, q)
           In(T, v) ==
               /\ Live(v, {}) /\ v.tp = x.tp /\ Elements(x.wq) \subseteq Elements(v.wq)
               /\ \A u \in Transports, d \in Component :
                     /\ Chan(v, u, d).writable = Chan(x, u, d).writable
                     /\ u # t \/ d \notin T => Chan(v, u, d).ref = Chan(x, u, d).ref
               /\ \A d \in T : Chan(v, t, d).ref = 1
<1>1. x \in SessionState /\ Live(x, {}) /\ Counted(x) /\ Current(x) /\ Alone(x)
      /\ \A m \in Content : Proper(x.tp[m])
  BY DEF Good, Sound, Live
<1>2. /\ t \in Transports /\ S \in SUBSET Component /\ IsFiniteSet(S)
      /\ x.tp[n].chans \in SUBSET Component /\ IsFiniteSet(x.tp[n].chans)
      /\ None \notin Transports /\ x.tp[n] \in Proxy
  BY <1>1, ProxyType, FS_EmptySet
<1>3. y = ConnectTransport(w, t)
  BY Zenon DEF ConnectChannels, Each, PutProxy
<1>4. \A c \in S : Chan(x, t, c).ref = 0
  <2> SUFFICES ASSUME NEW c \in S, S # {} PROVE Chan(x, t, c).ref = 0
    OBVIOUS
  <2>1. ~x.tp[n].connecting /\ ~x.tp[n].negotiated /\ c \in Component
    BY <1>2
  <2>2. ~Wants(x.tp[n], t, c)
    BY <1>1, <1>2, <2>1 DEF Wants, Proper
  <2> HIDE DEF t
  <2> QED
    BY <1>2, <2>1, <2>2, AloneCount DEF t
<1> HIDE DEF t
<1>5. In(S, z)
  <2>1. CASE x.tp[n].connecting \/ x.tp[n].negotiated
    BY <1>1, <2>1
  <2>2. CASE ~(x.tp[n].connecting \/ x.tp[n].negotiated)
    <3>1. S = x.tp[n].chans /\ z = Fold(x, S, f) /\ f = [p \in SessionState \X S |->
                                    GetOrCreateChannelProxyImpl(p[1], n, p[2])]
      BY <2>2
    <3> DEFINE P == [T \in SUBSET S |-> {v \in SessionState : In(T, v)}]
    <3> HIDE DEF S, f, z
    <3>2. x \in P[{}]
      <4>1. In({}, x)
        BY <1>1
      <4> QED
        BY <1>1, <4>1
    <3>3. ASSUME NEW T \in SUBSET S, NEW c \in S \ T, NEW v \in P[T]
          PROVE  f[<<v, c>>] \in P[T \cup {c}]
      <4> DEFINE g == f[<<v, c>>]
      <4>1. v \in SessionState /\ In(T, v) /\ c \in Component /\ c \in S
        BY <1>2
      <4>2. g = GetOrCreateChannelProxyImpl(v, n, c)
        BY <3>1, <4>1
      <4> HIDE DEF g, P
      <4>3. /\ Live(g, {}) /\ g.tp = v.tp /\ Present(v, g, t, c)
            /\ Elements(v.wq) \subseteq Elements(g.wq)
        <5>1. t = v.tp[n].transport
          BY <4>1 DEF t
        <5> QED
          BY <1>2, <4>1, <4>2, <5>1, GetOrCreateLive
      <4>4. \A u \in Transports, d \in Component :
                /\ Chan(g, u, d).writable = Chan(v, u, d).writable
                /\ u # t \/ d # c => Chan(g, u, d).ref = Chan(v, u, d).ref
        BY <4>3 DEF Present
      <4>5. Chan(g, t, c).ref = 1
        <5>1. Chan(v, t, c).ref = 0
          BY <1>2, <1>4, <4>1
        <5> QED
          BY <4>3, <5>1 DEF Present
      <4>6. In(T \cup {c}, g)
        <5>1. \A u \in Transports, d \in Component :
                  /\ Chan(g, u, d).writable = Chan(x, u, d).writable
                  /\ u # t \/ d \notin T \cup {c} =>
                        Chan(g, u, d).ref = Chan(x, u, d).ref
          BY <4>1, <4>4
        <5>2. \A d \in T \cup {c} : Chan(g, t, d).ref = 1
          BY <1>2, <4>1, <4>4, <4>5
        <5> QED
          BY <4>1, <4>3, <5>1, <5>2
      <4>7. g \in SessionState /\ T \cup {c} \in SUBSET S
        BY <4>3 DEF Live
      <4> HIDE DEF In
      <4> QED
        BY <4>6, <4>7 DEF P, g
    <3>4. z \in P[S]
      <4> HIDE DEF P
      <4> QED
        BY <1>2, <3>1, <3>2, <3>3, FoldIn
    <3> QED
      BY <3>4
  <2> QED
    BY <2>1, <2>2
<1> HIDE DEF z
<1>6. z \in SessionState /\ z.tp = x.tp /\ Live(z, {})
  BY <1>5 DEF Live
<1>7. /\ q \in Proxy /\ q.transport = t /\ q.chans = x.tp[n].chans
      /\ q.impl = x.tp[n].impl /\ q.writable = x.tp[n].writable
      /\ q.negotiated = x.tp[n].negotiated /\ q.connecting
  BY <1>2, <1>6 DEF Proxy, t
<1> HIDE DEF q, S
<1>8. /\ w \in SessionState /\ w.tr = z.tr /\ w.wq = z.wq /\ Live(w, {})
      /\ w.tp[n] = q /\ \A m \in Content \ {n} : w.tp[m] = x.tp[m]
  <2> HIDE DEF In
  <2> QED
    BY <1>6, <1>7, PutProxyFacts
<1> HIDE DEF w
<1>9. \A u \in Transports, d \in Component : Chan(w, u, d) = Chan(z, u, d)
  BY <1>8 DEF Chan
<1>10. \A m \in Content : /\ w.tp[m].transport = x.tp[m].transport
                          /\ w.tp[m].negotiated = x.tp[m].negotiated
                          /\ w.tp[m].impl = x.tp[m].impl
                          /\ w.tp[m].writable = x.tp[m].writable
                          /\ w.tp[m].chans = x.tp[m].chans
  BY <1>7, <1>8 DEF t
<1>11. Counted(w)
  <2> SUFFICES ASSUME NEW u \in Transports, NEW d \in Component
               PROVE  Chan(w, u, d).ref = Cardinality(Users(w, u, d))
    BY DEF Counted
  <2>1. Chan(x, u, d).ref = Cardinality(Users(x, u, d))
    BY <1>1 DEF Counted
  <2>2. Chan(w, u, d).ref = IF u = t /\ d \in S THEN 1 ELSE Chan(x, u, d).ref
    BY <1>5, <1>9
  <2>3. CASE u = t /\ d \in S
    <3>1. ~Wants(x.tp[n], u, d) /\ Wants(w.tp[n], u, d)
      BY <1>1, <1>2, <1>7, <1>8, <2>3 DEF Wants, Proper, S, t
    <3>2. Cardinality(Users(w, u, d)) = Cardinality(Users(x, u, d)) + 1
      BY <1>1, <1>8, <3>1, UsersChange
    <3> QED
      BY <1>4, <2>1, <2>2, <2>3, <3>2
  <2>4. CASE ~(u = t /\ d \in S)
    <3>1. Wants(x.tp[n], u, d) <=> Wants(w.tp[n], u, d)
      BY <1>2, <1>7, <1>8, <2>4 DEF Wants, S, t
    <3>2. Cardinality(Users(w, u, d)) = Cardinality(Users(x, u, d))
      BY <1>1, <1>8, <3>1, UsersChange
    <3> QED
      BY <2>1, <2>2, <2>4, <3>2
  <2> QED
    BY <2>3, <2>4
<1>12. Current(w)
  <2> SUFFICES ASSUME NEW m \in Content, NEW d \in Component, d \in w.tp[m].chans
               PROVE  IsCurrent(w, m, d)
    BY DEF Current
  <2>1. IsCurrent(x, m, d)
    BY <1>1, <1>10 DEF Current
  <2>2. x.tp[m].impl[d] # None => x.tp[m].impl[d] \in Transports
    BY <1>1, ProxyType
  <2>3. x.tp[m].impl[d] # None => Chan(w, x.tp[m].impl[d], d).writable
                                  = Chan(x, x.tp[m].impl[d], d).writable
    BY <1>5, <1>9, <2>2
  <2>4. Posted(x, Update(m, d)) => Posted(w, Update(m, d))
    BY <1>5, <1>8 DEF Posted
  <2> QED
    BY <1>1, <1>8, <1>10, <2>1, <2>3, <2>4, StaysCurrent
<1>13. Alone(w)
  BY <1>1, <1>10 DEF Alone
<1>14. \A m \in Content : Proper(w.tp[m])
  <2>1. Proper(w.tp[n])
    BY <1>1, <1>2, <1>7, <1>8 DEF Proper, t
  <2> QED
    BY <1>1, <1>8, <2>1
<1>15. Good(w)
  BY <1>8, <1>11, <1>12, <1>13, <1>14 DEF Good, Sound
<1>16. Live(y, {}) /\ Quiet(w, y)
  BY <1>2, <1>3, <1>8, ConnectLive
<1> QED
  BY <1>10, <1>15, <1>16, QuietGood DEF Keeps, Quiet

\* Removing messages from a queue leaves all the others.
LEMMA RemoveElements ==
    ASSUME NEW S, NEW q \in Seq(S), NEW M
    PROVE  Remove(q, M) \in Seq(S)
           /\ \A e : e \in Elements(q) /\ e \notin M => e \in Elements(Remove(q, M))
BY RemoveFacts DEF Elements

\* A transport that nobody has is deleted, and what it posted is forgotten.
LEMMA ReleaseGood ==
    ASSUME NEW x, Good(x), NEW t \in Transports, NEW y, y = Release(x, t)
    PROVE  Good(y) /\ y.tp = x.tp
<1>1. x \in SessionState /\ Deleted(x) /\ Gathers(x, {}) /\ Notices(x)
      /\ Counted(x) /\ Current(x) /\ Alone(x)
      /\ \A m \in Content : Proper(x.tp[m])
  BY DEF Good, Sound, Live
<1>2. CASE \E n \in Content : x.tp[n].transport = t
  BY <1>2 DEF Release
<1>3. CASE ~\E n \in Content : x.tp[n].transport = t
  <2> DEFINE M == {m \in Message : m.type # "update" /\ m.t = t}
             r == NewTransport
  <2>1. /\ Remove(x.sq, M) \in Seq(SignalingMessage)
        /\ Remove(x.wq, M) \in Seq(WorkerMessage)
        /\ \A m : m \notin M => /\ Queued(x, m) => m \in Elements(Remove(x.sq, M))
                                /\ Posted(x, m) => m \in Elements(Remove(x.wq, M))
    <3>1. x.sq \in Seq(SignalingMessage) /\ x.wq \in Seq(WorkerMessage)
      BY <1>1 DEF SessionState
    <3> HIDE DEF M
    <3> QED
      BY <3>1, RemoveElements DEF Queued, Posted
  <2>2. y = [x EXCEPT !.tr[t] = r, !.sq = Remove(@, M), !.wq = Remove(@, M)]
    BY <1>3, Zenon DEF Release
  <2>3. r \in TransportState /\ \A c \in Component : r.chan[c] = NoChannel
    BY Types DEF NewTransport
  <2>4. \A c \in Component : Chan(x, t, c) = NoChannel
    <3> SUFFICES ASSUME NEW c \in Component PROVE Chan(x, t, c) = NoChannel
      OBVIOUS
    <3>1. \A m \in Content : ~Wants(x.tp[m], t, c)
      BY <1>1, <1>3 DEF Wants, Proper, None, Transports
    <3>2. Users(x, t, c) = {}
      BY <1>1, <3>1, UsersFacts
    <3> QED
      BY <1>1, <3>2, FS_EmptySet DEF Counted, Deleted
  <2>5. /\ \A u \in Transports, c \in Component :
              u # t => Request(u, c) \notin M /\ Ready(u) \notin M /\ Write(u) \notin M
        /\ \A n \in Content, c \in Component : Update(n, c) \notin M
    BY DEF Request, Ready, Write, Update
  <2> HIDE DEF M, r
  <2>6. /\ y \in SessionState /\ y.tp = x.tp /\ y.sq = Remove(x.sq, M)
        /\ y.wq = Remove(x.wq, M) /\ y.tr = [x.tr EXCEPT ![t] = r]
    <3> DEFINE g == [x.tr EXCEPT ![t] = r]
               a == Remove(x.sq, M)
               b == Remove(x.wq, M)
    <3>1. g \in [Transports -> TransportState]
      BY <1>1, <2>3 DEF SessionState
    <3>2. a \in Seq(SignalingMessage) /\ b \in Seq(WorkerMessage)
      BY <2>1
    <3>3. y = [x EXCEPT !.tr = g, !.sq = a, !.wq = b]
      BY <2>2
    <3> HIDE DEF g, a, b
    <3>4. /\ y \in SessionState /\ y.tp = x.tp /\ y.sq = a /\ y.wq = b /\ y.tr = g
      BY <1>1, <3>1, <3>2, <3>3 DEF SessionState
    <3> QED
      BY <3>4 DEF g, a, b
  <2>7. \A u \in Transports, c \in Component : Chan(y, u, c) = Chan(x, u, c)
    <3> SUFFICES ASSUME NEW u \in Transports, NEW c \in Component
                 PROVE  Chan(y, u, c) = Chan(x, u, c)
      OBVIOUS
    <3>1. x.tr \in [Transports -> TransportState]
      BY <1>1 DEF SessionState
    <3>2. CASE u = t
      BY <2>3, <2>4, <2>6, <3>1, <3>2 DEF Chan
    <3>3. CASE u # t
      BY <2>6, <3>1, <3>3 DEF Chan
    <3> QED
      BY <3>2, <3>3
  <2>8. \A u \in Transports : u # t => y.tr[u] = x.tr[u]
    BY <1>1, <2>6 DEF SessionState
  <2>9. ~NoChannel.waiting /\ NoChannel.ref = 0
    BY DEF NoChannel
  <2>10. Deleted(y)
    BY <1>1, <2>7 DEF Deleted
  <2>11. Gathers(y, {})
    <3> SUFFICES ASSUME NEW u \in Transports, NEW c \in Component
                 PROVE  /\ Has(y, u, c) /\ y.tr[u].connect =>
                               Chan(y, u, c).gather # "none" \/ Chan(y, u, c).waiting
                        /\ Chan(y, u, c).waiting =>
                               Queued(y, Request(u, c)) \/ Posted(y, Ready(u))
      BY DEF Gathers
    <3>1. Has(y, u, c) <=> Has(x, u, c)
      BY <2>7 DEF Has, Chan
    <3>2. CASE u = t
      <4>1. Chan(y, t, c) = NoChannel
        BY <2>4, <2>7
      <4>2. ~Has(y, t, c)
        BY <2>9, <4>1 DEF Has, Chan
      <4> QED
        BY <2>9, <3>2, <4>1, <4>2
    <3>3. CASE u # t
      <4>1. /\ Queued(x, Request(u, c)) => Queued(y, Request(u, c))
            /\ Posted(x, Ready(u)) => Posted(y, Ready(u))
        BY <2>1, <2>5, <2>6, <3>3 DEF Queued, Posted
      <4> QED
        BY <1>1, <2>7, <2>8, <3>1, <3>3, <4>1 DEF Gathers
    <3> QED
      BY <3>2, <3>3
  <2>12. Notices(y)
    <3> SUFFICES ASSUME NEW u \in Transports, AllWritable(y, u)
                 PROVE  y.tr[u].writable = "all" \/ Queued(y, Write(u))
      BY DEF Notices
    <3>1. \A c \in Component : Has(y, u, c) <=> Has(x, u, c)
      BY <2>7 DEF Has, Chan
    <3>2. AllWritable(x, u)
      BY <2>7, <3>1 DEF AllWritable
    <3>3. u # t
      BY <2>4, <2>9, <3>2 DEF AllWritable, Has, Chan
    <3>4. Queued(x, Write(u)) => Queued(y, Write(u))
      <4>1. PICK c \in Component : Has(x, u, c)
        BY <3>2 DEF AllWritable
      <4> QED
        BY <2>1, <2>5, <2>6, <3>3 DEF Queued
    <3> QED
      BY <1>1, <2>8, <3>2, <3>3, <3>4 DEF Notices
  <2>13. Counted(y)
    BY <1>1, <2>6, <2>7 DEF Counted, Users, Contents
  <2>14. Current(y)
    <3> SUFFICES ASSUME NEW m \in Content, NEW d \in Component, d \in y.tp[m].chans
                 PROVE  IsCurrent(y, m, d)
      BY DEF Current
    <3>1. IsCurrent(x, m, d)
      BY <1>1, <2>6 DEF Current
    <3>2. x.tp[m].impl[d] # None => x.tp[m].impl[d] \in Transports
      BY <1>1, ProxyType
    <3>3. Posted(x, Update(m, d)) => Posted(y, Update(m, d))
      BY <2>1, <2>5, <2>6 DEF Posted
    <3> QED
      BY <1>1, <2>6, <2>7, <3>1, <3>2, <3>3, StaysCurrent
  <2> QED
    BY <1>1, <2>6, <2>10, <2>11, <2>12, <2>13, <2>14 DEF Good, Sound, Live, Alone
<1> QED
  BY <1>2, <1>3

\* A channel proxy is moved to the channel of another transport, which then has
\* one reference more, or is left without if there is no such channel.
Repoint(y, n, t, c) ==
    IF Has(y, t, c) THEN SetImplementation(CreateChannel(y, t, c), n, c, t)
    ELSE SetImplementation(y, n, c, None)

\* Every step of SetupMux moves one reference with the proxy that it moves.
LEMMA RepointSound ==
    ASSUME NEW x, Sound(x), NEW n \in Content, NEW t \in Transports,
           NEW c \in Component, \A m \in Content \ {n} : Proper(x.tp[m]),
           x.tp[n].transport # None, x.tp[n].negotiated, x.tp[n].impl[c] # t,
           NEW y, y = Repoint(x, n, t, c)
    PROVE  /\ Sound(y)
           /\ \E u \in {t, None} : y.tp[n] = Pointed(x.tp[n], c, u)
           /\ \A m \in Content \ {n} : y.tp[m] = x.tp[m]
<1> DEFINE old == x.tp[n].impl[c]
           u == IF Has(x, t, c) THEN t ELSE None
           z == IF Has(x, t, c) THEN CreateChannel(x, t, c) ELSE x
<1>1. x \in SessionState /\ Live(x, {}) /\ Counted(x) /\ Current(x)
  BY DEF Sound, Live
<1>2. old \in Transports \cup {None} /\ None \notin Transports /\ old # t
      /\ x.tp[n] \in Proxy
  BY <1>1, ProxyType
<1>3. Chan(x, t, c).ref \in Nat
  BY <1>1, ChanType
<1>4. /\ Live(z, {}) /\ z.tp = x.tp /\ Elements(x.wq) \subseteq Elements(z.wq)
      /\ \A v \in Transports, d \in Component :
            /\ Chan(z, v, d).writable = Chan(x, v, d).writable
            /\ v # t \/ d # c => Chan(z, v, d).ref = Chan(x, v, d).ref
      /\ u = t => Chan(z, t, c).ref = Chan(x, t, c).ref + 1
      /\ u = None => Chan(z, t, c).ref = Chan(x, t, c).ref
  <2>1. CASE ~Has(x, t, c)
    BY <1>1, <1>2, <2>1
  <2>2. CASE Has(x, t, c)
    <3>1. Live(z, {}) /\ Recounted(x, z, t, c, Chan(x, t, c).ref + 1)
      <4>1. z = CreateChannel(x, t, c)
        BY <2>2
      <4> HIDE DEF z
      <4> QED
        BY <1>1, <4>1, CreateLive
    <3>2. Chan(x, t, c).ref + 1 # 0 /\ u = t /\ u # None
      BY <1>2, <1>3, <2>2
    <3> HIDE DEF z
    <3> QED
      BY <3>1, <3>2 DEF Recounted, Refers
  <2> QED
    BY <2>1, <2>2
<1>5. y = SetImplementation(z, n, c, u)
  BY DEF Repoint
<1>6. u \in Transports \cup {None} /\ u \in {t, None}
  OBVIOUS
<1> HIDE DEF u, z
<1>7. old # None => Wants(x.tp[n], old, c)
  BY DEF Wants
<1> HIDE DEF old
<1>8. old # None => Has(z, old, c) /\ Chan(z, old, c).ref = Chan(x, old, c).ref
  <2> SUFFICES ASSUME old # None
               PROVE  Has(z, old, c) /\ Chan(z, old, c).ref = Chan(x, old, c).ref
    OBVIOUS
  <2>1. Has(x, old, c)
    BY <1>1, <1>2, <1>7, UserHas
  <2>2. Chan(z, old, c).ref = Chan(x, old, c).ref
    BY <1>2, <1>4
  <2> QED
    BY <2>1, <2>2 DEF Has, Chan
<1>9. Implements(z, y, n, c, u)
  <2>1. z.tp[n].impl[c] = old
    BY <1>4 DEF old
  <2> QED
    BY <1>4, <1>5, <1>6, <1>8, <2>1, SetImplLive
<1>10. /\ Live(y, {}) /\ y \in SessionState /\ Posted(y, Update(n, c))
       /\ y.tp[n] = Pointed(x.tp[n], c, u)
       /\ (\A m \in Content \ {n} : y.tp[m] = x.tp[m])
       /\ Elements(x.wq) \subseteq Elements(y.wq)
  BY <1>4, <1>9 DEF Implements, Live
<1>11. old = None => \A v \in Transports, d \in Component :
                         /\ Chan(y, v, d).ref = Chan(z, v, d).ref
                         /\ Chan(y, v, d).writable = Chan(z, v, d).writable
  BY <1>4, <1>9 DEF Implements, old
<1>12. old # None => Refers(z, y, old, c, Chan(x, old, c).ref - 1)
  BY <1>4, <1>8, <1>9 DEF Implements, old
<1>13. /\ y.tp[n].transport = x.tp[n].transport /\ y.tp[n].chans = x.tp[n].chans
       /\ y.tp[n].negotiated = x.tp[n].negotiated
       /\ y.tp[n].writable = x.tp[n].writable
       /\ y.tp[n].impl[c] = u
       /\ \A d \in Component \ {c} : y.tp[n].impl[d] = x.tp[n].impl[d]
  <2>1. x.tp[n] \in Proxy /\ y.tp[n] = Pointed(x.tp[n], c, u)
    BY <1>2, <1>10
  <2>2. Repointed(x.tp[n], y.tp[n], c, u)
    BY <1>6, <2>1, PointedFacts
  <2> QED
    BY <2>2 DEF Repointed
<1>14. Counted(y)
  <2> SUFFICES ASSUME NEW v \in Transports, NEW d \in Component
               PROVE  Chan(y, v, d).ref = Cardinality(Users(y, v, d))
    BY DEF Counted
  <2>1. Chan(x, v, d).ref = Cardinality(Users(x, v, d)) /\ Chan(x, v, d).ref \in Nat
    BY <1>1, ChanType DEF Counted
  <2>2. Wants(x.tp[n], v, d) <=> x.tp[n].impl[d] = v
    BY DEF Wants
  <2>3. Wants(y.tp[n], v, d) <=> y.tp[n].impl[d] = v
    BY <1>13 DEF Wants
  <2>4. CASE d # c
    <3>1. Wants(y.tp[n], v, d) <=> Wants(x.tp[n], v, d)
      BY <1>13, <2>2, <2>3, <2>4
    <3>2. Chan(y, v, d).ref = Chan(x, v, d).ref
      BY <1>4, <1>11, <1>12, <2>4 DEF Refers
    <3> QED
      BY <1>1, <1>10, <2>1, <3>1, <3>2, UsersChange
  <2>5. CASE d = c /\ v = t
    <3>1. ~Wants(x.tp[n], v, d) /\ (Wants(y.tp[n], v, d) <=> u = t)
      BY <1>13, <2>2, <2>3, <2>5
    <3>2. Chan(y, v, d).ref = Chan(z, v, d).ref
      BY <1>2, <1>11, <1>12, <2>5 DEF Refers
    <3>3. CASE u = t
      <4>1. Cardinality(Users(y, v, d)) = Cardinality(Users(x, v, d)) + 1
        BY <1>1, <1>10, <3>1, <3>3, UsersChange
      <4> QED
        BY <1>4, <2>1, <2>5, <3>2, <3>3, <4>1
    <3>4. CASE u = None
      <4>1. Cardinality(Users(y, v, d)) = Cardinality(Users(x, v, d))
        BY <1>1, <1>2, <1>10, <3>1, <3>4, UsersChange
      <4> QED
        BY <1>4, <2>1, <2>5, <3>2, <3>4, <4>1
    <3> QED
      BY <1>6, <3>3, <3>4
  <2>6. CASE d = c /\ v # t /\ v = old
    <3>1. Wants(x.tp[n], v, d) /\ ~Wants(y.tp[n], v, d)
      BY <1>2, <1>6, <1>13, <2>2, <2>3, <2>6 DEF old
    <3>2. Cardinality(Users(y, v, d)) = Cardinality(Users(x, v, d)) - 1
      BY <1>1, <1>10, <3>1, UsersChange
    <3>3. Chan(y, v, d).ref = Chan(x, v, d).ref - 1
      BY <1>2, <1>12, <2>6 DEF Refers
    <3> QED
      BY <2>1, <3>2, <3>3
  <2>7. CASE d = c /\ v # t /\ v # old
    <3>1. ~Wants(x.tp[n], v, d) /\ ~Wants(y.tp[n], v, d)
      BY <1>2, <1>6, <1>13, <2>2, <2>3, <2>7 DEF old
    <3>2. Cardinality(Users(y, v, d)) = Cardinality(Users(x, v, d))
      BY <1>1, <1>10, <3>1, UsersChange
    <3>3. Chan(y, v, d).ref = Chan(x, v, d).ref
      BY <1>4, <1>11, <1>12, <2>7 DEF Refers
    <3> QED
      BY <2>1, <3>2, <3>3
  <2> QED
    BY <2>4, <2>5, <2>6, <2>7
<1>15. Current(y)
  <2> SUFFICES ASSUME NEW m \in Content, NEW d \in Component, d \in y.tp[m].chans
               PROVE  IsCurrent(y, m, d)
    BY DEF Current
  <2>1. CASE m = n /\ d = c
    BY <1>10, <2>1 DEF IsCurrent
  <2>2. CASE m # n \/ d # c
    <3>1. /\ y.tp[m].impl[d] = x.tp[m].impl[d]
          /\ y.tp[m].writable[d] = x.tp[m].writable[d]
          /\ d \in x.tp[m].chans
      BY <1>10, <1>13, <2>2
    <3>2. IsCurrent(x, m, d)
      BY <1>1, <3>1 DEF Current
    <3>3. ASSUME x.tp[m].impl[d] # None
          PROVE  Chan(y, x.tp[m].impl[d], d).writable
                 = Chan(x, x.tp[m].impl[d], d).writable
      <4>1. x.tp[m].impl[d] \in Transports
        BY <1>1, <3>3, ProxyType
      <4>2. Chan(z, x.tp[m].impl[d], d).writable = Chan(x, x.tp[m].impl[d], d).writable
        BY <1>4, <4>1
      <4>3. CASE old = None
        BY <1>11, <4>1, <4>2, <4>3
      <4>4. CASE old # None
        <5>1. CASE x.tp[m].impl[d] # old \/ d # c
          BY <1>12, <4>1, <4>2, <4>4, <5>1 DEF Refers
        <5>2. CASE x.tp[m].impl[d] = old /\ d = c
          <6>1. Wants(x.tp[m], old, c)
            BY <1>2, <2>2, <4>4, <5>2 DEF Wants, Proper
          <6>2. Chan(x, old, c).ref # 1 /\ Chan(x, old, c).ref \in Nat
            BY <1>1, <1>2, <1>7, <2>2, <4>4, <5>2, <6>1, UserHas
          <6>3. Chan(x, old, c).ref - 1 # 0
            BY <6>2
          <6> QED
            BY <1>12, <4>2, <4>4, <5>2, <6>3 DEF Refers
        <5> QED
          BY <5>1, <5>2
      <4> QED
        BY <4>3, <4>4
    <3>4. Posted(x, Update(m, d)) => Posted(y, Update(m, d))
      BY <1>10 DEF Posted
    <3> QED
      BY <1>1, <1>10, <3>1, <3>2, <3>3, <3>4, StaysCurrent
  <2> QED
    BY <2>1, <2>2
<1> QED
  BY <1>6, <1>10, <1>14, <1>15 DEF Sound

\* Every content with a transport is negotiated.
AllNegotiated(x) ==
    \A n \in Content : x.tp[n].transport # None => x.tp[n].negotiated

\* The same contents have transports.
SameContents(x, y) == Contents(y) = Contents(x)

\* A change of a proxy that leaves its channels and its implementation.
LEMMA PutProxySound ==
    ASSUME NEW x, Sound(x), NEW n \in Content, NEW p \in Proxy,
           p.chans = x.tp[n].chans,
           \A c \in p.chans : /\ p.impl[c] = x.tp[n].impl[c]
                              /\ p.writable[c] = x.tp[n].writable[c],
           \A t \in Transports, c \in Component :
               Wants(p, t, c) <=> Wants(x.tp[n], t, c),
           NEW y, y = PutProxy(x, n, p)
    PROVE  /\ Sound(y) /\ y.tp[n] = p
           /\ \A m \in Content \ {n} : y.tp[m] = x.tp[m]
<1>1. x \in SessionState /\ Live(x, {}) /\ Counted(x) /\ Current(x)
  BY DEF Sound, Live
<1>2. /\ y \in SessionState /\ y.tr = x.tr /\ y.wq = x.wq /\ Live(y, {})
      /\ y.tp[n] = p /\ \A m \in Content \ {n} : y.tp[m] = x.tp[m]
  BY <1>1, PutProxyFacts
<1>3. \A u \in Transports, d \in Component : Chan(y, u, d) = Chan(x, u, d)
  BY <1>2 DEF Chan
<1>4. Counted(y)
  <2> SUFFICES ASSUME NEW u \in Transports, NEW d \in Component
               PROVE  Chan(y, u, d).ref = Cardinality(Users(y, u, d))
    BY DEF Counted
  <2>1. Wants(y.tp[n], u, d) <=> Wants(x.tp[n], u, d)
    BY <1>2
  <2>2. Cardinality(Users(y, u, d)) = Cardinality(Users(x, u, d))
    BY <1>1, <1>2, <2>1, UsersChange
  <2> QED
    BY <1>1, <1>3, <2>2 DEF Counted
<1>5. Current(y)
  <2> SUFFICES ASSUME NEW m \in Content, NEW d \in Component, d \in y.tp[m].chans
               PROVE  IsCurrent(y, m, d)
    BY DEF Current
  <2>1. /\ y.tp[m].impl[d] = x.tp[m].impl[d]
        /\ y.tp[m].writable[d] = x.tp[m].writable[d]
        /\ d \in x.tp[m].chans
    <3>1. CASE m = n
      BY <1>2, <3>1
    <3>2. CASE m # n
      BY <1>2, <3>2
    <3> QED
      BY <3>1, <3>2
  <2>2. IsCurrent(x, m, d)
    BY <1>1, <2>1 DEF Current
  <2>3. x.tp[m].impl[d] # None => x.tp[m].impl[d] \in Transports
    BY <1>1, ProxyType
  <2> QED
    BY <1>1, <1>2, <1>3, <2>1, <2>2, <2>3, StaysCurrent DEF Posted
<1> QED
  BY <1>2, <1>4, <1>5 DEF Sound

\* SetupMux moves a content to the transport of another.
LEMMA SetupMuxGood ==
    ASSUME NEW x, Good(x), AllNegotiated(x), NEW n \in Content, NEW m \in Content,
           x.tp[n].transport # None, x.tp[m].transport # None,
           NEW y, y = SetupMux(x, n, m)
    PROVE  Good(y) /\ AllNegotiated(y) /\ SameContents(x, y)
<1> DEFINE t == x.tp[m].transport
           old == x.tp[n].transport
           S == x.tp[n].chans
           f == [p \in SessionState \X S |-> Repoint(p[1], n, t, p[2])]
           w == Fold(x, S, f)
           In(T, v) ==
               /\ Sound(v) /\ \A k \in Content \ {n} : v.tp[k] = x.tp[k]
               /\ v.tp[n].transport = old /\ v.tp[n].chans = S
               /\ v.tp[n].negotiated
               /\ \A c \in Component :
                     IF c \in T THEN v.tp[n].impl[c] \in {t, None}
                     ELSE v.tp[n].impl[c] = x.tp[n].impl[c]
           P == [T \in SUBSET S |-> {v \in SessionState : In(T, v)}]
<1>1. x \in SessionState /\ Sound(x) /\ Alone(x)
      /\ \A k \in Content : Proper(x.tp[k])
  BY DEF Good, Sound, Live
<1>2. /\ t \in Transports /\ old \in Transports /\ None \notin Transports
      /\ S \in SUBSET Component /\ IsFiniteSet(S)
  BY <1>1, ProxyType
<1>3. CASE old = t
  BY <1>3 DEF SetupMux, SameContents
<1>4. CASE old # t
  <2> DEFINE q == [w.tp[n] EXCEPT !.transport = t, !.allocated = x.tp[m].allocated]
             z == PutProxy(w, n, q)
  <2>1. y = Release(z, old)
    <3>1. y = Release([w EXCEPT !.tp[n].transport = t,
                                !.tp[n].allocated = x.tp[m].allocated], old)
      BY <1>4, Zenon DEF SetupMux, Each, Repoint
    <3> HIDE DEF w
    <3>2. [w EXCEPT !.tp[n].transport = t, !.tp[n].allocated = x.tp[m].allocated] = z
      BY DEF PutProxy
    <3> QED
      BY <3>1, <3>2, Zenon
  <2>2. \A c \in Component : x.tp[n].impl[c] # t
    BY <1>1, <1>2, <1>4 DEF Proper
  <2>3. x.tp[n].negotiated
    BY DEF AllNegotiated
  <2>4. x \in P[{}]
    <3>1. In({}, x)
      BY <1>1, <2>3
    <3> QED
      BY <1>1, <3>1
  <2> HIDE DEF t, old, S
  <2>5. ASSUME NEW T \in SUBSET S, NEW c \in S \ T, NEW v \in P[T]
        PROVE  f[<<v, c>>] \in P[T \cup {c}]
    <3> DEFINE g == f[<<v, c>>]
    <3>1. v \in SessionState /\ In(T, v) /\ c \in Component /\ c \in S
      BY <1>2
    <3>2. g = Repoint(v, n, t, c)
      BY <3>1
    <3> HIDE DEF g, P, f
    <3>3. v.tp[n].impl[c] # t
      BY <2>2, <3>1
    <3>4. \A k \in Content \ {n} : Proper(v.tp[k])
      BY <1>1, <3>1
    <3>5. /\ Sound(g) /\ (\E u \in {t, None} : g.tp[n] = Pointed(v.tp[n], c, u))
          /\ \A k \in Content \ {n} : g.tp[k] = v.tp[k]
      BY <1>2, <3>1, <3>2, <3>3, <3>4, RepointSound DEF old
    <3>6. PICK u \in {t, None} : g.tp[n] = Pointed(v.tp[n], c, u)
      BY <3>5
    <3>7. Repointed(v.tp[n], g.tp[n], c, u)
      <4>1. v.tp[n] \in Proxy /\ u \in Transports \cup {None}
        BY <1>2, <3>1, ProxyType
      <4> QED
        BY <3>1, <3>6, <4>1, PointedFacts
    <3>8. In(T \cup {c}, g)
      <4>1. \A d \in Component : IF d \in T \cup {c} THEN g.tp[n].impl[d] \in {t, None}
                                 ELSE g.tp[n].impl[d] = x.tp[n].impl[d]
        <5> SUFFICES ASSUME NEW d \in Component
                     PROVE  IF d \in T \cup {c} THEN g.tp[n].impl[d] \in {t, None}
                            ELSE g.tp[n].impl[d] = x.tp[n].impl[d]
          OBVIOUS
        <5>1. CASE d = c
          BY <3>7, <5>1 DEF Repointed
        <5>2. CASE d # c
          <6>1. g.tp[n].impl[d] = v.tp[n].impl[d]
            BY <3>7, <5>2 DEF Repointed
          <6> QED
            BY <3>1, <5>2, <6>1
        <5> QED
          BY <5>1, <5>2
      <4>2. /\ g.tp[n].transport = old /\ g.tp[n].chans = S /\ g.tp[n].negotiated
        BY <3>1, <3>7 DEF Repointed
      <4> QED
        BY <3>1, <3>5, <4>1, <4>2
    <3>9. g \in SessionState /\ T \cup {c} \in SUBSET S
      BY <3>5 DEF Sound, Live
    <3> HIDE DEF In
    <3> QED
      BY <3>8, <3>9 DEF P, g
  <2>6. w \in P[S]
    <3> HIDE DEF P, f
    <3> QED
      BY <1>2, <2>4, <2>5, FoldIn DEF S
  <2> HIDE DEF w
  <2>7. w \in SessionState /\ In(S, w)
    BY <2>6
  <2>8. w.tp[n] \in Proxy /\ x.tp[m].allocated \in BOOLEAN /\ t \in Transports \cup {None}
    <3>1. x.tp[m] \in Proxy /\ w.tp[n] \in Proxy
      BY <1>1, <2>7, ProxyType
    <3> QED
      BY <1>2, <3>1 DEF Proxy, t
  <2>9. /\ q \in Proxy /\ q.transport = t /\ q.chans = w.tp[n].chans
        /\ q.impl = w.tp[n].impl /\ q.writable = w.tp[n].writable
        /\ q.negotiated = w.tp[n].negotiated
    BY <2>8 DEF Proxy
  <2> HIDE DEF q
  <2>10. \A u \in Transports, c \in Component : Wants(q, u, c) <=> Wants(w.tp[n], u, c)
    BY <1>2, <2>7, <2>9 DEF Wants, t, old
  <2>11. /\ Sound(z) /\ z.tp[n] = q
         /\ \A k \in Content \ {n} : z.tp[k] = w.tp[k]
    <3>1. Sound(w)
      BY <2>7
    <3> HIDE DEF In
    <3> QED
      BY <2>9, <2>10, <3>1, PutProxySound
  <2> HIDE DEF z
  <2>12. \A k \in Content \ {n} : z.tp[k] = x.tp[k]
    BY <2>7, <2>11
  <2>13. z.tp[n].transport = t /\ z.tp[n].negotiated
    BY <2>7, <2>9, <2>11
  <2>14. AllNegotiated(z)
    BY <2>12, <2>13 DEF AllNegotiated
  <2>15. Alone(z)
    BY <2>14 DEF Alone, AllNegotiated
  <2>16. \A k \in Content : Proper(z.tp[k])
    <3>1. ASSUME NEW c \in Component, z.tp[n].impl[c] # None
          PROVE  z.tp[n].impl[c] = t /\ c \in z.tp[n].chans
      <4>1. z.tp[n].impl[c] = w.tp[n].impl[c] /\ z.tp[n].chans = S
        BY <2>7, <2>9, <2>11
      <4>2. c \in S
        <5>1. c \notin S => w.tp[n].impl[c] = x.tp[n].impl[c]
          BY <2>7
        <5>2. Proper(x.tp[n])
          BY <1>1
        <5>3. x.tp[n].impl[c] # None => c \in S
          BY <5>2 DEF Proper, S
        <5> QED
          BY <3>1, <4>1, <5>1, <5>3
      <4> QED
        BY <2>7, <3>1, <4>1, <4>2
    <3>2. Proper(z.tp[n])
      BY <1>2, <2>13, <3>1 DEF Proper
    <3> QED
      BY <1>1, <2>12, <3>2
  <2>17. Good(z)
    BY <2>11, <2>15, <2>16 DEF Good
  <2>18. Good(y) /\ y.tp = z.tp
    BY <1>2, <2>1, <2>17, ReleaseGood
  <2>19. SameContents(x, y)
    BY <1>2, <2>12, <2>13, <2>18 DEF SameContents, Contents, old
  <2>20. AllNegotiated(y)
    BY <2>14, <2>18 DEF AllNegotiated
  <2> QED
    BY <2>18, <2>19, <2>20
<1> QED
  BY <1>3, <1>4


\* What holds at first, and is preserved by each step, holds of the result.
LEMMA FoldKeeps ==
    ASSUME NEW x, NEW f, NEW S, IsFiniteSet(S), NEW Q, x \in Q,
           \A c \in S : \A y \in Q : f[<<y, c>>] \in Q
    PROVE  Fold(x, S, f) \in Q
<1> DEFINE P == [T \in SUBSET S |-> Q]
<1>1. x \in P[{}]
  OBVIOUS
<1>2. ASSUME NEW T \in SUBSET S, NEW c \in S \ T, NEW y \in P[T]
      PROVE  f[<<y, c>>] \in P[T \cup {c}]
  <2>1. T \cup {c} \in SUBSET S
    OBVIOUS
  <2> QED
    BY <2>1
<1>3. Fold(x, S, f) \in P[S]
  <2> HIDE DEF P
  <2> QED
    BY <1>1, <1>2, FoldIn
<1> QED
  BY <1>3

\* There are more transports than contents.
LEMMA FreshTransport ==
    ASSUME NEW x \in SessionState
    PROVE  \E u \in Transports : \A m \in Content : x.tp[m].transport # u
<1> SUFFICES ASSUME \A u \in Transports : \E m \in Content : x.tp[m].transport = u
             PROVE  FALSE
  OBVIOUS
<1> DEFINE f == [u \in Transports |-> CHOOSE m \in Content : x.tp[m].transport = u]
<1>1. f \in [Transports -> Content]
      /\ \A u \in Transports : x.tp[f[u]].transport = u
  OBVIOUS
<1> HIDE DEF f
<1>2. IsFiniteSet(Content) /\ Cardinality(Content) \in Nat
  BY TransportAssumption, FS_CardinalityType
<1>3. IsFiniteSet(Transports) /\ Cardinality(Transports) = Cardinality(Content) + 1
  BY <1>2, FS_Interval DEF Transports
<1>4. \E u, v \in Transports : u # v /\ f[u] = f[v]
  BY <1>1, <1>2, <1>3, FS_PigeonHole
<1> QED
  BY <1>1, <1>4

\* The proxy p with the channels C.
With(p, C) == [p EXCEPT !.chans = C]

\* With changes the channel proxies of a content, and no more.
LEMMA WithFacts ==
    ASSUME NEW p \in Proxy, NEW C \in SUBSET Component, NEW q, q = With(p, C)
    PROVE  /\ q \in Proxy /\ q.transport = p.transport /\ q.chans = C
           /\ q.connecting = p.connecting /\ q.negotiated = p.negotiated
           /\ q.impl = p.impl /\ q.writable = p.writable
           /\ \A D : With(q, D) = With(p, D)
           /\ p = With(p, p.chans)
BY DEF With, Proxy

\* A channel proxy whose content has not asked its transport to connect, nor
\* been negotiated, waits for that.
LEMMA CreateChannelGood ==
    ASSUME NEW x, Good(x), NEW n \in Content, NEW c \in Component,
           x.tp[n].transport # None, ~x.tp[n].negotiated, ~x.tp[n].connecting,
           c \notin x.tp[n].chans, ~x.tp[n].writable[c],
           NEW y, y = CreateChannelProxy(x, n, c)
    PROVE  /\ Good(y)
           /\ y.tp[n] = With(x.tp[n], x.tp[n].chans \cup {c})
           /\ \A m \in Content \ {n} : y.tp[m] = x.tp[m]
<1> DEFINE p == With(x.tp[n], x.tp[n].chans \cup {c})
<1>1. x \in SessionState /\ Live(x, {}) /\ Counted(x) /\ Current(x) /\ Alone(x)
      /\ \A m \in Content : Proper(x.tp[m])
  BY DEF Good, Sound, Live
<1>2. x.tp[n] \in Proxy /\ x.tp[n].chans \cup {c} \in SUBSET Component
  BY <1>1, ProxyType
<1>3. /\ p \in Proxy /\ p.transport = x.tp[n].transport
      /\ p.chans = x.tp[n].chans \cup {c}
      /\ p.impl = x.tp[n].impl /\ p.writable = x.tp[n].writable
      /\ p.negotiated = x.tp[n].negotiated /\ p.connecting = x.tp[n].connecting
  BY <1>2, WithFacts
<1>4. y = PutProxy(x, n, p)
  BY DEF CreateChannelProxy, PutProxy, With
<1> HIDE DEF p
<1>5. /\ y \in SessionState /\ y.tr = x.tr /\ y.wq = x.wq /\ Live(y, {})
      /\ y.tp[n] = p /\ \A m \in Content \ {n} : y.tp[m] = x.tp[m]
  BY <1>1, <1>3, <1>4, PutProxyFacts
<1>6. \A u \in Transports, d \in Component : Chan(y, u, d) = Chan(x, u, d)
  BY <1>5 DEF Chan
<1>7. Counted(y)
  <2> SUFFICES ASSUME NEW u \in Transports, NEW d \in Component
               PROVE  Chan(y, u, d).ref = Cardinality(Users(y, u, d))
    BY DEF Counted
  <2>1. Wants(y.tp[n], u, d) <=> Wants(x.tp[n], u, d)
    BY <1>3, <1>5 DEF Wants
  <2>2. Cardinality(Users(y, u, d)) = Cardinality(Users(x, u, d))
    BY <1>1, <1>5, <2>1, UsersChange
  <2> QED
    BY <1>1, <1>6, <2>2 DEF Counted
<1>8. Current(y)
  <2> SUFFICES ASSUME NEW m \in Content, NEW d \in Component, d \in y.tp[m].chans
               PROVE  IsCurrent(y, m, d)
    BY DEF Current
  <2>1. CASE m = n /\ d = c
    <3>1. x.tp[n].impl[c] = None
      BY <1>1 DEF Proper
    <3> QED
      BY <1>3, <1>5, <2>1, <3>1 DEF IsCurrent
  <2>2. CASE ~(m = n /\ d = c)
    <3>1. /\ y.tp[m].impl[d] = x.tp[m].impl[d]
          /\ y.tp[m].writable[d] = x.tp[m].writable[d]
          /\ d \in x.tp[m].chans
      BY <1>3, <1>5, <2>2
    <3>2. IsCurrent(x, m, d)
      BY <1>1, <3>1 DEF Current
    <3>3. x.tp[m].impl[d] # None => x.tp[m].impl[d] \in Transports
      BY <1>1, ProxyType
    <3> QED
      BY <1>1, <1>5, <1>6, <3>1, <3>2, <3>3, StaysCurrent DEF Posted
  <2> QED
    BY <2>1, <2>2
<1>9. Alone(y)
  <2>1. \A m \in Content : y.tp[m].transport = x.tp[m].transport
                           /\ y.tp[m].negotiated = x.tp[m].negotiated
    BY <1>3, <1>5
  <2> QED
    BY <1>1, <2>1 DEF Alone
<1>10. \A m \in Content : Proper(y.tp[m])
  <2>1. Proper(y.tp[n])
    BY <1>1, <1>3, <1>5 DEF Proper
  <2> QED
    BY <1>1, <1>5, <2>1
<1> QED
  BY <1>5, <1>7, <1>8, <1>9, <1>10 DEF Good, Sound, p

\* The same, of the operator.
CanAdd(x, n, c) ==
    /\ Good(x) /\ n \in Content /\ c \in Component
    /\ x.tp[n].transport # None /\ ~x.tp[n].negotiated /\ ~x.tp[n].connecting
    /\ c \notin x.tp[n].chans /\ ~x.tp[n].writable[c]

Added(x, n, c, y) ==
    /\ Good(y)
    /\ y.tp[n] = With(x.tp[n], x.tp[n].chans \cup {c})
    /\ \A m \in Content \ {n} : y.tp[m] = x.tp[m]

LEMMA ChannelAdded ==
    ASSUME NEW x, NEW n, NEW c, CanAdd(x, n, c)
    PROVE  Added(x, n, c, CreateChannelProxy(x, n, c))
BY CreateChannelGood DEF CanAdd, Added

\* A content gets a transport of its own.
LEMMA CreateProxyGood ==
    ASSUME NEW x, Good(x), NEW n \in Content, x.tp[n].transport = None,
           NEW y, y = CreateProxy(x, n)
    PROVE  /\ Good(y) /\ y.tp[n].transport # None
           /\ \A m \in Content \ {n} : y.tp[m] = x.tp[m]
<1> DEFINE t == CHOOSE u \in Transports : \A m \in Content : x.tp[m].transport # u
           q == [NoProxy EXCEPT !.transport = t]
           z == PutProxy(x, n, q)
           S == Uses[n]
           f == [p \in SessionState \X S |-> CreateChannelProxy(p[1], n, p[2])]
           In(T, v) ==
               /\ Good(v) /\ \A m \in Content \ {n} : v.tp[m] = x.tp[m]
               /\ v.tp[n] = With(q, T)
           P == [T \in SUBSET S |-> {v \in SessionState : In(T, v)}]
<1>1. x \in SessionState /\ Sound(x) /\ Alone(x) /\ \A m \in Content : Proper(x.tp[m])
  BY DEF Good, Sound, Live
<1>2. y = Fold(z, S, f)
  BY Zenon DEF CreateProxy, Each, PutProxy
<1>3. t \in Transports /\ \A m \in Content : x.tp[m].transport # t
  BY <1>1, FreshTransport
<1>4. t # None
  BY <1>1, <1>3, ProxyType
<1> HIDE DEF t
<1>5. S \in SUBSET Component /\ IsFiniteSet(S)
  BY TransportAssumption, FS_Subset
<1>6. /\ q \in Proxy /\ q.transport = t /\ q.chans = {} /\ ~q.negotiated /\ ~q.connecting
      /\ \A c \in Component : q.impl[c] = None /\ q.writable[c] = FALSE
  BY <1>3 DEF Proxy, NoProxy, None
<1>7. \A T \in SUBSET Component :
          LET p == With(q, T)
          IN  /\ p.transport = t /\ p.chans = T /\ ~p.negotiated /\ ~p.connecting
              /\ p.writable = q.writable
              /\ \A c \in Component : With(p, p.chans \cup {c}) = With(q, T \cup {c})
  <2> HIDE DEF q
  <2> SUFFICES ASSUME NEW T \in SUBSET Component, NEW p, p = With(q, T)
               PROVE  /\ p.transport = t /\ p.chans = T /\ ~p.negotiated /\ ~p.connecting
                      /\ p.writable = q.writable
                      /\ \A c \in Component : With(p, p.chans \cup {c}) = With(q, T \cup {c})
    OBVIOUS
  <2> QED
    BY <1>6, WithFacts
<1>8. q = With(q, {})
  <2> HIDE DEF q
  <2> QED
    BY <1>6, WithFacts
<1> HIDE DEF q
<1>9. x.tp[n] = NoProxy
  BY <1>1 DEF Proper
<1>10. Good(z) /\ z.tp[n] = q /\ \A m \in Content \ {n} : z.tp[m] = x.tp[m]
  <2>1. NoProxy.chans = {} /\ NoProxy.transport = None
    BY DEF NoProxy
  <2>2. \A u \in Transports, c \in Component : Wants(q, u, c) <=> Wants(x.tp[n], u, c)
    BY <1>1, <1>4, <1>6, <1>9, <2>1, ProxyType DEF Wants
  <2>3. /\ Sound(z) /\ z.tp[n] = q /\ \A m \in Content \ {n} : z.tp[m] = x.tp[m]
    <3>1. q.chans = x.tp[n].chans /\ \A c \in q.chans : FALSE
      BY <1>6, <1>9, <2>1
    <3> HIDE DEF z
    <3>2. z = PutProxy(x, n, q)
      BY DEF z
    <3> QED
      BY <1>1, <1>6, <2>2, <3>1, <3>2, PutProxySound
  <2> HIDE DEF z
  <2>4. Alone(z)
    BY <1>1, <1>3, <1>6, <2>3 DEF Alone
  <2>5. Proper(z.tp[n])
    BY <1>4, <1>6, <2>3 DEF Proper
  <2> QED
    BY <1>1, <2>3, <2>4, <2>5 DEF Good
<1> HIDE DEF z
<1>11. z \in P[{}]
  BY <1>8, <1>10 DEF Good, Sound, Live
<1>12. ASSUME NEW T \in SUBSET S, NEW c \in S \ T, NEW v \in P[T]
       PROVE  f[<<v, c>>] \in P[T \cup {c}]
  <2> DEFINE g == f[<<v, c>>]
  <2>1. v \in SessionState /\ In(T, v) /\ c \in Component /\ T \in SUBSET Component
    BY <1>5
  <2>2. g = CreateChannelProxy(v, n, c)
    BY <2>1
  <2> HIDE DEF g, P, f
  <2>3. /\ v.tp[n].transport = t /\ v.tp[n].chans = T /\ ~v.tp[n].negotiated
        /\ ~v.tp[n].connecting /\ v.tp[n].writable = q.writable
        /\ With(v.tp[n], v.tp[n].chans \cup {c}) = With(q, T \cup {c})
    BY <1>7, <2>1
  <2>4. /\ Good(g) /\ g.tp[n] = With(v.tp[n], v.tp[n].chans \cup {c})
        /\ \A m \in Content \ {n} : g.tp[m] = v.tp[m]
    <3>1. c \notin v.tp[n].chans /\ ~v.tp[n].writable[c] /\ v.tp[n].transport # None
      BY <1>4, <1>6, <2>1, <2>3
    <3>2. Good(v)
      BY <2>1
    <3>3. CanAdd(v, n, c)
      BY <2>1, <2>3, <3>1, <3>2 DEF CanAdd
    <3>4. Added(v, n, c, g)
      BY <2>2, <3>3, ChannelAdded
    <3> QED
      BY <3>4 DEF Added
  <2>5. In(T \cup {c}, g)
    BY <2>1, <2>3, <2>4
  <2>6. g \in SessionState /\ T \cup {c} \in SUBSET S
    BY <2>4 DEF Good, Sound, Live
  <2> HIDE DEF In
  <2> QED
    BY <2>5, <2>6 DEF P, g
<1>13. y \in P[S]
  <2> HIDE DEF P, f
  <2> QED
    BY <1>2, <1>5, <1>11, <1>12, FoldIn
<1>14. In(S, y)
  BY <1>13
<1>15. y.tp[n].transport = t
  BY <1>5, <1>7, <1>14
<1> QED
  BY <1>4, <1>14, <1>15

\* The proxy p without its channel c.
Cut(p, c) ==
    [p EXCEPT !.chans = @ \ {c}, !.impl[c] = None, !.writable[c] = FALSE]

\* Cut takes one channel proxy from a content.
LEMMA CutFacts ==
    ASSUME NEW p \in Proxy, NEW c \in Component, NEW q, q = Cut(p, c)
    PROVE  /\ q \in Proxy /\ q.transport = p.transport /\ q.chans = p.chans \ {c}
           /\ q.connecting = p.connecting /\ q.negotiated = p.negotiated
           /\ q.impl[c] = None
           /\ \A d \in Component \ {c} : q.impl[d] = p.impl[d]
                                         /\ q.writable[d] = p.writable[d]
BY DEF Cut, Proxy, None

\* From x to y the channel c of the content n goes.
Drops(x, y, n, c) ==
    /\ Live(y, {}) /\ y.tp[n] = Cut(x.tp[n], c)
    /\ \A m \in Content \ {n} : y.tp[m] = x.tp[m]
    /\ \A m : Posted(x, m) /\ m # Update(n, c) => Posted(y, m)
    /\ x.tp[n].impl[c] = None =>
          \A t \in Transports, d \in Component : Chan(y, t, d) = Chan(x, t, d)
    /\ x.tp[n].impl[c] # None =>
          Refers(x, y, x.tp[n].impl[c], c, Chan(x, x.tp[n].impl[c], c).ref - 1)

\* ~TransportChannelProxy lets go of the channel, and of its update.
LEMMA DeleteLive ==
    ASSUME NEW x, Live(x, {}), NEW n \in Content, NEW c \in Component,
           x.tp[n].impl[c] # None => Has(x, x.tp[n].impl[c], c),
           NEW y, y = DeleteChannelProxy(x, n, c)
    PROVE  Drops(x, y, n, c)
<1> DEFINE t == x.tp[n].impl[c]
           M == {Update(n, c)}
           z == IF t = None THEN x ELSE DestroyChannel(x, t, c)
           w == [z EXCEPT !.wq = Remove(@, M)]
           p == Cut(x.tp[n], c)
<1>1. x \in SessionState
  BY DEF Live
<1>2. x.tp[n] \in Proxy /\ t \in Transports \cup {None}
  BY <1>1, ProxyType
<1>3. p \in Proxy
  BY <1>2, CutFacts
<1>4. /\ Live(z, {}) /\ z.tp = x.tp /\ Elements(x.wq) \subseteq Elements(z.wq)
      /\ t = None => z = x
      /\ t # None => Refers(x, z, t, c, Chan(x, t, c).ref - 1)
  <2>1. CASE t = None
    BY <2>1
  <2>2. CASE t # None
    <3>1. Live(z, {}) /\ Recounted(x, z, t, c, Chan(x, t, c).ref - 1)
      <4>1. t \in Transports /\ Has(x, t, c)
        BY <1>2, <2>2
      <4>2. z = DestroyChannel(x, t, c)
        BY <2>2
      <4> HIDE DEF z, t
      <4> QED
        BY <4>1, <4>2, DestroyLive
    <3> HIDE DEF z
    <3> QED
      BY <2>2, <3>1 DEF Recounted
  <2> QED
    BY <2>1, <2>2
<1>5. y = PutProxy(w, n, p)
  <2>1. y = [z EXCEPT !.wq = Remove(@, M), !.tp[n] = p]
    BY Zenon DEF DeleteChannelProxy, Update, Cut
  <2> HIDE DEF z, M, p
  <2> QED
    BY <2>1 DEF PutProxy
<1> HIDE DEF z, p
<1>6. /\ w \in SessionState /\ w.tp = x.tp /\ w.tr = z.tr /\ w.sq = z.sq
      /\ \A m : Posted(z, m) /\ m # Update(n, c) => Posted(w, m)
  <2>1. z \in SessionState /\ z.wq \in Seq(WorkerMessage)
    BY <1>4 DEF Live, SessionState
  <2> DEFINE a == Remove(z.wq, M)
  <2>2. a \in Seq(WorkerMessage) /\ \A m : m \in Elements(z.wq) /\ m \notin M => m \in Elements(a)
    <3> HIDE DEF M
    <3> QED
      BY <2>1, RemoveElements
  <2>3. w = [z EXCEPT !.wq = a]
    OBVIOUS
  <2> HIDE DEF a
  <2>4. w \in SessionState /\ w.tp = z.tp /\ w.tr = z.tr /\ w.sq = z.sq /\ w.wq = a
    BY <2>1, <2>2, <2>3 DEF SessionState
  <2> HIDE DEF w
  <2> QED
    BY <1>4, <2>2, <2>4 DEF Posted
<1> HIDE DEF w, t, M
<1>7. \A u \in Transports, d \in Component : Chan(w, u, d) = Chan(z, u, d)
  BY <1>6 DEF Chan
<1>8. Live(w, {})
  <2>1. Deleted(z) /\ Gathers(z, {}) /\ Notices(z)
    BY <1>4 DEF Live
  <2>2. Deleted(w)
    BY <1>7, <2>1 DEF Deleted
  <2>3. Notices(w)
    BY <1>6, <2>1 DEF Notices, AllWritable, Has, Chan, Queued
  <2>4. \A u \in Transports : Ready(u) # Update(n, c)
    BY DEF Ready, Update
  <2>5. \A u \in Transports : Posted(z, Ready(u)) => Posted(w, Ready(u))
    BY <1>6, <2>4
  <2>6. Gathers(w, {})
    BY <1>6, <2>1, <2>5 DEF Gathers, Has, Chan, Queued
  <2> QED
    BY <1>6, <2>2, <2>3, <2>6 DEF Live
<1>9. /\ y \in SessionState /\ y.tr = w.tr /\ y.wq = w.wq /\ Live(y, {})
      /\ y.tp[n] = p /\ \A m \in Content \ {n} : y.tp[m] = w.tp[m]
  BY <1>3, <1>5, <1>6, <1>8, PutProxyFacts
<1>10. \A u \in Transports, d \in Component : Chan(y, u, d) = Chan(z, u, d)
  BY <1>7, <1>9 DEF Chan
<1>11. \A m : Posted(x, m) /\ m # Update(n, c) => Posted(y, m)
  BY <1>4, <1>6, <1>9 DEF Posted
<1>12. t # None => Refers(x, y, t, c, Chan(x, t, c).ref - 1)
  BY <1>2, <1>4, <1>10 DEF Refers
<1>13. t = None => \A u \in Transports, d \in Component : Chan(y, u, d) = Chan(x, u, d)
  BY <1>4, <1>10
<1> QED
  BY <1>6, <1>9, <1>11, <1>12, <1>13 DEF Drops, t, p

\* A channel proxy goes, and with it the reference of its content.
LEMMA DestroyChannelGood ==
    ASSUME NEW x, Good(x), NEW n \in Content, x.tp[n].transport # None,
           NEW c \in Component, NEW y, y = DestroyChannelProxy(x, n, c)
    PROVE  /\ Good(y) /\ y.tp[n].transport = x.tp[n].transport
           /\ y.tp[n].chans = x.tp[n].chans \ {c}
           /\ \A m \in Content \ {n} : y.tp[m] = x.tp[m]
<1> DEFINE t == x.tp[n].transport
           z == IF x.tp[n].negotiated THEN x ELSE SetChannelProxyImpl(x, n, c)
           u == IF x.tp[n].negotiated THEN x.tp[n].impl[c] ELSE t
           w == Wants(x.tp[n], t, c)
<1>1. x \in SessionState /\ Live(x, {}) /\ Counted(x) /\ Current(x) /\ Alone(x)
      /\ \A m \in Content : Proper(x.tp[m])
  BY DEF Good, Sound, Live
<1>2. /\ t \in Transports /\ None \notin Transports /\ x.tp[n] \in Proxy
      /\ u \in Transports \cup {None} /\ x.tp[n].impl[c] \in Transports \cup {None}
  BY <1>1, ProxyType
<1>3. y = DeleteChannelProxy(z, n, c)
  BY DEF DestroyChannelProxy
<1>4. Chan(x, t, c).ref \in Nat /\ Proper(x.tp[n])
  BY <1>1, <1>2, ChanType
<1>5. /\ x.tp[n].negotiated => (w <=> u = t) /\ u \in {t, None}
      /\ ~x.tp[n].negotiated => x.tp[n].impl[c] = None
                                /\ Chan(x, t, c).ref = IF w THEN 1 ELSE 0
  <2>1. x.tp[n].negotiated => (w <=> u = t) /\ u \in {t, None}
    BY <1>2, <1>4 DEF Wants, Proper
  <2>2. ~x.tp[n].negotiated => x.tp[n].impl[c] = None
    BY <1>4 DEF Proper
  <2>3. ~x.tp[n].negotiated => Chan(x, t, c).ref = IF w THEN 1 ELSE 0
    <3> HIDE DEF t
    <3> QED
      BY <1>2, AloneCount DEF t
  <2> QED
    BY <2>1, <2>2, <2>3
\* The state from which the proxy is deleted, and its reference.
<1>6. /\ Live(z, {}) /\ z.tp[n] = Pointed(x.tp[n], c, u)
      /\ \A m \in Content \ {n} : z.tp[m] = x.tp[m]
      /\ Elements(x.wq) \subseteq Elements(z.wq)
      /\ \A v \in Transports, d \in Component :
            /\ Chan(z, v, d).writable = Chan(x, v, d).writable
            /\ v # t \/ d # c => Chan(z, v, d).ref = Chan(x, v, d).ref
      /\ u = None => Chan(z, t, c).ref = Chan(x, t, c).ref
      /\ x.tp[n].negotiated => Chan(z, t, c).ref = Chan(x, t, c).ref
      /\ ~x.tp[n].negotiated => Chan(z, t, c).ref = 1
  <2>1. CASE x.tp[n].negotiated
    <3>1. x.tp[n] = Pointed(x.tp[n], c, x.tp[n].impl[c])
      BY <1>2 DEF Pointed, Proxy
    <3> QED
      BY <1>1, <2>1, <3>1
  <2>2. CASE ~x.tp[n].negotiated
    <3>1. z = SetChannelProxyImpl(x, n, c) /\ u = t /\ u # None
      BY <1>2, <2>2
    <3>2. x.tp[n].impl[c] = None
      BY <1>5, <2>2
    <3> HIDE DEF z, u, w
    <3>3. /\ Live(z, {}) /\ Present(x, z, t, c)
          /\ z.tp[n] = Pointed(x.tp[n], c, t)
          /\ \A m \in Content \ {n} : z.tp[m] = x.tp[m]
          /\ Elements(x.wq) \subseteq Elements(z.wq)
      BY <1>1, <1>2, <3>1, <3>2, HookLive
    <3>4. Chan(z, t, c).ref = 1
      BY <1>5, <2>2, <3>3 DEF Present
    <3> QED
      BY <2>2, <3>1, <3>3, <3>4 DEF Present
  <2> QED
    BY <2>1, <2>2
<1> HIDE DEF z
<1>7. Repointed(x.tp[n], z.tp[n], c, u)
  BY <1>2, <1>6, PointedFacts, SMTT(40)
<1>8. z \in SessionState /\ z.tp[n] \in Proxy /\ z.tp[n].impl[c] = u
  BY <1>6, <1>7 DEF Repointed, Live
\* What deleting it does.
<1>9. u # None => u = t /\ Chan(z, t, c).ref # 0 /\ Has(z, t, c)
  <2> SUFFICES ASSUME u # None
               PROVE  u = t /\ Chan(z, t, c).ref # 0 /\ Has(z, t, c)
    OBVIOUS
  <2>1. u = t
    BY <1>5
  <2>2. Chan(z, t, c).ref # 0
    <3>1. CASE x.tp[n].negotiated
      <4>1. Wants(x.tp[n], t, c)
        BY <1>5, <2>1, <3>1
      <4>2. Chan(x, t, c).ref # 0
        <5> HIDE DEF t
        <5> QED
          BY <1>1, <1>2, <4>1, UserHas
      <4> QED
        BY <1>6, <3>1, <4>2
    <3>2. CASE ~x.tp[n].negotiated
      BY <1>6, <3>2
    <3> QED
      BY <3>1, <3>2
  <2> QED
    BY <1>2, <1>8, <2>1, <2>2, ChanType
<1> HIDE DEF u
<1>10. Drops(z, y, n, c)
  BY <1>3, <1>6, <1>8, <1>9, DeleteLive
<1>11. /\ y.tp[n].transport = t /\ y.tp[n].chans = x.tp[n].chans \ {c}
       /\ y.tp[n].connecting = x.tp[n].connecting
       /\ y.tp[n].negotiated = x.tp[n].negotiated
       /\ y.tp[n].impl[c] = None
       /\ \A d \in Component \ {c} : y.tp[n].impl[d] = x.tp[n].impl[d]
                                     /\ y.tp[n].writable[d] = x.tp[n].writable[d]
  <2> DEFINE p == z.tp[n]
             q == y.tp[n]
  <2>1. p \in Proxy /\ q = Cut(p, c)
    BY <1>8, <1>10 DEF Drops
  <2> HIDE DEF p, q
  <2>2. /\ q \in Proxy /\ q.transport = p.transport /\ q.chans = p.chans \ {c}
        /\ q.connecting = p.connecting /\ q.negotiated = p.negotiated
        /\ q.impl[c] = None
        /\ \A d \in Component \ {c} : q.impl[d] = p.impl[d]
                                      /\ q.writable[d] = p.writable[d]
    BY <2>1, CutFacts
  <2> QED
    BY <1>7, <2>2 DEF Repointed, p, q
<1>12. /\ y \in SessionState /\ Live(y, {}) /\ \A m \in Content \ {n} : y.tp[m] = x.tp[m]
  BY <1>6, <1>10 DEF Drops, Live
<1>13. Chan(y, t, c).ref = IF w THEN Chan(x, t, c).ref - 1 ELSE Chan(x, t, c).ref
  <2>1. CASE u = None
    <3>1. Chan(y, t, c) = Chan(z, t, c)
      BY <1>2, <1>8, <1>10, <2>1 DEF Drops
    <3>2. ~w
      BY <1>2, <1>5, <2>1 DEF u
    <3> QED
      BY <1>6, <2>1, <3>1, <3>2
  <2>2. CASE u # None
    <3>1. u = t /\ Chan(y, t, c).ref = Chan(z, t, c).ref - 1
      BY <1>8, <1>9, <1>10, <2>2 DEF Drops, Refers
    <3>2. CASE x.tp[n].negotiated
      BY <1>5, <1>6, <3>1, <3>2
    <3>3. CASE ~x.tp[n].negotiated
      BY <1>5, <1>6, <3>1, <3>3
    <3> QED
      BY <3>2, <3>3
  <2> QED
    BY <2>1, <2>2
<1>14. \A v \in Transports, d \in Component : v # t \/ d # c =>
           /\ Chan(y, v, d).ref = Chan(x, v, d).ref
           /\ Chan(y, v, d).writable = Chan(x, v, d).writable
  <2>1. CASE u = None
    BY <1>6, <1>8, <1>10, <2>1 DEF Drops
  <2>2. CASE u # None
    BY <1>6, <1>8, <1>9, <1>10, <2>2 DEF Drops, Refers
  <2> QED
    BY <2>1, <2>2
<1>15. Chan(y, t, c).writable = Chan(x, t, c).writable \/ (u # None /\ Chan(y, t, c).ref = 0)
  <2>1. CASE u = None
    BY <1>2, <1>6, <1>8, <1>10, <2>1 DEF Drops
  <2>2. CASE u # None
    BY <1>2, <1>6, <1>8, <1>9, <1>10, <2>2 DEF Drops, Refers
  <2> QED
    BY <2>1, <2>2
<1>16. Counted(y)
  <2> SUFFICES ASSUME NEW v \in Transports, NEW d \in Component
               PROVE  Chan(y, v, d).ref = Cardinality(Users(y, v, d))
    BY DEF Counted
  <2>1. Chan(x, v, d).ref = Cardinality(Users(x, v, d))
    BY <1>1 DEF Counted
  <2>2. CASE v = t /\ d = c
    <3>1. ~Wants(y.tp[n], v, d) /\ (Wants(x.tp[n], v, d) <=> w)
      BY <1>2, <1>11, <2>2 DEF Wants
    <3> HIDE DEF w, t
    <3>2. /\ w => Cardinality(Users(y, v, d)) = Cardinality(Users(x, v, d)) - 1
          /\ ~w => Cardinality(Users(y, v, d)) = Cardinality(Users(x, v, d))
      BY <1>1, <1>12, <3>1, UsersChange
    <3> QED
      BY <1>13, <2>1, <2>2, <3>2
  <2>3. CASE v # t \/ d # c
    <3>1. Wants(y.tp[n], v, d) <=> Wants(x.tp[n], v, d)
      <4>1. CASE d # c
        BY <1>11, <2>3, <4>1 DEF Wants
      <4>2. CASE d = c /\ v # t
        <5>1. ~Wants(y.tp[n], v, d)
          BY <1>2, <1>11, <4>2 DEF Wants
        <5>2. ~Wants(x.tp[n], v, d)
          BY <1>2, <1>4, <4>2 DEF Wants, Proper
        <5> QED
          BY <5>1, <5>2
      <4> QED
        BY <2>3, <4>1, <4>2
    <3>2. Cardinality(Users(y, v, d)) = Cardinality(Users(x, v, d))
      BY <1>1, <1>12, <3>1, UsersChange
    <3> QED
      BY <1>14, <2>1, <2>3, <3>2
  <2> QED
    BY <2>2, <2>3
<1>17. Current(y)
  <2> SUFFICES ASSUME NEW m \in Content, NEW d \in Component, d \in y.tp[m].chans
               PROVE  IsCurrent(y, m, d)
    BY DEF Current
  <2>1. m # n \/ d # c
    BY <1>11
  <2>2. /\ y.tp[m].impl[d] = x.tp[m].impl[d]
        /\ y.tp[m].writable[d] = x.tp[m].writable[d]
        /\ d \in x.tp[m].chans
    <3>1. CASE m = n
      BY <1>11, <2>1, <3>1
    <3>2. CASE m # n
      BY <1>12, <3>2
    <3> QED
      BY <3>1, <3>2
  <2>3. IsCurrent(x, m, d)
    BY <1>1, <2>2 DEF Current
  <2>4. ASSUME x.tp[m].impl[d] # None
        PROVE  Chan(y, x.tp[m].impl[d], d).writable
               = Chan(x, x.tp[m].impl[d], d).writable
    <3>1. x.tp[m].impl[d] \in Transports
      BY <1>1, <2>4, ProxyType
    <3>2. CASE x.tp[m].impl[d] # t \/ d # c
      BY <1>14, <3>1, <3>2
    <3>3. CASE x.tp[m].impl[d] = t /\ d = c
      <4>1. m # n
        BY <2>1, <3>3
      <4>2. Proper(x.tp[m])
        BY <1>1
      <4>3. Wants(x.tp[m], t, c) /\ x.tp[m].transport = t
        BY <1>2, <2>4, <3>3, <4>2 DEF Wants, Proper
      <4>4. Wants(y.tp[m], t, c)
        BY <1>12, <4>1, <4>3
      <4>5. Chan(y, t, c).ref # 0
        <5> HIDE DEF t
        <5> QED
          BY <1>2, <1>12, <1>16, <4>4, UserHas
      <4> QED
        BY <1>15, <3>3, <4>5
    <3> QED
      BY <3>2, <3>3
  <2>5. Posted(x, Update(m, d)) => Posted(y, Update(m, d))
    <3>1. Update(m, d) # Update(n, c)
      BY <2>1 DEF Update
    <3> QED
      BY <1>6, <1>10, <3>1 DEF Drops, Posted
  <2> QED
    BY <1>1, <1>12, <2>2, <2>3, <2>4, <2>5, StaysCurrent
<1>18. Alone(y)
  <2>1. \A m \in Content : y.tp[m].transport = x.tp[m].transport
                           /\ y.tp[m].negotiated = x.tp[m].negotiated
    BY <1>11, <1>12
  <2> QED
    BY <1>1, <2>1 DEF Alone
<1>19. \A m \in Content : Proper(y.tp[m])
  <2>1. Proper(y.tp[n])
    <3>1. y.tp[n].transport # None
      BY <1>11
    <3> SUFFICES ASSUME NEW d \in Component, y.tp[n].impl[d] # None
                 PROVE  y.tp[n].impl[d] = y.tp[n].transport /\ d \in y.tp[n].chans
                        /\ y.tp[n].negotiated
      BY <3>1 DEF Proper
    <3>2. d # c
      BY <1>11
    <3> QED
      BY <1>4, <1>11, <3>2 DEF Proper
  <2> QED
    BY <1>1, <1>12, <2>1
<1> QED
  BY <1>11, <1>12, <1>16, <1>17, <1>18, <1>19 DEF Good, Sound

\* A content goes, and its transport if nobody else has it.
LEMMA DestroyProxyGood ==
    ASSUME NEW x, Good(x), NEW n \in Content, x.tp[n].transport # None,
           NEW y, y = DestroyProxy(x, n)
    PROVE  /\ Good(y) /\ y.tp[n].transport = None
           /\ \A m \in Content \ {n} : y.tp[m] = x.tp[m]
<1> DEFINE t == x.tp[n].transport
           S == x.tp[n].chans
           f == [p \in SessionState \X S |-> DestroyChannelProxy(p[1], n, p[2])]
           z == Fold(x, S, f)
           w == PutProxy(z, n, NoProxy)
           In(T, v) ==
               /\ Good(v) /\ \A m \in Content \ {n} : v.tp[m] = x.tp[m]
               /\ v.tp[n].transport = t /\ v.tp[n].chans = S \ T
           P == [T \in SUBSET S |-> {v \in SessionState : In(T, v)}]
<1>1. x \in SessionState
  BY DEF Good, Sound, Live
<1>2. /\ t \in Transports /\ None \notin Transports
      /\ S \in SUBSET Component /\ IsFiniteSet(S)
  BY <1>1, ProxyType
<1>3. y = Release(w, t)
  BY Zenon DEF DestroyProxy, Each, PutProxy
<1>4. x \in P[{}]
  BY <1>1
<1> HIDE DEF t, S
<1>5. ASSUME NEW T \in SUBSET S, NEW c \in S \ T, NEW v \in P[T]
      PROVE  f[<<v, c>>] \in P[T \cup {c}]
  <2> DEFINE g == f[<<v, c>>]
  <2>1. v \in SessionState /\ In(T, v) /\ c \in Component /\ c \in S
    BY <1>2
  <2>2. g = DestroyChannelProxy(v, n, c)
    BY <2>1
  <2> HIDE DEF g, P, f
  <2>3. Good(v) /\ v.tp[n].transport # None
    BY <1>2, <2>1
  <2>4. /\ Good(g) /\ g.tp[n].transport = v.tp[n].transport
        /\ g.tp[n].chans = v.tp[n].chans \ {c}
        /\ \A m \in Content \ {n} : g.tp[m] = v.tp[m]
    <3> HIDE DEF In
    <3> QED
      BY <2>1, <2>2, <2>3, DestroyChannelGood
  <2>5. In(T \cup {c}, g)
    BY <2>1, <2>4
  <2>6. g \in SessionState /\ T \cup {c} \in SUBSET S
    BY <2>4 DEF Good, Sound, Live
  <2> HIDE DEF In
  <2> QED
    BY <2>5, <2>6 DEF P, g
<1>6. z \in P[S]
  <2> HIDE DEF P, f
  <2> QED
    BY <1>2, <1>4, <1>5, FoldIn
<1> HIDE DEF z
<1>7. z \in SessionState /\ Good(z) /\ z.tp[n].transport = t /\ z.tp[n].chans = {}
      /\ \A m \in Content \ {n} : z.tp[m] = x.tp[m]
  BY <1>6
<1> HIDE DEF P, In
<1>8. NoProxy \in Proxy /\ NoProxy.transport = None /\ NoProxy.chans = {}
      /\ \A c \in Component : NoProxy.impl[c] = None
  BY Types DEF NoProxy
<1>9. \A u \in Transports, c \in Component :
          Wants(NoProxy, u, c) <=> Wants(z.tp[n], u, c)
  <2>1. Proper(z.tp[n])
    BY <1>7 DEF Good
  <2>2. z.tp[n].impl \in [Component -> Transports \cup {None}]
    BY <1>7, ProxyType
  <2>3. \A c \in Component : z.tp[n].impl[c] = None
    BY <1>7, <2>1, <2>2 DEF Proper
  <2> QED
    BY <1>2, <1>7, <1>8, <2>3 DEF Wants
<1>10. Sound(w) /\ w.tp[n] = NoProxy /\ \A m \in Content \ {n} : w.tp[m] = z.tp[m]
  <2>1. Sound(z)
    BY <1>7 DEF Good
  <2>2. NoProxy.chans = z.tp[n].chans /\ \A c \in NoProxy.chans : FALSE
    BY <1>7, <1>8
  <2> QED
    BY <1>8, <1>9, <2>1, <2>2, PutProxySound
<1> HIDE DEF w
<1>11. Alone(w)
  <2>1. Alone(z)
    BY <1>7 DEF Good
  <2> QED
    BY <1>8, <1>10, <2>1 DEF Alone
<1>12. \A m \in Content : Proper(w.tp[m])
  <2>1. \A m \in Content : Proper(z.tp[m])
    BY <1>7 DEF Good
  <2>2. Proper(NoProxy)
    BY <1>8 DEF Proper
  <2> QED
    BY <1>10, <2>1, <2>2
<1>13. Good(w)
  BY <1>10, <1>11, <1>12 DEF Good
<1>14. Good(y) /\ y.tp = w.tp
  BY <1>2, <1>3, <1>13, ReleaseGood
<1> QED
  BY <1>7, <1>8, <1>10, <1>14

\* There are finitely many contents.
LEMMA ContentsFinite ==
    ASSUME NEW C \in SUBSET Content
    PROVE  IsFiniteSet(C)
BY TransportAssumption, FS_Subset

\* The contents of the set C go.
LEMMA DestroyAllGood ==
    ASSUME NEW x, Good(x), NEW C, C \subseteq Contents(x),
           NEW y, y = Each(x, C, DestroyProxy)
    PROVE  /\ Good(y) /\ \A m \in C : y.tp[m].transport = None
           /\ \A m \in Content \ C : y.tp[m] = x.tp[m]
<1> DEFINE f == [p \in SessionState \X C |-> DestroyProxy(p[1], p[2])]
           In(T, v) ==
               /\ Good(v) /\ \A m \in T : v.tp[m].transport = None
               /\ \A m \in Content \ T : v.tp[m] = x.tp[m]
           P == [T \in SUBSET C |-> {v \in SessionState : In(T, v)}]
<1>1. x \in SessionState
  BY DEF Good, Sound, Live
<1>2. C \in SUBSET Content /\ IsFiniteSet(C) /\ \A m \in C : x.tp[m].transport # None
  BY ContentsFinite DEF Contents
<1>3. y = Fold(x, C, f)
  BY Zenon DEF Each
<1>4. x \in P[{}]
  BY <1>1
<1>5. ASSUME NEW T \in SUBSET C, NEW n \in C \ T, NEW v \in P[T]
      PROVE  f[<<v, n>>] \in P[T \cup {n}]
  <2> DEFINE g == f[<<v, n>>]
  <2>1. v \in SessionState /\ In(T, v) /\ n \in Content /\ n \in C
    BY <1>2
  <2>2. g = DestroyProxy(v, n)
    BY <2>1
  <2> HIDE DEF g, P, f
  <2>3. Good(v) /\ v.tp[n].transport # None
    BY <1>2, <2>1
  <2>4. /\ Good(g) /\ g.tp[n].transport = None
        /\ \A m \in Content \ {n} : g.tp[m] = v.tp[m]
    <3> HIDE DEF In
    <3> QED
      BY <2>1, <2>2, <2>3, DestroyProxyGood
  <2>5. In(T \cup {n}, g)
    BY <1>2, <2>1, <2>4
  <2>6. g \in SessionState /\ T \cup {n} \in SUBSET C
    BY <2>4 DEF Good, Sound, Live
  <2> HIDE DEF In
  <2> QED
    BY <2>5, <2>6 DEF P, g
<1>6. y \in P[C]
  <2> HIDE DEF P, f
  <2>1. IsFiniteSet(C)
    BY <1>2
  <2> QED
    BY <1>3, <1>4, <1>5, <2>1, FoldIn
<1> QED
  BY <1>6

-----------------------------------------------------------------------------
(* The operators on all contents of a description.                         *)

\* The contents of the set C come.
LEMMA CreateAllGood ==
    ASSUME NEW x, Good(x), NEW C \in SUBSET Content,
           \A m \in C : x.tp[m].transport = None,
           NEW y, y = Each(x, C, CreateProxy)
    PROVE  /\ Good(y) /\ \A m \in C : y.tp[m].transport # None
           /\ \A m \in Content \ C : y.tp[m] = x.tp[m]
<1> DEFINE f == [p \in SessionState \X C |-> CreateProxy(p[1], p[2])]
           In(T, v) ==
               /\ Good(v) /\ \A m \in T : v.tp[m].transport # None
               /\ \A m \in Content \ T : v.tp[m] = x.tp[m]
           P == [T \in SUBSET C |-> {v \in SessionState : In(T, v)}]
<1>1. x \in SessionState
  BY DEF Good, Sound, Live
<1>2. IsFiniteSet(C)
  BY ContentsFinite
<1>3. y = Fold(x, C, f)
  BY Zenon DEF Each
<1>4. x \in P[{}]
  BY <1>1
<1>5. ASSUME NEW T \in SUBSET C, NEW n \in C \ T, NEW v \in P[T]
      PROVE  f[<<v, n>>] \in P[T \cup {n}]
  <2> DEFINE g == f[<<v, n>>]
  <2>1. v \in SessionState /\ In(T, v) /\ n \in Content /\ n \in C
    OBVIOUS
  <2>2. g = CreateProxy(v, n)
    BY <2>1
  <2> HIDE DEF g, P, f
  <2>3. Good(v) /\ v.tp[n].transport = None
    BY <2>1
  <2>4. /\ Good(g) /\ g.tp[n].transport # None
        /\ \A m \in Content \ {n} : g.tp[m] = v.tp[m]
    <3> HIDE DEF In
    <3> QED
      BY <2>1, <2>2, <2>3, CreateProxyGood
  <2>5. In(T \cup {n}, g)
    BY <2>1, <2>4
  <2>6. g \in SessionState /\ T \cup {n} \in SUBSET C
    BY <2>4 DEF Good, Sound, Live
  <2> HIDE DEF In
  <2> QED
    BY <2>5, <2>6 DEF P, g
<1>6. y \in P[C]
  <2> HIDE DEF P, f
  <2> QED
    BY <1>2, <1>3, <1>4, <1>5, FoldIn
<1> QED
  BY <1>6

\* A description of the contents C is applied.
LEMMA AdjustGood ==
    ASSUME NEW x, Good(x), NEW C \in SUBSET Content,
           NEW y, y = Adjust(x, C)
    PROVE  Good(y) /\ C \subseteq Contents(y)
<1> DEFINE A == C \ Contents(x)
           B == Contents(x) \ C
           z == Each(x, A, CreateProxy)
<1>1. A \in SUBSET Content /\ \A m \in A : x.tp[m].transport = None
  BY DEF Contents
<1> HIDE DEF A
<1>2. /\ Good(z) /\ \A m \in A : z.tp[m].transport # None
      /\ \A m \in Content \ A : z.tp[m] = x.tp[m]
  BY <1>1, CreateAllGood
<1>3. y = Each(z, B, DestroyProxy)
  BY DEF Adjust, A
<1> HIDE DEF z
<1>4. B \subseteq Contents(z)
  BY <1>2 DEF Contents, A
<1> HIDE DEF B
<1>5. /\ Good(y) /\ \A m \in Content \ B : y.tp[m] = z.tp[m]
  BY <1>2, <1>3, <1>4, DestroyAllGood
<1> QED
  BY <1>2, <1>5 DEF A, B, Contents

\* From x to y the contents keep their transports.
KeepsAll(x, y) == \A m \in Content : Keeps(x, y, m)

\* Steps that keep every content compose.
LEMMA KeepsFacts ==
    ASSUME NEW x, NEW y, NEW z
    PROVE  /\ KeepsAll(x, x)
           /\ KeepsAll(x, y) /\ KeepsAll(y, z) => KeepsAll(x, z)
           /\ KeepsAll(x, y) => SameContents(x, y)
           /\ y.tp = x.tp => KeepsAll(x, y)
           /\ KeepsAll(x, y) /\ AllNegotiated(x) => AllNegotiated(y)
BY DEF KeepsAll, Keeps, SameContents, Contents, AllNegotiated

\* Only what no invariant is about changes.
LEMMA FlagGood ==
    ASSUME NEW x, Good(x), NEW y \in SessionState,
           y.tp = x.tp, y.tr = x.tr, y.sq = x.sq, y.wq = x.wq
    PROVE  Good(y)
<1>1. x \in SessionState /\ Live(x, {})
  BY DEF Good, Sound, Live
<1>2. Quiet(x, y)
  BY DEF Quiet, Chan
<1>3. Live(y, {})
  BY <1>1 DEF Live, Deleted, Gathers, Notices, AllWritable, Has, Chan, Queued, Posted
<1> QED
  BY <1>2, <1>3, QuietGood

\* Candidates of the other side complete the negotiation of their content.
LEMMA OnRemoteCandidatesGood ==
    ASSUME NEW x, Good(x), NEW n \in Content, x.tp[n].transport # None,
           NEW valid, NEW y, y = OnRemoteCandidates(x, n, valid)
    PROVE  Good(y) /\ KeepsAll(x, y)
<1> DEFINE z == CompleteNegotiation(x, n)
<1>1. Good(z) /\ KeepsAll(x, z)
  BY CompleteGood DEF KeepsAll
<1>2. y = z \/ y = ConnectChannels(z, n)
  BY DEF OnRemoteCandidates
<1> HIDE DEF z
<1>3. z.tp[n].transport # None
  BY <1>1 DEF KeepsAll, Keeps
<1>4. CASE y = z
  BY <1>1, <1>4
<1>5. CASE y = ConnectChannels(z, n)
  <2>1. Good(y) /\ KeepsAll(z, y)
    BY <1>1, <1>3, <1>5, ConnectGood DEF KeepsAll
  <2> QED
    BY <1>1, <2>1, KeepsFacts
<1> QED
  BY <1>2, <1>4, <1>5

\* An answer completes the negotiation of a content.
LEMMA NegotiatedGood ==
    ASSUME NEW x, Good(x), NEW n \in Content, x.tp[n].transport # None,
           NEW action, NEW y, y = Negotiated(x, n, action)
    PROVE  /\ Good(y) /\ KeepsAll(x, y)
           /\ action = "answer" => y.tp[n].negotiated
<1>1. CASE action = "answer"
  <2>1. y = CompleteNegotiation(x, n)
    BY <1>1 DEF Negotiated
  <2> QED
    BY <2>1, CompleteGood DEF KeepsAll
<1>2. CASE action # "answer"
  BY <1>2, KeepsFacts DEF Negotiated
<1> QED
  BY <1>1, <1>2

\* What one content does when a description of this side is applied.
PushLocal(y, n, action) ==
    ConnectChannels(SetLocalDescription(Negotiated(y, n, action),
                        y.tp[n].transport, "session", action), n)

\* The same, of the other side.
PushRemote(y, n, action) ==
    SetRemoteDescription(Negotiated(y, n, action), y.tp[n].transport, action)

\* A description is pushed down to the transport of one content.
LEMMA PushGood ==
    ASSUME NEW x, Good(x), NEW n \in Content, x.tp[n].transport # None,
           NEW action,
           NEW y, y = PushLocal(x, n, action) \/ y = PushRemote(x, n, action)
    PROVE  /\ Good(y) /\ KeepsAll(x, y)
           /\ action = "answer" => y.tp[n].negotiated
<1> DEFINE t == x.tp[n].transport
           z == Negotiated(x, n, action)
           v == SetLocalDescription(z, t, "session", action)
<1>1. /\ Good(z) /\ KeepsAll(x, z)
      /\ action = "answer" => z.tp[n].negotiated
  BY NegotiatedGood
<1>2. t \in Transports
  BY ProxyType DEF Good, Sound, Live
<1>3. \/ y = ConnectChannels(v, n)
      \/ y = SetRemoteDescription(z, t, action)
  BY DEF PushLocal, PushRemote
<1> HIDE DEF z
<1>4. Live(z, {})
  BY <1>1 DEF Good, Sound
<1>5. z.tp[n].transport = t
  BY <1>1 DEF KeepsAll, Keeps
<1> HIDE DEF t
<1>6. CASE y = SetRemoteDescription(z, t, action)
  <2>1. Live(y, {}) /\ Same(z, y)
    BY <1>2, <1>4, <1>6, SetRemoteLive
  <2>2. Good(y) /\ y.tp = z.tp
    BY <1>1, <2>1, QuietGood DEF Same, Quiet
  <2> QED
    BY <1>1, <2>2, KeepsFacts
<1>7. CASE y = ConnectChannels(v, n)
  <2>1. Live(v, {}) /\ Same(z, v)
    <3>1. "session" \in Creds
      BY DEF Creds
    <3> QED
      BY <1>2, <1>4, <3>1, SetLocalLive
  <2> HIDE DEF v
  <2>2. Good(v) /\ v.tp = z.tp
    BY <1>1, <2>1, QuietGood DEF Same, Quiet
  <2>3. v.tp[n].transport # None
    BY <1>5, <2>2 DEF t
  <2>4. Good(y) /\ KeepsAll(v, y)
    BY <1>7, <2>2, <2>3, ConnectGood DEF KeepsAll
  <2>5. KeepsAll(x, v)
    BY <1>1, <2>2, KeepsFacts
  <2>6. KeepsAll(x, y)
    BY <2>4, <2>5, KeepsFacts
  <2>7. action = "answer" => y.tp[n].negotiated
    BY <1>1, <2>2, <2>4 DEF KeepsAll, Keeps
  <2> QED
    BY <2>4, <2>6, <2>7
<1> QED
  BY <1>3, <1>6, <1>7

\* Every content with a transport is given its part of a description: f is
\* what PushdownLocal or PushdownRemote does for one of them.
LEMMA PushAllGood ==
    ASSUME NEW x, Good(x), NEW action, NEW f, NEW S, S = Contents(x),
           \A v \in SessionState, n \in S :
               f[<<v, n>>] \in {PushLocal(v, n, action), PushRemote(v, n, action)},
           NEW y, y = Fold(x, S, f)
    PROVE  /\ Good(y) /\ SameContents(x, y)
           /\ action = "answer" => AllNegotiated(y)
<1> DEFINE In(T, v) ==
               /\ Good(v) /\ KeepsAll(x, v)
               /\ action = "answer" => \A m \in T : v.tp[m].negotiated
           P == [T \in SUBSET S |-> {v \in SessionState : In(T, v)}]
<1>1. x \in SessionState
  BY DEF Good, Sound, Live
<1>2. S \in SUBSET Content /\ IsFiniteSet(S) /\ \A m \in S : x.tp[m].transport # None
  BY ContentsFinite DEF Contents
<1>3. x \in P[{}]
  BY <1>1, KeepsFacts
<1>4. ASSUME NEW T \in SUBSET S, NEW n \in S \ T, NEW v \in P[T]
      PROVE  f[<<v, n>>] \in P[T \cup {n}]
  <2> DEFINE g == f[<<v, n>>]
  <2>1. v \in SessionState /\ In(T, v) /\ n \in Content /\ n \in S
    BY <1>2
  <2>2. g = PushLocal(v, n, action) \/ g = PushRemote(v, n, action)
    BY <2>1
  <2> HIDE DEF g, P
  <2>3. Good(v) /\ v.tp[n].transport # None
    BY <1>2, <2>1 DEF KeepsAll, Keeps
  <2>4. /\ Good(g) /\ KeepsAll(v, g)
        /\ action = "answer" => g.tp[n].negotiated
    <3> HIDE DEF In
    <3> QED
      BY <2>1, <2>2, <2>3, PushGood
  <2>5. In(T \cup {n}, g)
    <3>1. KeepsAll(x, g)
      BY <2>1, <2>4, KeepsFacts
    <3>2. action = "answer" => \A m \in T \cup {n} : g.tp[m].negotiated
      BY <1>2, <2>1, <2>4 DEF KeepsAll, Keeps
    <3> QED
      BY <2>4, <3>1, <3>2
  <2>6. g \in SessionState /\ T \cup {n} \in SUBSET S
    BY <2>4 DEF Good, Sound, Live
  <2> HIDE DEF In
  <2> QED
    BY <2>5, <2>6 DEF P, g
<1>5. y \in P[S]
  <2> HIDE DEF P
  <2>1. IsFiniteSet(S)
    BY <1>2
  <2> QED
    BY <1>3, <1>4, <2>1, FoldIn
<1>6. In(S, y)
  BY <1>5
<1>7. SameContents(x, y)
  BY <1>6, KeepsFacts
<1>8. action = "answer" => AllNegotiated(y)
  BY <1>6, <1>7 DEF AllNegotiated, SameContents, Contents
<1> QED
  BY <1>6, <1>7, <1>8

\* A description is pushed down to every transport, which an answer makes
\* negotiated.
LEMMA PushdownGood ==
    ASSUME NEW x, Good(x), NEW action,
           NEW y, y = PushdownLocal(x, action) \/ y = PushdownRemote(x, action)
    PROVE  /\ Good(y) /\ SameContents(x, y)
           /\ action = "answer" => AllNegotiated(y)
<1> DEFINE S == Contents(x)
           f == [p \in SessionState \X S |-> PushLocal(p[1], p[2], action)]
           g == [p \in SessionState \X S |-> PushRemote(p[1], p[2], action)]
<1>1. y = Fold(x, S, f) \/ y = Fold(x, S, g)
  BY Zenon DEF PushdownLocal, PushdownRemote, Each, PushLocal, PushRemote
<1>2. \A v \in SessionState, n \in S :
          /\ f[<<v, n>>] \in {PushLocal(v, n, action), PushRemote(v, n, action)}
          /\ g[<<v, n>>] \in {PushLocal(v, n, action), PushRemote(v, n, action)}
  OBVIOUS
<1> HIDE DEF f, g, S
<1>3. S = Contents(x)
  BY DEF S
<1> QED
  BY <1>1, <1>2, <1>3, PushAllGood

\* That gathering is complete is said once and changes nothing else.
LEMMA MaybeGood ==
    ASSUME NEW x, Good(x), NEW y, y = MaybeCandidateAllocationDone(x)
    PROVE  Good(y)
<1>1. CASE y = x
  BY <1>1
<1>2. CASE y # x
  <2>1. y = [x EXCEPT !.ice = "complete"]
    BY <1>2 DEF MaybeCandidateAllocationDone
  <2>2. y \in SessionState /\ y.tp = x.tp /\ y.tr = x.tr /\ y.sq = x.sq /\ y.wq = x.wq
    BY <2>1 DEF Good, Sound, Live, SessionState
  <2> QED
    BY <2>2, FlagGood
<1> QED
  BY <1>1, <1>2

\* A bundle names some of the contents, and one of these first.
LEMMA BundleFacts ==
    ASSUME NEW C, NEW b \in Bundles(C)
    PROVE  b.names \subseteq C /\ b.first \in b.names
<1>1. PICK G \in SUBSET C : b \in {[names |-> G, first |-> n] : n \in G}
  BY DEF Bundles
<1> QED
  BY <1>1

\* The contents of a bundle move to one transport.
LEMMA EnableMuxGood ==
    ASSUME NEW x, Good(x), AllNegotiated(x), NEW b \in Bundles(Contents(x)),
           NEW y, y = EnableMux(x, b)
    PROVE  Good(y)
<1> DEFINE S == b.names
           first == b.first
           f == [p \in SessionState \X S |-> SetupMux(p[1], p[2], first)]
           z == Fold(x, S, f)
           Q == {v \in SessionState : Good(v) /\ AllNegotiated(v) /\ SameContents(x, v)}
<1>1. y = z \/ y = MaybeCandidateAllocationDone(z)
  BY Zenon DEF EnableMux, Each
<1>2. x \in Q
  BY DEF Good, Sound, Live, SameContents
<1>3. S \subseteq Contents(x) /\ S \in SUBSET Content /\ first \in S
  BY BundleFacts DEF Contents
<1>7. IsFiniteSet(S)
  BY <1>3, TransportAssumption, FS_Subset
<1>4. ASSUME NEW n \in S, NEW v \in Q PROVE f[<<v, n>>] \in Q
  <2> DEFINE g == f[<<v, n>>]
  <2>1. v \in SessionState /\ Good(v) /\ AllNegotiated(v) /\ SameContents(x, v)
        /\ n \in Content
    BY <1>3
  <2>2. g = SetupMux(v, n, first)
    BY <2>1
  <2>4. first \in Contents(v) /\ n \in Contents(v)
    BY <1>3, <2>1 DEF SameContents
  <2> HIDE DEF g, first, Q, S, f
  <2>5. /\ first \in Content /\ v.tp[n].transport # None
        /\ v.tp[first].transport # None
    BY <2>4 DEF Contents
  <2>6. Good(g) /\ AllNegotiated(g) /\ SameContents(v, g)
    BY <2>1, <2>2, <2>5, SetupMuxGood
  <2>7. g \in SessionState /\ SameContents(x, g)
    BY <2>1, <2>6 DEF SameContents, Good, Sound, Live
  <2> QED
    BY <2>6, <2>7 DEF Q, g
<1>5. z \in Q
  <2> HIDE DEF Q, f, S
  <2> QED
    BY <1>2, <1>3, <1>4, <1>7, FoldKeeps
<1>6. Good(z)
  BY <1>5
<1> HIDE DEF z
<1> QED
  BY <1>1, <1>6, MaybeGood

-----------------------------------------------------------------------------
(* What is posted, and what the channels report.                           *)

\* A message is handled: it is taken from its queue.
LEMMA TakenFacts ==
    ASSUME NEW S, NEW q \in Seq(S), q # <<>>
    PROVE  /\ Head(q) \in S /\ Tail(q) \in Seq(S)
           /\ \A e : e \in Elements(q) /\ e # Head(q) => e \in Elements(Tail(q))
<1>1. /\ Head(q) \in S /\ Tail(q) \in Seq(S) /\ Len(q) \in Nat /\ Head(q) = q[1]
      /\ DOMAIN q = 1 .. Len(q) /\ DOMAIN Tail(q) = 1 .. Len(q) - 1
      /\ \A i \in 1 .. Len(q) - 1 : Tail(q)[i] = q[i + 1]
  OBVIOUS
<1>2. ASSUME NEW i \in DOMAIN q, q[i] # Head(q) PROVE q[i] \in Elements(Tail(q))
  <2>1. i - 1 \in DOMAIN Tail(q) /\ Tail(q)[i - 1] = q[i]
    BY <1>1, <1>2
  <2> HIDE DEF Tail
  <2> QED
    BY <2>1 DEF Elements
<1> QED
  BY <1>1, <1>2 DEF Elements

\* From p to q only what a proxy says of its channels changes.
SameShape(p, q) ==
    /\ q.transport = p.transport /\ q.chans = p.chans /\ q.impl = p.impl
    /\ q.negotiated = p.negotiated /\ q.connecting = p.connecting
    /\ p.transport = None => q = p

\* A step that only changes what proxies say of their channels keeps the
\* counts.
LEMMA ShapeGood ==
    ASSUME NEW x, Good(x), NEW y, Live(y, {}), Current(y),
           \A n \in Content : SameShape(x.tp[n], y.tp[n]),
           \A t \in Transports, c \in Component :
               Chan(y, t, c).ref = Chan(x, t, c).ref
    PROVE  Good(y)
<1>1. x \in SessionState /\ Counted(x) /\ Alone(x) /\ y \in SessionState
      /\ \A n \in Content : Proper(x.tp[n])
  BY DEF Good, Sound, Live
<1>2. Counted(y)
  <2>1. \A t, c, n : n \in Content => (Wants(y.tp[n], t, c) <=> Wants(x.tp[n], t, c))
    BY DEF Wants, SameShape
  <2>2. \A t, c : Users(y, t, c) = Users(x, t, c)
    BY <1>1, <2>1, UsersFacts
  <2> QED
    BY <1>1, <2>2 DEF Counted
<1>3. Alone(y)
  BY <1>1 DEF Alone, SameShape
<1>4. \A n \in Content : Proper(y.tp[n])
  <2> SUFFICES ASSUME NEW n \in Content PROVE Proper(y.tp[n])
    OBVIOUS
  <2>1. SameShape(x.tp[n], y.tp[n]) /\ Proper(x.tp[n])
    BY <1>1
  <2> QED
    BY <2>1 DEF Proper, SameShape
<1> QED
  BY <1>2, <1>3, <1>4 DEF Good, Sound

\* From x to y a proxy sees nothing, and every update of it stays.
Unseen(x, y) ==
    /\ y \in SessionState /\ y.tp = x.tp
    /\ \A t \in Transports, c \in Component :
          /\ Chan(y, t, c).ref = Chan(x, t, c).ref
          /\ Chan(y, t, c).writable = Chan(x, t, c).writable
    /\ \A n \in Content, c \in Component :
          Posted(x, Update(n, c)) => Posted(y, Update(n, c))

\* A step that proxies do not see keeps what they say.
LEMMA UnseenGood ==
    ASSUME NEW x, Good(x), NEW y, Unseen(x, y), Live(y, {})
    PROVE  Good(y)
<1>1. x \in SessionState /\ Current(x) /\ y \in SessionState /\ y.tp = x.tp
  BY DEF Good, Sound, Live, Unseen
<1>2. Current(y)
  <2> SUFFICES ASSUME NEW n \in Content, NEW c \in Component, c \in y.tp[n].chans
               PROVE  IsCurrent(y, n, c)
    BY DEF Current
  <2>1. IsCurrent(x, n, c)
    BY <1>1 DEF Current
  <2>2. Posted(x, Update(n, c)) => Posted(y, Update(n, c))
    BY DEF Unseen
  <2>3. x.tp[n].impl[c] # None => x.tp[n].impl[c] \in Transports
    BY <1>1, ProxyType
  <2>4. x.tp[n].impl[c] # None => Chan(y, x.tp[n].impl[c], c).writable
                                  = Chan(x, x.tp[n].impl[c], c).writable
    BY <2>3 DEF Unseen
  <2> QED
    BY <1>1, <2>1, <2>2, <2>4, StaysCurrent
<1>3. \A n \in Content : SameShape(x.tp[n], y.tp[n])
  BY <1>1 DEF SameShape
<1> QED
  BY <1>2, <1>3, ShapeGood DEF Unseen

\* The signalling thread takes the oldest of its messages, and no other.
LEMMA TakeSignaling ==
    ASSUME NEW x \in SessionState, x.sq # <<>>, NEW m, m = Head(x.sq),
           NEW y, y = [x EXCEPT !.sq = Tail(@)]
    PROVE  /\ y \in SessionState /\ y.tp = x.tp /\ y.tr = x.tr /\ y.wq = x.wq
           /\ m \in SignalingMessage
           /\ \A e : Queued(x, e) /\ e # m => Queued(y, e)
<1> DEFINE q == Tail(x.sq)
<1>1. /\ m \in SignalingMessage /\ q \in Seq(SignalingMessage)
      /\ \A e : e \in Elements(x.sq) /\ e # m => e \in Elements(q)
  BY TakenFacts DEF SessionState
<1>2. y = [x EXCEPT !.sq = q]
  OBVIOUS
<1> HIDE DEF q
<1>3. y \in SessionState /\ y.tp = x.tp /\ y.tr = x.tr /\ y.wq = x.wq /\ y.sq = q
  BY <1>1, <1>2 DEF SessionState
<1> QED
  BY <1>1, <1>3 DEF Queued

\* The worker takes the oldest of its messages, and no other.
LEMMA TakeWorker ==
    ASSUME NEW x \in SessionState, x.wq # <<>>, NEW m, m = Head(x.wq),
           NEW y, y = [x EXCEPT !.wq = Tail(@)]
    PROVE  /\ y \in SessionState /\ y.tp = x.tp /\ y.tr = x.tr /\ y.sq = x.sq
           /\ m \in WorkerMessage
           /\ \A e : Posted(x, e) /\ e # m => Posted(y, e)
<1> DEFINE q == Tail(x.wq)
<1>1. /\ m \in WorkerMessage /\ q \in Seq(WorkerMessage)
      /\ \A e : e \in Elements(x.wq) /\ e # m => e \in Elements(q)
  BY TakenFacts DEF SessionState
<1>2. y = [x EXCEPT !.wq = q]
  OBVIOUS
<1> HIDE DEF q
<1>3. y \in SessionState /\ y.tp = x.tp /\ y.tr = x.tr /\ y.sq = x.sq /\ y.wq = q
  BY <1>1, <1>2 DEF SessionState
<1> QED
  BY <1>1, <1>3 DEF Posted

\* A request for signalling is answered at once.
LEMMA RequestGood ==
    ASSUME NEW x, Good(x), NEW z \in SessionState, z.tp = x.tp, z.tr = x.tr,
           z.wq = x.wq, NEW t \in Transports, NEW c \in Component,
           \A e : Queued(x, e) /\ e # Request(t, c) => Queued(z, e),
           NEW y, y = OnChannelRequestSignaling(z, t, c)
    PROVE  Good(y)
<1> DEFINE k == [Chan(z, t, c) EXCEPT !.allocated = FALSE]
           v == Put(z, t, c, k)
           w == [v EXCEPT !.ice = "gathering"]
<1>1. x \in SessionState /\ Deleted(x) /\ Gathers(x, {}) /\ Notices(x)
  BY DEF Good, Sound, Live
<1>2. \A u \in Transports, d \in Component : Chan(z, u, d) = Chan(x, u, d)
  BY DEF Chan
<1>3. Chan(x, t, c) \in Channel /\ Chan(x, t, c).ref \in Nat
  BY <1>1, ChanType
<1>4. /\ k \in Channel /\ k.ref = Chan(x, t, c).ref
      /\ k.writable = Chan(x, t, c).writable
      /\ k.gather = Chan(x, t, c).gather /\ k.waiting = Chan(x, t, c).waiting
      /\ k.ref = 0 => k = NoChannel
  <2>1. [NoChannel EXCEPT !.allocated = FALSE] = NoChannel
    <3>1. NoChannel \in Channel /\ NoChannel.allocated = FALSE
      BY Types DEF NoChannel
    <3> QED
      BY <3>1 DEF Channel
  <2>2. Chan(x, t, c).ref = 0 => k = NoChannel
    BY <1>1, <1>2, <2>1 DEF Deleted
  <2> QED
    BY <1>2, <1>3, <2>2 DEF Channel
<1>5. y = PostWorker(w, Ready(t))
  <2> HIDE DEF w
  <2>1. w = [z EXCEPT !.tr[t].chan[c].allocated = FALSE, !.ice = "gathering"]
    BY DEF w, Put, Chan
  <2> QED
    BY <2>1, Zenon DEF OnChannelRequestSignaling, Ready
<1> HIDE DEF k
<1>6. Puts(z, v, t, c, k)
  BY <1>4, PutFacts
<1> HIDE DEF v
<1>7. w \in SessionState /\ w.tp = v.tp /\ w.tr = v.tr /\ w.sq = v.sq /\ w.wq = v.wq
  BY <1>6 DEF SessionState, Puts
<1> HIDE DEF w
<1>8. Same(w, y) /\ Posted(y, Ready(t)) /\ y.tr = w.tr /\ y.sq = w.sq
  BY <1>5, <1>7, Types, PostWorkerFacts
<1>9. \A u \in Transports, d \in Component :
          /\ Chan(y, u, d).ref = Chan(x, u, d).ref
          /\ Chan(y, u, d).writable = Chan(x, u, d).writable
          /\ Chan(y, u, d).gather = Chan(x, u, d).gather
          /\ Chan(y, u, d).waiting = Chan(x, u, d).waiting
          /\ Chan(y, u, d).ref = 0 => Chan(y, u, d) = NoChannel
          /\ Has(y, u, d) <=> Has(x, u, d)
  <2> SUFFICES ASSUME NEW u \in Transports, NEW d \in Component
               PROVE  /\ Chan(y, u, d).ref = Chan(x, u, d).ref
                      /\ Chan(y, u, d).writable = Chan(x, u, d).writable
                      /\ Chan(y, u, d).gather = Chan(x, u, d).gather
                      /\ Chan(y, u, d).waiting = Chan(x, u, d).waiting
                      /\ Chan(y, u, d).ref = 0 => Chan(y, u, d) = NoChannel
                      /\ Has(y, u, d) <=> Has(x, u, d)
    OBVIOUS
  <2>1. Chan(y, u, d) = Chan(v, u, d)
    BY <1>7, <1>8 DEF Chan
  <2>2. CASE u = t /\ d = c
    BY <1>4, <1>6, <2>1, <2>2 DEF Puts, Has, Chan
  <2>3. CASE ~(u = t /\ d = c)
    BY <1>1, <1>2, <1>6, <2>1, <2>3 DEF Puts, Has, Chan, Deleted
  <2> QED
    BY <2>2, <2>3
<1>10. \A u \in Transports : /\ y.tr[u].connect = x.tr[u].connect
                             /\ y.tr[u].writable = x.tr[u].writable
  BY <1>6, <1>7, <1>8 DEF Puts
<1>11. /\ y \in SessionState /\ y.tp = x.tp /\ y.sq = z.sq
       /\ \A e : Posted(x, e) => Posted(y, e)
  BY <1>6, <1>7, <1>8 DEF Puts, Same, Quiet, Posted
<1>12. Deleted(y)
  BY <1>9 DEF Deleted
<1>13. Notices(y)
  <2>1. \A u \in Transports : Queued(x, Write(u)) => Queued(y, Write(u))
    BY <1>11 DEF Queued, Write, Request
  <2> QED
    BY <1>1, <1>9, <1>10, <2>1 DEF Notices, AllWritable
<1>14. Gathers(y, {})
  <2> SUFFICES ASSUME NEW u \in Transports, NEW d \in Component
               PROVE  /\ Has(y, u, d) /\ y.tr[u].connect =>
                             Chan(y, u, d).gather # "none" \/ Chan(y, u, d).waiting
                      /\ Chan(y, u, d).waiting =>
                             Queued(y, Request(u, d)) \/ Posted(y, Ready(u))
    BY DEF Gathers
  <2>1. CASE u = t
    BY <1>1, <1>8, <1>9, <1>10, <2>1 DEF Gathers
  <2>2. CASE u # t
    <3>1. Queued(x, Request(u, d)) => Queued(y, Request(u, d))
      BY <1>11, <2>2 DEF Queued, Request
    <3> QED
      BY <1>1, <1>9, <1>10, <1>11, <3>1 DEF Gathers
  <2> QED
    BY <2>1, <2>2
<1>15. Unseen(x, y)
  BY <1>9, <1>11 DEF Unseen
<1> QED
  BY <1>11, <1>12, <1>13, <1>14, <1>15, UnseenGood DEF Live

\* A transport says whether its channels are writable.
WriteState(x, t) == [x EXCEPT !.tr[t].writable = GetTransportState(x, t)]

\* OnChannelWritableState_s looks at the channels as they are by then.
LEMMA WriteGood ==
    ASSUME NEW x, Good(x), NEW z \in SessionState, z.tp = x.tp, z.tr = x.tr,
           z.wq = x.wq, NEW t \in Transports,
           \A e : Queued(x, e) /\ e # Write(t) => Queued(z, e),
           NEW y, y = WriteState(z, t)
    PROVE  Good(y)
<1> DEFINE g == GetTransportState(z, t)
           r == [z.tr[t] EXCEPT !.writable = g]
<1>1. x \in SessionState /\ Deleted(x) /\ Gathers(x, {}) /\ Notices(x)
  BY DEF Good, Sound, Live
<1>2. g \in {"none", "some", "all"}
  BY DEF GetTransportState
<1>3. AllWritable(x, t) => g = "all"
  <2> DEFINE W == {c \in Channels(z, t) : z.tr[t].chan[c].writable}
  <2> SUFFICES ASSUME AllWritable(x, t) PROVE W # {} /\ W = Channels(z, t)
    BY DEF GetTransportState
  <2>1. \A c \in Component : c \in Channels(z, t) <=> Has(x, t, c)
    BY DEF Channels, Has
  <2>2. \A c \in Channels(z, t) : z.tr[t].chan[c].writable
    BY <2>1 DEF AllWritable, Chan, Channels
  <2>3. Channels(z, t) # {}
    BY <2>1 DEF AllWritable
  <2> QED
    BY <2>2, <2>3
<1> HIDE DEF g
<1>4. /\ r \in TransportState /\ r.chan = z.tr[t].chan /\ r.connect = z.tr[t].connect
      /\ r.writable = g
  <2>1. z.tr[t] \in TransportState
    BY RowType
  <2> QED
    BY <1>2, <2>1 DEF TransportState
<1>5. y = PutRow(z, t, r)
  BY DEF WriteState, PutRow, g
<1> HIDE DEF r
<1>6. /\ y \in SessionState /\ y.tp = z.tp /\ y.sq = z.sq /\ y.wq = z.wq
      /\ y.tr[t] = r
      /\ \A c \in Component : Chan(y, t, c) = r.chan[c]
      /\ \A u \in Transports \ {t} : y.tr[u] = z.tr[u]
      /\ \A u \in Transports \ {t}, c \in Component : Chan(y, u, c) = Chan(z, u, c)
  BY <1>4, <1>5, PutRowFacts
<1>7. \A u \in Transports, c \in Component : Chan(y, u, c) = Chan(x, u, c)
                                             /\ (Has(y, u, c) <=> Has(x, u, c))
  <2>1. \A u \in Transports, c \in Component : Chan(y, u, c) = Chan(x, u, c)
    BY <1>4, <1>6 DEF Chan
  <2> QED
    BY <2>1 DEF Has, Chan
<1>8. \A u \in Transports : /\ y.tr[u].connect = x.tr[u].connect
                            /\ u # t => y.tr[u].writable = x.tr[u].writable
  BY <1>4, <1>6
<1>9. Deleted(y)
  BY <1>1, <1>7 DEF Deleted
<1>10. Gathers(y, {})
  <2>1. \A u \in Transports, c \in Component :
            /\ Queued(x, Request(u, c)) => Queued(y, Request(u, c))
            /\ Posted(x, Ready(u)) => Posted(y, Ready(u))
    BY <1>6 DEF Queued, Posted, Request, Write
  <2> QED
    BY <1>1, <1>7, <1>8, <2>1 DEF Gathers
<1>11. Notices(y)
  <2> SUFFICES ASSUME NEW u \in Transports, AllWritable(y, u)
               PROVE  y.tr[u].writable = "all" \/ Queued(y, Write(u))
    BY DEF Notices
  <2>1. AllWritable(x, u)
    BY <1>7 DEF AllWritable
  <2>2. CASE u = t
    BY <1>3, <1>4, <1>6, <2>1, <2>2
  <2>3. CASE u # t
    <3>1. Queued(x, Write(u)) => Queued(y, Write(u))
      BY <1>6, <2>3 DEF Queued, Write
    <3> QED
      BY <1>1, <1>8, <2>1, <2>3, <3>1 DEF Notices
  <2> QED
    BY <2>2, <2>3
<1>12. Unseen(x, y)
  BY <1>6, <1>7 DEF Unseen, Posted
<1> QED
  BY <1>6, <1>9, <1>10, <1>11, <1>12, UnseenGood DEF Live

\* A message that no invariant is about is taken from the queue.
LEMMA TakenGood ==
    ASSUME NEW x, Good(x), NEW z \in SessionState, z.tp = x.tp, z.tr = x.tr,
           z.wq = x.wq, NEW m, m.type = "allocated",
           \A e : Queued(x, e) /\ e # m => Queued(z, e)
    PROVE  Good(z)
<1>1. x \in SessionState /\ Deleted(x) /\ Gathers(x, {}) /\ Notices(x)
  BY DEF Good, Sound, Live
<1>2. \A u \in Transports, c \in Component :
          /\ Queued(x, Request(u, c)) => Queued(z, Request(u, c))
          /\ Queued(x, Write(u)) => Queued(z, Write(u))
  BY DEF Request, Write
<1>3. Deleted(z)
  BY <1>1 DEF Deleted, Chan
<1>4. Notices(z)
  <2>1. \A u \in Transports : Queued(x, Write(u)) => Queued(z, Write(u))
    BY DEF Write
  <2> QED
    BY <1>1, <2>1 DEF Notices, AllWritable, Has, Chan
<1>5. Gathers(z, {})
  BY <1>1, <1>2 DEF Gathers, Has, Chan, Posted
<1>6. Unseen(x, z)
  BY DEF Unseen, Chan, Posted
<1> QED
  BY <1>3, <1>4, <1>5, <1>6, UnseenGood DEF Live

\* The contents of a transport that has all its candidates know it.
LEMMA AllocatedGood ==
    ASSUME NEW x, Good(x), NEW t \in Transports,
           NEW y, y = OnTransportCandidatesAllocationDone(x, t)
    PROVE  Good(y)
<1> DEFINE h == [n \in Content |->
                    IF x.tp[n].transport = t THEN [x.tp[n] EXCEPT !.allocated = TRUE]
                    ELSE x.tp[n]]
           z == [x EXCEPT !.tp = h]
<1>1. x \in SessionState /\ Live(x, {}) /\ Current(x)
  BY DEF Good, Sound, Live
<1>2. y = MaybeCandidateAllocationDone(z)
  BY Zenon DEF OnTransportCandidatesAllocationDone
<1>3. \A n \in Content : /\ h[n] \in Proxy /\ SameShape(x.tp[n], h[n])
                         /\ h[n].writable = x.tp[n].writable
  <2> SUFFICES ASSUME NEW n \in Content
               PROVE  /\ h[n] \in Proxy /\ SameShape(x.tp[n], h[n])
                      /\ h[n].writable = x.tp[n].writable
    OBVIOUS
  <2>1. x.tp[n] \in Proxy /\ None \notin Transports
    BY <1>1, ProxyType
  <2> QED
    BY <2>1 DEF SameShape, Proxy
<1>4. h \in [Content -> Proxy]
  BY <1>3
<1> HIDE DEF h
<1>5. z \in SessionState /\ z.tp = h /\ z.tr = x.tr /\ z.sq = x.sq /\ z.wq = x.wq
  BY <1>1, <1>4 DEF SessionState
<1> HIDE DEF z
<1>6. \A u \in Transports, d \in Component : Chan(z, u, d) = Chan(x, u, d)
  BY <1>5 DEF Chan
<1>7. Live(z, {})
  BY <1>1, <1>5
     DEF Live, Deleted, Gathers, Notices, AllWritable, Has, Chan, Queued, Posted
<1>8. Current(z)
  <2> SUFFICES ASSUME NEW m \in Content, NEW d \in Component, d \in z.tp[m].chans
               PROVE  IsCurrent(z, m, d)
    BY DEF Current
  <2>1. /\ z.tp[m].impl[d] = x.tp[m].impl[d]
        /\ z.tp[m].writable[d] = x.tp[m].writable[d]
        /\ d \in x.tp[m].chans
    BY <1>3, <1>5 DEF SameShape
  <2>2. IsCurrent(x, m, d)
    BY <1>1, <2>1 DEF Current
  <2>3. x.tp[m].impl[d] # None => x.tp[m].impl[d] \in Transports
    BY <1>1, ProxyType
  <2> QED
    BY <1>1, <1>5, <1>6, <2>1, <2>2, <2>3, StaysCurrent DEF Posted
<1>9. Good(z)
  BY <1>3, <1>5, <1>6, <1>7, <1>8, ShapeGood
<1> QED
  BY <1>2, <1>9, MaybeGood

\* What HandleSignaling does with the oldest message.
Handled(x, m) ==
    CASE m.type = "request" -> OnChannelRequestSignaling(x, m.t, m.c)
      [] m.type = "allocated" -> OnTransportCandidatesAllocationDone(x, m.t)
      [] m.type = "write" -> WriteState(x, m.t)

\* Whatever the signalling thread handles, the invariant stays.
LEMMA SignalingGood ==
    ASSUME NEW x, Good(x), x.sq # <<>>, NEW m, m = Head(x.sq),
           NEW z, z = [x EXCEPT !.sq = Tail(@)], NEW y, y = Handled(z, m)
    PROVE  Good(y)
<1>1. x \in SessionState
  BY DEF Good, Sound, Live
<1>2. /\ z \in SessionState /\ z.tp = x.tp /\ z.tr = x.tr /\ z.wq = x.wq
      /\ m \in SignalingMessage
      /\ \A e : Queued(x, e) /\ e # m => Queued(z, e)
  BY <1>1, TakeSignaling
<1>3. \/ \E t \in Transports, c \in Component :
            m = [type |-> "request", t |-> t, c |-> c]
      \/ \E t \in Transports : m = [type |-> "write", t |-> t]
      \/ \E t \in Transports : m = [type |-> "allocated", t |-> t]
  BY <1>2 DEF SignalingMessage
<1>4. ASSUME NEW t \in Transports, NEW c \in Component,
             m = [type |-> "request", t |-> t, c |-> c]
      PROVE  Good(y)
  <2>1. m.type = "request" /\ m.t = t /\ m.c = c /\ m = Request(t, c)
    BY <1>4 DEF Request
  <2>2. y = OnChannelRequestSignaling(z, t, c)
    BY <2>1 DEF Handled
  <2> QED
    BY <1>2, <2>1, <2>2, RequestGood, ZenonT(40)
<1>5. ASSUME NEW t \in Transports, m = [type |-> "write", t |-> t]
      PROVE  Good(y)
  <2>1. m.type = "write" /\ m.t = t /\ m = Write(t)
    BY <1>5 DEF Write
  <2>2. y = WriteState(z, t)
    BY <2>1 DEF Handled
  <2> QED
    BY <1>2, <2>1, <2>2, WriteGood
<1>6. ASSUME NEW t \in Transports, m = [type |-> "allocated", t |-> t]
      PROVE  Good(y)
  <2>1. m.type = "allocated" /\ m.t = t
    BY <1>6
  <2>2. y = OnTransportCandidatesAllocationDone(z, t)
    BY <2>1 DEF Handled
  <2>3. Good(z)
    BY <1>2, <2>1, TakenGood
  <2> QED
    BY <2>2, <2>3, AllocatedGood
<1> QED
  BY <1>3, <1>4, <1>5, <1>6

\* Signalling is ready: what waits for it gathers.
LEMMA ReadyGood ==
    ASSUME NEW x, Good(x), NEW z \in SessionState, z.tp = x.tp, z.tr = x.tr,
           z.sq = x.sq, NEW t \in Transports,
           \A e : Posted(x, e) /\ e # Ready(t) => Posted(z, e),
           NEW y, y = EachChannel(z, t, OnSignalingReady)
    PROVE  Good(y)
<1> DEFINE h == [c \in Component |->
                    IF z.tr[t].chan[c].ref > 0
                    THEN OnSignalingReady(z.tr[t].chan[c]) ELSE z.tr[t].chan[c]]
           r == [z.tr[t] EXCEPT !.chan = h]
<1>1. x \in SessionState /\ Deleted(x) /\ Gathers(x, {}) /\ Notices(x)
  BY DEF Good, Sound, Live
<1>2. /\ z.tr[t] \in TransportState
      /\ z.tr[t].chan \in [Component -> Channel]
      /\ \A c \in Component : z.tr[t].chan[c] = Chan(x, t, c)
  BY RowType DEF Chan
<1>3. ASSUME NEW c \in Component
      PROVE  /\ h[c] \in Channel
             /\ h[c].ref = Chan(x, t, c).ref
             /\ h[c].writable = Chan(x, t, c).writable
             /\ ~h[c].waiting
             /\ Chan(x, t, c).gather # "none" \/ Chan(x, t, c).waiting
                   => h[c].gather # "none"
             /\ h[c].ref = 0 => h[c] = NoChannel
  <2>1. /\ Chan(x, t, c) \in Channel /\ Chan(x, t, c).ref \in Nat
        /\ z.tr[t].chan[c] = Chan(x, t, c)
    BY <1>1, <1>2, ChanType
  <2>2. CASE Chan(x, t, c).ref = 0
    <3>1. Chan(x, t, c) = NoChannel
      BY <1>1, <2>2 DEF Deleted
    <3>2. h[c] = NoChannel
      BY <2>1, <2>2, <3>1
    <3>3. ~NoChannel.waiting /\ NoChannel.gather = "none"
      BY DEF NoChannel
    <3> HIDE DEF h
    <3> QED
      BY <2>1, <3>1, <3>2, <3>3
  <2>3. CASE Chan(x, t, c).ref # 0
    <3>1. h[c] = OnSignalingReady(Chan(x, t, c))
      BY <2>1, <2>3
    <3> HIDE DEF h
    <3> QED
      BY <2>1, <2>3, <3>1 DEF OnSignalingReady, Channel
  <2> QED
    BY <2>2, <2>3
<1>4. h \in [Component -> Channel]
  BY <1>3
<1>5. y = PutRow(z, t, r)
  BY DEF EachChannel, PutRow
<1> HIDE DEF h
<1>6. /\ r \in TransportState /\ r.chan = h /\ r.connect = z.tr[t].connect
      /\ r.writable = z.tr[t].writable
  BY <1>2, <1>4 DEF TransportState
<1> HIDE DEF r
<1>7. /\ y \in SessionState /\ y.tp = z.tp /\ y.sq = z.sq /\ y.wq = z.wq
      /\ y.tr[t] = r
      /\ \A c \in Component : Chan(y, t, c) = r.chan[c]
      /\ \A u \in Transports \ {t} : y.tr[u] = z.tr[u]
      /\ \A u \in Transports \ {t}, c \in Component : Chan(y, u, c) = Chan(z, u, c)
  BY <1>5, <1>6, PutRowFacts
<1>8. /\ \A c \in Component : Chan(y, t, c) = h[c]
      /\ \A u \in Transports \ {t}, c \in Component : Chan(y, u, c) = Chan(x, u, c)
  BY <1>6, <1>7 DEF Chan
<1>9. \A u \in Transports, d \in Component :
          /\ Chan(y, u, d).ref = Chan(x, u, d).ref
          /\ Chan(y, u, d).writable = Chan(x, u, d).writable
          /\ Has(y, u, d) <=> Has(x, u, d)
          /\ Chan(y, u, d).ref = 0 => Chan(y, u, d) = NoChannel
  <2>1. \A u \in Transports, d \in Component :
            /\ Chan(y, u, d).ref = Chan(x, u, d).ref
            /\ Chan(y, u, d).writable = Chan(x, u, d).writable
            /\ Chan(y, u, d).ref = 0 => Chan(y, u, d) = NoChannel
    BY <1>1, <1>3, <1>8 DEF Deleted
  <2> QED
    BY <2>1 DEF Has, Chan
<1>10. \A u \in Transports : /\ y.tr[u].connect = x.tr[u].connect
                             /\ y.tr[u].writable = x.tr[u].writable
  BY <1>6, <1>7
<1>11. Deleted(y)
  BY <1>9 DEF Deleted
<1>12. Notices(y)
  BY <1>1, <1>7, <1>9, <1>10 DEF Notices, AllWritable, Queued
<1>13. Gathers(y, {})
  <2> SUFFICES ASSUME NEW u \in Transports, NEW d \in Component
               PROVE  /\ Has(y, u, d) /\ y.tr[u].connect =>
                             Chan(y, u, d).gather # "none" \/ Chan(y, u, d).waiting
                      /\ Chan(y, u, d).waiting =>
                             Queued(y, Request(u, d)) \/ Posted(y, Ready(u))
    BY DEF Gathers
  <2>1. CASE u = t
    BY <1>1, <1>3, <1>8, <1>9, <1>10, <2>1 DEF Gathers
  <2>2. CASE u # t
    <3>1. Posted(x, Ready(u)) => Posted(y, Ready(u))
      BY <1>7, <2>2 DEF Posted, Ready
    <3>2. Queued(x, Request(u, d)) => Queued(y, Request(u, d))
      BY <1>7 DEF Queued
    <3> QED
      BY <1>1, <1>8, <1>9, <1>10, <2>2, <3>1, <3>2 DEF Gathers
  <2> QED
    BY <2>1, <2>2
<1>14. Unseen(x, y)
  <2>1. \A n \in Content, c \in Component :
            Posted(x, Update(n, c)) => Posted(y, Update(n, c))
    BY <1>7 DEF Posted, Update, Ready
  <2> QED
    BY <1>7, <1>9, <2>1 DEF Unseen
<1> QED
  BY <1>7, <1>11, <1>12, <1>13, <1>14, UnseenGood DEF Live

\* What a proxy says of a channel is flag.
Flagged(p, c, flag) == [p EXCEPT !.writable[c] = flag]

\* Flagged changes what a proxy says of one channel.
LEMMA FlaggedFacts ==
    ASSUME NEW p \in Proxy, NEW c \in Component, NEW flag \in BOOLEAN,
           NEW q, q = Flagged(p, c, flag)
    PROVE  /\ q \in Proxy /\ q.transport = p.transport /\ q.chans = p.chans
           /\ q.impl = p.impl /\ q.negotiated = p.negotiated
           /\ q.connecting = p.connecting /\ q.writable[c] = flag
           /\ \A d \in Component \ {c} : q.writable[d] = p.writable[d]
BY DEF Flagged, Proxy

\* What UpdateState makes of the flag.
Shown(x, n, c) ==
    x.tp[n].impl[c] # None /\ x.tr[x.tp[n].impl[c]].chan[c].writable

\* What a proxy is to say of a channel is a truth value.
LEMMA ShownType ==
    ASSUME NEW x \in SessionState, NEW n \in Content, NEW c \in Component
    PROVE  Shown(x, n, c) \in BOOLEAN
BY DEF Shown

\* A proxy takes over what its channel is.
LEMMA UpdateGood ==
    ASSUME NEW x, Good(x), NEW z \in SessionState, z.tp = x.tp, z.tr = x.tr,
           z.sq = x.sq, NEW n \in Content, NEW c \in Component,
           \A e : Posted(x, e) /\ e # Update(n, c) => Posted(z, e),
           NEW y, y = UpdateState(z, n, c)
    PROVE  Good(y)
<1> DEFINE p == Flagged(x.tp[n], c, Shown(z, n, c))
<1>1. /\ x \in SessionState /\ Live(x, {}) /\ Current(x)
      /\ \A m \in Content : Proper(x.tp[m])
  BY DEF Good, Sound, Live
<1>2. x.tp[n] \in Proxy /\ Shown(z, n, c) \in BOOLEAN
  BY <1>1, ProxyType, ShownType
<1>3. /\ p \in Proxy /\ p.transport = x.tp[n].transport /\ p.chans = x.tp[n].chans
      /\ p.impl = x.tp[n].impl /\ p.negotiated = x.tp[n].negotiated
      /\ p.connecting = x.tp[n].connecting /\ p.writable[c] = Shown(z, n, c)
      /\ \A d \in Component \ {c} : p.writable[d] = x.tp[n].writable[d]
  BY <1>2, FlaggedFacts, SMTT(40)
<1>4. y = PutProxy(z, n, p)
  BY DEF UpdateState, PutProxy, Flagged, Shown
<1>5. p = x.tp[n] \/ x.tp[n].transport # None
  <2> SUFFICES ASSUME x.tp[n].transport = None PROVE p = x.tp[n]
    OBVIOUS
  <2>1. x.tp[n] = NoProxy
    BY <1>1 DEF Proper
  <2>2. NoProxy.impl[c] = None /\ NoProxy.writable[c] = FALSE
    BY DEF NoProxy
  <2>3. Shown(z, n, c) = FALSE
    BY <2>1, <2>2 DEF Shown
  <2>4. Flagged(NoProxy, c, FALSE) = NoProxy
    <3>1. NoProxy \in Proxy
      BY Types
    <3> HIDE DEF NoProxy
    <3> QED
      BY <2>2, <3>1 DEF Flagged, Proxy
  <2> QED
    BY <2>1, <2>3, <2>4
<1> HIDE DEF p
<1>6. /\ y \in SessionState /\ y.tr = z.tr /\ y.sq = z.sq /\ y.wq = z.wq
      /\ y.tp[n] = p /\ \A m \in Content \ {n} : y.tp[m] = z.tp[m]
  BY <1>3, <1>4, PutProxyFacts
<1>7. \A u \in Transports, d \in Component : Chan(y, u, d) = Chan(x, u, d)
  BY <1>6 DEF Chan
<1>8. Live(y, {})
  <2>1. \A u \in Transports, d \in Component :
            /\ Queued(x, Request(u, d)) => Queued(y, Request(u, d))
            /\ Queued(x, Write(u)) => Queued(y, Write(u))
            /\ Posted(x, Ready(u)) => Posted(y, Ready(u))
    BY <1>6 DEF Queued, Posted, Ready, Update
  <2>2. \A u \in Transports, d \in Component : Has(y, u, d) <=> Has(x, u, d)
    BY <1>6 DEF Has
  <2>3. Deleted(y)
    BY <1>1, <1>7 DEF Live, Deleted
  <2>4. Gathers(y, {})
    BY <1>1, <1>6, <1>7, <2>1, <2>2 DEF Live, Gathers
  <2>5. Notices(y)
    BY <1>1, <1>6, <1>7, <2>1, <2>2 DEF Live, Notices, AllWritable
  <2> QED
    BY <1>6, <2>3, <2>4, <2>5 DEF Live
<1>9. \A m \in Content : SameShape(x.tp[m], y.tp[m])
  BY <1>3, <1>5, <1>6 DEF SameShape
<1>10. Current(y)
  <2> SUFFICES ASSUME NEW m \in Content, NEW d \in Component, d \in y.tp[m].chans
               PROVE  IsCurrent(y, m, d)
    BY DEF Current
  <2>1. CASE m = n /\ d = c
    <3>1. y.tp[n].writable[c] = Shown(z, n, c)
      BY <1>3, <1>6
    <3>2. Shown(z, n, c) = Shown(y, n, c)
      BY <1>3, <1>6 DEF Shown
    <3>3. Shown(y, n, c) <=> y.tp[n].impl[c] # None /\ Chan(y, y.tp[n].impl[c], c).writable
      BY DEF Shown, Chan
    <3> QED
      BY <2>1, <3>1, <3>2, <3>3 DEF IsCurrent
  <2>2. CASE ~(m = n /\ d = c)
    <3>1. Posted(x, Update(m, d)) => Posted(y, Update(m, d))
      BY <1>6, <2>2 DEF Posted, Update
    <3>2. /\ y.tp[m].impl[d] = x.tp[m].impl[d]
          /\ y.tp[m].writable[d] = x.tp[m].writable[d]
          /\ d \in x.tp[m].chans
      BY <1>3, <1>6, <2>2
    <3>3. IsCurrent(x, m, d)
      BY <1>1, <3>2 DEF Current
    <3>4. x.tp[m].impl[d] # None => x.tp[m].impl[d] \in Transports
      BY <1>1, ProxyType
    <3> QED
      BY <1>1, <1>6, <1>7, <3>1, <3>2, <3>3, <3>4, StaysCurrent
  <2> QED
    BY <2>1, <2>2
<1> QED
  BY <1>7, <1>8, <1>9, <1>10, ShapeGood

\* Whatever the worker handles, the invariant stays.
LEMMA WorkerGood ==
    ASSUME NEW x, Good(x), x.wq # <<>>, NEW m, m = Head(x.wq),
           NEW z, z = [x EXCEPT !.wq = Tail(@)],
           NEW y, y = IF m.type = "signaling"
                      THEN EachChannel(z, m.t, OnSignalingReady)
                      ELSE UpdateState(z, m.n, m.c)
    PROVE  Good(y)
<1>1. x \in SessionState
  BY DEF Good, Sound, Live
<1>2. /\ z \in SessionState /\ z.tp = x.tp /\ z.tr = x.tr /\ z.sq = x.sq
      /\ m \in WorkerMessage
      /\ \A e : Posted(x, e) /\ e # m => Posted(z, e)
  BY <1>1, TakeWorker
<1>3. \/ \E t \in Transports : m = [type |-> "signaling", t |-> t]
      \/ \E n \in Content, c \in Component :
            m = [type |-> "update", n |-> n, c |-> c]
  BY <1>2 DEF WorkerMessage
<1>4. ASSUME NEW t \in Transports, m = [type |-> "signaling", t |-> t]
      PROVE  Good(y)
  <2>1. m.type = "signaling" /\ m.t = t /\ m = Ready(t)
    BY <1>4 DEF Ready
  <2>2. y = EachChannel(z, t, OnSignalingReady)
    BY <2>1
  <2> QED
    BY <1>2, <2>1, <2>2, ReadyGood
<1>5. ASSUME NEW n \in Content, NEW c \in Component,
             m = [type |-> "update", n |-> n, c |-> c]
      PROVE  Good(y)
  <2>1. m.type = "update" /\ m.n = n /\ m.c = c /\ m = Update(n, c)
    BY <1>5 DEF Update
  <2>2. y = UpdateState(z, n, c)
    BY <2>1
  <2> QED
    BY <1>2, <2>1, <2>2, UpdateGood, ZenonT(40)
<1> QED
  BY <1>3, <1>4, <1>5

\* A channel has gathered, and its transport reports it if all have.
Gathered(k) == [k EXCEPT !.gather = "done", !.allocated = TRUE]

\* A channel is done, and asks for what another description made it wait for.
LEMMA GatheredGood ==
    ASSUME NEW x, Good(x), NEW t \in Transports, NEW c \in Component,
           Chan(x, t, c).gather = "running",
           NEW z, z = Put(x, t, c, Gathered(Chan(x, t, c))), NEW y,
           y = z \/ y = PostSignaling(z, [type |-> "allocated", t |-> t])
    PROVE  Good(y)
<1> DEFINE k == Gathered(Chan(x, t, c))
<1>1. x \in SessionState /\ Live(x, {}) /\ Deleted(x) /\ Gathers(x, {})
  BY DEF Good, Sound, Live
<1>2. Chan(x, t, c) \in Channel /\ (Has(x, t, c) <=> Chan(x, t, c).ref # 0)
  BY <1>1, ChanType
<1>3. Has(x, t, c)
  <2>1. NoChannel.gather = "none"
    BY DEF NoChannel
  <2> QED
    BY <1>1, <1>2, <2>1 DEF Deleted
<1>4. /\ k \in Channel /\ k.ref = Chan(x, t, c).ref
      /\ k.writable = Chan(x, t, c).writable
      /\ k.waiting = Chan(x, t, c).waiting /\ k.gather # "none"
  BY <1>2 DEF Gathered, Channel
<1>5. z = Put(x, t, c, k)
  OBVIOUS
<1> HIDE DEF k
<1>6. k.waiting => Queued(x, Request(t, c)) \/ Posted(x, Ready(t))
  BY <1>1, <1>4 DEF Gathers
<1>7. Live(z, {}) /\ Same(x, z)
  <2> DEFINE E == {}
  <2>1. Live(x, E) /\ E \subseteq E \cup {<<t, c>>}
    BY <1>1
  <2> HIDE DEF E
  <2>2. Live(z, E) /\ Same(x, z)
    BY <1>3, <1>4, <1>5, <1>6, <2>1, PutLive
  <2> QED
    BY <2>2 DEF E
<1>8. Good(z)
  BY <1>7, QuietGood DEF Same
<1>9. CASE y = PostSignaling(z, [type |-> "allocated", t |-> t])
  <2>1. z \in SessionState /\ [type |-> "allocated", t |-> t] \in SignalingMessage
    BY <1>7, Types DEF Live
  <2>2. Same(z, y)
    BY <1>9, <2>1, PostSignalingFacts
  <2>3. Live(y, {})
    BY <1>7, <1>9, <2>1, PostLive
  <2> QED
    BY <1>8, <2>2, <2>3, QuietGood DEF Same
<1> QED
  BY <1>8, <1>9

\* A channel becomes writable, or stops to be; its proxies follow.
Flipped(k) == [k EXCEPT !.writable = ~@]

Following(x, t, c) ==
    [n \in Content |-> IF x.tp[n].impl[c] = t THEN UpdateState(x, n, c).tp[n]
                       ELSE x.tp[n]]

PutProxies(x, h) == [x EXCEPT !.tp = h]

\* The proxies that follow a channel say what it is; the others do not change.
LEMMA FollowingFacts ==
    ASSUME NEW z \in SessionState, NEW t \in Transports, NEW c \in Component,
           \A n \in Content : Proper(z.tp[n]),
           NEW h, h = Following(z, t, c), NEW n \in Content
    PROVE  /\ h[n] \in Proxy /\ SameShape(z.tp[n], h[n])
           /\ z.tp[n].impl[c] = t => h[n].writable[c] = Shown(z, n, c)
           /\ z.tp[n].impl[c] # t => h[n].writable[c] = z.tp[n].writable[c]
           /\ \A d \in Component \ {c} : h[n].writable[d] = z.tp[n].writable[d]
<1>1. z.tp[n] \in Proxy /\ Shown(z, n, c) \in BOOLEAN /\ None \notin Transports
  BY ProxyType, ShownType
<1>2. CASE z.tp[n].impl[c] # t
  <2>1. h[n] = z.tp[n]
    BY <1>2 DEF Following
  <2> QED
    BY <1>1, <1>2, <2>1 DEF SameShape
<1>3. CASE z.tp[n].impl[c] = t
  <2> DEFINE p == Flagged(z.tp[n], c, Shown(z, n, c))
  <2>1. /\ p \in Proxy /\ p.transport = z.tp[n].transport
        /\ p.chans = z.tp[n].chans /\ p.impl = z.tp[n].impl
        /\ p.negotiated = z.tp[n].negotiated
        /\ p.connecting = z.tp[n].connecting /\ p.writable[c] = Shown(z, n, c)
        /\ \A d \in Component \ {c} : p.writable[d] = z.tp[n].writable[d]
    BY <1>1, FlaggedFacts
  <2>2. UpdateState(z, n, c) = PutProxy(z, n, p)
    BY DEF UpdateState, PutProxy, Flagged, Shown
  <2> HIDE DEF p
  <2>3. UpdateState(z, n, c).tp[n] = p
    BY <2>1, <2>2, PutProxyFacts
  <2>4. h[n] = p
    BY <1>3, <2>3 DEF Following
  <2>5. z.tp[n].transport # None
    <3>1. NoProxy.impl[c] = None
      BY DEF NoProxy
    <3>2. Proper(z.tp[n])
      OBVIOUS
    <3> QED
      BY <1>1, <1>3, <3>1, <3>2 DEF Proper
  <2> QED
    BY <1>3, <2>1, <2>4, <2>5 DEF SameShape
<1> QED
  BY <1>2, <1>3

\* A change of writability is seen by all proxies at once, and reported.
LEMMA FlipGood ==
    ASSUME NEW x, Good(x), NEW t \in Transports, NEW c \in Component,
           Chan(x, t, c).gather # "none",
           NEW z, z = Put(x, t, c, Flipped(Chan(x, t, c))),
           NEW w, w = PutProxies(z, Following(z, t, c)),
           NEW y, y = OnChannelWritableState(w, t)
    PROVE  Good(y)
<1> DEFINE k == Flipped(Chan(x, t, c))
           h == Following(z, t, c)
<1>1. /\ x \in SessionState /\ Deleted(x) /\ Gathers(x, {}) /\ Notices(x)
      /\ Current(x) /\ \A n \in Content : Proper(x.tp[n])
  BY DEF Good, Sound, Live
<1>2. Chan(x, t, c) \in Channel /\ (Has(x, t, c) <=> Chan(x, t, c).ref # 0)
  BY <1>1, ChanType
<1>3. Has(x, t, c)
  <2>1. NoChannel.gather = "none"
    BY DEF NoChannel
  <2> QED
    BY <1>1, <1>2, <2>1 DEF Deleted
<1>4. /\ k \in Channel /\ k.ref = Chan(x, t, c).ref
      /\ k.gather = Chan(x, t, c).gather /\ k.waiting = Chan(x, t, c).waiting
  BY <1>2 DEF Flipped, Channel
<1> HIDE DEF k
<1>5. Puts(x, z, t, c, k)
  BY <1>1, <1>4, PutFacts DEF k
<1>6. /\ z \in SessionState /\ z.tp = x.tp /\ z.sq = x.sq /\ z.wq = x.wq
      /\ \A n \in Content : Proper(z.tp[n])
  BY <1>1, <1>5 DEF Puts
<1>7. \A n \in Content :
          /\ h[n] \in Proxy /\ SameShape(z.tp[n], h[n])
          /\ z.tp[n].impl[c] = t => h[n].writable[c] = Shown(z, n, c)
          /\ z.tp[n].impl[c] # t => h[n].writable[c] = z.tp[n].writable[c]
          /\ \A d \in Component \ {c} : h[n].writable[d] = z.tp[n].writable[d]
  BY <1>6, FollowingFacts
<1>8. h \in [Content -> Proxy]
  BY <1>7 DEF Following
<1> HIDE DEF h
<1>9. w \in SessionState /\ w.tp = h /\ w.tr = z.tr /\ w.sq = z.sq /\ w.wq = z.wq
  BY <1>6, <1>8 DEF PutProxies, SessionState, h
<1>10. /\ Same(w, y) /\ Queued(y, Write(t)) /\ y.tr = w.tr /\ y.wq = w.wq
  <2>1. Write(t) \in SignalingMessage
    BY Types
  <2>2. y = PostSignaling(w, Write(t))
    BY DEF OnChannelWritableState, Write
  <2> QED
    BY <1>9, <2>1, <2>2, PostSignalingFacts
<1>11. /\ y \in SessionState /\ y.tp = h /\ y.tr = z.tr /\ y.wq = x.wq
       /\ \A e : Queued(x, e) => Queued(y, e)
  BY <1>6, <1>9, <1>10, SMTT(40) DEF Same, Quiet, Queued
<1>12. /\ Chan(y, t, c) = k
       /\ \A u \in Transports, d \in Component :
             u # t \/ d # c => Chan(y, u, d) = Chan(x, u, d)
       /\ \A u \in Transports : /\ y.tr[u].connect = x.tr[u].connect
                                 /\ y.tr[u].writable = x.tr[u].writable
       /\ \A u \in Transports, d \in Component : Chan(y, u, d) = Chan(z, u, d)
  BY <1>5, <1>11, ZenonT(40) DEF Puts, Chan
<1>13. \A u \in Transports, d \in Component :
           /\ Chan(y, u, d).ref = Chan(x, u, d).ref
           /\ Chan(y, u, d).gather = Chan(x, u, d).gather
           /\ Chan(y, u, d).waiting = Chan(x, u, d).waiting
           /\ Has(y, u, d) <=> Has(x, u, d)
  <2>1. \A u \in Transports, d \in Component :
            /\ Chan(y, u, d).ref = Chan(x, u, d).ref
            /\ Chan(y, u, d).gather = Chan(x, u, d).gather
            /\ Chan(y, u, d).waiting = Chan(x, u, d).waiting
    BY <1>4, <1>12
  <2> QED
    BY <2>1 DEF Has, Chan
<1>14. Deleted(y)
  <2> SUFFICES ASSUME NEW u \in Transports, NEW d \in Component,
                      Chan(y, u, d).ref = 0
               PROVE  Chan(y, u, d) = NoChannel
    BY DEF Deleted
  <2>1. u # t \/ d # c
    BY <1>2, <1>3, <1>13
  <2> QED
    BY <1>1, <1>12, <1>13, <2>1 DEF Deleted
<1>15. Gathers(y, {})
  <2>1. \A u \in Transports, d \in Component :
            /\ Queued(x, Request(u, d)) => Queued(y, Request(u, d))
            /\ Posted(x, Ready(u)) => Posted(y, Ready(u))
    BY <1>11 DEF Posted
  <2> QED
    BY <1>1, <1>12, <1>13, <2>1 DEF Gathers
<1>16. Notices(y)
  <2> SUFFICES ASSUME NEW u \in Transports, AllWritable(y, u)
               PROVE  y.tr[u].writable = "all" \/ Queued(y, Write(u))
    BY DEF Notices
  <2>1. CASE u = t
    BY <1>10, <2>1
  <2>2. CASE u # t
    <3>1. AllWritable(x, u)
      BY <1>12, <1>13, <2>2 DEF AllWritable
    <3>2. Queued(x, Write(u)) => Queued(y, Write(u))
      BY <1>11
    <3> QED
      BY <1>1, <1>12, <3>1, <3>2 DEF Notices
  <2> QED
    BY <2>1, <2>2
<1>17. \A n \in Content : SameShape(x.tp[n], y.tp[n])
  BY <1>6, <1>7, <1>11
<1>18. Current(y)
  <2> SUFFICES ASSUME NEW n \in Content, NEW d \in Component, d \in y.tp[n].chans
               PROVE  IsCurrent(y, n, d)
    BY DEF Current
  <2>1. /\ y.tp[n].impl = x.tp[n].impl /\ d \in x.tp[n].chans
    BY <1>17 DEF SameShape
  <2>2. IsCurrent(x, n, d)
    BY <1>1, <2>1 DEF Current
  <2>3. Posted(x, Update(n, d)) => Posted(y, Update(n, d))
    BY <1>11 DEF Posted
  <2>4. x.tp[n].impl[d] # None => x.tp[n].impl[d] \in Transports
    BY <1>1, ProxyType
  <2>5. CASE d = c /\ x.tp[n].impl[c] = t
    <3>1. y.tp[n].writable[c] = Shown(z, n, c)
      BY <1>6, <1>7, <1>11, <2>5
    <3>2. Shown(z, n, c) = Shown(y, n, c)
      BY <1>6, <1>11, <2>1 DEF Shown
    <3>3. Shown(y, n, c) <=> y.tp[n].impl[c] # None
                             /\ Chan(y, y.tp[n].impl[c], c).writable
      BY DEF Shown, Chan
    <3> QED
      BY <2>5, <3>1, <3>2, <3>3 DEF IsCurrent
  <2>6. CASE ~(d = c /\ x.tp[n].impl[c] = t)
    <3>1. y.tp[n].writable[d] = x.tp[n].writable[d]
      BY <1>6, <1>7, <1>11, <2>6
    <3>2. x.tp[n].impl[d] # None => Chan(y, x.tp[n].impl[d], d).writable
                                    = Chan(x, x.tp[n].impl[d], d).writable
      BY <1>12, <2>4, <2>6
    <3>3. y.tp[n].impl[d] = x.tp[n].impl[d]
      BY <2>1
    <3> QED
      BY <1>1, <1>11, <2>2, <2>3, <3>1, <3>2, <3>3, StaysCurrent
  <2> QED
    BY <2>5, <2>6
<1>19. Live(y, {})
  BY <1>11, <1>14, <1>15, <1>16 DEF Live
<1> QED
  BY <1>13, <1>17, <1>18, <1>19, ShapeGood

-----------------------------------------------------------------------------
(* The inductive invariant, and a case of it for every action.              *)

Bounds ==
    /\ offer \in {"none", "local", "remote"}
    /\ offers \in 0 .. MaxOffers /\ flips \in 0 .. MaxFlips

Inv == Good(st) /\ Bounds

\* At first there are no proxies, and no channel has a reference.
LEMMA InitGood == Init => Inv
<1> SUFFICES ASSUME Init PROVE Inv
  OBVIOUS
<1>1. NoChannel \in Channel /\ NewTransport \in TransportState /\ NoProxy \in Proxy
  BY Types
<1>2. \A n \in Content : st.tp[n] = NoProxy
  BY DEF Init
<1>3. \A t \in Transports : st.tr[t] = NewTransport
  BY DEF Init
<1>4. \A t \in Transports, c \in Component : Chan(st, t, c) = NoChannel
  BY <1>3 DEF Chan, NewTransport
<1>5. st \in SessionState
  <2>1. [n \in Content |-> NoProxy] \in [Content -> Proxy]
    BY <1>1
  <2>2. [t \in Transports |-> NewTransport] \in [Transports -> TransportState]
    BY <1>1
  <2> QED
    BY <2>1, <2>2 DEF Init, SessionState
<1>6. NoChannel.ref = 0 /\ ~NoChannel.waiting
  BY DEF NoChannel
<1>7. \A t \in Transports, c \in Component : ~Has(st, t, c)
  BY <1>4, <1>6 DEF Has, Chan
<1>8. Live(st, {})
  BY <1>4, <1>5, <1>6, <1>7 DEF Live, Deleted, Gathers, Notices, AllWritable
<1>9. NoProxy.transport = None /\ NoProxy.chans = {} /\ NoProxy.impl = [c \in Component |-> None]
  BY DEF NoProxy
<1>10. Counted(st)
  <2> SUFFICES ASSUME NEW t \in Transports, NEW c \in Component
               PROVE  Chan(st, t, c).ref = Cardinality(Users(st, t, c))
    BY DEF Counted
  <2>1. Users(st, t, c) = {}
    BY <1>2, <1>9 DEF Users, Contents
  <2> QED
    BY <1>4, <1>6, <2>1, FS_EmptySet
<1>11. Current(st) /\ Alone(st)
  BY <1>2, <1>9 DEF Current, Alone
<1>12. \A n \in Content : Proper(st.tp[n])
  BY <1>2, <1>9 DEF Proper
<1>13. Bounds
  BY TransportAssumption DEF Init, Bounds
<1> QED
  BY <1>8, <1>10, <1>11, <1>12, <1>13 DEF Inv, Good, Sound

\* Which descriptions are set is of no matter to the transports.
LEMMA SetGood ==
    ASSUME Good(st), NEW who \in {"local", "remote"}, NEW x, x = Set(who)
    PROVE  Good(x)
<1>1. st \in SessionState
  BY DEF Good, Sound, Live
<1>2. x \in SessionState /\ x.tp = st.tp /\ x.tr = st.tr /\ x.sq = st.sq
      /\ x.wq = st.wq
  BY <1>1 DEF Set, SessionState
<1> QED
  BY <1>2, FlagGood

\* An offer is counted.
LEMMA OfferingBounds ==
    ASSUME Bounds, NEW who \in {"local", "remote"}, Offering(who)
    PROVE  Bounds'
<1>1. offers \in Nat /\ MaxOffers \in Nat /\ offers' = offers + 1 /\ offers < MaxOffers
      /\ offer' = who /\ flips' = flips
  BY TransportAssumption DEF Bounds, Offering
<1> QED
  BY <1>1 DEF Bounds

\* A local offer keeps the invariant.
LEMMA LocalOfferGood == ASSUME Inv, SetLocalOffer PROVE Inv'
<1>1. PICK C \in SUBSET Content \ {{}} :
          st' = PushdownLocal(Adjust(Set("local"), C), "offer")
  BY DEF SetLocalOffer
<1> DEFINE x == Set("local")
           y == Adjust(x, C)
<1>2. Good(x)
  BY SetGood DEF Inv
<1> HIDE DEF x
<1>3. Good(y)
  BY <1>2, AdjustGood
<1>4. st' = PushdownLocal(y, "offer")
  BY <1>1 DEF x
<1> HIDE DEF y
<1>5. Good(st')
  BY <1>3, <1>4, PushdownGood
<1>6. Bounds'
  BY OfferingBounds DEF SetLocalOffer, Inv
<1> QED
  BY <1>5, <1>6 DEF Inv

\* The candidates of an offer are those of contents that have a transport.
LEMMA CandidatesGood ==
    ASSUME NEW x, Good(x), NEW D, D \subseteq Contents(x), NEW V,
           NEW y, y = UseCandidates(x, D, V)
    PROVE  Good(y)
<1> DEFINE f == [p \in SessionState \X D |->
                    OnRemoteCandidates(p[1], p[2], p[2] \in V)]
           Q == {v \in SessionState : Good(v) /\ SameContents(x, v)}
<1>1. x \in SessionState /\ IsFiniteSet(D) /\ D \subseteq Content
  BY ContentsFinite DEF Good, Sound, Live, Contents
<1>2. y = Fold(x, D, f)
  BY Zenon DEF UseCandidates, Each
<1>3. x \in Q
  BY <1>1 DEF SameContents
<1>4. ASSUME NEW n \in D, NEW v \in Q PROVE f[<<v, n>>] \in Q
  <2>1. f[<<v, n>>] = OnRemoteCandidates(v, n, n \in V)
    OBVIOUS
  <2>2. n \in Content /\ v.tp[n].transport # None
    BY <1>1, <1>4 DEF SameContents, Contents
  <2>3. Good(f[<<v, n>>]) /\ KeepsAll(v, f[<<v, n>>])
    BY <2>1, <2>2, OnRemoteCandidatesGood
  <2>4. SameContents(v, f[<<v, n>>])
    BY <2>3, KeepsFacts
  <2>5. f[<<v, n>>] \in SessionState
    BY <2>3 DEF Good, Sound, Live
  <2> HIDE DEF f
  <2> QED
    BY <2>3, <2>4, <2>5 DEF SameContents
<1> HIDE DEF f, Q
<1>5. Fold(x, D, f) \in Q
  BY <1>1, <1>3, <1>4, FoldKeeps
<1> QED
  BY <1>2, <1>5 DEF Q

\* A remote offer, with candidates or without, keeps the invariant.
LEMMA RemoteOfferGood == ASSUME Inv, SetRemoteOffer PROVE Inv'
<1>1. PICK C \in SUBSET Content \ {{}} : \E D \in SUBSET C : \E V \in SUBSET D :
          st' = UseCandidates(PushdownRemote(Adjust(Set("remote"), C), "offer"),
                              D, V)
  BY Zenon DEF SetRemoteOffer
<1>2. PICK D \in SUBSET C : \E V \in SUBSET D :
          st' = UseCandidates(PushdownRemote(Adjust(Set("remote"), C), "offer"),
                              D, V)
  BY <1>1, Zenon
<1>10. PICK V \in SUBSET D :
          st' = UseCandidates(PushdownRemote(Adjust(Set("remote"), C), "offer"),
                              D, V)
  BY <1>2, Zenon
<1> DEFINE x == Set("remote")
           y == Adjust(x, C)
           z == PushdownRemote(y, "offer")
<1>3. Good(x)
  BY SetGood DEF Inv
<1> HIDE DEF x
<1>4. Good(y) /\ C \subseteq Contents(y)
  BY <1>3, AdjustGood
<1>5. st' = UseCandidates(z, D, V)
  BY <1>10, Zenon DEF x, y, z
<1> HIDE DEF y
<1>6. Good(z) /\ SameContents(y, z)
  BY <1>4, PushdownGood
<1> HIDE DEF z
<1>7. D \subseteq Contents(z)
  BY <1>4, <1>6 DEF SameContents
<1>8. Good(st')
  BY <1>5, <1>6, <1>7, CandidatesGood
<1>9. Bounds'
  BY OfferingBounds DEF SetRemoteOffer, Inv
<1> QED
  BY <1>8, <1>9 DEF Inv

\* A description that answers, with a bundle or without.
LEMMA AnsweredGood ==
    ASSUME NEW x, Good(x), NEW action,
           NEW y, y = PushdownLocal(x, action) \/ y = PushdownRemote(x, action),
           NEW z, z \in Answered(y, action)
    PROVE  Good(z)
<1>1. Good(y) /\ (action = "answer" => AllNegotiated(y))
  BY PushdownGood
<1>2. CASE z = y
  BY <1>1, <1>2
<1>3. CASE z # y
  <2>1. PICK b \in Bundles(Contents(y)) : z = EnableMux(y, b)
    BY <1>3 DEF Answered
  <2>2. action = "answer"
    BY <1>3 DEF Answered
  <2> QED
    BY <1>1, <2>1, <2>2, EnableMuxGood
<1> QED
  BY <1>2, <1>3

\* A local answer keeps the invariant.
LEMMA LocalAnswerGood == ASSUME Inv, SetLocalAnswer PROVE Inv'
<1>1. PICK action \in {"pranswer", "answer"} :
          /\ st' \in Answered(PushdownLocal(Set("local"), action), action)
          /\ offer' = IF action = "answer" THEN "none" ELSE offer
  BY DEF SetLocalAnswer
<1> DEFINE x == Set("local")
           y == PushdownLocal(x, action)
<1>2. Good(x)
  BY SetGood DEF Inv
<1>3. st' \in Answered(y, action)
  BY <1>1
<1> HIDE DEF x
<1>4. y = PushdownLocal(x, action)
  OBVIOUS
<1> HIDE DEF y
<1>5. Good(st')
  BY <1>2, <1>3, <1>4, AnsweredGood
<1>6. Bounds'
  BY <1>1 DEF SetLocalAnswer, Inv, Bounds
<1> QED
  BY <1>5, <1>6 DEF Inv

\* A remote answer keeps the invariant.
LEMMA RemoteAnswerGood == ASSUME Inv, SetRemoteAnswer PROVE Inv'
<1>1. PICK action \in {"pranswer", "answer"} :
          /\ st' \in Answered(PushdownRemote(Set("remote"), action), action)
          /\ offer' = IF action = "answer" THEN "none" ELSE offer
  BY DEF SetRemoteAnswer
<1> DEFINE x == Set("remote")
           y == PushdownRemote(x, action)
<1>2. Good(x)
  BY SetGood DEF Inv
<1>3. st' \in Answered(y, action)
  BY <1>1
<1> HIDE DEF x
<1>4. y = PushdownRemote(x, action)
  OBVIOUS
<1> HIDE DEF y
<1>5. Good(st')
  BY <1>2, <1>3, <1>4, AnsweredGood
<1>6. Bounds'
  BY <1>1 DEF SetRemoteAnswer, Inv, Bounds
<1> QED
  BY <1>5, <1>6 DEF Inv

\* A candidate of the other side keeps the invariant.
LEMMA IceMessageGood ==
    ASSUME Inv, NEW n \in Content, ProcessIceMessage(n)
    PROVE  Inv'
<1>1. PICK valid \in BOOLEAN : st' = OnRemoteCandidates(st, n, valid)
  BY DEF ProcessIceMessage
<1>3. st.tp[n].transport # None
  BY DEF ProcessIceMessage, Contents
<1>2. Good(st')
  BY <1>1, <1>3, OnRemoteCandidatesGood DEF Inv
<1> QED
  BY <1>2 DEF Inv, Bounds, ProcessIceMessage

\* The destruction of the RTCP channel keeps the invariant.
LEMMA RtcpMuxGood ==
    ASSUME Inv, NEW n \in Content, ActivateRtcpMux(n)
    PROVE  Inv'
<1>1. Rtcp \in st.tp[n].chans /\ st' = DestroyChannelProxy(st, n, Rtcp)
  BY DEF ActivateRtcpMux
<1>2. st \in SessionState /\ Good(st) /\ Proper(st.tp[n])
  BY DEF Inv, Good, Sound, Live
<1>3. Rtcp \in Component
  BY <1>1, <1>2, ProxyType
<1>4. st.tp[n].transport # None
  <2>1. NoProxy.chans = {}
    BY DEF NoProxy
  <2> QED
    BY <1>1, <1>2, <2>1 DEF Proper
<1>5. Good(st')
  BY <1>1, <1>2, <1>3, <1>4, DestroyChannelGood
<1> QED
  BY <1>5 DEF Inv, Bounds, ActivateRtcpMux

\* The destruction of all contents keeps the invariant.
LEMMA TerminateGood == ASSUME Inv, Terminate PROVE Inv'
<1> DEFINE C == Contents(st)
<1>1. st' = Each(st, C, DestroyProxy) /\ C \subseteq Contents(st)
  BY Zenon DEF Terminate
<1> HIDE DEF C
<1>2. Good(st')
  BY <1>1, DestroyAllGood DEF Inv
<1>3. Bounds'
  BY TransportAssumption DEF Terminate, Inv, Bounds
<1> QED
  BY <1>2, <1>3 DEF Inv

\* A step of the signalling thread keeps the invariant.
LEMMA HandleSignalingGood ==
    ASSUME Inv, NEW m \in SignalingMessage, HandleSignaling(m)
    PROVE  Inv'
<1> DEFINE z == [st EXCEPT !.sq = Tail(@)]
<1>1. st.sq # <<>> /\ m = Head(st.sq)
  BY DEF HandleSignaling
<1>2. st' = Handled(z, m)
  BY Zenon DEF HandleSignaling, Handled, WriteState
<1>3. z = [st EXCEPT !.sq = Tail(@)]
  OBVIOUS
<1> HIDE DEF z
<1>4. Good(st')
  BY <1>1, <1>2, <1>3, SignalingGood DEF Inv
<1> QED
  BY <1>4 DEF Inv, Bounds, HandleSignaling

\* A step of the worker keeps the invariant.
LEMMA HandleWorkerGood ==
    ASSUME Inv, NEW m \in WorkerMessage, HandleWorker(m)
    PROVE  Inv'
<1> DEFINE z == [st EXCEPT !.wq = Tail(@)]
<1>1. st.wq # <<>> /\ m = Head(st.wq)
  BY DEF HandleWorker
<1>2. st' = IF m.type = "signaling" THEN EachChannel(z, m.t, OnSignalingReady)
            ELSE UpdateState(z, m.n, m.c)
  BY Zenon DEF HandleWorker
<1>3. z = [st EXCEPT !.wq = Tail(@)]
  OBVIOUS
<1> HIDE DEF z
<1>4. Good(st')
  BY <1>1, <1>2, <1>3, WorkerGood DEF Inv
<1> QED
  BY <1>4 DEF Inv, Bounds, HandleWorker

\* A channel that has gathered keeps the invariant.
LEMMA ChannelDoneGood ==
    ASSUME Inv, NEW t \in Transports, NEW c \in Component,
           OnChannelCandidatesAllocationDone(t, c)
    PROVE  Inv'
<1> DEFINE z == Put(st, t, c, Gathered(Chan(st, t, c)))
<1>1. Chan(st, t, c).gather = "running"
  BY DEF OnChannelCandidatesAllocationDone, Chan
<1>2. st' = IF \A d \in Channels(z, t) : z.tr[t].chan[d].allocated
            THEN PostSignaling(z, [type |-> "allocated", t |-> t]) ELSE z
  BY Zenon DEF OnChannelCandidatesAllocationDone, Put, Gathered, Chan
<1> HIDE DEF z
<1>3. st' = z \/ st' = PostSignaling(z, [type |-> "allocated", t |-> t])
  BY <1>2, Zenon
<1>4. Good(st')
  BY <1>1, <1>3, GatheredGood DEF Inv, z
<1> QED
  BY <1>4 DEF Inv, Bounds, OnChannelCandidatesAllocationDone

\* A channel that becomes writable, or stops to be, keeps the invariant.
LEMMA WritableStateGood ==
    ASSUME Inv, NEW t \in Transports, NEW c \in Component,
           SignalWritableState(t, c)
    PROVE  Inv'
<1> DEFINE z == [st EXCEPT !.tr[t].chan[c].writable = ~@]
           w == PutProxies(z, Following(z, t, c))
<1>1. Chan(st, t, c).gather # "none"
  BY DEF SignalWritableState, Chan
<1>2. z = Put(st, t, c, Flipped(Chan(st, t, c)))
  BY DEF Put, Flipped, Chan
<1>3. st' = OnChannelWritableState(w, t)
  BY Zenon DEF SignalWritableState, Following, PutProxies
<1>4. Good(st')
  <2>1. w = PutProxies(z, Following(z, t, c))
    OBVIOUS
  <2> HIDE DEF z, w
  <2> QED
    BY <1>1, <1>2, <1>3, <2>1, FlipGood DEF Inv
<1>5. Bounds'
  <2>1. flips \in Nat /\ MaxFlips \in Nat
    BY TransportAssumption DEF Inv, Bounds
  <2>2. flips' = flips + 1 /\ flips < MaxFlips /\ offer' = offer /\ offers' = offers
    BY Zenon DEF SignalWritableState
  <2> QED
    BY <2>1, <2>2 DEF Inv, Bounds
<1> QED
  BY <1>4, <1>5, SMTT(40) DEF Inv

\* Every step keeps the invariant.
LEMMA StepGood == Inv /\ [Next]_vars => Inv'
<1> SUFFICES ASSUME Inv, [Next]_vars PROVE Inv'
  OBVIOUS
<1>1. CASE SetLocalOffer
  BY <1>1, LocalOfferGood
<1>2. CASE SetRemoteOffer
  BY <1>2, RemoteOfferGood
<1>3. CASE SetLocalAnswer
  BY <1>3, LocalAnswerGood
<1>4. CASE SetRemoteAnswer
  BY <1>4, RemoteAnswerGood
<1>5. ASSUME NEW n \in Content, ProcessIceMessage(n) PROVE Inv'
  BY <1>5, IceMessageGood
<1>6. ASSUME NEW n \in Content, ActivateRtcpMux(n) PROVE Inv'
  BY <1>6, RtcpMuxGood
<1>7. CASE Terminate
  BY <1>7, TerminateGood
<1>8. ASSUME NEW m \in SignalingMessage, HandleSignaling(m) PROVE Inv'
  BY <1>8, HandleSignalingGood
<1>9. ASSUME NEW m \in WorkerMessage, HandleWorker(m) PROVE Inv'
  BY <1>9, HandleWorkerGood
<1>10. ASSUME NEW t \in Transports, NEW c \in Component,
              OnChannelCandidatesAllocationDone(t, c)
       PROVE  Inv'
  BY <1>10, ChannelDoneGood
<1>11. ASSUME NEW t \in Transports, NEW c \in Component, SignalWritableState(t, c)
       PROVE  Inv'
  BY <1>11, WritableStateGood
<1>12. CASE UNCHANGED vars
  BY <1>12 DEF Inv, Bounds, vars
<1> QED
  BY <1>1, <1>2, <1>3, <1>4, <1>5, <1>6, <1>7, <1>8, <1>9, <1>10, <1>11, <1>12
     DEF Next, Signaling, Worker

\* The invariant holds in every reachable state.
LEMMA Invariance == Spec => []Inv
<1>1. Init => Inv
  BY InitGood
<1>2. Inv /\ [Next]_vars => Inv'
  BY StepGood
<1> QED
  BY <1>1, <1>2, PTL DEF Spec

-----------------------------------------------------------------------------
(* The theorems.                                                           *)

\* Every variable holds what the code's declarations allow it to hold.
THEOREM TypesHold == Spec => []TypeOK
<1>1. Inv => TypeOK
  BY DEF Inv, Good, Sound, Live, Bounds, TypeOK
<1> QED
  BY <1>1, Invariance, PTL

\* The reference count of every ChannelMapEntry is the number of contents that
\* use the channel, whatever was bundled, multiplexed and removed before.
THEOREM References == Spec => []ReferencesMatch
<1>1. Inv => ReferencesMatch
  BY DEF Inv, Good, Sound, Counted, Chan, ReferencesMatch
<1> QED
  BY <1>1, Invariance, PTL

\* What a TransportChannelProxy says is what its implementation says, or the
\* MSG_UPDATESTATE that makes it so is queued.
THEOREM ProxiesCurrent == Spec => []ProxyIsCurrent
<1>1. Inv => ProxyIsCurrent
  <2> SUFFICES ASSUME Inv, NEW n \in Content, NEW c \in st.tp[n].chans
               PROVE  \/ st.tp[n].writable[c] = UpdateState(st, n, c).tp[n].writable[c]
                      \/ [type |-> "update", n |-> n, c |-> c] \in Elements(st.wq)
    BY DEF ProxyIsCurrent, Contents
  <2>1. st \in SessionState /\ Current(st)
    BY DEF Inv, Good, Sound, Live
  <2>2. c \in Component /\ st.tp[n] \in Proxy /\ st.tp[n].writable[c] \in BOOLEAN
    BY <2>1, ProxyType
  <2>3. IsCurrent(st, n, c)
    BY <2>1, <2>2 DEF Current
  <2> DEFINE p == Flagged(st.tp[n], c, Shown(st, n, c))
  <2>4. Shown(st, n, c) \in BOOLEAN
    BY <2>1, <2>2, ShownType
  <2>5. p \in Proxy /\ p.writable[c] = Shown(st, n, c)
    BY <2>2, <2>4, FlaggedFacts
  <2>6. UpdateState(st, n, c) = PutProxy(st, n, p)
    BY DEF UpdateState, PutProxy, Flagged, Shown
  <2> HIDE DEF p
  <2>7. UpdateState(st, n, c).tp[n] = p
    BY <2>1, <2>5, <2>6, PutProxyFacts
  <2>8. Shown(st, n, c) <=> st.tp[n].impl[c] # None
                            /\ Chan(st, st.tp[n].impl[c], c).writable
    BY DEF Shown, Chan
  <2>9. CASE Posted(st, Update(n, c))
    BY <2>9 DEF Posted, Update
  <2>10. CASE st.tp[n].writable[c] <=> Shown(st, n, c)
    BY <2>2, <2>4, <2>5, <2>7, <2>10
  <2> QED
    BY <2>3, <2>8, <2>9, <2>10 DEF IsCurrent
<1> QED
  BY <1>1, Invariance, PTL

\* A transport whose channels have all become writable, also by the destruction
\* of one that was not, says so or has a message queued that will.
THEOREM WritableNoticed == Spec => []WritableIsNoticed
<1>1. Inv => WritableIsNoticed
  <2> SUFFICES ASSUME Inv, NEW t \in Transports, GetTransportState(st, t) = "all"
               PROVE  \/ st.tr[t].writable = "all"
                      \/ [type |-> "write", t |-> t] \in Elements(st.sq)
    BY DEF WritableIsNoticed
  <2>1. Notices(st)
    BY DEF Inv, Good, Sound, Live
  <2>2. AllWritable(st, t)
    <3> DEFINE W == {c \in Channels(st, t) : st.tr[t].chan[c].writable}
    <3>1. W # {} /\ W = Channels(st, t)
      BY DEF GetTransportState
    <3> QED
      BY <3>1 DEF AllWritable, Channels, Chan
  <2> QED
    BY <2>1, <2>2 DEF Notices, Queued, Write
<1> QED
  BY <1>1, Invariance, PTL

\* A channel of a transport that is asked to connect gathers candidates, or
\* waits for a signalling thread that has been asked or has answered.
THEOREM Gathering == Spec => []ChannelsGather
<1>1. Inv => ChannelsGather
  <2> SUFFICES ASSUME Inv, NEW t \in Transports, NEW c \in Component
               PROVE  /\ Has(st, t, c) /\ st.tr[t].connect =>
                             Chan(st, t, c).gather # "none" \/ Chan(st, t, c).waiting
                      /\ Chan(st, t, c).waiting =>
                             \/ [type |-> "request", t |-> t, c |-> c] \in Elements(st.sq)
                             \/ [type |-> "signaling", t |-> t] \in Elements(st.wq)
    BY DEF ChannelsGather, Chan
  <2>1. Gathers(st, {})
    BY DEF Inv, Good, Sound, Live
  <2> QED
    BY <2>1 DEF Gathers, Queued, Posted, Request, Ready
<1> QED
  BY <1>1, Invariance, PTL
=============================================================================
