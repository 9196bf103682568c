---------------------------- MODULE TunnelProofs ----------------------------
(***************************************************************************)
(* Proofs about Tunnel: for queues of any length, every assignment of the  *)
(* object's work to threads and every order in which the session, the      *)
(* channel, the connection and the stream end, when none of the cases that *)
(* the code does not handle happens (Unhandled is empty).                  *)
(***************************************************************************)
EXTENDS Tunnel, QueueProofs

-----------------------------------------------------------------------------
(* The invariant, of the threads w of the object, the system s, the        *)
(* messages h that the threads have taken and what the application knows.  *)

\* Message m is on thread t: queued, or taken.
On(s, h, t, m) == m \in Elements(s.queue[t]) \/ h[t] = m

\* m is queued once at most.
Single(q, m) == \A i, j \in DOMAIN q : q[i] = m /\ q[j] = m => i = j
Once(s, t, m) == Single(s.queue[t], m)

TypeI(w, s, h, k) ==
    /\ w \in [{"signal", "worker", "stream"} -> Thread] /\ w.signal = "signal"
    /\ s \in System /\ h \in [Thread -> Taken]
    /\ k \in [read : BOOLEAN, close : Nat]

\* Every message is on the thread that handles it, and a message that must not
\* come twice is there once.
PlaceI(w, s, h) ==
    /\ \A t \in Thread :
          /\ t # w.signal =>
                \A m \in {"DESTROYCHANNEL", "DESTROY", "STATE", "SIGNALLED", "GETSTREAM"} :
                                ~On(s, h, t, m)
          /\ t # w.worker => \A m \in {"PURGE", "CLOCK"} : ~On(s, h, t, m)
          /\ t # w.stream => \A m \in Event : ~On(s, h, t, m)
    /\ Once(s, w.worker, "PURGE") /\ Once(s, w.stream, "CLOSE")
    /\ h[w.worker] = "PURGE" => "PURGE" \notin Elements(s.queue[w.worker])
    /\ h[w.stream] = "CLOSE" => "CLOSE" \notin Elements(s.queue[w.stream])

\* What the object holds, and which messages there may be for it then.
ObjectI(w, s, h) ==
    /\ s.channel => s.worker /\ s.session
    /\ s.session /\ s.worker => s.channel
    /\ s.tcp # NoTcp => s.channel
    /\ ~s.channel => s.clocks = 0
    /\ On(s, h, w.worker, "CLOCK") => s.worker
    /\ On(s, h, w.worker, "PURGE") => s.worker /\ ~s.channel
    /\ On(s, h, w.signal, "DESTROYCHANNEL") => s.channel /\ s.tcp = NoTcp
    /\ \A e \in Event : On(s, h, w.stream, e) => s.stream = "open"
    /\ On(s, h, w.signal, "DESTROY") => ~s.worker /\ ~s.session /\ s.stream # "open"

\* How far the session is, and what that leaves to its two owners.
SessionI(w, s, h) ==
    /\ s.state \in {"SENTINITIATE", "RECEIVEDINITIATE"} =>
          ~s.worker /\ s.session /\ s.stream # "closed"
    /\ s.state = "RECEIVEDINITIATE" => s.stream = None
    /\ h[w.signal] = "GETSTREAM" => s.channel /\ s.stream = None /\ s.state = "SENTACCEPT"
    /\ h[w.signal] = "SIGNALLED" =>
          s.tunnel /\ (s.state = "SENTACCEPT" => s.channel /\ s.stream = None)
    /\ s.tunnel <=> s.state # "DEINIT"
    /\ s.tunnel => s.alive
    /\ s.state \in Terminal => On(s, h, w.signal, "STATE") \/ h[w.signal] = "SIGNALLED"
    /\ ~s.session /\ s.tunnel => s.state \in Terminal
    /\ ~s.session /\ s.tunnel /\ s.worker => On(s, h, w.signal, "STATE")
    /\ s.session /\ s.stream = "open" =>
          s.state # "DEINIT" /\ (s.state \in Terminal => s.channel)

ClockI(w, s, h) ==
    /\ s.tcp # NoTcp /\ s.tcp.state # "LISTEN" =>
          s.clocks > 0 \/ h[w.worker] = "CLOCK"
    /\ s.clocks <= 2
    /\ h[w.worker] = "CLOCK" => s.clocks <= 1

IsOver(s) == ~s.session \/ s.tcp.state = "CLOSED"

\* The application knows that its stream is closed, or is about to be told.
ToldI(w, s, h, k) ==
    /\ s.tcp # NoTcp => s.tcp.shut = IF s.stream = "closed" THEN "GRACEFUL" ELSE "NONE"
    /\ s.stream = "open" =>
          /\ On(s, h, w.stream, "CLOSE") => IsOver(s)
          /\ k.close = IF IsOver(s) /\ ~On(s, h, w.stream, "CLOSE") THEN 1 ELSE 0

Announced(w, s, h) == On(s, h, w.stream, "OPEN") \/ On(s, h, w.stream, "READ")

DataI(w, s, h, k) ==
    /\ s.pending => s.stream # None
    /\ s.stream = "open" /\ s.pending => Announced(w, s, h)
    /\ s.stream = "open" /\ s.tcp # NoTcp /\ (s.tcp.rbuf \/ ~s.tcp.readEnable) =>
          k.read \/ Announced(w, s, h)

I(w, s, h, k) ==
    /\ TypeI(w, s, h, k) /\ PlaceI(w, s, h) /\ ObjectI(w, s, h)
    /\ SessionI(w, s, h) /\ ClockI(w, s, h) /\ ToldI(w, s, h, k) /\ DataI(w, s, h, k)

\* The message that destroys the object comes after the one that destroys its
\* session and its TunnelSession.
Before(q) == \A i \in DOMAIN q : q[i] = "DESTROY" => \E j \in DOMAIN q : j < i /\ q[j] = "STATE"
OrderI(w, s, h) ==
    s.tunnel => /\ h[w.signal] # "DESTROY"
                /\ Before(s.queue[w.signal]) \/ h[w.signal] = "STATE"

IInv == I(home, sys, hand, told) /\ OrderI(home, sys, hand) /\ initiator \in BOOLEAN

-----------------------------------------------------------------------------
(* What the calls do with the queues.                                      *)

\* r is s but for its queues.
Same(r, s) ==
    /\ r.alive = s.alive /\ r.worker = s.worker /\ r.session = s.session
    /\ r.channel = s.channel /\ r.stream = s.stream /\ r.tcp = s.tcp
    /\ r.pending = s.pending /\ r.ready = s.ready /\ r.tunnel = s.tunnel
    /\ r.state = s.state /\ r.clocks = s.clocks

\* Thread t of r has the messages M besides those of s, with no order stated.
More(r, s, t, M) ==
    /\ \A u \in Thread : Elements(r.queue[u]) = IF u = t THEN Elements(s.queue[u]) \cup M
                                               ELSE Elements(s.queue[u])
    /\ \A u \in Thread : \A m :
          Once(s, u, m) /\ (u = t /\ m \in M => m \notin Elements(s.queue[t]))
              => Once(r, u, m)

\* Thread t of r lacks the messages M.
Less(r, s, t, M) ==
    /\ \A u \in Thread : Elements(r.queue[u]) = IF u = t THEN Elements(s.queue[u]) \ M
                                               ELSE Elements(s.queue[u])
    /\ \A u \in Thread : \A m : Once(s, u, m) => Once(r, u, m)

\* The other messages are as they were.
LEMMA MoreOthers ==
    ASSUME NEW r, NEW s, NEW t \in Thread, NEW M, More(r, s, t, M), NEW h,
           NEW u \in Thread, NEW x, x \notin M
    PROVE  /\ On(r, h, u, x) <=> On(s, h, u, x)
           /\ x \in Elements(r.queue[u]) <=> x \in Elements(s.queue[u])
           /\ Once(s, u, x) => Once(r, u, x)
<1>1. Elements(r.queue[u]) = IF u = t THEN Elements(s.queue[u]) \cup M
                             ELSE Elements(s.queue[u])
  BY DEF More
<1>2. Once(s, u, x) => Once(r, u, x)
  BY DEF More
<1> QED
  BY <1>1, <1>2 DEF On

LEMMA AppendElements ==
    ASSUME NEW q \in Seq(Message), NEW m \in Message
    PROVE  Elements(Append(q, m)) = Elements(q) \cup {m}
<1> DEFINE a == Append(q, m)
<1>1. Len(q) \in Nat /\ Len(a) = Len(q) + 1 /\ DOMAIN a = 1 .. Len(q) + 1
      /\ DOMAIN q = 1 .. Len(q) /\ a[Len(q) + 1] = m
  OBVIOUS
<1>2. \A i \in DOMAIN q : a[i] = q[i]
  OBVIOUS
<1> HIDE DEF a
<1>3. ASSUME NEW x \in Elements(a) PROVE x \in Elements(q) \cup {m}
  <2>1. PICK i \in DOMAIN a : x = a[i]
    BY DEF Elements
  <2>2. i = Len(q) + 1 \/ i \in DOMAIN q
    BY <1>1
  <2> QED
    BY <1>1, <1>2, <2>1, <2>2 DEF Elements
<1>4. ASSUME NEW x \in Elements(q) \cup {m} PROVE x \in Elements(a)
  <2>1. CASE x = m
    <3>1. Len(q) + 1 \in DOMAIN a
      BY <1>1
    <3> QED
      BY <1>1, <2>1, <3>1 DEF Elements
  <2>2. CASE x \in Elements(q)
    <3>1. PICK i \in DOMAIN q : x = q[i]
      BY <2>2 DEF Elements
    <3>2. i \in DOMAIN a
      BY <1>1
    <3> QED
      BY <1>2, <3>1, <3>2 DEF Elements
  <2> QED
    BY <2>1, <2>2
<1> QED
  BY <1>3, <1>4 DEF a

LEMMA PostFacts ==
    ASSUME NEW s \in System, NEW t \in Thread, NEW m \in Message,
           NEW r, r = Post(s, t, m)
    PROVE  r \in System /\ Same(r, s) /\ More(r, s, t, {m})
<1>1. /\ r \in System /\ Same(r, s)
      /\ r.queue = [s.queue EXCEPT ![t] = Append(@, m)]
      /\ s.queue \in [Thread -> Seq(Message)]
  <2>1. s.queue \in [Thread -> Seq(Message)]
    BY DEF System
  <2>2. Append(s.queue[t], m) \in Seq(Message)
    BY <2>1
  <2>3. [s.queue EXCEPT ![t] = Append(@, m)] \in [Thread -> Seq(Message)]
    BY <2>1, <2>2
  <2>4. r = [s EXCEPT !.queue = [s.queue EXCEPT ![t] = Append(@, m)]]
    BY DEF Post
  <2> QED
    BY <2>1, <2>3, <2>4 DEF System, Same
<1>2. ASSUME NEW u \in Thread
      PROVE  r.queue[u] = IF u = t THEN Append(s.queue[t], m) ELSE s.queue[u]
  BY <1>1
<1>3. \A u \in Thread : Elements(r.queue[u]) = IF u = t THEN Elements(s.queue[u]) \cup {m}
                                               ELSE Elements(s.queue[u])
  BY <1>1, <1>2, AppendElements
<1>4. ASSUME NEW u \in Thread, NEW k, Once(s, u, k),
             u = t /\ k = m => k \notin Elements(s.queue[t])
      PROVE  Once(r, u, k)
  <2>1. CASE u # t
    BY <1>2, <1>4, <2>1 DEF Once
  <2>2. CASE u = t
    <3> DEFINE q == s.queue[t]
               a == Append(q, m)
    <3>1. q \in Seq(Message) /\ r.queue[u] = a
      BY <1>1, <1>2, <2>2
    <3>2. /\ Len(q) \in Nat /\ DOMAIN a = 1 .. Len(q) + 1 /\ DOMAIN q = 1 .. Len(q)
          /\ a[Len(q) + 1] = m /\ \A i \in DOMAIN q : a[i] = q[i]
      BY <3>1
    <3> HIDE DEF q, a
    <3>3. \A i, j \in DOMAIN q : q[i] = k /\ q[j] = k => i = j
      BY <1>4, <2>2 DEF Once, Single, q
    <3>4. k = m => \A i \in DOMAIN q : q[i] # k
      BY <1>4, <2>2 DEF Elements, q
    <3>5. \A i \in DOMAIN a : i = Len(q) + 1 \/ i \in DOMAIN q
      BY <3>2
    <3>6. \A i, j \in DOMAIN a : a[i] = k /\ a[j] = k => i = j
      BY <3>2, <3>3, <3>4, <3>5
    <3> QED
      BY <3>1, <3>6 DEF Once, Single
  <2> QED
    BY <2>1, <2>2
<1> QED
  BY <1>1, <1>3, <1>4 DEF More

\* The elements of what Remove leaves.
LEMMA RemoveElements ==
    ASSUME NEW q \in Seq(Message), NEW M
    PROVE  /\ Remove(q, M) \in Seq(Message)
           /\ Elements(Remove(q, M)) = Elements(q) \ M
           /\ \A m : Single(q, m) => Single(Remove(q, M), m)
<1> DEFINE r == Remove(q, M)
<1>1. r \in Seq(Message)
  BY RemoveEmbeds
<1>2. PICK e \in [1 .. Len(r) -> 1 .. Len(q)] :
                 /\ \A i, j \in 1 .. Len(r) : i < j => e[i] < e[j]
                 /\ \A i \in 1 .. Len(r) : q[e[i]] \notin M /\ r[i] = q[e[i]]
                 /\ \A j \in 1 .. Len(q) : q[j] \notin M =>
                       \E i \in 1 .. Len(r) : e[i] = j
  BY RemoveEmbeds
<1> HIDE DEF r
<1>3. DOMAIN r = 1 .. Len(r) /\ DOMAIN q = 1 .. Len(q) /\ Len(r) \in Nat
      /\ Len(q) \in Nat
  BY <1>1
<1>4. Elements(r) = Elements(q) \ M
  <2>1. \A x \in Elements(r) : x \in Elements(q) \ M
    BY <1>2, <1>3 DEF Elements
  <2>2. \A x \in Elements(q) \ M : x \in Elements(r)
    BY <1>2, <1>3 DEF Elements
  <2> QED
    BY <2>1, <2>2
<1>5. ASSUME NEW m, Single(q, m),
             NEW i \in DOMAIN r, NEW j \in DOMAIN r, r[i] = m, r[j] = m
      PROVE  i = j
  <2>1. e[i] = e[j]
    BY <1>2, <1>3, <1>5 DEF Single
  <2>2. ~(i < j) /\ ~(j < i)
    BY <1>2, <1>3, <2>1
  <2> QED
    BY <1>3, <2>2
<1>6. \A m : Single(q, m) => Single(r, m)
  BY <1>5 DEF Single
<1> QED
  BY <1>1, <1>4, <1>6 DEF r

LEMMA ClearFacts ==
    ASSUME NEW s \in System, NEW t \in Thread, NEW M, NEW r, r = Clear(s, t, M)
    PROVE  r \in System /\ Same(r, s) /\ Less(r, s, t, M)
<1>1. s.queue \in [Thread -> Seq(Message)]
  BY DEF System
<1>2. Remove(s.queue[t], M) \in Seq(Message)
  BY <1>1, RemoveElements
<1>3. /\ r \in System /\ Same(r, s)
      /\ r.queue = [s.queue EXCEPT ![t] = Remove(@, M)]
  BY <1>2 DEF Clear, System, Same
<1>4. \A u \in Thread : r.queue[u] = IF u = t THEN Remove(s.queue[t], M) ELSE s.queue[u]
  BY <1>1, <1>3
<1>5. \A u \in Thread : Elements(r.queue[u]) = IF u = t THEN Elements(s.queue[u]) \ M
                                               ELSE Elements(s.queue[u])
  BY <1>1, <1>4, RemoveElements
<1>6. \A u \in Thread : \A m : Once(s, u, m) => Once(r, u, m)
  <2> SUFFICES ASSUME NEW u \in Thread, NEW m, Once(s, u, m) PROVE Once(r, u, m)
    OBVIOUS
  <2>1. CASE u = t
    BY <1>1, <1>4, <2>1, RemoveElements DEF Once
  <2>2. CASE u # t
    BY <1>4, <2>2 DEF Once
  <2> QED
    BY <2>1, <2>2
<1> QED
  BY <1>3, <1>5, <1>6 DEF Less

LEMMA DeleteFacts ==
    ASSUME NEW s \in System, NEW r, r = Delete(s)
    PROVE  /\ r \in System
           /\ Same(r, [s EXCEPT !.alive = FALSE, !.clocks = 0])
           /\ \A u \in Thread : Elements(r.queue[u]) = Elements(s.queue[u]) \ Own
           /\ \A u \in Thread : \A m : Once(s, u, m) => Once(r, u, m)
<1>1. s.queue \in [Thread -> Seq(Message)]
  BY DEF System
<1>2. \A t \in Thread : Remove(s.queue[t], Own) \in Seq(Message)
  BY <1>1, RemoveElements
<1>3. /\ r \in System /\ Same(r, [s EXCEPT !.alive = FALSE, !.clocks = 0])
      /\ r.queue = [t \in Thread |-> Remove(s.queue[t], Own)]
  BY <1>2 DEF Delete, System, Same
<1>4. \A u \in Thread : Elements(r.queue[u]) = Elements(s.queue[u]) \ Own
  BY <1>1, <1>3, RemoveElements
<1>5. \A u \in Thread : \A m : Once(s, u, m) => Once(r, u, m)
  <2> SUFFICES ASSUME NEW u \in Thread, NEW m, Once(s, u, m) PROVE Once(r, u, m)
    OBVIOUS
  <2> QED
    BY <1>1, <1>3, RemoveElements DEF Once
<1> QED
  BY <1>3, <1>4, <1>5

Popped(s, t) == [s EXCEPT !.queue[t] = Tail(@)]

LEMMA TakeFacts ==
    ASSUME NEW s \in System, NEW t \in Thread, s.queue[t] # <<>>,
           NEW m, m = Head(s.queue[t]), NEW r, r = Popped(s, t)
    PROVE  /\ r \in System /\ Same(r, s) /\ m \in Message
           /\ \A u \in Thread : u # t => r.queue[u] = s.queue[u]
           /\ Elements(s.queue[t]) = Elements(r.queue[t]) \cup {m}
           /\ \A u \in Thread : \A k : Once(s, u, k) => Once(r, u, k)
           /\ Once(s, t, m) => m \notin Elements(r.queue[t])
<1> DEFINE q == s.queue[t]
           b == Tail(q)
<1>1. s.queue \in [Thread -> Seq(Message)] /\ q \in Seq(Message) /\ q # <<>>
  BY DEF System
<1>2. /\ b \in Seq(Message) /\ m \in Message /\ Len(q) \in Nat /\ Len(q) > 0
      /\ DOMAIN q = 1 .. Len(q) /\ DOMAIN b = 1 .. Len(q) - 1 /\ m = q[1]
      /\ \A i \in DOMAIN b : b[i] = q[i + 1]
  BY <1>1
<1>3. /\ r \in System /\ Same(r, s)
      /\ r.queue = [s.queue EXCEPT ![t] = b]
  BY <1>2 DEF System, Same, Popped
<1>4. r.queue[t] = b /\ \A u \in Thread : u # t => r.queue[u] = s.queue[u]
  BY <1>1, <1>3
<1> HIDE DEF b
<1>5. Elements(q) = Elements(b) \cup {m}
  <2>1. ASSUME NEW x \in Elements(q) PROVE x \in Elements(b) \cup {m}
    <3>1. PICK i \in DOMAIN q : x = q[i]
      BY DEF Elements
    <3>2. CASE i = 1
      BY <1>2, <3>1, <3>2
    <3>3. CASE i # 1
      <4>1. i - 1 \in DOMAIN b /\ (i - 1) + 1 = i
        BY <1>2, <3>3
      <4>2. b[i - 1] = q[i]
        BY <1>2, <4>1
      <4> QED
        BY <3>1, <4>1, <4>2 DEF Elements
    <3> QED
      BY <3>2, <3>3
  <2>2. ASSUME NEW x \in Elements(b) \cup {m} PROVE x \in Elements(q)
    <3>1. CASE x = m
      <4>1. 1 \in DOMAIN q
        BY <1>2
      <4> QED
        BY <1>2, <3>1, <4>1 DEF Elements
    <3>2. CASE x \in Elements(b)
      <4>1. PICK i \in DOMAIN b : x = b[i]
        BY <3>2 DEF Elements
      <4>2. i + 1 \in DOMAIN q
        BY <1>2
      <4> QED
        BY <1>2, <4>1, <4>2 DEF Elements
    <3> QED
      BY <3>1, <3>2
  <2> QED
    BY <2>1, <2>2
<1>6. ASSUME NEW u \in Thread, NEW k, Once(s, u, k) PROVE Once(r, u, k)
  <2>1. CASE u # t
    BY <1>4, <1>6, <2>1 DEF Once
  <2>2. CASE u = t
    <3>1. \A i, j \in DOMAIN q : q[i] = k /\ q[j] = k => i = j
      BY <1>6, <2>2 DEF Once, Single
    <3> SUFFICES ASSUME NEW i \in DOMAIN b, NEW j \in DOMAIN b, b[i] = k, b[j] = k
                 PROVE  i = j
      BY <1>4, <2>2 DEF Once, Single
    <3>2. i \in Nat /\ j \in Nat /\ i + 1 \in 1 .. Len(q) /\ j + 1 \in 1 .. Len(q)
      BY <1>2
    <3>3. q[i + 1] = k /\ q[j + 1] = k
      BY <1>2
    <3>4. i + 1 = j + 1
      BY <1>2, <3>1, <3>2, <3>3
    <3> QED
      BY <3>2, <3>4
  <2> QED
    BY <2>1, <2>2
<1>7. ASSUME Once(s, t, m) PROVE m \notin Elements(b)
  <2> SUFFICES ASSUME NEW i \in DOMAIN b, b[i] = m PROVE FALSE
    BY DEF Elements
  <2>1. i + 1 \in DOMAIN q /\ 1 \in DOMAIN q /\ q[i + 1] = m /\ q[1] = m /\ i + 1 # 1
    BY <1>2
  <2> QED
    BY <1>7, <2>1 DEF Once, Single
<1> QED
  BY <1>2, <1>3, <1>4, <1>5, <1>6, <1>7

-----------------------------------------------------------------------------
(* What the calls do with the rest of the system.                          *)

Threads3 == home \in [{"signal", "worker", "stream"} -> Thread] /\ home.signal = "signal"

LEMMA PostEventFacts ==
    ASSUME Threads3, NEW s \in System, NEW e \in Event, NEW r, r = PostEvent(s, e)
    PROVE  /\ r \in System /\ Same(r, s)
           /\ More(r, s, home.stream, IF s.stream = "open" THEN {e} ELSE {})
<1>1. home.stream \in Thread /\ e \in Message
  BY DEF Threads3, Message
<1>2. CASE s.stream = "open"
  <2>1. r = Post(s, home.stream, e)
    BY <1>2 DEF PostEvent
  <2> QED
    BY <1>1, <1>2, <2>1, PostFacts
<1>3. CASE s.stream # "open"
  <2>1. r = s
    BY <1>3 DEF PostEvent
  <2> QED
    BY <1>3, <2>1 DEF Same, More, Once
<1> QED
  BY <1>2, <1>3

LEMMA NoTcpIsNone == NoTcp \notin Tcp
<1> SUFFICES ASSUME NoTcp \in Tcp PROVE FALSE
  OBVIOUS
<1>1. NoTcp.state \in {"LISTEN", "SYN_SENT", "SYN_RECEIVED", "ESTABLISHED", "CLOSED"}
  BY DEF Tcp
<1>2. NoTcp.state = "NULL"
  BY DEF NoTcp
<1> QED
  BY <1>1, <1>2

LEMMA AdjustClockFacts ==
    ASSUME Threads3, NEW s \in System, s.tcp \in Tcp, NEW c \in BOOLEAN,
           NEW r, r = AdjustClock(s, c)
    PROVE  /\ r \in System
           /\ NeedsClock(s.tcp) =>
                 /\ Same(r, [s EXCEPT !.clocks = IF c THEN 1 ELSE s.clocks + 1])
                 /\ r.queue = s.queue
           /\ ~NeedsClock(s.tcp) =>
                 /\ Same(r, [s EXCEPT !.tcp = NoTcp, !.ready = FALSE])
                 /\ More(r, s, home.signal, IF s.channel THEN {"DESTROYCHANNEL"} ELSE {})
<1>1. CASE NeedsClock(s.tcp)
  <2>1. r = [s EXCEPT !.clocks = IF c THEN 1 ELSE s.clocks + 1]
    BY <1>1 DEF AdjustClock
  <2>2. (IF c THEN 1 ELSE s.clocks + 1) \in Nat
    BY DEF System
  <2> QED
    BY <1>1, <2>1, <2>2 DEF Same, System
<1>2. CASE ~NeedsClock(s.tcp)
  <2> DEFINE g == [s EXCEPT !.tcp = NoTcp, !.ready = FALSE]
  <2>1. r = IF s.channel THEN Post(g, home.signal, "DESTROYCHANNEL") ELSE g
    BY <1>2 DEF AdjustClock
  <2>2. g \in System /\ g.queue = s.queue /\ g.channel = s.channel
    BY DEF System
  <2>3. home.signal \in Thread /\ "DESTROYCHANNEL" \in Message
    BY DEF Threads3, Message
  <2> HIDE DEF g
  <2>4. CASE s.channel
    <3>1. r \in System /\ Same(r, g) /\ More(r, g, home.signal, {"DESTROYCHANNEL"})
      BY <2>1, <2>2, <2>3, <2>4, PostFacts
    <3>2. More(r, s, home.signal, {"DESTROYCHANNEL"})
      BY <2>2, <3>1 DEF More, Once
    <3> QED
      BY <1>2, <2>4, <3>1, <3>2 DEF g
  <2>5. CASE ~s.channel
    <3>1. r = g
      BY <2>1, <2>5
    <3>2. More(r, s, home.signal, {})
      BY <2>2, <3>1 DEF More, Once
    <3> QED
      BY <1>2, <2>2, <2>5, <3>1, <3>2 DEF g, Same
  <2> QED
    BY <2>4, <2>5
<1> QED
  BY <1>1, <1>2

LEMMA CheckDestroyFacts ==
    ASSUME Threads3, NEW s \in System, NEW r, r = CheckDestroy(s)
    PROVE  /\ r \in System /\ Same(r, s)
           /\ More(r, s, home.signal,
                   IF s.worker \/ s.stream = "open" THEN {} ELSE {"DESTROY"})
<1>1. home.signal \in Thread /\ "DESTROY" \in Message
  BY DEF Threads3, Message
<1>2. CASE s.worker \/ s.stream = "open"
  <2>1. r = s
    BY <1>2 DEF CheckDestroy
  <2> QED
    BY <1>2, <2>1 DEF Same, More, Once
<1>3. CASE ~(s.worker \/ s.stream = "open")
  <2>1. r = Post(s, home.signal, "DESTROY")
    BY <1>3 DEF CheckDestroy
  <2> QED
    BY <1>1, <1>3, <2>1, PostFacts
<1> QED
  BY <1>2, <1>3

\* The session, as it ends in state st, lets its object go.
LetsGo(s, st) ==
    st \in {"SENTTERMINATE", "RECEIVEDTERMINATE"} /\ s.session /\ ~s.channel

\* What is left of system s in system r, at the end of its session.
Ended(r, s, st) ==
    /\ r.worker = s.worker /\ r.channel = s.channel /\ r.stream = s.stream
    /\ r.tcp = s.tcp /\ r.pending = s.pending /\ r.tunnel = s.tunnel
    /\ r.clocks = s.clocks /\ r.state = st /\ r.alive = s.alive
    /\ r.session <=> s.session /\ ~LetsGo(s, st)

LEMMA NotifyEndFacts ==
    ASSUME Threads3, NEW s \in System, NEW st \in Terminal, s.tunnel,
           NEW r, r = Notify(s, st)
    PROVE  /\ r \in System
           /\ Ended(r, s, st)
           /\ More(r, s, home.stream,
                   IF LetsGo(s, st) /\ s.stream = "open" THEN {"CLOSE"} ELSE {})
           /\ r.queue = s.queue \/ s.stream = "open"
<1> DEFINE g == LetsGo(s, st)
           a == [s EXCEPT !.state = st]
           d == [a EXCEPT !.session = FALSE]
<1>1. /\ a \in System /\ a.queue = s.queue /\ a.tunnel /\ a.session = s.session
      /\ a.channel = s.channel
  BY DEF System, SessionState
<1>2. home.stream \in Thread /\ "CLOSE" \in Event
  BY DEF Threads3, Event
<1>3. r = IF g THEN PostEvent(d, "CLOSE") ELSE a
  BY <1>1, Zenon DEF Notify, OnSessionState, OnSessionTerminate, Terminal, LetsGo
<1>4. d \in System /\ d.queue = s.queue /\ d.stream = s.stream
  BY <1>1 DEF System
<1>5. CASE g
  <2> HIDE DEF d
  <2>1. /\ r \in System /\ Same(r, d)
        /\ More(r, d, home.stream, IF d.stream = "open" THEN {"CLOSE"} ELSE {})
    BY <1>2, <1>3, <1>4, <1>5, PostEventFacts
  <2>2. More(r, s, home.stream, IF s.stream = "open" THEN {"CLOSE"} ELSE {})
    BY <1>4, <2>1 DEF More, Once
  <2>3. s.stream # "open" => r.queue = s.queue
    BY <1>3, <1>4, <1>5 DEF PostEvent
  <2>4. Ended(r, s, st)
    BY <1>5, <2>1 DEF d, Same, System, Ended
  <2> QED
    BY <1>5, <2>1, <2>2, <2>3, <2>4
<1>6. CASE ~g
  <2>1. r = a
    BY <1>3, <1>6
  <2>2. More(r, s, home.stream, {})
    BY <1>1, <2>1 DEF More, Once
  <2>3. Ended(r, s, st)
    BY <1>1, <1>6, <2>1 DEF System, Ended
  <2> QED
    BY <1>1, <1>6, <2>1, <2>2, <2>3
<1> QED
  BY <1>5, <1>6

\* The beginning of a connection.
LEMMA NotifyAcceptFacts ==
    ASSUME initiator \in BOOLEAN, NEW s \in System,
           NEW st \in {"SENTACCEPT", "RECEIVEDACCEPT"}, s.tunnel,
           NEW r, r = Notify(s, st)
    PROVE  /\ r \in System /\ r.queue = s.queue
           /\ Same(r, [s EXCEPT !.state = st, !.worker = TRUE, !.channel = TRUE,
                                !.tcp = NewTcp, !.ready = initiator])
<1> DEFINE a == [s EXCEPT !.state = st]
<1>1. a.tunnel
  BY DEF System
<1>2. r = Connect(a)
  BY <1>1, Zenon DEF Notify, OnSessionState
<1>3. NewTcp \in Tcp
  BY DEF NewTcp, Tcp
<1> QED
  BY <1>2, <1>3 DEF Connect, System, SessionState, Same

\* OnChannelDestroyed, up to the news that the TunnelSession gets.
Gone(s) ==
    LET clear == [Clear(s, home.signal, {"DESTROYCHANNEL"}) EXCEPT !.clocks = 0]
        gone == [Post(clear, home.worker, "PURGE") EXCEPT
                    !.session = FALSE, !.channel = FALSE]
        news == IF s.tcp.state = "CLOSED" THEN gone ELSE PostEvent(gone, "CLOSE")
    IN  IF news.tcp = NoTcp THEN news
        ELSE AdjustClock([news EXCEPT !.tcp.shut = "FORCEFUL"], TRUE)

Closes(s) == s.stream = "open" /\ s.tcp.state # "CLOSED"

LEMMA GoneFacts ==
    ASSUME Threads3, NEW s \in System, NEW r, r = Gone(s)
    PROVE  /\ r \in System
           /\ r.worker = s.worker /\ r.stream = s.stream /\ r.pending = s.pending
           /\ r.tunnel = s.tunnel /\ r.state = s.state /\ r.alive = s.alive
           /\ ~r.session /\ ~r.channel /\ r.clocks = 0 /\ r.tcp = NoTcp
           /\ \A u \in Thread :
                 Elements(r.queue[u]) =
                    (Elements(s.queue[u]) \ (IF u = home.signal THEN {"DESTROYCHANNEL"} ELSE {}))
                    \cup (IF u = home.worker THEN {"PURGE"} ELSE {})
                    \cup (IF u = home.stream /\ Closes(s) THEN {"CLOSE"} ELSE {})
           /\ \A u \in Thread : \A m :
                 /\ Once(s, u, m)
                 /\ (m = "PURGE" \/ (m = "CLOSE" /\ Closes(s)) => m \notin Elements(s.queue[u]))
                 => Once(r, u, m)
<1> DEFINE c == Clear(s, home.signal, {"DESTROYCHANNEL"})
           d == [c EXCEPT !.clocks = 0]
           e == Post(d, home.worker, "PURGE")
           g == [e EXCEPT !.session = FALSE, !.channel = FALSE]
           n == IF s.tcp.state = "CLOSED" THEN g ELSE PostEvent(g, "CLOSE")
           f == [n EXCEPT !.tcp.shut = "FORCEFUL"]
<1>1. r = IF n.tcp = NoTcp THEN n ELSE AdjustClock(f, TRUE)
  BY Zenon DEF Gone
<1>2. /\ home.signal \in Thread /\ home.worker \in Thread /\ home.stream \in Thread
      /\ "PURGE" \in Message /\ "CLOSE" \in Event
  BY DEF Threads3, Message, Event
<1>3. c \in System /\ Same(c, s) /\ Less(c, s, home.signal, {"DESTROYCHANNEL"})
  BY <1>2, ClearFacts
<1> HIDE DEF c
<1>4. d \in System /\ d.queue = c.queue /\ Same(d, [s EXCEPT !.clocks = 0])
  BY <1>3 DEF System, Same
<1> HIDE DEF d
<1>5. e \in System /\ Same(e, d) /\ More(e, d, home.worker, {"PURGE"})
  BY <1>2, <1>4, PostFacts
<1> HIDE DEF e
<1>6. /\ g \in System /\ g.queue = e.queue
      /\ g.worker = s.worker /\ g.stream = s.stream /\ g.pending = s.pending
      /\ g.tunnel = s.tunnel /\ g.state = s.state /\ g.tcp = s.tcp /\ g.alive = s.alive
      /\ ~g.session /\ ~g.channel /\ g.clocks = 0
  <2>1. /\ e.worker = s.worker /\ e.stream = s.stream /\ e.pending = s.pending
        /\ e.tunnel = s.tunnel /\ e.state = s.state /\ e.tcp = s.tcp /\ e.clocks = 0
        /\ e.alive = s.alive
    BY <1>4, <1>5 DEF System, Same
  <2> QED
    BY <1>5, <2>1 DEF System
<1> HIDE DEF g
<1>7. /\ n \in System /\ Same(n, g)
      /\ More(n, g, home.stream, IF Closes(s) THEN {"CLOSE"} ELSE {})
  <2>1. CASE s.tcp.state = "CLOSED"
    BY <1>6, <2>1 DEF Same, More, Once, Closes
  <2>2. CASE s.tcp.state # "CLOSED"
    <3>1. n = PostEvent(g, "CLOSE")
      BY <2>2
    <3>2. g.stream = s.stream
      BY <1>6
    <3>3. /\ n \in System /\ Same(n, g)
          /\ More(n, g, home.stream, IF g.stream = "open" THEN {"CLOSE"} ELSE {})
      BY <1>2, <1>6, <3>1, PostEventFacts
    <3> QED
      BY <2>2, <3>2, <3>3 DEF Closes
  <2> QED
    BY <2>1, <2>2
<1> HIDE DEF n
<1>8. /\ n.worker = s.worker /\ n.stream = s.stream /\ n.pending = s.pending
      /\ n.tunnel = s.tunnel /\ n.state = s.state /\ n.tcp = s.tcp /\ n.alive = s.alive
      /\ ~n.session /\ ~n.channel /\ n.clocks = 0
  BY <1>6, <1>7 DEF Same
<1>10. /\ r \in System /\ r.queue = n.queue
       /\ r.worker = n.worker /\ r.stream = n.stream /\ r.pending = n.pending
       /\ r.tunnel = n.tunnel /\ r.state = n.state /\ r.alive = n.alive
       /\ ~r.session /\ ~r.channel /\ r.clocks = 0 /\ r.tcp = NoTcp
  <2>1. CASE n.tcp = NoTcp
    BY <1>1, <1>7, <1>8, <2>1
  <2>2. CASE n.tcp # NoTcp
    <3>1. n.tcp \in Tcp
      BY <1>7, <2>2 DEF System
    <3> DEFINE p == [n.tcp EXCEPT !.shut = "FORCEFUL"]
    <3>2. p \in Tcp /\ p.shut = "FORCEFUL"
      BY <3>1 DEF Tcp
    <3>3. f = [n EXCEPT !.tcp = p]
      OBVIOUS
    <3>4. ~NeedsClock(p)
      BY <3>2 DEF NeedsClock
    <3> HIDE DEF p, f
    <3>5. f \in System /\ f.tcp = p /\ ~f.channel
      BY <1>7, <1>8, <3>2, <3>3 DEF System
    <3>6. r = [f EXCEPT !.tcp = NoTcp, !.ready = FALSE]
      BY <1>1, <2>2, <3>4, <3>5 DEF AdjustClock, System
    <3>7. r = [n EXCEPT !.tcp = NoTcp, !.ready = FALSE]
      BY <1>7, <3>3, <3>6 DEF System
    <3> QED
      BY <1>7, <1>8, <3>7 DEF System
  <2> QED
    BY <2>1, <2>2
<1>12. ASSUME NEW u \in Thread
       PROVE  Elements(r.queue[u]) =
                 (Elements(s.queue[u]) \ (IF u = home.signal THEN {"DESTROYCHANNEL"} ELSE {}))
                 \cup (IF u = home.worker THEN {"PURGE"} ELSE {})
                 \cup (IF u = home.stream /\ Closes(s) THEN {"CLOSE"} ELSE {})
  <2>1. Elements(c.queue[u]) =
            Elements(s.queue[u]) \ (IF u = home.signal THEN {"DESTROYCHANNEL"} ELSE {})
    BY <1>3 DEF Less
  <2>2. Elements(e.queue[u]) = Elements(c.queue[u]) \cup (IF u = home.worker THEN {"PURGE"} ELSE {})
    BY <1>4, <1>5 DEF More
  <2>3. Elements(n.queue[u]) =
            Elements(e.queue[u]) \cup (IF u = home.stream /\ Closes(s) THEN {"CLOSE"} ELSE {})
    BY <1>6, <1>7 DEF More
  <2> QED
    BY <1>10, <2>1, <2>2, <2>3
<1>13. ASSUME NEW u \in Thread, NEW m, Once(s, u, m),
              m = "PURGE" \/ (m = "CLOSE" /\ Closes(s)) => m \notin Elements(s.queue[u])
       PROVE  Once(r, u, m)
  <2>1. Once(c, u, m) /\ (m \notin Elements(s.queue[u]) => m \notin Elements(c.queue[u]))
    BY <1>3, <1>13 DEF Less
  <2>2. Once(d, u, m) /\ Elements(d.queue[u]) = Elements(c.queue[u])
    BY <1>4, <2>1 DEF Once
  <2>3. Once(e, u, m) /\ (m = "CLOSE" /\ Closes(s) => m \notin Elements(e.queue[u]))
    BY <1>5, <1>13, <2>1, <2>2 DEF More
  <2>4. Once(g, u, m) /\ Elements(g.queue[u]) = Elements(e.queue[u])
    BY <1>6, <2>3 DEF Once
  <2>5. Once(n, u, m)
    BY <1>7, <2>3, <2>4 DEF More
  <2> QED
    BY <1>10, <2>5 DEF Once
<1> QED
  BY <1>8, <1>10, <1>12, <1>13

LEMMA DestroyedIsGone ==
    ASSUME NEW s \in System PROVE OnChannelDestroyed(s) = OnChannelClosed(Gone(s))
BY Zenon DEF OnChannelDestroyed, Gone

-----------------------------------------------------------------------------
(* The threads take messages.                                              *)

LEMMA TakeQueuedKeeps ==
    ASSUME NEW w, NEW s, NEW h, NEW k, I(w, s, h, k), NEW t \in Thread,
           h[t] = None, s.queue[t] # <<>>,
           NEW r, r = Popped(s, t),
           NEW g, g = [h EXCEPT ![t] = Head(s.queue[t])]
    PROVE  I(w, r, g, k)
<1> DEFINE m == Head(s.queue[t])
<1>m. m = Head(s.queue[t])
  OBVIOUS
<1> HIDE DEF m
<1>0. /\ TypeI(w, s, h, k) /\ PlaceI(w, s, h) /\ ObjectI(w, s, h)
      /\ SessionI(w, s, h) /\ ClockI(w, s, h) /\ ToldI(w, s, h, k) /\ DataI(w, s, h, k)
  BY DEF I
<1>1. TypeI(w, s, h, k) /\ s \in System /\ h \in [Thread -> Taken]
      /\ w.signal \in Thread /\ w.worker \in Thread /\ w.stream \in Thread
  BY <1>0 DEF TypeI
<1>2. /\ r \in System /\ Same(r, s) /\ m \in Message
      /\ \A u \in Thread : u # t => r.queue[u] = s.queue[u]
      /\ Elements(s.queue[t]) = Elements(r.queue[t]) \cup {m}
      /\ \A u \in Thread : \A x : Once(s, u, x) => Once(r, u, x)
      /\ Once(s, t, m) => m \notin Elements(r.queue[t])
  BY <1>1, <1>m, TakeFacts
<1>3. /\ g \in [Thread -> Taken] /\ g[t] = m
      /\ \A u \in Thread : u # t => g[u] = h[u]
  BY <1>1, <1>2, <1>m DEF Taken
<1>4. m # None /\ m # "CLOCK" /\ m # "GETSTREAM" /\ m # "SIGNALLED"
  BY <1>2 DEF Message, Event, None
<1>5. \A u \in Thread, x \in Taken \ {None} : On(r, g, u, x) <=> On(s, h, u, x)
  <2> SUFFICES ASSUME NEW u \in Thread, NEW x \in Taken \ {None}
               PROVE  On(r, g, u, x) <=> On(s, h, u, x)
    OBVIOUS
  <2>1. CASE u = t
    BY <1>2, <1>3, <2>1 DEF On
  <2>2. CASE u # t
    BY <1>2, <1>3, <2>2 DEF On
  <2> QED
    BY <2>1, <2>2
<1>6. {"DESTROYCHANNEL", "DESTROY", "STATE", "SIGNALLED", "GETSTREAM", "PURGE", "CLOCK"} \cup Event
         \subseteq Taken \ {None}
      /\ {"OPEN", "READ", "CLOSE"} \subseteq Event
  BY DEF Taken, Message, Event, None
<1>7. \A u \in Thread : (g[u] = "CLOCK" <=> h[u] = "CLOCK")
                     /\ (g[u] = "GETSTREAM" <=> h[u] = "GETSTREAM")
                     /\ (g[u] = "SIGNALLED" <=> h[u] = "SIGNALLED")
  BY <1>3, <1>4 DEF None
<1>8. TypeI(w, r, g, k)
  BY <1>1, <1>2, <1>3 DEF TypeI
<1>9. PlaceI(w, r, g)
  <2>1. PlaceI(w, s, h)
    BY <1>0
  <2>2. \A u \in Thread :
          /\ u # w.signal =>
                \A x \in {"DESTROYCHANNEL", "DESTROY", "STATE", "SIGNALLED", "GETSTREAM"} :
                                ~On(r, g, u, x)
          /\ u # w.worker => \A x \in {"PURGE", "CLOCK"} : ~On(r, g, u, x)
          /\ u # w.stream => \A x \in Event : ~On(r, g, u, x)
    BY <1>5, <1>6, <2>1 DEF PlaceI
  <2>3. Once(r, w.worker, "PURGE") /\ Once(r, w.stream, "CLOSE")
    BY <1>1, <1>2, <2>1 DEF PlaceI
  <2>4. ASSUME NEW u \in Thread, NEW x, g[u] = x, x # None, Once(s, u, x),
               h[u] = x => x \notin Elements(s.queue[u])
        PROVE  x \notin Elements(r.queue[u])
    BY <1>2, <1>3, <2>4
  <2>5. /\ g[w.worker] = "PURGE" => "PURGE" \notin Elements(r.queue[w.worker])
        /\ g[w.stream] = "CLOSE" => "CLOSE" \notin Elements(r.queue[w.stream])
    BY <1>1, <2>1, <2>4 DEF PlaceI, None
  <2> QED
    BY <2>2, <2>3, <2>5 DEF PlaceI
<1>10. ObjectI(w, r, g)
  BY <1>0, <1>1, <1>2, <1>5, <1>6 DEF ObjectI, Same
<1>11. SessionI(w, r, g)
  BY <1>0, <1>1, <1>2, <1>5, <1>6, <1>7 DEF SessionI, Same
<1>12. ClockI(w, r, g)
  BY <1>0, <1>1, <1>2, <1>7 DEF ClockI, Same
<1>13. ToldI(w, r, g, k)
  BY <1>0, <1>1, <1>2, <1>5, <1>6 DEF ToldI, Same, IsOver
<1>14. DataI(w, r, g, k)
  BY <1>0, <1>1, <1>2, <1>5, <1>6 DEF DataI, Same, Announced
<1> QED
  BY <1>8, <1>9, <1>10, <1>11, <1>12, <1>13, <1>14 DEF I

LEMMA TakeClockKeeps ==
    ASSUME NEW w, NEW s, NEW h, NEW k, I(w, s, h, k), h[w.worker] = None, s.clocks > 0,
           NEW r, r = [s EXCEPT !.clocks = @ - 1],
           NEW g, g = [h EXCEPT ![w.worker] = "CLOCK"]
    PROVE  I(w, r, g, k)
<1>0. /\ TypeI(w, s, h, k) /\ PlaceI(w, s, h) /\ ObjectI(w, s, h)
      /\ SessionI(w, s, h) /\ ClockI(w, s, h) /\ ToldI(w, s, h, k) /\ DataI(w, s, h, k)
  BY DEF I
<1>1. TypeI(w, s, h, k) /\ s \in System /\ h \in [Thread -> Taken]
      /\ w.signal \in Thread /\ w.worker \in Thread /\ w.stream \in Thread
  BY <1>0 DEF TypeI
<1>2. /\ r \in System /\ r.queue = s.queue /\ r.clocks = s.clocks - 1
      /\ r.worker = s.worker /\ r.session = s.session /\ r.channel = s.channel
      /\ r.stream = s.stream /\ r.tcp = s.tcp /\ r.pending = s.pending
      /\ r.tunnel = s.tunnel /\ r.state = s.state /\ r.alive = s.alive
  <2>1. s.clocks - 1 \in Nat
    BY <1>1 DEF System
  <2> QED
    BY <1>1, <2>1 DEF System
<1>3. /\ g \in [Thread -> Taken] /\ g[w.worker] = "CLOCK"
      /\ \A u \in Thread : u # w.worker => g[u] = h[u]
  BY <1>1 DEF Taken
<1>4. \A u \in Thread, x \in Taken \ {None} :
         On(r, g, u, x) <=> On(s, h, u, x) \/ (u = w.worker /\ x = "CLOCK")
  BY <1>1, <1>2, <1>3 DEF On, None
<1>5. {"DESTROYCHANNEL", "DESTROY", "STATE", "SIGNALLED", "GETSTREAM", "PURGE", "CLOCK"} \cup Event
         \subseteq Taken \ {None}
      /\ {"OPEN", "READ", "CLOSE"} \subseteq Event
      /\ "CLOCK" \notin Event
  BY DEF Taken, Message, Event, None
<1>6. s.channel /\ s.worker
  BY <1>0, <1>1 DEF ObjectI, System
<1>8. TypeI(w, r, g, k)
  BY <1>1, <1>2, <1>3 DEF TypeI
<1>9. PlaceI(w, r, g)
  <2>1. \A u \in Thread :
          /\ u # w.signal =>
                \A x \in {"DESTROYCHANNEL", "DESTROY", "STATE", "SIGNALLED", "GETSTREAM"} :
                                ~On(r, g, u, x)
          /\ u # w.worker => \A x \in {"PURGE", "CLOCK"} : ~On(r, g, u, x)
          /\ u # w.stream => \A x \in Event : ~On(r, g, u, x)
    BY <1>0, <1>4, <1>5 DEF PlaceI
  <2>2. Once(r, w.worker, "PURGE") /\ Once(r, w.stream, "CLOSE")
    BY <1>0, <1>2 DEF PlaceI, Once
  <2>3. \A u \in Thread : \A x : g[u] = x /\ x # "CLOCK" => h[u] = x
    BY <1>1, <1>3
  <2> QED
    BY <1>0, <1>1, <1>2, <2>1, <2>2, <2>3 DEF PlaceI
<1>10. ObjectI(w, r, g)
  <2>1. /\ On(r, g, w.worker, "PURGE") <=> On(s, h, w.worker, "PURGE")
        /\ On(r, g, w.signal, "DESTROYCHANNEL") <=> On(s, h, w.signal, "DESTROYCHANNEL")
        /\ On(r, g, w.signal, "DESTROY") <=> On(s, h, w.signal, "DESTROY")
        /\ \A e \in Event : On(r, g, w.stream, e) <=> On(s, h, w.stream, e)
    BY <1>1, <1>4, <1>5
  <2> QED
    BY <1>0, <1>2, <1>6, <2>1 DEF ObjectI
<1>11. SessionI(w, r, g)
  BY <1>0, <1>1, <1>2, <1>3, <1>4, <1>5 DEF SessionI, None
<1>12. ClockI(w, r, g)
  <2>1. s.clocks \in Nat /\ s.clocks - 1 <= 1 /\ s.clocks - 1 <= 2
    BY <1>0, <1>1 DEF ClockI, System
  <2> QED
    BY <1>2, <1>3, <2>1 DEF ClockI
<1>13. ToldI(w, r, g, k)
  BY <1>0, <1>1, <1>2, <1>4, <1>5 DEF ToldI, IsOver
<1>14. DataI(w, r, g, k)
  BY <1>0, <1>1, <1>2, <1>4, <1>5 DEF DataI, Announced
<1> QED
  BY <1>8, <1>9, <1>10, <1>11, <1>12, <1>13, <1>14 DEF I

-----------------------------------------------------------------------------
(* The clock is adjusted at the end of what happens to a connection.       *)

\* All of the invariant but what the clock makes true.
J(w, s, h, k) ==
    /\ TypeI(w, s, h, k) /\ PlaceI(w, s, h) /\ ObjectI(w, s, h)
    /\ SessionI(w, s, h) /\ ToldI(w, s, h, k) /\ DataI(w, s, h, k)

LEMMA TypeThreads ==
    ASSUME NEW s, NEW h, NEW k, TypeI(home, s, h, k)
    PROVE  /\ Threads3 /\ s \in System /\ h \in [Thread -> Taken]
           /\ home.signal \in Thread /\ home.worker \in Thread /\ home.stream \in Thread
BY DEF TypeI, Threads3

\* What every message is, for the invariant.
LEMMA Names ==
    /\ {"DESTROYCHANNEL", "DESTROY", "STATE", "SIGNALLED", "GETSTREAM", "PURGE", "CLOCK"} \cup Event
         \subseteq Taken \ {None}
    /\ {"OPEN", "READ", "CLOSE", "WRITE"} = Event
    /\ Message \subseteq Taken
    /\ {"DESTROYCHANNEL", "DESTROY", "STATE", "SIGNALLED", "GETSTREAM", "PURGE", "CLOCK", None}
          \cap Event = {}
    /\ "CLOCK" \notin Message /\ "GETSTREAM" \notin Message /\ "SIGNALLED" \notin Message
    /\ None \notin Message
    /\ None \in Taken
BY DEF Taken, Message, Event, None

LEMMA AdjustKeeps ==
    ASSUME NEW s, NEW h, NEW k, J(home, s, h, k), s.tcp \in Tcp, NEW c \in BOOLEAN,
           s.clocks <= 2, ~c => s.clocks <= 1 /\ h[home.worker] # "CLOCK",
           h[home.worker] = "CLOCK" => s.clocks <= 1,
           NEW r, r = AdjustClock(s, c)
    PROVE  I(home, r, h, k) /\ r.worker = s.worker
<1>0. /\ TypeI(home, s, h, k) /\ PlaceI(home, s, h) /\ ObjectI(home, s, h)
      /\ SessionI(home, s, h) /\ ToldI(home, s, h, k) /\ DataI(home, s, h, k)
  BY DEF J
<1>1. /\ Threads3 /\ s \in System /\ h \in [Thread -> Taken]
      /\ home.signal \in Thread /\ home.worker \in Thread /\ home.stream \in Thread
  BY <1>0, TypeThreads
<1>2. s.clocks \in Nat /\ s.tcp # NoTcp /\ s.channel
  <2>1. s.tcp # NoTcp
    BY NoTcpIsNone
  <2> QED
    BY <1>0, <1>1, <2>1 DEF ObjectI, System
<1>3. CASE NeedsClock(s.tcp)
  <2>1. /\ r \in System /\ r.queue = s.queue
        /\ Same(r, [s EXCEPT !.clocks = IF c THEN 1 ELSE s.clocks + 1])
    BY <1>1, <1>3, AdjustClockFacts
  <2>2. /\ r.worker = s.worker /\ r.session = s.session /\ r.channel = s.channel
        /\ r.stream = s.stream /\ r.tcp = s.tcp /\ r.pending = s.pending
        /\ r.tunnel = s.tunnel /\ r.state = s.state /\ r.alive = s.alive
        /\ r.clocks = IF c THEN 1 ELSE s.clocks + 1
    BY <1>1, <2>1 DEF Same, System
  <2>3. \A u, x : On(r, h, u, x) <=> On(s, h, u, x)
    BY <2>1 DEF On
  <2>4. \A u, x : Once(r, u, x) <=> Once(s, u, x)
    BY <2>1 DEF Once
  <2>5. TypeI(home, r, h, k)
    BY <1>0, <2>1 DEF TypeI
  <2>6. PlaceI(home, r, h)
    BY <1>0, <2>1, <2>3, <2>4 DEF PlaceI
  <2>7. ObjectI(home, r, h)
    BY <1>0, <1>2, <2>2, <2>3 DEF ObjectI
  <2>8. SessionI(home, r, h)
    BY <1>0, <2>2, <2>3 DEF SessionI
  <2>9. ClockI(home, r, h)
    BY <1>2, <2>2 DEF ClockI
  <2>10. ToldI(home, r, h, k)
    BY <1>0, <2>2, <2>3 DEF ToldI, IsOver
  <2>11. DataI(home, r, h, k)
    BY <1>0, <2>2, <2>3 DEF DataI, Announced
  <2> QED
    BY <2>2, <2>5, <2>6, <2>7, <2>8, <2>9, <2>10, <2>11 DEF I
<1>4. CASE ~NeedsClock(s.tcp)
  <2>0. s.stream = "closed"
    BY <1>0, <1>2, <1>4 DEF ToldI, NeedsClock
  <2>1. /\ r \in System /\ More(r, s, home.signal, {"DESTROYCHANNEL"})
        /\ Same(r, [s EXCEPT !.tcp = NoTcp, !.ready = FALSE])
    BY <1>1, <1>2, <1>4, AdjustClockFacts
  <2>2. /\ r.worker = s.worker /\ r.session = s.session /\ r.channel = s.channel
        /\ r.stream = s.stream /\ r.tcp = NoTcp /\ r.pending = s.pending
        /\ r.tunnel = s.tunnel /\ r.state = s.state /\ r.clocks = s.clocks
        /\ r.alive = s.alive
    BY <1>1, <2>1 DEF Same, System
  <2>3. \A u \in Thread : \A x :
           On(r, h, u, x) <=> On(s, h, u, x) \/ (u = home.signal /\ x = "DESTROYCHANNEL")
    BY <2>1 DEF On, More
  <2>4. \A u \in Thread : \A x : x # "DESTROYCHANNEL" =>
           /\ On(r, h, u, x) <=> On(s, h, u, x)
           /\ x \in Elements(r.queue[u]) <=> x \in Elements(s.queue[u])
           /\ Once(s, u, x) => Once(r, u, x)
    BY <2>1, <2>3 DEF More
  <2>5. TypeI(home, r, h, k)
    BY <1>0, <2>1 DEF TypeI
  <2>6. PlaceI(home, r, h)
    <3>1. \A u \in Thread :
            /\ u # home.signal =>
                  \A x \in {"DESTROYCHANNEL", "DESTROY", "STATE", "SIGNALLED", "GETSTREAM"} :
                     ~On(r, h, u, x)
            /\ u # home.worker => \A x \in {"PURGE", "CLOCK"} : ~On(r, h, u, x)
            /\ u # home.stream => \A x \in Event : ~On(r, h, u, x)
      BY <1>0, <2>3, Names DEF PlaceI
    <3> QED
      BY <1>0, <1>1, <2>4, <3>1 DEF PlaceI
  <2>7. ObjectI(home, r, h)
    BY <1>0, <1>1, <1>2, <2>2, <2>4, Names DEF ObjectI
  <2>8. SessionI(home, r, h)
    BY <1>0, <1>1, <2>2, <2>4 DEF SessionI
  <2>9. ClockI(home, r, h)
    BY <2>2 DEF ClockI
  <2>10. ToldI(home, r, h, k)
    BY <2>0, <2>2 DEF ToldI
  <2>11. DataI(home, r, h, k)
    BY <2>0, <2>2 DEF DataI, None
  <2> QED
    BY <2>2, <2>5, <2>6, <2>7, <2>8, <2>9, <2>10, <2>11 DEF I
<1> QED
  BY <1>3, <1>4

-----------------------------------------------------------------------------
(* What a connection does with its buffers, and tells the stream.          *)

\* r is s but for the connection and what it tells.
Kept(r, s) ==
    /\ r.worker = s.worker /\ r.session = s.session /\ r.channel = s.channel
    /\ r.stream = s.stream /\ r.tunnel = s.tunnel /\ r.state = s.state
    /\ r.clocks = s.clocks /\ r.alive = s.alive

\* M is what the connection tells its stream on the way from s to r.
News(r, s, M) ==
    /\ r \in System /\ r.tcp \in Tcp /\ r.tcp.shut = s.tcp.shut /\ Kept(r, s)
    /\ More(r, s, home.stream, M) /\ M \subseteq Event
    /\ s.stream # "open" => M = {} /\ r.pending = s.pending
    /\ "CLOSE" \in M => r.tcp.state = "CLOSED" /\ s.tcp.state # "CLOSED"
    /\ s.stream = "open" /\ r.tcp.state = "CLOSED" => "CLOSE" \in M \/ s.tcp.state = "CLOSED"
    /\ s.tcp.state = "CLOSED" => r.tcp.state = "CLOSED"
    /\ s.stream = "open" /\ r.pending => s.pending \/ "OPEN" \in M \/ "READ" \in M
    /\ s.stream = "open" /\ (r.tcp.rbuf \/ ~r.tcp.readEnable) =>
          \/ s.tcp.rbuf \/ ~s.tcp.readEnable
          \/ s.pending \/ "OPEN" \in M \/ "READ" \in M

LEMMA NewsKeeps ==
    ASSUME NEW s, NEW h, NEW k, J(home, s, h, k), s.tcp \in Tcp,
           NEW r, NEW M, News(r, s, M)
    PROVE  J(home, r, h, k)
<1>0. /\ TypeI(home, s, h, k) /\ PlaceI(home, s, h) /\ ObjectI(home, s, h)
      /\ SessionI(home, s, h) /\ ToldI(home, s, h, k) /\ DataI(home, s, h, k)
  BY DEF J
<1>1. /\ Threads3 /\ s \in System /\ h \in [Thread -> Taken]
      /\ home.signal \in Thread /\ home.worker \in Thread /\ home.stream \in Thread
  BY <1>0, TypeThreads
<1>2. s.tcp # NoTcp /\ r.tcp # NoTcp /\ s.channel /\ s.session
  <2>1. s.tcp # NoTcp /\ r.tcp # NoTcp
    BY NoTcpIsNone DEF News
  <2> QED
    BY <1>0, <1>1, <2>1 DEF ObjectI, System
<1>3. /\ r.worker = s.worker /\ r.session = s.session /\ r.channel = s.channel
      /\ r.stream = s.stream /\ r.tunnel = s.tunnel /\ r.state = s.state
      /\ r.clocks = s.clocks /\ r.alive = s.alive
  BY DEF News, Kept
<1>4. \A u \in Thread : \A x :
         On(r, h, u, x) <=> On(s, h, u, x) \/ (u = home.stream /\ x \in M)
  BY DEF On, More, News
<1>5. M \subseteq Event /\ (s.stream # "open" => M = {})
  BY DEF News
<1>6. \A u \in Thread : \A x : x \notin Event =>
         /\ On(r, h, u, x) <=> On(s, h, u, x)
         /\ x \in Elements(r.queue[u]) <=> x \in Elements(s.queue[u])
         /\ Once(s, u, x) => Once(r, u, x)
  BY <1>4, <1>5 DEF More, News
<1>7. "CLOSE" \in M => ~On(s, h, home.stream, "CLOSE") /\ s.stream = "open"
  <2> SUFFICES ASSUME "CLOSE" \in M
               PROVE  ~On(s, h, home.stream, "CLOSE") /\ s.stream = "open"
    OBVIOUS
  <2>1. s.stream = "open" /\ s.tcp.state # "CLOSED" /\ ~IsOver(s)
    BY <1>2, <1>5 DEF News, IsOver
  <2> QED
    BY <1>0, <2>1 DEF ToldI
<1>8. TypeI(home, r, h, k)
  BY <1>0 DEF TypeI, News
<1>9. PlaceI(home, r, h)
  <2>1. \A u \in Thread :
          /\ u # home.signal =>
                \A x \in {"DESTROYCHANNEL", "DESTROY", "STATE", "SIGNALLED", "GETSTREAM"} :
                   ~On(r, h, u, x)
          /\ u # home.worker => \A x \in {"PURGE", "CLOCK"} : ~On(r, h, u, x)
          /\ u # home.stream => \A x \in Event : ~On(r, h, u, x)
    BY <1>0, <1>4, <1>5, Names DEF PlaceI
  <2>2. Once(r, home.worker, "PURGE")
        /\ (h[home.worker] = "PURGE" => "PURGE" \notin Elements(r.queue[home.worker]))
    BY <1>0, <1>1, <1>6, Names DEF PlaceI
  <2>3. Once(r, home.stream, "CLOSE")
    BY <1>0, <1>1, <1>7 DEF PlaceI, News, More, On
  <2>4. h[home.stream] = "CLOSE" => "CLOSE" \notin Elements(r.queue[home.stream])
    BY <1>0, <1>1, <1>7 DEF PlaceI, News, More, On
  <2> QED
    BY <2>1, <2>2, <2>3, <2>4 DEF PlaceI
<1>10. ObjectI(home, r, h)
  <2>1. \A e \in Event : On(r, h, home.stream, e) => r.stream = "open"
    BY <1>0, <1>1, <1>3, <1>4, <1>5 DEF ObjectI
  <2>2. ~On(s, h, home.signal, "DESTROYCHANNEL")
    BY <1>0, <1>2 DEF ObjectI
  <2> QED
    BY <1>0, <1>1, <1>2, <1>3, <1>6, <2>1, <2>2, Names DEF ObjectI
<1>11. SessionI(home, r, h)
  BY <1>0, <1>1, <1>3, <1>6, Names DEF SessionI
<1>12. ToldI(home, r, h, k)
  <2>1. r.tcp.shut = IF r.stream = "closed" THEN "GRACEFUL" ELSE "NONE"
    BY <1>0, <1>2, <1>3 DEF ToldI, News
  <2> SUFFICES ASSUME s.stream = "open"
               PROVE  /\ On(r, h, home.stream, "CLOSE") => IsOver(r)
                      /\ k.close = IF IsOver(r) /\ ~On(r, h, home.stream, "CLOSE")
                                   THEN 1 ELSE 0
    BY <1>3, <2>1 DEF ToldI
  <2>2. IsOver(s) <=> s.tcp.state = "CLOSED"
    BY <1>2 DEF IsOver
  <2>3. IsOver(r) <=> r.tcp.state = "CLOSED"
    BY <1>2, <1>3 DEF IsOver
  <2>4. On(r, h, home.stream, "CLOSE") <=> On(s, h, home.stream, "CLOSE") \/ "CLOSE" \in M
    BY <1>1, <1>4
  <2> QED
    BY <1>0, <2>2, <2>3, <2>4 DEF ToldI, News
<1>13. DataI(home, r, h, k)
  <2>1. Announced(home, r, h) <=> Announced(home, s, h) \/ "OPEN" \in M \/ "READ" \in M
    BY <1>1, <1>4 DEF Announced
  <2>2. r.pending => r.stream # None
    BY <1>0, <1>3 DEF DataI, News, None
  <2>3. r.stream = "open" /\ r.pending => Announced(home, r, h)
    BY <1>0, <1>3, <2>1 DEF DataI, News
  <2>4. r.stream = "open" /\ (r.tcp.rbuf \/ ~r.tcp.readEnable) =>
           k.read \/ Announced(home, r, h)
    <3> SUFFICES ASSUME s.stream = "open", r.tcp.rbuf \/ ~r.tcp.readEnable
                 PROVE  k.read \/ Announced(home, r, h)
      BY <1>3
    <3>1. \/ s.tcp.rbuf \/ ~s.tcp.readEnable
          \/ s.pending \/ "OPEN" \in M \/ "READ" \in M
      BY DEF News
    <3> QED
      BY <1>0, <1>2, <2>1, <3>1 DEF DataI
  <2> QED
    BY <2>2, <2>3, <2>4 DEF DataI
<1> QED
  BY <1>8, <1>9, <1>10, <1>11, <1>12, <1>13 DEF J

LEMMA ClosedownNews ==
    ASSUME Threads3, NEW s \in System, s.tcp \in Tcp, s.tcp.state # "CLOSED",
           NEW r, r = Closedown(s)
    PROVE  \E M : News(r, s, M)
<1> DEFINE p == [s.tcp EXCEPT !.state = "CLOSED"]
           a == [s EXCEPT !.tcp = p]
           M == IF s.stream = "open" THEN {"CLOSE"} ELSE {}
<1>1. /\ p \in Tcp /\ p.state = "CLOSED" /\ p.shut = s.tcp.shut
      /\ p.rbuf = s.tcp.rbuf /\ p.readEnable = s.tcp.readEnable
  BY DEF Tcp
<1>2. r = PostEvent(a, "CLOSE")
  BY DEF Closedown
<1> HIDE DEF p
<1>3. /\ a \in System /\ a.queue = s.queue /\ a.tcp = p /\ Kept(a, s)
      /\ a.pending = s.pending
  BY <1>1 DEF System, Kept
<1> HIDE DEF a
<1>4. /\ r \in System /\ Same(r, a)
      /\ More(r, a, home.stream, IF a.stream = "open" THEN {"CLOSE"} ELSE {})
  BY <1>2, <1>3, Names, PostEventFacts
<1>5. a.stream = s.stream
  BY <1>3 DEF Kept
<1>6. Kept(r, s) /\ r.tcp = p /\ r.pending = s.pending
  BY <1>3, <1>4 DEF Kept, Same
<1>7. More(r, s, home.stream, M)
  BY <1>3, <1>4, <1>5 DEF More, Once
<1>8. M \subseteq Event
  BY Names
<1>9. News(r, s, M)
  <2>1. /\ s.stream # "open" => M = {}
        /\ "CLOSE" \in M <=> s.stream = "open"
    OBVIOUS
  <2> HIDE DEF M
  <2> QED
    BY <1>1, <1>4, <1>6, <1>7, <1>8, <2>1 DEF News
<1> QED
  BY <1>9

LEMMA OnTcpOpenFacts ==
    ASSUME Threads3, NEW s \in System, NEW r, r = OnTcpOpen(s)
    PROVE  /\ r \in System /\ Kept(r, s) /\ r.tcp = s.tcp
           /\ r.pending = (s.pending \/ s.stream = "open")
           /\ More(r, s, home.stream, IF s.stream = "open" THEN {"OPEN"} ELSE {})
<1>1. CASE s.stream = "open"
  <2> DEFINE a == [s EXCEPT !.pending = TRUE]
  <2>1. /\ a \in System /\ a.queue = s.queue /\ Kept(a, s) /\ a.tcp = s.tcp
        /\ a.pending /\ a.stream = "open"
    BY <1>1 DEF System, Kept
  <2>2. r = PostEvent(a, "OPEN")
    BY <1>1 DEF OnTcpOpen
  <2> HIDE DEF a
  <2>3. r \in System /\ Same(r, a) /\ More(r, a, home.stream, {"OPEN"})
    BY <2>1, <2>2, Names, PostEventFacts
  <2>4. More(r, s, home.stream, {"OPEN"})
    BY <2>1, <2>3 DEF More, Once
  <2>5. Kept(r, s) /\ r.tcp = s.tcp /\ r.pending = TRUE
    BY <2>1, <2>3 DEF Same, Kept, System
  <2> QED
    BY <1>1, <2>3, <2>4, <2>5
<1>2. CASE s.stream # "open"
  <2>1. r = s
    BY <1>2 DEF OnTcpOpen
  <2>2. More(r, s, home.stream, {})
    BY <2>1 DEF More
  <2>3. r.pending = (s.pending \/ s.stream = "open")
    BY <1>2, <2>1 DEF System
  <2> QED
    BY <1>2, <2>1, <2>2, <2>3 DEF Kept
<1> QED
  BY <1>1, <1>2

LEMMA OnTcpReadableFacts ==
    ASSUME Threads3, NEW s \in System, NEW r, r = OnTcpReadable(s)
    PROVE  /\ r \in System /\ Kept(r, s) /\ r.tcp = s.tcp
           /\ r.pending = (s.pending \/ s.stream = "open")
           /\ More(r, s, home.stream,
                   IF s.stream = "open" /\ ~s.pending THEN {"READ"} ELSE {})
<1>1. CASE s.stream = "open" /\ ~s.pending
  <2> DEFINE a == [s EXCEPT !.pending = TRUE]
  <2>1. /\ a \in System /\ a.queue = s.queue /\ Kept(a, s) /\ a.tcp = s.tcp
        /\ a.pending /\ a.stream = "open"
    BY <1>1 DEF System, Kept
  <2>2. r = PostEvent(a, "READ")
    BY <1>1 DEF OnTcpReadable
  <2> HIDE DEF a
  <2>3. r \in System /\ Same(r, a) /\ More(r, a, home.stream, {"READ"})
    BY <2>1, <2>2, Names, PostEventFacts
  <2>4. More(r, s, home.stream, {"READ"})
    BY <2>1, <2>3 DEF More, Once
  <2>5. Kept(r, s) /\ r.tcp = s.tcp /\ r.pending = TRUE
    BY <2>1, <2>3 DEF Same, Kept, System
  <2> QED
    BY <1>1, <2>3, <2>4, <2>5
<1>2. CASE ~(s.stream = "open" /\ ~s.pending)
  <2>1. r = s
    BY <1>2 DEF OnTcpReadable
  <2>2. More(r, s, home.stream, {})
    BY <2>1 DEF More
  <2>3. r.pending = (s.pending \/ s.stream = "open")
    BY <1>2, <2>1 DEF System
  <2> QED
    BY <1>2, <2>1, <2>2, <2>3 DEF Kept
<1> QED
  BY <1>1, <1>2

LEMMA MoreMore ==
    ASSUME NEW a, NEW b, NEW c, NEW t, NEW M, NEW N, M \cap N = {},
           More(b, a, t, M), More(c, b, t, N)
    PROVE  More(c, a, t, M \cup N)
<1>1. \A u \in Thread : Elements(c.queue[u]) = IF u = t THEN Elements(a.queue[u]) \cup (M \cup N)
                                               ELSE Elements(a.queue[u])
  BY DEF More
<1>2. ASSUME NEW u \in Thread, NEW m, Once(a, u, m),
             u = t /\ m \in M \cup N => m \notin Elements(a.queue[t])
      PROVE  Once(c, u, m)
  <2>1. Once(b, u, m)
    BY <1>2 DEF More
  <2>2. u = t /\ m \in N => m \notin Elements(b.queue[t])
    BY <1>2 DEF More
  <2> QED
    BY <2>1, <2>2 DEF More
<1> QED
  BY <1>1, <1>2 DEF More

LEMMA ProcessNews ==
    ASSUME Threads3, NEW s \in System, s.tcp \in Tcp, s.tcp.state # "CLOSED",
           NEW st \in {"LISTEN", "SYN_SENT", "SYN_RECEIVED", "ESTABLISHED"},
           NEW sbuf \in BOOLEAN, NEW room \in BOOLEAN, NEW ack \in BOOLEAN,
           NEW data \in BOOLEAN, NEW r, r = Process(s, st, sbuf, room, ack, data)
    PROVE  \E M : News(r, s, M)
<1> DEFINE opened == st = "ESTABLISHED" /\ s.tcp.state # st
           writable == s.tcp.writeEnable /\ (room \/ ~sbuf)
           readable == data /\ s.tcp.readEnable
           p == [s.tcp EXCEPT !.state = st, !.sbuf = sbuf, !.ack = ack,
                              !.rbuf = @ \/ data, !.readEnable = @ /\ ~readable,
                              !.writeEnable = @ /\ ~writable]
           a == [s EXCEPT !.tcp = p]
           b == IF opened THEN OnTcpOpen(a) ELSE a
           c == IF writable THEN PostEvent(b, "WRITE") ELSE b
           open == s.stream = "open"
           B == IF open /\ opened THEN {"OPEN"} ELSE {}
           C == IF open /\ writable THEN {"WRITE"} ELSE {}
           D == IF open /\ readable /\ ~c.pending THEN {"READ"} ELSE {}
<1>1. r = IF readable THEN OnTcpReadable(c) ELSE c
  BY Zenon DEF Process
<1>2. opened \in BOOLEAN /\ writable \in BOOLEAN /\ readable \in BOOLEAN
      /\ (readable <=> data /\ s.tcp.readEnable)
  BY DEF Tcp
<1> HIDE DEF opened, writable, readable
<1>3. /\ p \in Tcp /\ p.state = st /\ p.shut = s.tcp.shut
      /\ p.rbuf = (s.tcp.rbuf \/ data) /\ p.readEnable = (s.tcp.readEnable /\ ~readable)
  <2> DEFINE rb == s.tcp.rbuf \/ data
             re == s.tcp.readEnable /\ ~readable
             we == s.tcp.writeEnable /\ ~writable
  <2>1. p = [s.tcp EXCEPT !.state = st, !.sbuf = sbuf, !.ack = ack, !.rbuf = rb,
                          !.readEnable = re, !.writeEnable = we]
    BY DEF Tcp
  <2>2. rb \in BOOLEAN /\ re \in BOOLEAN /\ we \in BOOLEAN
    OBVIOUS
  <2> HIDE DEF p, rb, re, we
  <2>3. /\ p.state = st /\ p.shut = s.tcp.shut
        /\ p.rbuf = rb /\ p.readEnable = re
    BY <2>1 DEF Tcp
  <2> DEFINE p3 == [s.tcp EXCEPT !.state = st, !.sbuf = sbuf, !.ack = ack]
  <2>4. p3 \in Tcp
    BY DEF Tcp
  <2>5. p = [p3 EXCEPT !.rbuf = rb, !.readEnable = re, !.writeEnable = we]
    BY <2>1
  <2> HIDE DEF p3
  <2>6. p \in Tcp
    BY <2>2, <2>4, <2>5 DEF Tcp
  <2> QED
    BY <2>3, <2>6 DEF rb, re
<1> HIDE DEF p
<1>4. a \in System /\ a.queue = s.queue /\ a.tcp = p /\ Kept(a, s) /\ a.pending = s.pending
  BY <1>3 DEF System, Kept
<1> HIDE DEF a
<1>5. /\ b \in System /\ b.tcp = p /\ Kept(b, s) /\ More(b, s, home.stream, B)
      /\ b.pending = (s.pending \/ (open /\ opened))
  <2>1. CASE opened
    <3>1. /\ b \in System /\ Kept(b, a) /\ b.tcp = a.tcp
          /\ b.pending = (a.pending \/ a.stream = "open")
          /\ More(b, a, home.stream, IF a.stream = "open" THEN {"OPEN"} ELSE {})
      <4>1. b = OnTcpOpen(a)
        BY <2>1
      <4> QED
        BY <1>4, <4>1, OnTcpOpenFacts
    <3>2. a.stream = s.stream
      BY <1>4 DEF Kept
    <3> HIDE DEF b
    <3>3. More(b, s, home.stream, B)
      BY <1>4, <2>1, <3>1, <3>2 DEF More, Once
    <3> QED
      BY <1>4, <2>1, <3>1, <3>2, <3>3 DEF Kept
  <2>2. CASE ~opened
    <3>1. b = a
      BY <2>2
    <3>2. More(b, s, home.stream, {})
      BY <1>4, <3>1 DEF More, Once
    <3>3. B = {}
      BY <2>2
    <3> HIDE DEF b, B
    <3>4. s.pending = (s.pending \/ (open /\ opened))
      BY <2>2 DEF System
    <3> QED
      BY <1>4, <3>1, <3>2, <3>3, <3>4
  <2> QED
    BY <2>1, <2>2
<1> HIDE DEF b
<1>6. b.stream = s.stream
  BY <1>5 DEF Kept
<1>7. /\ c \in System /\ c.tcp = p /\ Kept(c, s) /\ More(c, b, home.stream, C)
      /\ c.pending = b.pending
  <2>1. CASE writable
    <3>1. c = PostEvent(b, "WRITE")
      BY <2>1
    <3>2. /\ c \in System /\ Same(c, b)
          /\ More(c, b, home.stream, IF b.stream = "open" THEN {"WRITE"} ELSE {})
      BY <1>5, <3>1, Names, PostEventFacts
    <3> HIDE DEF c
    <3>3. More(c, b, home.stream, C)
      BY <1>6, <2>1, <3>2
    <3> QED
      BY <1>5, <3>2, <3>3 DEF Same, Kept
  <2>2. CASE ~writable
    <3>1. c = b /\ C = {}
      BY <2>2
    <3>2. More(c, b, home.stream, {})
      BY <3>1 DEF More
    <3> HIDE DEF c, C
    <3> QED
      BY <1>5, <3>1, <3>2
  <2> QED
    BY <2>1, <2>2
<1> HIDE DEF c
<1>8. c.stream = s.stream
  BY <1>7 DEF Kept
<1>9. /\ r \in System /\ r.tcp = p /\ Kept(r, s) /\ More(r, c, home.stream, D)
      /\ r.pending = (c.pending \/ (open /\ readable))
  <2>1. CASE readable
    <3>1. /\ r \in System /\ Kept(r, c) /\ r.tcp = c.tcp
          /\ r.pending = (c.pending \/ c.stream = "open")
          /\ More(r, c, home.stream, IF c.stream = "open" /\ ~c.pending THEN {"READ"} ELSE {})
      <4>1. r = OnTcpReadable(c)
        BY <1>1, <2>1
      <4> QED
        BY <1>7, <4>1, OnTcpReadableFacts
    <3>2. More(r, c, home.stream, D)
      BY <1>8, <2>1, <3>1
    <3> QED
      BY <1>7, <1>8, <2>1, <3>1, <3>2 DEF Kept
  <2>2. CASE ~readable
    <3>1. r = c /\ D = {}
      BY <1>1, <2>2
    <3>2. More(r, c, home.stream, {})
      BY <3>1 DEF More
    <3>3. c.pending = (c.pending \/ (open /\ readable))
      BY <1>7, <2>2 DEF System
    <3> HIDE DEF D
    <3> QED
      BY <1>7, <3>1, <3>2, <3>3
  <2> QED
    BY <2>1, <2>2
<1>10. More(r, s, home.stream, (B \cup C) \cup D)
  <2>1. B \cap C = {} /\ (B \cup C) \cap D = {}
    OBVIOUS
  <2> HIDE DEF B, C, D
  <2>2. More(c, s, home.stream, B \cup C)
    BY <1>5, <1>7, <2>1, MoreMore
  <2> QED
    BY <1>9, <2>1, <2>2, MoreMore
<1> DEFINE M == (B \cup C) \cup D
<1>11. /\ M \subseteq Event /\ "CLOSE" \notin M
       /\ s.stream # "open" => M = {}
       /\ open /\ opened => "OPEN" \in M
       /\ open /\ readable /\ ~c.pending => "READ" \in M
  BY Names
<1> HIDE DEF M, B, C, D
<1>12. News(r, s, M)
  <2>1. /\ r \in System /\ r.tcp \in Tcp /\ r.tcp.shut = s.tcp.shut /\ Kept(r, s)
        /\ More(r, s, home.stream, M) /\ M \subseteq Event
        /\ "CLOSE" \notin M /\ r.tcp.state # "CLOSED"
    BY <1>3, <1>9, <1>10, <1>11 DEF M
  <2>2. s.stream # "open" => M = {} /\ r.pending = s.pending
    <3> SUFFICES ASSUME s.stream # "open" PROVE r.pending = s.pending
      BY <1>11
    <3> QED
      BY <1>5, <1>7, <1>9 DEF System
  <2>3. s.stream = "open" /\ r.pending => s.pending \/ "OPEN" \in M \/ "READ" \in M
    <3> SUFFICES ASSUME s.stream = "open", r.pending
                 PROVE  s.pending \/ "OPEN" \in M \/ "READ" \in M
      OBVIOUS
    <3>1. c.pending \/ readable
      BY <1>9
    <3>2. c.pending => s.pending \/ opened
      BY <1>5, <1>7
    <3> QED
      BY <1>11, <3>1, <3>2
  <2>4. s.stream = "open" /\ (r.tcp.rbuf \/ ~r.tcp.readEnable) =>
           \/ s.tcp.rbuf \/ ~s.tcp.readEnable
           \/ s.pending \/ "OPEN" \in M \/ "READ" \in M
    <3> SUFFICES ASSUME s.stream = "open", p.rbuf \/ ~p.readEnable, ~s.tcp.rbuf,
                        s.tcp.readEnable
                 PROVE  s.pending \/ "OPEN" \in M \/ "READ" \in M
      BY <1>9
    <3>1. readable
      BY <1>2, <1>3
    <3>2. r.pending
      BY <1>9, <3>1
    <3> QED
      BY <2>3, <3>2
  <2> QED
    BY <2>1, <2>2, <2>3, <2>4 DEF News
<1> QED
  BY <1>12

LEMMA PacketChoices ==
    ASSUME NEW p \in Tcp, p.state # "CLOSED", NEW st \in After(p)
    PROVE  /\ st \in {"LISTEN", "SYN_SENT", "SYN_RECEIVED", "ESTABLISHED"}
           /\ Unacked(p, st) \subseteq BOOLEAN
           /\ MayBringData(p, st) \in BOOLEAN
<1>1. p.state \in {"LISTEN", "SYN_SENT", "SYN_RECEIVED", "ESTABLISHED"} /\ p.sbuf \in BOOLEAN
  BY DEF Tcp
<1>2. st \in {"LISTEN", "SYN_SENT", "SYN_RECEIVED", "ESTABLISHED"}
  BY <1>1 DEF After
<1>3. Unacked(p, st) \subseteq BOOLEAN
  BY <1>1 DEF Unacked
<1>4. MayBringData(p, st) \in BOOLEAN
  BY DEF MayBringData
<1> QED
  BY <1>2, <1>3, <1>4

LEMMA NotifyClockNews ==
    ASSUME Threads3, NEW s \in System, s.tcp \in Tcp, NEW o \in Outcome,
           NEW r, r = NotifyClock(s, o)
    PROVE  r = s \/ \E M : News(r, s, M)
<1>1. CASE s.tcp.state = "CLOSED" \/ o = "early"
  <2>1. NotifyClock(s, o) = s
    <3>1. CASE s.tcp.state = "CLOSED"
      BY <3>1, Zenon DEF NotifyClock
    <3>2. CASE s.tcp.state # "CLOSED" /\ o = "early"
      BY <3>2, Zenon DEF NotifyClock
    <3> QED
      BY <1>1, <3>1, <3>2
  <2> QED
    BY <2>1
<1>2. CASE s.tcp.state # "CLOSED" /\ o = "fail"
  <2>1. r = Closedown(s)
    BY <1>2 DEF NotifyClock
  <2> QED
    BY <1>2, <2>1, ClosedownNews
<1>3. CASE s.tcp.state # "CLOSED" /\ o = "due"
  <2> DEFINE p == [s.tcp EXCEPT !.ack = FALSE]
  <2>1. r = [s EXCEPT !.tcp = p]
    BY <1>3 DEF NotifyClock
  <2>2. /\ p \in Tcp /\ p.state = s.tcp.state /\ p.shut = s.tcp.shut
        /\ p.rbuf = s.tcp.rbuf /\ p.readEnable = s.tcp.readEnable
    BY DEF Tcp
  <2> HIDE DEF p
  <2>3. r \in System /\ r.queue = s.queue /\ r.tcp = p /\ Kept(r, s) /\ r.pending = s.pending
    BY <2>1, <2>2 DEF System, Kept
  <2>4. More(r, s, home.stream, {})
    BY <2>3 DEF More, Once
  <2>5. News(r, s, {})
    BY <1>3, <2>2, <2>3, <2>4 DEF News
  <2> QED
    BY <2>5
<1> QED
  BY <1>1, <1>2, <1>3 DEF Outcome

LEMMA TcpOrNone == ASSUME NEW s \in System, s.tcp # NoTcp PROVE s.tcp \in Tcp
BY DEF System

\* The signals of the channel.
LEMMA OnChannelKeeps ==
    ASSUME NEW s, NEW h, NEW k, I(home, s, h, k), s.tcp # NoTcp,
           NEW x, x = s \/ \E M : News(x, s, M), NEW r, r = AdjustClock(x, TRUE)
    PROVE  I(home, r, h, k) /\ r.worker
<1>1. J(home, s, h, k) /\ ClockI(home, s, h) /\ s \in System
  BY DEF I, J, TypeI
<1>2. s.tcp \in Tcp /\ s.worker
  BY <1>1, TcpOrNone DEF J, ObjectI
<1>3. J(home, x, h, k) /\ x.tcp \in Tcp /\ x.clocks = s.clocks /\ x.worker = s.worker
  <2>1. CASE x = s
    BY <1>1, <1>2, <2>1
  <2>2. CASE \E M : News(x, s, M)
    <3>1. PICK M : News(x, s, M)
      BY <2>2
    <3>2. J(home, x, h, k)
      BY <1>1, <1>2, <3>1, NewsKeeps
    <3> QED
      BY <3>1, <3>2 DEF News, Kept
  <2> QED
    BY <2>1, <2>2
<1>4. x.clocks <= 2 /\ (h[home.worker] = "CLOCK" => x.clocks <= 1)
  BY <1>1, <1>3 DEF ClockI
<1> QED
  BY <1>2, <1>3, <1>4, AdjustKeeps

LEMMA OnChannelReadKeeps ==
    ASSUME IInv, OnChannelRead 
    PROVE  I(home, sys', hand', told') /\ sys'.worker
<1>0. I(home, sys, hand, told) /\ sys \in System /\ Threads3 /\ sys.tcp # NoTcp
      /\ hand' = hand /\ told' = told
  <2>1. I(home, sys, hand, told)
    BY DEF IInv
  <2>2. sys \in System /\ Threads3
    BY <2>1, TypeThreads DEF I
  <2> QED
    BY <2>1, <2>2 DEF OnChannelRead, NotifyPacket, OnChannel
<1>1. sys.tcp \in Tcp
  BY <1>0, TcpOrNone
<1>2. PICK x : (x = sys \/ \E M : News(x, sys, M)) /\ sys' = AdjustClock(x, TRUE)
  <2>1. CASE sys.tcp.state = "CLOSED" /\ OnChannel(sys)
    BY <2>1 DEF OnChannel
  <2>2. CASE sys.tcp.state # "CLOSED" /\ OnChannel(Closedown(sys))
    <3>1. \E M : News(Closedown(sys), sys, M)
      BY <1>0, <1>1, <2>2, ClosedownNews
    <3>2. sys' = AdjustClock(Closedown(sys), TRUE)
      BY <2>2 DEF OnChannel
    <3> QED
      BY <3>1, <3>2
  <2>3. CASE /\ sys.tcp.state # "CLOSED"
             /\ \E st \in After(sys.tcp) :
                \E sbuf \in Unacked(sys.tcp, st), room \in BOOLEAN, ack \in BOOLEAN,
                   data \in {FALSE, MayBringData(sys.tcp, st)} :
                   OnChannel(Process(sys, st, sbuf, room, ack, data))
    <3>1. PICK st \in After(sys.tcp) :
                \E sbuf \in Unacked(sys.tcp, st), room \in BOOLEAN, ack \in BOOLEAN,
                   data \in {FALSE, MayBringData(sys.tcp, st)} :
                   OnChannel(Process(sys, st, sbuf, room, ack, data))
      BY <2>3
    <3>2. PICK sbuf \in Unacked(sys.tcp, st), room \in BOOLEAN, ack \in BOOLEAN,
               data \in {FALSE, MayBringData(sys.tcp, st)} :
                   OnChannel(Process(sys, st, sbuf, room, ack, data))
      BY <3>1
    <3> DEFINE x == Process(sys, st, sbuf, room, ack, data)
    <3>3. st \in {"LISTEN", "SYN_SENT", "SYN_RECEIVED", "ESTABLISHED"}
          /\ sbuf \in BOOLEAN /\ data \in BOOLEAN
      BY <1>1, <2>3, PacketChoices
    <3>4. \E M : News(x, sys, M)
      BY <1>0, <1>1, <2>3, <3>3, ProcessNews
    <3>5. sys' = AdjustClock(x, TRUE)
      BY <3>2 DEF OnChannel
    <3> HIDE DEF x
    <3> QED
      BY <3>4, <3>5
  <2> QED
    BY <2>1, <2>2, <2>3 DEF OnChannelRead, NotifyPacket
<1> QED
  BY <1>0, <1>2, OnChannelKeeps

LEMMA OnChannelWritableKeeps ==
    ASSUME IInv, OnChannelWritableState 
    PROVE  I(home, sys', hand', told') /\ sys'.worker
<1> DEFINE p == IF sys.tcp.state = "LISTEN"
                THEN [sys.tcp EXCEPT !.state = "SYN_SENT", !.sbuf = TRUE] ELSE sys.tcp
           x == IF sys.tcp.state = "LISTEN"
                THEN [sys EXCEPT !.ready = FALSE, !.tcp.state = "SYN_SENT",
                                 !.tcp.sbuf = TRUE]
                ELSE [sys EXCEPT !.ready = FALSE]
<1>0. I(home, sys, hand, told) /\ sys \in System /\ Threads3 /\ sys.tcp # NoTcp
      /\ hand' = hand /\ told' = told /\ sys' = AdjustClock(x, TRUE)
  <2>1. I(home, sys, hand, told)
    BY DEF IInv
  <2>2. sys \in System /\ Threads3
    BY <2>1, TypeThreads DEF I
  <2> QED
    BY <2>1, <2>2 DEF OnChannelWritableState, OnChannel
<1>1. sys.tcp \in Tcp
  BY <1>0, TcpOrNone
<1>2. /\ p \in Tcp /\ p.shut = sys.tcp.shut /\ p.rbuf = sys.tcp.rbuf
      /\ p.readEnable = sys.tcp.readEnable
      /\ p.state = "CLOSED" <=> sys.tcp.state = "CLOSED"
  BY <1>1 DEF Tcp
<1>3. x = [sys EXCEPT !.ready = FALSE, !.tcp = p]
  BY <1>0, <1>1 DEF System
<1> HIDE DEF p, x
<1>4. /\ x \in System /\ x.queue = sys.queue /\ x.tcp = p /\ Kept(x, sys)
      /\ x.pending = sys.pending
  BY <1>0, <1>2, <1>3 DEF System, Kept
<1>5. More(x, sys, home.stream, {})
  BY <1>4 DEF More, Once
<1>6. News(x, sys, {})
  BY <1>2, <1>4, <1>5 DEF News
<1> QED
  BY <1>0, <1>6, OnChannelKeeps

LEMMA HandleClockKeeps ==
    ASSUME IInv, NEW o \in Outcome, HandleClock(o) 
    PROVE  I(home, sys', hand', told') /\ sys'.worker
<1> DEFINE s == sys
           h == hand
           g == [hand EXCEPT ![home.worker] = None]
           k == told
<1>0. /\ I(home, sys, hand, told) /\ hand[home.worker] = "CLOCK"
      /\ hand' = g /\ told' = told
      /\ sys' = IF sys.tcp = NoTcp THEN sys ELSE AdjustClock(NotifyClock(sys, o), FALSE)
  BY DEF IInv, HandleClock, Handled
<1>1. /\ TypeI(home, s, h, k) /\ PlaceI(home, s, h) /\ ObjectI(home, s, h)
      /\ SessionI(home, s, h) /\ ClockI(home, s, h) /\ ToldI(home, s, h, k)
      /\ DataI(home, s, h, k)
  BY <1>0 DEF I
<1> HIDE DEF s, h, k
<1>2. /\ Threads3 /\ s \in System /\ h \in [Thread -> Taken]
      /\ home.signal \in Thread /\ home.worker \in Thread /\ home.stream \in Thread
  BY <1>1, TypeThreads
<1>3. /\ g \in [Thread -> Taken] /\ g[home.worker] = None
      /\ \A u \in Thread : u # home.worker => g[u] = h[u]
  BY <1>2, Names DEF h
<1> HIDE DEF g
<1>4. h[home.worker] = "CLOCK"
  BY <1>0 DEF h
<1>5. \A u \in Thread, x \in Taken \ {None} : x # "CLOCK" => (On(s, g, u, x) <=> On(s, h, u, x))
  BY <1>2, <1>3, <1>4 DEF On
<1>6. \A u \in Thread : ~On(s, g, u, "CLOCK")
  <2> SUFFICES ASSUME NEW u \in Thread PROVE ~On(s, g, u, "CLOCK")
    OBVIOUS
  <2>1. g[u] # "CLOCK"
    <3>1. CASE u = home.worker
      BY <1>3, <3>1 DEF None
    <3>2. CASE u # home.worker
      BY <1>1, <1>3, <3>2 DEF PlaceI, On
    <3> QED
      BY <3>1, <3>2
  <2>2. s.queue[u] \in Seq(Message)
    BY <1>2 DEF System
  <2>3. "CLOCK" \notin Elements(s.queue[u])
    BY <2>2, Names DEF Elements
  <2> QED
    BY <2>1, <2>3 DEF On
<1>7. \A u \in Thread, x \in Taken \ {None} : On(s, g, u, x) => On(s, h, u, x)
  BY <1>5, <1>6
<1>8. TypeI(home, s, g, k)
  BY <1>1, <1>3 DEF TypeI
<1>9. PlaceI(home, s, g)
  <2>1. \A u \in Thread :
          /\ u # home.signal =>
                \A x \in {"DESTROYCHANNEL", "DESTROY", "STATE", "SIGNALLED", "GETSTREAM"} :
                   ~On(s, g, u, x)
          /\ u # home.worker => \A x \in {"PURGE", "CLOCK"} : ~On(s, g, u, x)
          /\ u # home.stream => \A x \in Event : ~On(s, g, u, x)
    BY <1>1, <1>7, Names DEF PlaceI
  <2>2. \A u \in Thread : \A x : g[u] = x /\ x # None => h[u] = x
    BY <1>3
  <2> QED
    BY <1>1, <1>2, <2>1, <2>2 DEF PlaceI, None
<1>10. ObjectI(home, s, g)
  <2>1. /\ On(s, g, home.worker, "PURGE") => On(s, h, home.worker, "PURGE")
        /\ On(s, g, home.signal, "DESTROYCHANNEL") => On(s, h, home.signal, "DESTROYCHANNEL")
        /\ On(s, g, home.signal, "DESTROY") => On(s, h, home.signal, "DESTROY")
        /\ \A e \in Event : On(s, g, home.stream, e) => On(s, h, home.stream, e)
        /\ ~On(s, g, home.worker, "CLOCK")
    BY <1>2, <1>6, <1>7, Names
  <2> QED
    BY <1>1, <2>1 DEF ObjectI
<1>11. SessionI(home, s, g)
  <2>1. On(s, g, home.signal, "STATE") <=> On(s, h, home.signal, "STATE")
    BY <1>2, <1>5, Names
  <2>2. /\ g[home.signal] = "GETSTREAM" => h[home.signal] = "GETSTREAM"
        /\ g[home.signal] = "SIGNALLED" <=> h[home.signal] = "SIGNALLED"
    BY <1>2, <1>3, <1>4 DEF None
  <2> QED
    BY <1>1, <2>1, <2>2 DEF SessionI
<1>12. ToldI(home, s, g, k)
  <2>1. On(s, g, home.stream, "CLOSE") <=> On(s, h, home.stream, "CLOSE")
    BY <1>2, <1>5, Names
  <2> QED
    BY <1>1, <2>1 DEF ToldI
<1>13. DataI(home, s, g, k)
  <2>1. Announced(home, s, g) <=> Announced(home, s, h)
    BY <1>2, <1>5, Names DEF Announced
  <2> QED
    BY <1>1, <2>1 DEF DataI
<1>14. J(home, s, g, k)
  BY <1>8, <1>9, <1>10, <1>11, <1>12, <1>13 DEF J
<1>15. s.clocks <= 1 /\ s.worker
  BY <1>1, <1>4 DEF ClockI, ObjectI, On
<1>16. CASE s.tcp = NoTcp
  <2>1. sys' = s
    BY <1>0, <1>16 DEF s
  <2>2. ClockI(home, s, g)
    BY <1>1, <1>3, <1>16 DEF ClockI, None
  <2>3. I(home, s, g, k)
    BY <1>8, <1>9, <1>10, <1>11, <1>12, <1>13, <2>2 DEF I
  <2> QED
    BY <1>0, <1>15, <2>1, <2>3 DEF k
<1>17. CASE s.tcp # NoTcp
  <2>1. s.tcp \in Tcp
    BY <1>2, <1>17, TcpOrNone
  <2> DEFINE x == NotifyClock(s, o)
  <2>2. x = s \/ \E M : News(x, s, M)
    BY <1>2, <2>1, NotifyClockNews
  <2>3. sys' = AdjustClock(x, FALSE)
    BY <1>0, <1>17 DEF s
  <2> HIDE DEF x
  <2>4. J(home, x, g, k) /\ x.tcp \in Tcp /\ x.clocks = s.clocks
        /\ x.worker = s.worker
    <3>1. CASE x = s
      BY <1>14, <2>1, <3>1
    <3>2. CASE \E M : News(x, s, M)
      <4>1. PICK M : News(x, s, M)
        BY <3>2
      <4>2. J(home, x, g, k)
        BY <1>14, <2>1, <4>1, NewsKeeps
      <4> QED
        BY <4>1, <4>2 DEF News, Kept
    <3> QED
      BY <2>2, <3>1, <3>2
  <2>5. s.clocks \in Nat /\ s.clocks <= 2
    <3>1. s.clocks \in Nat
      BY <1>2 DEF System
    <3> QED
      BY <1>15, <3>1
  <2>6. I(home, sys', g, k) /\ sys'.worker
    BY <1>3, <1>15, <2>3, <2>4, <2>5, AdjustKeeps DEF None
  <2> QED
    BY <1>0, <2>6 DEF k
<1> QED
  BY <1>16, <1>17

-----------------------------------------------------------------------------
(* What the threads have taken is handled, and the session ends.           *)

\* All of the invariant but what is about the session.
K(w, s, h, k) ==
    /\ TypeI(w, s, h, k) /\ PlaceI(w, s, h) /\ ObjectI(w, s, h)
    /\ ClockI(w, s, h) /\ ToldI(w, s, h, k) /\ DataI(w, s, h, k)

\* g is what the threads have taken when t has handled its message.
Dropped(s, h, t, g) ==
    /\ g \in [Thread -> Taken] /\ g[t] = None
    /\ \A u \in Thread : u # t => g[u] = h[u]
    /\ \A u \in Thread : \A x : x # None /\ On(s, g, u, x) => On(s, h, u, x)
    /\ \A u \in Thread : \A x : On(s, h, u, x) /\ ~(u = t /\ x = h[t]) => On(s, g, u, x)

LEMMA DropFacts ==
    ASSUME NEW s, NEW h \in [Thread -> Taken], NEW t \in Thread,
           NEW g, g = [h EXCEPT ![t] = None]
    PROVE  Dropped(s, h, t, g)
<1>1. /\ g \in [Thread -> Taken] /\ g[t] = None
      /\ \A u \in Thread : u # t => g[u] = h[u]
  BY Names
<1>2. ASSUME NEW u \in Thread, NEW x, x # None, On(s, g, u, x) PROVE On(s, h, u, x)
  <2>1. CASE u = t
    BY <1>1, <1>2, <2>1 DEF On
  <2>2. CASE u # t
    BY <1>1, <1>2, <2>2 DEF On
  <2> QED
    BY <2>1, <2>2
<1>3. ASSUME NEW u \in Thread, NEW x, On(s, h, u, x), ~(u = t /\ x = h[t])
      PROVE  On(s, g, u, x)
  <2>1. CASE u = t
    BY <1>1, <1>3, <2>1 DEF On
  <2>2. CASE u # t
    BY <1>1, <1>3, <2>2 DEF On
  <2> QED
    BY <2>1, <2>2
<1> QED
  BY <1>1, <1>2, <1>3 DEF Dropped

\* A message that is not of the stream is handled: the rest of what is under
\* way is as it was.
LEMMA DropKeeps ==
    ASSUME NEW s, NEW h, NEW k, I(home, s, h, k), NEW t \in Thread,
           h[t] \in {"STATE", "DESTROYCHANNEL", "SIGNALLED", "GETSTREAM", "PURGE", "DESTROY"},
           NEW g, g = [h EXCEPT ![t] = None]
    PROVE  /\ K(home, s, g, k) /\ g[t] = None
           /\ h[t] # "SIGNALLED" /\ (h[t] # "STATE" \/ s.state \notin Terminal)
                 => SessionI(home, s, g)
<1>1. /\ TypeI(home, s, h, k) /\ PlaceI(home, s, h) /\ ObjectI(home, s, h)
      /\ SessionI(home, s, h) /\ ClockI(home, s, h) /\ ToldI(home, s, h, k)
      /\ DataI(home, s, h, k)
  BY DEF I
<1>2. /\ Threads3 /\ s \in System /\ h \in [Thread -> Taken]
      /\ home.signal \in Thread /\ home.worker \in Thread /\ home.stream \in Thread
  BY <1>1, TypeThreads
<1>3. /\ g \in [Thread -> Taken] /\ g[t] = None
      /\ \A u \in Thread : u # t => g[u] = h[u]
      /\ \A u \in Thread : \A x : x # None /\ On(s, g, u, x) => On(s, h, u, x)
      /\ \A u \in Thread : \A x : On(s, h, u, x) /\ ~(u = t /\ x = h[t]) => On(s, g, u, x)
  <2>1. Dropped(s, h, t, g)
    BY <1>2, DropFacts
  <2> QED
    BY <2>1 DEF Dropped
<1>4. \A u \in Thread : \A x : g[u] = x /\ x # None => h[u] = x
  BY <1>3
<1>5. \A u \in Thread : \A x \in Event : On(s, g, u, x) <=> On(s, h, u, x)
  BY <1>3, Names
<1>6. h[home.worker] = "CLOCK" => g[home.worker] = "CLOCK"
  BY <1>2, <1>3
<1>7. \A u \in Thread : \A x \in {"DESTROYCHANNEL", "DESTROY", "STATE", "SIGNALLED", "GETSTREAM",
                                  "PURGE", "CLOCK"} \cup Event : On(s, g, u, x) => On(s, h, u, x)
  BY <1>3, Names
<1>8. TypeI(home, s, g, k)
  BY <1>1, <1>3 DEF TypeI
<1>9. PlaceI(home, s, g)
  <2>1. \A u \in Thread :
          /\ u # home.signal =>
                \A x \in {"DESTROYCHANNEL", "DESTROY", "STATE", "SIGNALLED", "GETSTREAM"} :
                   ~On(s, g, u, x)
          /\ u # home.worker => \A x \in {"PURGE", "CLOCK"} : ~On(s, g, u, x)
          /\ u # home.stream => \A x \in Event : ~On(s, g, u, x)
    BY <1>1, <1>7 DEF PlaceI
  <2> QED
    BY <1>1, <1>2, <1>4, <2>1 DEF PlaceI, None
<1>10. ObjectI(home, s, g)
  <2>1. /\ On(s, g, home.worker, "PURGE") => On(s, h, home.worker, "PURGE")
        /\ On(s, g, home.worker, "CLOCK") => On(s, h, home.worker, "CLOCK")
        /\ On(s, g, home.signal, "DESTROYCHANNEL") => On(s, h, home.signal, "DESTROYCHANNEL")
        /\ On(s, g, home.signal, "DESTROY") => On(s, h, home.signal, "DESTROY")
        /\ \A e \in Event : On(s, g, home.stream, e) => On(s, h, home.stream, e)
    BY <1>2, <1>7
  <2> QED
    BY <1>1, <2>1 DEF ObjectI
<1>11. ClockI(home, s, g)
  BY <1>1, <1>2, <1>4, <1>6 DEF ClockI, None
<1>12. ToldI(home, s, g, k)
  <2>1. On(s, g, home.stream, "CLOSE") <=> On(s, h, home.stream, "CLOSE")
    BY <1>2, <1>5, Names
  <2> QED
    BY <1>1, <2>1 DEF ToldI
<1>13. DataI(home, s, g, k)
  <2>1. Announced(home, s, g) <=> Announced(home, s, h)
    BY <1>2, <1>5, Names DEF Announced
  <2> QED
    BY <1>1, <2>1 DEF DataI
<1>14. ASSUME h[t] # "SIGNALLED", h[t] # "STATE" \/ s.state \notin Terminal
       PROVE  SessionI(home, s, g)
  <2>1. /\ s.state \in Terminal => On(s, g, home.signal, "STATE") \/ g[home.signal] = "SIGNALLED"
        /\ ~s.session /\ s.tunnel /\ s.worker => On(s, g, home.signal, "STATE")
    BY <1>1, <1>2, <1>3, <1>14 DEF SessionI
  <2>2. /\ g[home.signal] = "GETSTREAM" => h[home.signal] = "GETSTREAM"
        /\ g[home.signal] = "SIGNALLED" => h[home.signal] = "SIGNALLED"
    BY <1>2, <1>4 DEF None
  <2> QED
    BY <1>1, <2>1, <2>2 DEF SessionI
<1> QED
  BY <1>3, <1>8, <1>9, <1>10, <1>11, <1>12, <1>13, <1>14 DEF K

\* The channel is gone.
LEMMA GoneKeeps ==
    ASSUME NEW s, NEW h, NEW k, K(home, s, h, k), h[home.signal] = None, s.channel,
           NEW r, r = Gone(s)
    PROVE  /\ K(home, r, h, k)
           /\ ~r.session /\ ~r.channel /\ r.stream = s.stream
           /\ r.tunnel = s.tunnel /\ r.state = s.state /\ r.alive = s.alive /\ r.worker
           /\ On(r, h, home.signal, "STATE") <=> On(s, h, home.signal, "STATE")
<1>1. /\ TypeI(home, s, h, k) /\ PlaceI(home, s, h) /\ ObjectI(home, s, h)
      /\ ClockI(home, s, h) /\ ToldI(home, s, h, k) /\ DataI(home, s, h, k)
  BY DEF K
<1>2. /\ Threads3 /\ s \in System /\ h \in [Thread -> Taken]
      /\ home.signal \in Thread /\ home.worker \in Thread /\ home.stream \in Thread
  BY <1>1, TypeThreads
<1>3. /\ r \in System
      /\ r.worker = s.worker /\ r.stream = s.stream /\ r.pending = s.pending
      /\ r.tunnel = s.tunnel /\ r.state = s.state /\ r.alive = s.alive
      /\ ~r.session /\ ~r.channel /\ r.clocks = 0 /\ r.tcp = NoTcp
  BY <1>2, GoneFacts
<1>4. \A u \in Thread :
         Elements(r.queue[u]) =
            (Elements(s.queue[u]) \ (IF u = home.signal THEN {"DESTROYCHANNEL"} ELSE {}))
            \cup (IF u = home.worker THEN {"PURGE"} ELSE {})
            \cup (IF u = home.stream /\ Closes(s) THEN {"CLOSE"} ELSE {})
  BY <1>2, GoneFacts
<1>5. \A u \in Thread : \A m :
         /\ Once(s, u, m)
         /\ (m = "PURGE" \/ (m = "CLOSE" /\ Closes(s)) => m \notin Elements(s.queue[u]))
         => Once(r, u, m)
  BY <1>2, GoneFacts
<1>6. s.worker /\ s.session /\ ~On(s, h, home.worker, "PURGE")
  BY <1>1 DEF ObjectI
<1>7. /\ Closes(s) => s.stream = "open" /\ ~IsOver(s) /\ ~On(s, h, home.stream, "CLOSE")
      /\ s.stream = "open" /\ ~Closes(s) => IsOver(s)
  BY <1>1, <1>6 DEF ToldI, IsOver, Closes
<1>8. \A u \in Thread : \A x : x \notin {"DESTROYCHANNEL", "PURGE", "CLOSE"} =>
         (On(r, h, u, x) <=> On(s, h, u, x))
  BY <1>4 DEF On
<1>9. /\ ~On(r, h, home.signal, "DESTROYCHANNEL")
      /\ \A u \in Thread : u # home.signal => ~On(r, h, u, "DESTROYCHANNEL")
  BY <1>1, <1>2, <1>4 DEF On, None, PlaceI
<1>10. /\ On(r, h, home.worker, "PURGE")
       /\ \A u \in Thread : u # home.worker => ~On(r, h, u, "PURGE")
  BY <1>1, <1>2, <1>4 DEF On, PlaceI
<1>11. /\ On(r, h, home.stream, "CLOSE") <=> On(s, h, home.stream, "CLOSE") \/ Closes(s)
       /\ \A u \in Thread : u # home.stream => ~On(r, h, u, "CLOSE")
  <2>1. \A u \in Thread : On(r, h, u, "CLOSE") <=>
           On(s, h, u, "CLOSE") \/ (u = home.stream /\ Closes(s))
    BY <1>4 DEF On
  <2>2. \A u \in Thread : u # home.stream => ~On(s, h, u, "CLOSE")
    BY <1>1, Names DEF PlaceI
  <2> QED
    BY <1>2, <2>1, <2>2
<1>12. TypeI(home, r, h, k)
  BY <1>1, <1>3 DEF TypeI
<1>13. PlaceI(home, r, h)
  <2>1. \A u \in Thread :
          /\ u # home.signal =>
                \A x \in {"DESTROYCHANNEL", "DESTROY", "STATE", "SIGNALLED", "GETSTREAM"} :
                   ~On(r, h, u, x)
          /\ u # home.worker => \A x \in {"PURGE", "CLOCK"} : ~On(r, h, u, x)
    BY <1>1, <1>8, <1>9, <1>10 DEF PlaceI
  <2>2. \A u \in Thread : u # home.stream => \A x \in Event : ~On(r, h, u, x)
    BY <1>1, <1>8, <1>11, Names DEF PlaceI
  <2>3. Once(r, home.worker, "PURGE") /\ Once(r, home.stream, "CLOSE")
    <3>1. Once(s, home.worker, "PURGE") /\ Once(s, home.stream, "CLOSE")
      BY <1>1 DEF PlaceI
    <3>2. Once(r, home.worker, "PURGE")
      BY <1>2, <1>5, <1>6, <3>1 DEF On
    <3>3. Once(r, home.stream, "CLOSE")
      BY <1>2, <1>5, <1>7, <3>1 DEF On
    <3> QED
      BY <3>2, <3>3
  <2>4. h[home.worker] # "PURGE"
    BY <1>6 DEF On
  <2>5. h[home.stream] = "CLOSE" => "CLOSE" \notin Elements(r.queue[home.stream])
    BY <1>1, <1>2, <1>4, <1>7 DEF PlaceI, On
  <2> QED
    BY <2>1, <2>2, <2>3, <2>4, <2>5 DEF PlaceI
<1>14. ObjectI(home, r, h)
  <2>1. \A e \in Event : On(r, h, home.stream, e) => r.stream = "open"
    BY <1>1, <1>2, <1>3, <1>7, <1>8, <1>11, Names DEF ObjectI
  <2>2. ~On(r, h, home.signal, "DESTROY")
    BY <1>1, <1>2, <1>6, <1>8 DEF ObjectI
  <2> QED
    BY <1>3, <1>6, <1>9, <2>1, <2>2 DEF ObjectI
<1>15. ClockI(home, r, h)
  BY <1>3 DEF ClockI
<1>16. ToldI(home, r, h, k)
  BY <1>1, <1>3, <1>7, <1>11 DEF ToldI, IsOver
<1>17. DataI(home, r, h, k)
  <2>1. Announced(home, r, h) <=> Announced(home, s, h)
    BY <1>2, <1>8 DEF Announced
  <2> QED
    BY <1>1, <1>3, <2>1 DEF DataI
<1> QED
  BY <1>2, <1>3, <1>6, <1>8, <1>12, <1>13, <1>14, <1>15, <1>16, <1>17 DEF K

\* The object hears that the session has ended.
LEMMA NotifyEndKeeps ==
    ASSUME NEW s, NEW h, NEW k, K(home, s, h, k), s.tunnel,
           NEW st \in {"SENTREJECT", "SENTTERMINATE", "RECEIVEDTERMINATE"},
           NEW r, r = Notify(s, st)
    PROVE  /\ K(home, r, h, k) /\ Ended(r, s, st)
           /\ \A u \in Thread : On(r, h, u, "STATE") <=> On(s, h, u, "STATE")
<1> DEFINE tells == LetsGo(s, st) /\ s.stream = "open"
<1>1. /\ TypeI(home, s, h, k) /\ PlaceI(home, s, h) /\ ObjectI(home, s, h)
      /\ ClockI(home, s, h) /\ ToldI(home, s, h, k) /\ DataI(home, s, h, k)
  BY DEF K
<1>2. /\ Threads3 /\ s \in System /\ h \in [Thread -> Taken]
      /\ home.signal \in Thread /\ home.worker \in Thread /\ home.stream \in Thread
  BY <1>1, TypeThreads
<1>3. st \in Terminal
  BY DEF Terminal
<1>4. r \in System /\ Ended(r, s, st) /\ More(r, s, home.stream, IF tells THEN {"CLOSE"} ELSE {})
  BY <1>2, <1>3, NotifyEndFacts
<1>5. /\ r.worker = s.worker /\ r.channel = s.channel /\ r.stream = s.stream
      /\ r.tcp = s.tcp /\ r.pending = s.pending /\ r.tunnel = s.tunnel
      /\ r.clocks = s.clocks /\ (r.session <=> s.session /\ ~LetsGo(s, st))
  BY <1>4 DEF Ended
<1>6. LetsGo(s, st) => /\ s.tcp = NoTcp /\ s.tcp.state # "CLOSED" /\ ~s.worker
                       /\ s.session /\ ~s.channel
  BY <1>1, <1>2 DEF ObjectI, NoTcp, LetsGo
<1>7. tells => /\ s.stream = "open" /\ ~IsOver(s) /\ ~On(s, h, home.stream, "CLOSE")
               /\ LetsGo(s, st)
  BY <1>1, <1>6 DEF ToldI, IsOver
<1>t. s.stream = "open" /\ LetsGo(s, st) => tells
  OBVIOUS
<1> HIDE DEF tells
<1>8. \A u \in Thread : \A x :
         On(r, h, u, x) <=> On(s, h, u, x) \/ (u = home.stream /\ x = "CLOSE" /\ tells)
  <2> DEFINE M == IF tells THEN {"CLOSE"} ELSE {}
  <2>1. \A x : x \in M <=> x = "CLOSE" /\ tells
    OBVIOUS
  <2>2. More(r, s, home.stream, M)
    BY <1>4
  <2> HIDE DEF M
  <2>3. ASSUME NEW u \in Thread, NEW x
        PROVE  On(r, h, u, x) <=> On(s, h, u, x) \/ (u = home.stream /\ x \in M)
    <3>1. Elements(r.queue[u]) = IF u = home.stream THEN Elements(s.queue[u]) \cup M
                                 ELSE Elements(s.queue[u])
      BY <2>2 DEF More
    <3> QED
      BY <3>1 DEF On
  <2> QED
    BY <2>1, <2>3
<1>9. \A u \in Thread : \A x : x # "CLOSE" =>
         /\ On(r, h, u, x) <=> On(s, h, u, x)
         /\ x \in Elements(r.queue[u]) <=> x \in Elements(s.queue[u])
         /\ Once(s, u, x) => Once(r, u, x)
  <2> DEFINE M == IF tells THEN {"CLOSE"} ELSE {}
  <2>1. \A x : x # "CLOSE" => x \notin M
    OBVIOUS
  <2>2. More(r, s, home.stream, M)
    BY <1>4
  <2> HIDE DEF M
  <2> SUFFICES ASSUME NEW u \in Thread, NEW x, x # "CLOSE"
               PROVE  /\ On(r, h, u, x) <=> On(s, h, u, x)
                      /\ x \in Elements(r.queue[u]) <=> x \in Elements(s.queue[u])
                      /\ Once(s, u, x) => Once(r, u, x)
    OBVIOUS
  <2> QED
    BY <1>2, <2>1, <2>2, MoreOthers
<1>10. TypeI(home, r, h, k)
  BY <1>1, <1>4 DEF TypeI
<1>11. PlaceI(home, r, h)
  <2>1. \A u \in Thread :
          /\ u # home.signal =>
                \A x \in {"DESTROYCHANNEL", "DESTROY", "STATE", "SIGNALLED", "GETSTREAM"} :
                   ~On(r, h, u, x)
          /\ u # home.worker => \A x \in {"PURGE", "CLOCK"} : ~On(r, h, u, x)
          /\ u # home.stream => \A x \in Event : ~On(r, h, u, x)
    BY <1>1, <1>8, Names DEF PlaceI
  <2>2. Once(r, home.worker, "PURGE")
        /\ (h[home.worker] = "PURGE" => "PURGE" \notin Elements(r.queue[home.worker]))
    BY <1>1, <1>2, <1>9 DEF PlaceI
  <2>3. Once(r, home.stream, "CLOSE")
    BY <1>1, <1>2, <1>4, <1>7 DEF PlaceI, More, On
  <2>4. h[home.stream] = "CLOSE" => "CLOSE" \notin Elements(r.queue[home.stream])
    BY <1>1, <1>2, <1>4, <1>7 DEF PlaceI, More, On
  <2> QED
    BY <2>1, <2>2, <2>3, <2>4 DEF PlaceI
<1>12. ObjectI(home, r, h)
  <2>1. \A e \in Event : On(r, h, home.stream, e) => r.stream = "open"
    BY <1>1, <1>2, <1>5, <1>7, <1>8, Names DEF ObjectI
  <2>2. /\ On(r, h, home.worker, "PURGE") <=> On(s, h, home.worker, "PURGE")
        /\ On(r, h, home.worker, "CLOCK") <=> On(s, h, home.worker, "CLOCK")
        /\ On(r, h, home.signal, "DESTROYCHANNEL") <=> On(s, h, home.signal, "DESTROYCHANNEL")
        /\ On(r, h, home.signal, "DESTROY") <=> On(s, h, home.signal, "DESTROY")
    BY <1>2, <1>9
  <2> QED
    BY <1>1, <1>5, <1>6, <2>1, <2>2 DEF ObjectI
<1>14. ClockI(home, r, h)
  BY <1>1, <1>5 DEF ClockI
<1>15. ToldI(home, r, h, k)
  <2>1. On(r, h, home.stream, "CLOSE") <=> On(s, h, home.stream, "CLOSE") \/ tells
    BY <1>2, <1>8
  <2>2. s.stream = "open" => (IsOver(r) <=> IsOver(s) \/ tells)
    BY <1>5, <1>7, <1>t DEF IsOver
  <2> QED
    BY <1>1, <1>5, <1>7, <2>1, <2>2 DEF ToldI
<1>16. DataI(home, r, h, k)
  <2>1. Announced(home, r, h) <=> Announced(home, s, h)
    BY <1>2, <1>9 DEF Announced
  <2> QED
    BY <1>1, <1>5, <2>1 DEF DataI
<1>17. \A u \in Thread : On(r, h, u, "STATE") <=> On(s, h, u, "STATE")
  BY <1>9
<1> QED
  BY <1>4, <1>10, <1>11, <1>12, <1>14, <1>15, <1>16, <1>17 DEF K

\* The session is accepted: the object connects.
LEMMA NotifyAcceptKeeps ==
    ASSUME NEW s, NEW h, NEW k, I(home, s, h, k), initiator \in BOOLEAN,
           NEW st \in {"SENTACCEPT", "RECEIVEDACCEPT"},
           s.state \in {"SENTINITIATE", "RECEIVEDINITIATE"},
           NEW r, r = Notify(s, st)
    PROVE  /\ K(home, r, h, k) /\ r.worker /\ r.channel /\ r.session /\ r.stream = s.stream
           /\ r.tunnel /\ r.alive /\ r.state = st
<1>1. /\ TypeI(home, s, h, k) /\ PlaceI(home, s, h) /\ ObjectI(home, s, h)
      /\ SessionI(home, s, h) /\ ClockI(home, s, h) /\ ToldI(home, s, h, k)
      /\ DataI(home, s, h, k)
  BY DEF I
<1>2. /\ Threads3 /\ s \in System /\ h \in [Thread -> Taken]
      /\ home.signal \in Thread /\ home.worker \in Thread /\ home.stream \in Thread
  BY <1>1, TypeThreads
<1>3. s.tunnel /\ s.alive /\ ~s.worker /\ s.session /\ s.stream # "closed" /\ ~s.channel
  BY <1>1 DEF SessionI, ObjectI
<1>4. /\ r \in System /\ r.queue = s.queue
      /\ Same(r, [s EXCEPT !.state = st, !.worker = TRUE, !.channel = TRUE,
                           !.tcp = NewTcp, !.ready = initiator])
  BY <1>2, <1>3, NotifyAcceptFacts
<1>5. /\ r.worker /\ r.channel /\ r.session /\ r.stream = s.stream
      /\ r.tcp = NewTcp /\ r.pending = s.pending /\ r.tunnel /\ r.alive
      /\ r.clocks = s.clocks /\ r.state = st
  BY <1>2, <1>3, <1>4 DEF Same, System
<1>6. \A u, x : On(r, h, u, x) <=> On(s, h, u, x)
  BY <1>4 DEF On
<1>7. \A u, x : Once(r, u, x) <=> Once(s, u, x)
  BY <1>4 DEF Once
<1>8. /\ NewTcp.state = "LISTEN" /\ NewTcp.shut = "NONE" /\ ~NewTcp.rbuf
      /\ NewTcp.readEnable
  BY DEF NewTcp
<1>9. /\ ~On(s, h, home.worker, "CLOCK") /\ ~On(s, h, home.worker, "PURGE")
      /\ ~On(s, h, home.signal, "DESTROYCHANNEL") /\ ~On(s, h, home.signal, "DESTROY")
      /\ s.clocks = 0
  BY <1>1, <1>3 DEF ObjectI
<1>10. TypeI(home, r, h, k)
  BY <1>1, <1>4 DEF TypeI
<1>11. PlaceI(home, r, h)
  BY <1>1, <1>4, <1>6, <1>7 DEF PlaceI
<1>12. ObjectI(home, r, h)
  <2>1. /\ ~On(r, h, home.worker, "CLOCK") /\ ~On(r, h, home.worker, "PURGE")
        /\ ~On(r, h, home.signal, "DESTROYCHANNEL") /\ ~On(r, h, home.signal, "DESTROY")
        /\ \A e \in Event : On(r, h, home.stream, e) <=> On(s, h, home.stream, e)
    BY <1>6, <1>9
  <2> QED
    BY <1>1, <1>5, <2>1 DEF ObjectI
<1>14. ClockI(home, r, h)
  BY <1>5, <1>8, <1>9 DEF ClockI, On
<1>15. ToldI(home, r, h, k)
  <2>1. On(r, h, home.stream, "CLOSE") <=> On(s, h, home.stream, "CLOSE")
    BY <1>6
  <2>2. ~IsOver(r)
    BY <1>5, <1>8 DEF IsOver
  <2>3. ~IsOver(s)
    <3>1. s.tcp = NoTcp
      BY <1>1, <1>3 DEF ObjectI
    <3> QED
      BY <1>3, <3>1 DEF IsOver, NoTcp
  <2> QED
    BY <1>1, <1>3, <1>5, <1>8, <2>1, <2>2, <2>3 DEF ToldI
<1>16. DataI(home, r, h, k)
  <2>1. Announced(home, r, h) <=> Announced(home, s, h)
    BY <1>6 DEF Announced
  <2> QED
    BY <1>1, <1>5, <1>8, <2>1 DEF DataI
<1> QED
  BY <1>5, <1>10, <1>11, <1>12, <1>14, <1>15, <1>16 DEF K

\* MSG_STATE is posted.
LEMMA PostStateKeeps ==
    ASSUME NEW s, NEW h, NEW k, K(home, s, h, k), NEW r, r = Post(s, home.signal, "STATE")
    PROVE  K(home, r, h, k) /\ Same(r, s) /\ On(r, h, home.signal, "STATE")
<1>1. /\ TypeI(home, s, h, k) /\ PlaceI(home, s, h) /\ ObjectI(home, s, h)
      /\ ClockI(home, s, h) /\ ToldI(home, s, h, k) /\ DataI(home, s, h, k)
  BY DEF K
<1>2. /\ Threads3 /\ s \in System /\ h \in [Thread -> Taken]
      /\ home.signal \in Thread /\ home.worker \in Thread /\ home.stream \in Thread
  BY <1>1, TypeThreads
<1>3. "STATE" \in Message
  BY DEF Message
<1>4. r \in System /\ Same(r, s) /\ More(r, s, home.signal, {"STATE"})
  BY <1>2, <1>3, PostFacts
<1>5. /\ r.worker = s.worker /\ r.session = s.session /\ r.channel = s.channel
      /\ r.stream = s.stream /\ r.tcp = s.tcp /\ r.pending = s.pending
      /\ r.clocks = s.clocks
  BY <1>4 DEF Same
<1>6. \A u \in Thread : \A x :
         On(r, h, u, x) <=> On(s, h, u, x) \/ (u = home.signal /\ x = "STATE")
  <2> SUFFICES ASSUME NEW u \in Thread, NEW x
               PROVE  On(r, h, u, x) <=> On(s, h, u, x) \/ (u = home.signal /\ x = "STATE")
    OBVIOUS
  <2>1. Elements(r.queue[u]) = IF u = home.signal THEN Elements(s.queue[u]) \cup {"STATE"}
                               ELSE Elements(s.queue[u])
    BY <1>4 DEF More
  <2> QED
    BY <2>1 DEF On
<1>7. \A u \in Thread : \A x : x # "STATE" =>
         /\ On(r, h, u, x) <=> On(s, h, u, x)
         /\ x \in Elements(r.queue[u]) <=> x \in Elements(s.queue[u])
         /\ Once(s, u, x) => Once(r, u, x)
  <2> SUFFICES ASSUME NEW u \in Thread, NEW x, x # "STATE"
               PROVE  /\ On(r, h, u, x) <=> On(s, h, u, x)
                      /\ x \in Elements(r.queue[u]) <=> x \in Elements(s.queue[u])
                      /\ Once(s, u, x) => Once(r, u, x)
    OBVIOUS
  <2> DEFINE M == {"STATE"}
  <2>1. x \notin M /\ More(r, s, home.signal, M)
    BY <1>4
  <2> HIDE DEF M
  <2> QED
    BY <1>2, <2>1, MoreOthers
<1>8. TypeI(home, r, h, k)
  BY <1>1, <1>4 DEF TypeI
<1>9. PlaceI(home, r, h)
  <2>1. \A u \in Thread :
          /\ u # home.signal =>
                \A x \in {"DESTROYCHANNEL", "DESTROY", "STATE", "SIGNALLED", "GETSTREAM"} :
                   ~On(r, h, u, x)
          /\ u # home.worker => \A x \in {"PURGE", "CLOCK"} : ~On(r, h, u, x)
          /\ u # home.stream => \A x \in Event : ~On(r, h, u, x)
    BY <1>1, <1>6, Names DEF PlaceI
  <2> QED
    BY <1>1, <1>2, <1>7, <2>1 DEF PlaceI
<1>10. ObjectI(home, r, h)
  <2>1. /\ On(r, h, home.worker, "PURGE") <=> On(s, h, home.worker, "PURGE")
        /\ On(r, h, home.worker, "CLOCK") <=> On(s, h, home.worker, "CLOCK")
        /\ On(r, h, home.signal, "DESTROYCHANNEL") <=> On(s, h, home.signal, "DESTROYCHANNEL")
        /\ On(r, h, home.signal, "DESTROY") <=> On(s, h, home.signal, "DESTROY")
        /\ \A e \in Event : On(r, h, home.stream, e) <=> On(s, h, home.stream, e)
    BY <1>2, <1>7, Names
  <2> QED
    BY <1>1, <1>5, <2>1 DEF ObjectI
<1>11. ClockI(home, r, h)
  BY <1>1, <1>5 DEF ClockI
<1>12. ToldI(home, r, h, k)
  BY <1>1, <1>2, <1>5, <1>7 DEF ToldI, IsOver
<1>13. DataI(home, r, h, k)
  BY <1>1, <1>2, <1>5, <1>7 DEF DataI, Announced
<1> QED
  BY <1>2, <1>4, <1>6, <1>8, <1>9, <1>10, <1>11, <1>12, <1>13 DEF K

\* The signalling thread is in the middle of a call.
LEMMA BusyKeeps ==
    ASSUME NEW s, NEW h, NEW k, K(home, s, h, k), h[home.signal] = None,
           NEW m \in {"SIGNALLED", "GETSTREAM"}, NEW g, g = [h EXCEPT ![home.signal] = m]
    PROVE  /\ K(home, s, g, k) /\ g[home.signal] = m
           /\ On(s, g, home.signal, "STATE") <=> On(s, h, home.signal, "STATE")
<1>1. /\ TypeI(home, s, h, k) /\ PlaceI(home, s, h) /\ ObjectI(home, s, h)
      /\ ClockI(home, s, h) /\ ToldI(home, s, h, k) /\ DataI(home, s, h, k)
  BY DEF K
<1>2. /\ Threads3 /\ s \in System /\ h \in [Thread -> Taken]
      /\ home.signal \in Thread /\ home.worker \in Thread /\ home.stream \in Thread
  BY <1>1, TypeThreads
<1>3. /\ g \in [Thread -> Taken] /\ g[home.signal] = m
      /\ \A u \in Thread : u # home.signal => g[u] = h[u]
  BY <1>2, Names
<1>4. \A u \in Thread : \A x : x # None =>
         (On(s, g, u, x) <=> On(s, h, u, x) \/ (u = home.signal /\ x = m))
  BY <1>3 DEF On
<1>5. \A u \in Thread : \A x : x \notin {None, "SIGNALLED", "GETSTREAM"} =>
         /\ On(s, g, u, x) <=> On(s, h, u, x)
         /\ g[u] = x <=> h[u] = x
  BY <1>3, <1>4
<1>6. TypeI(home, s, g, k)
  BY <1>1, <1>3 DEF TypeI
<1>7. PlaceI(home, s, g)
  <2>1. \A u \in Thread :
          /\ u # home.signal =>
                \A x \in {"DESTROYCHANNEL", "DESTROY", "STATE", "SIGNALLED", "GETSTREAM"} :
                   ~On(s, g, u, x)
          /\ u # home.worker => \A x \in {"PURGE", "CLOCK"} : ~On(s, g, u, x)
          /\ u # home.stream => \A x \in Event : ~On(s, g, u, x)
    BY <1>1, <1>4, Names DEF PlaceI
  <2> QED
    BY <1>1, <1>2, <1>5, <2>1, Names DEF PlaceI
<1>8. ObjectI(home, s, g)
  <2>1. /\ On(s, g, home.worker, "PURGE") <=> On(s, h, home.worker, "PURGE")
        /\ On(s, g, home.worker, "CLOCK") <=> On(s, h, home.worker, "CLOCK")
        /\ On(s, g, home.signal, "DESTROYCHANNEL") <=> On(s, h, home.signal, "DESTROYCHANNEL")
        /\ On(s, g, home.signal, "DESTROY") <=> On(s, h, home.signal, "DESTROY")
        /\ \A e \in Event : On(s, g, home.stream, e) <=> On(s, h, home.stream, e)
    BY <1>2, <1>5, Names
  <2> QED
    BY <1>1, <2>1 DEF ObjectI
<1>9. ClockI(home, s, g)
  BY <1>1, <1>2, <1>5, Names DEF ClockI
<1>10. ToldI(home, s, g, k)
  BY <1>1, <1>2, <1>5, Names DEF ToldI
<1>11. DataI(home, s, g, k)
  BY <1>1, <1>2, <1>5, Names DEF DataI, Announced
<1>12. On(s, g, home.signal, "STATE") <=> On(s, h, home.signal, "STATE")
  BY <1>2, <1>5, Names
<1> QED
  BY <1>3, <1>6, <1>7, <1>8, <1>9, <1>10, <1>11, <1>12 DEF K

LEMMA DestroySessionKeeps ==
    ASSUME NEW s, NEW h, NEW k, K(home, s, h, k), h[home.signal] = None,
           s.session /\ s.stream = "open" => s.channel,
           NEW r, r = DestroySession(s)
    PROVE  I(home, r, h, k) /\ ~r.tunnel
<1> DEFINE c == Clear(s, home.signal, {"STATE"})
           l == [c EXCEPT !.tunnel = FALSE, !.state = "DEINIT"]
<1>1. /\ TypeI(home, s, h, k) /\ PlaceI(home, s, h) /\ ObjectI(home, s, h)
      /\ ClockI(home, s, h) /\ ToldI(home, s, h, k) /\ DataI(home, s, h, k)
  BY DEF K
<1>2. /\ Threads3 /\ s \in System /\ h \in [Thread -> Taken]
      /\ home.signal \in Thread /\ home.worker \in Thread /\ home.stream \in Thread
  BY <1>1, TypeThreads
<1>3. r = IF s.channel THEN OnChannelDestroyed(l) ELSE l
  BY DEF DestroySession
<1>4. c \in System /\ Same(c, s) /\ Less(c, s, home.signal, {"STATE"})
  BY <1>2, ClearFacts
<1> HIDE DEF c
<1>5. /\ l \in System /\ l.queue = c.queue
      /\ l.worker = s.worker /\ l.session = s.session /\ l.channel = s.channel
      /\ l.stream = s.stream /\ l.tcp = s.tcp /\ l.pending = s.pending
      /\ l.clocks = s.clocks /\ ~l.tunnel /\ l.state = "DEINIT"
  BY <1>4 DEF System, SessionState, Same
<1> HIDE DEF l
<1>6. ASSUME NEW u \in Thread, NEW x, x # "STATE"
      PROVE  /\ On(l, h, u, x) <=> On(s, h, u, x)
             /\ x \in Elements(l.queue[u]) <=> x \in Elements(s.queue[u])
             /\ Once(s, u, x) => Once(l, u, x)
  <2>1. Elements(c.queue[u]) = IF u = home.signal THEN Elements(s.queue[u]) \ {"STATE"}
                               ELSE Elements(s.queue[u])
    BY <1>4 DEF Less
  <2>2. Once(s, u, x) => Once(c, u, x)
    BY <1>4 DEF Less
  <2> QED
    BY <1>5, <1>6, <2>1, <2>2 DEF On, Once
<1>7. \A u \in Thread : ~On(s, h, u, "STATE") => ~On(l, h, u, "STATE")
  BY <1>4, <1>5 DEF On, Less
<1>8. K(home, l, h, k)
  <2>1. TypeI(home, l, h, k)
    BY <1>1, <1>5 DEF TypeI
  <2>2. PlaceI(home, l, h)
    <3>1. \A u \in Thread :
            /\ u # home.signal =>
                  \A x \in {"DESTROYCHANNEL", "DESTROY", "STATE", "SIGNALLED", "GETSTREAM"} :
                     ~On(l, h, u, x)
            /\ u # home.worker => \A x \in {"PURGE", "CLOCK"} : ~On(l, h, u, x)
            /\ u # home.stream => \A x \in Event : ~On(l, h, u, x)
      BY <1>1, <1>6, <1>7, Names DEF PlaceI
    <3> QED
      BY <1>1, <1>2, <1>6, <3>1 DEF PlaceI
  <2>3. ObjectI(home, l, h)
    <3>1. /\ On(l, h, home.worker, "PURGE") <=> On(s, h, home.worker, "PURGE")
          /\ On(l, h, home.worker, "CLOCK") <=> On(s, h, home.worker, "CLOCK")
          /\ On(l, h, home.signal, "DESTROYCHANNEL") <=> On(s, h, home.signal, "DESTROYCHANNEL")
          /\ On(l, h, home.signal, "DESTROY") <=> On(s, h, home.signal, "DESTROY")
          /\ \A e \in Event : On(l, h, home.stream, e) <=> On(s, h, home.stream, e)
      BY <1>2, <1>6, Names
    <3> QED
      BY <1>1, <1>5, <3>1 DEF ObjectI
  <2>4. ClockI(home, l, h)
    BY <1>1, <1>5 DEF ClockI
  <2>5. ToldI(home, l, h, k)
    BY <1>1, <1>2, <1>5, <1>6 DEF ToldI, IsOver
  <2>6. DataI(home, l, h, k)
    <3>1. Announced(home, l, h) <=> Announced(home, s, h)
      BY <1>2, <1>6 DEF Announced
    <3> QED
      BY <1>1, <1>5, <3>1 DEF DataI
  <2> QED
    BY <2>1, <2>2, <2>3, <2>4, <2>5, <2>6 DEF K
<1>9. ASSUME NEW x, K(home, x, h, k), x.state = "DEINIT", ~x.tunnel,
             ~(x.session /\ x.stream = "open")
      PROVE  I(home, x, h, k)
  <2>1. SessionI(home, x, h)
    BY <1>9 DEF SessionI, Terminal, None
  <2> QED
    BY <1>9, <2>1 DEF K, I
<1>10. CASE s.channel
  <2> DEFINE e == Gone(l)
  <2>1. r = OnChannelClosed(e)
    BY <1>3, <1>5, <1>10, DestroyedIsGone
  <2>2. K(home, e, h, k) /\ ~e.session /\ e.tunnel = l.tunnel /\ e.state = l.state
    BY <1>5, <1>8, <1>10, GoneKeeps
  <2> HIDE DEF e
  <2>3. r = e
    BY <1>5, <2>1, <2>2 DEF OnChannelClosed
  <2> QED
    BY <1>5, <1>9, <2>2, <2>3
<1>11. CASE ~s.channel
  BY <1>3, <1>5, <1>8, <1>9, <1>11
<1> QED
  BY <1>10, <1>11

\* The last of the threads destroys the object.
LEMMA CheckDestroyKeeps ==
    ASSUME NEW s, NEW h, NEW k, I(home, s, h, k),
           ~s.worker /\ s.stream # "open" => ~s.session,
           NEW r, r = CheckDestroy(s)
    PROVE  I(home, r, h, k)
<1> DEFINE M == IF s.worker \/ s.stream = "open" THEN {} ELSE {"DESTROY"}
<1>1. /\ TypeI(home, s, h, k) /\ PlaceI(home, s, h) /\ ObjectI(home, s, h)
      /\ SessionI(home, s, h) /\ ClockI(home, s, h) /\ ToldI(home, s, h, k)
      /\ DataI(home, s, h, k)
  BY DEF I
<1>2. /\ Threads3 /\ s \in System /\ h \in [Thread -> Taken]
      /\ home.signal \in Thread /\ home.worker \in Thread /\ home.stream \in Thread
  BY <1>1, TypeThreads
<1>3. r \in System /\ Same(r, s) /\ More(r, s, home.signal, M)
  BY <1>2, CheckDestroyFacts
<1>4. M \subseteq {"DESTROY"} /\ ("DESTROY" \in M => ~s.worker /\ s.stream # "open")
  OBVIOUS
<1> HIDE DEF M
<1>5. \A u \in Thread : \A x :
         On(r, h, u, x) <=> On(s, h, u, x) \/ (u = home.signal /\ x \in M)
  BY <1>3 DEF On, More
<1>6. ASSUME NEW u \in Thread, NEW x, x # "DESTROY"
      PROVE  /\ On(r, h, u, x) <=> On(s, h, u, x)
             /\ x \in Elements(r.queue[u]) <=> x \in Elements(s.queue[u])
             /\ Once(s, u, x) => Once(r, u, x)
  <2>1. x \notin M
    BY <1>4, <1>6
  <2>2. Elements(r.queue[u]) = IF u = home.signal THEN Elements(s.queue[u]) \cup M
                               ELSE Elements(s.queue[u])
    BY <1>3 DEF More
  <2>3. Once(s, u, x) => Once(r, u, x)
    BY <1>3, <2>1 DEF More
  <2> QED
    BY <1>5, <2>1, <2>2, <2>3
<1>7. /\ r.worker = s.worker /\ r.session = s.session /\ r.channel = s.channel
      /\ r.stream = s.stream /\ r.tcp = s.tcp /\ r.pending = s.pending
      /\ r.clocks = s.clocks /\ r.tunnel = s.tunnel /\ r.state = s.state /\ r.alive = s.alive
  BY <1>3 DEF Same
<1>8. TypeI(home, r, h, k)
  BY <1>1, <1>3 DEF TypeI
<1>9. PlaceI(home, r, h)
  <2>1. \A u \in Thread :
          /\ u # home.signal =>
                \A x \in {"DESTROYCHANNEL", "DESTROY", "STATE", "SIGNALLED", "GETSTREAM"} :
                   ~On(r, h, u, x)
          /\ u # home.worker => \A x \in {"PURGE", "CLOCK"} : ~On(r, h, u, x)
          /\ u # home.stream => \A x \in Event : ~On(r, h, u, x)
    BY <1>1, <1>4, <1>5, Names DEF PlaceI
  <2> QED
    BY <1>1, <1>2, <1>6, <2>1 DEF PlaceI
<1>10. ObjectI(home, r, h)
  <2>1. /\ On(r, h, home.worker, "PURGE") <=> On(s, h, home.worker, "PURGE")
        /\ On(r, h, home.worker, "CLOCK") <=> On(s, h, home.worker, "CLOCK")
        /\ On(r, h, home.signal, "DESTROYCHANNEL") <=> On(s, h, home.signal, "DESTROYCHANNEL")
        /\ \A e \in Event : On(r, h, home.stream, e) <=> On(s, h, home.stream, e)
    BY <1>2, <1>6, Names
  <2>2. On(r, h, home.signal, "DESTROY") => ~r.worker /\ ~r.session /\ r.stream # "open"
    BY <1>1, <1>2, <1>4, <1>5, <1>7 DEF ObjectI
  <2> QED
    BY <1>1, <1>7, <2>1, <2>2 DEF ObjectI
<1>11. SessionI(home, r, h)
  BY <1>1, <1>2, <1>6, <1>7 DEF SessionI
<1>12. ClockI(home, r, h)
  BY <1>1, <1>7 DEF ClockI
<1>13. ToldI(home, r, h, k)
  BY <1>1, <1>2, <1>6, <1>7 DEF ToldI, IsOver
<1>14. DataI(home, r, h, k)
  BY <1>1, <1>2, <1>6, <1>7 DEF DataI, Announced
<1> QED
  BY <1>8, <1>9, <1>10, <1>11, <1>12, <1>13, <1>14 DEF I

-----------------------------------------------------------------------------
(* The order of the messages that destroy.                                 *)

\* As long as the TunnelSession is there, the message that destroys the object
\* comes after the one that destroys the TunnelSession.
LEMMA AppendBefore ==
    ASSUME NEW q \in Seq(Message), NEW m \in Message, Before(q),
           m = "DESTROY" => "STATE" \in Elements(q)
    PROVE  Before(Append(q, m))
<1> DEFINE a == Append(q, m)
<1>1. /\ Len(q) \in Nat /\ DOMAIN a = 1 .. Len(q) + 1 /\ DOMAIN q = 1 .. Len(q)
      /\ a[Len(q) + 1] = m /\ \A i \in DOMAIN q : a[i] = q[i]
  OBVIOUS
<1> HIDE DEF a
<1>2. ASSUME NEW i \in DOMAIN a, a[i] = "DESTROY"
      PROVE  \E j \in DOMAIN a : j < i /\ a[j] = "STATE"
  <2>1. CASE i = Len(q) + 1
    <3>1. PICK j \in DOMAIN q : q[j] = "STATE"
      BY <1>1, <1>2, <2>1 DEF Elements
    <3> QED
      BY <1>1, <2>1, <3>1
  <2>2. CASE i # Len(q) + 1
    <3>1. i \in DOMAIN q /\ q[i] = "DESTROY"
      BY <1>1, <1>2, <2>2
    <3>2. PICK j \in DOMAIN q : j < i /\ q[j] = "STATE"
      BY <3>1 DEF Before
    <3> QED
      BY <1>1, <3>2
  <2> QED
    BY <2>1, <2>2
<1> QED
  BY <1>2 DEF Before, a

LEMMA TailBefore ==
    ASSUME NEW q \in Seq(Message), q # <<>>, Before(q)
    PROVE  /\ Head(q) # "DESTROY"
           /\ Head(q) # "STATE" => Before(Tail(q))
<1> DEFINE b == Tail(q)
<1>1. /\ Len(q) \in Nat /\ Len(q) > 0 /\ Head(q) = q[1]
      /\ DOMAIN q = 1 .. Len(q) /\ DOMAIN b = 1 .. Len(q) - 1
      /\ \A i \in DOMAIN b : b[i] = q[i + 1]
  OBVIOUS
<1> HIDE DEF b
<1>2. Head(q) # "DESTROY"
  <2> SUFFICES ASSUME q[1] = "DESTROY" PROVE FALSE
    BY <1>1
  <2>1. 1 \in DOMAIN q
    BY <1>1
  <2>2. PICK j \in DOMAIN q : j < 1
    BY <2>1 DEF Before
  <2> QED
    BY <1>1, <2>2
<1>3. ASSUME Head(q) # "STATE", NEW i \in DOMAIN b, b[i] = "DESTROY"
      PROVE  \E j \in DOMAIN b : j < i /\ b[j] = "STATE"
  <2>1. i + 1 \in DOMAIN q /\ q[i + 1] = "DESTROY"
    BY <1>1, <1>3
  <2>2. PICK j \in DOMAIN q : j < i + 1 /\ q[j] = "STATE"
    BY <2>1 DEF Before
  <2>3. j # 1
    BY <1>1, <1>3, <2>2
  <2>4. j - 1 \in DOMAIN b /\ (j - 1) + 1 = j /\ j - 1 < i
    BY <1>1, <2>2, <2>3
  <2>5. b[j - 1] = "STATE"
    BY <1>1, <2>2, <2>4
  <2> QED
    BY <2>4, <2>5
<1> QED
  BY <1>2, <1>3 DEF Before, b

\* What still uses the object keeps the message away.
LEMMA OrderFromI ==
    ASSUME NEW s, NEW h, NEW k, I(home, s, h, k),
           s.worker \/ s.session \/ s.stream = "open"
    PROVE  OrderI(home, s, h)
<1>1. ~On(s, h, home.signal, "DESTROY")
  BY DEF I, ObjectI
<1> QED
  BY <1>1 DEF OrderI, Before, On, Elements

\* The last thread leaves when the session is about to be destroyed.
LEMMA LastOrder ==
    ASSUME Threads3, NEW s \in System, NEW h, NEW r, r = CheckDestroy(s),
           ~On(s, h, home.signal, "DESTROY"), On(s, h, home.signal, "STATE")
    PROVE  OrderI(home, r, h)
<1> DEFINE q == s.queue[home.signal]
<1>1. home.signal \in Thread /\ q \in Seq(Message) /\ "DESTROY" \in Message
  BY DEF Threads3, System, Message
<1>2. h[home.signal] # "DESTROY" /\ Before(q)
  BY DEF On, Before, Elements
<1>3. r.queue[home.signal] \in {q, Append(q, "DESTROY")}
  BY <1>1 DEF CheckDestroy, Post, System
<1>4. h[home.signal] # "STATE" => "STATE" \in Elements(q)
  BY DEF On
<1> HIDE DEF q
<1>5. h[home.signal] # "STATE" => Before(r.queue[home.signal])
  BY <1>1, <1>2, <1>3, <1>4, AppendBefore
<1> QED
  BY <1>2, <1>5 DEF OrderI

-----------------------------------------------------------------------------
(* The handlers of the messages.                                           *)

LEMMA HandleDestroyChannelKeeps ==
    ASSUME IInv, HandleDestroyChannel 
    PROVE  I(home, sys', hand', told') /\ sys'.worker
<1> DEFINE g == [hand EXCEPT ![home.signal] = None]
           e == Gone(sys)
<1>1. /\ I(home, sys, hand, told) /\ hand[home.signal] = "DESTROYCHANNEL"
      /\ hand' = g /\ told' = told /\ sys' = OnChannelDestroyed(sys)
  BY DEF IInv, HandleDestroyChannel, Handled
<1>2. /\ TypeI(home, sys, hand, told) /\ ObjectI(home, sys, hand)
      /\ SessionI(home, sys, hand)
  BY <1>1 DEF I
<1>3. /\ sys \in System /\ home.signal \in Thread /\ hand \in [Thread -> Taken]
  BY <1>2, TypeThreads
<1>4. K(home, sys, g, told) /\ g[home.signal] = None /\ SessionI(home, sys, g)
  BY <1>1, <1>3, DropKeeps
<1> HIDE DEF g
<1>5. sys.channel /\ sys.worker
  BY <1>1, <1>2 DEF ObjectI, On
<1>6. /\ K(home, e, g, told) /\ ~e.session /\ ~e.channel /\ e.tunnel = sys.tunnel
      /\ e.state = sys.state /\ e.alive = sys.alive /\ e.worker
      /\ On(e, g, home.signal, "STATE") <=> On(sys, g, home.signal, "STATE")
  BY <1>4, <1>5, GoneKeeps
<1>7. sys' = OnChannelClosed(e)
  BY <1>1, <1>3, DestroyedIsGone
<1> HIDE DEF e
<1>8. e.state \notin {"SENTINITIATE", "RECEIVEDINITIATE"} /\ (e.tunnel <=> e.state # "DEINIT")
  BY <1>2, <1>5, <1>6 DEF SessionI
<1>9. CASE ~e.tunnel \/ e.state \in Terminal
  <2>1. sys' = e
    BY <1>7, <1>9 DEF OnChannelClosed
  <2>2. SessionI(home, e, g)
    BY <1>4, <1>6, <1>8, <1>9 DEF SessionI, None
  <2> QED
    BY <1>1, <1>6, <2>1, <2>2 DEF K, I
<1>10. CASE ~(~e.tunnel \/ e.state \in Terminal)
  <2> DEFINE b == Notify(e, "SENTTERMINATE")
  <2>1. e.tunnel /\ e.state # "SENTTERMINATE"
    BY <1>10 DEF Terminal
  <2>2. sys' = Post(b, home.signal, "STATE")
    BY <1>7, <1>10, <2>1 DEF OnChannelClosed, SetState
  <2>3. K(home, b, g, told) /\ Ended(b, e, "SENTTERMINATE")
    BY <1>6, <2>1, NotifyEndKeeps
  <2> HIDE DEF b
  <2>4. K(home, sys', g, told) /\ Same(sys', b) /\ On(sys', g, home.signal, "STATE")
    BY <2>2, <2>3, PostStateKeeps
  <2>5. /\ sys'.tunnel /\ sys'.alive /\ sys'.state = "SENTTERMINATE" /\ ~sys'.session
        /\ sys'.worker
    BY <1>2, <1>6, <2>1, <2>3, <2>4 DEF Same, Ended, SessionI
  <2>6. SessionI(home, sys', g)
    BY <1>4, <2>4, <2>5 DEF SessionI, Terminal, None
  <2> QED
    BY <1>1, <2>4, <2>5, <2>6 DEF K, I
<1> QED
  BY <1>9, <1>10

LEMMA HandleStateKeeps ==
    ASSUME IInv, HandleState 
    PROVE  /\ I(home, sys', hand', told')
           /\ sys'.tunnel => sys' = sys /\ sys.state \notin Terminal
<1> DEFINE g == [hand EXCEPT ![home.signal] = None]
<1>1. /\ I(home, sys, hand, told) /\ hand[home.signal] = "STATE"
      /\ hand' = g /\ told' = told
      /\ sys' = IF sys.state \in Terminal THEN DestroySession(sys) ELSE sys
  BY DEF IInv, HandleState, Handled
<1>2. TypeI(home, sys, hand, told) /\ SessionI(home, sys, hand)
  BY <1>1 DEF I
<1>3. /\ sys \in System /\ home.signal \in Thread /\ hand \in [Thread -> Taken]
  BY <1>2, TypeThreads
<1>4. K(home, sys, g, told) /\ g[home.signal] = None
      /\ (sys.state \notin Terminal => SessionI(home, sys, g))
  BY <1>1, <1>3, DropKeeps
<1> HIDE DEF g
<1>5. CASE sys.state \in Terminal
  <2>1. sys.session /\ sys.stream = "open" => sys.channel
    BY <1>2, <1>5 DEF SessionI
  <2>2. sys' = DestroySession(sys)
    BY <1>1, <1>5
  <2> QED
    BY <1>1, <1>4, <1>5, <2>1, <2>2, DestroySessionKeeps
<1>6. CASE sys.state \notin Terminal
  BY <1>1, <1>4, <1>6 DEF K, I
<1> QED
  BY <1>5, <1>6

LEMMA HandlePurgeKeeps ==
    ASSUME IInv, HandlePurge 
    PROVE  I(home, sys', hand', told') /\ OrderI(home, sys', hand')
<1> DEFINE g == [hand EXCEPT ![home.worker] = None]
           x == [sys EXCEPT !.worker = FALSE]
<1>1. /\ I(home, sys, hand, told) /\ hand[home.worker] = "PURGE"
      /\ hand' = g /\ told' = told /\ sys' = CheckDestroy(x)
  BY DEF IInv, HandlePurge, Handled
<1>2. /\ TypeI(home, sys, hand, told) /\ PlaceI(home, sys, hand)
      /\ ObjectI(home, sys, hand)
  BY <1>1 DEF I
<1>3. /\ sys \in System /\ home.worker \in Thread /\ hand \in [Thread -> Taken]
  BY <1>2, TypeThreads
<1>4. K(home, sys, g, told) /\ g[home.worker] = None /\ SessionI(home, sys, g)
  BY <1>1, <1>3, DropKeeps
<1>5. g[home.worker] = None
  BY <1>4
<1> HIDE DEF g
<1>6. ~sys.channel /\ ~sys.session /\ sys.tcp = NoTcp /\ sys.worker
  <2>1. On(sys, hand, home.worker, "PURGE")
    BY <1>1 DEF On
  <2> QED
    BY <1>2, <2>1 DEF ObjectI
<1>7. /\ x \in System /\ x.queue = sys.queue /\ ~x.worker /\ x.session = sys.session
      /\ x.channel = sys.channel /\ x.stream = sys.stream /\ x.tcp = sys.tcp
      /\ x.pending = sys.pending /\ x.clocks = sys.clocks /\ x.tunnel = sys.tunnel
      /\ x.state = sys.state /\ x.alive = sys.alive
  BY <1>3 DEF System
<1> HIDE DEF x
<1>8. \A u, m : On(x, g, u, m) <=> On(sys, g, u, m)
  BY <1>7 DEF On
<1>9. ~On(x, g, home.worker, "PURGE") /\ ~On(x, g, home.worker, "CLOCK")
  <2>1. "PURGE" \notin Elements(sys.queue[home.worker])
    BY <1>1, <1>2 DEF PlaceI
  <2>2. sys.queue[home.worker] \in Seq(Message)
    BY <1>3 DEF System
  <2>3. "CLOCK" \notin Elements(sys.queue[home.worker])
    BY <2>2, Names DEF Elements
  <2> QED
    BY <1>5, <1>7, <2>1, <2>3 DEF On, None
<1>10. TypeI(home, x, g, told)
  BY <1>4, <1>7 DEF K, TypeI
<1>11. PlaceI(home, x, g)
  BY <1>4, <1>7, <1>8 DEF K, PlaceI, Once
<1>12. ObjectI(home, x, g)
  BY <1>4, <1>6, <1>7, <1>8, <1>9 DEF K, ObjectI
<1>13. SessionI(home, x, g)
  BY <1>4, <1>7, <1>8 DEF SessionI
<1>14. ClockI(home, x, g)
  BY <1>4, <1>7 DEF K, ClockI
<1>15. ToldI(home, x, g, told)
  BY <1>4, <1>7, <1>8 DEF K, ToldI, IsOver
<1>16. DataI(home, x, g, told)
  BY <1>4, <1>7, <1>8 DEF K, DataI, Announced
<1>17. I(home, x, g, told)
  BY <1>10, <1>11, <1>12, <1>13, <1>14, <1>15, <1>16 DEF I
<1>18. I(home, sys', g, told)
  BY <1>1, <1>6, <1>7, <1>17, CheckDestroyKeeps
<1>19. OrderI(home, sys', g)
  <2>1. Threads3 /\ sys'.tunnel = sys.tunnel
    BY <1>1, <1>2, <1>7, TypeThreads, CheckDestroyFacts DEF Same
  <2>2. CASE sys.tunnel
    <3>1. On(x, g, home.signal, "STATE") /\ ~On(x, g, home.signal, "DESTROY")
      BY <1>4, <1>6, <1>8, <2>2 DEF SessionI, K, ObjectI
    <3> QED
      BY <1>1, <1>7, <2>1, <3>1, LastOrder
  <2>3. CASE ~sys.tunnel
    BY <2>1, <2>3 DEF OrderI
  <2> QED
    BY <2>2, <2>3
<1> QED
  BY <1>1, <1>18, <1>19

LEMMA HandleDestroyKeeps ==
    ASSUME IInv, HandleDestroy PROVE I(home, sys', hand', told') /\ ~sys'.tunnel
<1> DEFINE g == [hand EXCEPT ![home.signal] = None]
           r == Delete(sys)
<1>1. /\ I(home, sys, hand, told) /\ hand[home.signal] = "DESTROY"
      /\ hand' = g /\ told' = told /\ sys' = r
  BY DEF IInv, HandleDestroy, Handled
<1>2. TypeI(home, sys, hand, told) /\ ObjectI(home, sys, hand)
  BY <1>1 DEF I
<1>3. /\ sys \in System /\ hand \in [Thread -> Taken]
      /\ home.signal \in Thread /\ home.worker \in Thread /\ home.stream \in Thread
  BY <1>2, TypeThreads
<1>4. K(home, sys, g, told) /\ SessionI(home, sys, g)
  BY <1>1, <1>3, DropKeeps
<1> HIDE DEF g
<1>5. ~sys.worker /\ ~sys.session /\ sys.stream # "open" /\ ~sys.channel /\ sys.tcp = NoTcp
  <2>1. On(sys, hand, home.signal, "DESTROY")
    BY <1>1 DEF On
  <2> QED
    BY <1>2, <2>1 DEF ObjectI
<1>6. /\ r \in System /\ Same(r, [sys EXCEPT !.alive = FALSE, !.clocks = 0])
      /\ \A u \in Thread : Elements(r.queue[u]) = Elements(sys.queue[u]) \ Own
      /\ \A u \in Thread : \A m : Once(sys, u, m) => Once(r, u, m)
  BY <1>3, DeleteFacts
<1>7. /\ r.worker = sys.worker /\ r.session = sys.session
      /\ r.channel = sys.channel /\ r.stream = sys.stream /\ r.tcp = sys.tcp
      /\ r.pending = sys.pending /\ r.clocks = 0 /\ r.tunnel = sys.tunnel
      /\ r.state = sys.state
  BY <1>3, <1>6 DEF System, Same
<1> HIDE DEF r
<1>8. \A u \in Thread : \A m : On(r, g, u, m) => On(sys, g, u, m)
  BY <1>6 DEF On
<1>9. \A u \in Thread : On(r, g, u, "STATE") <=> On(sys, g, u, "STATE")
  <2>1. "STATE" \notin Own
    BY DEF Own
  <2> QED
    BY <1>6, <2>1 DEF On
<1>10. TypeI(home, r, g, told)
  BY <1>4, <1>6 DEF K, TypeI
<1>11. PlaceI(home, r, g)
  <2>1. PlaceI(home, sys, g)
    BY <1>4 DEF K
  <2>2. \A u \in Thread :
          /\ u # home.signal =>
                \A x \in {"DESTROYCHANNEL", "DESTROY", "STATE", "SIGNALLED", "GETSTREAM"} :
                   ~On(r, g, u, x)
          /\ u # home.worker => \A x \in {"PURGE", "CLOCK"} : ~On(r, g, u, x)
          /\ u # home.stream => \A x \in Event : ~On(r, g, u, x)
    BY <1>8, <2>1 DEF PlaceI
  <2>3. \A u \in Thread : \A x : x \in Elements(r.queue[u]) => x \in Elements(sys.queue[u])
    BY <1>6
  <2> QED
    BY <1>3, <1>6, <2>1, <2>2, <2>3 DEF PlaceI
<1>12. ObjectI(home, r, g)
  <2>1. ObjectI(home, sys, g)
    BY <1>4 DEF K
  <2>2. /\ On(r, g, home.worker, "PURGE") => On(sys, g, home.worker, "PURGE")
        /\ On(r, g, home.worker, "CLOCK") => On(sys, g, home.worker, "CLOCK")
        /\ On(r, g, home.signal, "DESTROYCHANNEL") => On(sys, g, home.signal, "DESTROYCHANNEL")
        /\ On(r, g, home.signal, "DESTROY") => On(sys, g, home.signal, "DESTROY")
        /\ \A e \in Event : On(r, g, home.stream, e) => On(sys, g, home.stream, e)
    BY <1>3, <1>8
  <2> QED
    BY <1>7, <2>1, <2>2 DEF ObjectI
<1>t. ~sys.tunnel
  BY <1>1 DEF IInv, OrderI
<1>13. SessionI(home, r, g)
  BY <1>3, <1>4, <1>7, <1>9, <1>t DEF SessionI
<1>14. ClockI(home, r, g)
  BY <1>4, <1>5, <1>7 DEF K, ClockI
<1>15. ToldI(home, r, g, told)
  BY <1>5, <1>7 DEF ToldI
<1>16. DataI(home, r, g, told)
  BY <1>4, <1>5, <1>7 DEF K, DataI
<1>17. I(home, r, g, told)
  BY <1>10, <1>11, <1>12, <1>13, <1>14, <1>15, <1>16 DEF I
<1> QED
  BY <1>1, <1>7, <1>17, <1>t

LEMMA HandleEventKeeps ==
    ASSUME IInv, NEW e \in Event, HandleEvent(e) PROVE I(home, sys', hand', told')
<1> DEFINE g == [hand EXCEPT ![home.stream] = None]
           r == IF e \in {"OPEN", "READ"} THEN [sys EXCEPT !.pending = FALSE] ELSE sys
           k == [read |-> told.read \/ e \in {"OPEN", "READ"},
                 close |-> told.close + (IF e = "CLOSE" THEN 1 ELSE 0)]
<1>1. /\ I(home, sys, hand, told) /\ hand[home.stream] = e
      /\ hand' = g /\ told' = k /\ sys' = r
  BY DEF IInv, HandleEvent, Handled
<1>2. /\ TypeI(home, sys, hand, told) /\ PlaceI(home, sys, hand) /\ ObjectI(home, sys, hand)
      /\ SessionI(home, sys, hand) /\ ClockI(home, sys, hand)
      /\ ToldI(home, sys, hand, told) /\ DataI(home, sys, hand, told)
  BY <1>1 DEF I
<1>3. /\ sys \in System /\ hand \in [Thread -> Taken]
      /\ home.signal \in Thread /\ home.worker \in Thread /\ home.stream \in Thread
  BY <1>2, TypeThreads
<1>4. told.close \in Nat /\ told.read \in BOOLEAN
  BY <1>2 DEF TypeI
<1>5. /\ k.read = (told.read \/ e \in {"OPEN", "READ"})
      /\ k.close = told.close + (IF e = "CLOSE" THEN 1 ELSE 0)
      /\ k \in [read : BOOLEAN, close : Nat]
  BY <1>4
<1>6. /\ r \in System /\ r.queue = sys.queue /\ r.worker = sys.worker
      /\ r.session = sys.session /\ r.channel = sys.channel /\ r.stream = sys.stream
      /\ r.tcp = sys.tcp /\ r.clocks = sys.clocks /\ r.tunnel = sys.tunnel
      /\ r.state = sys.state /\ r.alive = sys.alive
      /\ r.pending = IF e \in {"OPEN", "READ"} THEN FALSE ELSE sys.pending
  BY <1>3 DEF System
<1>g. g = [hand EXCEPT ![home.stream] = None]
  OBVIOUS
<1> HIDE DEF g, r, k
<1>7. /\ g \in [Thread -> Taken] /\ g[home.stream] = None
      /\ \A u \in Thread : u # home.stream => g[u] = hand[u]
      /\ \A u \in Thread : \A x : x # None /\ On(sys, g, u, x) => On(sys, hand, u, x)
      /\ \A u \in Thread : \A x :
            On(sys, hand, u, x) /\ ~(u = home.stream /\ x = hand[home.stream]) => On(sys, g, u, x)
  <2>1. Dropped(sys, hand, home.stream, g)
    BY <1>3, <1>g, DropFacts
  <2> QED
    BY <2>1 DEF Dropped
<1>8. \A u \in Thread : \A x : x \notin Event =>
         /\ On(r, g, u, x) /\ x # None => On(sys, hand, u, x)
         /\ On(sys, hand, u, x) => On(r, g, u, x)
         /\ g[u] = x /\ x # None => hand[u] = x
         /\ hand[u] = x => g[u] = x
  <2> SUFFICES ASSUME NEW u \in Thread, NEW x, x \notin Event
               PROVE  /\ On(r, g, u, x) /\ x # None => On(sys, hand, u, x)
                      /\ On(sys, hand, u, x) => On(r, g, u, x)
                      /\ g[u] = x /\ x # None => hand[u] = x
                      /\ hand[u] = x => g[u] = x
    OBVIOUS
  <2>1. On(r, g, u, x) <=> On(sys, g, u, x)
    BY <1>6 DEF On
  <2> QED
    BY <1>1, <1>7, <2>1
<1>9. \A u \in Thread : \A x \in Event :
         /\ On(r, g, u, x) => On(sys, hand, u, x)
         /\ On(sys, hand, u, x) /\ x # e => On(r, g, u, x)
  <2> SUFFICES ASSUME NEW u \in Thread, NEW x \in Event
               PROVE  /\ On(r, g, u, x) => On(sys, hand, u, x)
                      /\ On(sys, hand, u, x) /\ x # e => On(r, g, u, x)
    OBVIOUS
  <2>1. On(r, g, u, x) <=> On(sys, g, u, x)
    BY <1>6 DEF On
  <2> QED
    BY <1>1, <1>7, <2>1, Names
<1>10. On(sys, hand, home.stream, e) /\ sys.stream = "open"
  <2>1. On(sys, hand, home.stream, e)
    BY <1>1 DEF On
  <2> QED
    BY <1>2, <2>1 DEF ObjectI
<1>11. TypeI(home, r, g, k)
  BY <1>2, <1>5, <1>6, <1>7 DEF TypeI
<1>12. PlaceI(home, r, g)
  <2>1. \A u \in Thread :
          /\ u # home.signal =>
                \A x \in {"DESTROYCHANNEL", "DESTROY", "STATE", "SIGNALLED", "GETSTREAM"} :
                   ~On(r, g, u, x)
          /\ u # home.worker => \A x \in {"PURGE", "CLOCK"} : ~On(r, g, u, x)
          /\ u # home.stream => \A x \in Event : ~On(r, g, u, x)
    BY <1>2, <1>8, <1>9, Names DEF PlaceI
  <2>2. Once(r, home.worker, "PURGE") /\ Once(r, home.stream, "CLOSE")
    BY <1>2, <1>6 DEF PlaceI, Once
  <2>3. g[home.worker] = "PURGE" => "PURGE" \notin Elements(r.queue[home.worker])
    BY <1>2, <1>3, <1>6, <1>8, Names DEF PlaceI
  <2>4. g[home.stream] # "CLOSE"
    BY <1>7, Names
  <2> QED
    BY <2>1, <2>2, <2>3, <2>4 DEF PlaceI
<1>13. ObjectI(home, r, g)
  <2>1. /\ On(r, g, home.worker, "PURGE") => On(sys, hand, home.worker, "PURGE")
        /\ On(r, g, home.worker, "CLOCK") => On(sys, hand, home.worker, "CLOCK")
        /\ On(r, g, home.signal, "DESTROYCHANNEL") => On(sys, hand, home.signal, "DESTROYCHANNEL")
        /\ On(r, g, home.signal, "DESTROY") => On(sys, hand, home.signal, "DESTROY")
        /\ \A x \in Event : On(r, g, home.stream, x) => On(sys, hand, home.stream, x)
    BY <1>3, <1>8, <1>9, Names
  <2> QED
    BY <1>2, <1>6, <2>1 DEF ObjectI
<1>14. SessionI(home, r, g)
  BY <1>2, <1>3, <1>6, <1>8, Names DEF SessionI
<1>15. ClockI(home, r, g)
  BY <1>2, <1>3, <1>6, <1>8, Names DEF ClockI
<1>16. ToldI(home, r, g, k)
  <2>1. IsOver(r) <=> IsOver(sys)
    BY <1>6 DEF IsOver
  <2>2. CASE e = "CLOSE"
    <3>1. told.close = 0 /\ IsOver(sys)
      BY <1>2, <1>10, <2>2 DEF ToldI
    <3>2. ~On(r, g, home.stream, "CLOSE")
      <4>1. "CLOSE" \notin Elements(sys.queue[home.stream])
        BY <1>1, <1>2, <2>2 DEF PlaceI
      <4> QED
        BY <1>6, <1>7, <4>1, Names DEF On
    <3>3. k.close = 1
      BY <1>5, <2>2, <3>1
    <3> QED
      BY <1>2, <1>6, <2>1, <3>1, <3>2, <3>3 DEF ToldI
  <2>3. CASE e # "CLOSE"
    <3>1. On(r, g, home.stream, "CLOSE") <=> On(sys, hand, home.stream, "CLOSE")
      BY <1>3, <1>9, <2>3, Names
    <3>2. k.close = told.close
      BY <1>4, <1>5, <2>3
    <3> QED
      BY <1>2, <1>6, <2>1, <3>1, <3>2 DEF ToldI
  <2> QED
    BY <2>2, <2>3
<1>17. DataI(home, r, g, k)
  <2>1. CASE e \in {"OPEN", "READ"}
    BY <1>5, <1>6, <2>1 DEF DataI
  <2>2. CASE e \notin {"OPEN", "READ"}
    <3>1. Announced(home, r, g) <=> Announced(home, sys, hand)
      BY <1>3, <1>9, <2>2, Names DEF Announced
    <3> QED
      BY <1>2, <1>5, <1>6, <2>2, <3>1 DEF DataI
  <2> QED
    BY <2>1, <2>2
<1>18. I(home, r, g, k)
  BY <1>11, <1>12, <1>13, <1>14, <1>15, <1>16, <1>17 DEF I
<1> QED
  BY <1>1, <1>18

LEMMA GetStreamKeeps ==
    ASSUME IInv, GetStream PROVE I(home, sys', hand', told')
<1> DEFINE g == [hand EXCEPT ![home.signal] = None]
           r == [sys EXCEPT !.stream = "open"]
           k == [read |-> TRUE, close |-> IF sys.tcp.state = "CLOSED" THEN 1 ELSE 0]
<1>1. /\ I(home, sys, hand, told) /\ hand[home.signal] = "GETSTREAM"
      /\ hand' = g /\ told' = k /\ sys' = r
  BY DEF IInv, GetStream, Handled
<1>2. TypeI(home, sys, hand, told) /\ ObjectI(home, sys, hand) /\ SessionI(home, sys, hand)
  BY <1>1 DEF I
<1>3. /\ sys \in System /\ hand \in [Thread -> Taken]
      /\ home.signal \in Thread /\ home.worker \in Thread /\ home.stream \in Thread
  BY <1>2, TypeThreads
<1>4. K(home, sys, g, told) /\ g[home.signal] = None /\ SessionI(home, sys, g)
  BY <1>1, <1>3, DropKeeps
<1>5. g[home.signal] = None
  BY <1>4
<1> HIDE DEF g
<1>6. sys.channel /\ sys.session /\ sys.worker /\ sys.stream = None /\ sys.state = "SENTACCEPT"
  BY <1>1, <1>2 DEF SessionI, ObjectI
<1>7. k.read = TRUE /\ k.close = (IF sys.tcp.state = "CLOSED" THEN 1 ELSE 0)
      /\ k \in [read : BOOLEAN, close : Nat]
  OBVIOUS
<1>8. /\ r \in System /\ r.queue = sys.queue /\ r.worker = sys.worker
      /\ r.session = sys.session /\ r.channel = sys.channel /\ r.stream = "open"
      /\ r.tcp = sys.tcp /\ r.clocks = sys.clocks /\ r.tunnel = sys.tunnel
      /\ r.state = sys.state /\ r.pending = sys.pending /\ r.alive = sys.alive
  BY <1>3 DEF System
<1> HIDE DEF r, k
<1>9. \A u, x : On(r, g, u, x) <=> On(sys, g, u, x)
  BY <1>8 DEF On
<1>10. /\ ~On(sys, g, home.signal, "DESTROY")
       /\ \A e \in Event : ~On(sys, g, home.stream, e)
  BY <1>4, <1>6 DEF K, ObjectI, None
<1>11. TypeI(home, r, g, k)
  BY <1>4, <1>7, <1>8 DEF K, TypeI
<1>12. PlaceI(home, r, g)
  BY <1>4, <1>8, <1>9 DEF K, PlaceI, Once
<1>13. ObjectI(home, r, g)
  BY <1>4, <1>6, <1>8, <1>9, <1>10 DEF K, ObjectI
<1>14. SessionI(home, r, g)
  BY <1>5, <1>6, <1>8, <1>4 DEF SessionI, Terminal, None
<1>15. ClockI(home, r, g)
  BY <1>4, <1>8 DEF K, ClockI
<1>16. ToldI(home, r, g, k)
  <2>1. ~On(r, g, home.stream, "CLOSE")
    BY <1>9, <1>10, Names
  <2>2. IsOver(r) <=> sys.tcp.state = "CLOSED"
    BY <1>6, <1>8 DEF IsOver
  <2>3. sys.tcp # NoTcp => sys.tcp.shut = "NONE"
    BY <1>4, <1>6 DEF K, ToldI, None
  <2> QED
    BY <1>7, <1>8, <2>1, <2>2, <2>3 DEF ToldI
<1>17. DataI(home, r, g, k)
  BY <1>4, <1>6, <1>7, <1>8 DEF K, DataI
<1>18. I(home, r, g, k)
  BY <1>11, <1>12, <1>13, <1>14, <1>15, <1>16, <1>17 DEF I
<1> QED
  BY <1>1, <1>18

-----------------------------------------------------------------------------
(* The signalling thread.                                                  *)

\* The session is accepted, by the peer or by the application.
LEMMA AcceptKeeps ==
    ASSUME IInv, NEW st \in {"SENTACCEPT", "RECEIVEDACCEPT"}, Signalling(st),
           sys.state = IF st = "SENTACCEPT" THEN "RECEIVEDINITIATE" ELSE "SENTINITIATE"
    PROVE  I(home, sys', hand', told') /\ sys'.worker
<1> DEFINE g == [hand EXCEPT ![home.signal] = "SIGNALLED"]
           r == Notify(sys, st)
<1>1. /\ I(home, sys, hand, told) /\ initiator \in BOOLEAN /\ hand[home.signal] = None
      /\ sys' = r /\ hand' = g /\ told' = told
  BY DEF IInv, Signalling, Idle
<1>2. SessionI(home, sys, hand)
  BY <1>1 DEF I
<1>3. /\ K(home, r, hand, told) /\ r.worker /\ r.channel /\ r.session
      /\ r.stream = sys.stream /\ r.tunnel /\ r.alive /\ r.state = st
  <2>1. sys.state \in {"SENTINITIATE", "RECEIVEDINITIATE"}
    OBVIOUS
  <2> QED
    BY <1>1, <2>1, NotifyAcceptKeeps
<1> HIDE DEF r
<1>4. K(home, r, g, told) /\ g[home.signal] = "SIGNALLED"
  BY <1>1, <1>3, BusyKeeps
<1> HIDE DEF g
<1>5. st = "SENTACCEPT" => sys.stream = None
  BY <1>2 DEF SessionI
<1>6. SessionI(home, r, g)
  BY <1>3, <1>4, <1>5 DEF SessionI, Terminal
<1> QED
  BY <1>1, <1>3, <1>4, <1>6 DEF K, I

\* The session is ended from outside.
LEMMA EndKeeps ==
    ASSUME IInv, NEW st \in {"SENTREJECT", "SENTTERMINATE", "RECEIVEDTERMINATE"},
           st = "SENTREJECT" => sys.state = "RECEIVEDINITIATE", Signalling(st)
    PROVE  I(home, sys', hand', told') /\ OrderI(home, sys', hand')
<1> DEFINE g == [hand EXCEPT ![home.signal] = "SIGNALLED"]
           r == Notify(sys, st)
<1>1. /\ I(home, sys, hand, told) /\ hand[home.signal] = None /\ sys.state # "DEINIT"
      /\ sys' = r /\ hand' = g /\ told' = told
  BY DEF IInv, Signalling, Idle
<1>2. /\ K(home, sys, hand, told) /\ SessionI(home, sys, hand) /\ ObjectI(home, sys, hand)
      /\ sys \in System /\ home.signal \in Thread
  BY <1>1, TypeThreads DEF I, K
<1>3. sys.tunnel /\ sys.alive /\ (st = "SENTREJECT" => sys.stream = None)
  BY <1>1, <1>2 DEF SessionI
<1>4. /\ K(home, r, hand, told) /\ Ended(r, sys, st)
      /\ On(r, hand, home.signal, "STATE") <=> On(sys, hand, home.signal, "STATE")
  BY <1>2, <1>3, NotifyEndKeeps
<1> HIDE DEF r
<1>5. /\ K(home, r, g, told) /\ g[home.signal] = "SIGNALLED"
      /\ On(r, g, home.signal, "STATE") <=> On(r, hand, home.signal, "STATE")
  BY <1>1, <1>4, BusyKeeps
<1> HIDE DEF g
<1>6. /\ r.worker = sys.worker /\ r.channel = sys.channel /\ r.stream = sys.stream
      /\ r.tunnel /\ r.alive /\ r.state = st
      /\ r.session <=> sys.session /\ ~LetsGo(sys, st)
  BY <1>3, <1>4 DEF Ended
<1>7. st \in Terminal
      /\ st \notin {"SENTINITIATE", "RECEIVEDINITIATE", "SENTACCEPT", "DEINIT"}
  BY DEF Terminal
<1>8. r.session /\ r.stream = "open" => r.channel
  BY <1>2, <1>3, <1>6 DEF LetsGo, None, System
<1>9. ~r.session /\ r.worker => On(r, g, home.signal, "STATE")
  <2>1. LetsGo(sys, st) => ~sys.worker
    BY <1>2 DEF ObjectI, LetsGo
  <2> QED
    BY <1>2, <1>3, <1>4, <1>5, <1>6, <2>1 DEF SessionI
<1>10. SessionI(home, r, g)
  BY <1>5, <1>6, <1>7, <1>8, <1>9 DEF SessionI
<1>11. I(home, r, g, told)
  BY <1>5, <1>10 DEF K, I
<1>12. OrderI(home, r, g)
  <2>1. CASE sys.stream = "open"
    BY <1>6, <1>11, <2>1, OrderFromI
  <2>2. CASE sys.stream # "open"
    <3>1. r.queue = sys.queue
      BY <1>2, <1>3, <1>7, <2>2, TypeThreads, NotifyEndFacts DEF K, r
    <3>2. Before(sys.queue[home.signal])
      BY <1>1, <1>3 DEF IInv, OrderI, None
    <3> QED
      BY <1>5, <3>1, <3>2 DEF OrderI
  <2> QED
    BY <2>1, <2>2
<1> QED
  BY <1>1, <1>11, <1>12

\* The end of SetState, and of what called it.
LEMMA HandlePostStateKeeps ==
    ASSUME IInv, PostState 
    PROVE  I(home, sys', hand', told') /\ OrderI(home, sys', hand')
<1> DEFINE n == [hand EXCEPT ![home.signal] = None]
           m == IF sys.state = "SENTACCEPT" THEN "GETSTREAM" ELSE None
           r == Post(sys, home.signal, "STATE")
<1>1. /\ I(home, sys, hand, told) /\ hand[home.signal] = "SIGNALLED"
      /\ hand' = [hand EXCEPT ![home.signal] = m] /\ sys' = r /\ told' = told
  BY DEF IInv, PostState
<1>2. /\ SessionI(home, sys, hand) /\ sys \in System /\ home.signal \in Thread
      /\ hand \in [Thread -> Taken]
  BY <1>1, TypeThreads DEF I
<1>3. K(home, sys, n, told) /\ n[home.signal] = None
  BY <1>1, <1>2, DropKeeps
<1> HIDE DEF r
<1>n. /\ m = None => [hand EXCEPT ![home.signal] = m] = n
      /\ [n EXCEPT ![home.signal] = m] = [hand EXCEPT ![home.signal] = m]
  BY <1>2
<1>4. K(home, r, n, told) /\ Same(r, sys) /\ On(r, n, home.signal, "STATE")
  BY <1>3, PostStateKeeps DEF r
<1> HIDE DEF n
<1>5. /\ K(home, r, hand', told) /\ hand'[home.signal] = m
      /\ On(r, hand', home.signal, "STATE")
  <2>1. CASE sys.state = "SENTACCEPT"
    <3> DEFINE b == [n EXCEPT ![home.signal] = "GETSTREAM"]
    <3>1. m = "GETSTREAM" /\ hand' = b
      BY <1>1, <1>n, <2>1
    <3>2. /\ K(home, r, b, told) /\ b[home.signal] = "GETSTREAM"
          /\ On(r, b, home.signal, "STATE") <=> On(r, n, home.signal, "STATE")
      BY <1>3, <1>4, BusyKeeps
    <3> HIDE DEF b, m
    <3> QED
      BY <1>4, <3>1, <3>2
  <2>2. CASE sys.state # "SENTACCEPT"
    BY <1>1, <1>3, <1>4, <1>n, <2>2
  <2> QED
    BY <2>1, <2>2
<1>6. /\ r.worker = sys.worker /\ r.channel = sys.channel /\ r.stream = sys.stream
      /\ r.tunnel = sys.tunnel /\ r.alive = sys.alive /\ r.state = sys.state
      /\ r.session = sys.session
  BY <1>4 DEF Same
<1>7. SessionI(home, r, hand')
  BY <1>1, <1>2, <1>5, <1>6 DEF SessionI, None
<1>8. OrderI(home, r, hand')
  <2>1. /\ sys.tunnel => Before(sys.queue[home.signal])
        /\ sys.queue[home.signal] \in Seq(Message) /\ "STATE" \in Message
    BY <1>1, <1>2 DEF IInv, OrderI, System, Message
  <2>2. r.queue[home.signal] = Append(sys.queue[home.signal], "STATE")
    BY <1>2 DEF r, Post, System
  <2>3. sys.tunnel => Before(r.queue[home.signal])
    BY <2>1, <2>2, AppendBefore
  <2>4. hand'[home.signal] # "DESTROY"
    BY <1>5 DEF None
  <2> QED
    BY <1>6, <2>3, <2>4 DEF OrderI
<1> QED
  BY <1>1, <1>5, <1>7, <1>8 DEF K, I

LEMMA ClientShutdownKeeps ==
    ASSUME Unhandled = {}, IInv, ClientShutdown 
    PROVE  I(home, sys', hand', told') /\ ~sys'.tunnel
<1>1. /\ I(home, sys, hand, told) /\ hand[home.signal] = None
      /\ (sys.channel \/ ~sys.session)
      /\ sys' = DestroySession(sys) /\ told' = told /\ hand' = hand
  BY DEF IInv, ClientShutdown, Idle
<1>2. K(home, sys, hand, told)
  BY <1>1 DEF I, K
<1> QED
  BY <1>1, <1>2, DestroySessionKeeps

LEMMA OnChannelConnectionChangedKeeps ==
    ASSUME IInv, OnChannelConnectionChanged 
    PROVE  I(home, sys', hand', told') /\ sys'.worker
<1>1. /\ I(home, sys, hand, told) /\ sys.tcp # NoTcp /\ sys' = AdjustClock(sys, TRUE)
      /\ hand' = hand /\ told' = told
  BY DEF IInv, OnChannelConnectionChanged, OnChannel
<1> QED
  BY <1>1, OnChannelKeeps

-----------------------------------------------------------------------------
(* The thread of the stream.                                               *)

LEMMA EstablishedFacts ==
    ASSUME I(home, sys, hand, told), sys.tcp.state = "ESTABLISHED"
    PROVE  J(home, sys, hand, told) /\ ClockI(home, sys, hand) /\ Threads3
           /\ sys \in System /\ sys.tcp \in Tcp /\ sys.tcp # NoTcp
<1>1. J(home, sys, hand, told) /\ ClockI(home, sys, hand) /\ TypeI(home, sys, hand, told)
  BY DEF I, J
<1>2. sys \in System /\ Threads3
  BY <1>1, TypeThreads
<1>3. sys.tcp # NoTcp
  BY DEF NoTcp
<1> QED
  BY <1>1, <1>2, <1>3, TcpOrNone

\* News that leaves the clock and the state of the connection alone.
LEMMA QuietNewsKeeps ==
    ASSUME I(home, sys, hand, told), sys.tcp.state = "ESTABLISHED",
           NEW r, NEW M, News(r, sys, M), r.tcp.state = sys.tcp.state
    PROVE  I(home, r, hand, told)
<1>1. J(home, sys, hand, told) /\ ClockI(home, sys, hand) /\ sys.tcp \in Tcp /\ sys.tcp # NoTcp
  BY EstablishedFacts
<1>2. J(home, r, hand, told)
  BY <1>1, NewsKeeps
<1>3. ClockI(home, r, hand)
  BY <1>1 DEF ClockI, News, Kept
<1> QED
  BY <1>2, <1>3 DEF I, J

\* What Read and Write do with the buffers: nothing is told.
LEMMA BufferNews ==
    ASSUME NEW s \in System, s.tcp \in Tcp, NEW p \in Tcp,
           p.state = s.tcp.state, p.shut = s.tcp.shut,
           p.rbuf \/ ~p.readEnable => s.tcp.rbuf \/ ~s.tcp.readEnable,
           NEW r, r = [s EXCEPT !.tcp = p]
    PROVE  /\ News(r, s, {}) /\ r \in System /\ r.tcp = p /\ r.pending = s.pending
           /\ r.stream = s.stream /\ r.queue = s.queue /\ Kept(r, s)
<1>1. r \in System /\ r.tcp = p
  BY DEF System
<1>2. /\ r.pending = s.pending /\ r.queue = s.queue /\ r.stream = s.stream /\ Kept(r, s)
  BY DEF System, Kept
<1>3. More(r, s, home.stream, {})
  BY <1>2 DEF More, Once
<1> QED
  BY <1>1, <1>2, <1>3 DEF News

LEMMA ReadKeeps ==
    ASSUME IInv, Read PROVE I(home, sys', hand', told') /\ Kept(sys', sys)
<1>1. /\ I(home, sys, hand, told) /\ sys.stream = "open" /\ sys.tcp.state = "ESTABLISHED"
      /\ hand' = hand
  BY Zenon DEF IInv, Read, OnStream
<1>2. /\ J(home, sys, hand, told) /\ Threads3 /\ sys \in System /\ sys.tcp \in Tcp
      /\ sys.tcp # NoTcp
  BY <1>1, EstablishedFacts
<1>3. CASE sys.tcp.rbuf
  <2>1. told' = told
    BY <1>3, Zenon DEF Read
  <2>2. PICK rest \in BOOLEAN, ack \in {sys.tcp.ack, FALSE} :
           sys' = LET s == [sys EXCEPT !.tcp.rbuf = rest, !.tcp.ack = ack]
                  IN  IF s.pending THEN s ELSE PostEvent([s EXCEPT !.pending = TRUE], "READ")
    BY <1>3, Zenon DEF Read
  <2> DEFINE p == [sys.tcp EXCEPT !.rbuf = rest, !.ack = ack]
             s == [sys EXCEPT !.tcp = p]
             z == [sys EXCEPT !.tcp.rbuf = rest, !.tcp.ack = ack]
             a == [s EXCEPT !.pending = TRUE]
  <2>3. /\ p \in Tcp /\ p.state = sys.tcp.state /\ p.shut = sys.tcp.shut
    BY <1>2 DEF Tcp
  <2>4. s = z
    BY <1>2 DEF System
  <2>z. sys' = IF z.pending THEN z ELSE PostEvent([z EXCEPT !.pending = TRUE], "READ")
    BY <2>2, Zenon
  <2> HIDE DEF p, s, z
  <2>5. sys' = IF s.pending THEN s ELSE PostEvent(a, "READ")
    BY <2>4, <2>z
  <2>s. s = [sys EXCEPT !.tcp = p]
    BY DEF s
  <2>6. /\ News(s, sys, {}) /\ s \in System /\ s.tcp = p /\ s.pending = sys.pending
        /\ s.stream = sys.stream /\ s.queue = sys.queue /\ Kept(s, sys)
    BY <1>2, <1>3, <2>3, <2>s, BufferNews
  <2>7. CASE s.pending
    <3>1. sys' = s
      BY <2>5, <2>7
    <3>2. s.tcp.state = sys.tcp.state
      BY <2>3, <2>6
    <3> QED
      BY <1>1, <2>1, <2>6, <3>1, <3>2, QuietNewsKeeps
  <2>8. CASE ~s.pending
    <3>1. /\ a \in System /\ a.queue = sys.queue /\ a.tcp = p /\ Kept(a, sys) /\ a.pending
          /\ a.stream = "open"
      BY <1>1, <2>6 DEF System, Kept
    <3> HIDE DEF a
    <3>2. sys' = PostEvent(a, "READ")
      BY <2>5, <2>8
    <3>3. sys' \in System /\ Same(sys', a) /\ More(sys', a, home.stream, {"READ"})
      BY <1>2, <3>1, <3>2, Names, PostEventFacts
    <3>4. More(sys', sys, home.stream, {"READ"})
      BY <3>1, <3>3 DEF More, Once
    <3>5. sys'.tcp = p /\ Kept(sys', sys)
      BY <3>1, <3>3 DEF Same, Kept
    <3>6. News(sys', sys, {"READ"})
      BY <1>1, <1>3, <2>3, <3>3, <3>4, <3>5, Names DEF News
    <3> QED
      BY <1>1, <2>1, <2>3, <3>5, <3>6, QuietNewsKeeps
  <2> QED
    BY <2>7, <2>8
<1>4. CASE ~sys.tcp.rbuf
  <2> DEFINE p == [sys.tcp EXCEPT !.readEnable = TRUE]
             k == [told EXCEPT !.read = FALSE]
  <2>1. sys' = [sys EXCEPT !.tcp = p] /\ told' = k
    BY <1>4 DEF Read
  <2>2. p \in Tcp /\ p.state = sys.tcp.state /\ p.shut = sys.tcp.shut /\ ~p.rbuf /\ p.readEnable
    BY <1>2, <1>4 DEF Tcp
  <2> HIDE DEF p
  <2>3. /\ News(sys', sys, {}) /\ sys' \in System /\ sys'.tcp = p /\ sys'.pending = sys.pending
        /\ sys'.stream = sys.stream /\ sys'.queue = sys.queue
    BY <1>2, <2>1, <2>2, BufferNews
  <2>4. I(home, sys', hand, told)
    BY <1>1, <2>2, <2>3, QuietNewsKeeps
  <2>5. /\ TypeI(home, sys', hand, told) /\ PlaceI(home, sys', hand) /\ ObjectI(home, sys', hand)
        /\ SessionI(home, sys', hand) /\ ClockI(home, sys', hand)
        /\ ToldI(home, sys', hand, told) /\ DataI(home, sys', hand, told)
    BY <2>4 DEF I
  <2>6. k \in [read : BOOLEAN, close : Nat] /\ k.close = told.close
    BY <2>5 DEF TypeI
  <2> HIDE DEF k
  <2>7. TypeI(home, sys', hand, k)
    BY <2>5, <2>6 DEF TypeI
  <2>8. ToldI(home, sys', hand, k)
    BY <2>5, <2>6 DEF ToldI
  <2>9. DataI(home, sys', hand, k)
    BY <2>2, <2>3, <2>5 DEF DataI
  <2>10. I(home, sys', hand, k)
    BY <2>5, <2>7, <2>8, <2>9 DEF I
  <2> QED
    BY <1>1, <2>1, <2>3, <2>10 DEF News
<1> QED
  BY <1>3, <1>4

LEMMA WriteKeeps ==
    ASSUME IInv, Write PROVE I(home, sys', hand', told') /\ Kept(sys', sys)
<1>1. /\ I(home, sys, hand, told) /\ sys.tcp.state = "ESTABLISHED"
      /\ hand' = hand /\ told' = told
  BY DEF IInv, Write, OnStream
<1>2. sys \in System /\ sys.tcp \in Tcp
  BY <1>1, EstablishedFacts
<1>3. PICK p \in Tcp : /\ p.state = sys.tcp.state /\ p.shut = sys.tcp.shut
                       /\ p.rbuf = sys.tcp.rbuf /\ p.readEnable = sys.tcp.readEnable
                       /\ sys' = [sys EXCEPT !.tcp = p]
  <2>1. CASE \E ack \in {sys.tcp.ack, FALSE} :
                sys' = [sys EXCEPT !.tcp.sbuf = TRUE, !.tcp.ack = ack]
    <3>1. PICK ack \in {sys.tcp.ack, FALSE} :
                sys' = [sys EXCEPT !.tcp.sbuf = TRUE, !.tcp.ack = ack]
      BY <2>1
    <3> DEFINE q == [sys.tcp EXCEPT !.sbuf = TRUE, !.ack = ack]
    <3>2. /\ q \in Tcp /\ q.state = sys.tcp.state /\ q.shut = sys.tcp.shut
          /\ q.rbuf = sys.tcp.rbuf /\ q.readEnable = sys.tcp.readEnable
      BY <1>2 DEF Tcp
    <3>3. sys' = [sys EXCEPT !.tcp = q]
      BY <1>2, <3>1 DEF System
    <3> HIDE DEF q
    <3> QED
      BY <3>2, <3>3
  <2>2. CASE sys' = [sys EXCEPT !.tcp.writeEnable = TRUE]
    <3> DEFINE q == [sys.tcp EXCEPT !.writeEnable = TRUE]
    <3>1. /\ q \in Tcp /\ q.state = sys.tcp.state /\ q.shut = sys.tcp.shut
          /\ q.rbuf = sys.tcp.rbuf /\ q.readEnable = sys.tcp.readEnable
      BY <1>2 DEF Tcp
    <3>2. sys' = [sys EXCEPT !.tcp = q]
      BY <2>2
    <3> HIDE DEF q
    <3> QED
      BY <3>1, <3>2
  <2> QED
    BY <2>1, <2>2 DEF Write
<1>4. News(sys', sys, {}) /\ sys'.tcp = p
  BY <1>2, <1>3, BufferNews
<1>5. I(home, sys', hand, told)
  BY <1>1, <1>3, <1>4, QuietNewsKeeps
<1> QED
  BY <1>1, <1>4, <1>5 DEF News

LEMMA CloseKeeps ==
    ASSUME Unhandled = {}, IInv, Close 
    PROVE  I(home, sys', hand', told') /\ OrderI(home, sys', hand')
<1> DEFINE c == [sys EXCEPT !.stream = "closed"]
           d == Clear(c, home.stream, Event)
           x == IF d.tcp = NoTcp THEN d ELSE [d EXCEPT !.tcp.shut = "GRACEFUL"]
           h == hand
           k == told
<1>1. /\ I(home, sys, h, k) /\ hand[home.stream] = None /\ sys.stream = "open"
      /\ (sys.channel \/ ~sys.session) /\ hand' = h /\ told' = k
      /\ ~TooHasty
      /\ sys' = IF d.tcp = NoTcp THEN CheckDestroy(d) ELSE AdjustClock(x, TRUE)
  <2>1. /\ I(home, sys, h, k) /\ hand[home.stream] = None /\ sys.stream = "open"
        /\ (sys.channel \/ ~sys.session) /\ hand' = h /\ told' = k
        /\ ~TooHasty
    BY DEF IInv, Close, OnStream, Idle, MayClose, TooEarly
  <2>2. sys' = IF d.tcp = NoTcp THEN CheckDestroy(d)
               ELSE AdjustClock([d EXCEPT !.tcp.shut = "GRACEFUL"], TRUE)
    BY Zenon DEF Close
  <2> HIDE DEF d
  <2> QED
    BY <2>1, <2>2
<1>2. /\ TypeI(home, sys, h, k) /\ PlaceI(home, sys, h) /\ ObjectI(home, sys, h)
      /\ SessionI(home, sys, h) /\ ClockI(home, sys, h) /\ ToldI(home, sys, h, k)
      /\ DataI(home, sys, h, k)
  BY <1>1 DEF I
<1>3. /\ Threads3 /\ sys \in System /\ h \in [Thread -> Taken]
      /\ home.signal \in Thread /\ home.worker \in Thread /\ home.stream \in Thread
  BY <1>2, TypeThreads
<1>4. h[home.stream] = None
  BY <1>1
<1> HIDE DEF h, k
<1>5. /\ c \in System /\ c.queue = sys.queue /\ c.stream = "closed"
      /\ c.worker = sys.worker /\ c.session = sys.session /\ c.channel = sys.channel
      /\ c.tcp = sys.tcp /\ c.pending = sys.pending /\ c.clocks = sys.clocks
      /\ c.tunnel = sys.tunnel /\ c.state = sys.state /\ c.alive = sys.alive
  BY <1>3 DEF System
<1> HIDE DEF c
<1>6. d \in System /\ Same(d, c) /\ Less(d, c, home.stream, Event)
  BY <1>3, <1>5, ClearFacts
<1> HIDE DEF d
<1>7. /\ x \in System /\ x.queue = d.queue /\ x.stream = "closed"
      /\ x.worker = sys.worker /\ x.session = sys.session /\ x.channel = sys.channel
      /\ x.pending = sys.pending /\ x.clocks = sys.clocks
      /\ x.tunnel = sys.tunnel /\ x.state = sys.state /\ x.alive = sys.alive
      /\ x.tcp = NoTcp <=> sys.tcp = NoTcp
      /\ x.tcp # NoTcp => /\ x.tcp \in Tcp /\ x.tcp.shut = "GRACEFUL"
                          /\ x.tcp.state = sys.tcp.state
      /\ d.tcp = sys.tcp /\ (d.tcp = NoTcp => x = d)
  <2>1. /\ d.stream = "closed" /\ d.worker = sys.worker /\ d.session = sys.session
        /\ d.channel = sys.channel /\ d.pending = sys.pending /\ d.clocks = sys.clocks
        /\ d.tunnel = sys.tunnel /\ d.state = sys.state /\ d.tcp = sys.tcp
        /\ d.alive = sys.alive
    BY <1>5, <1>6 DEF Same
  <2>2. CASE d.tcp = NoTcp
    BY <1>6, <2>1, <2>2
  <2>3. CASE d.tcp # NoTcp
    <3> DEFINE p == [d.tcp EXCEPT !.shut = "GRACEFUL"]
    <3>1. d.tcp \in Tcp
      BY <1>6, <2>3, TcpOrNone
    <3>2. p \in Tcp /\ p.shut = "GRACEFUL" /\ p.state = d.tcp.state
      BY <3>1 DEF Tcp
    <3>3. x = [d EXCEPT !.tcp = p]
      BY <2>3
    <3> HIDE DEF p, x
    <3>4. p # NoTcp
      BY <3>2, NoTcpIsNone
    <3>5. /\ x \in System /\ x.queue = d.queue /\ x.tcp = p /\ x.stream = d.stream
          /\ x.worker = d.worker /\ x.session = d.session /\ x.channel = d.channel
          /\ x.pending = d.pending /\ x.clocks = d.clocks
          /\ x.tunnel = d.tunnel /\ x.state = d.state /\ x.alive = d.alive
      BY <1>6, <3>2, <3>3 DEF System
    <3> QED
      BY <2>1, <2>3, <3>2, <3>4, <3>5
  <2> QED
    BY <2>2, <2>3
<1> HIDE DEF x
<1>8. ASSUME NEW u \in Thread, NEW m, m \notin Event
      PROVE  /\ On(x, h, u, m) <=> On(sys, h, u, m)
             /\ m \in Elements(x.queue[u]) <=> m \in Elements(sys.queue[u])
             /\ Once(sys, u, m) => Once(x, u, m)
  <2>1. Elements(d.queue[u]) = IF u = home.stream THEN Elements(c.queue[u]) \ Event
                               ELSE Elements(c.queue[u])
    BY <1>6 DEF Less
  <2>2. Once(c, u, m) => Once(d, u, m)
    BY <1>6 DEF Less
  <2> QED
    BY <1>5, <1>7, <1>8, <2>1, <2>2 DEF On, Once
<1>9. \A u \in Thread : \A e \in Event : ~On(x, h, u, e)
  <2> SUFFICES ASSUME NEW u \in Thread, NEW e \in Event PROVE ~On(x, h, u, e)
    OBVIOUS
  <2>1. Elements(d.queue[u]) = IF u = home.stream THEN Elements(c.queue[u]) \ Event
                               ELSE Elements(c.queue[u])
    BY <1>6 DEF Less
  <2>2. CASE u = home.stream
    BY <1>4, <1>7, <2>1, <2>2, Names DEF On
  <2>3. CASE u # home.stream
    <3>1. ~On(sys, h, u, e)
      BY <1>2, <2>3 DEF PlaceI
    <3> QED
      BY <1>5, <1>7, <2>1, <2>3, <3>1 DEF On
  <2> QED
    BY <2>2, <2>3
<1>10. Once(x, home.stream, "CLOSE")
  BY <1>9, <1>3, Names DEF On, Once, Single, Elements
<1>11. TypeI(home, x, h, k)
  BY <1>2, <1>7 DEF TypeI
<1>12. PlaceI(home, x, h)
  <2>1. \A u \in Thread :
          /\ u # home.signal =>
                \A m \in {"DESTROYCHANNEL", "DESTROY", "STATE", "SIGNALLED", "GETSTREAM"} :
                   ~On(x, h, u, m)
          /\ u # home.worker => \A m \in {"PURGE", "CLOCK"} : ~On(x, h, u, m)
          /\ u # home.stream => \A m \in Event : ~On(x, h, u, m)
    BY <1>2, <1>8, <1>9, Names DEF PlaceI
  <2>2. Once(x, home.worker, "PURGE")
        /\ (h[home.worker] = "PURGE" => "PURGE" \notin Elements(x.queue[home.worker]))
    BY <1>2, <1>3, <1>8, Names DEF PlaceI
  <2>3. h[home.stream] # "CLOSE"
    BY <1>4, Names
  <2> QED
    BY <1>10, <2>1, <2>2, <2>3 DEF PlaceI
<1>13. ObjectI(home, x, h)
  <2>1. ~On(x, h, home.signal, "DESTROY")
    BY <1>1, <1>2, <1>3, <1>8, Names DEF ObjectI
  <2>2. /\ On(x, h, home.worker, "PURGE") <=> On(sys, h, home.worker, "PURGE")
        /\ On(x, h, home.worker, "CLOCK") <=> On(sys, h, home.worker, "CLOCK")
        /\ On(x, h, home.signal, "DESTROYCHANNEL") <=> On(sys, h, home.signal, "DESTROYCHANNEL")
    BY <1>3, <1>8, Names
  <2> QED
    BY <1>2, <1>3, <1>7, <1>9, <2>1, <2>2 DEF ObjectI
<1>14. SessionI(home, x, h)
  <2>1. sys.state \notin {"SENTINITIATE", "RECEIVEDINITIATE"}
    BY <1>1, <1>2 DEF SessionI, ObjectI
  <2>2. /\ h[home.signal] # "GETSTREAM"
        /\ h[home.signal] = "SIGNALLED" => sys.state # "SENTACCEPT"
    BY <1>1, <1>2 DEF SessionI, None
  <2>3. On(x, h, home.signal, "STATE") <=> On(sys, h, home.signal, "STATE")
    BY <1>3, <1>8, Names
  <2> QED
    BY <1>2, <1>7, <2>1, <2>2, <2>3 DEF SessionI
<1>15. ClockI(home, x, h)
  BY <1>2, <1>7 DEF ClockI
<1>16. ToldI(home, x, h, k)
  BY <1>7 DEF ToldI
<1>17. DataI(home, x, h, k)
  BY <1>7 DEF DataI, None
<1>18. J(home, x, h, k)
  BY <1>11, <1>12, <1>13, <1>14, <1>16, <1>17 DEF J
<1>19. CASE d.tcp = NoTcp
  <2>1. I(home, x, h, k)
    BY <1>15, <1>18 DEF I, J
  <2>2. ~x.worker => ~x.session
    BY <1>1, <1>2, <1>7 DEF ObjectI
  <2>3. sys' = CheckDestroy(x)
    BY <1>1, <1>7, <1>19
  <2>4. I(home, sys', h, k)
    BY <2>1, <2>2, <2>3, CheckDestroyKeeps
  <2>5. sys'.worker = x.worker /\ sys'.tunnel = x.tunnel
    BY <1>3, <1>7, <2>3, CheckDestroyFacts DEF Same
  <2>6. CASE x.worker \/ ~x.tunnel
    <3>1. OrderI(home, sys', h)
      BY <2>4, <2>5, <2>6, OrderFromI DEF OrderI
    <3> QED
      BY <1>1, <2>4, <3>1
  <2>7. CASE ~(x.worker \/ ~x.tunnel)
    <3>1. ~sys.worker /\ ~sys.channel /\ ~sys.session /\ sys.tunnel
      BY <1>1, <1>2, <1>7, <2>7 DEF ObjectI
    <3>2. On(sys, h, home.signal, "STATE") \/ h[home.signal] = "SIGNALLED"
      BY <1>2, <3>1 DEF SessionI
    <3>3. h[home.signal] = "SIGNALLED" => "STATE" \in Elements(sys.queue[home.signal])
      BY <1>1, <3>1 DEF TooHasty, Elements, h
    <3>4. On(x, h, home.signal, "STATE")
      BY <1>3, <1>8, <3>2, <3>3, Names DEF On
    <3>5. ~On(x, h, home.signal, "DESTROY")
      BY <1>1, <1>2, <1>3, <1>8, Names DEF ObjectI
    <3>6. OrderI(home, sys', h)
      BY <1>3, <1>7, <2>3, <3>4, <3>5, LastOrder
    <3> QED
      BY <1>1, <2>4, <3>6
  <2> QED
    BY <2>6, <2>7
<1>20. CASE d.tcp # NoTcp
  <2>1. sys' = AdjustClock(x, TRUE)
    BY <1>1, <1>20
  <2>2. x.tcp \in Tcp
    BY <1>7, <1>20
  <2>3. x.clocks <= 2 /\ (h[home.worker] = "CLOCK" => x.clocks <= 1)
    BY <1>15 DEF ClockI
  <2>4. I(home, sys', h, k) /\ sys'.worker = x.worker
    BY <1>18, <2>1, <2>2, <2>3, AdjustKeeps
  <2>5. x.worker
    BY <1>2, <1>7, <1>20 DEF ObjectI
  <2> QED
    BY <1>1, <2>4, <2>5, OrderFromI
<1> QED
  BY <1>19, <1>20

-----------------------------------------------------------------------------
(* The invariant.                                                          *)

LEMMA InitIInv == Init => IInv
<1> SUFFICES ASSUME Init PROVE IInv
  OBVIOUS
<1>1. /\ home \in [{"signal", "worker", "stream"} -> Thread] /\ home.signal = "signal"
      /\ initiator \in BOOLEAN
  BY DEF Init
<1>2. /\ home.signal \in Thread /\ home.worker \in Thread /\ home.stream \in Thread
      /\ hand = [t \in Thread |-> None] /\ told = [read |-> FALSE, close |-> 0]
  BY <1>1 DEF Init
<1> DEFINE q == [t \in Thread |-> IF t = "signal" THEN <<"STATE">> ELSE <<>>]
           st == IF initiator THEN "SENTINITIATE" ELSE "RECEIVEDINITIATE"
           str == IF initiator THEN "open" ELSE None
<1>3. sys = [alive |-> TRUE, worker |-> FALSE, session |-> TRUE, channel |-> FALSE,
             stream |-> str, tcp |-> NoTcp, pending |-> FALSE, ready |-> FALSE,
             tunnel |-> TRUE, state |-> st, queue |-> q, clocks |-> 0]
  BY Zenon DEF Init
<1>4. q \in [Thread -> Seq(Message)]
  <2>1. "STATE" \in Message
    BY DEF Message
  <2>2. <<"STATE">> \in Seq(Message) /\ <<>> \in Seq(Message)
    BY <2>1
  <2> QED
    BY <2>2
<1>5. st \in SessionState /\ str \in {None, "open", "closed"}
      /\ st \in {"SENTINITIATE", "RECEIVEDINITIATE"} /\ str # "closed"
      /\ (st = "RECEIVEDINITIATE" => str = None)
  BY DEF SessionState, None
<1>6. \A t \in Thread : Elements(q[t]) = IF t = "signal" THEN {"STATE"} ELSE {}
  BY DEF Elements
<1>7. \A t \in Thread : \A m : Single(q[t], m)
  BY DEF Single
<1> HIDE DEF q, st, str
<1>8. /\ sys \in System /\ sys.queue = q /\ ~sys.worker /\ sys.session /\ ~sys.channel
      /\ sys.stream = str /\ sys.tcp = NoTcp /\ ~sys.pending /\ sys.tunnel
      /\ sys.alive /\ sys.state = st /\ sys.clocks = 0
  BY <1>3, <1>4, <1>5 DEF System
<1>9. \A u \in Thread : \A x : x # None =>
         (On(sys, hand, u, x) <=> u = home.signal /\ x = "STATE")
  BY <1>1, <1>2, <1>6, <1>8 DEF On
<1>10. NoTcp.state = "NULL"
  BY DEF NoTcp
<1>11. TypeI(home, sys, hand, told)
  BY <1>1, <1>2, <1>8, Names DEF TypeI
<1>12. PlaceI(home, sys, hand)
  <2>1. \A u \in Thread :
          /\ u # home.signal =>
                \A x \in {"DESTROYCHANNEL", "DESTROY", "STATE", "SIGNALLED", "GETSTREAM"} :
                   ~On(sys, hand, u, x)
          /\ u # home.worker => \A x \in {"PURGE", "CLOCK"} : ~On(sys, hand, u, x)
          /\ u # home.stream => \A x \in Event : ~On(sys, hand, u, x)
    BY <1>9, Names
  <2>2. Once(sys, home.worker, "PURGE") /\ Once(sys, home.stream, "CLOSE")
    BY <1>2, <1>7, <1>8 DEF Once
  <2> QED
    BY <1>2, <2>1, <2>2 DEF PlaceI, None
<1>13. ObjectI(home, sys, hand)
  BY <1>2, <1>8, <1>9, Names DEF ObjectI
<1>14. SessionI(home, sys, hand)
  <2>1. hand[home.signal] = None /\ st \notin Terminal /\ st # "DEINIT" /\ st # "SENTACCEPT"
    BY <1>2, <1>5 DEF Terminal
  <2>2. str = "open" => st # "RECEIVEDINITIATE"
    BY <1>5 DEF None
  <2> QED
    BY <1>5, <1>8, <2>1, <2>2 DEF SessionI, None
<1>15. ClockI(home, sys, hand)
  BY <1>2, <1>8 DEF ClockI, None
<1>16. ToldI(home, sys, hand, told)
  <2>1. ~IsOver(sys)
    BY <1>8, <1>10 DEF IsOver
  <2>2. ~On(sys, hand, home.stream, "CLOSE")
    BY <1>2, <1>9, Names
  <2> QED
    BY <1>2, <1>8, <2>1, <2>2 DEF ToldI
<1>17. DataI(home, sys, hand, told)
  BY <1>8 DEF DataI
<1>18. I(home, sys, hand, told)
  BY <1>11, <1>12, <1>13, <1>14, <1>15, <1>16, <1>17 DEF I
<1>19. OrderI(home, sys, hand)
  BY <1>8, <1>18, OrderFromI
<1> QED
  BY <1>1, <1>18, <1>19 DEF IInv

LEMMA NextHome == ASSUME Next PROVE home' = home /\ initiator' = initiator
<1> USE DEF Handled, Signalling, OnStream, OnChannel
<1>1. CASE (\E t \in Thread : TakeQueued(t)) \/ TakeClock
  BY <1>1 DEF TakeQueued, TakeClock
<1>2. CASE Handle
  BY <1>2 DEF Handle, HandleClock, HandleEvent, HandlePurge, HandleDestroyChannel,
              HandleDestroy, HandleState, GetStream, PostState
<1>3. CASE ReceiveAccept \/ AcceptTunnel \/ DeclineTunnel \/ ReceiveTerminate
  BY <1>3 DEF ReceiveAccept, AcceptTunnel, DeclineTunnel, ReceiveTerminate
<1>4. CASE Terminate \/ ClientShutdown
  BY <1>4 DEF Terminate, ClientShutdown
<1>5. CASE OnChannelWritableState \/ OnChannelRead \/ OnChannelConnectionChanged
  BY <1>5, Zenon DEF OnChannelWritableState, OnChannelRead, NotifyPacket, OnChannelConnectionChanged
<1>6. CASE Read \/ Write \/ Close
  BY <1>6, Zenon DEF Read, Write, Close
<1> QED
  BY <1>1, <1>2, <1>3, <1>4, <1>5, <1>6 DEF Next

LEMMA NextI == ASSUME Unhandled = {}, IInv, Next PROVE I(home, sys', hand', told')
<1>1. ASSUME NEW t \in Thread, TakeQueued(t) PROVE I(home, sys', hand', told')
  <2>1. /\ I(home, sys, hand, told) /\ hand[t] = None /\ sys.queue[t] # <<>>
        /\ hand' = [hand EXCEPT ![t] = Head(sys.queue[t])] /\ sys' = Popped(sys, t)
        /\ told' = told
    BY <1>1 DEF IInv, TakeQueued, Idle, Popped
  <2> QED
    BY <2>1, TakeQueuedKeeps
<1>2. CASE TakeClock
  <2>1. /\ I(home, sys, hand, told) /\ hand[home.worker] = None /\ sys.clocks > 0
        /\ hand' = [hand EXCEPT ![home.worker] = "CLOCK"]
        /\ sys' = [sys EXCEPT !.clocks = @ - 1] /\ told' = told
    BY <1>2 DEF IInv, TakeClock, Idle
  <2> QED
    BY <2>1, TakeClockKeeps
<1>3. CASE Handle
  BY <1>3, HandleClockKeeps, HandleEventKeeps, HandlePurgeKeeps, HandleDestroyChannelKeeps,
     HandleDestroyKeeps, HandleStateKeeps, GetStreamKeeps, HandlePostStateKeeps DEF Handle
<1>4. CASE ReceiveAccept
  BY <1>4, AcceptKeeps DEF ReceiveAccept
<1>5. CASE AcceptTunnel
  BY <1>5, AcceptKeeps DEF AcceptTunnel
<1>6. CASE DeclineTunnel
  BY <1>6, EndKeeps DEF DeclineTunnel
<1>7. CASE ReceiveTerminate
  BY <1>7, EndKeeps DEF ReceiveTerminate
<1>8. CASE Terminate
  BY <1>8, EndKeeps DEF Terminate
<1>9. CASE ClientShutdown
  BY <1>9, ClientShutdownKeeps
<1>10. CASE OnChannelWritableState
  BY <1>10, OnChannelWritableKeeps
<1>11. CASE OnChannelRead
  BY <1>11, OnChannelReadKeeps
<1>12. CASE OnChannelConnectionChanged
  BY <1>12, OnChannelConnectionChangedKeeps
<1>13. CASE Read
  BY <1>13, ReadKeeps
<1>14. CASE Write
  BY <1>14, WriteKeeps
<1>15. CASE Close
  BY <1>15, CloseKeeps
<1> QED
  BY <1>1, <1>2, <1>3, <1>4, <1>5, <1>6, <1>7, <1>8, <1>9, <1>10, <1>11, <1>12, <1>13,
     <1>14, <1>15 DEF Next

LEMMA NextOrder == ASSUME Unhandled = {}, IInv, Next PROVE OrderI(home, sys', hand')
<1>1. /\ I(home, sys, hand, told) /\ OrderI(home, sys, hand)
      /\ I(home, sys', hand', told')
  BY NextI DEF IInv
<1>2. /\ Threads3 /\ sys \in System /\ hand \in [Thread -> Taken]
      /\ home.signal \in Thread
  BY <1>1, TypeThreads DEF I
<1>u. ASSUME sys'.worker \/ sys'.session \/ sys'.stream = "open" \/ ~sys'.tunnel
      PROVE  OrderI(home, sys', hand')
  BY <1>1, <1>u, OrderFromI DEF OrderI
<1>3. ASSUME NEW t \in Thread, TakeQueued(t) PROVE OrderI(home, sys', hand')
  <2> DEFINE q == sys.queue[t]
  <2>1. /\ q \in Seq(Message) /\ hand[t] = None /\ q # <<>> /\ hand' = [hand EXCEPT ![t] = Head(q)]
        /\ sys' = Popped(sys, t)
    BY <1>2, <1>3 DEF TakeQueued, Idle, Popped, System
  <2>2. /\ sys'.tunnel = sys.tunnel /\ sys'.queue = [sys.queue EXCEPT ![t] = Tail(q)]
    BY <1>2, <2>1 DEF Popped, System
  <2>3. CASE t = home.signal
    <3>1. hand'[home.signal] = Head(q) /\ sys'.queue[home.signal] = Tail(q)
      BY <1>2, <2>1, <2>2, <2>3 DEF System
    <3>2. sys.tunnel => Before(q)
      BY <1>1, <2>1, <2>3 DEF OrderI, None
    <3> HIDE DEF q
    <3> QED
      BY <2>1, <2>2, <3>1, <3>2, TailBefore DEF OrderI
  <2>4. CASE t # home.signal
    <3>1. hand'[home.signal] = hand[home.signal]
          /\ sys'.queue[home.signal] = sys.queue[home.signal]
      BY <1>2, <2>1, <2>2, <2>4 DEF System
    <3> QED
      BY <1>1, <2>2, <3>1 DEF OrderI
  <2> QED
    BY <2>3, <2>4
<1>4. CASE TakeClock
  <2>1. hand'[home.worker] = "CLOCK"
    BY <1>2, <1>4 DEF TakeClock, Threads3
  <2>2. sys'.worker
    BY <1>1, <2>1 DEF I, ObjectI, On
  <2> QED
    BY <1>u, <2>2
<1>5. CASE Handle
  <2>1. ASSUME NEW o \in Outcome, HandleClock(o) PROVE OrderI(home, sys', hand')
    BY <1>u, <2>1, HandleClockKeeps
  <2>2. ASSUME NEW e \in Event, HandleEvent(e) PROVE OrderI(home, sys', hand')
    <3>1. sys.stream = "open"
      BY <1>1, <2>2 DEF HandleEvent, Handled, I, ObjectI, On
    <3>2. sys'.stream = "open"
      BY <1>2, <2>2, <3>1 DEF HandleEvent, Handled, System
    <3> QED
      BY <1>u, <3>2
  <2>3. CASE HandlePurge
    BY <2>3, HandlePurgeKeeps
  <2>4. CASE HandleDestroyChannel
    BY <1>u, <2>4, HandleDestroyChannelKeeps
  <2>5. CASE HandleDestroy
    BY <1>u, <2>5, HandleDestroyKeeps
  <2>6. CASE HandleState
    <3>1. sys'.tunnel => sys'.session
      BY <1>1, <2>6, HandleStateKeeps DEF I, SessionI
    <3> QED
      BY <1>u, <3>1
  <2>7. CASE GetStream
    <3>1. sys'.stream = "open"
      BY <1>2, <2>7 DEF GetStream, Handled, System
    <3> QED
      BY <1>u, <3>1
  <2>8. CASE PostState
    BY <2>8, HandlePostStateKeeps
  <2> QED
    BY <1>5, <2>1, <2>2, <2>3, <2>4, <2>5, <2>6, <2>7, <2>8 DEF Handle
<1>6. CASE ReceiveAccept
  BY <1>u, <1>6, AcceptKeeps DEF ReceiveAccept
<1>7. CASE AcceptTunnel
  BY <1>u, <1>7, AcceptKeeps DEF AcceptTunnel
<1>8. CASE DeclineTunnel
  BY <1>8, EndKeeps DEF DeclineTunnel
<1>9. CASE ReceiveTerminate
  BY <1>9, EndKeeps DEF ReceiveTerminate
<1>10. CASE Terminate
  BY <1>10, EndKeeps DEF Terminate
<1>11. CASE ClientShutdown
  BY <1>u, <1>11, ClientShutdownKeeps
<1>12. CASE OnChannelWritableState
  BY <1>u, <1>12, OnChannelWritableKeeps
<1>13. CASE OnChannelRead
  BY <1>u, <1>13, OnChannelReadKeeps
<1>14. CASE OnChannelConnectionChanged
  BY <1>u, <1>14, OnChannelConnectionChangedKeeps
<1>15. CASE Read
  <2>1. sys.stream = "open" /\ sys'.stream = sys.stream
    BY <1>15, ReadKeeps DEF Read, OnStream, Kept
  <2> QED
    BY <1>u, <2>1
<1>16. CASE Write
  <2>1. sys.stream = "open" /\ sys'.stream = sys.stream
    BY <1>16, WriteKeeps DEF Write, OnStream, Kept
  <2> QED
    BY <1>u, <2>1
<1>17. CASE Close
  BY <1>17, CloseKeeps
<1> QED
  BY <1>3, <1>4, <1>5, <1>6, <1>7, <1>8, <1>9, <1>10, <1>11, <1>12, <1>13, <1>14, <1>15,
     <1>16, <1>17 DEF Next

LEMMA NextKeeps == ASSUME Unhandled = {}, IInv, Next PROVE IInv'
<1>1. home' = home /\ initiator' = initiator
  BY NextHome
<1>2. I(home, sys', hand', told') /\ OrderI(home, sys', hand')
  BY NextI, NextOrder
<1> QED
  BY <1>1, <1>2 DEF IInv

LEMMA StutterKeeps == ASSUME IInv, UNCHANGED vars PROVE IInv'
BY DEF IInv, vars

\* Every reachable state has its messages on the threads that handle them, and
\* the parts of the object in one of the combinations that its calls expect.
THEOREM Invariance == Unhandled = {} => (Spec => []IInv)
<1> SUFFICES ASSUME Unhandled = {} PROVE Spec => []IInv
  OBVIOUS
<1>1. IInv /\ [Next]_vars => IInv'
  BY NextKeeps, StutterKeeps
<1> QED
  BY <1>1, InitIInv, PTL DEF Spec

\* The variables keep their types.
THEOREM TypeCorrect == Unhandled = {} => (Spec => []TypeOK)
<1> SUFFICES ASSUME Unhandled = {} PROVE Spec => []TypeOK
  OBVIOUS
<1>1. IInv => TypeOK
  BY DEF IInv, I, TypeI, TypeOK
<1> QED
  BY <1>1, Invariance, PTL

-----------------------------------------------------------------------------
(* The properties.                                                         *)

LEMMA UnderWayOn == \A m : UnderWay(m) <=> \E t \in Thread : On(sys, hand, t, m)
BY DEF UnderWay, Queued, InHand, On, Elements

\* The only thread on which a message is.
LEMMA Placed ==
    ASSUME PlaceI(home, sys, hand), Threads3
    PROVE  /\ \A m \in {"DESTROYCHANNEL", "DESTROY", "STATE"} :
                 UnderWay(m) <=> On(sys, hand, home.signal, m)
           /\ \A m \in {"PURGE", "CLOCK"} : UnderWay(m) <=> On(sys, hand, home.worker, m)
           /\ \A m \in Event : UnderWay(m) <=> On(sys, hand, home.stream, m)
<1>1. home.signal \in Thread /\ home.worker \in Thread /\ home.stream \in Thread
  BY DEF Threads3
<1> QED
  BY <1>1, UnderWayOn DEF PlaceI

\* Whichever thread handles a message, and however late, it finds what it
\* asserts, and the object destroys itself when no thread has another message
\* for it.
THEOREM HandlersSafe == Unhandled = {} => (Spec => []SafeToHandle)
<1> SUFFICES ASSUME Unhandled = {} PROVE Spec => []SafeToHandle
  OBVIOUS
<1>1. IInv => SafeToHandle
  <2> SUFFICES ASSUME IInv PROVE SafeToHandle
    OBVIOUS
  <2>1. PlaceI(home, sys, hand) /\ ObjectI(home, sys, hand) /\ Threads3
    BY TypeThreads DEF IInv, I
  <2>2. UnderWay("DESTROYCHANNEL") => sys.session /\ sys.channel
    BY <2>1, Placed DEF ObjectI
  <2>3. UnderWay("PURGE") => ~sys.session /\ ~sys.channel /\ sys.worker
    BY <2>1, Placed DEF ObjectI
  <2>4. \A e \in Event : UnderWay(e) => sys.stream = "open"
    BY <2>1, Placed DEF ObjectI
  <2>5. UnderWay("CLOCK") => sys.worker
    BY <2>1, Placed DEF ObjectI
  <2>6. UnderWay("DESTROY") =>
          /\ ~sys.worker /\ ~sys.session /\ ~sys.channel
          /\ sys.stream # "open" /\ sys.tcp = NoTcp /\ sys.clocks = 0
    BY <2>1, Placed DEF ObjectI
  <2>7. Own \ {"DESTROY"} = Event \cup {"PURGE", "DESTROYCHANNEL", "CLOCK"}
    BY DEF Own, Message, Event
  <2>8. UnderWay("DESTROY") => \A m \in Own \ {"DESTROY"} : ~UnderWay(m)
    BY <2>2, <2>3, <2>4, <2>5, <2>6, <2>7
  <2> QED
    BY <2>2, <2>3, <2>4, <2>6, <2>8 DEF SafeToHandle
<1> QED
  BY <1>1, Invariance, PTL

\* The object is there as long as its TunnelSession: the message that destroys
\* the one is handled after the message that destroys the other.  A session that
\* the object has let go has ended, and the message that destroys it is under way
\* or about to be posted.  And an open stream never finds that the session of its
\* object was destroyed.
THEOREM NoneDangling == Unhandled = {} => (Spec => []NoDangling)
<1> SUFFICES ASSUME Unhandled = {} PROVE Spec => []NoDangling
  OBVIOUS
<1>1. IInv => NoDangling
  <2> SUFFICES ASSUME IInv PROVE NoDangling
    OBVIOUS
  <2>1. PlaceI(home, sys, hand) /\ SessionI(home, sys, hand) /\ Threads3
    BY TypeThreads DEF IInv, I
  <2>2. UnderWay("STATE") <=> On(sys, hand, home.signal, "STATE")
    BY <2>1, Placed
  <2> QED
    BY <2>1, <2>2 DEF SessionI, NoDangling
<1> QED
  BY <1>1, Invariance, PTL

\* A connection that has begun has a clock, and there are never more than two.
THEOREM ClockKept == Unhandled = {} => (Spec => []ClockIsKept)
<1> SUFFICES ASSUME Unhandled = {} PROVE Spec => []ClockIsKept
  OBVIOUS
<1>1. IInv => ClockIsKept
  <2> SUFFICES ASSUME IInv PROVE ClockIsKept
    OBVIOUS
  <2>1. PlaceI(home, sys, hand) /\ ClockI(home, sys, hand) /\ Threads3
    BY TypeThreads DEF IInv, I
  <2>2. hand[home.worker] = "CLOCK" => UnderWay("CLOCK")
    BY <2>1, Placed DEF On
  <2> QED
    BY <2>1, <2>2 DEF ClockI, ClockIsKept
<1> QED
  BY <1>1, Invariance, PTL

\* How often CLOSE is queued, when it is not there twice.
Closings(q) == Len(Remove(q, Message \ {"CLOSE"}))

LEMMA CountOfClose ==
    ASSUME NEW q \in Seq(Message), Single(q, "CLOSE")
    PROVE  Closings(q) = IF "CLOSE" \in Elements(q) THEN 1 ELSE 0
<1> DEFINE n == Closings(q)
           r == Remove(q, Message \ {"CLOSE"})
<1>1. /\ r \in Seq(Message) /\ Single(r, "CLOSE")
      /\ Elements(r) = Elements(q) \ (Message \ {"CLOSE"})
  BY RemoveElements
<1>2. Elements(q) \subseteq Message
  BY DEF Elements
<1> HIDE DEF r
<1>3. Len(r) \in Nat /\ DOMAIN r = 1 .. Len(r) /\ n = Len(r)
  BY <1>1 DEF r, Closings
<1> HIDE DEF n
<1>4. \A i \in 1 .. Len(r) : r[i] = "CLOSE" /\ "CLOSE" \in Elements(q)
  BY <1>1, <1>2, <1>3 DEF Elements
<1>5. ~(Len(r) >= 2)
  <2> SUFFICES ASSUME Len(r) >= 2 PROVE FALSE
    OBVIOUS
  <2>1. 1 \in DOMAIN r /\ 2 \in DOMAIN r
    BY <1>3
  <2>2. r[1] = "CLOSE" /\ r[2] = "CLOSE"
    BY <1>3, <1>4, <2>1
  <2> QED
    BY <1>1, <2>1, <2>2 DEF Single
<1>6. CASE "CLOSE" \in Elements(q)
  <2>1. "CLOSE" \in Elements(r)
    BY <1>1, <1>6
  <2>2. PICK i \in DOMAIN r : r[i] = "CLOSE"
    BY <2>1 DEF Elements
  <2>3. Len(r) >= 1
    BY <1>3, <2>2
  <2>4. Len(r) = 1
    BY <1>3, <1>5, <2>3
  <2> QED
    BY <1>3, <1>6, <2>4 DEF n
<1>7. CASE "CLOSE" \notin Elements(q)
  <2>1. ~(Len(r) >= 1)
    <3> SUFFICES ASSUME Len(r) >= 1 PROVE FALSE
      OBVIOUS
    <3>1. 1 \in 1 .. Len(r)
      BY <1>3
    <3> QED
      BY <1>4, <1>7, <3>1
  <2> QED
    BY <1>3, <1>7, <2>1 DEF n
<1> QED
  BY <1>6, <1>7

\* An application is told exactly once that its stream is closed, and only when
\* it is.
THEOREM StreamTold == Unhandled = {} => (Spec => []StreamIsTold)
<1> SUFFICES ASSUME Unhandled = {} PROVE Spec => []StreamIsTold
  OBVIOUS
<1>1. IInv => StreamIsTold
  <2> DEFINE q == sys.queue[home.stream]
             n == Closings(q)
  <2> SUFFICES ASSUME IInv, sys.stream = "open"
               PROVE  told.close + n + (IF hand[home.stream] = "CLOSE" THEN 1 ELSE 0)
                         = IF IsClosed THEN 1 ELSE 0
    BY DEF StreamIsTold, Closings
  <2>1. /\ PlaceI(home, sys, hand) /\ ToldI(home, sys, hand, told) /\ Threads3
        /\ sys \in System
    BY TypeThreads DEF IInv, I
  <2>2. q \in Seq(Message)
    BY <2>1 DEF System, Threads3
  <2>3. Single(q, "CLOSE")
    BY <2>1 DEF PlaceI, Once
  <2> HIDE DEF q
  <2>4. n = IF "CLOSE" \in Elements(q) THEN 1 ELSE 0
    BY <2>2, <2>3, CountOfClose
  <2> HIDE DEF n
  <2>5. IsClosed <=> IsOver(sys)
    BY DEF IsClosed, IsOver
  <2>6. /\ On(sys, hand, home.stream, "CLOSE") => IsOver(sys)
        /\ told.close = IF IsOver(sys) /\ ~On(sys, hand, home.stream, "CLOSE") THEN 1 ELSE 0
    BY <2>1 DEF ToldI
  <2>7. /\ On(sys, hand, home.stream, "CLOSE") <=>
             "CLOSE" \in Elements(q) \/ hand[home.stream] = "CLOSE"
        /\ hand[home.stream] = "CLOSE" => "CLOSE" \notin Elements(q)
    BY <2>1 DEF On, PlaceI, q
  <2> QED
    BY <2>4, <2>5, <2>6, <2>7
<1> QED
  BY <1>1, Invariance, PTL

\* Data that can be read is known to the application, or an event for it is
\* under way.
THEOREM DataAnnounced == Unhandled = {} => (Spec => []DataIsAnnounced)
<1> SUFFICES ASSUME Unhandled = {} PROVE Spec => []DataIsAnnounced
  OBVIOUS
<1>1. IInv => DataIsAnnounced
  <2> SUFFICES ASSUME IInv PROVE DataIsAnnounced
    OBVIOUS
  <2>1. PlaceI(home, sys, hand) /\ DataI(home, sys, hand, told) /\ Threads3
    BY TypeThreads DEF IInv, I
  <2>2. Announced(home, sys, hand) <=> UnderWay("OPEN") \/ UnderWay("READ")
    BY <2>1, Placed, Names DEF Announced
  <2>3. sys.tcp.state = "ESTABLISHED" => sys.tcp # NoTcp
    BY DEF NoTcp
  <2> QED
    BY <2>1, <2>2, <2>3 DEF DataI, DataIsAnnounced
<1> QED
  BY <1>1, Invariance, PTL
=============================================================================
