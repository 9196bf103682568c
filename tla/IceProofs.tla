------------------------------ MODULE IceProofs ------------------------------
(***************************************************************************)
(* Invariants of Ice proved for every finite set of paths, all priorities, *)
(* networks and tie breakers, and any number of losses and time limits.    *)
(***************************************************************************)
EXTENDS Ice, QueueProofs, FiniteSetTheorems

\* What holds of one channel: its type, its pointers are to connections that
\* it has, and what it reports is current unless it is to be sorted.
Pointers(h) ==
    /\ h.best \in h.conns \cup {NoPath}
    /\ h.pending \in h.conns \cup {NoPath}
    /\ h.del \subseteq h.conns

Reported(h) ==
    h.writable = (h.best # NoPath /\ h.conn[h.best].write = "writable")

Current(h) == (h.dirty => h.sort) /\ (h.sort \/ Reported(h))

Sound(h) == h \in Channel /\ Pointers(h)

\* An answer under way, or a ping that will be answered, is for a connection
\* that the end which waits for it still has.
Answerable(ms, c) ==
    \A m \in ms :
        /\ m.type # "ping" => m.path \in c[m.to].conns
        /\ m.type = "ping" /\ m.live => m.path \in c[Other(m.to)].conns

\* The inductive invariant.
IInv ==
    /\ TypeOK
    /\ \A p \in End : Pointers(ch[p]) /\ Current(ch[p])
    /\ Answerable(net, ch)

-----------------------------------------------------------------------------
(* Lemmas on the operators of Ice.                                         *)

\* There are two ends.
LEMMA OtherEnd ==
    ASSUME NEW p \in End
    PROVE  Other(p) \in End /\ Other(p) # p /\ Other(Other(p)) = p
           /\ \A q \in End : q # p => q = Other(p)
<1>1. \E q \in End : q # p
  BY IceAssumption
<1>2. Other(p) \in End /\ Other(p) # p
  BY <1>1 DEF Other
<1>3. \A q \in End : q # p => q = Other(p)
  BY <1>2, IceAssumption
<1>4. Other(Other(p)) \in End /\ Other(Other(p)) # Other(p)
  BY <1>2 DEF Other
<1> QED
  BY <1>2, <1>3, <1>4

\* Of a finite set of connections one is before all others.
LEMMA TopExists ==
    ASSUME NEW h \in Channel, NEW C \in SUBSET Path, C # {}
    PROVE  Top(h, C) \in C
<1> DEFINE Has(D) == \E c \in D : \A d \in D \ {c} : Better(h, c, d)
           T == {n \in Nat : \A D \in SUBSET Path :
                    D # {} /\ Cardinality(D) = n => Has(D)}
<1>1. \A D \in SUBSET Path : IsFiniteSet(D) /\ Cardinality(D) \in Nat
  BY FS_Subset, FS_CardinalityType, IceAssumption
<1>2. 0 \in T
  BY <1>1, FS_EmptySet
<1>3. ASSUME NEW n \in T PROVE n + 1 \in T
  <2> SUFFICES ASSUME NEW D \in SUBSET Path, D # {}, Cardinality(D) = n + 1
               PROVE  Has(D)
    OBVIOUS
  <2>1. PICK c \in D : TRUE
    OBVIOUS
  <2>2. Cardinality(D \ {c}) = n
    BY <1>1, <2>1, FS_RemoveElement
  <2>3. CASE D \ {c} = {}
    BY <2>1, <2>3
  <2>4. CASE D \ {c} # {}
    <3>1. PICK e \in D \ {c} : \A d \in (D \ {c}) \ {e} : Better(h, e, d)
      BY <2>2, <2>4
    <3>2. Better(h, c, e) \/ Better(h, e, c)
      <4>1. c \in Path /\ e \in Path /\ c # e
        BY <2>1, <3>1
      <4>2. /\ h.conn[c].write \in {"writable", "unreliable", "init", "timeout"}
            /\ h.conn[e].write \in {"writable", "unreliable", "init", "timeout"}
        BY <4>1 DEF Channel, Connection
      <4>3. /\ Priority[c] \in Nat /\ Priority[e] \in Nat
            /\ Priority[c] # Priority[e]
        BY <4>1, IceAssumption
      <4> QED
        BY <4>2, <4>3 DEF Better, Rank
    <3>3. CASE Better(h, e, c)
      BY <3>1, <3>3
    <3>4. CASE Better(h, c, e)
      <4>1. ASSUME NEW d \in D \ {c} PROVE Better(h, c, d)
        <5>1. CASE d = e
          BY <3>4, <5>1
        <5>2. CASE d # e
          <6>1. Better(h, e, d)
            BY <3>1, <5>2
          <6>2. \A x \in {c, d, e} :
                    /\ h.conn[x].write \in {"writable", "unreliable", "init", "timeout"}
                    /\ Priority[x] \in Nat
            BY <2>1, <3>1, IceAssumption DEF Channel, Connection
          <6> QED
            BY <3>4, <6>1, <6>2 DEF Better, Rank
        <5> QED
          BY <5>1, <5>2
      <4> QED
        BY <2>1, <4>1
    <3> QED
      BY <3>2, <3>3, <3>4
  <2> QED
    BY <2>3, <2>4
<1>4. T = Nat
  <2> HIDE DEF T
  <2>1. T \in SUBSET Nat
    BY DEF T
  <2> QED
    BY <1>2, <1>3, <2>1, Induction
<1>5. Has(C)
  BY <1>1, <1>4
<1> QED
  BY <1>5 DEF Top

\* RequestSort leaves a sort queued, and everything else as it is.
LEMMA RequestSortKeeps ==
    ASSUME NEW h \in Channel
    PROVE  /\ RequestSort(h) \in Channel
           /\ (h.dirty => h.sort) => RequestSort(h).sort
           /\ RequestSort(h).dirty => RequestSort(h).sort \/ (h.dirty /\ ~h.sort)
           /\ Sound(h) => Sound(RequestSort(h))
           /\ RequestSort(h).conns = h.conns /\ RequestSort(h).conn = h.conn
           /\ RequestSort(h).role = h.role
BY DEF RequestSort, Channel, Sound, Pointers

\* What an operator that changes the connections it is given leaves behind.
Good(g, h) == Sound(g) /\ Current(g) /\ g.conns = h.conns

\* A change of state queues a sort and may move the best connection only to
\* one the channel has.
LEMMA StateChangeKeeps ==
    ASSUME NEW h, Sound(h), h.dirty => h.sort, NEW c \in h.conns
    PROVE  /\ Sound(OnConnectionStateChange(h, c))
           /\ OnConnectionStateChange(h, c).sort
           /\ OnConnectionStateChange(h, c).conns = h.conns
<1> DEFINE g == IF /\ h.role = "controlled" /\ c = h.pending
                   /\ h.conn[c].write = "writable"
                THEN [h EXCEPT !.best = c, !.pending = NoPath]
                ELSE h
<1>1. /\ g \in Channel /\ Sound(g) /\ g.dirty = h.dirty /\ g.sort = h.sort
      /\ g.conns = h.conns
  BY DEF Sound, Channel, Pointers
<1>2. OnConnectionStateChange(h, c) = RequestSort(g)
  BY DEF OnConnectionStateChange
<1> HIDE DEF g
<1> QED
  BY <1>1, <1>2, RequestSortKeeps

\* CheckTimeout only queues the deletion of a connection the channel has.
LEMMA CheckTimeoutKeeps ==
    ASSUME NEW h, Sound(h), NEW c \in h.conns
    PROVE  /\ Sound(CheckTimeout(h, c))
           /\ CheckTimeout(h, c).conns = h.conns
           /\ CheckTimeout(h, c).sort = h.sort
           /\ Current(h) => Current(CheckTimeout(h, c))
BY DEF CheckTimeout, Sound, Channel, Pointers, Current, Reported

\* A connection that is replaced by another one, with the rest as it is.
LEMMA Replaced ==
    ASSUME NEW h, Sound(h), NEW c \in Path, NEW k \in Connection,
           NEW g, g = [h EXCEPT !.conn = [h.conn EXCEPT ![c] = k]]
    PROVE  /\ Sound(g) /\ g.conns = h.conns /\ g.sort = h.sort
           /\ g.dirty = h.dirty /\ g.conn[c] = k
           /\ k.write = h.conn[c].write /\ Current(h) => Current(g)
BY DEF Sound, Channel, Pointers, Current, Reported

\* set_write_state leaves the channel sound, and its report current or to be
\* put right.
LEMMA SetWriteStateKeeps ==
    ASSUME NEW h, Sound(h), Current(h), NEW c \in h.conns,
           NEW w \in {"writable", "unreliable", "init", "timeout"}
    PROVE  Good(SetWriteState(h, c, w), h)
<1> DEFINE k == [h.conn[c] EXCEPT !.write = w]
           g == [h EXCEPT !.conn[c].write = w]
<1>1. CASE h.conn[c].write = w
  BY <1>1 DEF SetWriteState, Good
<1>2. CASE h.conn[c].write # w
  <2>0. c \in Path /\ k \in Connection /\ g = [h EXCEPT !.conn = [h.conn EXCEPT ![c] = k]]
    BY DEF Sound, Channel, Connection
  <2>1. Sound(g) /\ (g.dirty => g.sort) /\ g.conns = h.conns
    BY <2>0, Replaced DEF Current
  <2>2. SetWriteState(h, c, w) = CheckTimeout(OnConnectionStateChange(g, c), c)
    BY <1>2 DEF SetWriteState
  <2> HIDE DEF g
  <2>3. /\ Sound(OnConnectionStateChange(g, c))
        /\ OnConnectionStateChange(g, c).sort
        /\ OnConnectionStateChange(g, c).conns = h.conns
    BY <2>1, StateChangeKeeps
  <2>4. Current(OnConnectionStateChange(g, c))
    BY <2>3 DEF Current
  <2> QED
    BY <2>2, <2>3, <2>4, CheckTimeoutKeeps DEF Good
<1> QED
  BY <1>1, <1>2

\* set_read_state does the same.
LEMMA SetReadStateKeeps ==
    ASSUME NEW h, Sound(h), Current(h), NEW c \in h.conns,
           NEW r \in {"init", "readable", "timeout"}
    PROVE  Good(SetReadState(h, c, r), h)
<1> DEFINE k == [h.conn[c] EXCEPT !.read = r]
           g == [h EXCEPT !.conn[c].read = r]
<1>1. CASE h.conn[c].read = r
  BY <1>1 DEF SetReadState, Good
<1>2. CASE h.conn[c].read # r
  <2>0. c \in Path /\ k \in Connection /\ g = [h EXCEPT !.conn = [h.conn EXCEPT ![c] = k]]
    BY DEF Sound, Channel, Connection
  <2>1. Sound(g) /\ (g.dirty => g.sort) /\ g.conns = h.conns
    BY <2>0, Replaced DEF Current
  <2>2. SetReadState(h, c, r) = CheckTimeout(OnConnectionStateChange(g, c), c)
    BY <1>2 DEF SetReadState
  <2> HIDE DEF g
  <2>3. /\ Sound(OnConnectionStateChange(g, c))
        /\ OnConnectionStateChange(g, c).sort
        /\ OnConnectionStateChange(g, c).conns = h.conns
    BY <2>1, StateChangeKeeps
  <2>4. Current(OnConnectionStateChange(g, c))
    BY <2>3 DEF Current
  <2> QED
    BY <2>2, <2>3, <2>4, CheckTimeoutKeeps DEF Good
<1> QED
  BY <1>1, <1>2

\* ReceivedPing on a connection the channel has.
LEMMA ReceivedPingKeeps ==
    ASSUME NEW h, Sound(h), Current(h), NEW c \in h.conns
    PROVE  Good(ReceivedPing(h, c), h)
<1> DEFINE k == [h.conn[c] EXCEPT !.silent = FALSE]
           g == [h EXCEPT !.conn[c].silent = FALSE]
<1>0. c \in Path /\ h.conn[c] \in Connection
  BY DEF Sound, Channel
<1>1. k \in Connection /\ k.write = h.conn[c].write
  BY <1>0 DEF Connection
<1>2. g = [h EXCEPT !.conn = [h.conn EXCEPT ![c] = k]]
  BY <1>0 DEF Sound, Channel
<1>3. ReceivedPing(h, c) = SetReadState(g, c, "readable")
  BY DEF ReceivedPing
<1> HIDE DEF g, k
<1>4. Sound(g) /\ Current(g) /\ g.conns = h.conns
  BY <1>0, <1>1, <1>2, Replaced
<1> QED
  BY <1>3, <1>4, SetReadStateKeeps DEF Good

\* Connections that get worse: the channel stays sound, and a change of a
\* connection it has queues a sort.
LEMMA DegradeKeeps ==
    ASSUME NEW h, Sound(h), NEW new \in [Path -> Connection],
           \A c \in Path \ h.conns : new[c] = h.conn[c]
    PROVE  /\ Sound(Degrade(h, new))
           /\ Degrade(h, new).conns = h.conns
           /\ Degrade(h, new).dirty => Degrade(h, new).sort \/ (h.dirty /\ ~h.sort)
           /\ Current(h) => Current(Degrade(h, new))
<1> DEFINE changed == {c \in h.conns : new[c].read # h.conn[c].read
                                       \/ new[c].write # h.conn[c].write}
           g == [h EXCEPT !.conn = new,
                          !.del = @ \cup {c \in changed : Dead(new[c])}]
<1>1. Degrade(h, new) = IF changed = {} THEN g ELSE RequestSort(g)
  BY DEF Degrade
<1>2. /\ g \in Channel /\ Sound(g) /\ g.conns = h.conns
      /\ g.dirty = h.dirty /\ g.sort = h.sort
  BY DEF Sound, Channel, Pointers
<1>3. CASE changed = {}
  <2>1. Current(h) => Current(g)
    <3> SUFFICES ASSUME h.best # NoPath
                 PROVE  g.conn[h.best].write = h.conn[h.best].write
      BY DEF Current, Reported
    <3> QED
      BY <1>3 DEF Sound, Channel, Pointers
  <2>2. h.dirty => h.sort \/ (h.dirty /\ ~h.sort)
    BY DEF Sound, Channel
  <2> QED
    BY <1>1, <1>2, <1>3, <2>1, <2>2
<1>4. CASE changed # {}
  <2> HIDE DEF g, changed
  <2> QED
    BY <1>1, <1>2, <1>4, RequestSortKeeps DEF Current
<1> QED
  BY <1>3, <1>4

\* UpdateConnectionStates.
LEMMA UpdateKeeps ==
    ASSUME NEW h, Sound(h)
    PROVE  /\ Sound(UpdateConnectionStates(h))
           /\ UpdateConnectionStates(h).conns = h.conns
           /\ Current(h) => Current(UpdateConnectionStates(h))
<1> DEFINE new == [c \in Path |->
               IF c \in h.conns THEN UpdateState(h.conn[c]) ELSE h.conn[c]]
<1>1. \A k \in Connection : UpdateState(k) \in Connection
  BY DEF UpdateState, Connection
<1>2. new \in [Path -> Connection] /\ \A c \in Path \ h.conns : new[c] = h.conn[c]
  BY <1>1 DEF Sound, Channel
<1>3. UpdateConnectionStates(h) = Degrade(h, new)
  BY DEF UpdateConnectionStates
<1> HIDE DEF new
<1> QED
  BY <1>2, <1>3, DegradeKeeps

\* SelectBest takes a connection that the channel has.
LEMMA SelectBestKeeps ==
    ASSUME NEW h, Sound(h)
    PROVE  /\ Sound(SelectBest(h)) /\ SelectBest(h).conns = h.conns
           /\ SelectBest(h).dirty = h.dirty
<1>1. Top(h, h.conns) \in h.conns \cup {NoPath}
  BY TopExists DEF Sound, Channel, Top
<1> QED
  BY <1>1 DEF SelectBest, Sound, Channel, Pointers

\* PruneConnections makes connections useless that the channel has.
LEMMA PruneKeeps ==
    ASSUME NEW h, Sound(h), h.dirty = FALSE
    PROVE  /\ Sound(PruneConnections(h)) /\ PruneConnections(h).conns = h.conns
           /\ PruneConnections(h).dirty => PruneConnections(h).sort
<1> DEFINE new == [c \in Path |->
               IF c \in ToPrune(h) THEN Prune(h.conn[c]) ELSE h.conn[c]]
<1>1. \A k \in Connection : Prune(k) \in Connection
  BY DEF Prune, Connection
<1>2. ToPrune(h) \subseteq h.conns
  BY DEF ToPrune
<1>3. new \in [Path -> Connection] /\ \A c \in Path \ h.conns : new[c] = h.conn[c]
  BY <1>1, <1>2 DEF Sound, Channel
<1>4. PruneConnections(h) = Degrade(h, new)
  BY DEF PruneConnections
<1> HIDE DEF new
<1> QED
  BY <1>3, <1>4, DegradeKeeps

\* UpdateChannelState puts right what the channel reports.
LEMMA UpdateChannelStateReports ==
    ASSUME NEW h, Sound(h)
    PROVE  /\ Sound(UpdateChannelState(h)) /\ Reported(UpdateChannelState(h))
           /\ UpdateChannelState(h).conns = h.conns
           /\ UpdateChannelState(h).dirty = h.dirty
           /\ UpdateChannelState(h).sort = h.sort
BY DEF UpdateChannelState, Sound, Channel, Pointers, Reported

\* SortConnections leaves a channel that is right, whatever it was before.
LEMMA SortConnectionsIsGood ==
    ASSUME NEW h, Sound(h)
    PROVE  Good(SortConnections(h), h)
<1> DEFINE u == UpdateConnectionStates(h)
           g == [u EXCEPT !.dirty = FALSE]
           b == SelectBest(g)
           r == PruneConnections(b)
<1>1. Sound(u) /\ u.conns = h.conns
  BY UpdateKeeps
<1>2. Sound(g) /\ g.conns = h.conns /\ g.dirty = FALSE
  <2> HIDE DEF u
  <2> QED
    BY <1>1 DEF Sound, Channel, Pointers
<1>3. Sound(b) /\ b.conns = h.conns /\ b.dirty = FALSE
  <2> HIDE DEF g
  <2> QED
    BY <1>2, SelectBestKeeps
<1>4. Sound(r) /\ r.conns = h.conns /\ (r.dirty => r.sort)
  <2> HIDE DEF b
  <2> QED
    BY <1>3, PruneKeeps
<1>5. SortConnections(h) = UpdateChannelState(r)
  <2>1. Then(g, SelectBest) = b
    BY Zenon DEF Then
  <2>2. Then(b, PruneConnections) = r
    BY Zenon DEF Then
  <2>3. Then(r, UpdateChannelState) = UpdateChannelState(r)
    BY Zenon DEF Then
  <2> QED
    BY <2>1, <2>2, <2>3, Zenon DEF SortConnections
<1> HIDE DEF r
<1> QED
  BY <1>4, <1>5, UpdateChannelStateReports DEF Good, Current

\* OnUseCandidate names a connection that the channel has.
LEMMA OnUseCandidateKeeps ==
    ASSUME NEW h, Sound(h), Current(h), NEW c \in h.conns
    PROVE  Good(OnUseCandidate(h, c), h)
<1> DEFINE g == [h EXCEPT !.best = c, !.pending = NoPath]
<1>1. /\ g \in Channel /\ Sound(g) /\ g.conns = h.conns
      /\ g.dirty = h.dirty /\ g.sort = h.sort
  BY DEF Sound, Channel, Pointers
<1>2. Good([h EXCEPT !.pending = c], h)
  BY DEF Good, Sound, Channel, Pointers, Current, Reported
<1>3. Good(RequestSort(g), h)
  <2> HIDE DEF g
  <2> QED
    BY <1>1, RequestSortKeeps DEF Good, Current
<1> QED
  BY <1>2, <1>3 DEF OnUseCandidate, Good

\* A binding request for a connection that the channel has.
LEMMA RestartKeeps ==
    ASSUME NEW h, Sound(h), Current(h), NEW c \in h.conns
    PROVE  Good(Restart(h, c), h)
BY SetWriteStateKeeps DEF Restart, Good

LEMMA OnRequestKeeps ==
    ASSUME NEW h, Sound(h), Current(h), NEW c \in h.conns, NEW m
    PROVE  Good(OnRequest(h, c, m), h)
<1> DEFINE a == ReceivedPing(h, c)
           g == Restart(a, c)
<1>1. Good(a, h)
  BY ReceivedPingKeeps
<1>2. Good(g, h)
  <2> HIDE DEF a
  <2> QED
    BY <1>1, RestartKeeps DEF Good
<1>3. OnRequest(h, c, m) = IF h.role = "controlled" /\ m.use
                           THEN OnUseCandidate(g, c) ELSE g
  BY DEF OnRequest
<1> HIDE DEF g
<1> QED
  BY <1>2, <1>3, OnUseCandidateKeeps DEF Good

\* A binding request from a new address makes a connection for it.
LEMMA OnUnknownAddressKeeps ==
    ASSUME NEW h, Sound(h), Current(h), NEW c \in Path
    PROVE  /\ Sound(OnUnknownAddress(h, c)) /\ Current(OnUnknownAddress(h, c))
           /\ OnUnknownAddress(h, c).conns = h.conns \cup {c}
<1> DEFINE g == [h EXCEPT !.conns = @ \cup {c}]
<1>1. Sound(g) /\ Current(g) /\ g.conns = h.conns \cup {c}
  BY DEF Sound, Channel, Pointers, Current, Reported
<1>2. OnUnknownAddress(h, c) = SortConnections(ReceivedPing(g, c))
  BY DEF OnUnknownAddress
<1> HIDE DEF g
<1>3. Good(ReceivedPing(g, c), g)
  BY <1>1, ReceivedPingKeeps
<1> QED
  BY <1>1, <1>2, <1>3, SortConnectionsIsGood DEF Good

\* Forget only takes answers away, and what is under way for other connections
\* stays as it is.
LEMMA ForgetKeeps ==
    ASSUME NEW ms \in SUBSET Message, NEW p \in End, NEW C,
           NEW m \in Forget(ms, p, C)
    PROVE  /\ m \in Message
           /\ \/ m.type # "ping" /\ m \in ms /\ ~(m.to = p /\ m.path \in C)
              \/ /\ m.type = "ping"
                 /\ m.live => m \in ms /\ ~(m.to # p /\ m.path \in C)
<1>1. CASE m \in {n \in ms : n.type # "ping" /\ ~(n.to = p /\ n.path \in C)}
  BY <1>1
<1>2. CASE \E n \in ms : /\ n.type = "ping"
                        /\ m = [n EXCEPT !.live = n.live /\ ~(n.to # p /\ n.path \in C)]
  <2>1. PICK n \in ms : /\ n.type = "ping"
                        /\ m = [n EXCEPT !.live = n.live /\ ~(n.to # p /\ n.path \in C)]
    BY <1>2
  <2>2. n \in [type : {"ping"}, to : End, path : Path, use : BOOLEAN,
               live : BOOLEAN, role : {"controlling", "controlled"}]
    BY <2>1 DEF Message
  <2>3. m \in Message /\ m.type = "ping"
    BY <2>1, <2>2 DEF Message
  <2>4. m.live => m = n /\ ~(n.to # p /\ n.path \in C)
    BY <2>1, <2>2
  <2> QED
    BY <2>3, <2>4
<1> QED
  BY <1>1, <1>2 DEF Forget

\* A handler that keeps the connections of its channel, and has every answer and
\* ping for connections that exist, keeps the invariant.
LEMMA StepKeeps ==
    ASSUME IInv, NEW p \in End, NEW h, Sound(h), Current(h),
           ch[p].conns \subseteq h.conns,
           NEW ms \in SUBSET Message, Answerable(ms, [ch EXCEPT ![p] = h]),
           Step(p, h, ms),
           known' \in [End -> SUBSET Path], conflict' \subseteq End,
           faults' \in 0 .. MaxFaults
    PROVE  IInv'
<1>1. ch' = [ch EXCEPT ![p] = h] /\ net' = Forget(ms, p, Pruned(ch[p], h))
  BY DEF Step
<1>2. ch' \in [End -> Channel] /\ \A q \in End : Pointers(ch'[q]) /\ Current(ch'[q])
  BY <1>1 DEF IInv, TypeOK, Sound
<1>3. net' \subseteq Message
  BY <1>1, ForgetKeeps
<1>4. Answerable(net', ch')
  BY <1>1, ForgetKeeps DEF Answerable
<1> QED
  BY <1>2, <1>3, <1>4 DEF IInv, TypeOK, Pointers, Current, Reported, Answerable

\* The same for one that takes nothing from the network and adds nothing.
LEMMA QuietStepKeeps ==
    ASSUME IInv, NEW p \in End, NEW h, Sound(h), Current(h),
           ch[p].conns \subseteq h.conns, Step(p, h, net),
           known' \in [End -> SUBSET Path], UNCHANGED <<conflict, faults>>
    PROVE  IInv'
<1>1. Answerable(net, [ch EXCEPT ![p] = h])
  <2> SUFFICES ASSUME NEW m \in net
               PROVE  /\ m.type # "ping" => m.path \in [ch EXCEPT ![p] = h][m.to].conns
                      /\ m.type = "ping" /\ m.live =>
                            m.path \in [ch EXCEPT ![p] = h][Other(m.to)].conns
    BY DEF Answerable
  <2>1. m.to \in End /\ Other(m.to) \in End
    BY OtherEnd DEF IInv, TypeOK, Message
  <2> QED
    BY <2>1 DEF IInv, TypeOK, Answerable
<1> QED
  BY <1>1, StepKeeps DEF IInv, TypeOK

-----------------------------------------------------------------------------
(* Every action keeps the invariant.                                       *)

\* A channel of a state that satisfies the invariant.
LEMMA ChannelIsSound ==
    ASSUME IInv, NEW p \in End
    PROVE  /\ Sound(ch[p]) /\ Current(ch[p]) /\ ch[p].conns \subseteq Path
           /\ ch[p].conn \in [Path -> Connection]
BY DEF IInv, TypeOK, Sound, Channel

LEMMA AddPathKeeps ==
    ASSUME IInv, NEW p \in End, NEW c \in Path, AddPath(p, c)
    PROVE  IInv'
<1> DEFINE g == [ch[p] EXCEPT !.conns = @ \cup {c}]
<1>1. Sound(g) /\ g.conns = ch[p].conns \cup {c}
  BY ChannelIsSound DEF Sound, Channel, Pointers
<1>2. known' \in [End -> SUBSET Path]
  BY DEF AddPath, IInv, TypeOK
<1>3. Step(p, SortConnections(g), net) /\ UNCHANGED <<conflict, faults>>
  BY DEF AddPath
<1> HIDE DEF g
<1> QED
  BY <1>1, <1>2, <1>3, SortConnectionsIsGood, QuietStepKeeps DEF Good

LEMMA OnSortKeeps ==
    ASSUME IInv, NEW p \in End, OnSort(p)
    PROVE  IInv'
<1> DEFINE g == [ch[p] EXCEPT !.sort = FALSE]
<1>1. Sound(g) /\ g.conns = ch[p].conns
  BY ChannelIsSound DEF Sound, Channel, Pointers
<1>2. Step(p, SortConnections(g), net) /\ UNCHANGED <<known, conflict, faults>>
  BY DEF OnSort
<1> HIDE DEF g
<1> QED
  BY <1>1, <1>2, SortConnectionsIsGood, QuietStepKeeps DEF Good, IInv, TypeOK

LEMMA OnPingKeeps ==
    ASSUME IInv, NEW p \in End, NEW c \in Path, OnPing(p, c)
    PROVE  IInv'
<1> DEFINE h == UpdateConnectionStates(ch[p])
           ping == [type |-> "ping", to |-> Other(p), path |-> c, live |-> TRUE,
                    use |-> UseCandidate(h, c), role |-> h.role]
           k == [h.conn[c] EXCEPT !.pings = IF @ < MaxFailures THEN @ + 1 ELSE @]
           g == [h EXCEPT !.conn[c].pings = IF @ < MaxFailures THEN @ + 1 ELSE @]
<1>1. Sound(h) /\ Current(h) /\ h.conns = ch[p].conns
  BY ChannelIsSound, UpdateKeeps
<1>2. /\ c \in ch[p].conns /\ Step(p, g, net \cup {ping})
      /\ UNCHANGED <<known, conflict, faults>>
  BY DEF OnPing
<1>3. UseCandidate(h, c) \in BOOLEAN
  BY DEF UseCandidate
<1> HIDE DEF h
<1>4. /\ k \in Connection /\ k.write = h.conn[c].write
      /\ g = [h EXCEPT !.conn = [h.conn EXCEPT ![c] = k]]
  <2>1. h.conn[c] \in Connection /\ h.conn \in [Path -> Connection]
    BY <1>1 DEF Sound, Channel
  <2>2. k \in Connection /\ k.write = h.conn[c].write
    BY <2>1, IceAssumption DEF Connection
  <2>3. g = [h EXCEPT !.conn = [h.conn EXCEPT ![c] = k]]
    BY <1>1, <2>1 DEF Sound, Channel
  <2> QED
    BY <2>2, <2>3
<1>5. ping \in Message
  BY <1>1, <1>3, OtherEnd DEF Message, Sound, Channel
<1>6. ping.type = "ping" /\ ping.path = c /\ ping.to = Other(p)
  OBVIOUS
<1> HIDE DEF k, g, ping
<1>7. Sound(g) /\ Current(g) /\ g.conns = ch[p].conns
  BY <1>1, <1>4, Replaced
<1>8. Answerable(net \cup {ping}, [ch EXCEPT ![p] = g])
  <2> SUFFICES ASSUME NEW m \in net \cup {ping}
               PROVE  /\ m.type # "ping" => m.path \in [ch EXCEPT ![p] = g][m.to].conns
                      /\ m.type = "ping" /\ m.live =>
                            m.path \in [ch EXCEPT ![p] = g][Other(m.to)].conns
    BY DEF Answerable
  <2>1. CASE m = ping
    BY <1>2, <1>6, <1>7, <2>1, OtherEnd DEF IInv, TypeOK
  <2>2. CASE m \in net
    <3>1. m.to \in End /\ Other(m.to) \in End
      BY <2>2, OtherEnd DEF IInv, TypeOK, Message
    <3> QED
      BY <1>7, <2>2, <3>1 DEF IInv, TypeOK, Answerable
  <2> QED
    BY <2>1, <2>2
<1>9. net \cup {ping} \in SUBSET Message
  BY <1>5 DEF IInv, TypeOK
<1> QED
  BY <1>2, <1>7, <1>8, <1>9, StepKeeps DEF IInv, TypeOK

LEMMA OnPingNothingKeeps ==
    ASSUME IInv, NEW p \in End, OnPingNothing(p)
    PROVE  IInv'
<1>1. /\ Step(p, UpdateConnectionStates(ch[p]), net)
      /\ UNCHANGED <<known, conflict, faults>>
  BY DEF OnPingNothing
<1> QED
  BY <1>1, ChannelIsSound, UpdateKeeps, QuietStepKeeps DEF IInv, TypeOK

\* A message under way is to an end, for a path; taking one away, or answering
\* a ping that is still wanted, leaves the others for connections that exist.
LEMMA RestIsAnswerable ==
    ASSUME IInv, NEW p \in End, NEW h, ch[p].conns \subseteq h.conns,
           NEW ms \in SUBSET net, NEW answers \in SUBSET Message,
           \A a \in answers : /\ a.type # "ping" /\ a.to = Other(p)
                             /\ a.path \in ch[Other(p)].conns
    PROVE  /\ ms \cup answers \in SUBSET Message
           /\ Answerable(ms \cup answers, [ch EXCEPT ![p] = h])
<1>1. ms \cup answers \in SUBSET Message
  BY DEF IInv, TypeOK
<1>2. ASSUME NEW m \in ms \cup answers
      PROVE  /\ m.type # "ping" => m.path \in [ch EXCEPT ![p] = h][m.to].conns
             /\ m.type = "ping" /\ m.live =>
                   m.path \in [ch EXCEPT ![p] = h][Other(m.to)].conns
  <2>1. CASE m \in answers
    BY <2>1, OtherEnd DEF IInv, TypeOK
  <2>2. CASE m \in net
    <3>1. m.to \in End /\ Other(m.to) \in End
      BY <2>2, OtherEnd DEF IInv, TypeOK, Message
    <3> QED
      BY <2>2, <3>1 DEF IInv, TypeOK, Answerable
  <2> QED
    BY <2>1, <2>2
<1> QED
  BY <1>1, <1>2 DEF Answerable

LEMMA ReceivePingKeeps ==
    ASSUME IInv, NEW p \in End, NEW m \in net, ReceivePing(p, m)
    PROVE  IInv'
<1> DEFINE answer(t) == IF m.live
                        THEN {[type |-> t, to |-> Other(p), path |-> m.path]} ELSE {}
           rest == net \ {m}
           h == IF m.path \in ch[p].conns THEN OnRequest(ch[p], m.path, m)
                ELSE OnUnknownAddress(ch[p], m.path)
<1>1. m.type = "ping" /\ m.to = p /\ m.path \in Path
  BY DEF ReceivePing, IInv, TypeOK, Message
<1>2. \A t \in {"response", "conflict"} : \A a \in answer(t) :
          /\ a \in Message /\ a.type # "ping" /\ a.to = Other(p)
          /\ a.path \in ch[Other(p)].conns
  BY <1>1, OtherEnd DEF IInv, Answerable, Message
<1>3. UNCHANGED <<known, faults>> /\ conflict' \subseteq End
  BY DEF ReceivePing, IInv, TypeOK
<1>4. CASE SameRole(p, m) /\ ~Yields(p, m)
  <2>1. net' = rest \cup answer("conflict") /\ UNCHANGED ch
    BY <1>4 DEF ReceivePing
  <2>2. /\ net' \in SUBSET Message
        /\ Answerable(net', [ch EXCEPT ![p] = ch[p]])
    <3> DEFINE answers == answer("conflict")
    <3>1. /\ rest \in SUBSET net /\ answers \in SUBSET Message
          /\ \A a \in answers : /\ a.type # "ping" /\ a.to = Other(p)
                               /\ a.path \in ch[Other(p)].conns
      BY <1>2
    <3>2. ch[p].conns \subseteq ch[p].conns /\ net' = rest \cup answers
      BY <2>1
    <3> HIDE DEF rest, answer, answers
    <3> QED
      BY <3>1, <3>2, RestIsAnswerable
  <2>3. [ch EXCEPT ![p] = ch[p]] = ch
    BY DEF IInv, TypeOK
  <2> QED
    BY <1>3, <2>1, <2>2, <2>3 DEF IInv, TypeOK, Pointers, Current, Reported, Answerable
<1>5. CASE /\ ~(SameRole(p, m) /\ ~Yields(p, m))
           /\ m.path \notin ch[p].conns /\ ~KnownUsername(p)
  <2>1. net' = rest /\ UNCHANGED ch
    BY <1>5 DEF ReceivePing
  <2>2. net' \in SUBSET Message /\ Answerable(net', ch)
    BY <2>1 DEF IInv, TypeOK, Answerable
  <2> QED
    BY <1>3, <2>1, <2>2 DEF IInv, TypeOK, Pointers, Current, Reported, Answerable
<1>6. CASE /\ ~(SameRole(p, m) /\ ~Yields(p, m))
           /\ m.path \in ch[p].conns \/ KnownUsername(p)
  <2>1. Step(p, h, rest \cup answer("response"))
    BY <1>6 DEF ReceivePing
  <2>2. Sound(h) /\ Current(h) /\ ch[p].conns \subseteq h.conns
    BY <1>1, ChannelIsSound, OnRequestKeeps, OnUnknownAddressKeeps DEF Good
  <2> HIDE DEF answer, h
  <2>3. /\ rest \cup answer("response") \in SUBSET Message
        /\ Answerable(rest \cup answer("response"), [ch EXCEPT ![p] = h])
    <3> DEFINE answers == answer("response")
    <3>1. /\ rest \in SUBSET net /\ answers \in SUBSET Message
          /\ \A a \in answers : /\ a.type # "ping" /\ a.to = Other(p)
                               /\ a.path \in ch[Other(p)].conns
      BY <1>2
    <3> HIDE DEF rest, answers
    <3> QED
      BY <2>2, <3>1, RestIsAnswerable DEF answers
  <2> QED
    BY <1>3, <2>1, <2>2, <2>3, StepKeeps DEF IInv, TypeOK
<1> QED
  BY <1>4, <1>5, <1>6

LEMMA ReceiveResponseKeeps ==
    ASSUME IInv, NEW p \in End, NEW m \in net, ReceiveResponse(p, m)
    PROVE  IInv'
<1> DEFINE c == m.path
           h == SetWriteState(ch[p], c, "writable")
           k == [h.conn[c] EXCEPT !.pings = 0, !.failed = FALSE, !.late = FALSE]
           g == [h EXCEPT !.conn[c].pings = 0, !.conn[c].failed = FALSE,
                          !.conn[c].late = FALSE]
<1>1. /\ m.type = "response" /\ m.to = p /\ Step(p, g, net \ {m})
      /\ UNCHANGED <<known, conflict, faults>>
  BY DEF ReceiveResponse
<1>2. c \in ch[p].conns
  BY <1>1 DEF IInv, Answerable
<1>3. Good(h, ch[p])
  BY <1>2, ChannelIsSound, SetWriteStateKeeps
<1> HIDE DEF h
<1>4. c \in Path /\ h.conn[c] \in Connection /\ h.conn \in [Path -> Connection]
  BY <1>2, <1>3, ChannelIsSound DEF Good, Sound, Channel
<1>5. k \in Connection /\ k.write = h.conn[c].write
  <2>1. 0 \in 0 .. MaxFailures
    BY IceAssumption
  <2> QED
    BY <1>4, <2>1 DEF Connection
<1>6. g = [h EXCEPT !.conn = [h.conn EXCEPT ![c] = k]]
  BY <1>3, <1>4 DEF Good, Sound, Channel
<1> HIDE DEF c, g, k
<1>7. Sound(g) /\ Current(g) /\ g.conns = ch[p].conns
  BY <1>3, <1>4, <1>5, <1>6, Replaced DEF Good
<1>8. /\ net \ {m} \in SUBSET Message
      /\ Answerable(net \ {m}, [ch EXCEPT ![p] = g])
  <2>1. (net \ {m}) \cup {} = net \ {m} /\ net \ {m} \in SUBSET net
    OBVIOUS
  <2>2. {} \in SUBSET Message /\ ch[p].conns \subseteq g.conns
    BY <1>7
  <2> QED
    BY <2>1, <2>2, RestIsAnswerable
<1> QED
  BY <1>1, <1>7, <1>8, StepKeeps DEF IInv, TypeOK

\* A message that goes without a trace, lost or for the signalling thread.
LEMMA TakenKeeps ==
    ASSUME IInv, NEW m \in net, net' = net \ {m}, UNCHANGED <<ch, known>>,
           conflict' \subseteq End, faults' \in 0 .. MaxFaults
    PROVE  IInv'
BY DEF IInv, TypeOK, Pointers, Current, Reported, Answerable

LEMMA OnRoleConflictKeeps ==
    ASSUME IInv, NEW p \in End, OnRoleConflict(p)
    PROVE  IInv'
<1> DEFINE g == IF ch[p].switched THEN ch[p]
                ELSE [ch[p] EXCEPT !.switched = TRUE,
                                   !.role = IF p \in Initiator THEN "controlled"
                                            ELSE "controlling"]
<1>1. /\ ch' = [ch EXCEPT ![p] = g] /\ conflict' \subseteq End
      /\ UNCHANGED <<known, net, faults>>
  BY DEF OnRoleConflict, IInv, TypeOK
<1>2. /\ Sound(g) /\ Current(g) /\ g.conns = ch[p].conns
  BY ChannelIsSound DEF Sound, Channel, Pointers, Current, Reported
<1> HIDE DEF g
<1>3. ch' \in [End -> Channel] /\ \A q \in End : Pointers(ch'[q]) /\ Current(ch'[q])
  BY <1>1, <1>2 DEF IInv, TypeOK, Sound
<1>4. Answerable(net', ch')
  <2>1. net \cup {} = net /\ net \in SUBSET net /\ {} \in SUBSET Message
    OBVIOUS
  <2>2. ch[p].conns \subseteq g.conns
    BY <1>2
  <2>3. Answerable(net, [ch EXCEPT ![p] = g])
    BY <2>1, <2>2, RestIsAnswerable
  <2> QED
    BY <1>1, <2>3 DEF Answerable
<1> QED
  BY <1>1, <1>3, <1>4 DEF IInv, TypeOK, Pointers, Current, Reported, Answerable

LEMMA ReceiveDataKeeps ==
    ASSUME IInv, NEW p \in End, NEW c \in Path, ReceiveData(p, c)
    PROVE  IInv'
<1> DEFINE k == [ch[p].conn[c] EXCEPT !.silent = FALSE]
           h == [ch[p] EXCEPT !.conn[c].silent = FALSE]
<1>1. /\ c \in ch[p].conns /\ Step(p, Restart(h, c), net)
      /\ UNCHANGED <<known, conflict, faults>>
  BY DEF ReceiveData
<1>2. k \in Connection /\ k.write = ch[p].conn[c].write
  <2>1. ch[p].conn[c] \in Connection
    BY ChannelIsSound
  <2> QED
    BY <2>1 DEF Connection
<1>3. h = [ch[p] EXCEPT !.conn = [ch[p].conn EXCEPT ![c] = k]]
  BY ChannelIsSound DEF Sound, Channel
<1> HIDE DEF h, k
<1>4. Sound(h) /\ Current(h) /\ h.conns = ch[p].conns
  BY <1>2, <1>3, ChannelIsSound, Replaced
<1> QED
  BY <1>1, <1>4, RestartKeeps, QuietStepKeeps DEF Good, IInv, TypeOK

\* The connection that goes takes its pointers, its messages and what is under
\* way for it along.
LEMMA OnDeleteKeeps ==
    ASSUME IInv, NEW p \in End, NEW c \in Path, OnDelete(p, c)
    PROVE  IInv'
<1> DEFINE h == [ch[p] EXCEPT
                    !.del = @ \ {c}, !.conns = @ \ {c},
                    !.conn[c] = NewConnection,
                    !.pending = IF @ = c THEN NoPath ELSE @]
           b == [h EXCEPT !.best = NoPath]
           g == IF h.best = c THEN RequestSort(b) ELSE h
<1>1. /\ c \in ch[p].del /\ ch' = [ch EXCEPT ![p] = g]
      /\ net' = Forget(net, p, {c})
      /\ UNCHANGED <<known, conflict, faults>>
  BY DEF OnDelete
<1>2. NewConnection \in Connection
  <2>1. 0 \in 0 .. MaxFailures
    BY IceAssumption
  <2> QED
    BY <2>1 DEF NewConnection, Connection
<1>3. Sound(ch[p]) /\ Current(ch[p])
  BY ChannelIsSound
<1>4. /\ h \in Channel /\ h.conns = ch[p].conns \ {c} /\ h.best = ch[p].best
      /\ h.pending \in h.conns \cup {NoPath} /\ h.del \subseteq h.conns
      /\ h.dirty = ch[p].dirty /\ h.sort = ch[p].sort
      /\ h.writable = ch[p].writable
      /\ h.conn = [ch[p].conn EXCEPT ![c] = NewConnection]
  BY <1>2, <1>3, IceAssumption DEF Channel, Sound, Pointers
<1> HIDE DEF h
<1>5. Sound(g) /\ Current(g) /\ g.conns = ch[p].conns \ {c}
  <2>1. CASE h.best = c
    <3>1. Sound(b) /\ b.conns = h.conns /\ b.dirty = h.dirty /\ b.sort = h.sort
      BY <1>4 DEF Sound, Channel, Pointers
    <3> HIDE DEF b
    <3> QED
      BY <1>3, <1>4, <2>1, <3>1, RequestSortKeeps DEF Sound, Current
  <2>2. CASE h.best # c
    <3>1. Sound(h)
      BY <1>3, <1>4, <2>2 DEF Sound, Pointers
    <3>2. Current(h)
      <4>1. h.best # NoPath => h.conn[h.best] = ch[p].conn[h.best]
        BY <1>3, <1>4, <2>2 DEF Sound, Channel, Pointers
      <4> QED
        BY <1>3, <1>4, <4>1 DEF Current, Reported
    <3> QED
      BY <1>4, <2>2, <3>1, <3>2
  <2> QED
    BY <2>1, <2>2
<1> HIDE DEF g
<1>6. ch' \in [End -> Channel] /\ \A q \in End : Pointers(ch'[q]) /\ Current(ch'[q])
  BY <1>1, <1>5 DEF IInv, TypeOK, Sound
<1>7. net \in SUBSET Message
  BY DEF IInv, TypeOK
<1>8. net' \subseteq Message
  BY <1>1, <1>7, ForgetKeeps
<1>9. ASSUME NEW m \in net'
      PROVE  /\ m.type # "ping" => m.path \in ch'[m.to].conns
             /\ m.type = "ping" /\ m.live => m.path \in ch'[Other(m.to)].conns
  <2>1. /\ m \in Message
        /\ \/ m.type # "ping" /\ m \in net /\ ~(m.to = p /\ m.path = c)
           \/ /\ m.type = "ping"
              /\ m.live => m \in net /\ ~(m.to # p /\ m.path = c)
    BY <1>1, <1>7, ForgetKeeps
  <2>2. m.to \in End /\ Other(m.to) \in End /\ (Other(m.to) = p => m.to # p)
    BY <2>1, OtherEnd DEF Message
  <2> QED
    BY <1>1, <1>5, <2>1, <2>2 DEF IInv, TypeOK, Answerable
<1> QED
  BY <1>1, <1>6, <1>8, <1>9 DEF IInv, TypeOK, Pointers, Current, Reported, Answerable

\* Time that passes raises flags of a connection and nothing else.
LEMMA WaitKeeps ==
    ASSUME IInv, NEW p \in End, NEW c \in Path, Wait(p, c)
    PROVE  IInv'
<1> DEFINE k == ch[p].conn[c]
<1>1. k \in Connection
  BY ChannelIsSound
<1>2. PICK S \in SUBSET Limits(k) :
          ch' = [ch EXCEPT ![p].conn[c] =
                    [f \in DOMAIN k |-> IF f \in S THEN TRUE ELSE k[f]]]
  BY DEF Wait
<1>3. /\ c \in ch[p].conns /\ UNCHANGED <<known, net, conflict>>
      /\ faults < MaxFaults /\ faults' = faults + 1
  BY DEF Wait
<1> DEFINE j == [f \in DOMAIN k |-> IF f \in S THEN TRUE ELSE k[f]]
           g == [ch[p] EXCEPT !.conn = [ch[p].conn EXCEPT ![c] = j]]
<1>4. S \subseteq {"silent", "failed", "late"}
  BY <1>2 DEF Limits
<1>5. j \in Connection /\ j.write = k.write
  <2>1. DOMAIN k = {"read", "write", "pruned", "pings", "silent", "failed", "late"}
    BY <1>1 DEF Connection
  <2> HIDE DEF k
  <2>2. j = [k EXCEPT !.silent = j.silent, !.failed = j.failed, !.late = j.late]
    BY <1>4, <2>1
  <2>3. j.silent \in BOOLEAN /\ j.failed \in BOOLEAN /\ j.late \in BOOLEAN
    BY <1>1, <2>1 DEF Connection
  <2> HIDE DEF j
  <2> QED
    BY <1>1, <2>2, <2>3 DEF Connection
<1>6. ch' = [ch EXCEPT ![p] = g]
  BY <1>2 DEF IInv, TypeOK, Channel
<1> HIDE DEF j, k, g
<1>7. Sound(g) /\ Current(g) /\ g.conns = ch[p].conns
  BY <1>3, <1>5, ChannelIsSound, Replaced DEF g, k
<1>8. ch' \in [End -> Channel] /\ \A q \in End : Pointers(ch'[q]) /\ Current(ch'[q])
  BY <1>6, <1>7 DEF IInv, TypeOK, Sound
<1>9. Answerable(net', ch')
  <2>1. net \cup {} = net /\ net \in SUBSET net /\ {} \in SUBSET Message
    OBVIOUS
  <2>2. ch[p].conns \subseteq g.conns
    BY <1>7
  <2>3. Answerable(net, [ch EXCEPT ![p] = g])
    BY <2>1, <2>2, RestIsAnswerable
  <2> QED
    BY <1>3, <1>6, <2>3 DEF Answerable
<1>10. faults' \in 0 .. MaxFaults
  BY <1>3, IceAssumption DEF IInv, TypeOK
<1> QED
  BY <1>3, <1>8, <1>9, <1>10 DEF IInv, TypeOK, Pointers, Current, Reported, Answerable

-----------------------------------------------------------------------------
(* The invariant and what it implies.                                      *)

\* Two channels without connections.
LEMMA InitIsSound == Init => IInv
<1> SUFFICES ASSUME Init PROVE IInv
  OBVIOUS
<1>1. NewConnection \in Connection
  <2>1. 0 \in 0 .. MaxFailures
    BY IceAssumption
  <2> QED
    BY <2>1 DEF NewConnection, Connection
<1>2. ASSUME NEW p \in End
      PROVE  ch[p] \in Channel /\ Pointers(ch[p]) /\ Current(ch[p])
  BY <1>1 DEF Init, Channel, Pointers, Current, Reported
<1>3. ch \in [End -> Channel]
  <2>1. DOMAIN ch = End /\ ch = [p \in End |-> ch[p]]
    BY DEF Init
  <2> QED
    BY <1>2, <2>1
<1>4. /\ known \in [End -> SUBSET Path] /\ net = {} /\ conflict = {}
      /\ faults \in 0 .. MaxFaults
  BY IceAssumption DEF Init
<1> QED
  BY <1>2, <1>3, <1>4 DEF IInv, TypeOK, Answerable

\* Every step of either end, of the network and of time keeps the invariant.
LEMMA NextKeeps == IInv /\ [Next]_vars => IInv'
<1> SUFFICES ASSUME IInv, [Next]_vars PROVE IInv'
  OBVIOUS
<1>1. ASSUME NEW p \in End, Receive(p) PROVE IInv'
  <2>1. PICK m \in net : ReceivePing(p, m) \/ ReceiveResponse(p, m)
                         \/ ReceiveConflict(p, m)
    BY <1>1 DEF Receive
  <2>2. CASE ReceiveConflict(p, m)
    BY <2>2, TakenKeeps DEF ReceiveConflict, IInv, TypeOK
  <2> QED
    BY <2>1, <2>2, ReceivePingKeeps, ReceiveResponseKeeps
<1>2. ASSUME NEW m \in net, Lose(m) PROVE IInv'
  <2>1. faults' \in 0 .. MaxFaults
    BY <1>2, IceAssumption DEF Lose, IInv, TypeOK
  <2> QED
    BY <1>2, <2>1, TakenKeeps DEF Lose, IInv, TypeOK
<1>3. CASE UNCHANGED vars
  BY <1>3 DEF vars, IInv, TypeOK, Pointers, Current, Reported, Answerable
<1>4. CASE Next
  BY <1>1, <1>2, <1>4, OnSortKeeps, OnPingNothingKeeps, OnRoleConflictKeeps,
     AddPathKeeps, OnPingKeeps, ReceiveDataKeeps, OnDeleteKeeps, WaitKeeps
     DEF Next
<1> QED
  BY <1>3, <1>4

\* Both ends keep their pointers and their reports right, and what is under way
\* answerable, in every behaviour.
THEOREM Invariance == Spec => []IInv
BY InitIsSound, NextKeeps, PTL DEF Spec

\* Channels, connections, messages and time limits of p2ptransportchannel.cc and
\* port.cc keep to their types.
THEOREM TypeCorrect == Spec => []TypeOK
<1>1. IInv => TypeOK
  BY DEF IInv
<1> QED
  BY <1>1, Invariance, PTL

\* best_connection_ and pending_best_connection_ are NULL or point to a
\* connection of the channel, every MSG_DELETE is for one that exists, and every
\* answer under way will find the connection that asked: whatever the order of
\* pings, answers, losses, deletions and nominations.
THEOREM PointersAlive == Spec => []PointersAreAlive
<1>1. IInv => PointersAreAlive
  BY DEF IInv, TypeOK, Pointers, Answerable, PointersAreAlive
<1> QED
  BY <1>1, Invariance, PTL

\* The channel's writable state is that of its best connection, or MSG_SORT is
\* queued, and sort_dirty_ is never left set without it.
THEOREM ReportCurrent == Spec => []WritableIsCurrent
<1>1. IInv => WritableIsCurrent
  BY DEF IInv, Current, Reported, WritableIsCurrent
<1> QED
  BY <1>1, Invariance, PTL
=============================================================================
