----------------------------- MODULE PseudoTcp -----------------------------
(***************************************************************************)
(* Two PseudoTcp objects (talk/p2p/base/pseudotcp.cc) and the datagram     *)
(* channel between them (external), which may lose, repeat and reorder     *)
(* packets and limit their size.  PseudoTcpChannel (talk/session/tunnel)   *)
(* owns each object, calls it under one lock and deletes it when           *)
(* GetNextClock says so, so every public call is one action.               *)
(*                                                                         *)
(* A byte is one unit; the n-th byte the application writes is the number  *)
(* n, and 0 is the connect message or memory nobody has written.  Time is  *)
(* left out: an armed timer may fire at any moment, and the round-trip     *)
(* estimate, which only says when, is not kept.  Sequence numbers start at *)
(* 0 and do not reach 2^32.                                                *)
(***************************************************************************)
EXTENDS Integers, FiniteSets, SequencesExt

CONSTANTS
    Caller, Callee,    \* the endpoints; only Caller calls Connect()
    RcvBuf, SndBuf,    \* m_rbuf_len and m_sbuf_len
    Unit,              \* bytes in a unit of the announced window: 1 << m_rwnd_scale
    Levels,            \* PACKET_MAXIMUMS less the overhead: payload sizes
    Mtus,              \* payload sizes NotifyMTU may report
    PathMss,           \* largest payload the channel takes
    Nagling,           \* m_use_nagling
    AckDelay,          \* m_ack_delay # 0
    MaxXmit,           \* transmissions of one segment (15; twice that before
                       \* the connection is established)
    Writers, Closers,  \* endpoints whose application writes, and closes
    MaxBytes,          \* bytes an application may write
    WriteSizes,        \* bytes it may offer in one Send()
    ReadSizes,         \* bytes it may ask for in one Recv()
    MaxCwnd,           \* congestion windows from here on are not told apart
    MaxNet,            \* packets in flight up to which an endpoint starts more
    Reorder,           \* the channel may reorder
    HandshakeFaults,   \* its faults may strike before both ends are connected
    Faults, MaxFaults  \* its other faults, and how many it may commit

Ends == {Caller, Callee}
Peer(e) == IF e = Caller THEN Callee ELSE Caller

Least(S) == CHOOSE x \in S : \A y \in S : x <= y
Lower(a, b) == IF a < b THEN a ELSE b
Upper(a, b) == IF a > b THEN a ELSE b

\* The element of a set of one: Only({F(x) : x \in {v}}) is F(v), with v computed once.
Only(S) == CHOOSE x \in S : TRUE

ASSUME SizesAssumption ==
    /\ Caller # Callee
    /\ RcvBuf + Levels[Len(Levels)] < SndBuf   \* asserted by the constructor
    /\ \A i \in 1 .. Len(Levels) - 1 : Levels[i] > Levels[i + 1]
    /\ Levels \in Seq(Nat \ {0}) /\ Levels # <<>> /\ Mtus \subseteq Nat \ {0}
    /\ {RcvBuf, SndBuf, Unit, MaxXmit, MaxCwnd} \subseteq Nat \ {0}
    /\ WriteSizes \cup ReadSizes \subseteq Nat \ {0}
    /\ {PathMss, MaxBytes, MaxFaults} \subseteq Nat
    /\ Faults \subseteq 
          {"lose", "repeat", "slow", "fail", "idle", "abort"}

VARIABLES
    tcb,        \* endpoint -> its PseudoTcp object
    net,        \* endpoint -> packets on their way to it
    written,    \* endpoint -> bytes Send() has taken from its application
    read,       \* endpoint -> bytes Recv() has given to its application
    faults      \* faults the channel has committed

vars == <<tcb, net, written, read, faults>>

TcpState == {"LISTEN", "SYN_SENT", "SYN_RECEIVED", "ESTABLISHED", "CLOSED"}
SSegment == [seq : Nat, len : Nat, ctl : BOOLEAN, xmit : Nat]
RSegment == [seq : Nat, len : Nat]
Packet == [seq : Int, ack : Nat, wnd : Nat, ctl : BOOLEAN, data : Seq(Nat),
           unit : Nat, place : Nat]

Tcb ==
    [state : TcpState, shutdown : {"NONE", "GRACEFUL", "FORCEFUL"},
     alive : BOOLEAN,                  \* not deleted by its PseudoTcpChannel
     readEnable : BOOLEAN, writeEnable : BOOLEAN,
     rcv_nxt : Nat, rcv_wnd : Nat,
     rbuf : Seq(Nat),                  \* m_rbuf up to its write position
     ahead : Seq(Nat),                 \* m_rbuf beyond its write position
     rlist : Seq(RSegment),
     slist : Seq(SSegment), sbuf : Seq(Nat),
     snd_una : Nat, snd_nxt : Nat, snd_wnd : Nat,
     swnd_unit : Nat,                  \* 1 << m_swnd_scale
     mss : Nat \ {0}, msslevel : DOMAIN Levels, mtu_advise : Nat \ {0},
     rto : BOOLEAN,                    \* m_rto_base # 0
     t_ack : BOOLEAN,                  \* m_t_ack # 0
     told : Nat,                       \* history: m_rcv_nxt last put in a packet
     cwnd : Nat \ {0}, ssthresh : Nat \ {0}, dup_acks : Nat, recover : Nat,
     out : Seq(Packet)]                \* packets of the call in progress

NewTcb ==
    [state |-> "LISTEN", shutdown |-> "NONE", alive |-> TRUE,
     readEnable |-> TRUE, writeEnable |-> FALSE,
     rcv_nxt |-> 0, rcv_wnd |-> RcvBuf, rbuf |-> <<>>, ahead |-> <<>>,
     rlist |-> <<>>, slist |-> <<>>, sbuf |-> <<>>,
     snd_una |-> 0, snd_nxt |-> 0, snd_wnd |-> 1, swnd_unit |-> 1,
     mss |-> Levels[Len(Levels)], msslevel |-> 1, mtu_advise |-> Levels[1],
     rto |-> FALSE, t_ack |-> FALSE, told |-> 0,
     cwnd |-> 2 * Levels[Len(Levels)], ssthresh |-> RcvBuf, dup_acks |-> 0,
     recover |-> 0, out |-> <<>>]

-----------------------------------------------------------------------------
(* The send side.  env says how the channel takes the packets of this call *)
(* (write) and whether nothing was sent for a whole timeout (idle).        *)

InFlight(t) == t.snd_nxt - t.snd_una

closedown(t) == [t EXCEPT !.state = "CLOSED"]

adjustMTU(t) ==
    LET fit == {l \in DOMAIN Levels : Levels[l] <= t.mtu_advise}
    IN  [t EXCEPT !.msslevel = Least(fit \cup {Len(Levels)}),
                  !.mss = t.mtu_advise,
                  !.ssthresh = Upper(@, 2 * t.mtu_advise),
                  !.cwnd = Upper(@, t.mtu_advise)]

\* Bytes join the last segment while it has not been sent.
queue(t, data, ctl) ==
    LET last == Len(t.slist)
        seg  == [seq |-> t.snd_una + Len(t.sbuf), len |-> Len(data),
                 ctl |-> ctl, xmit |-> 0]
    IN  [t EXCEPT !.sbuf = @ \o data,
                  !.slist = IF last > 0 /\ t.slist[last].ctl = ctl
                                        /\ t.slist[last].xmit = 0
                            THEN [t.slist EXCEPT ![last].len = @ + Len(data)]
                            ELSE Append(@, seg)]

queueConnectMessage(t) == queue([t EXCEPT !.snd_wnd = 1], <<0>>, TRUE)

\* Writing a packet; without data it is an acknowledgement.
packet(t, seq, ctl, offset, len) ==
    LET at(i) == IF offset + i \in DOMAIN t.sbuf THEN t.sbuf[offset + i] ELSE 0
        p == [seq |-> seq, ack |-> t.rcv_nxt, wnd |-> t.rcv_wnd \div Unit,
              ctl |-> ctl, data |-> [i \in 1 .. len |-> at(i)],
              unit |-> Unit, place |-> 0]
    IN  [t EXCEPT !.t_ack = FALSE, !.told = t.rcv_nxt, !.out = Append(@, p)]

\* The payload sizes left to try when the channel finds n bytes too large.
SmallerLevels(t, n) ==
    {l \in t.msslevel + 1 .. Len(Levels) : Levels[l] < n /\ Levels[l] <= PathMss}

UseLevel(t, l) ==
    [t EXCEPT !.msslevel = l, !.mss = Levels[l], !.cwnd = 2 * Levels[l]]

\* The object once the channel has been offered n bytes, and what it took.
Fit(t, n) ==
    IF n <= PathMss THEN t
    ELSE IF SmallerLevels(t, n) # {} THEN UseLevel(t, Least(SmallerLevels(t, n)))
    ELSE IF t.msslevel < Len(Levels) THEN UseLevel(t, Len(Levels))
    ELSE t

\* A bug: the second part of a split segment keeps the first part's place.
SplitOverlapping(slist, i, n) ==
    LET seg == slist[i]
    IN  InsertAt([slist EXCEPT ![i].len = n], i + 1,
                 [seg EXCEPT !.len = seg.len - n])

\* The segment at i cut after n bytes.
Split(slist, i, n) ==
    LET seg == slist[i]
    IN  IF n >= seg.len THEN slist
        ELSE InsertAt([slist EXCEPT ![i].len = n], i + 1,
                      [seg EXCEPT !.seq = seg.seq + n, !.len = seg.len - n])

\* n bytes of the segment at i are on their way.
Transmitted(t, i, n) ==
    LET seg == t.slist[i]
        s   == packet(t, seg.seq, seg.ctl, seg.seq - t.snd_una, n)
    IN  [s EXCEPT !.slist = [Split(t.slist, i, n) EXCEPT ![i].xmit = @ + 1],
                  !.snd_nxt = IF seg.xmit = 0 THEN @ + n ELSE @,
                  !.rto = TRUE]

\* transmit of the segment at index i: whether it succeeds, and the object.
transmit(t, i, env) ==
    LET seg   == t.slist[i]
        limit == IF t.state = "ESTABLISHED" THEN MaxXmit ELSE 2 * MaxXmit
        n     == Lower(seg.len, t.mss)
        fit   == Fit(t, n)
    IN  IF seg.xmit >= limit \/ env.write = "fail" THEN [ok |-> FALSE, tcb |-> t]
        ELSE IF n > PathMss /\ SmallerLevels(t, n) = {}
        THEN [ok |-> FALSE, tcb |-> fit]
        ELSE [ok |-> TRUE, tcb |-> Transmitted(fit, i, Lower(n, fit.mss))]

\* A bug: the window of the peer is not looked at.
UseableNoWindow(t) ==
    LET cwnd == IF t.dup_acks \in {1, 2} THEN t.cwnd + t.dup_acks * t.mss
                ELSE t.cwnd
        available == Lower(Len(t.sbuf) - InFlight(t), t.mss)
        useable == IF InFlight(t) < cwnd THEN cwnd - InFlight(t) ELSE 0
    IN  IF available <= useable THEN available
        ELSE IF useable * 4 < cwnd THEN 0
        ELSE useable

\* How much attemptSend may put into the next segment: what is buffered, up to
\* a full segment, within the window and without silly small pieces of it.
Useable(t) ==
    LET cwnd == IF t.dup_acks \in {1, 2} THEN t.cwnd + t.dup_acks * t.mss
                ELSE t.cwnd
        window == Lower(t.snd_wnd, cwnd)
        available == Lower(Len(t.sbuf) - InFlight(t), t.mss)
        useable == IF InFlight(t) < window THEN window - InFlight(t) ELSE 0
    IN  IF available <= useable THEN available
        ELSE IF useable * 4 < window THEN 0
        ELSE useable

\* The next segment that was never sent, with n bytes of it.
SendNext(t, n, env) ==
    LET i == Least({j \in DOMAIN t.slist : t.slist[j].xmit = 0})
    IN  Only({transmit(s, i, env) : s \in {[t EXCEPT !.slist = Split(@, i, n)]}})

\* Nagle's algorithm: a small segment waits for what is in flight.
Held(t) == Nagling /\ t.snd_nxt > t.snd_una /\ Useable(t) < t.mss

\* A round of the loop that sends; not ok: the loop was left.
SendRound(r, env) ==
    IF ~r.ok \/ Useable(r.tcb) = 0 \/ Held(r.tcb) THEN [r EXCEPT !.ok = FALSE]
    ELSE SendNext(r.tcb, Useable(r.tcb), env)

SendAll(t, env) ==
    LET after[k \in 0 .. Len(t.sbuf)] ==
            IF k = 0 THEN [ok |-> TRUE, tcb |-> t]
            ELSE Only({SendRound(r, env) : r \in {after[k - 1]}})
    IN  after[Len(t.sbuf)].tcb

\* An acknowledgement of its own when there is nothing to send it with.
Acknowledge(t, flags) ==
    IF flags = "none" THEN t
    ELSE IF flags = "immediate" \/ t.t_ack
    THEN packet(t, t.snd_nxt, FALSE, 0, 0)
    ELSE [t EXCEPT !.t_ack = TRUE]

attemptSend(t, flags, env) ==
    LET u == IF env.idle THEN [t EXCEPT !.cwnd = t.mss] ELSE t
    IN  Only({IF Useable(s) = 0 THEN Acknowledge(s, flags) ELSE SendAll(s, env) :
                 s \in {u}})

-----------------------------------------------------------------------------
(* process(): what a packet does to the object, stage by stage.            *)

\* The connect message: options, then the handshake.
OnConnect(t, m) ==
    LET s == [t EXCEPT !.swnd_unit = m.unit]
    IN  IF ~m.ctl THEN t
        ELSE IF s.state = "LISTEN"
        THEN queueConnectMessage([s EXCEPT !.state = "SYN_RECEIVED"])
        ELSE IF s.state = "SYN_SENT"
        THEN adjustMTU([s EXCEPT !.state = "ESTABLISHED"])
        ELSE s

\* A round of the loop that frees r.n acknowledged bytes.
FreeRound(r) ==
    IF r.n = 0 \/ r.slist = <<>> THEN r
    ELSE IF r.n < r.slist[1].len
    THEN [slist |-> [r.slist EXCEPT ![1].len = @ - r.n], n |-> 0]
    ELSE [slist |-> Tail(r.slist), n |-> r.n - r.slist[1].len]

Free(slist, n) ==
    LET after[k \in 0 .. Len(slist)] ==
            IF k = 0 THEN [slist |-> slist, n |-> n]
            ELSE Only({FreeRound(r) : r \in {after[k - 1]}})
    IN  after[Len(slist)].slist

\* The retransmission of the first segment; the object closes if it fails.
Retransmit(t, env) ==
    Only({IF r.ok THEN r.tcb ELSE closedown(r.tcb) : r \in {transmit(t, 1, env)}})

\* A bug: the timer is stopped whenever something is acknowledged.
NewAckUntimed(t, m) ==
    LET n == m.ack - t.snd_una
    IN  [t EXCEPT !.snd_wnd = m.wnd * t.swnd_unit, !.snd_una = m.ack,
                  !.rto = FALSE,
                  !.sbuf = SubSeq(@, n + 1, Len(@)), !.slist = Free(@, n)]

\* A valuable acknowledgement frees what it covers.
NewAck(t, m) ==
    LET n == m.ack - t.snd_una
    IN  [t EXCEPT !.snd_wnd = m.wnd * t.swnd_unit, !.snd_una = m.ack,
                  !.rto = m.ack # t.snd_nxt,
                  !.sbuf = SubSeq(@, n + 1, Len(@)), !.slist = Free(@, n)]

\* Deflates the congestion window after the retransmission of recovery.
Deflate(r, n) ==
    IF r.state = "CLOSED" THEN r ELSE [r EXCEPT !.cwnd = @ + r.mss - Lower(n, @)]

\* Congestion control after a valuable acknowledgement of n bytes.
Recover(t, n, env) ==
    IF t.dup_acks < 3
    THEN [t EXCEPT !.dup_acks = 0,
                   !.cwnd = IF @ < t.ssthresh THEN @ + t.mss
                            ELSE @ + Upper(1, (t.mss * t.mss) \div @)]
    ELSE IF t.snd_una >= t.recover
    THEN [t EXCEPT !.dup_acks = 0,
                   !.cwnd = Lower(t.ssthresh, InFlight(t) + t.mss)]
    ELSE Only({Deflate(r, n) : r \in {Retransmit(t, env)}})

\* Recovery begins with the retransmission r.
EnterRecovery(r) ==
    LET threshold == Upper(InFlight(r) \div 2, 2 * r.mss)
    IN  IF r.state = "CLOSED" THEN r
        ELSE [r EXCEPT !.recover = r.snd_nxt, !.ssthresh = threshold,
                       !.cwnd = threshold + 3 * r.mss]

\* An acknowledgement that acknowledges nothing new opens or closes the window
\* and, the third time, retransmits.
DuplicateAck(t, m, env) ==
    LET s == [t EXCEPT !.snd_wnd = m.wnd * t.swnd_unit]
        d == [s EXCEPT !.dup_acks = @ + 1]
    IN  IF m.data # <<>> THEN s
        ELSE IF s.snd_una = s.snd_nxt THEN [s EXCEPT !.dup_acks = 0]
        ELSE IF d.dup_acks < 3 THEN d
        ELSE IF d.dup_acks > 3 THEN [d EXCEPT !.cwnd = @ + d.mss]
        ELSE Only({EnterRecovery(r) : r \in {Retransmit(d, env)}})

OnAck(t, m, env) ==
    IF m.ack > t.snd_una /\ m.ack <= t.snd_nxt
    THEN Only({Recover(s, m.ack - t.snd_una, env) : s \in {NewAck(t, m)}})
    ELSE IF m.ack = t.snd_una THEN DuplicateAck(t, m, env)
    ELSE t

\* The callee is connected by the first packet without the connect message.
OnOpen(t, m) ==
    IF t.state = "SYN_RECEIVED" /\ ~m.ctl
    THEN adjustMTU([t EXCEPT !.state = "ESTABLISHED"]) ELSE t

\* A bug: the application is told only when the buffer is empty.
OnWriteableWhenEmpty(t) ==
    [t EXCEPT !.writeEnable = @ /\ Len(t.sbuf) > 0]

\* OnTcpWriteable, once there is room for a refill.
OnWriteable(t) ==
    [t EXCEPT !.writeEnable = @ /\ Len(t.sbuf) >= (SndBuf + RcvBuf) \div 2]

Available(t) == RcvBuf - Len(t.rbuf)

\* The part of m that is neither received already nor beyond the buffer.
Trim(t, m) ==
    LET old  == Upper(0, t.rcv_nxt - m.seq)
        new  == SubSeq(m.data, old + 1, Len(m.data))
        seq  == IF new = <<>> THEN m.seq ELSE m.seq + old
        over == Upper(0, seq + Len(new) - t.rcv_nxt - Available(t))
    IN  [seq |-> seq, data |-> SubSeq(new, 1, Len(new) - over)]

\* A bug: the data is put right at the write position.
WriteOffsetAtEnd(ahead, data, offset) ==
    [i \in 1 .. Upper(Len(ahead), Len(data)) |->
        IF i \in DOMAIN data THEN data[i] ELSE ahead[i]]

\* FifoBuffer::WriteOffset: data at an offset beyond the write position.
WriteOffset(ahead, data, offset) ==
    [i \in 1 .. Upper(Len(ahead), offset + Len(data)) |->
        IF i \in offset + 1 .. offset + Len(data) THEN data[i - offset]
        ELSE IF i \in DOMAIN ahead THEN ahead[i] ELSE 0]

\* FifoBuffer::ConsumeWriteBuffer: n bytes beyond the write position become
\* readable, whatever they hold.
ConsumeWriteBuffer(t, n) ==
    [t EXCEPT
        !.rbuf = @ \o [i \in 1 .. n |-> IF i \in DOMAIN t.ahead
                                        THEN t.ahead[i] ELSE 0],
        !.ahead = SubSeq(@, n + 1, Len(@)),
        !.rcv_nxt = @ + n,
        !.rcv_wnd = @ - n]

\* A round of the loop over the stored segments (sorted): the first one is taken
\* off the list, and the stream reaches to its end, unless it still lies ahead.
Absorb(r) ==
    IF r.rlist = <<>> \/ r.rlist[1].seq > r.nxt THEN r
    ELSE [rlist |-> Tail(r.rlist),
          nxt |-> Upper(r.nxt, r.rlist[1].seq + r.rlist[1].len)]

\* Where the stream ends once the stored segments are counted, and the rest.
Reach(rlist, nxt) ==
    LET after[k \in 0 .. Len(rlist)] ==
            IF k = 0 THEN [rlist |-> rlist, nxt |-> nxt]
            ELSE Only({Absorb(r) : r \in {after[k - 1]}})
    IN  after[Len(rlist)]

Insert(rlist, seg) ==
    LET later == {i \in DOMAIN rlist : rlist[i].seq >= seg.seq}
    IN  InsertAt(rlist, Least(later \cup {Len(rlist) + 1}), seg)

\* The data of trimmed segment d.
OnData(t, d, ctl) ==
    LET n     == Len(d.data)
        w     == [t EXCEPT !.ahead = WriteOffset(@, d.data, d.seq - t.rcv_nxt)]
        reach == Reach(t.rlist, t.rcv_nxt + n)
    IN  IF n = 0 THEN t
        ELSE IF ctl \/ t.shutdown # "NONE"
        THEN IF d.seq = t.rcv_nxt THEN [t EXCEPT !.rcv_nxt = @ + n] ELSE t
        ELSE IF d.seq = t.rcv_nxt
        THEN [ConsumeWriteBuffer(w, reach.nxt - t.rcv_nxt) EXCEPT
                 !.rlist = reach.rlist,
                 !.readEnable = FALSE]             \* OnTcpReadable
        ELSE [w EXCEPT !.rlist = Insert(@, [seq |-> d.seq, len |-> n])]

\* Which acknowledgement segment m calls for.
AckFlags(t, m, d) ==
    IF m.seq # t.rcv_nxt \/ (m.data # <<>> /\ ~AckDelay) THEN "immediate"
    ELSE IF OnData(t, d, m.ctl).rcv_nxt > t.rcv_nxt + Len(d.data)
    THEN "immediate"
    ELSE IF m.data # <<>> THEN "delayed" ELSE "none"

\* The data of m, and what is sent because of it.
TakeData(t, m, env) ==
    LET d == Trim(t, m)
    IN  attemptSend(OnData(t, d, m.ctl), AckFlags(t, m, d), env)

\* The rest of process() once the acknowledgement is dealt with.
ProcessData(t, m, env) ==
    IF t.state = "CLOSED" THEN t
    ELSE Only({TakeData(s, m, env) : s \in {OnWriteable(OnOpen(t, m))}})

process(t, m, env) ==
    IF t.state = "CLOSED" THEN t
    ELSE Only({ProcessData(s, m, env) :
                  s \in {OnAck(r, m, env) : r \in {OnConnect(t, m)}}})

-----------------------------------------------------------------------------
(* The channel.                                                            *)

Connected ==
    \A e \in Ends : tcb[e].state = "ESTABLISHED" /\ tcb[e].snd_una > 0

Rough == HandshakeFaults \/ Connected

\* Packets keep the order of their places; 0 is for those that need not.
Put(packets, out) ==
    LET last == CHOOSE n \in {0} \cup {p.place : p \in packets} :
                    \A p \in packets : p.place <= n
    IN  packets \cup
        {[out[i] EXCEPT !.place = IF Reorder /\ Rough THEN 0 ELSE last + i] :
            i \in DOMAIN out}

\* The places of packets that keep their order, counted from 1 again.
Renumber(packets) ==
    LET rank(p) == Cardinality({q \in packets : 0 < q.place /\ q.place <= p.place})
    IN  {[p EXCEPT !.place = rank(p)] : p \in packets}

CanDeliver(e, m) ==
    (Reorder /\ Rough) \/ \A o \in net[e] : m.place <= o.place

Commit(kind) ==
    /\ kind \in Faults /\ Rough
    /\ faults < MaxFaults
    /\ faults' = faults + 1

Smooth == [write |-> "ok", idle |-> FALSE]
Env == {Smooth, [Smooth EXCEPT !.write = "fail"], [Smooth EXCEPT !.idle = TRUE]}

\* The channel's part in a call: it takes the packets, or fails them all; or
\* so long has passed since the last one that slow start begins again.
Choose(env) ==
    IF env.write = "fail" THEN Commit("fail")
    ELSE IF env.idle THEN Commit("idle")
    ELSE UNCHANGED faults

\* The object between calls; the bounds on its counters.
Settled(t) == [t EXCEPT !.out = <<>>, !.cwnd = Lower(@, MaxCwnd),
                        !.dup_acks = Lower(@, 4)]

\* The object after a call, the packets on their way (inNet: to the caller).
Return(e, result, inNet) == \E t \in {result} :
    /\ tcb' = [tcb EXCEPT ![e] = Settled(t)]
    /\ net' = [net EXCEPT ![e] = Renumber(inNet), ![Peer(e)] = Put(@, t.out)]

\* A bug: a graceful close does not wait for the acknowledgements.
clock_checkHasty(t) ==
    /\ t.shutdown # "FORCEFUL"
    /\ t.shutdown = "GRACEFUL" =>
          t.state = "ESTABLISHED" /\ (InFlight(t) # Len(t.sbuf) \/ t.t_ack)

\* GetNextClock: whether the object is still needed.
clock_check(t) ==
    /\ t.shutdown # "FORCEFUL"
    /\ t.shutdown = "GRACEFUL" =>
          t.state = "ESTABLISHED" /\ (t.sbuf # <<>> \/ t.t_ack)

\* PseudoTcpChannel::AdjustClock, which ends the calls it makes.
AdjustClock(t) == Only({[s EXCEPT !.alive = clock_check(s)] : s \in {t}})

-----------------------------------------------------------------------------
(* The public calls.                                                       *)

Room == \A e \in Ends : Cardinality(net[e]) < MaxNet

Connect(e) ==
    /\ e = Caller
    /\ tcb[e].alive /\ tcb[e].state = "LISTEN"
    /\ Return(e, AdjustClock(attemptSend(
           queueConnectMessage([tcb[e] EXCEPT !.state = "SYN_SENT"]),
           "none", Smooth)), net[e])
    /\ UNCHANGED <<written, read, faults>>

\* n bytes from the application; a full buffer asks for OnTcpWriteable.
Send(e, n, env) ==
    LET t    == tcb[e]
        took == Lower(n, SndBuf - Len(t.sbuf))
        data == [i \in 1 .. took |-> written[e] + i]
    IN  /\ t.alive /\ t.state = "ESTABLISHED" /\ t.shutdown = "NONE"
        /\ e \in Writers /\ written[e] + n <= MaxBytes
        /\ Room
        /\ Choose(env)
        /\ IF took = 0
           THEN /\ env = Smooth /\ ~t.writeEnable
                /\ Return(e, [t EXCEPT !.writeEnable = TRUE], net[e])
           ELSE Return(e, attemptSend(queue(t, data, FALSE), "none", env), net[e])
        /\ written' = [written EXCEPT ![e] = @ + took]
        /\ UNCHANGED read

\* The window announced after a read: a larger one when it grows enough.
Window(t) ==
    IF Available(t) - t.rcv_wnd >= Lower(RcvBuf \div 2, t.mss)
    THEN Available(t) ELSE t.rcv_wnd

\* Up to n bytes to the application; an empty buffer asks for OnTcpReadable.
Recv(e, n, env) ==
    LET t   == tcb[e]
        got == Lower(n, Len(t.rbuf))
        s   == [t EXCEPT !.rbuf = SubSeq(@, got + 1, Len(@))]
        w   == [s EXCEPT !.rcv_wnd = Window(s)]
    IN  /\ t.alive /\ t.state = "ESTABLISHED" /\ t.shutdown = "NONE"
        /\ Choose(env)
        /\ IF got = 0
           THEN /\ env = Smooth /\ ~t.readEnable
                /\ Return(e, [t EXCEPT !.readEnable = TRUE], net[e])
           ELSE IF t.rcv_wnd = 0 /\ w.rcv_wnd # 0
           THEN Return(e, attemptSend(w, "immediate", env), net[e])
           ELSE env = Smooth /\ Return(e, w, net[e])
        /\ read' = [read EXCEPT ![e] = @ \o SubSeq(t.rbuf, 1, got)]
        /\ UNCHANGED written

\* Also once more: a channel may be destroyed when its stream has closed.
Close(e, force) ==
    /\ e \in Closers /\ tcb[e].alive
    /\ Return(e, AdjustClock([tcb[e] EXCEPT
           !.shutdown = IF force THEN "FORCEFUL" ELSE "GRACEFUL"]), net[e])
    /\ UNCHANGED <<written, read, faults>>

NotifyMTU(e, mtu) ==
    LET t == [tcb[e] EXCEPT !.mtu_advise = mtu]
    IN  /\ t.alive /\ mtu # tcb[e].mtu_advise
        /\ Return(e, AdjustClock(IF t.state = "ESTABLISHED" THEN adjustMTU(t)
                                 ELSE t), net[e])
        /\ UNCHANGED <<written, read, faults>>

\* A bug: a closed window is waited for, never probed.
OnProbeTimerSilent(e) ==
    LET t == tcb[e]
    IN  /\ t.snd_wnd = 0
        /\ Commit("abort") /\ Return(e, AdjustClock(closedown(t)), net[e])

\* A retransmission timer that does not wait for what is still on its way.
Early == \E e \in Ends : net[e] # {}

\* Slow start begins again after a timeout.
Backoff(r) ==
    IF r.state = "CLOSED" THEN r
    ELSE [r EXCEPT !.ssthresh = Upper(InFlight(r) \div 2, 2 * r.mss),
                   !.cwnd = r.mss, !.rto = TRUE]

\* NotifyClock finds one timer due; two timers are two calls.
OnRetransmitTimer(e, env) ==
    /\ tcb[e].rto
    /\ IF Early THEN Commit("slow") /\ env = Smooth ELSE Choose(env)
    /\ Return(e, AdjustClock(
              Only({Backoff(r) : r \in {Retransmit(tcb[e], env)}})), net[e])

\* Probing a closed window, or giving up on a peer silent for 15 seconds.
OnProbeTimer(e) ==
    LET t == tcb[e]
    IN  /\ t.snd_wnd = 0
        /\ \/ /\ Return(e, AdjustClock(packet(t, t.snd_nxt - 1, FALSE, 0, 0)),
                        net[e])
              /\ UNCHANGED faults
           \/ Commit("abort") /\ Return(e, AdjustClock(closedown(t)), net[e])

OnAckTimer(e) ==
    LET t == tcb[e]
    IN  /\ t.t_ack
        /\ Return(e, AdjustClock(packet(t, t.snd_nxt, FALSE, 0, 0)), net[e])
        /\ UNCHANGED faults

NotifyClock(e, timer) ==
    /\ tcb[e].alive /\ tcb[e].state # "CLOSED"
    /\ Room
    /\ \/ timer = "rto" /\ \E env \in Env : OnRetransmitTimer(e, env)
       \/ timer = "probe" /\ OnProbeTimer(e)
       \/ timer = "ack" /\ OnAckTimer(e)
    /\ UNCHANGED <<written, read>>

\* A packet comes; inNet: what is still on its way to e.
NotifyPacket(e, m, env, inNet) ==
    /\ CanDeliver(e, m)
    /\ Return(e, IF tcb[e].alive THEN AdjustClock(process(tcb[e], m, env))
                 ELSE tcb[e], inNet)
    /\ UNCHANGED <<written, read>>

Deliver(e, m, env) ==
    Choose(env) /\ NotifyPacket(e, m, env, net[e] \ {m})

DeliverRepeatedly(e, m) ==
    Commit("repeat") /\ NotifyPacket(e, m, Smooth, net[e])

Lose(e, m) ==
    /\ Commit("lose")
    /\ net' = [net EXCEPT ![e] = Renumber(@ \ {m})]
    /\ UNCHANGED <<tcb, written, read>>

-----------------------------------------------------------------------------
Init ==
    /\ tcb = [e \in Ends |-> NewTcb]
    /\ net = [e \in Ends |-> {}]
    /\ written = [e \in Ends |-> 0]
    /\ read = [e \in Ends |-> <<>>]
    /\ faults = 0

Application(e) ==
    \/ \E n \in WriteSizes, env \in Env : Send(e, n, env)
    \/ \E n \in ReadSizes, env \in Env : Recv(e, n, env)
    \/ \E force \in BOOLEAN : Close(e, force)

Next ==
    \E e \in Ends :
        \/ Connect(e)
        \/ Application(e)
        \/ \E mtu \in Mtus : NotifyMTU(e, mtu)
        \/ \E timer \in {"rto", "probe", "ack"} : NotifyClock(e, timer)
        \/ \E m \in net[e] : \/ \E env \in Env : Deliver(e, m, env)
                             \/ DeliverRepeatedly(e, m)
                             \/ Lose(e, m)

Spec == Init /\ [][Next]_vars

-----------------------------------------------------------------------------
(* Properties.                                                             *)

\* Every variable holds what the code's declarations allow it to hold.
TypeOK ==
    /\ tcb \in [Ends -> Tcb]
    /\ \A e \in Ends : Len(tcb[e].sbuf) <= SndBuf /\ Len(tcb[e].rbuf) <= RcvBuf
    /\ net \in [Ends -> SUBSET Packet]
    /\ written \in [Ends -> 0 .. MaxBytes]
    /\ read \in [Ends -> Seq(Nat)]
    /\ faults \in 0 .. MaxFaults

Open(e) == tcb[e].alive /\ tcb[e].state # "CLOSED"

\* The segments of slist follow one another from una to end, those that were
\* sent up to nxt and the others from there.
Covers(slist, una, nxt, end) ==
    LET n == Len(slist)
    IN  /\ una <= nxt /\ nxt <= end
        /\ \A i \in 1 .. n :
              /\ slist[i].len > 0
              /\ IF slist[i].xmit > 0 THEN slist[i].seq + slist[i].len <= nxt
                 ELSE slist[i].seq >= nxt
        /\ \A i \in 1 .. n - 1 : slist[i + 1].seq = slist[i].seq + slist[i].len
        /\ IF n = 0 THEN una = end
           ELSE slist[1].seq = una /\ slist[n].seq + slist[n].len = end

\* The send list covers the send buffer without gap or overlap, and what is
\* marked as sent is what lies between snd_una and snd_nxt.
SegmentsCoverBuffer ==
    \A e \in Ends :
        LET t == tcb[e]
        IN  Covers(t.slist, t.snd_una, t.snd_nxt, t.snd_una + Len(t.sbuf))

\* The retransmission timer runs exactly while something is unacknowledged, so
\* the assertion in NotifyClock never fires and no data waits untimed.
UnackedIsTimed ==
    \A e \in Ends : Open(e) => (tcb[e].rto <=> tcb[e].snd_una # tcb[e].snd_nxt)

\* What is announced fits the receive buffer, and what the peer has sent fits
\* what is announced: a received packet is never cut, whatever old windows the
\* channel brings late.
WindowIsKept ==
    \A e \in Ends :
        LET r == tcb[Peer(e)]
        IN  /\ r.rcv_wnd <= Available(r)
            /\ tcb[e].snd_nxt <= r.rcv_nxt + r.rcv_wnd

\* Received data that was not acknowledged has its delayed acknowledgement
\* scheduled.  It does not hold with Nagle's algorithm: see the README,
\* section 9.
OwedAckIsScheduled ==
    \A e \in Ends : Open(e) /\ tcb[e].rcv_nxt # tcb[e].told => tcb[e].t_ack

\* An application that found nothing to read, or no room to write, is told
\* when that changes: while it waits, the buffer is empty, or too full.
WaitingIsRight ==
    \A e \in Ends : Open(e) =>
        /\ tcb[e].readEnable => tcb[e].rbuf = <<>>
        /\ tcb[e].writeEnable => Len(tcb[e].sbuf) >= (SndBuf + RcvBuf) \div 2

\* An object deleted after a graceful close of an open connection leaves
\* nothing behind that its peer has not received.
GracefulCloseFlushes ==
    \A e \in Ends :
        LET p == tcb[Peer(e)]
        IN  ~tcb[e].alive /\ tcb[e].shutdown = "GRACEFUL"
                /\ tcb[e].state = "ESTABLISHED" /\ p.shutdown = "NONE" =>
            Len(read[Peer(e)]) + Len(p.rbuf) = written[e]

Stream == INSTANCE ByteStream WITH
    Ends <- Ends, Peer <- Peer, MaxBytes <- MaxBytes,
    written <- written, read <- read

\* The connection implements the two byte streams of ByteStream.
ImplementsByteStream == Stream!Spec

\* The applications keep reading, the worker threads keep their clocks, and the
\* channel delivers what it does not lose.
Fairness ==
    /\ WF_vars(Connect(Caller))
    /\ WF_vars(\E e \in Ends, n \in ReadSizes, env \in Env : Recv(e, n, env))
    /\ WF_vars(\E e \in Ends : NotifyClock(e, "rto"))
    /\ WF_vars(\E e \in Ends : NotifyClock(e, "probe"))
    /\ WF_vars(\E e \in Ends : NotifyClock(e, "ack"))
    /\ WF_vars(\E e \in Ends : \E m \in net[e], env \in Env : Deliver(e, m, env))

FairSpec == Spec /\ Fairness

\* Whatever an application writes is read by the other one, through closed
\* windows and delayed acknowledgements, or an endpoint closes.
EverythingIsRead ==
    \A e \in Writers :
        written[e] > Len(read[Peer(e)]) ~>
            \/ written[e] = Len(read[Peer(e)])
            \/ \E x \in Ends : ~Open(x) \/ tcb[x].shutdown # "NONE"
=============================================================================
