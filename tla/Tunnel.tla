------------------------------- MODULE Tunnel -------------------------------
(***************************************************************************)
(* The life of one tunnel (talk/session/tunnel): the PseudoTcpChannel that *)
(* joins a Session, a transport channel and a PseudoTcp to the stream of   *)
(* an application, and the TunnelSession that owns it until its session is *)
(* destroyed.  Three threads work on the object: the signalling thread,    *)
(* the worker thread and the thread of the stream; they may coincide.      *)
(*                                                                         *)
(* A call of the object is one step, as it holds cs_.  A thread takes a    *)
(* message from its queue in one step and handles it in another, and what  *)
(* it has taken is out of reach of Clear.  The session holds no lock: that *)
(* it signals a new state, and that it posts MSG_STATE, are two steps.  Of *)
(* the PseudoTcp only what reaches the object is kept; module PseudoTcp    *)
(* has the protocol.                                                       *)
(***************************************************************************)
EXTENDS Queues

CONSTANTS
    Unhandled,   \* cases the code does not handle that may happen
    MaxQueue     \* messages on the stream's thread when Write blocks

ASSUME TunnelAssumption ==
    /\ Unhandled \subseteq {"early close", "hasty close", "shutdown", "busy"}
    /\ MaxQueue \in Nat

VARIABLES
    sys,        \* the object, its session and the queues of the threads
    hand,       \* thread -> the message it has taken and not handled
    told,       \* what the application knows of its stream
    home,       \* signal_thread_, worker_thread_ and stream_thread_
    initiator   \* BaseSession::initiator_

vars == <<sys, hand, told, home, initiator>>

Thread == {"signal", "worker", "stream"}
None == "none"

Event == {"OPEN", "READ", "WRITE", "CLOSE"}       \* MSG_ST_EVENT
Message == Event \cup {"PURGE", "DESTROYCHANNEL", "DESTROY", "STATE"}

\* The messages of the object itself; STATE is one of its session.
Own == (Message \cup {"CLOCK"}) \ {"STATE"}

\* SIGNALLED: a new state was signalled and its MSG_STATE is not posted yet.
\* GETSTREAM: the rest of AcceptTunnel, after Session::Accept has returned.
Taken == Message \cup {"CLOCK", "SIGNALLED", "GETSTREAM", None}

Terminal == {"SENTREJECT", "RECEIVEDBUSY", "SENTTERMINATE", "RECEIVEDTERMINATE"}
SessionState ==
    Terminal \cup {"SENTINITIATE", "RECEIVEDINITIATE", "SENTACCEPT",
                   "RECEIVEDACCEPT", "DEINIT"}

Tcp == [state : {"LISTEN", "SYN_SENT", "SYN_RECEIVED", "ESTABLISHED", "CLOSED"},
        shut : {"NONE", "GRACEFUL", "FORCEFUL"},
        sbuf : BOOLEAN,          \* there are bytes to send or to have acknowledged
        ack : BOOLEAN,           \* an acknowledgement is delayed
        rbuf : BOOLEAN,          \* there are bytes to read
        readEnable : BOOLEAN, writeEnable : BOOLEAN]
NoTcp == [state |-> "NULL"]

System ==
    [alive : BOOLEAN, worker : BOOLEAN, session : BOOLEAN, channel : BOOLEAN,
     stream : {None, "open", "closed"}, tcp : Tcp \cup {NoTcp},
     pending : BOOLEAN, ready : BOOLEAN, tunnel : BOOLEAN,
     state : SessionState, queue : [Thread -> Seq(Message)], clocks : Nat]

NewTcp == [state |-> "LISTEN", shut |-> "NONE", sbuf |-> FALSE, ack |-> FALSE,
           rbuf |-> FALSE, readEnable |-> TRUE, writeEnable |-> FALSE]

-----------------------------------------------------------------------------
(* What the calls are made of: operators from the system to the system.    *)

Post(s, t, m) == [s EXCEPT !.queue[t] = Append(@, m)]
Clear(s, t, M) == [s EXCEPT !.queue[t] = Remove(@, M)]

PostEvent(s, e) == IF s.stream = "open" THEN Post(s, home.stream, e) ELSE s

\* PseudoTcp::clock_check: FALSE once the connection is of no more use.
NeedsClock(p) ==
    /\ p.shut # "FORCEFUL"
    /\ p.shut = "GRACEFUL" => p.state = "ESTABLISHED" /\ (p.sbuf \/ p.ack)

AdjustClock(s, clear) ==
    IF NeedsClock(s.tcp) THEN [s EXCEPT !.clocks = IF clear THEN 1 ELSE @ + 1]
    ELSE LET gone == [s EXCEPT !.tcp = NoTcp, !.ready = FALSE]
         IN  IF s.channel THEN Post(gone, home.signal, "DESTROYCHANNEL") ELSE gone

\* A bug: the worker thread may still have messages of the object.
CheckDestroyHasty(s) ==
    IF s.stream = "open" THEN s ELSE Post(s, home.signal, "DESTROY")

CheckDestroy(s) ==
    IF s.worker \/ s.stream = "open" THEN s ELSE Post(s, home.signal, "DESTROY")

OnSessionTerminate(s) ==
    IF s.session /\ ~s.channel
    THEN PostEvent([s EXCEPT !.session = FALSE], "CLOSE")
    ELSE s

Connect(s) ==
    [s EXCEPT !.worker = TRUE, !.channel = TRUE, !.tcp = NewTcp,
              !.ready = initiator]

\* TunnelSession::OnSessionState.
OnSessionState(s, st) ==
    IF ~s.tunnel THEN s
    ELSE CASE st \in {"SENTACCEPT", "RECEIVEDACCEPT"} -> Connect(s)
           [] st \in {"SENTTERMINATE", "RECEIVEDTERMINATE"} -> OnSessionTerminate(s)
           [] OTHER -> s

\* BaseSession::SetState up to the end of SignalState.
Notify(s, st) == OnSessionState([s EXCEPT !.state = st], st)

\* All of it, within a call of the object, which holds cs_.
SetState(s, st) ==
    IF st = s.state THEN s ELSE Post(Notify(s, st), home.signal, "STATE")

\* A bug: the session lives on without its channel.
OnChannelClosedIgnored(s) == s

\* TunnelSession::OnChannelClosed, and Session::Terminate.
OnChannelClosed(s) ==
    IF ~s.tunnel \/ s.state \in Terminal THEN s ELSE SetState(s, "SENTTERMINATE")

\* A bug: the stream is not told that its channel is gone.
OnChannelDestroyedSilently(s) ==
    LET clear == [Clear(s, home.signal, {"DESTROYCHANNEL"}) EXCEPT !.clocks = 0]
        gone == [Post(clear, home.worker, "PURGE") EXCEPT
                    !.session = FALSE, !.channel = FALSE]
    IN  OnChannelClosed(
            IF gone.tcp = NoTcp THEN gone
            ELSE AdjustClock([gone EXCEPT !.tcp.shut = "FORCEFUL"], TRUE))

OnChannelDestroyed(s) ==
    LET clear == [Clear(s, home.signal, {"DESTROYCHANNEL"}) EXCEPT !.clocks = 0]
        gone == [Post(clear, home.worker, "PURGE") EXCEPT
                    !.session = FALSE, !.channel = FALSE]
        news == IF s.tcp.state = "CLOSED" THEN gone ELSE PostEvent(gone, "CLOSE")
    IN  OnChannelClosed(
            IF news.tcp = NoTcp THEN news
            ELSE AdjustClock([news EXCEPT !.tcp.shut = "FORCEFUL"], TRUE))

\* SessionManager::DestroySession with ReleaseSession: the TunnelSession goes
\* first, then the session and its channels.
DestroySession(s) ==
    LET left == [Clear(s, home.signal, {"STATE"}) EXCEPT
                    !.tunnel = FALSE, !.state = "DEINIT"]
    IN  IF s.channel THEN OnChannelDestroyed(left) ELSE left

\* delete this; ~MessageHandler clears what is queued for it.
Delete(s) ==
    [s EXCEPT !.alive = FALSE, !.clocks = 0,
              !.queue = [t \in Thread |-> Remove(@[t], Own)]]

-----------------------------------------------------------------------------
(* The PseudoTcp, as the object sees it.                                   *)

OnTcpOpen(s) ==
    IF s.stream = "open"
    THEN PostEvent([s EXCEPT !.pending = TRUE], "OPEN")
    ELSE s

OnTcpReadable(s) ==
    IF s.stream = "open" /\ ~s.pending
    THEN PostEvent([s EXCEPT !.pending = TRUE], "READ")
    ELSE s

\* closedown, with OnTcpClosed.
Closedown(s) == PostEvent([s EXCEPT !.tcp.state = "CLOSED"], "CLOSE")

\* The states of a connection after a packet that does not reset it.
After(p) ==
    CASE p.state = "LISTEN" -> {"LISTEN", "SYN_RECEIVED"}
      [] p.state = "SYN_SENT" -> {"SYN_SENT", "ESTABLISHED"}
      [] p.state = "SYN_RECEIVED" -> {"SYN_RECEIVED", "ESTABLISHED"}
      [] OTHER -> {p.state}

\* PseudoTcp::process of a packet that leaves the connection in state st, with
\* bytes to send or not (room: few enough to ask for more), with an
\* acknowledgement owed or not, and that brings new data or not.  The signals
\* come in this order.
Process(s, st, sbuf, room, ack, data) ==
    LET opened == st = "ESTABLISHED" /\ s.tcp.state # st
        writable == s.tcp.writeEnable /\ (room \/ ~sbuf)
        readable == data /\ s.tcp.readEnable
        p == [s.tcp EXCEPT !.state = st, !.sbuf = sbuf, !.ack = ack,
                           !.rbuf = @ \/ data, !.readEnable = @ /\ ~readable,
                           !.writeEnable = @ /\ ~writable]
        a == [s EXCEPT !.tcp = p]
        b == IF opened THEN OnTcpOpen(a) ELSE a
        c == IF writable THEN PostEvent(b, "WRITE") ELSE b
    IN  IF readable THEN OnTcpReadable(c) ELSE c

\* What may be left in the send buffer: the connect message is queued first.
Unacked(p, st) ==
    IF p.state = "LISTEN" THEN {st = "SYN_RECEIVED"} ELSE {p.sbuf, FALSE}

MayBringData(p, st) ==
    p.shut = "NONE" /\ p.state \in {"SYN_RECEIVED", "ESTABLISHED"} /\ st = "ESTABLISHED"

\* fail: a segment went out too often, or the peer is silent at a closed window;
\* due: a delayed acknowledgement goes out; early: nothing is due yet.
NotifyClock(s, outcome) ==
    IF s.tcp.state = "CLOSED" THEN s
    ELSE CASE outcome = "fail" -> Closedown(s)
           [] outcome = "due" -> [s EXCEPT !.tcp.ack = FALSE]
           [] outcome = "early" -> s

-----------------------------------------------------------------------------
(* Messages.                                                               *)

Idle(t) == hand[t] = None

TakeQueued(t) ==
    /\ Idle(t) /\ sys.queue[t] # <<>>
    /\ hand' = [hand EXCEPT ![t] = Head(sys.queue[t])]
    /\ sys' = [sys EXCEPT !.queue[t] = Tail(@)]
    /\ UNCHANGED <<told, home, initiator>>

\* A delayed MSG_WK_CLOCK comes due.
TakeClock ==
    /\ Idle(home.worker) /\ sys.clocks > 0
    /\ hand' = [hand EXCEPT ![home.worker] = "CLOCK"]
    /\ sys' = [sys EXCEPT !.clocks = @ - 1]
    /\ UNCHANGED <<told, home, initiator>>

\* Thread t handles message m: the system becomes `next`.
Handled(t, m, next) ==
    /\ hand[t] = m
    /\ hand' = [hand EXCEPT ![t] = None]
    /\ sys' = next
    /\ UNCHANGED <<home, initiator>>

\* A bug: the clock stops.
HandleClockOnce(outcome) ==
    /\ outcome = "fail" => sys.tcp.state # "LISTEN"
    /\ Handled(home.worker, "CLOCK",
               IF sys.tcp = NoTcp THEN sys ELSE NotifyClock(sys, outcome))
    /\ UNCHANGED told

HandleClock(outcome) ==
    /\ outcome = "fail" => sys.tcp.state # "LISTEN"
    /\ Handled(home.worker, "CLOCK",
               IF sys.tcp = NoTcp THEN sys
               ELSE AdjustClock(NotifyClock(sys, outcome), FALSE))
    /\ UNCHANGED told

HandlePurge ==
    /\ Handled(home.worker, "PURGE", CheckDestroy([sys EXCEPT !.worker = FALSE]))
    /\ UNCHANGED told

\* A bug: the event stays pending.
HandleEventPending(e) ==
    /\ Handled(home.stream, e, sys)
    /\ told' = [read |-> told.read \/ e \in {"OPEN", "READ"},
                close |-> told.close + (IF e = "CLOSE" THEN 1 ELSE 0)]

HandleEvent(e) ==
    /\ Handled(home.stream, e,
               IF e \in {"OPEN", "READ"} THEN [sys EXCEPT !.pending = FALSE] ELSE sys)
    /\ told' = [read |-> told.read \/ e \in {"OPEN", "READ"},
                close |-> told.close + (IF e = "CLOSE" THEN 1 ELSE 0)]

HandleDestroyChannel ==
    /\ Handled(home.signal, "DESTROYCHANNEL", OnChannelDestroyed(sys))
    /\ UNCHANGED told

HandleDestroy ==
    /\ Handled(home.signal, "DESTROY", Delete(sys))
    /\ UNCHANGED told

\* Session::OnMessage(MSG_STATE).
HandleState ==
    /\ Handled(home.signal, "STATE",
               IF sys.state \in Terminal THEN DestroySession(sys) ELSE sys)
    /\ UNCHANGED told

\* The end of AcceptTunnel.  The application looks at the stream it is given:
\* what happened before is not told again.
GetStream ==
    /\ Handled(home.signal, "GETSTREAM", [sys EXCEPT !.stream = "open"])
    /\ told' = [read |-> TRUE, close |-> IF sys.tcp.state = "CLOSED" THEN 1 ELSE 0]

-----------------------------------------------------------------------------
(* The signalling thread.                                                  *)

\* A call on the signalling thread, while there is a session, that gives it the
\* state st.
Signalling(st) ==
    /\ Idle(home.signal) /\ sys.state \notin {"DEINIT", st}
    /\ sys' = Notify(sys, st)
    /\ hand' = [hand EXCEPT ![home.signal] = "SIGNALLED"]
    /\ UNCHANGED <<told, home, initiator>>

\* The end of BaseSession::SetState.
PostState ==
    /\ hand[home.signal] = "SIGNALLED"
    /\ hand' = [hand EXCEPT ![home.signal] =
                    IF sys.state = "SENTACCEPT" THEN "GETSTREAM" ELSE None]
    /\ sys' = Post(sys, home.signal, "STATE")
    /\ UNCHANGED <<told, home, initiator>>

ReceiveAccept == sys.state = "SENTINITIATE" /\ Signalling("RECEIVEDACCEPT")

\* PostState and GetStream are the rest of it.
AcceptTunnel == sys.state = "RECEIVEDINITIATE" /\ Signalling("SENTACCEPT")

DeclineTunnel == sys.state = "RECEIVEDINITIATE" /\ Signalling("SENTREJECT")

\* Session::OnTerminateMessage.
ReceiveTerminate ==
    \E st \in {"RECEIVEDTERMINATE"} \cup
               (IF "busy" \in Unhandled THEN {"RECEIVEDBUSY"} ELSE {}) :
          Signalling(st)

\* Session::Terminate, called by the application or for an error.
Terminate == sys.state \notin Terminal /\ Signalling("SENTTERMINATE")

\* ~TunnelSessionClientBase.
ClientShutdown ==
    /\ sys.tunnel
    /\ "shutdown" \in Unhandled \/ sys.channel \/ ~sys.session
    /\ Idle(home.signal) /\ sys.state # "DEINIT"
    /\ sys' = DestroySession(sys)
    /\ UNCHANGED <<hand, told, home, initiator>>

-----------------------------------------------------------------------------
(* The worker thread: signals of the transport channel.                    *)

OnChannel(next) ==
    /\ Idle(home.worker) /\ sys.channel /\ sys.tcp # NoTcp
    /\ sys' = AdjustClock(next, TRUE)
    /\ UNCHANGED <<hand, told, home, initiator>>

\* The first writable state: PseudoTcp::Connect queues the connect message,
\* unless the peer was faster.
OnChannelWritableState ==
    /\ sys.ready
    /\ OnChannel(IF sys.tcp.state = "LISTEN"
                 THEN [sys EXCEPT !.ready = FALSE, !.tcp.state = "SYN_SENT",
                                  !.tcp.sbuf = TRUE]
                 ELSE [sys EXCEPT !.ready = FALSE])

\* PseudoTcp::NotifyPacket: the packet is processed, or resets the connection.
NotifyPacket ==
    \/ sys.tcp.state = "CLOSED" /\ OnChannel(sys)
    \/ sys.tcp.state # "CLOSED" /\ OnChannel(Closedown(sys))
    \/ /\ sys.tcp.state # "CLOSED"
       /\ \E st \in After(sys.tcp) :
          \E sbuf \in Unacked(sys.tcp, st), room \in BOOLEAN, ack \in BOOLEAN,
             data \in {FALSE, MayBringData(sys.tcp, st)} :
             OnChannel(Process(sys, st, sbuf, room, ack, data))

OnChannelRead == sys.tcp # NoTcp /\ NotifyPacket

OnChannelConnectionChanged == OnChannel(sys)

-----------------------------------------------------------------------------
(* The thread of the stream.                                               *)

OnStream ==
    /\ Idle(home.stream) /\ sys.stream = "open"
    /\ UNCHANGED <<hand, home, initiator>>

\* All that there is, or a part of it; what is left is announced again.
Read ==
    /\ OnStream
    /\ sys.tcp.state = "ESTABLISHED"
    /\ IF sys.tcp.rbuf
       THEN /\ \E rest \in BOOLEAN, ack \in {sys.tcp.ack, FALSE} :
                  LET s == [sys EXCEPT !.tcp.rbuf = rest, !.tcp.ack = ack] IN
                  sys' = IF s.pending THEN s
                         ELSE PostEvent([s EXCEPT !.pending = TRUE], "READ")
            /\ UNCHANGED told
       ELSE /\ sys' = [sys EXCEPT !.tcp.readEnable = TRUE]
            /\ told' = [told EXCEPT !.read = FALSE]

\* There is room in the send buffer, or the call blocks.
Write ==
    /\ OnStream
    /\ sys.tcp.state = "ESTABLISHED"
    /\ \/ \E ack \in {sys.tcp.ack, FALSE} :
             sys' = [sys EXCEPT !.tcp.sbuf = TRUE, !.tcp.ack = ack]
       \/ /\ sys.tcp.sbuf /\ Len(sys.queue[home.stream]) < MaxQueue
          /\ sys' = [sys EXCEPT !.tcp.writeEnable = TRUE]
    /\ UNCHANGED told

\* The stream is closed before there is a channel, and while the session goes on.
TooEarly == ~sys.channel /\ sys.session

\* The stream is closed, without a channel, between the signal that the session
\* has ended and the message that will destroy it.
TooHasty ==
    /\ ~sys.channel /\ hand[home.signal] = "SIGNALLED"
    /\ \A i \in DOMAIN sys.queue[home.signal] : sys.queue[home.signal][i] # "STATE"

MayClose ==
    /\ TooEarly => "early close" \in Unhandled
    /\ TooHasty => "hasty close" \in Unhandled

\* A bug: nobody asks whether the object is still needed.
CloseOnly ==
    /\ OnStream /\ MayClose
    /\ sys' = LET s == Clear([sys EXCEPT !.stream = "closed"], home.stream, Event)
              IN  IF s.tcp = NoTcp THEN s
                  ELSE AdjustClock([s EXCEPT !.tcp.shut = "GRACEFUL"], TRUE)
    /\ UNCHANGED told

\* InternalStream::Close, or its destructor.
Close ==
    /\ OnStream /\ MayClose
    /\ sys' = LET s == Clear([sys EXCEPT !.stream = "closed"], home.stream, Event)
              IN  IF s.tcp = NoTcp THEN CheckDestroy(s)
                  ELSE AdjustClock([s EXCEPT !.tcp.shut = "GRACEFUL"], TRUE)
    /\ UNCHANGED told

-----------------------------------------------------------------------------
(* The specification.                                                      *)

\* The initiator's stream is made by CreateTunnel, on any thread; the tunnel
\* offered by a peer lives on the signalling thread until it is accepted.
Init ==
    /\ initiator \in BOOLEAN
    /\ home \in {h \in [{"signal", "worker", "stream"} -> Thread] :
                    /\ h.signal = "signal" /\ h.worker \in {"signal", "worker"}
                    /\ ~initiator => h.stream = "signal"
                    /\ h.stream = "worker" => h.worker = "worker"}
    /\ sys = [alive |-> TRUE, worker |-> FALSE, session |-> TRUE,
              channel |-> FALSE, stream |-> IF initiator THEN "open" ELSE None,
              tcp |-> NoTcp, pending |-> FALSE, ready |-> FALSE, tunnel |-> TRUE,
              state |-> IF initiator THEN "SENTINITIATE" ELSE "RECEIVEDINITIATE",
              queue |-> [t \in Thread |->
                           IF t = "signal" THEN <<"STATE">> ELSE <<>>],
              clocks |-> 0]
    /\ hand = [t \in Thread |-> None]
    /\ told = [read |-> FALSE, close |-> 0]

Outcome == {"fail", "due", "early"}

Handle ==
    \/ \E o \in Outcome : HandleClock(o)
    \/ \E e \in Event : HandleEvent(e)
    \/ HandlePurge \/ HandleDestroyChannel \/ HandleDestroy \/ HandleState
    \/ GetStream \/ PostState

Next ==
    \/ \E t \in Thread : TakeQueued(t)
    \/ TakeClock \/ Handle
    \/ ReceiveAccept \/ AcceptTunnel \/ DeclineTunnel \/ ReceiveTerminate
    \/ Terminate \/ ClientShutdown
    \/ OnChannelWritableState \/ OnChannelRead \/ OnChannelConnectionChanged
    \/ Read \/ Write \/ Close

Spec == Init /\ [][Next]_vars

\* What a clock does in the end for a connection that is closing.
GiveUp ==
    /\ sys.tcp # NoTcp
    /\ sys.tcp.shut = "GRACEFUL"
    /\ HandleClock(IF sys.tcp.sbuf THEN "fail" ELSE "due")

\* The thread goes on with what it has taken.
HandleOn(t) == hand[t] # None /\ Handle /\ hand'[t] # hand[t]

FairSpec ==
    /\ Spec
    /\ \A t \in Thread : SF_vars(TakeQueued(t)) /\ WF_vars(HandleOn(t))
    /\ SF_vars(TakeClock) /\ SF_vars(GiveUp)

-----------------------------------------------------------------------------
(* Properties.                                                             *)

\* Where message m is: queued, or taken by its thread.
Queued(m) == {t \in Thread : \E i \in DOMAIN sys.queue[t] : sys.queue[t][i] = m}
InHand(m) == {t \in Thread : hand[t] = m}
UnderWay(m) == Queued(m) \cup InHand(m) # {}

\* StreamState SS_CLOSED, as GetState returns it.
IsClosed == ~sys.session \/ sys.tcp.state = "CLOSED"

\* Every variable has its type.
TypeOK ==
    /\ sys \in System
    /\ hand \in [Thread -> Taken]
    /\ told \in [read : BOOLEAN, close : Nat]
    /\ home \in [{"signal", "worker", "stream"} -> Thread]
    /\ initiator \in BOOLEAN

\* The handler of every message finds what it asserts, on whichever thread and
\* however late: a request to destroy the channel has a channel, a purge has
\* none, an event has its stream.  And when the object is about to destroy
\* itself, what its destructor asserts is true and "the message queue is
\* empty": no thread has another message for it, queued or taken.
SafeToHandle ==
    /\ UnderWay("DESTROYCHANNEL") => sys.session /\ sys.channel
    /\ UnderWay("PURGE") => ~sys.session /\ ~sys.channel /\ sys.worker
    /\ \A e \in Event : UnderWay(e) => sys.stream = "open"
    /\ UnderWay("DESTROY") =>
          /\ ~sys.worker /\ ~sys.session /\ ~sys.channel
          /\ sys.stream # "open" /\ sys.tcp = NoTcp /\ sys.clocks = 0
          /\ \A m \in Own \ {"DESTROY"} : ~UnderWay(m)

\* Neither of the two owners follows a dangling pointer.  The TunnelSession
\* holds the object and calls it for every new state, so the object is there as
\* long as the TunnelSession.  As it may go once its session_ is NULL, a session
\* that the object has let go has ended, and the message that destroys it, with
\* the TunnelSession, is under way or about to be posted.  And a stream that is
\* open never finds that the session_ of the object was destroyed without its
\* being told.
NoDangling ==
    /\ sys.tunnel => sys.alive
    /\ ~sys.session /\ sys.tunnel =>
          /\ sys.state \in Terminal
          /\ UnderWay("STATE") \/ hand[home.signal] = "SIGNALLED"
    /\ sys.session /\ sys.stream = "open" => sys.state # "DEINIT"

\* A connection that has begun has a clock, queued or just taken: nothing else
\* would retransmit, acknowledge late or end it.  And there are never more than
\* two: AdjustClock clears the one that is queued, but does not reach the one
\* the worker thread has just taken, which posts another.
ClockIsKept ==
    /\ sys.tcp # NoTcp /\ sys.tcp.state # "LISTEN" =>
           sys.clocks > 0 \/ UnderWay("CLOCK")
    /\ sys.clocks <= 2

\* An application is told exactly once that its stream is closed, and only
\* when it is, whichever of the session, the channel and the connection ends
\* first and on whichever thread.
StreamIsTold ==
    sys.stream = "open" =>
        told.close
          + Len(Remove(sys.queue[home.stream], Message \ {"CLOSE"}))
          + (IF hand[home.stream] = "CLOSE" THEN 1 ELSE 0)
            = IF IsClosed THEN 1 ELSE 0

\* Data that can be read is known to the application: it was told, and has not
\* found the stream empty since, or an event for it is under way.
DataIsAnnounced ==
    sys.stream = "open" /\ sys.tcp.state = "ESTABLISHED" /\ sys.tcp.rbuf =>
        told.read \/ UnderWay("OPEN") \/ UnderWay("READ")

\* Once the application has closed its stream the object is destroyed: a
\* connection that is flushing ends, its channel goes, and the last of the
\* three threads leaves.
Released == sys.stream = "closed" ~> ~sys.alive
=============================================================================
