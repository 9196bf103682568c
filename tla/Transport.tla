----------------------------- MODULE Transport -----------------------------
(***************************************************************************)
(* The transports of a session: Transport (talk/p2p/base/transport.cc),    *)
(* TransportChannelProxy (transportchannelproxy.cc) and the TransportProxy *)
(* and BaseSession of session.cc that share transports between contents,   *)
(* under the calls that WebRtcSession (talk/app/webrtc) makes.             *)
(*                                                                         *)
(* Two threads: what the signalling thread asks of the worker it Sends, so *)
(* it is one step; what the worker reports it Posts.  What a call does is  *)
(* an operator from a record of the whole state to another.                *)
(***************************************************************************)
EXTENDS Naturals, FiniteSets, Sequences, Queues

CONSTANTS
    Content,       \* the contents of a session
    Component,     \* rtp and rtcp
    Uses,          \* content -> the components of its media channel
    Rtcp,          \* the component that RTCP multiplexing makes useless
    MaxOffers,     \* offers of a session
    MaxFlips       \* times a channel becomes writable or stops to be

ASSUME TransportAssumption ==
    /\ IsFiniteSet(Content)
    /\ IsFiniteSet(Component) /\ Uses \in [Content -> SUBSET Component]
    /\ MaxOffers \in Nat /\ MaxFlips \in Nat

VARIABLES
    st,       \* the session: its proxies, its transports and their messages
    offer,    \* whose offer has no answer yet
    offers,   \* offers made so far
    flips     \* changes of writability so far

vars == <<st, offer, offers, flips>>

Transports == 1 .. Cardinality(Content) + 1
None == 0

-----------------------------------------------------------------------------
(* State.                                                                  *)

\* ChannelMapEntry and what Transport knows of the channel in it.  A channel
\* exists while it has references.
Channel ==
    [ref : Nat, allocated : BOOLEAN, waiting : BOOLEAN,
     gather : {"none", "running", "done"}, writable : BOOLEAN,
     cred : {"none", "session", "generated"}, remote : BOOLEAN,
     proto : {"google", "hybrid", "rfc5245"}]

NoChannel ==
    [ref |-> 0, allocated |-> FALSE, waiting |-> FALSE, gather |-> "none",
     writable |-> FALSE, cred |-> "none", remote |-> FALSE,
     proto |-> "google"]

TransportState ==
    [chan : [Component -> Channel], connect : BOOLEAN,
     writable : {"none", "some", "all"},
     local : {"none", "session", "generated"}, remote : BOOLEAN,
     proto : {"hybrid", "rfc5245"}]

NewTransport ==
    [chan |-> [c \in Component |-> NoChannel], connect |-> FALSE,
     writable |-> "none", local |-> "none",
     remote |-> FALSE, proto |-> "hybrid"]

\* A content without a TransportProxy has no transport.  impl and writable are
\* those of its TransportChannelProxies.
Proxy ==
    [transport : Transports \cup {None}, connecting : BOOLEAN,
     negotiated : BOOLEAN, allocated : BOOLEAN, chans : SUBSET Component,
     impl : [Component -> Transports \cup {None}],
     writable : [Component -> BOOLEAN]]

NoProxy ==
    [transport |-> None, connecting |-> FALSE, negotiated |-> FALSE,
     allocated |-> FALSE, chans |-> {}, impl |-> [c \in Component |-> None],
     writable |-> [c \in Component |-> FALSE]]

\* What Transport Posts to the signalling thread, and what is posted to the
\* worker.
SignalingMessage ==
    [type : {"request"}, t : Transports, c : Component]
    \cup [type : {"write", "allocated"}, t : Transports]

WorkerMessage ==
    [type : {"signaling"}, t : Transports]
    \cup [type : {"update"}, n : Content, c : Component]

Message == SignalingMessage \cup WorkerMessage

SessionState ==
    [tp : [Content -> Proxy], tr : [Transports -> TransportState],
     sq : Seq(SignalingMessage), wq : Seq(WorkerMessage),
     ice : {"new", "gathering", "complete"}, desc : SUBSET {"local", "remote"}]

Contents(x) == {n \in Content : x.tp[n].transport # None}
Has(x, t, c) == x.tr[t].chan[c].ref > 0
Channels(x, t) == {c \in Component : Has(x, t, c)}

\* F(F(x, a), b) ... for the elements of S.
Fold(x, S, f) ==
    LET after[T \in SUBSET S] ==
            IF T = {} THEN x
            ELSE LET c == CHOOSE c \in T : TRUE IN f[<<after[T \ {c}], c>>]
    IN  after[S]

Each(x, S, F(_, _)) ==
    Fold(x, S, [p \in SessionState \X S |-> F(p[1], p[2])])

\* F of every channel of a transport.
EachChannel(x, t, F(_)) ==
    [x EXCEPT !.tr[t].chan = [c \in Component |-> IF @[c].ref > 0 THEN F(@[c])
                                                  ELSE @[c]]]

-----------------------------------------------------------------------------
(* Messages.  One that is queued already, and whose handler reads what is   *)
(* the state by then, is not queued twice.                                 *)

Queue(q, m) ==
    IF m.type # "request" /\ \E i \in DOMAIN q : q[i] = m THEN q
    ELSE Append(q, m)

PostSignaling(x, m) == [x EXCEPT !.sq = Queue(@, m)]
PostWorker(x, m) == [x EXCEPT !.wq = Queue(@, m)]

OnChannelWritableState(x, t) == PostSignaling(x, [type |-> "write", t |-> t])

\* P2PTransportChannel::Allocate, and Transport::OnChannelRequestSignaling
Allocate(x, t, c) ==
    [PostSignaling(x, [type |-> "request", t |-> t, c |-> c])
        EXCEPT !.tr[t].chan[c].waiting = TRUE]

-----------------------------------------------------------------------------
(* Transport.                                                              *)

Described(x, t) == x.tr[t].local # "none" /\ x.tr[t].remote

\* The state of the transport that a new channel is given.
PushedDown(x, t) ==
    [NoChannel EXCEPT !.ref = 1, !.cred = x.tr[t].local,
                      !.remote = Described(x, t),
                      !.proto = IF Described(x, t) THEN x.tr[t].proto ELSE @]

CreateChannel(x, t, c) ==
    LET y == [x EXCEPT !.tr[t].chan[c] = PushedDown(x, t)]
    IN  IF Has(x, t, c) THEN [x EXCEPT !.tr[t].chan[c].ref = @ + 1]
        ELSE IF x.tr[t].connect THEN Allocate(y, t, c) ELSE y

\* A bug: the others may be all writable now, and nobody looks.
DestroyChannelSilently(x, t, c) ==
    IF x.tr[t].chan[c].ref = 1 THEN [x EXCEPT !.tr[t].chan[c] = NoChannel]
    ELSE [x EXCEPT !.tr[t].chan[c].ref = IF @ = 0 THEN 0 ELSE @ - 1]

DestroyChannel(x, t, c) ==
    IF x.tr[t].chan[c].ref = 1
    THEN OnChannelWritableState([x EXCEPT !.tr[t].chan[c] = NoChannel], t)
    ELSE [x EXCEPT !.tr[t].chan[c].ref = IF @ = 0 THEN 0 ELSE @ - 1]

\* SetIceCredentials: others than before make it allocate again.
SetIceCredentials(x, t, c, cred) ==
    LET y == [x EXCEPT !.tr[t].chan[c].cred = cred]
    IN  IF x.tr[t].chan[c].cred \notin {"none", cred} THEN Allocate(y, t, c)
        ELSE y

NegotiateTransportDescription(x, t) ==
    LET push(k) == [k EXCEPT !.proto = "rfc5245"]
    IN  EachChannel([x EXCEPT !.tr[t].proto = "rfc5245"], t, push)

SetLocalDescription(x, t, cred, action) ==
    LET apply(y, c) == SetIceCredentials(y, t, c, cred)
        z == Each([x EXCEPT !.tr[t].local = cred], Channels(x, t), apply)
    IN  IF action = "offer" THEN z ELSE NegotiateTransportDescription(z, t)

SetRemoteDescription(x, t, action) ==
    LET apply(k) == [k EXCEPT !.remote = TRUE]
        z == EachChannel([x EXCEPT !.tr[t].remote = TRUE], t, apply)
    IN  IF action = "offer" THEN z ELSE NegotiateTransportDescription(z, t)

ConnectTransport(x, t) ==
    LET connect(y, c) == Allocate(y, t, c)
        asked == [x EXCEPT !.tr[t].connect = TRUE]
    IN  IF x.tr[t].connect \/ Channels(x, t) = {} THEN x
        ELSE Each(IF x.tr[t].local # "none" THEN asked
                  ELSE SetLocalDescription(asked, t, "generated", "offer"),
                  Channels(x, t), connect)

\* The last reference to the transport goes: DestroyAllChannels.
Release(x, t) ==
    LET M == {m \in Message : m.type # "update" /\ m.t = t}
    IN  IF \E n \in Content : x.tp[n].transport = t THEN x
        ELSE [x EXCEPT !.tr[t] = NewTransport,
                       !.sq = Remove(@, M), !.wq = Remove(@, M)]

-----------------------------------------------------------------------------
(* TransportChannelProxy and TransportProxy.                               *)

\* A bug: nobody is told that the implementation may be writable already.
SetImplementationSilently(x, n, c, t) ==
    LET old == x.tp[n].impl[c]
        y == IF old = None THEN x ELSE DestroyChannel(x, old, c)
    IN  [y EXCEPT !.tp[n].impl[c] = t]

SetImplementation(x, n, c, t) ==
    LET old == x.tp[n].impl[c]
        y == IF old = None THEN x ELSE DestroyChannel(x, old, c)
    IN  PostWorker([y EXCEPT !.tp[n].impl[c] = t],
                   [type |-> "update", n |-> n, c |-> c])

GetOrCreateChannelProxyImpl(x, n, c) ==
    IF Has(x, x.tp[n].transport, c) THEN x
    ELSE CreateChannel(x, x.tp[n].transport, c)

SetChannelProxyImpl(x, n, c) ==
    SetImplementation(GetOrCreateChannelProxyImpl(x, n, c), n, c,
                      x.tp[n].transport)

\* TransportProxy::CreateChannel
CreateChannelProxy(x, n, c) ==
    LET y == [x EXCEPT !.tp[n].chans = @ \cup {c}]
    IN  IF x.tp[n].negotiated THEN SetChannelProxyImpl(y, n, c)
        ELSE IF x.tp[n].connecting THEN GetOrCreateChannelProxyImpl(y, n, c)
        ELSE y

\* ~TransportChannelProxy
DeleteChannelProxy(x, n, c) ==
    LET t == x.tp[n].impl[c]
        M == {[type |-> "update", n |-> n, c |-> c]}
        y == IF t = None THEN x ELSE DestroyChannel(x, t, c)
        p == [x.tp[n] EXCEPT !.chans = @ \ {c}, !.impl[c] = None,
                             !.writable[c] = FALSE]
    IN  [y EXCEPT !.wq = Remove(@, M), !.tp[n] = p]

\* TransportProxy::DestroyChannel
DestroyChannelProxy(x, n, c) ==
    DeleteChannelProxy(IF x.tp[n].negotiated THEN x
                       ELSE SetChannelProxyImpl(x, n, c), n, c)

ConnectChannels(x, n) ==
    LET create(y, c) == GetOrCreateChannelProxyImpl(y, n, c)
        y == IF x.tp[n].connecting \/ x.tp[n].negotiated THEN x
             ELSE Each(x, x.tp[n].chans, create)
    IN  ConnectTransport([y EXCEPT !.tp[n].connecting = TRUE],
                         x.tp[n].transport)

CompleteNegotiation(x, n) ==
    LET hook(y, c) == SetChannelProxyImpl(y, n, c)
    IN  IF x.tp[n].negotiated THEN x
        ELSE [Each(x, x.tp[n].chans, hook) EXCEPT !.tp[n].negotiated = TRUE]

\* SetLocalTransportDescription and SetRemoteTransportDescription
Negotiated(x, n, action) ==
    IF action = "answer" THEN CompleteNegotiation(x, n) ELSE x

\* A bug: the channel of the other content is shared without a reference.
SetupMuxUncounted(x, n, m) ==
    LET t == x.tp[m].transport
        repoint(y, c) == SetImplementation(y, n, c, IF Has(y, t, c) THEN t
                                                    ELSE None)
        z == [Each(x, x.tp[n].chans, repoint) EXCEPT
                 !.tp[n].transport = t,
                 !.tp[n].allocated = x.tp[m].allocated]
    IN  IF x.tp[n].transport = t THEN x ELSE Release(z, x.tp[n].transport)

\* SetupMux: the content moves to the transport of the content m.
SetupMux(x, n, m) ==
    LET t == x.tp[m].transport
        repoint(y, c) ==
            IF Has(y, t, c) THEN SetImplementation(CreateChannel(y, t, c),
                                                   n, c, t)
            ELSE SetImplementation(y, n, c, None)
        z == [Each(x, x.tp[n].chans, repoint) EXCEPT
                 !.tp[n].transport = t,
                 !.tp[n].allocated = x.tp[m].allocated]
    IN  IF x.tp[n].transport = t THEN x ELSE Release(z, x.tp[n].transport)

-----------------------------------------------------------------------------
(* BaseSession and WebRtcSession.                                          *)

CreateProxy(x, n) ==
    LET t == CHOOSE u \in Transports :
                \A m \in Content : x.tp[m].transport # u
        create(y, c) == CreateChannelProxy(y, n, c)
    IN  Each([x EXCEPT !.tp[n] = [NoProxy EXCEPT !.transport = t]],
             Uses[n], create)

\* The media channel of a content goes, and then its TransportProxy.
DestroyProxy(x, n) ==
    LET destroy(y, c) == DestroyChannelProxy(y, n, c)
        y == Each(x, x.tp[n].chans, destroy)
    IN  Release([y EXCEPT !.tp[n] = NoProxy], x.tp[n].transport)

\* CreateChannels and RemoveUnusedChannelsAndTransports, for a description of
\* the contents C.
Adjust(x, C) ==
    Each(Each(x, C \ Contents(x), CreateProxy), Contents(x) \ C, DestroyProxy)

PushdownLocal(x, action) ==
    LET push(y, n) ==
            ConnectChannels(SetLocalDescription(Negotiated(y, n, action),
                                y.tp[n].transport, "session", action), n)
    IN  Each(x, Contents(x), push)

PushdownRemote(x, action) ==
    LET push(y, n) == SetRemoteDescription(Negotiated(y, n, action),
                                           y.tp[n].transport, action)
    IN  Each(x, Contents(x), push)

\* BaseSession::OnRemoteCandidates.  A candidate with a bad address or for an
\* unknown component is refused when the negotiation is complete already.
OnRemoteCandidates(x, n, valid) ==
    LET y == CompleteNegotiation(x, n)
    IN  IF valid THEN ConnectChannels(y, n) ELSE y

\* UseCandidatesInSessionDescription: those of the contents D, valid for V.
UseCandidates(x, D, V) ==
    LET use(y, n) == OnRemoteCandidates(y, n, n \in V) IN Each(x, D, use)

AllocationDone(x) == \A n \in Contents(x) : x.tp[n].allocated

MaybeCandidateAllocationDone(x) ==
    IF AllocationDone(x) THEN [x EXCEPT !.ice = "complete"] ELSE x

\* The bundles that name some of the contents C, one of them first.
Bundles(C) ==
    UNION {{[names |-> G, first |-> n] : n \in G} : G \in SUBSET C}

\* MaybeEnableMuxingSupport, when both descriptions have a bundle; b is that of
\* the local one.
EnableMux(x, b) ==
    LET mux(y, n) == SetupMux(y, n, b.first)
        y == Each(x, b.names, mux)
    IN  IF AllocationDone(x) THEN y ELSE MaybeCandidateAllocationDone(y)

-----------------------------------------------------------------------------
(* What the application does, on the signalling thread.                    *)

\* set_local_description and set_remote_description
Set(who) == [st EXCEPT !.desc = @ \cup {who}]

Offering(who) ==
    /\ offer \in {"none", who} /\ offers < MaxOffers
    /\ offer' = who /\ offers' = offers + 1
    /\ UNCHANGED flips

SetLocalOffer ==
    /\ Offering("local")
    /\ \E C \in SUBSET Content \ {{}} :
          st' = PushdownLocal(Adjust(Set("local"), C), "offer")

\* The contents D of an offer may have candidates, those of V valid ones, which
\* are used if there was a description from this side before.
SetRemoteOffer ==
    /\ Offering("remote")
    /\ \E C \in SUBSET Content \ {{}} :
       \E D \in SUBSET C :
       \E V \in SUBSET D :
          /\ D # {} => "local" \in st.desc
          /\ st' = UseCandidates(PushdownRemote(Adjust(Set("remote"), C),
                                                "offer"), D, V)

\* The descriptions may have a bundle, which counts when one is the answer.
Answered(x, action) ==
    {x} \cup {EnableMux(x, b) :
                b \in IF action = "answer" THEN Bundles(Contents(x)) ELSE {}}

SetLocalAnswer ==
    /\ offer = "remote"
    /\ \E action \in {"pranswer", "answer"} :
          /\ st' \in Answered(PushdownLocal(Set("local"), action), action)
          /\ offer' = IF action = "answer" THEN "none" ELSE offer
    /\ UNCHANGED <<offers, flips>>

SetRemoteAnswer ==
    /\ offer = "local"
    /\ \E action \in {"pranswer", "answer"} :
          /\ st' \in Answered(PushdownRemote(Set("remote"), action), action)
          /\ offer' = IF action = "answer" THEN "none" ELSE offer
    /\ UNCHANGED <<offers, flips>>

\* A candidate of the other side, with both descriptions set; it may also have
\* been saved until they were.
ProcessIceMessage(n) ==
    /\ n \in Contents(st) /\ st.desc = {"local", "remote"}
    /\ \E valid \in BOOLEAN : st' = OnRemoteCandidates(st, n, valid)
    /\ UNCHANGED <<offer, offers, flips>>

\* RTCP multiplexing is agreed on: BaseChannel::set_rtcp_transport_channel.
ActivateRtcpMux(n) ==
    /\ offer = "none" /\ Rtcp \in st.tp[n].chans
    /\ st' = DestroyChannelProxy(st, n, Rtcp)
    /\ UNCHANGED <<offer, offers, flips>>

Terminate ==
    /\ Contents(st) # {}
    /\ st' = Each(st, Contents(st), DestroyProxy)
    /\ offers' = MaxOffers /\ offer' = "none"
    /\ UNCHANGED flips

-----------------------------------------------------------------------------
(* What the signalling thread handles.                                     *)

GetTransportState(x, t) ==
    LET W == {c \in Channels(x, t) : x.tr[t].chan[c].writable}
    IN  IF W = {} THEN "none"
        ELSE IF W = Channels(x, t) THEN "all" ELSE "some"

\* A bug: gathering has begun, so signalling is taken to be ready.
OnChannelRequestSignalingOnce(x, t, c) ==
    LET y == [x EXCEPT !.tr[t].chan[c].allocated = FALSE,
                       !.ice = "gathering"]
    IN  IF x.ice = "gathering" THEN y
        ELSE PostWorker(y, [type |-> "signaling", t |-> t])

\* OnChannelRequestSignaling_s, and OnSignalingReady, which WebRtcSession
\* calls at once.
OnChannelRequestSignaling(x, t, c) ==
    PostWorker([x EXCEPT !.tr[t].chan[c].allocated = FALSE,
                         !.ice = "gathering"],
               [type |-> "signaling", t |-> t])

OnTransportCandidatesAllocationDone(x, t) ==
    MaybeCandidateAllocationDone(
        [x EXCEPT !.tp = [n \in Content |->
            IF x.tp[n].transport = t THEN [@[n] EXCEPT !.allocated = TRUE]
            ELSE @[n]]])

HandleSignaling(m) ==
    LET x == [st EXCEPT !.sq = Tail(@)]
    IN  /\ st.sq # <<>> /\ m = Head(st.sq)
        /\ st' = CASE m.type = "request" ->
                        OnChannelRequestSignaling(x, m.t, m.c)
                   [] m.type = "allocated" ->
                        OnTransportCandidatesAllocationDone(x, m.t)
                   [] m.type = "write" ->
                        [x EXCEPT !.tr[m.t].writable =
                                        GetTransportState(x, m.t)]
        /\ UNCHANGED <<offer, offers, flips>>

-----------------------------------------------------------------------------
(* What the worker thread does.                                            *)

\* P2PTransportChannel::OnSignalingReady
OnSignalingReady(k) ==
    IF k.waiting THEN [k EXCEPT !.waiting = FALSE, !.gather = "running"] ELSE k

\* TransportChannelProxy::OnMessage
UpdateState(x, n, c) ==
    LET t == x.tp[n].impl[c]
    IN  [x EXCEPT !.tp[n].writable[c] = /\ t # None
                                        /\ x.tr[t].chan[c].writable]

HandleWorker(m) ==
    LET x == [st EXCEPT !.wq = Tail(@)]
    IN  /\ st.wq # <<>> /\ m = Head(st.wq)
        /\ st' = IF m.type = "signaling"
                 THEN EachChannel(x, m.t, OnSignalingReady)
                 ELSE UpdateState(x, m.n, m.c)
        /\ UNCHANGED <<offer, offers, flips>>

OnChannelCandidatesAllocationDone(t, c) ==
    /\ st.tr[t].chan[c].gather = "running"
    /\ LET k == [st.tr[t].chan[c] EXCEPT !.gather = "done", !.allocated = TRUE]
           x == [st EXCEPT !.tr[t].chan[c] = k]
       IN  st' = IF \A d \in Channels(x, t) : x.tr[t].chan[d].allocated
                 THEN PostSignaling(x, [type |-> "allocated", t |-> t])
                 ELSE x
    /\ UNCHANGED <<offer, offers, flips>>

\* The channel becomes writable, or stops to be; its proxies follow.
SignalWritableState(t, c) ==
    /\ st.tr[t].chan[c].gather # "none"
    /\ flips < MaxFlips /\ flips' = flips + 1
    /\ LET x == [st EXCEPT !.tr[t].chan[c].writable = ~@]
           follow == [n \in Content |->
                         IF x.tp[n].impl[c] = t THEN UpdateState(x, n, c).tp[n]
                         ELSE x.tp[n]]
       IN  st' = OnChannelWritableState([x EXCEPT !.tp = follow], t)
    /\ UNCHANGED <<offer, offers>>

-----------------------------------------------------------------------------
Init ==
    /\ st = [tp |-> [n \in Content |-> NoProxy],
             tr |-> [t \in Transports |-> NewTransport],
             sq |-> <<>>, wq |-> <<>>, ice |-> "new", desc |-> {}]
    /\ offer = "none" /\ offers = 0 /\ flips = 0

Signaling == \E m \in SignalingMessage : HandleSignaling(m)
Worker == \E m \in WorkerMessage : HandleWorker(m)

Next ==
    \/ SetLocalOffer \/ SetRemoteOffer \/ SetLocalAnswer \/ SetRemoteAnswer
    \/ \E n \in Content : ProcessIceMessage(n) \/ ActivateRtcpMux(n)
    \/ Terminate
    \/ Signaling \/ Worker
    \/ \E t \in Transports, c \in Component :
          \/ OnChannelCandidatesAllocationDone(t, c)
          \/ SignalWritableState(t, c)

Spec == Init /\ [][Next]_vars

-----------------------------------------------------------------------------
(* Properties.                                                             *)

\* Every variable holds what the code's declarations allow it to hold.
TypeOK ==
    /\ st \in SessionState
    /\ offer \in {"none", "local", "remote"}
    /\ offers \in 0 .. MaxOffers /\ flips \in 0 .. MaxFlips

\* The contents that use a channel, or will when they are negotiated.
Users(x, t, c) ==
    {n \in Contents(x) :
        \/ x.tp[n].impl[c] = t
        \/ /\ x.tp[n].transport = t /\ c \in x.tp[n].chans
           /\ x.tp[n].connecting /\ ~x.tp[n].negotiated}

\* The reference count of a channel is the number of contents that use it, and
\* of those that will when they are negotiated; so no proxy of a bundle is left
\* with a channel that another one's destruction has deleted.
ReferencesMatch ==
    \A t \in Transports, c \in Component :
        st.tr[t].chan[c].ref = Cardinality(Users(st, t, c))

\* A proxy channel is writable exactly when its channel is, or the message that
\* makes it so is queued, whatever transports it has been moved to.
ProxyIsCurrent ==
    \A n \in Contents(st) : \A c \in st.tp[n].chans :
        \/ st.tp[n].writable[c] = UpdateState(st, n, c).tp[n].writable[c]
        \/ [type |-> "update", n |-> n, c |-> c] \in Elements(st.wq)

\* A transport all of whose channels are writable says so, or is about to: the
\* destruction of the last channel that was not is noticed too.
WritableIsNoticed ==
    \A t \in Transports :
        GetTransportState(st, t) = "all" =>
            \/ st.tr[t].writable = "all"
            \/ [type |-> "write", t |-> t] \in Elements(st.sq)

\* "Push down our transport state to the new channel": a channel of a transport
\* with both descriptions has the credentials of the other side.  It does not
\* hold: see the README, section 9.
CredentialsArePushed ==
    \A t \in Transports, c \in Component :
        Has(st, t, c) /\ Described(st, t) => st.tr[t].chan[c].remote

\* "If all channels belonging to this Transport got signal, then forward this
\* signal to upper layer."  It does not hold: see the README, section 9.
AllocationIsReported ==
    \A n \in Contents(st) :
        LET t == st.tp[n].transport
        IN  (/\ Channels(st, t) # {}
             /\ \A c \in Channels(st, t) : /\ st.tr[t].chan[c].gather = "done"
                                           /\ ~st.tr[t].chan[c].waiting)
            => \/ st.tp[n].allocated
               \/ [type |-> "allocated", t |-> t] \in Elements(st.sq)

\* A channel of a transport that is asked to connect gathers, or waits for
\* signalling; and while one waits, the message that asks for signalling or the
\* one that lets the channels go on is queued.  So none waits for ever.
ChannelsGather ==
    \A t \in Transports, c \in Component :
        LET k == st.tr[t].chan[c]
        IN  /\ Has(st, t, c) /\ st.tr[t].connect =>
                  k.gather # "none" \/ k.waiting
            /\ k.waiting =>
                  \/ [type |-> "request", t |-> t, c |-> c] \in Elements(st.sq)
                  \/ [type |-> "signaling", t |-> t] \in Elements(st.wq)
=============================================================================
