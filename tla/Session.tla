------------------------------- MODULE Session -------------------------------
(***************************************************************************)
(* The signalling of one session (one sid) between the initiator and the   *)
(* full JIDs of the callee: talk/p2p/base/session.cc and sessionmanager.cc *)
(* on every peer, the IQ bookkeeping of SessionSendTask, and the XMPP      *)
(* server between them (external), which may reorder, repeat, drop, bounce *)
(* or redirect stanzas.                                                    *)
(*                                                                         *)
(* A handler runs to completion on the peer's signaling thread, so each is *)
(* one action.  What it posts to that thread (MSG_STATE, MSG_ERROR) waits  *)
(* in `queue`; delayed messages (MSG_TIMEOUT, MSG_INIT_ACK_TIMEOUT) are in *)
(* `timers` and may fire whenever they are armed.                          *)
(***************************************************************************)
EXTENDS Naturals, Sequences, FiniteSets

CONSTANTS
    Initiator,     \* the peer that calls Initiate()
    Responders,    \* full JIDs of the callee: they share one bare JID
    Foreign,       \* a JID with another bare JID, only as a redirect target
    Contents,      \* content names in the order of the map transports_
    Candidates,    \* candidates a transport can gather
    Protocols,     \* the protocols the initiator may start with
    Reorder,       \* the server may overtake a stanza by a later one
    Batch,         \* kinds of stanza that may come while posted messages wait
    Faults,        \* the fault kinds the server may commit
    MaxFaults,     \* how many of them
    MaxQueue,      \* posted messages up to which transports report anything
    MaxInfo,       \* description-info messages all peers may send
    NoJid          \* the empty remote_name_ of a session that has none yet

Peers == {Initiator} \cup Responders
ContentNames == {Contents[i] : i \in DOMAIN Contents}

ASSUME PeersAssumption ==
    /\ Initiator \notin Responders
    /\ Foreign \notin Peers
    /\ NoJid \notin Peers \cup {Foreign}
ASSUME ContentsAssumption == Contents \in Seq(ContentNames)
ASSUME ProtocolsAssumption == Protocols \subseteq {"HYBRID", "JINGLE", "GINGLE"}
ASSUME BoundsAssumption ==
    /\ MaxFaults \in Nat /\ MaxQueue \in Nat /\ MaxInfo \in Nat
    /\ Reorder \in BOOLEAN /\ Batch \subseteq {"set", "result", "error"}
    /\ Faults \subseteq {"lose", "repeat", "bounce", "redirect", "slow"}

\* BaseSession::State, without the states no code path enters.
Terminal == {"SENTBUSY", "SENTREJECT", "RECEIVEDBUSY", "RECEIVEDREJECT",
             "SENTTERMINATE", "RECEIVEDTERMINATE"}
State == Terminal \cup
    {"INIT", "SENTINITIATE", "RECEIVEDINITIATE", "RECEIVEDINITIATE_ACK",
     "SENTACCEPT", "RECEIVEDACCEPT", "INPROGRESS", "DEINIT"}
Error == {"NONE", "TIME", "RESPONSE", "ACK_TIME"}
ActionType == {"initiate", "accept", "reject", "terminate",
               "transport-info", "description-info"}
ErrorType == {"modify", "cancel", "wait"}

ASSUME NamesAssumption ==
    (Responders \cup {Foreign}) \cap ({"none", "busy"} \cup ErrorType) = {}

VARIABLES
    ses,        \* peer -> its Session object ("DEINIT": none in session_map_)
    net,        \* stanzas the server holds
    pending,    \* peer -> requests whose SessionSendTask waits for a response
    sent,       \* peer -> the last place it has given to a stanza (the IQ ids)
    offered,    \* history: <<peer, to, content, candidate>> put on the wire
    accepted,   \* history: responders that have called Accept() successfully
    faults,     \* faults the server has committed
    infos       \* description-info messages sent

vars == <<ses, net, pending, sent, offered, accepted, faults, infos>>

SessionRecord ==
    [state      : State,
     error      : Error,
     remote     : Peers \cup {NoJid},
     acked      : BOOLEAN,                     \* initiate_acked_
     protocol   : {"HYBRID", "JINGLE", "GINGLE"},
     queue      : Seq({"STATE", "ERROR"}),
     timers     : SUBSET {"TIMEOUT", "INIT_ACK"},
     local      : BOOLEAN,                     \* local_description_ != NULL
     descr      : BOOLEAN,                     \* remote_description_ != NULL
     negotiated : SUBSET ContentNames,
     connecting : SUBSET ContentNames,
     watched    : SUBSET ContentNames,         \* SignalConnecting has fired
     writable   : SUBSET ContentNames,
     gathered   : SUBSET (ContentNames \X Candidates),
     unsent     : SUBSET (ContentNames \X Candidates),
     resend     : SUBSET (ContentNames \X Candidates), \* sent_candidates_
     signalled  : Seq({"offer", "answer"})]

Stanza ==
    [kind  : {"set", "result", "error"},
     type  : ActionType,
     from  : Peers,
     to    : Peers \cup {NoJid},
     n     : Nat,          \* position among the stanzas of its sender
     id    : Nat,          \* the IQ id; a response carries the request's
     gingle : BOOLEAN,     \* the receiver reads it as Gingle
     cands : SUBSET (ContentNames \X Candidates),
     arg   : {"none", "busy"} \cup ErrorType \cup Responders \cup {Foreign}]

-----------------------------------------------------------------------------
(* Session objects and the helpers of BaseSession and Session.             *)

NewSession(protocol) ==
    [state |-> "INIT", error |-> "NONE", remote |-> NoJid, acked |-> FALSE,
     protocol |-> protocol, queue |-> <<>>, timers |-> {}, local |-> FALSE,
     descr |-> FALSE, negotiated |-> {}, connecting |-> {}, watched |-> {},
     writable |-> {}, gathered |-> {}, unsent |-> {}, resend |-> {},
     signalled |-> <<>>]

NoSession == [NewSession("HYBRID") EXCEPT !.state = "DEINIT"]

\* SignalNewDescription: what the media channels are told in a state.
GetContentAction(state) ==
    IF state \in {"SENTINITIATE", "RECEIVEDINITIATE"} THEN <<"offer">>
    ELSE IF state \in {"SENTACCEPT", "RECEIVEDACCEPT"} THEN <<"answer">>
    ELSE <<>>

SetState(s, state) ==
    [s EXCEPT !.state = state,
              !.queue = IF state # s.state THEN Append(@, "STATE") ELSE @,
              !.signalled = @ \o GetContentAction(state)]

SetError(s, error) ==
    [s EXCEPT !.error = error, !.queue = Append(@, "ERROR")]

CheckSentInitiate(s) == s.state \in {"SENTINITIATE", "RECEIVEDINITIATE_ACK"}


\* CompleteNegotiation and ConnectChannels on the proxies of the contents cs.
ConnectProxies(s, cs) ==
    [s EXCEPT !.negotiated = @ \cup cs, !.connecting = @ \cup cs]

LearnProtocol(s, m) ==
    IF s.protocol = "HYBRID"
    THEN [s EXCEPT !.protocol = IF m.gingle THEN "GINGLE" ELSE "JINGLE"]
    ELSE s

\* A bug: the sid alone identifies the session.
FindSessionBySid(p, from) == ses[p].state # "DEINIT"

FindSession(p, from) == ses[p].state # "DEINIT" /\ ses[p].remote = from

-----------------------------------------------------------------------------
(* Stanzas.  A handler writes a set of them; k is a stanza's place among    *)
(* those of its handler: the request, the transport-infos, the reply.      *)

\* ToJingleString: a Jingle reject goes out as session-terminate.
WireType(s, type) ==
    IF type = "reject" /\ s.protocol # "GINGLE" THEN "terminate" ELSE type

Request(s, type, cands, arg) ==
    [kind |-> "set", type |-> WireType(s, type), to |-> s.remote, id |-> 0,
     gingle |-> s.protocol = "GINGLE", cands |-> cands, arg |-> arg, k |-> 1]

Reply(kind, m, arg) ==
    [kind |-> kind, type |-> m.type, to |-> m.from, id |-> m.id,
     gingle |-> m.gingle, cands |-> {}, arg |-> arg, k |-> Len(Contents) + 2]

\* The result of a request other than an initiate only ends its SendTask; it is
\* left out, which is the same as one later than the task's timeout.
Acknowledgement(m) ==
    IF m.type = "initiate" THEN {Reply("result", m, "none")} ELSE {}
ErrorMessage(m) == {Reply("error", m, "modify")}

Stamp(p, w) ==
    LET n == sent[p] + w.k
    IN  [kind |-> w.kind, type |-> w.type, from |-> p, to |-> w.to, n |-> n,
         id |-> IF w.kind = "set" THEN n ELSE w.id,
         gingle |-> w.gingle, cands |-> w.cands, arg |-> w.arg]

\* SignalOutgoingMessage of every stanza in out: a SessionSendTask sends it and,
\* when it is a request, waits for the response.
Send(p, out, inNet, waiting) ==
    LET stamped == {Stamp(p, w) : w \in out}
    IN  /\ net' = inNet \cup stamped
        /\ sent' = IF out = {} THEN sent
                   ELSE [sent EXCEPT ![p] = @ + Len(Contents) + 2]
        /\ pending' = [pending EXCEPT
                          ![p] = waiting \cup {m \in stamped : m.kind = "set"}]
        /\ offered' = offered \cup
               UNION {{<<p, m.to, c[1], c[2]>> : c \in m.cands} : m \in stamped}

\* One transport-info per proxy that has candidates among cs, in map order.
TransportInfos(s, cs) ==
    LET of(i) == {c \in cs : c[1] = Contents[i]}
    IN  {[Request(s, "transport-info", of(i), "none") EXCEPT !.k = i + 1] :
            i \in {j \in DOMAIN Contents : of(j) # {}}}

\* Session::OnInitiateAcked: the session after it, and what it sends.
OnInitiateAcked(s) ==
    LET s1 == SetState([s EXCEPT !.timers = @ \ {"INIT_ACK"}],
                       "RECEIVEDINITIATE_ACK")
    IN  [s1 EXCEPT !.acked = TRUE, !.unsent = IF s.acked THEN @ ELSE {}]

\* A bug: the candidates kept back are flushed only by a second acknowledgement.
UnsentTransportInfosLate(s) == IF s.acked THEN TransportInfos(s, s.unsent) ELSE {}

UnsentTransportInfos(s) == IF s.acked THEN {} ELSE TransportInfos(s, s.unsent)

\* A bug: the old timer is cleared but no new one is posted.
SendInitiateMessageNoTimer(s) == [s EXCEPT !.timers = @ \ {"INIT_ACK"}]

SendInitiateMessage(s) == [s EXCEPT !.timers = @ \cup {"INIT_ACK"}]

\* The environment spends one of its faults.
Commit(kind) ==
    /\ kind \in Faults
    /\ faults < MaxFaults
    /\ faults' = faults + 1

Update(p, s) == ses' = [ses EXCEPT ![p] = s]

-----------------------------------------------------------------------------
(* Operations of the client.                                               *)

Initiate(p, to) ==
    LET s == [ses[p] EXCEPT !.remote = to, !.local = TRUE,
                            !.connecting = ContentNames]
    IN  /\ p = Initiator
        /\ ses[p].state = "INIT"
        /\ Update(p, SetState(SendInitiateMessage(s), "SENTINITIATE"))
        /\ Send(p, {Request(s, "initiate", {}, "none")}, net, pending[p])
        /\ UNCHANGED <<accepted, faults, infos>>

Accept(p) ==
    LET s == [ses[p] EXCEPT !.local = TRUE]
    IN  /\ s.state = "RECEIVEDINITIATE"
        /\ Update(p, SetState(ConnectProxies(s, ContentNames), "SENTACCEPT"))
        /\ Send(p, {Request(s, "accept", {}, "none")}, net, pending[p])
        /\ accepted' = accepted \cup {p}
        /\ UNCHANGED <<faults, infos>>

RejectState(reason) == IF reason = "busy" THEN "SENTBUSY" ELSE "SENTREJECT"

Reject(p, reason) ==
    /\ ses[p].state = "RECEIVEDINITIATE"
    /\ Update(p, SetState(ses[p], RejectState(reason)))
    /\ Send(p, {Request(ses[p], "reject", {}, reason)}, net, pending[p])
    /\ UNCHANGED <<accepted, faults, infos>>

\* A bug: the state is assigned without going through SetState.
TerminateQuietly(p, s) ==
    /\ s.state \notin Terminal
    /\ Update(p, [s EXCEPT !.state = "SENTTERMINATE"])
    /\ Send(p, {Request(s, "terminate", {}, "none")}, net, pending[p])

TerminateWithReason(p, s) ==
    /\ s.state \notin Terminal
    /\ Update(p, SetState(s, "SENTTERMINATE"))
    /\ Send(p, {Request(s, "terminate", {}, "none")}, net, pending[p])

Terminate(p) ==
    /\ ses[p].state # "DEINIT"
    /\ TerminateWithReason(p, ses[p])
    /\ UNCHANGED <<accepted, faults, infos>>

SendDescriptionInfoMessage(p) ==
    /\ ses[p].state = "INPROGRESS"
    /\ infos < MaxInfo
    /\ infos' = infos + 1
    /\ Send(p, {Request(ses[p], "description-info", {}, "none")},
            net, pending[p])
    /\ UNCHANGED <<ses, accepted, faults>>

-----------------------------------------------------------------------------
(* Signals of the transports, marshalled to the signaling thread.          *)

OnTransportProxyCandidatesReady(p, content, cand) ==
    LET s    == [ses[p] EXCEPT !.gathered = @ \cup {<<content, cand>>}]
        here == {<<content, cand>>}
    IN  /\ s.state # "DEINIT"
        /\ Len(s.queue) < MaxQueue
        /\ content \in s.connecting
        /\ <<content, cand>> \notin ses[p].gathered
        /\ IF p = Initiator /\ ~s.acked
           THEN /\ Update(p, [s EXCEPT !.unsent = @ \cup here])
                /\ UNCHANGED <<net, pending, sent, offered>>
           ELSE /\ Update(p, [s EXCEPT !.resend =
                                  IF content \in s.negotiated THEN @
                                  ELSE @ \cup here])
                /\ Send(p, TransportInfos(s, here), net, pending[p])
        /\ UNCHANGED <<accepted, faults, infos>>

\* OnTransportConnecting (the first report) and OnTransportWritable: the one
\* MSG_TIMEOUT of the session is cleared, and armed if this transport cannot
\* send.
OnTransportWritable(p, content, w) ==
    LET s == ses[p]
    IN  /\ s.state # "DEINIT"
        /\ Len(s.queue) < MaxQueue
        /\ content \in s.connecting
        /\ IF content \in s.watched THEN w # (content \in s.writable) ELSE ~w
        /\ Update(p, [s EXCEPT
               !.watched = @ \cup {content},
               !.writable = IF w THEN @ \cup {content} ELSE @ \ {content},
               !.timers = IF w THEN @ \ {"TIMEOUT"} ELSE @ \cup {"TIMEOUT"}])
        /\ UNCHANGED <<net, pending, sent, offered, accepted, faults, infos>>

-----------------------------------------------------------------------------
(* Messages of the signaling thread to the session.                        *)

FireTimer(p, timer) ==
    /\ timer \in ses[p].timers
    /\ Update(p, SetError([ses[p] EXCEPT !.timers = @ \ {timer}],
                          IF timer = "TIMEOUT" THEN "TIME" ELSE "ACK_TIME"))
    /\ UNCHANGED <<net, pending, sent, offered, accepted, faults, infos>>

\* A bug: an error message is dropped when the session is not in progress.
OnMessageErrorOnlyInProgress(p) ==
    LET s == [ses[p] EXCEPT !.queue = Tail(@)]
    IN  /\ ses[p].queue # <<>>
        /\ \/ /\ Head(ses[p].queue) = "STATE"
              /\ Update(p,
                    IF s.state \in Terminal THEN NoSession
                    ELSE IF s.state \in {"SENTACCEPT", "RECEIVEDACCEPT"}
                    THEN SetState(s, "INPROGRESS") ELSE s)
              /\ UNCHANGED <<net, pending, sent, offered>>
           \/ /\ Head(ses[p].queue) = "ERROR"
              /\ s.state = "INPROGRESS"
              /\ TerminateWithReason(p, s)
           \/ /\ Head(ses[p].queue) = "ERROR"
              /\ s.state # "INPROGRESS"
              /\ Update(p, s)
              /\ UNCHANGED <<net, pending, sent, offered>>
        /\ UNCHANGED <<accepted, faults, infos>>

\* Session::OnMessage for the message at the head of the queue.
OnMessage(p) ==
    LET s == [ses[p] EXCEPT !.queue = Tail(@)]
    IN  /\ ses[p].queue # <<>>
        /\ \/ /\ Head(ses[p].queue) = "STATE"
              /\ Update(p,
                    IF s.state \in Terminal THEN NoSession  \* DestroySession
                    ELSE IF s.state \in {"SENTACCEPT", "RECEIVEDACCEPT"}
                    THEN SetState(s, "INPROGRESS") ELSE s)
              /\ UNCHANGED <<net, pending, sent, offered>>
           \/ /\ Head(ses[p].queue) = "ERROR"
              /\ TerminateWithReason(p, s)
           \/ /\ Head(ses[p].queue) = "ERROR"
              /\ s.state \in Terminal
              /\ Update(p, s)
              /\ UNCHANGED <<net, pending, sent, offered>>
        /\ UNCHANGED <<accepted, faults, infos>>

-----------------------------------------------------------------------------
(* Session::OnIncomingMessage.  Each On...Message is the outcome of one    *)
(* handler: the session after it and the stanzas it writes.                *)

Outcome(s, out) == [session |-> s, out |-> out]
Refused(s, m) == Outcome(s, ErrorMessage(m))

\* A bug: an initiate for a session that exists starts it again.
OnInitiateMessageAgain(s, m, verdict) ==
    LET s1 == SetState([s EXCEPT !.remote = m.from, !.descr = TRUE],
                       "RECEIVEDINITIATE")
    IN  IF verdict = "ring"
        THEN Outcome(ConnectProxies(s1, ContentNames), Acknowledgement(m))
        ELSE Outcome(SetState(s1, RejectState(verdict)),
                     {Request(s1, "reject", {}, verdict)} \cup Acknowledgement(m))

\* The client called Reject() from SignalState: both calls of SetState post, and
\* neither finds a description to signal.
RejectedAtOnce(s, verdict) ==
    [SetState(s, RejectState(verdict)) EXCEPT !.queue = Append(@, "STATE")]

\* SignalState comes before the candidates are looked at and before the initiate
\* is acknowledged.
OnInitiateMessage(s, m, verdict) ==
    LET s1 == [s EXCEPT !.remote = m.from, !.descr = TRUE]
    IN  IF s.state # "INIT" THEN Refused(s, m)
        ELSE IF verdict = "ring"
        THEN Outcome(ConnectProxies(SetState(s1, "RECEIVEDINITIATE"), ContentNames),
                     Acknowledgement(m))
        ELSE Outcome(RejectedAtOnce(s1, verdict),
                     {Request(s1, "reject", {}, verdict)} \cup Acknowledgement(m))

\* A bug: an accept is taken in any state.
OnAcceptMessageUnchecked(s, m) ==
    LET s1 == [OnInitiateAcked(s) EXCEPT !.descr = TRUE]
    IN  Outcome(SetState(ConnectProxies(s1, ContentNames), "RECEIVEDACCEPT"),
                UnsentTransportInfos(s) \cup Acknowledgement(m))

OnAcceptMessage(s, m) ==
    LET s1 == [OnInitiateAcked(s) EXCEPT !.descr = TRUE]
    IN  IF ~CheckSentInitiate(s) THEN Refused(s, m)
        ELSE Outcome(SetState(ConnectProxies(s1, ContentNames), "RECEIVEDACCEPT"),
                     UnsentTransportInfos(s) \cup Acknowledgement(m))

\* Parsing succeeds, so the message is valid in every state; nothing changes.
OnRejectMessage(s, m) == Outcome(s, Acknowledgement(m))

\* A bug: a terminate is honoured only while the session is in progress.
OnTerminateMessageInProgress(s, m) ==
    IF s.state = "INPROGRESS"
    THEN Outcome(SetState(s, "RECEIVEDTERMINATE"), Acknowledgement(m))
    ELSE Refused(s, m)

OnTerminateMessage(s, m) ==
    Outcome(SetState(s, IF m.arg = "busy" THEN "RECEIVEDBUSY"
                        ELSE "RECEIVEDTERMINATE"),
            Acknowledgement(m))

OnTransportInfoMessage(s, m) ==
    Outcome(ConnectProxies(s, {c[1] : c \in m.cands}), Acknowledgement(m))

\* A Gingle description-info is written with an empty action and never parses.
OnDescriptionInfoMessage(s, m) ==
    IF m.gingle \/ s.state # "INPROGRESS" THEN Refused(s, m)
    ELSE Outcome(s, Acknowledgement(m))

HandleMessage(s, m, verdict) ==
    CASE m.type = "initiate"         -> OnInitiateMessage(s, m, verdict)
      [] m.type = "accept"           -> OnAcceptMessage(s, m)
      [] m.type = "reject"           -> OnRejectMessage(s, m)
      [] m.type = "terminate"        -> OnTerminateMessage(s, m)
      [] m.type = "transport-info"   -> OnTransportInfoMessage(s, m)
      [] m.type = "description-info" -> OnDescriptionInfoMessage(s, m)

\* SessionManager::OnIncomingMessage; inNet is the network without m, or with
\* it when the server will deliver it again.
OnIncomingMessage(p, m, inNet) ==
    IF ~FindSession(p, m.from) /\ m.type # "initiate"
    THEN /\ Send(p, ErrorMessage(m), inNet, pending[p])
         /\ UNCHANGED ses
    ELSE \E verdict \in {"ring", "busy", "none"} :
           LET s == IF FindSession(p, m.from) THEN ses[p]
                    ELSE NewSession("HYBRID")
               r == HandleMessage(LearnProtocol(s, m), m, verdict)
           IN  /\ m.type # "initiate" => verdict = "ring"
               /\ Update(p, r.session)
               /\ Send(p, r.out, inNet, pending[p])

-----------------------------------------------------------------------------
(* Responses, matched by SessionSendTask to the request that waits.        *)

\* A bug: the bare JID of the target is not compared.
OnRedirectErrorAnyJid(s, target) ==
    LET s1 == SendInitiateMessage([s EXCEPT !.remote = target])
    IN  IF CheckSentInitiate(s)
        THEN Outcome([s1 EXCEPT !.resend = {}],
                     {Request(s1, "initiate", {}, "none")}
                     \cup TransportInfos(s1, s1.resend))
        ELSE Outcome(SetError(s, "RESPONSE"), {})

OnRedirectError(s, target) ==
    LET s1 == SendInitiateMessage([s EXCEPT !.remote = target])
    IN  IF CheckSentInitiate(s) /\ target \in Responders
        THEN Outcome([s1 EXCEPT !.resend = {}],
                     {Request(s1, "initiate", {}, "none")}
                     \cup TransportInfos(s1, s1.resend))
        ELSE Outcome(SetError(s, "RESPONSE"), {})

\* arg: the type attribute of the error, or the target of a redirect.
OnFailedSend(s, r, arg) ==
    IF r.type = "description-info" /\ r.gingle THEN Outcome(s, {})
    ELSE IF arg \in Responders \cup {Foreign} THEN OnRedirectError(s, arg)
    ELSE IF r.type = "transport-info" \/ arg = "wait" THEN Outcome(s, {})
    ELSE Outcome(SetError(s, "RESPONSE"), {})

OnIncomingResponse(s, r) ==
    IF r.type = "initiate"
    THEN Outcome(OnInitiateAcked(s), UnsentTransportInfos(s))
    ELSE Outcome(s, {})

\* The SessionSendTask of request r ends with outcome kind/arg.
EndSendTask(p, r, kind, arg, inNet) ==
    LET s == ses[p]
        o == IF ~FindSession(p, r.to) THEN Outcome(s, {})
             ELSE IF kind = "result" THEN OnIncomingResponse(s, r)
             ELSE OnFailedSend(s, r, arg)
    IN  /\ Update(p, o.session)
        /\ Send(p, o.out, inNet, pending[p] \ {r})

SendTimeout(p, r) ==
    /\ r \in pending[p]
    /\ Commit("slow")
    /\ EndSendTask(p, r, "error", "cancel", net)
    /\ UNCHANGED <<accepted, infos>>

OnResponse(p, m, inNet) ==
    \/ \E r \in pending[p] :
          /\ r.id = m.id /\ r.to = m.from
          /\ EndSendTask(p, r, m.kind, m.arg, inNet)
    \/ /\ \A r \in pending[p] : ~(r.id = m.id /\ r.to = m.from)
       /\ net' = inNet
       /\ UNCHANGED <<ses, pending, sent, offered>>

-----------------------------------------------------------------------------
(* The XMPP server.                                                        *)

CanDeliver(m) ==
    /\ m.to \in Peers
    /\ Reorder \/ \A o \in net : o.from = m.from /\ o.to = m.to => m.n <= o.n
    /\ m.kind \in Batch \/ ses[m.to].queue = <<>>

Receive(m, inNet) ==
    /\ CanDeliver(m)
    /\ IF m.kind = "set" THEN OnIncomingMessage(m.to, m, inNet)
       ELSE OnResponse(m.to, m, inNet)
    /\ UNCHANGED <<accepted, infos>>

Deliver(m) == Receive(m, net \ {m}) /\ UNCHANGED faults
DeliverRepeatedly(m) == Commit("repeat") /\ Receive(m, net)

Lose(m) ==
    /\ Commit("lose")
    /\ net' = net \ {m}
    /\ UNCHANGED <<ses, pending, sent, offered, accepted, infos>>

\* The server answers request m itself, on behalf of its addressee.
Bounce(m, fault, arg) ==
    /\ m.kind = "set"
    /\ m.to \in Peers
    /\ Commit(fault)
    /\ net' = (net \ {m}) \cup
                {[m EXCEPT !.kind = "error", !.from = m.to, !.to = m.from,
                           !.n = 0, !.cands = {}, !.arg = arg]}
    /\ UNCHANGED <<ses, pending, sent, offered, accepted, infos>>

-----------------------------------------------------------------------------
Init ==
    /\ \E protocol \in Protocols :
          ses = [p \in Peers |-> IF p = Initiator THEN NewSession(protocol)
                                 ELSE NoSession]
    /\ net = {}
    /\ pending = [p \in Peers |-> {}]
    /\ sent = [p \in Peers |-> 0]
    /\ offered = {}
    /\ accepted = {}
    /\ faults = 0
    /\ infos = 0

Client(p) ==
    \/ \E to \in Responders : Initiate(p, to)
    \/ Accept(p)
    \/ \E reason \in {"busy", "none"} : Reject(p, reason)
    \/ Terminate(p)
    \/ SendDescriptionInfoMessage(p)

Transport(p) ==
    \E content \in ContentNames :
        \/ \E cand \in Candidates :
              OnTransportProxyCandidatesReady(p, content, cand)
        \/ \E w \in BOOLEAN : OnTransportWritable(p, content, w)

Server ==
    \E m \in net :
        \/ DeliverRepeatedly(m)
        \/ Lose(m)
        \/ \E t \in {"cancel", "wait"} : Bounce(m, "bounce", t)
        \/ \E j \in (Responders \cup {Foreign}) \ {m.to} : Bounce(m, "redirect", j)

Next ==
    \/ \E p \in Peers :
          \/ Client(p)
          \/ Transport(p)
          \/ OnMessage(p)
          \/ \E timer \in {"TIMEOUT", "INIT_ACK"} : FireTimer(p, timer)
          \/ \E r \in pending[p] : SendTimeout(p, r)
    \/ \E m \in net : Deliver(m)
    \/ Server

Spec == Init /\ [][Next]_vars

\* The signaling thread keeps dispatching and its timers expire; the server
\* eventually delivers what it has neither lost nor bounced.
Fairness ==
    /\ \A p \in Peers :
          /\ WF_vars(OnMessage(p))
          /\ \A timer \in {"TIMEOUT", "INIT_ACK"} : WF_vars(FireTimer(p, timer))
    /\ WF_vars(\E m \in net : Deliver(m))

FairSpec == Spec /\ Fairness

-----------------------------------------------------------------------------
(* Properties.                                                             *)

\* Every variable holds what the code's declarations allow it to hold.
TypeOK ==
    /\ ses \in [Peers -> SessionRecord]
    /\ net \subseteq Stanza
    /\ pending \in [Peers -> SUBSET Stanza]
    /\ sent \in [Peers -> Nat]
    /\ offered \subseteq Peers \X (Peers \cup {NoJid})
                         \X ContentNames \X Candidates
    /\ accepted \subseteq Peers
    /\ faults \in Nat
    /\ infos \in Nat

Transient == Terminal \cup {"SENTACCEPT", "RECEIVEDACCEPT"}

Queued(p, msg) == \E i \in DOMAIN ses[p].queue : ses[p].queue[i] = msg

\* A session in a state it must leave by itself (an accepted session goes in
\* progress, an ended one is destroyed) has the MSG_STATE posted that moves it.
TransientStateIsPosted ==
    \A p \in Peers : ses[p].state \in Transient => Queued(p, "STATE")

\* While the initiator waits for the acknowledgement of its initiate, the
\* acknowledgement timeout is running or has posted the error that ends the
\* session, also after a redirect.
AckIsAwaitedWithTimeout ==
    ses[Initiator].state = "SENTINITIATE" =>
        "INIT_ACK" \in ses[Initiator].timers \/ Queued(Initiator, "ERROR")

\* The initiator takes a session as accepted only on the accept of the JID it
\* is talking to, whichever redirects happened before.
AcceptedByRemote ==
    ses[Initiator].state \in {"RECEIVEDACCEPT", "INPROGRESS"} =>
        ses[Initiator].remote \in accepted

\* Every candidate a transport has gathered is on its way to the peer the
\* session talks to now, or kept for the acknowledgement of the initiate.
NoCandidateStranded ==
    \A p \in Peers : \A c \in ses[p].gathered :
        \/ <<p, ses[p].remote, c[1], c[2]>> \in offered
        \/ c \in ses[p].unsent /\ ~ses[p].acked

\* A transport that has started connecting and cannot send has the session
\* timeout running, or the session is already on its way out.  It does not hold
\* with two transports: see the README, section 9.
TransportIsWatched ==
    \A p \in Peers :
        ses[p].watched \ ses[p].writable # {} /\ ses[p].state \notin Terminal =>
            "TIMEOUT" \in ses[p].timers \/ Queued(p, "ERROR")

\* What the media channels of p have been told so far, and that media waits for it.
Heard(p) ==
    /\ ses[p].signalled \in {<<>>, <<"offer">>, <<"offer", "answer">>}
    /\ ses[p].state \in {"SENTACCEPT", "RECEIVEDACCEPT", "INPROGRESS"} =>
          /\ ses[p].signalled = <<"offer", "answer">>
          /\ ses[p].negotiated = ContentNames

\* The media channels of a session are told of one offer and then of at most
\* one answer, although the server may deliver an initiate or accept again; and
\* media flows, or is about to, only after both, when every transport is
\* negotiated.
OneOfferOneAnswer == \A p \in Peers : Heard(p)

\* A responder whose session has ended never has it come back to life.
ResponderStaysEnded ==
    [][\A r \in Responders : ses[r].state \in Terminal =>
           ses'[r].state \in Terminal \cup {"DEINIT"}]_vars

\* A session in progress leaves that state only by ending, whatever redirects,
\* copies and late stanzas come.  It does not hold when the acknowledgement of
\* the initiate comes after the accept: see the README, section 9.
InProgressUntilEnded ==
    [][ses[Initiator].state = "INPROGRESS" =>
           ses'[Initiator].state \in Terminal \cup {"INPROGRESS", "DEINIT"}]_vars

\* A session in which an error was raised is destroyed, whatever requests and
\* error responses are handled before the posted MSG_ERROR and MSG_STATE are.  It
\* does not hold when the response to the initiate may be one of them: see the
\* README, section 9.
ErrorEndsSession ==
    \A p \in Peers : ses[p].error # "NONE" ~> ses[p].state = "DEINIT"

\* The initiator has ended the call, or the callee has hung up.
OneSideLeft ==
    \/ ses[Initiator].state = "DEINIT"
    \/ \E r \in Responders : ses[r].state = "SENTTERMINATE"

\* When one side of a call is gone the other side follows, and both stay away.
BothSidesEnd == OneSideLeft ~> \A p \in Peers : ses[p].state = "DEINIT"

\* A reject ends the session of the initiator.  It does not hold for Gingle: see
\* the README, section 9.
RejectIsReceived ==
    \A r \in Responders :
        ses[r].state \in {"SENTREJECT", "SENTBUSY"} ~>
            ses[Initiator].state \in Terminal \cup {"DEINIT"}
=============================================================================
