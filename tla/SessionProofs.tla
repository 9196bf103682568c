---------------------------- MODULE SessionProofs ----------------------------
(***************************************************************************)
(* Invariants of Session proved for every set of peers, contents and       *)
(* candidates, every server (Reorder, Batch, Faults) and every bound.      *)
(***************************************************************************)
EXTENDS Session, TLAPS

Message == {"STATE", "ERROR"}
Cands == SUBSET (ContentNames \X Candidates)
Arg == {"none", "busy"} \cup ErrorType \cup Responders \cup {Foreign}

\* What a handler writes before Stamp gives it a sender and an id.
Wire ==
    [kind : {"set", "result", "error"}, type : ActionType,
     to : Peers \cup {NoJid}, id : Nat, gingle : BOOLEAN, cands : Cands,
     arg : Arg, k : Nat]

-----------------------------------------------------------------------------
(* Lemmas on the helpers.                                                  *)

\* SetState keeps the type of a session.
LEMMA SetStateType ==
    ASSUME NEW s \in SessionRecord, NEW st \in State
    PROVE  SetState(s, st) \in SessionRecord
<1>1. GetContentAction(st) \in Seq({"offer", "answer"})
  <2>1. <<"offer">> \in Seq({"offer", "answer"})
    OBVIOUS
  <2>2. <<"answer">> \in Seq({"offer", "answer"})
    OBVIOUS
  <2>3. <<>> \in Seq({"offer", "answer"})
    OBVIOUS
  <2> QED
    BY <2>1, <2>2, <2>3, Zenon DEF GetContentAction
<1>2. Append(s.queue, "STATE") \in Seq(Message)
  BY DEF SessionRecord, Message
<1>3. s.signalled \o GetContentAction(st) \in Seq({"offer", "answer"})
  BY <1>1 DEF SessionRecord
<1> QED
  BY <1>2, <1>3 DEF SetState, SessionRecord, Message

\* SetError keeps the type of a session.
LEMMA SetErrorType ==
    ASSUME NEW s \in SessionRecord, NEW e \in Error
    PROVE  SetError(s, e) \in SessionRecord
<1>2. Append(s.queue, "ERROR") \in Seq(Message)
  BY DEF SessionRecord, Message
<1> QED
  BY <1>2 DEF SetError, SessionRecord, Message

\* The constructor of Session gives a well-typed session.
LEMMA NewSessionType ==
    ASSUME NEW pr \in {"HYBRID", "JINGLE", "GINGLE"}
    PROVE  NewSession(pr) \in SessionRecord
BY DEF NewSession, SessionRecord, State, Error

\* A request that Session::SendMessage builds is a well-typed wire.
LEMMA RequestType ==
    ASSUME NEW s \in SessionRecord, NEW t \in ActionType, NEW c \in Cands,
           NEW a \in Arg
    PROVE  Request(s, t, c, a) \in Wire
BY DEF Request, Wire, WireType, SessionRecord, ActionType

\* So is the acknowledgement or the error that answers a stanza.
LEMMA ReplyType ==
    ASSUME NEW m \in Stanza, NEW a \in Arg, NEW kd \in {"result", "error"}
    PROVE  Reply(kd, m, a) \in Wire
<1>1. Len(Contents) + 2 \in Nat
  BY ContentsAssumption
<1> QED
  BY <1>1 DEF Reply, Wire, Stanza, Cands, ContentNames

\* The transport-infos of any set of candidates are well-typed wires.
LEMMA TransportInfosType ==
    ASSUME NEW s \in SessionRecord, NEW cs \in Cands
    PROVE  TransportInfos(s, cs) \subseteq Wire
<1> DEFINE of(i) == {c \in cs : c[1] = Contents[i]}
<1>1. SUFFICES ASSUME NEW i \in DOMAIN Contents
               PROVE [Request(s, "transport-info", of(i), "none")
                        EXCEPT !.k = i + 1] \in Wire
  BY DEF TransportInfos
<1>2. of(i) \in Cands
  BY DEF Cands
<1>3. Request(s, "transport-info", of(i), "none") \in Wire
  BY <1>2, RequestType DEF ActionType, Arg
<1>4. i + 1 \in Nat
  BY ContentsAssumption
<1> HIDE DEF of
<1> QED
  BY <1>3, <1>4 DEF Wire

\* Connecting and negotiating transport proxies keeps the type of a session.
LEMMA ConnectProxiesType ==
    ASSUME NEW s \in SessionRecord, NEW cs \in SUBSET ContentNames
    PROVE  ConnectProxies(s, cs) \in SessionRecord
BY DEF ConnectProxies, SessionRecord

\* Stamped wires are stanzas, so sending keeps the types of the network, of
\* the pending requests and of the history.
LEMMA SendType ==
    ASSUME TypeOK, NEW p \in Peers, NEW out \in SUBSET Wire,
           NEW inNet \in SUBSET Stanza, NEW waiting \in SUBSET Stanza,
           Send(p, out, inNet, waiting)
    PROVE  /\ net' \subseteq Stanza
           /\ pending' \in [Peers -> SUBSET Stanza]
           /\ sent' \in [Peers -> Nat]
           /\ offered' \subseteq Peers \X (Peers \cup {NoJid})
                                 \X ContentNames \X Candidates
<1> DEFINE stamped == {Stamp(p, w) : w \in out}
<1>1. sent[p] \in Nat /\ Len(Contents) \in Nat
  BY ContentsAssumption DEF TypeOK
<1>2. ASSUME NEW w \in Wire PROVE Stamp(p, w) \in Stanza
  BY <1>1, <1>2 DEF Stamp, Wire, Stanza, Arg, Cands
<1>3. stamped \subseteq Stanza
  BY <1>2
<1>4. net' = inNet \cup stamped
  BY DEF Send
<1>5. pending' = [pending EXCEPT ![p] = waiting \cup {m \in stamped : m.kind = "set"}]
  BY DEF Send
<1>6. sent' \in [Peers -> Nat]
  BY <1>1 DEF Send, TypeOK
<1>7. offered' = offered \cup
          UNION {{<<p, m.to, c[1], c[2]>> : c \in m.cands} : m \in stamped}
  BY DEF Send
<1> HIDE DEF stamped
<1>8. ASSUME NEW m \in stamped, NEW c \in m.cands
      PROVE  <<p, m.to, c[1], c[2]>> \in Peers \X (Peers \cup {NoJid})
                                 \X ContentNames \X Candidates
  BY <1>3, <1>8 DEF Stanza
<1>9. net' \subseteq Stanza
  BY <1>3, <1>4
<1>10. pending' \in [Peers -> SUBSET Stanza]
  BY <1>3, <1>5 DEF TypeOK
<1>11. offered' \subseteq Peers \X (Peers \cup {NoJid})
                           \X ContentNames \X Candidates
  <2> DEFINE H == Peers \X (Peers \cup {NoJid}) \X ContentNames \X Candidates
  <2>1. SUFFICES ASSUME NEW x \in offered' PROVE x \in H
    OBVIOUS
  <2>2. CASE x \in offered
    BY <2>2 DEF TypeOK
  <2>3. CASE x \notin offered
    <3>1. PICK m \in stamped : x \in {<<p, m.to, c[1], c[2]>> : c \in m.cands}
      BY <1>7, <2>3
    <3>2. PICK c \in m.cands : x = <<p, m.to, c[1], c[2]>>
      BY <3>1
    <3> QED
      BY <1>8, <3>2
  <2> QED
    BY <2>2, <2>3
<1> QED
  BY <1>6, <1>9, <1>10, <1>11

-----------------------------------------------------------------------------
(* The per-session part of the invariant.                                  *)

Has(q, msg) == \E i \in DOMAIN q : q[i] = msg

\* A session in a state it must leave by itself has MSG_STATE posted.
Posted(s) == s.state \in Transient => Has(s.queue, "STATE")

\* A session that waits for the acknowledgement has its timeout running, or the
\* MSG_ERROR posted with which the timeout ends it.
Awaited(s) ==
    s.state = "SENTINITIATE" => "INIT_ACK" \in s.timers \/ Has(s.queue, "ERROR")

Good(s) == s \in SessionRecord /\ Posted(s) /\ Awaited(s)

GoodOutcome(o) == Good(o.session) /\ o.out \subseteq Wire

\* Posting a message adds that message to the queue and takes none away.
LEMMA HasAppend ==
    ASSUME NEW q \in Seq(Message), NEW a \in Message, NEW b \in Message
    PROVE  Has(Append(q, a), b) <=> (a = b \/ Has(q, b))
<1>1. /\ Len(q) \in Nat
      /\ DOMAIN q = 1 .. Len(q)
      /\ DOMAIN Append(q, a) = 1 .. Len(q) + 1
      /\ \A i \in 1 .. Len(q) : Append(q, a)[i] = q[i]
      /\ Append(q, a)[Len(q) + 1] = a
  OBVIOUS
<1> QED
  BY <1>1 DEF Has

\* Dispatching the head of the queue keeps every other message posted.
LEMMA HasTail ==
    ASSUME NEW q \in Seq(Message), NEW b \in Message, q # <<>>, Head(q) # b,
           Has(q, b)
    PROVE  Has(Tail(q), b)
<1>1. /\ Len(q) \in Nat \ {0}
      /\ DOMAIN q = 1 .. Len(q)
      /\ DOMAIN Tail(q) = 1 .. Len(q) - 1
      /\ Head(q) = q[1]
      /\ \A i \in 1 .. Len(q) - 1 : Tail(q)[i] = q[i + 1]
  OBVIOUS
<1>2. PICK i \in 1 .. Len(q) : q[i] = b
  BY <1>1 DEF Has
<1>3. i # 1 /\ i - 1 \in 1 .. Len(q) - 1 /\ Tail(q)[i - 1] = b
  BY <1>1, <1>2
<1> QED
  BY <1>1, <1>3 DEF Has

\* A change outside state, queue and timers keeps a session good.
LEMMA GoodFrame ==
    ASSUME NEW s, Good(s), NEW t \in SessionRecord,
           t.state = s.state, t.queue = s.queue, t.timers = s.timers
    PROVE  Good(t)
BY DEF Good, Posted, Awaited

\* SetState posts the MSG_STATE that its new state needs.
LEMMA GoodSetState ==
    ASSUME NEW s \in SessionRecord, Posted(s), NEW st \in State,
           st = "SENTINITIATE" => "INIT_ACK" \in s.timers
    PROVE  Good(SetState(s, st))
<1> DEFINE t == SetState(s, st)
<1>1. t \in SessionRecord
  BY SetStateType
<1>2. t.state = st /\ t.timers = s.timers
  BY DEF SetState, SessionRecord
<1>3. t.queue = IF st # s.state THEN Append(s.queue, "STATE") ELSE s.queue
  BY DEF SetState, SessionRecord
<1>4. s.queue \in Seq(Message)
  BY DEF SessionRecord, Message
<1>5. Posted(t)
  <2>1. CASE st # s.state
    BY <2>1, <1>3, <1>4, HasAppend DEF Posted, Message
  <2>2. CASE st = s.state
    BY <2>2, <1>2, <1>3 DEF Posted
  <2> QED
    BY <2>1, <2>2
<1>6. Awaited(t)
  BY <1>2 DEF Awaited
<1> QED
  BY <1>1, <1>5, <1>6 DEF Good

\* SetError keeps what is posted and adds MSG_ERROR.
LEMMA GoodSetError ==
    ASSUME NEW s \in SessionRecord, Posted(s), NEW e \in Error
    PROVE  Good(SetError(s, e))
<1> DEFINE t == SetError(s, e)
<1>1. t \in SessionRecord
  BY SetErrorType
<1>2. t.state = s.state /\ t.queue = Append(s.queue, "ERROR")
  BY DEF SetError, SessionRecord
<1>3. s.queue \in Seq(Message)
  BY DEF SessionRecord, Message
<1>4. Has(t.queue, "ERROR") /\ (Has(s.queue, "STATE") => Has(t.queue, "STATE"))
  BY <1>2, <1>3, HasAppend DEF Message
<1> QED
  BY <1>1, <1>2, <1>4 DEF Good, Posted, Awaited

\* A session just created, and a destroyed one, wait for nothing.
LEMMA GoodNew ==
    ASSUME NEW pr \in {"HYBRID", "JINGLE", "GINGLE"}
    PROVE  Good(NewSession(pr)) /\ Good(NoSession)
<1>1. /\ NewSession(pr) \in SessionRecord
      /\ NewSession("HYBRID") \in SessionRecord
  BY NewSessionType
<1>2. NewSession(pr).state = "INIT"
  BY DEF NewSession
<1>3. NoSession \in SessionRecord /\ NoSession.state = "DEINIT"
  BY <1>1 DEF NoSession, SessionRecord, State
<1> QED
  BY <1>1, <1>2, <1>3 DEF Good, Posted, Awaited, Transient, Terminal

\* Learning the protocol of a message touches neither state nor queue.
LEMMA GoodLearnProtocol ==
    ASSUME NEW s, Good(s), NEW m
    PROVE  Good(LearnProtocol(s, m))
<1>1. CASE s.protocol = "HYBRID"
  <2> DEFINE t == LearnProtocol(s, m)
  <2>1. t \in SessionRecord
    BY <1>1 DEF LearnProtocol, Good, SessionRecord
  <2>2. t.state = s.state /\ t.queue = s.queue /\ t.timers = s.timers
    BY <1>1 DEF LearnProtocol, Good, SessionRecord
  <2> QED
    BY <2>1, <2>2, GoodFrame
<1>2. CASE s.protocol # "HYBRID"
  BY <1>2 DEF LearnProtocol
<1> QED
  BY <1>1, <1>2

\* Neither does connecting transport proxies.
LEMMA GoodConnectProxies ==
    ASSUME NEW s, Good(s), NEW cs \in SUBSET ContentNames
    PROVE  Good(ConnectProxies(s, cs))
<1>1. ConnectProxies(s, cs) \in SessionRecord
  BY ConnectProxiesType DEF Good
<1>2. /\ ConnectProxies(s, cs).state = s.state
      /\ ConnectProxies(s, cs).queue = s.queue
      /\ ConnectProxies(s, cs).timers = s.timers
  BY DEF ConnectProxies, Good, SessionRecord
<1> QED
  BY <1>1, <1>2, GoodFrame

\* OnInitiateAcked clears the timer only as it leaves SENTINITIATE.
LEMMA GoodInitiateAcked ==
    ASSUME NEW s, Good(s)
    PROVE  Good(OnInitiateAcked(s))
<1> DEFINE s0 == [s EXCEPT !.timers = @ \ {"INIT_ACK"}]
           s1 == SetState(s0, "RECEIVEDINITIATE_ACK")
           t  == [s1 EXCEPT !.acked = TRUE, !.unsent = IF s.acked THEN @ ELSE {}]
<1>1. s0 \in SessionRecord /\ Posted(s0)
  BY DEF Good, Posted, SessionRecord
<1>2. Good(s1)
  BY <1>1, GoodSetState DEF State
<1>3. OnInitiateAcked(s) = t
  BY DEF OnInitiateAcked
<1> HIDE DEF s1
<1>4. t \in SessionRecord /\ t.state = s1.state /\ t.queue = s1.queue
      /\ t.timers = s1.timers
  BY <1>2 DEF Good, SessionRecord
<1> QED
  BY <1>2, <1>3, <1>4, GoodFrame

\* SendInitiateMessage arms the acknowledgement timeout.
LEMMA GoodSendInitiate ==
    ASSUME NEW s, Good(s)
    PROVE  Good(SendInitiateMessage(s))
BY DEF SendInitiateMessage, Good, Posted, Awaited, SessionRecord

-----------------------------------------------------------------------------
(* Every handler leaves a good session and writes well-formed stanzas.     *)

\* The answers of the handlers are well-typed wires.
LEMMA AcknowledgementType ==
    ASSUME NEW m \in Stanza
    PROVE  Acknowledgement(m) \subseteq Wire /\ ErrorMessage(m) \subseteq Wire
BY ReplyType DEF Acknowledgement, ErrorMessage, Arg, ErrorType

\* The candidates flushed on the acknowledgement are well-typed wires.
LEMMA UnsentTransportInfosType ==
    ASSUME NEW s, Good(s)
    PROVE  UnsentTransportInfos(s) \subseteq Wire
<1>1. s \in SessionRecord /\ s.unsent \in Cands
  BY DEF Good, SessionRecord, Cands
<1> QED
  BY <1>1, TransportInfosType DEF UnsentTransportInfos

\* A reject within SignalState ends the session, with one MSG_STATE more than it
\* needs, and changes nothing else.
LEMMA RejectedFields ==
    ASSUME NEW s \in SessionRecord, NEW v
    PROVE  /\ RejectedAtOnce(s, v) \in SessionRecord
           /\ RejectedAtOnce(s, v).state = RejectState(v)
           /\ RejectedAtOnce(s, v).remote = s.remote
           /\ RejectedAtOnce(s, v).timers = s.timers
           /\ RejectedAtOnce(s, v).gathered = s.gathered
           /\ RejectedAtOnce(s, v).signalled = SetState(s, RejectState(v)).signalled
           /\ RejectedAtOnce(s, v).queue =
                 Append(SetState(s, RejectState(v)).queue, "STATE")
<1> DEFINE t == SetState(s, RejectState(v))
           u == [t EXCEPT !.queue = Append(@, "STATE")]
<1>1. RejectState(v) \in State
  BY DEF RejectState, State, Terminal
<1>2. t \in SessionRecord
  BY <1>1, SetStateType
<1>3. /\ t.state = RejectState(v) /\ t.remote = s.remote
      /\ t.timers = s.timers /\ t.gathered = s.gathered
  BY DEF SetState, SessionRecord
<1> HIDE DEF t
<1>4. u \in SessionRecord
  <2>1. t.queue \in Seq({"STATE", "ERROR"})
    BY <1>2 DEF SessionRecord
  <2>2. Append(t.queue, "STATE") \in Seq({"STATE", "ERROR"})
    BY <2>1
  <2> QED
    BY <1>2, <2>2 DEF SessionRecord
<1>5. /\ u.state = t.state /\ u.remote = t.remote /\ u.timers = t.timers
      /\ u.gathered = t.gathered /\ u.signalled = t.signalled
      /\ u.queue = Append(t.queue, "STATE")
  BY <1>2 DEF SessionRecord
<1> HIDE DEF u
<1>6. RejectedAtOnce(s, v) = u
  BY DEF RejectedAtOnce, t, u
<1> QED
  BY <1>3, <1>4, <1>5, <1>6 DEF t

\* An initiate leaves a good session, also when the client rejects at once.
LEMMA GoodInitiateMessage ==
    ASSUME NEW s, Good(s), NEW m \in Stanza, NEW v \in {"ring", "busy", "none"}
    PROVE  GoodOutcome(OnInitiateMessage(s, m, v))
<1> DEFINE s0 == [s EXCEPT !.remote = m.from, !.descr = TRUE]
           s1 == SetState(s0, "RECEIVEDINITIATE")
<1>1. s0 \in SessionRecord /\ Posted(s0)
  BY DEF Good, Posted, SessionRecord, Stanza
<1>2. Good(s1)
  BY <1>1, GoodSetState DEF State
<1>3. Good(ConnectProxies(s1, ContentNames))
  BY <1>2, GoodConnectProxies
<1>4. Good(RejectedAtOnce(s0, v))
  <2> DEFINE t == SetState(s0, RejectState(v))
             u == RejectedAtOnce(s0, v)
  <2>1. Good(t)
    BY <1>1, GoodSetState DEF RejectState, State, Terminal
  <2>2. /\ u \in SessionRecord /\ u.state = RejectState(v)
        /\ u.queue = Append(t.queue, "STATE")
    BY <1>1, RejectedFields
  <2> HIDE DEF t, u
  <2>3. t.queue \in Seq(Message)
    BY <2>1 DEF Good, SessionRecord, Message
  <2>4. Posted(u)
    BY <2>2, <2>3, HasAppend DEF Posted, Message
  <2>5. Awaited(u)
    BY <2>2 DEF Awaited, RejectState
  <2> QED
    BY <2>2, <2>4, <2>5 DEF Good, u
<1>5. ASSUME v # "ring" PROVE {Request(s0, "reject", {}, v)} \subseteq Wire
  BY <1>1, <1>5, RequestType DEF ActionType, Arg, Cands
<1>6. OnInitiateMessage(s, m, v) =
        IF s.state # "INIT" THEN Outcome(s, ErrorMessage(m))
        ELSE IF v = "ring"
        THEN Outcome(ConnectProxies(s1, ContentNames), Acknowledgement(m))
        ELSE Outcome(RejectedAtOnce(s0, v),
                     {Request(s0, "reject", {}, v)} \cup Acknowledgement(m))
  BY DEF OnInitiateMessage, Refused
<1> HIDE DEF s0, s1
<1> QED
  BY <1>3, <1>4, <1>5, <1>6, AcknowledgementType DEF GoodOutcome, Outcome

\* An accept leaves a good session: RECEIVEDACCEPT has its MSG_STATE.
LEMMA GoodAcceptMessage ==
    ASSUME NEW s, Good(s), NEW m \in Stanza
    PROVE  GoodOutcome(OnAcceptMessage(s, m))
<1> DEFINE s0 == OnInitiateAcked(s)
           s1 == [s0 EXCEPT !.descr = TRUE]
           s2 == ConnectProxies(s1, ContentNames)
<1>1. Good(s0)
  BY GoodInitiateAcked
<1>2. Good(s1)
  <2> HIDE DEF s0
  <2>1. s1 \in SessionRecord /\ s1.state = s0.state /\ s1.queue = s0.queue
        /\ s1.timers = s0.timers
    BY <1>1 DEF Good, SessionRecord
  <2> QED
    BY <1>1, <2>1, GoodFrame
<1>3. Good(s2)
  BY <1>2, GoodConnectProxies
<1>4. Good(SetState(s2, "RECEIVEDACCEPT"))
  BY <1>3, GoodSetState DEF Good, State
<1>5. OnAcceptMessage(s, m) =
        IF ~CheckSentInitiate(s) THEN Outcome(s, ErrorMessage(m))
        ELSE Outcome(SetState(s2, "RECEIVEDACCEPT"),
                     UnsentTransportInfos(s) \cup Acknowledgement(m))
  BY DEF OnAcceptMessage, Refused
<1> HIDE DEF s2
<1> QED
  BY <1>4, <1>5, UnsentTransportInfosType, AcknowledgementType
  DEF GoodOutcome, Outcome

\* Every handler of Session::OnIncomingMessage leaves a good session.
LEMMA GoodHandleMessage ==
    ASSUME NEW s, Good(s), NEW m \in Stanza, NEW v \in {"ring", "busy", "none"}
    PROVE  GoodOutcome(HandleMessage(s, m, v))
<1>1. CASE m.type = "initiate"
  BY <1>1, GoodInitiateMessage DEF HandleMessage
<1>2. CASE m.type = "accept"
  BY <1>2, GoodAcceptMessage DEF HandleMessage
<1>3. CASE m.type = "reject"
  BY <1>3, AcknowledgementType
  DEF HandleMessage, OnRejectMessage, GoodOutcome, Outcome
<1>4. CASE m.type = "terminate"
  <2>1. Good(SetState(s, "RECEIVEDBUSY")) /\ Good(SetState(s, "RECEIVEDTERMINATE"))
    BY GoodSetState DEF Good, State, Terminal
  <2> QED
    BY <1>4, <2>1, AcknowledgementType
    DEF HandleMessage, OnTerminateMessage, GoodOutcome, Outcome
<1>5. CASE m.type = "transport-info"
  <2>1. {c[1] : c \in m.cands} \subseteq ContentNames
    BY DEF Stanza
  <2>2. Good(ConnectProxies(s, {c[1] : c \in m.cands}))
    BY <2>1, GoodConnectProxies
  <2> QED
    BY <1>5, <2>2, AcknowledgementType
    DEF HandleMessage, OnTransportInfoMessage, GoodOutcome, Outcome
<1>6. CASE m.type = "description-info"
  BY <1>6, AcknowledgementType
  DEF HandleMessage, OnDescriptionInfoMessage, Refused, GoodOutcome, Outcome
<1> QED
  BY <1>1, <1>2, <1>3, <1>4, <1>5, <1>6 DEF Stanza, ActionType

\* A redirect restarts the timeout of the initiate it sends again.
LEMMA GoodRedirectError ==
    ASSUME NEW s, Good(s), NEW target \in Responders \cup {Foreign}
    PROVE  GoodOutcome(OnRedirectError(s, target))
<1> DEFINE s0 == [s EXCEPT !.remote = target]
           s1 == SendInitiateMessage(s0)
           t  == [s1 EXCEPT !.resend = {}]
<1>1. Good(SetError(s, "RESPONSE"))
  BY GoodSetError DEF Good, Error
<1>2. ASSUME target \in Responders
      PROVE  /\ Good(t)
             /\ {Request(s1, "initiate", {}, "none")}
                  \cup TransportInfos(s1, s1.resend) \subseteq Wire
  <2>1. s0 \in SessionRecord /\ s0.state = s.state /\ s0.queue = s.queue
        /\ s0.timers = s.timers
    BY <1>2 DEF Good, SessionRecord, Peers
  <2>2. Good(s1)
    BY <2>1, GoodFrame, GoodSendInitiate
  <2> HIDE DEF s1
  <2>3. t \in SessionRecord /\ t.state = s1.state /\ t.queue = s1.queue
        /\ t.timers = s1.timers
    BY <2>2 DEF Good, SessionRecord
  <2>4. s1 \in SessionRecord /\ s1.resend \in Cands
    BY <2>2 DEF Good, SessionRecord, Cands
  <2>5. Request(s1, "initiate", {}, "none") \in Wire
    BY <2>4, RequestType DEF ActionType, Arg, Cands
  <2> QED
    BY <2>2, <2>3, <2>4, <2>5, GoodFrame, TransportInfosType
<1>3. OnRedirectError(s, target) =
        IF CheckSentInitiate(s) /\ target \in Responders
        THEN Outcome(t, {Request(s1, "initiate", {}, "none")}
                          \cup TransportInfos(s1, s1.resend))
        ELSE Outcome(SetError(s, "RESPONSE"), {})
  BY DEF OnRedirectError
<1> HIDE DEF s1, t
<1> QED
  BY <1>1, <1>2, <1>3 DEF GoodOutcome, Outcome

\* Every end of a SessionSendTask leaves a good session.
LEMMA GoodResponse ==
    ASSUME NEW s, Good(s), NEW r \in Stanza, NEW arg \in Arg
    PROVE  /\ GoodOutcome(OnIncomingResponse(s, r))
           /\ GoodOutcome(OnFailedSend(s, r, arg))
<1>1. GoodOutcome(OnIncomingResponse(s, r))
  BY GoodInitiateAcked, UnsentTransportInfosType
  DEF OnIncomingResponse, GoodOutcome, Outcome
<1>2. GoodOutcome(Outcome(s, {}))
  BY DEF GoodOutcome, Outcome
<1>3. GoodOutcome(Outcome(SetError(s, "RESPONSE"), {}))
  BY GoodSetError DEF Good, Error, GoodOutcome, Outcome
<1>4. ASSUME arg \in Responders \cup {Foreign}
      PROVE  GoodOutcome(OnRedirectError(s, arg))
  BY <1>4, GoodRedirectError
<1>5. GoodOutcome(OnFailedSend(s, r, arg))
  <2>1. CASE r.type = "description-info" /\ r.gingle
    BY <1>2, <2>1 DEF OnFailedSend
  <2>2. CASE ~(r.type = "description-info" /\ r.gingle)
             /\ arg \in Responders \cup {Foreign}
    BY <1>2, <1>4, <2>2 DEF OnFailedSend
  <2>3. CASE ~(r.type = "description-info" /\ r.gingle)
             /\ arg \notin Responders \cup {Foreign}
    BY <1>2, <1>3, <2>3 DEF OnFailedSend
  <2> QED
    BY <2>1, <2>2, <2>3
<1> QED
  BY <1>1, <1>5

-----------------------------------------------------------------------------
(* The invariant: types, and a good session at every peer.                 *)

Inv == TypeOK /\ \A p \in Peers : Good(ses[p])

\* The inductive invariant holds initially.
LEMMA InitInv == Init => Inv
<1>1. SUFFICES ASSUME Init PROVE Inv
  OBVIOUS
<1>2. PICK pr \in Protocols :
        ses = [p \in Peers |-> IF p = Initiator THEN NewSession(pr) ELSE NoSession]
  BY <1>1 DEF Init
<1>3. Good(NewSession(pr)) /\ Good(NoSession)
  BY <1>2, GoodNew, ProtocolsAssumption
<1>4. \A p \in Peers : ses[p] = NewSession(pr) \/ ses[p] = NoSession
  BY <1>2
<1>5. \A p \in Peers : Good(ses[p])
  BY <1>3, <1>4
<1>6. ses \in [Peers -> SessionRecord]
  BY <1>2, <1>5 DEF Good
<1> QED
  BY <1>1, <1>5, <1>6 DEF Inv, Init, TypeOK

\* A step that puts a good session at p and sends well-formed stanzas.
LEMMA UpdateAndSend ==
    ASSUME Inv, NEW p \in Peers, NEW t, Good(t), Update(p, t),
           NEW out \in SUBSET Wire, NEW inNet \in SUBSET Stanza,
           NEW waiting \in SUBSET Stanza, Send(p, out, inNet, waiting),
           accepted' \subseteq Peers, faults' \in Nat, infos' \in Nat
    PROVE  Inv'
<1>1. ses' \in [Peers -> SessionRecord] /\ \A q \in Peers : Good(ses'[q])
  BY DEF Inv, Update, TypeOK, Good
<1>2. /\ net' \subseteq Stanza
      /\ pending' \in [Peers -> SUBSET Stanza]
      /\ sent' \in [Peers -> Nat]
      /\ offered' \subseteq Peers \X (Peers \cup {NoJid})
                            \X ContentNames \X Candidates
  BY SendType DEF Inv
<1>3. TypeOK'
  BY <1>1, <1>2 DEF TypeOK
<1>4. (\A q \in Peers : Good(ses[q]))'
  BY <1>1
<1> QED
  BY <1>3, <1>4 DEF Inv

\* A step that only puts a good session at p.
LEMMA UpdateOnly ==
    ASSUME Inv, NEW p \in Peers, NEW t, Good(t), Update(p, t),
           UNCHANGED <<net, pending, sent, offered, accepted, faults, infos>>
    PROVE  Inv'
<1>1. ses' \in [Peers -> SessionRecord] /\ \A q \in Peers : Good(ses'[q])
  BY DEF Inv, Update, TypeOK, Good
<1>2. TypeOK'
  BY <1>1 DEF TypeOK, Inv
<1>3. (\A q \in Peers : Good(ses[q]))'
  BY <1>1
<1> QED
  BY <1>2, <1>3 DEF Inv

\* A step that leaves every session alone.
LEMMA SessionsUnchanged ==
    ASSUME Inv, ses' = ses, TypeOK'
    PROVE  Inv'
BY DEF Inv

\* The operations of the client keep the inductive invariant.
LEMMA ClientInv ==
    ASSUME Inv, NEW p \in Peers, Client(p)
    PROVE  Inv'
<1>1. /\ ses[p] \in SessionRecord /\ Good(ses[p]) /\ Posted(ses[p])
      /\ net \in SUBSET Stanza /\ pending[p] \in SUBSET Stanza
      /\ accepted \subseteq Peers /\ faults \in Nat /\ infos \in Nat
  BY DEF Inv, TypeOK, Good
<1>2. CASE \E to \in Responders : Initiate(p, to)
  <2>1. PICK to \in Responders : Initiate(p, to)
    BY <1>2
  <2> DEFINE s == [ses[p] EXCEPT !.remote = to, !.local = TRUE,
                                 !.connecting = ContentNames]
             s1 == SendInitiateMessage(s)
  <2>2. s \in SessionRecord /\ s.state = ses[p].state /\ s.queue = ses[p].queue
        /\ s.timers = ses[p].timers
    BY <1>1 DEF SessionRecord, Peers
  <2>3. Good(s1)
    BY <1>1, <2>2, GoodFrame, GoodSendInitiate
  <2>4. "INIT_ACK" \in s1.timers
    BY <2>2 DEF SendInitiateMessage, SessionRecord
  <2>5. Good(SetState(s1, "SENTINITIATE"))
    BY <2>3, <2>4, GoodSetState DEF Good, State
  <2>6. {Request(s, "initiate", {}, "none")} \in SUBSET Wire
    BY <2>2, RequestType DEF ActionType, Arg, Cands
  <2>7. /\ Update(p, SetState(s1, "SENTINITIATE"))
        /\ Send(p, {Request(s, "initiate", {}, "none")}, net, pending[p])
        /\ UNCHANGED <<accepted, faults, infos>>
    BY <2>1 DEF Initiate
  <2> HIDE DEF s, s1
  <2> QED
    BY <1>1, <2>5, <2>6, <2>7, UpdateAndSend
<1>3. CASE Accept(p)
  <2> DEFINE s == [ses[p] EXCEPT !.local = TRUE]
             s1 == ConnectProxies(s, ContentNames)
  <2>2. s \in SessionRecord /\ s.state = ses[p].state /\ s.queue = ses[p].queue
        /\ s.timers = ses[p].timers
    BY <1>1 DEF SessionRecord
  <2>3. Good(s1)
    BY <1>1, <2>2, GoodFrame, GoodConnectProxies
  <2>5. Good(SetState(s1, "SENTACCEPT"))
    BY <2>3, GoodSetState DEF Good, State
  <2>6. {Request(s, "accept", {}, "none")} \in SUBSET Wire
    BY <2>2, RequestType DEF ActionType, Arg, Cands
  <2>7. /\ Update(p, SetState(s1, "SENTACCEPT"))
        /\ Send(p, {Request(s, "accept", {}, "none")}, net, pending[p])
        /\ accepted' = accepted \cup {p}
        /\ UNCHANGED <<faults, infos>>
    BY <1>3 DEF Accept
  <2> HIDE DEF s, s1
  <2>8. accepted' \subseteq Peers
    BY <1>1, <2>7
  <2> QED
    BY <1>1, <2>5, <2>6, <2>7, <2>8, UpdateAndSend
<1>4. CASE \E reason \in {"busy", "none"} : Reject(p, reason)
  <2>1. PICK reason \in {"busy", "none"} : Reject(p, reason)
    BY <1>4
  <2>2. Good(SetState(ses[p], RejectState(reason)))
    BY <1>1, GoodSetState DEF RejectState, State, Terminal
  <2>3. {Request(ses[p], "reject", {}, reason)} \in SUBSET Wire
    BY <1>1, RequestType DEF ActionType, Arg, Cands
  <2> QED
    BY <1>1, <2>1, <2>2, <2>3, UpdateAndSend DEF Reject
<1>5. CASE Terminate(p)
  <2>2. Good(SetState(ses[p], "SENTTERMINATE"))
    BY <1>1, GoodSetState DEF State, Terminal
  <2>3. {Request(ses[p], "terminate", {}, "none")} \in SUBSET Wire
    BY <1>1, RequestType DEF ActionType, Arg, Cands
  <2> QED
    BY <1>1, <1>5, <2>2, <2>3, UpdateAndSend DEF Terminate, TerminateWithReason
<1>6. CASE SendDescriptionInfoMessage(p)
  <2>1. {Request(ses[p], "description-info", {}, "none")} \in SUBSET Wire
    BY <1>1, RequestType DEF ActionType, Arg, Cands
  <2>2. /\ Send(p, {Request(ses[p], "description-info", {}, "none")},
                net, pending[p])
        /\ infos' = infos + 1 /\ ses' = ses
        /\ UNCHANGED <<accepted, faults>>
    BY <1>6 DEF SendDescriptionInfoMessage
  <2>3. /\ net' \subseteq Stanza
        /\ pending' \in [Peers -> SUBSET Stanza]
        /\ sent' \in [Peers -> Nat]
        /\ offered' \subseteq Peers \X (Peers \cup {NoJid})
                              \X ContentNames \X Candidates
    BY <1>1, <2>1, <2>2, SendType DEF Inv
  <2>4. TypeOK'
    BY <1>1, <2>2, <2>3 DEF TypeOK, Inv
  <2> QED
    BY <2>2, <2>4, SessionsUnchanged
<1> QED
  BY <1>2, <1>3, <1>4, <1>5, <1>6 DEF Client

\* So do the signals of the transports.
LEMMA TransportInv ==
    ASSUME Inv, NEW p \in Peers, Transport(p)
    PROVE  Inv'
<1>1. /\ ses[p] \in SessionRecord /\ Good(ses[p])
      /\ net \in SUBSET Stanza /\ pending[p] \in SUBSET Stanza
      /\ accepted \subseteq Peers /\ faults \in Nat /\ infos \in Nat
  BY DEF Inv, TypeOK, Good
<1>2. ASSUME NEW content \in ContentNames, NEW cand \in Candidates,
             OnTransportProxyCandidatesReady(p, content, cand)
      PROVE  Inv'
  <2> DEFINE here == {<<content, cand>>}
             s == [ses[p] EXCEPT !.gathered = @ \cup here]
             t1 == [s EXCEPT !.unsent = @ \cup here]
             t2 == [s EXCEPT !.resend = IF content \in s.negotiated THEN @
                                        ELSE @ \cup here]
  <2>1. here \in Cands
    BY DEF Cands
  <2>2. s \in SessionRecord /\ t1 \in SessionRecord /\ t2 \in SessionRecord
    BY <1>1, <2>1 DEF SessionRecord, Cands
  <2>3. Good(t1) /\ Good(t2)
    <3>1. /\ t1.state = ses[p].state /\ t1.queue = ses[p].queue
          /\ t1.timers = ses[p].timers
          /\ t2.state = ses[p].state /\ t2.queue = ses[p].queue
          /\ t2.timers = ses[p].timers
      BY <1>1 DEF SessionRecord
    <3> HIDE DEF t1, t2
    <3> QED
      BY <1>1, <2>2, <3>1, GoodFrame
  <2>4. TransportInfos(s, here) \in SUBSET Wire
    BY <2>1, <2>2, TransportInfosType
  <2>5. /\ \/ /\ Update(p, t1)
              /\ UNCHANGED <<net, pending, sent, offered>>
           \/ /\ Update(p, t2)
              /\ Send(p, TransportInfos(s, here), net, pending[p])
        /\ UNCHANGED <<accepted, faults, infos>>
    BY <1>2 DEF OnTransportProxyCandidatesReady
  <2> HIDE DEF here, s, t1, t2
  <2>6. CASE Update(p, t1) /\ UNCHANGED <<net, pending, sent, offered>>
    BY <2>3, <2>5, <2>6, UpdateOnly
  <2>7. CASE Update(p, t2) /\ Send(p, TransportInfos(s, here), net, pending[p])
    BY <1>1, <2>3, <2>4, <2>5, <2>7, UpdateAndSend
  <2> QED
    BY <2>5, <2>6, <2>7
<1>3. ASSUME NEW content \in ContentNames, NEW w \in BOOLEAN,
             OnTransportWritable(p, content, w)
      PROVE  Inv'
  <2> DEFINE s == ses[p]
             t1 == [s EXCEPT
               !.watched = @ \cup {content},
               !.writable = IF w THEN @ \cup {content} ELSE @ \ {content},
               !.timers = IF w THEN @ \ {"TIMEOUT"} ELSE @ \cup {"TIMEOUT"}]
  <2>1. t1 \in SessionRecord
    <3> DEFINE wr == IF w THEN s.writable \cup {content}
                     ELSE s.writable \ {content}
               tm == IF w THEN s.timers \ {"TIMEOUT"}
                     ELSE s.timers \cup {"TIMEOUT"}
               wa == s.watched \cup {content}
    <3>1. wr \in SUBSET ContentNames /\ wa \in SUBSET ContentNames
      BY <1>1 DEF SessionRecord
    <3>2. tm \in SUBSET {"TIMEOUT", "INIT_ACK"}
      BY <1>1 DEF SessionRecord
    <3>3. t1 = [s EXCEPT !.watched = wa, !.writable = wr, !.timers = tm]
      BY <1>1 DEF SessionRecord
    <3> HIDE DEF wr, tm, wa, t1
    <3> QED
      BY <1>1, <3>1, <3>2, <3>3 DEF SessionRecord
  <2>2. t1.state = s.state /\ t1.queue = s.queue
        /\ ("INIT_ACK" \in s.timers => "INIT_ACK" \in t1.timers)
    BY <1>1 DEF SessionRecord
  <2>3. Good(t1)
    BY <1>1, <2>1, <2>2 DEF Good, Posted, Awaited
  <2>4. Update(p, t1)
        /\ UNCHANGED <<net, pending, sent, offered, accepted, faults, infos>>
    BY <1>3 DEF OnTransportWritable
  <2> HIDE DEF t1
  <2> QED
    BY <2>3, <2>4, UpdateOnly
<1> QED
  BY <1>2, <1>3 DEF Transport

\* A dispatched message moves the session on or leaves what it needs posted.
LEMMA OnMessageInv ==
    ASSUME Inv, NEW p \in Peers, OnMessage(p)
    PROVE  Inv'
<1> DEFINE s == [ses[p] EXCEPT !.queue = Tail(@)]
<1>1. /\ ses[p] \in SessionRecord /\ Good(ses[p])
      /\ net \in SUBSET Stanza /\ pending[p] \in SUBSET Stanza
      /\ accepted \subseteq Peers /\ faults \in Nat /\ infos \in Nat
  BY DEF Inv, TypeOK, Good
<1>2. ses[p].queue \in Seq(Message) /\ ses[p].queue # <<>>
  BY <1>1 DEF SessionRecord, Message, OnMessage
<1>3. /\ s \in SessionRecord /\ s.state = ses[p].state
      /\ s.timers = ses[p].timers /\ s.queue = Tail(ses[p].queue)
  <2>1. Tail(ses[p].queue) \in Seq(Message)
    BY <1>2
  <2> QED
    BY <1>1, <2>1 DEF SessionRecord, Message
<1>4. CASE Head(ses[p].queue) = "STATE"
  <2> DEFINE t == IF s.state \in Terminal THEN NoSession
                  ELSE IF s.state \in {"SENTACCEPT", "RECEIVEDACCEPT"}
                  THEN SetState(s, "INPROGRESS") ELSE s
  <2>1. Has(ses[p].queue, "ERROR") => Has(s.queue, "ERROR")
    BY <1>2, <1>3, <1>4, HasTail DEF Message
  <2>2. Good(NoSession)
    BY GoodNew
  <2>3. ASSUME s.state \in Terminal PROVE Good(t)
    BY <2>2, <2>3
  <2>4. ASSUME s.state \in {"SENTACCEPT", "RECEIVEDACCEPT"} PROVE Good(t)
    <3>1. s.state \notin Terminal
      BY <2>4 DEF Terminal
    <3>2. SetState(s, "INPROGRESS") \in SessionRecord
      BY <1>3, SetStateType DEF State
    <3>3. SetState(s, "INPROGRESS").state = "INPROGRESS"
      BY <1>3 DEF SetState, SessionRecord
    <3>4. Good(SetState(s, "INPROGRESS"))
      BY <3>2, <3>3 DEF Good, Posted, Awaited, Transient, Terminal
    <3> QED
      BY <2>4, <3>1, <3>4
  <2>5. ASSUME s.state \notin Transient PROVE Good(t)
    <3>1. t = s
      BY <2>5 DEF Transient
    <3>2. Good(s)
      BY <1>1, <1>3, <2>1, <2>5 DEF Good, Posted, Awaited
    <3> QED
      BY <3>1, <3>2
  <2>6. Good(t)
    BY <2>3, <2>4, <2>5 DEF Transient
  <2>7. Update(p, t)
        /\ UNCHANGED <<net, pending, sent, offered, accepted, faults, infos>>
    BY <1>4 DEF OnMessage
  <2> HIDE DEF t
  <2> QED
    BY <2>6, <2>7, UpdateOnly
<1>5. CASE Head(ses[p].queue) = "ERROR"
  <2>1. Posted(s)
    BY <1>1, <1>2, <1>3, <1>5, HasTail DEF Good, Posted, Message
  <2>2. Good(SetState(s, "SENTTERMINATE"))
    BY <1>3, <2>1, GoodSetState DEF State, Terminal
  <2>3. {Request(s, "terminate", {}, "none")} \in SUBSET Wire
    BY <1>3, RequestType DEF ActionType, Arg, Cands
  <2>4. /\ \/ TerminateWithReason(p, s)
           \/ /\ s.state \in Terminal
              /\ Update(p, s)
              /\ UNCHANGED <<net, pending, sent, offered>>
        /\ UNCHANGED <<accepted, faults, infos>>
    BY <1>5 DEF OnMessage
  <2> HIDE DEF s
  <2>5. CASE TerminateWithReason(p, s)
    <3>1. Update(p, SetState(s, "SENTTERMINATE"))
          /\ Send(p, {Request(s, "terminate", {}, "none")}, net, pending[p])
      BY <2>5 DEF TerminateWithReason
    <3> QED
      BY <1>1, <2>2, <2>3, <2>4, <3>1, UpdateAndSend
  <2>6. CASE /\ s.state \in Terminal
             /\ Update(p, s)
             /\ UNCHANGED <<net, pending, sent, offered>>
    <3>1. Good(s)
      BY <1>3, <2>1, <2>6 DEF Good, Awaited, Terminal
    <3> QED
      BY <2>4, <2>6, <3>1, UpdateOnly
  <2> QED
    BY <2>4, <2>5, <2>6
<1> QED
  BY <1>4, <1>5 DEF OnMessage

\* A timer that fires is replaced by the MSG_ERROR it posts.
LEMMA FireTimerInv ==
    ASSUME Inv, NEW p \in Peers, NEW timer \in {"TIMEOUT", "INIT_ACK"},
           FireTimer(p, timer)
    PROVE  Inv'
<1> DEFINE s == [ses[p] EXCEPT !.timers = @ \ {timer}]
           e == IF timer = "TIMEOUT" THEN "TIME" ELSE "ACK_TIME"
<1>1. ses[p] \in SessionRecord /\ Good(ses[p])
  BY DEF Inv, TypeOK
<1>2. s \in SessionRecord /\ Posted(s)
  BY <1>1 DEF SessionRecord, Good, Posted
<1>3. Good(SetError(s, e))
  BY <1>2, GoodSetError DEF Error
<1>4. Update(p, SetError(s, e))
      /\ UNCHANGED <<net, pending, sent, offered, accepted, faults, infos>>
  BY DEF FireTimer
<1> HIDE DEF s, e
<1> QED
  BY <1>3, <1>4, UpdateOnly

\* The end of a SessionSendTask keeps the inductive invariant.
LEMMA EndSendTaskInv ==
    ASSUME Inv, NEW p \in Peers, NEW r \in Stanza, NEW kind, NEW arg \in Arg,
           NEW inNet \in SUBSET Stanza, EndSendTask(p, r, kind, arg, inNet),
           accepted' \subseteq Peers, faults' \in Nat, infos' \in Nat
    PROVE  Inv'
<1> DEFINE s == ses[p]
           o == IF ~FindSession(p, r.to) THEN Outcome(s, {})
                ELSE IF kind = "result" THEN OnIncomingResponse(s, r)
                ELSE OnFailedSend(s, r, arg)
<1>1. Good(s) /\ pending[p] \ {r} \in SUBSET Stanza
  BY DEF Inv, TypeOK
<1>2. GoodOutcome(Outcome(s, {}))
  BY <1>1 DEF GoodOutcome, Outcome
<1>3. GoodOutcome(o)
  BY <1>1, <1>2, GoodResponse
<1>4. Update(p, o.session) /\ Send(p, o.out, inNet, pending[p] \ {r})
  BY DEF EndSendTask
<1> HIDE DEF o
<1> QED
  BY <1>1, <1>3, <1>4, UpdateAndSend DEF GoodOutcome

\* So does any stanza that reaches a peer, first or repeated.
LEMMA ReceiveInv ==
    ASSUME Inv, NEW m \in net, NEW inNet \in SUBSET Stanza, Receive(m, inNet),
           faults' \in Nat
    PROVE  Inv'
<1> DEFINE p == m.to
<1>1. /\ m \in Stanza /\ p \in Peers /\ Good(ses[p])
      /\ pending[p] \in SUBSET Stanza /\ pending \in [Peers -> SUBSET Stanza]
      /\ accepted' \subseteq Peers /\ infos' \in Nat
  BY DEF Inv, TypeOK, Receive, CanDeliver
<1>2. CASE OnIncomingMessage(p, m, inNet)
  <2>1. CASE ~FindSession(p, m.from) /\ m.type # "initiate"
    <3>1. Send(p, ErrorMessage(m), inNet, pending[p]) /\ ses' = ses
      BY <1>2, <2>1 DEF OnIncomingMessage
    <3>2. Update(p, ses[p])
      BY <3>1 DEF Update, Inv, TypeOK
    <3> QED
      BY <1>1, <3>1, <3>2, AcknowledgementType, UpdateAndSend
  <2>2. CASE ~(~FindSession(p, m.from) /\ m.type # "initiate")
    <3> DEFINE s == IF FindSession(p, m.from) THEN ses[p] ELSE NewSession("HYBRID")
               o(v) == HandleMessage(LearnProtocol(s, m), m, v)
    <3>1. PICK v \in {"ring", "busy", "none"} :
             Update(p, o(v).session) /\ Send(p, o(v).out, inNet, pending[p])
      BY <1>2, <2>2 DEF OnIncomingMessage
    <3>2. Good(s)
      BY <1>1, GoodNew
    <3>3. Good(LearnProtocol(s, m))
      BY <3>2, GoodLearnProtocol
    <3> HIDE DEF s
    <3>4. GoodOutcome(o(v))
      BY <1>1, <3>3, GoodHandleMessage
    <3> HIDE DEF o
    <3> QED
      BY <1>1, <3>1, <3>4, UpdateAndSend DEF GoodOutcome
  <2> QED
    BY <2>1, <2>2
<1>3. CASE OnResponse(p, m, inNet)
  <2>1. CASE \E r \in pending[p] : EndSendTask(p, r, m.kind, m.arg, inNet)
    <3>1. PICK r \in pending[p] : EndSendTask(p, r, m.kind, m.arg, inNet)
      BY <2>1
    <3>2. r \in Stanza /\ m.arg \in Arg
      BY <1>1 DEF Stanza, Arg
    <3> QED
      BY <1>1, <3>1, <3>2, EndSendTaskInv
  <2>2. CASE net' = inNet /\ UNCHANGED <<ses, pending, sent, offered>>
    <3>1. TypeOK'
      BY <1>1, <2>2 DEF Inv, TypeOK
    <3> QED
      BY <2>2, <3>1, SessionsUnchanged
  <2> QED
    BY <1>3, <2>1, <2>2 DEF OnResponse
<1> QED
  BY <1>2, <1>3 DEF Receive

\* What the server does on its own concerns the network only.
LEMMA NetworkInv ==
    ASSUME Inv, net' \subseteq Stanza, faults' \in Nat,
           UNCHANGED <<ses, pending, sent, offered, accepted, infos>>
    PROVE  Inv'
<1>1. TypeOK'
  BY DEF Inv, TypeOK
<1> QED
  BY <1>1, SessionsUnchanged

\* A committed fault keeps the count of faults a number.
LEMMA CommitType ==
    ASSUME Inv, NEW kind, Commit(kind)
    PROVE  faults' \in Nat
BY DEF Commit, Inv, TypeOK

\* An error made up by the server is a well-typed stanza.
LEMMA BounceInv ==
    ASSUME Inv, NEW m \in net, NEW fault, NEW arg \in Arg, Bounce(m, fault, arg)
    PROVE  Inv'
<1>1. m \in Stanza /\ m.to \in Peers
  BY DEF Inv, TypeOK, Bounce
<1> DEFINE b == [m EXCEPT !.kind = "error", !.from = m.to, !.to = m.from,
                          !.n = 0, !.cands = {}, !.arg = arg]
<1>2. b \in Stanza
  BY <1>1 DEF Stanza, Arg
<1>3. net' = (net \ {m}) \cup {b}
  BY DEF Bounce
<1> HIDE DEF b
<1>4. net' \subseteq Stanza
  BY <1>2, <1>3 DEF Inv, TypeOK
<1>5. faults' \in Nat
  BY CommitType DEF Bounce
<1> QED
  BY <1>4, <1>5, NetworkInv DEF Bounce

\* No fault of the server breaks the inductive invariant.
LEMMA ServerInv ==
    ASSUME Inv, Server
    PROVE  Inv'
<1>1. net \in SUBSET Stanza
  BY DEF Inv, TypeOK
<1>2. PICK m \in net :
        \/ DeliverRepeatedly(m)
        \/ Lose(m)
        \/ \E t \in {"cancel", "wait"} : Bounce(m, "bounce", t)
        \/ \E j \in (Responders \cup {Foreign}) \ {m.to} : Bounce(m, "redirect", j)
  BY DEF Server
<1>3. CASE DeliverRepeatedly(m)
  BY <1>1, <1>3, CommitType, ReceiveInv DEF DeliverRepeatedly
<1>4. CASE Lose(m)
  BY <1>1, <1>4, CommitType, NetworkInv DEF Lose
<1>5. CASE \E t \in {"cancel", "wait"} : Bounce(m, "bounce", t)
  BY <1>5, BounceInv DEF Arg, ErrorType
<1>6. CASE \E j \in (Responders \cup {Foreign}) \ {m.to} : Bounce(m, "redirect", j)
  BY <1>6, BounceInv DEF Arg
<1> QED
  BY <1>2, <1>3, <1>4, <1>5, <1>6

\* Every step of the system keeps the inductive invariant.
LEMMA NextInv ==
    ASSUME Inv, [Next]_vars
    PROVE  Inv'
<1>0. net \in SUBSET Stanza /\ faults \in Nat
  BY DEF Inv, TypeOK
<1>1. CASE \E p \in Peers : Client(p)
  BY <1>1, ClientInv
<1>2. CASE \E p \in Peers : Transport(p)
  BY <1>2, TransportInv
<1>3. CASE \E p \in Peers : OnMessage(p)
  BY <1>3, OnMessageInv
<1>4. CASE \E p \in Peers : \E timer \in {"TIMEOUT", "INIT_ACK"} : FireTimer(p, timer)
  BY <1>4, FireTimerInv
<1>5. CASE \E p \in Peers : \E r \in pending[p] : SendTimeout(p, r)
  <2>0. PICK p \in Peers : \E r \in pending[p] : SendTimeout(p, r)
    BY <1>5
  <2>1. PICK r \in pending[p] : SendTimeout(p, r)
    BY <2>0
  <2>2. r \in Stanza /\ accepted' \subseteq Peers /\ infos' \in Nat
    BY <2>1 DEF Inv, TypeOK, SendTimeout
  <2>3. faults' \in Nat
    BY <2>1, CommitType DEF SendTimeout
  <2>4. EndSendTask(p, r, "error", "cancel", net)
    BY <2>1 DEF SendTimeout
  <2>5. "cancel" \in Arg
    BY DEF Arg, ErrorType
  <2> QED
    BY <1>0, <2>2, <2>3, <2>4, <2>5, EndSendTaskInv
<1>6. CASE \E m \in net : Deliver(m)
  <2>1. PICK m \in net : Deliver(m)
    BY <1>6
  <2>2. net \ {m} \in SUBSET Stanza
    BY <1>0
  <2> QED
    BY <1>0, <2>1, <2>2, ReceiveInv DEF Deliver
<1>7. CASE Server
  BY <1>7, ServerInv
<1>8. CASE UNCHANGED vars
  <2>1. net' \subseteq Stanza /\ faults' \in Nat
    BY <1>0, <1>8 DEF vars
  <2> QED
    BY <1>8, <2>1, NetworkInv DEF vars
<1> QED
  BY <1>1, <1>2, <1>3, <1>4, <1>5, <1>6, <1>7, <1>8 DEF Next

-----------------------------------------------------------------------------
(* What a session has been told, and by whom.                              *)

\* A destroyed session waits for nothing.  The initiator is never called, and
\* has its accept from the JID it talks to.  A responder talks to the initiator,
\* never calls, and has heard of one offer, and of one answer once it accepts.
\* acc: the responders that have accepted.
Told(p, s, acc) ==
    /\ s.state = "DEINIT" => s.queue = <<>> /\ s.timers = {}
    /\ p = Initiator =>
          /\ s.state \notin {"RECEIVEDINITIATE", "SENTACCEPT"}
          /\ s.state \in {"RECEIVEDACCEPT", "INPROGRESS"} => s.remote \in acc
    /\ p # Initiator =>
          /\ s.state \notin {"INIT", "SENTINITIATE", "RECEIVEDINITIATE_ACK",
                             "RECEIVEDACCEPT"}
          /\ s.state # "DEINIT" => s.remote = Initiator
          /\ s.signalled \in {<<>>, <<"offer">>, <<"offer", "answer">>}
          /\ s.state = "RECEIVEDINITIATE" => s.signalled = <<"offer">>
          /\ s.state \in {"SENTACCEPT", "INPROGRESS"} =>
                s.signalled = <<"offer", "answer">> /\ s.negotiated = ContentNames

\* A request in the network: only the initiator calls, and it calls responders;
\* an accept is from one that has accepted.
Genuine(m, acc) ==
    m.kind = "set" =>
        /\ m.type = "initiate" => m.from = Initiator /\ m.to \in Responders
        /\ m.type = "accept" => m.from \in acc

\* The same of what p writes before it is stamped.
Owned(p, out, acc) ==
    \A w \in out : w.kind = "set" =>
        /\ w.type = "initiate" => p = Initiator /\ w.to \in Responders
        /\ w.type = "accept" => p \in acc

\* An ended session of a responder stays so.
Ends(p, s, t) ==
    p # Initiator /\ s.state \in Terminal => t.state \in Terminal \cup {"DEINIT"}

Honest ==
    /\ \A p \in Peers : Told(p, ses[p], accepted)
    /\ \A m \in net : Genuine(m, accepted)
    /\ \A p \in Peers : \A r \in pending[p] : r.type = "initiate" => p = Initiator

StaysEnded ==
    \A r \in Responders : ses[r].state \in Terminal =>
        ses'[r].state \in Terminal \cup {"DEINIT"}

\* What SetState changes of the fields that Told looks at.
LEMMA SetStateFields ==
    ASSUME NEW s \in SessionRecord, NEW st \in State
    PROVE  /\ SetState(s, st).state = st
           /\ SetState(s, st).remote = s.remote
           /\ SetState(s, st).negotiated = s.negotiated
           /\ SetState(s, st).signalled = s.signalled \o GetContentAction(st)
BY DEF SetState, SessionRecord

\* An offer, then an answer.
LEMMA OfferThenAnswer == <<"offer">> \o <<"answer">> = <<"offer", "answer">>
<1> DEFINE q == <<"offer">> \o <<"answer">>
<1>1. q \in Seq({"offer", "answer"}) /\ Len(q) = 2
  OBVIOUS
<1>2. q[1] = "offer" /\ q[2] = "answer"
  OBVIOUS
<1> HIDE DEF q
<1>3. q = <<q[1], q[2]>>
  BY <1>1
<1> QED
  BY <1>2, <1>3 DEF q

\* In most states the media channels are told nothing.
LEMMA NothingSignalled ==
    ASSUME NEW s \in SessionRecord,
           NEW st \in Terminal \cup {"INPROGRESS", "RECEIVEDINITIATE_ACK"}
    PROVE  SetState(s, st).signalled = s.signalled
<1>1. GetContentAction(st) = <<>>
  BY DEF GetContentAction, Terminal
<1>2. s.signalled \o <<>> = s.signalled
  BY DEF SessionRecord
<1>3. st \in State
  BY DEF State
<1> QED
  BY <1>1, <1>2, <1>3, SetStateFields

\* A change of other fields.
LEMMA ToldFrame ==
    ASSUME NEW p, NEW s, NEW acc, Told(p, s, acc), NEW t,
           t.state = s.state, t.remote = s.remote, t.signalled = s.signalled,
           t.negotiated = s.negotiated,
           s.state = "DEINIT" => t.queue = s.queue /\ t.timers = s.timers
    PROVE  Told(p, t, acc) /\ Ends(p, s, t)
BY DEF Told, Ends

\* A session that ends.
LEMMA ToldEnd ==
    ASSUME NEW p, NEW s \in SessionRecord, NEW acc, Told(p, s, acc),
           s.state # "DEINIT", NEW st \in Terminal
    PROVE  Told(p, SetState(s, st), acc) /\ Ends(p, s, SetState(s, st))
<1> DEFINE t == SetState(s, st)
<1>1. /\ t.state = st /\ t.remote = s.remote /\ t.signalled = s.signalled
  BY SetStateFields, NothingSignalled DEF State
<1> HIDE DEF t
<1>2. st \notin {"DEINIT", "RECEIVEDINITIATE", "SENTACCEPT", "RECEIVEDACCEPT",
                 "INPROGRESS", "INIT", "SENTINITIATE", "RECEIVEDINITIATE_ACK"}
  BY DEF Terminal
<1>3. Told(p, t, acc)
  BY <1>1, <1>2 DEF Told
<1>4. Ends(p, s, t)
  BY <1>1 DEF Ends
<1> QED
  BY <1>3, <1>4 DEF t

\* The acknowledgement of an initiate, which only the initiator waits for.
LEMMA ToldAcked ==
    ASSUME NEW s \in SessionRecord, NEW acc, Told(Initiator, s, acc)
    PROVE  /\ OnInitiateAcked(s) \in SessionRecord
           /\ OnInitiateAcked(s).state = "RECEIVEDINITIATE_ACK"
           /\ OnInitiateAcked(s).remote = s.remote
           /\ Told(Initiator, OnInitiateAcked(s), acc)
           /\ Ends(Initiator, s, OnInitiateAcked(s))
<1> DEFINE s0 == [s EXCEPT !.timers = @ \ {"INIT_ACK"}]
           s1 == SetState(s0, "RECEIVEDINITIATE_ACK")
           t  == [s1 EXCEPT !.acked = TRUE, !.unsent = IF s.acked THEN @ ELSE {}]
<1>1. s0 \in SessionRecord /\ s0.remote = s.remote
  BY DEF SessionRecord
<1> HIDE DEF s0
<1>2. s1 \in SessionRecord /\ s1.state = "RECEIVEDINITIATE_ACK"
      /\ s1.remote = s.remote
  BY <1>1, SetStateType, SetStateFields DEF State
<1>3. OnInitiateAcked(s) = t
  BY DEF OnInitiateAcked, s0
<1> HIDE DEF s1
<1>4. t \in SessionRecord /\ t.state = s1.state /\ t.remote = s1.remote
  BY <1>2 DEF SessionRecord
<1> HIDE DEF t
<1>5. Told(Initiator, t, acc) /\ Ends(Initiator, s, t)
  BY <1>2, <1>4 DEF Told, Ends
<1> QED
  BY <1>2, <1>3, <1>4, <1>5

\* Replies, and requests other than initiate and accept, are anybody's.
LEMMA OwnedOut ==
    ASSUME NEW p, NEW s \in SessionRecord, NEW acc, NEW m, NEW arg, NEW cs,
           NEW ty \in {"reject", "terminate", "transport-info", "description-info"}
    PROVE  /\ Owned(p, {}, acc)
           /\ Owned(p, {Request(s, ty, cs, arg)}, acc)
           /\ Owned(p, Acknowledgement(m), acc)
           /\ Owned(p, ErrorMessage(m), acc)
           /\ Owned(p, TransportInfos(s, cs), acc)
           /\ Owned(p, UnsentTransportInfos(s), acc)
<1>1. /\ Request(s, ty, cs, arg).kind = "set"
      /\ Request(s, ty, cs, arg).type \in {ty, "terminate"}
  BY DEF Request, WireType
<1>2. Owned(p, {Request(s, ty, cs, arg)}, acc)
  BY <1>1 DEF Owned
<1>3. Reply("result", m, "none").kind = "result"
      /\ Reply("error", m, "modify").kind = "error"
  BY DEF Reply
<1>4. Owned(p, Acknowledgement(m), acc) /\ Owned(p, ErrorMessage(m), acc)
  BY <1>3 DEF Owned, Acknowledgement, ErrorMessage
<1>5. ASSUME NEW c PROVE Owned(p, TransportInfos(s, c), acc)
  <2> DEFINE of(i) == {x \in c : x[1] = Contents[i]}
             w(i) == [Request(s, "transport-info", of(i), "none") EXCEPT !.k = i + 1]
  <2>1. TransportInfos(s, c) = {w(i) : i \in {j \in DOMAIN Contents : of(j) # {}}}
    BY DEF TransportInfos
  <2>2. ASSUME NEW i PROVE w(i).type = "transport-info"
    BY DEF Request, WireType
  <2> HIDE DEF w, of
  <2> QED
    BY <2>1, <2>2 DEF Owned
<1>6. Owned(p, {}, acc)
  BY DEF Owned
<1>7. Owned(p, UnsentTransportInfos(s), acc)
  BY <1>5, <1>6 DEF UnsentTransportInfos
<1> QED
  BY <1>2, <1>4, <1>5, <1>6, <1>7

\* What is owned apart is owned together.
LEMMA OwnedUnion ==
    ASSUME NEW p, NEW acc, NEW X, NEW Y, Owned(p, X, acc), Owned(p, Y, acc)
    PROVE  Owned(p, X \cup Y, acc)
BY DEF Owned

\* A message changes what a session has been told only as it should.  The
\* session is that of p, or a new one for an initiate.
ToldOutcome(p, s, o, acc) ==
    Told(p, o.session, acc) /\ Ends(p, s, o.session) /\ Owned(p, o.out, acc)

\* An initiate: a responder that has a session refuses it.
LEMMA InitiateTold ==
    ASSUME NEW p \in Peers, NEW s \in SessionRecord, NEW acc, NEW m \in Stanza,
           m.from = Initiator, p # Initiator, NEW v \in {"ring", "busy", "none"},
           \/ Told(p, s, acc) /\ s.state # "DEINIT"
           \/ s.state = "INIT" /\ s.signalled = <<>>
    PROVE  ToldOutcome(p, s, OnInitiateMessage(s, m, v), acc)
<1> DEFINE s0 == [s EXCEPT !.remote = m.from, !.descr = TRUE]
           s1 == SetState(s0, "RECEIVEDINITIATE")
           s2 == ConnectProxies(s1, ContentNames)
           s3 == RejectedAtOnce(s0, v)
<1>1. OnInitiateMessage(s, m, v) =
        IF s.state # "INIT" THEN Outcome(s, ErrorMessage(m))
        ELSE IF v = "ring" THEN Outcome(s2, Acknowledgement(m))
        ELSE Outcome(s3, {Request(s0, "reject", {}, v)} \cup Acknowledgement(m))
  BY DEF OnInitiateMessage, Refused
<1>2. CASE s.state # "INIT"
  <2>1. Told(p, s, acc)
    BY <1>2
  <2>2. Told(p, s, acc) /\ Ends(p, s, s)
    BY <2>1 DEF Ends
  <2>3. Owned(p, ErrorMessage(m), acc)
    BY OwnedOut
  <2> QED
    BY <1>1, <1>2, <2>2, <2>3 DEF ToldOutcome, Outcome
<1>3. CASE s.state = "INIT"
  <2>0. s.signalled = <<>>
    BY <1>3 DEF Told
  <2>1. s0 \in SessionRecord /\ s0.remote = Initiator /\ s0.signalled = <<>>
    BY <2>0 DEF SessionRecord, Peers
  <2> HIDE DEF s0
  <2>2. <<>> \o <<"offer">> = <<"offer">>
    OBVIOUS
  <2>3. GetContentAction("RECEIVEDINITIATE") = <<"offer">>
    BY DEF GetContentAction
  <2>4. /\ s1 \in SessionRecord /\ s1.state = "RECEIVEDINITIATE"
        /\ s1.remote = Initiator /\ s1.signalled = <<"offer">>
    BY <2>1, <2>2, <2>3, SetStateType, SetStateFields DEF State
  <2> HIDE DEF s1
  <2>5. /\ s2.state = "RECEIVEDINITIATE" /\ s2.remote = Initiator
        /\ s2.signalled = <<"offer">>
    BY <2>4 DEF ConnectProxies, SessionRecord
  <2>6. RejectState(v) \in Terminal
    BY DEF RejectState, Terminal
  <2>7. s3.state = RejectState(v) /\ s3.remote = Initiator /\ s3.signalled = <<>>
    BY <2>1, <2>6, RejectedFields, NothingSignalled
  <2> HIDE DEF s2, s3
  <2>8. Told(p, s3, acc)
    BY <2>7 DEF Told, RejectState
  <2>9. Told(p, s2, acc)
    BY <2>5 DEF Told
  <2>10. Ends(p, s, s2) /\ Ends(p, s, s3)
    BY <1>3 DEF Ends, Terminal
  <2>11. Owned(p, {Request(s0, "reject", {}, v)} \cup Acknowledgement(m), acc)
         /\ Owned(p, Acknowledgement(m), acc)
    BY <2>1, OwnedOut, OwnedUnion
  <2> QED
    BY <1>1, <1>3, <2>8, <2>9, <2>10, <2>11 DEF ToldOutcome, Outcome
<1> QED
  BY <1>2, <1>3

\* An accept: only a caller takes it, from the JID it talks to.
LEMMA AcceptTold ==
    ASSUME NEW p \in Peers, NEW s \in SessionRecord, NEW acc, NEW m \in Stanza,
           Told(p, s, acc), s.remote = m.from, m.from \in acc
    PROVE  ToldOutcome(p, s, OnAcceptMessage(s, m), acc)
<1> DEFINE s0 == OnInitiateAcked(s)
           s1 == [s0 EXCEPT !.descr = TRUE]
           s2 == ConnectProxies(s1, ContentNames)
           s3 == SetState(s2, "RECEIVEDACCEPT")
<1>1. OnAcceptMessage(s, m) =
        IF ~CheckSentInitiate(s) THEN Outcome(s, ErrorMessage(m))
        ELSE Outcome(s3, UnsentTransportInfos(s) \cup Acknowledgement(m))
  BY DEF OnAcceptMessage, Refused
<1>2. CASE ~CheckSentInitiate(s)
  <2>1. Owned(p, ErrorMessage(m), acc) /\ Ends(p, s, s)
    BY OwnedOut DEF Ends
  <2> QED
    BY <1>1, <1>2, <2>1 DEF ToldOutcome, Outcome
<1>3. CASE CheckSentInitiate(s)
  <2>1. p = Initiator
    BY <1>3 DEF CheckSentInitiate, Told
  <2>2. s0 \in SessionRecord /\ s0.remote = s.remote
    BY <2>1, ToldAcked
  <2> HIDE DEF s0
  <2>3. s1 \in SessionRecord /\ s1.remote = s.remote
    BY <2>2 DEF SessionRecord
  <2> HIDE DEF s1
  <2>4. s2 \in SessionRecord /\ s2.remote = s.remote
    <3>1. s2 \in SessionRecord
      BY <2>3, ConnectProxiesType
    <3>2. s2.remote = s1.remote
      BY <2>3 DEF ConnectProxies, SessionRecord
    <3> HIDE DEF s2
    <3> QED
      BY <2>3, <3>1, <3>2
  <2> HIDE DEF s2
  <2>5. s3.state = "RECEIVEDACCEPT" /\ s3.remote = s.remote
    BY <2>4, SetStateFields DEF State
  <2> HIDE DEF s3
  <2>6. Told(p, s3, acc) /\ Ends(p, s, s3)
    BY <2>1, <2>5 DEF Told, Ends
  <2>7. Owned(p, UnsentTransportInfos(s) \cup Acknowledgement(m), acc)
    BY OwnedOut, OwnedUnion
  <2> QED
    BY <1>1, <1>3, <2>6, <2>7 DEF ToldOutcome, Outcome
<1> QED
  BY <1>2, <1>3

\* Every handler of Session::OnIncomingMessage.
LEMMA MessageTold ==
    ASSUME NEW p \in Peers, NEW s \in SessionRecord, NEW acc, NEW m \in Stanza,
           m.kind = "set", Genuine(m, acc), m.to = p,
           NEW v \in {"ring", "busy", "none"},
           \/ Told(p, s, acc) /\ s.state # "DEINIT" /\ s.remote = m.from
           \/ s.state = "INIT" /\ s.signalled = <<>> /\ m.type = "initiate"
    PROVE  ToldOutcome(p, s, HandleMessage(s, m, v), acc)
<1>0. /\ Owned(p, {}, acc) /\ Owned(p, Acknowledgement(m), acc)
      /\ Owned(p, ErrorMessage(m), acc) /\ Ends(p, s, s)
  BY OwnedOut DEF Ends
<1>1. CASE m.type = "initiate"
  <2>1. m.from = Initiator /\ p # Initiator
    BY <1>1, PeersAssumption DEF Genuine
  <2>2. ToldOutcome(p, s, OnInitiateMessage(s, m, v), acc)
    BY <2>1, InitiateTold
  <2> QED
    BY <1>1, <2>2 DEF HandleMessage
<1>2. CASE m.type = "accept"
  <2>1. ToldOutcome(p, s, OnAcceptMessage(s, m), acc)
    BY <1>2, AcceptTold DEF Genuine
  <2> QED
    BY <1>2, <2>1 DEF HandleMessage
<1>3. CASE m.type = "reject"
  <2>1. ToldOutcome(p, s, OnRejectMessage(s, m), acc)
    BY <1>0, <1>3 DEF OnRejectMessage, ToldOutcome, Outcome
  <2> QED
    BY <1>3, <2>1 DEF HandleMessage
<1>4. CASE m.type = "terminate"
  <2>1. {"RECEIVEDBUSY", "RECEIVEDTERMINATE"} \subseteq Terminal
    BY DEF Terminal
  <2>2. \A st \in {"RECEIVEDBUSY", "RECEIVEDTERMINATE"} :
           Told(p, SetState(s, st), acc) /\ Ends(p, s, SetState(s, st))
    BY <1>4, <2>1, ToldEnd
  <2>3. ToldOutcome(p, s, OnTerminateMessage(s, m), acc)
    BY <1>0, <2>2 DEF OnTerminateMessage, ToldOutcome, Outcome
  <2> QED
    BY <1>4, <2>3 DEF HandleMessage
<1>5. CASE m.type = "transport-info"
  <2> DEFINE cs == {c[1] : c \in m.cands}
             t == ConnectProxies(s, cs)
  <2>1. cs \subseteq ContentNames
    BY DEF Stanza
  <2>2. /\ t.state = s.state /\ t.remote = s.remote /\ t.signalled = s.signalled
        /\ t.negotiated = s.negotiated \cup cs
    BY DEF ConnectProxies, SessionRecord
  <2>3. Told(p, s, acc) /\ s.state # "DEINIT"
    BY <1>5
  <2> HIDE DEF cs, t
  <2>4. Told(p, t, acc) /\ Ends(p, s, t)
    BY <2>1, <2>2, <2>3 DEF Told, Ends
  <2>5. ToldOutcome(p, s, OnTransportInfoMessage(s, m), acc)
    BY <1>0, <2>4 DEF OnTransportInfoMessage, ToldOutcome, Outcome, t, cs
  <2> QED
    BY <1>5, <2>5 DEF HandleMessage
<1>6. CASE m.type = "description-info"
  <2>1. ToldOutcome(p, s, OnDescriptionInfoMessage(s, m), acc)
    BY <1>0, <1>6 DEF OnDescriptionInfoMessage, Refused, ToldOutcome, Outcome
  <2> QED
    BY <1>6, <2>1 DEF HandleMessage
<1> QED
  BY <1>1, <1>2, <1>3, <1>4, <1>5, <1>6 DEF Stanza, ActionType

\* SetError is not about what a session was told.
LEMMA ErrorTold ==
    ASSUME NEW p, NEW s \in SessionRecord, NEW acc, Told(p, s, acc),
           s.state # "DEINIT", NEW e
    PROVE  Told(p, SetError(s, e), acc) /\ Ends(p, s, SetError(s, e))
<1>1. /\ SetError(s, e).state = s.state /\ SetError(s, e).remote = s.remote
      /\ SetError(s, e).signalled = s.signalled
      /\ SetError(s, e).negotiated = s.negotiated
  BY DEF SetError, SessionRecord
<1> QED
  BY <1>1, ToldFrame

\* A redirect: only a caller follows it, and calls a responder.
LEMMA RedirectTold ==
    ASSUME NEW p \in Peers, NEW s \in SessionRecord, NEW acc, Told(p, s, acc),
           s.state # "DEINIT", NEW target
    PROVE  ToldOutcome(p, s, OnRedirectError(s, target), acc)
<1> DEFINE s1 == SendInitiateMessage([s EXCEPT !.remote = target])
           t  == [s1 EXCEPT !.resend = {}]
           req == {Request(s1, "initiate", {}, "none")}
           out == req \cup TransportInfos(s1, s1.resend)
<1>1. OnRedirectError(s, target) =
        IF CheckSentInitiate(s) /\ target \in Responders THEN Outcome(t, out)
        ELSE Outcome(SetError(s, "RESPONSE"), {})
  BY DEF OnRedirectError
<1>2. CASE CheckSentInitiate(s) /\ target \in Responders
  <2>1. p = Initiator /\ s.state \in {"SENTINITIATE", "RECEIVEDINITIATE_ACK"}
    BY <1>2 DEF CheckSentInitiate, Told
  <2>2. s1 \in SessionRecord /\ s1.state = s.state /\ s1.remote = target
    BY <1>2 DEF SendInitiateMessage, SessionRecord, Peers
  <2>3. Request(s1, "initiate", {}, "none").type = "initiate"
        /\ Request(s1, "initiate", {}, "none").to = target
    BY <2>2 DEF Request, WireType
  <2> HIDE DEF s1
  <2>4. Owned(p, req, acc)
    BY <1>2, <2>1, <2>3 DEF Owned
  <2>5. Owned(p, TransportInfos(s1, s1.resend), acc)
    BY <2>2, OwnedOut
  <2>6. Owned(p, out, acc)
    <3> HIDE DEF req
    <3> QED
      BY <2>4, <2>5, OwnedUnion
  <2>7. t.state = s.state
    BY <2>2 DEF SessionRecord
  <2> HIDE DEF t, out
  <2>8. Told(p, t, acc) /\ Ends(p, s, t)
    BY <2>1, <2>7 DEF Told, Ends
  <2> QED
    BY <1>1, <1>2, <2>6, <2>8 DEF ToldOutcome, Outcome
<1>3. CASE ~(CheckSentInitiate(s) /\ target \in Responders)
  <2>1. Told(p, SetError(s, "RESPONSE"), acc) /\ Ends(p, s, SetError(s, "RESPONSE"))
    BY ErrorTold
  <2>2. Owned(p, {}, acc)
    BY DEF Owned
  <2> HIDE DEF t, out
  <2> QED
    BY <1>1, <1>3, <2>1, <2>2 DEF ToldOutcome, Outcome
<1> QED
  BY <1>2, <1>3

\* The end of a SessionSendTask, which is that of an initiate only at a caller.
LEMMA ResponseTold ==
    ASSUME NEW p \in Peers, NEW s \in SessionRecord, NEW acc, Told(p, s, acc),
           s.state # "DEINIT", NEW r \in Stanza,
           r.type = "initiate" => p = Initiator, NEW arg
    PROVE  /\ ToldOutcome(p, s, OnIncomingResponse(s, r), acc)
           /\ ToldOutcome(p, s, OnFailedSend(s, r, arg), acc)
           /\ ToldOutcome(p, s, Outcome(s, {}), acc)
<1>1. ToldOutcome(p, s, Outcome(s, {}), acc)
  BY DEF ToldOutcome, Outcome, Owned, Ends
<1>2. ToldOutcome(p, s, Outcome(SetError(s, "RESPONSE"), {}), acc)
  BY ErrorTold DEF ToldOutcome, Outcome, Owned
<1>3. ToldOutcome(p, s, OnRedirectError(s, arg), acc)
  BY RedirectTold
<1>4. ToldOutcome(p, s, OnFailedSend(s, r, arg), acc)
  BY <1>1, <1>2, <1>3, Zenon DEF OnFailedSend
<1>5. ASSUME r.type = "initiate"
      PROVE  ToldOutcome(p, s, Outcome(OnInitiateAcked(s),
                                       UnsentTransportInfos(s)), acc)
  <2>1. p = Initiator
    BY <1>5
  <2>2. Told(p, OnInitiateAcked(s), acc) /\ Ends(p, s, OnInitiateAcked(s))
    BY <2>1, ToldAcked
  <2>3. Owned(p, UnsentTransportInfos(s), acc)
    BY OwnedOut
  <2> QED
    BY <2>2, <2>3 DEF ToldOutcome, Outcome
<1>6. ToldOutcome(p, s, OnIncomingResponse(s, r), acc)
  BY <1>1, <1>5, Zenon DEF OnIncomingResponse
<1> QED
  BY <1>1, <1>4, <1>6

\* More accepts take nothing away.
LEMMA ToldMonotone ==
    ASSUME NEW p, NEW s, NEW acc, NEW bcc, acc \subseteq bcc, Told(p, s, acc)
    PROVE  Told(p, s, bcc)
BY DEF Told

\* A step that puts a session at p and sends what it owns.
LEMMA HonestSend ==
    ASSUME Inv, Honest, NEW p \in Peers, NEW t, NEW out, NEW inNet, NEW waiting,
           Told(p, t, accepted'), Ends(p, ses[p], t), Update(p, t),
           Owned(p, out, accepted'), inNet \subseteq net,
           waiting \subseteq pending[p], Send(p, out, inNet, waiting),
           accepted \subseteq accepted'
    PROVE  Honest' /\ StaysEnded
<1> DEFINE stamped == {Stamp(p, w) : w \in out}
<1>1. net' = inNet \cup stamped
      /\ pending' = [pending EXCEPT ![p] = waiting \cup {m \in stamped : m.kind = "set"}]
  BY DEF Send
<1>2. ASSUME NEW w \in out
      PROVE  /\ Genuine(Stamp(p, w), accepted')
             /\ Stamp(p, w).kind = "set" /\ Stamp(p, w).type = "initiate" => p = Initiator
  <2>1. /\ Stamp(p, w).kind = w.kind /\ Stamp(p, w).type = w.type
        /\ Stamp(p, w).from = p /\ Stamp(p, w).to = w.to
    BY DEF Stamp
  <2> QED
    BY <2>1 DEF Genuine, Owned
<1>3. \A m \in stamped :
         /\ Genuine(m, accepted')
         /\ m.kind = "set" /\ m.type = "initiate" => p = Initiator
  BY <1>2
<1> HIDE DEF stamped
<1>4. \A m \in net' : Genuine(m, accepted')
  BY <1>1, <1>3 DEF Honest, Genuine
<1>5. ASSUME NEW q \in Peers, NEW r \in pending'[q], r.type = "initiate"
      PROVE  q = Initiator
  <2>1. pending \in [Peers -> SUBSET Stanza]
    BY DEF Inv, TypeOK
  <2>2. CASE q = p
    BY <1>1, <1>3, <1>5, <2>1, <2>2 DEF Honest
  <2>3. CASE q # p
    BY <1>1, <1>5, <2>1, <2>3 DEF Honest
  <2> QED
    BY <2>2, <2>3
<1>6. /\ ses'[p] = t
      /\ \A q \in Peers : q # p => ses'[q] = ses[q]
  BY DEF Update, Inv, TypeOK
<1>7. \A q \in Peers : Told(q, ses'[q], accepted')
  BY <1>6, ToldMonotone DEF Honest
<1>8. StaysEnded
  BY <1>6, PeersAssumption DEF StaysEnded, Ends, Peers
<1> QED
  BY <1>4, <1>5, <1>7, <1>8 DEF Honest

\* A step that puts a session at p and sends nothing.
LEMMA HonestUpdate ==
    ASSUME Inv, Honest, NEW p \in Peers, NEW t, Told(p, t, accepted),
           Ends(p, ses[p], t), Update(p, t), UNCHANGED <<net, pending, accepted>>
    PROVE  Honest' /\ StaysEnded
<1>1. /\ ses'[p] = t
      /\ \A q \in Peers : q # p => ses'[q] = ses[q]
  BY DEF Update, Inv, TypeOK
<1>2. \A q \in Peers : Told(q, ses'[q], accepted')
  BY <1>1 DEF Honest
<1>3. StaysEnded
  BY <1>1, PeersAssumption DEF StaysEnded, Ends, Peers
<1> QED
  BY <1>2, <1>3 DEF Honest

\* A step that leaves the sessions alone and adds no request.
LEMMA HonestNetwork ==
    ASSUME Inv, Honest, UNCHANGED <<ses, pending, accepted>>,
           \A m \in net' : m \in net \/ m.kind # "set"
    PROVE  Honest' /\ StaysEnded
<1>1. \A m \in net' : Genuine(m, accepted')
  BY DEF Honest, Genuine
<1> QED
  BY <1>1 DEF Honest, StaysEnded

\* The operations of the client.
LEMMA ClientHonest ==
    ASSUME Inv, Honest, NEW p \in Peers, Client(p)
    PROVE  Honest' /\ StaysEnded
<1>1. /\ ses[p] \in SessionRecord /\ Told(p, ses[p], accepted)
      /\ net \subseteq net /\ pending[p] \subseteq pending[p]
      /\ accepted \subseteq accepted
  BY DEF Inv, TypeOK, Honest
<1>2. CASE \E to \in Responders : Initiate(p, to)
  <2>1. PICK to \in Responders : Initiate(p, to)
    BY <1>2
  <2> DEFINE s == [ses[p] EXCEPT !.remote = to, !.local = TRUE,
                                 !.connecting = ContentNames]
             s1 == SendInitiateMessage(s)
             t == SetState(s1, "SENTINITIATE")
             out == {Request(s, "initiate", {}, "none")}
  <2>2. /\ p = Initiator /\ Update(p, t) /\ Send(p, out, net, pending[p])
        /\ accepted' = accepted
    BY <2>1 DEF Initiate
  <2>3. s \in SessionRecord /\ s.remote = to
    BY <1>1 DEF SessionRecord, Peers
  <2> HIDE DEF s
  <2>4. s1 \in SessionRecord
    BY <2>3 DEF SendInitiateMessage, SessionRecord
  <2> HIDE DEF s1
  <2>5. t.state = "SENTINITIATE"
    BY <2>4, SetStateFields DEF State
  <2> HIDE DEF t
  <2>6. Told(p, t, accepted') /\ Ends(p, ses[p], t)
    BY <2>2, <2>5 DEF Told, Ends
  <2>7. Owned(p, out, accepted')
    BY <2>2, <2>3 DEF Owned, Request, WireType
  <2> HIDE DEF out
  <2> QED
    BY <1>1, <2>2, <2>6, <2>7, HonestSend
<1>3. CASE Accept(p)
  <2> DEFINE s == [ses[p] EXCEPT !.local = TRUE]
             s1 == ConnectProxies(s, ContentNames)
             t == SetState(s1, "SENTACCEPT")
             out == {Request(s, "accept", {}, "none")}
  <2>1. /\ s.state = "RECEIVEDINITIATE"
        /\ Update(p, t) /\ Send(p, out, net, pending[p])
        /\ accepted' = accepted \cup {p}
    BY <1>3 DEF Accept
  <2>2. /\ s \in SessionRecord /\ s.state = ses[p].state
        /\ s.remote = ses[p].remote /\ s.signalled = ses[p].signalled
    BY <1>1 DEF SessionRecord
  <2>3. p # Initiator /\ s.signalled = <<"offer">> /\ s.remote = Initiator
    BY <1>1, <2>1, <2>2 DEF Told
  <2> HIDE DEF s
  <2>4. /\ s1 \in SessionRecord /\ s1.remote = s.remote
        /\ s1.signalled = s.signalled /\ s1.negotiated = ContentNames
    <3>1. s1 \in SessionRecord
      BY <2>2, ConnectProxiesType
    <3>2. s1.remote = s.remote /\ s1.signalled = s.signalled
      BY <2>2 DEF ConnectProxies, SessionRecord
    <3>3. s1.negotiated = s.negotiated \cup ContentNames
      BY <2>2 DEF ConnectProxies, SessionRecord
    <3>4. s.negotiated \subseteq ContentNames
      BY <2>2 DEF SessionRecord
    <3> HIDE DEF s1
    <3> QED
      BY <3>1, <3>2, <3>3, <3>4
  <2> HIDE DEF s1
  <2>5. GetContentAction("SENTACCEPT") = <<"answer">>
    BY DEF GetContentAction
  <2>6. <<"offer">> \o <<"answer">> = <<"offer", "answer">>
    BY OfferThenAnswer
  <2>7. /\ t.state = "SENTACCEPT" /\ t.remote = Initiator
        /\ t.signalled = <<"offer", "answer">> /\ t.negotiated = ContentNames
    <3>1. /\ t.state = "SENTACCEPT" /\ t.remote = s1.remote
          /\ t.negotiated = s1.negotiated
          /\ t.signalled = s1.signalled \o GetContentAction("SENTACCEPT")
      BY <2>4, SetStateFields DEF State
    <3> HIDE DEF t
    <3>2. t.signalled = <<"offer", "answer">>
      BY <2>3, <2>4, <2>5, <2>6, <3>1
    <3> QED
      BY <2>3, <2>4, <3>1, <3>2
  <2> HIDE DEF t
  <2>8. Told(p, t, accepted') /\ Ends(p, ses[p], t)
    BY <2>1, <2>2, <2>3, <2>7 DEF Told, Ends, Terminal
  <2>9. Owned(p, out, accepted')
    BY <2>1 DEF Owned, Request, WireType
  <2>10. accepted \subseteq accepted'
    BY <2>1
  <2> HIDE DEF out
  <2> QED
    BY <1>1, <2>1, <2>8, <2>9, <2>10, HonestSend
<1>4. CASE \E reason \in {"busy", "none"} : Reject(p, reason)
  <2>1. PICK reason \in {"busy", "none"} : Reject(p, reason)
    BY <1>4
  <2> DEFINE t == SetState(ses[p], RejectState(reason))
             out == {Request(ses[p], "reject", {}, reason)}
  <2>2. /\ ses[p].state = "RECEIVEDINITIATE" /\ Update(p, t)
        /\ Send(p, out, net, pending[p]) /\ accepted' = accepted
    BY <2>1 DEF Reject
  <2>3. RejectState(reason) \in Terminal
    BY DEF RejectState, Terminal
  <2>4. Told(p, t, accepted) /\ Ends(p, ses[p], t)
    BY <1>1, <2>2, <2>3, ToldEnd
  <2>5. Owned(p, out, accepted)
    BY <1>1, OwnedOut
  <2> HIDE DEF t, out
  <2> QED
    BY <1>1, <2>2, <2>4, <2>5, HonestSend
<1>5. CASE Terminate(p)
  <2> DEFINE t == SetState(ses[p], "SENTTERMINATE")
             out == {Request(ses[p], "terminate", {}, "none")}
  <2>1. /\ ses[p].state # "DEINIT" /\ Update(p, t)
        /\ Send(p, out, net, pending[p]) /\ accepted' = accepted
    BY <1>5 DEF Terminate, TerminateWithReason
  <2>2. Told(p, t, accepted) /\ Ends(p, ses[p], t)
    BY <1>1, <2>1, ToldEnd DEF Terminal
  <2>3. Owned(p, out, accepted)
    BY <1>1, OwnedOut
  <2> HIDE DEF t, out
  <2> QED
    BY <1>1, <2>1, <2>2, <2>3, HonestSend
<1>6. CASE SendDescriptionInfoMessage(p)
  <2> DEFINE out == {Request(ses[p], "description-info", {}, "none")}
  <2>1. /\ Send(p, out, net, pending[p]) /\ ses' = ses /\ accepted' = accepted
    BY <1>6 DEF SendDescriptionInfoMessage
  <2>2. Update(p, ses[p]) /\ Ends(p, ses[p], ses[p])
    BY <2>1 DEF Update, Inv, TypeOK, Ends
  <2>3. Owned(p, out, accepted)
    BY <1>1, OwnedOut
  <2> HIDE DEF out
  <2> QED
    BY <1>1, <2>1, <2>2, <2>3, HonestSend
<1> QED
  BY <1>2, <1>3, <1>4, <1>5, <1>6 DEF Client

\* The signals of the transports.
LEMMA TransportHonest ==
    ASSUME Inv, Honest, NEW p \in Peers, Transport(p)
    PROVE  Honest' /\ StaysEnded
<1>1. /\ ses[p] \in SessionRecord /\ Told(p, ses[p], accepted)
      /\ net \subseteq net /\ pending[p] \subseteq pending[p]
      /\ accepted \subseteq accepted
  BY DEF Inv, TypeOK, Honest
<1>2. ASSUME NEW content \in ContentNames, NEW cand \in Candidates,
             OnTransportProxyCandidatesReady(p, content, cand)
      PROVE  Honest' /\ StaysEnded
  <2> DEFINE here == {<<content, cand>>}
             s == [ses[p] EXCEPT !.gathered = @ \cup here]
             t1 == [s EXCEPT !.unsent = @ \cup here]
             t2 == [s EXCEPT !.resend = IF content \in s.negotiated THEN @
                                        ELSE @ \cup here]
  <2>1. /\ \/ /\ Update(p, t1)
              /\ UNCHANGED <<net, pending, sent, offered>>
           \/ /\ Update(p, t2)
              /\ Send(p, TransportInfos(s, here), net, pending[p])
        /\ accepted' = accepted
    BY <1>2 DEF OnTransportProxyCandidatesReady
  <2>2. s \in SessionRecord
    <3>1. here \in SUBSET (ContentNames \X Candidates)
      BY <1>2
    <3> HIDE DEF here
    <3> QED
      BY <1>1, <3>1 DEF SessionRecord
  <2>3. /\ t1.state = ses[p].state /\ t1.remote = ses[p].remote
        /\ t1.signalled = ses[p].signalled /\ t1.negotiated = ses[p].negotiated
        /\ t1.queue = ses[p].queue /\ t1.timers = ses[p].timers
    BY <1>1 DEF SessionRecord
  <2>4. /\ t2.state = ses[p].state /\ t2.remote = ses[p].remote
        /\ t2.signalled = ses[p].signalled /\ t2.negotiated = ses[p].negotiated
        /\ t2.queue = ses[p].queue /\ t2.timers = ses[p].timers
    BY <1>1 DEF SessionRecord
  <2>5. Owned(p, TransportInfos(s, here), accepted)
    BY <2>2, OwnedOut
  <2> HIDE DEF t1, t2, s, here
  <2>6. /\ Told(p, t1, accepted) /\ Ends(p, ses[p], t1)
        /\ Told(p, t2, accepted) /\ Ends(p, ses[p], t2)
    BY <1>1, <2>3, <2>4, ToldFrame
  <2>7. CASE Update(p, t1) /\ UNCHANGED <<net, pending, sent, offered>>
    BY <2>1, <2>6, <2>7, HonestUpdate
  <2>8. CASE Update(p, t2) /\ Send(p, TransportInfos(s, here), net, pending[p])
    BY <1>1, <2>1, <2>5, <2>6, <2>8, HonestSend
  <2> QED
    BY <2>1, <2>7, <2>8
<1>3. ASSUME NEW content \in ContentNames, NEW w \in BOOLEAN,
             OnTransportWritable(p, content, w)
      PROVE  Honest' /\ StaysEnded
  <2> DEFINE t == [ses[p] EXCEPT
               !.watched = @ \cup {content},
               !.writable = IF w THEN @ \cup {content} ELSE @ \ {content},
               !.timers = IF w THEN @ \ {"TIMEOUT"} ELSE @ \cup {"TIMEOUT"}]
  <2>1. /\ Update(p, t) /\ ses[p].state # "DEINIT"
        /\ UNCHANGED <<net, pending, accepted>>
    BY <1>3 DEF OnTransportWritable
  <2>2. /\ t.state = ses[p].state /\ t.remote = ses[p].remote
        /\ t.signalled = ses[p].signalled /\ t.negotiated = ses[p].negotiated
    BY <1>1 DEF SessionRecord
  <2> HIDE DEF t
  <2>3. Told(p, t, accepted) /\ Ends(p, ses[p], t)
    BY <1>1, <2>1, <2>2, ToldFrame
  <2> QED
    BY <2>1, <2>3, HonestUpdate
<1> QED
  BY <1>2, <1>3 DEF Transport

\* What the session posts to itself.
LEMMA OnMessageHonest ==
    ASSUME Inv, Honest, NEW p \in Peers, OnMessage(p)
    PROVE  Honest' /\ StaysEnded
<1> DEFINE s == [ses[p] EXCEPT !.queue = Tail(@)]
<1>1. /\ ses[p] \in SessionRecord /\ Told(p, ses[p], accepted)
      /\ ses[p].queue # <<>>
      /\ net \subseteq net /\ pending[p] \subseteq pending[p]
      /\ accepted \subseteq accepted
  BY DEF Inv, TypeOK, Honest, OnMessage
<1>2. ses[p].state # "DEINIT"
  BY <1>1 DEF Told
<1>3. /\ s \in SessionRecord /\ s.state = ses[p].state
      /\ s.remote = ses[p].remote /\ s.signalled = ses[p].signalled
      /\ s.negotiated = ses[p].negotiated
  <2>1. Tail(ses[p].queue) \in Seq(Message)
    BY <1>1 DEF SessionRecord, Message
  <2> QED
    BY <1>1, <2>1 DEF SessionRecord, Message
<1>4. CASE Head(ses[p].queue) = "STATE"
  <2> DEFINE t == IF s.state \in Terminal THEN NoSession
                  ELSE IF s.state \in {"SENTACCEPT", "RECEIVEDACCEPT"}
                  THEN SetState(s, "INPROGRESS") ELSE s
  <2>1. Update(p, t) /\ UNCHANGED <<net, pending, accepted>>
    BY <1>4 DEF OnMessage
  <2> HIDE DEF s
  <2>2. Told(p, s, accepted) /\ Ends(p, ses[p], s)
    BY <1>1, <1>2, <1>3, ToldFrame
  <2>3. /\ NoSession.state = "DEINIT" /\ NoSession.queue = <<>>
        /\ NoSession.timers = {} /\ NoSession.signalled = <<>>
    BY DEF NoSession, NewSession
  <2>4. Told(p, NoSession, accepted) /\ Ends(p, ses[p], NoSession)
    BY <2>3 DEF Told, Ends
  <2>5. ASSUME s.state \in {"SENTACCEPT", "RECEIVEDACCEPT"}
        PROVE  Told(p, SetState(s, "INPROGRESS"), accepted)
               /\ Ends(p, ses[p], SetState(s, "INPROGRESS"))
    <3> DEFINE u == SetState(s, "INPROGRESS")
    <3>1. /\ u.state = "INPROGRESS" /\ u.remote = s.remote
          /\ u.signalled = s.signalled /\ u.negotiated = s.negotiated
      BY <1>3, SetStateFields, NothingSignalled DEF State
    <3> HIDE DEF u
    <3>2. Told(p, u, accepted)
      BY <2>2, <2>5, <3>1 DEF Told
    <3>3. Ends(p, ses[p], u)
      BY <1>3, <2>5 DEF Ends, Terminal
    <3> QED
      BY <3>2, <3>3 DEF u
  <2>6. Told(p, t, accepted) /\ Ends(p, ses[p], t)
    BY <2>2, <2>4, <2>5
  <2> HIDE DEF t
  <2> QED
    BY <2>1, <2>6, HonestUpdate
<1>5. CASE Head(ses[p].queue) = "ERROR"
  <2>1. /\ \/ TerminateWithReason(p, s)
           \/ /\ Update(p, s)
              /\ UNCHANGED <<net, pending, sent, offered>>
        /\ accepted' = accepted
    BY <1>5 DEF OnMessage
  <2> HIDE DEF s
  <2>2. Told(p, s, accepted) /\ Ends(p, ses[p], s)
    BY <1>1, <1>2, <1>3, ToldFrame
  <2>3. CASE TerminateWithReason(p, s)
    <3> DEFINE t == SetState(s, "SENTTERMINATE")
               out == {Request(s, "terminate", {}, "none")}
    <3>1. Update(p, t) /\ Send(p, out, net, pending[p])
      BY <2>3 DEF TerminateWithReason
    <3>2. Told(p, t, accepted) /\ Ends(p, s, t)
      BY <1>2, <1>3, <2>2, ToldEnd DEF Terminal
    <3>3. Owned(p, out, accepted)
      BY <1>3, OwnedOut
    <3>4. Ends(p, ses[p], t)
      BY <1>3, <3>2 DEF Ends
    <3> HIDE DEF t, out
    <3> QED
      BY <1>1, <2>1, <3>1, <3>2, <3>3, <3>4, HonestSend
  <2>4. CASE Update(p, s) /\ UNCHANGED <<net, pending, sent, offered>>
    BY <2>1, <2>2, <2>4, HonestUpdate
  <2> QED
    BY <2>1, <2>3, <2>4
<1> QED
  BY <1>4, <1>5 DEF OnMessage

\* A timer of a session.
LEMMA FireTimerHonest ==
    ASSUME Inv, Honest, NEW p \in Peers, NEW timer, FireTimer(p, timer)
    PROVE  Honest' /\ StaysEnded
<1> DEFINE s == [ses[p] EXCEPT !.timers = @ \ {timer}]
           e == IF timer = "TIMEOUT" THEN "TIME" ELSE "ACK_TIME"
<1>1. ses[p] \in SessionRecord /\ Told(p, ses[p], accepted)
      /\ timer \in ses[p].timers
  BY DEF Inv, TypeOK, Honest, FireTimer
<1>2. ses[p].state # "DEINIT"
  BY <1>1 DEF Told
<1>3. /\ s \in SessionRecord /\ s.state = ses[p].state
      /\ s.remote = ses[p].remote /\ s.signalled = ses[p].signalled
      /\ s.negotiated = ses[p].negotiated
  BY <1>1 DEF SessionRecord
<1>4. Update(p, SetError(s, e)) /\ UNCHANGED <<net, pending, accepted>>
  BY DEF FireTimer
<1> HIDE DEF s, e
<1>5. Told(p, s, accepted)
  BY <1>1, <1>2, <1>3, ToldFrame
<1>6. Told(p, SetError(s, e), accepted) /\ Ends(p, s, SetError(s, e))
  BY <1>2, <1>3, <1>5, ErrorTold
<1>7. Ends(p, ses[p], SetError(s, e))
  BY <1>3, <1>6 DEF Ends
<1> QED
  BY <1>4, <1>6, <1>7, HonestUpdate

\* The end of a SessionSendTask.
LEMMA EndSendTaskHonest ==
    ASSUME Inv, Honest, NEW p \in Peers, NEW r \in pending[p], NEW kind, NEW arg,
           NEW inNet, inNet \subseteq net, EndSendTask(p, r, kind, arg, inNet),
           accepted' = accepted
    PROVE  Honest' /\ StaysEnded
<1> DEFINE s == ses[p]
           o == IF ~FindSession(p, r.to) THEN Outcome(s, {})
                ELSE IF kind = "result" THEN OnIncomingResponse(s, r)
                ELSE OnFailedSend(s, r, arg)
<1>1. /\ s \in SessionRecord /\ Told(p, s, accepted) /\ r \in Stanza
      /\ r.type = "initiate" => p = Initiator
      /\ pending[p] \ {r} \subseteq pending[p] /\ accepted \subseteq accepted
  BY DEF Inv, TypeOK, Honest
<1>2. Update(p, o.session) /\ Send(p, o.out, inNet, pending[p] \ {r})
  BY DEF EndSendTask
<1>3. ToldOutcome(p, s, Outcome(s, {}), accepted)
  BY <1>1 DEF ToldOutcome, Outcome, Owned, Ends
<1>4. ASSUME FindSession(p, r.to) PROVE s.state # "DEINIT"
  BY <1>4 DEF FindSession
<1> HIDE DEF s
<1>5. ToldOutcome(p, s, o, accepted)
  <2>1. CASE ~FindSession(p, r.to)
    BY <1>3, <2>1
  <2>2. CASE FindSession(p, r.to)
    BY <1>1, <1>4, <2>2, ResponseTold
  <2> QED
    BY <2>1, <2>2
<1> HIDE DEF o
<1> QED
  BY <1>1, <1>2, <1>5, HonestSend DEF ToldOutcome, s

\* A stanza that reaches a peer.
LEMMA ReceiveHonest ==
    ASSUME Inv, Honest, NEW m \in net, NEW inNet, inNet \subseteq net,
           Receive(m, inNet)
    PROVE  Honest' /\ StaysEnded
<1> DEFINE p == m.to
<1>1. /\ m \in Stanza /\ p \in Peers /\ ses[p] \in SessionRecord
      /\ Told(p, ses[p], accepted) /\ Genuine(m, accepted)
      /\ pending[p] \subseteq pending[p]
      /\ accepted \subseteq accepted /\ accepted' = accepted
  BY DEF Inv, TypeOK, Honest, Receive, CanDeliver
<1>2. CASE m.kind = "set" /\ OnIncomingMessage(p, m, inNet)
  <2>1. CASE ~FindSession(p, m.from) /\ m.type # "initiate"
    <3>1. Send(p, ErrorMessage(m), inNet, pending[p]) /\ ses' = ses
      BY <1>2, <2>1 DEF OnIncomingMessage
    <3>2. Update(p, ses[p]) /\ Ends(p, ses[p], ses[p])
      BY <3>1 DEF Update, Inv, TypeOK, Ends
    <3>3. Owned(p, ErrorMessage(m), accepted)
      BY <1>1, OwnedOut
    <3> HIDE DEF p
    <3> QED
      BY <1>1, <3>1, <3>2, <3>3, HonestSend
  <2>2. CASE ~(~FindSession(p, m.from) /\ m.type # "initiate")
    <3> DEFINE s0 == IF FindSession(p, m.from) THEN ses[p] ELSE NewSession("HYBRID")
               s == LearnProtocol(s0, m)
               o(v) == HandleMessage(s, m, v)
    <3>1. PICK v \in {"ring", "busy", "none"} :
             Update(p, o(v).session) /\ Send(p, o(v).out, inNet, pending[p])
      BY <1>2, <2>2 DEF OnIncomingMessage
    <3>2. s0 \in SessionRecord
      BY <1>1, NewSessionType
    <3> HIDE DEF s0
    <3>3. /\ s \in SessionRecord /\ s.state = s0.state /\ s.remote = s0.remote
          /\ s.signalled = s0.signalled /\ s.negotiated = s0.negotiated
          /\ s.queue = s0.queue /\ s.timers = s0.timers
      BY <3>2 DEF LearnProtocol, SessionRecord
    <3> HIDE DEF s
    <3>4. CASE FindSession(p, m.from)
      <4>1. s0 = ses[p] /\ s0.state # "DEINIT" /\ s0.remote = m.from
        BY <3>4 DEF s0, FindSession
      <4>2. Told(p, s, accepted)
        BY <1>1, <3>3, <4>1, ToldFrame
      <4>3. ToldOutcome(p, s, o(v), accepted)
        BY <1>1, <1>2, <3>3, <4>1, <4>2, MessageTold
      <4> HIDE DEF o
      <4>4. Ends(p, ses[p], o(v).session)
        BY <3>3, <4>1, <4>3 DEF ToldOutcome, Ends
      <4> QED
        BY <1>1, <3>1, <4>3, <4>4, HonestSend DEF ToldOutcome
    <3>5. CASE ~FindSession(p, m.from)
      <4>1. m.type = "initiate" /\ s0 = NewSession("HYBRID")
        BY <2>2, <3>5 DEF s0
      <4>2. s0.state = "INIT" /\ s0.signalled = <<>>
        BY <4>1 DEF NewSession
      <4>3. ToldOutcome(p, s, o(v), accepted)
        BY <1>1, <1>2, <3>3, <4>1, <4>2, MessageTold
      <4>4. m.from = Initiator /\ p # Initiator
        BY <1>1, <1>2, <4>1, PeersAssumption DEF Genuine
      <4>5. ses[p].state = "DEINIT"
        BY <1>1, <3>5, <4>4 DEF Told, FindSession
      <4> HIDE DEF o
      <4>6. Ends(p, ses[p], o(v).session)
        BY <4>5 DEF Ends, Terminal
      <4> QED
        BY <1>1, <3>1, <4>3, <4>6, HonestSend DEF ToldOutcome
    <3> QED
      BY <3>4, <3>5
  <2> QED
    BY <2>1, <2>2
<1>3. CASE OnResponse(p, m, inNet)
  <2>1. CASE \E r \in pending[p] : EndSendTask(p, r, m.kind, m.arg, inNet)
    <3>1. PICK r \in pending[p] : EndSendTask(p, r, m.kind, m.arg, inNet)
      BY <2>1
    <3> QED
      BY <1>1, <3>1, EndSendTaskHonest
  <2>2. CASE net' = inNet /\ UNCHANGED <<ses, pending, sent, offered>>
    BY <1>1, <2>2, HonestNetwork
  <2> QED
    BY <1>3, <2>1, <2>2 DEF OnResponse
<1> QED
  BY <1>2, <1>3 DEF Receive

\* What the server does.
LEMMA ServerHonest ==
    ASSUME Inv, Honest, Server
    PROVE  Honest' /\ StaysEnded
<1>1. PICK m \in net :
        \/ DeliverRepeatedly(m)
        \/ Lose(m)
        \/ \E t \in {"cancel", "wait"} : Bounce(m, "bounce", t)
        \/ \E j \in (Responders \cup {Foreign}) \ {m.to} : Bounce(m, "redirect", j)
  BY DEF Server
<1>2. CASE DeliverRepeatedly(m)
  BY <1>2, ReceiveHonest DEF DeliverRepeatedly
<1>3. CASE Lose(m)
  BY <1>3, HonestNetwork DEF Lose
<1>4. ASSUME NEW fault, NEW arg, Bounce(m, fault, arg)
      PROVE  Honest' /\ StaysEnded
  <2> DEFINE b == [m EXCEPT !.kind = "error", !.from = m.to, !.to = m.from,
                            !.n = 0, !.cands = {}, !.arg = arg]
  <2>1. b.kind = "error"
    BY DEF Inv, TypeOK, Stanza
  <2>2. net' = (net \ {m}) \cup {b} /\ UNCHANGED <<ses, pending, accepted>>
    BY <1>4 DEF Bounce
  <2> HIDE DEF b
  <2> QED
    BY <2>1, <2>2, HonestNetwork
<1> QED
  BY <1>1, <1>2, <1>3, <1>4

\* Every step of the system.
LEMMA NextHonest ==
    ASSUME Inv, Honest, [Next]_vars
    PROVE  Honest' /\ StaysEnded
<1>1. CASE \E p \in Peers : Client(p)
  BY <1>1, ClientHonest
<1>2. CASE \E p \in Peers : Transport(p)
  BY <1>2, TransportHonest
<1>3. CASE \E p \in Peers : OnMessage(p)
  BY <1>3, OnMessageHonest
<1>4. CASE \E p \in Peers : \E timer \in {"TIMEOUT", "INIT_ACK"} : FireTimer(p, timer)
  BY <1>4, FireTimerHonest
<1>5. CASE \E p \in Peers : \E r \in pending[p] : SendTimeout(p, r)
  <2>1. PICK p \in Peers : \E r \in pending[p] : SendTimeout(p, r)
    BY <1>5
  <2>2. PICK r \in pending[p] : SendTimeout(p, r)
    BY <2>1
  <2>3. EndSendTask(p, r, "error", "cancel", net) /\ accepted' = accepted
    BY <2>2 DEF SendTimeout
  <2>4. net \subseteq net
    OBVIOUS
  <2> QED
    BY <2>3, <2>4, EndSendTaskHonest
<1>6. CASE \E m \in net : Deliver(m)
  <2>1. PICK m \in net : Deliver(m)
    BY <1>6
  <2>2. net \ {m} \subseteq net
    OBVIOUS
  <2> QED
    BY <2>1, <2>2, ReceiveHonest DEF Deliver
<1>7. CASE Server
  BY <1>7, ServerHonest
<1>8. CASE UNCHANGED vars
  BY <1>8, HonestNetwork DEF vars
<1> QED
  BY <1>1, <1>2, <1>3, <1>4, <1>5, <1>6, <1>7, <1>8 DEF Next

\* It holds initially.
LEMMA InitHonest == Init => Honest
<1> SUFFICES ASSUME Init PROVE Honest
  OBVIOUS
<1>1. PICK pr \in Protocols :
        ses = [p \in Peers |-> IF p = Initiator THEN NewSession(pr) ELSE NoSession]
  BY DEF Init
<1>2. NewSession(pr).state = "INIT"
  BY DEF NewSession
<1>3. /\ NoSession.state = "DEINIT" /\ NoSession.queue = <<>>
      /\ NoSession.timers = {} /\ NoSession.signalled = <<>>
  BY DEF NoSession, NewSession
<1>4. Told(Initiator, NewSession(pr), accepted)
  BY <1>2 DEF Told
<1>5. \A p \in Peers : p # Initiator => Told(p, NoSession, accepted)
  BY <1>3 DEF Told
<1>6. \A p \in Peers : Told(p, ses[p], accepted)
  BY <1>1, <1>4, <1>5
<1> QED
  BY <1>6 DEF Honest, Init

-----------------------------------------------------------------------------
(* Where the candidates are.                                               *)

\* What a stanza carries when it is not a redirect: a reason, or an error type.
Plain == {"none", "busy"} \cup ErrorType

\* Every candidate of a session of p was put on the wire to the peer it talks to,
\* or is kept; and there are none before it talks to one.
Kept(p, s, off) ==
    /\ \A c \in s.gathered :
          \/ <<p, s.remote, c[1], c[2]>> \in off
          \/ c \in s.unsent /\ ~s.acked
    /\ s.state \in {"INIT", "DEINIT"} => s.gathered = {}
    /\ s.state = "INIT" => s.remote = NoJid /\ s.connecting = {}

Stored ==
    /\ \A p \in Peers : Kept(p, ses[p], offered)
    /\ \A m \in net : m.arg \in Plain

\* The fields that Kept looks at are the same.
SameCandidates(s, t) ==
    /\ t.gathered = s.gathered /\ t.unsent = s.unsent /\ t.acked = s.acked
    /\ t.remote = s.remote

\* What p writes carries no redirect.
PlainOut(out) == \A w \in out : w.arg \in Plain

\* The candidates that p writes are in off.
Carried(p, out, off) ==
    \A w \in out : \A c \in w.cands : <<p, w.to, c[1], c[2]>> \in off

\* What a handler leaves of a session, once its stanzas are on the wire.
KeptOutcome(p, o, off) ==
    /\ PlainOut(o.out)
    /\ \A new : off \subseteq new /\ Carried(p, o.out, new) => Kept(p, o.session, new)

\* A change of other fields.
LEMMA KeptFrame ==
    ASSUME NEW p, NEW s, NEW t, NEW off, NEW new, Kept(p, s, off),
           off \subseteq new, SameCandidates(s, t),
           \/ t.state \notin {"INIT", "DEINIT"}
           \/ t.state = s.state /\ t.connecting = s.connecting
    PROVE  Kept(p, t, new)
BY DEF Kept, SameCandidates

\* SetState, SetError and ConnectProxies are such changes.
LEMMA SameCandidatesFacts ==
    ASSUME NEW s \in SessionRecord, NEW st, NEW e, NEW cs
    PROVE  /\ SameCandidates(s, SetState(s, st)) /\ SetState(s, st).state = st
           /\ SameCandidates(s, SetError(s, e)) /\ SetError(s, e).state = s.state
           /\ SetError(s, e).connecting = s.connecting
           /\ SameCandidates(s, ConnectProxies(s, cs))
           /\ ConnectProxies(s, cs).state = s.state
BY DEF SameCandidates, SetState, SetError, ConnectProxies, SessionRecord

\* Learning the protocol changes nothing else.
LEMMA LearnedFields ==
    ASSUME NEW s \in SessionRecord, NEW m
    PROVE  /\ LearnProtocol(s, m) \in SessionRecord
           /\ SameCandidates(s, LearnProtocol(s, m))
           /\ LearnProtocol(s, m).state = s.state
           /\ LearnProtocol(s, m).connecting = s.connecting
           /\ LearnProtocol(s, m).signalled = s.signalled
           /\ LearnProtocol(s, m).negotiated = s.negotiated
<1> DEFINE q == IF m.gingle THEN "GINGLE" ELSE "JINGLE"
           t == [s EXCEPT !.protocol = q]
<1>1. LearnProtocol(s, m) \in {s, t}
  BY DEF LearnProtocol
<1>2. q \in {"HYBRID", "JINGLE", "GINGLE"}
  OBVIOUS
<1> HIDE DEF q
<1>3. t \in SessionRecord
  BY <1>2 DEF SessionRecord
<1>4. /\ t.state = s.state /\ t.connecting = s.connecting
      /\ t.signalled = s.signalled /\ t.negotiated = s.negotiated
  BY DEF SessionRecord
<1>5. SameCandidates(s, t)
  BY DEF SessionRecord, SameCandidates
<1>6. SameCandidates(s, s)
  BY DEF SameCandidates
<1> HIDE DEF t
<1> QED
  BY <1>1, <1>3, <1>4, <1>5, <1>6

\* Nor does storing the description.
LEMMA DescribedFields ==
    ASSUME NEW s \in SessionRecord
    PROVE  /\ [s EXCEPT !.descr = TRUE] \in SessionRecord
           /\ SameCandidates(s, [s EXCEPT !.descr = TRUE])
           /\ [s EXCEPT !.descr = TRUE].signalled = s.signalled
<1> DEFINE t == [s EXCEPT !.descr = TRUE]
<1>1. t \in SessionRecord
  BY DEF SessionRecord
<1>2. SameCandidates(s, t) /\ t.signalled = s.signalled
  BY DEF SessionRecord, SameCandidates
<1> QED
  BY <1>1, <1>2

LEMMA SameTrans ==
    ASSUME NEW r, NEW s, NEW t, SameCandidates(r, s), SameCandidates(s, t)
    PROVE  SameCandidates(r, t)
BY DEF SameCandidates

\* Requests, replies and transport-infos carry no redirect.
LEMMA PlainFacts ==
    ASSUME NEW s \in SessionRecord, NEW m, NEW ty, NEW cs, NEW arg \in Plain
    PROVE  /\ PlainOut({}) /\ PlainOut({Request(s, ty, cs, arg)})
           /\ PlainOut(Acknowledgement(m)) /\ PlainOut(ErrorMessage(m))
           /\ PlainOut(TransportInfos(s, cs)) /\ PlainOut(UnsentTransportInfos(s))
<1>1. "none" \in Plain /\ "modify" \in Plain
  BY DEF Plain, ErrorType
<1>2. PlainOut({}) /\ PlainOut({Request(s, ty, cs, arg)})
  BY DEF PlainOut, Request
<1>3. PlainOut(Acknowledgement(m)) /\ PlainOut(ErrorMessage(m))
  BY <1>1 DEF PlainOut, Acknowledgement, ErrorMessage, Reply
<1>4. ASSUME NEW c PROVE PlainOut(TransportInfos(s, c))
  <2> DEFINE of(i) == {x \in c : x[1] = Contents[i]}
             w(i) == [Request(s, "transport-info", of(i), "none") EXCEPT !.k = i + 1]
  <2>1. TransportInfos(s, c) = {w(i) : i \in {j \in DOMAIN Contents : of(j) # {}}}
    BY DEF TransportInfos
  <2>2. ASSUME NEW i PROVE w(i).arg = "none"
    BY DEF Request
  <2> HIDE DEF w, of
  <2> QED
    BY <1>1, <2>1, <2>2 DEF PlainOut
<1>5. PlainOut(UnsentTransportInfos(s))
  BY <1>2, <1>4 DEF UnsentTransportInfos
<1> QED
  BY <1>2, <1>3, <1>4, <1>5

LEMMA PlainUnion ==
    ASSUME NEW X, NEW Y, PlainOut(X), PlainOut(Y)
    PROVE  PlainOut(X \cup Y)
BY DEF PlainOut

\* The transport-infos for candidates carry each of them to the peer.
LEMMA InfosCarry ==
    ASSUME NEW p, NEW s \in SessionRecord,
           NEW cs \in SUBSET (ContentNames \X Candidates),
           NEW off, Carried(p, TransportInfos(s, cs), off), NEW c \in cs
    PROVE  <<p, s.remote, c[1], c[2]>> \in off
<1> DEFINE of(i) == {x \in cs : x[1] = Contents[i]}
           w(i) == [Request(s, "transport-info", of(i), "none") EXCEPT !.k = i + 1]
<1>1. TransportInfos(s, cs) = {w(i) : i \in {j \in DOMAIN Contents : of(j) # {}}}
  BY DEF TransportInfos
<1>2. PICK i \in DOMAIN Contents : c[1] = Contents[i]
  <2>1. c[1] \in ContentNames
    OBVIOUS
  <2> QED
    BY <2>1 DEF ContentNames
<1>3. c \in of(i)
  BY <1>2
<1>4. w(i).to = s.remote /\ w(i).cands = of(i)
  BY DEF Request
<1> HIDE DEF w, of
<1>5. w(i) \in TransportInfos(s, cs)
  BY <1>1, <1>2, <1>3
<1> QED
  BY <1>3, <1>4, <1>5 DEF Carried

\* The fields of a session after the acknowledgement of its initiate.
LEMMA AckedFields ==
    ASSUME NEW s \in SessionRecord
    PROVE  /\ OnInitiateAcked(s) \in SessionRecord
           /\ OnInitiateAcked(s).state = "RECEIVEDINITIATE_ACK"
           /\ OnInitiateAcked(s).remote = s.remote
           /\ OnInitiateAcked(s).gathered = s.gathered
           /\ OnInitiateAcked(s).signalled = s.signalled
<1> DEFINE s0 == [s EXCEPT !.timers = @ \ {"INIT_ACK"}]
           s1 == SetState(s0, "RECEIVEDINITIATE_ACK")
           u  == IF s.acked THEN s1.unsent ELSE {}
           t  == [s1 EXCEPT !.acked = TRUE, !.unsent = u]
<1>1. s0 \in SessionRecord
  BY DEF SessionRecord
<1>2. /\ s0.remote = s.remote /\ s0.gathered = s.gathered
      /\ s0.signalled = s.signalled
  BY DEF SessionRecord
<1> HIDE DEF s0
<1>3. s1 \in SessionRecord
  BY <1>1, SetStateType DEF State
<1>4. /\ s1.state = "RECEIVEDINITIATE_ACK" /\ s1.remote = s.remote
      /\ s1.signalled = s.signalled
  BY <1>1, <1>2, SetStateFields, NothingSignalled DEF State
<1>5. s1.gathered = s.gathered
  BY <1>1, <1>2 DEF SetState, SessionRecord
<1>6. OnInitiateAcked(s) = t
  BY DEF OnInitiateAcked, s1, s0
<1> HIDE DEF s1
<1>7. u \in SUBSET (ContentNames \X Candidates)
  BY <1>3 DEF SessionRecord
<1> HIDE DEF u
<1>8. t \in SessionRecord
  BY <1>3, <1>7 DEF SessionRecord
<1>9. /\ t.state = s1.state /\ t.remote = s1.remote
      /\ t.gathered = s1.gathered /\ t.signalled = s1.signalled
  BY <1>3 DEF SessionRecord
<1> HIDE DEF t
<1> QED
  BY <1>4, <1>5, <1>6, <1>8, <1>9

\* It sends what was kept for it.
LEMMA AckedKept ==
    ASSUME NEW p, NEW s \in SessionRecord, NEW off, Kept(p, s, off),
           NEW new, off \subseteq new, Carried(p, UnsentTransportInfos(s), new)
    PROVE  /\ Kept(p, OnInitiateAcked(s), new)
           /\ OnInitiateAcked(s) \in SessionRecord
           /\ OnInitiateAcked(s).remote = s.remote
           /\ OnInitiateAcked(s).state = "RECEIVEDINITIATE_ACK"
<1> DEFINE t == OnInitiateAcked(s)
<1>1. /\ t \in SessionRecord /\ t.state = "RECEIVEDINITIATE_ACK"
      /\ t.gathered = s.gathered /\ t.remote = s.remote
  BY AckedFields
<1> HIDE DEF t
<1>2. ASSUME NEW c \in s.gathered PROVE <<p, s.remote, c[1], c[2]>> \in new
  <2>1. CASE c \in s.unsent /\ ~s.acked
    <3>1. Carried(p, TransportInfos(s, s.unsent), new)
      BY <2>1 DEF UnsentTransportInfos
    <3>2. s.unsent \in SUBSET (ContentNames \X Candidates)
      BY DEF SessionRecord
    <3> QED
      BY <2>1, <3>1, <3>2, InfosCarry
  <2>2. CASE ~(c \in s.unsent /\ ~s.acked)
    BY <1>2, <2>2 DEF Kept
  <2> QED
    BY <2>1, <2>2
<1>3. Kept(p, t, new)
  BY <1>1, <1>2 DEF Kept
<1> QED
  BY <1>1, <1>3 DEF t

\* What every handler of Session::OnIncomingMessage leaves.
LEMMA MessageKept ==
    ASSUME NEW p \in Peers, NEW s \in SessionRecord, NEW off, Kept(p, s, off),
           NEW m \in Stanza, m.type # "initiate", s.state \notin {"INIT", "DEINIT"}, NEW v
    PROVE  KeptOutcome(p, HandleMessage(s, m, v), off)
<1>0. ASSUME NEW t, SameCandidates(s, t), t.state \notin {"INIT", "DEINIT"},
             NEW out, PlainOut(out)
      PROVE  KeptOutcome(p, Outcome(t, out), off)
  <2>1. \A new : off \subseteq new => Kept(p, t, new)
    BY <1>0, KeptFrame
  <2> QED
    BY <1>0, <2>1 DEF KeptOutcome, Outcome
<1>1. /\ PlainOut(Acknowledgement(m)) /\ PlainOut(ErrorMessage(m))
      /\ SameCandidates(s, s)
  BY PlainFacts DEF Plain, SameCandidates
<1>2. CASE m.type = "accept"
  <2> DEFINE s0 == OnInitiateAcked(s)
             s1 == [s0 EXCEPT !.descr = TRUE]
             s2 == ConnectProxies(s1, ContentNames)
             s3 == SetState(s2, "RECEIVEDACCEPT")
             out == UnsentTransportInfos(s) \cup Acknowledgement(m)
  <2>1. HandleMessage(s, m, v) = IF ~CheckSentInitiate(s) THEN Outcome(s, ErrorMessage(m))
                                 ELSE Outcome(s3, out)
    BY <1>2 DEF HandleMessage, OnAcceptMessage, Refused
  <2>2. PlainOut(out)
    BY <1>1, PlainFacts, PlainUnion DEF Plain
  <2>3. ASSUME NEW new, off \subseteq new, Carried(p, out, new)
        PROVE  Kept(p, s3, new)
    <3>1. Carried(p, UnsentTransportInfos(s), new)
      BY <2>3 DEF Carried
    <3>2. s0 \in SessionRecord /\ Kept(p, s0, new)
      BY <2>3, <3>1, AckedKept
    <3> HIDE DEF s0
    <3>3. s1 \in SessionRecord /\ SameCandidates(s0, s1)
      BY <3>2, DescribedFields
    <3> HIDE DEF s1
    <3>4. s2 \in SessionRecord /\ SameCandidates(s1, s2)
      BY <3>3, SameCandidatesFacts, ConnectProxiesType
    <3> HIDE DEF s2
    <3>5. SameCandidates(s2, s3) /\ s3.state = "RECEIVEDACCEPT"
      BY <3>4, SameCandidatesFacts
    <3> HIDE DEF s3
    <3>6. SameCandidates(s0, s3)
      BY <3>3, <3>4, <3>5, SameTrans
    <3> QED
      BY <3>2, <3>5, <3>6, KeptFrame
  <2> HIDE DEF s3, out
  <2>4. KeptOutcome(p, Outcome(s3, out), off)
    BY <2>2, <2>3 DEF KeptOutcome, Outcome
  <2> QED
    BY <1>0, <1>1, <2>1, <2>4
<1>3. CASE m.type = "reject"
  BY <1>0, <1>1, <1>3 DEF HandleMessage, OnRejectMessage
<1>4. CASE m.type = "terminate"
  <2> DEFINE st == IF m.arg = "busy" THEN "RECEIVEDBUSY" ELSE "RECEIVEDTERMINATE"
  <2>1. HandleMessage(s, m, v) = Outcome(SetState(s, st), Acknowledgement(m))
    BY <1>4 DEF HandleMessage, OnTerminateMessage
  <2>2. SameCandidates(s, SetState(s, st)) /\ SetState(s, st).state = st
    BY SameCandidatesFacts
  <2>3. st \notin {"INIT", "DEINIT"}
    OBVIOUS
  <2> HIDE DEF st
  <2> QED
    BY <1>0, <1>1, <2>1, <2>2, <2>3
<1>5. CASE m.type = "transport-info"
  <2> DEFINE t == ConnectProxies(s, {c[1] : c \in m.cands})
  <2>1. HandleMessage(s, m, v) = Outcome(t, Acknowledgement(m))
    BY <1>5 DEF HandleMessage, OnTransportInfoMessage
  <2>2. SameCandidates(s, t) /\ t.state = s.state
    BY SameCandidatesFacts
  <2> HIDE DEF t
  <2> QED
    BY <1>0, <1>1, <2>1, <2>2
<1>6. CASE m.type = "description-info"
  BY <1>0, <1>1, <1>6 DEF HandleMessage, OnDescriptionInfoMessage, Refused
<1> QED
  BY <1>2, <1>3, <1>4, <1>5, <1>6 DEF Stanza, ActionType

\* An initiate, for a new session or one that refuses it.
LEMMA InitiateKept ==
    ASSUME NEW p \in Peers, NEW s \in SessionRecord, NEW off, NEW m \in Stanza,
           m.type = "initiate", NEW v \in {"ring", "busy", "none"},
           \/ s.state \notin {"INIT", "DEINIT"} /\ Kept(p, s, off)
           \/ s.state = "INIT" /\ s.gathered = {}
    PROVE  KeptOutcome(p, HandleMessage(s, m, v), off)
<1> DEFINE s0 == [s EXCEPT !.remote = m.from, !.descr = TRUE]
           s1 == SetState(s0, "RECEIVEDINITIATE")
           s2 == ConnectProxies(s1, ContentNames)
           s3 == RejectedAtOnce(s0, v)
           rej == {Request(s0, "reject", {}, v)} \cup Acknowledgement(m)
<1>1. HandleMessage(s, m, v) =
        IF s.state # "INIT" THEN Outcome(s, ErrorMessage(m))
        ELSE IF v = "ring" THEN Outcome(s2, Acknowledgement(m))
        ELSE Outcome(s3, rej)
  BY DEF HandleMessage, OnInitiateMessage, Refused
<1>2. PlainOut(Acknowledgement(m)) /\ PlainOut(ErrorMessage(m))
  BY PlainFacts DEF Plain
<1>3. CASE s.state # "INIT"
  <2>1. \A new : off \subseteq new => Kept(p, s, new)
    BY <1>3 DEF Kept
  <2>2. KeptOutcome(p, Outcome(s, ErrorMessage(m)), off)
    BY <1>2, <2>1 DEF KeptOutcome, Outcome
  <2> QED
    BY <1>1, <1>3, <2>2
<1>4. CASE s.state = "INIT"
  <2>0. s.gathered = {}
    BY <1>4 DEF Kept
  <2>1. s0 \in SessionRecord /\ s0.gathered = {}
    BY <2>0 DEF SessionRecord, Stanza
  <2> HIDE DEF s0
  <2>2. s1 \in SessionRecord /\ s1.gathered = {} /\ s1.state = "RECEIVEDINITIATE"
    BY <2>1, SetStateType, SameCandidatesFacts DEF State, SameCandidates
  <2> HIDE DEF s1
  <2>3. s2.gathered = {} /\ s2.state = "RECEIVEDINITIATE"
    BY <2>2, SameCandidatesFacts DEF SameCandidates
  <2>4. s3.gathered = {} /\ s3.state \notin {"INIT", "DEINIT"}
    BY <2>1, RejectedFields DEF RejectState
  <2>5. v # "ring" => PlainOut(rej)
    <3>1. v # "ring" => v \in Plain
      BY DEF Plain
    <3> QED
      BY <1>2, <2>1, <3>1, PlainFacts, PlainUnion
  <2> HIDE DEF s2, s3, rej
  <2>6. \A new : Kept(p, s2, new) /\ Kept(p, s3, new)
    BY <2>3, <2>4 DEF Kept
  <2>7. KeptOutcome(p, Outcome(s2, Acknowledgement(m)), off)
    BY <1>2, <2>6 DEF KeptOutcome, Outcome
  <2>8. v # "ring" => KeptOutcome(p, Outcome(s3, rej), off)
    BY <2>5, <2>6 DEF KeptOutcome, Outcome
  <2> QED
    BY <1>1, <1>4, <2>7, <2>8
<1> QED
  BY <1>3, <1>4

\* The end of a SessionSendTask, without a redirect.
LEMMA ResponseKept ==
    ASSUME NEW p \in Peers, NEW s \in SessionRecord, NEW off, Kept(p, s, off),
           NEW r, NEW arg \in Plain
    PROVE  /\ KeptOutcome(p, OnIncomingResponse(s, r), off)
           /\ KeptOutcome(p, OnFailedSend(s, r, arg), off)
           /\ KeptOutcome(p, Outcome(s, {}), off)
<1>1. PlainOut({}) /\ PlainOut(UnsentTransportInfos(s))
  BY PlainFacts
<1>2. KeptOutcome(p, Outcome(s, {}), off)
  BY <1>1 DEF KeptOutcome, Outcome, Kept
<1>3. KeptOutcome(p, Outcome(SetError(s, "RESPONSE"), {}), off)
  <2> DEFINE t == SetError(s, "RESPONSE")
  <2>1. SameCandidates(s, t) /\ t.state = s.state /\ t.connecting = s.connecting
    BY SameCandidatesFacts
  <2> HIDE DEF t
  <2>2. \A new : off \subseteq new => Kept(p, t, new)
    BY <2>1, KeptFrame
  <2>3. KeptOutcome(p, Outcome(t, {}), off)
    BY <1>1, <2>2 DEF KeptOutcome, Outcome
  <2> QED
    BY <2>3 DEF t
<1>4. arg \notin Responders \cup {Foreign}
  BY NamesAssumption DEF Plain
<1>5. KeptOutcome(p, OnFailedSend(s, r, arg), off)
  BY <1>2, <1>3, <1>4, Zenon DEF OnFailedSend
<1>6. KeptOutcome(p, Outcome(OnInitiateAcked(s), UnsentTransportInfos(s)), off)
  BY <1>1, AckedKept DEF KeptOutcome, Outcome
<1>7. KeptOutcome(p, OnIncomingResponse(s, r), off)
  BY <1>2, <1>6, Zenon DEF OnIncomingResponse
<1> QED
  BY <1>2, <1>5, <1>7

\* A step that puts a session at p and sends stanzas.
LEMMA StoredSend ==
    ASSUME Inv, Stored, NEW p \in Peers, NEW o, NEW inNet, NEW waiting,
           KeptOutcome(p, o, offered), Update(p, o.session), inNet \subseteq net,
           Send(p, o.out, inNet, waiting)
    PROVE  Stored'
<1> DEFINE stamped == {Stamp(p, w) : w \in o.out}
<1>1. /\ net' = inNet \cup stamped
      /\ offered' = offered \cup
            UNION {{<<p, m.to, c[1], c[2]>> : c \in m.cands} : m \in stamped}
  BY DEF Send
<1>2. \A w \in o.out : /\ Stamp(p, w).arg = w.arg /\ Stamp(p, w).to = w.to
                       /\ Stamp(p, w).cands = w.cands
  BY DEF Stamp
<1>3. \A m \in net' : m.arg \in Plain
  BY <1>1, <1>2 DEF Stored, KeptOutcome, PlainOut
<1>4. offered \subseteq offered'
  BY <1>1
<1>5. Carried(p, o.out, offered')
  <2> SUFFICES ASSUME NEW w \in o.out, NEW c \in w.cands
               PROVE  <<p, w.to, c[1], c[2]>> \in offered'
    BY DEF Carried
  <2>1. Stamp(p, w) \in stamped
    OBVIOUS
  <2>2. <<p, w.to, c[1], c[2]>>
           \in {<<p, Stamp(p, w).to, d[1], d[2]>> : d \in Stamp(p, w).cands}
    BY <1>2
  <2> HIDE DEF stamped
  <2> QED
    BY <1>1, <2>1, <2>2
<1>6. Kept(p, o.session, offered')
  BY <1>4, <1>5 DEF KeptOutcome
<1>7. /\ ses'[p] = o.session
      /\ \A q \in Peers : q # p => ses'[q] = ses[q]
  BY DEF Update, Inv, TypeOK
<1>8. \A q \in Peers : Kept(q, ses'[q], offered')
  <2> SUFFICES ASSUME NEW q \in Peers PROVE Kept(q, ses'[q], offered')
    OBVIOUS
  <2>1. CASE q = p
    BY <1>6, <1>7, <2>1
  <2>2. CASE q # p
    BY <1>4, <1>7, <2>2 DEF Stored, Kept
  <2> QED
    BY <2>1, <2>2
<1> QED
  BY <1>3, <1>8 DEF Stored

\* A step that puts a session at p and sends nothing.
LEMMA StoredUpdate ==
    ASSUME Inv, Stored, NEW p \in Peers, NEW t, Kept(p, t, offered), Update(p, t),
           UNCHANGED <<net, offered>>
    PROVE  Stored'
<1>1. /\ ses'[p] = t
      /\ \A q \in Peers : q # p => ses'[q] = ses[q]
  BY DEF Update, Inv, TypeOK
<1>2. \A q \in Peers : Kept(q, ses'[q], offered')
  BY <1>1 DEF Stored
<1> QED
  BY <1>2 DEF Stored

\* A step of the network alone.
LEMMA StoredNetwork ==
    ASSUME Stored, UNCHANGED <<ses, offered>>, \A m \in net' : m.arg \in Plain
    PROVE  Stored'
BY DEF Stored

\* The operations of the client.
LEMMA ClientStored ==
    ASSUME Inv, Stored, NEW p \in Peers, Client(p)
    PROVE  Stored'
<1>1. ses[p] \in SessionRecord /\ Kept(p, ses[p], offered) /\ net \subseteq net
  BY DEF Inv, TypeOK, Stored
<1>2. ASSUME NEW s \in SessionRecord, NEW ty, NEW arg \in Plain, NEW t,
             Update(p, t), SameCandidates(ses[p], t),
             t.state \notin {"INIT", "DEINIT"} \/ t = ses[p],
             Send(p, {Request(s, ty, {}, arg)}, net, pending[p])
      PROVE  Stored'
  <2> DEFINE o == Outcome(t, {Request(s, ty, {}, arg)})
  <2>1. \A new : offered \subseteq new => Kept(p, t, new)
    BY <1>1, <1>2, KeptFrame
  <2>2. KeptOutcome(p, o, offered)
    BY <1>2, <2>1, PlainFacts DEF KeptOutcome, Outcome
  <2>3. Update(p, o.session) /\ Send(p, o.out, net, pending[p])
    BY <1>2 DEF Outcome
  <2> HIDE DEF o
  <2> QED
    BY <1>1, <2>2, <2>3, StoredSend
<1>3. "none" \in Plain /\ "busy" \in Plain
  BY DEF Plain
<1>4. CASE \E to \in Responders : Initiate(p, to)
  <2>1. PICK to \in Responders : Initiate(p, to)
    BY <1>4
  <2> DEFINE s == [ses[p] EXCEPT !.remote = to, !.local = TRUE,
                                 !.connecting = ContentNames]
             s1 == SendInitiateMessage(s)
             t == SetState(s1, "SENTINITIATE")
             out == {Request(s, "initiate", {}, "none")}
  <2>2. /\ ses[p].state = "INIT" /\ Update(p, t) /\ Send(p, out, net, pending[p])
    BY <2>1 DEF Initiate
  <2>3. ses[p].gathered = {}
    BY <1>1, <2>2 DEF Kept
  <2>4. s \in SessionRecord /\ s.gathered = {}
    BY <1>1, <2>3 DEF SessionRecord, Peers
  <2>5. PlainOut(out)
    BY <1>3, <2>4, PlainFacts
  <2> HIDE DEF s
  <2>6. s1 \in SessionRecord /\ s1.gathered = {}
    BY <2>4 DEF SendInitiateMessage, SessionRecord
  <2> HIDE DEF s1
  <2>7. t.gathered = {} /\ t.state = "SENTINITIATE"
    BY <2>6, SameCandidatesFacts DEF SameCandidates
  <2> HIDE DEF t, out
  <2>8. KeptOutcome(p, Outcome(t, out), offered)
    BY <2>5, <2>7 DEF KeptOutcome, Outcome, Kept
  <2>9. Update(p, Outcome(t, out).session) /\ Send(p, Outcome(t, out).out, net, pending[p])
    BY <2>2 DEF Outcome
  <2> QED
    BY <1>1, <2>8, <2>9, StoredSend
<1>5. CASE Accept(p)
  <2> DEFINE s == [ses[p] EXCEPT !.local = TRUE]
             s1 == ConnectProxies(s, ContentNames)
             t == SetState(s1, "SENTACCEPT")
  <2>1. Update(p, t) /\ Send(p, {Request(s, "accept", {}, "none")}, net, pending[p])
    BY <1>5 DEF Accept
  <2>2. s \in SessionRecord /\ SameCandidates(ses[p], s)
    BY <1>1 DEF SessionRecord, SameCandidates
  <2> HIDE DEF s
  <2>3. s1 \in SessionRecord /\ SameCandidates(s, s1)
    BY <2>2, SameCandidatesFacts, ConnectProxiesType
  <2> HIDE DEF s1
  <2>4. SameCandidates(s1, t) /\ t.state = "SENTACCEPT"
    BY <2>3, SameCandidatesFacts
  <2> HIDE DEF t
  <2>5. SameCandidates(ses[p], t)
    BY <2>2, <2>3, <2>4, SameTrans
  <2> QED
    BY <1>2, <1>3, <2>1, <2>2, <2>4, <2>5
<1>6. CASE \E reason \in {"busy", "none"} : Reject(p, reason)
  <2>1. PICK reason \in {"busy", "none"} : Reject(p, reason)
    BY <1>6
  <2> DEFINE t == SetState(ses[p], RejectState(reason))
  <2>2. Update(p, t) /\ Send(p, {Request(ses[p], "reject", {}, reason)}, net, pending[p])
    BY <2>1 DEF Reject
  <2>3. SameCandidates(ses[p], t) /\ t.state \notin {"INIT", "DEINIT"}
    <3>1. RejectState(reason) \notin {"INIT", "DEINIT"}
      BY DEF RejectState
    <3>2. SameCandidates(ses[p], t) /\ t.state = RejectState(reason)
      BY <1>1, SameCandidatesFacts
    <3> QED
      BY <3>1, <3>2
  <2>4. reason \in Plain
    BY <1>3
  <2> HIDE DEF t
  <2> QED
    BY <1>1, <1>2, <2>2, <2>3, <2>4
<1>7. CASE Terminate(p)
  <2> DEFINE t == SetState(ses[p], "SENTTERMINATE")
  <2>1. Update(p, t) /\ Send(p, {Request(ses[p], "terminate", {}, "none")}, net, pending[p])
    BY <1>7 DEF Terminate, TerminateWithReason
  <2>2. SameCandidates(ses[p], t) /\ t.state = "SENTTERMINATE"
    BY <1>1, SameCandidatesFacts
  <2> HIDE DEF t
  <2> QED
    BY <1>1, <1>2, <1>3, <2>1, <2>2
<1>8. CASE SendDescriptionInfoMessage(p)
  <2>1. /\ Send(p, {Request(ses[p], "description-info", {}, "none")}, net, pending[p])
        /\ ses' = ses
    BY <1>8 DEF SendDescriptionInfoMessage
  <2>2. Update(p, ses[p]) /\ SameCandidates(ses[p], ses[p])
    BY <2>1 DEF Update, Inv, TypeOK, SameCandidates
  <2> QED
    BY <1>1, <1>2, <1>3, <2>1, <2>2
<1> QED
  BY <1>4, <1>5, <1>6, <1>7, <1>8 DEF Client

\* The signals of the transports: a candidate is kept or sent.
LEMMA TransportStored ==
    ASSUME Inv, Stored, NEW p \in Peers, Transport(p)
    PROVE  Stored'
<1>1. ses[p] \in SessionRecord /\ Kept(p, ses[p], offered) /\ net \subseteq net
  BY DEF Inv, TypeOK, Stored
<1>2. ASSUME NEW content \in ContentNames, NEW cand \in Candidates,
             OnTransportProxyCandidatesReady(p, content, cand)
      PROVE  Stored'
  <2> DEFINE c == <<content, cand>>
             here == {c}
             s == [ses[p] EXCEPT !.gathered = @ \cup here]
             t1 == [s EXCEPT !.unsent = @ \cup here]
             t2 == [s EXCEPT !.resend = IF content \in s.negotiated THEN @
                                        ELSE @ \cup here]
             out == TransportInfos(s, here)
  <2>1. /\ ses[p].state # "DEINIT" /\ content \in ses[p].connecting
        /\ \/ /\ ~ses[p].acked /\ Update(p, t1) /\ UNCHANGED <<net, offered>>
           \/ /\ Update(p, t2) /\ Send(p, out, net, pending[p])
    BY <1>1, <1>2 DEF OnTransportProxyCandidatesReady, SessionRecord
  <2>2. ses[p].state \notin {"INIT", "DEINIT"}
    BY <1>1, <2>1 DEF Kept
  <2>3. here \in SUBSET (ContentNames \X Candidates)
    BY <1>2
  <2> HIDE DEF c
  <2>4. s \in SessionRecord /\ s.remote = ses[p].remote
    BY <1>1, <2>3 DEF SessionRecord
  <2>5. /\ t1.gathered = ses[p].gathered \cup here /\ t1.state = ses[p].state
        /\ t1.unsent = ses[p].unsent \cup here /\ t1.acked = ses[p].acked
        /\ t1.remote = ses[p].remote
    BY <1>1 DEF SessionRecord
  <2>6. /\ t2.gathered = ses[p].gathered \cup here /\ t2.state = ses[p].state
        /\ t2.unsent = ses[p].unsent /\ t2.acked = ses[p].acked
        /\ t2.remote = ses[p].remote
    BY <1>1 DEF SessionRecord
  <2>7. ASSUME NEW new, Carried(p, out, new)
        PROVE  <<p, ses[p].remote, c[1], c[2]>> \in new
    <3>1. c \in here
      OBVIOUS
    <3> HIDE DEF here, s
    <3>2. <<p, s.remote, c[1], c[2]>> \in new
      BY <2>3, <2>4, <2>7, <3>1, InfosCarry
    <3> QED
      BY <2>4, <3>2
  <2>8. PlainOut(out)
    BY <2>4, PlainFacts DEF Plain
  <2> HIDE DEF s, t1, t2, out
  <2>9. CASE ~ses[p].acked /\ Update(p, t1) /\ UNCHANGED <<net, offered>>
    <3>1. Kept(p, t1, offered)
      BY <1>1, <2>2, <2>5, <2>9 DEF Kept
    <3> QED
      BY <2>9, <3>1, StoredUpdate
  <2>10. CASE Update(p, t2) /\ Send(p, out, net, pending[p])
    <3>1. \A new : offered \subseteq new /\ Carried(p, out, new) => Kept(p, t2, new)
      BY <1>1, <2>2, <2>6, <2>7 DEF Kept
    <3>2. KeptOutcome(p, Outcome(t2, out), offered)
      BY <2>8, <3>1 DEF KeptOutcome, Outcome
    <3>3. Update(p, Outcome(t2, out).session) /\ Send(p, Outcome(t2, out).out, net, pending[p])
      BY <2>10 DEF Outcome
    <3> QED
      BY <1>1, <3>2, <3>3, StoredSend
  <2> QED
    BY <2>1, <2>9, <2>10
<1>3. ASSUME NEW content \in ContentNames, NEW w \in BOOLEAN,
             OnTransportWritable(p, content, w)
      PROVE  Stored'
  <2> DEFINE t == [ses[p] EXCEPT
               !.watched = @ \cup {content},
               !.writable = IF w THEN @ \cup {content} ELSE @ \ {content},
               !.timers = IF w THEN @ \ {"TIMEOUT"} ELSE @ \cup {"TIMEOUT"}]
  <2>1. Update(p, t) /\ UNCHANGED <<net, offered>>
    BY <1>3 DEF OnTransportWritable
  <2>2. SameCandidates(ses[p], t) /\ t.state = ses[p].state
        /\ t.connecting = ses[p].connecting
    BY <1>1 DEF SessionRecord, SameCandidates
  <2> HIDE DEF t
  <2>3. offered \subseteq offered
    OBVIOUS
  <2>4. Kept(p, t, offered)
    BY <1>1, <2>2, <2>3, KeptFrame
  <2> QED
    BY <2>1, <2>4, StoredUpdate
<1> QED
  BY <1>2, <1>3 DEF Transport

\* What the session posts to itself, and its timers.
LEMMA PostedStored ==
    ASSUME Inv, Stored, NEW p \in Peers,
           OnMessage(p) \/ \E timer \in {"TIMEOUT", "INIT_ACK"} : FireTimer(p, timer)
    PROVE  Stored'
<1>1. /\ ses[p] \in SessionRecord /\ Kept(p, ses[p], offered)
      /\ net \subseteq net /\ offered \subseteq offered
  BY DEF Inv, TypeOK, Stored
<1>2. ASSUME NEW s \in SessionRecord, SameCandidates(ses[p], s), s.state = ses[p].state,
             s.connecting = ses[p].connecting, NEW st, st \notin {"INIT", "DEINIT"}, NEW e
      PROVE  /\ Kept(p, s, offered) /\ Kept(p, SetError(s, e), offered)
             /\ \A new : offered \subseteq new => Kept(p, SetState(s, st), new)
  <2>1. Kept(p, s, offered)
    BY <1>1, <1>2, KeptFrame
  <2>2. /\ SameCandidates(s, SetState(s, st)) /\ SetState(s, st).state = st
        /\ SameCandidates(s, SetError(s, e)) /\ SetError(s, e).state = s.state
        /\ SetError(s, e).connecting = s.connecting
    BY <1>2, SameCandidatesFacts
  <2>3. Kept(p, SetError(s, e), offered)
    BY <1>1, <2>1, <2>2, KeptFrame
  <2>4. \A new : offered \subseteq new => Kept(p, SetState(s, st), new)
    BY <1>2, <2>1, <2>2, KeptFrame
  <2> QED
    BY <2>1, <2>3, <2>4
<1>3. CASE OnMessage(p)
  <2> DEFINE s == [ses[p] EXCEPT !.queue = Tail(@)]
  <2>1. /\ s \in SessionRecord /\ SameCandidates(ses[p], s) /\ s.state = ses[p].state
        /\ s.connecting = ses[p].connecting
    <3>1. Tail(ses[p].queue) \in Seq(Message)
      BY <1>1, <1>3 DEF OnMessage, SessionRecord, Message
    <3> QED
      BY <1>1, <3>1 DEF SessionRecord, Message, SameCandidates
  <2>2. \/ /\ Update(p, IF s.state \in Terminal THEN NoSession
                        ELSE IF s.state \in {"SENTACCEPT", "RECEIVEDACCEPT"}
                        THEN SetState(s, "INPROGRESS") ELSE s)
           /\ UNCHANGED <<net, pending, sent, offered>>
        \/ TerminateWithReason(p, s)
        \/ Update(p, s) /\ UNCHANGED <<net, pending, sent, offered>>
    BY <1>3 DEF OnMessage
  <2> HIDE DEF s
  <2>3. Kept(p, s, offered) /\ Kept(p, SetState(s, "INPROGRESS"), offered)
    BY <1>1, <1>2, <2>1
  <2>4. Kept(p, NoSession, offered)
    BY DEF Kept, NoSession, NewSession
  <2>5. CASE TerminateWithReason(p, s)
    <3> DEFINE t == SetState(s, "SENTTERMINATE")
               out == {Request(s, "terminate", {}, "none")}
    <3>1. Update(p, t) /\ Send(p, out, net, pending[p])
      BY <2>5 DEF TerminateWithReason
    <3>2. \A new : offered \subseteq new => Kept(p, t, new)
      BY <1>2, <2>1
    <3>3. PlainOut(out)
      BY <2>1, PlainFacts DEF Plain
    <3> HIDE DEF t, out
    <3>4. KeptOutcome(p, Outcome(t, out), offered)
      BY <3>2, <3>3 DEF KeptOutcome, Outcome
    <3>5. Update(p, Outcome(t, out).session) /\ Send(p, Outcome(t, out).out, net, pending[p])
      BY <3>1 DEF Outcome
    <3> QED
      BY <1>1, <3>4, <3>5, StoredSend
  <2> QED
    BY <2>2, <2>3, <2>4, <2>5, StoredUpdate
<1>4. ASSUME NEW timer, FireTimer(p, timer) PROVE Stored'
  <2> DEFINE s == [ses[p] EXCEPT !.timers = @ \ {timer}]
             e == IF timer = "TIMEOUT" THEN "TIME" ELSE "ACK_TIME"
  <2>1. Update(p, SetError(s, e)) /\ UNCHANGED <<net, offered>>
    BY <1>4 DEF FireTimer
  <2>2. /\ s \in SessionRecord /\ SameCandidates(ses[p], s) /\ s.state = ses[p].state
        /\ s.connecting = ses[p].connecting
    BY <1>1 DEF SessionRecord, SameCandidates
  <2> HIDE DEF s, e
  <2>3. Kept(p, SetError(s, e), offered)
    BY <1>2, <2>2
  <2> QED
    BY <2>1, <2>3, StoredUpdate
<1> QED
  BY <1>3, <1>4

\* The end of a SessionSendTask.
LEMMA EndSendTaskStored ==
    ASSUME Inv, Stored, NEW p \in Peers, NEW r, NEW kind, NEW arg \in Plain,
           NEW inNet, inNet \subseteq net, EndSendTask(p, r, kind, arg, inNet)
    PROVE  Stored'
<1> DEFINE s == ses[p]
           o == IF ~FindSession(p, r.to) THEN Outcome(s, {})
                ELSE IF kind = "result" THEN OnIncomingResponse(s, r)
                ELSE OnFailedSend(s, r, arg)
<1>1. s \in SessionRecord /\ Kept(p, s, offered)
  BY DEF Inv, TypeOK, Stored
<1>2. Update(p, o.session) /\ Send(p, o.out, inNet, pending[p] \ {r})
  BY DEF EndSendTask
<1> HIDE DEF s
<1>3. KeptOutcome(p, o, offered)
  BY <1>1, ResponseKept
<1> HIDE DEF o
<1> QED
  BY <1>2, <1>3, StoredSend

\* A stanza that reaches a peer.
LEMMA ReceiveStored ==
    ASSUME Inv, Honest, Stored, NEW m \in net, NEW inNet, inNet \subseteq net,
           Receive(m, inNet)
    PROVE  Stored'
<1> DEFINE p == m.to
<1>1. /\ m \in Stanza /\ p \in Peers /\ ses[p] \in SessionRecord
      /\ Told(p, ses[p], accepted) /\ Genuine(m, accepted)
      /\ Kept(p, ses[p], offered) /\ m.arg \in Plain
  BY DEF Inv, TypeOK, Honest, Stored, Receive, CanDeliver
<1>2. CASE m.kind = "set" /\ OnIncomingMessage(p, m, inNet)
  <2>1. CASE ~FindSession(p, m.from) /\ m.type # "initiate"
    <3> DEFINE o == Outcome(ses[p], ErrorMessage(m))
    <3>1. Send(p, ErrorMessage(m), inNet, pending[p]) /\ ses' = ses
      BY <1>2, <2>1 DEF OnIncomingMessage
    <3>2. Update(p, o.session) /\ Send(p, o.out, inNet, pending[p])
      BY <3>1 DEF Update, Inv, TypeOK, Outcome
    <3>3. PlainOut(ErrorMessage(m))
      BY <1>1, PlainFacts DEF Plain
    <3>4. KeptOutcome(p, o, offered)
      BY <1>1, <3>3 DEF KeptOutcome, Outcome, Kept
    <3> HIDE DEF p, o
    <3> QED
      BY <1>1, <3>2, <3>4, StoredSend
  <2>2. CASE ~(~FindSession(p, m.from) /\ m.type # "initiate")
    <3> DEFINE s0 == IF FindSession(p, m.from) THEN ses[p] ELSE NewSession("HYBRID")
               s == LearnProtocol(s0, m)
               o(v) == HandleMessage(s, m, v)
    <3>1. PICK v \in {"ring", "busy", "none"} :
             Update(p, o(v).session) /\ Send(p, o(v).out, inNet, pending[p])
      BY <1>2, <2>2 DEF OnIncomingMessage
    <3>2. s0 \in SessionRecord
      BY <1>1, NewSessionType
    <3>3. FindSession(p, m.from) =>
             s0 = ses[p] /\ s0.state # "DEINIT" /\ s0.remote = m.from
      BY DEF FindSession
    <3>4. ~FindSession(p, m.from) =>
             s0.state = "INIT" /\ s0.gathered = {} /\ m.type = "initiate"
      BY <2>2 DEF NewSession
    <3> HIDE DEF s0
    <3>5. /\ s \in SessionRecord /\ SameCandidates(s0, s) /\ s.state = s0.state
          /\ s.connecting = s0.connecting
      BY <3>2, LearnedFields
    <3> HIDE DEF s
    <3>6. CASE FindSession(p, m.from)
      <4>1. s0.state # "INIT"
        <5>1. m.from \in Peers
          BY <1>1 DEF Stanza
        <5> QED
          BY <1>1, <3>3, <3>6, <5>1, PeersAssumption DEF Kept
      <4>2. Kept(p, s, offered) /\ s.state \notin {"INIT", "DEINIT"}
        BY <1>1, <3>3, <3>5, <3>6, <4>1, KeptFrame
      <4>3. KeptOutcome(p, o(v), offered)
        BY <1>1, <3>5, <4>2, MessageKept, InitiateKept
      <4> HIDE DEF o
      <4> QED
        BY <1>1, <3>1, <4>3, StoredSend
    <3>7. CASE ~FindSession(p, m.from)
      <4>1. s.state = "INIT" /\ s.gathered = {} /\ m.type = "initiate"
        BY <3>4, <3>5, <3>7 DEF SameCandidates
      <4>2. KeptOutcome(p, o(v), offered)
        BY <1>1, <3>5, <4>1, InitiateKept
      <4> HIDE DEF o
      <4> QED
        BY <1>1, <3>1, <4>2, StoredSend
    <3> QED
      BY <3>6, <3>7
  <2> QED
    BY <2>1, <2>2
<1>3. CASE OnResponse(p, m, inNet)
  <2>1. CASE \E r \in pending[p] : EndSendTask(p, r, m.kind, m.arg, inNet)
    BY <1>1, <2>1, EndSendTaskStored
  <2>2. CASE net' = inNet /\ UNCHANGED <<ses, pending, sent, offered>>
    <3>1. \A x \in net' : x.arg \in Plain
      BY <2>2 DEF Stored
    <3> QED
      BY <2>2, <3>1, StoredNetwork
  <2> QED
    BY <1>3, <2>1, <2>2 DEF OnResponse
<1> QED
  BY <1>2, <1>3 DEF Receive

\* What a server does that does not redirect.
LEMMA ServerStored ==
    ASSUME Inv, Honest, Stored, Server, "redirect" \notin Faults
    PROVE  Stored'
<1>1. PICK m \in net :
        \/ DeliverRepeatedly(m)
        \/ Lose(m)
        \/ \E t \in {"cancel", "wait"} : Bounce(m, "bounce", t)
        \/ \E j \in (Responders \cup {Foreign}) \ {m.to} : Bounce(m, "redirect", j)
  BY DEF Server
<1>2. CASE DeliverRepeatedly(m)
  BY <1>2, ReceiveStored DEF DeliverRepeatedly
<1>3. CASE Lose(m)
  <2>1. \A x \in net' : x.arg \in Plain
    BY <1>3 DEF Lose, Stored
  <2> QED
    BY <1>3, <2>1, StoredNetwork DEF Lose
<1>4. ASSUME NEW t \in {"cancel", "wait"}, Bounce(m, "bounce", t) PROVE Stored'
  <2> DEFINE b == [m EXCEPT !.kind = "error", !.from = m.to, !.to = m.from,
                            !.n = 0, !.cands = {}, !.arg = t]
  <2>1. b.arg \in Plain
    BY DEF Inv, TypeOK, Stanza, Plain, ErrorType
  <2>2. net' = (net \ {m}) \cup {b} /\ UNCHANGED <<ses, offered>>
    BY <1>4 DEF Bounce
  <2> HIDE DEF b
  <2>3. \A x \in net' : x.arg \in Plain
    BY <2>1, <2>2 DEF Stored
  <2> QED
    BY <2>2, <2>3, StoredNetwork
<1>5. ASSUME NEW j, Bounce(m, "redirect", j) PROVE FALSE
  BY <1>5 DEF Bounce, Commit
<1> QED
  BY <1>1, <1>2, <1>3, <1>4, <1>5

LEMMA NextStored ==
    ASSUME Inv, Honest, Stored, [Next]_vars, "redirect" \notin Faults
    PROVE  Stored'
<1>1. CASE \E p \in Peers : Client(p)
  BY <1>1, ClientStored
<1>2. CASE \E p \in Peers : Transport(p)
  BY <1>2, TransportStored
<1>3. CASE \E p \in Peers : OnMessage(p)
  BY <1>3, PostedStored
<1>4. CASE \E p \in Peers : \E timer \in {"TIMEOUT", "INIT_ACK"} : FireTimer(p, timer)
  BY <1>4, PostedStored
<1>5. CASE \E p \in Peers : \E r \in pending[p] : SendTimeout(p, r)
  <2>1. PICK p \in Peers : \E r \in pending[p] : SendTimeout(p, r)
    BY <1>5
  <2>2. PICK r \in pending[p] : SendTimeout(p, r)
    BY <2>1
  <2>3. EndSendTask(p, r, "error", "cancel", net) /\ net \subseteq net
    BY <2>2 DEF SendTimeout
  <2>4. "cancel" \in Plain
    BY DEF Plain, ErrorType
  <2> QED
    BY <2>3, <2>4, EndSendTaskStored
<1>6. CASE \E m \in net : Deliver(m)
  <2>1. PICK m \in net : Deliver(m)
    BY <1>6
  <2>2. net \ {m} \subseteq net
    OBVIOUS
  <2> QED
    BY <2>1, <2>2, ReceiveStored DEF Deliver
<1>7. CASE Server
  BY <1>7, ServerStored
<1>8. CASE UNCHANGED vars
  BY <1>8 DEF vars, Stored
<1> QED
  BY <1>1, <1>2, <1>3, <1>4, <1>5, <1>6, <1>7, <1>8 DEF Next

LEMMA InitStored == Init => Stored
<1> SUFFICES ASSUME Init PROVE Stored
  OBVIOUS
<1>1. PICK pr \in Protocols :
        ses = [p \in Peers |-> IF p = Initiator THEN NewSession(pr) ELSE NoSession]
  BY DEF Init
<1>2. \A p \in Peers : Kept(p, NewSession(pr), offered) /\ Kept(p, NoSession, offered)
  BY DEF Kept, NoSession, NewSession
<1> QED
  BY <1>1, <1>2 DEF Stored, Init

-----------------------------------------------------------------------------
(* One offer, one answer, at the initiator of a session whose server keeps *)
(* the order, loses nothing and does not redirect.                         *)

\* The initiates among requests.
Calls(w) == {r \in w : r.type = "initiate"}

\* What the media channels of the caller have heard.  While an initiate waits for
\* its response they have heard of the offer alone, and it went to the peer that
\* the session talks to.
Called(s, calls) ==
    /\ s.signalled \in {<<>>, <<"offer">>, <<"offer", "answer">>}
    /\ s.state # "DEINIT" =>
        /\ s.state = "INIT" => s.signalled = <<>> /\ calls = {}
        /\ s.state \in {"SENTINITIATE", "RECEIVEDINITIATE_ACK"} => s.signalled = <<"offer">>
        /\ s.state \in {"RECEIVEDACCEPT", "INPROGRESS"} =>
              /\ s.signalled = <<"offer", "answer">> /\ s.negotiated = ContentNames
              /\ calls = {}
        /\ calls # {} => s.signalled = <<"offer">>
        /\ \A r \in calls : r.to = s.remote

IsAccept(m) == m.kind = "set" /\ m.type = "accept"
AcceptsOf(p) == {m \in net : IsAccept(m) /\ m.from = p}

\* Initiate r is acknowledged before its peer accepts.
Answered(r) ==
    \/ ses[r.to].state = "DEINIT" /\ AcceptsOf(r.to) = {}
    \/ \E b \in net : /\ b.kind = "result" /\ b.id = r.id /\ b.from = r.to
                      /\ b.to = Initiator /\ \A a \in AcceptsOf(r.to) : b.n < a.n

InTurn ==
    /\ Called(ses[Initiator], Calls(pending[Initiator]))
    /\ \A m \in net : m.n <= sent[m.from]
    /\ \A r \in pending[Initiator] : r.id <= sent[Initiator]
    /\ \A r \in Calls(pending[Initiator]) :
          /\ r.to \in Responders /\ Answered(r)
          /\ \A q \in pending[Initiator] : q.id = r.id => q = r
          /\ \A m \in net : m.kind = "set" /\ m.type = "initiate" => m.id = r.id
    /\ ses[Initiator].state = "INIT" =>
          net = {} /\ \A q \in Responders : ses[q].state = "DEINIT"

\* What is neither an initiate nor an accept, numbered as a handler does.
Sundry(out) ==
    \A w \in out : /\ w.k \in 1 .. Len(Contents) + 2
                   /\ w.kind = "set" => w.type \notin {"initiate", "accept"}

LEMMA SundryFacts ==
    ASSUME NEW s \in SessionRecord, NEW m, NEW cs, NEW arg,
           NEW ty \in {"reject", "terminate", "transport-info", "description-info"}
    PROVE  /\ Sundry({}) /\ Sundry({Request(s, ty, cs, arg)})
           /\ Sundry(Acknowledgement(m)) /\ Sundry(ErrorMessage(m))
           /\ Sundry(TransportInfos(s, cs)) /\ Sundry(UnsentTransportInfos(s))
<1>0. Len(Contents) \in Nat /\ DOMAIN Contents = 1 .. Len(Contents)
  BY ContentsAssumption
<1>1. /\ Request(s, ty, cs, arg).kind = "set" /\ Request(s, ty, cs, arg).k = 1
      /\ Request(s, ty, cs, arg).type \in {ty, "terminate"}
  BY DEF Request, WireType
<1>2. Sundry({}) /\ Sundry({Request(s, ty, cs, arg)})
  BY <1>0, <1>1 DEF Sundry
<1>3. Sundry(Acknowledgement(m)) /\ Sundry(ErrorMessage(m))
  <2>1. /\ Reply("result", m, "none").kind = "result"
        /\ Reply("result", m, "none").k = Len(Contents) + 2
        /\ Reply("error", m, "modify").kind = "error"
        /\ Reply("error", m, "modify").k = Len(Contents) + 2
    BY DEF Reply
  <2>2. Len(Contents) + 2 \in 1 .. Len(Contents) + 2
    BY <1>0
  <2> QED
    BY <2>1, <2>2 DEF Sundry, Acknowledgement, ErrorMessage
<1>4. ASSUME NEW c PROVE Sundry(TransportInfos(s, c))
  <2> DEFINE of(i) == {x \in c : x[1] = Contents[i]}
             w(i) == [Request(s, "transport-info", of(i), "none") EXCEPT !.k = i + 1]
  <2>1. TransportInfos(s, c) = {w(i) : i \in {j \in DOMAIN Contents : of(j) # {}}}
    BY DEF TransportInfos
  <2>2. ASSUME NEW i PROVE w(i).k = i + 1 /\ w(i).type = "transport-info"
    BY DEF Request, WireType
  <2>3. \A i \in DOMAIN Contents : i + 1 \in 1 .. Len(Contents) + 2
    BY <1>0
  <2> HIDE DEF w, of
  <2> QED
    BY <2>1, <2>2, <2>3 DEF Sundry
<1>5. Sundry(UnsentTransportInfos(s))
  BY <1>2, <1>4 DEF UnsentTransportInfos
<1> QED
  BY <1>2, <1>3, <1>4, <1>5

LEMMA SundryUnion ==
    ASSUME NEW X, NEW Y, Sundry(X), Sundry(Y)
    PROVE  Sundry(X \cup Y)
BY DEF Sundry

\* How Stamp numbers what p writes.
LEMMA StampNumbers ==
    ASSUME Inv, NEW p \in Peers, NEW w, w.k \in 1 .. Len(Contents) + 2
    PROVE  /\ Stamp(p, w).kind = w.kind /\ Stamp(p, w).type = w.type
           /\ Stamp(p, w).from = p /\ Stamp(p, w).to = w.to
           /\ Stamp(p, w).n > sent[p] /\ Stamp(p, w).n <= sent[p] + Len(Contents) + 2
           /\ Stamp(p, w).id = IF w.kind = "set" THEN Stamp(p, w).n ELSE w.id
<1>1. sent[p] \in Nat /\ Len(Contents) \in Nat
  BY ContentsAssumption DEF Inv, TypeOK
<1>2. sent[p] + w.k > sent[p] /\ sent[p] + w.k <= sent[p] + Len(Contents) + 2
  BY <1>1
<1> QED
  BY <1>2 DEF Stamp

\* What Send does with the numbers.
LEMMA SendNumbers ==
    ASSUME Inv, InTurn, NEW p \in Peers, NEW out, NEW inNet, NEW waiting,
           \A w \in out : w.k \in 1 .. Len(Contents) + 2,
           inNet \subseteq net, waiting \subseteq pending[p],
           Send(p, out, inNet, waiting)
    PROVE  /\ \A m \in net' : m.n <= sent'[m.from]
           /\ \A r \in pending'[Initiator] : r.id <= sent'[Initiator]
           /\ \A q \in Peers : q # p => pending'[q] = pending[q]
           /\ \A m \in net' : m \in inNet \/ \E w \in out : m = Stamp(p, w)
           /\ \A w \in out : Stamp(p, w) \in net'
           /\ inNet \subseteq net'
           /\ \A r \in pending'[p] :
                 r \in waiting \/ \E w \in out : w.kind = "set" /\ r = Stamp(p, w)
           /\ waiting \subseteq pending'[p]
<1> DEFINE stamped == {Stamp(p, w) : w \in out}
           reqs == {m \in stamped : m.kind = "set"}
<1>1. /\ net' = inNet \cup stamped
      /\ sent' = IF out = {} THEN sent ELSE [sent EXCEPT ![p] = @ + Len(Contents) + 2]
      /\ pending' = [pending EXCEPT ![p] = waiting \cup reqs]
  BY DEF Send
<1>2. sent \in [Peers -> Nat] /\ pending \in [Peers -> SUBSET Stanza] /\ net \subseteq Stanza
      /\ Len(Contents) \in Nat /\ Initiator \in Peers
  BY ContentsAssumption DEF Inv, TypeOK, Peers
<1>3. /\ sent'[p] = IF out = {} THEN sent[p] ELSE sent[p] + Len(Contents) + 2
      /\ \A q \in Peers : q # p => sent'[q] = sent[q]
      /\ pending'[p] = waiting \cup reqs
      /\ \A q \in Peers : q # p => pending'[q] = pending[q]
  BY <1>1, <1>2
<1>4. \A w \in out :
        /\ Stamp(p, w).from = p /\ Stamp(p, w).kind = w.kind
        /\ Stamp(p, w).n <= sent[p] + Len(Contents) + 2
        /\ Stamp(p, w).id = IF w.kind = "set" THEN Stamp(p, w).n ELSE w.id
  BY StampNumbers
<1>5. \A q \in Peers : sent[q] <= sent'[q] /\ sent[q] \in Nat /\ sent'[q] \in Nat
  BY <1>2, <1>3
<1>6. ASSUME NEW m \in net' PROVE m.n <= sent'[m.from]
  <2>1. CASE m \in inNet
    <3>1. m.from \in Peers /\ m.n \in Nat /\ m.n <= sent[m.from]
      BY <1>2, <2>1 DEF Stanza, InTurn
    <3> QED
      BY <1>5, <3>1
  <2>2. CASE m \in stamped
    <3>1. PICK w \in out : m = Stamp(p, w)
      BY <2>2
    <3> QED
      BY <1>3, <1>4, <3>1
  <2> QED
    BY <1>1, <2>1, <2>2
<1>7. \A r \in pending'[p] :
         r \in waiting \/ \E w \in out : w.kind = "set" /\ r = Stamp(p, w)
  BY <1>3, <1>4
<1>8. ASSUME NEW r \in pending'[Initiator] PROVE r.id <= sent'[Initiator]
  <2>1. CASE r \in pending[Initiator]
    <3>1. r.id \in Nat /\ r.id <= sent[Initiator]
      BY <1>2, <2>1 DEF Stanza, InTurn
    <3> QED
      BY <1>2, <1>5, <3>1
  <2>2. CASE r \notin pending[Initiator]
    <3>1. p = Initiator
      BY <1>2, <1>3, <2>2
    <3>2. PICK w \in out : w.kind = "set" /\ r = Stamp(p, w)
      BY <1>7, <2>2, <3>1
    <3> QED
      BY <1>3, <1>4, <3>1, <3>2
  <2> QED
    BY <2>1, <2>2
<1>9. \A w \in out : Stamp(p, w) \in stamped
  OBVIOUS
<1> HIDE DEF stamped, reqs
<1> QED
  <2>1. \A m \in net' : m \in inNet \/ \E w \in out : m = Stamp(p, w)
    BY <1>1 DEF stamped
  <2> QED
    BY <1>1, <1>3, <1>6, <1>7, <1>8, <1>9, <2>1

\* A step of the caller, other than its Initiate.
LEMMA CallerStep ==
    ASSUME Inv, InTurn, NEW t, NEW out, NEW inNet, NEW waiting,
           Called(t, Calls(waiting)), Sundry(out), inNet \subseteq net,
           waiting \subseteq pending[Initiator],
           t.state = "INIT" => ses[Initiator].state = "INIT" /\ out = {},
           \A b \in net \ inNet : \A r \in Calls(waiting) :
               ~(b.kind = "result" /\ b.id = r.id /\ b.from = r.to),
           Update(Initiator, t), Send(Initiator, out, inNet, waiting)
    PROVE  InTurn'
<1> DEFINE p == Initiator
<1>1. /\ p \in Peers /\ net \subseteq Stanza /\ pending[p] \subseteq Stanza
      /\ sent[p] \in Nat
  BY DEF Peers, Inv, TypeOK
<1>2. \A w \in out : w.k \in 1 .. Len(Contents) + 2
  BY DEF Sundry
<1>3. /\ \A m \in net' : m.n <= sent'[m.from]
      /\ \A r \in pending'[p] : r.id <= sent'[p]
      /\ \A m \in net' : m \in inNet \/ \E w \in out : m = Stamp(p, w)
      /\ inNet \subseteq net'
      /\ \A r \in pending'[p] :
            r \in waiting \/ \E w \in out : w.kind = "set" /\ r = Stamp(p, w)
  BY <1>1, <1>2, SendNumbers
<1>4. \A w \in out :
        /\ Stamp(p, w).from = p /\ Stamp(p, w).kind = w.kind
        /\ Stamp(p, w).type = w.type /\ Stamp(p, w).n > sent[p]
        /\ Stamp(p, w).id = IF w.kind = "set" THEN Stamp(p, w).n ELSE w.id
        /\ w.kind = "set" => w.type \notin {"initiate", "accept"}
  BY <1>1, <1>2, StampNumbers DEF Sundry
<1>5. /\ ses'[p] = t
      /\ \A q \in Peers : q # p => ses'[q] = ses[q]
  BY <1>1 DEF Update, Inv, TypeOK
<1>6. Calls(pending'[p]) = Calls(waiting)
  <2>1. waiting \subseteq pending'[p]
    BY <1>1, <1>2, SendNumbers
  <2> QED
    BY <1>3, <1>4, <2>1 DEF Calls
<1>7. Calls(waiting) \subseteq Calls(pending[p])
  BY DEF Calls
<1>8. ASSUME NEW r \in Calls(waiting)
      PROVE  /\ r.to \in Responders /\ Answered(r)'
             /\ \A q \in pending'[p] : q.id = r.id => q = r
             /\ \A m \in net' : m.kind = "set" /\ m.type = "initiate" => m.id = r.id
  <2>1. /\ r.to \in Responders /\ Answered(r) /\ r \in pending[p]
        /\ \A q \in pending[p] : q.id = r.id => q = r
        /\ \A m \in net : m.kind = "set" /\ m.type = "initiate" => m.id = r.id
    BY <1>7 DEF InTurn, Calls
  <2>2. r.id \in Nat /\ r.id <= sent[p]
    BY <1>1, <2>1 DEF InTurn, Stanza
  <2>3. r.to \in Peers /\ r.to # p
    BY <2>1, PeersAssumption DEF Peers
  <2>4. ASSUME NEW q \in pending'[p], q.id = r.id PROVE q = r
    <3>1. CASE q \in waiting
      BY <2>1, <2>4, <3>1
    <3>2. CASE q \notin waiting
      <4>1. PICK w \in out : w.kind = "set" /\ q = Stamp(p, w)
        BY <1>3, <3>2
      <4>2. q.id > sent[p] /\ q.id = Stamp(p, w).n
        BY <1>4, <4>1
      <4> QED
        BY <1>1, <2>2, <2>4, <4>2
    <3> QED
      BY <3>1, <3>2
  <2>5. \A m \in net' : m.kind = "set" /\ m.type = "initiate" => m.id = r.id
    BY <1>3, <1>4, <2>1
  <2>6. \A m \in net' : IsAccept(m) => m \in net
    BY <1>3, <1>4 DEF IsAccept
  <2>7. ASSUME NEW b \in net, b.kind = "result", b.id = r.id, b.from = r.to
        PROVE  b \in net'
    BY <1>3, <2>7
  <2>8. Answered(r)'
    BY <1>5, <2>1, <2>3, <2>6, <2>7 DEF Answered, AcceptsOf
  <2> QED
    BY <2>1, <2>4, <2>5, <2>8
<1>9. t.state = "INIT" =>
        net' = {} /\ \A q \in Responders : ses'[q].state = "DEINIT"
  <2> SUFFICES ASSUME t.state = "INIT"
               PROVE  net' = {} /\ \A q \in Responders : ses'[q].state = "DEINIT"
    OBVIOUS
  <2>1. net = {} /\ out = {} /\ \A q \in Responders : ses[q].state = "DEINIT"
    BY DEF InTurn
  <2> QED
    BY <1>3, <1>5, <2>1, PeersAssumption DEF Peers
<1> QED
  BY <1>3, <1>5, <1>6, <1>8, <1>9 DEF InTurn

\* A step of a responder p that has the stanza given to it, if any, and leaves the
\* requests that wait at the caller alone.
LEMMA CalleeStep ==
    ASSUME Inv, Honest, InTurn, NEW p \in Responders, NEW t, NEW out, NEW inNet, NEW waiting,
           \A w \in out : /\ w.k \in 1 .. Len(Contents) + 2
                          /\ ~(w.kind = "set" /\ w.type = "initiate"),
           inNet \subseteq net, waiting \subseteq pending[p],
           \A b \in net \ inNet : b.to = p,
           ses[p].state = "DEINIT" =>
              /\ \A w \in out : ~IsAccept(w)
              /\ \/ t.state = "DEINIT" /\ (net = {} => out = {})
                 \/ \E m \in net : \E w \in out :
                       /\ m.kind = "set" /\ m.type = "initiate"
                       /\ w.kind = "result" /\ w.id = m.id /\ w.to = Initiator,
           Update(p, t), Send(p, out, inNet, waiting)
    PROVE  InTurn'
<1>1. /\ p \in Peers /\ Initiator \in Peers /\ p # Initiator
      /\ net \subseteq Stanza /\ pending[Initiator] \subseteq Stanza
      /\ pending[p] \subseteq Stanza /\ sent[p] \in Nat
  BY PeersAssumption DEF Peers, Inv, TypeOK
<1>3. /\ \A m \in net' : m.n <= sent'[m.from]
      /\ \A r \in pending'[Initiator] : r.id <= sent'[Initiator]
      /\ \A m \in net' : m \in inNet \/ \E w \in out : m = Stamp(p, w)
      /\ \A w \in out : Stamp(p, w) \in net'
      /\ inNet \subseteq net' /\ pending'[Initiator] = pending[Initiator]
  BY <1>1, SendNumbers
<1>4. \A w \in out :
        /\ Stamp(p, w).from = p /\ Stamp(p, w).kind = w.kind
        /\ Stamp(p, w).type = w.type /\ Stamp(p, w).to = w.to
        /\ Stamp(p, w).n > sent[p]
        /\ Stamp(p, w).id = IF w.kind = "set" THEN Stamp(p, w).n ELSE w.id
        /\ ~(w.kind = "set" /\ w.type = "initiate")
  BY <1>1, StampNumbers
<1>5. /\ ses'[p] = t
      /\ \A q \in Peers : q # p => ses'[q] = ses[q]
  BY <1>1 DEF Update, Inv, TypeOK
<1>6. ASSUME NEW r \in Calls(pending[Initiator])
      PROVE  /\ Answered(r)'
             /\ \A m \in net' : m.kind = "set" /\ m.type = "initiate" => m.id = r.id
  <2>1. /\ r.to \in Responders /\ Answered(r)
        /\ \A m \in net : m.kind = "set" /\ m.type = "initiate" => m.id = r.id
    BY DEF InTurn
  <2>2. \A m \in net' : m.kind = "set" /\ m.type = "initiate" => m.id = r.id
    BY <1>3, <1>4, <2>1
  <2>3. \A b \in net : b.to = Initiator => b \in net'
    BY <1>1, <1>3
  <2>4. CASE r.to # p
    <3>1. AcceptsOf(r.to)' \subseteq AcceptsOf(r.to)
      BY <1>3, <1>4, <2>4 DEF AcceptsOf, IsAccept
    <3>2. r.to \in Peers
      BY <2>1 DEF Peers
    <3>3. ses'[r.to] = ses[r.to]
      BY <1>5, <2>4, <3>2
    <3> QED
      BY <2>1, <2>2, <2>3, <3>1, <3>3 DEF Answered
  <2>5. CASE r.to = p /\ ses[p].state = "DEINIT" /\ AcceptsOf(p) = {}
    <3>1. AcceptsOf(p)' = {}
      BY <1>3, <1>4, <2>5 DEF AcceptsOf, IsAccept
    <3>2. CASE t.state = "DEINIT"
      BY <1>5, <2>2, <2>5, <3>1, <3>2 DEF Answered
    <3>3. CASE t.state # "DEINIT"
      <4>1. PICK m \in net, w \in out :
               /\ m.kind = "set" /\ m.type = "initiate"
               /\ w.kind = "result" /\ w.id = m.id /\ w.to = Initiator
        BY <2>5, <3>3
      <4>2. /\ Stamp(p, w) \in net' /\ Stamp(p, w).kind = "result"
            /\ Stamp(p, w).id = r.id /\ Stamp(p, w).from = r.to
            /\ Stamp(p, w).to = Initiator
        BY <1>3, <1>4, <2>1, <2>5, <4>1
      <4> QED
        BY <2>2, <2>5, <3>1, <4>2 DEF Answered
    <3> QED
      BY <3>2, <3>3
  <2>6. CASE r.to = p /\ ~(ses[p].state = "DEINIT" /\ AcceptsOf(p) = {})
    <3>1. PICK b \in net :
             /\ b.kind = "result" /\ b.id = r.id /\ b.from = p
             /\ b.to = Initiator /\ \A a \in AcceptsOf(p) : b.n < a.n
      BY <2>1, <2>6 DEF Answered
    <3>2. b \in net' /\ b.n \in Nat /\ b.n <= sent[p]
      BY <1>1, <2>3, <3>1 DEF InTurn, Stanza
    <3>3. ASSUME NEW a \in AcceptsOf(p)' PROVE b.n < a.n
      <4>1. CASE a \in net
        BY <3>1, <3>3, <4>1 DEF AcceptsOf
      <4>2. CASE a \notin net
        <5>1. PICK w \in out : a = Stamp(p, w)
          BY <1>3, <3>3, <4>2 DEF AcceptsOf
        <5>2. a.n > sent[p] /\ a.n = sent[p] + w.k /\ w.k \in Nat
          BY <1>4, <5>1 DEF Stamp
        <5> QED
          BY <1>1, <3>2, <5>2
      <4> QED
        BY <4>1, <4>2
    <3> QED
      BY <2>2, <2>6, <3>1, <3>2, <3>3 DEF Answered
  <2> QED
    BY <2>4, <2>5, <2>6
<1>7. ses[Initiator].state = "INIT" =>
        net' = {} /\ \A q \in Responders : ses'[q].state = "DEINIT"
  <2> SUFFICES ASSUME ses[Initiator].state = "INIT"
               PROVE  net' = {} /\ \A q \in Responders : ses'[q].state = "DEINIT"
    OBVIOUS
  <2>1. net = {} /\ \A q \in Responders : ses[q].state = "DEINIT"
    BY DEF InTurn
  <2>2. t.state = "DEINIT" /\ out = {}
    BY <2>1
  <2> QED
    BY <1>3, <1>5, <2>1, <2>2 DEF Peers
<1>8. ses'[Initiator] = ses[Initiator]
  BY <1>1, <1>5
<1>9. Called(ses'[Initiator], Calls(pending'[Initiator]))
  BY <1>3, <1>8 DEF InTurn
<1>10. ASSUME NEW r \in Calls(pending'[Initiator])
       PROVE  /\ r.to \in Responders /\ Answered(r)'
              /\ \A q \in pending'[Initiator] : q.id = r.id => q = r
              /\ \A m \in net' : m.kind = "set" /\ m.type = "initiate" => m.id = r.id
  BY <1>3, <1>6 DEF InTurn
<1> QED
  BY <1>3, <1>7, <1>8, <1>9, <1>10 DEF InTurn

\* A step that sends nothing.
LEMMA Silent ==
    ASSUME Inv, NEW p \in Peers, NEW inNet, net' = inNet,
           UNCHANGED <<pending, sent, offered>>
    PROVE  Send(p, {}, inNet, pending[p])
<1>1. pending = [pending EXCEPT ![p] = pending[p] \cup {}]
  BY DEF Inv, TypeOK
<1>2. {Stamp(p, w) : w \in {}} = {} /\ {m \in {} : m.kind = "set"} = {}
      /\ UNION {{<<p, m.to, c[1], c[2]>> : c \in m.cands} : m \in {}} = {}
  OBVIOUS
<1> QED
  BY <1>1, <1>2 DEF Send

\* What a handler of the caller leaves, with the initiates C waiting after it.
CalledOutcome(s, o, C) ==
    /\ Called(o.session, C) /\ Sundry(o.out)
    /\ o.session.state = "INIT" => s.state = "INIT" /\ o.out = {}

\* A change of other fields, with fewer initiates waiting.
LEMMA CalledFrame ==
    ASSUME NEW s, NEW t, NEW C, NEW D, D \subseteq C, Called(s, C),
           t.state = s.state, t.remote = s.remote, t.signalled = s.signalled,
           s.negotiated = ContentNames => t.negotiated = ContentNames
    PROVE  Called(t, D)
BY DEF Called

\* A session that ends.
LEMMA CalledEnd ==
    ASSUME NEW s \in SessionRecord, NEW C, Called(s, C), s.state # "DEINIT",
           NEW st \in Terminal
    PROVE  Called(SetState(s, st), C) /\ SetState(s, st).state = st /\ st # "INIT"
<1> DEFINE t == SetState(s, st)
<1>1. /\ t.state = st /\ t.remote = s.remote /\ t.signalled = s.signalled
  BY SetStateFields, NothingSignalled DEF State
<1>2. st \notin {"DEINIT", "RECEIVEDACCEPT", "INPROGRESS", "INIT", "SENTINITIATE",
                 "RECEIVEDINITIATE_ACK"}
  BY DEF Terminal
<1> HIDE DEF t
<1>3. Called(t, C)
  BY <1>1, <1>2 DEF Called
<1> QED
  BY <1>1, <1>2, <1>3 DEF t

\* An error that is raised.
LEMMA CalledError ==
    ASSUME NEW s \in SessionRecord, NEW C, NEW D, D \subseteq C, Called(s, C), NEW e
    PROVE  Called(SetError(s, e), D) /\ SetError(s, e).state = s.state
<1>1. /\ SetError(s, e).state = s.state /\ SetError(s, e).remote = s.remote
      /\ SetError(s, e).signalled = s.signalled
      /\ SetError(s, e).negotiated = s.negotiated
  BY DEF SetError, SessionRecord
<1> QED
  BY <1>1, CalledFrame

\* What the caller does with a stanza.  An accept finds no initiate waiting.
LEMMA CalledMessage ==
    ASSUME NEW s \in SessionRecord, NEW C, Called(s, C), s.state \notin {"INIT", "DEINIT"},
           NEW m \in Stanza, m.type # "initiate",
           m.type = "accept" /\ CheckSentInitiate(s) => C = {}, NEW v
    PROVE  CalledOutcome(s, HandleMessage(s, m, v), C)
<1>1. Sundry(Acknowledgement(m)) /\ Sundry(ErrorMessage(m)) /\ Sundry({})
  BY SundryFacts
<1>2. /\ CalledOutcome(s, Outcome(s, Acknowledgement(m)), C)
      /\ CalledOutcome(s, Outcome(s, ErrorMessage(m)), C)
  BY <1>1 DEF CalledOutcome, Outcome
<1>3. CASE m.type = "accept"
  <2> DEFINE s0 == OnInitiateAcked(s)
             s1 == [s0 EXCEPT !.descr = TRUE]
             s2 == ConnectProxies(s1, ContentNames)
             s3 == SetState(s2, "RECEIVEDACCEPT")
             out == UnsentTransportInfos(s) \cup Acknowledgement(m)
  <2>1. HandleMessage(s, m, v) = IF ~CheckSentInitiate(s) THEN Outcome(s, ErrorMessage(m))
                                 ELSE Outcome(s3, out)
    BY <1>3 DEF HandleMessage, OnAcceptMessage, Refused
  <2>2. Sundry(out)
    BY <1>1, SundryFacts, SundryUnion
  <2>3. ASSUME CheckSentInitiate(s) PROVE Called(s3, C) /\ s3.state = "RECEIVEDACCEPT"
    <3>1. C = {} /\ s.signalled = <<"offer">>
      BY <1>3, <2>3 DEF CheckSentInitiate, Called
    <3>2. s0 \in SessionRecord /\ s0.signalled = <<"offer">>
      BY <3>1, AckedFields
    <3> HIDE DEF s0
    <3>3. s1 \in SessionRecord /\ s1.signalled = <<"offer">>
      BY <3>2, DescribedFields
    <3> HIDE DEF s1
    <3>4. /\ s2 \in SessionRecord /\ s2.signalled = <<"offer">>
          /\ s2.negotiated = ContentNames
      <4>1. s2 \in SessionRecord
        BY <3>3, ConnectProxiesType
      <4>2. s2.signalled = <<"offer">>
        BY <3>3 DEF ConnectProxies, SessionRecord
      <4>3. s2.negotiated = s1.negotiated \cup ContentNames
        BY <3>3 DEF ConnectProxies, SessionRecord
      <4>4. s1.negotiated \subseteq ContentNames
        BY <3>3 DEF SessionRecord
      <4> HIDE DEF s2
      <4> QED
        BY <4>1, <4>2, <4>3, <4>4
    <3> HIDE DEF s2
    <3>5. GetContentAction("RECEIVEDACCEPT") = <<"answer">>
      BY DEF GetContentAction
    <3>6. /\ s3.state = "RECEIVEDACCEPT" /\ s3.negotiated = s2.negotiated
          /\ s3.signalled = s2.signalled \o GetContentAction("RECEIVEDACCEPT")
      BY <3>4, SetStateFields DEF State
    <3> HIDE DEF s3
    <3>7. s3.signalled = <<"offer", "answer">> /\ s3.negotiated = ContentNames
      BY <3>4, <3>5, <3>6, OfferThenAnswer
    <3> QED
      BY <3>1, <3>6, <3>7 DEF Called
  <2> HIDE DEF s3, out
  <2>4. CheckSentInitiate(s) => CalledOutcome(s, Outcome(s3, out), C)
    BY <2>2, <2>3 DEF CalledOutcome, Outcome
  <2> QED
    BY <1>2, <2>1, <2>4
<1>4. CASE m.type = "reject"
  BY <1>2, <1>4 DEF HandleMessage, OnRejectMessage
<1>5. CASE m.type = "terminate"
  <2> DEFINE st == IF m.arg = "busy" THEN "RECEIVEDBUSY" ELSE "RECEIVEDTERMINATE"
  <2>1. HandleMessage(s, m, v) = Outcome(SetState(s, st), Acknowledgement(m))
    BY <1>5 DEF HandleMessage, OnTerminateMessage
  <2>2. st \in Terminal
    BY DEF Terminal
  <2> HIDE DEF st
  <2>3. Called(SetState(s, st), C) /\ SetState(s, st).state # "INIT"
    BY <2>2, CalledEnd
  <2> QED
    BY <1>1, <2>1, <2>3 DEF CalledOutcome, Outcome
<1>6. CASE m.type = "transport-info"
  <2> DEFINE cs == {c[1] : c \in m.cands}
             t == ConnectProxies(s, cs)
  <2>1. HandleMessage(s, m, v) = Outcome(t, Acknowledgement(m))
    BY <1>6 DEF HandleMessage, OnTransportInfoMessage
  <2>2. cs \subseteq ContentNames
    BY DEF Stanza
  <2> HIDE DEF cs
  <2>3. /\ t.state = s.state /\ t.remote = s.remote /\ t.signalled = s.signalled
        /\ t.negotiated = s.negotiated \cup cs
    BY DEF ConnectProxies, SessionRecord
  <2> HIDE DEF t
  <2>4. Called(t, C)
    BY <2>2, <2>3 DEF Called
  <2> QED
    BY <1>1, <2>1, <2>3, <2>4 DEF CalledOutcome, Outcome
<1>7. CASE m.type = "description-info"
  BY <1>2, <1>7 DEF HandleMessage, OnDescriptionInfoMessage, Refused
<1> QED
  BY <1>3, <1>4, <1>5, <1>6, <1>7 DEF Stanza, ActionType

\* What the caller does when request r, one of W, ends.
LEMMA CalledResponse ==
    ASSUME NEW s \in SessionRecord, NEW W, NEW r \in W, Called(s, Calls(W)),
           s.state # "DEINIT", NEW arg \in Plain
    PROVE  /\ CalledOutcome(s, OnIncomingResponse(s, r), Calls(W \ {r}))
           /\ CalledOutcome(s, OnFailedSend(s, r, arg), Calls(W \ {r}))
<1> DEFINE D == Calls(W \ {r})
<1>1. D \subseteq Calls(W)
  BY DEF Calls
<1>2. Sundry({}) /\ Sundry(UnsentTransportInfos(s))
  BY SundryFacts
<1> HIDE DEF D
<1>3. CalledOutcome(s, Outcome(s, {}), D)
  BY <1>1, <1>2, CalledFrame DEF CalledOutcome, Outcome
<1>4. CalledOutcome(s, Outcome(SetError(s, "RESPONSE"), {}), D)
  BY <1>1, <1>2, CalledError DEF CalledOutcome, Outcome
<1>5. arg \notin Responders \cup {Foreign}
  BY NamesAssumption DEF Plain
<1>6. CalledOutcome(s, OnFailedSend(s, r, arg), D)
  BY <1>3, <1>4, <1>5, Zenon DEF OnFailedSend
<1>7. ASSUME r.type = "initiate"
      PROVE  CalledOutcome(s, Outcome(OnInitiateAcked(s), UnsentTransportInfos(s)), D)
  <2> DEFINE t == OnInitiateAcked(s)
  <2>1. s.signalled = <<"offer">>
    BY <1>7 DEF Called, Calls
  <2>2. /\ t.state = "RECEIVEDINITIATE_ACK" /\ t.remote = s.remote
        /\ t.signalled = <<"offer">>
    BY <2>1, AckedFields
  <2> HIDE DEF t
  <2>3. Called(t, D)
    BY <1>1, <2>2 DEF Called
  <2>4. CalledOutcome(s, Outcome(t, UnsentTransportInfos(s)), D)
    BY <1>2, <2>2, <2>3 DEF CalledOutcome, Outcome
  <2> QED
    BY <2>4 DEF t
<1>8. CalledOutcome(s, OnIncomingResponse(s, r), D)
  BY <1>3, <1>7, Zenon DEF OnIncomingResponse
<1> QED
  BY <1>6, <1>8 DEF D

\* Every handler of a stanza writes what is sundry, and a session that an initiate
\* makes acknowledges it.
LEMMA MessageSundry ==
    ASSUME NEW s \in SessionRecord, NEW m \in Stanza, NEW v \in {"ring", "busy", "none"}
    PROVE  /\ Sundry(HandleMessage(s, m, v).out)
           /\ m.type = "initiate" /\ s.state = "INIT" =>
                 Reply("result", m, "none") \in HandleMessage(s, m, v).out
<1>1. /\ Sundry(Acknowledgement(m)) /\ Sundry(ErrorMessage(m))
      /\ Sundry(UnsentTransportInfos(s) \cup Acknowledgement(m))
  BY SundryFacts, SundryUnion
<1>2. CASE m.type = "initiate"
  <2> DEFINE s0 == [s EXCEPT !.remote = m.from, !.descr = TRUE]
             rej == {Request(s0, "reject", {}, v)} \cup Acknowledgement(m)
  <2>1. HandleMessage(s, m, v).out =
          IF s.state # "INIT" THEN ErrorMessage(m)
          ELSE IF v = "ring" THEN Acknowledgement(m) ELSE rej
    BY <1>2 DEF HandleMessage, OnInitiateMessage, Refused, Outcome
  <2>2. s0 \in SessionRecord
    BY DEF SessionRecord, Stanza
  <2> HIDE DEF s0
  <2>4. Sundry(rej)
    BY <1>1, <2>2, SundryFacts, SundryUnion
  <2>5. Acknowledgement(m) = {Reply("result", m, "none")}
    BY <1>2 DEF Acknowledgement
  <2> QED
    BY <1>1, <2>1, <2>4, <2>5
<1>3. CASE m.type = "accept"
  BY <1>1, <1>3 DEF HandleMessage, OnAcceptMessage, Refused, Outcome
<1>4. CASE m.type \in {"reject", "terminate", "transport-info", "description-info"}
  BY <1>1, <1>4 DEF HandleMessage, OnRejectMessage, OnTerminateMessage,
     OnTransportInfoMessage, OnDescriptionInfoMessage, Refused, Outcome
<1> QED
  BY <1>2, <1>3, <1>4 DEF Stanza, ActionType

\* A step of a responder whose session exists, or that changes nothing of it.
LEMMA ResponderStep ==
    ASSUME Inv, Honest, InTurn, NEW p \in Responders, NEW t, NEW out, Sundry(out),
           ses[p].state # "DEINIT" \/ (t.state = "DEINIT" /\ out = {}),
           Update(p, t), Send(p, out, net, pending[p])
    PROVE  InTurn'
<1>1. \A w \in out : /\ w.k \in 1 .. Len(Contents) + 2
                     /\ ~(w.kind = "set" /\ w.type = "initiate")
  BY DEF Sundry
<1>2. /\ net \subseteq net /\ pending[p] \subseteq pending[p]
      /\ \A b \in net \ net : b.to = p
  OBVIOUS
<1> QED
  BY <1>1, <1>2, CalleeStep

\* Initiate is called once, before there is any stanza.
LEMMA InitiateInTurn ==
    ASSUME Inv, InTurn, NEW to \in Responders, Initiate(Initiator, to)
    PROVE  InTurn'
<1> DEFINE p == Initiator
           s == [ses[p] EXCEPT !.remote = to, !.local = TRUE, !.connecting = ContentNames]
           s1 == SendInitiateMessage(s)
           t == SetState(s1, "SENTINITIATE")
           w == Request(s, "initiate", {}, "none")
<1>1. /\ p \in Peers /\ ses[p] \in SessionRecord /\ to \in Peers /\ to # p
      /\ pending[p] \subseteq Stanza /\ sent[p] \in Nat /\ Len(Contents) \in Nat
  BY PeersAssumption, ContentsAssumption DEF Peers, Inv, TypeOK
<1>2. ses[p].state = "INIT" /\ Update(p, t) /\ Send(p, {w}, net, pending[p])
  BY DEF Initiate
<1>3. /\ net = {} /\ \A q \in Responders : ses[q].state = "DEINIT"
      /\ ses[p].signalled = <<>> /\ Calls(pending[p]) = {}
  BY <1>2 DEF InTurn, Called
<1>4. s \in SessionRecord /\ s.remote = to /\ s.signalled = <<>>
  <2>1. s \in SessionRecord
    BY <1>1 DEF SessionRecord
  <2>2. s.remote = to /\ s.signalled = ses[p].signalled
    BY <1>1 DEF SessionRecord
  <2> QED
    BY <1>3, <2>1, <2>2
<1>5. w.kind = "set" /\ w.type = "initiate" /\ w.k = 1 /\ w.to = to
  BY <1>4 DEF Request, WireType
<1> HIDE DEF s
<1>6. s1 \in SessionRecord /\ s1.remote = to /\ s1.signalled = <<>>
  BY <1>4 DEF SendInitiateMessage, SessionRecord
<1> HIDE DEF s1
<1>7. /\ t.state = "SENTINITIATE" /\ t.remote = to
      /\ t.signalled = <<>> \o GetContentAction("SENTINITIATE")
  <2>1. "SENTINITIATE" \in State
    BY DEF State
  <2> QED
    BY <1>6, <2>1, SetStateFields
<1>8. t.signalled = <<"offer">>
  <2>1. GetContentAction("SENTINITIATE") = <<"offer">>
    BY DEF GetContentAction
  <2> QED
    BY <1>7, <2>1
<1> HIDE DEF t, w
<1>9. w.k \in 1 .. Len(Contents) + 2
  BY <1>1, <1>5
<1>r. PICK r : r = Stamp(p, w)
  OBVIOUS
<1>10. /\ r.kind = "set" /\ r.type = "initiate" /\ r.from = p /\ r.to = to
       /\ r.n > sent[p] /\ r.id = r.n
  BY <1>1, <1>5, <1>9, <1>r, StampNumbers
<1>11. /\ \A m \in net' : m.n <= sent'[m.from]
       /\ \A q \in pending'[p] : q.id <= sent'[p]
       /\ \A m \in net' : m \in net \/ m = r
       /\ \A q \in pending'[p] : q \in pending[p] \/ q = r
  <2>1. /\ \A x \in {w} : x.k \in 1 .. Len(Contents) + 2
        /\ net \subseteq net /\ pending[p] \subseteq pending[p]
    BY <1>9
  <2>2. /\ \A m \in net' : m.n <= sent'[m.from]
        /\ \A q \in pending'[p] : q.id <= sent'[p]
        /\ \A m \in net' : m \in net \/ \E x \in {w} : m = Stamp(p, x)
        /\ \A q \in pending'[p] :
              q \in pending[p] \/ \E x \in {w} : x.kind = "set" /\ q = Stamp(p, x)
    BY <1>1, <1>2, <2>1, SendNumbers
  <2> QED
    BY <1>r, <2>2
<1>12. /\ ses'[p] = t
       /\ \A q \in Peers : q # p => ses'[q] = ses[q]
  BY <1>1, <1>2 DEF Update, Inv, TypeOK
<1>13. Calls(pending'[p]) \subseteq {r}
  BY <1>3, <1>11 DEF Calls
<1>14. Called(t, Calls(pending'[p]))
  BY <1>7, <1>8, <1>10, <1>13 DEF Called
<1>15. ses'[to].state = "DEINIT" /\ AcceptsOf(to)' = {}
  <2>1. \A m \in net' : m.from = p
    BY <1>3, <1>10, <1>11
  <2> QED
    BY <1>1, <1>3, <1>12, <2>1 DEF AcceptsOf
<1>16. Answered(r)'
  <2>1. (ses[r.to].state)' = "DEINIT" /\ AcceptsOf(r.to)' = {}
    BY <1>10, <1>15
  <2> QED
    BY <2>1 DEF Answered
<1>17. \A q \in pending'[p] : q.id = r.id => q = r
  <2>1. \A q \in pending[p] : q.id \in Nat /\ q.id <= sent[p]
    BY <1>1 DEF InTurn, Stanza
  <2> QED
    BY <1>1, <1>10, <1>11, <2>1
<1>18. \A m \in net' : m.id = r.id
  BY <1>3, <1>11
<1> QED
  BY <1>7, <1>10, <1>11, <1>12, <1>13, <1>14, <1>16, <1>17, <1>18 DEF InTurn

\* The operations of the client.
LEMMA ClientInTurn ==
    ASSUME Inv, Honest, InTurn, NEW p \in Peers, Client(p)
    PROVE  InTurn'
<1>1. ses[p] \in SessionRecord /\ Told(p, ses[p], accepted)
      /\ (p = Initiator \/ p \in Responders)
  BY DEF Inv, TypeOK, Honest, Peers
<1>2. ASSUME NEW s \in SessionRecord, NEW arg, NEW t,
             NEW ty \in {"reject", "terminate", "description-info"},
             ses[p].state # "DEINIT", t.state # "INIT",
             p = Initiator => Called(t, Calls(pending[p])),
             Update(p, t), Send(p, {Request(s, ty, {}, arg)}, net, pending[p])
      PROVE  InTurn'
  <2> DEFINE out == {Request(s, ty, {}, arg)}
  <2>1. Sundry(out)
    BY <1>2, SundryFacts
  <2>2. /\ net \subseteq net /\ pending[Initiator] \subseteq pending[Initiator]
        /\ net \ net = {}
    OBVIOUS
  <2>3. Send(p, out, net, pending[p])
    BY <1>2
  <2> HIDE DEF out
  <2>4. CASE p = Initiator
    BY <1>2, <2>1, <2>2, <2>3, <2>4, CallerStep
  <2>5. CASE p \in Responders
    BY <1>2, <2>1, <2>3, <2>5, ResponderStep
  <2> QED
    BY <1>1, <2>4, <2>5
<1>3. p = Initiator => Called(ses[p], Calls(pending[p]))
  BY DEF InTurn
<1>4. CASE \E to \in Responders : Initiate(p, to)
  <2>1. p = Initiator
    BY <1>4 DEF Initiate
  <2> QED
    BY <1>4, <2>1, InitiateInTurn
<1>5. CASE Accept(p)
  <2> DEFINE s == [ses[p] EXCEPT !.local = TRUE]
             t == SetState(ConnectProxies(s, ContentNames), "SENTACCEPT")
             w == Request(s, "accept", {}, "none")
  <2>1. /\ ses[p].state = "RECEIVEDINITIATE"
        /\ Update(p, t) /\ Send(p, {w}, net, pending[p])
    BY <1>1, <1>5 DEF Accept, SessionRecord
  <2>2. p \in Responders
    BY <1>1, <2>1 DEF Told
  <2>3. w.kind = "set" /\ w.type = "accept" /\ w.k = 1
    BY DEF Request, WireType
  <2>4. 1 \in 1 .. Len(Contents) + 2
    BY ContentsAssumption
  <2> HIDE DEF t, w
  <2>5. \A x \in {w} : /\ x.k \in 1 .. Len(Contents) + 2
                       /\ ~(x.kind = "set" /\ x.type = "initiate")
    BY <2>3, <2>4
  <2>6. /\ net \subseteq net /\ pending[p] \subseteq pending[p]
        /\ \A b \in net \ net : b.to = p
    OBVIOUS
  <2> DEFINE out == {w}
  <2>7. Update(p, t) /\ Send(p, out, net, pending[p]) /\ ses[p].state # "DEINIT"
    BY <2>1
  <2>8. \A x \in out : /\ x.k \in 1 .. Len(Contents) + 2
                       /\ ~(x.kind = "set" /\ x.type = "initiate")
    BY <2>5
  <2> HIDE DEF out
  <2> QED
    BY <2>2, <2>6, <2>7, <2>8, CalleeStep
<1>6. CASE \E reason \in {"busy", "none"} : Reject(p, reason)
  <2>1. PICK reason \in {"busy", "none"} : Reject(p, reason)
    BY <1>6
  <2> DEFINE t == SetState(ses[p], RejectState(reason))
  <2>2. /\ ses[p].state = "RECEIVEDINITIATE" /\ Update(p, t)
        /\ Send(p, {Request(ses[p], "reject", {}, reason)}, net, pending[p])
    BY <2>1 DEF Reject
  <2>3. p # Initiator
    BY <1>1, <2>2 DEF Told
  <2>4. t.state # "INIT"
    BY <1>1, SetStateFields DEF RejectState, State, Terminal
  <2> HIDE DEF t
  <2> QED
    BY <1>1, <1>2, <2>2, <2>3, <2>4
<1>7. CASE Terminate(p)
  <2> DEFINE t == SetState(ses[p], "SENTTERMINATE")
  <2>1. /\ Update(p, t) /\ ses[p].state # "DEINIT"
        /\ Send(p, {Request(ses[p], "terminate", {}, "none")}, net, pending[p])
    BY <1>7 DEF Terminate, TerminateWithReason
  <2>2. t.state # "INIT"
    BY <1>1, SetStateFields DEF State, Terminal
  <2>3. p = Initiator => Called(t, Calls(pending[p]))
    BY <1>1, <1>3, <2>1, CalledEnd DEF Terminal
  <2> HIDE DEF t
  <2> QED
    BY <1>1, <1>2, <2>1, <2>2, <2>3
<1>8. CASE SendDescriptionInfoMessage(p)
  <2>1. /\ Send(p, {Request(ses[p], "description-info", {}, "none")}, net, pending[p])
        /\ ses' = ses /\ ses[p].state = "INPROGRESS"
    BY <1>8 DEF SendDescriptionInfoMessage
  <2>2. Update(p, ses[p])
    BY <2>1 DEF Update, Inv, TypeOK
  <2> QED
    BY <1>1, <1>2, <1>3, <2>1, <2>2
<1> QED
  BY <1>4, <1>5, <1>6, <1>7, <1>8 DEF Client

\* A step of p that only changes its session and sends what is sundry.
LEMMA SessionStep ==
    ASSUME Inv, Honest, InTurn, NEW p \in Peers, NEW t, NEW out, Sundry(out),
           p = Initiator =>
              /\ Called(t, Calls(pending[p]))
              /\ t.state = "INIT" => ses[p].state = "INIT" /\ out = {},
           p # Initiator => ses[p].state # "DEINIT",
           Update(p, t), Send(p, out, net, pending[p])
    PROVE  InTurn'
<1>1. CASE p = Initiator
  <2>1. /\ net \subseteq net /\ pending[p] \subseteq pending[p] /\ net \ net = {}
    OBVIOUS
  <2> QED
    BY <1>1, <2>1, CallerStep
<1>2. CASE p \in Responders /\ p # Initiator
  BY <1>2, ResponderStep
<1> QED
  BY <1>1, <1>2, PeersAssumption DEF Peers

\* The signals of the transports.
LEMMA TransportInTurn ==
    ASSUME Inv, Honest, Stored, InTurn, NEW p \in Peers, Transport(p)
    PROVE  InTurn'
<1>1. ses[p] \in SessionRecord /\ Kept(p, ses[p], offered)
      /\ (p = Initiator => Called(ses[p], Calls(pending[p])))
  BY DEF Inv, TypeOK, Stored, InTurn
<1>2. ASSUME NEW t, t.state = ses[p].state, t.remote = ses[p].remote,
             t.signalled = ses[p].signalled, t.negotiated = ses[p].negotiated,
             ses[p].state # "DEINIT", Update(p, t), NEW out, Sundry(out),
             ses[p].state # "INIT" \/ out = {}, Send(p, out, net, pending[p])
      PROVE  InTurn'
  <2>1. p = Initiator => Called(t, Calls(pending[p]))
    <3>1. Calls(pending[p]) \subseteq Calls(pending[p])
      OBVIOUS
    <3> QED
      BY <1>1, <1>2, <3>1, CalledFrame
  <2> QED
    BY <1>2, <2>1, SessionStep
<1>3. UNCHANGED <<net, pending, sent, offered>> => Send(p, {}, net, pending[p]) /\ Sundry({})
  BY Silent DEF Sundry
<1>4. ASSUME NEW content \in ContentNames, NEW cand \in Candidates,
             OnTransportProxyCandidatesReady(p, content, cand)
      PROVE  InTurn'
  <2> DEFINE here == {<<content, cand>>}
             s == [ses[p] EXCEPT !.gathered = @ \cup here]
             t1 == [s EXCEPT !.unsent = @ \cup here]
             t2 == [s EXCEPT !.resend = IF content \in s.negotiated THEN @
                                        ELSE @ \cup here]
             out == TransportInfos(s, here)
  <2>1. /\ ses[p].state # "DEINIT" /\ content \in ses[p].connecting
        /\ \/ Update(p, t1) /\ UNCHANGED <<net, pending, sent, offered>>
           \/ Update(p, t2) /\ Send(p, out, net, pending[p])
    BY <1>1, <1>4 DEF OnTransportProxyCandidatesReady, SessionRecord
  <2>2. ses[p].state # "INIT"
    BY <1>1, <2>1 DEF Kept
  <2>3. here \in SUBSET (ContentNames \X Candidates)
    BY <1>4
  <2>4. s \in SessionRecord
    BY <1>1, <2>3 DEF SessionRecord
  <2>5. /\ t1.state = ses[p].state /\ t1.remote = ses[p].remote
        /\ t1.signalled = ses[p].signalled /\ t1.negotiated = ses[p].negotiated
        /\ t2.state = ses[p].state /\ t2.remote = ses[p].remote
        /\ t2.signalled = ses[p].signalled /\ t2.negotiated = ses[p].negotiated
    BY <1>1 DEF SessionRecord
  <2>6. Sundry(out)
    BY <2>4, SundryFacts
  <2> HIDE DEF t1, t2, out
  <2> QED
    BY <1>2, <1>3, <2>1, <2>2, <2>5, <2>6
<1>5. ASSUME NEW content \in ContentNames, NEW w \in BOOLEAN,
             OnTransportWritable(p, content, w)
      PROVE  InTurn'
  <2> DEFINE t == [ses[p] EXCEPT
               !.watched = @ \cup {content},
               !.writable = IF w THEN @ \cup {content} ELSE @ \ {content},
               !.timers = IF w THEN @ \ {"TIMEOUT"} ELSE @ \cup {"TIMEOUT"}]
  <2>1. /\ ses[p].state # "DEINIT" /\ Update(p, t)
        /\ UNCHANGED <<net, pending, sent, offered>>
    BY <1>5 DEF OnTransportWritable
  <2>2. /\ t.state = ses[p].state /\ t.remote = ses[p].remote
        /\ t.signalled = ses[p].signalled /\ t.negotiated = ses[p].negotiated
    BY <1>1 DEF SessionRecord
  <2> HIDE DEF t
  <2> QED
    BY <1>2, <1>3, <2>1, <2>2
<1> QED
  BY <1>4, <1>5 DEF Transport

\* What the session posts to itself.
LEMMA OnMessageInTurn ==
    ASSUME Inv, Honest, InTurn, NEW p \in Peers, OnMessage(p)
    PROVE  InTurn'
<1> DEFINE s == [ses[p] EXCEPT !.queue = Tail(@)]
           C == Calls(pending[p])
<1>1. /\ ses[p] \in SessionRecord /\ Told(p, ses[p], accepted)
      /\ ses[p].queue # <<>>
      /\ (p = Initiator => Called(ses[p], C))
  BY DEF Inv, TypeOK, Honest, InTurn, OnMessage
<1>2. ses[p].state # "DEINIT"
  BY <1>1 DEF Told
<1>3. /\ s \in SessionRecord /\ s.state = ses[p].state
      /\ s.remote = ses[p].remote /\ s.signalled = ses[p].signalled
      /\ s.negotiated = ses[p].negotiated
  <2>1. Tail(ses[p].queue) \in Seq(Message)
    BY <1>1 DEF SessionRecord, Message
  <2> QED
    BY <1>1, <2>1 DEF SessionRecord, Message
<1> DEFINE t == SetState(s, "SENTTERMINATE")
           u == SetState(s, "INPROGRESS")
           out == {Request(s, "terminate", {}, "none")}
<1>4. \/ /\ \/ Update(p, s)
            \/ Update(p, NoSession)
            \/ s.state \in {"SENTACCEPT", "RECEIVEDACCEPT"} /\ Update(p, u)
         /\ UNCHANGED <<net, pending, sent, offered>>
      \/ Update(p, t) /\ Send(p, out, net, pending[p])
  BY DEF OnMessage, TerminateWithReason
<1> HIDE DEF s
<1>5. p = Initiator => Called(s, C)
  <2>1. C \subseteq C
    OBVIOUS
  <2> QED
    BY <1>1, <1>3, <2>1, CalledFrame
<1>6. p = Initiator => Called(NoSession, C) /\ NoSession.state # "INIT"
  BY DEF NoSession, NewSession, Called
<1>7. u.state # "INIT"
      /\ (p = Initiator /\ s.state \in {"SENTACCEPT", "RECEIVEDACCEPT"} => Called(u, C))
  <2>1. /\ u.state = "INPROGRESS" /\ u.remote = s.remote
        /\ u.signalled = s.signalled /\ u.negotiated = s.negotiated
    BY <1>3, SetStateFields, NothingSignalled DEF State
  <2> HIDE DEF u
  <2>2. p = Initiator => s.state # "SENTACCEPT"
    BY <1>1, <1>3 DEF Told
  <2>3. p = Initiator /\ s.state = "RECEIVEDACCEPT" => Called(u, C)
    BY <1>5, <2>1 DEF Called
  <2> QED
    BY <2>1, <2>2, <2>3
<1>8. t.state # "INIT" /\ (p = Initiator => Called(t, C))
  <2>1. t.state = "SENTTERMINATE"
    BY <1>3, SetStateFields DEF State, Terminal
  <2>2. p = Initiator => Called(t, C)
    BY <1>2, <1>3, <1>5, CalledEnd DEF Terminal
  <2> HIDE DEF t
  <2> QED
    BY <2>1, <2>2
<1>9. Sundry(out)
  BY <1>3, SundryFacts
<1>10. UNCHANGED <<net, pending, sent, offered>> => Send(p, {}, net, pending[p]) /\ Sundry({})
  BY Silent DEF Sundry
<1> HIDE DEF t, u, out
<1>11. ASSUME Update(p, s), Send(p, {}, net, pending[p]), Sundry({})
       PROVE  InTurn'
  BY <1>2, <1>3, <1>5, <1>11, SessionStep
<1>12. ASSUME Update(p, NoSession), Send(p, {}, net, pending[p]), Sundry({})
       PROVE  InTurn'
  BY <1>2, <1>6, <1>12, SessionStep
<1>13. ASSUME s.state \in {"SENTACCEPT", "RECEIVEDACCEPT"}, Update(p, u),
              Send(p, {}, net, pending[p]), Sundry({})
       PROVE  InTurn'
  BY <1>2, <1>7, <1>13, SessionStep
<1>14. ASSUME Update(p, t), Send(p, out, net, pending[p])
       PROVE  InTurn'
  BY <1>2, <1>8, <1>9, <1>14, SessionStep
<1> QED
  BY <1>4, <1>10, <1>11, <1>12, <1>13, <1>14

\* A timer of a session.
LEMMA FireTimerInTurn ==
    ASSUME Inv, Honest, InTurn, NEW p \in Peers, NEW timer, FireTimer(p, timer)
    PROVE  InTurn'
<1> DEFINE s == [ses[p] EXCEPT !.timers = @ \ {timer}]
           e == IF timer = "TIMEOUT" THEN "TIME" ELSE "ACK_TIME"
           C == Calls(pending[p])
<1>1. /\ ses[p] \in SessionRecord /\ Told(p, ses[p], accepted)
      /\ timer \in ses[p].timers
      /\ (p = Initiator => Called(ses[p], C))
  BY DEF Inv, TypeOK, Honest, InTurn, FireTimer
<1>2. ses[p].state # "DEINIT"
  BY <1>1 DEF Told
<1>3. /\ s \in SessionRecord /\ s.state = ses[p].state
      /\ s.remote = ses[p].remote /\ s.signalled = ses[p].signalled
      /\ s.negotiated = ses[p].negotiated
  BY <1>1 DEF SessionRecord
<1>4. Update(p, SetError(s, e)) /\ UNCHANGED <<net, pending, sent, offered>>
  BY DEF FireTimer
<1> HIDE DEF s, e
<1>5. C \subseteq C
  OBVIOUS
<1>6. p = Initiator => Called(s, C)
  BY <1>1, <1>3, <1>5, CalledFrame
<1>7. /\ (p = Initiator => Called(SetError(s, e), C))
      /\ SetError(s, e).state = s.state
  <2>1. SetError(s, e).state = s.state
    BY <1>3 DEF SetError, SessionRecord
  <2> QED
    BY <1>3, <1>5, <1>6, <2>1, CalledError
<1>8. Send(p, {}, net, pending[p]) /\ Sundry({})
  BY <1>4, Silent DEF Sundry
<1> QED
  BY <1>2, <1>3, <1>4, <1>7, <1>8, SessionStep

\* A response to a request that is no initiate, and no redirect, makes its sender
\* send nothing.
LEMMA ResponseSilent ==
    ASSUME NEW s, NEW r, r.type # "initiate", NEW arg \in Plain
    PROVE  OnIncomingResponse(s, r).out = {} /\ OnFailedSend(s, r, arg).out = {}
<1>1. arg \notin Responders \cup {Foreign}
  BY NamesAssumption DEF Plain
<1> QED
  BY <1>1 DEF OnIncomingResponse, OnFailedSend, Outcome

\* The end of a SessionSendTask: a response that is consumed is its own.
LEMMA EndSendTaskInTurn ==
    ASSUME Inv, Honest, InTurn, NEW p \in Peers, NEW r \in pending[p], NEW kind,
           NEW arg \in Plain, NEW inNet, inNet \subseteq net,
           \A b \in net \ inNet : b.id = r.id /\ b.to = p,
           EndSendTask(p, r, kind, arg, inNet)
    PROVE  InTurn'
<1> DEFINE s == ses[p]
           W == pending[p]
           o == IF ~FindSession(p, r.to) THEN Outcome(s, {})
                ELSE IF kind = "result" THEN OnIncomingResponse(s, r)
                ELSE OnFailedSend(s, r, arg)
<1>1. /\ s \in SessionRecord /\ r \in Stanza /\ (r.type = "initiate" => p = Initiator)
      /\ p = Initiator \/ p \in Responders
  BY DEF Inv, TypeOK, Honest, Peers
<1>2. /\ Update(p, o.session) /\ Send(p, o.out, inNet, W \ {r})
      /\ W \ {r} \subseteq W
  BY DEF EndSendTask
<1>3. FindSession(p, r.to) => s.state # "DEINIT"
  BY DEF FindSession
<1>4. CASE p = Initiator
  <2>1. Called(s, Calls(W))
    BY <1>4 DEF InTurn
  <2>2. CalledOutcome(s, o, Calls(W \ {r}))
    <3>1. CASE FindSession(p, r.to)
      <4>1. s.state # "DEINIT"
        BY <1>3, <3>1
      <4> HIDE DEF s, W
      <4> QED
        BY <1>1, <2>1, <3>1, <4>1, CalledResponse DEF W
    <3>2. CASE ~FindSession(p, r.to)
      <4>1. Calls(W \ {r}) \subseteq Calls(W)
        BY DEF Calls
      <4>2. Called(s, Calls(W \ {r}))
        BY <2>1, <4>1, CalledFrame
      <4>3. CalledOutcome(s, Outcome(s, {}), Calls(W \ {r}))
        BY <4>2 DEF CalledOutcome, Outcome, Sundry
      <4> QED
        BY <3>2, <4>3
    <3> QED
      BY <3>1, <3>2
  <2>3. ASSUME NEW b \in net \ inNet, NEW q \in Calls(W \ {r}), b.id = q.id
        PROVE  FALSE
    <3>1. q \in Calls(pending[Initiator]) /\ q # r /\ r \in pending[Initiator]
      BY <1>4, <2>3 DEF Calls
    <3>2. r.id = q.id
      BY <2>3
    <3> QED
      BY <3>1, <3>2 DEF InTurn
  <2>4. /\ Called(o.session, Calls(W \ {r})) /\ Sundry(o.out)
        /\ o.session.state = "INIT" => ses[p].state = "INIT" /\ o.out = {}
    BY <2>2 DEF CalledOutcome
  <2> DEFINE t == o.session
             out == o.out
             D == W \ {r}
  <2>5. /\ Called(t, Calls(D)) /\ Sundry(out) /\ D \subseteq pending[Initiator]
        /\ t.state = "INIT" => ses[Initiator].state = "INIT" /\ out = {}
        /\ Update(Initiator, t) /\ Send(Initiator, out, inNet, D)
    BY <1>2, <1>4, <2>4
  <2>6. \A b \in net \ inNet : \A q \in Calls(D) :
            ~(b.kind = "result" /\ b.id = q.id /\ b.from = q.to)
    BY <2>3
  <2> HIDE DEF t, out, D
  <2> QED
    BY <2>5, <2>6, CallerStep
<1>5. CASE p \in Responders /\ p # Initiator
  <2>1. r.type # "initiate"
    BY <1>1, <1>5
  <2>2. o.out = {} /\ (ses[p].state = "DEINIT" => o.session.state = "DEINIT")
    <3>1. OnIncomingResponse(s, r).out = {} /\ OnFailedSend(s, r, arg).out = {}
      BY <2>1, ResponseSilent
    <3>2. o.out = {}
      BY <3>1 DEF Outcome
    <3>3. ses[p].state = "DEINIT" => o = Outcome(s, {})
      BY <1>3
    <3> QED
      BY <3>2, <3>3 DEF Outcome
  <2> HIDE DEF o
  <2>3. /\ \A w \in o.out : /\ w.k \in 1 .. Len(Contents) + 2
                            /\ ~(w.kind = "set" /\ w.type = "initiate")
        /\ \A w \in o.out : ~IsAccept(w)
    BY <2>2
  <2> QED
    BY <1>2, <1>5, <2>2, <2>3, CalleeStep
<1> QED
  BY <1>1, <1>4, <1>5, PeersAssumption

\* A stanza that reaches the caller.  In order, an accept finds the acknowledgement
\* of the initiate taken.
LEMMA CallerReceives ==
    ASSUME Inv, Honest, InTurn, ~Reorder, NEW m \in net, NEW inNet, inNet \subseteq net,
           net \ inNet \subseteq {m}, m.to = Initiator, m.kind = "set",
           CanDeliver(m), OnIncomingMessage(Initiator, m, inNet)
    PROVE  InTurn'
<1> DEFINE p == Initiator
           C == Calls(pending[p])
<1>1. /\ m \in Stanza /\ p \in Peers /\ ses[p] \in SessionRecord
      /\ Called(ses[p], C) /\ ses[p].state # "INIT"
      /\ m.type # "initiate" /\ net \subseteq Stanza
  BY PeersAssumption DEF Inv, TypeOK, Honest, Genuine, InTurn, Peers
<1>2. /\ pending[p] \subseteq pending[p]
      /\ \A b \in net \ inNet : b.kind # "result"
  OBVIOUS
<1>3. CASE ~FindSession(p, m.from)
  <2>1. Send(p, ErrorMessage(m), inNet, pending[p]) /\ ses' = ses
    BY <1>1, <1>3 DEF OnIncomingMessage
  <2>2. Update(p, ses[p])
    BY <2>1 DEF Update, Inv, TypeOK
  <2>3. Sundry(ErrorMessage(m))
    BY <1>1, SundryFacts
  <2> QED
    BY <1>1, <1>2, <2>1, <2>2, <2>3, CallerStep
<1>4. CASE FindSession(p, m.from)
  <2> DEFINE s0 == ses[p]
             s == LearnProtocol(s0, m)
             o(v) == HandleMessage(s, m, v)
  <2>1. ses[p].state # "DEINIT" /\ ses[p].remote = m.from
    BY <1>4 DEF FindSession
  <2>2. PICK v : Update(p, o(v).session) /\ Send(p, o(v).out, inNet, pending[p])
    BY <1>4 DEF OnIncomingMessage
  <2>3. /\ s \in SessionRecord /\ s.state = ses[p].state /\ s.remote = ses[p].remote
        /\ s.signalled = ses[p].signalled /\ s.negotiated = ses[p].negotiated
    <3>1. s0 \in SessionRecord
      BY <1>1
    <3> HIDE DEF s0
    <3>2. /\ s \in SessionRecord /\ s.state = s0.state /\ s.remote = s0.remote
          /\ s.signalled = s0.signalled /\ s.negotiated = s0.negotiated
      BY <3>1, LearnedFields DEF SameCandidates
    <3> QED
      BY <3>2 DEF s0
  <2> HIDE DEF s
  <2>4. Called(s, C)
    <3>1. C \subseteq C
      OBVIOUS
    <3> QED
      BY <1>1, <2>3, <3>1, CalledFrame
  <2>5. ASSUME m.type = "accept", NEW r \in C PROVE FALSE
    <3>1. r.to = m.from /\ Answered(r)
      BY <1>1, <2>1, <2>5 DEF Called, InTurn
    <3>2. m \in AcceptsOf(r.to)
      BY <2>5, <3>1 DEF AcceptsOf, IsAccept
    <3>3. PICK b \in net : /\ b.from = r.to /\ b.to = p
                           /\ \A a \in AcceptsOf(r.to) : b.n < a.n
      BY <3>1, <3>2 DEF Answered
    <3>4. m.n <= b.n
      BY <3>1, <3>3 DEF CanDeliver
    <3>5. b.n < m.n /\ b.n \in Nat /\ m.n \in Nat
      BY <1>1, <3>2, <3>3 DEF Stanza
    <3> QED
      BY <3>4, <3>5
  <2>6. CalledOutcome(s, o(v), C)
    <3>1. m.type = "accept" /\ CheckSentInitiate(s) => C = {}
      BY <2>5
    <3>2. s.state \notin {"INIT", "DEINIT"}
      BY <1>1, <2>1, <2>3
    <3> HIDE DEF C
    <3> QED
      BY <1>1, <2>3, <2>4, <3>1, <3>2, CalledMessage
  <2>7. /\ Called(o(v).session, C) /\ Sundry(o(v).out)
        /\ o(v).session.state = "INIT" => ses[p].state = "INIT" /\ o(v).out = {}
    BY <2>3, <2>6 DEF CalledOutcome
  <2> HIDE DEF o
  <2> QED
    BY <1>2, <2>2, <2>7, CallerStep
<1> QED
  BY <1>3, <1>4

\* A stanza that reaches a responder.
LEMMA CalleeReceives ==
    ASSUME Inv, Honest, InTurn, NEW p \in Responders, NEW m \in net, NEW inNet,
           inNet \subseteq net, net \ inNet \subseteq {m}, m.to = p, m.kind = "set",
           OnIncomingMessage(p, m, inNet)
    PROVE  InTurn'
<1>1. /\ m \in Stanza /\ p \in Peers /\ ses[p] \in SessionRecord
      /\ Told(p, ses[p], accepted) /\ p # Initiator
      /\ (m.type = "initiate" => m.from = Initiator)
  BY PeersAssumption DEF Inv, TypeOK, Honest, Genuine, Peers
<1>2. /\ pending[p] \subseteq pending[p] /\ net # {}
      /\ \A b \in net \ inNet : b.to = p
  OBVIOUS
<1>3. ASSUME NEW out, Sundry(out)
      PROVE  \A w \in out : /\ w.k \in 1 .. Len(Contents) + 2
                            /\ ~(w.kind = "set" /\ w.type = "initiate")
                            /\ ~IsAccept(w)
  BY <1>3 DEF Sundry, IsAccept
<1>4. CASE ~FindSession(p, m.from) /\ m.type # "initiate"
  <2>1. Send(p, ErrorMessage(m), inNet, pending[p]) /\ ses' = ses
    BY <1>4 DEF OnIncomingMessage
  <2>2. Update(p, ses[p])
    BY <2>1 DEF Update, Inv, TypeOK
  <2>3. Sundry(ErrorMessage(m))
    BY <1>1, SundryFacts
  <2> DEFINE out == ErrorMessage(m)
  <2>4. \A w \in out : /\ w.k \in 1 .. Len(Contents) + 2
                       /\ ~(w.kind = "set" /\ w.type = "initiate")
                       /\ ~IsAccept(w)
    BY <1>3, <2>3
  <2>5. Send(p, out, inNet, pending[p])
    BY <2>1
  <2> HIDE DEF out
  <2> QED
    BY <1>2, <2>2, <2>4, <2>5, CalleeStep
<1>5. CASE ~(~FindSession(p, m.from) /\ m.type # "initiate")
  <2> DEFINE s0 == IF FindSession(p, m.from) THEN ses[p] ELSE NewSession("HYBRID")
             s == LearnProtocol(s0, m)
             o(v) == HandleMessage(s, m, v)
  <2>1. PICK v \in {"ring", "busy", "none"} :
           Update(p, o(v).session) /\ Send(p, o(v).out, inNet, pending[p])
    BY <1>5 DEF OnIncomingMessage
  <2>2. s0 \in SessionRecord
    BY <1>1, NewSessionType
  <2>3. ses[p].state = "DEINIT" => s0.state = "INIT" /\ m.type = "initiate"
    BY <1>5 DEF FindSession, NewSession
  <2> HIDE DEF s0
  <2>4. s \in SessionRecord /\ s.state = s0.state
    BY <2>2, LearnedFields
  <2> HIDE DEF s
  <2>5. /\ Sundry(o(v).out)
        /\ m.type = "initiate" /\ s.state = "INIT" =>
              Reply("result", m, "none") \in o(v).out
    BY <1>1, <2>4, MessageSundry
  <2>6. /\ Reply("result", m, "none").kind = "result"
        /\ Reply("result", m, "none").id = m.id
        /\ Reply("result", m, "none").to = m.from
    BY DEF Reply
  <2> HIDE DEF o
  <2>7. ses[p].state = "DEINIT" =>
          \E i \in net : \E w \in o(v).out :
             /\ i.kind = "set" /\ i.type = "initiate"
             /\ w.kind = "result" /\ w.id = i.id /\ w.to = Initiator
    BY <1>1, <2>3, <2>4, <2>5, <2>6
  <2> DEFINE t == o(v).session
             out == o(v).out
  <2>8. \A w \in out : /\ w.k \in 1 .. Len(Contents) + 2
                       /\ ~(w.kind = "set" /\ w.type = "initiate")
                       /\ ~IsAccept(w)
    BY <1>3, <2>5
  <2>9. /\ Update(p, t) /\ Send(p, out, inNet, pending[p])
        /\ ses[p].state = "DEINIT" =>
              \E i \in net : \E w \in out :
                 /\ i.kind = "set" /\ i.type = "initiate"
                 /\ w.kind = "result" /\ w.id = i.id /\ w.to = Initiator
    BY <2>1, <2>7
  <2> HIDE DEF t, out
  <2> QED
    BY <1>2, <2>8, <2>9, CalleeStep
<1> QED
  BY <1>4, <1>5

\* A stanza that is delivered in order, once or again.
LEMMA ReceiveInTurn ==
    ASSUME Inv, Honest, Stored, InTurn, ~Reorder, NEW m \in net, NEW inNet,
           inNet \subseteq net, net \ inNet \subseteq {m}, Receive(m, inNet)
    PROVE  InTurn'
<1> DEFINE p == m.to
<1>1. /\ p \in Peers /\ CanDeliver(m) /\ m.arg \in Plain
      /\ p = Initiator \/ p \in Responders
  BY DEF Receive, CanDeliver, Stored, Peers
<1>2. CASE m.kind = "set" /\ OnIncomingMessage(p, m, inNet)
  BY <1>1, <1>2, CallerReceives, CalleeReceives
<1>3. CASE m.kind # "set" /\ OnResponse(p, m, inNet)
  <2>1. ASSUME NEW r \in pending[p], r.id = m.id, EndSendTask(p, r, m.kind, m.arg, inNet)
        PROVE  InTurn'
    <3>1. \A b \in net \ inNet : b.id = r.id /\ b.to = p
      BY <2>1
    <3> QED
      BY <1>1, <2>1, <3>1, EndSendTaskInTurn
  <2>2. ASSUME \A r \in pending[p] : ~(r.id = m.id /\ r.to = m.from),
               net' = inNet, UNCHANGED <<ses, pending, sent, offered>>
        PROVE  InTurn'
    <3>1. Update(p, ses[p]) /\ Send(p, {}, inNet, pending[p]) /\ Sundry({})
      BY <1>1, <2>2, Silent DEF Update, Sundry, Inv, TypeOK
    <3>2. pending[p] \subseteq pending[p]
      OBVIOUS
    <3>3. CASE p = Initiator
      <4>1. Called(ses[p], Calls(pending[p])) /\ ses[p].state # "INIT"
        BY <3>3 DEF InTurn
      <4>2. \A b \in net \ inNet : \A r \in Calls(pending[p]) :
               ~(b.kind = "result" /\ b.id = r.id /\ b.from = r.to)
        BY <2>2 DEF Calls
      <4> QED
        BY <3>1, <3>2, <3>3, <4>1, <4>2, CallerStep
    <3>4. CASE p \in Responders
      <4>1. \A b \in net \ inNet : b.to = p
        OBVIOUS
      <4> DEFINE out == {}
      <4>2. /\ Send(p, out, inNet, pending[p]) /\ out = {}
            /\ \A w \in out : /\ w.k \in 1 .. Len(Contents) + 2
                              /\ ~(w.kind = "set" /\ w.type = "initiate")
                              /\ ~IsAccept(w)
        BY <3>1
      <4> HIDE DEF out
      <4> QED
        BY <3>1, <3>2, <3>4, <4>1, <4>2, CalleeStep
    <3> QED
      BY <1>1, <3>3, <3>4
  <2> QED
    BY <1>3, <2>1, <2>2 DEF OnResponse
<1> QED
  BY <1>2, <1>3 DEF Receive

\* A server that neither loses nor redirects.
LEMMA ServerInTurn ==
    ASSUME Inv, Honest, Stored, InTurn, ~Reorder,
           "lose" \notin Faults, "redirect" \notin Faults, Server
    PROVE  InTurn'
<1>1. PICK m \in net :
        \/ DeliverRepeatedly(m)
        \/ Lose(m)
        \/ \E t \in {"cancel", "wait"} : Bounce(m, "bounce", t)
        \/ \E j \in (Responders \cup {Foreign}) \ {m.to} : Bounce(m, "redirect", j)
  BY DEF Server
<1>2. CASE DeliverRepeatedly(m)
  <2>1. net \subseteq net /\ net \ net \subseteq {m}
    OBVIOUS
  <2> QED
    BY <1>2, <2>1, ReceiveInTurn DEF DeliverRepeatedly
<1>3. ASSUME Lose(m) PROVE FALSE
  BY <1>3 DEF Lose, Commit
<1>4. ASSUME NEW t \in {"cancel", "wait"}, Bounce(m, "bounce", t) PROVE InTurn'
  <2> DEFINE b == [m EXCEPT !.kind = "error", !.from = m.to, !.to = m.from,
                            !.n = 0, !.cands = {}, !.arg = t]
  <2>1. /\ m \in Stanza /\ m.to \in Peers /\ m.kind = "set"
        /\ net' = (net \ {m}) \cup {b}
        /\ UNCHANGED <<ses, pending, sent>>
        /\ sent \in [Peers -> Nat]
    BY <1>4 DEF Bounce, Inv, TypeOK
  <2>2. b.kind = "error" /\ b.from = m.to /\ b.n = 0
    BY <2>1 DEF Stanza
  <2> HIDE DEF b
  <2>3. ses[Initiator].state # "INIT"
    BY DEF InTurn
  <2>4. \A x \in net' : x.n <= sent[x.from]
    BY <2>1, <2>2 DEF InTurn
  <2>5. \A x \in net' : x.kind = "set" => x \in net
    BY <2>1, <2>2
  <2>6. \A x \in net : x.kind = "result" => x \in net'
    BY <2>1
  <2>7. ASSUME NEW r, Answered(r) PROVE Answered(r)'
    BY <2>1, <2>5, <2>6, <2>7 DEF Answered, AcceptsOf, IsAccept
  <2> QED
    BY <2>1, <2>3, <2>4, <2>5, <2>7 DEF InTurn
<1>5. ASSUME NEW j, Bounce(m, "redirect", j) PROVE FALSE
  BY <1>5 DEF Bounce, Commit
<1> QED
  BY <1>1, <1>2, <1>3, <1>4, <1>5

\* Every step with such a server.
LEMMA NextInTurn ==
    ASSUME Inv, Honest, Stored, InTurn, [Next]_vars, ~Reorder,
           "lose" \notin Faults, "redirect" \notin Faults
    PROVE  InTurn'
<1>1. CASE \E p \in Peers : Client(p)
  BY <1>1, ClientInTurn
<1>2. CASE \E p \in Peers : Transport(p)
  BY <1>2, TransportInTurn
<1>3. CASE \E p \in Peers : OnMessage(p)
  BY <1>3, OnMessageInTurn
<1>4. CASE \E p \in Peers : \E timer \in {"TIMEOUT", "INIT_ACK"} : FireTimer(p, timer)
  BY <1>4, FireTimerInTurn
<1>5. CASE \E p \in Peers : \E r \in pending[p] : SendTimeout(p, r)
  <2>1. PICK p \in Peers : \E r \in pending[p] : SendTimeout(p, r)
    BY <1>5
  <2>2. PICK r \in pending[p] : SendTimeout(p, r)
    BY <2>1
  <2>3. /\ EndSendTask(p, r, "error", "cancel", net) /\ net \subseteq net
        /\ \A b \in net \ net : b.id = r.id /\ b.to = p
    BY <2>2 DEF SendTimeout
  <2>4. "cancel" \in Plain
    BY DEF Plain, ErrorType
  <2> QED
    BY <2>3, <2>4, EndSendTaskInTurn
<1>6. CASE \E m \in net : Deliver(m)
  <2>1. PICK m \in net : Deliver(m)
    BY <1>6
  <2>2. net \ {m} \subseteq net /\ net \ (net \ {m}) \subseteq {m}
    OBVIOUS
  <2> QED
    BY <2>1, <2>2, ReceiveInTurn DEF Deliver
<1>7. CASE Server
  BY <1>7, ServerInTurn
<1>8. CASE UNCHANGED vars
  BY <1>8 DEF vars, InTurn, Answered, AcceptsOf
<1> QED
  BY <1>1, <1>2, <1>3, <1>4, <1>5, <1>6, <1>7, <1>8 DEF Next

\* It holds initially.
LEMMA InitInTurn == Init => InTurn
<1> SUFFICES ASSUME Init PROVE InTurn
  OBVIOUS
<1>1. PICK pr \in Protocols :
        ses = [p \in Peers |-> IF p = Initiator THEN NewSession(pr) ELSE NoSession]
  BY DEF Init
<1>2. /\ ses[Initiator] = NewSession(pr)
      /\ \A q \in Responders : ses[q].state = "DEINIT"
  BY <1>1, PeersAssumption DEF Peers, NoSession, NewSession
<1>3. net = {} /\ pending[Initiator] = {} /\ Calls(pending[Initiator]) = {}
  BY DEF Init, Peers, Calls
<1>4. Called(NewSession(pr), {})
  BY DEF Called, NewSession
<1> QED
  BY <1>2, <1>3, <1>4 DEF InTurn

-----------------------------------------------------------------------------
(* Theorems.                                                               *)

\* The inductive invariant holds in every reachable state.
THEOREM Invariance == Spec => []Inv
BY InitInv, NextInv, PTL DEF Spec

\* Whatever the server does, sessions, stanzas and waiting requests keep the
\* types that session.h, sessionmessages.h and sessionsendtask.h give them.
THEOREM TypeCorrect == Spec => []TypeOK
<1>1. Inv => TypeOK
  BY DEF Inv
<1> QED
  BY <1>1, Invariance, PTL

\* No session is ever stuck in a state that only its own MSG_STATE can leave:
\* BaseSession::SetState posts it, and OnMessage takes it only when it moves on.
THEOREM TransientPosted == Spec => []TransientStateIsPosted
<1>1. Inv => TransientStateIsPosted
  BY DEF Inv, Good, Posted, Has, Queued, TransientStateIsPosted
<1> QED
  BY <1>1, Invariance, PTL

\* An initiate that is not acknowledged is timed, after any number of
\* redirects, or the error that ends the session is already posted.
THEOREM AckAwaited == Spec => []AckIsAwaitedWithTimeout
<1>1. Inv => AckIsAwaitedWithTimeout
  BY DEF Inv, Good, Awaited, Has, Queued, AckIsAwaitedWithTimeout, Peers
<1> QED
  BY <1>1, Invariance, PTL

\* Who has told what to whom is kept in every reachable state.
THEOREM HonestInvariance == Spec => []Honest
<1>1. Inv /\ Honest /\ [Next]_vars => Honest'
  BY NextHonest
<1> QED
  BY <1>1, InitHonest, Invariance, PTL DEF Spec

\* With any reordering, loss, copy and chain of redirects, the initiator is in
\* progress only with a JID that has called Accept(): the accept that
\* OnAcceptMessage takes is from remote_name_, and no redirect is followed later.
THEOREM AcceptFromRemote == Spec => []AcceptedByRemote
<1>1. Honest => AcceptedByRemote
  BY DEF Honest, Told, AcceptedByRemote, Peers
<1> QED
  BY <1>1, HonestInvariance, PTL

\* The media channels of a responder hear of one offer and then of one answer,
\* and are in progress only after both with every transport negotiated, whatever
\* copies of the initiate and of the accept arrive and in whatever order.
THEOREM ResponderHears == Spec => [](\A r \in Responders : Heard(r))
<1>1. Honest => \A r \in Responders : Heard(r)
  BY PeersAssumption DEF Honest, Told, Heard, Peers
<1> QED
  BY <1>1, HonestInvariance, PTL

\* An ended session of a responder never comes back to life: a late initiate
\* finds it in session_map_ and is refused, and an acknowledgement, which would
\* move it on, never comes to a peer that has not called.
THEOREM ResponderEnded == Spec => ResponderStaysEnded
<1>1. Inv /\ Honest /\ [Next]_vars => [StaysEnded]_vars
  BY NextHonest
<1> QED
  BY <1>1, Invariance, HonestInvariance, PTL DEF Spec, ResponderStaysEnded, StaysEnded

\* Unless the server redirects, every candidate a transport has gathered was put
\* on the wire to the peer the session talks to, or is kept for the
\* acknowledgement of the initiate, which flushes what unsent_candidates_ keeps:
\* with any reordering, loss, copy and bounce.  The hypothesis is needed, see the
\* README, section 9.
THEOREM CandidatesReach == "redirect" \notin Faults => (Spec => []NoCandidateStranded)
<1> SUFFICES ASSUME "redirect" \notin Faults
             PROVE  Spec => []NoCandidateStranded
  OBVIOUS
<1>1. Inv /\ Honest /\ Stored /\ [Next]_vars => Stored'
  BY NextStored
<1>2. Stored => NoCandidateStranded
  BY DEF Stored, Kept, NoCandidateStranded
<1> QED
  BY <1>1, <1>2, InitStored, Invariance, HonestInvariance, PTL DEF Spec

\* With a server that keeps the order, and neither loses nor redirects, the media
\* channels of every peer hear of one offer and then of at most one answer, and a
\* session is in progress only after both, with every transport negotiated: with
\* any copy, bounce and timeout.  The first two hypotheses are needed, see the
\* README, section 9.
THEOREM OneAnswer ==
    ~Reorder /\ Faults \cap {"lose", "redirect"} = {} => (Spec => []OneOfferOneAnswer)
<1> SUFFICES ASSUME ~Reorder, "lose" \notin Faults, "redirect" \notin Faults
             PROVE  Spec => []OneOfferOneAnswer
  OBVIOUS
<1>1. Inv /\ Honest /\ Stored /\ [Next]_vars => Stored'
  BY NextStored
<1>2. Inv /\ Honest /\ Stored /\ InTurn /\ [Next]_vars => InTurn'
  BY NextInTurn
<1>3. Honest /\ InTurn => OneOfferOneAnswer
  <2> SUFFICES ASSUME Honest, InTurn, NEW p \in Peers PROVE Heard(p)
    BY DEF OneOfferOneAnswer
  <2>1. CASE p = Initiator
    BY <2>1 DEF Honest, Told, InTurn, Called, Heard
  <2>2. CASE p # Initiator
    BY <2>2 DEF Honest, Told, Heard
  <2> QED
    BY <2>1, <2>2
<1> QED
  BY <1>1, <1>2, <1>3, InitStored, InitInTurn, Invariance, HonestInvariance, PTL DEF Spec
=============================================================================
