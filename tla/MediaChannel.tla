---------------------------- MODULE MediaChannel ----------------------------
(***************************************************************************)
(* The BaseChannel (talk/session/media/channel.cc) of one content at each  *)
(* end of a call, with its SrtpFilter and its RtcpMuxFilter.  The session  *)
(* of each end (WebRtcSession) says which descriptions it takes, and the   *)
(* applications carry them to each other in order.  A description is its   *)
(* crypto parameters and its RTCP mux flag; the codecs, streams and        *)
(* packets are left out.                                                   *)
(***************************************************************************)
EXTENDS Naturals, Sequences

CONSTANTS
    A, B,        \* the two ends
    Suites,      \* cipher suites (each with its tag)
    MaxKey,      \* different keys an end may put into its descriptions
    DtlsModes,   \* whether the transports run DTLS: a subset of BOOLEAN
    Outcomes,    \* what libsrtp may do: "ok", or refuse the "send" or "recv" key
    Conflict,    \* an end may be told to switch its ICE role while it connects
    MaxOffers,   \* offers in one call
    MaxNet,      \* descriptions on their way up to which an end sends more
    Repeat       \* an end may replace an offer that is not answered yet

ASSUME ChannelAssumption ==
    /\ A # B
    /\ {"none", "unkeyed", "dtls"} \cap Suites = {}
    /\ MaxKey \in Nat \ {0}
    /\ DtlsModes \subseteq BOOLEAN
    /\ Outcomes \subseteq {"ok", "send", "recv"}
    /\ Conflict \in BOOLEAN
    /\ MaxOffers \in Nat /\ MaxNet \in Nat /\ Repeat \in BOOLEAN

Ends == {A, B}
Other(e) == IF e = A THEN B ELSE A

VARIABLES
    ch,       \* end -> its channel, filters and session state
    net,      \* end -> descriptions on their way to it
    dtls,     \* the transports run DTLS
    offers    \* offers made so far

vars == <<ch, net, dtls, offers>>

-----------------------------------------------------------------------------
(* Crypto parameters: a cipher suite and the key of its owner.             *)

Param(suite, e, n) == [suite |-> suite, owner |-> e, n |-> n]
CryptoParams == [suite : Suites, owner : Ends, n : 1 .. MaxKey]
DtlsParams == [suite : {"dtls"}, owner : Ends, n : {0, 1}]
NoSession == Param("none", A, 0)     \* the pointer to the session is NULL
NoKey == Param("unkeyed", A, 0)      \* a session, or parameters, without key
Key == CryptoParams \cup DtlsParams \cup {NoSession, NoKey}

Matches(p, q) == p.suite = q.suite

SrtpState ==
    {"INIT", "SENTOFFER", "RECEIVEDOFFER", "SENTPRANSWER_NO_CRYPTO",
     "RECEIVEDPRANSWER_NO_CRYPTO", "ACTIVE", "SENTUPDATEDOFFER",
     "RECEIVEDUPDATEDOFFER", "SENTPRANSWER", "RECEIVEDPRANSWER"}

SrtpFilter ==
    [state : SrtpState, offer : SUBSET CryptoParams,
     send : Key, recv : Key,                      \* the keys of the sessions
     applied_send : Key, applied_recv : Key,
     send_rtcp : Key, recv_rtcp : Key]            \* of the RTCP sessions

NewSrtpFilter ==
    [state |-> "INIT", offer |-> {}, send |-> NoSession, recv |-> NoSession,
     applied_send |-> NoKey, applied_recv |-> NoKey,
     send_rtcp |-> NoSession, recv_rtcp |-> NoSession]

SrtpActive(f) ==
    f.state \in {"ACTIVE", "SENTUPDATEDOFFER", "RECEIVEDUPDATEDOFFER",
                 "SENTPRANSWER", "RECEIVEDPRANSWER"}

Done(f) == [ok |-> TRUE, filter |-> f]
Refused(f) == [ok |-> FALSE, filter |-> f]

ExpectSrtpOffer(f, source) ==
    \/ f.state \in {"INIT", "ACTIVE"}
    \/ f.state \in {"SENTOFFER", "SENTUPDATEDOFFER"} /\ source = "LOCAL"
    \/ f.state \in {"RECEIVEDOFFER", "RECEIVEDUPDATEDOFFER"} /\ source = "REMOTE"

\* A bug: nothing may follow a received provisional answer without crypto.
ExpectSrtpAnswerNarrow(f, source) ==
    \/ f.state \in {"SENTOFFER", "SENTUPDATEDOFFER", "RECEIVEDPRANSWER"}
       /\ source = "REMOTE"
    \/ f.state \in {"RECEIVEDOFFER", "RECEIVEDUPDATEDOFFER", "SENTPRANSWER",
                    "SENTPRANSWER_NO_CRYPTO"} /\ source = "LOCAL"

ExpectSrtpAnswer(f, source) ==
    \/ f.state \in {"SENTOFFER", "SENTUPDATEDOFFER", "RECEIVEDPRANSWER",
                    "RECEIVEDPRANSWER_NO_CRYPTO"} /\ source = "REMOTE"
    \/ f.state \in {"RECEIVEDOFFER", "RECEIVEDUPDATEDOFFER", "SENTPRANSWER",
                    "SENTPRANSWER_NO_CRYPTO"} /\ source = "LOCAL"

StoreParams(f, params, source) ==
    [f EXCEPT !.offer = params,
              !.state = IF @ = "INIT"
                        THEN IF source = "LOCAL" THEN "SENTOFFER"
                             ELSE "RECEIVEDOFFER"
                        ELSE IF source = "LOCAL" THEN "SENTUPDATEDOFFER"
                             ELSE "RECEIVEDUPDATEDOFFER"]

SetSrtpOffer(f, params, source) ==
    IF ExpectSrtpOffer(f, source) THEN Done(StoreParams(f, params, source))
    ELSE Refused(f)

\* A bug: new sessions leave the record of the applied parameters alone.
CreateSrtpSessionsOnly(f) == [f EXCEPT !.send = NoKey, !.recv = NoKey]

\* New sessions, without keys.
CreateSrtpSessions(f) ==
    [f EXCEPT !.send = NoKey, !.recv = NoKey,
              !.applied_send = NoKey, !.applied_recv = NoKey]

\* SetSend and SetRecv of new sessions; a refused send key ends the attempt.
InstallKeys(f, send, recv, outcome) ==
    [CreateSrtpSessions(f) EXCEPT
        !.send = IF outcome = "send" THEN NoKey ELSE send,
        !.recv = IF outcome = "ok" THEN recv ELSE NoKey]

\* Sessions with these keys, unless they have them already.
ApplyParams(f, send, recv, outcome) ==
    IF f.applied_send = send /\ f.applied_recv = recv THEN Done(f)
    ELSE IF outcome # "ok" THEN Refused(InstallKeys(f, send, recv, outcome))
    ELSE Done([InstallKeys(f, send, recv, outcome) EXCEPT
                  !.applied_send = send, !.applied_recv = recv])

ResetParams(f) == [f EXCEPT !.offer = {}, !.state = "INIT"]

\* The filter once the keys of an answer are applied.
Answered(f, source, final) ==
    [f EXCEPT !.offer = IF final THEN {} ELSE @,
              !.state = IF final THEN "ACTIVE"
                        ELSE IF source = "LOCAL" THEN "SENTPRANSWER"
                        ELSE "RECEIVEDPRANSWER"]

\* Which parameters encrypt what an end sends, and what it receives.
Negotiated(answer, offered, source) ==
    IF source = "REMOTE" THEN [send |-> offered, recv |-> answer]
    ELSE [send |-> answer, recv |-> offered]

\* An answer holds one set of parameters, which matches an offered one, or none.
DoSetAnswer(f, params, source, final, outcome) ==
    LET offered(p) == {q \in f.offer : Matches(p, q)}
        p   == CHOOSE x \in params : TRUE
        q   == CHOOSE y \in offered(p) : TRUE
        n   == Negotiated(p, q, source)
        res == ApplyParams(f, n.send, n.recv, outcome)
    IN  IF ~ExpectSrtpAnswer(f, source) THEN Refused(f)
        ELSE IF params = {}
        THEN Done(IF final THEN ResetParams(f)
                  ELSE [f EXCEPT !.state = IF source = "LOCAL"
                                           THEN "SENTPRANSWER_NO_CRYPTO"
                                           ELSE "RECEIVEDPRANSWER_NO_CRYPTO"])
        ELSE IF (\E x \in params : x # p) \/ offered(p) = {} THEN Refused(f)
        ELSE IF ~res.ok THEN res
        ELSE Done(Answered(res.filter, source, final))

\* A bug: the filter is active whatever libsrtp says.
SetRtpParamsUnchecked(f, sender, outcome) ==
    LET s == InstallKeys(f, Param("dtls", sender, 0),
                         Param("dtls", Other(sender), 0), outcome)
    IN  IF f.state = "ACTIVE" THEN Refused(f)
        ELSE Done([s EXCEPT !.state = "ACTIVE"])

\* The keys that DTLS made for the RTP packets, to send with that of "sender".
SetRtpParams(f, sender, outcome) ==
    LET s == InstallKeys(f, Param("dtls", sender, 0),
                         Param("dtls", Other(sender), 0), outcome)
    IN  IF f.state = "ACTIVE" THEN Refused(f)
        ELSE IF outcome # "ok" THEN Refused(s)
        ELSE Done([s EXCEPT !.state = "ACTIVE"])

\* The keys that DTLS made for the RTCP packets on a channel of their own.
SetRtcpParams(f, sender, outcome) ==
    LET s == [f EXCEPT
                !.send_rtcp = IF outcome = "send" THEN NoKey
                              ELSE Param("dtls", sender, 1),
                !.recv_rtcp = IF outcome = "ok"
                              THEN Param("dtls", Other(sender), 1)
                              ELSE IF outcome = "recv" THEN NoKey
                              ELSE @]
    IN  IF f.send_rtcp # NoSession \/ f.recv_rtcp # NoSession THEN Refused(f)
        ELSE IF outcome # "ok" THEN Refused(s) ELSE Done(s)

-----------------------------------------------------------------------------
(* RtcpMuxFilter.                                                          *)

MuxState ==
    {"INIT", "RECEIVEDOFFER", "SENTOFFER", "SENTPRANSWER", "RECEIVEDPRANSWER",
     "ACTIVE"}

MuxFilter == [state : MuxState, offer_enable : BOOLEAN]

NewMuxFilter == [state |-> "INIT", offer_enable |-> FALSE]

MuxActive(x) == x.state \in {"SENTPRANSWER", "RECEIVEDPRANSWER", "ACTIVE"}

ExpectMuxOffer(x, enable, source) ==
    \/ x.state = "INIT"
    \/ x.state = "ACTIVE" /\ enable = x.offer_enable
    \/ x.state = "SENTOFFER" /\ source = "LOCAL"
    \/ x.state = "RECEIVEDOFFER" /\ source = "REMOTE"

ExpectMuxAnswer(x, source) ==
    \/ x.state \in {"SENTOFFER", "RECEIVEDPRANSWER"} /\ source = "REMOTE"
    \/ x.state \in {"RECEIVEDOFFER", "SENTPRANSWER"} /\ source = "LOCAL"

SetMuxOffer(x, enable, source) ==
    IF ~ExpectMuxOffer(x, enable, source) THEN Refused(x)
    ELSE Done([state |-> IF source = "LOCAL" THEN "SENTOFFER"
                         ELSE "RECEIVEDOFFER",
               offer_enable |-> enable])

\* A provisional answer without mux goes back to waiting for an answer.
SetMuxProvisionalAnswer(x, enable, source) ==
    IF ~ExpectMuxAnswer(x, source) \/ (enable /\ ~x.offer_enable)
    THEN Refused(x)
    ELSE IF ~x.offer_enable THEN Done(x)
    ELSE Done([x EXCEPT
            !.state = IF enable
                      THEN IF source = "REMOTE" THEN "RECEIVEDPRANSWER"
                           ELSE "SENTPRANSWER"
                      ELSE IF source = "REMOTE" THEN "SENTOFFER"
                           ELSE "RECEIVEDOFFER"])

\* A final answer.
SetMuxAnswer(x, enable, source) ==
    IF ~ExpectMuxAnswer(x, source) \/ (enable /\ ~x.offer_enable)
    THEN Refused(x)
    ELSE Done([x EXCEPT !.state = IF enable THEN "ACTIVE" ELSE "INIT"])

-----------------------------------------------------------------------------
(* BaseChannel.                                                            *)

Action == {"OFFER", "PRANSWER", "ANSWER"}
Description ==
    [action : Action, cryptos : SUBSET CryptoParams, mux : BOOLEAN]

Component == {"rtp", "rtcp"}

\* WebRtcSession tells the states after an answer apart in no way that matters
\* here: they are all INPROGRESS.  FAILED: the session has an error.
Phase ==
    {"INIT", "SENTINITIATE", "RECEIVEDINITIATE", "SENTPRACCEPT",
     "RECEIVEDPRACCEPT", "INPROGRESS", "FAILED"}

Channel ==
    [phase : Phase,
     srtp : SrtpFilter, mux : MuxFilter,
     rtcp : BOOLEAN,              \* rtcp_transport_channel_ # NULL
     up : SUBSET Component,       \* transport channels that are writable
     open : SUBSET Component,     \* and those that were: their handshake is over
     ever : BOOLEAN,              \* was_ever_writable_
     both : BOOLEAN,              \* has a local and a remote description
     role : {"UNKNOWN", "CONTROLLING", "CONTROLLED"},   \* of its ICE transports
     dtls_role : {"UNKNOWN", "SERVER", "CLIENT"},       \* fixed by SetupDtls
     remote : [cryptos : SUBSET CryptoParams, mux : BOOLEAN]]   \* last offer

NewChannel ==
    [phase |-> "INIT", srtp |-> NewSrtpFilter, mux |-> NewMuxFilter,
     rtcp |-> TRUE, up |-> {}, open |-> {},
     ever |-> FALSE, both |-> FALSE,
     role |-> "UNKNOWN", dtls_role |-> "UNKNOWN",
     remote |-> [cryptos |-> {}, mux |-> FALSE]]

\* A bug: the role is not asked, and every end sends with the key of the client.
SenderIsClient(c, e) == IF c.dtls_role = "CLIENT" THEN e ELSE Other(e)

\* The end whose key is the one to send with: an end that controls ICE now takes
\* the key of the DTLS server, which is the end that controlled it when DTLS was
\* set up.
Sender(c, e) ==
    IF (c.role = "CONTROLLING") <=> (c.dtls_role = "SERVER") THEN e ELSE Other(e)

\* DTLS keys for RTP, then for RTCP while it has a transport of its own, whose
\* handshake must be over.  (Without DTLS both succeed and do nothing.)
SetupDtlsSrtp(c, e, outcome) ==
    LET rtp  == SetRtpParams(c.srtp, Sender(c, e), outcome["rtp"])
        rtcp == SetRtcpParams(rtp.filter, Sender(c, e), outcome["rtcp"])
    IN  IF ~rtp.ok \/ ~c.rtcp THEN rtp
        ELSE IF "rtcp" \notin c.open THEN Refused(rtp.filter)
        ELSE rtcp

\* The first time: later times, and times without DTLS, key nothing.
ChannelWritable_w(c, e, outcome) ==
    LET keyed == SetupDtlsSrtp(c, e, outcome)
    IN  IF c.ever \/ ~dtls THEN c
        ELSE IF keyed.ok THEN [c EXCEPT !.srtp = keyed.filter, !.ever = TRUE]
        ELSE [c EXCEPT !.srtp = keyed.filter, !.phase = "FAILED"]

SetSrtp_w(f, d, source, outcome) ==
    IF d.action = "OFFER" THEN SetSrtpOffer(f, d.cryptos, source)
    ELSE IF dtls THEN Done(f)
    ELSE DoSetAnswer(f, d.cryptos, source, d.action = "ANSWER", outcome["rtp"])

SetMux(x, d, source) ==
    CASE d.action = "OFFER"    -> SetMuxOffer(x, d.mux, source)
      [] d.action = "PRANSWER" -> SetMuxProvisionalAnswer(x, d.mux, source)
      [] d.action = "ANSWER"   -> SetMuxAnswer(x, d.mux, source)

NextPhase(action, source) ==
    CASE action = "ANSWER"                          -> "INPROGRESS"
      [] action = "OFFER" /\ source = "LOCAL"       -> "SENTINITIATE"
      [] action = "OFFER" /\ source = "REMOTE"      -> "RECEIVEDINITIATE"
      [] action = "PRANSWER" /\ source = "LOCAL"    -> "SENTPRACCEPT"
      [] action = "PRANSWER" /\ source = "REMOTE"   -> "RECEIVEDPRACCEPT"

\* A bug: the end that gets the answer keeps its RTCP transport.
ClosesRtcpWhenLocal(x, d, source) ==
    MuxActive(x) /\ d.action = "ANSWER" /\ source = "LOCAL"

\* A final answer that leaves mux active closes the RTCP transport.
ClosesRtcp(x, d, source) == MuxActive(x) /\ d.action = "ANSWER"

\* The transports are created with the first offer: the end that makes it is the
\* initiator, which controls.
IceRole(c, d, source) ==
    IF d.action # "OFFER" \/ c.role # "UNKNOWN" THEN c.role
    ELSE IF source = "LOCAL" THEN "CONTROLLING" ELSE "CONTROLLED"

\* The fingerprint of the first answer sets DTLS up, with the role of that time.
DtlsRole(c, d) ==
    IF d.action = "OFFER" \/ c.dtls_role # "UNKNOWN" THEN c.dtls_role
    ELSE IF c.role = "CONTROLLING" THEN "SERVER" ELSE "CLIENT"

\* A description is set on the channel: both filters see it, whether or not one
\* refuses it, and mux may make the channel writable.
SetContent(c, e, d, source, outcome) ==
    LET s  == SetSrtp_w(c.srtp, d, source, outcome)
        x  == SetMux(c.mux, d, source)
        on == x.ok /\ MuxActive(x.filter)
        closed == x.ok /\ ClosesRtcp(x.filter, d, source)
        c1 == [c EXCEPT !.srtp = s.filter, !.mux = x.filter,
                        !.rtcp = @ /\ ~closed,
                        !.up = IF closed THEN @ \ {"rtcp"} ELSE @,
                        !.both = @ \/ d.action # "OFFER",
                        !.role = IceRole(c, d, source),
                        !.dtls_role = DtlsRole(c, d),
                        !.phase = NextPhase(d.action, source)]
        c2 == IF on /\ "rtp" \in c.up THEN ChannelWritable_w(c1, e, outcome)
              ELSE c1
    IN  IF s.ok /\ x.ok THEN c2 ELSE [c2 EXCEPT !.phase = "FAILED"]

-----------------------------------------------------------------------------
(* The calls of the application, and the events of the transports.         *)

CanOffer(c) ==
    c.phase \in {"INIT", "INPROGRESS"} \/ (Repeat /\ c.phase = "SENTINITIATE")

OfferParams(e) ==
    {{}} \cup {{Param(s, e, n) : s \in Suites} : n \in 1 .. MaxKey}

\* With DTLS an answer has no parameters.
AnswerParams(e, offered) ==
    {{}} \cup {{Param(p.suite, e, n)} : p \in IF dtls THEN {} ELSE offered,
                                        n \in 1 .. MaxKey}

\* SetLocalDescription, then the description goes to the other end.
SetLocalDescription(e, d, outcome) ==
    LET c == SetContent(ch[e], e, d, "LOCAL", outcome)
    IN  /\ Len(net[Other(e)]) < MaxNet
        /\ ch' = [ch EXCEPT ![e] = c]
        /\ net' = [net EXCEPT ![Other(e)] =
                      IF c.phase = "FAILED" THEN @ ELSE Append(@, d)]
        /\ UNCHANGED dtls

Offer(e, params, mux) ==
    /\ CanOffer(ch[e])
    /\ offers < MaxOffers
    /\ offers' = offers + 1
    /\ SetLocalDescription(
          e, [action |-> "OFFER", cryptos |-> params, mux |-> mux],
          [part \in Component |-> "ok"])

Answer(e, action, params, mux, outcome) ==
    /\ action # "OFFER"
    /\ ch[e].phase \in {"RECEIVEDINITIATE", "SENTPRACCEPT"}
    /\ mux => ch[e].remote.mux
    /\ SetLocalDescription(
          e, [action |-> action, cryptos |-> params, mux |-> mux], outcome)
    /\ UNCHANGED offers

ExpectSetRemoteDescription(c, action) ==
    IF action = "OFFER" THEN c.phase \in {"INIT", "RECEIVEDINITIATE", "INPROGRESS"}
    ELSE c.phase \in {"SENTINITIATE", "RECEIVEDPRACCEPT"}

\* The next description comes; one that is not expected is refused.
SetRemoteDescription(e, outcome) ==
    LET d == Head(net[e])
        c == IF d.action = "OFFER"
             THEN [ch[e] EXCEPT !.remote = [cryptos |-> d.cryptos, mux |-> d.mux]]
             ELSE ch[e]
    IN  /\ net[e] # <<>>
        /\ net' = [net EXCEPT ![e] = Tail(@)]
        /\ IF ExpectSetRemoteDescription(ch[e], d.action)
           THEN ch' = [ch EXCEPT ![e] = SetContent(c, e, d, "REMOTE", outcome)]
           ELSE UNCHANGED ch
        /\ UNCHANGED <<dtls, offers>>

\* What the transports do before the channel has its keys.
Connecting(e) == dtls /\ ~ch[e].ever /\ ch[e].phase # "FAILED"

\* The other role; an end switches its role once.
Switched(c) ==
    CASE c.dtls_role = "SERVER" -> "CONTROLLED"
      [] c.dtls_role = "CLIENT" -> "CONTROLLING"
      [] OTHER                  -> c.role

\* A transport channel (external) becomes writable, which takes the
\* descriptions, and the channel, of both ends, and a server and a client.  The
\* pings before that may have made the end switch its role.
Writable(e, part, switch, outcome) ==
    LET c == [ch[e] EXCEPT !.up = @ \cup {part}, !.open = @ \cup {part},
                           !.role = IF switch THEN Switched(ch[e]) ELSE @]
    IN  /\ Connecting(e)
        /\ part \notin ch[e].up
        /\ \A x \in Ends : ch[x].both /\ (part = "rtcp" => ch[x].rtcp)
        /\ ch[A].dtls_role # ch[B].dtls_role
        /\ ch' = [ch EXCEPT ![e] =
                     IF "rtp" \in c.up /\ (c.rtcp => "rtcp" \in c.up)
                     THEN ChannelWritable_w(c, e, outcome) ELSE c]
        /\ UNCHANGED <<net, dtls, offers>>

NotWritable(e, part) ==
    /\ Connecting(e)
    /\ part \in ch[e].up
    /\ ch' = [ch EXCEPT ![e].up = @ \ {part}]
    /\ UNCHANGED <<net, dtls, offers>>

-----------------------------------------------------------------------------
Init ==
    /\ ch = [e \in Ends |-> NewChannel]
    /\ net = [e \in Ends |-> <<>>]
    /\ dtls \in DtlsModes
    /\ offers = 0

Next ==
    \E e \in Ends :
        \/ \E mux \in BOOLEAN, params \in OfferParams(e) : Offer(e, params, mux)
        \/ \E action \in Action, mux \in BOOLEAN,
              outcome \in [Component -> Outcomes] :
              \E params \in AnswerParams(e, ch[e].remote.cryptos) :
                  Answer(e, action, params, mux, outcome)
        \/ \E outcome \in [Component -> Outcomes] : SetRemoteDescription(e, outcome)
        \/ \E part \in Component, switch \in {FALSE, Conflict},
              outcome \in [Component -> Outcomes] :
              Writable(e, part, switch, outcome)
        \/ \E part \in Component : NotWritable(e, part)

Spec == Init /\ [][Next]_vars

-----------------------------------------------------------------------------
(* Properties.                                                             *)

\* Every variable holds what the code's declarations allow it to hold.
TypeOK ==
    /\ ch \in [Ends -> Channel]
    /\ net \in [Ends -> Seq(Description)]
    /\ dtls \in BOOLEAN
    /\ offers \in 0 .. MaxOffers

Keyed(f) == {f.send, f.recv} \cap {NoSession, NoKey} = {}

\* The parameters recorded as applied are those of the sessions in use, so
\* that ApplyParams, which does nothing when it is given them again, is right.
AppliedIsInstalled ==
    \A e \in Ends :
        LET f == ch[e].srtp
        IN  /\ f.applied_send # NoKey => f.send = f.applied_send
            /\ f.applied_recv # NoKey => f.recv = f.applied_recv

\* A filter whose answer was applied can protect and unprotect: it has both
\* sessions, with keys.
NegotiatedIsKeyed ==
    \A e \in Ends :
        ch[e].phase # "FAILED" /\
        ch[e].srtp.state \in {"ACTIVE", "SENTPRANSWER", "RECEIVEDPRANSWER"} =>
            Keyed(ch[e].srtp)

\* SrtpFilter::IsActive means that crypto has been properly negotiated.  It does
\* not hold: see the README, section 9.
ActiveIsKeyed ==
    \A e \in Ends :
        ch[e].phase # "FAILED" /\ SrtpActive(ch[e].srtp) => Keyed(ch[e].srtp)

\* Both ends have applied the last answer, and nothing is on its way.
Settled == \A e \in Ends : ch[e].phase = "INPROGRESS" /\ net[e] = <<>>

\* What one end encrypts with is what the other decrypts with, in both
\* directions, or neither encrypts; with DTLS, once both have become writable,
\* for RTCP too while it has transports of its own.  With DTLS it depends on the
\* ICE roles, which must be opposite and stay what they were when DTLS was set up:
\* see the README, section 9.
KeysAgree ==
    Settled /\ (dtls => \A e \in Ends : ch[e].ever) =>
        LET f == ch[A].srtp
            g == ch[B].srtp
        IN  /\ SrtpActive(f) <=> SrtpActive(g)
            /\ SrtpActive(f) => f.send = g.recv /\ f.recv = g.send
            /\ dtls /\ ch[A].rtcp /\ ch[B].rtcp =>
                  /\ f.send_rtcp = g.recv_rtcp /\ f.recv_rtcp = g.send_rtcp
                  /\ {f.send_rtcp, f.recv_rtcp} \cap {NoSession, NoKey} = {}

\* Both ends agree on where RTCP goes, and on whether it has a transport of its
\* own.
MuxAgrees ==
    Settled => /\ MuxActive(ch[A].mux) <=> MuxActive(ch[B].mux)
               /\ ch[A].rtcp <=> ch[B].rtcp

\* Without DTLS, the answer to an end's offer is never refused by its filters:
\* an end that waits for an answer does not fail, unless libsrtp does.
AnswerIsAccepted ==
    [][\A e \in Ends :
          /\ ~dtls
          /\ ch[e].phase \in {"SENTINITIATE", "RECEIVEDPRACCEPT"}
          /\ ch'[e].phase = "FAILED"
          => NoKey \in {ch'[e].srtp.send, ch'[e].srtp.recv}]_vars
=============================================================================
