------------------------- MODULE MediaChannelProofs -------------------------
(***************************************************************************)
(* Proofs about MediaChannel, for any cipher suites, number of keys and    *)
(* offers, with or without DTLS, repeated offers and failures of libsrtp:  *)
(* first what every filter keeps by itself, then what an offer and its     *)
(* answers leave in the filters of both ends, when no end replaces an      *)
(* offer that is not answered yet (Repeat is FALSE).                       *)
(***************************************************************************)
EXTENDS MediaChannel, SequenceTheorems, TLAPS

-----------------------------------------------------------------------------
(* The invariant, channel by channel.                                      *)

Applied(f) ==
    /\ f.applied_send # NoKey => f.send = f.applied_send
    /\ f.applied_recv # NoKey => f.recv = f.applied_recv

\* The states in which an answer is in force.
InForce(f) == f.state \in {"ACTIVE", "SENTPRANSWER", "RECEIVEDPRANSWER"}

Sound(f) == f \in SrtpFilter /\ Applied(f)

Typed(c) == c \in Channel /\ Applied(c.srtp)

Good(c) ==
    /\ Typed(c)
    /\ c.phase # "FAILED" /\ InForce(c.srtp) => Keyed(c.srtp)

Inv ==
    /\ TypeOK
    /\ \A e \in Ends : Good(ch[e])

\* What an operation on the filter gives: a sound filter, and keys when it
\* succeeds and leaves an answer in force.
GoodResult(r) ==
    /\ r.ok \in BOOLEAN
    /\ Sound(r.filter)
    /\ r.ok /\ InForce(r.filter) => Keyed(r.filter)

Outcome == {"ok", "send", "recv"}

\* What libsrtp makes of the keys for RTP and of those for RTCP.
Verdicts == [Component -> Outcome]

LEMMA VerdictFacts ==
    /\ \A v \in Verdicts : v["rtp"] \in Outcome /\ v["rtcp"] \in Outcome
    /\ [part \in Component |-> "ok"] \in Verdicts
    /\ [Component -> Outcomes] \subseteq Verdicts
  BY ChannelAssumption DEF Verdicts, Outcome, Component

-----------------------------------------------------------------------------
(* Keys.                                                                   *)

\* Parameters of a description, and those of DTLS, are neither of the two
\* values that stand for a missing session and a missing key.
LEMMA RealKeys ==
    /\ NoSession \in Key /\ NoKey \in Key /\ NoSession # NoKey
    /\ \A p \in CryptoParams \cup DtlsParams :
          p \in Key /\ p # NoSession /\ p # NoKey
    /\ \A e \in Ends : Param("dtls", e, 0) \in DtlsParams
                       /\ Param("dtls", e, 1) \in DtlsParams
    /\ \A e \in Ends : Other(e) \in Ends
  <1>1. A \in Ends /\ B \in Ends
    BY DEF Ends
  <1>2. \A p \in CryptoParams \cup DtlsParams : p # NoSession /\ p # NoKey
    <2>1. \A p \in CryptoParams : p.suite # "none" /\ p.suite # "unkeyed"
      BY ChannelAssumption DEF CryptoParams
    <2>2. \A p \in DtlsParams : p.suite = "dtls"
      BY DEF DtlsParams
    <2>3. NoSession.suite = "none" /\ NoKey.suite = "unkeyed"
      BY DEF NoSession, NoKey, Param
    <2> QED BY <2>1, <2>2, <2>3
  <1>3. NoSession # NoKey
    BY DEF NoSession, NoKey, Param
  <1>4. \A e \in Ends : Param("dtls", e, 0) \in DtlsParams
                        /\ Param("dtls", e, 1) \in DtlsParams
    BY DEF Param, DtlsParams
  <1>5. \A e \in Ends : Other(e) \in Ends
    BY DEF Other, Ends
  <1> QED BY <1>2, <1>3, <1>4, <1>5 DEF Key

\* Real parameters in both sessions key the filter.
LEMMA RealIsKeyed ==
    ASSUME NEW f, f.send \in CryptoParams \cup DtlsParams,
                  f.recv \in CryptoParams \cup DtlsParams
    PROVE  Keyed(f)
  BY RealKeys DEF Keyed

-----------------------------------------------------------------------------
(* SrtpFilter.                                                             *)

\* New sessions forget what was applied to the old ones.
LEMMA InstallIsSound ==
    ASSUME NEW f \in SrtpFilter,
           NEW send \in CryptoParams \cup DtlsParams,
           NEW recv \in CryptoParams \cup DtlsParams,
           NEW outcome \in Outcome
    PROVE  LET s == InstallKeys(f, send, recv, outcome)
           IN  /\ Sound(s)
               /\ s.applied_send = NoKey /\ s.applied_recv = NoKey
               /\ s.state = f.state
               /\ outcome = "ok" => s.send = send /\ s.recv = recv
  <1> DEFINE c == CreateSrtpSessions(f)
             s == InstallKeys(f, send, recv, outcome)
  <1>1. /\ c \in SrtpFilter /\ c.applied_send = NoKey /\ c.applied_recv = NoKey
        /\ c.state = f.state
    BY RealKeys DEF CreateSrtpSessions, SrtpFilter
  <1>2. s = [c EXCEPT !.send = IF outcome = "send" THEN NoKey ELSE send,
                      !.recv = IF outcome = "ok" THEN recv ELSE NoKey]
    BY DEF InstallKeys
  <1> HIDE DEF c, s
  <1>3. s \in SrtpFilter
    BY <1>1, <1>2, RealKeys DEF SrtpFilter
  <1>4. /\ s.applied_send = NoKey /\ s.applied_recv = NoKey
        /\ s.state = f.state
        /\ outcome = "ok" => s.send = send /\ s.recv = recv
    BY <1>1, <1>2 DEF SrtpFilter
  <1> QED BY <1>3, <1>4 DEF s, Sound, Applied

\* Applying parameters, or finding them applied, leaves the sessions with them.
LEMMA ApplyIsSound ==
    ASSUME NEW f, Sound(f),
           NEW send \in CryptoParams, NEW recv \in CryptoParams,
           NEW outcome \in Outcome
    PROVE  LET r == ApplyParams(f, send, recv, outcome)
           IN  /\ r.ok \in BOOLEAN
               /\ Sound(r.filter)
               /\ r.ok => r.filter.send = send /\ r.filter.recv = recv
  <1> DEFINE i == InstallKeys(f, send, recv, outcome)
             r == ApplyParams(f, send, recv, outcome)
             a == [i EXCEPT !.applied_send = send, !.applied_recv = recv]
  <1>1. f \in SrtpFilter /\ Applied(f)
    BY DEF Sound
  <1>2. /\ Sound(i)
        /\ outcome = "ok" => i.send = send /\ i.recv = recv
    BY <1>1, InstallIsSound
  <1> HIDE DEF i
  <1>3. CASE f.applied_send = send /\ f.applied_recv = recv
    <2>1. r = Done(f)
      BY <1>3 DEF ApplyParams
    <2>2. f.send = send /\ f.recv = recv
      BY <1>1, <1>3, RealKeys DEF Applied
    <2> QED BY <2>1, <2>2 DEF Done
  <1>4. CASE ~(f.applied_send = send /\ f.applied_recv = recv) /\ outcome # "ok"
    <2>1. r = Refused(i)
      BY <1>4 DEF ApplyParams, i
    <2> QED BY <2>1, <1>2 DEF Refused
  <1>5. CASE ~(f.applied_send = send /\ f.applied_recv = recv) /\ outcome = "ok"
    <2>1. r = Done(a)
      BY <1>5 DEF ApplyParams, i
    <2>2. i \in SrtpFilter /\ i.send = send /\ i.recv = recv
      BY <1>2, <1>5 DEF Sound
    <2>3. a \in SrtpFilter
      BY <2>2, RealKeys DEF SrtpFilter
    <2>4. a.send = send /\ a.recv = recv /\ a.applied_send = send
          /\ a.applied_recv = recv
      BY <2>2 DEF SrtpFilter
    <2>5. Sound(a)
      BY <2>3, <2>4 DEF Sound, Applied
    <2> HIDE DEF a
    <2> QED BY <2>1, <2>4, <2>5 DEF Done
  <1> QED BY <1>3, <1>4, <1>5

\* Results are good when their filters are.
LEMMA ResultIsGood ==
    ASSUME NEW f, Sound(f)
    PROVE  /\ GoodResult(Refused(f))
           /\ (InForce(f) => Keyed(f)) => GoodResult(Done(f))
  <1>1. Refused(f).ok = FALSE /\ Refused(f).filter = f
    BY DEF Refused
  <1>2. Done(f).ok = TRUE /\ Done(f).filter = f
    BY DEF Done
  <1>3. GoodResult(Refused(f))
    BY ONLY <1>1, Sound(f), Zenon DEF GoodResult
  <1>4. ASSUME InForce(f) => Keyed(f) PROVE GoodResult(Done(f))
    BY ONLY <1>2, <1>4, Sound(f), Zenon DEF GoodResult
  <1> QED BY <1>3, <1>4

\* An offer never puts an answer in force.
LEMMA OfferIsGood ==
    ASSUME NEW f, Sound(f), NEW params \in SUBSET CryptoParams, NEW source
    PROVE  GoodResult(SetSrtpOffer(f, params, source))
  <1> DEFINE g == StoreParams(f, params, source)
  <1>1. /\ g \in SrtpFilter /\ ~InForce(g)
        /\ g.send = f.send /\ g.recv = f.recv
        /\ g.applied_send = f.applied_send /\ g.applied_recv = f.applied_recv
    BY DEF Sound, StoreParams, SrtpFilter, SrtpState, InForce
  <1>2. Sound(g)
    BY <1>1 DEF Sound, Applied
  <1> HIDE DEF g
  <1>3. \/ SetSrtpOffer(f, params, source) = Refused(f)
        \/ SetSrtpOffer(f, params, source) = Done(g)
    BY DEF SetSrtpOffer, g
  <1>4. GoodResult(Refused(f)) /\ GoodResult(Done(g))
    BY <1>1, <1>2, ResultIsGood
  <1> QED BY <1>3, <1>4

\* An answer is in force only when its keys are in the sessions.
LEMMA AnswerIsGood ==
    ASSUME NEW f, Sound(f), NEW params \in SUBSET CryptoParams,
           NEW source \in {"LOCAL", "REMOTE"}, NEW final \in BOOLEAN,
           NEW outcome \in Outcome
    PROVE  GoodResult(DoSetAnswer(f, params, source, final, outcome))
  <1> DEFINE offered(x) == {y \in f.offer : Matches(x, y)}
             p   == CHOOSE x \in params : TRUE
             q   == CHOOSE y \in offered(p) : TRUE
             n   == Negotiated(p, q, source)
             res == ApplyParams(f, n.send, n.recv, outcome)
             pending == IF source = "LOCAL" THEN "SENTPRANSWER_NO_CRYPTO"
                        ELSE "RECEIVEDPRANSWER_NO_CRYPTO"
             r   == DoSetAnswer(f, params, source, final, outcome)
  <1>1. r = IF ~ExpectSrtpAnswer(f, source) THEN Refused(f)
            ELSE IF params = {}
            THEN Done(IF final THEN ResetParams(f)
                      ELSE [f EXCEPT !.state = pending])
            ELSE IF (\E x \in params : x # p) \/ offered(p) = {} THEN Refused(f)
            ELSE IF ~res.ok THEN res
            ELSE Done(Answered(res.filter, source, final))
    BY DEF DoSetAnswer
  <1>2. f \in SrtpFilter /\ f.offer \in SUBSET CryptoParams
    BY DEF Sound, SrtpFilter
  <1>3. GoodResult(Refused(f))
    BY ResultIsGood
  <1>4. CASE params = {}
    <2>1. {} \in SUBSET CryptoParams /\ "INIT" \in SrtpState
          /\ pending \in SrtpState
      BY DEF SrtpState
    <2>2. /\ ResetParams(f) \in SrtpFilter
          /\ Applied(ResetParams(f))
          /\ ResetParams(f).state = "INIT"
      BY <1>2, <2>1 DEF ResetParams, SrtpFilter, Sound, Applied
    <2>3. Sound(ResetParams(f)) /\ ResetParams(f).state = "INIT"
      BY <2>2 DEF Sound
    <2>4. /\ [f EXCEPT !.state = pending] \in SrtpFilter
          /\ Applied([f EXCEPT !.state = pending])
          /\ [f EXCEPT !.state = pending].state = pending
      BY <1>2, <2>1 DEF SrtpFilter, Sound, Applied
    <2>5. ~InForce(ResetParams(f)) /\ ~InForce([f EXCEPT !.state = pending])
      BY <2>3, <2>4 DEF InForce
    <2>6. /\ GoodResult(Done(ResetParams(f)))
          /\ GoodResult(Done([f EXCEPT !.state = pending]))
      BY <2>3, <2>4, <2>5, ResultIsGood DEF Sound
    <2>7. \/ r = Refused(f)
          \/ r = Done(ResetParams(f))
          \/ r = Done([f EXCEPT !.state = pending])
      BY <1>1, <1>4
    <2> HIDE DEF pending
    <2>8. GoodResult(r)
      <3> HIDE DEF r
      <3> QED BY <1>3, <2>6, <2>7
    <2> QED BY <2>8
  <1>5. CASE params # {} /\ offered(p) # {}
    <2>1. p \in CryptoParams /\ q \in CryptoParams
      <3>1. p \in params
        BY <1>5
      <3>2. q \in offered(p)
        BY <1>5
      <3> QED BY <3>1, <3>2, <1>2
    <2> HIDE DEF p, q
    <2>2. n.send \in CryptoParams /\ n.recv \in CryptoParams
      BY <2>1 DEF Negotiated
    <2> HIDE DEF n
    <2>3. /\ res.ok \in BOOLEAN /\ Sound(res.filter)
          /\ res.ok => res.filter.send = n.send /\ res.filter.recv = n.recv
      BY <2>2, ApplyIsSound
    <2> HIDE DEF res
    <2>4. ~res.ok => GoodResult(res)
      BY <2>3 DEF GoodResult
    <2>5. ASSUME res.ok PROVE GoodResult(Done(Answered(res.filter, source, final)))
      <3> DEFINE g == Answered(res.filter, source, final)
      <3>1. /\ res.filter.offer \in SUBSET CryptoParams
            /\ {} \in SUBSET CryptoParams
            /\ {"ACTIVE", "SENTPRANSWER", "RECEIVEDPRANSWER"} \subseteq SrtpState
        BY <2>3 DEF Sound, SrtpFilter, SrtpState
      <3>2. PICK offer \in SUBSET CryptoParams, state \in SrtpState :
                g = [res.filter EXCEPT !.offer = offer, !.state = state]
        BY <2>3, <3>1 DEF Answered, Sound, SrtpFilter
      <3> HIDE DEF g
      <3>3. Sound(g) /\ g.send = res.filter.send /\ g.recv = res.filter.recv
        <4>1. res.filter \in SrtpFilter /\ Applied(res.filter)
          BY <2>3 DEF Sound
        <4>2. /\ g \in SrtpFilter
              /\ g.send = res.filter.send /\ g.recv = res.filter.recv
              /\ g.applied_send = res.filter.applied_send
              /\ g.applied_recv = res.filter.applied_recv
          BY <3>2, <4>1 DEF SrtpFilter
        <4> QED BY <4>1, <4>2 DEF Sound, Applied
      <3>4. Keyed(g)
        BY <3>3, <2>2, <2>3, <2>5, RealIsKeyed
      <3> QED BY <3>3, <3>4, ResultIsGood DEF g
    <2>6. \/ r = Refused(f)
          \/ ~res.ok /\ r = res
          \/ res.ok /\ r = Done(Answered(res.filter, source, final))
      BY <1>1, <1>5, <2>3 DEF p, q, n, res
    <2>7. GoodResult(r)
      <3> HIDE DEF r, offered
      <3> QED BY <1>3, <2>4, <2>5, <2>6
    <2> QED BY <2>7
  <1>6. CASE params # {} /\ offered(p) = {}
    <2>1. r = Refused(f)
      BY <1>1, <1>6
    <2> QED BY <1>3, <2>1, Zenon
  <1> QED BY <1>4, <1>5, <1>6

\* The keys of DTLS make an active filter, or the channel fails.
LEMMA DtlsIsGood ==
    ASSUME NEW c, Typed(c), NEW e \in Ends, NEW outcome \in Verdicts
    PROVE  GoodResult(SetupDtlsSrtp(c, e, outcome))
  <1> DEFINE f == c.srtp
             x == Sender(c, e)
             y == Other(x)
             u == outcome["rtp"]
             v == outcome["rtcp"]
             own == Param("dtls", x, 0)
             his == Param("dtls", y, 0)
             i == InstallKeys(f, own, his, u)
             a == [i EXCEPT !.state = "ACTIVE"]
             rtp == SetRtpParams(f, x, u)
             rtcp == SetRtcpParams(rtp.filter, x, v)
  <1>0. /\ x \in Ends /\ y \in Ends /\ u \in Outcome /\ v \in Outcome
        /\ SetupDtlsSrtp(c, e, outcome) =
              IF ~rtp.ok \/ ~c.rtcp THEN rtp
              ELSE IF "rtcp" \notin c.open THEN Refused(rtp.filter)
              ELSE rtcp
    BY RealKeys, VerdictFacts DEF Sender, SetupDtlsSrtp
  <1> HIDE DEF x, u, v
  <1>1. Sound(f) /\ f \in SrtpFilter
    BY DEF Typed, Sound, Channel
  <1>2. own \in DtlsParams /\ his \in DtlsParams
    BY <1>0, RealKeys
  <1> HIDE DEF own, his
  <1>3. /\ Sound(i) /\ i \in SrtpFilter
        /\ u = "ok" => i.send = own /\ i.recv = his
    <2>1. /\ Sound(i)
          /\ u = "ok" => i.send = own /\ i.recv = his
      BY <1>0, <1>1, <1>2, InstallIsSound
    <2> QED BY <2>1 DEF Sound
  <1> HIDE DEF i
  <1>4. /\ Sound(a) /\ a.send = i.send /\ a.recv = i.recv
    <2>1. /\ a \in SrtpFilter /\ a.send = i.send /\ a.recv = i.recv
          /\ a.applied_send = i.applied_send /\ a.applied_recv = i.applied_recv
      BY <1>3 DEF SrtpFilter, SrtpState
    <2> HIDE DEF a
    <2> QED BY <2>1, <1>3 DEF Sound, Applied
  <1>5. u = "ok" => Keyed(a)
    <2> HIDE DEF a
    <2> QED BY <1>2, <1>3, <1>4, RealIsKeyed
  <1>6. \/ rtp = Refused(f)
        \/ rtp = Refused(i)
        \/ u = "ok" /\ rtp = Done(a)
    BY DEF SetRtpParams, i, own, his
  <1> HIDE DEF a, rtp
  <1>7. GoodResult(rtp) /\ (rtp.ok => Keyed(rtp.filter))
    <2>1. CASE rtp = Refused(f)
      BY <2>1, <1>1, ResultIsGood DEF Refused
    <2>2. CASE rtp = Refused(i)
      BY <2>2, <1>3, ResultIsGood DEF Refused
    <2>3. CASE u = "ok" /\ rtp = Done(a)
      <3>1. GoodResult(Done(a)) /\ Done(a).filter = a /\ Keyed(a)
        BY <2>3, <1>4, <1>5, ResultIsGood DEF Done
      <3> QED BY <3>1, <2>3
    <2> QED BY <2>1, <2>2, <2>3, <1>6
  <1>8. ASSUME rtp.ok PROVE GoodResult(rtcp)
    <2> DEFINE g == rtp.filter
               k == [g EXCEPT
                       !.send_rtcp = IF v = "send" THEN NoKey
                                     ELSE Param("dtls", x, 1),
                       !.recv_rtcp = IF v = "ok"
                                     THEN Param("dtls", y, 1)
                                     ELSE IF v = "recv" THEN NoKey ELSE @]
    <2>1. Sound(g) /\ g \in SrtpFilter /\ Keyed(g)
      BY <1>7, <1>8 DEF GoodResult, Sound
    <2> HIDE DEF g
    <2>2. /\ k \in SrtpFilter
          /\ k.send = g.send /\ k.recv = g.recv
          /\ k.applied_send = g.applied_send /\ k.applied_recv = g.applied_recv
      BY <1>0, <2>1, RealKeys DEF SrtpFilter
    <2>3. \/ rtcp = Refused(g)
          \/ rtcp = Refused(k)
          \/ rtcp = Done(k)
      BY DEF SetRtcpParams, g
    <2> HIDE DEF k, rtcp
    <2>4. Sound(k) /\ Keyed(k)
      BY <2>1, <2>2 DEF Sound, Applied, Keyed
    <2>5. GoodResult(Refused(g)) /\ GoodResult(Refused(k)) /\ GoodResult(Done(k))
      BY <2>1, <2>4, ResultIsGood
    <2> QED BY <2>3, <2>5
  <1>9. \/ SetupDtlsSrtp(c, e, outcome) = rtp
        \/ SetupDtlsSrtp(c, e, outcome) = Refused(rtp.filter)
        \/ rtp.ok /\ SetupDtlsSrtp(c, e, outcome) = rtcp
    BY <1>0
  <1>10. GoodResult(Refused(rtp.filter))
    BY <1>7, ResultIsGood DEF GoodResult
  <1> HIDE DEF rtcp
  <1> QED BY <1>7, <1>8, <1>9, <1>10

-----------------------------------------------------------------------------
(* BaseChannel.                                                            *)

\* A channel stays typed when it becomes writable; the sessions of a good one
\* have keys after that, or it has failed.
LEMMA WritableIsGood ==
    ASSUME NEW c, Typed(c), NEW e \in Ends, NEW outcome \in Verdicts
    PROVE  /\ Typed(ChannelWritable_w(c, e, outcome))
           /\ Good(c) => Good(ChannelWritable_w(c, e, outcome))
  <1> DEFINE keyed == SetupDtlsSrtp(c, e, outcome)
             w == ChannelWritable_w(c, e, outcome)
             yes == [c EXCEPT !.srtp = keyed.filter, !.ever = TRUE]
             no == [c EXCEPT !.srtp = keyed.filter, !.phase = "FAILED"]
  <1>1. c \in Channel /\ Applied(c.srtp)
    BY DEF Typed
  <1>2. /\ keyed.filter \in SrtpFilter /\ Applied(keyed.filter)
        /\ keyed.ok /\ InForce(keyed.filter) => Keyed(keyed.filter)
    BY DtlsIsGood DEF GoodResult, Sound
  <1>3. \/ w = c
        \/ keyed.ok /\ w = yes
        \/ w = no
    BY DEF ChannelWritable_w
  <1> HIDE DEF keyed
  <1>4. /\ yes \in Channel /\ yes.srtp = keyed.filter
        /\ no \in Channel /\ no.srtp = keyed.filter /\ no.phase = "FAILED"
    BY <1>1, <1>2 DEF Channel, Phase
  <1> HIDE DEF yes, no
  <1>5. Typed(yes) /\ Typed(no)
    BY <1>2, <1>4 DEF Typed
  <1>6. keyed.ok => Good(yes)
    BY <1>2, <1>4, <1>5 DEF Good
  <1>7. Good(no)
    BY <1>4, <1>5 DEF Good
  <1>8. Typed(w) /\ (Good(c) => Good(w))
    <2> HIDE DEF w
    <2> QED BY <1>3, <1>5, <1>6, <1>7
  <1> QED BY <1>8

\* The RTCP mux filter stays typed.
LEMMA MuxIsTyped ==
    ASSUME NEW x \in MuxFilter, NEW d \in Description,
           NEW source \in {"LOCAL", "REMOTE"}
    PROVE  /\ SetMux(x, d, source).ok \in BOOLEAN
           /\ SetMux(x, d, source).filter \in MuxFilter
  <1> DEFINE r == SetMux(x, d, source)
  <1>1. d.action \in Action /\ d.mux \in BOOLEAN
    BY DEF Description
  <1>2. CASE d.action = "OFFER"
    <2>1. r = SetMuxOffer(x, d.mux, source)
      BY <1>2 DEF SetMux
    <2> QED BY <2>1, <1>1 DEF SetMuxOffer, Done, Refused, MuxFilter, MuxState
  <1>3. CASE d.action = "PRANSWER"
    <2>1. r = SetMuxProvisionalAnswer(x, d.mux, source)
      BY <1>3 DEF SetMux
    <2> QED BY <2>1, <1>1 DEF SetMuxProvisionalAnswer, Done, Refused, MuxFilter,
                              MuxState
  <1>4. CASE d.action = "ANSWER"
    <2>1. r = SetMuxAnswer(x, d.mux, source)
      BY <1>4 DEF SetMux
    <2> QED BY <2>1, <1>1 DEF SetMuxAnswer, Done, Refused, MuxFilter, MuxState
  <1> QED BY <1>1, <1>2, <1>3, <1>4 DEF Action

\* A description leaves the SRTP filter in order, or is refused.
LEMMA SrtpIsGood ==
    ASSUME NEW f, Sound(f), InForce(f) => Keyed(f), NEW d \in Description,
           NEW source \in {"LOCAL", "REMOTE"}, NEW outcome \in Verdicts
    PROVE  GoodResult(SetSrtp_w(f, d, source, outcome))
  <1>1. d.cryptos \in SUBSET CryptoParams
    BY DEF Description
  <1>2. CASE d.action = "OFFER"
    BY <1>1, <1>2, OfferIsGood DEF SetSrtp_w
  <1>3. CASE d.action # "OFFER" /\ dtls
    BY <1>3, ResultIsGood DEF SetSrtp_w
  <1>4. CASE d.action # "OFFER" /\ ~dtls
    <2> DEFINE final == (d.action = "ANSWER")
    <2>1. final \in BOOLEAN
      OBVIOUS
    <2>2. SetSrtp_w(f, d, source, outcome)
            = DoSetAnswer(f, d.cryptos, source, final, outcome["rtp"])
      BY <1>4 DEF SetSrtp_w
    <2> HIDE DEF final
    <2> QED BY <1>1, <2>1, <2>2, VerdictFacts, AnswerIsGood
  <1> QED BY <1>2, <1>3, <1>4

\* The roles are roles.
LEMMA RolesTyped ==
    ASSUME NEW c \in Channel, NEW d, NEW source
    PROVE  /\ IceRole(c, d, source) \in {"UNKNOWN", "CONTROLLING", "CONTROLLED"}
           /\ DtlsRole(c, d) \in {"UNKNOWN", "SERVER", "CLIENT"}
           /\ Switched(c) \in {"UNKNOWN", "CONTROLLING", "CONTROLLED"}
  <1>1. /\ c.role \in {"UNKNOWN", "CONTROLLING", "CONTROLLED"}
        /\ c.dtls_role \in {"UNKNOWN", "SERVER", "CLIENT"}
    BY DEF Channel
  <1>2. \/ c.dtls_role = "SERVER" /\ Switched(c) = "CONTROLLED"
        \/ c.dtls_role = "CLIENT" /\ Switched(c) = "CONTROLLING"
        \/ c.dtls_role = "UNKNOWN" /\ Switched(c) = c.role
    BY <1>1 DEF Switched
  <1> QED BY <1>1, <1>2 DEF IceRole, DtlsRole

\* Setting a description keeps a channel that has not failed in order.
LEMMA ContentIsGood ==
    ASSUME NEW c, Good(c), c.phase # "FAILED", NEW e \in Ends,
           NEW d \in Description, NEW source \in {"LOCAL", "REMOTE"},
           NEW outcome \in Verdicts
    PROVE  Good(SetContent(c, e, d, source, outcome))
  <1> DEFINE s  == SetSrtp_w(c.srtp, d, source, outcome)
             x  == SetMux(c.mux, d, source)
             on == x.ok /\ MuxActive(x.filter)
             closed == x.ok /\ ClosesRtcp(x.filter, d, source)
             c1 == [c EXCEPT !.srtp = s.filter, !.mux = x.filter,
                             !.rtcp = @ /\ ~closed,
                             !.up = IF closed THEN @ \ {"rtcp"} ELSE @,
                             !.both = @ \/ d.action # "OFFER",
                             !.role = IceRole(c, d, source),
                             !.dtls_role = DtlsRole(c, d),
                             !.phase = NextPhase(d.action, source)]
             c2 == IF on /\ "rtp" \in c.up THEN ChannelWritable_w(c1, e, outcome)
                   ELSE c1
             failed == [c2 EXCEPT !.phase = "FAILED"]
  <1>1. c \in Channel /\ Sound(c.srtp) /\ (InForce(c.srtp) => Keyed(c.srtp))
    BY DEF Good, Typed, Sound, Channel
  <1>2. c.mux \in MuxFilter
    BY <1>1 DEF Channel
  <1>3. /\ s.filter \in SrtpFilter /\ Applied(s.filter)
        /\ s.ok /\ InForce(s.filter) => Keyed(s.filter)
    BY <1>1, SrtpIsGood DEF GoodResult, Sound
  <1>4. x.filter \in MuxFilter
    BY <1>2, MuxIsTyped
  <1>5. NextPhase(d.action, source) \in Phase
    BY DEF NextPhase, Phase, Description, Action
  <1>6. IF s.ok /\ x.ok THEN SetContent(c, e, d, source, outcome) = c2
        ELSE SetContent(c, e, d, source, outcome) = failed
    BY DEF SetContent
  <1> HIDE DEF s, x, on, closed
  <1>7. c1 \in Channel /\ c1.srtp = s.filter
    <2> DEFINE now == NextPhase(d.action, source)
               up == IF closed THEN c.up \ {"rtcp"} ELSE c.up
               rtcp == c.rtcp /\ ~closed
               both == c.both \/ d.action # "OFFER"
               ice == IceRole(c, d, source)
               role == DtlsRole(c, d)
    <2>1. c1 = [c EXCEPT !.srtp = s.filter, !.mux = x.filter, !.rtcp = rtcp,
                         !.up = up, !.both = both, !.role = ice,
                         !.dtls_role = role, !.phase = now]
      BY <1>1 DEF Channel
    <2>2. rtcp \in BOOLEAN /\ both \in BOOLEAN /\ up \in SUBSET Component
          /\ now \in Phase
      BY <1>1, <1>5 DEF Channel
    <2>3. /\ ice \in {"UNKNOWN", "CONTROLLING", "CONTROLLED"}
          /\ role \in {"UNKNOWN", "SERVER", "CLIENT"}
      BY <1>1, RolesTyped
    <2> HIDE DEF now, up, rtcp, both, ice, role, c1
    <2> QED BY <1>1, <1>3, <1>4, <2>1, <2>2, <2>3 DEF Channel
  <1> HIDE DEF c1
  <1>8. Typed(c1) /\ (s.ok => Good(c1))
    BY <1>3, <1>7 DEF Typed, Good
  <1>9. Typed(c2) /\ (s.ok => Good(c2))
    BY <1>8, WritableIsGood
  <1> HIDE DEF c2
  <1>10. Good(failed)
    <2>1. failed \in Channel /\ failed.srtp = c2.srtp /\ failed.phase = "FAILED"
      BY <1>9 DEF Typed, Channel, Phase
    <2> HIDE DEF failed
    <2> QED BY <1>9, <2>1 DEF Typed, Good
  <1> HIDE DEF failed
  <1> QED BY <1>6, <1>9, <1>10

-----------------------------------------------------------------------------
(* The specification.                                                      *)

\* What the calls put into descriptions is a description.
LEMMA ParamsAreTyped ==
    ASSUME NEW e \in Ends
    PROVE  /\ OfferParams(e) \subseteq SUBSET CryptoParams
           /\ \A offered \in SUBSET CryptoParams :
                 AnswerParams(e, offered) \subseteq SUBSET CryptoParams
  <1>1. \A s \in Suites, n \in 1 .. MaxKey : Param(s, e, n) \in CryptoParams
    BY DEF Param, CryptoParams
  <1>2. \A p \in CryptoParams : p.suite \in Suites
    BY DEF CryptoParams
  <1> QED BY <1>1, <1>2 DEF OfferParams, AnswerParams

LEMMA InitIsGood == Init => Inv
  <1> SUFFICES ASSUME Init PROVE Inv
    OBVIOUS
  <1>1. NewSrtpFilter \in SrtpFilter /\ Applied(NewSrtpFilter)
        /\ ~InForce(NewSrtpFilter)
    BY RealKeys DEF NewSrtpFilter, SrtpFilter, SrtpState, Applied, InForce
  <1>2. NewMuxFilter \in MuxFilter
    BY DEF NewMuxFilter, MuxFilter, MuxState
  <1>3. NewChannel \in Channel /\ NewChannel.srtp = NewSrtpFilter
    BY <1>1, <1>2 DEF NewChannel, Channel, Phase
  <1>4. Good(NewChannel)
    BY <1>1, <1>3 DEF Good, Typed
  <1>5. /\ ch \in [Ends -> Channel]
        /\ \A e \in Ends : ch[e] = NewChannel
    BY <1>3 DEF Init
  <1>6. net \in [Ends -> Seq(Description)]
    BY DEF Init
  <1>7. dtls \in BOOLEAN /\ offers \in 0 .. MaxOffers
    BY ChannelAssumption DEF Init
  <1> QED BY <1>4, <1>5, <1>6, <1>7 DEF Inv, TypeOK

\* Replacing the channel of one end by a good one keeps all good.
LEMMA ReplaceIsGood ==
    ASSUME Inv, NEW e \in Ends, NEW c, Good(c), ch' = [ch EXCEPT ![e] = c]
    PROVE  ch' \in [Ends -> Channel] /\ \A x \in Ends : Good(ch'[x])
  <1>1. c \in Channel
    BY DEF Good, Typed
  <1>2. ch \in [Ends -> Channel] /\ \A x \in Ends : Good(ch[x])
    BY DEF Inv, TypeOK
  <1>3. ch' \in [Ends -> Channel]
    BY <1>1, <1>2
  <1>4. \A x \in Ends : ch'[x] = IF x = e THEN c ELSE ch[x]
    BY <1>2
  <1> QED BY <1>2, <1>3, <1>4

\* A description an end sets is applied to its channel and sent.
LEMMA LocalIsGood ==
    ASSUME Inv, NEW e \in Ends, NEW d \in Description,
           NEW outcome \in Verdicts, ch[e].phase # "FAILED",
           SetLocalDescription(e, d, outcome), offers' \in 0 .. MaxOffers
    PROVE  Inv'
  <1> DEFINE c == SetContent(ch[e], e, d, "LOCAL", outcome)
             o == Other(e)
  <1>1. Good(ch[e]) /\ net \in [Ends -> Seq(Description)] /\ dtls \in BOOLEAN
    BY DEF Inv, TypeOK
  <1>2. Good(c)
    BY <1>1, ContentIsGood
  <1>3. /\ ch' = [ch EXCEPT ![e] = c]
        /\ net' = [net EXCEPT ![o] =
                      IF c.phase = "FAILED" THEN net[o] ELSE Append(net[o], d)]
        /\ dtls' = dtls
    BY <1>1 DEF SetLocalDescription
  <1> HIDE DEF c
  <1>4. ch' \in [Ends -> Channel] /\ \A x \in Ends : Good(ch'[x])
    BY <1>2, <1>3, ReplaceIsGood
  <1>5. o \in Ends
    BY RealKeys
  <1> HIDE DEF o
  <1>6. net' \in [Ends -> Seq(Description)]
    <2>1. net[o] \in Seq(Description) /\ Append(net[o], d) \in Seq(Description)
      BY <1>1, <1>5
    <2> QED BY <1>1, <1>3, <2>1
  <1> QED BY <1>1, <1>3, <1>4, <1>6 DEF Inv, TypeOK

LEMMA StepIsGood == Inv /\ [Next]_vars => Inv'
  <1> SUFFICES ASSUME Inv, [Next]_vars PROVE Inv'
    OBVIOUS
  <1>1. /\ ch \in [Ends -> Channel] /\ net \in [Ends -> Seq(Description)]
        /\ dtls \in BOOLEAN /\ offers \in 0 .. MaxOffers
        /\ \A e \in Ends : Good(ch[e])
    BY DEF Inv, TypeOK
  <1>2. [part \in Component |-> "ok"] \in Verdicts
        /\ [Component -> Outcomes] \subseteq Verdicts
    BY VerdictFacts
  <1>3. CASE UNCHANGED vars
    BY <1>3, <1>1 DEF vars, Inv, TypeOK
  <1>4. ASSUME NEW e \in Ends, NEW mux \in BOOLEAN, NEW params \in OfferParams(e),
               Offer(e, params, mux)
        PROVE  Inv'
    <2> DEFINE d == [action |-> "OFFER", cryptos |-> params, mux |-> mux]
    <2>1. d \in Description
      BY ParamsAreTyped DEF Description, Action
    <2>2. SetLocalDescription(e, d, [part \in Component |-> "ok"])
      BY <1>4 DEF Offer
    <2>3. ch[e].phase # "FAILED" /\ offers' \in 0 .. MaxOffers
      BY <1>1, <1>4, ChannelAssumption DEF Offer, CanOffer
    <2> HIDE DEF d
    <2> QED BY <1>2, <2>1, <2>2, <2>3, LocalIsGood
  <1>5. ASSUME NEW e \in Ends, NEW action \in Action, NEW mux \in BOOLEAN,
               NEW outcome \in [Component -> Outcomes],
               NEW params \in AnswerParams(e, ch[e].remote.cryptos),
               Answer(e, action, params, mux, outcome)
        PROVE  Inv'
    <2> DEFINE d == [action |-> action, cryptos |-> params, mux |-> mux]
    <2>1. ch[e].remote.cryptos \in SUBSET CryptoParams
      BY <1>1 DEF Channel
    <2>2. params \in SUBSET CryptoParams
      BY <2>1, ParamsAreTyped
    <2>3. d \in Description
      BY <2>2 DEF Description
    <2>4. SetLocalDescription(e, d, outcome)
      BY <1>5 DEF Answer
    <2>5. ch[e].phase # "FAILED" /\ offers' \in 0 .. MaxOffers
      BY <1>1, <1>5 DEF Answer
    <2> HIDE DEF d
    <2> QED BY <1>2, <2>3, <2>4, <2>5, LocalIsGood
  <1>6. ASSUME NEW e \in Ends, NEW outcome \in [Component -> Outcomes],
               SetRemoteDescription(e, outcome)
        PROVE  Inv'
    <2> DEFINE d == Head(net[e])
               noted == [ch[e] EXCEPT !.remote = [cryptos |-> d.cryptos,
                                                  mux |-> d.mux]]
               c == IF d.action = "OFFER" THEN noted ELSE ch[e]
               s == SetContent(c, e, d, "REMOTE", outcome)
    <2>1. /\ net[e] \in Seq(Description) /\ net[e] # <<>>
          /\ net' = [net EXCEPT ![e] = Tail(net[e])]
          /\ dtls' = dtls /\ offers' = offers
      BY <1>1, <1>6 DEF SetRemoteDescription
    <2>2. d \in Description /\ Tail(net[e]) \in Seq(Description)
      BY <2>1, HeadTailProperties
    <2>3. net' \in [Ends -> Seq(Description)]
      BY <1>1, <2>1, <2>2
    <2>4. ASSUME ExpectSetRemoteDescription(ch[e], d.action),
                 ch' = [ch EXCEPT ![e] = s]
          PROVE  ch' \in [Ends -> Channel] /\ \A x \in Ends : Good(ch'[x])
      <3>1. ch[e].phase # "FAILED"
        BY <2>4 DEF ExpectSetRemoteDescription
      <3> HIDE DEF d
      <3>2. Good(ch[e]) /\ ch[e] \in Channel
        BY <1>1
      <3>3. d.cryptos \in SUBSET CryptoParams /\ d.mux \in BOOLEAN
        BY <2>2 DEF Description
      <3>4. /\ noted \in Channel /\ noted.srtp = ch[e].srtp
            /\ noted.phase = ch[e].phase
        BY <3>2, <3>3 DEF Channel
      <3> HIDE DEF noted
      <3>5. Good(noted)
        BY <3>2, <3>4 DEF Good, Typed
      <3>6. Good(c) /\ c.phase # "FAILED"
        BY <3>1, <3>2, <3>4, <3>5
      <3> HIDE DEF c
      <3>7. Good(s)
        BY <1>2, <2>2, <3>6, ContentIsGood
      <3> HIDE DEF s
      <3> QED BY <2>4, <3>7, ReplaceIsGood
    <2>5. \/ ExpectSetRemoteDescription(ch[e], d.action)
             /\ ch' = [ch EXCEPT ![e] = s]
          \/ ch' = ch
      BY <1>6 DEF SetRemoteDescription
    <2> HIDE DEF d, s
    <2> QED BY <1>1, <2>1, <2>3, <2>4, <2>5 DEF Inv, TypeOK
  <1>7. ASSUME NEW e \in Ends, NEW part \in Component,
               NEW switch \in {FALSE, Conflict},
               NEW outcome \in [Component -> Outcomes],
               Writable(e, part, switch, outcome)
        PROVE  Inv'
    <2> DEFINE role == IF switch THEN Switched(ch[e]) ELSE ch[e].role
               c == [ch[e] EXCEPT !.up = @ \cup {part}, !.open = @ \cup {part},
                                  !.role = role]
               w == ChannelWritable_w(c, e, outcome)
    <2>0. c = [ch[e] EXCEPT !.up = @ \cup {part}, !.open = @ \cup {part},
                            !.role = IF switch THEN Switched(ch[e]) ELSE @]
      BY <1>1 DEF Channel
    <2>1. \/ ch' = [ch EXCEPT ![e] = w]
          \/ ch' = [ch EXCEPT ![e] = c]
      BY <1>7, <2>0 DEF Writable
    <2>2. net' = net /\ dtls' = dtls /\ offers' = offers
      BY <1>7 DEF Writable
    <2>3. c \in Channel /\ c.srtp = ch[e].srtp /\ c.phase = ch[e].phase
      <3>1. role \in {"UNKNOWN", "CONTROLLING", "CONTROLLED"}
        BY <1>1, RolesTyped DEF Channel
      <3> HIDE DEF role
      <3> QED BY <1>1, <3>1 DEF Channel
    <2> HIDE DEF c
    <2>4. Good(c) /\ Typed(c)
      BY <1>1, <2>3 DEF Good, Typed
    <2>5. Good(w)
      BY <1>2, <2>4, WritableIsGood
    <2> HIDE DEF w
    <2>6. ch' \in [Ends -> Channel] /\ \A x \in Ends : Good(ch'[x])
      BY <2>1, <2>4, <2>5, ReplaceIsGood
    <2> QED BY <1>1, <2>2, <2>6 DEF Inv, TypeOK
  <1>8. ASSUME NEW e \in Ends, NEW part \in Component, NotWritable(e, part)
        PROVE  Inv'
    <2> DEFINE c == [ch[e] EXCEPT !.up = @ \ {part}]
    <2>1. /\ ch' = [ch EXCEPT ![e] = c]
          /\ net' = net /\ dtls' = dtls /\ offers' = offers
      BY <1>1, <1>8 DEF NotWritable, Channel
    <2>2. c \in Channel /\ c.srtp = ch[e].srtp /\ c.phase = ch[e].phase
      BY <1>1 DEF Channel
    <2> HIDE DEF c
    <2>3. Good(c)
      BY <1>1, <2>2 DEF Good, Typed
    <2>4. ch' \in [Ends -> Channel] /\ \A x \in Ends : Good(ch'[x])
      BY <2>1, <2>3, ReplaceIsGood
    <2> QED BY <1>1, <2>1, <2>4 DEF Inv, TypeOK
  <1> QED BY <1>3, <1>4, <1>5, <1>6, <1>7, <1>8 DEF Next

\* Every reachable state is typed and each of its channels in order: the record
\* of the applied parameters is that of the sessions in use, and an answer in
\* force has keys in both sessions.
THEOREM Invariance == Spec => []Inv
  <1>1. Init => Inv
    BY InitIsGood
  <1>2. Inv /\ [Next]_vars => Inv'
    BY StepIsGood
  <1> QED BY <1>1, <1>2, PTL DEF Spec

\* The variables keep their types.
THEOREM TypeCorrect == Spec => []TypeOK
  <1>1. Inv => TypeOK
    BY DEF Inv
  <1> QED BY <1>1, Invariance, PTL

\* ApplyParams does nothing only when the sessions in use have the parameters
\* it is given, whatever was negotiated, refused or reset before.
THEOREM AppliedInstalled == Spec => []AppliedIsInstalled
  <1>1. Inv => AppliedIsInstalled
    BY DEF Inv, Good, Typed, Applied, AppliedIsInstalled
  <1> QED BY <1>1, Invariance, PTL

\* A filter in which an answer is in force has both sessions with keys, unless
\* the session has an error, for every order of descriptions, DTLS handshakes
\* and failures of libsrtp.
THEOREM NegotiatedKeyed == Spec => []NegotiatedIsKeyed
  <1>1. Inv => NegotiatedIsKeyed
    BY DEF Inv, Good, InForce, NegotiatedIsKeyed
  <1> QED BY <1>1, Invariance, PTL

-----------------------------------------------------------------------------
(* The invariant: how far the two ends are with an offer.                  *)

\* An end waits for an answer, owes one, or neither.
Asks(c) == c.phase \in {"SENTINITIATE", "RECEIVEDPRACCEPT"}
Owes(c) == c.phase \in {"RECEIVEDINITIATE", "SENTPRACCEPT"}
Rests(c) == c.phase \in {"INIT", "INPROGRESS"}

All(n, action) == \A i \in DOMAIN n : n[i].action = action

\* What a final answer leaves in the filter of an end.
Concluded(f, offer, params, source) ==
    LET p == CHOOSE x \in params : TRUE
        q == CHOOSE y \in {z \in offer : Matches(p, z)} : TRUE
        n == Negotiated(p, q, source)
    IN  /\ SrtpActive(f) <=> params # {}
        /\ params # {} => f.send = n.send /\ f.recv = n.recv

SameKeys(f, g) ==
    /\ SrtpActive(f) <=> SrtpActive(g)
    /\ SrtpActive(f) => f.send = g.recv /\ f.recv = g.send

SameRtcpKeys(f, g) ==
    /\ f.send_rtcp = g.recv_rtcp /\ f.recv_rtcp = g.send_rtcp
    /\ {f.send_rtcp, f.recv_rtcp} \cap {NoSession, NoKey} = {}

Offered(c, d) == c.srtp.offer = d.cryptos /\ c.mux.offer_enable = d.mux

SameOffer(c, k) ==
    /\ c.srtp.offer = k.srtp.offer
    /\ c.mux.offer_enable = k.mux.offer_enable

\* The stages of a negotiation between c, with nc on its way to it, and k:
\* nothing is negotiated;
Idle(c, k, nc, nk) ==
    /\ Rests(c) /\ Rests(k) /\ nc = <<>> /\ nk = <<>>
    /\ c.rtcp <=> k.rtcp
    /\ MuxActive(c.mux) <=> MuxActive(k.mux)
    /\ ~dtls => SameKeys(c.srtp, k.srtp)

\* the offer of c is on its way to k;
Offering(c, k, nc, nk) ==
    /\ c.phase = "SENTINITIATE" /\ Rests(k) /\ nc = <<>>
    /\ Len(nk) = 1 /\ nk[1].action = "OFFER" /\ Offered(c, nk[1])
    /\ c.rtcp <=> k.rtcp

\* k has it, and has given provisional answers at most;
Answering(c, k, nc, nk) ==
    /\ Asks(c) /\ Owes(k) /\ nk = <<>> /\ All(nc, "PRANSWER")
    /\ SameOffer(c, k)
    /\ c.rtcp <=> k.rtcp

\* k has given the final answer, the last that is on its way;
Concluding(c, k, nc, nk) ==
    /\ Asks(c) /\ k.phase = "INPROGRESS" /\ nk = <<>>
    /\ Len(nc) >= 1
    /\ \A i \in DOMAIN nc :
          nc[i].action = IF i = Len(nc) THEN "ANSWER" ELSE "PRANSWER"
    /\ k.rtcp <=> c.rtcp /\ ~nc[Len(nc)].mux
    /\ MuxActive(k.mux) <=> nc[Len(nc)].mux
    /\ ~dtls => Concluded(k.srtp, c.srtp.offer, nc[Len(nc)].cryptos, "LOCAL")

\* k has made the next offer, and c has not seen the final answer yet.
Renewing(c, k, nc, nk) ==
    /\ Asks(c) /\ k.phase = "SENTINITIATE" /\ nk = <<>>
    /\ Len(nc) >= 2
    /\ \A i \in DOMAIN nc :
          nc[i].action = IF i = Len(nc) THEN "OFFER"
                         ELSE IF i = Len(nc) - 1 THEN "ANSWER" ELSE "PRANSWER"
    /\ Offered(k, nc[Len(nc)])
    /\ k.rtcp <=> c.rtcp /\ ~nc[Len(nc) - 1].mux

\* Both have made an offer, which neither will answer.
Glare(c, k, nc, nk) ==
    /\ c.phase = "SENTINITIATE" /\ k.phase = "SENTINITIATE"
    /\ All(nc, "OFFER") /\ All(nk, "OFFER")

Stage(c, k, nc, nk) ==
    \/ Idle(c, k, nc, nk)
    \/ Offering(c, k, nc, nk)
    \/ Answering(c, k, nc, nk)
    \/ Concluding(c, k, nc, nk)
    \/ Renewing(c, k, nc, nk)
    \/ Glare(c, k, nc, nk)

\* Either end may be the one that made the offer.
Between(c, k, nc, nk) == Stage(c, k, nc, nk) \/ Stage(k, c, nk, nc)

InStep ==
    (\A e \in Ends : ch[e].phase # "FAILED") =>
        \A e \in Ends : Between(ch[e], ch[Other(e)], net[e], net[Other(e)])

\* The filters of c take d as the answer to their offer.
Fits(c, d) ==
    /\ d.mux => c.mux.offer_enable
    /\ ~dtls /\ d.cryptos # {} =>
          \E p \in CryptoParams :
              d.cryptos = {p} /\ \E q \in c.srtp.offer : Matches(p, q)

\* They wait for an answer from the other end.
Expects(c) ==
    /\ c.mux.state \in {"SENTOFFER", "RECEIVEDPRANSWER"}
    /\ ~dtls => c.srtp.state \in {"SENTOFFER", "SENTUPDATEDOFFER",
                                  "RECEIVEDPRANSWER",
                                  "RECEIVEDPRANSWER_NO_CRYPTO"}

\* What is on its way to c, which may outlive the end that sent it.
Stream(c, n) ==
    c.phase # "FAILED" =>
        /\ \A i, j \in DOMAIN n :
              i < j /\ n[i].action = "ANSWER" => n[j].action = "OFFER"
        /\ ~Asks(c) => All(n, "OFFER")
        /\ Asks(c) => /\ Expects(c)
                      /\ \A i \in DOMAIN n :
                            n[i].action # "OFFER" => Fits(c, n[i])

InOrder == \A e \in Ends : Stream(ch[e], net[e])

\* The ICE role is still the one with which DTLS was set up.
Steady(c) ==
    /\ c.role = "UNKNOWN" => c.phase = "INIT"
    /\ c.both => c.dtls_role # "UNKNOWN"
    /\ c.dtls_role # "UNKNOWN" =>
          /\ c.role # "UNKNOWN"
          /\ c.role = "CONTROLLING" <=> c.dtls_role = "SERVER"

\* An active filter that sends with the keys of one end and receives with those
\* of the other.
DtlsKeyed(f, sender, rtcp) ==
    /\ SrtpActive(f)
    /\ f.send = Param("dtls", sender, 0)
    /\ f.recv = Param("dtls", Other(sender), 0)
    /\ rtcp => /\ f.send_rtcp = Param("dtls", sender, 1)
               /\ f.recv_rtcp = Param("dtls", Other(sender), 1)

\* A channel that has become writable uses the keys of DTLS.
Handshaken(c, e) ==
    /\ Steady(c)
    /\ dtls /\ c.ever => DtlsKeyed(c.srtp, e, c.rtcp)

Agreed ==
    /\ InStep
    /\ InOrder
    /\ \A e \in Ends : Handshaken(ch[e], e)

-----------------------------------------------------------------------------
(* What a description that is taken does.                                  *)

\* t is c after the description d, and has not failed.
Effect(c, d, source, t) ==
    /\ t.phase = NextPhase(d.action, source)
    /\ t.rtcp <=> c.rtcp /\ ~(d.action = "ANSWER" /\ d.mux)
    /\ d.action = "OFFER" => Offered(t, d)
    /\ d.action = "PRANSWER" => SameOffer(t, c)
    /\ d.action = "ANSWER" =>
          /\ MuxActive(t.mux) <=> d.mux
          /\ ~dtls => Concluded(t.srtp, c.srtp.offer, d.cryptos, source)
    /\ d.action # "OFFER" => Fits(c, d)
    /\ d.action = "OFFER" /\ source = "LOCAL" => Expects(t)
    /\ d.action = "PRANSWER" /\ source = "REMOTE" => Expects(t)

\* An offer that the filter takes.
LEMMA OfferIsStored ==
    ASSUME NEW f \in SrtpFilter, NEW params \in SUBSET CryptoParams,
           NEW source \in {"LOCAL", "REMOTE"},
           SetSrtpOffer(f, params, source).ok
    PROVE  LET g == SetSrtpOffer(f, params, source).filter
           IN  /\ g.offer = params
               /\ source = "LOCAL" => g.state \in {"SENTOFFER", "SENTUPDATEDOFFER"}
  <1> DEFINE g == StoreParams(f, params, source)
  <1>1. /\ g.offer = params
        /\ source = "LOCAL" => g.state \in {"SENTOFFER", "SENTUPDATEDOFFER"}
    BY DEF StoreParams, SrtpFilter
  <1>2. \/ SetSrtpOffer(f, params, source) = Done(g)
        \/ SetSrtpOffer(f, params, source) = Refused(f)
    BY DEF SetSrtpOffer
  <1> HIDE DEF g
  <1>3. SetSrtpOffer(f, params, source) = Done(g)
    BY <1>2 DEF Refused
  <1> QED BY <1>1, <1>3 DEF Done

\* An offer, taken or not, leaves the keys in use.
LEMMA OfferKeepsKeys ==
    ASSUME NEW f \in SrtpFilter, NEW params, NEW source \in {"LOCAL", "REMOTE"}
    PROVE  LET g == SetSrtpOffer(f, params, source).filter
           IN  /\ g.send = f.send /\ g.recv = f.recv
               /\ g.send_rtcp = f.send_rtcp /\ g.recv_rtcp = f.recv_rtcp
               /\ SrtpActive(f) => SrtpActive(g)
  <1> DEFINE g == StoreParams(f, params, source)
  <1>1. /\ g.send = f.send /\ g.recv = f.recv
        /\ g.send_rtcp = f.send_rtcp /\ g.recv_rtcp = f.recv_rtcp
        /\ SrtpActive(f) => SrtpActive(g)
    BY DEF StoreParams, SrtpFilter, SrtpActive
  <1>2. \/ SetSrtpOffer(f, params, source) = Done(g)
        \/ SetSrtpOffer(f, params, source) = Refused(f)
    BY DEF SetSrtpOffer
  <1> HIDE DEF g
  <1> QED BY <1>1, <1>2 DEF Done, Refused

\* Applying parameters does not touch the offer.
LEMMA ApplyKeepsOffer ==
    ASSUME NEW f \in SrtpFilter, NEW send, NEW recv, NEW outcome
    PROVE  LET r == ApplyParams(f, send, recv, outcome)
           IN  /\ r.filter.offer = f.offer
               /\ ~r.ok => NoKey \in {r.filter.send, r.filter.recv}
  <1> DEFINE i == InstallKeys(f, send, recv, outcome)
             a == [i EXCEPT !.applied_send = send, !.applied_recv = recv]
             r == ApplyParams(f, send, recv, outcome)
  <1>1. /\ i.offer = f.offer
        /\ i.send = IF outcome = "send" THEN NoKey ELSE send
        /\ i.recv = IF outcome = "ok" THEN recv ELSE NoKey
    BY DEF InstallKeys, CreateSrtpSessions, SrtpFilter
  <1>2. a.offer = f.offer
    <2>1. i = [f EXCEPT !.send = IF outcome = "send" THEN NoKey ELSE send,
                        !.recv = IF outcome = "ok" THEN recv ELSE NoKey,
                        !.applied_send = NoKey, !.applied_recv = NoKey]
      BY DEF InstallKeys, CreateSrtpSessions, SrtpFilter
    <2> HIDE DEF i
    <2> QED BY <2>1 DEF SrtpFilter
  <1>3. \/ r = Done(f)
        \/ r = Done(a)
        \/ outcome # "ok" /\ r = Refused(i)
    BY DEF ApplyParams
  <1> HIDE DEF i, a, r
  <1>4. CASE r = Done(f) \/ r = Done(a)
    BY <1>2, <1>4 DEF Done, r
  <1>5. CASE outcome # "ok" /\ r = Refused(i)
    BY <1>1, <1>5 DEF Refused, r
  <1> QED BY <1>3, <1>4, <1>5

\* An answer that the filter takes: of it the other end will make the same.
LEMMA AnswerIsApplied ==
    ASSUME NEW f, Sound(f), NEW params \in SUBSET CryptoParams,
           NEW source \in {"LOCAL", "REMOTE"}, NEW final \in BOOLEAN,
           NEW outcome \in Outcome,
           DoSetAnswer(f, params, source, final, outcome).ok
    PROVE  LET g == DoSetAnswer(f, params, source, final, outcome).filter
           IN  /\ params # {} => \E p \in CryptoParams :
                      params = {p} /\ \E q \in f.offer : Matches(p, q)
               /\ final => Concluded(g, f.offer, params, source)
               /\ ~final => g.offer = f.offer
               /\ ~final /\ source = "REMOTE" =>
                     g.state \in {"RECEIVEDPRANSWER", "RECEIVEDPRANSWER_NO_CRYPTO"}
  <1> DEFINE offered(x) == {y \in f.offer : Matches(x, y)}
             p   == CHOOSE x \in params : TRUE
             q   == CHOOSE y \in offered(p) : TRUE
             n   == Negotiated(p, q, source)
             res == ApplyParams(f, n.send, n.recv, outcome)
             pending == IF source = "LOCAL" THEN "SENTPRANSWER_NO_CRYPTO"
                        ELSE "RECEIVEDPRANSWER_NO_CRYPTO"
             waiting == [f EXCEPT !.state = pending]
             r   == DoSetAnswer(f, params, source, final, outcome)
  <1>1. r = IF ~ExpectSrtpAnswer(f, source) THEN Refused(f)
            ELSE IF params = {}
            THEN Done(IF final THEN ResetParams(f) ELSE waiting)
            ELSE IF (\E x \in params : x # p) \/ offered(p) = {} THEN Refused(f)
            ELSE IF ~res.ok THEN res
            ELSE Done(Answered(res.filter, source, final))
    BY DEF DoSetAnswer
  <1>2. f \in SrtpFilter /\ f.offer \in SUBSET CryptoParams
    BY DEF Sound, SrtpFilter
  <1>3. r.ok /\ ~Refused(f).ok
    BY DEF Refused
  <1>4. CASE params = {}
    <2>1. r.filter = IF final THEN ResetParams(f) ELSE waiting
      <3> HIDE DEF waiting, r, res
      <3> QED BY <1>1, <1>3, <1>4 DEF Done
    <2>2. waiting.offer = f.offer /\ waiting.state = pending
      BY <1>2 DEF SrtpFilter
    <2>3. ~SrtpActive(ResetParams(f))
      BY <1>2 DEF ResetParams, SrtpActive, SrtpFilter
    <2> HIDE DEF waiting
    <2>4. final => Concluded(r.filter, f.offer, params, source)
      BY <1>4, <2>1, <2>3 DEF Concluded
    <2>5. ~final => /\ r.filter.offer = f.offer
                    /\ source = "REMOTE" => r.filter.state = "RECEIVEDPRANSWER_NO_CRYPTO"
      BY <2>1, <2>2
    <2> HIDE DEF r
    <2> QED BY <1>4, <2>4, <2>5 DEF r
  <1>5. CASE params # {}
    <2>1. /\ ~(\E x \in params : x # p) /\ offered(p) # {} /\ res.ok
          /\ r = Done(Answered(res.filter, source, final))
      <3> HIDE DEF res, r, p, offered
      <3> QED BY <1>1, <1>3, <1>5
    <2>2. p \in params /\ q \in offered(p)
      BY <1>5, <2>1
    <2>3. p \in CryptoParams /\ q \in CryptoParams /\ params = {p}
          /\ q \in f.offer /\ Matches(p, q)
      BY <1>2, <2>1, <2>2
    <2>4. n.send \in CryptoParams /\ n.recv \in CryptoParams
      <3> HIDE DEF p, q
      <3> QED BY <2>3 DEF Negotiated
    <2>5. /\ Sound(res.filter) /\ res.filter.offer = f.offer
          /\ res.filter.send = n.send /\ res.filter.recv = n.recv
      <3> HIDE DEF n
      <3> QED BY <1>2, <2>1, <2>4, ApplyIsSound, ApplyKeepsOffer
    <2> HIDE DEF res
    <2>6. r.filter = Answered(res.filter, source, final)
      BY <2>1 DEF Done
    <2> DEFINE g == Answered(res.filter, source, final)
    <2>7. /\ g.send = n.send /\ g.recv = n.recv
          /\ ~final => g.offer = f.offer
          /\ final => g.state = "ACTIVE"
          /\ ~final /\ source = "REMOTE" => g.state = "RECEIVEDPRANSWER"
      <3> HIDE DEF n
      <3>1. res.filter \in SrtpFilter
        BY <2>5 DEF Sound
      <3> QED BY <2>5, <3>1 DEF Answered, SrtpFilter
    <2>8. final => Concluded(g, f.offer, params, source)
      <3> HIDE DEF g
      <3>1. ASSUME final PROVE SrtpActive(g)
        BY <2>7, <3>1 DEF SrtpActive
      <3> QED BY <1>5, <2>7, <3>1 DEF Concluded
    <2> HIDE DEF g, r, n, p, q
    <2>9. r.filter = g
      BY <2>6 DEF g
    <2> QED BY <2>3, <2>7, <2>8, <2>9 DEF r
  <1> QED BY <1>4, <1>5

\* The same of the mux filter.
LEMMA MuxEffect ==
    ASSUME NEW x \in MuxFilter, NEW d \in Description,
           NEW source \in {"LOCAL", "REMOTE"}, SetMux(x, d, source).ok
    PROVE  LET y == SetMux(x, d, source).filter
           IN  /\ d.action = "OFFER" =>
                     /\ y.offer_enable = d.mux
                     /\ ~MuxActive(y)
                     /\ source = "LOCAL" => y.state = "SENTOFFER"
               /\ d.action # "OFFER" => (d.mux => x.offer_enable)
               /\ d.action = "PRANSWER" =>
                     /\ y.offer_enable = x.offer_enable
                     /\ source = "REMOTE" => y.state \in {"SENTOFFER", "RECEIVEDPRANSWER"}
               /\ d.action = "ANSWER" => (MuxActive(y) <=> d.mux)
  <1> DEFINE r == SetMux(x, d, source)
  <1>1. d.action \in Action /\ d.mux \in BOOLEAN /\ x.offer_enable \in BOOLEAN
    BY DEF Description, MuxFilter
  <1>2. CASE d.action = "OFFER"
    <2>1. r = SetMuxOffer(x, d.mux, source)
      BY <1>2 DEF SetMux
    <2>2. r.ok
      OBVIOUS
    <2> HIDE DEF r
    <2>3. r.filter = [state |-> IF source = "LOCAL" THEN "SENTOFFER"
                                ELSE "RECEIVEDOFFER",
                      offer_enable |-> d.mux]
      BY <2>1, <2>2 DEF SetMuxOffer, Done, Refused
    <2> QED BY <1>2, <2>3 DEF MuxActive, r
  <1>3. CASE d.action = "PRANSWER"
    <2>1. r = SetMuxProvisionalAnswer(x, d.mux, source)
      BY <1>3 DEF SetMux
    <2>2. r.ok
      OBVIOUS
    <2> HIDE DEF r
    <2>3. /\ ExpectMuxAnswer(x, source)
          /\ d.mux => x.offer_enable
          /\ r = SetMuxProvisionalAnswer(x, d.mux, source)
      BY <2>1, <2>2 DEF SetMuxProvisionalAnswer, Refused
    <2>4. CASE ~x.offer_enable
      BY <1>3, <2>3, <2>4 DEF SetMuxProvisionalAnswer, Done, r, ExpectMuxAnswer
    <2>5. CASE x.offer_enable
      <3>1. r.filter = [x EXCEPT
                           !.state = IF d.mux
                                     THEN IF source = "REMOTE" THEN "RECEIVEDPRANSWER"
                                          ELSE "SENTPRANSWER"
                                     ELSE IF source = "REMOTE" THEN "SENTOFFER"
                                          ELSE "RECEIVEDOFFER"]
        BY <2>3, <2>5 DEF SetMuxProvisionalAnswer, Done
      <3>2. /\ r.filter.offer_enable = x.offer_enable
            /\ source = "REMOTE" => r.filter.state \in {"SENTOFFER", "RECEIVEDPRANSWER"}
        BY <3>1 DEF MuxFilter
      <3> QED BY <1>3, <2>3, <3>2 DEF r
    <2> QED BY <2>4, <2>5
  <1>4. CASE d.action = "ANSWER"
    <2>1. r = SetMuxAnswer(x, d.mux, source)
      BY <1>4 DEF SetMux
    <2>2. r.ok
      OBVIOUS
    <2> HIDE DEF r
    <2>3. /\ d.mux => x.offer_enable
          /\ r.filter = [x EXCEPT !.state = IF d.mux THEN "ACTIVE" ELSE "INIT"]
      BY <2>1, <2>2 DEF SetMuxAnswer, Refused, Done
    <2>4. r.filter.state = IF d.mux THEN "ACTIVE" ELSE "INIT"
      BY <2>3 DEF MuxFilter
    <2> QED BY <1>4, <2>3, <2>4 DEF MuxActive, r
  <1> QED BY <1>1, <1>2, <1>3, <1>4 DEF Action

-----------------------------------------------------------------------------
(* BaseChannel.                                                            *)

\* What stays, for the other end to rely on, when a channel becomes writable.
Kept(c, t) ==
    /\ t.mux = c.mux /\ t.rtcp = c.rtcp /\ t.srtp.offer = c.srtp.offer
    /\ t.role = c.role /\ t.dtls_role = c.dtls_role /\ t.both = c.both
    /\ t.phase \in {c.phase, "FAILED"}
    /\ ~dtls => t.srtp = c.srtp /\ t.phase = c.phase

\* Keys of DTLS: the sessions get them, and the offer stays.
LEMMA DtlsKeys ==
    ASSUME NEW c \in Channel, NEW e \in Ends, NEW outcome \in Verdicts
    PROVE  LET r == SetupDtlsSrtp(c, e, outcome)
           IN  /\ r.filter \in SrtpFilter /\ r.filter.offer = c.srtp.offer
               /\ r.ok => DtlsKeyed(r.filter, Sender(c, e), c.rtcp)
  <1> DEFINE f == c.srtp
             x == Sender(c, e)
             y == Other(x)
             u == outcome["rtp"]
             v == outcome["rtcp"]
             own == Param("dtls", x, 0)
             his == Param("dtls", y, 0)
             i == InstallKeys(f, own, his, u)
             a == [i EXCEPT !.state = "ACTIVE"]
             rtp == SetRtpParams(f, x, u)
             rtcp == SetRtcpParams(rtp.filter, x, v)
  <1>0. /\ x \in Ends /\ y \in Ends /\ u \in Outcome /\ v \in Outcome
        /\ SetupDtlsSrtp(c, e, outcome) =
              IF ~rtp.ok \/ ~c.rtcp THEN rtp
              ELSE IF "rtcp" \notin c.open THEN Refused(rtp.filter)
              ELSE rtcp
    BY RealKeys, VerdictFacts DEF Sender, SetupDtlsSrtp
  <1> HIDE DEF x, u, v
  <1>1. f \in SrtpFilter
    BY DEF Channel
  <1>2. own \in Key /\ his \in Key /\ NoKey \in Key
    BY <1>0, RealKeys
  <1> HIDE DEF own, his
  <1>3. /\ i \in SrtpFilter /\ i.offer = f.offer
        /\ u = "ok" => i.send = own /\ i.recv = his
    <2>1. i = [f EXCEPT !.send = IF u = "send" THEN NoKey ELSE own,
                        !.recv = IF u = "ok" THEN his ELSE NoKey,
                        !.applied_send = NoKey, !.applied_recv = NoKey]
      BY <1>1 DEF InstallKeys, CreateSrtpSessions, SrtpFilter
    <2> HIDE DEF i
    <2> QED BY <1>1, <1>2, <2>1 DEF SrtpFilter
  <1> HIDE DEF i
  <1>4. /\ a \in SrtpFilter /\ a.offer = f.offer /\ a.state = "ACTIVE"
        /\ a.send = i.send /\ a.recv = i.recv
    BY <1>3 DEF SrtpFilter, SrtpState
  <1>5. \/ rtp = Refused(f)
        \/ rtp = Refused(i)
        \/ u = "ok" /\ rtp = Done(a)
    BY DEF SetRtpParams, i, own, his
  <1> HIDE DEF a, rtp, f
  <1>6. /\ rtp.filter \in SrtpFilter /\ rtp.filter.offer = f.offer
        /\ rtp.ok => /\ rtp.filter.state = "ACTIVE"
                     /\ rtp.filter.send = own /\ rtp.filter.recv = his
    BY <1>1, <1>3, <1>4, <1>5 DEF Refused, Done
  <1> DEFINE g == rtp.filter
             k == [g EXCEPT
                     !.send_rtcp = IF v = "send" THEN NoKey
                                   ELSE Param("dtls", x, 1),
                     !.recv_rtcp = IF v = "ok"
                                   THEN Param("dtls", y, 1)
                                   ELSE IF v = "recv" THEN NoKey ELSE @]
  <1>7. \/ rtcp = Refused(g)
        \/ rtcp = Refused(k)
        \/ v = "ok" /\ rtcp = Done(k)
    BY DEF SetRtcpParams, y
  <1>8. /\ k \in SrtpFilter /\ k.offer = g.offer /\ k.state = g.state
        /\ k.send = g.send /\ k.recv = g.recv
        /\ v = "ok" => k.send_rtcp = Param("dtls", x, 1)
                       /\ k.recv_rtcp = Param("dtls", y, 1)
    <2> HIDE DEF g
    <2>1. g \in SrtpFilter
      BY <1>6 DEF g
    <2> QED BY <1>0, <2>1, RealKeys DEF SrtpFilter
  <1> HIDE DEF k, rtcp
  <1>9. \/ SetupDtlsSrtp(c, e, outcome) = rtp
        \/ SetupDtlsSrtp(c, e, outcome) = Refused(rtp.filter)
        \/ rtp.ok /\ SetupDtlsSrtp(c, e, outcome) = rtcp
    BY <1>0
  <1>10. /\ rtcp.filter \in SrtpFilter /\ rtcp.filter.offer = f.offer
         /\ rtp.ok => /\ rtcp.filter.state = "ACTIVE"
                      /\ rtcp.filter.send = own /\ rtcp.filter.recv = his
         /\ rtcp.ok => /\ rtcp.filter.send_rtcp = Param("dtls", x, 1)
                       /\ rtcp.filter.recv_rtcp = Param("dtls", y, 1)
    BY <1>6, <1>7, <1>8 DEF Refused, Done
  <1>11. Refused(rtp.filter).filter = rtp.filter /\ ~Refused(rtp.filter).ok
    BY DEF Refused
  <1>12. rtp.ok => DtlsKeyed(rtp.filter, x, FALSE)
    BY <1>6 DEF DtlsKeyed, SrtpActive, own, his, y
  <1>13. rtp.ok /\ rtcp.ok => DtlsKeyed(rtcp.filter, x, c.rtcp)
    BY <1>10 DEF DtlsKeyed, SrtpActive, own, his, y
  <1>14. ~c.rtcp /\ rtp.ok => DtlsKeyed(rtp.filter, x, c.rtcp)
    BY <1>12 DEF DtlsKeyed
  <1> QED BY <1>0, <1>6, <1>10, <1>11, <1>13, <1>14 DEF x, f

LEMMA WritableEffect ==
    ASSUME NEW c \in Channel, NEW e \in Ends, NEW outcome \in Verdicts
    PROVE  LET t == ChannelWritable_w(c, e, outcome)
           IN  /\ t \in Channel /\ Kept(c, t)
               /\ Handshaken(c, e) /\ c.dtls_role # "UNKNOWN" =>
                     Handshaken(t, e)
  <1> DEFINE keyed == SetupDtlsSrtp(c, e, outcome)
             t == ChannelWritable_w(c, e, outcome)
             yes == [c EXCEPT !.srtp = keyed.filter, !.ever = TRUE]
             no == [c EXCEPT !.srtp = keyed.filter, !.phase = "FAILED"]
  <1>1. /\ keyed.filter \in SrtpFilter /\ keyed.filter.offer = c.srtp.offer
        /\ keyed.ok => DtlsKeyed(keyed.filter, Sender(c, e), c.rtcp)
    BY DtlsKeys
  <1>2. \/ t = c
        \/ dtls /\ keyed.ok /\ t = yes
        \/ dtls /\ ~c.ever /\ t = no
    BY DEF ChannelWritable_w
  <1>6. Steady(c) /\ c.dtls_role # "UNKNOWN" =>
           /\ Sender(c, e) = e
           /\ c.role # "UNKNOWN"
    BY DEF Steady, Sender
  <1> HIDE DEF keyed, t
  <1>3. CASE t = c
    BY <1>3 DEF Kept, t
  <1>4. CASE dtls /\ keyed.ok /\ t = yes
    <2>1. /\ yes \in Channel /\ yes.srtp = keyed.filter /\ yes.mux = c.mux
          /\ yes.rtcp = c.rtcp /\ yes.phase = c.phase /\ yes.role = c.role
          /\ yes.dtls_role = c.dtls_role /\ yes.both = c.both
      BY <1>1 DEF Channel
    <2> HIDE DEF yes
    <2>2. Handshaken(c, e) /\ c.dtls_role # "UNKNOWN" => Handshaken(yes, e)
      BY <1>1, <1>4, <1>6, <2>1 DEF Handshaken, Steady
    <2> QED BY <1>1, <1>4, <2>1, <2>2 DEF Kept, t
  <1>5. CASE dtls /\ ~c.ever /\ t = no
    <2>1. /\ no \in Channel /\ no.srtp = keyed.filter /\ no.mux = c.mux
          /\ no.rtcp = c.rtcp /\ no.phase = "FAILED" /\ no.ever = c.ever
          /\ no.role = c.role /\ no.dtls_role = c.dtls_role /\ no.both = c.both
      BY <1>1 DEF Channel, Phase
    <2> HIDE DEF no
    <2> QED BY <1>1, <1>5, <1>6, <2>1 DEF Kept, Handshaken, Steady, t
  <1> QED BY <1>2, <1>3, <1>4, <1>5

\* What the SRTP filter does with a description.
LEMMA SrtpEffect ==
    ASSUME NEW f, Sound(f), NEW d \in Description,
           NEW source \in {"LOCAL", "REMOTE"}, NEW outcome \in Verdicts,
           SetSrtp_w(f, d, source, outcome).ok
    PROVE  LET g == SetSrtp_w(f, d, source, outcome).filter
           IN  /\ d.action = "OFFER" =>
                     /\ g.offer = d.cryptos
                     /\ source = "LOCAL" => g.state \in {"SENTOFFER", "SENTUPDATEDOFFER"}
               /\ d.action = "PRANSWER" =>
                     /\ g.offer = f.offer
                     /\ ~dtls /\ source = "REMOTE" =>
                           g.state \in {"RECEIVEDPRANSWER", "RECEIVEDPRANSWER_NO_CRYPTO"}
               /\ d.action = "ANSWER" /\ ~dtls =>
                     Concluded(g, f.offer, d.cryptos, source)
               /\ d.action # "OFFER" /\ ~dtls /\ d.cryptos # {} =>
                     \E p \in CryptoParams :
                        d.cryptos = {p} /\ \E q \in f.offer : Matches(p, q)
  <1> DEFINE r == SetSrtp_w(f, d, source, outcome)
             final == (d.action = "ANSWER")
  <1>1. /\ d.cryptos \in SUBSET CryptoParams /\ d.action \in Action
        /\ f \in SrtpFilter
    BY DEF Description, Sound
  <1>2. CASE d.action = "OFFER"
    <2>1. r = SetSrtpOffer(f, d.cryptos, source)
      BY <1>2 DEF SetSrtp_w
    <2> QED BY <1>1, <1>2, <2>1, OfferIsStored
  <1>3. CASE d.action # "OFFER" /\ dtls
    BY <1>1, <1>3 DEF SetSrtp_w, Done
  <1>4. CASE d.action # "OFFER" /\ ~dtls
    <2> DEFINE verdict == outcome["rtp"]
               params == d.cryptos
    <2>1. r = DoSetAnswer(f, params, source, final, verdict)
      BY <1>4 DEF SetSrtp_w
    <2>2. /\ final \in BOOLEAN /\ (final <=> d.action = "ANSWER") /\ r.ok
          /\ verdict \in Outcome /\ params \in SUBSET CryptoParams
      BY <1>1, VerdictFacts
    <2> DEFINE a == DoSetAnswer(f, params, source, final, verdict)
    <2> HIDE DEF final, r, verdict, params
    <2>3. LET g == a.filter
          IN  /\ params # {} => \E p \in CryptoParams :
                    params = {p} /\ \E q \in f.offer : Matches(p, q)
              /\ final => Concluded(g, f.offer, params, source)
              /\ ~final => g.offer = f.offer
              /\ ~final /\ source = "REMOTE" =>
                    g.state \in {"RECEIVEDPRANSWER", "RECEIVEDPRANSWER_NO_CRYPTO"}
      <3>1. a.ok
        BY <2>1, <2>2
      <3> QED BY <2>2, <3>1, AnswerIsApplied
    <2> QED BY <1>1, <1>4, <2>1, <2>2, <2>3 DEF r, params
  <1> QED BY <1>2, <1>3, <1>4

\* The SRTP filter stays typed, whether or not it takes the description.
LEMMA SrtpFilterTyped ==
    ASSUME NEW f, Sound(f), NEW d \in Description,
           NEW source \in {"LOCAL", "REMOTE"}, NEW outcome \in Verdicts
    PROVE  SetSrtp_w(f, d, source, outcome).filter \in SrtpFilter
  <1> DEFINE final == (d.action = "ANSWER")
  <1>1. d.cryptos \in SUBSET CryptoParams /\ f \in SrtpFilter
    BY DEF Description, Sound
  <1>2. CASE d.action = "OFFER"
    BY <1>1, <1>2, OfferIsGood DEF SetSrtp_w, GoodResult, Sound
  <1>3. CASE d.action # "OFFER" /\ dtls
    BY <1>1, <1>3 DEF SetSrtp_w, Done
  <1>4. CASE d.action # "OFFER" /\ ~dtls
    <2> DEFINE verdict == outcome["rtp"]
    <2>1. final \in BOOLEAN /\ verdict \in Outcome
      BY VerdictFacts
    <2>2. SetSrtp_w(f, d, source, outcome)
            = DoSetAnswer(f, d.cryptos, source, final, verdict)
      BY <1>4 DEF SetSrtp_w
    <2> HIDE DEF final, verdict
    <2> QED BY <1>1, <2>1, <2>2, AnswerIsGood DEF GoodResult, Sound
  <1> QED BY <1>2, <1>3, <1>4

\* A description that a channel takes has its effect; the keys of DTLS stay.
LEMMA ContentEffect ==
    ASSUME NEW c, c \in Channel, Sound(c.srtp), NEW e \in Ends,
           NEW d \in Description, NEW source \in {"LOCAL", "REMOTE"},
           NEW outcome \in Verdicts
    PROVE  LET t == SetContent(c, e, d, source, outcome)
           IN  /\ t.phase # "FAILED" => Effect(c, d, source, t)
               /\ Handshaken(c, e) /\ (d.action # "OFFER" => c.phase # "INIT") =>
                     Handshaken(t, e)
  <1> DEFINE s  == SetSrtp_w(c.srtp, d, source, outcome)
             x  == SetMux(c.mux, d, source)
             on == x.ok /\ MuxActive(x.filter)
             closed == x.ok /\ ClosesRtcp(x.filter, d, source)
             up == IF closed THEN c.up \ {"rtcp"} ELSE c.up
             rtcp == c.rtcp /\ ~closed
             both == c.both \/ d.action # "OFFER"
             now == NextPhase(d.action, source)
             ice == IceRole(c, d, source)
             role == DtlsRole(c, d)
             c1 == [c EXCEPT !.srtp = s.filter, !.mux = x.filter,
                             !.rtcp = @ /\ ~closed,
                             !.up = IF closed THEN @ \ {"rtcp"} ELSE @,
                             !.both = @ \/ d.action # "OFFER",
                             !.role = IceRole(c, d, source),
                             !.dtls_role = DtlsRole(c, d),
                             !.phase = NextPhase(d.action, source)]
             c2 == IF on /\ "rtp" \in c.up THEN ChannelWritable_w(c1, e, outcome)
                   ELSE c1
             failed == [c2 EXCEPT !.phase = "FAILED"]
             t == SetContent(c, e, d, source, outcome)
  <1>1. c.mux \in MuxFilter /\ c.srtp \in SrtpFilter /\ d.action \in Action
        /\ d.cryptos \in SUBSET CryptoParams /\ d.mux \in BOOLEAN
    BY DEF Channel, Description
  <1>2. s.filter \in SrtpFilter
    BY <1>1, SrtpFilterTyped
  <1>3. x.filter \in MuxFilter /\ x.ok \in BOOLEAN
    BY <1>1, MuxIsTyped
  <1>4. t = IF s.ok /\ x.ok THEN c2 ELSE failed
    BY DEF SetContent
  <1>5. now \in Phase /\ now # "FAILED"
    BY <1>1 DEF NextPhase, Phase, Action
  <1>6. /\ c1 \in Channel /\ c1.srtp = s.filter /\ c1.mux = x.filter
        /\ c1.rtcp = rtcp /\ c1.phase = now /\ c1.ever = c.ever
        /\ c1.role = ice /\ c1.dtls_role = role /\ c1.both = both
    <2>1. c1 = [c EXCEPT !.srtp = s.filter, !.mux = x.filter, !.rtcp = rtcp,
                         !.up = up, !.both = both, !.role = ice,
                         !.dtls_role = role, !.phase = now]
      BY DEF Channel
    <2>2. rtcp \in BOOLEAN /\ both \in BOOLEAN /\ up \in SUBSET Component
      BY DEF Channel
    <2>3. /\ ice \in {"UNKNOWN", "CONTROLLING", "CONTROLLED"}
          /\ role \in {"UNKNOWN", "SERVER", "CLIENT"}
      BY RolesTyped
    <2> HIDE DEF s, x, now, up, rtcp, both, ice, role, c1
    <2> QED BY <1>2, <1>3, <1>5, <2>1, <2>2, <2>3 DEF Channel
  <1>7. closed <=> x.ok /\ MuxActive(x.filter) /\ d.action = "ANSWER"
    BY DEF ClosesRtcp
  <1>s. Steady(c) /\ (d.action # "OFFER" => c.phase # "INIT") => Steady(c1)
    <2> HIDE DEF c1, now
    <2>1. c.role \in {"UNKNOWN", "CONTROLLING", "CONTROLLED"}
          /\ c.dtls_role \in {"UNKNOWN", "SERVER", "CLIENT"}
      BY DEF Channel
    <2> QED BY <1>6, <2>1 DEF Steady, IceRole, DtlsRole
  <1>r. on => role # "UNKNOWN"
    <2>1. on => d.action # "OFFER"
      BY <1>1 DEF SetMux, SetMuxOffer, Done, Refused, MuxActive
    <2> QED BY <2>1 DEF DtlsRole
  <1> HIDE DEF closed, now, c1, up, both, ice, role
  <1>8. /\ c2 \in Channel /\ Kept(c1, c2)
        /\ Handshaken(c1, e) => Handshaken(c2, e)
    <2>1. CASE on /\ "rtp" \in c.up
      BY <1>6, <1>r, <2>1, WritableEffect
    <2>2. CASE ~(on /\ "rtp" \in c.up)
      BY <1>6, <2>2 DEF Kept
    <2> QED BY <2>1, <2>2
  <1> HIDE DEF on, c2, x
  <1>9. /\ failed.srtp = c2.srtp /\ failed.ever = c2.ever /\ failed.phase = "FAILED"
        /\ failed.role = c2.role /\ failed.dtls_role = c2.dtls_role
        /\ failed.both = c2.both /\ failed.rtcp = c2.rtcp
    BY <1>8 DEF Channel
  <1>k. (d.action # "OFFER" => c.phase # "INIT") /\ Steady(c) => c2.role # "UNKNOWN"
    BY <1>6, <1>8 DEF Kept, Steady, IceRole, ice
  <1> HIDE DEF failed, t
  <1>10. ASSUME Handshaken(c, e), d.action # "OFFER" => c.phase # "INIT"
         PROVE  Handshaken(t, e)
    <2>1. dtls /\ c.ever => /\ SrtpActive(s.filter) /\ s.filter.send = c.srtp.send
                            /\ s.filter.recv = c.srtp.recv
                            /\ s.filter.send_rtcp = c.srtp.send_rtcp
                            /\ s.filter.recv_rtcp = c.srtp.recv_rtcp
      <3>1. CASE d.action = "OFFER"
        BY <1>1, <1>10, <3>1, OfferKeepsKeys DEF Handshaken, DtlsKeyed, SetSrtp_w
      <3>2. CASE d.action # "OFFER"
        BY <1>10, <3>2 DEF Handshaken, DtlsKeyed, SetSrtp_w, Done
      <3> QED BY <3>1, <3>2
    <2> HIDE DEF s
    <2>2. Handshaken(c1, e)
      BY <1>6, <1>10, <1>s, <2>1 DEF Handshaken, DtlsKeyed
    <2>3. Handshaken(failed, e)
      BY <1>8, <1>9, <1>10, <1>k, <2>2 DEF Handshaken, Steady
    <2> QED BY <1>4, <1>8, <2>2, <2>3
  <1>11. ASSUME t.phase # "FAILED" PROVE Effect(c, d, source, t)
    <2>1. s.ok /\ x.ok /\ t = c2 /\ t.phase = now
      BY <1>4, <1>5, <1>6, <1>8, <1>9, <1>11 DEF Kept
    <2>2. /\ d.action = "OFFER" =>
                /\ s.filter.offer = d.cryptos
                /\ source = "LOCAL" =>
                      s.filter.state \in {"SENTOFFER", "SENTUPDATEDOFFER"}
          /\ d.action = "PRANSWER" =>
                /\ s.filter.offer = c.srtp.offer
                /\ ~dtls /\ source = "REMOTE" => s.filter.state \in
                      {"RECEIVEDPRANSWER", "RECEIVEDPRANSWER_NO_CRYPTO"}
          /\ d.action = "ANSWER" /\ ~dtls =>
                Concluded(s.filter, c.srtp.offer, d.cryptos, source)
          /\ d.action # "OFFER" /\ ~dtls /\ d.cryptos # {} =>
                \E p \in CryptoParams :
                   d.cryptos = {p} /\ \E q \in c.srtp.offer : Matches(p, q)
      BY <2>1, SrtpEffect
    <2>3. /\ d.action = "OFFER" =>
                /\ x.filter.offer_enable = d.mux
                /\ ~MuxActive(x.filter)
                /\ source = "LOCAL" => x.filter.state = "SENTOFFER"
          /\ d.action # "OFFER" => (d.mux => c.mux.offer_enable)
          /\ d.action = "PRANSWER" =>
                /\ x.filter.offer_enable = c.mux.offer_enable
                /\ source = "REMOTE" =>
                      x.filter.state \in {"SENTOFFER", "RECEIVEDPRANSWER"}
          /\ d.action = "ANSWER" => (MuxActive(x.filter) <=> d.mux)
      BY <1>1, <2>1, MuxEffect DEF x
    <2>4. /\ t.mux = x.filter /\ t.rtcp = rtcp /\ t.srtp.offer = s.filter.offer
          /\ ~dtls => t.srtp = s.filter
      BY <1>6, <1>8, <2>1 DEF Kept
    <2> HIDE DEF s
    <2>5. t.rtcp <=> c.rtcp /\ ~(d.action = "ANSWER" /\ d.mux)
      BY <1>7, <2>1, <2>3, <2>4
    <2>6. /\ d.action = "OFFER" => Offered(t, d)
          /\ d.action = "PRANSWER" => SameOffer(t, c)
      BY <2>2, <2>3, <2>4 DEF Offered, SameOffer
    <2>7. d.action = "ANSWER" =>
              /\ MuxActive(t.mux) <=> d.mux
              /\ ~dtls => Concluded(t.srtp, c.srtp.offer, d.cryptos, source)
      BY <2>2, <2>3, <2>4
    <2>8. d.action # "OFFER" => Fits(c, d)
      BY <2>2, <2>3 DEF Fits
    <2>9. /\ d.action = "OFFER" /\ source = "LOCAL" => Expects(t)
          /\ d.action = "PRANSWER" /\ source = "REMOTE" => Expects(t)
      BY <2>2, <2>3, <2>4 DEF Expects
    <2> QED BY <2>1, <2>5, <2>6, <2>7, <2>8, <2>9 DEF Effect, now
  <1> QED BY <1>10, <1>11 DEF t

\* An answer that fits what the filters of a channel expect is refused only when
\* libsrtp refuses its keys.
LEMMA AnswerFits ==
    ASSUME ~dtls, NEW c, c \in Channel, Sound(c.srtp), Expects(c),
           NEW d \in Description, d.action # "OFFER", Fits(c, d),
           NEW e \in Ends, NEW outcome \in Verdicts,
           SetContent(c, e, d, "REMOTE", outcome).phase = "FAILED"
    PROVE  LET f == SetContent(c, e, d, "REMOTE", outcome).srtp
           IN  NoKey \in {f.send, f.recv}
  <1> DEFINE s  == SetSrtp_w(c.srtp, d, "REMOTE", outcome)
             x  == SetMux(c.mux, d, "REMOTE")
             on == x.ok /\ MuxActive(x.filter)
             closed == x.ok /\ ClosesRtcp(x.filter, d, "REMOTE")
             c1 == [c EXCEPT !.srtp = s.filter, !.mux = x.filter,
                             !.rtcp = @ /\ ~closed,
                             !.up = IF closed THEN @ \ {"rtcp"} ELSE @,
                             !.both = @ \/ d.action # "OFFER",
                             !.role = IceRole(c, d, "REMOTE"),
                             !.dtls_role = DtlsRole(c, d),
                             !.phase = NextPhase(d.action, "REMOTE")]
             c2 == IF on /\ "rtp" \in c.up THEN ChannelWritable_w(c1, e, outcome)
                   ELSE c1
             failed == [c2 EXCEPT !.phase = "FAILED"]
             t == SetContent(c, e, d, "REMOTE", outcome)
             f == c.srtp
             final == (d.action = "ANSWER")
  <1>1. d.action \in {"PRANSWER", "ANSWER"} /\ d.cryptos \in SUBSET CryptoParams
        /\ f \in SrtpFilter /\ c.mux \in MuxFilter
    BY DEF Description, Action, Sound, Channel
  <1>2. t = IF s.ok /\ x.ok THEN c2 ELSE failed
    BY DEF SetContent
  <1>3. c2 = c1
    BY DEF ChannelWritable_w
  <1>4. c1.phase # "FAILED" /\ c1.srtp = s.filter
        /\ [c1 EXCEPT !.phase = "FAILED"].srtp = s.filter
    BY <1>1 DEF NextPhase, Channel
  <1>5. x.ok
    <2>1. ExpectMuxAnswer(c.mux, "REMOTE") /\ (d.mux => c.mux.offer_enable)
      BY DEF ExpectMuxAnswer, Expects, Fits
    <2> QED BY <1>1, <2>1 DEF SetMux, SetMuxAnswer, SetMuxProvisionalAnswer, Done
  <1> HIDE DEF c1, c2, on, closed, x
  <1>6. ~s.ok /\ t.srtp = s.filter
    BY <1>2, <1>3, <1>4, <1>5
  <1> DEFINE offered(y) == {z \in f.offer : Matches(y, z)}
             p   == CHOOSE y \in d.cryptos : TRUE
             q   == CHOOSE y \in offered(p) : TRUE
             n   == Negotiated(p, q, "REMOTE")
             res == ApplyParams(f, n.send, n.recv, outcome["rtp"])
             pending == IF "REMOTE" = "LOCAL" THEN "SENTPRANSWER_NO_CRYPTO"
                        ELSE "RECEIVEDPRANSWER_NO_CRYPTO"
             waiting == [f EXCEPT !.state = pending]
  <1>7. s = IF ~ExpectSrtpAnswer(f, "REMOTE") THEN Refused(f)
            ELSE IF d.cryptos = {}
            THEN Done(IF final THEN ResetParams(f) ELSE waiting)
            ELSE IF (\E y \in d.cryptos : y # p) \/ offered(p) = {} THEN Refused(f)
            ELSE IF ~res.ok THEN res
            ELSE Done(Answered(res.filter, "REMOTE", final))
    BY <1>1 DEF SetSrtp_w, DoSetAnswer
  <1>8. ExpectSrtpAnswer(f, "REMOTE")
    BY DEF Expects, ExpectSrtpAnswer
  <1>9. d.cryptos # {} =>
            /\ \A y \in d.cryptos : y = p
            /\ offered(p) # {}
    <2>1. CASE d.cryptos # {}
      <3>1. PICK y : d.cryptos = {y} /\ \E z \in f.offer : Matches(y, z)
        BY <2>1 DEF Fits
      <3>2. p = y
        BY <3>1
      <3> QED BY <3>1, <3>2
    <2> QED BY <2>1
  <1> HIDE DEF s, p, res, waiting, offered
  <1>10. s = res
    BY <1>6, <1>7, <1>8, <1>9 DEF Done
  <1>11. ~res.ok => NoKey \in {res.filter.send, res.filter.recv}
    <2> HIDE DEF n
    <2> QED BY <1>1, ApplyKeepsOffer DEF res
  <1> HIDE DEF t
  <1> QED BY <1>6, <1>10, <1>11 DEF t

-----------------------------------------------------------------------------
(* The stages, one step at a time: c takes a description, or changes by     *)
(* itself, while k does nothing.                                           *)

\* What a stage knows of an end.
SameView(c, t) ==
    /\ t.phase = c.phase /\ t.rtcp = c.rtcp /\ t.mux = c.mux
    /\ t.srtp.offer = c.srtp.offer
    /\ ~dtls => t.srtp = c.srtp

LEMMA SilentStage ==
    ASSUME NEW c, NEW k, NEW nc, NEW nk, NEW t, SameView(c, t),
           Between(c, k, nc, nk)
    PROVE  Between(t, k, nc, nk)
  <1>1. ASSUME Stage(c, k, nc, nk) PROVE Stage(t, k, nc, nk)
    BY <1>1 DEF Stage, SameView, Idle, Offering, Answering, Concluding, Renewing,
                Glare, Asks, Owes, Rests, Offered, SameOffer
  <1>2. ASSUME Stage(k, c, nk, nc) PROVE Stage(k, t, nk, nc)
    BY <1>2 DEF Stage, SameView, Idle, Offering, Answering, Concluding, Renewing,
                Glare, Asks, Owes, Rests, Offered, SameOffer
  <1> QED BY <1>1, <1>2 DEF Between

\* The phase and the network of an end tell the stage.
LEMMA OfferStage ==
    ASSUME NEW c, NEW k, NEW nc \in Seq(Description), NEW nk \in Seq(Description),
           NEW d \in Description, d.action = "OFFER",
           NEW t, Effect(c, d, "LOCAL", t), Rests(c), Between(c, k, nc, nk)
    PROVE  Between(t, k, nc, Append(nk, d))
  <1> DEFINE n == Append(nk, d)
  <1>1. /\ t.phase = "SENTINITIATE" /\ (t.rtcp <=> c.rtcp) /\ Offered(t, d)
    BY DEF Effect, NextPhase
  <1>2. /\ n \in Seq(Description) /\ Len(n) = Len(nk) + 1 /\ n[Len(n)] = d
        /\ Len(nk) \in Nat /\ DOMAIN nk = 1 .. Len(nk) /\ DOMAIN n = 1 .. Len(n)
        /\ \A i \in DOMAIN nk : n[i] = nk[i]
    OBVIOUS
  <1> HIDE DEF n
  <1>3. CASE Idle(c, k, nc, nk) \/ Idle(k, c, nk, nc)
    <2>1. Rests(k) /\ nc = <<>> /\ nk = <<>> /\ (c.rtcp <=> k.rtcp)
      BY <1>3 DEF Idle
    <2>2. Len(n) = 1 /\ n[1] = d
      BY <1>2, <2>1
    <2>3. Offering(t, k, nc, n)
      BY <1>1, <2>1, <2>2 DEF Offering
    <2> QED BY <2>3 DEF Between, Stage, n
  <1>4. CASE Offering(k, c, nk, nc)
    <2>1. k.phase = "SENTINITIATE" /\ nk = <<>> /\ Len(nc) = 1 /\ nc[1].action = "OFFER"
      BY <1>4 DEF Offering
    <2>2. All(nc, "OFFER")
      BY <2>1 DEF All
    <2>3. All(n, "OFFER")
      BY <1>2, <2>1 DEF All
    <2>4. Glare(t, k, nc, n)
      BY <1>1, <2>1, <2>2, <2>3 DEF Glare
    <2> QED BY <2>4 DEF Between, Stage, n
  <1>5. CASE Concluding(k, c, nk, nc)
    <2>1. /\ Asks(k) /\ nc = <<>> /\ Len(nk) >= 1
          /\ \A i \in DOMAIN nk :
                nk[i].action = IF i = Len(nk) THEN "ANSWER" ELSE "PRANSWER"
          /\ c.rtcp <=> k.rtcp /\ ~nk[Len(nk)].mux
      BY <1>5 DEF Concluding
    <2>2. Len(n) >= 2 /\ Len(n) - 1 = Len(nk)
      BY <1>2, <2>1
    <2>3. n[Len(n) - 1] = nk[Len(nk)]
      BY <1>2, <2>1, <2>2
    <2>4. \A i \in DOMAIN n :
              n[i].action = IF i = Len(n) THEN "OFFER"
                            ELSE IF i = Len(n) - 1 THEN "ANSWER" ELSE "PRANSWER"
      <3> SUFFICES ASSUME NEW i \in DOMAIN n
                   PROVE n[i].action = IF i = Len(n) THEN "OFFER"
                            ELSE IF i = Len(n) - 1 THEN "ANSWER" ELSE "PRANSWER"
        OBVIOUS
      <3>1. CASE i = Len(n)
        BY <1>2, <3>1
      <3>2. CASE i # Len(n)
        <4>1. i \in DOMAIN nk /\ i \in Nat
          BY <1>2, <3>2
        <4>2. n[i].action = IF i = Len(nk) THEN "ANSWER" ELSE "PRANSWER"
          BY <1>2, <2>1, <4>1
        <4> QED BY <2>2, <3>2, <4>2
      <3> QED BY <3>1, <3>2
    <2>5. Renewing(k, t, n, nc)
      BY <1>1, <1>2, <2>1, <2>2, <2>3, <2>4 DEF Renewing
    <2> QED BY <2>5 DEF Between, Stage, n
  <1>6. \/ Idle(c, k, nc, nk) \/ Idle(k, c, nk, nc)
        \/ Offering(k, c, nk, nc) \/ Concluding(k, c, nk, nc)
    BY DEF Between, Stage, Rests, Asks, Owes, Idle, Offering, Answering,
           Concluding, Renewing, Glare
  <1> QED BY <1>3, <1>4, <1>5, <1>6

\* An end that owes an answer does so to the last offer of the other, and its
\* answer fits it.
LEMMA ReplyStage ==
    ASSUME NEW c, NEW k, NEW nc \in Seq(Description), NEW nk \in Seq(Description),
           NEW d \in Description, d.action # "OFFER",
           NEW t, Effect(c, d, "LOCAL", t), Owes(c), Between(c, k, nc, nk)
    PROVE  /\ Between(t, k, nc, Append(nk, d))
           /\ Asks(k) /\ All(nk, "PRANSWER") /\ Fits(k, d)
  <1> DEFINE n == Append(nk, d)
  <1>1. Answering(k, c, nk, nc)
    BY DEF Between, Stage, Rests, Asks, Owes, Idle, Offering, Answering,
           Concluding, Renewing, Glare
  <1>2. /\ Asks(k) /\ nc = <<>> /\ All(nk, "PRANSWER") /\ SameOffer(k, c)
        /\ (k.rtcp <=> c.rtcp)
    BY <1>1 DEF Answering
  <1>3. Fits(c, d)
    BY DEF Effect
  <1>4. Fits(k, d)
    BY <1>2, <1>3 DEF Fits, SameOffer
  <1>5. /\ n \in Seq(Description) /\ Len(n) = Len(nk) + 1 /\ n[Len(n)] = d
        /\ Len(nk) \in Nat /\ DOMAIN nk = 1 .. Len(nk) /\ DOMAIN n = 1 .. Len(n)
        /\ \A i \in DOMAIN nk : n[i] = nk[i]
    OBVIOUS
  <1> HIDE DEF n
  <1>6. d.action \in {"PRANSWER", "ANSWER"}
    BY DEF Description, Action
  <1>7. \A i \in DOMAIN n : \/ i = Len(n) /\ n[i] = d
                            \/ i # Len(n) /\ n[i].action = "PRANSWER"
    <2> SUFFICES ASSUME NEW i \in DOMAIN n, i # Len(n)
                 PROVE  n[i].action = "PRANSWER"
      BY <1>5
    <2>1. i \in DOMAIN nk
      BY <1>5
    <2> QED BY <1>2, <1>5, <2>1 DEF All
  <1>8. CASE d.action = "PRANSWER"
    <2>1. Owes(t) /\ SameOffer(t, c) /\ (t.rtcp <=> c.rtcp)
      BY <1>8 DEF Effect, NextPhase, Owes
    <2>2. All(n, "PRANSWER")
      BY <1>7, <1>8 DEF All
    <2>3. Answering(k, t, n, nc)
      BY <1>2, <2>1, <2>2 DEF Answering, SameOffer
    <2> QED BY <1>2, <1>4, <2>3 DEF Between, Stage, n
  <1>9. CASE d.action = "ANSWER"
    <2>1. /\ t.phase = "INPROGRESS" /\ (t.rtcp <=> c.rtcp /\ ~d.mux)
          /\ MuxActive(t.mux) <=> d.mux
          /\ ~dtls => Concluded(t.srtp, c.srtp.offer, d.cryptos, "LOCAL")
      BY <1>9 DEF Effect, NextPhase
    <2>2. /\ Len(n) >= 1
          /\ \A i \in DOMAIN n :
                n[i].action = IF i = Len(n) THEN "ANSWER" ELSE "PRANSWER"
      BY <1>5, <1>7, <1>9
    <2>3. Concluding(k, t, n, nc)
      BY <1>2, <1>5, <2>1, <2>2 DEF Concluding, SameOffer
    <2> QED BY <1>2, <1>4, <2>3 DEF Between, Stage, n
  <1> QED BY <1>6, <1>8, <1>9

\* What is left of a sequence without its head.
LEMMA TailFacts ==
    ASSUME NEW n \in Seq(Description), n # <<>>
    PROVE  /\ Tail(n) \in Seq(Description) /\ Head(n) = n[1]
           /\ Len(n) \in Nat /\ Len(n) >= 1 /\ Len(Tail(n)) = Len(n) - 1
           /\ DOMAIN n = 1 .. Len(n) /\ DOMAIN Tail(n) = 1 .. Len(n) - 1
           /\ n[1] \in Description
           /\ \A i \in DOMAIN Tail(n) : i + 1 \in DOMAIN n /\ Tail(n)[i] = n[i + 1]
  OBVIOUS

\* A description that is expected takes the two ends to the next stage.
LEMMA ReceiveStage ==
    ASSUME NEW c, NEW k, NEW nc \in Seq(Description), NEW nk \in Seq(Description),
           nc # <<>>, NEW d, d = Head(nc),
           ExpectSetRemoteDescription(c, d.action),
           NEW t, Effect(c, d, "REMOTE", t), Between(c, k, nc, nk)
    PROVE  Between(t, k, Tail(nc), nk)
  <1> DEFINE n == Tail(nc)
  <1>1. /\ n \in Seq(Description) /\ d = nc[1] /\ d \in Description
        /\ Len(nc) \in Nat /\ Len(nc) >= 1 /\ Len(n) = Len(nc) - 1
        /\ DOMAIN nc = 1 .. Len(nc) /\ DOMAIN n = 1 .. Len(n)
        /\ \A i \in DOMAIN n : i + 1 \in DOMAIN nc /\ n[i] = nc[i + 1]
    BY TailFacts
  <1>2. 1 \in DOMAIN nc
    BY <1>1
  <1> HIDE DEF n
  <1>3. Len(n) = 0 => n = <<>>
    BY <1>1, EmptySeq
  <1>4. Len(n) >= 1 => Len(n) \in DOMAIN n /\ n[Len(n)] = nc[Len(nc)]
    BY <1>1
  <1>5. CASE Offering(k, c, nk, nc)
    <2>1. /\ k.phase = "SENTINITIATE" /\ nk = <<>> /\ Len(nc) = 1
          /\ d.action = "OFFER" /\ Offered(k, d) /\ (k.rtcp <=> c.rtcp)
      BY <1>1, <1>5 DEF Offering
    <2>2. Owes(t) /\ Offered(t, d) /\ (t.rtcp <=> c.rtcp)
      BY <2>1 DEF Effect, NextPhase, Owes
    <2>3. n = <<>>
      BY <1>1, <1>3, <2>1
    <2>4. Answering(k, t, nk, n)
      BY <2>1, <2>2, <2>3 DEF Answering, Asks, All, SameOffer, Offered
    <2> QED BY <2>4 DEF Between, Stage, n
  <1>6. CASE Answering(c, k, nc, nk)
    <2>1. /\ Owes(k) /\ nk = <<>> /\ All(nc, "PRANSWER") /\ SameOffer(c, k)
          /\ (c.rtcp <=> k.rtcp)
      BY <1>6 DEF Answering
    <2>2. d.action = "PRANSWER"
      BY <1>1, <1>2, <2>1 DEF All
    <2>3. Asks(t) /\ SameOffer(t, c) /\ (t.rtcp <=> c.rtcp)
      BY <2>2 DEF Effect, NextPhase, Asks
    <2>4. All(n, "PRANSWER")
      BY <1>1, <2>1 DEF All
    <2>5. Answering(t, k, n, nk)
      BY <2>1, <2>3, <2>4 DEF Answering, SameOffer
    <2> QED BY <2>5 DEF Between, Stage, n
  <1>7. CASE Concluding(c, k, nc, nk)
    <2> DEFINE a == nc[Len(nc)]
    <2>1. /\ k.phase = "INPROGRESS" /\ nk = <<>>
          /\ \A i \in DOMAIN nc :
                nc[i].action = IF i = Len(nc) THEN "ANSWER" ELSE "PRANSWER"
          /\ k.rtcp <=> c.rtcp /\ ~a.mux
          /\ MuxActive(k.mux) <=> a.mux
          /\ ~dtls => Concluded(k.srtp, c.srtp.offer, a.cryptos, "LOCAL")
      BY <1>7 DEF Concluding
    <2>2. CASE Len(nc) = 1
      <3>1. a = d /\ d.action = "ANSWER"
        BY <1>1, <1>2, <2>1, <2>2
      <3>2. /\ t.phase = "INPROGRESS" /\ (t.rtcp <=> c.rtcp /\ ~d.mux)
            /\ MuxActive(t.mux) <=> d.mux
            /\ ~dtls => Concluded(t.srtp, c.srtp.offer, d.cryptos, "REMOTE")
        BY <3>1 DEF Effect, NextPhase
      <3>3. ~dtls => SameKeys(t.srtp, k.srtp)
        <4> HIDE DEF a
        <4> QED BY <2>1, <3>1, <3>2 DEF Concluded, SameKeys, Negotiated
      <3>4. n = <<>>
        BY <1>1, <1>3, <2>2
      <3>5. Rests(t) /\ Rests(k)
        BY <2>1, <3>2 DEF Rests
      <3> HIDE DEF a
      <3>6. Idle(t, k, n, nk)
        BY <2>1, <3>1, <3>2, <3>3, <3>4, <3>5 DEF Idle
      <3> QED BY <3>6 DEF Between, Stage, n
    <2>3. CASE Len(nc) # 1
      <3>1. d.action = "PRANSWER" /\ Len(n) >= 1
        BY <1>1, <1>2, <2>1, <2>3
      <3>2. Asks(t) /\ SameOffer(t, c) /\ (t.rtcp <=> c.rtcp)
        BY <3>1 DEF Effect, NextPhase, Asks
      <3>3. n[Len(n)] = a
        BY <1>4, <3>1
      <3> HIDE DEF a
      <3>4. \A i \in DOMAIN n :
                n[i].action = IF i = Len(n) THEN "ANSWER" ELSE "PRANSWER"
        <4> SUFFICES ASSUME NEW i \in DOMAIN n
                     PROVE n[i].action = IF i = Len(n) THEN "ANSWER" ELSE "PRANSWER"
          OBVIOUS
        <4>1. i + 1 \in DOMAIN nc /\ n[i] = nc[i + 1] /\ i \in Nat
          BY <1>1
        <4>2. i + 1 = Len(nc) <=> i = Len(n)
          BY <1>1, <4>1
        <4> QED BY <2>1, <4>1, <4>2
      <3>5. Concluding(t, k, n, nk)
        BY <2>1, <3>1, <3>2, <3>3, <3>4 DEF Concluding, SameOffer
      <3> QED BY <3>5 DEF Between, Stage, n
    <2> QED BY <2>2, <2>3
  <1>8. CASE Renewing(c, k, nc, nk)
    <2> DEFINE o == nc[Len(nc)]
               a == nc[Len(nc) - 1]
    <2>1. /\ k.phase = "SENTINITIATE" /\ nk = <<>> /\ Len(nc) >= 2
          /\ \A i \in DOMAIN nc :
                nc[i].action = IF i = Len(nc) THEN "OFFER"
                               ELSE IF i = Len(nc) - 1 THEN "ANSWER" ELSE "PRANSWER"
          /\ Offered(k, o)
          /\ k.rtcp <=> c.rtcp /\ ~a.mux
      BY <1>8 DEF Renewing
    <2>2. /\ Len(n) >= 1 /\ n[Len(n)] = o /\ o.action = "OFFER"
          /\ Len(nc) \in DOMAIN nc /\ Len(nc) - 1 \in DOMAIN nc
      BY <1>1, <1>4, <2>1
    <2>3. CASE Len(nc) = 2
      <3>1. a = d /\ d.action = "ANSWER"
        BY <1>1, <1>2, <2>1, <2>3
      <3>2. t.phase = "INPROGRESS" /\ (t.rtcp <=> c.rtcp /\ ~d.mux)
        BY <3>1 DEF Effect, NextPhase
      <3>3. Len(n) = 1 /\ n[1] = o
        BY <1>1, <2>2, <2>3
      <3>4. k.rtcp <=> t.rtcp
        BY <2>1, <3>1, <3>2
      <3> HIDE DEF a, o
      <3>5. Offering(k, t, nk, n)
        BY <2>1, <2>2, <3>2, <3>3, <3>4 DEF Offering, Rests
      <3> QED BY <3>5 DEF Between, Stage, n
    <2>4. CASE Len(nc) # 2
      <3>1. d.action = "PRANSWER" /\ Len(n) >= 2
        BY <1>1, <1>2, <2>1, <2>4
      <3>2. Asks(t) /\ SameOffer(t, c) /\ (t.rtcp <=> c.rtcp)
        BY <3>1 DEF Effect, NextPhase, Asks
      <3>3. n[Len(n) - 1] = a
        <4>1. Len(n) - 1 \in DOMAIN n /\ Len(n) - 1 + 1 = Len(nc) - 1
          BY <1>1, <3>1
        <4> QED BY <1>1, <4>1
      <3>4. \A i \in DOMAIN n :
                n[i].action = IF i = Len(n) THEN "OFFER"
                              ELSE IF i = Len(n) - 1 THEN "ANSWER" ELSE "PRANSWER"
        <4> SUFFICES ASSUME NEW i \in DOMAIN n
                     PROVE n[i].action = IF i = Len(n) THEN "OFFER"
                              ELSE IF i = Len(n) - 1 THEN "ANSWER" ELSE "PRANSWER"
          OBVIOUS
        <4>1. i + 1 \in DOMAIN nc /\ n[i] = nc[i + 1] /\ i \in Nat
          BY <1>1
        <4>2. /\ i + 1 = Len(nc) <=> i = Len(n)
              /\ i + 1 = Len(nc) - 1 <=> i = Len(n) - 1
          BY <1>1, <4>1
        <4> QED BY <2>1, <4>1, <4>2
      <3> HIDE DEF a, o
      <3>5. Renewing(t, k, n, nk)
        BY <2>1, <2>2, <3>1, <3>2, <3>3, <3>4 DEF Renewing, SameOffer
      <3> QED BY <3>5 DEF Between, Stage, n
    <2> QED BY <2>3, <2>4
  <1>9. ~Glare(c, k, nc, nk) /\ ~Glare(k, c, nk, nc)
    BY <1>1, <1>2 DEF Glare, All, ExpectSetRemoteDescription
  <1>10. \/ Offering(k, c, nk, nc) \/ Answering(c, k, nc, nk)
         \/ Concluding(c, k, nc, nk) \/ Renewing(c, k, nc, nk)
    BY <1>9 DEF Between, Stage, Idle, Offering, Answering, Concluding, Renewing
  <1> QED BY <1>5, <1>6, <1>7, <1>8, <1>10

\* A description that is not expected is an offer that met another one.
LEMMA DropStage ==
    ASSUME NEW c, NEW k, NEW nc \in Seq(Description), NEW nk \in Seq(Description),
           nc # <<>>, ~ExpectSetRemoteDescription(c, Head(nc).action),
           Between(c, k, nc, nk)
    PROVE  Between(c, k, Tail(nc), nk)
  <1>1. /\ Head(nc) = nc[1] /\ 1 \in DOMAIN nc /\ Len(nc) \in Nat /\ Len(nc) >= 1
        /\ \A i \in DOMAIN Tail(nc) : i + 1 \in DOMAIN nc /\ Tail(nc)[i] = nc[i + 1]
    BY TailFacts
  <1>2. ~Offering(k, c, nk, nc)
    BY <1>1 DEF Offering, Rests, ExpectSetRemoteDescription
  <1>3. ~Answering(c, k, nc, nk)
    BY <1>1 DEF Answering, All, Asks, ExpectSetRemoteDescription
  <1>4. ~Concluding(c, k, nc, nk)
    <2>1. ASSUME Concluding(c, k, nc, nk) PROVE Asks(c) /\ nc[1].action # "OFFER"
      BY <1>1, <2>1 DEF Concluding
    <2> QED BY <1>1, <2>1 DEF Asks, ExpectSetRemoteDescription
  <1>5. ~Renewing(c, k, nc, nk)
    <2>1. ASSUME Renewing(c, k, nc, nk) PROVE Asks(c) /\ nc[1].action # "OFFER"
      BY <1>1, <2>1 DEF Renewing
    <2> QED BY <1>1, <2>1 DEF Asks, ExpectSetRemoteDescription
  <1>6. Glare(c, k, nc, nk) \/ Glare(k, c, nk, nc)
    BY <1>2, <1>3, <1>4, <1>5 DEF Between, Stage, Idle, Offering, Answering,
                                  Concluding, Renewing
  <1>7. /\ c.phase = "SENTINITIATE" /\ k.phase = "SENTINITIATE"
        /\ All(nc, "OFFER") /\ All(nk, "OFFER")
    BY <1>6 DEF Glare
  <1>8. All(Tail(nc), "OFFER")
    BY <1>1, <1>7 DEF All
  <1> QED BY <1>7, <1>8 DEF Between, Stage, Glare

-----------------------------------------------------------------------------
(* What is on its way.                                                     *)

LEMMA SilentStream ==
    ASSUME NEW c, NEW t, SameView(c, t), NEW n, Stream(c, n)
    PROVE  Stream(t, n)
  BY DEF SameView, Stream, Asks, Expects, Fits

\* An end that starts or stops waiting by its own description.
LEMMA LocalStream ==
    ASSUME NEW c, NEW t, NEW n, NEW d \in Description,
           \/ Rests(c) /\ d.action = "OFFER"
           \/ Owes(c) /\ d.action # "OFFER",
           Effect(c, d, "LOCAL", t), Stream(c, n)
    PROVE  Stream(t, n)
  <1>1. /\ All(n, "OFFER")
        /\ \A i, j \in DOMAIN n :
              i < j /\ n[i].action = "ANSWER" => n[j].action = "OFFER"
    BY DEF Stream, Rests, Owes, Asks
  <1>2. CASE d.action = "OFFER"
    <2>1. Expects(t)
      BY <1>2 DEF Effect
    <2> QED BY <1>1, <2>1 DEF Stream, All
  <1>3. CASE Owes(c) /\ d.action # "OFFER"
    <2>1. d.action \in {"PRANSWER", "ANSWER"}
      BY <1>3 DEF Description, Action
    <2>2. ~Asks(t)
      BY <1>3, <2>1 DEF Effect, NextPhase, Asks
    <2> QED BY <1>1, <2>2 DEF Stream
  <1> QED BY <1>2, <1>3

\* A description more, which is an offer or fits.
LEMMA SentStream ==
    ASSUME NEW k, NEW n \in Seq(Description), NEW d \in Description, Stream(k, n),
           k.phase # "FAILED" =>
              \/ d.action = "OFFER"
              \/ Asks(k) /\ All(n, "PRANSWER") /\ Fits(k, d)
    PROVE  Stream(k, Append(n, d))
  <1> DEFINE m == Append(n, d)
  <1>1. /\ Len(m) = Len(n) + 1 /\ m[Len(m)] = d
        /\ Len(n) \in Nat /\ DOMAIN n = 1 .. Len(n) /\ DOMAIN m = 1 .. Len(m)
        /\ \A i \in DOMAIN n : m[i] = n[i]
    OBVIOUS
  <1> HIDE DEF m
  <1>2. \A i \in DOMAIN m : \/ i = Len(m) /\ m[i] = d
                            \/ i \in DOMAIN n /\ m[i] = n[i]
    BY <1>1
  <1> SUFFICES ASSUME k.phase # "FAILED" PROVE Stream(k, m)
    BY DEF Stream, m
  <1>3. CASE d.action = "OFFER"
    <2>1. ASSUME NEW i \in DOMAIN m, NEW j \in DOMAIN m, i < j, m[i].action = "ANSWER"
          PROVE  m[j].action = "OFFER"
      <3>1. CASE j = Len(m)
        BY <1>1, <1>3, <3>1
      <3>2. CASE j # Len(m)
        <4>1. /\ i \in DOMAIN n /\ m[i] = n[i]
              /\ j \in DOMAIN n /\ m[j] = n[j]
          BY <1>1, <1>2, <1>3, <2>1, <3>2
        <4> QED BY <2>1, <4>1 DEF Stream
      <3> QED BY <3>1, <3>2
    <2>2. ~Asks(k) => All(m, "OFFER")
      BY <1>2, <1>3 DEF Stream, All
    <2>3. Asks(k) => /\ Expects(k)
                     /\ \A i \in DOMAIN m : m[i].action # "OFFER" => Fits(k, m[i])
      BY <1>2, <1>3 DEF Stream
    <2> QED BY <2>1, <2>2, <2>3 DEF Stream
  <1>4. CASE Asks(k) /\ All(n, "PRANSWER") /\ Fits(k, d)
    <2>1. ASSUME NEW i \in DOMAIN m, NEW j \in DOMAIN m, i < j
          PROVE  m[i].action = "PRANSWER"
      <3>1. i \in DOMAIN n /\ m[i] = n[i]
        BY <1>1, <1>2, <2>1
      <3> QED BY <1>4, <3>1 DEF All
    <2>2. Expects(k) /\ \A i \in DOMAIN m : m[i].action # "OFFER" => Fits(k, m[i])
      BY <1>2, <1>4 DEF Stream
    <2> QED BY <1>4, <2>1, <2>2 DEF Stream
  <1> QED BY <1>3, <1>4

\* A description less.
LEMMA ReceivedStream ==
    ASSUME NEW c, NEW n \in Seq(Description), n # <<>>, Stream(c, n),
           NEW t,
           \/ t = c
           \/ t.phase = "FAILED"
           \/ /\ ExpectSetRemoteDescription(c, Head(n).action)
              /\ Effect(c, Head(n), "REMOTE", t)
    PROVE  Stream(t, Tail(n))
  <1> DEFINE m == Tail(n)
             d == Head(n)
  <1>1. /\ d = n[1] /\ 1 \in DOMAIN n /\ d \in Description
        /\ \A i \in DOMAIN m : i + 1 \in DOMAIN n /\ m[i] = n[i + 1]
        /\ DOMAIN m \subseteq Nat
    BY TailFacts
  <1>2. \A i \in DOMAIN m : 1 < i + 1 /\ i \in Nat
    <2>1. DOMAIN m = 1 .. Len(n) - 1 /\ Len(n) \in Nat
      BY TailFacts
    <2> QED BY <2>1
  <1> HIDE DEF m, d
  <1>3. c.phase # "FAILED" =>
            /\ \A i, j \in DOMAIN m :
                  i < j /\ m[i].action = "ANSWER" => m[j].action = "OFFER"
            /\ ~Asks(c) => All(m, "OFFER")
            /\ Asks(c) => /\ Expects(c)
                          /\ \A i \in DOMAIN m :
                                m[i].action # "OFFER" => Fits(c, m[i])
    <2> SUFFICES ASSUME c.phase # "FAILED"
                 PROVE  /\ \A i, j \in DOMAIN m :
                              i < j /\ m[i].action = "ANSWER" => m[j].action = "OFFER"
                        /\ ~Asks(c) => All(m, "OFFER")
                        /\ Asks(c) => /\ Expects(c)
                                      /\ \A i \in DOMAIN m :
                                            m[i].action # "OFFER" => Fits(c, m[i])
      OBVIOUS
    <2>1. ASSUME NEW i \in DOMAIN m, NEW j \in DOMAIN m, i < j, m[i].action = "ANSWER"
          PROVE  m[j].action = "OFFER"
      <3>1. i + 1 < j + 1
        BY <1>2, <2>1
      <3> QED BY <1>1, <2>1, <3>1 DEF Stream
    <2> QED BY <1>1, <2>1 DEF Stream, All
  <1>4. CASE t = c
    BY <1>3, <1>4 DEF Stream, m
  <1>5. CASE t.phase = "FAILED"
    BY <1>5 DEF Stream
  <1>6. CASE ExpectSetRemoteDescription(c, d.action) /\ Effect(c, d, "REMOTE", t)
    <2>1. c.phase # "FAILED" /\ d.action \in Action
      BY <1>1, <1>6 DEF ExpectSetRemoteDescription, Description
    <2>2. CASE d.action = "OFFER"
      <3>1. ~Asks(c) /\ ~Asks(t)
        BY <1>6, <2>2 DEF ExpectSetRemoteDescription, Asks, Effect, NextPhase
      <3> QED BY <1>3, <2>1, <3>1 DEF Stream, m
    <2>3. CASE d.action = "PRANSWER"
      <3>1. Asks(c) /\ Asks(t) /\ Expects(t) /\ SameOffer(t, c)
        BY <1>6, <2>3 DEF ExpectSetRemoteDescription, Asks, Effect, NextPhase
      <3>2. \A x : Fits(c, x) => Fits(t, x)
        BY <3>1 DEF SameOffer, Fits
      <3> QED BY <1>3, <2>1, <3>1, <3>2 DEF Stream, m
    <2>4. CASE d.action = "ANSWER"
      <3>1. ~Asks(t)
        BY <1>6, <2>4 DEF Asks, Effect, NextPhase
      <3>2. All(m, "OFFER")
        <4>1. ASSUME NEW i \in DOMAIN m PROVE m[i].action = "OFFER"
          <5>1. 1 < i + 1 /\ i + 1 \in DOMAIN n /\ m[i] = n[i + 1]
            BY <1>1, <1>2
          <5> QED BY <1>1, <2>1, <2>4, <5>1 DEF Stream
        <4> QED BY <4>1 DEF All
      <3> QED BY <1>3, <2>1, <3>1, <3>2 DEF Stream, m
    <2> QED BY <2>1, <2>2, <2>3, <2>4 DEF Action
  <1> QED BY <1>4, <1>5, <1>6 DEF d

-----------------------------------------------------------------------------
(* The specification.                                                      *)

LEMMA EndsFacts ==
    ASSUME NEW e \in Ends
    PROVE  /\ Other(e) \in Ends /\ Other(e) # e /\ Other(Other(e)) = e
           /\ \A x \in Ends : x = e \/ x = Other(e)
  BY ChannelAssumption DEF Ends, Other

\* What is known of the two ends after a step is the invariant after it.
LEMMA AgreedNext ==
    ASSUME dtls' = dtls, NEW e \in Ends,
           (\A x \in Ends : ch'[x].phase # "FAILED") =>
              Between(ch'[e], ch'[Other(e)], net'[e], net'[Other(e)]),
           Stream(ch'[e], net'[e]), Stream(ch'[Other(e)], net'[Other(e)]),
           Handshaken(ch'[e], e), Handshaken(ch'[Other(e)], Other(e))
    PROVE  Agreed'
  <1>1. InStep'
    <2>1. ASSUME NEW c, NEW k, NEW nc, NEW nk, Between(c, k, nc, nk)
          PROVE  Between(c, k, nc, nk)'
      BY <2>1 DEF Between, Stage, Idle, Offering, Answering, Concluding, Renewing,
                  Glare, Asks, Owes, Rests, Offered, SameOffer, All, SameKeys, Concluded,
                  SrtpActive, MuxActive, Negotiated, Matches
    <2>2. \A c, k, nc, nk : Between(c, k, nc, nk) <=> Between(k, c, nk, nc)
      BY DEF Between
    <2> SUFFICES ASSUME \A x \in Ends : ch'[x].phase # "FAILED", NEW x \in Ends
                 PROVE  Between(ch[x], ch[Other(x)], net[x], net[Other(x)])'
      BY DEF InStep
    <2>3. Between(ch'[x], ch'[Other(x)], net'[x], net'[Other(x)])
      BY <2>2, EndsFacts
    <2> QED BY <2>1, <2>3
  <1>2. InOrder'
    <2>1. ASSUME NEW c, NEW n, Stream(c, n) PROVE Stream(c, n)'
      BY <2>1 DEF Stream, Asks, All, Expects, Fits, Matches
    <2>2. \A x \in Ends : Stream(ch'[x], net'[x])
      BY EndsFacts
    <2> QED BY <2>1, <2>2 DEF InOrder
  <1>3. (\A x \in Ends : Handshaken(ch[x], x))'
    BY EndsFacts DEF Handshaken, Steady, DtlsKeyed, SrtpActive
  <1> QED BY <1>1, <1>2, <1>3 DEF Agreed

\* What every step starts from.
LEMMA AgreedNow ==
    ASSUME Inv, Agreed, NEW e \in Ends
    PROVE  /\ ch \in [Ends -> Channel] /\ net \in [Ends -> Seq(Description)]
           /\ ch[e] \in Channel /\ Sound(ch[e].srtp)
           /\ net[e] \in Seq(Description) /\ net[Other(e)] \in Seq(Description)
           /\ Stream(ch[e], net[e]) /\ Stream(ch[Other(e)], net[Other(e)])
           /\ Handshaken(ch[e], e) /\ Handshaken(ch[Other(e)], Other(e))
           /\ (ch[e].phase # "FAILED" /\ ch[Other(e)].phase # "FAILED" =>
                  Between(ch[e], ch[Other(e)], net[e], net[Other(e)]))
  <1>1. Other(e) \in Ends /\ \A x \in Ends : x = e \/ x = Other(e)
    BY EndsFacts
  <1>2. /\ ch \in [Ends -> Channel] /\ net \in [Ends -> Seq(Description)]
        /\ Good(ch[e])
    BY DEF Inv, TypeOK
  <1>3. ch[e] \in Channel /\ Sound(ch[e].srtp)
    BY <1>2 DEF Good, Typed, Sound, Channel
  <1>4. /\ Stream(ch[e], net[e]) /\ Stream(ch[Other(e)], net[Other(e)])
        /\ Handshaken(ch[e], e) /\ Handshaken(ch[Other(e)], Other(e))
    BY <1>1 DEF Agreed, InOrder
  <1>5. ch[e].phase # "FAILED" /\ ch[Other(e)].phase # "FAILED" =>
            Between(ch[e], ch[Other(e)], net[e], net[Other(e)])
    BY <1>1 DEF Agreed, InStep
  <1> QED BY <1>1, <1>2, <1>3, <1>4, <1>5

\* An end makes an offer, or gives an answer that it owes.
LEMMA LocalAgreed ==
    ASSUME Inv, Agreed, NEW e \in Ends, NEW d \in Description,
           NEW outcome \in Verdicts,
           \/ Rests(ch[e]) /\ d.action = "OFFER"
           \/ Owes(ch[e]) /\ d.action # "OFFER",
           SetLocalDescription(e, d, outcome)
    PROVE  Agreed'
  <1> DEFINE c == ch[e]
             o == Other(e)
             k == ch[o]
             t == SetContent(ch[e], e, d, "LOCAL", outcome)
  <1>1. o \in Ends /\ o # e
    BY EndsFacts
  <1>2. /\ ch \in [Ends -> Channel] /\ net \in [Ends -> Seq(Description)]
        /\ c \in Channel /\ Sound(c.srtp)
        /\ net[e] \in Seq(Description) /\ net[o] \in Seq(Description)
        /\ Stream(c, net[e]) /\ Stream(k, net[o])
        /\ Handshaken(c, e) /\ Handshaken(k, o)
        /\ (c.phase # "FAILED" /\ k.phase # "FAILED" => Between(c, k, net[e], net[o]))
    BY AgreedNow
  <1>3. /\ t.phase # "FAILED" => Effect(c, d, "LOCAL", t)
        /\ Handshaken(t, e)
    BY <1>2, ContentEffect DEF Owes
  <1>4. /\ ch' = [ch EXCEPT ![e] = t] /\ dtls' = dtls
        /\ net' = [net EXCEPT ![o] =
                      IF t.phase = "FAILED" THEN net[o] ELSE Append(net[o], d)]
    BY <1>2 DEF SetLocalDescription
  <1>5. c.phase # "FAILED"
    BY DEF Rests, Owes
  <1> HIDE DEF t
  <1>6. /\ ch'[e] = t /\ ch'[o] = k /\ net'[e] = net[e]
        /\ net'[o] = IF t.phase = "FAILED" THEN net[o] ELSE Append(net[o], d)
    BY <1>1, <1>2, <1>4
  <1> HIDE DEF c, o, k
  <1>7. Stream(t, net[e])
    <2>1. CASE t.phase = "FAILED"
      BY <2>1 DEF Stream
    <2>2. CASE t.phase # "FAILED"
      BY <1>2, <1>3, <2>2, LocalStream DEF c
    <2> QED BY <2>1, <2>2
  <1>8. ASSUME t.phase # "FAILED", k.phase # "FAILED"
        PROVE  /\ Between(t, k, net[e], Append(net[o], d))
               /\ d.action = "OFFER" \/ (Asks(k) /\ All(net[o], "PRANSWER") /\ Fits(k, d))
    <2>1. Effect(c, d, "LOCAL", t) /\ Between(c, k, net[e], net[o])
      BY <1>2, <1>3, <1>5, <1>8
    <2>2. CASE Rests(c) /\ d.action = "OFFER"
      BY <1>2, <2>1, <2>2, OfferStage
    <2>3. CASE Owes(c) /\ d.action # "OFFER"
      BY <1>2, <2>1, <2>3, ReplyStage
    <2> QED BY <2>2, <2>3 DEF c
  <1>9. Stream(k, net'[o])
    <2>1. CASE t.phase = "FAILED"
      BY <1>2, <1>6, <2>1
    <2>2. CASE t.phase # "FAILED"
      BY <1>2, <1>6, <1>8, <2>2, SentStream
    <2> QED BY <2>1, <2>2
  <1>10. (\A x \in Ends : ch'[x].phase # "FAILED") =>
             Between(ch'[e], ch'[o], net'[e], net'[o])
    BY <1>1, <1>6, <1>8
  <1> QED BY <1>1, <1>2, <1>3, <1>4, <1>6, <1>7, <1>9, <1>10, AgreedNext DEF o

\* A description comes and is taken, or dropped, or makes the session fail.
LEMMA RemoteAgreed ==
    ASSUME Inv, Agreed, NEW e \in Ends, NEW outcome \in Verdicts,
           SetRemoteDescription(e, outcome)
    PROVE  Agreed'
  <1> DEFINE c == ch[e]
             o == Other(e)
             k == ch[o]
             d == Head(net[e])
             noted == [ch[e] EXCEPT !.remote = [cryptos |-> d.cryptos, mux |-> d.mux]]
             b == IF d.action = "OFFER" THEN noted ELSE ch[e]
             t == SetContent(b, e, d, "REMOTE", outcome)
  <1>1. o \in Ends /\ o # e
    BY EndsFacts
  <1>2. /\ ch \in [Ends -> Channel] /\ net \in [Ends -> Seq(Description)]
        /\ c \in Channel /\ Sound(c.srtp)
        /\ net[e] \in Seq(Description) /\ net[o] \in Seq(Description)
        /\ Stream(c, net[e]) /\ Stream(k, net[o])
        /\ Handshaken(c, e) /\ Handshaken(k, o)
        /\ (c.phase # "FAILED" /\ k.phase # "FAILED" => Between(c, k, net[e], net[o]))
    BY AgreedNow
  <1>3. /\ net[e] # <<>> /\ dtls' = dtls
        /\ net' = [net EXCEPT ![e] = Tail(net[e])]
        /\ \/ ExpectSetRemoteDescription(c, d.action) /\ ch' = [ch EXCEPT ![e] = t]
           \/ ~ExpectSetRemoteDescription(c, d.action) /\ ch' = ch
    BY <1>2 DEF SetRemoteDescription
  <1>4. d \in Description
    BY <1>2, <1>3, TailFacts
  <1> HIDE DEF d
  <1>5. d.cryptos \in SUBSET CryptoParams /\ d.mux \in BOOLEAN
    BY <1>4 DEF Description
  <1>6. /\ b \in Channel /\ b.srtp = c.srtp /\ b.mux = c.mux /\ b.rtcp = c.rtcp
        /\ b.ever = c.ever /\ b.phase = c.phase /\ b.both = c.both
        /\ b.role = c.role /\ b.dtls_role = c.dtls_role
    BY <1>2, <1>5 DEF Channel
  <1> HIDE DEF b
  <1>7. /\ t.phase # "FAILED" => Effect(b, d, "REMOTE", t)
        /\ Handshaken(b, e) /\ (d.action # "OFFER" => b.phase # "INIT") =>
              Handshaken(t, e)
    BY <1>2, <1>4, <1>6, ContentEffect
  <1> HIDE DEF t
  <1>8. /\ t.phase # "FAILED" => Effect(c, d, "REMOTE", t)
        /\ ExpectSetRemoteDescription(c, d.action) => Handshaken(t, e)
    <2>1. Handshaken(b, e)
      BY <1>2, <1>6 DEF Handshaken, Steady
    <2>2. ExpectSetRemoteDescription(c, d.action) /\ d.action # "OFFER" =>
             c.phase # "INIT"
      BY DEF ExpectSetRemoteDescription
    <2> QED BY <1>2, <1>6, <1>7, <2>1, <2>2 DEF Effect, SameOffer, Fits
  <1>9. /\ ch'[o] = k /\ net'[o] = net[o] /\ net'[e] = Tail(net[e])
    BY <1>1, <1>2, <1>3
  <1> HIDE DEF c, o, k
  <1>10. CASE ExpectSetRemoteDescription(c, d.action) /\ ch' = [ch EXCEPT ![e] = t]
    <2>1. ch'[e] = t
      BY <1>2, <1>10
    <2>2. Stream(t, Tail(net[e]))
      BY <1>2, <1>3, <1>8, <1>10, ReceivedStream DEF d
    <2>3. ASSUME t.phase # "FAILED", k.phase # "FAILED"
          PROVE  Between(t, k, Tail(net[e]), net[o])
      <3>1. c.phase # "FAILED"
        BY <1>10 DEF ExpectSetRemoteDescription
      <3>2. Effect(c, d, "REMOTE", t) /\ Between(c, k, net[e], net[o])
        BY <1>2, <1>8, <2>3, <3>1
      <3> QED BY <1>2, <1>3, <1>10, <3>2, ReceiveStage DEF d
    <2>4. (\A x \in Ends : ch'[x].phase # "FAILED") =>
              Between(ch'[e], ch'[o], net'[e], net'[o])
      BY <1>1, <1>9, <2>1, <2>3
    <2>5. Handshaken(ch'[e], e) /\ Handshaken(ch'[o], o)
      BY <1>2, <1>8, <1>9, <1>10, <2>1
    <2>6. Stream(ch'[e], net'[e]) /\ Stream(ch'[o], net'[o])
      BY <1>2, <1>9, <2>1, <2>2
    <2> QED BY <1>3, <2>4, <2>5, <2>6, AgreedNext DEF o
  <1>11. CASE ~ExpectSetRemoteDescription(c, d.action) /\ ch' = ch
    <2>1. ch'[e] = c
      BY <1>11 DEF c
    <2>2. Stream(c, Tail(net[e]))
      BY <1>2, <1>3, ReceivedStream
    <2>3. ASSUME c.phase # "FAILED", k.phase # "FAILED"
          PROVE  Between(c, k, Tail(net[e]), net[o])
      BY <1>2, <1>3, <1>11, <2>3, DropStage DEF d
    <2>4. (\A x \in Ends : ch'[x].phase # "FAILED") =>
              Between(ch'[e], ch'[o], net'[e], net'[o])
      BY <1>1, <1>9, <2>1, <2>3
    <2> QED BY <1>1, <1>2, <1>3, <1>9, <2>1, <2>2, <2>4, AgreedNext DEF o
  <1> QED BY <1>3, <1>10, <1>11 DEF c

\* The transports change a channel in no way that the other end relies on.
LEMMA SilentAgreed ==
    ASSUME Inv, Agreed, NEW e \in Ends, NEW t,
           SameView(ch[e], t) \/ t.phase = "FAILED",
           Handshaken(ch[e], e) => Handshaken(t, e),
           ch' = [ch EXCEPT ![e] = t], net' = net, dtls' = dtls
    PROVE  Agreed'
  <1> DEFINE c == ch[e]
             o == Other(e)
             k == ch[o]
  <1>1. o \in Ends /\ o # e
    BY EndsFacts
  <1>2. /\ ch \in [Ends -> Channel]
        /\ Stream(c, net[e]) /\ Stream(k, net[o])
        /\ Handshaken(c, e) /\ Handshaken(k, o)
        /\ (c.phase # "FAILED" /\ k.phase # "FAILED" => Between(c, k, net[e], net[o]))
    BY AgreedNow
  <1>3. ch'[e] = t /\ ch'[o] = k /\ net'[e] = net[e] /\ net'[o] = net[o]
    BY <1>1, <1>2
  <1> HIDE DEF c, o, k
  <1>4. Stream(t, net[e])
    <2>1. CASE t.phase = "FAILED"
      BY <2>1 DEF Stream
    <2>2. CASE SameView(c, t)
      BY <1>2, <2>2, SilentStream
    <2> QED BY <2>1, <2>2 DEF c
  <1>5. ASSUME t.phase # "FAILED", k.phase # "FAILED"
        PROVE  Between(t, k, net[e], net[o])
    <2>1. SameView(c, t)
      BY <1>5 DEF c
    <2>2. c.phase # "FAILED"
      BY <1>5, <2>1 DEF SameView
    <2> QED BY <1>2, <1>5, <2>1, <2>2, SilentStage
  <1>6. (\A x \in Ends : ch'[x].phase # "FAILED") =>
            Between(ch'[e], ch'[o], net'[e], net'[o])
    BY <1>1, <1>3, <1>5
  <1> QED BY <1>1, <1>2, <1>3, <1>4, <1>6, AgreedNext DEF o, c

LEMMA InitAgreed == Init => Agreed
  <1> SUFFICES ASSUME Init PROVE Agreed
    OBVIOUS
  <1>1. \A e \in Ends : ch[e] = NewChannel /\ net[e] = <<>>
    BY DEF Init
  <1>2. \A e \in Ends : Other(e) \in Ends
    BY EndsFacts
  <1>3. /\ NewChannel.phase = "INIT" /\ ~NewChannel.ever
        /\ ~SrtpActive(NewChannel.srtp) /\ ~NewChannel.both
        /\ NewChannel.dtls_role = "UNKNOWN"
    BY DEF NewChannel, NewSrtpFilter, SrtpActive
  <1>4. Idle(NewChannel, NewChannel, <<>>, <<>>)
    BY <1>3 DEF Idle, Rests, SameKeys
  <1>5. Stream(NewChannel, <<>>)
    BY <1>3 DEF Stream, Asks, All
  <1>6. \A e \in Ends : Handshaken(NewChannel, e)
    BY <1>3 DEF Handshaken, Steady
  <1>7. Between(NewChannel, NewChannel, <<>>, <<>>)
    BY <1>4 DEF Between, Stage
  <1>8. InStep /\ InOrder /\ \A e \in Ends : Handshaken(ch[e], e)
    BY <1>1, <1>2, <1>5, <1>6, <1>7 DEF InStep, InOrder
  <1> QED BY <1>8 DEF Agreed

LEMMA StepAgreed ==
    ASSUME Repeat = FALSE, Conflict = FALSE, Inv, Agreed, [Next]_vars
    PROVE  Agreed'
  <1>1. /\ ch \in [Ends -> Channel] /\ dtls \in BOOLEAN
        /\ \A e \in Ends : ch[e] \in Channel
    BY DEF Inv, TypeOK
  <1>2. [part \in Component |-> "ok"] \in Verdicts
        /\ [Component -> Outcomes] \subseteq Verdicts
    BY VerdictFacts
  <1>3. CASE UNCHANGED vars
    <2>1. A \in Ends /\ ch' = ch /\ net' = net /\ dtls' = dtls
      BY <1>3 DEF vars, Ends
    <2>2. ch' = [ch EXCEPT ![A] = ch[A]]
      BY <1>1, <2>1
    <2>3. SameView(ch[A], ch[A])
      BY DEF SameView
    <2> QED BY <2>1, <2>2, <2>3, SilentAgreed
  <1>4. ASSUME NEW e \in Ends, NEW mux \in BOOLEAN, NEW params \in OfferParams(e),
               Offer(e, params, mux)
        PROVE  Agreed'
    <2> DEFINE d == [action |-> "OFFER", cryptos |-> params, mux |-> mux]
    <2>1. d \in Description /\ d.action = "OFFER"
      BY ParamsAreTyped DEF Description, Action
    <2>2. SetLocalDescription(e, d, [part \in Component |-> "ok"])
      BY <1>4 DEF Offer
    <2>3. Rests(ch[e])
      BY <1>4 DEF Offer, CanOffer, Rests
    <2> HIDE DEF d
    <2> QED BY <1>2, <2>1, <2>2, <2>3, LocalAgreed
  <1>5. ASSUME NEW e \in Ends, NEW action \in Action, NEW mux \in BOOLEAN,
               NEW outcome \in [Component -> Outcomes],
               NEW params \in AnswerParams(e, ch[e].remote.cryptos),
               Answer(e, action, params, mux, outcome)
        PROVE  Agreed'
    <2> DEFINE d == [action |-> action, cryptos |-> params, mux |-> mux]
    <2>1. params \in SUBSET CryptoParams
      <3>1. ch[e].remote.cryptos \in SUBSET CryptoParams
        BY <1>1 DEF Channel
      <3> QED BY <3>1, ParamsAreTyped
    <2>2. d \in Description /\ d.action # "OFFER"
      BY <1>5, <2>1 DEF Description, Answer
    <2>3. SetLocalDescription(e, d, outcome) /\ Owes(ch[e])
      BY <1>5 DEF Answer, Owes
    <2> HIDE DEF d
    <2> QED BY <1>2, <2>2, <2>3, LocalAgreed
  <1>6. ASSUME NEW e \in Ends, NEW outcome \in [Component -> Outcomes],
               SetRemoteDescription(e, outcome)
        PROVE  Agreed'
    BY <1>2, <1>6, RemoteAgreed
  <1>7. ASSUME NEW e \in Ends, NEW part \in Component,
               NEW switch \in {FALSE, Conflict},
               NEW outcome \in [Component -> Outcomes],
               Writable(e, part, switch, outcome)
        PROVE  Agreed'
    <2> DEFINE c == [ch[e] EXCEPT !.up = @ \cup {part}, !.open = @ \cup {part}]
               w == ChannelWritable_w(c, e, outcome)
    <2>0. c = [ch[e] EXCEPT !.up = @ \cup {part}, !.open = @ \cup {part},
                            !.role = IF switch THEN Switched(ch[e]) ELSE @]
      BY <1>1 DEF Channel
    <2>1. /\ ch' = [ch EXCEPT ![e] = w] \/ ch' = [ch EXCEPT ![e] = c]
          /\ net' = net /\ dtls' = dtls /\ ch[e].both
      BY <1>7, <2>0 DEF Writable
    <2>2. /\ c \in Channel /\ SameView(ch[e], c)
          /\ c.ever = ch[e].ever /\ c.srtp = ch[e].srtp /\ c.phase = ch[e].phase
          /\ c.both = ch[e].both /\ c.role = ch[e].role
          /\ c.dtls_role = ch[e].dtls_role /\ c.rtcp = ch[e].rtcp
      BY <1>1 DEF Channel, SameView
    <2> HIDE DEF c
    <2>3. Handshaken(ch[e], e) => Handshaken(c, e) /\ c.dtls_role # "UNKNOWN"
      BY <2>1, <2>2 DEF Handshaken, Steady
    <2>4. /\ Kept(c, w)
          /\ Handshaken(c, e) /\ c.dtls_role # "UNKNOWN" => Handshaken(w, e)
      BY <1>2, <2>2, WritableEffect
    <2> HIDE DEF w
    <2>5. SameView(ch[e], w) \/ w.phase = "FAILED"
      BY <2>2, <2>4 DEF Kept, SameView
    <2> QED BY <2>1, <2>2, <2>3, <2>4, <2>5, SilentAgreed
  <1>8. ASSUME NEW e \in Ends, NEW part \in Component, NotWritable(e, part)
        PROVE  Agreed'
    <2> DEFINE c == [ch[e] EXCEPT !.up = @ \ {part}]
    <2>1. ch' = [ch EXCEPT ![e] = c] /\ net' = net /\ dtls' = dtls
      BY <1>1, <1>8 DEF NotWritable, Channel
    <2>2. /\ SameView(ch[e], c) /\ c.ever = ch[e].ever /\ c.srtp = ch[e].srtp
          /\ c.both = ch[e].both /\ c.role = ch[e].role
          /\ c.dtls_role = ch[e].dtls_role
      BY <1>1 DEF Channel, SameView
    <2> HIDE DEF c
    <2>3. Handshaken(ch[e], e) => Handshaken(c, e)
      BY <2>2 DEF Handshaken, Steady, SameView
    <2> QED BY <2>1, <2>2, <2>3, SilentAgreed
  <1> QED BY <1>3, <1>4, <1>5, <1>6, <1>7, <1>8 DEF Next

\* The stage of the negotiation, what is on its way and the keys of DTLS are
\* those of Agreed in every reachable state.
THEOREM AgreedInvariance == Repeat = FALSE /\ Conflict = FALSE => (Spec => []Agreed)
  <1> SUFFICES ASSUME Repeat = FALSE, Conflict = FALSE PROVE Spec => []Agreed
    OBVIOUS
  <1>1. Inv /\ Agreed /\ [Next]_vars => Agreed'
    BY StepAgreed
  <1> QED BY <1>1, InitAgreed, Invariance, PTL DEF Spec

\* Both ends are idle when nothing is left to send or to answer.
LEMMA SettledIsIdle ==
    ASSUME Agreed, Settled
    PROVE  Idle(ch[A], ch[B], net[A], net[B]) \/ Idle(ch[B], ch[A], net[B], net[A])
  <1>1. A \in Ends /\ B \in Ends /\ Other(A) = B
    BY ChannelAssumption DEF Ends, Other
  <1>2. \A e \in Ends : ch[e].phase = "INPROGRESS"
    BY DEF Settled
  <1>3. Between(ch[A], ch[B], net[A], net[B])
    BY <1>1, <1>2 DEF Agreed, InStep
  <1>4. ch[A].phase = "INPROGRESS" /\ ch[B].phase = "INPROGRESS"
    BY <1>1, <1>2
  <1> QED BY <1>3, <1>4 DEF Between, Stage, Idle, Offering, Answering, Concluding,
                            Renewing, Glare, Asks, Owes

\* After every negotiation, one end encrypts with what the other decrypts with,
\* for any suites and keys, with or without provisional answers and DTLS, and
\* however many offers went before; with DTLS, provided that no end switches its
\* ICE role between the setup of DTLS and its keys.
THEOREM KeysAgreed == Repeat = FALSE /\ Conflict = FALSE => (Spec => []KeysAgree)
  <1> SUFFICES ASSUME Repeat = FALSE, Conflict = FALSE PROVE Spec => []KeysAgree
    OBVIOUS
  <1>1. Agreed => KeysAgree
    <2> SUFFICES ASSUME Agreed, Settled, dtls => \A e \in Ends : ch[e].ever
                 PROVE  /\ SameKeys(ch[A].srtp, ch[B].srtp)
                        /\ dtls /\ ch[A].rtcp /\ ch[B].rtcp =>
                              SameRtcpKeys(ch[A].srtp, ch[B].srtp)
      BY DEF KeysAgree, SameKeys, SameRtcpKeys
    <2>1. A \in Ends /\ B \in Ends /\ Other(A) = B /\ Other(B) = A
      BY ChannelAssumption DEF Ends, Other
    <2>2. CASE dtls
      <3>1. /\ DtlsKeyed(ch[A].srtp, A, ch[A].rtcp)
            /\ DtlsKeyed(ch[B].srtp, B, ch[B].rtcp)
        BY <2>1, <2>2 DEF Agreed, Handshaken
      <3>2. SameKeys(ch[A].srtp, ch[B].srtp)
        BY <2>1, <3>1 DEF DtlsKeyed, SameKeys
      <3>3. ch[A].rtcp /\ ch[B].rtcp => SameRtcpKeys(ch[A].srtp, ch[B].srtp)
        BY <2>1, <3>1, RealKeys DEF DtlsKeyed, SameRtcpKeys
      <3> QED BY <3>2, <3>3
    <2>3. CASE ~dtls
      BY <2>3, SettledIsIdle DEF Idle, SameKeys
    <2> QED BY <2>2, <2>3
  <1> QED BY <1>1, AgreedInvariance, PTL

\* And they agree on where RTCP goes, though each closes its RTCP transport by
\* itself when it sets or gets the final answer.
THEOREM MuxAgreed == Repeat = FALSE /\ Conflict = FALSE => (Spec => []MuxAgrees)
  <1> SUFFICES ASSUME Repeat = FALSE, Conflict = FALSE PROVE Spec => []MuxAgrees
    OBVIOUS
  <1>1. Agreed => MuxAgrees
    BY SettledIsIdle DEF MuxAgrees, Idle
  <1> QED BY <1>1, AgreedInvariance, PTL

\* What AnswerIsAccepted says of a step.
Accepts ==
    \A e \in Ends :
        /\ ~dtls
        /\ ch[e].phase \in {"SENTINITIATE", "RECEIVEDPRACCEPT"}
        /\ ch'[e].phase = "FAILED"
        => NoKey \in {ch'[e].srtp.send, ch'[e].srtp.recv}

LEMMA StepAccepts ==
    ASSUME Repeat = FALSE, Inv, Agreed, Next
    PROVE  Accepts
  <1> SUFFICES ASSUME NEW x \in Ends, ~dtls, Asks(ch[x]), ch'[x].phase = "FAILED"
               PROVE  NoKey \in {ch'[x].srtp.send, ch'[x].srtp.recv}
    BY DEF Accepts, Asks
  <1>1. /\ ch \in [Ends -> Channel] /\ ch[x] \in Channel /\ Sound(ch[x].srtp)
        /\ net[x] \in Seq(Description) /\ Stream(ch[x], net[x])
    BY AgreedNow
  <1>2. ch[x].phase # "FAILED" /\ ~Rests(ch[x]) /\ ~Owes(ch[x])
    BY DEF Asks, Rests, Owes
  <1>3. \A e \in Ends : \A c : ch' = [ch EXCEPT ![e] = c] => e = x /\ ch'[x] = c
    BY <1>1, <1>2
  <1>4. PICK outcome \in [Component -> Outcomes] : SetRemoteDescription(x, outcome)
    <2>1. ASSUME NEW e \in Ends, NEW mux \in BOOLEAN, NEW params \in OfferParams(e),
                 Offer(e, params, mux)
          PROVE  FALSE
      BY <1>2, <1>3, <2>1 DEF Offer, CanOffer, SetLocalDescription, Rests
    <2>2. ASSUME NEW e \in Ends, NEW action \in Action, NEW mux \in BOOLEAN,
                 NEW outcome \in [Component -> Outcomes],
                 NEW params \in AnswerParams(e, ch[e].remote.cryptos),
                 Answer(e, action, params, mux, outcome)
          PROVE  FALSE
      BY <1>2, <1>3, <2>2 DEF Answer, SetLocalDescription, Owes
    <2>3. ASSUME NEW e \in Ends, NEW outcome \in [Component -> Outcomes],
                 SetRemoteDescription(e, outcome)
          PROVE  e = x
      BY <1>2, <1>3, <2>3 DEF SetRemoteDescription
    <2>4. \A e \in Ends, part \in Component :
              /\ \A switch \in {FALSE, Conflict},
                    outcome \in [Component -> Outcomes] :
                    ~Writable(e, part, switch, outcome)
              /\ ~NotWritable(e, part)
      BY DEF Writable, NotWritable, Connecting
    <2> QED BY <2>1, <2>2, <2>3, <2>4 DEF Next
  <1> DEFINE d == Head(net[x])
             noted == [ch[x] EXCEPT !.remote = [cryptos |-> d.cryptos, mux |-> d.mux]]
             b == IF d.action = "OFFER" THEN noted ELSE ch[x]
             t == SetContent(b, x, d, "REMOTE", outcome)
  <1>5. net[x] # <<>> /\ ExpectSetRemoteDescription(ch[x], d.action) /\ ch'[x] = t
    BY <1>1, <1>2, <1>4 DEF SetRemoteDescription
  <1>6. d.action # "OFFER"
    BY <1>5 DEF ExpectSetRemoteDescription, Asks
  <1>7. t = SetContent(ch[x], x, d, "REMOTE", outcome)
    BY <1>6
  <1> HIDE DEF t
  <1>8. d \in Description /\ d = net[x][1] /\ 1 \in DOMAIN net[x]
    BY <1>1, <1>5, TailFacts
  <1> HIDE DEF d
  <1>9. Expects(ch[x]) /\ Fits(ch[x], d)
    BY <1>1, <1>2, <1>6, <1>8 DEF Stream
  <1>10. outcome \in Verdicts
    BY VerdictFacts
  <1> QED BY <1>1, <1>5, <1>6, <1>7, <1>8, <1>9, <1>10, AnswerFits

\* The answer to an end's offer, provisional or final, is never refused by its
\* filters: only libsrtp, refusing a key, makes an end fail that waits for one.
THEOREM AnswerAccepted == Repeat = FALSE /\ Conflict = FALSE => (Spec => AnswerIsAccepted)
  <1> SUFFICES ASSUME Repeat = FALSE, Conflict = FALSE PROVE Spec => AnswerIsAccepted
    OBVIOUS
  <1>1. Inv /\ Agreed /\ [Next]_vars => [Accepts]_vars
    BY StepAccepts
  <1> QED BY <1>1, Invariance, AgreedInvariance, PTL
          DEF Spec, AnswerIsAccepted, Accepts
=============================================================================
