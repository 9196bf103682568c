-------------------------------- MODULE Ice --------------------------------
(***************************************************************************)
(* Two ends that look for a path to each other: P2PTransportChannel of     *)
(* talk/p2p/base/p2ptransportchannel.cc with the Connections of port.cc,   *)
(* under ICEPROTO_RFC5245 with full ICE on both ends.                      *)
(*                                                                         *)
(* A path is a pair of candidates; each end has at most one connection on  *)
(* it.  A channel is a record, and what a handler calls is an operator     *)
(* from records to records.  Time is three flags of a connection that an   *)
(* action of the environment raises and the code's checks read.            *)
(***************************************************************************)
EXTENDS Naturals, FiniteSets

CONSTANTS
    End,           \* the two ends
    Path,          \* the candidate pairs
    Priority,      \* path -> pair priority
    Network,       \* path -> the local network it uses
    Told,          \* end -> paths that signalling tells it of
    Initiator,     \* the ends whose session has initiator_
    Tiebreaker,    \* end -> tie breaker
    NoPath,        \* NULL
    MaxFailures,   \* CONNECTION_WRITE_CONNECT_FAILURES
    MaxUnderWay,   \* pings of an end that may be under way
    MaxFaults      \* losses of a message and waits beyond time limits

ASSUME IceAssumption ==
    /\ \A a \in End : \E b \in End : End = {a, b} /\ a # b
    /\ IsFiniteSet(Path) /\ Priority \in [Path -> Nat]
    /\ \A c, d \in Path : Priority[c] = Priority[d] => c = d
    /\ DOMAIN Network = Path
    /\ Told \in [End -> SUBSET Path]
    /\ Initiator \subseteq End
    /\ Tiebreaker \in [End -> Nat]
    /\ NoPath \notin Path
    /\ MaxFailures \in Nat \ {0} /\ MaxUnderWay \in Nat
    /\ MaxFaults \in Nat

VARIABLES
    ch,        \* end -> its channel
    known,     \* end -> paths it was told of by signalling
    net,       \* messages under way
    conflict,  \* ends with MSG_ROLECONFLICT under way to the signalling thread
    faults     \* messages lost and time limits passed so far

vars == <<ch, known, net, conflict, faults>>

Other(p) == CHOOSE q \in End : q # p

-----------------------------------------------------------------------------
(* State.                                                                  *)

\* silent: no ping or data came for CONNECTION_READ_TIMEOUT.  failed and late:
\* pings without a response for CONNECTION_WRITE_CONNECT_TIMEOUT, and for
\* CONNECTION_WRITE_TIMEOUT.
Connection ==
    [read : {"init", "readable", "timeout"},
     write : {"writable", "unreliable", "init", "timeout"},
     pruned : BOOLEAN, pings : 0 .. MaxFailures,
     silent : BOOLEAN, failed : BOOLEAN, late : BOOLEAN]

NewConnection ==
    [read |-> "init", write |-> "init", pruned |-> FALSE, pings |-> 0,
     silent |-> FALSE, failed |-> FALSE, late |-> FALSE]

\* sort: MSG_SORT is queued; dirty: sort_dirty_; del: connections with
\* MSG_DELETE queued.
Channel ==
    [conns : SUBSET Path, conn : [Path -> Connection],
     best : Path \cup {NoPath}, pending : Path \cup {NoPath},
     sort : BOOLEAN, dirty : BOOLEAN, del : SUBSET Path,
     writable : BOOLEAN, readable : BOOLEAN,
     role : {"controlling", "controlled"}, switched : BOOLEAN]

Message ==
    [type : {"ping"}, to : End, path : Path, use : BOOLEAN, live : BOOLEAN,
     role : {"controlling", "controlled"}]
    \cup [type : {"response", "conflict"}, to : End, path : Path]

\* Better write states have lower values.
Rank == [writable |-> 0, unreliable |-> 1, init |-> 2, timeout |-> 3]

-----------------------------------------------------------------------------
(* Changes of a connection's state, with what the channel does about them. *)

RequestSort(h) ==
    IF h.dirty THEN h ELSE [h EXCEPT !.dirty = TRUE, !.sort = TRUE]

OnConnectionStateChange(h, c) ==
    RequestSort(IF /\ h.role = "controlled" /\ c = h.pending
                   /\ h.conn[c].write = "writable"
                THEN [h EXCEPT !.best = c, !.pending = NoPath]
                ELSE h)

Dead(k) == k.read # "readable" /\ k.write = "timeout"

CheckTimeout(h, c) ==
    IF Dead(h.conn[c])
    THEN [h EXCEPT !.del = @ \cup {c}] ELSE h

SetWriteState(h, c, w) ==
    IF h.conn[c].write = w THEN h
    ELSE CheckTimeout(
            OnConnectionStateChange([h EXCEPT !.conn[c].write = w], c), c)

SetReadState(h, c, r) ==
    IF h.conn[c].read = r THEN h
    ELSE CheckTimeout(
            OnConnectionStateChange([h EXCEPT !.conn[c].read = r], c), c)

ReceivedPing(h, c) ==
    SetReadState([h EXCEPT !.conn[c].silent = FALSE], c, "readable")

\* UpdateState: what has run out of time.
UpdateState(k) ==
    LET w == IF k.write = "writable" /\ k.failed THEN "unreliable" ELSE k.write
    IN  [k EXCEPT
            !.read = IF @ = "readable" /\ k.silent THEN "timeout" ELSE @,
            !.write = IF w \in {"unreliable", "init"} /\ k.late
                      THEN "timeout" ELSE w]

\* The connections are now those of new, none of which became "writable".
Degrade(h, new) ==
    LET changed == {c \in h.conns : new[c].read # h.conn[c].read
                                    \/ new[c].write # h.conn[c].write}
        g == [h EXCEPT !.conn = new,
                       !.del = @ \cup {c \in changed : Dead(new[c])}]
    IN  IF changed = {} THEN g ELSE RequestSort(g)

UpdateConnectionStates(h) ==
    Degrade(h, [c \in Path |->
        IF c \in h.conns THEN UpdateState(h.conn[c]) ELSE h.conn[c]])

-----------------------------------------------------------------------------
(* SortConnections.                                                        *)

\* CompareConnections(c, d) > 0
Better(h, c, d) ==
    \/ Rank[h.conn[c].write] < Rank[h.conn[d].write]
    \/ h.conn[c].write = h.conn[d].write /\ Priority[c] > Priority[d]

\* The first of the connections of C in sorted order.
Top(h, C) ==
    IF C = {} THEN NoPath
    ELSE CHOOSE c \in C : \A d \in C \ {c} : Better(h, c, d)

ShouldSwitch(h, a, b) ==
    a # b /\ (a = NoPath \/ b = NoPath \/ Better(h, b, a))

\* The controlled end takes what the controlling end selects.
SelectBest(h) ==
    IF /\ h.role = "controlling"
       /\ ShouldSwitch(h, h.best, Top(h, h.conns))
    THEN [h EXCEPT !.best = Top(h, h.conns)] ELSE h

\* GetBestConnectionOnNetwork, for the network of c.
Premier(h, c) ==
    IF h.best # NoPath /\ Network[h.best] = Network[c] THEN h.best
    ELSE Top(h, {d \in h.conns : Network[d] = Network[c]})

Prune(k) == [k EXCEPT !.pruned = TRUE, !.write = "timeout"]

\* The connections that Prune is called for, and has something to do.
Useless(h, c) ==
    LET d == Premier(h, c)
    IN  /\ h.conn[d].write = "writable"
        /\ c # d /\ Priority[d] >= Priority[c]
ToPrune(h) == {c \in h.conns : Useless(h, c) /\ ~h.conn[c].pruned}

PruneConnections(h) ==
    LET useless == ToPrune(h)
    IN  Degrade(h, [c \in Path |->
            IF c \in useless THEN Prune(h.conn[c]) ELSE h.conn[c]])

UpdateChannelState(h) ==
    [h EXCEPT
        !.writable = h.best # NoPath /\ h.conn[h.best].write = "writable",
        !.readable = \E c \in h.conns : h.conn[c].read = "readable"]

\* F(h), for an h that TLC is to evaluate once.
Then(h, F(_)) == CHOOSE g \in {F(x) : x \in {h}} : TRUE

\* A bug: sort_dirty_ is not reset.
SortStaysDirty(h) ==
    Then(Then(Then(UpdateConnectionStates(h), SelectBest), PruneConnections),
         UpdateChannelState)

SortConnections(h) ==
    LET g == [UpdateConnectionStates(h) EXCEPT !.dirty = FALSE]
    IN  Then(Then(Then(g, SelectBest), PruneConnections), UpdateChannelState)

\* The requests of connections that were pruned are forgotten: what is under
\* way will not be taken for an answer.
Forget(ms, p, C) ==
    {[m EXCEPT !.live = m.live /\ ~(m.to # p /\ m.path \in C)] :
        m \in {n \in ms : n.type = "ping"}}
    \cup {m \in ms : m.type # "ping" /\ ~(m.to = p /\ m.path \in C)}

Pruned(h, g) == {c \in Path : g.conn[c].pruned /\ ~h.conn[c].pruned}

-----------------------------------------------------------------------------
(* Handlers.                                                               *)

Step(p, h, ms) ==
    \E g \in {h} : /\ ch' = [ch EXCEPT ![p] = g]
                   /\ net' = Forget(ms, p, Pruned(ch[p], g))

\* A candidate of the other end, or a port of this one, makes a new pair.
AddPath(p, c) ==
    /\ c \in Told[p] \ known[p]
    /\ known' = [known EXCEPT ![p] = @ \cup {c}]
    /\ Step(p, SortConnections([ch[p] EXCEPT !.conns = @ \cup {c}]), net)
    /\ UNCHANGED <<conflict, faults>>

OnSort(p) ==
    /\ ch[p].sort
    /\ Step(p, SortConnections([ch[p] EXCEPT !.sort = FALSE]), net)
    /\ UNCHANGED <<known, conflict, faults>>

IsPingable(h, c) ==
    \/ h.conn[c].write # "timeout"
    \/ ~h.writable /\ h.conn[c].read # "timeout"

\* A bug: only the first selection is announced.
UseCandidateOnce(h, c) == h.role = "controlling" /\ h.best = NoPath

\* PingConnection: aggressive nomination.
UseCandidate(h, c) ==
    /\ h.role = "controlling"
    /\ \/ h.best \in {c, NoPath}
       \/ h.conn[h.best].write # "writable"
       \/ Priority[c] > Priority[h.best]

\* A ping of this end, or the answer to one.
OfPing(m, p) == (m.type = "ping") = (m.to # p)

\* MSG_PING: the states are updated, and the connection whose turn it is sends
\* a ping.
OnPing(p, c) ==
    LET h == UpdateConnectionStates(ch[p])
        ping == [type |-> "ping", to |-> Other(p), path |-> c, live |-> TRUE,
                 use |-> UseCandidate(h, c), role |-> h.role]
    IN  /\ Cardinality({m \in net : OfPing(m, p)}) < MaxUnderWay
        /\ c \in ch[p].conns /\ IsPingable(h, c)
        /\ Step(p, [h EXCEPT !.conn[c].pings = IF @ < MaxFailures
                                               THEN @ + 1 ELSE @],
                net \cup {ping})
        /\ UNCHANGED <<known, conflict, faults>>

\* MSG_PING with nothing to ping.
OnPingNothing(p) ==
    LET h == UpdateConnectionStates(ch[p])
    IN  /\ \A c \in h.conns : ~IsPingable(h, c)
        /\ h # ch[p]
        /\ Step(p, h, net)
        /\ UNCHANGED <<known, conflict, faults>>

\* MaybeIceRoleConflict: this end has to change its role, or the other one.
SameRole(p, m) == ch[p].role = m.role
\* A bug: the tie breakers are not compared.
YieldsAlways(p, m) == SameRole(p, m)

Yields(p, m) ==
    /\ SameRole(p, m)
    /\ IF m.role = "controlling" THEN Tiebreaker[Other(p)] >= Tiebreaker[p]
       ELSE Tiebreaker[Other(p)] < Tiebreaker[p]

\* OnUseCandidate: the controlling end has selected c.
OnUseCandidate(h, c) ==
    IF h.conn[c].write # "writable" THEN [h EXCEPT !.pending = c]
    ELSE IF h.best = c THEN h
    ELSE RequestSort([h EXCEPT !.best = c, !.pending = NoPath])

\* A binding request on a connection.
Restart(h, c) ==
    IF ~h.conn[c].pruned /\ h.conn[c].write = "timeout"
    THEN SetWriteState(h, c, "init") ELSE h
OnRequest(h, c, m) ==
    LET g == Restart(ReceivedPing(h, c), c)
    IN  IF h.role = "controlled" /\ m.use THEN OnUseCandidate(g, c) ELSE g

\* The username of a request is that of all candidates of its sender: it is known
\* once signalling has told the end of one.
KnownUsername(p) == known[p] # {}

\* A binding request from an address without a connection, and with a username
\* that is known, makes one.
OnUnknownAddress(h, c) ==
    SortConnections(ReceivedPing([h EXCEPT !.conns = @ \cup {c}], c))

\* The roles are compared first.  A request with an unknown username is answered
\* with STALE_CREDENTIALS, after which its sender only tries again.
ReceivePing(p, m) ==
    LET c == m.path
        answer(t) == IF m.live THEN {[type |-> t, to |-> Other(p), path |-> c]}
                     ELSE {}
        rest == net \ {m}
    IN  /\ m \in net /\ m.type = "ping" /\ m.to = p
        /\ IF SameRole(p, m) /\ ~Yields(p, m)
           THEN /\ net' = rest \cup answer("conflict")
                /\ UNCHANGED <<ch, conflict>>
           ELSE /\ IF c \in ch[p].conns
                   THEN Step(p, OnRequest(ch[p], c, m), rest \cup answer("response"))
                   ELSE IF KnownUsername(p)
                   THEN Step(p, OnUnknownAddress(ch[p], c),
                             rest \cup answer("response"))
                   ELSE net' = rest /\ UNCHANGED ch
                /\ conflict' = IF Yields(p, m) THEN conflict \cup {p}
                               ELSE conflict
        /\ UNCHANGED <<known, faults>>

\* OnConnectionRequestResponse
ReceiveResponse(p, m) ==
    LET h == SetWriteState(ch[p], m.path, "writable")
    IN  /\ m \in net /\ m.type = "response" /\ m.to = p
        /\ Step(p, [h EXCEPT !.conn[m.path].pings = 0,
                             !.conn[m.path].failed = FALSE,
                             !.conn[m.path].late = FALSE], net \ {m})
        /\ UNCHANGED <<known, conflict, faults>>

\* STUN_ERROR_ROLE_CONFLICT
ReceiveConflict(p, m) ==
    /\ m \in net /\ m.type = "conflict" /\ m.to = p
    /\ net' = net \ {m}
    /\ conflict' = conflict \cup {p}
    /\ UNCHANGED <<ch, known, faults>>

\* BaseSession::OnRoleConflict: the role is turned round once.
OnRoleConflict(p) ==
    /\ p \in conflict
    /\ conflict' = conflict \ {p}
    /\ ch' = [ch EXCEPT ![p] =
                 IF @.switched THEN @
                 ELSE [@ EXCEPT !.switched = TRUE,
                                !.role = IF p \in Initiator THEN "controlled"
                                         ELSE "controlling"]]
    /\ UNCHANGED <<known, net, faults>>

\* Data from the other end, whose best connection this is (still: data that is
\* under way while the best connection changes is left out).
ReceiveData(p, c) ==
    LET q == ch[Other(p)]
        h == [ch[p] EXCEPT !.conn[c].silent = FALSE]
    IN  /\ q.best = c /\ q.conn[c].write \in {"writable", "unreliable"}
        /\ c \in ch[p].conns /\ ch[p].conn[c].read = "readable"
        /\ ch[p].conn[c].silent \/ Restart(h, c) # h
        /\ Step(p, Restart(h, c), net)
        /\ UNCHANGED <<known, conflict, faults>>

\* A bug: pending_best_connection_ keeps its pointer.
OnDeleteKeepsPending(p, c) ==
    LET h == [ch[p] EXCEPT
                 !.del = @ \ {c}, !.conns = @ \ {c},
                 !.conn[c] = NewConnection]
    IN  /\ c \in ch[p].del
        /\ ch' = [ch EXCEPT ![p] = IF h.best = c
                                   THEN RequestSort([h EXCEPT !.best = NoPath])
                                   ELSE h]
        /\ net' = Forget(net, p, {c})
        /\ UNCHANGED <<known, conflict, faults>>

\* MSG_DELETE: the connection goes, whatever has come in the meantime.
OnDelete(p, c) ==
    LET h == [ch[p] EXCEPT
                 !.del = @ \ {c}, !.conns = @ \ {c},
                 !.conn[c] = NewConnection,
                 !.pending = IF @ = c THEN NoPath ELSE @]
    IN  /\ c \in ch[p].del
        /\ ch' = [ch EXCEPT ![p] = IF h.best = c
                                   THEN RequestSort([h EXCEPT !.best = NoPath])
                                   ELSE h]
        /\ net' = Forget(net, p, {c})
        /\ UNCHANGED <<known, conflict, faults>>

-----------------------------------------------------------------------------
(* The network and time.                                                   *)

Lose(m) ==
    /\ faults < MaxFaults /\ faults' = faults + 1
    /\ net' = net \ {m}
    /\ UNCHANGED <<ch, known, conflict>>

\* The time limits that run for a connection.
Limits(k) ==
    {l \in {"silent", "failed", "late"} :
        /\ ~k[l]
        /\ l = "silent" => k.read = "readable"
        /\ l = "failed" => k.pings = MaxFailures
        /\ l = "late" => k.pings > 0}

\* Time passes: some limits of a connection with it.
Wait(p, c) ==
    LET k == ch[p].conn[c]
    IN  /\ faults < MaxFaults /\ faults' = faults + 1
        /\ c \in ch[p].conns
        /\ \E S \in SUBSET Limits(k) \ {{}} :
              ch' = [ch EXCEPT ![p].conn[c] =
                        [f \in DOMAIN k |-> IF f \in S THEN TRUE ELSE k[f]]]
        /\ UNCHANGED <<known, net, conflict>>

-----------------------------------------------------------------------------
Init ==
    /\ ch = [p \in End |->
                [conns |-> {}, conn |-> [c \in Path |-> NewConnection],
                 best |-> NoPath, pending |-> NoPath, sort |-> FALSE,
                 dirty |-> FALSE, del |-> {}, writable |-> FALSE,
                 readable |-> FALSE, switched |-> FALSE,
                 role |-> IF p \in Initiator THEN "controlling"
                          ELSE "controlled"]]
    /\ known = [p \in End |-> {}]
    /\ net = {} /\ conflict = {} /\ faults = 0

Receive(p) ==
    \E m \in net : ReceivePing(p, m) \/ ReceiveResponse(p, m)
                   \/ ReceiveConflict(p, m)

Next ==
    \/ \E p \in End :
          \/ OnSort(p) \/ OnPingNothing(p) \/ Receive(p) \/ OnRoleConflict(p)
          \/ \E c \in Path : \/ AddPath(p, c) \/ OnPing(p, c)
                             \/ ReceiveData(p, c) \/ OnDelete(p, c)
                             \/ Wait(p, c)
    \/ \E m \in net : Lose(m)

Spec == Init /\ [][Next]_vars

\* Both threads run their messages, signalling tells both ends of every path,
\* pings go round, and a message that is not lost arrives.
Fairness ==
    \A p \in End :
        /\ WF_vars(OnSort(p)) /\ WF_vars(OnRoleConflict(p))
        /\ \A c \in Path :
              /\ WF_vars(AddPath(p, c)) /\ WF_vars(OnDelete(p, c))
              /\ SF_vars(OnPing(p, c))
              /\ WF_vars(\E m \in net : m.path = c /\ ReceivePing(p, m))
              /\ WF_vars(\E m \in net : m.path = c /\ ReceiveResponse(p, m))
        /\ WF_vars(\E m \in net : ReceiveConflict(p, m))

FairSpec == Spec /\ Fairness

-----------------------------------------------------------------------------
(* Properties.                                                             *)

\* Every variable holds what the code's declarations allow it to hold.
TypeOK ==
    /\ ch \in [End -> Channel]
    /\ known \in [End -> SUBSET Path]
    /\ net \subseteq Message
    /\ conflict \subseteq End
    /\ faults \in 0 .. MaxFaults

\* The pointers to the best and to the pending connection, and the messages
\* queued for connections, are to connections that exist.
PointersAreAlive ==
    \A p \in End :
        /\ {ch[p].best, ch[p].pending} \subseteq ch[p].conns \cup {NoPath}
        /\ ch[p].del \subseteq ch[p].conns
        /\ \A m \in net : m.type # "ping" /\ m.to = p => m.path \in ch[p].conns

\* That the channel tells those above whether it can send, by its best connection,
\* unless MSG_SORT is queued; so it does not stay wrong.
WritableIsCurrent ==
    \A p \in End :
        /\ ch[p].dirty => ch[p].sort
        /\ \/ ch[p].sort
           \/ ch[p].writable = (ch[p].best # NoPath
                                /\ ch[p].conn[ch[p].best].write = "writable")

\* The same of whether it can receive, by any of its connections.  It does not hold:
\* see the README, section 9.
ReadableIsCurrent ==
    \A p \in End :
        \/ ch[p].sort
        \/ ch[p].readable = \E c \in ch[p].conns : ch[p].conn[c].read = "readable"

\* An end that does not hear another role conflict ends up with the other role.
RolesSettle ==
    <>[](\A p \in End : ch[p].role # ch[Other(p)].role)

\* When the network has settled, both ends can send, on the same path.
EndsMeet ==
    <>[](\A p \in End : ch[p].writable /\ ch[p].best = ch[Other(p)].best)
=============================================================================
