---------------------------- MODULE ThreadsProofs ----------------------------
(***************************************************************************)
(* Invariants of Threads proved for any threads, handlers and number of    *)
(* calls, with Sends nested to any depth.                                  *)
(***************************************************************************)
EXTENDS Threads, QueueProofs, SequenceTheorems

\* The loop is at the bottom of a stack and only there.  What is below another
\* frame is serving sends or running a handler.  A Send that begins is not ready.
Shaped(s) ==
    \A i \in DOMAIN s :
        /\ s[i].op = "loop" <=> i = 1
        /\ i < Len(s) => s[i].pc \in {"sends", "run"}
        /\ s[i].op # "loop" => s[i].h \in Handler
        /\ s[i].op = "serve" => s[i].from \in Thread
        /\ s[i].pc = "push" => ~s[i].ready
        /\ s[i].op = "send" => s[i].pc # "run"
Shapes == \A t \in Thread : Shaped(stack[t])

\* What is queued for a thread is for its handlers, and those are alive; so are
\* those that are called or about to be sent to.
QueuesAlive ==
    \A u \in Thread :
        /\ \A i \in DOMAIN msgq[u] :
              msgq[u][i] # Quit => Home[msgq[u][i]] = u /\ msgq[u][i] \notin dead
        /\ \A i \in DOMAIN dmsgq[u] :
              Home[dmsgq[u][i]] = u /\ dmsgq[u][i] \notin dead
        /\ \A i \in DOMAIN sends[u] :
              Home[sends[u][i].h] = u /\ sends[u][i].h \notin dead
Calls(f) == f.op = "handle" \/ (f.op = "send" /\ f.pc = "push")
CallsAlive ==
    \A t \in Thread : \A i \in DOMAIN stack[t] :
        Calls(stack[t][i]) => stack[t][i].h \notin dead

\* No two messages point to the same Send.
Serves(f) == f.op = "serve" /\ f.pc = "run"
Same(m, n) == m.from = n.from /\ m.depth = n.depth
Injective(q) == \A i, j \in DOMAIN q : q[i] = q[j] => i = j
Distinct ==
    \A u, v \in Thread :
        /\ Injective(sends[u])
        /\ \A i \in DOMAIN sends[u] : \A j \in DOMAIN sends[v] :
              Same(sends[u][i], sends[v][j]) => u = v /\ sends[u][i] = sends[v][j]
        /\ \A i \in DOMAIN sends[u] : \A j \in DOMAIN stack[v] :
              Serves(stack[v][j]) => ~Same(sends[u][i], stack[v][j])
        /\ \A i \in DOMAIN stack[u] : \A j \in DOMAIN stack[v] :
              Serves(stack[u][i]) /\ Serves(stack[v][j])
              /\ Same(stack[u][i], stack[v][j]) => u = v /\ i = j

\* has_sends_ is set while there is something in the send list.
HasIsSet == \A t \in Thread : sends[t] # <<>> => has[t]

\* A thread that is past ReceiveSends has seen what was sent to it, or will be
\* woken up.
PastSends(t) ==
    At(t, "loop", "pull") \/ At(t, "loop", "wait") \/ At(t, "send", "wait")
SendIsSeen ==
    \A t \in Thread :
        PastSends(t) /\ ~awake[t] /\ sends[t] # <<>> =>
            \E u \in Thread : At(u, "send", "wake") /\ Home[Top(u).h] = t

\* A thread that waits for messages without a wakeup has none.
PostIsSeen ==
    \A t \in Thread :
        At(t, "loop", "wait") /\ ~awake[t] =>
            msgq[t] = <<>> /\ (dmsgq[t] # <<>> => Top(t).timed)

\* A Send whose reply has come, and that does not look at it next, has a wakeup,
\* or will have one: from the thread that replies, or from a Send inside it that
\* has taken the wakeup and gives it back.
Sleepy(f) == f.op = "send" /\ f.ready /\ f.pc \in {"sends", "wait"}
Took(s, i) == \E j \in DOMAIN s : j > i /\ s[j].op = "send" /\ s[j].waited
Replying(t) == \E u \in Thread : At(u, "serve", "wake") /\ Top(u).from = t
ReplyIsSeen ==
    \A t \in Thread : \A i \in DOMAIN stack[t] :
        Sleepy(stack[t][i]) => awake[t] \/ Replying(t) \/ Took(stack[t], i)

\* The inductive invariant.
IInv ==
    /\ TypeOK /\ Shapes /\ QueuesAlive /\ CallsAlive
    /\ ReadyIsAlive /\ Distinct
    /\ HasIsSet /\ SendIsSeen /\ PostIsSeen /\ ReplyIsSeen

-----------------------------------------------------------------------------
(* Stacks.                                                                 *)

Pc == {"push", "wake", "check", "sends", "pull", "wait", "run"}

LEMMA StackFacts ==
    ASSUME NEW s \in Seq(Frame), s # <<>>
    PROVE  /\ Len(s) \in Nat /\ Len(s) >= 1 /\ DOMAIN s = 1 .. Len(s)
           /\ Len(s) \in DOMAIN s /\ s[Len(s)] \in Frame
OBVIOUS

\* Another frame on top in place of the one that is there.
LEMMA SetTop ==
    ASSUME NEW s \in Seq(Frame), s # <<>>, NEW f \in Frame
    PROVE  LET g == [s EXCEPT ![Len(s)] = f]
           IN  /\ g \in Seq(Frame) /\ Len(g) = Len(s) /\ g # <<>>
               /\ g[Len(s)] = f /\ \A i \in 1 .. Len(s) - 1 : g[i] = s[i]
<1> DEFINE g == [s EXCEPT ![Len(s)] = f]
<1>1. Len(s) \in 1 .. Len(s) /\ Len(s) \in Nat
  BY StackFacts
<1>2. /\ g \in Seq(Frame) /\ Len(g) = Len(s)
      /\ \A i \in 1 .. Len(s) : g[i] = IF i = Len(s) THEN f ELSE s[i]
  BY <1>1, ExceptSeq
<1> HIDE DEF g
<1>3. g # <<>> /\ g[Len(s)] = f /\ \A i \in 1 .. Len(s) - 1 : g[i] = s[i]
  BY <1>1, <1>2
<1> QED
  BY <1>2, <1>3 DEF g

LEMMA GotoFacts ==
    ASSUME NEW s \in Seq(Frame), s # <<>>, NEW pc \in Pc
    PROVE  /\ Goto(s, pc) \in Seq(Frame) /\ Len(Goto(s, pc)) = Len(s)
           /\ Goto(s, pc) # <<>> /\ Goto(s, pc)[Len(s)] = [s[Len(s)] EXCEPT !.pc = pc]
           /\ \A i \in 1 .. Len(s) - 1 : Goto(s, pc)[i] = s[i]
<1>1. [s[Len(s)] EXCEPT !.pc = pc] \in Frame
  BY StackFacts DEF Frame, Pc
<1>2. Goto(s, pc) = [s EXCEPT ![Len(s)] = [s[Len(s)] EXCEPT !.pc = pc]]
  BY DEF Goto
<1> QED
  BY <1>1, <1>2, SetTop

LEMMA PopFacts ==
    ASSUME NEW s \in Seq(Frame), s # <<>>
    PROVE  /\ Pop(s) \in Seq(Frame) /\ Len(Pop(s)) = Len(s) - 1
           /\ \A i \in 1 .. Len(s) - 1 : Pop(s)[i] = s[i]
<1> DEFINE n == Len(s) - 1
<1>1. Len(s) \in Nat /\ n \in Nat /\ n \in Int /\ 1 \in Int
      /\ \A i \in 1 .. n : s[i] \in Frame
  BY StackFacts
<1>2. Pop(s) = SubSeq(s, 1, n)
  BY DEF Pop
<1> HIDE DEF n
<1>3. /\ Pop(s) \in Seq(Frame) /\ Len(Pop(s)) = IF 1 <= n THEN n - 1 + 1 ELSE 0
      /\ \A i \in 1 .. n - 1 + 1 : Pop(s)[i] = s[1 + i - 1]
  BY <1>1, <1>2, SubSeqProperties
<1>4. Len(Pop(s)) = n /\ \A i \in 1 .. n : Pop(s)[i] = s[i]
  BY <1>1, <1>3
<1> QED
  BY <1>3, <1>4 DEF n

LEMMA NewFrameFacts ==
    ASSUME NEW op \in {"loop", "handle", "send", "serve"}, NEW pc \in Pc,
           NEW h \in Handler \cup {Nobody}
    PROVE  NewFrame(op, pc, h) \in Frame
BY DEF NewFrame, Frame, Pc

\* Release sets `ready` of the frames that are pointed to, and nothing else.
Pointed(ms, t, i) == \E m \in ms : m.from = t /\ m.depth = i
LEMMA ReleaseFacts ==
    ASSUME NEW s \in [Thread -> Seq(Frame)], NEW ms
    PROVE  /\ Release(s, ms) \in [Thread -> Seq(Frame)]
           /\ \A t \in Thread :
                 /\ Len(Release(s, ms)[t]) = Len(s[t])
                 /\ (Release(s, ms)[t] = <<>>) = (s[t] = <<>>)
                 /\ \A i \in 1 .. Len(s[t]) :
                       Release(s, ms)[t][i] =
                           IF Pointed(ms, t, i) THEN [s[t][i] EXCEPT !.ready = TRUE]
                           ELSE s[t][i]
<1> DEFINE r(t) == [i \in DOMAIN s[t] |->
                      IF Pointed(ms, t, i) THEN [s[t][i] EXCEPT !.ready = TRUE]
                      ELSE s[t][i]]
<1>1. Release(s, ms) = [t \in Thread |-> r(t)]
  BY DEF Release, Pointed
<1>2. ASSUME NEW t \in Thread
      PROVE  r(t) \in Seq(Frame) /\ Len(r(t)) = Len(s[t])
  <2>1. s[t] \in Seq(Frame) /\ Len(s[t]) \in Nat /\ DOMAIN s[t] = 1 .. Len(s[t])
    OBVIOUS
  <2>2. ASSUME NEW i \in 1 .. Len(s[t]) PROVE r(t)[i] \in Frame
    <3>1. s[t][i] \in Frame
      BY <2>1
    <3>2. [s[t][i] EXCEPT !.ready = TRUE] \in Frame
      BY <3>1 DEF Frame
    <3> QED
      BY <2>1, <3>1, <3>2
  <2>3. r(t) \in [1 .. Len(s[t]) -> Frame]
    BY <2>1, <2>2
  <2> HIDE DEF r
  <2> QED
    BY <2>1, <2>3
<1>3. ASSUME NEW t \in Thread, NEW i \in 1 .. Len(s[t])
      PROVE  r(t)[i] = IF Pointed(ms, t, i) THEN [s[t][i] EXCEPT !.ready = TRUE]
                       ELSE s[t][i]
  <2>1. i \in DOMAIN s[t]
    OBVIOUS
  <2> QED
    BY <2>1
<1> HIDE DEF r
<1>4. \A t \in Thread : (r(t) = <<>>) = (s[t] = <<>>)
  BY <1>2
<1> QED
  BY <1>1, <1>2, <1>3, <1>4

-----------------------------------------------------------------------------
(* What a step has to leave alone.                                         *)

\* Waits, for any stacks.
Points(st, m) ==
    /\ m.depth \in DOMAIN st[m.from]
    /\ LET f == st[m.from][m.depth]
       IN  f.op = "send" /\ f.pc # "push" /\ ~f.ready /\ f.h = m.h

LEMMA PointsSame ==
    ASSUME NEW st, NEW m, NEW x, m.from = x.from, m.depth = x.depth, m.h = x.h,
           Points(st, m)
    PROVE  Points(st, x)
BY DEF Points

\* The messages that point to a Send are some of those that did, and each of
\* these Sends still waits.
LEMMA LinksKept ==
    ASSUME ReadyIsAlive, Distinct,
           \A u \in Thread :
              /\ Injective(sends'[u])
              /\ \A i \in DOMAIN sends'[u] :
                    /\ \E j \in DOMAIN sends[u] : sends[u][j] = sends'[u][i]
                    /\ Points(stack, sends'[u][i]) => Points(stack', sends'[u][i])
              /\ \A i \in DOMAIN stack'[u] : Serves(stack'[u][i]) =>
                    /\ i \in DOMAIN stack[u] /\ Serves(stack[u][i])
                    /\ stack'[u][i].from = stack[u][i].from
                    /\ stack'[u][i].depth = stack[u][i].depth
                    /\ stack'[u][i].h = stack[u][i].h
                    /\ Points(stack, stack'[u][i]) => Points(stack', stack'[u][i])
    PROVE  ReadyIsAlive' /\ Distinct'
<1>1. ASSUME NEW u \in Thread, NEW i \in DOMAIN sends'[u]
      PROVE  Points(stack', sends'[u][i])
  <2>1. PICK j \in DOMAIN sends[u] : sends[u][j] = sends'[u][i]
    OBVIOUS
  <2>2. Points(stack, sends[u][j])
    BY DEF ReadyIsAlive, Waits, Points
  <2> QED
    BY <2>1, <2>2
<1>2. ASSUME NEW u \in Thread, NEW i \in DOMAIN stack'[u], Serves(stack'[u][i])
      PROVE  Points(stack', stack'[u][i])
  <2>1. /\ i \in DOMAIN stack[u] /\ Serves(stack[u][i])
        /\ stack'[u][i].from = stack[u][i].from
        /\ stack'[u][i].depth = stack[u][i].depth
        /\ stack'[u][i].h = stack[u][i].h
    BY <1>2
  <2>2. Points(stack, stack[u][i])
    BY <2>1 DEF ReadyIsAlive, Waits, Points, Serves
  <2>3. Points(stack, stack'[u][i])
    BY <2>1, <2>2 DEF Points
  <2> QED
    BY <1>2, <2>3
<1>3. ReadyIsAlive'
  <2>1. ASSUME NEW u \in Thread, NEW i \in DOMAIN sends'[u]
        PROVE  Waits(sends[u][i])'
    BY <1>1 DEF Waits, Points
  <2>2. ASSUME NEW u \in Thread, NEW i \in DOMAIN stack'[u],
               stack'[u][i].op = "serve", stack'[u][i].pc = "run"
        PROVE  Waits(stack[u][i])'
    BY <1>2, <2>2 DEF Waits, Points, Serves
  <2> QED
    BY <2>1, <2>2 DEF ReadyIsAlive
<1>4. ASSUME NEW u \in Thread, NEW v \in Thread
      PROVE  /\ \A i \in DOMAIN sends'[u] : \A j \in DOMAIN sends'[v] :
                   Same(sends'[u][i], sends'[v][j]) =>
                       u = v /\ sends'[u][i] = sends'[v][j]
             /\ \A i \in DOMAIN sends'[u] : \A j \in DOMAIN stack'[v] :
                   Serves(stack'[v][j]) => ~Same(sends'[u][i], stack'[v][j])
             /\ \A i \in DOMAIN stack'[u] : \A j \in DOMAIN stack'[v] :
                   Serves(stack'[u][i]) /\ Serves(stack'[v][j])
                   /\ Same(stack'[u][i], stack'[v][j]) => u = v /\ i = j
  BY DEF Distinct, Same
<1>5. Distinct'
  BY <1>4 DEF Distinct, Same, Serves, Injective
<1> QED
  BY <1>3, <1>5

LEMMA Linked ==
    ASSUME IInv, NEW v \in Thread
    PROVE  /\ \A i \in DOMAIN sends[v] :
                 Points(stack, sends[v][i]) /\ sends[v][i].from \in Thread
           /\ \A i \in DOMAIN stack[v] : Serves(stack[v][i]) =>
                 Points(stack, stack[v][i]) /\ stack[v][i].from \in Thread
<1>1. ReadyIsAlive /\ Shapes /\ sends[v] \in Seq(SendMessage)
  BY DEF IInv, TypeOK
<1>2. \A i \in DOMAIN sends[v] : sends[v][i].from \in Thread
  <2>1. \A i \in DOMAIN sends[v] : sends[v][i] \in SendMessage
    BY <1>1
  <2> QED
    BY <2>1 DEF SendMessage
<1>3. \A i \in DOMAIN stack[v] : Serves(stack[v][i]) => stack[v][i].from \in Thread
  BY <1>1 DEF Shapes, Shaped, Serves
<1>4. \A i \in DOMAIN sends[v] : Points(stack, sends[v][i])
  BY <1>1 DEF ReadyIsAlive, Waits, Points
<1>5. \A i \in DOMAIN stack[v] : Serves(stack[v][i]) => Points(stack, stack[v][i])
  BY <1>1 DEF ReadyIsAlive, Waits, Points, Serves
<1> QED
  BY <1>2, <1>3, <1>4, <1>5

LEMMA LinkedNext ==
    ASSUME \A v \in Thread :
              /\ \A i \in DOMAIN sends'[v] : Points(stack', sends'[v][i])
              /\ \A i \in DOMAIN stack'[v] :
                    Serves(stack'[v][i]) => Points(stack', stack'[v][i])
    PROVE  ReadyIsAlive'
BY DEF ReadyIsAlive, Waits, Points, Serves

LEMMA DistinctNext ==
    ASSUME \A u \in Thread : Injective(sends'[u]),
           \A u, v \in Thread :
              \A i \in DOMAIN sends'[u] : \A j \in DOMAIN sends'[v] :
                 Same(sends'[u][i], sends'[v][j]) =>
                     u = v /\ sends'[u][i] = sends'[v][j],
           \A u, v \in Thread :
              \A i \in DOMAIN sends'[u] : \A j \in DOMAIN stack'[v] :
                 Serves(stack'[v][j]) => ~Same(sends'[u][i], stack'[v][j]),
           \A u, v \in Thread :
              \A i \in DOMAIN stack'[u] : \A j \in DOMAIN stack'[v] :
                 Serves(stack'[u][i]) /\ Serves(stack'[v][j])
                 /\ Same(stack'[u][i], stack'[v][j]) => u = v /\ i = j
    PROVE  Distinct'
BY DEF Distinct, Same, Serves, Injective

\* Of the stack s of a thread, g keeps the Sends that wait, and serves nothing
\* new.
Keeps(s, g) ==
    /\ \A i \in DOMAIN s :
          s[i].op = "send" /\ s[i].pc # "push" /\ ~s[i].ready =>
              /\ i \in DOMAIN g /\ g[i].op = "send" /\ g[i].pc # "push"
              /\ ~g[i].ready /\ g[i].h = s[i].h
    /\ \A i \in DOMAIN g : Serves(g[i]) =>
          /\ i \in DOMAIN s /\ Serves(s[i])
          /\ g[i].from = s[i].from /\ g[i].depth = s[i].depth /\ g[i].h = s[i].h
AllAlive(s) == \A i \in DOMAIN s : Calls(s[i]) => s[i].h \notin dead

\* A step of thread t on its own stack.
LEMMA OwnShape ==
    ASSUME IInv, NEW t \in Thread, NEW g \in Seq(Frame),
           stack' = [stack EXCEPT ![t] = g], dead' = dead, Shaped(g), AllAlive(g)
    PROVE  /\ stack' \in [Thread -> Seq(Frame)] /\ stack'[t] = g
           /\ \A v \in Thread \ {t} : stack'[v] = stack[v]
           /\ Shapes' /\ CallsAlive'
<1>1. stack \in [Thread -> Seq(Frame)]
  BY DEF IInv, TypeOK
<1>2. /\ stack' \in [Thread -> Seq(Frame)] /\ stack'[t] = g
      /\ \A v \in Thread \ {t} : stack'[v] = stack[v]
  BY <1>1
<1>3. Shapes'
  BY <1>2 DEF IInv, Shapes, Shaped
<1>4. CallsAlive'
  BY <1>2 DEF IInv, CallsAlive, AllAlive, Calls
<1> QED
  BY <1>2, <1>3, <1>4

\* One that takes no message.
LEMMA OwnStep ==
    ASSUME IInv, NEW t \in Thread, NEW g \in Seq(Frame),
           stack' = [stack EXCEPT ![t] = g], sends' = sends, dead' = dead,
           Shaped(g), AllAlive(g), Keeps(stack[t], g)
    PROVE  /\ stack' \in [Thread -> Seq(Frame)] /\ stack'[t] = g
           /\ \A v \in Thread \ {t} : stack'[v] = stack[v]
           /\ Shapes' /\ CallsAlive' /\ ReadyIsAlive' /\ Distinct'
<1>1. stack \in [Thread -> Seq(Frame)] /\ sends \in [Thread -> Seq(SendMessage)]
  BY DEF IInv, TypeOK
<1>2. /\ stack' \in [Thread -> Seq(Frame)] /\ stack'[t] = g
      /\ \A v \in Thread \ {t} : stack'[v] = stack[v]
      /\ Shapes' /\ CallsAlive'
  BY OwnShape
<1>5. ASSUME NEW m, m.from \in Thread, Points(stack, m) PROVE Points(stack', m)
  BY <1>2, <1>5 DEF Points, Keeps
<1>6. ASSUME NEW u \in Thread
      PROVE  /\ Injective(sends'[u])
             /\ \A i \in DOMAIN sends'[u] :
                   /\ \E j \in DOMAIN sends[u] : sends[u][j] = sends'[u][i]
                   /\ Points(stack, sends'[u][i]) => Points(stack', sends'[u][i])
  <2>1. Injective(sends[u])
    BY DEF IInv, Distinct
  <2>2. \A i \in DOMAIN sends[u] : sends[u][i].from \in Thread
    <3>1. \A i \in DOMAIN sends[u] : sends[u][i] \in SendMessage
      BY <1>1
    <3> QED
      BY <3>1 DEF SendMessage
  <2> QED
    BY <1>5, <2>1, <2>2
<1>7. ASSUME NEW u \in Thread, NEW i \in DOMAIN stack'[u], Serves(stack'[u][i])
      PROVE  /\ i \in DOMAIN stack[u] /\ Serves(stack[u][i])
             /\ stack'[u][i].from = stack[u][i].from
             /\ stack'[u][i].depth = stack[u][i].depth
             /\ stack'[u][i].h = stack[u][i].h
             /\ Points(stack, stack'[u][i]) => Points(stack', stack'[u][i])
  <2>1. /\ i \in DOMAIN stack[u] /\ Serves(stack[u][i])
        /\ stack'[u][i].from = stack[u][i].from
        /\ stack'[u][i].depth = stack[u][i].depth
        /\ stack'[u][i].h = stack[u][i].h
    BY <1>2, <1>7 DEF Keeps
  <2>2. stack[u][i].from \in Thread
    BY <2>1 DEF IInv, Shapes, Shaped, Serves
  <2> QED
    BY <1>5, <2>1, <2>2
<1>8. ReadyIsAlive' /\ Distinct'
  BY <1>6, <1>7, LinksKept DEF IInv
<1> QED
  BY <1>2, <1>8

\* No Send of g is ready and asleep that was not in s, with a Send inside it
\* that gives back the wakeup if there was one.
Rests(s, g) ==
    \A i \in DOMAIN g : Sleepy(g[i]) =>
        i \in DOMAIN s /\ Sleepy(s[i]) /\ (Took(s, i) => Took(g, i))

\* A step of thread t on its own stack loses no wakeup: what it sends and whom
\* it replies to is woken or will be, its own Sends that are ready have a
\* wakeup, and it does not wait if there is something to do.
LEMMA OwnSeen ==
    ASSUME IInv, NEW t \in Thread, NEW g \in Seq(Frame),
           stack' = [stack EXCEPT ![t] = g],
           \A v \in Thread \ {t} :
              /\ awake[v] => awake'[v]
              /\ awake'[v] \/ (msgq'[v] = msgq[v] /\ dmsgq'[v] = dmsgq[v]),
           \A v \in Thread : sends'[v] # <<>> =>
              sends[v] # <<>> \/ (At(t, "send", "wake")' /\ Home[Top(t).h]' = v),
           PastSends(t)' /\ ~awake'[t] /\ sends'[t] # <<>> =>
              PastSends(t) /\ ~awake[t],
           At(t, "send", "wake") => awake'[Home[Top(t).h]],
           At(t, "loop", "wait")' /\ ~awake'[t] =>
              msgq'[t] = <<>> /\ (dmsgq'[t] # <<>> => Top(t)'.timed),
           \/ awake'[t]
           \/ (awake[t] => awake'[t]) /\ Rests(stack[t], g)
           \/ \A i \in DOMAIN g : Sleepy(g[i]) => Took(g, i),
           At(t, "serve", "wake") => awake'[Top(t).from]
    PROVE  SendIsSeen' /\ PostIsSeen' /\ ReplyIsSeen'
<1>1. /\ stack' \in [Thread -> Seq(Frame)] /\ stack'[t] = g
      /\ \A v \in Thread \ {t} : stack'[v] = stack[v]
  BY DEF IInv, TypeOK
<1>2. ASSUME NEW v \in Thread \ {t}
      PROVE  /\ Top(v)' = Top(v) /\ PastSends(v)' = PastSends(v)
             /\ At(v, "loop", "wait")' = At(v, "loop", "wait")
             /\ At(v, "send", "wake")' = At(v, "send", "wake")
             /\ At(v, "serve", "wake")' = At(v, "serve", "wake")
  BY <1>1 DEF Top, At, PastSends
<1>3. SendIsSeen'
  <2> SUFFICES ASSUME NEW v \in Thread, PastSends(v)', ~awake'[v], sends'[v] # <<>>
               PROVE  \E u \in Thread : At(u, "send", "wake")' /\ Home[Top(u).h]' = v
    BY DEF SendIsSeen
  <2>1. CASE At(t, "send", "wake")' /\ Home[Top(t).h]' = v
    BY <2>1
  <2>2. CASE sends[v] # <<>>
    <3>1. PastSends(v) /\ ~awake[v]
      BY <1>2
    <3>2. PICK u \in Thread : At(u, "send", "wake") /\ Home[Top(u).h] = v
      BY <2>2, <3>1 DEF IInv, SendIsSeen
    <3>3. u # t
      BY <3>2
    <3> QED
      BY <1>2, <3>2, <3>3
  <2> QED
    BY <2>1, <2>2
<1>4. PostIsSeen'
  <2> SUFFICES ASSUME NEW v \in Thread, At(v, "loop", "wait")', ~awake'[v]
               PROVE  msgq'[v] = <<>> /\ (dmsgq'[v] # <<>> => Top(v)'.timed)
    BY DEF PostIsSeen
  <2>1. CASE v = t
    BY <2>1
  <2>2. CASE v # t
    BY <1>2, <2>2 DEF IInv, PostIsSeen
  <2> QED
    BY <2>1, <2>2
<1>5. ReplyIsSeen'
  <2> SUFFICES ASSUME NEW v \in Thread, NEW i \in DOMAIN stack'[v],
                      Sleepy(stack'[v][i]), ~awake'[v], ~Took(stack'[v], i)
               PROVE  Replying(v)'
    BY DEF ReplyIsSeen, Sleepy, Took
  <2>1. i \in DOMAIN stack[v] /\ Sleepy(stack[v][i]) /\ ~awake[v] /\ ~Took(stack[v], i)
    BY <1>1 DEF Rests
  <2>2. PICK u \in Thread : At(u, "serve", "wake") /\ Top(u).from = v
    BY <2>1 DEF IInv, ReplyIsSeen, Replying
  <2>3. u # t
    BY <2>2
  <2> QED
    BY <1>2, <2>2, <2>3 DEF Replying
<1> QED
  BY <1>3, <1>4, <1>5

-----------------------------------------------------------------------------
(* The shapes a step gives to a stack.                                     *)

LEMMA LastIndex ==
    ASSUME NEW n \in Nat, NEW i \in 1 .. n
    PROVE  i = n \/ i \in 1 .. n - 1
OBVIOUS

LEMMA AtFacts ==
    ASSUME IInv, NEW t \in Thread, stack[t] # <<>>
    PROVE  /\ stack[t] \in Seq(Frame) /\ Shaped(stack[t]) /\ AllAlive(stack[t])
           /\ Len(stack[t]) \in Nat /\ Len(stack[t]) >= 1
           /\ DOMAIN stack[t] = 1 .. Len(stack[t])
           /\ Top(t) = stack[t][Len(stack[t])] /\ Top(t) \in Frame
           /\ Top(t).op = "loop" => Len(stack[t]) = 1
           /\ Top(t).op # "loop" => Len(stack[t]) >= 2
           /\ Top(t).op # "loop" => Top(t).h \in Handler
           /\ Top(t).op = "serve" => Top(t).from \in Thread
<1>1. stack[t] \in Seq(Frame)
  BY DEF IInv, TypeOK
<1>2. /\ Len(stack[t]) \in Nat /\ Len(stack[t]) >= 1
      /\ DOMAIN stack[t] = 1 .. Len(stack[t]) /\ Len(stack[t]) \in DOMAIN stack[t]
      /\ Top(t) = stack[t][Len(stack[t])] /\ Top(t) \in Frame
  BY <1>1, StackFacts DEF Top
<1>3. Shaped(stack[t]) /\ AllAlive(stack[t])
  BY DEF IInv, Shapes, CallsAlive, AllAlive
<1>4. /\ Top(t).op = "loop" <=> Len(stack[t]) = 1
      /\ Top(t).op # "loop" => Top(t).h \in Handler
      /\ Top(t).op = "serve" => Top(t).from \in Thread
  BY <1>2, <1>3 DEF Shaped
<1>5. \A n \in Nat : n >= 1 => n = 1 \/ n >= 2
  OBVIOUS
<1> QED
  BY <1>1, <1>2, <1>3, <1>4, <1>5, Zenon

\* The frame on top, which does not wait, goes.
LEMMA PopKept ==
    ASSUME NEW s \in Seq(Frame), s # <<>>, Shaped(s), AllAlive(s),
           s[Len(s)].op # "loop", s[Len(s)].op = "send" => s[Len(s)].ready
    PROVE  /\ Pop(s) \in Seq(Frame) /\ Pop(s) # <<>> /\ Len(Pop(s)) = Len(s) - 1
           /\ \A i \in 1 .. Len(s) - 1 : Pop(s)[i] = s[i]
           /\ Shaped(Pop(s)) /\ AllAlive(Pop(s)) /\ Keeps(s, Pop(s))
           /\ Pop(s)[Len(s) - 1].pc \in {"sends", "run"}
           /\ s[Len(s)].op # "send" => Rests(s, Pop(s))
<1> DEFINE g == Pop(s)
<1>1. /\ Len(s) \in Nat /\ Len(s) >= 2 /\ DOMAIN s = 1 .. Len(s)
  BY StackFacts DEF Shaped
<1>2. /\ g \in Seq(Frame) /\ Len(g) = Len(s) - 1
      /\ \A i \in 1 .. Len(s) - 1 : g[i] = s[i]
  BY PopFacts
<1> HIDE DEF g
<1>3. DOMAIN g = 1 .. Len(s) - 1 /\ g # <<>>
  BY <1>1, <1>2
<1>4. g[Len(s) - 1].pc \in {"sends", "run"}
  BY <1>1, <1>2 DEF Shaped
<1>5. Shaped(g)
  BY <1>1, <1>2, <1>3 DEF Shaped
<1>6. AllAlive(g)
  BY <1>1, <1>2, <1>3 DEF AllAlive
<1>7. Keeps(s, g)
  BY <1>1, <1>2, <1>3 DEF Keeps
<1>8. ASSUME s[Len(s)].op # "send", NEW i \in DOMAIN g, Took(s, i) PROVE Took(g, i)
  <2>1. PICK j \in DOMAIN s : j > i /\ s[j].op = "send" /\ s[j].waited
    BY <1>8 DEF Took
  <2>2. j \in 1 .. Len(s) - 1
    BY <1>1, <1>8, <2>1, LastIndex
  <2> QED
    BY <1>2, <1>3, <2>1, <2>2 DEF Took
<1>9. s[Len(s)].op # "send" => Rests(s, g)
  BY <1>1, <1>2, <1>3, <1>8 DEF Rests
<1> QED
  BY <1>2, <1>3, <1>4, <1>5, <1>6, <1>7, <1>9 DEF g

\* The frame on top goes on to another place.
LEMMA SetTopKept ==
    ASSUME NEW s \in Seq(Frame), s # <<>>, Shaped(s), AllAlive(s), NEW f \in Frame,
           f.op = s[Len(s)].op, f.h = s[Len(s)].h, f.from = s[Len(s)].from,
           f.ready = s[Len(s)].ready, f.pc \notin {"push", "run"},
           NEW g, g = [s EXCEPT ![Len(s)] = f]
    PROVE  /\ g \in Seq(Frame) /\ Len(g) = Len(s) /\ g # <<>>
           /\ g[Len(s)] = f /\ \A i \in 1 .. Len(s) - 1 : g[i] = s[i]
           /\ Shaped(g) /\ AllAlive(g) /\ Keeps(s, g)
           /\ (Sleepy(f) => Sleepy(s[Len(s)])) /\ f.waited = s[Len(s)].waited =>
                 Rests(s, g)
<1>1. /\ Len(s) \in Nat /\ Len(s) >= 1 /\ DOMAIN s = 1 .. Len(s)
  BY StackFacts
<1>2. /\ g \in Seq(Frame) /\ Len(g) = Len(s) /\ g # <<>>
      /\ g[Len(s)] = f /\ \A i \in 1 .. Len(s) - 1 : g[i] = s[i]
  BY SetTop
<1>3. DOMAIN g = 1 .. Len(s)
  BY <1>1, <1>2
<1>4. \A i \in 1 .. Len(s) : \/ i = Len(s) /\ g[i] = f
                             \/ i \in 1 .. Len(s) - 1 /\ g[i] = s[i]
  <2> SUFFICES ASSUME NEW i \in 1 .. Len(s)
               PROVE  \/ i = Len(s) /\ g[i] = f
                      \/ i \in 1 .. Len(s) - 1 /\ g[i] = s[i]
    OBVIOUS
  <2>1. i = Len(s) \/ i \in 1 .. Len(s) - 1
    BY <1>1, LastIndex
  <2> QED
    BY <1>2, <2>1
<1>5. Shaped(g)
  <2> SUFFICES ASSUME NEW i \in 1 .. Len(s)
               PROVE  /\ g[i].op = "loop" <=> i = 1
                      /\ i < Len(s) => g[i].pc \in {"sends", "run"}
                      /\ g[i].op # "loop" => g[i].h \in Handler
                      /\ g[i].op = "serve" => g[i].from \in Thread
                      /\ g[i].pc = "push" => ~g[i].ready
                      /\ g[i].op = "send" => g[i].pc # "run"
    BY <1>2, <1>3 DEF Shaped
  <2>1. g[i].op = s[i].op /\ g[i].h = s[i].h /\ g[i].from = s[i].from
    BY <1>4
  <2>2. i < Len(s) => g[i] = s[i]
    <3>1. i < Len(s) => i \in 1 .. Len(s) - 1
      BY <1>1
    <3> QED
      BY <1>2, <3>1
  <2>3. /\ g[i].pc = "push" => ~g[i].ready
        /\ g[i].op = "send" => g[i].pc # "run"
    BY <1>1, <1>4 DEF Shaped
  <2> QED
    BY <1>1, <2>1, <2>2, <2>3 DEF Shaped
<1>6. AllAlive(g)
  BY <1>1, <1>3, <1>4 DEF AllAlive, Calls
<1>7. Keeps(s, g)
  BY <1>1, <1>3, <1>4 DEF Keeps, Serves
<1>8. ASSUME f.waited = s[Len(s)].waited, NEW i \in DOMAIN g, Took(s, i)
      PROVE  Took(g, i)
  <2>1. PICK j \in DOMAIN s : j > i /\ s[j].op = "send" /\ s[j].waited
    BY <1>8 DEF Took
  <2>2. j \in DOMAIN g /\ g[j].op = s[j].op /\ g[j].waited = s[j].waited
    BY <1>1, <1>3, <1>4, <1>8
  <2> QED
    BY <2>1, <2>2 DEF Took
<1>9. (Sleepy(f) => Sleepy(s[Len(s)])) /\ f.waited = s[Len(s)].waited => Rests(s, g)
  BY <1>1, <1>3, <1>4, <1>8 DEF Rests
<1> QED
  BY <1>2, <1>5, <1>6, <1>7, <1>9

\* A handler is called, or sends.
LEMMA AppendKept ==
    ASSUME NEW s \in Seq(Frame), s # <<>>, Shaped(s), AllAlive(s),
           s[Len(s)].pc \in {"sends", "run"},
           NEW f \in Frame, f.op \in {"handle", "send"}, f.h \in Handler, f.h \notin dead,
           ~f.ready, f.op = "send" => f.pc # "run"
    PROVE  LET g == Append(s, f)
           IN  /\ g \in Seq(Frame) /\ Len(g) = Len(s) + 1 /\ g # <<>>
               /\ g[Len(s) + 1] = f /\ \A i \in 1 .. Len(s) : g[i] = s[i]
               /\ Shaped(g) /\ AllAlive(g) /\ Keeps(s, g) /\ Rests(s, g)
<1> DEFINE g == Append(s, f)
<1>1. /\ Len(s) \in Nat /\ Len(s) >= 1 /\ DOMAIN s = 1 .. Len(s)
  BY StackFacts
<1>2. /\ g \in Seq(Frame) /\ Len(g) = Len(s) + 1 /\ g # <<>>
      /\ g[Len(s) + 1] = f /\ \A i \in 1 .. Len(s) : g[i] = s[i]
  BY AppendProperties
<1> HIDE DEF g
<1>3. DOMAIN g = 1 .. Len(s) + 1
  BY <1>1, <1>2
<1>4. \A i \in 1 .. Len(s) + 1 : \/ i = Len(s) + 1 /\ g[i] = f
                                 \/ i \in 1 .. Len(s) /\ g[i] = s[i]
  <2> SUFFICES ASSUME NEW i \in 1 .. Len(s) + 1
               PROVE  \/ i = Len(s) + 1 /\ g[i] = f
                      \/ i \in 1 .. Len(s) /\ g[i] = s[i]
    OBVIOUS
  <2>1. i = Len(s) + 1 \/ i \in 1 .. Len(s)
    BY <1>1
  <2> QED
    BY <1>2, <2>1
<1>5. Shaped(g)
  BY <1>1, <1>2, <1>3, <1>4 DEF Shaped
<1>6. AllAlive(g)
  BY <1>1, <1>3, <1>4 DEF AllAlive, Calls
<1>7. Keeps(s, g)
  BY <1>1, <1>3, <1>4 DEF Keeps, Serves
<1>8. \A i \in DOMAIN g : Took(s, i) => Took(g, i)
  BY <1>1, <1>2, <1>3 DEF Took
<1>9. Rests(s, g)
  BY <1>1, <1>3, <1>4, <1>8 DEF Rests, Sleepy
<1> QED
  BY <1>2, <1>5, <1>6, <1>7, <1>9 DEF g

-----------------------------------------------------------------------------
(* Every action keeps the invariant.                                       *)

LEMMA ReturnKeeps ==
    ASSUME IInv, NEW t \in Thread, Return(t)
    PROVE  IInv'
<1> DEFINE s == stack[t]
           g == Pop(s)
<1>1. /\ s # <<>> /\ Top(t).op = "handle" /\ Top(t).pc = "run"
      /\ stack' = [stack EXCEPT ![t] = g]
      /\ UNCHANGED <<msgq, dmsgq, sends, has, awake, stop, gone, dead, calls>>
  BY DEF Return, At
<1>2. /\ s \in Seq(Frame) /\ Len(s) \in Nat /\ Len(s) >= 2 /\ Top(t) = s[Len(s)]
      /\ Shaped(s) /\ AllAlive(s) /\ DOMAIN s = 1 .. Len(s)
  BY <1>1, AtFacts
<1>3. /\ g \in Seq(Frame) /\ g # <<>> /\ Len(g) = Len(s) - 1
      /\ \A i \in 1 .. Len(s) - 1 : g[i] = s[i]
      /\ Shaped(g) /\ AllAlive(g) /\ Keeps(s, g)
      /\ g[Len(s) - 1].pc \in {"sends", "run"} /\ Rests(s, g)
  BY <1>1, <1>2, PopKept
<1> HIDE DEF g
<1>4. /\ stack' \in [Thread -> Seq(Frame)] /\ stack'[t] = g
      /\ Shapes' /\ CallsAlive' /\ ReadyIsAlive' /\ Distinct'
  BY <1>1, <1>3, OwnStep
<1>5. TypeOK' /\ QueuesAlive' /\ HasIsSet'
  BY <1>1, <1>4 DEF IInv, TypeOK, QueuesAlive, HasIsSet
<1>6. SendIsSeen' /\ PostIsSeen' /\ ReplyIsSeen'
  <2>1. ~PastSends(t)' /\ ~At(t, "loop", "wait")'
    BY <1>2, <1>3, <1>4 DEF PastSends, At, Top
  <2>2. ~At(t, "send", "wake") /\ ~At(t, "serve", "wake")
    BY <1>1 DEF At
  <2> QED
    BY <1>1, <1>3, <2>1, <2>2, OwnSeen
<1> QED
  BY <1>4, <1>5, <1>6 DEF IInv

LEMMA WakeUpKeeps ==
    ASSUME IInv, NEW t \in Thread, WakeUp(t)
    PROVE  IInv'
<1> DEFINE s == stack[t]
           f == [s[Len(s)] EXCEPT !.pc = "check"]
           g == [s EXCEPT ![Len(s)] = f]
<1>1. /\ s # <<>> /\ Top(t).op = "send" /\ Top(t).pc = "wake"
      /\ stack' = [stack EXCEPT ![t] = g]
      /\ awake' = [awake EXCEPT ![Home[Top(t).h]] = TRUE]
      /\ UNCHANGED <<msgq, dmsgq, sends, has, stop, gone, dead, calls>>
  BY DEF WakeUp, At, Goto
<1>2. /\ s \in Seq(Frame) /\ Len(s) \in Nat /\ Top(t) = s[Len(s)]
      /\ Shaped(s) /\ AllAlive(s) /\ DOMAIN s = 1 .. Len(s)
      /\ Top(t) \in Frame /\ Top(t).h \in Handler
  BY <1>1, AtFacts
<1>3. /\ f \in Frame /\ f.op = "send" /\ f.pc = "check" /\ f.h = Top(t).h
      /\ f.from = Top(t).from /\ f.ready = Top(t).ready /\ f.waited = Top(t).waited
  BY <1>1, <1>2 DEF Frame
<1> HIDE DEF f
<1>4. ~Serves(f) /\ ~Sleepy(f)
  BY <1>3 DEF Serves, Sleepy
<1>5. /\ g \in Seq(Frame) /\ g # <<>> /\ Len(g) = Len(s) /\ g[Len(s)] = f
      /\ Shaped(g) /\ AllAlive(g) /\ Keeps(s, g) /\ Rests(s, g)
  BY <1>1, <1>2, <1>3, <1>4, SetTopKept
<1> HIDE DEF g
<1>6. /\ stack' \in [Thread -> Seq(Frame)] /\ stack'[t] = g
      /\ Shapes' /\ CallsAlive' /\ ReadyIsAlive' /\ Distinct'
  BY <1>1, <1>5, OwnStep
<1>7. Home[Top(t).h] \in Thread
  BY <1>2, ThreadsAssumption
<1>8. TypeOK' /\ QueuesAlive' /\ HasIsSet'
  BY <1>1, <1>6 DEF IInv, TypeOK, QueuesAlive, HasIsSet
<1>9. SendIsSeen' /\ PostIsSeen' /\ ReplyIsSeen'
  <2>1. ~PastSends(t)' /\ ~At(t, "loop", "wait")'
    BY <1>3, <1>5, <1>6 DEF PastSends, At, Top
  <2>2. ~At(t, "serve", "wake")
    BY <1>1 DEF At
  <2>3. awake'[Home[Top(t).h]] /\ \A v \in Thread : awake[v] => awake'[v]
    BY <1>1, <1>7 DEF IInv, TypeOK
  <2> QED
    BY <1>1, <1>5, <2>1, <2>2, <2>3, OwnSeen
<1> QED
  BY <1>6, <1>8, <1>9 DEF IInv

\* A Send that is not ready serves its own thread's sends; one that is ready
\* returns, and gives back the wakeup that it may have taken from another.
LEMMA CheckReadyKeeps ==
    ASSUME IInv, NEW t \in Thread, CheckReady(t)
    PROVE  IInv'
<1> DEFINE s == stack[t]
           f == [s[Len(s)] EXCEPT !.pc = "sends"]
           g == IF Top(t).ready THEN Pop(s) ELSE [s EXCEPT ![Len(s)] = f]
<1>1. /\ s # <<>> /\ Top(t).op = "send" /\ Top(t).pc = "check"
      /\ stack' = [stack EXCEPT ![t] = g]
      /\ awake' = [awake EXCEPT ![t] = @ \/ (Top(t).ready /\ Top(t).waited)]
      /\ UNCHANGED <<msgq, dmsgq, sends, has, stop, gone, dead, calls>>
  BY DEF CheckReady, At, Goto
<1>2. /\ s \in Seq(Frame) /\ Len(s) \in Nat /\ Len(s) >= 2 /\ Top(t) = s[Len(s)]
      /\ Shaped(s) /\ AllAlive(s) /\ DOMAIN s = 1 .. Len(s)
      /\ Top(t) \in Frame /\ Top(t).h \in Handler
  BY <1>1, AtFacts
<1>3. Top(t).ready \in BOOLEAN /\ Top(t).waited \in BOOLEAN
  BY <1>2 DEF Frame
<1>4. /\ awake' \in [Thread -> BOOLEAN] /\ \A v \in Thread : awake[v] => awake'[v]
      /\ Top(t).ready /\ Top(t).waited => awake'[t]
  BY <1>1, <1>3 DEF IInv, TypeOK
<1>5. /\ g \in Seq(Frame) /\ g # <<>> /\ g[Len(g)].pc \in {"sends", "run"}
      /\ Shaped(g) /\ AllAlive(g) /\ Keeps(s, g)
      /\ awake'[t] \/ Rests(s, g)
  <2>1. CASE Top(t).ready
    <3>1. /\ Pop(s) \in Seq(Frame) /\ Pop(s) # <<>> /\ Len(Pop(s)) = Len(s) - 1
          /\ \A i \in 1 .. Len(s) - 1 : Pop(s)[i] = s[i]
          /\ Shaped(Pop(s)) /\ AllAlive(Pop(s)) /\ Keeps(s, Pop(s))
          /\ Pop(s)[Len(s) - 1].pc \in {"sends", "run"}
      BY <1>1, <1>2, <2>1, PopKept
    <3>2. ~Top(t).waited => Rests(s, Pop(s))
      <4> SUFFICES ASSUME ~Top(t).waited, NEW i \in DOMAIN Pop(s), Sleepy(Pop(s)[i])
                   PROVE  i \in DOMAIN s /\ Sleepy(s[i]) /\ (Took(s, i) => Took(Pop(s), i))
        BY DEF Rests
      <4>1. i \in 1 .. Len(s) - 1 /\ i \in DOMAIN s /\ Pop(s)[i] = s[i]
            /\ DOMAIN Pop(s) = 1 .. Len(s) - 1
        BY <1>2, <3>1
      <4>2. ASSUME Took(s, i) PROVE Took(Pop(s), i)
        <5>1. PICK j \in DOMAIN s : j > i /\ s[j].op = "send" /\ s[j].waited
          BY <4>2 DEF Took
        <5>2. j # Len(s)
          BY <1>2, <5>1
        <5>3. j \in 1 .. Len(s) - 1
          BY <1>2, <5>2, LastIndex
        <5> QED
          BY <3>1, <4>1, <5>1, <5>3 DEF Took
      <4> QED
        BY <4>1, <4>2
    <3> QED
      BY <1>4, <2>1, <3>1, <3>2
  <2>2. CASE ~Top(t).ready
    <3>1. /\ f \in Frame /\ f.op = "send" /\ f.pc = "sends" /\ f.h = Top(t).h
          /\ f.from = Top(t).from /\ f.ready = Top(t).ready /\ f.waited = Top(t).waited
      BY <1>1, <1>2 DEF Frame
    <3> HIDE DEF f
    <3>2. ~Serves(f) /\ ~Sleepy(f)
      BY <2>2, <3>1 DEF Serves, Sleepy
    <3>3. g = [s EXCEPT ![Len(s)] = f]
      BY <2>2
    <3> HIDE DEF g
    <3>4. /\ g \in Seq(Frame) /\ g # <<>> /\ Len(g) = Len(s) /\ g[Len(s)] = f
          /\ Shaped(g) /\ AllAlive(g) /\ Keeps(s, g) /\ Rests(s, g)
      BY <1>1, <1>2, <3>1, <3>2, <3>3, SetTopKept
    <3> QED
      BY <3>1, <3>4
  <2> QED
    BY <1>3, <2>1, <2>2
<1> HIDE DEF g
<1>6. /\ stack' \in [Thread -> Seq(Frame)] /\ stack'[t] = g
      /\ Shapes' /\ CallsAlive' /\ ReadyIsAlive' /\ Distinct'
  BY <1>1, <1>5, OwnStep
<1>7. TypeOK' /\ QueuesAlive' /\ HasIsSet'
  BY <1>1, <1>4, <1>6 DEF IInv, TypeOK, QueuesAlive, HasIsSet
<1>8. SendIsSeen' /\ PostIsSeen' /\ ReplyIsSeen'
  <2>1. ~PastSends(t)' /\ ~At(t, "loop", "wait")'
    BY <1>5, <1>6 DEF PastSends, At, Top
  <2>2. ~At(t, "serve", "wake") /\ ~At(t, "send", "wake")
    BY <1>1 DEF At
  <2> QED
    BY <1>1, <1>4, <1>5, <2>1, <2>2, OwnSeen
<1> QED
  BY <1>6, <1>7, <1>8 DEF IInv

\* The Send that waits takes the wakeup, and remembers it.
LEMMA WaitForReplyKeeps ==
    ASSUME IInv, NEW t \in Thread, WaitForReply(t)
    PROVE  IInv'
<1> DEFINE s == stack[t]
           f == [s[Len(s)] EXCEPT !.pc = "check", !.waited = TRUE]
           g == [s EXCEPT ![Len(s)] = f]
<1>0. stack' = [stack EXCEPT ![t][Len(stack[t])].pc = "check",
                             ![t][Len(stack[t])].waited = TRUE]
  BY DEF WaitForReply
<1>1. /\ s # <<>> /\ Top(t).op = "send" /\ Top(t).pc = "wait"
      /\ awake' = [awake EXCEPT ![t] = FALSE]
      /\ UNCHANGED <<msgq, dmsgq, sends, has, stop, gone, dead, calls>>
  BY DEF WaitForReply, At
<1>2. /\ s \in Seq(Frame) /\ Len(s) \in Nat /\ Top(t) = s[Len(s)]
      /\ Shaped(s) /\ AllAlive(s) /\ DOMAIN s = 1 .. Len(s) /\ Len(s) >= 1
      /\ Top(t) \in Frame /\ Top(t).h \in Handler
  BY <1>1, AtFacts
<1>3. stack' = [stack EXCEPT ![t] = g]
  <2>1. stack \in [Thread -> Seq(Frame)]
    BY DEF IInv, TypeOK
  <2> QED
    BY <1>0, <2>1
<1>4. /\ f \in Frame /\ f.op = "send" /\ f.pc = "check" /\ f.h = Top(t).h
      /\ f.from = Top(t).from /\ f.ready = Top(t).ready /\ f.waited
  BY <1>1, <1>2 DEF Frame
<1> HIDE DEF f
<1>5. ~Serves(f) /\ ~Sleepy(f)
  BY <1>4 DEF Serves, Sleepy
<1>6. /\ g \in Seq(Frame) /\ g # <<>> /\ Len(g) = Len(s) /\ g[Len(s)] = f
      /\ Shaped(g) /\ AllAlive(g) /\ Keeps(s, g)
  BY <1>1, <1>2, <1>4, <1>5, SetTopKept
<1> HIDE DEF g
<1>7. /\ stack' \in [Thread -> Seq(Frame)] /\ stack'[t] = g
      /\ Shapes' /\ CallsAlive' /\ ReadyIsAlive' /\ Distinct'
  BY <1>1, <1>3, <1>6, OwnStep
<1>8. TypeOK' /\ QueuesAlive' /\ HasIsSet'
  BY <1>1, <1>7 DEF IInv, TypeOK, QueuesAlive, HasIsSet
<1>9. SendIsSeen' /\ PostIsSeen' /\ ReplyIsSeen'
  <2>1. ~PastSends(t)' /\ ~At(t, "loop", "wait")'
    BY <1>4, <1>6, <1>7 DEF PastSends, At, Top
  <2>2. ~At(t, "serve", "wake") /\ ~At(t, "send", "wake")
    BY <1>1 DEF At
  <2>3. ASSUME NEW i \in DOMAIN g, Sleepy(g[i]) PROVE Took(g, i)
    <3>1. i \in 1 .. Len(s) /\ i # Len(s) /\ Len(s) \in DOMAIN g
      BY <1>2, <1>5, <1>6, <2>3
    <3>2. Len(s) > i
      BY <1>2, <3>1
    <3> QED
      BY <1>4, <1>6, <3>1, <3>2 DEF Took
  <2>4. \A v \in Thread \ {t} : awake[v] => awake'[v]
    BY <1>1 DEF IInv, TypeOK
  <2> QED
    BY <1>1, <1>3, <1>6, <2>1, <2>2, <2>3, <2>4, OwnSeen
<1> QED
  BY <1>7, <1>8, <1>9 DEF IInv

\* The loop takes the wakeup; no Send of its thread can have needed it.
LEMMA WaitForMessageKeeps ==
    ASSUME IInv, NEW t \in Thread, WaitForMessage(t)
    PROVE  IInv'
<1> DEFINE s == stack[t]
           f == [s[Len(s)] EXCEPT !.pc = "sends", !.timed = FALSE]
           g == [s EXCEPT ![Len(s)] = f]
<1>1. /\ s # <<>> /\ Top(t).op = "loop" /\ Top(t).pc = "wait"
      /\ stack' = [stack EXCEPT ![t][Len(stack[t])].pc = "sends",
                                ![t][Len(stack[t])].timed = FALSE]
      /\ awake' = [awake EXCEPT ![t] = FALSE]
      /\ UNCHANGED <<msgq, dmsgq, sends, has, stop, gone, dead, calls>>
  BY DEF WaitForMessage, At
<1>0. Len(s) = 1
  BY <1>1, AtFacts
<1>2. /\ s \in Seq(Frame) /\ Len(s) \in Nat /\ Top(t) = s[Len(s)]
      /\ Shaped(s) /\ AllAlive(s) /\ DOMAIN s = 1 .. Len(s)
      /\ Top(t) \in Frame
  BY <1>1, AtFacts
<1>3. stack' = [stack EXCEPT ![t] = g]
  <2>1. stack \in [Thread -> Seq(Frame)]
    BY DEF IInv, TypeOK
  <2> QED
    BY <1>1, <2>1
<1>4. /\ f \in Frame /\ f.op = "loop" /\ f.pc = "sends" /\ f.h = Top(t).h
      /\ f.from = Top(t).from /\ f.ready = Top(t).ready
  BY <1>1, <1>2 DEF Frame
<1> HIDE DEF f
<1>5. ~Serves(f) /\ ~Sleepy(f)
  BY <1>4 DEF Serves, Sleepy
<1>6. /\ g \in Seq(Frame) /\ g # <<>> /\ Len(g) = Len(s) /\ g[Len(s)] = f
      /\ Shaped(g) /\ AllAlive(g) /\ Keeps(s, g)
  BY <1>1, <1>2, <1>4, <1>5, SetTopKept, ZenonT(60)
<1> HIDE DEF g
<1>7. /\ stack' \in [Thread -> Seq(Frame)] /\ stack'[t] = g
      /\ Shapes' /\ CallsAlive' /\ ReadyIsAlive' /\ Distinct'
  BY <1>1, <1>3, <1>6, OwnStep
<1>8. TypeOK' /\ QueuesAlive' /\ HasIsSet'
  BY <1>1, <1>7 DEF IInv, TypeOK, QueuesAlive, HasIsSet
<1>9. SendIsSeen' /\ PostIsSeen' /\ ReplyIsSeen'
  <2>1. ~PastSends(t)' /\ ~At(t, "loop", "wait")'
    BY <1>4, <1>6, <1>7 DEF PastSends, At, Top
  <2>2. ~At(t, "serve", "wake") /\ ~At(t, "send", "wake")
    BY <1>1 DEF At
  <2>3. \A i \in DOMAIN g : ~Sleepy(g[i])
    BY <1>0, <1>2, <1>5, <1>6
  <2>4. \A v \in Thread \ {t} : awake[v] => awake'[v]
    BY <1>1 DEF IInv, TypeOK
  <2> QED
    BY <1>1, <1>3, <1>6, <2>1, <2>2, <2>3, <2>4, OwnSeen
<1> QED
  BY <1>7, <1>8, <1>9 DEF IInv

\* Send's message points to its own frame, which nothing pointed to before.
LEMMA PushKeeps ==
    ASSUME IInv, NEW t \in Thread, Push(t)
    PROVE  IInv'
<1> DEFINE s == stack[t]
           n == Len(s)
           f == [s[n] EXCEPT !.pc = "wake"]
           g == [s EXCEPT ![n] = f]
           w == Home[Top(t).h]
           m == [from |-> t, depth |-> n, h |-> Top(t).h]
<1>1. /\ s # <<>> /\ Top(t).op = "send" /\ Top(t).pc = "push"
      /\ stack' = [stack EXCEPT ![t] = g]
      /\ UNCHANGED <<msgq, dmsgq, awake, stop, gone, dead, calls>>
  BY DEF Push, At, Goto
<1>2. /\ sends' = [sends EXCEPT ![w] = Append(@, m)]
      /\ has' = [has EXCEPT ![w] = TRUE]
  BY DEF Push
<1>3. /\ s \in Seq(Frame) /\ n \in Nat /\ n >= 1 /\ Top(t) = s[n]
      /\ Shaped(s) /\ AllAlive(s) /\ DOMAIN s = 1 .. n
      /\ Top(t) \in Frame /\ Top(t).h \in Handler
  BY <1>1, AtFacts
<1>4. /\ f \in Frame /\ f.op = "send" /\ f.pc = "wake" /\ f.h = Top(t).h
      /\ f.from = Top(t).from /\ f.ready = Top(t).ready /\ f.waited = Top(t).waited
  BY <1>1, <1>3 DEF Frame
<1>5. ~Top(t).ready /\ Top(t).h \notin dead
  BY <1>1, <1>3 DEF Shaped, AllAlive, Calls
<1> HIDE DEF f
<1>6. ~Serves(f) /\ ~Sleepy(f)
  BY <1>4 DEF Serves, Sleepy
<1>7. /\ g \in Seq(Frame) /\ g # <<>> /\ Len(g) = n /\ g[n] = f
      /\ \A i \in 1 .. n - 1 : g[i] = s[i]
      /\ Shaped(g) /\ AllAlive(g) /\ Keeps(s, g) /\ Rests(s, g)
  BY <1>1, <1>3, <1>4, <1>6, SetTopKept
<1> HIDE DEF g
<1>8. /\ stack' \in [Thread -> Seq(Frame)] /\ stack'[t] = g
      /\ \A v \in Thread \ {t} : stack'[v] = stack[v]
      /\ Shapes' /\ CallsAlive'
  BY <1>1, <1>7, OwnShape
<1>9. w \in Thread /\ m \in SendMessage
  BY <1>3, ThreadsAssumption DEF SendMessage
<1>10. m.from = t /\ m.depth = n /\ m.h = Top(t).h
  OBVIOUS
<1> HIDE DEF m, w
<1>11. /\ sends' \in [Thread -> Seq(SendMessage)]
       /\ \A v \in Thread \ {w} : sends'[v] = sends[v]
       /\ sends'[w] = Append(sends[w], m) /\ sends[w] \in Seq(SendMessage)
  BY <1>2, <1>9 DEF IInv, TypeOK
<1>12. \A v \in Thread : \A i \in DOMAIN sends'[v] :
           \/ v = w /\ i = Len(sends[w]) + 1 /\ sends'[v][i] = m
           \/ i \in DOMAIN sends[v] /\ sends'[v][i] = sends[v][i]
  BY <1>9, <1>11, SMTT(30)
<1>13. TypeOK' /\ QueuesAlive' /\ HasIsSet'
  <2>1. TypeOK' /\ HasIsSet'
    BY <1>1, <1>2, <1>8, <1>9, <1>11 DEF IInv, TypeOK, HasIsSet
  <2>2. \A v \in Thread : \A i \in DOMAIN sends'[v] :
            Home[sends'[v][i].h] = v /\ sends'[v][i].h \notin dead
    BY <1>5, <1>10, <1>12 DEF IInv, QueuesAlive, w
  <2> QED
    BY <1>1, <2>1, <2>2 DEF IInv, QueuesAlive
<1>14. /\ \A v \in Thread : \A i \in DOMAIN sends[v] : ~Same(sends[v][i], m)
       /\ \A v \in Thread : \A i \in DOMAIN stack[v] :
             Serves(stack[v][i]) => ~Same(stack[v][i], m)
  <2>1. stack[m.from][m.depth].pc = "push"
    BY ONLY <1>1, <1>3, <1>10
  <2>2. \A x : Same(x, m) => ~Waits(x)
    BY ONLY <2>1 DEF Same, Waits
  <2>3. ReadyIsAlive
    BY DEF IInv
  <2> QED
    BY ONLY <2>2, <2>3 DEF ReadyIsAlive, Serves
<1>15. ASSUME NEW x, x.from \in Thread, Points(stack, x) PROVE Points(stack', x)
  <2>1. CASE x.from = t
    BY ONLY <1>7, <1>8, <1>15, <2>1 DEF Points, Keeps
  <2>2. CASE x.from # t
    <3>1. stack'[x.from] = stack[x.from]
      BY <1>8, <1>15, <2>2
    <3> QED
      BY ONLY <1>15, <3>1 DEF Points
  <2> QED
    BY <2>1, <2>2
<1>16. Points(stack', m)
  BY <1>3, <1>4, <1>5, <1>7, <1>8, <1>10 DEF Points
<1>17. \A v \in Thread : \A i \in DOMAIN stack'[v] : Serves(stack'[v][i]) =>
           /\ i \in DOMAIN stack[v] /\ Serves(stack[v][i])
           /\ stack'[v][i].from = stack[v][i].from
           /\ stack'[v][i].depth = stack[v][i].depth
           /\ stack'[v][i].h = stack[v][i].h
  BY <1>7, <1>8 DEF Keeps
<1>18. ReadyIsAlive'
  <2>1. ASSUME NEW v \in Thread, NEW i \in DOMAIN sends'[v]
        PROVE  Points(stack', sends'[v][i])
    <3>1. CASE sends'[v][i] = m
      BY <1>16, <3>1
    <3>2. CASE i \in DOMAIN sends[v] /\ sends'[v][i] = sends[v][i]
      <4>1. Points(stack, sends[v][i])
        BY <3>2 DEF IInv, ReadyIsAlive, Waits, Points
      <4>2. sends[v][i] \in SendMessage
        BY <3>2 DEF IInv, TypeOK
      <4> QED
        BY <1>15, <3>2, <4>1, <4>2 DEF SendMessage
    <3> QED
      BY <1>12, <3>1, <3>2
  <2>2. ASSUME NEW v \in Thread, NEW i \in DOMAIN stack'[v], Serves(stack'[v][i])
        PROVE  Points(stack', stack'[v][i])
    <3>1. /\ i \in DOMAIN stack[v] /\ Serves(stack[v][i])
          /\ stack'[v][i].from = stack[v][i].from
          /\ stack'[v][i].depth = stack[v][i].depth
          /\ stack'[v][i].h = stack[v][i].h
      BY <1>17, <2>2
    <3>2. Points(stack, stack[v][i]) /\ stack[v][i].from \in Thread
      BY <3>1, ZenonT(60) DEF IInv, ReadyIsAlive, Waits, Points, Serves, Shapes, Shaped
    <3>3. Points(stack', stack[v][i])
      BY <1>15, <3>2
    <3> QED
      BY <3>1, <3>3 DEF Points
  <2> QED
    BY <2>1, <2>2 DEF ReadyIsAlive, Waits, Points, Serves
<1>19. Distinct'
  <2>1. ASSUME NEW v \in Thread PROVE Injective(sends'[v])
    <3> SUFFICES ASSUME NEW i \in DOMAIN sends'[v], NEW j \in DOMAIN sends'[v],
                        sends'[v][i] = sends'[v][j]
                 PROVE  i = j
      BY DEF Injective
    <3>1. Injective(sends[v]) /\ \A k \in DOMAIN sends[v] : sends[v][k] # m
      BY <1>14 DEF IInv, Distinct, Same
    <3> QED
      BY <1>12, <3>1 DEF Injective
  <2>2. ASSUME NEW u \in Thread, NEW v \in Thread
        PROVE  /\ \A i \in DOMAIN sends'[u] : \A j \in DOMAIN sends'[v] :
                     Same(sends'[u][i], sends'[v][j]) =>
                         u = v /\ sends'[u][i] = sends'[v][j]
               /\ \A i \in DOMAIN sends'[u] : \A j \in DOMAIN stack'[v] :
                     Serves(stack'[v][j]) => ~Same(sends'[u][i], stack'[v][j])
               /\ \A i \in DOMAIN stack'[u] : \A j \in DOMAIN stack'[v] :
                     Serves(stack'[u][i]) /\ Serves(stack'[v][j])
                     /\ Same(stack'[u][i], stack'[v][j]) => u = v /\ i = j
    <3>1. ASSUME NEW i \in DOMAIN sends'[u], NEW j \in DOMAIN sends'[v],
                 Same(sends'[u][i], sends'[v][j])
          PROVE  u = v /\ sends'[u][i] = sends'[v][j]
      BY <1>12, <1>14, <3>1 DEF IInv, Distinct, Same
    <3>2. ASSUME NEW i \in DOMAIN sends'[u], NEW j \in DOMAIN stack'[v],
                 Serves(stack'[v][j])
          PROVE  ~Same(sends'[u][i], stack'[v][j])
      BY <1>12, <1>14, <1>17, <3>2 DEF IInv, Distinct, Same
    <3>3. ASSUME NEW i \in DOMAIN stack'[u], NEW j \in DOMAIN stack'[v],
                 Serves(stack'[u][i]), Serves(stack'[v][j]),
                 Same(stack'[u][i], stack'[v][j])
          PROVE  u = v /\ i = j
      BY <1>17, <3>3 DEF IInv, Distinct, Same
    <3> QED
      BY <3>1, <3>2, <3>3
  <2> QED
    BY <2>1, <2>2 DEF Distinct, Same, Serves, Injective
<1>20. SendIsSeen' /\ PostIsSeen' /\ ReplyIsSeen'
  <2>1. ~PastSends(t)' /\ ~At(t, "loop", "wait")'
    BY <1>4, <1>7, <1>8 DEF PastSends, At, Top
  <2>2. ~At(t, "serve", "wake") /\ ~At(t, "send", "wake")
    BY <1>1 DEF At
  <2>3. At(t, "send", "wake")' /\ Home[Top(t).h]' = w
    BY <1>4, <1>7, <1>8 DEF At, Top, w
  <2>4. \A v \in Thread : sends'[v] # <<>> => sends[v] # <<>> \/ v = w
    BY <1>11
  <2> QED
    BY <1>1, <1>7, <2>1, <2>2, <2>3, <2>4, OwnSeen
<1> QED
  BY <1>8, <1>13, <1>18, <1>19, <1>20 DEF IInv

LEMMA KeepsTransitive ==
    ASSUME NEW s, NEW b, NEW g
    PROVE  /\ Keeps(s, b) /\ Keeps(b, g) => Keeps(s, g)
           /\ Rests(s, b) /\ Rests(b, g) => Rests(s, g)
           /\ Keeps(s, s) /\ Rests(s, s)
BY DEF Keeps, Rests

\* ReceiveSends is done: nothing is in the send list.
LEMMA DrainedKeeps ==
    ASSUME IInv, NEW t \in Thread, NEW b \in Seq(Frame), b # <<>>, Shaped(b),
           AllAlive(b), Keeps(stack[t], b), Rests(stack[t], b),
           b[Len(b)].pc \in {"sends", "run"},
           stack' = [stack EXCEPT ![t] = Goto(b, After(b[Len(b)]))],
           sends[t] = <<>>, has' \in [Thread -> BOOLEAN],
           \A v \in Thread \ {t} : has'[v] = has[v],
           awake' \in [Thread -> BOOLEAN], \A v \in Thread : awake[v] => awake'[v],
           ~At(t, "send", "wake"), At(t, "serve", "wake") => awake'[Top(t).from],
           UNCHANGED <<msgq, dmsgq, sends, stop, gone, dead, calls>>
    PROVE  IInv'
<1> DEFINE n == Len(b)
           f == [b[n] EXCEPT !.pc = After(b[n])]
           g == [b EXCEPT ![n] = f]
<1>1. n \in Nat /\ n >= 1 /\ DOMAIN b = 1 .. n /\ b[n] \in Frame
  BY StackFacts
<1>2. /\ f \in Frame /\ f.op = b[n].op /\ f.h = b[n].h /\ f.from = b[n].from
      /\ f.ready = b[n].ready /\ f.waited = b[n].waited /\ f.pc \in {"pull", "wait"}
      /\ f.op = "loop" => f.pc = "pull"
  BY <1>1 DEF Frame, After
<1>3. stack' = [stack EXCEPT ![t] = g]
  BY DEF Goto
<1> HIDE DEF f
<1>4. Sleepy(f) => Sleepy(b[n])
  <2>1. n \in DOMAIN b
    BY <1>1
  <2>2. b[n].op = "send" => b[n].pc = "sends"
    BY <2>1 DEF Shaped
  <2> QED
    BY <1>2, <2>2 DEF Sleepy
<1>5. /\ g \in Seq(Frame) /\ g # <<>> /\ Len(g) = n /\ g[n] = f
      /\ Shaped(g) /\ AllAlive(g) /\ Keeps(b, g) /\ Rests(b, g)
  <2>1. f.pc \notin {"push", "run"}
    BY <1>2
  <2> QED
    BY <1>2, <1>4, <2>1, SetTopKept
<1>6. Keeps(stack[t], g) /\ Rests(stack[t], g)
  BY <1>5, KeepsTransitive
<1> HIDE DEF g
<1>7. /\ stack' \in [Thread -> Seq(Frame)] /\ stack'[t] = g
      /\ Shapes' /\ CallsAlive' /\ ReadyIsAlive' /\ Distinct'
  BY <1>3, <1>5, <1>6, OwnStep
<1>8. TypeOK' /\ QueuesAlive' /\ HasIsSet'
  BY <1>7 DEF IInv, TypeOK, QueuesAlive, HasIsSet
<1>9. SendIsSeen' /\ PostIsSeen' /\ ReplyIsSeen'
  <2>1. ~At(t, "loop", "wait")'
    BY <1>2, <1>5, <1>7 DEF At, Top
  <2> QED
    BY <1>3, <1>5, <1>6, <2>1, OwnSeen
<1> QED
  BY <1>7, <1>8, <1>9 DEF IInv

\* ReceiveSends takes the first message of the send list and calls its handler:
\* the frame that serves it points to the Send that the message pointed to.
LEMMA ServeKeeps ==
    ASSUME IInv, NEW t \in Thread, NEW b \in Seq(Frame), b # <<>>, Shaped(b),
           AllAlive(b), Keeps(stack[t], b), Rests(stack[t], b),
           b[Len(b)].pc \in {"sends", "run"},
           sends[t] # <<>>, NEW m, m = Head(sends[t]),
           NEW serve \in Frame, serve.op = "serve", serve.pc = "run", ~serve.ready,
           serve.from = m.from, serve.depth = m.depth, serve.h = m.h,
           NEW handle \in Frame, handle.op = "handle", handle.pc = "run",
           ~handle.ready, handle.h = m.h,
           stack' = [stack EXCEPT ![t] = b \o <<serve, handle>>],
           sends' = [sends EXCEPT ![t] = Tail(@)],
           awake' \in [Thread -> BOOLEAN], \A v \in Thread : awake[v] => awake'[v],
           ~At(t, "send", "wake"), At(t, "serve", "wake") => awake'[Top(t).from],
           UNCHANGED <<msgq, dmsgq, has, stop, gone, dead, calls>>
    PROVE  IInv'
<1> DEFINE n == Len(b)
           g == b \o <<serve, handle>>
           q == sends[t]
           Old(v, i) == /\ i \in DOMAIN stack[v] /\ Serves(stack[v][i])
                        /\ stack'[v][i].from = stack[v][i].from
                        /\ stack'[v][i].depth = stack[v][i].depth
                        /\ stack'[v][i].h = stack[v][i].h
<1>1. n \in Nat /\ n >= 1 /\ DOMAIN b = 1 .. n /\ b[n] \in Frame
  BY StackFacts
<1>2. /\ q \in Seq(SendMessage) /\ m = q[1] /\ 1 \in DOMAIN q /\ Len(q) \in Nat
      /\ Len(q) >= 1 /\ DOMAIN q = 1 .. Len(q) /\ m \in SendMessage
      /\ Tail(q) \in Seq(SendMessage) /\ DOMAIN Tail(q) = 1 .. Len(q) - 1
      /\ \A i \in 1 .. Len(q) - 1 : i + 1 \in DOMAIN q /\ Tail(q)[i] = q[i + 1]
  <2>1. q \in Seq(SendMessage)
    BY DEF IInv, TypeOK
  <2> HIDE DEF q
  <2>2. q # <<>> /\ m = Head(q)
    BY DEF q
  <2> QED
    BY <2>1, <2>2, HeadTailProperties
<1>3. m.from \in Thread /\ m.depth \in Nat /\ m.h \in Handler /\ m.h \notin dead
  BY <1>2 DEF SendMessage, IInv, QueuesAlive
<1>6. /\ g \in Seq(Frame) /\ Len(g) = n + 2 /\ g[n + 1] = serve /\ g[n + 2] = handle
      /\ \A i \in 1 .. n : g[i] = b[i]
  <2>1. <<serve, handle>> \in Seq(Frame) /\ Len(<<serve, handle>>) = 2
    OBVIOUS
  <2> QED
    BY <1>1, <2>1, ConcatProperties
<1>7. stack' = [stack EXCEPT ![t] = g]
  OBVIOUS
<1> HIDE DEF g
<1>8. DOMAIN g = 1 .. n + 2 /\ g # <<>>
  BY <1>1, <1>6
<1>9. \A i \in DOMAIN g : \/ i \in 1 .. n /\ g[i] = b[i]
                          \/ i = n + 1 /\ g[i] = serve
                          \/ i = n + 2 /\ g[i] = handle
  <2>1. \A i \in 1 .. n + 2 : i \in 1 .. n \/ i = n + 1 \/ i = n + 2
    BY <1>1
  <2> QED
    BY <1>6, <1>8, <2>1
<1>10. Shaped(g)
  <2> SUFFICES ASSUME NEW i \in DOMAIN g
               PROVE  /\ g[i].op = "loop" <=> i = 1
                      /\ i < n + 2 => g[i].pc \in {"sends", "run"}
                      /\ g[i].op # "loop" => g[i].h \in Handler
                      /\ g[i].op = "serve" => g[i].from \in Thread
                      /\ g[i].pc = "push" => ~g[i].ready
                      /\ g[i].op = "send" => g[i].pc # "run"
    BY <1>6 DEF Shaped
  <2>1. CASE i \in 1 .. n /\ g[i] = b[i]
    <3>1. i = n \/ i < n
      BY <1>1, <2>1
    <3> QED
      BY <1>1, <2>1, <3>1 DEF Shaped
  <2>2. CASE i = n + 1 /\ g[i] = serve
    BY <1>1, <1>3, <2>2
  <2>3. CASE i = n + 2 /\ g[i] = handle
    BY <1>1, <1>3, <2>3
  <2> QED
    BY <1>9, <2>1, <2>2, <2>3
<1>11. AllAlive(g)
  BY <1>1, <1>3, <1>9 DEF AllAlive, Calls
<1>12. Rests(stack[t], g)
  <2>1. \A i \in DOMAIN b : Took(b, i) => Took(g, i)
    BY <1>1, <1>6, <1>8 DEF Took
  <2>2. Rests(b, g)
    BY <1>1, <1>9, <2>1 DEF Rests, Sleepy
  <2> QED
    BY <2>2, KeepsTransitive
<1>13. /\ stack' \in [Thread -> Seq(Frame)] /\ stack'[t] = g
       /\ \A v \in Thread \ {t} : stack'[v] = stack[v]
       /\ Shapes' /\ CallsAlive'
  BY <1>6, <1>7, <1>10, <1>11, OwnShape
<1>14. /\ sends' \in [Thread -> Seq(SendMessage)] /\ sends'[t] = Tail(q)
       /\ \A v \in Thread \ {t} : sends'[v] = sends[v]
  BY <1>2 DEF IInv, TypeOK
<1>15. ASSUME NEW v \in Thread, NEW i \in DOMAIN sends'[v]
       PROVE  \E j \in DOMAIN sends[v] :
                 /\ sends[v][j] = sends'[v][i] /\ (v = t => j = i + 1)
                 /\ (v # t => j = i)
  BY <1>2, <1>14
<1>16. TypeOK' /\ QueuesAlive' /\ HasIsSet'
  <2>1. TypeOK'
    BY <1>13, <1>14 DEF IInv, TypeOK
  <2>2. HasIsSet'
    BY <1>14 DEF IInv, HasIsSet
  <2>3. \A v \in Thread : \A i \in DOMAIN sends'[v] :
            Home[sends'[v][i].h] = v /\ sends'[v][i].h \notin dead
    BY <1>15 DEF IInv, QueuesAlive
  <2> QED
    BY <2>1, <2>2, <2>3 DEF IInv, QueuesAlive
<1>17. \A v \in Thread : \A i \in DOMAIN stack'[v] : Serves(stack'[v][i]) =>
           \/ v = t /\ i = n + 1 /\ stack'[v][i] = serve
           \/ Old(v, i)
  <2> SUFFICES ASSUME NEW v \in Thread, NEW i \in DOMAIN stack'[v],
                      Serves(stack'[v][i])
               PROVE  \/ v = t /\ i = n + 1 /\ stack'[v][i] = serve
                      \/ Old(v, i)
    OBVIOUS
  <2>1. CASE v # t
    BY <1>13, <2>1
  <2>2. CASE v = t
    <3>1. ~Serves(handle)
      BY DEF Serves
    <3> QED
      BY <1>1, <1>9, <1>13, <2>2, <3>1 DEF Keeps
  <2> QED
    BY <2>1, <2>2
<1>18. ASSUME NEW x, x.from \in Thread, Points(stack, x) PROVE Points(stack', x)
  <2>1. CASE x.from # t
    BY <1>13, <1>18, <2>1 DEF Points
  <2>2. CASE x.from = t
    <3>1. x.depth \in DOMAIN b /\ Points([stack EXCEPT ![t] = b], x)
      BY <1>18, <2>2 DEF Points, Keeps, IInv, TypeOK
    <3>2. x.depth \in DOMAIN g /\ g[x.depth] = b[x.depth]
      BY <1>1, <1>6, <1>8, <3>1
    <3> QED
      BY <1>13, <2>2, <3>1, <3>2 DEF Points, IInv, TypeOK
  <2> QED
    BY <2>1, <2>2
<1>19. /\ \A v \in Thread : \A i \in DOMAIN sends'[v] : ~Same(sends'[v][i], m)
       /\ \A v \in Thread : \A i \in DOMAIN stack[v] :
             Serves(stack[v][i]) => ~Same(stack[v][i], m)
  <2>1. ASSUME NEW v \in Thread, NEW i \in DOMAIN sends'[v], Same(sends'[v][i], m)
        PROVE  FALSE
    <3>1. PICK j \in DOMAIN sends[v] :
                 /\ sends[v][j] = sends'[v][i] /\ (v = t => j = i + 1)
                 /\ (v # t => j = i)
      BY <1>15
    <3>2. v = t /\ sends[v][j] = q[1]
      BY <1>2, <2>1, <3>1 DEF IInv, Distinct
    <3>3. j = 1
      BY <1>2, <3>2 DEF IInv, Distinct, Injective
    <3>4. i \in Nat /\ i >= 1
      BY <1>2, <1>14, <3>2
    <3> QED
      BY <3>1, <3>2, <3>3, <3>4
  <2>2. ASSUME NEW v \in Thread, NEW i \in DOMAIN stack[v], Serves(stack[v][i])
        PROVE  ~Same(stack[v][i], m)
    BY <1>2, <2>2 DEF IInv, Distinct, Same
  <2> QED
    BY <2>1, <2>2
<1>20. ReadyIsAlive'
  <2>1. ASSUME NEW v \in Thread, NEW i \in DOMAIN sends'[v]
        PROVE  Points(stack', sends'[v][i])
    <3>1. PICK j \in DOMAIN sends[v] : sends[v][j] = sends'[v][i]
      BY <1>15
    <3>2. Points(stack, sends[v][j])
      BY <3>1, Linked
    <3>3. sends[v][j] \in SendMessage
      BY <3>1 DEF IInv, TypeOK
    <3> QED
      BY <1>18, <3>1, <3>2, <3>3 DEF SendMessage
  <2>2. ASSUME NEW v \in Thread, NEW i \in DOMAIN stack'[v], Serves(stack'[v][i])
        PROVE  Points(stack', stack'[v][i])
    <3>1. CASE stack'[v][i] = serve
      <4>0. m = sends[t][1] /\ 1 \in DOMAIN sends[t]
        BY <1>2
      <4>1. Points(stack, m)
        BY <4>0, Linked
      <4>2. Points(stack', m)
        BY <1>3, <1>18, <4>1
      <4> QED
        BY <3>1, <4>2, PointsSame
    <3>2. CASE Old(v, i)
      <4>1. Points(stack, stack[v][i]) /\ stack[v][i].from \in Thread
        BY <3>2, Linked
      <4>2. Points(stack', stack[v][i])
        BY <1>18, <4>1
      <4> QED
        BY <3>2, <4>2, PointsSame
    <3> QED
      BY <1>17, <2>2, <3>1, <3>2
  <2> QED
    BY <2>1, <2>2, LinkedNext
<1>21. Distinct'
  <2>1. ASSUME NEW v \in Thread PROVE Injective(sends'[v])
    <3> SUFFICES ASSUME NEW i \in DOMAIN sends'[v], NEW j \in DOMAIN sends'[v],
                        sends'[v][i] = sends'[v][j]
                 PROVE  i = j
      BY DEF Injective
    <3>1. Injective(sends[v])
      BY DEF IInv, Distinct
    <3>2. CASE v # t
      BY <1>14, <3>1, <3>2 DEF Injective
    <3>3. CASE v = t
      <4>1. i \in 1 .. Len(q) - 1 /\ j \in 1 .. Len(q) - 1
        BY <1>2, <1>14, <3>3
      <4>2. q[i + 1] = q[j + 1] /\ i + 1 \in DOMAIN q /\ j + 1 \in DOMAIN q
        BY <1>2, <1>14, <3>3, <4>1
      <4>3. i + 1 = j + 1
        BY <3>1, <3>3, <4>2 DEF Injective
      <4> QED
        BY <1>2, <4>1, <4>3
    <3> QED
      BY <3>2, <3>3
  <2>2. ASSUME NEW u \in Thread, NEW v \in Thread,
               NEW i \in DOMAIN sends'[u], NEW j \in DOMAIN sends'[v],
               Same(sends'[u][i], sends'[v][j])
        PROVE  u = v /\ sends'[u][i] = sends'[v][j]
    BY <1>15, <2>2 DEF IInv, Distinct
  <2>3. ASSUME NEW u \in Thread, NEW v \in Thread,
               NEW i \in DOMAIN sends'[u], NEW j \in DOMAIN stack'[v],
               Serves(stack'[v][j])
        PROVE  ~Same(sends'[u][i], stack'[v][j])
    <3>1. CASE stack'[v][j] = serve
      <4>1. ~Same(sends'[u][i], m)
        BY <1>19
      <4> QED
        BY <3>1, <4>1 DEF Same
    <3>2. CASE Old(v, j)
      <4>1. PICK k \in DOMAIN sends[u] : sends[u][k] = sends'[u][i]
        BY <1>15
      <4>2. ~Same(sends[u][k], stack[v][j])
        BY <3>2 DEF IInv, Distinct
      <4> QED
        BY <3>2, <4>1, <4>2 DEF Same
    <3> QED
      BY <1>17, <2>3, <3>1, <3>2
  <2>4. \A u, v \in Thread :
           \A i \in DOMAIN stack'[u] : \A j \in DOMAIN stack'[v] :
              Serves(stack'[u][i]) /\ Serves(stack'[v][j])
              /\ Same(stack'[u][i], stack'[v][j]) => u = v /\ i = j
    <3> TAKE u, v \in Thread
    <3> TAKE i \in DOMAIN stack'[u]
    <3> TAKE j \in DOMAIN stack'[v]
    <3> HAVE /\ Serves(stack'[u][i]) /\ Serves(stack'[v][j])
             /\ Same(stack'[u][i], stack'[v][j])
    <3>1. CASE u = t /\ i = n + 1 /\ v = t /\ j = n + 1
      BY <3>1
    <3>2. CASE stack'[u][i] = serve /\ Old(v, j)
      <4>1. ~Same(stack[v][j], m)
        BY <1>19, <3>2
      <4> QED
        BY <3>2, <4>1 DEF Same
    <3>3. CASE Old(u, i) /\ stack'[v][j] = serve
      <4>1. ~Same(stack[u][i], m)
        BY <1>19, <3>3
      <4> QED
        BY <3>3, <4>1 DEF Same
    <3>4. CASE Old(u, i) /\ Old(v, j)
      <4>1. Same(stack[u][i], stack[v][j])
        BY <3>4 DEF Same
      <4> QED
        BY <3>4, <4>1 DEF IInv, Distinct
    <3>5. (u = t /\ i = n + 1 /\ stack'[u][i] = serve) \/ Old(u, i)
      BY <1>17
    <3>6. (v = t /\ j = n + 1 /\ stack'[v][j] = serve) \/ Old(v, j)
      BY <1>17
    <3> HIDE DEF Old
    <3> QED
      BY <3>1, <3>2, <3>3, <3>4, <3>5, <3>6, Zenon
  <2>5. \A u, v \in Thread :
           \A i \in DOMAIN sends'[u] : \A j \in DOMAIN sends'[v] :
              Same(sends'[u][i], sends'[v][j]) =>
                  u = v /\ sends'[u][i] = sends'[v][j]
    BY <2>2
  <2>6. \A u, v \in Thread :
           \A i \in DOMAIN sends'[u] : \A j \in DOMAIN stack'[v] :
              Serves(stack'[v][j]) => ~Same(sends'[u][i], stack'[v][j])
    BY <2>3
  <2> QED
    BY <2>1, <2>4, <2>5, <2>6, DistinctNext
<1>22. SendIsSeen' /\ PostIsSeen' /\ ReplyIsSeen'
  <2>1. ~PastSends(t)' /\ ~At(t, "loop", "wait")'
    BY <1>6, <1>13 DEF PastSends, At, Top
  <2>2. \A v \in Thread : sends'[v] # <<>> => sends[v] # <<>>
    BY <1>14
  <2> QED
    BY <1>6, <1>7, <1>12, <2>1, <2>2, OwnSeen
<1> QED
  BY <1>13, <1>16, <1>20, <1>21, <1>22 DEF IInv

\* What ReceiveSends does in its critical section, once the frame b is on top.
LEMMA DrainKeeps ==
    ASSUME IInv, NEW t \in Thread, NEW b \in Seq(Frame), b # <<>>, Shaped(b),
           AllAlive(b), Keeps(stack[t], b), Rests(stack[t], b),
           b[Len(b)].pc \in {"sends", "run"},
           Drain(t, [stack EXCEPT ![t] = b], After(b[Len(b)])),
           awake' \in [Thread -> BOOLEAN], \A v \in Thread : awake[v] => awake'[v],
           ~At(t, "send", "wake"), At(t, "serve", "wake") => awake'[Top(t).from],
           UNCHANGED <<msgq, dmsgq, stop, gone, dead, calls>>
    PROVE  IInv'
<1>1. stack \in [Thread -> Seq(Frame)] /\ sends \in [Thread -> Seq(SendMessage)]
      /\ has \in [Thread -> BOOLEAN]
  BY DEF IInv, TypeOK
<1>2. CASE sends[t] = <<>>
  <2>1. /\ has' = [has EXCEPT ![t] = FALSE] /\ sends' = sends
        /\ stack' = [[stack EXCEPT ![t] = b] EXCEPT ![t] = Goto(@, After(b[Len(b)]))]
    BY <1>2 DEF Drain
  <2>2. stack' = [stack EXCEPT ![t] = Goto(b, After(b[Len(b)]))]
    BY <1>1, <2>1
  <2>3. has' \in [Thread -> BOOLEAN] /\ \A v \in Thread \ {t} : has'[v] = has[v]
    BY <1>1, <2>1
  <2> QED
    BY <1>2, <2>1, <2>2, <2>3, DrainedKeeps
<1>3. CASE sends[t] # <<>>
  <2> DEFINE m == Head(sends[t])
             serve == [NewFrame("serve", "run", m.h) EXCEPT
                          !.from = m.from, !.depth = m.depth]
             handle == NewFrame("handle", "run", m.h)
  <2>1. /\ sends' = [sends EXCEPT ![t] = Tail(@)] /\ has' = has
        /\ stack' = [[stack EXCEPT ![t] = b] EXCEPT ![t] = @ \o <<serve, handle>>]
    BY <1>3 DEF Drain
  <2>2. stack' = [stack EXCEPT ![t] = b \o <<serve, handle>>]
    BY <1>1, <2>1
  <2>3. m.from \in Thread /\ m.depth \in Nat /\ m.h \in Handler
    <3>1. m \in SendMessage
      BY <1>1, <1>3
    <3> QED
      BY <3>1 DEF SendMessage
  <2> HIDE DEF m
  <2>4. /\ serve \in Frame /\ serve.op = "serve" /\ serve.pc = "run" /\ ~serve.ready
        /\ serve.from = m.from /\ serve.depth = m.depth /\ serve.h = m.h
    BY <2>3 DEF NewFrame, Frame
  <2>5. /\ handle \in Frame /\ handle.op = "handle" /\ handle.pc = "run"
        /\ ~handle.ready /\ handle.h = m.h
    BY <2>3 DEF NewFrame, Frame
  <2> HIDE DEF serve, handle
  <2>6. m = Head(sends[t])
    BY DEF m
  <2>7. UNCHANGED <<msgq, dmsgq, has, stop, gone, dead, calls>>
    BY <2>1
  <2>8. sends' = [sends EXCEPT ![t] = Tail(@)]
    BY <2>1
  <2> QED
    BY <1>3, <2>2, <2>4, <2>5, <2>6, <2>7, <2>8, ServeKeeps
<1> QED
  BY <1>2, <1>3

LEMMA ReceiveSendsKeeps ==
    ASSUME IInv, NEW t \in Thread, ReceiveSends(t)
    PROVE  IInv'
<1> DEFINE b == stack[t]
<1>1. /\ b # <<>> /\ Top(t).pc = "sends" /\ Top(t).op \in {"loop", "send"}
      /\ UNCHANGED <<msgq, dmsgq, awake, stop, gone, dead, calls>>
  BY DEF ReceiveSends, At
<1>2. /\ b \in Seq(Frame) /\ Top(t) = b[Len(b)] /\ Shaped(b) /\ AllAlive(b)
  BY <1>1, AtFacts
<1>3. stack = [stack EXCEPT ![t] = b] /\ has \in [Thread -> BOOLEAN]
      /\ awake' \in [Thread -> BOOLEAN]
  BY <1>1 DEF IInv, TypeOK
<1>4. Keeps(stack[t], b) /\ Rests(stack[t], b)
  BY KeepsTransitive
<1>5. ~At(t, "send", "wake") /\ ~At(t, "serve", "wake")
  BY <1>1 DEF At
<1>6. CASE has[t]
  <2>1. Drain(t, [stack EXCEPT ![t] = b], After(b[Len(b)]))
    BY <1>2, <1>3, <1>6 DEF ReceiveSends
  <2> HIDE DEF b
  <2> QED
    BY <1>1, <1>2, <1>3, <1>4, <1>5, <2>1, DrainKeeps
<1>7. CASE ~has[t]
  <2>1. /\ stack' = [stack EXCEPT ![t] = Goto(b, After(b[Len(b)]))]
        /\ sends' = sends /\ has' = has
    BY <1>2, <1>7 DEF ReceiveSends
  <2>2. sends[t] = <<>>
    BY <1>7 DEF IInv, HasIsSet
  <2> HIDE DEF b
  <2> QED
    BY <1>1, <1>2, <1>3, <1>4, <1>5, <2>1, <2>2, DrainedKeeps
<1> QED
  BY <1>6, <1>7

LEMMA ReplyKeeps ==
    ASSUME IInv, NEW t \in Thread, Reply(t)
    PROVE  IInv'
<1> DEFINE s == stack[t]
           b == Pop(s)
<1>1. /\ s # <<>> /\ Top(t).pc = "wake" /\ Top(t).op = "serve"
      /\ awake' = [awake EXCEPT ![Top(t).from] = TRUE]
      /\ UNCHANGED <<msgq, dmsgq, stop, gone, dead, calls>>
  BY DEF Reply, At
<1>2. /\ s \in Seq(Frame) /\ Top(t) = s[Len(s)] /\ Shaped(s) /\ AllAlive(s)
      /\ Top(t).from \in Thread
  BY <1>1, AtFacts
<1>3. /\ b \in Seq(Frame) /\ b # <<>> /\ Len(b) = Len(s) - 1
      /\ Shaped(b) /\ AllAlive(b) /\ Keeps(s, b)
      /\ b[Len(s) - 1].pc \in {"sends", "run"} /\ Rests(s, b)
  BY <1>1, <1>2, PopKept
<1>4. Drain(t, [stack EXCEPT ![t] = b], After(b[Len(b)]))
  <2>1. stack \in [Thread -> Seq(Frame)]
    BY DEF IInv, TypeOK
  <2>2. [stack EXCEPT ![t] = Pop(@)][t] = b
    BY <2>1
  <2> QED
    BY <2>2 DEF Reply
<1>5. /\ awake' \in [Thread -> BOOLEAN] /\ awake'[Top(t).from]
      /\ \A v \in Thread : awake[v] => awake'[v]
  BY <1>1, <1>2 DEF IInv, TypeOK
<1>6. ~At(t, "send", "wake")
  BY <1>1 DEF At
<1> HIDE DEF b
<1> QED
  BY <1>1, <1>3, <1>4, <1>5, <1>6, DrainKeeps

-----------------------------------------------------------------------------
(* Queues.                                                                 *)

LEMMA SeqElements ==
    ASSUME NEW S, NEW q \in Seq(S)
    PROVE  \A i \in DOMAIN q : q[i] \in S
OBVIOUS

LEMMA SeqByElements ==
    ASSUME NEW S, NEW q \in Seq(S), NEW T, \A i \in 1 .. Len(q) : q[i] \in T
    PROVE  q \in Seq(T)
<1>1. Len(q) \in Nat /\ q \in [1 .. Len(q) -> T]
  OBVIOUS
<1> QED
  BY <1>1

LEMMA SubSeqIn ==
    ASSUME NEW S, NEW q \in Seq(S), NEW k \in 0 .. Len(q)
    PROVE  /\ SubSeq(q, 1, k) \in Seq(S) /\ SubSeq(q, k + 1, Len(q)) \in Seq(S)
<1>1. /\ Len(q) \in Int /\ 1 \in Int /\ k \in Int /\ k + 1 \in Int
      /\ \A i \in 1 .. k : q[i] \in S
      /\ \A i \in k + 1 .. Len(q) : q[i] \in S
  OBVIOUS
<1>2. SubSeq(q, 1, k) \in Seq(S)
  BY <1>1, SubSeqProperties
<1>3. SubSeq(q, k + 1, Len(q)) \in Seq(S)
  BY <1>1, SubSeqProperties
<1> QED
  BY <1>2, <1>3

\* What may be queued for thread u once the handlers of d are destroyed.
Live(u, d) == {h \in Handler : Home[h] = u /\ h \notin d}
LiveSends(u, d) == {m \in SendMessage : m.h \in Live(u, d)}

LEMMA QueuesLive ==
    ASSUME IInv, NEW u \in Thread
    PROVE  /\ msgq[u] \in Seq(Live(u, dead) \cup {Quit})
           /\ dmsgq[u] \in Seq(Live(u, dead))
           /\ sends[u] \in Seq(LiveSends(u, dead))
<1>1. /\ msgq[u] \in Seq(Handler \cup {Quit}) /\ dmsgq[u] \in Seq(Handler)
      /\ sends[u] \in Seq(SendMessage)
  BY DEF IInv, TypeOK
<1>2. /\ \A i \in DOMAIN msgq[u] :
            msgq[u][i] # Quit => Home[msgq[u][i]] = u /\ msgq[u][i] \notin dead
      /\ \A i \in DOMAIN dmsgq[u] :
            Home[dmsgq[u][i]] = u /\ dmsgq[u][i] \notin dead
      /\ \A i \in DOMAIN sends[u] :
            Home[sends[u][i].h] = u /\ sends[u][i].h \notin dead
  BY DEF IInv, QueuesAlive
<1>3. \A i \in 1 .. Len(msgq[u]) : msgq[u][i] \in Live(u, dead) \cup {Quit}
  BY <1>1, <1>2 DEF Live
<1>4. \A i \in 1 .. Len(dmsgq[u]) : dmsgq[u][i] \in Live(u, dead)
  BY <1>1, <1>2 DEF Live
<1>5. \A i \in 1 .. Len(sends[u]) : sends[u][i] \in LiveSends(u, dead)
  <2>1. \A i \in 1 .. Len(sends[u]) : sends[u][i] \in SendMessage
    BY <1>1
  <2>2. \A m \in SendMessage : m.h \in Handler
    BY DEF SendMessage
  <2> QED
    BY <1>1, <1>2, <2>1, <2>2 DEF LiveSends, Live
<1>6. msgq[u] \in Seq(Live(u, dead) \cup {Quit})
  BY <1>1, <1>3, SeqByElements
<1>7. dmsgq[u] \in Seq(Live(u, dead))
  BY <1>1, <1>4, SeqByElements
<1>8. sends[u] \in Seq(LiveSends(u, dead))
  BY <1>1, <1>5, SeqByElements
<1> QED
  BY <1>6, <1>7, <1>8

LEMMA QueuesLiveNext ==
    ASSUME \A u \in Thread : /\ msgq'[u] \in Seq(Live(u, dead') \cup {Quit})
                             /\ dmsgq'[u] \in Seq(Live(u, dead'))
                             /\ sends'[u] \in Seq(LiveSends(u, dead'))
    PROVE  QueuesAlive'
<1> SUFFICES ASSUME NEW u \in Thread
             PROVE  /\ \A i \in DOMAIN msgq'[u] : msgq'[u][i] # Quit =>
                          Home[msgq'[u][i]] = u /\ msgq'[u][i] \notin dead'
                    /\ \A i \in DOMAIN dmsgq'[u] :
                          Home[dmsgq'[u][i]] = u /\ dmsgq'[u][i] \notin dead'
                    /\ \A i \in DOMAIN sends'[u] :
                          Home[sends'[u][i].h] = u /\ sends'[u][i].h \notin dead'
  BY DEF QueuesAlive
<1>1. \A i \in DOMAIN msgq'[u] : msgq'[u][i] \in Live(u, dead') \cup {Quit}
  BY SeqElements
<1>2. \A i \in DOMAIN dmsgq'[u] : dmsgq'[u][i] \in Live(u, dead')
  BY SeqElements
<1>3. \A i \in DOMAIN sends'[u] : sends'[u][i] \in LiveSends(u, dead')
  BY SeqElements
<1> QED
  BY <1>1, <1>2, <1>3 DEF Live, LiveSends

LEMMA SeqOfMore ==
    ASSUME NEW S, NEW T, S \subseteq T, NEW q \in Seq(S)
    PROVE  q \in Seq(T)
OBVIOUS

\* Messages that come are noticed.
LEMMA QueueStep ==
    ASSUME IInv, UNCHANGED <<sends, has, stack, gone, dead>>,
           calls' \in Nat, stop' \in [Thread -> BOOLEAN],
           awake' \in [Thread -> BOOLEAN], \A v \in Thread : awake[v] => awake'[v],
           msgq' \in [Thread -> Seq(Handler \cup {Quit})],
           dmsgq' \in [Thread -> Seq(Handler)],
           \A v \in Thread : /\ msgq'[v] \in Seq(Live(v, dead) \cup {Quit})
                             /\ dmsgq'[v] \in Seq(Live(v, dead))
                             /\ \/ awake'[v]
                                \/ msgq'[v] = msgq[v] /\ dmsgq'[v] = dmsgq[v]
    PROVE  IInv'
<1>1. TypeOK'
  BY DEF IInv, TypeOK
<1>2. QueuesAlive'
  <2>1. \A v \in Thread : sends'[v] \in Seq(LiveSends(v, dead'))
    BY QueuesLive
  <2> QED
    BY <2>1, QueuesLiveNext
<1>3. Shapes' /\ CallsAlive' /\ ReadyIsAlive' /\ Distinct' /\ HasIsSet'
  <2>1. Shapes' /\ CallsAlive' /\ HasIsSet'
    BY DEF IInv, Shapes, CallsAlive, HasIsSet
  <2>2. ReadyIsAlive /\ Distinct /\ sends' = sends /\ stack' = stack
    BY DEF IInv
  <2>3. ReadyIsAlive'
    BY ONLY <2>2, ZenonT(60) DEF ReadyIsAlive, Waits
  <2>4. Distinct'
    BY ONLY <2>2 DEF Distinct
  <2> QED
    BY <2>1, <2>3, <2>4
<1>4. SendIsSeen'
  BY DEF IInv, SendIsSeen, PastSends, At, Top
<1>5. PostIsSeen'
  BY DEF IInv, PostIsSeen, At, Top
<1>6. ReplyIsSeen'
  BY DEF IInv, ReplyIsSeen, Replying, At, Top
<1> QED
  BY <1>1, <1>2, <1>3, <1>4, <1>5, <1>6 DEF IInv

LEMMA PostKeeps ==
    ASSUME IInv, NEW u \in Thread, NEW m \in Live(u, dead) \cup {Quit}, Post(u, m),
           UNCHANGED <<sends, has, stack, gone, dead>>, calls' \in Nat
    PROVE  IInv'
<1>1. /\ msgq \in [Thread -> Seq(Handler \cup {Quit})]
      /\ dmsgq \in [Thread -> Seq(Handler)]
      /\ awake \in [Thread -> BOOLEAN] /\ stop \in [Thread -> BOOLEAN]
  BY DEF IInv, TypeOK
<1>2. m \in Handler \cup {Quit}
  BY DEF Live
<1>3. \A v \in Thread : /\ msgq[v] \in Seq(Live(v, dead) \cup {Quit})
                        /\ dmsgq[v] \in Seq(Live(v, dead))
  BY QueuesLive
<1>4. stop' \in [Thread -> BOOLEAN] /\ dmsgq' = dmsgq
  BY <1>1 DEF Post
<1>5. awake' = [awake EXCEPT ![u] = @ \/ ~stop[u]]
  BY DEF Post
<1>6. /\ awake' \in [Thread -> BOOLEAN] /\ \A v \in Thread : awake[v] => awake'[v]
      /\ ~stop[u] => awake'[u]
  BY <1>1, <1>5
<1>7. msgq' = IF stop[u] THEN msgq ELSE [msgq EXCEPT ![u] = Append(@, m)]
  BY DEF Post
<1>8. CASE stop[u]
  <2>1. msgq' = msgq
    BY <1>7, <1>8
  <2> QED
    BY <1>1, <1>3, <1>4, <1>6, <2>1, QueueStep
<1>9. CASE ~stop[u]
  <2>1. /\ msgq' \in [Thread -> Seq(Handler \cup {Quit})]
        /\ msgq'[u] = Append(msgq[u], m) /\ \A v \in Thread \ {u} : msgq'[v] = msgq[v]
    BY <1>1, <1>2, <1>7, <1>9
  <2>2. Append(msgq[u], m) \in Seq(Live(u, dead) \cup {Quit})
    BY <1>3, AppendProperties
  <2>3. \A v \in Thread : msgq'[v] \in Seq(Live(v, dead) \cup {Quit})
    BY <1>3, <2>1, <2>2
  <2> QED
    BY <1>1, <1>3, <1>4, <1>6, <1>9, <2>1, <2>3, QueueStep
<1> QED
  BY <1>8, <1>9

LEMMA DelayPostKeeps ==
    ASSUME IInv, NEW u \in Thread, NEW h \in Live(u, dead),
           NEW k \in 0 .. Len(dmsgq[u]), DelayPost(u, h, k),
           UNCHANGED <<sends, has, stack, gone, dead>>, calls' \in Nat
    PROVE  IInv'
<1>1. /\ msgq \in [Thread -> Seq(Handler \cup {Quit})]
      /\ dmsgq \in [Thread -> Seq(Handler)]
      /\ awake \in [Thread -> BOOLEAN] /\ stop \in [Thread -> BOOLEAN]
  BY DEF IInv, TypeOK
<1>3. \A v \in Thread : /\ msgq[v] \in Seq(Live(v, dead) \cup {Quit})
                        /\ dmsgq[v] \in Seq(Live(v, dead))
  BY QueuesLive
<1>4. stop' \in [Thread -> BOOLEAN] /\ msgq' = msgq
  BY <1>1 DEF DelayPost
<1>5. awake' = [awake EXCEPT ![u] = @ \/ ~stop[u]]
  BY DEF DelayPost
<1>6. /\ awake' \in [Thread -> BOOLEAN] /\ \A v \in Thread : awake[v] => awake'[v]
      /\ ~stop[u] => awake'[u]
  BY <1>1, <1>5
<1> DEFINE d == SubSeq(dmsgq[u], 1, k) \o <<h>>
                \o SubSeq(dmsgq[u], k + 1, Len(dmsgq[u]))
<1>7. dmsgq' = IF stop[u] THEN dmsgq ELSE [dmsgq EXCEPT ![u] = d]
  BY DEF DelayPost
<1>8. CASE stop[u]
  <2>1. dmsgq' = dmsgq
    BY <1>7, <1>8
  <2> QED
    BY <1>1, <1>3, <1>4, <1>6, <2>1, QueueStep
<1>9. CASE ~stop[u]
  <2>1. d \in Seq(Live(u, dead))
    <3>1. /\ SubSeq(dmsgq[u], 1, k) \in Seq(Live(u, dead))
          /\ SubSeq(dmsgq[u], k + 1, Len(dmsgq[u])) \in Seq(Live(u, dead))
      BY <1>3, SubSeqIn
    <3>2. <<h>> \in Seq(Live(u, dead))
      OBVIOUS
    <3>3. SubSeq(dmsgq[u], 1, k) \o <<h>> \in Seq(Live(u, dead))
      BY <3>1, <3>2, ConcatProperties
    <3> QED
      BY <3>1, <3>3, ConcatProperties
  <2> HIDE DEF d
  <2>2. d \in Seq(Handler)
    BY <2>1, SeqOfMore DEF Live
  <2>3. /\ dmsgq' \in [Thread -> Seq(Handler)]
        /\ dmsgq'[u] = d /\ \A v \in Thread \ {u} : dmsgq'[v] = dmsgq[v]
    BY <1>1, <1>7, <1>9, <2>2
  <2>4. \A v \in Thread : dmsgq'[v] \in Seq(Live(v, dead))
    BY <1>3, <2>1, <2>3
  <2> QED
    BY <1>1, <1>3, <1>4, <1>6, <1>9, <2>3, <2>4, QueueStep
<1> QED
  BY <1>8, <1>9

LEMMA CallPostKeeps ==
    ASSUME IInv, NEW t \in Thread, NEW h \in Handler, CallPost(t, h)
    PROVE  IInv'
<1>1. /\ h \notin dead /\ Post(Home[h], h) /\ calls' = calls + 1
      /\ UNCHANGED <<sends, has, stack, gone, dead>>
  BY DEF CallPost, Call, Alive
<1>2. Home[h] \in Thread /\ h \in Live(Home[h], dead) /\ calls' \in Nat
  BY <1>1, ThreadsAssumption DEF Live, IInv, TypeOK
<1> QED
  BY <1>1, <1>2, PostKeeps

LEMMA CallQuitKeeps ==
    ASSUME IInv, NEW t \in Thread, NEW u \in Thread, CallQuit(t, u)
    PROVE  IInv'
<1>1. /\ Post(u, Quit) /\ calls' = calls + 1
      /\ UNCHANGED <<sends, has, stack, gone, dead>>
  BY DEF CallQuit, Call
<1>2. calls' \in Nat
  BY <1>1 DEF IInv, TypeOK
<1> QED
  BY <1>1, <1>2, PostKeeps

LEMMA CallDelayPostKeeps ==
    ASSUME IInv, NEW t \in Thread, NEW h \in Handler, CallDelayPost(t, h)
    PROVE  IInv'
<1>1. /\ h \notin dead /\ calls' = calls + 1
      /\ UNCHANGED <<sends, has, stack, gone, dead>>
  BY DEF CallDelayPost, Call, Alive
<1>2. PICK k \in 0 .. Len(dmsgq[Home[h]]) : DelayPost(Home[h], h, k)
  BY DEF CallDelayPost
<1>3. Home[h] \in Thread /\ h \in Live(Home[h], dead) /\ calls' \in Nat
  BY <1>1, ThreadsAssumption DEF Live, IInv, TypeOK
<1> QED
  BY <1>1, <1>2, <1>3, DelayPostKeeps

\* Send begins, or calls the handler if it is on its own thread.
LEMMA CallSendKeeps ==
    ASSUME IInv, NEW t \in Thread, NEW h \in Handler, CallSend(t, h)
    PROVE  IInv'
<1> DEFINE s == stack[t]
           f == IF Home[h] = t THEN NewFrame("handle", "run", h)
                ELSE NewFrame("send", "push", h)
           g == Append(s, f)
<1>1. /\ h \notin dead /\ calls' = calls + 1 /\ s # <<>> /\ Top(t).op = "handle"
      /\ Top(t).pc = "run"
      /\ UNCHANGED <<msgq, dmsgq, sends, has, awake, stop, gone, dead>>
  BY DEF CallSend, Call, Alive, At
<1>2. /\ stack \in [Thread -> Seq(Frame)] /\ calls' \in Nat
      /\ msgq \in [Thread -> Seq(Handler \cup {Quit})]
      /\ dmsgq \in [Thread -> Seq(Handler)]
      /\ awake \in [Thread -> BOOLEAN] /\ stop \in [Thread -> BOOLEAN]
  BY <1>1 DEF IInv, TypeOK
<1>3. CASE stop[Home[h]]
  <2>1. stack' = stack
    BY <1>2, <1>3 DEF CallSend
  <2>2. \A v \in Thread : /\ msgq[v] \in Seq(Live(v, dead) \cup {Quit})
                          /\ dmsgq[v] \in Seq(Live(v, dead))
    BY QueuesLive
  <2> QED
    BY <1>1, <1>2, <2>1, <2>2, QueueStep
<1>4. CASE ~stop[Home[h]]
  <2>1. stack' = [stack EXCEPT ![t] = g]
    BY <1>4 DEF CallSend
  <2>2. /\ s \in Seq(Frame) /\ Top(t) = s[Len(s)] /\ Shaped(s) /\ AllAlive(s)
        /\ Len(s) \in Nat
    BY <1>1, AtFacts
  <2>3. f \in Frame
    BY NewFrameFacts DEF Pc
  <2>4. /\ f.op \in {"handle", "send"} /\ f.h = h /\ ~f.ready
        /\ f.op = "send" => f.pc # "run" /\ f.pc \in {"run", "push"}
        /\ f.op = "handle" => f.pc = "run"
    BY DEF NewFrame
  <2> HIDE DEF f
  <2>5. /\ g \in Seq(Frame) /\ Len(g) = Len(s) + 1 /\ g # <<>>
        /\ g[Len(s) + 1] = f
        /\ Shaped(g) /\ AllAlive(g) /\ Keeps(s, g) /\ Rests(s, g)
    BY <1>1, <2>2, <2>3, <2>4, AppendKept
  <2> HIDE DEF g
  <2>6. /\ stack' \in [Thread -> Seq(Frame)] /\ stack'[t] = g
        /\ Shapes' /\ CallsAlive' /\ ReadyIsAlive' /\ Distinct'
    BY <1>1, <2>1, <2>5, OwnStep
  <2>7. TypeOK' /\ QueuesAlive' /\ HasIsSet'
    BY <1>1, <1>2, <2>6 DEF IInv, TypeOK, QueuesAlive, HasIsSet
  <2>8. SendIsSeen' /\ PostIsSeen' /\ ReplyIsSeen'
    <3>1. ~PastSends(t)' /\ ~At(t, "loop", "wait")'
      <4>1. f.pc \in {"run", "push"}
        BY <2>4
      <4> QED
        BY <2>5, <2>6, <4>1 DEF PastSends, At, Top
    <3>2. ~At(t, "serve", "wake") /\ ~At(t, "send", "wake")
      BY <1>1 DEF At
    <3> QED
      BY <1>1, <2>1, <2>5, <3>1, <3>2, OwnSeen
  <2> QED
    BY <2>6, <2>7, <2>8 DEF IInv
<1> QED
  BY <1>3, <1>4

\* Get: the messages that are due come after those that were posted, and the
\* first of them is taken.
LEMMA PullKeeps ==
    ASSUME IInv, NEW t \in Thread, NEW k \in 0 .. Len(dmsgq[t]), Pull(t, k)
    PROVE  IInv'
<1> DEFINE s == stack[t]
           q == msgq[t] \o SubSeq(dmsgq[t], 1, k)
           d == SubSeq(dmsgq[t], k + 1, Len(dmsgq[t]))
           f == [s[Len(s)] EXCEPT !.pc = IF q = <<>> THEN "wait" ELSE "sends",
                                  !.timed = q = <<>> /\ dmsgq'[t] # <<>>]
           loop == [s EXCEPT ![Len(s)] = f]
           g == IF q = <<>> THEN loop
                ELSE IF Head(q) = Quit THEN <<>>
                ELSE Append(loop, NewFrame("handle", "run", Head(q)))
<1>1. /\ s # <<>> /\ Top(t).op = "loop" /\ Top(t).pc = "pull"
      /\ dmsgq' = [dmsgq EXCEPT ![t] = d]
      /\ msgq' = [msgq EXCEPT ![t] = IF q = <<>> THEN q ELSE Tail(q)]
      /\ UNCHANGED <<sends, has, awake, stop, gone, dead, calls>>
  BY DEF Pull, At
<1>2. /\ s \in Seq(Frame) /\ Top(t) = s[Len(s)] /\ Shaped(s) /\ AllAlive(s)
      /\ Len(s) = 1 /\ DOMAIN s = 1 .. 1 /\ Top(t) \in Frame
  BY <1>1, AtFacts
<1>3. stack' = [stack EXCEPT ![t] = g]
  <2>1. loop = [s EXCEPT ![Len(s)].pc = IF q = <<>> THEN "wait" ELSE "sends",
                         ![Len(s)].timed = q = <<>> /\ dmsgq'[t] # <<>>]
    BY <1>2
  <2> DEFINE l == [s EXCEPT ![Len(s)].pc = IF q = <<>> THEN "wait" ELSE "sends",
                            ![Len(s)].timed = q = <<>> /\ dmsgq'[t] # <<>>]
  <2>2. stack' = [stack EXCEPT ![t] =
                     IF q = <<>> THEN l
                     ELSE IF Head(q) = Quit THEN <<>>
                     ELSE Append(l, NewFrame("handle", "run", Head(q)))]
    BY Zenon DEF Pull
  <2>3. l = loop
    BY <2>1
  <2> HIDE DEF l, loop, q
  <2> QED
    BY <2>2, <2>3
<1>4. /\ q \in Seq(Live(t, dead) \cup {Quit}) /\ d \in Seq(Live(t, dead))
  <2>1. /\ msgq[t] \in Seq(Live(t, dead) \cup {Quit})
        /\ dmsgq[t] \in Seq(Live(t, dead))
    BY QueuesLive
  <2>2. SubSeq(dmsgq[t], 1, k) \in Seq(Live(t, dead)) /\ d \in Seq(Live(t, dead))
    BY <2>1, SubSeqIn
  <2>3. SubSeq(dmsgq[t], 1, k) \in Seq(Live(t, dead) \cup {Quit})
    BY <2>2, SeqOfMore
  <2> QED
    BY <2>1, <2>2, <2>3, ConcatProperties
<1>5. /\ f \in Frame /\ f.op = Top(t).op /\ f.h = Top(t).h /\ f.from = Top(t).from
      /\ f.ready = Top(t).ready /\ f.waited = Top(t).waited
      /\ f.pc = (IF q = <<>> THEN "wait" ELSE "sends")
      /\ f.timed = (q = <<>> /\ dmsgq'[t] # <<>>)
  BY <1>2 DEF Frame
<1> HIDE DEF q, d, f
<1>6. /\ loop \in Seq(Frame) /\ Len(loop) = 1 /\ loop # <<>> /\ loop[1] = f
      /\ Shaped(loop) /\ AllAlive(loop) /\ Keeps(s, loop) /\ Rests(s, loop)
  <2>1. f.pc \notin {"push", "run"} /\ ~Sleepy(f)
    BY <1>1, <1>5 DEF Sleepy
  <2> QED
    BY <1>2, <1>5, <2>1, SetTopKept
<1> HIDE DEF loop
<1>7. /\ g \in Seq(Frame) /\ Shaped(g) /\ AllAlive(g) /\ Keeps(s, g) /\ Rests(s, g)
      /\ g # <<>> /\ g[Len(g)].op = "loop" /\ g[Len(g)].pc = "wait" =>
            q = <<>> /\ g[Len(g)] = f
      /\ g # <<>> => g[Len(g)].pc \in {"wait", "run"}
  <2>1. CASE q = <<>>
    BY <1>5, <1>6, <2>1
  <2>2. CASE q # <<>> /\ Head(q) = Quit
    <3>1. g = <<>>
      BY <2>2
    <3>2. Shaped(<<>>) /\ AllAlive(<<>>) /\ Rests(s, <<>>)
      BY DEF Shaped, AllAlive, Rests
    <3>3. Keeps(s, <<>>)
      BY <1>1, <1>2 DEF Keeps
    <3>4. <<>> \in Seq(Frame)
      OBVIOUS
    <3> HIDE DEF g
    <3> QED
      BY <3>1, <3>2, <3>3, <3>4
  <2>3. CASE q # <<>> /\ Head(q) # Quit
    <3> DEFINE h == Head(q)
               c == NewFrame("handle", "run", h)
    <3>1. h \in Handler /\ h \notin dead
      <4>1. h \in Live(t, dead) \cup {Quit}
        BY <1>4, <2>3, HeadTailProperties
      <4> QED
        BY <2>3, <4>1 DEF Live
    <3> HIDE DEF h
    <3>2. /\ c \in Frame /\ c.op = "handle" /\ c.pc = "run" /\ c.h = h /\ ~c.ready
      BY <3>1 DEF NewFrame, Frame
    <3>3. g = Append(loop, c)
      BY <2>3 DEF h
    <3> HIDE DEF c, g
    <3>4. loop[Len(loop)].pc \in {"sends", "run"}
      BY <1>5, <1>6, <2>3
    <3>5. /\ g \in Seq(Frame) /\ Len(g) = 2 /\ g # <<>> /\ g[2] = c
          /\ Shaped(g) /\ AllAlive(g) /\ Keeps(loop, g) /\ Rests(loop, g)
      BY <1>6, <3>1, <3>2, <3>3, <3>4, AppendKept
    <3>6. Keeps(s, g) /\ Rests(s, g)
      BY <1>6, <3>5, KeepsTransitive
    <3> QED
      BY <3>2, <3>5, <3>6
  <2> QED
    BY <2>1, <2>2, <2>3
<1> HIDE DEF g
<1>8. /\ stack' \in [Thread -> Seq(Frame)] /\ stack'[t] = g
      /\ Shapes' /\ CallsAlive' /\ ReadyIsAlive' /\ Distinct'
  BY <1>1, <1>3, <1>7, OwnStep
<1>9. /\ msgq' \in [Thread -> Seq(Handler \cup {Quit})]
      /\ dmsgq' \in [Thread -> Seq(Handler)]
      /\ \A v \in Thread \ {t} : msgq'[v] = msgq[v] /\ dmsgq'[v] = dmsgq[v]
      /\ dmsgq'[t] = d
      /\ msgq'[t] \in Seq(Live(t, dead) \cup {Quit}) /\ (q = <<>> => msgq'[t] = <<>>)
  <2> DEFINE r == IF q = <<>> THEN q ELSE Tail(q)
  <2>1. r \in Seq(Live(t, dead) \cup {Quit})
    BY <1>4, HeadTailProperties
  <2>2. q = <<>> => r = <<>>
    OBVIOUS
  <2>3. msgq' = [msgq EXCEPT ![t] = r]
    BY <1>1
  <2> HIDE DEF r
  <2>4. r \in Seq(Handler \cup {Quit}) /\ d \in Seq(Handler)
    <3>1. /\ Live(t, dead) \cup {Quit} \subseteq Handler \cup {Quit}
          /\ Live(t, dead) \subseteq Handler
      BY DEF Live
    <3> QED
      BY <1>4, <2>1, <3>1, SeqOfMore
  <2>5. /\ msgq \in [Thread -> Seq(Handler \cup {Quit})]
        /\ dmsgq \in [Thread -> Seq(Handler)]
    BY DEF IInv, TypeOK
  <2> QED
    BY <1>1, <2>1, <2>2, <2>3, <2>4, <2>5
<1>10. TypeOK' /\ HasIsSet'
  BY <1>1, <1>8, <1>9 DEF IInv, TypeOK, HasIsSet
<1>11. QueuesAlive'
  <2>1. ASSUME NEW v \in Thread
        PROVE  /\ msgq'[v] \in Seq(Live(v, dead') \cup {Quit})
               /\ dmsgq'[v] \in Seq(Live(v, dead'))
               /\ sends'[v] \in Seq(LiveSends(v, dead'))
    <3>1. /\ msgq[v] \in Seq(Live(v, dead) \cup {Quit})
          /\ dmsgq[v] \in Seq(Live(v, dead))
          /\ sends[v] \in Seq(LiveSends(v, dead))
      BY QueuesLive
    <3> QED
      BY <1>1, <1>4, <1>9, <3>1
  <2> QED
    BY <2>1, QueuesLiveNext
<1>12. SendIsSeen' /\ PostIsSeen' /\ ReplyIsSeen'
  <2>1. PastSends(t) /\ ~At(t, "serve", "wake") /\ ~At(t, "send", "wake")
    BY <1>1 DEF At, PastSends
  <2>2. At(t, "loop", "wait")' => msgq'[t] = <<>> /\ (dmsgq'[t] # <<>> => Top(t)'.timed)
    <3>1. At(t, "loop", "wait")' => q = <<>> /\ Top(t)' = f
      BY <1>7, <1>8 DEF At, Top
    <3> QED
      BY <1>5, <1>9, <3>1
  <2>3. \A v \in Thread \ {t} : msgq'[v] = msgq[v] /\ dmsgq'[v] = dmsgq[v]
    BY <1>9
  <2> QED
    BY <1>1, <1>3, <1>7, <2>1, <2>2, <2>3, OwnSeen
<1> QED
  BY <1>8, <1>10, <1>11, <1>12 DEF IInv

-----------------------------------------------------------------------------
(* Sends that are told to go on.                                           *)

\* A frame keeps everything but `ready`, which is set when something of ms
\* points to it, and the place where it serves a send.
Freed(ms, v, i) ==
    /\ stack'[v][i].op = stack[v][i].op /\ stack'[v][i].h = stack[v][i].h
    /\ stack'[v][i].from = stack[v][i].from /\ stack'[v][i].depth = stack[v][i].depth
    /\ stack'[v][i].waited = stack[v][i].waited
    /\ stack'[v][i].timed = stack[v][i].timed
    /\ stack'[v][i].ready <=> stack[v][i].ready \/ Pointed(ms, v, i)
    /\ \/ stack'[v][i].pc = stack[v][i].pc
       \/ /\ i = Len(stack[v])
          /\ stack[v][i].op = "serve" /\ stack[v][i].pc = "run"
          /\ stack'[v][i].pc = "wake"

\* The Sends that ms points to go on: each has a wakeup or will have one, and
\* nothing that is left points to them.
LEMMA FreeStep ==
    ASSUME IInv, NEW ms,
           stack' \in [Thread -> Seq(Frame)],
           \A v \in Thread : Len(stack'[v]) = Len(stack[v]),
           \A v \in Thread : \A i \in DOMAIN stack[v] : Freed(ms, v, i),
           \A v \in Thread : \A i \in DOMAIN stack[v] : Pointed(ms, v, i) =>
              /\ stack[v][i].op = "send" /\ stack[v][i].pc # "push"
              /\ awake'[v] \/ Replying(v)',
           sends' \in [Thread -> Seq(SendMessage)],
           \A v \in Thread :
              /\ Injective(sends'[v]) /\ (sends[v] = <<>> => sends'[v] = <<>>)
              /\ \A i \in DOMAIN sends'[v] :
                    /\ \E j \in DOMAIN sends[v] : sends[v][j] = sends'[v][i]
                    /\ ~Pointed(ms, sends'[v][i].from, sends'[v][i].depth)
              /\ \A i \in DOMAIN stack[v] : Serves(stack'[v][i]) =>
                    ~Pointed(ms, stack[v][i].from, stack[v][i].depth),
           \A v \in Thread : \A i \in DOMAIN stack[v] :
              Calls(stack[v][i]) => stack[v][i].h \notin dead',
           msgq' \in [Thread -> Seq(Handler \cup {Quit})],
           dmsgq' \in [Thread -> Seq(Handler)],
           \A v \in Thread : /\ msgq[v] = <<>> => msgq'[v] = <<>>
                             /\ dmsgq[v] = <<>> => dmsgq'[v] = <<>>,
           QueuesAlive', has' = has, stop' = stop,
           awake' \in [Thread -> BOOLEAN], \A v \in Thread : awake[v] => awake'[v],
           gone' \subseteq Thread, dead' \subseteq Handler, calls' \in Nat
    PROVE  IInv'
<1>1. TypeOK'
  BY DEF IInv, TypeOK
<1>2. ASSUME NEW v \in Thread
      PROVE  /\ stack[v] \in Seq(Frame) /\ stack'[v] \in Seq(Frame)
             /\ Len(stack[v]) \in Nat /\ DOMAIN stack[v] = 1 .. Len(stack[v])
             /\ DOMAIN stack'[v] = DOMAIN stack[v]
             /\ (stack'[v] = <<>>) <=> (stack[v] = <<>>)
             /\ stack[v] # <<>> => Len(stack[v]) \in DOMAIN stack[v]
  <2>1. stack[v] \in Seq(Frame) /\ stack'[v] \in Seq(Frame)
        /\ Len(stack'[v]) = Len(stack[v])
    BY DEF IInv, TypeOK
  <2> QED
    BY <2>1
<1>3. Shapes'
  <2> SUFFICES ASSUME NEW v \in Thread PROVE Shaped(stack'[v])
    BY DEF Shapes, Shaped
  <2>0. Len(stack'[v]) = Len(stack[v]) /\ DOMAIN stack'[v] = DOMAIN stack[v]
    BY <1>2
  <2> SUFFICES ASSUME NEW i \in DOMAIN stack[v]
               PROVE  /\ stack'[v][i].op = "loop" <=> i = 1
                      /\ i < Len(stack[v]) => stack'[v][i].pc \in {"sends", "run"}
                      /\ stack'[v][i].op # "loop" => stack'[v][i].h \in Handler
                      /\ stack'[v][i].op = "serve" => stack'[v][i].from \in Thread
                      /\ stack'[v][i].pc = "push" => ~stack'[v][i].ready
                      /\ stack'[v][i].op = "send" => stack'[v][i].pc # "run"
    BY <2>0 DEF Shaped
  <2>1. /\ stack[v][i].op = "loop" <=> i = 1
        /\ i < Len(stack[v]) => stack[v][i].pc \in {"sends", "run"}
        /\ stack[v][i].op # "loop" => stack[v][i].h \in Handler
        /\ stack[v][i].op = "serve" => stack[v][i].from \in Thread
        /\ stack[v][i].pc = "push" => ~stack[v][i].ready
        /\ stack[v][i].op = "send" => stack[v][i].pc # "run"
    BY DEF IInv, Shapes, Shaped
  <2>4. Freed(ms, v, i) /\ i \in 1 .. Len(stack[v]) /\ Len(stack[v]) \in Nat
    BY <1>2
  <2>2. i < Len(stack[v]) => stack'[v][i].pc = stack[v][i].pc
    BY <2>4 DEF Freed
  <2>3. /\ stack'[v][i].pc = "push" => stack[v][i].pc = "push" /\ ~Pointed(ms, v, i)
        /\ stack'[v][i].op = "send" => stack'[v][i].pc = stack[v][i].pc
    BY <2>4 DEF Freed
  <2>5. /\ stack'[v][i].op = stack[v][i].op /\ stack'[v][i].h = stack[v][i].h
        /\ stack'[v][i].from = stack[v][i].from
        /\ ~Pointed(ms, v, i) => (stack'[v][i].ready <=> stack[v][i].ready)
    BY <2>4 DEF Freed
  <2> QED
    BY <2>1, <2>2, <2>3, <2>5
<1>4. CallsAlive'
  <2> SUFFICES ASSUME NEW v \in Thread, NEW i \in DOMAIN stack[v], Calls(stack'[v][i])
               PROVE  stack'[v][i].h \notin dead'
    BY <1>2 DEF CallsAlive, Calls
  <2>1. Freed(ms, v, i)
    OBVIOUS
  <2>2. Calls(stack[v][i])
    BY <2>1 DEF Calls, Freed
  <2> QED
    BY <2>1, <2>2 DEF Freed
<1>5. ASSUME NEW x, x.from \in Thread, Points(stack, x), ~Pointed(ms, x.from, x.depth)
      PROVE  Points(stack', x)
  <2>1. x.depth \in DOMAIN stack[x.from] /\ x.depth \in DOMAIN stack'[x.from]
    BY <1>2, <1>5 DEF Points
  <2>2. Freed(ms, x.from, x.depth)
    BY <1>5, <2>1
  <2> QED
    BY <1>5, <2>1, <2>2 DEF Points, Freed
<1>6. ReadyIsAlive' /\ Distinct'
  <2>1. ASSUME NEW u \in Thread, NEW i \in DOMAIN sends'[u]
        PROVE  Points(stack', sends'[u][i])
    <3>1. PICK j \in DOMAIN sends[u] : sends[u][j] = sends'[u][i]
      OBVIOUS
    <3>2. Points(stack, sends'[u][i]) /\ sends'[u][i].from \in Thread
      BY <3>1, Linked
    <3> QED
      BY <1>5, <3>2
  <2>2. ASSUME NEW u \in Thread, NEW i \in DOMAIN stack'[u], Serves(stack'[u][i])
        PROVE  /\ i \in DOMAIN stack[u] /\ Serves(stack[u][i])
               /\ stack'[u][i].from = stack[u][i].from
               /\ stack'[u][i].depth = stack[u][i].depth
               /\ stack'[u][i].h = stack[u][i].h
               /\ Points(stack', stack'[u][i])
    <3>1. i \in DOMAIN stack[u] /\ Freed(ms, u, i)
      BY <1>2
    <3>2. Serves(stack[u][i])
      BY <2>2, <3>1 DEF Serves, Freed
    <3>3. /\ stack'[u][i].from = stack[u][i].from
          /\ stack'[u][i].depth = stack[u][i].depth
          /\ stack'[u][i].h = stack[u][i].h
      BY <3>1 DEF Freed
    <3>4. Points(stack, stack[u][i]) /\ stack[u][i].from \in Thread
      BY <3>1, <3>2, Linked
    <3>5. Points(stack', stack[u][i])
      BY <1>5, <2>2, <3>1, <3>4
    <3>6. Points(stack', stack'[u][i])
      BY <3>3, <3>5, PointsSame
    <3> QED
      BY <3>1, <3>2, <3>3, <3>6
  <2>3. ReadyIsAlive /\ Distinct
    BY DEF IInv
  <2> QED
    BY <2>1, <2>2, <2>3, LinksKept
<1>7. HasIsSet'
  BY DEF IInv, HasIsSet
<1>8. ASSUME NEW v \in Thread
      PROVE  /\ PastSends(v)' => PastSends(v)
             /\ At(v, "loop", "wait")' => At(v, "loop", "wait")
             /\ stack[v] # <<>> => Freed(ms, v, Len(stack[v]))
             /\ stack[v] # <<>> => Top(v) = stack[v][Len(stack[v])]
             /\ stack[v] # <<>> => Top(v)' = stack'[v][Len(stack[v])]
             /\ At(v, "send", "wake") => At(v, "send", "wake")'
             /\ At(v, "serve", "wake") => At(v, "serve", "wake")'
  <2>1. stack[v] # <<>> => Freed(ms, v, Len(stack[v]))
    BY <1>2
  <2>2. Top(v) = stack[v][Len(stack[v])] /\ Top(v)' = stack'[v][Len(stack[v])]
    BY DEF Top
  <2>3. stack[v] # <<>> => /\ Top(v)'.op = Top(v).op
                           /\ \/ Top(v)'.pc = Top(v).pc
                              \/ Top(v).op = "serve" /\ Top(v).pc = "run"
                                 /\ Top(v)'.pc = "wake"
    BY <2>1, <2>2 DEF Freed
  <2>4. (stack'[v] = <<>>) <=> (stack[v] = <<>>)
    BY <1>2
  <2> QED
    BY <2>1, <2>2, <2>3, <2>4 DEF At, PastSends
<1>9. SendIsSeen'
  <2> SUFFICES ASSUME NEW v \in Thread, PastSends(v)', ~awake'[v], sends'[v] # <<>>
               PROVE  \E u \in Thread : At(u, "send", "wake")' /\ Home[Top(u).h]' = v
    BY DEF SendIsSeen
  <2>1. PICK u \in Thread : At(u, "send", "wake") /\ Home[Top(u).h] = v
    BY <1>8 DEF IInv, SendIsSeen
  <2>2. At(u, "send", "wake")'
    BY <1>8, <2>1
  <2>3. stack[u] # <<>>
    BY <2>1 DEF At
  <2>4. /\ Freed(ms, u, Len(stack[u])) /\ Top(u) = stack[u][Len(stack[u])]
        /\ Top(u)' = stack'[u][Len(stack[u])]
    BY <1>8, <2>3
  <2>5. Top(u)'.h = Top(u).h
    BY <2>4 DEF Freed
  <2> QED
    BY <2>1, <2>2, <2>5
<1>10. PostIsSeen'
  <2> SUFFICES ASSUME NEW v \in Thread, At(v, "loop", "wait")', ~awake'[v]
               PROVE  msgq'[v] = <<>> /\ (dmsgq'[v] # <<>> => Top(v)'.timed)
    BY DEF PostIsSeen
  <2>1. At(v, "loop", "wait") /\ stack[v] # <<>>
    BY <1>8 DEF At
  <2>2. Top(v)'.timed = Top(v).timed
    BY <1>8, <2>1 DEF Freed
  <2>3. msgq[v] = <<>> /\ (dmsgq[v] # <<>> => Top(v).timed)
    BY <2>1 DEF IInv, PostIsSeen
  <2> QED
    BY <2>2, <2>3
<1>11. ReplyIsSeen'
  <2> SUFFICES ASSUME NEW v \in Thread, NEW i \in DOMAIN stack[v], Sleepy(stack'[v][i]),
                      ~awake'[v], ~Took(stack'[v], i)
               PROVE  Replying(v)'
    BY <1>2 DEF ReplyIsSeen, Sleepy, Took
  <2>1. CASE Pointed(ms, v, i)
    BY <2>1
  <2>2. CASE ~Pointed(ms, v, i)
    <3>1. Sleepy(stack[v][i])
      BY <2>2 DEF Sleepy, Freed
    <3>2. ASSUME Took(stack[v], i) PROVE FALSE
      <4>1. PICK j \in DOMAIN stack[v] :
                   j > i /\ stack[v][j].op = "send" /\ stack[v][j].waited
        BY <3>2 DEF Took
      <4>2. Freed(ms, v, j) /\ j \in DOMAIN stack'[v]
        BY <1>2
      <4>3. stack'[v][j].op = "send" /\ stack'[v][j].waited
        BY <4>1, <4>2 DEF Freed
      <4> QED
        BY <4>1, <4>2, <4>3 DEF Took
    <3>3. PICK u \in Thread : At(u, "serve", "wake") /\ Top(u).from = v
      BY <3>1, <3>2 DEF IInv, ReplyIsSeen, Replying
    <3>4. At(u, "serve", "wake")'
      BY <1>8, <3>3
    <3>5. stack[u] # <<>>
      BY <3>3 DEF At
    <3>6. /\ Freed(ms, u, Len(stack[u])) /\ Top(u) = stack[u][Len(stack[u])]
          /\ Top(u)' = stack'[u][Len(stack[u])]
      BY <1>8, <3>5
    <3>7. Top(u)'.from = v
      BY <3>3, <3>6 DEF Freed
    <3> QED
      BY <3>4, <3>7 DEF Replying
  <2> QED
    BY <2>1, <2>2
<1> QED
  BY <1>1, <1>3, <1>4, <1>6, <1>7, <1>9, <1>10, <1>11 DEF IInv

LEMMA ReleaseFreed ==
    ASSUME IInv, NEW ms, NEW r, r = Release(stack, ms)
    PROVE  /\ r \in [Thread -> Seq(Frame)]
           /\ \A v \in Thread :
                 /\ Len(r[v]) = Len(stack[v])
                 /\ \A i \in DOMAIN stack[v] :
                       /\ r[v][i].op = stack[v][i].op /\ r[v][i].h = stack[v][i].h
                       /\ r[v][i].from = stack[v][i].from
                       /\ r[v][i].depth = stack[v][i].depth
                       /\ r[v][i].waited = stack[v][i].waited
                       /\ r[v][i].timed = stack[v][i].timed
                       /\ r[v][i].pc = stack[v][i].pc
                       /\ r[v][i].ready <=> stack[v][i].ready \/ Pointed(ms, v, i)
<1>1. stack \in [Thread -> Seq(Frame)]
  BY DEF IInv, TypeOK
<1>2. /\ r \in [Thread -> Seq(Frame)]
      /\ \A v \in Thread :
            /\ Len(r[v]) = Len(stack[v])
            /\ \A i \in 1 .. Len(stack[v]) :
                  r[v][i] = IF Pointed(ms, v, i)
                            THEN [stack[v][i] EXCEPT !.ready = TRUE]
                            ELSE stack[v][i]
  BY <1>1, ReleaseFacts
<1>3. ASSUME NEW v \in Thread, NEW i \in DOMAIN stack[v]
      PROVE  /\ r[v][i].op = stack[v][i].op /\ r[v][i].h = stack[v][i].h
             /\ r[v][i].from = stack[v][i].from
             /\ r[v][i].depth = stack[v][i].depth
             /\ r[v][i].waited = stack[v][i].waited
             /\ r[v][i].timed = stack[v][i].timed
             /\ r[v][i].pc = stack[v][i].pc
             /\ r[v][i].ready <=> stack[v][i].ready \/ Pointed(ms, v, i)
  <2>1. stack[v][i] \in Frame /\ i \in 1 .. Len(stack[v])
    BY <1>1
  <2>2. r[v][i] = IF Pointed(ms, v, i) THEN [stack[v][i] EXCEPT !.ready = TRUE]
                  ELSE stack[v][i]
    BY <1>2, <2>1
  <2>3. CASE Pointed(ms, v, i)
    <3>1. r[v][i] = [stack[v][i] EXCEPT !.ready = TRUE]
      BY <2>2, <2>3
    <3> QED
      BY <2>1, <2>3, <3>1 DEF Frame
  <2>4. CASE ~Pointed(ms, v, i)
    BY <2>2, <2>4
  <2> QED
    BY <2>3, <2>4
<1> QED
  BY <1>2, <1>3

\* Some of the messages of a send list go, and the Sends they point to go on.
LEMMA ReleaseStep ==
    ASSUME IInv, NEW u \in Thread, NEW ms, ms \subseteq Elements(sends[u]),
           stack' = Release(stack, ms),
           awake' = [t \in Thread |-> awake[t] \/ t \in Senders(ms)],
           NEW r \in Seq(SendMessage), sends' = [sends EXCEPT ![u] = r],
           Injective(r), sends[u] = <<>> => r = <<>>,
           \A i \in DOMAIN r : r[i] \notin ms /\ \E j \in DOMAIN sends[u] : sends[u][j] = r[i],
           \A v \in Thread : \A i \in DOMAIN stack[v] :
              Calls(stack[v][i]) => stack[v][i].h \notin dead',
           msgq' \in [Thread -> Seq(Handler \cup {Quit})],
           dmsgq' \in [Thread -> Seq(Handler)],
           \A v \in Thread : /\ msgq[v] = <<>> => msgq'[v] = <<>>
                             /\ dmsgq[v] = <<>> => dmsgq'[v] = <<>>,
           QueuesAlive', has' = has, stop' = stop,
           gone' \subseteq Thread, dead' \subseteq Handler, calls' \in Nat
    PROVE  IInv'
<1>1. /\ sends \in [Thread -> Seq(SendMessage)] /\ awake \in [Thread -> BOOLEAN]
      /\ stack \in [Thread -> Seq(Frame)]
  BY DEF IInv, TypeOK
<1>2. /\ stack' \in [Thread -> Seq(Frame)]
      /\ \A v \in Thread : Len(stack'[v]) = Len(stack[v])
  BY ReleaseFreed
<1>3. ASSUME NEW v \in Thread, NEW i \in DOMAIN stack[v]
      PROVE  Freed(ms, v, i) /\ stack'[v][i].pc = stack[v][i].pc
             /\ stack'[v][i].op = stack[v][i].op
  BY ReleaseFreed DEF Freed
<1>4. /\ awake' \in [Thread -> BOOLEAN] /\ \A v \in Thread : awake[v] => awake'[v]
      /\ \A v \in Thread : v \in Senders(ms) => awake'[v]
  BY <1>1
<1>5. /\ sends' \in [Thread -> Seq(SendMessage)] /\ sends'[u] = r
      /\ \A v \in Thread \ {u} : sends'[v] = sends[v]
  BY <1>1
<1>6. ASSUME NEW v \in Thread, NEW i \in DOMAIN stack[v], Pointed(ms, v, i)
      PROVE  stack[v][i].op = "send" /\ stack[v][i].pc # "push" /\ awake'[v]
  <2>1. PICK m \in ms : m.from = v /\ m.depth = i
    BY <1>6 DEF Pointed
  <2>2. PICK k \in DOMAIN sends[u] : m = sends[u][k]
    BY <2>1 DEF Elements
  <2>3. Points(stack, m)
    BY <2>2, Linked
  <2>4. v \in Senders(ms)
    BY <2>1 DEF Senders
  <2> QED
    BY <1>4, <2>1, <2>3, <2>4 DEF Points
<1>7. ASSUME NEW v \in Thread, NEW i \in DOMAIN sends'[v]
      PROVE  /\ \E j \in DOMAIN sends[v] : sends[v][j] = sends'[v][i]
             /\ ~Pointed(ms, sends'[v][i].from, sends'[v][i].depth)
  <2>1. PICK j \in DOMAIN sends[v] : sends[v][j] = sends'[v][i]
    BY <1>5
  <2>2. ASSUME Pointed(ms, sends'[v][i].from, sends'[v][i].depth) PROVE FALSE
    <3>1. PICK m \in ms : m.from = sends[v][j].from /\ m.depth = sends[v][j].depth
      BY <2>1, <2>2 DEF Pointed
    <3>2. PICK k \in DOMAIN sends[u] : m = sends[u][k]
      BY <3>1 DEF Elements
    <3>3. Same(sends[v][j], sends[u][k])
      BY <3>1, <3>2 DEF Same
    <3>4. v = u /\ sends[v][j] = sends[u][k]
      BY <3>3 DEF IInv, Distinct
    <3> QED
      BY <1>5, <2>1, <3>1, <3>2, <3>4
  <2> QED
    BY <2>1, <2>2
<1>8. ASSUME NEW v \in Thread, NEW i \in DOMAIN stack[v], Serves(stack'[v][i]),
             Pointed(ms, stack[v][i].from, stack[v][i].depth)
      PROVE  FALSE
  <2>1. Serves(stack[v][i])
    BY <1>3, <1>8 DEF Serves
  <2>2. PICK m \in ms : m.from = stack[v][i].from /\ m.depth = stack[v][i].depth
    BY <1>8 DEF Pointed
  <2>3. PICK k \in DOMAIN sends[u] : m = sends[u][k]
    BY <2>2 DEF Elements
  <2>4. Same(sends[u][k], stack[v][i])
    BY <2>2, <2>3 DEF Same
  <2> QED
    BY <2>1, <2>4 DEF IInv, Distinct
<1>9. \A v \in Thread : Injective(sends'[v]) /\ (sends[v] = <<>> => sends'[v] = <<>>)
  BY <1>5 DEF IInv, Distinct
<1>10. \A v \in Thread :
          /\ Injective(sends'[v]) /\ (sends[v] = <<>> => sends'[v] = <<>>)
          /\ \A i \in DOMAIN sends'[v] :
                /\ \E j \in DOMAIN sends[v] : sends[v][j] = sends'[v][i]
                /\ ~Pointed(ms, sends'[v][i].from, sends'[v][i].depth)
          /\ \A i \in DOMAIN stack[v] : Serves(stack'[v][i]) =>
                ~Pointed(ms, stack[v][i].from, stack[v][i].depth)
  BY <1>7, <1>8, <1>9
<1>11. \A v \in Thread : \A i \in DOMAIN stack[v] : Pointed(ms, v, i) =>
          /\ stack[v][i].op = "send" /\ stack[v][i].pc # "push"
          /\ awake'[v] \/ Replying(v)'
  BY <1>6
<1>12. \A v \in Thread : \A i \in DOMAIN stack[v] : Freed(ms, v, i)
  BY <1>3
<1> QED
  BY <1>2, <1>4, <1>5, <1>10, <1>11, <1>12, FreeStep

\* What is left once the messages for a handler are cleared.
LEMMA RemovedFrom ==
    ASSUME NEW S, NEW q \in Seq(S), NEW M, NEW T, S \ M \subseteq T
    PROVE  Remove(q, M) \in Seq(T)
<1> DEFINE r == Remove(q, M)
<1>1. /\ r \in Seq(S)
      /\ \A i \in DOMAIN r : r[i] \notin M /\ \E j \in DOMAIN q : q[j] = r[i]
  BY RemoveFacts
<1> HIDE DEF r
<1>2. \A i \in 1 .. Len(r) : r[i] \in T
  BY <1>1
<1> QED
  BY <1>1, <1>2, SeqByElements DEF r

LEMMA ClearKeeps ==
    ASSUME IInv, NEW h \in Handler, Clear(Home[h], h), UNCHANGED <<has, stop, gone>>,
           calls' \in Nat, dead' \in {dead, dead \cup {h}},
           \A v \in Thread : \A i \in DOMAIN stack[v] :
              Calls(stack[v][i]) => stack[v][i].h \notin dead'
    PROVE  IInv'
<1> DEFINE u == Home[h]
           ms == SendsTo(u, h)
           r == Remove(sends[u], ms)
           p == Remove(msgq[u], {h})
           d == Remove(dmsgq[u], {h})
<1>1. /\ sends' = [sends EXCEPT ![u] = r] /\ stack' = Release(stack, ms)
      /\ awake' = [t \in Thread |-> awake[t] \/ t \in Senders(ms)]
      /\ msgq' = [msgq EXCEPT ![u] = p] /\ dmsgq' = [dmsgq EXCEPT ![u] = d]
  BY DEF Clear
<1>2. u \in Thread
  BY ThreadsAssumption
<1>3. /\ sends \in [Thread -> Seq(SendMessage)]
      /\ msgq \in [Thread -> Seq(Handler \cup {Quit})]
      /\ dmsgq \in [Thread -> Seq(Handler)]
      /\ gone' \subseteq Thread /\ dead' \subseteq Handler
  BY DEF IInv, TypeOK
<1>4. ms \subseteq Elements(sends[u]) /\ \A m \in Elements(sends[u]) : m \notin ms => m.h # h
  BY DEF SendsTo
<1>5. /\ r \in Seq(SendMessage) /\ Injective(r) /\ (sends[u] = <<>> => r = <<>>)
      /\ \A i \in DOMAIN r : r[i] \notin ms /\ \E j \in DOMAIN sends[u] : sends[u][j] = r[i]
  <2>1. sends[u] \in Seq(SendMessage) /\ Injective(sends[u])
    BY <1>2, <1>3 DEF IInv, Distinct
  <2> HIDE DEF ms
  <2>2. /\ r \in Seq(SendMessage) /\ (sends[u] = <<>> => r = <<>>)
        /\ \A i \in DOMAIN r : r[i] \notin ms /\ \E j \in DOMAIN sends[u] : sends[u][j] = r[i]
    BY <2>1, RemoveFacts
  <2>3. Injective(r)
    <3>1. \A i, j \in DOMAIN sends[u] : sends[u][i] = sends[u][j] => i = j
      BY <2>1 DEF Injective
    <3>2. \A i, j \in DOMAIN r : r[i] = r[j] => i = j
      BY <2>1, <3>1, RemoveFacts
    <3> HIDE DEF r
    <3> QED
      BY <3>2 DEF Injective
  <2> QED
    BY <2>2, <2>3
<1>6. /\ p \in Seq(Handler \cup {Quit}) /\ (msgq[u] = <<>> => p = <<>>)
      /\ d \in Seq(Handler) /\ (dmsgq[u] = <<>> => d = <<>>)
  <2>1. msgq[u] \in Seq(Handler \cup {Quit}) /\ dmsgq[u] \in Seq(Handler)
    BY <1>2, <1>3
  <2> QED
    BY <2>1, RemoveFacts
<1>7. /\ p \in Seq(Live(u, dead') \cup {Quit}) /\ d \in Seq(Live(u, dead'))
      /\ r \in Seq(LiveSends(u, dead'))
  <2>1. /\ msgq[u] \in Seq(Live(u, dead) \cup {Quit})
        /\ dmsgq[u] \in Seq(Live(u, dead))
        /\ sends[u] \in Seq(LiveSends(u, dead))
    BY <1>2, QueuesLive
  <2>2. /\ Live(u, dead) \ {h} \subseteq Live(u, dead')
        /\ (Live(u, dead) \cup {Quit}) \ {h} \subseteq Live(u, dead') \cup {Quit}
    BY DEF Live
  <2>3. p \in Seq(Live(u, dead') \cup {Quit}) /\ d \in Seq(Live(u, dead'))
    BY <2>1, <2>2, RemovedFrom
  <2>4. \A i \in 1 .. Len(r) : r[i] \in LiveSends(u, dead')
    <3> SUFFICES ASSUME NEW i \in 1 .. Len(r) PROVE r[i] \in LiveSends(u, dead')
      OBVIOUS
    <3> HIDE DEF r, ms, u
    <3>1. i \in DOMAIN r
      BY <1>5
    <3>2. PICK j \in DOMAIN sends[u] : sends[u][j] = r[i]
      BY <1>5, <3>1
    <3>3. sends[u][j] \in LiveSends(u, dead)
      BY <2>1, SeqElements
    <3>4. r[i] \in Elements(sends[u])
      BY <3>2 DEF Elements
    <3>5. r[i].h # h
      BY <1>4, <1>5, <3>1, <3>4
    <3> QED
      BY <2>2, <3>2, <3>3, <3>5 DEF LiveSends
  <2>5. r \in Seq(LiveSends(u, dead'))
    BY <1>5, <2>4, SeqByElements
  <2> QED
    BY <2>3, <2>5
<1> HIDE DEF ms, r, p, d, u
<1>8. /\ msgq' \in [Thread -> Seq(Handler \cup {Quit})] /\ msgq'[u] = p
      /\ \A v \in Thread \ {u} : msgq'[v] = msgq[v]
  BY <1>1, <1>2, <1>3, <1>6
<1>9. /\ dmsgq' \in [Thread -> Seq(Handler)] /\ dmsgq'[u] = d
      /\ \A v \in Thread \ {u} : dmsgq'[v] = dmsgq[v]
  BY <1>1, <1>2, <1>3, <1>6
<1>10. /\ sends'[u] = r /\ \A v \in Thread \ {u} : sends'[v] = sends[v]
  BY <1>1, <1>2, <1>3, <1>5
<1>11. QueuesAlive'
  <2>1. ASSUME NEW v \in Thread
        PROVE  /\ msgq'[v] \in Seq(Live(v, dead') \cup {Quit})
               /\ dmsgq'[v] \in Seq(Live(v, dead'))
               /\ sends'[v] \in Seq(LiveSends(v, dead'))
    <3>1. CASE v = u
      BY <1>7, <1>8, <1>9, <1>10, <3>1
    <3>2. CASE v # u
      <4>1. /\ msgq[v] \in Seq(Live(v, dead) \cup {Quit})
            /\ dmsgq[v] \in Seq(Live(v, dead))
            /\ sends[v] \in Seq(LiveSends(v, dead))
        BY QueuesLive
      <4>2. Live(v, dead) = Live(v, dead')
        BY <3>2 DEF Live, u
      <4>3. LiveSends(v, dead) = LiveSends(v, dead')
        BY <4>2 DEF LiveSends
      <4> QED
        BY <1>8, <1>9, <1>10, <3>2, <4>1, <4>2, <4>3
    <3> QED
      BY <3>1, <3>2
  <2> QED
    BY <2>1, QueuesLiveNext
<1>12. \A v \in Thread : /\ msgq[v] = <<>> => msgq'[v] = <<>>
                         /\ dmsgq[v] = <<>> => dmsgq'[v] = <<>>
  BY <1>6, <1>8, <1>9
<1>13. has' = has /\ stop' = stop
  OBVIOUS
<1>14. /\ stack' = Release(stack, ms) /\ sends' = [sends EXCEPT ![u] = r]
       /\ awake' = [t \in Thread |-> awake[t] \/ t \in Senders(ms)]
  BY <1>1
<1>15. /\ gone' \subseteq Thread /\ dead' \subseteq Handler
       /\ msgq' \in [Thread -> Seq(Handler \cup {Quit})]
       /\ dmsgq' \in [Thread -> Seq(Handler)] /\ ms \subseteq Elements(sends[u])
  BY <1>3, <1>4, <1>8, <1>9
<1> QED
  BY <1>2, <1>5, <1>11, <1>12, <1>13, <1>14, <1>15, ReleaseStep

LEMMA CallClearKeeps ==
    ASSUME IInv, NEW t \in Thread, NEW h \in Handler, CallClear(t, h)
    PROVE  IInv'
<1>1. /\ Clear(Home[h], h) /\ calls' = calls + 1 /\ dead' = dead
      /\ UNCHANGED <<has, stop, gone>>
  BY DEF CallClear, Call
<1>2. calls' \in Nat /\ dead' \in {dead, dead \cup {h}}
  BY <1>1 DEF IInv, TypeOK
<1>3. \A v \in Thread : \A i \in DOMAIN stack[v] :
         Calls(stack[v][i]) => stack[v][i].h \notin dead'
  BY <1>1 DEF IInv, CallsAlive
<1> QED
  BY <1>1, <1>2, <1>3, ClearKeeps

LEMMA CallDestroyKeeps ==
    ASSUME IInv, NEW t \in Thread, NEW h \in Handler, CallDestroy(t, h)
    PROVE  IInv'
<1>1. /\ Clear(Home[h], h) /\ calls' = calls + 1 /\ dead' = dead \cup {h}
      /\ ~Running(h) /\ ~Sending(h) /\ UNCHANGED <<has, stop, gone>>
  BY DEF CallDestroy, Call
<1>2. calls' \in Nat /\ dead' \in {dead, dead \cup {h}}
  BY <1>1 DEF IInv, TypeOK
<1>3. \A v \in Thread : \A i \in DOMAIN stack[v] :
         Calls(stack[v][i]) => stack[v][i].h \notin dead'
  BY <1>1 DEF IInv, CallsAlive, Running, Sending, Calls
<1> QED
  BY <1>1, <1>2, <1>3, ClearKeeps

LEMMA DestroyKeeps ==
    ASSUME IInv, NEW u \in Thread, Destroy(u)
    PROVE  IInv'
<1> DEFINE ms == Elements(sends[u])
<1>1. /\ gone' = gone \cup {u} /\ sends' = [sends EXCEPT ![u] = <<>>]
      /\ stack' = Release(stack, ms)
      /\ awake' = [t \in Thread |-> awake[t] \/ t \in Senders(ms)]
      /\ msgq' = [msgq EXCEPT ![u] = <<>>] /\ dmsgq' = [dmsgq EXCEPT ![u] = <<>>]
      /\ has' = has /\ stop' = stop /\ dead' = dead /\ calls' = calls
  BY DEF Destroy
<1>2. /\ sends \in [Thread -> Seq(SendMessage)]
      /\ msgq \in [Thread -> Seq(Handler \cup {Quit})]
      /\ dmsgq \in [Thread -> Seq(Handler)]
      /\ gone' \subseteq Thread /\ dead' \subseteq Handler /\ calls' \in Nat
  BY <1>1 DEF IInv, TypeOK
<1>3. /\ msgq' \in [Thread -> Seq(Handler \cup {Quit})]
      /\ dmsgq' \in [Thread -> Seq(Handler)]
      /\ msgq'[u] = <<>> /\ dmsgq'[u] = <<>> /\ sends'[u] = <<>>
      /\ \A v \in Thread \ {u} : /\ msgq'[v] = msgq[v] /\ dmsgq'[v] = dmsgq[v]
                                 /\ sends'[v] = sends[v]
  BY <1>1, <1>2
<1>4. \A v \in Thread : \A i \in DOMAIN stack[v] :
         Calls(stack[v][i]) => stack[v][i].h \notin dead'
  BY <1>1 DEF IInv, CallsAlive
<1>5. QueuesAlive'
  <2>1. ASSUME NEW v \in Thread
        PROVE  /\ msgq'[v] \in Seq(Live(v, dead') \cup {Quit})
               /\ dmsgq'[v] \in Seq(Live(v, dead'))
               /\ sends'[v] \in Seq(LiveSends(v, dead'))
    <3>1. CASE v = u
      BY <1>3, <3>1
    <3>2. CASE v # u
      BY <1>1, <1>3, <3>2, QueuesLive
    <3> QED
      BY <3>1, <3>2
  <2> QED
    BY <2>1, QueuesLiveNext
<1>6. \A v \in Thread : /\ msgq[v] = <<>> => msgq'[v] = <<>>
                        /\ dmsgq[v] = <<>> => dmsgq'[v] = <<>>
  BY <1>3
<1>7. /\ <<>> \in Seq(SendMessage) /\ Injective(<<>>)
      /\ \A i \in DOMAIN <<>> :
            <<>>[i] \notin ms /\ \E j \in DOMAIN sends[u] : sends[u][j] = <<>>[i]
  BY DEF Injective
<1>8. ms \subseteq Elements(sends[u])
  OBVIOUS
<1> HIDE DEF ms
<1> QED
  BY <1>1, <1>2, <1>3, <1>4, <1>5, <1>6, <1>7, <1>8, ReleaseStep, ZenonT(60)

\* The Send whose message has been handled goes on; its thread is woken up next.
LEMMA SetReadyKeeps ==
    ASSUME IInv, NEW t \in Thread, SetReady(t)
    PROVE  IInv'
<1> DEFINE n == Len(stack[t])
           ms == {Top(t)}
           r == Release(stack, ms)
<1>1. /\ stack[t] # <<>> /\ Top(t).op = "serve" /\ Top(t).pc = "run"
      /\ stack' = [r EXCEPT ![t] = Goto(@, "wake")]
      /\ UNCHANGED <<msgq, dmsgq, sends, has, awake, stop, gone, dead, calls>>
  BY DEF SetReady, At
<1>2. /\ n \in Nat /\ n >= 1 /\ DOMAIN stack[t] = 1 .. n /\ n \in DOMAIN stack[t]
      /\ Top(t) = stack[t][n]
  BY <1>1, AtFacts
<1>3. Serves(stack[t][n])
  BY <1>1, <1>2 DEF Serves
<1>4. /\ r \in [Thread -> Seq(Frame)]
      /\ \A v \in Thread :
            /\ Len(r[v]) = Len(stack[v])
            /\ \A i \in DOMAIN stack[v] :
                  /\ r[v][i].op = stack[v][i].op /\ r[v][i].h = stack[v][i].h
                  /\ r[v][i].from = stack[v][i].from
                  /\ r[v][i].depth = stack[v][i].depth
                  /\ r[v][i].waited = stack[v][i].waited
                  /\ r[v][i].timed = stack[v][i].timed
                  /\ r[v][i].pc = stack[v][i].pc
                  /\ r[v][i].ready <=> stack[v][i].ready \/ Pointed(ms, v, i)
  BY ReleaseFreed
<1>5. /\ Points(stack, stack[t][n]) /\ stack[t][n].from \in Thread
  BY <1>2, <1>3, Linked
<1>6. ms = {stack[t][n]}
  BY <1>2
<1> HIDE DEF ms, r
<1>7. r[t] \in Seq(Frame) /\ Len(r[t]) = n /\ r[t] # <<>>
  BY <1>2, <1>4
<1>8. /\ stack' \in [Thread -> Seq(Frame)]
      /\ \A v \in Thread \ {t} : stack'[v] = r[v]
      /\ Len(stack'[t]) = n /\ stack'[t][n] = [r[t][n] EXCEPT !.pc = "wake"]
      /\ stack'[t] # <<>> /\ \A i \in 1 .. n - 1 : stack'[t][i] = r[t][i]
  <2>1. "wake" \in Pc
    BY DEF Pc
  <2>2. /\ Goto(r[t], "wake") \in Seq(Frame) /\ Len(Goto(r[t], "wake")) = n
        /\ Goto(r[t], "wake") # <<>>
        /\ Goto(r[t], "wake")[n] = [r[t][n] EXCEPT !.pc = "wake"]
        /\ \A i \in 1 .. n - 1 : Goto(r[t], "wake")[i] = r[t][i]
    BY <1>7, <2>1, GotoFacts
  <2>3. /\ stack' \in [Thread -> Seq(Frame)] /\ stack'[t] = Goto(r[t], "wake")
        /\ \A v \in Thread \ {t} : stack'[v] = r[v]
    BY <1>1, <1>4, <2>2
  <2> QED
    BY <2>2, <2>3
<1>9. r[t][n] \in Frame
  BY <1>2, <1>7
<1>10. /\ stack'[t][n].op = "serve" /\ stack'[t][n].pc = "wake"
       /\ stack'[t][n].from = r[t][n].from /\ stack'[t][n].h = r[t][n].h
       /\ stack'[t][n].depth = r[t][n].depth /\ stack'[t][n].waited = r[t][n].waited
       /\ stack'[t][n].timed = r[t][n].timed
       /\ (stack'[t][n].ready <=> r[t][n].ready)
  <2>1. r[t][n].op = "serve"
    BY <1>1, <1>2, <1>4
  <2> QED
    BY <1>8, <1>9, <2>1 DEF Frame
<1>11. \A v \in Thread : Len(stack'[v]) = Len(stack[v])
  BY <1>4, <1>8
<1>12. \A v \in Thread : \A i \in DOMAIN stack[v] :
          (v = t /\ i = n) \/ stack'[v][i] = r[v][i]
  <2> SUFFICES ASSUME NEW v \in Thread, NEW i \in DOMAIN stack[v], ~(v = t /\ i = n)
               PROVE  stack'[v][i] = r[v][i]
    OBVIOUS
  <2>1. CASE v # t
    BY <1>8, <2>1
  <2>2. CASE v = t
    <3>1. i \in 1 .. n - 1
      BY <1>2, <2>2, LastIndex
    <3> QED
      BY <1>8, <2>2, <3>1
  <2> QED
    BY <2>1, <2>2
<1>13. ASSUME NEW v \in Thread, NEW i \in DOMAIN stack[v] PROVE Freed(ms, v, i)
  <2>1. CASE v = t /\ i = n
    BY <1>1, <1>2, <1>4, <1>10, <2>1 DEF Freed
  <2>2. CASE stack'[v][i] = r[v][i]
    BY <1>4, <2>2 DEF Freed
  <2> QED
    BY <1>12, <2>1, <2>2
<1>14. ASSUME NEW v, NEW i, Pointed(ms, v, i)
       PROVE  v = stack[t][n].from /\ i = stack[t][n].depth
  BY <1>6, <1>14 DEF Pointed
<1>15. ASSUME NEW v \in Thread, NEW i \in DOMAIN stack[v], Pointed(ms, v, i)
       PROVE  /\ stack[v][i].op = "send" /\ stack[v][i].pc # "push"
              /\ awake'[v] \/ Replying(v)'
  <2>1. v = stack[t][n].from /\ i = stack[t][n].depth
    BY <1>14, <1>15
  <2>2. stack[v][i].op = "send" /\ stack[v][i].pc # "push"
    BY <1>5, <2>1 DEF Points
  <2>3. Top(t)' = stack'[t][n] /\ r[t][n].from = stack[t][n].from
    BY <1>2, <1>4, <1>8 DEF Top
  <2>4. At(t, "serve", "wake")' /\ Top(t)'.from = v
    BY <1>8, <1>10, <2>1, <2>3 DEF At
  <2> QED
    BY <2>2, <2>4 DEF Replying
<1>16. ASSUME NEW v \in Thread, NEW i \in DOMAIN sends[v],
              Pointed(ms, sends[v][i].from, sends[v][i].depth)
       PROVE  FALSE
  <2>1. Same(sends[v][i], stack[t][n])
    BY <1>14, <1>16 DEF Same
  <2> QED
    BY <1>2, <1>3, <2>1 DEF IInv, Distinct
<1>17. ASSUME NEW v \in Thread, NEW i \in DOMAIN stack[v], Serves(stack'[v][i]),
              Pointed(ms, stack[v][i].from, stack[v][i].depth)
       PROVE  FALSE
  <2>1. ~(v = t /\ i = n)
    BY <1>10, <1>17 DEF Serves
  <2>2. Serves(stack[v][i])
    BY <1>4, <1>12, <1>17, <2>1 DEF Serves
  <2>3. Same(stack[v][i], stack[t][n])
    BY <1>14, <1>17 DEF Same
  <2> QED
    BY <1>2, <1>3, <2>1, <2>2, <2>3 DEF IInv, Distinct
<1>18. \A v \in Thread :
          /\ Injective(sends'[v]) /\ (sends[v] = <<>> => sends'[v] = <<>>)
          /\ \A i \in DOMAIN sends'[v] :
                /\ \E j \in DOMAIN sends[v] : sends[v][j] = sends'[v][i]
                /\ ~Pointed(ms, sends'[v][i].from, sends'[v][i].depth)
          /\ \A i \in DOMAIN stack[v] : Serves(stack'[v][i]) =>
                ~Pointed(ms, stack[v][i].from, stack[v][i].depth)
  <2>1. \A v \in Thread : Injective(sends[v])
    BY DEF IInv, Distinct
  <2> QED
    BY <1>1, <1>16, <1>17, <2>1
<1>19. \A v \in Thread : \A i \in DOMAIN stack[v] :
          Calls(stack[v][i]) => stack[v][i].h \notin dead'
  BY <1>1 DEF IInv, CallsAlive
<1>20. /\ sends' \in [Thread -> Seq(SendMessage)]
       /\ msgq' \in [Thread -> Seq(Handler \cup {Quit})]
       /\ dmsgq' \in [Thread -> Seq(Handler)]
       /\ awake' \in [Thread -> BOOLEAN]
       /\ gone' \subseteq Thread /\ dead' \subseteq Handler /\ calls' \in Nat
       /\ has' = has /\ stop' = stop
  BY <1>1 DEF IInv, TypeOK
<1>21. /\ \A v \in Thread : /\ msgq[v] = <<>> => msgq'[v] = <<>>
                            /\ dmsgq[v] = <<>> => dmsgq'[v] = <<>>
       /\ \A v \in Thread : awake[v] => awake'[v]
  BY <1>1
<1>22. QueuesAlive'
  BY <1>1 DEF IInv, QueuesAlive
<1> QED
  BY <1>8, <1>11, <1>13, <1>15, <1>18, <1>19, <1>20, <1>21, <1>22, FreeStep

-----------------------------------------------------------------------------
(* The theorems.                                                           *)

LEMMA InitHolds == Init => IInv
<1> SUFFICES ASSUME Init PROVE IInv
  OBVIOUS
<1> DEFINE first(t) == CHOOSE h \in Handler : Home[h] = t
           f == NewFrame("loop", "sends", Nobody)
<1>1. \A t \in Thread : first(t) \in Handler /\ Home[first(t)] = t
  BY ThreadsAssumption
<1> HIDE DEF first
<1>2. /\ f \in Frame /\ f.op = "loop" /\ f.pc = "sends"
  BY NewFrameFacts DEF Pc, NewFrame
<1>3. stack = [t \in Thread |-> <<f>>] /\ msgq = [t \in Thread |-> <<first(t)>>]
  BY DEF Init, first
<1> HIDE DEF f
<1>4. TypeOK
  <2>1. stack \in [Thread -> Seq(Frame)]
    BY <1>2, <1>3
  <2>2. msgq \in [Thread -> Seq(Handler \cup {Quit})]
    BY <1>1, <1>3
  <2> QED
    BY <2>1, <2>2 DEF Init, TypeOK
<1>5. \A t \in Thread : /\ DOMAIN stack[t] = {1} /\ Len(stack[t]) = 1 /\ stack[t][1] = f
                        /\ sends[t] = <<>> /\ dmsgq[t] = <<>>
                        /\ DOMAIN msgq[t] = {1} /\ msgq[t][1] = first(t)
                        /\ awake[t]
  BY <1>3 DEF Init
<1>6. Shapes /\ CallsAlive
  BY <1>2, <1>5 DEF Shapes, Shaped, CallsAlive, Calls
<1>7. QueuesAlive
  BY <1>1, <1>5 DEF QueuesAlive, Init
<1>8. ReadyIsAlive /\ HasIsSet
  BY <1>2, <1>5 DEF ReadyIsAlive, HasIsSet
<1>9. Distinct
  BY <1>2, <1>5 DEF Distinct, Injective, Serves
<1>10. SendIsSeen /\ PostIsSeen /\ ReplyIsSeen
  BY <1>5 DEF SendIsSeen, PostIsSeen, ReplyIsSeen
<1> QED
  BY <1>4, <1>6, <1>7, <1>8, <1>9, <1>10 DEF IInv

LEMMA NextKeeps == IInv /\ [Next]_vars => IInv'
<1> SUFFICES ASSUME IInv, [Next]_vars PROVE IInv'
  OBVIOUS
<1>1. CASE UNCHANGED vars
  <2>1. /\ msgq' = msgq /\ dmsgq' = dmsgq /\ sends' = sends /\ has' = has
        /\ awake' = awake /\ stop' = stop /\ stack' = stack /\ gone' = gone
        /\ dead' = dead /\ calls' = calls
    BY <1>1 DEF vars
  <2>2. /\ TypeOK /\ \A v \in Thread : /\ msgq[v] \in Seq(Live(v, dead) \cup {Quit})
                                       /\ dmsgq[v] \in Seq(Live(v, dead))
    BY QueuesLive DEF IInv
  <2> QED
    BY <2>1, <2>2, QueueStep DEF TypeOK
<1>2. CASE Next
  <2>1. PICK t \in Thread : Step(t) \/ CallSomething(t) \/ Destroy(t)
    BY <1>2 DEF Next
  <2>2. CASE Step(t)
    <3>1. CASE \E k \in 0 .. Len(dmsgq[t]) : Pull(t, k)
      BY <3>1, PullKeeps
    <3> QED
      BY <2>2, <3>1, ReceiveSendsKeeps, SetReadyKeeps, ReplyKeeps,
         WaitForMessageKeeps, PushKeeps, WakeUpKeeps, CheckReadyKeeps,
         WaitForReplyKeeps, ReturnKeeps DEF Step
  <2>3. CASE CallSomething(t)
    <3>1. CASE \E u \in Thread : CallQuit(t, u)
      BY <3>1, CallQuitKeeps
    <3>2. ASSUME NEW h \in Handler,
                 \/ CallPost(t, h) \/ CallDelayPost(t, h) \/ CallSend(t, h)
                 \/ CallClear(t, h) \/ CallDestroy(t, h)
          PROVE  IInv'
      BY <3>2, CallPostKeeps, CallDelayPostKeeps, CallSendKeeps, CallClearKeeps,
         CallDestroyKeeps
    <3> QED
      BY <2>3, <3>1, <3>2 DEF CallSomething
  <2>4. CASE Destroy(t)
    BY <2>4, DestroyKeeps
  <2> QED
    BY <2>1, <2>2, <2>3, <2>4
<1> QED
  BY <1>1, <1>2

\* The inductive invariant holds in every reachable state, however many threads
\* send, post, clear, quit and destroy, and however deep their Sends are nested.
THEOREM Invariance == Spec => []IInv
BY InitHolds, NextKeeps, PTL DEF Spec

\* The variables of the threads and their queues hold what they are declared for.
THEOREM TypeCorrect == Spec => []TypeOK
<1>1. IInv => TypeOK
  BY DEF IInv
<1> QED
  BY <1>1, Invariance, PTL

\* Thread::Send keeps the `ready` it has on its stack alive as long as a message
\* in a send list, or the frame of ReceiveSends that handles it, points to it:
\* Clear and the destructor of a thread release exactly those whose message goes.
THEOREM ReadyAlive == Spec => []ReadyIsAlive
<1>1. IInv => ReadyIsAlive
  BY DEF IInv
<1> QED
  BY <1>1, Invariance, PTL

\* No thread sleeps in MessageQueue::Get or Thread::Send through what has been
\* posted, sent or replied to it: no wakeup is lost, however Sends are nested and
\* take each other's wakeups.
THEOREM NoLostWakeup == Spec => []SleepIsJustified
<1>1. IInv => SleepIsJustified
  <2> SUFFICES ASSUME IInv, NEW t \in Thread,
                      At(t, "loop", "wait") \/ At(t, "send", "wait"), ~awake[t]
               PROVE  /\ At(t, "loop", "wait") =>
                            msgq[t] = <<>> /\ (dmsgq[t] # <<>> => Top(t).timed)
                      /\ At(t, "send", "wait") /\ Top(t).ready => Replying(t)
                      /\ sends[t] # <<>> =>
                            \E u \in Thread : /\ At(u, "send", "wake")
                                              /\ Home[Top(u).h] = t
    BY DEF SleepIsJustified, Replying
  <2>1. At(t, "loop", "wait") => msgq[t] = <<>> /\ (dmsgq[t] # <<>> => Top(t).timed)
    BY DEF IInv, PostIsSeen
  <2>2. sends[t] # <<>> =>
            \E u \in Thread : At(u, "send", "wake") /\ Home[Top(u).h] = t
    BY DEF IInv, SendIsSeen, PastSends
  <2>3. ASSUME At(t, "send", "wait"), Top(t).ready PROVE Replying(t)
    <3>1. /\ Len(stack[t]) \in Nat /\ Len(stack[t]) >= 1
          /\ DOMAIN stack[t] = 1 .. Len(stack[t]) /\ Top(t) = stack[t][Len(stack[t])]
      BY <2>3, AtFacts DEF At
    <3>2. Sleepy(stack[t][Len(stack[t])])
      BY <2>3, <3>1 DEF Sleepy, At
    <3>3. ~Took(stack[t], Len(stack[t]))
      BY <3>1 DEF Took
    <3> QED
      BY <3>1, <3>2, <3>3 DEF IInv, ReplyIsSeen
  <2> QED
    BY <2>1, <2>2, <2>3
<1> QED
  BY <1>1, Invariance, PTL

\* OnMessage is never called on a handler that has been destroyed: what was
\* posted, delayed or sent to it goes when its destructor calls Clear.
THEOREM DeadNotCalled == Spec => []DeadIsNotCalled
<1>1. IInv => DeadIsNotCalled
  BY DEF IInv, CallsAlive, Calls, DeadIsNotCalled, Running
<1> QED
  BY <1>1, Invariance, PTL
=============================================================================
