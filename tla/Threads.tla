------------------------------ MODULE Threads ------------------------------
(***************************************************************************)
(* Threads with their message queues (talk/base/thread.cc and              *)
(* messagequeue.cc).  A handler lives on one thread (Home) and is called   *)
(* there for what any thread posts or sends to it.  What a handler does    *)
(* when it is called is not fixed: it posts, sends, clears, destroys       *)
(* another handler of its thread, asks a thread to quit, or returns.       *)
(*                                                                         *)
(* A thread is its stack of frames.  A step is a critical section, or what *)
(* lies between two of them.  Time is left out: delayed messages are kept  *)
(* in the order of their trigger times, and a prefix of them is due        *)
(* whenever the thread looks.                                              *)
(***************************************************************************)
EXTENDS Queues

CONSTANTS
    Thread,      \* the threads
    Handler,     \* the message handlers
    Home,        \* handler -> the thread it is called on
    Quit,        \* the message MQID_QUIT
    Nobody,      \* no thread, or no handler
    MaxCalls     \* calls all handlers may make

ASSUME ThreadsAssumption ==
    /\ Home \in [Handler -> Thread]
    /\ \A t \in Thread : \E h \in Handler : Home[h] = t
    /\ Quit \notin Handler
    /\ Nobody \notin Handler \cup Thread \cup {Quit}
    /\ MaxCalls \in Nat

VARIABLES
    msgq,      \* thread -> posted messages
    dmsgq,     \* thread -> delayed messages, the soonest first
    sends,     \* thread -> sendlist_: who waits for which handler
    has,       \* thread -> has_sends_
    awake,     \* thread -> its socket server has an unread WakeUp
    stop,      \* thread -> fStop_
    stack,     \* thread -> its frames; <<>>: Run has returned
    gone,      \* threads that are destroyed
    dead,      \* handlers that are destroyed
    calls      \* calls made so far

vars == <<msgq, dmsgq, sends, has, awake, stop, stack, gone, dead, calls>>

-----------------------------------------------------------------------------
(* Frames.                                                                 *)

\* loop: Thread::ProcessMessages and Get; handle: OnMessage of h; send:
\* Thread::Send to handler h; serve: a message of ReceiveSends for the send
\* frame at `depth` of thread `from`.  timed: the Wait of Get ends at the time
\* of a delayed message.
Frame ==
    [op : {"loop", "handle", "send", "serve"},
     pc : {"push", "wake", "check", "sends", "pull", "wait", "run"},
     h : Handler \cup {Nobody}, from : Thread \cup {Nobody}, depth : Nat,
     ready : BOOLEAN, waited : BOOLEAN, timed : BOOLEAN]

NewFrame(op, pc, h) ==
    [op |-> op, pc |-> pc, h |-> h, from |-> Nobody, depth |-> 0,
     ready |-> FALSE, waited |-> FALSE, timed |-> FALSE]

SendMessage == [from : Thread, depth : Nat, h : Handler]

Top(t) == stack[t][Len(stack[t])]
At(t, op, pc) ==
    stack[t] # <<>> /\ Top(t).op = op /\ Top(t).pc = pc

Pop(s) == SubSeq(s, 1, Len(s) - 1)
Goto(s, pc) == [s EXCEPT ![Len(s)].pc = pc]

Running(h) == \E t \in Thread : \E i \in DOMAIN stack[t] :
                 stack[t][i].op = "handle" /\ stack[t][i].h = h

-----------------------------------------------------------------------------
(* MessageQueue and Thread.                                                *)

\* A bug: the delayed message comes without a WakeUp.
DelayPostSilently(u, h, i) ==
    /\ dmsgq' = IF stop[u] THEN dmsgq
                ELSE [dmsgq EXCEPT ![u] =
                         SubSeq(@, 1, i) \o <<h>> \o SubSeq(@, i + 1, Len(@))]
    /\ UNCHANGED <<msgq, stop, awake>>

\* Post, also of MQID_QUIT, after which nothing more is taken.
Post(u, m) ==
    /\ msgq' = IF stop[u] THEN msgq ELSE [msgq EXCEPT ![u] = Append(@, m)]
    /\ stop' = [stop EXCEPT ![u] = @ \/ m = Quit]
    /\ awake' = [awake EXCEPT ![u] = @ \/ ~stop[u]]
    /\ UNCHANGED dmsgq

\* DoDelayPost: the message's time comes after that of the first i delayed.
DelayPost(u, h, i) ==
    /\ dmsgq' = IF stop[u] THEN dmsgq
                ELSE [dmsgq EXCEPT ![u] =
                         SubSeq(@, 1, i) \o <<h>> \o SubSeq(@, i + 1, Len(@))]
    /\ awake' = [awake EXCEPT ![u] = @ \/ ~stop[u]]
    /\ UNCHANGED <<msgq, stop>>

\* The threads whose send is among these messages, and the stacks once they
\* have been told that it is done.
Senders(ms) == {m.from : m \in ms}
Release(s, ms) ==
    [t \in Thread |-> [i \in DOMAIN s[t] |->
        IF \E m \in ms : m.from = t /\ m.depth = i
        THEN [s[t][i] EXCEPT !.ready = TRUE] ELSE s[t][i]]]

\* The sent messages for a handler.
SendsTo(u, h) == {m \in Elements(sends[u]) : m.h = h}

\* A bug: who waits goes on, but the sent message stays in the list.
ClearKeepsSends(u, h) ==
    LET ms == SendsTo(u, h)
    IN  /\ stack' = Release(stack, ms)
        /\ awake' = [t \in Thread |-> awake[t] \/ t \in Senders(ms)]
        /\ msgq' = [msgq EXCEPT ![u] = Remove(@, {h})]
        /\ dmsgq' = [dmsgq EXCEPT ![u] = Remove(@, {h})]
        /\ UNCHANGED sends


\* A bug: delayed messages stay.
ClearKeepsDelayed(u, h) ==
    LET ms == SendsTo(u, h)
    IN  /\ sends' = [sends EXCEPT ![u] = Remove(@, ms)]
        /\ stack' = Release(stack, ms)
        /\ awake' = [t \in Thread |-> awake[t] \/ t \in Senders(ms)]
        /\ msgq' = [msgq EXCEPT ![u] = Remove(@, {h})]
        /\ UNCHANGED dmsgq

\* Thread::Clear: posted and sent messages of a handler go, and those who
\* wait for the sent ones go on.
Clear(u, h) ==
    LET ms == SendsTo(u, h)
    IN  /\ sends' = [sends EXCEPT ![u] = Remove(@, ms)]
        /\ stack' = Release(stack, ms)
        /\ awake' = [t \in Thread |-> awake[t] \/ t \in Senders(ms)]
        /\ msgq' = [msgq EXCEPT ![u] = Remove(@, {h})]
        /\ dmsgq' = [dmsgq EXCEPT ![u] = Remove(@, {h})]

\* The rest of ReceiveSends, from a critical section in which t has stack s:
\* the next sent message is handled, or the frame goes on at pc.
Drain(t, s, pc) ==
    IF sends[t] = <<>>
    THEN /\ has' = [has EXCEPT ![t] = FALSE]
         /\ stack' = [s EXCEPT ![t] = Goto(@, pc)]
         /\ UNCHANGED sends
    ELSE LET m == Head(sends[t])
             serve == [NewFrame("serve", "run", m.h) EXCEPT
                          !.from = m.from, !.depth = m.depth]
         IN  /\ sends' = [sends EXCEPT ![t] = Tail(@)]
             /\ stack' = [s EXCEPT ![t] =
                             @ \o <<serve, NewFrame("handle", "run", m.h)>>]
             /\ UNCHANGED has

\* Where the caller of ReceiveSends goes on.
After(f) == IF f.op = "loop" THEN "pull" ELSE "wait"

\* ReceiveSends of the loop, or of a Send that waits.
ReceiveSends(t) ==
    /\ At(t, "loop", "sends") \/ At(t, "send", "sends")
    /\ IF has[t] THEN Drain(t, stack, After(Top(t)))
       ELSE /\ stack' = [stack EXCEPT ![t] = Goto(@, After(Top(t)))]
            /\ UNCHANGED <<sends, has>>
    /\ UNCHANGED <<msgq, dmsgq, awake, stop, gone, dead, calls>>

\* The handler of a sent message has returned: its sender, which looks at
\* `ready` without the lock, may go on ...
SetReady(t) ==
    /\ At(t, "serve", "run")
    /\ stack' = [Release(stack, {Top(t)}) EXCEPT ![t] = Goto(@, "wake")]
    /\ UNCHANGED <<msgq, dmsgq, sends, has, awake, stop, gone, dead, calls>>

\* ... and is then woken up.
Reply(t) ==
    LET s == [stack EXCEPT ![t] = Pop(@)]
    IN  /\ At(t, "serve", "wake")
        /\ awake' = [awake EXCEPT ![Top(t).from] = TRUE]
        /\ Drain(t, s, After(s[t][Len(s[t])]))
        /\ UNCHANGED <<msgq, dmsgq, stop, gone, dead, calls>>

\* Get: k delayed messages are due, and the first message of the queue is
\* dispatched, unless it is MQID_QUIT.
Pull(t, k) ==
    LET q == msgq[t] \o SubSeq(dmsgq[t], 1, k)
        loop == [stack[t] EXCEPT
                    ![Len(stack[t])].pc = IF q = <<>> THEN "wait" ELSE "sends",
                    ![Len(stack[t])].timed = q = <<>> /\ dmsgq'[t] # <<>>]
    IN  /\ At(t, "loop", "pull")
        /\ dmsgq' = [dmsgq EXCEPT ![t] = SubSeq(@, k + 1, Len(@))]
        /\ msgq' = [msgq EXCEPT ![t] = IF q = <<>> THEN q ELSE Tail(q)]
        /\ stack' = [stack EXCEPT ![t] =
              IF q = <<>> THEN loop
              ELSE IF Head(q) = Quit THEN <<>>
              ELSE Append(loop, NewFrame("handle", "run", Head(q)))]
        /\ UNCHANGED <<sends, has, awake, stop, gone, dead, calls>>

\* Wait of Get returns on a WakeUp, or at the time of the delayed message that
\* was the first when it began.
WaitForMessage(t) ==
    /\ At(t, "loop", "wait")
    /\ awake[t] \/ Top(t).timed
    /\ awake' = [awake EXCEPT ![t] = FALSE]
    /\ stack' = [stack EXCEPT ![t][Len(stack[t])].pc = "sends",
                              ![t][Len(stack[t])].timed = FALSE]
    /\ UNCHANGED <<msgq, dmsgq, sends, has, stop, gone, dead, calls>>

\* Send pushes its message and then wakes the thread up.
Push(t) ==
    LET f == Top(t)
        u == Home[f.h]
        m == [from |-> t, depth |-> Len(stack[t]), h |-> f.h]
    IN  /\ At(t, "send", "push")
        /\ sends' = [sends EXCEPT ![u] = Append(@, m)]
        /\ has' = [has EXCEPT ![u] = TRUE]
        /\ stack' = [stack EXCEPT ![t] = Goto(@, "wake")]
        /\ UNCHANGED <<msgq, dmsgq, awake, stop, gone, dead, calls>>

WakeUp(t) ==
    /\ At(t, "send", "wake")
    /\ awake' = [awake EXCEPT ![Home[Top(t).h]] = TRUE]
    /\ stack' = [stack EXCEPT ![t] = Goto(@, "check")]
    /\ UNCHANGED <<msgq, dmsgq, sends, has, stop, gone, dead, calls>>

\* A bug: a wakeup that was meant for something else is not given back.
CheckReadyOnly(t) ==
    /\ At(t, "send", "check")
    /\ stack' = [stack EXCEPT ![t] =
                    IF Top(t).ready THEN Pop(@) ELSE Goto(@, "sends")]
    /\ UNCHANGED <<msgq, dmsgq, sends, has, awake, stop, gone, dead, calls>>

\* Send returns when it is ready, and gives back a wakeup it may have consumed.
CheckReady(t) ==
    /\ At(t, "send", "check")
    /\ stack' = [stack EXCEPT ![t] =
                    IF Top(t).ready THEN Pop(@) ELSE Goto(@, "sends")]
    /\ awake' = [awake EXCEPT ![t] = @ \/ (Top(t).ready /\ Top(t).waited)]
    /\ UNCHANGED <<msgq, dmsgq, sends, has, stop, gone, dead, calls>>

WaitForReply(t) ==
    /\ At(t, "send", "wait")
    /\ awake[t]
    /\ awake' = [awake EXCEPT ![t] = FALSE]
    /\ stack' = [stack EXCEPT ![t][Len(stack[t])].pc = "check",
                              ![t][Len(stack[t])].waited = TRUE]
    /\ UNCHANGED <<msgq, dmsgq, sends, has, stop, gone, dead, calls>>

-----------------------------------------------------------------------------
(* What a handler does.                                                    *)

Call(t) == At(t, "handle", "run") /\ calls < MaxCalls /\ calls' = calls + 1

\* Nobody keeps a reference to a destroyed handler or thread.
Alive(h) == h \notin dead /\ Home[h] \notin gone

CallPost(t, h) ==
    /\ Call(t) /\ Alive(h)
    /\ Post(Home[h], h)
    /\ UNCHANGED <<sends, has, stack, gone, dead>>

CallDelayPost(t, h) ==
    /\ Call(t) /\ Alive(h)
    /\ \E i \in 0 .. Len(dmsgq[Home[h]]) : DelayPost(Home[h], h, i)
    /\ UNCHANGED <<sends, has, stack, gone, dead>>

\* Send to a thread that is stopping does nothing, and to the thread itself is
\* a call.
CallSend(t, h) ==
    /\ Call(t) /\ Alive(h)
    /\ stack' = [stack EXCEPT ![t] =
                    IF stop[Home[h]] THEN @
                    ELSE IF Home[h] = t
                    THEN Append(@, NewFrame("handle", "run", h))
                    ELSE Append(@, NewFrame("send", "push", h))]
    /\ UNCHANGED <<msgq, dmsgq, sends, has, awake, stop, gone, dead>>

CallClear(t, h) ==
    /\ Call(t) /\ Alive(h)
    /\ Clear(Home[h], h)
    /\ UNCHANGED <<has, stop, gone, dead>>

\* A handler is destroyed on its own thread, when it is not running and nobody
\* is about to send to it; its destructor clears its messages.
Sending(h) == \E t \in Thread : \E i \in DOMAIN stack[t] :
                 stack[t][i].op = "send" /\ stack[t][i].pc = "push"
                 /\ stack[t][i].h = h

CallDestroy(t, h) ==
    /\ Call(t) /\ Alive(h)
    /\ Home[h] = t /\ ~Running(h) /\ ~Sending(h)
    /\ Clear(t, h)
    /\ dead' = dead \cup {h}
    /\ UNCHANGED <<has, stop, gone>>

CallQuit(t, u) ==
    /\ Call(t) /\ u \notin gone
    /\ Post(u, Quit)
    /\ UNCHANGED <<sends, has, stack, gone, dead>>

Return(t) ==
    /\ At(t, "handle", "run")
    /\ stack' = [stack EXCEPT ![t] = Pop(@)]
    /\ UNCHANGED <<msgq, dmsgq, sends, has, awake, stop, gone, dead, calls>>

\* The destructor of a thread that has run to its end.  Its owner sees to it
\* that no Send to it is just beginning; those that wait are released.
Destroy(u) ==
    LET ms == Elements(sends[u])
    IN  /\ stack[u] = <<>> /\ u \notin gone
        /\ \A t \in Thread : \A i \in DOMAIN stack[t] :
              stack[t][i].op = "send" /\ stack[t][i].pc \in {"push", "wake"} =>
                  Home[stack[t][i].h] # u
        /\ gone' = gone \cup {u}
        /\ sends' = [sends EXCEPT ![u] = <<>>]
        /\ stack' = Release(stack, ms)
        /\ awake' = [t \in Thread |-> awake[t] \/ t \in Senders(ms)]
        /\ msgq' = [msgq EXCEPT ![u] = <<>>]
        /\ dmsgq' = [dmsgq EXCEPT ![u] = <<>>]
        /\ UNCHANGED <<has, stop, dead, calls>>

-----------------------------------------------------------------------------
\* Every thread has a message for one of its handlers to begin with; as the
\* handlers of a thread are alike, it does not matter for which.
Init ==
    /\ msgq = [t \in Thread |-> <<CHOOSE h \in Handler : Home[h] = t>>]
    /\ dmsgq = [t \in Thread |-> <<>>]
    /\ sends = [t \in Thread |-> <<>>]
    /\ has = [t \in Thread |-> FALSE]
    /\ awake = [t \in Thread |-> TRUE]
    /\ stop = [t \in Thread |-> FALSE]
    /\ stack = [t \in Thread |-> <<NewFrame("loop", "sends", Nobody)>>]
    /\ gone = {} /\ dead = {} /\ calls = 0

Step(t) ==
    \/ ReceiveSends(t) \/ SetReady(t) \/ Reply(t)
    \/ \E k \in 0 .. Len(dmsgq[t]) : Pull(t, k)
    \/ WaitForMessage(t)
    \/ Push(t) \/ WakeUp(t) \/ CheckReady(t) \/ WaitForReply(t)
    \/ Return(t)

CallSomething(t) ==
    \/ \E h \in Handler :
          \/ CallPost(t, h) \/ CallDelayPost(t, h) \/ CallSend(t, h)
          \/ CallClear(t, h) \/ CallDestroy(t, h)
    \/ \E u \in Thread : CallQuit(t, u)

Next == \E t \in Thread : Step(t) \/ CallSomething(t) \/ Destroy(t)

Spec == Init /\ [][Next]_vars

\* The operating system runs every thread, the owner of a thread that has ended
\* destroys it, and time passes: a thread that keeps looking at its delayed
\* messages finds one due.
Fairness ==
    \A t \in Thread :
        /\ WF_vars(Step(t))
        /\ WF_vars(Destroy(t))
        /\ SF_vars(\E k \in 1 .. Len(dmsgq[t]) : Pull(t, k))

FairSpec == Spec /\ Fairness

-----------------------------------------------------------------------------
(* Properties.                                                             *)

\* Every variable holds what the code's declarations allow it to hold.
TypeOK ==
    /\ msgq \in [Thread -> Seq(Handler \cup {Quit})]
    /\ dmsgq \in [Thread -> Seq(Handler)]
    /\ sends \in [Thread -> Seq(SendMessage)]
    /\ has \in [Thread -> BOOLEAN]
    /\ awake \in [Thread -> BOOLEAN]
    /\ stop \in [Thread -> BOOLEAN]
    /\ stack \in [Thread -> Seq(Frame)]
    /\ gone \subseteq Thread
    /\ dead \subseteq Handler
    /\ calls \in Nat

\* The frame of Send that a sent message points back to.
Waits(m) ==
    /\ m.depth \in DOMAIN stack[m.from]
    /\ LET f == stack[m.from][m.depth]
       IN  f.op = "send" /\ f.pc # "push" /\ ~f.ready /\ f.h = m.h

\* `ready` is a local variable of Send: as long as a message points to it, in
\* the send list or while it is handled, that Send has not returned.
ReadyIsAlive ==
    \A u \in Thread :
        /\ \A i \in DOMAIN sends[u] : Waits(sends[u][i])
        /\ \A i \in DOMAIN stack[u] :
              stack[u][i].op = "serve" /\ stack[u][i].pc = "run" =>
                  Waits(stack[u][i])

\* A thread that sleeps without a wakeup has nothing to do: no message or
\* reply it waits for has come, but for one whose sender is just about to wake
\* it up.
SleepIsJustified ==
    \A t \in Thread :
        At(t, "loop", "wait") \/ At(t, "send", "wait") =>
            \/ awake[t]
            \/ /\ At(t, "loop", "wait") =>
                     msgq[t] = <<>> /\ (dmsgq[t] # <<>> => Top(t).timed)
               /\ At(t, "send", "wait") /\ Top(t).ready =>
                     \E u \in Thread : At(u, "serve", "wake") /\ Top(u).from = t
               /\ sends[t] # <<>> =>
                     \E u \in Thread : /\ At(u, "send", "wake")
                                       /\ Home[Top(u).h] = t

\* A destroyed handler is not called.
DeadIsNotCalled == \A h \in dead : ~Running(h)


\* What is posted to a thread, delayed or not, is dispatched or cleared, unless
\* it quits first.
QueuesAreServed ==
    \A t \in Thread :
        msgq[t] # <<>> \/ dmsgq[t] # <<>> ~>
            (msgq[t] = <<>> /\ dmsgq[t] = <<>>) \/ stack[t] = <<>>
=============================================================================
