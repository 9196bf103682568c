------------------------------- MODULE Queues -------------------------------
(***************************************************************************)
(* The message queue of a thread as a sequence: what MessageQueue::Clear   *)
(* of talk/base/messagequeue.cc leaves of it.                              *)
(***************************************************************************)
EXTENDS Naturals, Sequences

\* Every message of M is erased, one after the other; the rest keeps its order.
Remove(q, M) ==
    LET f[i \in 0 .. Len(q)] ==
            IF i = 0 THEN <<>>
            ELSE IF q[i] \in M THEN f[i - 1] ELSE Append(f[i - 1], q[i])
    IN  f[Len(q)]

Elements(q) == {q[i] : i \in DOMAIN q}
=============================================================================
