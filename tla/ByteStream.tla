----------------------------- MODULE ByteStream -----------------------------
(***************************************************************************)
(* What a PseudoTcp connection promises to the streams on top of it: two   *)
(* reliable, ordered byte streams, one in each direction.  A byte is named *)
(* by its position in the stream of its writer.                            *)
(***************************************************************************)
EXTENDS Naturals, Sequences

CONSTANTS
    Ends,       \* the two endpoints
    Peer(_),    \* the other endpoint
    MaxBytes    \* bytes an endpoint may write

VARIABLES
    written,    \* endpoint -> how many bytes its stream has taken
    read        \* endpoint -> the bytes its stream has handed out

Bytes == 1 .. MaxBytes

Init ==
    /\ written = [e \in Ends |-> 0]
    /\ read = [e \in Ends |-> <<>>]

Write(e, n) ==
    /\ written' = [written EXCEPT ![e] = @ + n]
    /\ UNCHANGED read

\* The next n bytes that the peer has written.
Read(e, n) ==
    LET from == Len(read[e])
    IN  /\ from + n <= written[Peer(e)]
        /\ read' = [read EXCEPT ![e] = @ \o [i \in 1 .. n |-> from + i]]
        /\ UNCHANGED written

Next == \E e \in Ends, n \in Bytes : Write(e, n) \/ Read(e, n)

Spec == Init /\ [][Next]_<<written, read>>
=============================================================================
