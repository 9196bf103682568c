----------------------------- MODULE MCThreads -----------------------------
(* Threads for small instances. *)
EXTENDS Threads, TLC

CONSTANTS a, b, x, y, z

ThreeHomes == x :> a @@ y :> b @@ z :> b
=============================================================================
