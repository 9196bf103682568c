------------------------------- MODULE MCIce -------------------------------
(* Ice for small instances. *)
EXTENDS Ice, TLC

CONSTANTS a, b, direct, relay

TwoPriorities == direct :> 2 @@ relay :> 1
OneNetwork == [c \in Path |-> "wifi"]
ToldEach == a :> {direct} @@ b :> {relay}
Tiebreakers == a :> 2 @@ b :> 1
=============================================================================
