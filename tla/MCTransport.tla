---------------------------- MODULE MCTransport ----------------------------
(* Transport for small instances. *)
EXTENDS Transport

CONSTANTS rtp, rtcp

OneRtcp == [n \in Content |-> IF n = 1 THEN {rtp, rtcp} ELSE {rtp}]
=============================================================================
