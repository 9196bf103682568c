---------------------------- MODULE MCPseudoTcp ----------------------------
(* PseudoTcp with the payload sizes of small instances. *)
EXTENDS PseudoTcp

OneLevel == <<1>>
TwoLevels == <<2, 1>>
=============================================================================
