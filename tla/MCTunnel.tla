------------------------------ MODULE MCTunnel ------------------------------
(***************************************************************************)
(* Module Tunnel for TLC: it takes no instance beyond its constants.       *)
(***************************************************************************)
EXTENDS Tunnel
=============================================================================
