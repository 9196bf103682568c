--------------------------- MODULE MCMediaChannel ---------------------------
(* MediaChannel for small instances. *)
EXTENDS MediaChannel

OneSuite == {"AES_80"}
TwoSuites == {"AES_80", "AES_32"}
=============================================================================
