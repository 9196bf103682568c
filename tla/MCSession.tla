------------------------------ MODULE MCSession ------------------------------
(* Instances of Session for TLC.                                           *)
EXTENDS Session

NoContents == <<>>
Audio == <<"audio">>
AudioVideo == <<"audio", "video">>
=============================================================================
