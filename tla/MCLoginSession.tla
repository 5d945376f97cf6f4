--------------------------- MODULE MCLoginSession ---------------------------
(* Instances of LoginSession.                                              *)
EXTENDS LoginSession
=============================================================================
