---------------------------- MODULE MCEventLoop -----------------------------
(***************************************************************************)
(* Instances of EventLoop.                                                 *)
(***************************************************************************)
EXTENDS EventLoop, TLC

CONSTANTS p1, p2, p3

(* Two peers that talk, and one that only takes a connection.              *)
UnitsOf == (p1 :> 2) @@ (p2 :> 1) @@ (p3 :> 0)
=============================================================================
