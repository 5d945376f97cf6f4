------------------------------ MODULE MCLogger ------------------------------
(* Instances of Logger.                                                    *)
EXTENDS Logger
=============================================================================
