---------------------------- MODULE MCNodeAgent ----------------------------
(* Small instances of the node agent for TLC. *)
EXTENDS NodeAgent, TLC

CONSTANTS k1, k2, n1, n2

MCNameOf == k1 :> n1 @@ k2 :> n2
=============================================================================
