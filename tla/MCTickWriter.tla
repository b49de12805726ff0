---------------------------- MODULE MCTickWriter ----------------------------
(* TickWriter on two symbols in a partition each.                          *)
EXTENDS TickWriter, TLC

CONSTANTS A, B, P, Q

OneEach == A :> P @@ B :> Q
=============================================================================
