-------------------------- MODULE MCGatewayChannels --------------------------
(* GatewayChannels with a client of one symbol and a client of two.        *)
EXTENDS GatewayChannels, TLC

CONSTANTS s1, s2, y1, y2

OneAndBoth == s1 :> {y1} @@ s2 :> {y1, y2}
=============================================================================
