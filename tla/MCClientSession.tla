-------------------------- MODULE MCClientSession --------------------------
(* ClientSession with a threshold of half the price and a spread limit.    *)
EXTENDS ClientSession

Half == {[change |-> 50, spread |-> 1]}
=============================================================================
