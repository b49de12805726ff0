----------------------------- MODULE MCFedEngine -----------------------------
(* DistributionEngine consumes what FeedSimulator produces: one symbol     *)
(* whose simulator is restarted once, so that its numbers start again.     *)
EXTENDS DistributionEngine, MarketFeed, TLC

CONSTANTS A, P

JustOne == A :> P

FedInit == FeedInit /\ EngineInit

FedNext ==
  \/ FeedNext /\ UNCHANGED engineVars
  \/ Run /\ UNCHANGED simulatorVars

FedSpec == FedInit /\ [][FedNext]_<<vars, simulatorVars>> /\ Progress
=============================================================================
