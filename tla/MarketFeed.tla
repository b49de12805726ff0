----------------------------- MODULE MarketFeed -----------------------------
(***************************************************************************)
(* FeedSimulator and the producer through which it writes the topic.       *)
(*                                                                         *)
(* The simulator numbers the events of each symbol from 1 (one             *)
(* itertools.count(1) per symbol, created in __init__), stamps them with   *)
(* the wall clock and hands them to an asynchronous producer.              *)
(*                                                                         *)
(* So nothing orders the events of a symbol in the topic: time.time() may  *)
(* step back between two events, the counters start again with the         *)
(* process, and the producer, which is not idempotent and sends again what *)
(* was not acknowledged, may have an event appended late, twice or never.  *)
(*                                                                         *)
(* The pacing of the loop is left out.                                     *)
(***************************************************************************)
EXTENDS MarketTopic

CONSTANTS
  MaxSending,    \* bound: events the producer has in hand
  MaxFeedRuns    \* bound: runs of the simulator process

ASSUME FeedAssumption == {MaxSending, MaxFeedRuns} \subseteq Nat

VARIABLES
  nextSeq,   \* FeedSimulator._seq: the number next() will return
  sending,   \* what produce() took and the broker has not settled
  feedRun    \* how often the simulator was started

simulatorVars == <<nextSeq, sending, feedRun>>
feedVars      == <<topicVars, simulatorVars>>

FeedTypeOK ==
  /\ TopicTypeOK
  /\ nextSeq \in [Symbol -> Nat \ {0}]
  /\ sending \subseteq Record
  /\ feedRun \in Nat

FeedInit ==
  /\ TopicInit
  /\ nextSeq = [s \in Symbol |-> 1]
  /\ sending = {}
  /\ feedRun = 1
-----------------------------------------------------------------------------
MakeEvent(s, now) == [symbol |-> s, seq |-> nextSeq[s], event_ts |-> now]

(* One event of s: stamped with whatever the clock says, numbered, and     *)
(* left to the producer's own thread.                                      *)
Produce(s) ==
  /\ nextSeq[s] <= MaxSeq
  /\ Cardinality(sending) < MaxSending
  /\ \E now \in Times : sending' = sending \cup {MakeEvent(s, now)}
  /\ nextSeq' = [nextSeq EXCEPT ![s] = @ + 1]
  /\ UNCHANGED <<topicVars, feedRun>>

(* The broker appends an event, in whichever order.  Unless the producer   *)
(* hears of it, the event is sent again.                                   *)
Appended(e) ==
  /\ AppendEvent(e)
  /\ sending' \in {sending, sending \ {e}}
  /\ UNCHANGED <<nextSeq, feedRun>>

(* The producer gives an event up: _delivery_report only logs it, and its  *)
(* number may never reach the topic.                                       *)
DeliveryFailed(e) ==
  /\ sending' = sending \ {e}
  /\ UNCHANGED <<topicVars, nextSeq, feedRun>>

(* The simulator is restarted: what its producer had in hand is gone, and  *)
(* __init__ starts every counter at 1 again.                               *)
FeedRestart ==
  /\ feedRun < MaxFeedRuns
  /\ feedRun' = feedRun + 1
  /\ nextSeq' = [s \in Symbol |-> 1]
  /\ sending' = {}
  /\ UNCHANGED topicVars

FeedNext ==
  \/ \E s \in Symbol : Produce(s)
  \/ \E e \in sending : Appended(e) \/ DeliveryFailed(e)
  \/ FeedRestart

FeedSpec == FeedInit /\ [][FeedNext]_feedVars
=============================================================================
