---------------------------- MODULE MCClientStream ----------------------------
(* The sessions of the runs: mode=raw, and agg_100ms with a filter.        *)
EXTENDS ClientStream

RawSession == [raw |-> TRUE, filtered |-> FALSE]
AggFiltered == [raw |-> FALSE, filtered |-> TRUE]

JustRaw  == {RawSession}
BothModes == {RawSession, AggFiltered}

(* Every event once; one lost and one sent twice; the feed started again.  *)
AllOnce    == <<1, 2, 3>>
HoleTwice  == <<1, 3, 3>>
StartsOver == <<2, 1, 2>>

JustOnce  == {AllOnce}
AnyTopic  == {AllOnce, HoleTwice, StartsOver}
=============================================================================
