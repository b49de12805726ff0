----------------------------- MODULE MarketTopic -----------------------------
(***************************************************************************)
(* The Kafka topic "market-events", as its consumers find it.              *)
(*                                                                         *)
(* The symbol is the key of a record, so that a symbol always lands in one *)
(* partition.  The topic is the append-only sequence log[p]; offsets are   *)
(* Kafka's own, counted from 0.  Nothing orders the events of a symbol:    *)
(* numbers and timestamps may come twice, be missing or go back, for the   *)
(* reasons that MarketFeed has.  A consumer depends on neither.            *)
(*                                                                         *)
(* Prices and sizes are left out.                                          *)
(***************************************************************************)
EXTENDS Naturals, Sequences, FiniteSets

CONSTANTS
  Symbol,        \* the symbols of INITIAL_PRICES
  Partition,     \* the partitions of the topic
  PartitionOf,   \* Kafka's keyed partitioner
  Malformed,     \* a record value that no consumer can parse
  Times,         \* bound: what time.time() may return
  MaxSeq,        \* bound: events numbered per symbol in one run of the feed
  MaxLog,        \* bound: records per partition
  MaxMalformed   \* bound: malformed records per partition

Record == [symbol : Symbol, seq : 1 .. MaxSeq, event_ts : Times]

ASSUME TopicAssumption ==
  /\ PartitionOf \in [Symbol -> Partition]
  /\ Malformed \notin Record
  /\ Times \subseteq Nat
  /\ {MaxSeq, MaxLog, MaxMalformed} \subseteq Nat

VARIABLE log   \* [Partition -> Seq(Record \cup {Malformed})]

topicVars == <<log>>

TopicTypeOK == log \in [Partition -> Seq(Record \cup {Malformed})]

TopicInit == log = [p \in Partition |-> <<>>]
-----------------------------------------------------------------------------
Offsets(p)   == 0 .. Len(log[p]) - 1
RecordAt(p, o) == log[p][o + 1]
IsEvent(p, o)  == RecordAt(p, o) # Malformed

(* The broker appends an event to the partition of its key.                *)
AppendEvent(e) ==
  /\ Len(log[PartitionOf[e.symbol]]) < MaxLog
  /\ log' = [log EXCEPT ![PartitionOf[e.symbol]] = Append(@, e)]

(* Environment: a record that is not a market event reaches the topic.     *)
AppendMalformed(p) ==
  /\ Len(log[p]) < MaxLog
  /\ Cardinality({o \in Offsets(p) : ~IsEvent(p, o)}) < MaxMalformed
  /\ log' = [log EXCEPT ![p] = Append(@, Malformed)]

TopicNext ==
  \/ \E e \in Record : AppendEvent(e)
  \/ \E p \in Partition : AppendMalformed(p)

TopicSpec == TopicInit /\ [][TopicNext]_topicVars
-----------------------------------------------------------------------------
(* Kafka's keyed partitioner: an event lies in its symbol's partition.     *)
TopicKeyed ==
  \A p \in Partition : \A o \in Offsets(p) :
    IsEvent(p, o) => PartitionOf[RecordAt(p, o).symbol] = p

(* The events among the first n records of a partition.                    *)
Events(p, n) == {RecordAt(p, o) : o \in {i \in Offsets(p) : i < n /\ IsEvent(p, i)}}
=============================================================================
