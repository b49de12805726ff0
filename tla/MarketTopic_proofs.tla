-------------------------- MODULE MarketTopic_proofs --------------------------
(***************************************************************************)
(* Lemmas about the topic: it only grows, and it stays keyed.              *)
(***************************************************************************)
EXTENDS MarketTopic, TLAPS

(* The partition that an event is appended to.                             *)
LEMMA EventKeyed ==
  ASSUME NEW e \in Record
  PROVE  e.symbol \in Symbol /\ PartitionOf[e.symbol] \in Partition
         /\ e.seq \in Nat /\ e.event_ts \in Nat
PROOF
<1>1. e.symbol \in Symbol /\ e.seq \in 1 .. MaxSeq /\ e.event_ts \in Times
  BY DEF Record
<1>2. PartitionOf[e.symbol] \in Partition
  BY <1>1, TopicAssumption
<1>3. MaxSeq \in Nat /\ Times \subseteq Nat
  BY TopicAssumption
<1>4. \A n \in 1 .. MaxSeq : n \in Nat
  BY <1>3
<1>5. e.event_ts \in Nat
  BY <1>1, <1>3
<1> QED
  BY <1>1, <1>2, <1>4, <1>5

(* The appended record is the last one and the others stay.                *)
LEMMA TopicAppends ==
  ASSUME TopicTypeOK, TopicNext
  PROVE  /\ TopicTypeOK'
         /\ \A p \in Partition : Offsets(p) \subseteq Offsets(p)'
         /\ \A p \in Partition : \A o \in Offsets(p) : RecordAt(p, o)' = RecordAt(p, o)
PROOF
<1>1. ASSUME NEW p \in Partition, NEW r \in Record \cup {Malformed},
             log' = [log EXCEPT ![p] = Append(@, r)]
      PROVE  /\ TopicTypeOK'
             /\ \A q \in Partition : Offsets(q) \subseteq Offsets(q)'
             /\ \A q \in Partition : \A o \in Offsets(q) : RecordAt(q, o)' = RecordAt(q, o)
  BY <1>1 DEF TopicTypeOK, Offsets, RecordAt
<1> QED
  BY <1>1, EventKeyed DEF TopicNext, AppendEvent, AppendMalformed

(* A step of a consumer leaves the topic as it is.                         *)
LEMMA SameTopic ==
  ASSUME UNCHANGED topicVars
  PROVE  /\ TopicTypeOK => TopicTypeOK'
         /\ log' = log
         /\ \A p : Offsets(p)' = Offsets(p)
         /\ \A p, o : RecordAt(p, o)' = RecordAt(p, o) /\ (IsEvent(p, o)' <=> IsEvent(p, o))
  BY DEF topicVars, TopicTypeOK, Offsets, RecordAt, IsEvent

(* A record of the topic after a step is an old one, or the one appended,  *)
(* of which an event lies in its symbol's partition.                       *)
LEMMA NewRecord ==
  ASSUME TopicTypeOK, TopicNext, NEW p \in Partition, NEW o \in Offsets(p)'
  PROVE  \/ o \in Offsets(p) /\ RecordAt(p, o)' = RecordAt(p, o)
         \/ /\ o = Len(log[p])
            /\ IsEvent(p, o)' => PartitionOf[RecordAt(p, o)'.symbol] = p
PROOF
<1>1. ASSUME NEW q \in Partition, NEW r \in Record \cup {Malformed},
             log' = [log EXCEPT ![q] = Append(@, r)]
      PROVE  \/ o \in Offsets(p) /\ RecordAt(p, o)' = RecordAt(p, o)
             \/ p = q /\ o = Len(log[p]) /\ RecordAt(p, o)' = r
  <2>1. CASE p # q
    BY <1>1, <2>1 DEF Offsets, RecordAt, TopicTypeOK
  <2>2. CASE p = q
    <3>1. log[p] \in Seq(Record \cup {Malformed}) /\ log'[p] = Append(log[p], r)
      BY <1>1, <2>2 DEF TopicTypeOK
    <3>2. o \in 0 .. Len(log[p])
      BY <3>1 DEF Offsets
    <3>3. CASE o = Len(log[p])
      BY <2>2, <3>1, <3>3 DEF RecordAt
    <3>4. CASE o # Len(log[p])
      BY <3>1, <3>2, <3>4 DEF RecordAt, Offsets
    <3> QED
      BY <3>3, <3>4
  <2> QED
    BY <2>1, <2>2
<1>2. ASSUME NEW e \in Record, AppendEvent(e)
      PROVE  \/ o \in Offsets(p) /\ RecordAt(p, o)' = RecordAt(p, o)
             \/ p = PartitionOf[e.symbol] /\ o = Len(log[p]) /\ RecordAt(p, o)' = e
  BY <1>1, <1>2, EventKeyed DEF AppendEvent
<1>3. ASSUME NEW q \in Partition, AppendMalformed(q)
      PROVE  \/ o \in Offsets(p) /\ RecordAt(p, o)' = RecordAt(p, o)
             \/ o = Len(log[p]) /\ ~IsEvent(p, o)'
  BY <1>1, <1>3 DEF AppendMalformed, IsEvent
<1> QED
  BY <1>2, <1>3 DEF TopicNext

(* Kafka's keyed partitioning is kept by every step.                       *)
LEMMA KeyedStep ==
  ASSUME TopicTypeOK, TopicKeyed, TopicNext
  PROVE  TopicKeyed'
PROOF
<1>1. SUFFICES ASSUME NEW p \in Partition, NEW o \in Offsets(p)', IsEvent(p, o)'
               PROVE  PartitionOf[RecordAt(p, o)'.symbol] = p
  BY DEF TopicKeyed
<1>2. CASE o \in Offsets(p) /\ RecordAt(p, o)' = RecordAt(p, o)
  BY <1>1, <1>2 DEF TopicKeyed, IsEvent
<1> QED
  BY <1>1, <1>2, NewRecord

(* What the first records of a partition are does not change any more.     *)
LEMMA EventsStay ==
  ASSUME TopicTypeOK, TopicNext, NEW p \in Partition, NEW n \in 0 .. Len(log[p])
  PROVE  n \in 0 .. Len(log'[p]) /\ Events(p, n)' = Events(p, n)
PROOF
<1>1. TopicTypeOK' /\ Offsets(p) \subseteq Offsets(p)'
      /\ \A o \in Offsets(p) : RecordAt(p, o)' = RecordAt(p, o)
  BY TopicAppends
<1>2. Len(log[p]) \in Nat /\ Len(log'[p]) \in Nat
  BY <1>1 DEF TopicTypeOK
<1>3. \A o \in Nat : o < n => o \in Offsets(p)
  BY <1>2 DEF Offsets
<1>4. \A o \in Offsets(p)' : o \in Nat
  BY DEF Offsets
<1>5. \A o : o \in Offsets(p) /\ o < n /\ IsEvent(p, o) <=> o \in Offsets(p)' /\ o < n /\ IsEvent(p, o)'
  BY <1>1, <1>3, <1>4 DEF IsEvent
<1>6. {i \in Offsets(p) : i < n /\ IsEvent(p, i)}' = {i \in Offsets(p) : i < n /\ IsEvent(p, i)}
  BY <1>5
<1>7. Events(p, n)' = Events(p, n)
  BY <1>1, <1>6 DEF Events
<1>8. n \in 0 .. Len(log'[p])
  BY <1>1, <1>2 DEF Offsets
<1> QED
  BY <1>7, <1>8
=============================================================================
