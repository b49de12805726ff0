------------------------- MODULE TickHistory_proofs -------------------------
(***************************************************************************)
(* Proofs about TickHistory, for any requests, parameters, limits and      *)
(* failures, over any topic: an answer has no holes and is not withdrawn.  *)
(***************************************************************************)
EXTENDS TickHistory, TickWriter_proofs

(* Every step of the feed and of the writer lets the topic, the table and  *)
(* the commits grow, and what it appends to the topic comes last.          *)
LEMMA WriterGrows ==
  ASSUME WriterInv, [Next]_vars
  PROVE  /\ table \subseteq table'
         /\ \A p \in Partition : committed[p] <= committed'[p]
         /\ \A p \in Partition : \A o \in Offsets(p) :
              o \in Offsets(p)' /\ RecordAt(p, o)' = RecordAt(p, o)
         /\ \A p \in Partition : \A o \in Offsets(p)' : o \in Offsets(p) \/ o >= Len(log[p])
PROOF
<1>1. table \subseteq table'
  BY DEF Next, Run, vars, writerVars, Feed, Start, EnsureSchema, PollNone, Expire, TryInsert, Stop,
         Exit, Kill, PollEvent, PollMalformed, CommitBatch, CommitInvalid, CommitRaises,
         InsertOk, InsertFails
<1>2. \A p \in Partition : committed[p] <= committed'[p]
  <2>1. committed \in [Partition -> Nat]
    BY DEF WriterInv, WriterTypeOK
  <2> QED
    BY <2>1, CommitStep
<1>3. \A p \in Partition : \A o \in Offsets(p) :
        o \in Offsets(p)' /\ RecordAt(p, o)' = RecordAt(p, o)
  <2>1. TopicTypeOK
    BY DEF WriterInv, WriterTypeOK
  <2>2. CASE TopicNext
    BY <2>1, <2>2, TopicAppends
  <2>3. CASE UNCHANGED topicVars
    BY <2>3, SameTopic
  <2> QED
    BY <2>2, <2>3 DEF Next, Run, vars, Feed, Start, EnsureSchema, PollNone, Expire, TryInsert, Stop,
       Exit, Kill, PollEvent, PollMalformed, CommitBatch, CommitInvalid, CommitRaises,
       InsertOk, InsertFails
<1>4. \A p \in Partition : \A o \in Offsets(p)' : o \in Offsets(p) \/ o >= Len(log[p])
  <2>1. log \in [Partition -> Seq(Record \cup {Malformed})]
    BY DEF WriterInv, WriterTypeOK, TopicTypeOK
  <2>2. \A p \in Partition : Len(log[p]) \in Nat
    BY <2>1
  <2>3. \A p \in Partition : \A o \in Offsets(p)' : o \in Nat
    BY DEF Offsets
  <2> QED
    BY <2>2, <2>3 DEF Offsets
<1> QED
  BY <1>1, <1>2, <1>3, <1>4

(* Answering queries takes no part in the feed and in the writer, so that  *)
(* whatever is proved of those holds here.                                 *)
THEOREM HistoryTakesNoPart == HistorySpec => Spec
PROOF
<1>1. HistoryInit => Init
  BY DEF HistoryInit
<1>2. [HistoryNext]_allVars => [Next]_vars
  BY DEF HistoryNext, allVars
<1> QED
  BY <1>1, <1>2, PTL DEF HistorySpec, Spec
-----------------------------------------------------------------------------
(* What a request may ask.                                                 *)
LEMMA ParamType ==
  ASSUME NEW q \in Param
  PROVE  /\ q.symbol \in Symbol /\ PartitionOf[q.symbol] \in Partition
         /\ ~BadParams(q) => RowLimit(q) \in Nat \ {0} /\ Clamp(RowLimit(q)) \in 1 .. MaxHistoryLimit
PROOF
<1>1. q \in [symbol : Symbol, from : Nat \cup {Absent, NotANumber, NotATime},
             to : Nat \cup {Absent, NotANumber, NotATime},
             limit : Nat \cup {Absent, NotANumber}]
  BY HistoryAssumption
<1>2. q.symbol \in Symbol /\ q.limit \in Nat \cup {Absent, NotANumber}
  BY <1>1
<1>3. PartitionOf[q.symbol] \in Partition
  BY <1>2, TopicAssumption
<1>4. ASSUME ~BadParams(q)
      PROVE  RowLimit(q) \in Nat \ {0} /\ Clamp(RowLimit(q)) \in 1 .. MaxHistoryLimit
  <2>1. q.limit # NotANumber /\ q.limit # 0
    BY <1>4 DEF BadParams
  <2>2. RowLimit(q) \in Nat \ {0}
    BY <1>2, <2>1, HistoryAssumption DEF RowLimit
  <2>3. Clamp(RowLimit(q)) \in 1 .. MaxHistoryLimit
    <3> DEFINE l == RowLimit(q)
    <3>1. l \in Nat \ {0} /\ MaxHistoryLimit \in Nat \ {0}
      BY <2>2, HistoryAssumption
    <3> HIDE DEF l
    <3>2. Clamp(l) \in 1 .. MaxHistoryLimit
      BY <3>1 DEF Clamp
    <3> QED
      BY <3>2 DEF l
  <2> QED
    BY <2>2, <2>3
<1> QED
  BY <1>2, <1>3, <1>4

(* A record of the topic that a query wants.                               *)
LEMMA WantedRecord ==
  ASSUME TopicTypeOK, NEW q, PartitionOf[q.symbol] \in Partition, NEW o \in Wanted(q)
  PROVE  /\ o \in Nat /\ o < Len(log[PartitionOf[q.symbol]])
         /\ TickAt(q, o) \in Record /\ InRange(TickAt(q, o), q)
PROOF
<1> DEFINE p == PartitionOf[q.symbol]
<1>1. log[p] \in Seq(Record \cup {Malformed})
  BY DEF TopicTypeOK
<1>2. Len(log[p]) \in Nat
  BY <1>1
<1>3. /\ o \in Offsets(p) /\ RecordAt(p, o) # Malformed /\ InRange(TickAt(q, o), q)
      /\ TickAt(q, o) = RecordAt(p, o)
  BY DEF Wanted, IsEvent, TickAt
<1> HIDE DEF p
<1>4. o \in Nat /\ o < Len(log[p]) /\ o + 1 \in 1 .. Len(log[p])
  BY <1>2, <1>3 DEF Offsets
<1>5. RecordAt(p, o) \in Record
  BY <1>1, <1>3, <1>4 DEF RecordAt
<1> QED
  BY <1>3, <1>4, <1>5 DEF p

(* The rows that match a query are what it wants of so many first records  *)
(* of its partition.                                                       *)
LEMMA MatchingIsCut ==
  ASSUME StorageInv, NEW q, PartitionOf[q.symbol] \in Partition
  PROVE  \E n \in 0 .. Len(log[PartitionOf[q.symbol]]) :
           /\ Matching(q) = {e \in Events(PartitionOf[q.symbol], n) : InRange(e, q)}
           /\ RowsOf(PartitionOf[q.symbol]) = Events(PartitionOf[q.symbol], n)
PROOF
<1> DEFINE p == PartitionOf[q.symbol]
<1>1. PICK n \in 0 .. Len(log[p]) : RowsOf(p) = Events(p, n)
  BY DEF StorageInv, StoredInOrder
<1>2. \A e : e \in Matching(q) <=> e \in RowsOf(p) /\ InRange(e, q)
  BY DEF Matching, RowsOf, InRange
<1> QED
  BY <1>1, <1>2

(* So each of them lies in the topic.                                      *)
LEMMA RowInTopic ==
  ASSUME StorageInv, NEW q, PartitionOf[q.symbol] \in Partition, NEW e \in Matching(q)
  PROVE  \E o \in Wanted(q) : e = TickAt(q, o)
PROOF
<1> DEFINE p == PartitionOf[q.symbol]
<1>1. PICK n \in 0 .. Len(log[p]) : Matching(q) = {x \in Events(p, n) : InRange(x, q)}
  BY MatchingIsCut
<1>2. e \in Events(p, n) /\ InRange(e, q)
  BY <1>1
<1>3. PICK o \in Offsets(p) : IsEvent(p, o) /\ e = RecordAt(p, o)
  BY <1>2 DEF Events
<1> QED
  BY <1>2, <1>3 DEF Wanted, TickAt

(* In a topic in the order of time, two places hold different events, in   *)
(* the order of ORDER BY.                                                  *)
LEMMA PlacesOrdered ==
  ASSUME TopicTypeOK, NEW q, PartitionOf[q.symbol] \in Partition, InFeedOrder(q.symbol),
         NEW o \in Wanted(q), NEW w \in Wanted(q)
  PROVE  /\ o < w => Before(TickAt(q, o), TickAt(q, w)) /\ ~Before(TickAt(q, w), TickAt(q, o))
         /\ TickAt(q, o) = TickAt(q, w) => o = w
         /\ o \in Nat /\ w \in Nat
PROOF
<1> DEFINE p == PartitionOf[q.symbol]
<1>1. /\ o \in Offsets(p) /\ w \in Offsets(p)
      /\ RecordAt(p, o) # Malformed /\ RecordAt(p, w) # Malformed
      /\ RecordAt(p, o).symbol = q.symbol /\ RecordAt(p, w).symbol = q.symbol
      /\ TickAt(q, o) = RecordAt(p, o) /\ TickAt(q, w) = RecordAt(p, w)
  BY DEF Wanted, InRange, TickAt, IsEvent
<1>2. o \in Nat /\ w \in Nat /\ TickAt(q, o) \in Record /\ TickAt(q, w) \in Record
  BY WantedRecord
<1>3. /\ TickAt(q, o).seq \in Nat /\ TickAt(q, o).event_ts \in Nat
      /\ TickAt(q, w).seq \in Nat /\ TickAt(q, w).event_ts \in Nat
  BY <1>2, EventKeyed
<1>4. o < w => Earlier(TickAt(q, o), TickAt(q, w))
  BY <1>1 DEF InFeedOrder
<1>5. w < o => Earlier(TickAt(q, w), TickAt(q, o))
  BY <1>1 DEF InFeedOrder
<1>6. PICK a, b : a = TickAt(q, o) /\ b = TickAt(q, w)
  OBVIOUS
<1>7. a.seq \in Nat /\ a.event_ts \in Nat /\ b.seq \in Nat /\ b.event_ts \in Nat
  BY <1>3, <1>6
<1>8. /\ Earlier(a, b) => Before(a, b) /\ ~Before(b, a) /\ a # b
      /\ Earlier(b, a) => a # b
  BY <1>7 DEF Earlier, Before
<1>9. a = b => ~(o < w) /\ ~(w < o)
  BY <1>4, <1>5, <1>6, <1>8
<1>10. a = b => o = w
  BY <1>2, <1>9
<1> QED
  BY <1>2, <1>4, <1>6, <1>8, <1>10

(* Then, of what a query wants, the rows are the first.                    *)
LEMMA MatchingIsInitial ==
  ASSUME TopicTypeOK, StorageInv, NEW q, PartitionOf[q.symbol] \in Partition,
         InFeedOrder(q.symbol),
         NEW o \in Wanted(q), NEW w \in Wanted(q), w < o, TickAt(q, o) \in table
  PROVE  TickAt(q, w) \in Matching(q)
PROOF
<1> DEFINE p == PartitionOf[q.symbol]
<1>1. PICK n \in 0 .. Len(log[p]) :
        /\ Matching(q) = {x \in Events(p, n) : InRange(x, q)}
        /\ RowsOf(p) = Events(p, n)
  BY MatchingIsCut
<1>2. InRange(TickAt(q, o), q)
  BY DEF Wanted
<1>3. TickAt(q, o) \in Matching(q)
  BY <1>2 DEF Matching
<1>4. TickAt(q, o) \in Events(p, n)
  BY <1>1, <1>3
<1>5. PICK v \in Offsets(p) : v < n /\ IsEvent(p, v) /\ RecordAt(p, v) = TickAt(q, o)
  BY <1>4 DEF Events
<1>6. v \in Wanted(q) /\ TickAt(q, v) = TickAt(q, o)
  BY <1>2, <1>5 DEF Wanted, TickAt
<1>7. v = o
  BY <1>6, PlacesOrdered
<1>8. o \in Nat /\ w \in Nat /\ n \in Nat
  BY WantedRecord
<1>9. w < n
  BY <1>5, <1>7, <1>8
<1>10. TickAt(q, w) \in Events(p, n)
  BY <1>9 DEF Wanted, TickAt, Events
<1> QED
  BY <1>1, <1>10 DEF Wanted

(* The rows that match a query are finitely many.                          *)
LEMMA MatchingFinite ==
  ASSUME TopicTypeOK, StorageInv, NEW q, PartitionOf[q.symbol] \in Partition
  PROVE  IsFiniteSet(Matching(q)) /\ Matching(q) \subseteq Record
PROOF
<1> DEFINE p == PartitionOf[q.symbol]
           M == Matching(q)
           W == {o \in Wanted(q) : TickAt(q, o) \in M}
           f == [o \in W |-> TickAt(q, o)]
<1>1. log[p] \in Seq(Record \cup {Malformed})
  BY DEF TopicTypeOK
<1>2. Len(log[p]) \in Nat
  BY <1>1
<1>3. W \subseteq 0 .. Len(log[p]) - 1
  BY DEF Wanted, Offsets
<1>4. IsFiniteSet(0 .. Len(log[p]) - 1)
  <2>1. PICK n \in Nat : n = Len(log[p])
    BY <1>2
  <2>2. IsFiniteSet(0 .. n - 1)
    BY FS_Interval
  <2> QED
    BY <2>1, <2>2
<1>5. IsFiniteSet(W)
  BY <1>3, <1>4, FS_Subset
<1>6. f \in Surjection(W, M)
  <2>1. f \in [W -> M]
    OBVIOUS
  <2>2. ASSUME NEW e \in M
        PROVE  \E o \in W : f[o] = e
    BY RowInTopic, <2>2
  <2> HIDE DEF f, W, M
  <2> QED
    BY <2>1, <2>2 DEF Surjection
<1>7. IsFiniteSet(M)
  <2> HIDE DEF f, W, M
  <2> QED
    BY <1>5, <1>6, FS_Surjection
<1>8. ASSUME NEW e \in M
      PROVE  e \in Record
  BY RowInTopic, WantedRecord
<1> QED
  BY <1>7, <1>8

(* ORDER BY returns every row that matches, once and in the order.         *)
LEMMA OrderedRows ==
  ASSUME TopicTypeOK, StorageInv, NEW q, PartitionOf[q.symbol] \in Partition,
         NEW s \in Ordered(Matching(q))
  PROVE  /\ s \in Seq(Record)
         /\ Len(s) = Cardinality(Matching(q))
         /\ DOMAIN s = 1 .. Len(s)
         /\ ToSet(s) = Matching(q)
         /\ \A i, j \in DOMAIN s : s[i] = s[j] => i = j
         /\ \A i, j \in DOMAIN s : i < j => ~Before(s[j], s[i])
         /\ \A i, j \in DOMAIN s : i < j => Earlier(s[i], s[j])
PROOF
<1> DEFINE M == Matching(q)
           n == Cardinality(M)
<1>1. IsFiniteSet(M) /\ M \subseteq Record
  BY MatchingFinite
<1>2. n \in Nat
  BY <1>1, FS_CardinalityType
<1>3. s \in [1 .. n -> M] /\ \A i, j \in 1 .. n : i # j => s[i] # s[j]
  BY DEF Ordered, SetToSeqs
<1>4. DOMAIN s = 1 .. n
  BY <1>3
<1>5. \A i, j \in DOMAIN s : i < j => ~Before(s[j], s[i])
  BY DEF Ordered
<1> HIDE DEF n, M
<1>6. s \in Seq(Record) /\ Len(s) = n
  <2>1. s \in [1 .. n -> Record]
    BY <1>1, <1>3
  <2> QED
    BY <1>2, <2>1
<1>7. s \in Surjection(1 .. n, M)
  <2>1. IsFiniteSet(1 .. n) /\ Cardinality(1 .. n) = IF 1 > n THEN 0 ELSE n - 1 + 1
    BY <1>2, FS_Interval
  <2>2. Cardinality(1 .. n) = n
    BY <1>2, <2>1
  <2>3. s \in Injection(1 .. n, M)
    BY <1>3, <1>4 DEF Injection, IsInjective
  <2> QED
    BY <1>1, <2>1, <2>2, <2>3, FS_Injection DEF n
<1>8. ToSet(s) = M
  BY <1>3, <1>4, <1>7 DEF Surjection, ToSet
<1>9. ASSUME NEW i \in DOMAIN s, NEW j \in DOMAIN s, i < j
      PROVE  Earlier(s[i], s[j])
  <2>1. PICK a, b : a = s[i] /\ b = s[j]
    OBVIOUS
  <2>2. i \in Nat /\ j \in Nat /\ i # j
    BY <1>2, <1>4, <1>9
  <2>3. a \in M /\ b \in M /\ a # b
    BY <1>3, <1>4, <2>1, <2>2
  <2>4. a \in Record /\ b \in Record /\ a.symbol = b.symbol
    BY <1>1, <2>3 DEF M, Matching, InRange
  <2>5. /\ a.seq \in Nat /\ a.event_ts \in Nat /\ b.seq \in Nat /\ b.event_ts \in Nat
    BY <2>4, EventKeyed
  <2>6. ~(a.seq = b.seq /\ a.event_ts = b.event_ts)
    BY <2>3, <2>4 DEF Record
  <2>7. ~Before(b, a)
    BY <1>5, <1>9, <2>1
  <2>8. Earlier(a, b)
    BY <2>5, <2>6, <2>7 DEF Before, Earlier
  <2> QED
    BY <2>1, <2>8
<1> QED
  BY <1>3, <1>4, <1>5, <1>6, <1>8, <1>9 DEF n, M

(* The rows that match lie at ascending places, and skip none.             *)
LEMMA RowPlaces ==
  ASSUME TopicTypeOK, StorageInv, NEW q, PartitionOf[q.symbol] \in Partition,
         InFeedOrder(q.symbol),
         NEW s \in Ordered(Matching(q))
  PROVE  \E at \in [DOMAIN s -> Wanted(q)] :
           /\ \A i \in DOMAIN s : s[i] = TickAt(q, at[i])
           /\ \A i, j \in DOMAIN s : i < j => at[i] < at[j]
           /\ \A i \in DOMAIN s : \A w \in Wanted(q) :
                w < at[i] => \E k \in DOMAIN s : k < i /\ at[k] = w
PROOF
<1> DEFINE at == [i \in DOMAIN s |-> CHOOSE o \in Wanted(q) : s[i] = TickAt(q, o)]
<1>1. /\ s \in Seq(Record) /\ DOMAIN s = 1 .. Len(s)
      /\ \A i, j \in DOMAIN s : s[i] = s[j] => i = j
      /\ \A i, j \in DOMAIN s : i < j => ~Before(s[j], s[i])
  BY OrderedRows
<1>2. ToSet(s) = Matching(q)
  BY OrderedRows
<1>3. ASSUME NEW i \in DOMAIN s
      PROVE  at[i] \in Wanted(q) /\ s[i] = TickAt(q, at[i])
  <2>1. s[i] \in Matching(q)
    BY <1>2 DEF ToSet
  <2>2. \E o \in Wanted(q) : s[i] = TickAt(q, o)
    BY <2>1, RowInTopic
  <2> QED
    BY <2>2
<1>4. at \in [DOMAIN s -> Wanted(q)]
  BY <1>3
<1> HIDE DEF at
<1>5. \A i \in DOMAIN s : at[i] \in Nat
  BY <1>3, PlacesOrdered
<1>6. \A i \in DOMAIN s : i \in Nat
  BY <1>1
<1>7. ASSUME NEW i \in DOMAIN s, NEW j \in DOMAIN s, i < j
      PROVE  at[i] < at[j]
  <2>1. at[i] # at[j]
    BY <1>1, <1>3, <1>6, <1>7
  <2>2. ~(at[j] < at[i])
    BY <1>1, <1>3, <1>7, PlacesOrdered
  <2> QED
    BY <1>5, <2>1, <2>2
<1>8. ASSUME NEW i \in DOMAIN s, NEW w \in Wanted(q), w < at[i]
      PROVE  \E k \in DOMAIN s : k < i /\ at[k] = w
  <2>1. TickAt(q, at[i]) \in table
    BY <1>2, <1>3 DEF ToSet, Matching
  <2>2. TickAt(q, w) \in Matching(q)
    BY <1>3, <1>8, <2>1, MatchingIsInitial
  <2>3. PICK k \in DOMAIN s : s[k] = TickAt(q, w)
    BY <1>2, <2>2 DEF ToSet
  <2>4. at[k] = w
    BY <1>3, <2>3, PlacesOrdered
  <2>5. ~(i < k) /\ i # k
    BY <1>5, <1>7, <1>8, <2>4
  <2> QED
    BY <1>6, <2>4, <2>5
<1> QED
  BY <1>3, <1>4, <1>7, <1>8

(* So the i-th row is the i-th event that the query wants.                 *)
LEMMA RowsAreTopicPrefix ==
  ASSUME TopicTypeOK, StorageInv, NEW q, PartitionOf[q.symbol] \in Partition,
         InFeedOrder(q.symbol),
         NEW s \in Ordered(Matching(q))
  PROVE  IsTopicPrefix(s, q)
PROOF
<1>1. s \in Seq(Record) /\ DOMAIN s = 1 .. Len(s)
  BY OrderedRows
<1>2. PICK at \in [DOMAIN s -> Wanted(q)] :
        /\ \A i \in DOMAIN s : s[i] = TickAt(q, at[i])
        /\ \A i, j \in DOMAIN s : i < j => at[i] < at[j]
        /\ \A i \in DOMAIN s : \A w \in Wanted(q) :
             w < at[i] => \E k \in DOMAIN s : k < i /\ at[k] = w
  BY RowPlaces
<1>3. SUFFICES ASSUME NEW i \in DOMAIN s
               PROVE  Cardinality({w \in Wanted(q) : w < at[i]}) = i - 1
  BY <1>2 DEF IsTopicPrefix
<1> DEFINE S == {w \in Wanted(q) : w < at[i]}
           g == [k \in 1 .. i - 1 |-> at[k]]
<1>4. i \in 1 .. Len(s) /\ i - 1 \in Nat /\ i \in Nat
  BY <1>1, <1>3
<1>5. \A k \in 1 .. i - 1 : k \in DOMAIN s /\ k < i
  BY <1>1, <1>4
<1>6. \A k \in DOMAIN s : at[k] \in Nat
  BY <1>2, PlacesOrdered
<1>7. \A k \in DOMAIN s : k < i => k \in 1 .. i - 1
  BY <1>1, <1>4
<1>8. g \in Injection(1 .. i - 1, S)
  <2>1. g \in [1 .. i - 1 -> S]
    BY <1>2, <1>5
  <2>2. ASSUME NEW a \in 1 .. i - 1, NEW b \in 1 .. i - 1, g[a] = g[b]
        PROVE  a = b
    <3>1. at[a] = at[b] /\ a \in Nat /\ b \in Nat /\ a \in DOMAIN s /\ b \in DOMAIN s
      BY <2>2, <1>5
    <3>2. ~(a < b) /\ ~(b < a)
      BY <1>2, <1>6, <3>1
    <3> QED
      BY <3>1, <3>2
  <2>3. DOMAIN g = 1 .. i - 1
    OBVIOUS
  <2> HIDE DEF g, S
  <2> QED
    BY <2>1, <2>2, <2>3 DEF Injection, IsInjective
<1>9. \A w \in S : \E k \in 1 .. i - 1 : g[k] = w
  BY <1>2, <1>7
<1>10. ExistsBijection(1 .. i - 1, S)
  <2> HIDE DEF g, S
  <2>1. g \in Bijection(1 .. i - 1, S)
    BY <1>8, <1>9 DEF Bijection, Surjection, Injection
  <2> QED
    BY <2>1 DEF ExistsBijection
<1>11. Cardinality(S) = i - 1
  <2> HIDE DEF S
  <2> QED
    BY <1>4, <1>10, FS_CountingElements
<1> QED
  BY <1>11

(* LIMIT keeps the first n rows.                                           *)
LEMMA FirstRows ==
  ASSUME NEW R, NEW s \in Seq(R), NEW n \in Nat
  PROVE  /\ First(s, n) \in Seq(R)
         /\ Len(First(s, n)) <= n /\ Len(First(s, n)) <= Len(s)
         /\ Len(First(s, n)) = n \/ Len(First(s, n)) = Len(s)
         /\ \A i \in 1 .. Len(First(s, n)) : First(s, n)[i] = s[i]
PROOF
<1> DEFINE m == IF Len(s) < n THEN Len(s) ELSE n
<1>1. Len(s) \in Nat
  OBVIOUS
<1>2. m \in 0 .. Len(s) /\ m <= n /\ (m = n \/ m = Len(s))
  BY <1>1
<1>3. First(s, n) = SubSeq(s, 1, m)
  BY DEF First
<1> HIDE DEF m
<1>4. /\ SubSeq(s, 1, m) \in Seq(R) /\ Len(SubSeq(s, 1, m)) = m
      /\ \A i \in 1 .. m : SubSeq(s, 1, m)[i] = s[i]
  BY <1>1, <1>2
<1> QED
  BY <1>1, <1>2, <1>3, <1>4

(* What a query wants before a place is finite, and less than what it      *)
(* wants before a later place.                                             *)
LEMMA WantedBefore ==
  ASSUME TopicTypeOK, StorageInv, NEW q, PartitionOf[q.symbol] \in Partition,
         NEW o \in Wanted(q), NEW w \in Wanted(q),
         Cardinality({v \in Wanted(q) : v < o}) = Cardinality({v \in Wanted(q) : v < w})
  PROVE  o = w
PROOF
<1> DEFINE Below(x) == {v \in Wanted(q) : v < x}
           p == PartitionOf[q.symbol]
<1>1. \A x \in Wanted(q) : x \in Nat
  BY DEF Wanted, Offsets
<1>2. IsFiniteSet(Wanted(q))
  <2>1. log[p] \in Seq(Record \cup {Malformed})
    BY DEF TopicTypeOK
  <2>2. Len(log[p]) \in Nat
    BY <2>1
  <2>3. IsFiniteSet(0 .. Len(log[p]) - 1)
    BY <2>2, FS_Interval
  <2>4. Wanted(q) \subseteq 0 .. Len(log[p]) - 1
    BY DEF Wanted, Offsets
  <2> QED
    BY <2>3, <2>4, FS_Subset
<1>3. ASSUME NEW a \in Wanted(q), NEW b \in Wanted(q), a < b
      PROVE  Cardinality(Below(a)) # Cardinality(Below(b))
  <2>1. Below(a) \subseteq Below(b)
    BY <1>1, <1>3
  <2>2. a \in Below(b) /\ a \notin Below(a)
    BY <1>1, <1>3
  <2>3. Below(b) \subseteq Wanted(q)
    OBVIOUS
  <2> HIDE DEF Below
  <2>4. IsFiniteSet(Below(b))
    BY <1>2, <2>3, FS_Subset
  <2> QED
    BY <2>1, <2>2, <2>4, FS_Subset
<1>4. ~(o < w) /\ ~(w < o)
  BY <1>3
<1> QED
  BY <1>1, <1>4

(* Two prefixes of the topic agree as far as they go, and one repeats no   *)
(* event.                                                                  *)
LEMMA TopicPrefixesAgree ==
  ASSUME TopicTypeOK, StorageInv, NEW q, PartitionOf[q.symbol] \in Partition,
         InFeedOrder(q.symbol),
         NEW a \in Seq(Record), NEW b \in Seq(Record),
         IsTopicPrefix(a, q), IsTopicPrefix(b, q)
  PROVE  /\ \A i \in DOMAIN a \cap DOMAIN b : a[i] = b[i]
         /\ \A i, j \in DOMAIN a : a[i] = a[j] => i = j
         /\ \A i \in DOMAIN a : InRange(a[i], q)
PROOF
<1>1. ASSUME NEW i \in DOMAIN a \cap DOMAIN b
      PROVE  a[i] = b[i]
  <2>1. PICK o \in Wanted(q) :
          a[i] = TickAt(q, o) /\ Cardinality({w \in Wanted(q) : w < o}) = i - 1
    BY DEF IsTopicPrefix
  <2>2. PICK v \in Wanted(q) :
          b[i] = TickAt(q, v) /\ Cardinality({w \in Wanted(q) : w < v}) = i - 1
    BY DEF IsTopicPrefix
  <2>3. o = v
    BY <2>1, <2>2, WantedBefore
  <2> QED
    BY <2>1, <2>2, <2>3
<1>2. ASSUME NEW i \in DOMAIN a, NEW j \in DOMAIN a, a[i] = a[j]
      PROVE  i = j
  <2>1. PICK o \in Wanted(q) :
          a[i] = TickAt(q, o) /\ Cardinality({w \in Wanted(q) : w < o}) = i - 1
    BY DEF IsTopicPrefix
  <2>2. PICK v \in Wanted(q) :
          a[j] = TickAt(q, v) /\ Cardinality({w \in Wanted(q) : w < v}) = j - 1
    BY DEF IsTopicPrefix
  <2>3. o = v
    BY <1>2, <2>1, <2>2, PlacesOrdered
  <2>4. i - 1 = j - 1
    BY <2>1, <2>2, <2>3
  <2>5. i \in Nat /\ j \in Nat
    OBVIOUS
  <2> QED
    BY <2>4, <2>5
<1>3. ASSUME NEW i \in DOMAIN a
      PROVE  InRange(a[i], q)
  <2>1. PICK o \in Wanted(q) : a[i] = TickAt(q, o)
    BY DEF IsTopicPrefix
  <2> QED
    BY <2>1 DEF Wanted
<1> QED
  BY <1>1, <1>2, <1>3

(* What fetch_ticks returns: of the rows that match, as many as the limit  *)
(* allows, the others coming later than all of these.                      *)
LEMMA FetchReturns ==
  ASSUME TopicTypeOK, StorageInv, NEW q \in Param, ~BadParams(q), NEW ticks \in FetchTicks(q)
  PROVE  /\ ticks \in Seq(Record)
         /\ Len(ticks) <= Clamp(RowLimit(q)) /\ Len(ticks) <= MaxHistoryLimit
         /\ ToSet(ticks) \subseteq Matching(q)
         /\ \A i, j \in DOMAIN ticks : i < j => Earlier(ticks[i], ticks[j])
         /\ \A e \in Matching(q) \ ToSet(ticks) :
              Len(ticks) = Clamp(RowLimit(q)) /\ \A g \in ToSet(ticks) : Earlier(g, e)
         /\ Len(ticks) = Clamp(RowLimit(q)) \/ Len(ticks) = Cardinality(Matching(q))
         /\ InFeedOrder(q.symbol) => IsTopicPrefix(ticks, q)
PROOF
<1> DEFINE n == Clamp(RowLimit(q))
<1>1. PartitionOf[q.symbol] \in Partition /\ n \in 1 .. MaxHistoryLimit
  BY ParamType
<1>2. MaxHistoryLimit \in Nat
  BY HistoryAssumption
<1>3. PICK s \in Ordered(Matching(q)) : ticks = First(s, n)
  BY DEF FetchTicks
<1>4. /\ s \in Seq(Record) /\ Len(s) = Cardinality(Matching(q)) /\ DOMAIN s = 1 .. Len(s)
      /\ ToSet(s) = Matching(q)
      /\ \A i, j \in DOMAIN s : i < j => Earlier(s[i], s[j])
  BY <1>1, OrderedRows
<1>5. InFeedOrder(q.symbol) => IsTopicPrefix(s, q)
  BY <1>1, RowsAreTopicPrefix
<1>6. n \in Nat
  BY <1>1
<1> HIDE DEF n
<1>7. /\ ticks \in Seq(Record) /\ Len(ticks) <= n /\ Len(ticks) <= Len(s)
      /\ Len(ticks) = n \/ Len(ticks) = Len(s)
      /\ \A i \in 1 .. Len(ticks) : ticks[i] = s[i]
  BY <1>3, <1>4, <1>6, FirstRows
<1>8. DOMAIN ticks = 1 .. Len(ticks) /\ Len(ticks) \in Nat /\ Len(s) \in Nat
  BY <1>4, <1>7
<1>9. \A i \in DOMAIN ticks : i \in DOMAIN s /\ ticks[i] = s[i]
  BY <1>4, <1>7, <1>8
<1>10. InFeedOrder(q.symbol) => IsTopicPrefix(ticks, q)
  BY <1>5, <1>9 DEF IsTopicPrefix
<1>11. ToSet(ticks) \subseteq Matching(q)
  BY <1>4, <1>9 DEF ToSet
<1>12. ASSUME NEW e \in Matching(q), e \notin ToSet(ticks)
       PROVE  Len(ticks) = n /\ \A g \in ToSet(ticks) : Earlier(g, e)
  <2>1. PICK k \in DOMAIN s : s[k] = e
    BY <1>4, <1>12 DEF ToSet
  <2>2. k \notin DOMAIN ticks
    BY <1>9, <1>12, <2>1 DEF ToSet
  <2>3. k \in Nat /\ k <= Len(s) /\ ~(k <= Len(ticks)) /\ 1 <= k
    BY <1>4, <1>8, <2>2
  <2>4. Len(ticks) = n
    BY <1>7, <1>8, <2>3
  <2>5. ASSUME NEW g \in ToSet(ticks)
        PROVE  Earlier(g, e)
    <3>1. PICK i \in DOMAIN ticks : ticks[i] = g
      BY DEF ToSet
    <3>2. i < k
      BY <1>8, <2>3
    <3> QED
      BY <1>4, <1>9, <2>1, <3>1, <3>2
  <2> QED
    BY <2>4, <2>5
<1>13. Len(ticks) <= MaxHistoryLimit
  BY <1>1, <1>2, <1>6, <1>7, <1>8 DEF n
<1>14. \A i, j \in DOMAIN ticks : i < j => Earlier(ticks[i], ticks[j])
  BY <1>4, <1>9
<1> QED
  BY <1>4, <1>7, <1>10, <1>11, <1>12, <1>13, <1>14 DEF n

(* It has no holes.                                                        *)
LEMMA FetchIsCut ==
  ASSUME TopicTypeOK, StorageInv, NEW q \in Param, ~BadParams(q), NEW ticks \in FetchTicks(q)
  PROVE  IsTopicCut(ticks, q)
PROOF
<1>1. PartitionOf[q.symbol] \in Partition
  BY ParamType
<1>2. PICK n \in 0 .. Len(log[PartitionOf[q.symbol]]) :
        Matching(q) = {e \in Events(PartitionOf[q.symbol], n) : InRange(e, q)}
  BY <1>1, MatchingIsCut
<1>3. /\ ToSet(ticks) \subseteq Matching(q)
      /\ \A i, j \in DOMAIN ticks : i < j => Earlier(ticks[i], ticks[j])
      /\ \A e \in Matching(q) \ ToSet(ticks) :
           Len(ticks) = Clamp(RowLimit(q)) /\ \A g \in ToSet(ticks) : Earlier(g, e)
  BY FetchReturns
<1> QED
  BY <1>2, <1>3 DEF IsTopicCut

(* In a topic in the order of time it continues every earlier answer to    *)
(* the same question.                                                      *)
LEMMA FetchContinues ==
  ASSUME TopicTypeOK, StorageInv, NEW q \in Param, ~BadParams(q), NEW ticks \in FetchTicks(q),
         InFeedOrder(q.symbol),
         NEW old \in Seq(Record), IsTopicPrefix(old, q), ToSet(old) \subseteq table,
         Len(old) <= Clamp(RowLimit(q))
  PROVE  IsPrefix(old, ticks)
PROOF
<1>1. PartitionOf[q.symbol] \in Partition /\ Clamp(RowLimit(q)) \in Nat
  BY ParamType
<1>2. /\ ticks \in Seq(Record) /\ IsTopicPrefix(ticks, q)
      /\ Len(ticks) = Clamp(RowLimit(q)) \/ Len(ticks) = Cardinality(Matching(q))
  BY FetchReturns
<1>3. Len(old) <= Cardinality(Matching(q))
  <2> DEFINE M == Matching(q)
  <2>1. IsFiniteSet(M)
    BY <1>1, MatchingFinite
  <2>2. \A i \in DOMAIN old : old[i] \in M
    BY <1>1, TopicPrefixesAgree DEF Matching, ToSet
  <2>3. \A i, j \in DOMAIN old : old[i] = old[j] => i = j
    BY <1>1, TopicPrefixesAgree
  <2>4. DOMAIN old = 1 .. Len(old) /\ Len(old) \in Nat
    OBVIOUS
  <2> HIDE DEF M
  <2>5. old \in [1 .. Len(old) -> M]
    BY <2>2, <2>4
  <2>6. old \in Injection(1 .. Len(old), M)
    BY <2>3, <2>4, <2>5 DEF Injection, IsInjective
  <2>7. Cardinality(1 .. Len(old)) <= Cardinality(M)
    BY <2>1, <2>6, FS_Injection
  <2>8. Cardinality(1 .. Len(old)) = IF 1 > Len(old) THEN 0 ELSE Len(old) - 1 + 1
    BY <2>4, FS_Interval
  <2>9. Cardinality(1 .. Len(old)) = Len(old)
    BY <2>4, <2>8
  <2> QED
    BY <2>7, <2>9 DEF M
<1>4. Len(old) <= Len(ticks)
  BY <1>2, <1>3
<1>5. \A i \in 1 .. Len(old) : old[i] = ticks[i]
  <2>1. \A i \in 1 .. Len(old) : i \in DOMAIN old \cap DOMAIN ticks
    BY <1>2, <1>4
  <2> QED
    BY <1>1, <1>2, <2>1, TopicPrefixesAgree
<1>6. SubSeq(old, 1, Len(old)) = SubSeq(ticks, 1, Len(old))
  <2> DEFINE n == Len(old)
  <2>1. n \in Nat /\ n <= Len(ticks) /\ \A i \in 1 .. n : old[i] = ticks[i]
    BY <1>4, <1>5
  <2>2. SubSeq(old, 1, n) = [i \in 1 .. n |-> old[i]]
    BY <2>1
  <2>3. SubSeq(ticks, 1, n) = [i \in 1 .. n |-> ticks[i]]
    BY <1>2, <2>1
  <2> QED
    BY <2>1, <2>2, <2>3
<1> QED
  BY <1>4, <1>6 DEF IsPrefix

(* What a step of the feed and of the writer adds to a range comes last.   *)
LEMMA PrefixStands ==
  ASSUME WriterInv, [Next]_vars, NEW q, PartitionOf[q.symbol] \in Partition,
         NEW a, IsTopicPrefix(a, q)
  PROVE  IsTopicPrefix(a, q)'
PROOF
<1> DEFINE p == PartitionOf[q.symbol]
<1>1. /\ \A o \in Offsets(p) : o \in Offsets(p)' /\ RecordAt(p, o)' = RecordAt(p, o)
      /\ \A o \in Offsets(p)' : o \in Offsets(p) \/ o >= Len(log[p])
  BY WriterGrows
<1>2. log \in [Partition -> Seq(Record \cup {Malformed})]
  BY DEF WriterInv, WriterTypeOK, TopicTypeOK
<1>3. Len(log[p]) \in Nat
  BY <1>2
<1>4. \A o \in Offsets(p) : o \in Nat /\ o < Len(log[p])
  BY <1>3 DEF Offsets
<1>5. \A o \in Offsets(p)' : o \in Nat
  BY DEF Offsets
<1>6. \A o \in Wanted(q) : o \in Wanted(q)' /\ TickAt(q, o)' = TickAt(q, o)
  BY <1>1 DEF Wanted, TickAt, IsEvent
<1>7. \A o \in Wanted(q)' : o \in Wanted(q) \/ o >= Len(log[p])
  <2>1. ASSUME NEW o \in Wanted(q)', o \in Offsets(p)
        PROVE  o \in Wanted(q)
    BY <1>1, <2>1 DEF Wanted, TickAt, IsEvent
  <2> QED
    BY <1>1, <2>1 DEF Wanted
<1>8. ASSUME NEW o \in Wanted(q)
      PROVE  {w \in Wanted(q)' : w < o} = {w \in Wanted(q) : w < o}
  <2>1. o \in Nat /\ o < Len(log[p])
    BY <1>4 DEF Wanted
  <2>2. \A w \in Wanted(q)' : w \in Nat
    BY <1>5 DEF Wanted
  <2>3. \A w \in Wanted(q)' : w < o => w \in Wanted(q)
    BY <1>3, <1>7, <2>1, <2>2
  <2>4. \A w \in Wanted(q) : w \in Wanted(q)'
    BY <1>6
  <2> QED
    BY <2>3, <2>4
<1>9. ASSUME NEW i \in DOMAIN a
      PROVE  \E o \in Wanted(q)' :
               a[i] = TickAt(q, o)' /\ Cardinality({w \in Wanted(q)' : w < o}) = i - 1
  <2>1. PICK o \in Wanted(q) :
          a[i] = TickAt(q, o) /\ Cardinality({w \in Wanted(q) : w < o}) = i - 1
    BY DEF IsTopicPrefix
  <2>2. {w \in Wanted(q)' : w < o} = {w \in Wanted(q) : w < o}
    BY <1>8
  <2>3. Cardinality({w \in Wanted(q)' : w < o}) = i - 1
    BY <2>1, <2>2
  <2> QED
    BY <1>6, <2>1, <2>3
<1> QED
  BY <1>9 DEF IsTopicPrefix

(* The same, said of the answer that a request has after the step.         *)
LEMMA PrefixOfAnswer ==
  ASSUME NEW r, NEW q, NEW a, q = query'[r], a = answer'[r].ticks, IsTopicPrefix(a, q)'
  PROVE  IsTopicPrefix(answer[r].ticks, query[r])'
PROOF
<1>1. \A o : TickAt(query[r], o)' = TickAt(q, o)'
  BY DEF TickAt, RecordAt
<1>2. Wanted(query[r])' = Wanted(q)'
  BY DEF Wanted, TickAt, Offsets, IsEvent, RecordAt
<1>3. \A o : {w \in Wanted(query[r])' : w < o} = {w \in Wanted(q)' : w < o}
  BY <1>2
<1> QED
  BY <1>1, <1>2, <1>3 DEF IsTopicPrefix

(* What is appended fills no hole of an answer.                            *)
LEMMA CutStands ==
  ASSUME WriterInv, [Next]_vars, NEW q, PartitionOf[q.symbol] \in Partition,
         NEW a, IsTopicCut(a, q)
  PROVE  IsTopicCut(a, q)'
PROOF
<1> DEFINE p == PartitionOf[q.symbol]
<1>1. /\ \A i, j \in DOMAIN a : i < j => Earlier(a[i], a[j])
      /\ \E n \in 0 .. Len(log[p]) :
           LET want == {e \in Events(p, n) : InRange(e, q)}
               got  == ToSet(a)
           IN  /\ got \subseteq want
               /\ \A e \in want \ got : /\ Len(a) = Clamp(RowLimit(q))
                                       /\ \A g \in got : Earlier(g, e)
  BY DEF IsTopicCut
<1>2. PICK n \in 0 .. Len(log[p]) :
        LET want == {e \in Events(p, n) : InRange(e, q)}
            got  == ToSet(a)
        IN  /\ got \subseteq want
            /\ \A e \in want \ got : /\ Len(a) = Clamp(RowLimit(q))
                                    /\ \A g \in got : Earlier(g, e)
  BY <1>1
<1>3. n \in 0 .. Len(log'[p]) /\ Events(p, n)' = Events(p, n)
  <2>1. TopicTypeOK
    BY DEF WriterInv, WriterTypeOK
  <2>2. CASE TopicNext
    BY <2>1, <2>2, EventsStay
  <2>3. CASE UNCHANGED topicVars
    BY <2>3, SameTopic DEF Events
  <2> QED
    BY <2>2, <2>3 DEF Next, Run, vars, Feed, Start, EnsureSchema, PollNone, Expire, TryInsert,
       Stop, Exit, Kill, PollEvent, PollMalformed, CommitBatch, CommitInvalid, CommitRaises,
       InsertOk, InsertFails
<1> QED
  BY <1>1, <1>2, <1>3 DEF IsTopicCut

(* The same, said of the answer that a request has after the step.         *)
LEMMA CutOfAnswer ==
  ASSUME NEW r, NEW q, NEW a, q = query'[r], a = answer'[r].ticks, IsTopicCut(a, q)'
  PROVE  IsTopicCut(answer[r].ticks, query[r])'
PROOF
<1> DEFINE E(p, n) == {log'[p][o + 1] : o \in {i \in 0 .. Len(log'[p]) - 1 :
                                                i < n /\ log'[p][i + 1] # Malformed}}
           Cut(t, k) ==
             /\ \A i, j \in DOMAIN t : i < j => Earlier(t[i], t[j])
             /\ \E n \in 0 .. Len(log'[PartitionOf[k.symbol]]) :
                  LET want == {e \in E(PartitionOf[k.symbol], n) : InRange(e, k)}
                      got  == ToSet(t)
                  IN  /\ got \subseteq want
                      /\ \A e \in want \ got : /\ Len(t) = Clamp(RowLimit(k))
                                              /\ \A g \in got : Earlier(g, e)
<1>1. Cut(a, q)
  BY DEF IsTopicCut, Events, Offsets, IsEvent, RecordAt
<1>2. Cut(answer'[r].ticks, query'[r])
  <2> HIDE DEF Cut
  <2> QED
    BY <1>1
<1> QED
  BY <1>2 DEF IsTopicCut, Events, Offsets, IsEvent, RecordAt

(* A topic in the order of time was so before.                             *)
LEMMA OrderWas ==
  ASSUME WriterInv, [Next]_vars, NEW y, PartitionOf[y] \in Partition, InFeedOrder(y)'
  PROVE  InFeedOrder(y)
PROOF
<1> DEFINE p == PartitionOf[y]
<1>1. \A o \in Offsets(p) : o \in Offsets(p)' /\ RecordAt(p, o)' = RecordAt(p, o)
  BY WriterGrows
<1>2. SUFFICES ASSUME NEW i \in Offsets(p), NEW j \in Offsets(p), i < j,
                      RecordAt(p, i) # Malformed, RecordAt(p, j) # Malformed,
                      RecordAt(p, i).symbol = y, RecordAt(p, j).symbol = y
               PROVE  Earlier(RecordAt(p, i), RecordAt(p, j))
  BY DEF InFeedOrder
<1>3. /\ i \in Offsets(p)' /\ j \in Offsets(p)'
      /\ RecordAt(p, i)' = RecordAt(p, i) /\ RecordAt(p, j)' = RecordAt(p, j)
  BY <1>1, <1>2
<1>4. Earlier(RecordAt(p, i), RecordAt(p, j))'
  BY <1>2, <1>3 DEF InFeedOrder
<1> QED
  BY <1>3, <1>4 DEF Earlier

(* The step answers nobody anew.                                           *)
NoNewAnswer ==
  \A r \in Request :
    Ok(r)' => Ok(r) /\ answer'[r] = answer[r] /\ query'[r] = query[r] /\ since'[r] = since[r]

(* An answer that is given keeps its promises.                             *)
LEMMA AnswersStand ==
  ASSUME WriterInv, HistoryInv, [Next]_vars, NoNewAnswer
  PROVE  AnswerStored' /\ AnswerIsTopicCut' /\ NeverWithdrawn' /\ OrderedIsPrefix'
          /\ PagesContinue' /\ CommittedIsVisible'
PROOF
<1>1. AnswerStored'
  <2>1. table \subseteq table'
    BY WriterGrows
  <2>2. AnswerStored
    BY DEF HistoryInv
  <2> QED
    BY <2>1, <2>2 DEF NoNewAnswer, AnswerStored
<1>2. ASSUME NEW r \in Request, NEW s \in Request, AskedAgain(r, s)'
      PROVE  /\ AskedAgain(r, s) /\ query'[r] = query[r]
             /\ answer'[r] = answer[r] /\ answer'[s] = answer[s]
  <2>1. Ok(r)' /\ Ok(s)' /\ s \in since'[r].answered /\ query'[r] = query'[s]
    BY <1>2 DEF AskedAgain
  <2>2. /\ Ok(r) /\ answer'[r] = answer[r] /\ query'[r] = query[r] /\ since'[r] = since[r]
        /\ Ok(s) /\ answer'[s] = answer[s] /\ query'[s] = query[s]
    BY <2>1 DEF NoNewAnswer
  <2> QED
    BY <2>1, <2>2 DEF AskedAgain
<1>3. NeverWithdrawn'
  <2>1. NeverWithdrawn
    BY DEF HistoryInv
  <2> QED
    BY <1>2, <2>1 DEF NeverWithdrawn
<1>4. ASSUME NEW r \in Request, Ok(r)'
      PROVE  /\ Ok(r) /\ answer'[r] = answer[r] /\ query'[r] = query[r]
             /\ query[r] \in Param /\ PartitionOf[query[r].symbol] \in Partition
  <2>1. Ok(r) /\ answer'[r] = answer[r] /\ query'[r] = query[r]
    BY <1>4 DEF NoNewAnswer
  <2>2. query[r] \in Param
    BY <2>1 DEF HistoryInv, QueryChecked
  <2> QED
    BY <2>1, <2>2, ParamType
<1>5. AnswerIsTopicCut'
  <2>1. ASSUME NEW r \in Request, Ok(r)'
        PROVE  IsTopicCut(answer[r].ticks, query[r])'
    <3>1. PICK q, a : q = query[r] /\ a = answer[r].ticks
      OBVIOUS
    <3>2. IsTopicCut(a, q) /\ PartitionOf[q.symbol] \in Partition
      BY <1>4, <2>1, <3>1 DEF HistoryInv, AnswerIsTopicCut
    <3>3. IsTopicCut(a, q)'
      BY <3>2, CutStands
    <3>4. q = query'[r] /\ a = answer'[r].ticks
      BY <1>4, <2>1, <3>1
    <3> QED
      BY <3>3, <3>4, CutOfAnswer
  <2> QED
    BY <2>1 DEF AnswerIsTopicCut
<1>6. ASSUME NEW r \in Request, Ok(r)', InFeedOrder(query[r].symbol)'
      PROVE  InFeedOrder(query[r].symbol)
  <2>1. PICK y : y = query[r].symbol
    OBVIOUS
  <2>2. y = query'[r].symbol /\ PartitionOf[y] \in Partition
    BY <1>4, <1>6, <2>1
  <2>3. InFeedOrder(y)'
    BY <1>6, <2>2 DEF InFeedOrder, Offsets, RecordAt
  <2>4. InFeedOrder(y)
    BY <2>2, <2>3, OrderWas
  <2> QED
    BY <2>1, <2>4
<1>7. OrderedIsPrefix'
  <2>1. ASSUME NEW r \in Request, Ok(r)', InFeedOrder(query[r].symbol)'
        PROVE  IsTopicPrefix(answer[r].ticks, query[r])'
    <3>1. PICK q, a : q = query[r] /\ a = answer[r].ticks
      OBVIOUS
    <3>2. IsTopicPrefix(a, q) /\ PartitionOf[q.symbol] \in Partition
      BY <1>4, <1>6, <2>1, <3>1 DEF HistoryInv, OrderedIsPrefix
    <3>3. IsTopicPrefix(a, q)'
      BY <3>2, PrefixStands
    <3>4. q = query'[r] /\ a = answer'[r].ticks
      BY <1>4, <2>1, <3>1
    <3> QED
      BY <3>3, <3>4, PrefixOfAnswer
  <2> QED
    BY <2>1 DEF OrderedIsPrefix
<1>8. PagesContinue'
  <2>1. ASSUME NEW r \in Request, NEW s \in Request, AskedAgain(r, s)',
               InFeedOrder(query[r].symbol)'
        PROVE  IsPrefix(answer[s].ticks, answer[r].ticks)'
    <3>1. Ok(r)'
      BY <2>1 DEF AskedAgain
    <3>2. InFeedOrder(query[r].symbol)
      BY <1>6, <2>1, <3>1
    <3>3. IsPrefix(answer[s].ticks, answer[r].ticks)
      BY <1>2, <2>1, <3>2 DEF HistoryInv, PagesContinue
    <3> QED
      BY <1>2, <2>1, <3>3 DEF IsPrefix
  <2> QED
    BY <2>1 DEF PagesContinue
<1>9. CommittedIsVisible'
  <2> SUFFICES ASSUME NEW r \in Request, Ok(r)', NEW q, q = query[r],
                      NEW o \in Offsets(PartitionOf[q.symbol])',
                      o < since'[r].committed[PartitionOf[q.symbol]],
                      IsEvent(PartitionOf[q.symbol], o)',
                      InRange(RecordAt(PartitionOf[q.symbol], o)', q)
               PROVE  \/ RecordAt(PartitionOf[q.symbol], o)' \in ToSet(answer'[r].ticks)
                      \/ Len(answer'[r].ticks) = Clamp(RowLimit(q))
    BY DEF CommittedIsVisible, NoNewAnswer
  <2> DEFINE p == PartitionOf[q.symbol]
  <2>1. Ok(r) /\ answer'[r] = answer[r] /\ query'[r] = query[r] /\ since'[r] = since[r]
    BY DEF NoNewAnswer
  <2>2. q \in Param
    BY <2>1 DEF HistoryInv, QueryChecked
  <2>3. p \in Partition
    BY <2>2, ParamType
  <2>4. /\ \A k \in Offsets(p) : k \in Offsets(p)' /\ RecordAt(p, k)' = RecordAt(p, k)
        /\ \A k \in Offsets(p)' : k \in Offsets(p) \/ k >= Len(log[p])
    BY <2>3, WriterGrows
  <2>5. since[r].committed[p] <= committed[p]
    BY <2>3 DEF HistoryInv, SinceBehind
  <2>6. committed[p] \in Nat /\ committed[p] <= Len(log[p]) /\ Len(log[p]) \in Nat
    <3>1. log \in [Partition -> Seq(Record \cup {Malformed})] /\ committed \in [Partition -> Nat]
      BY DEF WriterInv, WriterTypeOK, TopicTypeOK
    <3>2. committed[p] <= Len(log[p])
      BY <2>3 DEF WriterInv
    <3> QED
      BY <2>3, <3>1, <3>2
  <2>7. o \in Nat
    BY DEF Offsets
  <2>8. since[r].committed[p] \in Nat
    BY <2>3 DEF HistoryInv, HistoryTypeOK
  <2>9. o \in Offsets(p)
    BY <2>1, <2>4, <2>5, <2>6, <2>7, <2>8
  <2>10. IsEvent(p, o) /\ RecordAt(p, o)' = RecordAt(p, o)
    BY <2>4, <2>9 DEF IsEvent
  <2> QED
    BY <2>1, <2>9, <2>10 DEF HistoryInv, CommittedIsVisible
<1> QED
  BY <1>1, <1>3, <1>5, <1>7, <1>8, <1>9

-----------------------------------------------------------------------------
(* After the step a request is done when it has a response, and only r's   *)
(* is new.                                                                 *)
Responded(r) ==
  \A x \in Request :
    /\ step'[x] = "done" <=> answer'[x].status \in Status
    /\ Len(answer'[x].ticks) <= MaxHistoryLimit
    /\ answer'[x].status = 200 <=> answer'[x].ticks # <<>>
    /\ x # r => step'[x] = step[x] /\ answer'[x] = answer[x]

(* A response is one of those that get_history gives.                      *)
LEMMA FinishTypes ==
  ASSUME HistoryTypeOK, NEW r \in Request, NEW status \in Status, NEW ticks \in Seq(Record),
         Len(ticks) <= MaxHistoryLimit, status = 200 <=> ticks # <<>>, Finish(r, status, ticks)
  PROVE  /\ step' \in [Request -> {"idle", "connect", "fetch", "done"}]
         /\ answer' \in [Request -> [status : {0} \cup Status, ticks : Seq(Record)]]
         /\ Responded(r)
         /\ answer'[r] = [status |-> status, ticks |-> ticks] /\ step'[r] = "done"
PROOF
<1> DEFINE given == [status |-> status, ticks |-> ticks]
<1>1. /\ step \in [Request -> {"idle", "connect", "fetch", "done"}]
      /\ answer \in [Request -> [status : {0} \cup Status, ticks : Seq(Record)]]
  BY DEF HistoryTypeOK
<1>2. given \in [status : {0} \cup Status, ticks : Seq(Record)]
  OBVIOUS
<1>3. step' = [step EXCEPT ![r] = "done"] /\ answer' = [answer EXCEPT ![r] = given]
  BY DEF Finish
<1>4. given.status = status /\ given.ticks = ticks
  OBVIOUS
<1> HIDE DEF given
<1>5. /\ step' \in [Request -> {"idle", "connect", "fetch", "done"}]
      /\ answer' \in [Request -> [status : {0} \cup Status, ticks : Seq(Record)]]
  BY <1>1, <1>2, <1>3
<1>6. \A x \in Request : x # r => step'[x] = step[x] /\ answer'[x] = answer[x]
  BY <1>1, <1>3
<1>7. step'[r] = "done" /\ answer'[r] = given
  BY <1>1, <1>3
<1>8. ASSUME NEW x \in Request
      PROVE  /\ step'[x] = "done" <=> answer'[x].status \in Status
             /\ Len(answer'[x].ticks) <= MaxHistoryLimit
             /\ answer'[x].status = 200 <=> answer'[x].ticks # <<>>
  <2>1. CASE x = r
    BY <1>4, <1>7, <2>1
  <2>2. CASE x # r
    BY <1>6, <2>2 DEF HistoryTypeOK
  <2> QED
    BY <2>1, <2>2
<1>9. Responded(r)
  BY <1>6, <1>8 DEF Responded
<1> QED
  BY <1>5, <1>7, <1>9 DEF given

(* The pools that are open are no more than the requests.                  *)
LEMMA PoolsBounded ==
  ASSUME NEW n \in Nat, n <= Cardinality({r \in Request : step[r] \in {"fetch", "done"}})
  PROVE  n \in 0 .. Cardinality(Request)
PROOF
<1> DEFINE S == {r \in Request : step[r] \in {"fetch", "done"}}
<1>1. IsFiniteSet(Request) /\ S \subseteq Request
  BY HistoryAssumption
<1> HIDE DEF S
<1>2. IsFiniteSet(S) /\ Cardinality(S) <= Cardinality(Request)
  BY <1>1, FS_Subset
<1>3. Cardinality(S) \in Nat /\ Cardinality(Request) \in Nat
  BY <1>1, <1>2, FS_CardinalityType
<1>4. n <= Cardinality(S)
  BY DEF S
<1> QED
  BY <1>2, <1>3, <1>4

(* The query returns: the answer continues the earlier ones and shows what *)
(* was committed when the request came.                                    *)
LEMMA FetchedKeeps ==
  ASSUME WriterInv, StorageInv, HistoryInv, NEW r \in Request, Fetched(r), UNCHANGED vars
  PROVE  HistoryInv'
PROOF
<1>1. step[r] = "fetch" /\ UNCHANGED <<pools, query, since>>
  BY DEF Fetched
<1>2. PICK q : q = query[r]
  OBVIOUS
<1>3. q \in Param /\ ~BadParams(q)
  BY <1>1, <1>2 DEF HistoryInv, QueryChecked
<1>4. PICK ticks \in FetchTicks(q) : Finish(r, IF ticks = <<>> THEN 404 ELSE 200, ticks)
  BY <1>2 DEF Fetched
<1>5. /\ ticks \in Seq(Record)
      /\ Len(ticks) <= Clamp(RowLimit(q)) /\ Len(ticks) <= MaxHistoryLimit
      /\ InFeedOrder(q.symbol) => IsTopicPrefix(ticks, q)
      /\ \A e \in Matching(q) \ ToSet(ticks) :
           Len(ticks) = Clamp(RowLimit(q)) /\ \A g \in ToSet(ticks) : Earlier(g, e)
      /\ ToSet(ticks) \subseteq table /\ IsTopicCut(ticks, q)
  <2>1. TopicTypeOK
    BY DEF WriterInv, WriterTypeOK
  <2>2. \A e \in Matching(q) : e \in table
    BY DEF Matching
  <2> QED
    BY <1>3, <2>1, <2>2, FetchReturns, FetchIsCut
<1>6. /\ step' \in [Request -> {"idle", "connect", "fetch", "done"}]
      /\ answer' \in [Request -> [status : {0} \cup Status, ticks : Seq(Record)]]
      /\ \A x \in Request :
           /\ step'[x] = "done" <=> answer'[x].status \in Status
           /\ Len(answer'[x].ticks) <= MaxHistoryLimit
           /\ answer'[x].status = 200 <=> answer'[x].ticks # <<>>
           /\ x # r => step'[x] = step[x] /\ answer'[x] = answer[x]
      /\ answer'[r].ticks = ticks /\ step'[r] = "done"
  <2> DEFINE status == IF ticks = <<>> THEN 404 ELSE 200
  <2>1. status \in Status /\ (status = 200 <=> ticks # <<>>)
    BY DEF Status
  <2>2. HistoryTypeOK /\ Finish(r, status, ticks)
    BY <1>4 DEF HistoryInv
  <2> HIDE DEF status
  <2>3. ticks \in Seq(Record) /\ Len(ticks) <= MaxHistoryLimit
    BY <1>5
  <2>4. /\ step' \in [Request -> {"idle", "connect", "fetch", "done"}]
        /\ answer' \in [Request -> [status : {0} \cup Status, ticks : Seq(Record)]]
        /\ Responded(r)
        /\ answer'[r] = [status |-> status, ticks |-> ticks] /\ step'[r] = "done"
    BY <2>1, <2>2, <2>3, FinishTypes
  <2>5. answer'[r].ticks = ticks
    BY <2>4
  <2> QED
    BY <2>4, <2>5 DEF Responded
<1>7. /\ query'[r] = q /\ \A x \in Request : query'[x] = query[x] /\ since'[x] = since[x]
      /\ table' = table /\ log' = log /\ committed' = committed
  BY <1>1, <1>2 DEF vars, topicVars, writerVars
<1>8. \A x \in Request : x # r => (Ok(x)' <=> Ok(x))
  BY <1>6 DEF Ok
<1>9. \A x \in Request : \A y \in since[x].answered : y # r
  BY <1>1 DEF HistoryInv, HistoryTypeOK
<1>10. HistoryTypeOK'
  <2>1. \A x \in Request : since'[x].answered \subseteq {s \in Request : step'[s] = "done"}
    BY <1>6, <1>7 DEF HistoryInv, HistoryTypeOK
  <2> QED
    BY <1>1, <1>6, <2>1 DEF HistoryInv, HistoryTypeOK
<1>11. QueryChecked'
  <2> SUFFICES ASSUME NEW x \in Request, step'[x] \in {"connect", "fetch"} \/ Ok(x)'
               PROVE  query'[x] \in Param /\ ~BadParams(query'[x])
    BY DEF QueryChecked, BadParams
  <2>1. CASE x = r
    BY <1>3, <1>7, <2>1
  <2>2. CASE x # r
    BY <1>6, <1>7, <1>8, <2>2 DEF HistoryInv, QueryChecked
  <2> QED
    BY <2>1, <2>2
<1>12. AnswerStored'
  <2> SUFFICES ASSUME NEW x \in Request, Ok(x)'
               PROVE  /\ ToSet(answer'[x].ticks) \subseteq table
                      /\ Len(answer'[x].ticks) <= Clamp(RowLimit(query'[x]))
    BY <1>7 DEF AnswerStored
  <2>1. CASE x = r
    <3>1. answer'[x].ticks = ticks /\ query'[x] = q
      BY <1>6, <1>7, <2>1
    <3>2. ToSet(ticks) \subseteq table /\ Len(ticks) <= Clamp(RowLimit(q))
      BY <1>5
    <3> QED
      BY <3>1, <3>2
  <2>2. CASE x # r
    <3>1. answer'[x] = answer[x] /\ query'[x] = query[x] /\ Ok(x)
      BY <1>6, <1>7, <1>8, <2>2
    <3>2. AnswerStored
      BY DEF HistoryInv
    <3> QED
      BY <3>1, <3>2 DEF AnswerStored
  <2> QED
    BY <2>1, <2>2
<1>13. SinceBehind'
  BY <1>7 DEF HistoryInv, SinceBehind
<1>14. PoolsOpened'
  <2>1. \A x \in Request : step'[x] \in {"fetch", "done"} <=> step[x] \in {"fetch", "done"}
    BY <1>1, <1>6
  <2>2. {x \in Request : step'[x] \in {"fetch", "done"}}
          = {x \in Request : step[x] \in {"fetch", "done"}}
    BY <2>1
  <2> QED
    BY <1>1, <2>2 DEF HistoryInv, PoolsOpened
<1>15. ASSUME NEW x \in Request, Ok(x)'
       PROVE  /\ query'[x] \in Param /\ PartitionOf[query'[x].symbol] \in Partition
              /\ IsTopicCut(answer'[x].ticks, query'[x])
              /\ InFeedOrder(query'[x].symbol) => IsTopicPrefix(answer'[x].ticks, query'[x])
  <2>1. CASE x = r
    BY <1>3, <1>5, <1>6, <1>7, <2>1, ParamType
  <2>2. CASE x # r
    <3>1. Ok(x) /\ query'[x] = query[x] /\ answer'[x] = answer[x]
      BY <1>6, <1>7, <1>8, <1>15, <2>2
    <3>2. query[x] \in Param
      BY <3>1 DEF HistoryInv, QueryChecked
    <3> QED
      BY <3>1, <3>2, ParamType DEF HistoryInv, AnswerIsTopicCut, OrderedIsPrefix
  <2> QED
    BY <2>1, <2>2
<1>16. AnswerIsTopicCut' /\ OrderedIsPrefix'
  <2>1. ASSUME NEW x \in Request, Ok(x)'
        PROVE  /\ IsTopicCut(answer[x].ticks, query[x])'
               /\ InFeedOrder(query[x].symbol)' => IsTopicPrefix(answer[x].ticks, query[x])'
    <3>1. PICK k, a : k = query'[x] /\ a = answer'[x].ticks
      OBVIOUS
    <3>2. /\ PartitionOf[k.symbol] \in Partition /\ IsTopicCut(a, k)
          /\ InFeedOrder(k.symbol) => IsTopicPrefix(a, k)
      BY <1>15, <2>1, <3>1
    <3>3. IsTopicCut(a, k)'
      BY <3>2, CutStands
    <3>4. IsTopicPrefix(a, k) => IsTopicPrefix(a, k)'
      BY <3>2, PrefixStands
    <3>5. InFeedOrder(query[x].symbol)' => InFeedOrder(k.symbol)
      BY <1>7, <3>1 DEF InFeedOrder, Offsets, RecordAt
    <3>6. IsTopicCut(answer[x].ticks, query[x])'
      BY <3>1, <3>3, CutOfAnswer
    <3>7. IsTopicPrefix(a, k)' => IsTopicPrefix(answer[x].ticks, query[x])'
      BY <3>1, PrefixOfAnswer
    <3> QED
      BY <3>2, <3>4, <3>5, <3>6, <3>7
  <2> QED
    BY <2>1 DEF AnswerIsTopicCut, OrderedIsPrefix
<1>18. ASSUME NEW x \in Request, NEW y \in Request, AskedAgain(x, y)'
       PROVE  /\ query'[x] = query[x] /\ answer'[y] = answer[y] /\ Ok(y)
              /\ query[x] = query[y]
              /\ x # r => AskedAgain(x, y) /\ answer'[x] = answer[x]
              /\ x = r => query[y] = q /\ answer'[x].ticks = ticks
  <2>1. Ok(x)' /\ Ok(y)' /\ y \in since'[x].answered /\ query'[x] = query'[y]
    BY <1>18 DEF AskedAgain
  <2>2. y # r /\ y \in since[x].answered /\ query[x] = query[y] /\ query'[x] = query[x]
    BY <1>7, <1>9, <2>1
  <2>3. Ok(y) /\ answer'[y] = answer[y]
    BY <1>6, <1>8, <2>1, <2>2
  <2>4. x # r => Ok(x) /\ answer'[x] = answer[x]
    BY <1>6, <1>8, <2>1
  <2> QED
    BY <1>2, <1>6, <2>2, <2>3, <2>4 DEF AskedAgain
<1>19. NeverWithdrawn'
  <2> SUFFICES ASSUME NEW x \in Request, NEW y \in Request, AskedAgain(x, y)',
                      NEW e \in ToSet(answer'[y].ticks)
               PROVE  \/ e \in ToSet(answer'[x].ticks)
                      \/ /\ Len(answer'[x].ticks) = Clamp(RowLimit(query'[x]))
                         /\ \A g \in ToSet(answer'[x].ticks) : Earlier(g, e)
    BY DEF NeverWithdrawn, Earlier, Clamp, RowLimit
  <2>1. CASE x = r
    <3>1. e \in ToSet(answer[y].ticks) /\ Ok(y) /\ query[y] = q /\ query'[x] = q
      BY <1>7, <1>18, <2>1
    <3>2. e \in table
      BY <3>1 DEF HistoryInv, AnswerStored
    <3>3. InRange(e, q)
      BY <3>1 DEF HistoryInv, AnswerIsTopicCut, IsTopicCut
    <3>4. e \in Matching(q)
      BY <3>2, <3>3 DEF Matching
    <3> QED
      BY <1>5, <1>6, <2>1, <3>1, <3>4
  <2>2. CASE x # r
    <3>1. /\ AskedAgain(x, y) /\ answer'[x] = answer[x] /\ answer'[y] = answer[y]
          /\ query'[x] = query[x]
      BY <1>18, <2>2
    <3> QED
      BY <3>1 DEF HistoryInv, NeverWithdrawn
  <2> QED
    BY <2>1, <2>2
<1>20. PagesContinue'
  <2> SUFFICES ASSUME NEW x \in Request, NEW y \in Request, AskedAgain(x, y)',
                      InFeedOrder(query[x].symbol)'
               PROVE  IsPrefix(answer'[y].ticks, answer'[x].ticks)
    BY DEF PagesContinue, IsPrefix
  <2>1. InFeedOrder(query[x].symbol)
    BY <1>7 DEF InFeedOrder, Offsets, RecordAt
  <2>2. CASE x = r
    <3>1. PICK old : old = answer[y].ticks
      OBVIOUS
    <3>2. Ok(y) /\ query[y] = q /\ query[x] = q /\ answer'[y] = answer[y]
      BY <1>2, <1>18, <2>2
    <3>3. old \in Seq(Record)
      BY <3>1 DEF HistoryInv, HistoryTypeOK
    <3>4. IsTopicPrefix(old, q)
      BY <2>1, <3>1, <3>2 DEF HistoryInv, OrderedIsPrefix
    <3>5. ToSet(old) \subseteq table /\ Len(old) <= Clamp(RowLimit(q))
      BY <3>1, <3>2 DEF HistoryInv, AnswerStored
    <3>6. TopicTypeOK /\ InFeedOrder(q.symbol)
      BY <2>1, <3>2 DEF WriterInv, WriterTypeOK
    <3>7. IsPrefix(old, ticks)
      BY <1>3, <3>3, <3>4, <3>5, <3>6, FetchContinues
    <3> QED
      BY <1>6, <2>2, <3>1, <3>2, <3>7
  <2>3. CASE x # r
    <3>1. AskedAgain(x, y) /\ answer'[x] = answer[x] /\ answer'[y] = answer[y]
      BY <1>18, <2>3
    <3> QED
      BY <2>1, <3>1 DEF HistoryInv, PagesContinue
  <2> QED
    BY <2>2, <2>3
<1>17. CommittedIsVisible'
  <2> SUFFICES ASSUME NEW x \in Request, Ok(x)', NEW k, k = query'[x],
                      NEW o \in Offsets(PartitionOf[k.symbol]),
                      o < since[x].committed[PartitionOf[k.symbol]],
                      IsEvent(PartitionOf[k.symbol], o),
                      InRange(RecordAt(PartitionOf[k.symbol], o), k)
               PROVE  \/ RecordAt(PartitionOf[k.symbol], o) \in ToSet(answer'[x].ticks)
                      \/ Len(answer'[x].ticks) = Clamp(RowLimit(k))
    BY <1>7 DEF CommittedIsVisible, Offsets, IsEvent, RecordAt
  <2>1. CASE x = r
    <3> DEFINE p == PartitionOf[k.symbol]
    <3>1. k = q /\ p \in Partition
      BY <1>3, <1>7, <2>1, ParamType
    <3>2. since[x].committed[p] <= committed[p] /\ since[x].committed[p] \in Nat
      BY <3>1 DEF HistoryInv, SinceBehind, HistoryTypeOK
    <3>3. committed[p] \in Nat /\ o \in Nat
      BY <3>1 DEF WriterInv, WriterTypeOK, Offsets
    <3>4. o < committed[p]
      BY <3>2, <3>3
    <3>5. Stored(p, o)
      BY <3>1, <3>4 DEF WriterInv, NoLostTick
    <3>6. RecordAt(p, o) \in Matching(k)
      BY <3>5 DEF Stored, Matching
    <3> QED
      BY <1>5, <1>6, <2>1, <3>1, <3>6
  <2>2. CASE x # r
    <3>1. k = query[x] /\ Ok(x) /\ answer'[x] = answer[x]
      BY <1>6, <1>7, <1>8, <2>2
    <3>2. CommittedIsVisible
      BY DEF HistoryInv
    <3> QED
      BY <3>1, <3>2 DEF CommittedIsVisible
  <2> QED
    BY <2>1, <2>2
<1> QED
  BY <1>10, <1>11, <1>12, <1>13, <1>14, <1>16, <1>17, <1>19, <1>20 DEF HistoryInv

(* Steps of the feed and of the writer.                                    *)
LEMMA WriterKeeps ==
  ASSUME WriterInv, HistoryInv, [Next]_vars, UNCHANGED historyVars
  PROVE  HistoryInv'
PROOF
<1>1. UNCHANGED <<pools, step, query, answer, since>>
  BY DEF historyVars
<1>2. NoNewAnswer
  BY <1>1 DEF NoNewAnswer, Ok
<1>3. AnswerStored' /\ AnswerIsTopicCut' /\ NeverWithdrawn' /\ OrderedIsPrefix'
          /\ PagesContinue' /\ CommittedIsVisible'
  BY <1>2, AnswersStand
<1>4. HistoryTypeOK'
  BY <1>1 DEF HistoryInv, HistoryTypeOK
<1>5. QueryChecked'
  BY <1>1 DEF HistoryInv, QueryChecked, Ok, BadParams
<1>6. PoolsOpened'
  BY <1>1 DEF HistoryInv, PoolsOpened
<1>7. SinceBehind'
  <2> SUFFICES ASSUME NEW r \in Request, NEW p \in Partition
               PROVE  since[r].committed[p] <= committed'[p]
    BY <1>1 DEF SinceBehind
  <2>1. since[r].committed[p] <= committed[p] /\ since[r].committed[p] \in Nat
    BY DEF HistoryInv, SinceBehind, HistoryTypeOK
  <2>2. committed[p] \in Nat
    BY DEF WriterInv, WriterTypeOK
  <2>3. committed[p] <= committed'[p]
    BY WriterGrows
  <2>4. committed'[p] \in Nat
    <3>1. WriterInv'
      BY WriterNextInv
    <3> QED
      BY <3>1 DEF WriterInv, WriterTypeOK
  <2> QED
    BY <2>1, <2>2, <2>3, <2>4
<1> QED
  BY <1>3, <1>4, <1>5, <1>6, <1>7 DEF HistoryInv

(* The pools that were opened stay accounted for.                          *)
LEMMA PoolsKept ==
  ASSUME HistoryInv, pools' \in {0, pools},
         \A x \in Request : step[x] \in {"fetch", "done"} => step'[x] \in {"fetch", "done"}
  PROVE  PoolsOpened' /\ pools' \in 0 .. Cardinality(Request)
PROOF
<1> DEFINE S == {x \in Request : step[x] \in {"fetch", "done"}}
           T == {x \in Request : step'[x] \in {"fetch", "done"}}
<1>1. S \subseteq T /\ T \subseteq Request
  OBVIOUS
<1>2. pools <= Cardinality(S) /\ pools \in 0 .. Cardinality(Request)
  BY DEF HistoryInv, PoolsOpened, HistoryTypeOK
<1>3. IsFiniteSet(Request)
  BY HistoryAssumption
<1> HIDE DEF S, T
<1>4. IsFiniteSet(T) /\ IsFiniteSet(S)
  BY <1>1, <1>3, FS_Subset
<1>5. Cardinality(S) <= Cardinality(T)
  BY <1>1, <1>4, FS_Subset
<1>6. Cardinality(S) \in Nat /\ Cardinality(T) \in Nat /\ Cardinality(Request) \in Nat
  BY <1>3, <1>4, FS_CardinalityType
<1>7. pools' <= Cardinality(T)
  BY <1>2, <1>5, <1>6
<1>8. pools' \in 0 .. Cardinality(Request)
  BY <1>2, <1>6
<1> QED
  BY <1>7, <1>8 DEF T, PoolsOpened

(* A query that raises is answered, and no tick with it.                   *)
LEMMA QueryRaisesKeeps ==
  ASSUME WriterInv, HistoryInv, NEW r \in Request, QueryRaises(r), UNCHANGED vars
  PROVE  HistoryInv'
PROOF
<1>1. step[r] \in {"connect", "fetch"} /\ UNCHANGED <<pools, query, since>>
  BY DEF QueryRaises
<1>2. PICK status \in Failures : Finish(r, status, <<>>)
  BY DEF QueryRaises
<1>3. status \in Status /\ status \notin {200, 404}
  BY HistoryAssumption DEF Status
<1>4. /\ step' \in [Request -> {"idle", "connect", "fetch", "done"}]
      /\ answer' \in [Request -> [status : {0} \cup Status, ticks : Seq(Record)]]
      /\ Responded(r)
      /\ answer'[r] = [status |-> status, ticks |-> <<>>] /\ step'[r] = "done"
  <2>1. <<>> \in Seq(Record) /\ Len(<<>>) = 0 /\ MaxHistoryLimit \in Nat
    BY HistoryAssumption
  <2>2. Len(<<>>) <= MaxHistoryLimit /\ (status = 200 <=> <<>> # <<>>)
    BY <1>3, <2>1
  <2>3. HistoryTypeOK
    BY DEF HistoryInv
  <2> QED
    BY <1>2, <1>3, <2>1, <2>2, <2>3, FinishTypes
<1>5. \A x \in Request : x # r => step'[x] = step[x] /\ answer'[x] = answer[x]
  BY <1>4 DEF Responded
<1>6. answer'[r].status = status
  BY <1>4
<1>7. ~Ok(r)'
  BY <1>3, <1>6 DEF Ok
<1>8. NoNewAnswer
  BY <1>1, <1>5, <1>7 DEF NoNewAnswer, Ok
<1>9. AnswerStored' /\ AnswerIsTopicCut' /\ NeverWithdrawn' /\ OrderedIsPrefix'
          /\ PagesContinue' /\ CommittedIsVisible'
  BY <1>8, AnswersStand
<1>10. HistoryTypeOK'
  <2>1. \A x \in Request : since'[x].answered \subseteq {s \in Request : step'[s] = "done"}
    BY <1>1, <1>4, <1>5 DEF HistoryInv, HistoryTypeOK
  <2> QED
    BY <1>1, <1>4, <2>1 DEF HistoryInv, HistoryTypeOK, Responded
<1>11. QueryChecked'
  <2> SUFFICES ASSUME NEW x \in Request, step'[x] \in {"connect", "fetch"} \/ Ok(x)'
               PROVE  query[x] \in Param /\ ~BadParams(query[x])
    BY <1>1 DEF QueryChecked, BadParams
  <2>1. x # r
    BY <1>4, <1>7
  <2>2. step[x] \in {"connect", "fetch"} \/ Ok(x)
    BY <1>5, <1>8, <2>1 DEF NoNewAnswer
  <2> QED
    BY <2>2 DEF HistoryInv, QueryChecked
<1>12. SinceBehind'
  BY <1>1 DEF HistoryInv, SinceBehind, vars, writerVars
<1>13. PoolsOpened'
  BY <1>1, <1>4, <1>5, PoolsKept
<1> QED
  BY <1>9, <1>10, <1>11, <1>12, <1>13 DEF HistoryInv

(* A request arrives: nothing is promised to it yet.                       *)
LEMMA AskKeeps ==
  ASSUME WriterInv, HistoryInv, NEW r \in Request, NEW q \in Param, Ask(r, q), UNCHANGED vars
  PROVE  HistoryInv'
PROOF
<1> DEFINE now == [committed |-> committed, answered |-> {s \in Request : step[s] = "done"}]
<1>1. /\ step[r] = "idle" /\ UNCHANGED pools
      /\ query' = [query EXCEPT ![r] = q] /\ since' = [since EXCEPT ![r] = now]
  BY DEF Ask
<1>2. /\ step \in [Request -> {"idle", "connect", "fetch", "done"}]
      /\ query \in [Request -> Param \cup {NoQuery}]
      /\ answer \in [Request -> [status : {0} \cup Status, ticks : Seq(Record)]]
      /\ since \in [Request -> [committed : [Partition -> Nat], answered : SUBSET Request]]
  BY DEF HistoryInv, HistoryTypeOK
<1>3. now \in [committed : [Partition -> Nat], answered : SUBSET Request]
  BY DEF WriterInv, WriterTypeOK
<1>4. now.committed = committed /\ now.answered = {s \in Request : step[s] = "done"}
  OBVIOUS
<1> HIDE DEF now
<1>5. /\ query' \in [Request -> Param \cup {NoQuery}]
      /\ since' \in [Request -> [committed : [Partition -> Nat], answered : SUBSET Request]]
      /\ query'[r] = q /\ since'[r] = now
      /\ \A x \in Request : x # r => query'[x] = query[x] /\ since'[x] = since[x]
  BY <1>1, <1>2, <1>3
<1>6. /\ step' \in [Request -> {"idle", "connect", "fetch", "done"}]
      /\ answer' \in [Request -> [status : {0} \cup Status, ticks : Seq(Record)]]
      /\ Responded(r)
      /\ answer'[r].status \notin {200, 404}
      /\ step'[r] \in {"connect", "fetch"} => ~BadParams(q)
  <2>1. CASE BadParams(q)
    <3>1. PICK status : status = 400
      OBVIOUS
    <3>2. Finish(r, status, <<>>) /\ HistoryTypeOK
      BY <2>1, <3>1 DEF Ask, HistoryInv
    <3>3. status \in Status /\ status \notin {200, 404}
      BY <3>1 DEF Status
    <3>4. /\ step' \in [Request -> {"idle", "connect", "fetch", "done"}]
          /\ answer' \in [Request -> [status : {0} \cup Status, ticks : Seq(Record)]]
          /\ Responded(r)
          /\ answer'[r] = [status |-> status, ticks |-> <<>>] /\ step'[r] = "done"
      <4>1. <<>> \in Seq(Record) /\ Len(<<>>) = 0 /\ MaxHistoryLimit \in Nat
        BY HistoryAssumption
      <4>2. Len(<<>>) <= MaxHistoryLimit /\ (status = 200 <=> <<>> # <<>>)
        BY <3>3, <4>1
      <4> QED
        BY <3>2, <3>3, <4>1, <4>2, FinishTypes
    <3>5. answer'[r].status \notin {200, 404}
      BY <3>3, <3>4
    <3>6. step'[r] \notin {"connect", "fetch"}
      BY <3>4
    <3> QED
      BY <3>4, <3>5, <3>6
  <2>2. CASE ~BadParams(q)
    <3>1. step' = [step EXCEPT ![r] = IF pools = 0 THEN "connect" ELSE "fetch"]
          /\ answer' = answer
      BY <2>2 DEF Ask
    <3>2. /\ step' \in [Request -> {"idle", "connect", "fetch", "done"}]
          /\ step'[r] \in {"connect", "fetch"}
          /\ \A x \in Request : x # r => step'[x] = step[x]
      BY <1>2, <3>1
    <3>3. answer[r].status \notin Status
      BY <1>1 DEF HistoryInv, HistoryTypeOK
    <3>4. Responded(r)
      BY <3>1, <3>2, <3>3 DEF Responded, HistoryInv, HistoryTypeOK
    <3> QED
      BY <1>2, <2>2, <3>1, <3>2, <3>3, <3>4 DEF Status
  <2> QED
    BY <2>1, <2>2
<1>7. \A x \in Request : x # r => step'[x] = step[x] /\ answer'[x] = answer[x]
  BY <1>6 DEF Responded
<1>8. ~Ok(r)'
  BY <1>6 DEF Ok
<1>9. NoNewAnswer
  BY <1>5, <1>7, <1>8 DEF NoNewAnswer, Ok
<1>10. AnswerStored' /\ AnswerIsTopicCut' /\ NeverWithdrawn' /\ OrderedIsPrefix'
          /\ PagesContinue' /\ CommittedIsVisible'
  <2>1. [Next]_vars
    OBVIOUS
  <2> QED
    BY <1>9, <2>1, AnswersStand
<1>11. HistoryTypeOK'
  <2>1. ASSUME NEW x \in Request, NEW s \in since'[x].answered
        PROVE  s \in Request /\ step'[s] = "done"
    <3>1. s \in Request /\ step[s] = "done"
      <4>1. CASE x = r
        BY <1>4, <1>5, <2>1, <4>1
      <4>2. CASE x # r
        BY <1>5, <2>1, <4>2 DEF HistoryInv, HistoryTypeOK
      <4> QED
        BY <4>1, <4>2
    <3>2. s # r
      BY <1>1, <3>1
    <3> QED
      BY <1>7, <3>1, <3>2
  <2>2. \A x \in Request : since'[x].answered \subseteq {s \in Request : step'[s] = "done"}
    BY <2>1
  <2> QED
    BY <1>1, <1>5, <1>6, <2>2 DEF HistoryInv, HistoryTypeOK, Responded
<1>12. QueryChecked'
  <2> SUFFICES ASSUME NEW x \in Request, step'[x] \in {"connect", "fetch"} \/ Ok(x)'
               PROVE  query'[x] \in Param /\ ~BadParams(query'[x])
    BY DEF QueryChecked, BadParams
  <2>1. CASE x = r
    BY <1>5, <1>6, <1>8, <2>1
  <2>2. CASE x # r
    <3>1. step[x] \in {"connect", "fetch"} \/ Ok(x)
      BY <1>7, <1>9, <2>2 DEF NoNewAnswer
    <3> QED
      BY <1>5, <2>2, <3>1 DEF HistoryInv, QueryChecked
  <2> QED
    BY <2>1, <2>2
<1>13. SinceBehind'
  <2> SUFFICES ASSUME NEW x \in Request, NEW p \in Partition
               PROVE  since'[x].committed[p] <= committed[p]
    BY DEF SinceBehind, vars, writerVars
  <2>1. CASE x = r
    <3>1. committed[p] \in Nat
      BY DEF WriterInv, WriterTypeOK
    <3> QED
      BY <1>4, <1>5, <2>1, <3>1
  <2>2. CASE x # r
    BY <1>5, <2>2 DEF HistoryInv, SinceBehind
  <2> QED
    BY <2>1, <2>2
<1>14. PoolsOpened'
  <2>1. \A x \in Request : step[x] \in {"fetch", "done"} => step'[x] \in {"fetch", "done"}
    BY <1>1, <1>7
  <2> QED
    BY <1>1, <2>1, PoolsKept
<1> QED
  BY <1>10, <1>11, <1>12, <1>13, <1>14 DEF HistoryInv

(* connect() returns, or the gateway closes the store.                     *)
LEMMA PoolStepKeeps ==
  ASSUME WriterInv, HistoryInv, UNCHANGED vars,
         GatewayRestarts \/ \E r \in Request : Connected(r)
  PROVE  HistoryInv'
PROOF
<1>1. UNCHANGED <<query, answer, since>>
  BY DEF GatewayRestarts, Connected
<1>2. NoNewAnswer
  BY <1>1 DEF NoNewAnswer, Ok
<1>3. AnswerStored' /\ AnswerIsTopicCut' /\ NeverWithdrawn' /\ OrderedIsPrefix'
          /\ PagesContinue' /\ CommittedIsVisible'
  BY <1>2, AnswersStand
<1>4. SinceBehind'
  BY <1>1 DEF HistoryInv, SinceBehind, vars, writerVars
<1>5. CASE GatewayRestarts
  <2>1. pools' = 0 /\ step' = step
    BY <1>5 DEF GatewayRestarts
  <2>2. PoolsOpened' /\ pools' \in 0 .. Cardinality(Request)
    BY <2>1, PoolsKept
  <2>3. HistoryTypeOK'
    BY <1>1, <2>1, <2>2 DEF HistoryInv, HistoryTypeOK
  <2>4. QueryChecked'
    BY <1>1, <2>1 DEF HistoryInv, QueryChecked, Ok, BadParams
  <2> QED
    BY <1>3, <1>4, <2>2, <2>3, <2>4 DEF HistoryInv
<1>6. CASE \E r \in Request : Connected(r)
  <2>1. PICK r \in Request : Connected(r)
    BY <1>6
  <2>2. step[r] = "connect" /\ step' = [step EXCEPT ![r] = "fetch"] /\ pools' = pools + 1
    BY <2>1 DEF Connected
  <2>3. step \in [Request -> {"idle", "connect", "fetch", "done"}]
    BY DEF HistoryInv, HistoryTypeOK
  <2>4. /\ step' \in [Request -> {"idle", "connect", "fetch", "done"}] /\ step'[r] = "fetch"
        /\ \A x \in Request : x # r => step'[x] = step[x]
    BY <2>2, <2>3
  <2> DEFINE S == {x \in Request : step[x] \in {"fetch", "done"}}
             T == {x \in Request : step'[x] \in {"fetch", "done"}}
  <2>5. T = S \cup {r} /\ r \notin S /\ S \subseteq Request /\ T \subseteq Request
    BY <2>2, <2>4
  <2>6. pools <= Cardinality(S) /\ pools \in 0 .. Cardinality(Request)
    BY DEF HistoryInv, PoolsOpened, HistoryTypeOK
  <2>7. PoolsOpened' /\ pools' \in 0 .. Cardinality(Request)
    <3>1. IsFiniteSet(Request)
      BY HistoryAssumption
    <3>2. T = {x \in Request : step'[x] \in {"fetch", "done"}}
      OBVIOUS
    <3> HIDE DEF S, T
    <3>3. IsFiniteSet(S) /\ IsFiniteSet(T) /\ Cardinality(T) <= Cardinality(Request)
      BY <2>5, <3>1, FS_Subset
    <3>4. Cardinality(T) = Cardinality(S) + 1
      BY <2>5, <3>3, FS_AddElement
    <3>5. Cardinality(S) \in Nat /\ Cardinality(Request) \in Nat
      BY <3>1, <3>3, FS_CardinalityType
    <3>6. pools' <= Cardinality(T) /\ pools' \in 0 .. Cardinality(Request)
      BY <2>2, <2>6, <3>3, <3>4, <3>5
    <3> QED
      BY <3>2, <3>6 DEF PoolsOpened
  <2>8. HistoryTypeOK'
    <3>1. \A x \in Request : step'[x] = "done" <=> step[x] = "done"
      BY <2>2, <2>4
    <3>2. {x \in Request : step'[x] = "done"} = {x \in Request : step[x] = "done"}
      BY <3>1
    <3> QED
      BY <1>1, <2>4, <2>7, <3>1, <3>2 DEF HistoryInv, HistoryTypeOK
  <2>9. QueryChecked'
    <3> SUFFICES ASSUME NEW x \in Request, step'[x] \in {"connect", "fetch"} \/ Ok(x)'
                 PROVE  query[x] \in Param /\ ~BadParams(query[x])
      BY <1>1 DEF QueryChecked, BadParams
    <3>1. step[x] \in {"connect", "fetch"} \/ Ok(x)
      BY <1>2, <2>2, <2>4 DEF NoNewAnswer
    <3> QED
      BY <3>1 DEF HistoryInv, QueryChecked
  <2> QED
    BY <1>3, <1>4, <2>7, <2>8, <2>9 DEF HistoryInv
<1> QED
  BY <1>5, <1>6

-----------------------------------------------------------------------------
(* Whatever is fed, stored, retried, replayed or killed while requests are *)
(* asked and answered, the invariant of the history query holds.           *)
THEOREM HistoryInvariant == HistorySpec => []HistoryInv
PROOF
<1>1. HistoryInit => HistoryInv
  <2> SUFFICES ASSUME HistoryInit
               PROVE  HistoryInv
    OBVIOUS
  <2>1. /\ pools = 0
        /\ step = [r \in Request |-> "idle"]
        /\ query = [r \in Request |-> NoQuery]
        /\ answer = [r \in Request |-> NoAnswer]
        /\ since = [r \in Request |-> [committed |-> [p \in Partition |-> 0], answered |-> {}]]
        /\ committed = [p \in Partition |-> 0]
    BY DEF HistoryInit, Init, WriterInit
  <2>2. \A r \in Request : ~Ok(r) /\ step[r] = "idle" /\ answer[r] = NoAnswer
    BY <2>1 DEF Ok, NoAnswer
  <2>3. PoolsOpened /\ pools \in 0 .. Cardinality(Request)
    <3> DEFINE S == {r \in Request : step[r] \in {"fetch", "done"}}
    <3>1. S \subseteq Request /\ IsFiniteSet(Request)
      BY HistoryAssumption
    <3> HIDE DEF S
    <3>2. IsFiniteSet(S)
      BY <3>1, FS_Subset
    <3>3. Cardinality(S) \in Nat /\ Cardinality(Request) \in Nat
      BY <3>1, <3>2, FS_CardinalityType
    <3>4. pools <= Cardinality(S) /\ pools \in 0 .. Cardinality(Request)
      BY <2>1, <3>3
    <3> QED
      BY <3>4 DEF S, PoolsOpened
  <2>4. HistoryTypeOK
    <3>1. NoAnswer \in [status : {0} \cup Status, ticks : Seq(Record)]
      BY DEF NoAnswer
    <3>2. /\ NoAnswer.status = 0 /\ NoAnswer.ticks = <<>> /\ Len(<<>>) = 0
          /\ MaxHistoryLimit \in Nat /\ 0 \notin Status
      BY HistoryAssumption DEF NoAnswer, Status
    <3>3. answer \in [Request -> [status : {0} \cup Status, ticks : Seq(Record)]]
      BY <2>1, <3>1
    <3>4. /\ step \in [Request -> {"idle", "connect", "fetch", "done"}]
          /\ query \in [Request -> Param \cup {NoQuery}]
          /\ since \in [Request -> [committed : [Partition -> Nat], answered : SUBSET Request]]
      BY <2>1
    <3>5. \A r \in Request : since[r].answered = {}
      BY <2>1
    <3>6. \A r \in Request :
            /\ step[r] = "done" <=> answer[r].status \in Status
            /\ Len(answer[r].ticks) <= MaxHistoryLimit
            /\ answer[r].status = 200 <=> answer[r].ticks # <<>>
      BY <2>2, <3>2
    <3> QED
      BY <2>3, <3>3, <3>4, <3>5, <3>6 DEF HistoryTypeOK
  <2>5. SinceBehind
    BY <2>1 DEF SinceBehind
  <2>6. QueryChecked /\ AnswerStored
    BY <2>2 DEF QueryChecked, AnswerStored
  <2>7. AnswerIsTopicCut /\ NeverWithdrawn /\ OrderedIsPrefix /\ PagesContinue
        /\ CommittedIsVisible
    BY <2>2 DEF AnswerIsTopicCut, NeverWithdrawn, OrderedIsPrefix, PagesContinue, AskedAgain,
       CommittedIsVisible
  <2> QED
    BY <2>3, <2>4, <2>5, <2>6, <2>7 DEF HistoryInv
<1>2. ASSUME WriterInv, StorageInv, HistoryInv, [HistoryNext]_allVars
      PROVE  HistoryInv'
  <2>1. CASE Next /\ UNCHANGED historyVars
    BY <1>2, <2>1, WriterKeeps
  <2>2. CASE UNCHANGED allVars
    BY <1>2, <2>2, WriterKeeps DEF allVars
  <2>3. ASSUME UNCHANGED vars, NEW r \in Request, NEW q \in Param, Ask(r, q)
        PROVE  HistoryInv'
    BY <1>2, <2>3, AskKeeps
  <2>4. ASSUME UNCHANGED vars, NEW r \in Request, QueryRaises(r)
        PROVE  HistoryInv'
    BY <1>2, <2>4, QueryRaisesKeeps
  <2>5. ASSUME UNCHANGED vars, NEW r \in Request, Fetched(r)
        PROVE  HistoryInv'
    BY <1>2, <2>5, FetchedKeeps
  <2>6. ASSUME UNCHANGED vars, GatewayRestarts \/ \E r \in Request : Connected(r)
        PROVE  HistoryInv'
    BY <1>2, <2>6, PoolStepKeeps
  <2> QED
    BY <1>2, <2>1, <2>2, <2>3, <2>4, <2>5, <2>6 DEF HistoryNext, Serve
<1>3. HistorySpec => []WriterInv
  BY HistoryTakesNoPart, WriterInvariant, PTL
<1>4. HistorySpec => []StorageInv
  BY HistoryTakesNoPart, WriterStorage, PTL
<1> QED
  BY <1>1, <1>2, <1>3, <1>4, PTL DEF HistorySpec

(* No answer has a hole: its ticks are, in the order of time, those that   *)
(* so many first records of the topic have of the range, however           *)
(* TickWriter inserted them.                                               *)
THEOREM AnswersHaveNoHoles == HistorySpec => []AnswerIsTopicCut
PROOF
<1>1. HistoryInv => AnswerIsTopicCut
  BY DEF HistoryInv
<1> QED
  BY <1>1, HistoryInvariant, PTL

(* get_history withdraws no tick, whatever the clock of the feed did.      *)
THEOREM AnswersNeverWithdrawn == HistorySpec => []NeverWithdrawn
PROOF
<1>1. HistoryInv => NeverWithdrawn
  BY DEF HistoryInv
<1> QED
  BY <1>1, HistoryInvariant, PTL

(* Of a topic in the order of time, a later answer of get_history          *)
(* continues an earlier one to the same question.                          *)
THEOREM AnswersContinue == HistorySpec => []PagesContinue
PROOF
<1>1. HistoryInv => PagesContinue
  BY DEF HistoryInv
<1> QED
  BY <1>1, HistoryInvariant, PTL

(* What TickWriter committed before the request came is in the answer,     *)
(* unless the limit cut it off.                                            *)
THEOREM CommittedTicksAnswered == HistorySpec => []CommittedIsVisible
PROOF
<1>1. HistoryInv => CommittedIsVisible
  BY DEF HistoryInv
<1> QED
  BY <1>1, HistoryInvariant, PTL
=============================================================================
