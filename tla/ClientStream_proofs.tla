------------------------ MODULE ClientStream_proofs ------------------------
(***************************************************************************)
(* Proofs about ClientStream, for every mode, filter, queue size and       *)
(* bound.  For any client: the types, contiguity without a filter, and     *)
(* that a session leaves the registry.  For one that does not subscribe    *)
(* twice: what is enqueued is strictly ordered, and the handoff from the   *)
(* snapshot to the live events loses nothing.                              *)
(***************************************************************************)
EXTENDS ClientStream, SequenceTheorems, FiniteSetTheorems, TLAPS

(* A bounded queue keeps at most max of its entries.                       *)
LEMMA NewestType ==
  ASSUME NEW S, NEW q \in Seq(S), NEW max \in Nat
  PROVE  Newest(q, max) \in Seq(S) /\ Len(Newest(q, max)) <= max
PROOF
<1>1. CASE Len(q) <= max
  BY <1>1 DEF Newest
<1>2. CASE Len(q) > max
  <2> DEFINE m == Len(q) - max + 1
  <2>1. m \in Int /\ Len(q) \in Int /\ m >= 1 /\ \A i \in m .. Len(q) : q[i] \in S
    BY <1>2
  <2>2. /\ SubSeq(q, m, Len(q)) \in Seq(S)
        /\ Len(SubSeq(q, m, Len(q))) = IF m <= Len(q) THEN Len(q) - m + 1 ELSE 0
    <3> HIDE DEF m
    <3> QED BY <2>1, SubSeqProperties
  <2> QED
    BY <1>2, <2>1, <2>2 DEF Newest
<1> QED
  BY <1>1, <1>2

(* The buffered events above the snapshot are events.                      *)
LEMMA AboveType ==
  ASSUME NEW t \in Seq(Seqs), NEW seq \in Nat
  PROVE  Above(t, seq) \in Seq(Seqs)
PROOF
<1> DEFINE D == {i \in DOMAIN t : t[i] <= seq}
           c == Cardinality(D)
<1>1. Len(t) \in Nat /\ DOMAIN t = 1 .. Len(t)
  OBVIOUS
<1>2. IsFiniteSet(1 .. Len(t))
  BY <1>1, FS_Interval
<1>3. IsFiniteSet(D)
  BY <1>1, <1>2, FS_Subset
<1>4. c \in Nat
  BY <1>3, FS_CardinalityType
<1>5. Above(t, seq) = SubSeq(t, c + 1, Len(t))
  BY DEF Above
<1>6. \A i \in c + 1 .. Len(t) : t[i] \in Seqs
  <2> HIDE DEF c
  <2> QED BY <1>1, <1>4
<1> HIDE DEF c
<1>7. c + 1 \in Int /\ Len(t) \in Int
  BY <1>1, <1>4
<1> QED
  BY <1>5, <1>6, <1>7, SubSeqProperties

LEMMA SortedType ==
  ASSUME NEW s \in Seq(Seqs), NEW t \in Sorted(s)
  PROVE  t \in Seq(Seqs)
  BY DEF Sorted

(* Pushing events into the aggregator keeps its buffers well formed.       *)
LEMMA PushType ==
  ASSUME StreamTypeOK, NEW s \in Seq(Seqs), Push(s)
  PROVE  /\ agg' \in Seqs \cup {NoSeq}
         /\ output' \in Seq(Seqs \cup {Other}) /\ Len(output') <= OutputMax
PROOF
<1>1. CASE Raw
  <2>1. s \in Seq(Seqs \cup {Other}) /\ output \in Seq(Seqs \cup {Other})
    BY DEF StreamTypeOK
  <2>2. output \o s \in Seq(Seqs \cup {Other})
    BY <2>1, ConcatProperties
  <2>3. output' = Newest(output \o s, OutputMax) /\ agg' = agg
    BY <1>1, Zenon DEF Push
  <2>4. /\ Newest(output \o s, OutputMax) \in Seq(Seqs \cup {Other})
        /\ Len(Newest(output \o s, OutputMax)) <= OutputMax
    BY <2>2, NewestType, StreamAssumption
  <2> QED
    BY <2>3, <2>4 DEF StreamTypeOK
<1>2. CASE ~Raw
  BY <1>2 DEF Push, StreamTypeOK
<1> QED
  BY <1>1, <1>2

(* Enqueueing keeps the outbound queue within its limit.                   *)
LEMMA EnqueueType ==
  ASSUME StreamTypeOK, Enqueue
  PROVE  out' \in 0 .. OutMax
  BY StreamAssumption DEF StreamTypeOK, Enqueue
-----------------------------------------------------------------------------
(* The topic's events are numbered from 1.                                 *)
LEMMA TopicType ==
  ASSUME StreamTypeOK
  PROVE  /\ topic \in Seq(Seqs) /\ Len(topic) \in Nat /\ DOMAIN topic = 1 .. Len(topic)
         /\ \A i \in 1 .. Len(topic) : topic[i] \in Seqs
PROOF
<1>1. topic \in Seq(Seqs)
  BY StreamAssumption DEF StreamTypeOK, Seqs
<1> QED
  BY <1>1

(* The number of the newest publication.                                   *)
LEMMA LatestType ==
  ASSUME StreamTypeOK
  PROVE  Latest \in Nat /\ Latest \in Seqs \cup {NoSeq}
PROOF
<1>1. pub \in 0 .. Len(topic)
  BY DEF StreamTypeOK
<1>2. pub = 0 \/ pub \in 1 .. Len(topic)
  BY <1>1, TopicType
<1>3. Latest \in Seqs \cup {NoSeq}
  BY <1>2, TopicType DEF Latest
<1> QED
  BY <1>3 DEF Seqs, NoSeq

(* Publishing puts one of the symbol's sequences on the channel.           *)
LEMMA SendType ==
  ASSUME StreamTypeOK, phase = "publish" => next <= Len(topic), Send
  PROVE  /\ next \in 1 .. Len(topic) /\ topic[next] \in Seqs
         /\ chan' \in Seq(Seqs) /\ pub' \in 0 .. Len(topic)
PROOF
<1>1. next \in 1 .. Len(topic)
  BY TopicType DEF StreamTypeOK, Send
<1>2. topic[next] \in Seqs
  BY <1>1, TopicType
<1>3. chan' \in Seq(Seqs)
  BY <1>2, AppendProperties DEF StreamTypeOK, Send
<1>4. pub' \in 0 .. Len(topic)
  BY <1>1, TopicType DEF StreamTypeOK, Send
<1> QED
  BY <1>1, <1>2, <1>3, <1>4

(* Every step keeps the flags Boolean.                                     *)
LEMMA FlagsNext ==
  ASSUME FlagsOK, [Next]_vars
  PROVE  FlagsOK'
PROOF
<1> USE DEF FlagsOK, linkVars, handlerVars, wireVars
<1>1. CASE UNCHANGED vars
  BY <1>1, Zenon DEF vars
<1>2. CASE Update
  BY <1>2, Zenon DEF Update
<1>3. CASE Publish
  BY <1>3, Zenon DEF Publish, Send
<1>4. CASE PublishAmbiguous
  BY <1>4, Zenon DEF PublishAmbiguous, Send
<1>5. CASE EngineReplays
  BY <1>5, Zenon DEF EngineReplays
<1>6. CASE LinkBreaks
  BY <1>6, Zenon DEF LinkBreaks
<1>7. CASE LinkResumes \/ Applied
  BY <1>7, Zenon DEF LinkResumes, Applied
<1>8. CASE Fanout
  BY <1>8, Zenon DEF Fanout, Buffer
<1>9. CASE Flush
  BY <1>9, Zenon DEF Flush
<1>10. CASE OtherSymbol
  BY <1>10, Zenon DEF OtherSymbol
<1>11. CASE DispatchOther
  BY <1>11, Zenon DEF DispatchOther, Reply
<1>12. CASE DispatchStale
  BY <1>12, Zenon DEF DispatchStale
<1>13. CASE DispatchNext
  BY <1>13, Zenon DEF DispatchNext, Deliver
<1>14. CASE DispatchGap
  BY <1>14, Zenon DEF DispatchGap
<1>15. CASE GapRead
  BY <1>15, Zenon DEF GapRead
<1>16. CASE GapReadRaises
  BY <1>16, Zenon DEF GapReadRaises
<1>17. CASE Reseed
  BY <1>17, Zenon DEF Reseed, Deliver
<1>18. CASE Write
  BY <1>18, Zenon DEF Write
<1>19. CASE WriteFails
  BY <1>19, Zenon DEF WriteFails
<1>20. CASE Subscribe
  BY <1>20, Zenon DEF Subscribe
<1>21. CASE Refuse
  BY <1>21, Zenon DEF Refuse, Reply
<1>22. CASE Fetch
  BY <1>22, Zenon DEF Fetch
<1>23. CASE FetchRaises
  BY <1>23, Zenon DEF FetchRaises, RollBack, Reply
<1>24. CASE Overflow
  BY <1>24, Zenon DEF Overflow, RollBack, Reply
<1>25. CASE Apply
  BY <1>25, Zenon DEF Apply, Register
<1>26. CASE Unsubscribe
  BY <1>26, Zenon DEF Unsubscribe
<1>27. CASE Leave
  BY <1>27, Zenon DEF Leave
<1>28. CASE Cleanup
  BY <1>28, Zenon DEF Cleanup
<1> QED
  BY <1>1, <1>2, <1>3, <1>4, <1>5, <1>6, <1>7, <1>8, <1>9, <1>10, <1>11, <1>12, <1>13, <1>14, <1>15, <1>16, <1>17, <1>18, <1>19, <1>20, <1>21, <1>22, <1>23, <1>24, <1>25, <1>26, <1>27, <1>28
     DEF Next, Engine, Delivery, Dispatch, Handle

(* Every step keeps the type invariant.                                    *)
LEMMA StreamTypeNext ==
  ASSUME StreamTypeOK, phase = "publish" => next <= Len(topic), [Next]_vars
  PROVE  StreamTypeOK'
PROOF
<1> USE StreamAssumption
<1>0. FlagsOK'
  BY FlagsNext DEF StreamTypeOK
<1> USE DEF Seqs, Kind, Message, Bounds, NoSeq, Other, engineVars, linkVars,
            handlerVars, bufferVars, dispatchVars, wireVars, Spend
<1>1. CASE UNCHANGED vars
  BY <1>0, <1>1 DEF StreamTypeOK, vars
<1>2. CASE Update
  <2>1. next \in 1 .. Len(topic)
    BY <1>2, TopicType DEF StreamTypeOK, Update
  <2>2. snap' \in Seqs
    BY <1>2, <2>1, TopicType DEF Update
  <2> QED
    BY <1>0, <1>2, <2>2 DEF StreamTypeOK, Update
<1>3. CASE Publish
  <2>1. chan' \in Seq(Seqs) /\ pub' \in 0 .. Len(topic) /\ next \in 1 .. Len(topic)
    BY <1>3, SendType DEF Publish
  <2>2. next' \in 1 .. Len(topic) + 1
    BY <1>3, <2>1, TopicType DEF Publish
  <2>3. phase' = "update" /\ UNCHANGED <<mode, topic, snap, link, handlerVars, registered,
                                          bufferVars, dispatchVars, wireVars, budget>>
    BY <1>3 DEF Publish, Send
  <2> QED
    BY <1>0, <2>1, <2>2, <2>3 DEF StreamTypeOK
<1>4. CASE PublishAmbiguous
  <2>1. chan' \in Seq(Seqs) /\ pub' \in 0 .. Len(topic)
    BY <1>4, SendType DEF PublishAmbiguous
  <2>2. budget' \in [Bounds -> Nat]
    BY <1>4 DEF StreamTypeOK, PublishAmbiguous
  <2>3. phase' = "update" /\ UNCHANGED <<mode, topic, next, snap, link, handlerVars, registered,
                                          bufferVars, dispatchVars, wireVars>>
    BY <1>4 DEF PublishAmbiguous, Send
  <2> QED
    BY <1>0, <2>1, <2>2, <2>3 DEF StreamTypeOK
<1>5. CASE EngineReplays
  <2>1. next' \in 1 .. Len(topic) + 1
    BY <1>5, TopicType DEF StreamTypeOK, EngineReplays
  <2> QED
    BY <1>0, <1>5, <2>1 DEF StreamTypeOK, EngineReplays
<1>6. CASE LinkBreaks
  BY <1>0, <1>6 DEF StreamTypeOK, LinkBreaks
<1>7. CASE LinkResumes \/ Applied
  BY <1>0, <1>7 DEF StreamTypeOK, LinkResumes, Applied
<1>8. CASE Fanout
  <2>1. Head(chan) \in Seqs /\ Tail(chan) \in Seq(Seqs)
    BY <1>8, HeadTailProperties DEF StreamTypeOK, Fanout
  <2>2. /\ agg' \in Seqs \cup {NoSeq}
        /\ output' \in Seq(Seqs \cup {Other}) /\ Len(output') <= OutputMax
    <3>1. CASE registered
      <4>1. <<Head(chan)>> \in Seq(Seqs) /\ Push(<<Head(chan)>>)
        BY <1>8, <2>1, <3>1 DEF Fanout
      <4> QED
        BY <4>1, PushType
    <3>2. CASE ~registered
      BY <1>8, <3>2 DEF Fanout, StreamTypeOK
    <3> QED BY <3>1, <3>2
  <2>3. /\ initEvents' \in Seq(Seqs) /\ Len(initEvents') <= InitMax
    <3>1. Buffer(Head(chan))
      BY <1>8 DEF Fanout
    <3>2. CASE Initializing /\ Len(initEvents) >= InitMax
      BY <3>1, <3>2 DEF Buffer, StreamTypeOK
    <3>3. CASE ~(Initializing /\ Len(initEvents) >= InitMax)
      <4>1. CASE Initializing
        <5>1. initEvents \in Seq(Seqs) /\ Len(initEvents) \in Nat
          BY DEF StreamTypeOK
        <5>2. initEvents' = Append(initEvents, Head(chan))
          BY <3>1, <3>3, <4>1 DEF Buffer
        <5>3. Len(initEvents) < InitMax
          <6>1. ~(Len(initEvents) >= InitMax)
            BY <3>3, <4>1
          <6> QED
            BY <5>1, <6>1, StreamAssumption
        <5>4. Append(initEvents, Head(chan)) \in Seq(Seqs)
              /\ Len(Append(initEvents, Head(chan))) = Len(initEvents) + 1
          BY <2>1, <5>1, AppendProperties
        <5> QED
          BY <5>1, <5>2, <5>3, <5>4, StreamAssumption
      <4>2. CASE ~Initializing
        <5>1. initEvents' = initEvents
          BY <3>1, <4>2 DEF Buffer
        <5> QED
          BY <5>1 DEF StreamTypeOK
      <4> QED BY <4>1, <4>2
    <3> QED BY <3>2, <3>3
  <2> QED
    BY <1>0, <1>8, <2>1, <2>2, <2>3 DEF StreamTypeOK, Fanout
<1>9. CASE Flush
  <2>1. Append(output, agg) \in Seq(Seqs \cup {Other})
    BY <1>9 DEF Flush, StreamTypeOK
  <2>2. output' \in Seq(Seqs \cup {Other}) /\ Len(output') <= OutputMax
    BY <1>9, <2>1, NewestType DEF Flush
  <2> QED
    BY <1>0, <1>9, <2>2 DEF StreamTypeOK, Flush
<1>10. CASE OtherSymbol
  <2>1. Append(output, Other) \in Seq(Seqs \cup {Other})
    BY DEF StreamTypeOK
  <2>2. output' \in Seq(Seqs \cup {Other}) /\ Len(output') <= OutputMax
    BY <1>10, <2>1, NewestType DEF OtherSymbol
  <2> QED
    BY <1>0, <1>10, <2>2 DEF StreamTypeOK, OtherSymbol
<1>11. CASE DispatchOther
  <2>1. Tail(output) \in Seq(Seqs \cup {Other}) /\ Len(Tail(output)) <= OutputMax
    BY <1>11, HeadTailProperties DEF StreamTypeOK, DispatchOther, Take
  <2>2. out' \in 0 .. OutMax
    BY <1>11, EnqueueType DEF DispatchOther, Reply
  <2> QED
    BY <1>0, <1>11, <2>1, <2>2 DEF StreamTypeOK, DispatchOther, Take, Reply
<1>12. CASE DispatchStale
  BY <1>0, <1>12, HeadTailProperties DEF StreamTypeOK, DispatchStale, Take
<1>13. CASE DispatchNext
  <2>1. /\ Tail(output) \in Seq(Seqs \cup {Other}) /\ Len(Tail(output)) <= OutputMax
        /\ Head(output) \in Seqs
    BY <1>13, HeadTailProperties DEF StreamTypeOK, DispatchNext, Take
  <2>2. CASE Deliver([kind |-> "event", seq |-> Head(output)])
    <3>1. out' \in 0 .. OutMax
      BY <2>2, EnqueueType DEF Deliver
    <3>2. stream' \in Seq(Message)
      BY <2>1, <2>2 DEF StreamTypeOK, Deliver
    <3> QED
      BY <1>0, <1>13, <2>1, <2>2, <3>1, <3>2 DEF StreamTypeOK, DispatchNext, Take, Deliver
  <2>3. CASE UNCHANGED wireVars
    BY <1>0, <1>13, <2>1, <2>3 DEF StreamTypeOK, DispatchNext, Take
  <2> QED
    BY <1>13, <2>2, <2>3 DEF DispatchNext
<1>14. CASE DispatchGap
  BY <1>0, <1>14, HeadTailProperties DEF StreamTypeOK, DispatchGap, Take
<1>15. CASE GapRead
  BY <1>0, <1>15 DEF StreamTypeOK, GapRead
<1>16. CASE GapReadRaises
  BY <1>0, <1>16 DEF StreamTypeOK, GapReadRaises
<1>17. CASE Reseed
  <2>1. CASE gapSnap # NoSeq /\ (lastSeq = NoSeq \/ gapSnap > lastSeq)
    <3>1. out' \in 0 .. OutMax
      BY <1>17, <2>1, EnqueueType DEF Reseed, Deliver
    <3>2. stream' \in Seq(Message)
      <4>1. [kind |-> "snapshot", seq |-> gapSnap] \in Message
        BY <2>1 DEF StreamTypeOK
      <4>2. stream' = Append(stream, [kind |-> "snapshot", seq |-> gapSnap])
        BY <1>17, <2>1 DEF Reseed, Deliver
      <4> QED
        BY <4>1, <4>2, AppendProperties DEF StreamTypeOK
    <3> QED
      BY <1>0, <1>17, <2>1, <3>1, <3>2 DEF StreamTypeOK, Reseed, Deliver
  <2>2. CASE ~(gapSnap # NoSeq /\ (lastSeq = NoSeq \/ gapSnap > lastSeq))
    BY <1>0, <1>17, <2>2 DEF StreamTypeOK, Reseed
  <2> QED BY <2>1, <2>2
<1>18. CASE Write
  BY <1>0, <1>18 DEF StreamTypeOK, Write
<1>19. CASE WriteFails
  BY <1>0, <1>19 DEF StreamTypeOK, WriteFails
<1>20. CASE Subscribe
  BY <1>0, <1>20 DEF StreamTypeOK, Subscribe
<1>21. CASE Refuse
  <2>1. out' \in 0 .. OutMax
    BY <1>21, EnqueueType DEF Refuse, Reply
  <2> QED
    BY <1>0, <1>21, <2>1 DEF StreamTypeOK, Refuse, Reply
<1>22. CASE Fetch
  BY <1>0, <1>22 DEF StreamTypeOK, Fetch
<1>23. CASE FetchRaises \/ Overflow
  <2>1. RollBack /\ (budget' \in [Bounds -> Nat])
    BY <1>23 DEF FetchRaises, Overflow, StreamTypeOK
  <2>2. out' \in 0 .. OutMax
    BY <2>1, EnqueueType DEF RollBack, Reply
  <2> QED
    BY <1>0, <2>1, <2>2 DEF StreamTypeOK, RollBack, Reply
<1>24. CASE Apply
  <2>1. /\ agg' \in Seqs \cup {NoSeq}
        /\ output' \in Seq(Seqs \cup {Other}) /\ Len(output') <= OutputMax
    <3>1. PICK t \in Sorted(initEvents) : Push(Above(t, fetched))
      BY <1>24 DEF Apply
    <3>2. t \in Seq(Seqs)
      BY SortedType DEF StreamTypeOK
    <3>3. Above(t, fetched) \in Seq(Seqs)
      BY <3>2, AboveType DEF StreamTypeOK
    <3> QED
      BY <3>1, <3>3, PushType
  <2>2. Register
    BY <1>24 DEF Apply
  <2>3. out' \in 0 .. OutMax
    BY <2>2, EnqueueType DEF StreamTypeOK, Register
  <2>4. stream' \in Seq(Message) /\ lastSeq' \in Seqs \cup {NoSeq}
    <3>1. CASE fetched = NoSeq
      <4>1. stream' = (IF registered THEN stream ELSE <<>>) /\ lastSeq' = lastSeq
        BY <2>2, <3>1 DEF Register
      <4> QED
        BY <4>1 DEF StreamTypeOK
    <3>2. CASE fetched # NoSeq
      <4>1. [kind |-> "snapshot", seq |-> fetched] \in Message /\ fetched \in Seqs
        BY <3>2 DEF StreamTypeOK
      <4>2. (IF registered THEN stream ELSE <<>>) \in Seq(Message)
        BY DEF StreamTypeOK
      <4>3. /\ stream' = Append(IF registered THEN stream ELSE <<>>,
                                [kind |-> "snapshot", seq |-> fetched])
            /\ lastSeq' = fetched
        BY <2>2, <3>2 DEF Register
      <4> QED
        <5> HIDE DEF Message
        <5> QED
          BY <4>1, <4>2, <4>3, AppendProperties
    <3> QED BY <3>1, <3>2
  <2> QED
    BY <1>0, <2>1, <2>2, <2>3, <2>4 DEF StreamTypeOK, Register
<1>25. CASE Unsubscribe
  BY <1>0, <1>25 DEF StreamTypeOK, Unsubscribe
<1>26. CASE Leave
  BY <1>0, <1>26 DEF StreamTypeOK, Leave
<1>27. CASE Cleanup
  BY <1>0, <1>27 DEF StreamTypeOK, Cleanup
<1> QED
  BY <1>1, <1>2, <1>3, <1>4, <1>5, <1>6, <1>7, <1>8, <1>9, <1>10, <1>11, <1>12, <1>13,
     <1>14, <1>15, <1>16, <1>17, <1>18, <1>19, <1>20, <1>21, <1>22, <1>23, <1>24, <1>25,
     <1>26, <1>27 DEF Next, Engine, Delivery, Dispatch, Handle
-----------------------------------------------------------------------------
(* Every message of the stream carries a sequence.                         *)
LEMMA StreamSeqs ==
  ASSUME StreamTypeOK
  PROVE  \A i \in 1 .. Len(stream) : stream[i].seq \in Nat
PROOF
<1>1. \A m \in Message : m.seq \in Nat
  BY DEF Message, Seqs
<1>2. \A i \in 1 .. Len(stream) : stream[i] \in Message
  BY DEF StreamTypeOK
<1> QED
  BY <1>1, <1>2

(* A message above the last accepted sequence extends the stream in order. *)
LEMMA AppendKeepsOrder ==
  ASSUME StreamTypeOK, StreamOrdered, LastSeqCovers,
         NEW m \in Message, m.seq > lastSeq,
         stream' = Append(stream, m), lastSeq' = m.seq
  PROVE  StreamOrdered' /\ LastSeqCovers'
PROOF
<1> USE DEF NoSeq, Seqs
<1>1. stream \in Seq(Message) /\ lastSeq \in Nat /\ m.seq \in Nat /\ Len(stream) \in Nat
  BY DEF StreamTypeOK, Message
<1>2. /\ Len(stream') = Len(stream) + 1
      /\ stream' \in Seq(Message)
      /\ \A i \in 1 .. Len(stream) : stream'[i] = stream[i]
      /\ stream'[Len(stream) + 1] = m
  BY <1>1, AppendProperties
<1>3. \A i \in 1 .. Len(stream) : stream[i].seq \in Nat /\ stream[i].seq <= lastSeq
  <2>1. \A i \in 1 .. Len(stream) : stream[i].seq \in Nat
    BY StreamSeqs
  <2>2. \A i \in 1 .. Len(stream) : i < Len(stream) => stream[i].seq < stream[Len(stream)].seq
    BY <1>1 DEF StreamOrdered
  <2>3. Len(stream) > 0 => stream[Len(stream)].seq <= lastSeq
    BY <1>1, <2>1 DEF LastSeqCovers
  <2> QED
    BY <1>1, <2>1, <2>2, <2>3
<1>4. StreamOrdered'
  <2>1. SUFFICES ASSUME NEW i \in 1 .. Len(stream) + 1, NEW j \in 1 .. Len(stream) + 1, i < j
                 PROVE  stream'[i].seq < stream'[j].seq
    BY <1>2 DEF StreamOrdered
  <2>2. i \in 1 .. Len(stream) /\ stream'[i] = stream[i]
    BY <1>1, <1>2, <2>1
  <2>3. CASE j = Len(stream) + 1
    BY <1>1, <1>2, <1>3, <2>2, <2>3
  <2>4. CASE j # Len(stream) + 1
    <3>1. j \in 1 .. Len(stream) /\ stream'[j] = stream[j]
      BY <1>1, <1>2, <2>4
    <3>2. stream[i].seq < stream[j].seq
      BY <1>1, <2>1, <2>2, <3>1 DEF StreamOrdered
    <3> QED
      BY <2>2, <3>1, <3>2
  <2> QED
    BY <2>3, <2>4
<1>5. LastSeqCovers'
  BY <1>1, <1>2 DEF LastSeqCovers
<1> QED
  BY <1>4, <1>5

(* Nothing enqueued and nothing accepted: nothing to do.                   *)
LEMMA SameStream ==
  ASSUME StreamOrdered, LastSeqCovers, UNCHANGED <<stream, lastSeq>>
  PROVE  StreamOrdered' /\ LastSeqCovers'
  BY DEF StreamOrdered, LastSeqCovers

(* The steps that neither enqueue a message of the symbol nor move the     *)
(* session's last sequence.                                                *)
LEMMA QuietSteps ==
  ASSUME Next, ~DispatchNext, ~Reseed, ~Apply, ~Unsubscribe
  PROVE  UNCHANGED <<stream, lastSeq>>
PROOF
<1> USE DEF dispatchVars, wireVars
<1>1. CASE Update
  BY <1>1 DEF Update
<1>2. CASE Publish
  BY <1>2 DEF Publish
<1>3. CASE PublishAmbiguous
  BY <1>3 DEF PublishAmbiguous
<1>4. CASE EngineReplays
  BY <1>4 DEF EngineReplays
<1>5. CASE LinkBreaks
  BY <1>5 DEF LinkBreaks
<1>6. CASE LinkResumes \/ Applied
  BY <1>6 DEF LinkResumes, Applied
<1>7. CASE Fanout
  BY <1>7 DEF Fanout
<1>8. CASE Flush
  BY <1>8 DEF Flush
<1>9. CASE OtherSymbol
  BY <1>9 DEF OtherSymbol
<1>10. CASE DispatchOther
  BY <1>10 DEF DispatchOther, Reply
<1>11. CASE DispatchStale
  BY <1>11 DEF DispatchStale
<1>12. CASE DispatchGap
  BY <1>12 DEF DispatchGap
<1>13. CASE GapRead
  BY <1>13 DEF GapRead
<1>14. CASE GapReadRaises
  BY <1>14 DEF GapReadRaises
<1>15. CASE Write
  BY <1>15 DEF Write
<1>16. CASE WriteFails
  BY <1>16 DEF WriteFails
<1>17. CASE Subscribe
  BY <1>17 DEF Subscribe
<1>18. CASE Refuse
  BY <1>18 DEF Refuse, Reply
<1>19. CASE Fetch
  BY <1>19 DEF Fetch
<1>20. CASE FetchRaises
  BY <1>20 DEF FetchRaises, RollBack, Reply
<1>21. CASE Overflow
  BY <1>21 DEF Overflow, RollBack, Reply
<1>22. CASE Leave
  BY <1>22 DEF Leave
<1>23. CASE Cleanup
  BY <1>23 DEF Cleanup
<1> QED
  BY <1>1, <1>2, <1>3, <1>4, <1>5, <1>6, <1>7, <1>8, <1>9, <1>10, <1>11, <1>12, <1>13, <1>14, <1>15, <1>16, <1>17, <1>18, <1>19, <1>20, <1>21, <1>22, <1>23
     DEF Next, Engine, Delivery, Dispatch, Handle

(* Every step keeps the stream ordered, if a subscription is not renewed   *)
(* while it is there.                                                      *)
LEMMA StreamOrderNext ==
  ASSUME StreamTypeOK, StreamInv, [Next]_vars
  PROVE  StreamOrdered' /\ LastSeqCovers'
PROOF
<1>0. StreamOrdered /\ LastSeqCovers
  BY DEF StreamInv
<1>1. CASE UNCHANGED vars
  BY <1>0, <1>1, SameStream DEF vars, wireVars, dispatchVars
<1>2. CASE DispatchNext
  <2> DEFINE m == [kind |-> "event", seq |-> Head(output)]
  <2>1. Head(output) \in Seqs
    BY <1>2, HeadTailProperties DEF StreamTypeOK, DispatchNext, Take
  <2>2. m \in Message /\ m.seq = Head(output)
    BY <2>1 DEF Message, Kind
  <2>3. m.seq > lastSeq /\ lastSeq' = m.seq
    BY <1>2, <2>1, <2>2 DEF StreamTypeOK, DispatchNext, Accepts, NoSeq, Seqs
  <2>4. CASE Deliver(m)
    <3>1. stream' = Append(stream, m)
      BY <2>4 DEF Deliver
    <3> QED
      BY <1>0, <2>2, <2>3, <3>1, AppendKeepsOrder
  <2>5. CASE UNCHANGED wireVars
    <3>1. stream' = stream
      BY <2>5 DEF wireVars
    <3>2. StreamOrdered'
      BY <1>0, <3>1 DEF StreamOrdered
    <3>3. stream # <<>> => stream[Len(stream)].seq \in Nat
      <4>1. stream \in Seq(Message)
        BY DEF StreamTypeOK
      <4>2. stream # <<>> => Len(stream) \in 1 .. Len(stream)
        BY <4>1
      <4> QED
        BY <4>2, StreamSeqs
    <3>4. lastSeq \in Nat /\ m.seq \in Nat
      BY <2>1, <2>2 DEF StreamTypeOK, Seqs, NoSeq
    <3>5. LastSeqCovers'
      <4> HIDE DEF m
      <4> QED BY <1>0, <2>3, <3>1, <3>3, <3>4 DEF LastSeqCovers
    <3> QED
      BY <3>2, <3>5
  <2> QED
    BY <1>2, <2>4, <2>5 DEF DispatchNext
<1>3. CASE Reseed
  <2>1. CASE gapSnap # NoSeq /\ (lastSeq = NoSeq \/ gapSnap > lastSeq)
    <3> DEFINE m == [kind |-> "snapshot", seq |-> gapSnap]
    <3>1. m \in Message /\ m.seq = gapSnap
      BY <2>1 DEF StreamTypeOK, Message, Kind
    <3>2. m.seq > lastSeq
      BY <2>1, <3>1 DEF StreamTypeOK, Seqs, NoSeq
    <3>3. stream' = Append(stream, m) /\ lastSeq' = m.seq
      BY <1>3, <2>1 DEF Reseed, Deliver
    <3> QED
      BY <1>0, <3>1, <3>2, <3>3, AppendKeepsOrder
  <2>2. CASE ~(gapSnap # NoSeq /\ (lastSeq = NoSeq \/ gapSnap > lastSeq))
    BY <1>0, <1>3, <2>2, SameStream DEF Reseed, wireVars
  <2> QED
    BY <2>1, <2>2
<1>4. CASE Apply
  <2>1. ~registered /\ Register
    BY <1>4 DEF StreamInv, Initializing, Apply
  <2>2. CASE fetched = NoSeq
    <3>1. stream' = <<>>
      BY <2>1, <2>2 DEF Register
    <3> QED
      BY <3>1 DEF StreamOrdered, LastSeqCovers
  <2>3. CASE fetched # NoSeq
    <3>1. stream' = <<[kind |-> "snapshot", seq |-> fetched]>> /\ lastSeq' = fetched
      BY <2>1, <2>3 DEF Register
    <3> QED
      BY <3>1 DEF StreamOrdered, LastSeqCovers, StreamTypeOK, Seqs, NoSeq
  <2> QED
    BY <2>2, <2>3
<1>5. CASE Unsubscribe
  <2>1. stream' = <<>>
    BY <1>5 DEF Unsubscribe
  <2> QED
    BY <2>1 DEF StreamOrdered, LastSeqCovers
<1> QED
  BY <1>0, <1>1, <1>2, <1>3, <1>4, <1>5, QuietSteps, SameStream

(* What a client chose when it connected stays, and so do the events.      *)
LEMMA ModeStays ==
  ASSUME [Next]_vars
  PROVE  UNCHANGED <<mode, topic>>
PROOF
<1>0. CASE UNCHANGED vars
  BY <1>0 DEF vars
<1>1. CASE Update
  BY <1>1 DEF Update
<1>2. CASE Publish
  BY <1>2 DEF Publish, Send
<1>3. CASE PublishAmbiguous
  BY <1>3 DEF PublishAmbiguous, Send
<1>4. CASE EngineReplays
  BY <1>4 DEF EngineReplays
<1>5. CASE LinkBreaks
  BY <1>5 DEF LinkBreaks
<1>6. CASE LinkResumes \/ Applied
  BY <1>6 DEF LinkResumes, Applied
<1>7. CASE Fanout
  BY <1>7 DEF Fanout
<1>8. CASE Flush
  BY <1>8 DEF Flush
<1>9. CASE OtherSymbol
  BY <1>9 DEF OtherSymbol
<1>10. CASE DispatchOther
  BY <1>10 DEF DispatchOther, Reply, Take
<1>11. CASE DispatchStale
  BY <1>11 DEF DispatchStale, Take
<1>12. CASE DispatchNext
  BY <1>12 DEF DispatchNext, Take
<1>13. CASE DispatchGap
  BY <1>13 DEF DispatchGap, Take
<1>14. CASE GapRead
  BY <1>14 DEF GapRead
<1>15. CASE GapReadRaises
  BY <1>15 DEF GapReadRaises
<1>16. CASE Reseed
  BY <1>16 DEF Reseed
<1>17. CASE Write
  BY <1>17 DEF Write
<1>18. CASE WriteFails
  BY <1>18 DEF WriteFails
<1>19. CASE Subscribe
  BY <1>19 DEF Subscribe
<1>20. CASE Refuse
  BY <1>20 DEF Refuse, Reply
<1>21. CASE Fetch
  BY <1>21 DEF Fetch
<1>22. CASE FetchRaises
  BY <1>22 DEF FetchRaises, RollBack, Reply
<1>23. CASE Overflow
  BY <1>23 DEF Overflow, RollBack, Reply
<1>24. CASE Apply
  BY <1>24 DEF Apply, Register
<1>25. CASE Unsubscribe
  BY <1>25 DEF Unsubscribe
<1>26. CASE Leave
  BY <1>26 DEF Leave
<1>27. CASE Cleanup
  BY <1>27 DEF Cleanup
<1> QED
  BY <1>0, <1>1, <1>2, <1>3, <1>4, <1>5, <1>6, <1>7, <1>8, <1>9, <1>10, <1>11, <1>12, <1>13, <1>14, <1>15, <1>16, <1>17, <1>18, <1>19, <1>20, <1>21, <1>22, <1>23, <1>24, <1>25, <1>26, <1>27
     DEF Next, Engine, Delivery, Dispatch, Handle

(* So the numbers of the events and the newest publication change only     *)
(* with what is published.                                                 *)
LEMMA LatestStays ==
  ASSUME [Next]_vars
  PROVE  /\ topic' = topic /\ InSequence' = InSequence
         /\ pub' = pub => Latest' = Latest
PROOF
<1>1. topic' = topic
  BY ModeStays
<1> QED
  BY <1>1 DEF InSequence, Latest

(* The rest of the inductive invariant.                                    *)
LEMMA StreamGuardsNext ==
  ASSUME StreamTypeOK, StreamInv, ~Resubscribes, [Next]_vars
  PROVE  /\ (phase = "publish" => next <= Len(topic))'
         /\ (Initializing => ~registered)'
PROOF
<1> USE DEF StreamInv, Initializing, engineVars, handlerVars
<1>1. CASE UNCHANGED vars
  BY <1>1 DEF vars
<1>2. CASE Update
  BY <1>2 DEF Update
<1>3. CASE Publish
  BY <1>3 DEF Publish, Send
<1>4. CASE PublishAmbiguous
  BY <1>4 DEF PublishAmbiguous, Send
<1>5. CASE EngineReplays
  BY <1>5 DEF EngineReplays
<1>6. CASE LinkBreaks
  BY <1>6 DEF LinkBreaks
<1>7. CASE LinkResumes \/ Applied
  BY <1>7 DEF LinkResumes, Applied
<1>8. CASE Fanout
  BY <1>8 DEF Fanout
<1>9. CASE Flush
  BY <1>9 DEF Flush
<1>10. CASE OtherSymbol
  BY <1>10 DEF OtherSymbol
<1>11. CASE DispatchOther
  BY <1>11 DEF DispatchOther
<1>12. CASE DispatchStale
  BY <1>12 DEF DispatchStale
<1>13. CASE DispatchNext
  BY <1>13 DEF DispatchNext
<1>14. CASE DispatchGap
  BY <1>14 DEF DispatchGap
<1>15. CASE GapRead
  BY <1>15 DEF GapRead
<1>16. CASE GapReadRaises
  BY <1>16 DEF GapReadRaises
<1>17. CASE Reseed
  BY <1>17 DEF Reseed
<1>18. CASE Write
  BY <1>18 DEF Write
<1>19. CASE WriteFails
  BY <1>19 DEF WriteFails
<1>20. CASE Subscribe
  BY <1>20 DEF Subscribe
<1>21. CASE Refuse
  BY <1>21 DEF Refuse
<1>22. CASE Fetch
  BY <1>22 DEF Fetch
<1>23. CASE FetchRaises
  BY <1>23 DEF FetchRaises, RollBack
<1>24. CASE Overflow
  BY <1>24 DEF Overflow, RollBack
<1>25. CASE Apply
  BY <1>25 DEF Apply, Register
<1>26. CASE Unsubscribe
  BY <1>26 DEF Unsubscribe
<1>27. CASE Leave
  BY <1>27 DEF Leave
<1>28. CASE Cleanup
  BY <1>28 DEF Cleanup
<1> QED
  BY <1>1, <1>2, <1>3, <1>4, <1>5, <1>6, <1>7, <1>8, <1>9, <1>10, <1>11, <1>12, <1>13, <1>14, <1>15, <1>16, <1>17, <1>18, <1>19, <1>20, <1>21, <1>22, <1>23, <1>24, <1>25, <1>26, <1>27, <1>28
     DEF Next, Engine, Delivery, Dispatch, Handle

(* The initial states satisfy both.                                        *)
LEMMA StreamInit ==
  ASSUME Init
  PROVE  StreamTypeOK /\ StreamInv
PROOF
<1> USE StreamAssumption
<1>1. budget \in [Bounds -> Nat]
  BY DEF Init, Bounds
<1>2. FlagsOK
  BY Zenon DEF Init, FlagsOK
<1>3. StreamTypeOK
  <2>1. /\ next \in 1 .. Len(topic) + 1 /\ phase \in {"update", "publish"}
        /\ {snap, pub, fetched, lastSeq, agg, gapSnap} \subseteq Seqs \cup {NoSeq}
    BY DEF Init, NoSeq
  <2>2. /\ chan \in Seq(Seqs) /\ stream \in Seq(Message)
        /\ initEvents \in Seq(Seqs) /\ Len(initEvents) <= InitMax
        /\ output \in Seq(Seqs \cup {Other}) /\ Len(output) <= OutputMax
        /\ out \in 0 .. OutMax
    BY DEF Init
  <2>3. /\ hpc = "idle" /\ dpc = "next" /\ mode \in Modes /\ topic \in Topics
        /\ link \in {"down", "asked", "live"}
    BY DEF Init
  <2>4. pub \in 0 .. Len(topic)
    BY DEF Init
  <2> QED
    BY <1>1, <1>2, <2>1, <2>2, <2>3, <2>4 DEF StreamTypeOK
<1>4. StreamInv
  BY DEF Init, StreamInv, StreamOrdered, LastSeqCovers, Initializing
<1> QED
  BY <1>3, <1>4

(* For every mode, filter, queue size and bound: if the client does not    *)
(* subscribe to what it is subscribed to, StreamTypeOK and StreamInv hold. *)
THEOREM StreamInvariant ==
  ASSUME ~Resubscribes
  PROVE  Spec => [](StreamTypeOK /\ StreamInv)
PROOF
<1>1. Init => StreamTypeOK /\ StreamInv
  BY StreamInit
<1>2. StreamTypeOK /\ StreamInv /\ [Next]_vars => (StreamTypeOK /\ StreamInv)'
  BY StreamTypeNext, StreamOrderNext, StreamGuardsNext DEF StreamInv
<1> QED
  BY <1>1, <1>2, PTL DEF Spec

(* What a client is sent within one subscription strictly increases.       *)
THEOREM ClientStreamOrdered ==
  ASSUME ~Resubscribes
  PROVE  Spec => []StreamOrdered
PROOF
<1>1. StreamInv => StreamOrdered
  BY DEF StreamInv
<1> QED
  BY <1>1, StreamInvariant, PTL
-----------------------------------------------------------------------------
(* The rest of the session's safety.  What follows needs no restriction on *)
(* what the client asks for.                                               *)

(* What the engine's steps alone change.                                   *)
LEMMA EngineAside ==
  ASSUME Next, ~Update, ~Publish, ~PublishAmbiguous, ~EngineReplays
  PROVE  UNCHANGED <<next, phase, snap, pub>>
PROOF
<1> USE DEF engineVars
<1>1. CASE LinkBreaks
  BY <1>1 DEF LinkBreaks
<1>2. CASE LinkResumes \/ Applied
  BY <1>2 DEF LinkResumes, Applied
<1>3. CASE Fanout
  BY <1>3 DEF Fanout
<1>4. CASE Flush
  BY <1>4 DEF Flush
<1>5. CASE OtherSymbol
  BY <1>5 DEF OtherSymbol
<1>6. CASE DispatchOther
  BY <1>6 DEF DispatchOther, Reply, Take
<1>7. CASE DispatchStale
  BY <1>7 DEF DispatchStale, Take
<1>8. CASE DispatchNext
  BY <1>8 DEF DispatchNext, Take
<1>9. CASE DispatchGap
  BY <1>9 DEF DispatchGap, Take
<1>10. CASE GapRead
  BY <1>10 DEF GapRead
<1>11. CASE GapReadRaises
  BY <1>11 DEF GapReadRaises
<1>12. CASE Reseed
  BY <1>12 DEF Reseed
<1>13. CASE Write
  BY <1>13 DEF Write
<1>14. CASE WriteFails
  BY <1>14 DEF WriteFails
<1>15. CASE Subscribe
  BY <1>15 DEF Subscribe
<1>16. CASE Refuse
  BY <1>16 DEF Refuse, Reply
<1>17. CASE Fetch
  BY <1>17 DEF Fetch
<1>18. CASE FetchRaises
  BY <1>18 DEF FetchRaises, RollBack, Reply
<1>19. CASE Overflow
  BY <1>19 DEF Overflow, RollBack, Reply
<1>20. CASE Apply
  BY <1>20 DEF Apply, Register
<1>21. CASE Unsubscribe
  BY <1>21 DEF Unsubscribe
<1>22. CASE Leave
  BY <1>22 DEF Leave
<1>23. CASE Cleanup
  BY <1>23 DEF Cleanup
<1> QED
  BY <1>1, <1>2, <1>3, <1>4, <1>5, <1>6, <1>7, <1>8, <1>9, <1>10, <1>11, <1>12, <1>13, <1>14, <1>15, <1>16, <1>17, <1>18, <1>19, <1>20, <1>21, <1>22, <1>23
     DEF Next, Engine, Delivery, Dispatch, Handle

(* The engine publishes one of the symbol's events.                        *)
LEMMA PhaseNext ==
  ASSUME phase = "publish" => next <= Len(topic), [Next]_vars
  PROVE  (phase = "publish" => next <= Len(topic))'
PROOF
<1>1. CASE UNCHANGED vars
  BY <1>1 DEF vars, engineVars
<1>2. CASE Update
  BY <1>2 DEF Update
<1>3. CASE Publish \/ PublishAmbiguous
  BY <1>3 DEF Publish, PublishAmbiguous, Send
<1>4. CASE EngineReplays
  BY <1>4 DEF EngineReplays
<1> QED
  BY <1>1, <1>2, <1>3, <1>4, EngineAside, ModeStays

(* Every variable keeps its type, whatever the client, the engine and      *)
(* Redis do: no queue outgrows its limit, no sequence but the symbol's is  *)
(* ever accepted or enqueued.                                              *)
THEOREM StreamTypes == Spec => []StreamTypeOK
PROOF
<1>1. Init => StreamTypeOK /\ (phase = "publish" => next <= Len(topic))
  BY StreamInit DEF StreamInv
<1>2. /\ StreamTypeOK /\ (phase = "publish" => next <= Len(topic)) /\ [Next]_vars
      => StreamTypeOK' /\ (phase = "publish" => next <= Len(topic))'
  BY StreamTypeNext, PhaseNext
<1> QED
  BY <1>1, <1>2, PTL DEF Spec

(* Appending a snapshot, or the successor of the accepted sequence, keeps  *)
(* what a RAW client is sent contiguous.                                   *)
LEMMA AppendKeepsContiguous ==
  ASSUME StreamTypeOK, RawTail, Raw, ~Filtered, NEW m \in Message,
         m.kind = "event" => lastSeq = NoSeq \/ m.seq = lastSeq + 1,
         stream' = Append(stream, m), lastSeq' = m.seq
  PROVE  RawTail'
PROOF
<1>1. stream \in Seq(Message) /\ Len(stream) \in Nat
  BY DEF StreamTypeOK
<1>2. /\ Len(stream') = Len(stream) + 1 /\ DOMAIN stream' = 1 .. Len(stream) + 1
      /\ DOMAIN stream = 1 .. Len(stream)
      /\ \A i \in 1 .. Len(stream) : stream'[i] = stream[i]
      /\ stream'[Len(stream) + 1] = m
  BY <1>1, AppendProperties
<1>3. ASSUME NEW i \in DOMAIN stream', i > 1, stream'[i].kind = "event"
      PROVE  stream'[i].seq = stream'[i - 1].seq + 1
  <2>1. i - 1 \in 1 .. Len(stream) /\ stream'[i - 1] = stream[i - 1]
    BY <1>1, <1>2, <1>3
  <2>2. CASE i \in 1 .. Len(stream)
    BY <1>2, <1>3, <2>1, <2>2 DEF RawTail, RawContiguous
  <2>3. CASE i = Len(stream) + 1
    <3>1. m.kind = "event" /\ i - 1 = Len(stream) /\ stream # <<>>
      BY <1>1, <1>2, <1>3, <2>3
    <3>2. lastSeq = stream[i - 1].seq
      BY <3>1 DEF RawTail
    <3>3. lastSeq # NoSeq
      <4>1. \A x \in Message : x.seq \in Seqs
        BY DEF Message
      <4>2. stream[i - 1] \in Message
        BY <1>1, <2>1
      <4>3. lastSeq \in Seqs
        BY <3>2, <4>1, <4>2
      <4> QED
        BY <4>3 DEF NoSeq, Seqs
    <3>4. m.seq = lastSeq + 1
      BY <3>1, <3>3
    <3>5. stream'[i] = m /\ stream'[i - 1].seq = lastSeq
      BY <1>2, <2>1, <2>3, <3>2
    <3> QED
      BY <3>4, <3>5, Zenon
  <2>4. i \in 1 .. Len(stream) \/ i = Len(stream) + 1
    BY <1>1, <1>2
  <2> QED
    BY <2>2, <2>3, <2>4, Zenon
<1>4. lastSeq' = stream'[Len(stream')].seq
  BY <1>2
<1> QED
  BY <1>3, <1>4 DEF RawTail, RawContiguous

(* Every step keeps what a RAW client is sent contiguous.                  *)
LEMMA RawTailNext ==
  ASSUME StreamTypeOK, RawTail, [Next]_vars
  PROVE  RawTail'
PROOF
<1>0. mode' = mode
  BY ModeStays
<1>1. CASE UNCHANGED <<stream, lastSeq>>
  BY <1>0, <1>1 DEF RawTail, RawContiguous, Raw, Filtered
<1> SUFFICES ASSUME Raw, ~Filtered
             PROVE  RawTail'
  BY <1>0 DEF RawTail, RawContiguous, Raw, Filtered
<1>2. CASE DispatchNext
  <2> DEFINE m == [kind |-> "event", seq |-> Head(output)]
  <2>1. Head(output) \in Seqs
    BY <1>2, HeadTailProperties DEF StreamTypeOK, DispatchNext, Take
  <2>2. m \in Message /\ m.seq = Head(output)
    BY <2>1 DEF Message, Kind
  <2>3. Deliver(m) /\ lastSeq' = m.seq /\ (lastSeq = NoSeq \/ m.seq = lastSeq + 1)
    BY <1>2, <2>2 DEF DispatchNext, Accepts
  <2>4. stream' = Append(stream, m)
    BY <2>3 DEF Deliver
  <2> QED
    BY <2>2, <2>3, <2>4, AppendKeepsContiguous
<1>3. CASE Reseed
  <2>1. CASE gapSnap # NoSeq /\ (lastSeq = NoSeq \/ gapSnap > lastSeq)
    <3> DEFINE m == [kind |-> "snapshot", seq |-> gapSnap]
    <3>1. m \in Message /\ m.seq = gapSnap /\ m.kind # "event"
      BY <2>1 DEF StreamTypeOK, Message, Kind
    <3>2. stream' = Append(stream, m) /\ lastSeq' = m.seq
      BY <1>3, <2>1 DEF Reseed, Deliver
    <3> QED
      BY <3>1, <3>2, AppendKeepsContiguous
  <2>2. CASE ~(gapSnap # NoSeq /\ (lastSeq = NoSeq \/ gapSnap > lastSeq))
    BY <1>1, <1>3, <2>2 DEF Reseed, wireVars
  <2> QED
    BY <2>1, <2>2
<1>4. CASE Apply
  <2>1. Register
    BY <1>4 DEF Apply
  <2>2. CASE registered /\ fetched # NoSeq
    <3> DEFINE m == [kind |-> "snapshot", seq |-> fetched]
    <3>1. m \in Message /\ m.seq = fetched /\ m.kind # "event"
      BY <2>2 DEF StreamTypeOK, Message, Kind
    <3>2. stream' = Append(stream, m) /\ lastSeq' = m.seq
      BY <2>1, <2>2 DEF Register
    <3> QED
      BY <3>1, <3>2, AppendKeepsContiguous
  <2>3. CASE registered /\ fetched = NoSeq
    BY <1>1, <2>1, <2>3 DEF Register
  <2>4. CASE ~registered /\ fetched # NoSeq
    <3>1. stream' = <<[kind |-> "snapshot", seq |-> fetched]>> /\ lastSeq' = fetched
      BY <2>1, <2>4 DEF Register
    <3> QED
      BY <3>1 DEF RawTail, RawContiguous
  <2>5. CASE ~registered /\ fetched = NoSeq
    <3>1. stream' = <<>>
      BY <2>1, <2>5 DEF Register
    <3> QED
      BY <3>1 DEF RawTail, RawContiguous
  <2> QED
    BY <2>2, <2>3, <2>4, <2>5
<1>5. CASE Unsubscribe
  <2>1. stream' = <<>>
    BY <1>5 DEF Unsubscribe
  <2> QED
    BY <2>1 DEF RawTail, RawContiguous
<1>6. CASE UNCHANGED vars
  BY <1>1, <1>6 DEF vars, wireVars, dispatchVars
<1> QED
  BY <1>1, <1>2, <1>3, <1>4, <1>5, <1>6, QuietSteps

(* A RAW client without a filter is sent a contiguous stream: an event is  *)
(* the successor of the message before it, whatever was lost, replayed or  *)
(* dropped on the way, and even if the client subscribes again.            *)
THEOREM ClientRawContiguous == Spec => []RawContiguous
PROOF
<1>1. Init => RawTail
  BY DEF Init, RawTail, RawContiguous
<1>2. StreamTypeOK /\ RawTail /\ [Next]_vars => RawTail'
  BY RawTailNext
<1>3. RawTail => RawContiguous
  BY DEF RawTail
<1> QED
  BY <1>1, <1>2, <1>3, StreamTypes, PTL DEF Spec

(* Only these steps register a session, end its handler or move its        *)
(* dispatch loop.                                                          *)
LEMMA DispatchAside ==
  ASSUME Next, ~DispatchGap, ~GapRead, ~GapReadRaises, ~Reseed, ~Subscribe, ~Fetch, ~FetchRaises, ~Overflow, ~Apply, ~Unsubscribe, ~Leave, ~Cleanup
  PROVE  UNCHANGED <<hpc, registered, dpc>>
PROOF
<1> USE DEF handlerVars, dispatchVars
<1>1. CASE Update
  BY <1>1 DEF Update
<1>2. CASE Publish
  BY <1>2 DEF Publish, Send
<1>3. CASE PublishAmbiguous
  BY <1>3 DEF PublishAmbiguous, Send
<1>4. CASE EngineReplays
  BY <1>4 DEF EngineReplays
<1>5. CASE LinkBreaks
  BY <1>5 DEF LinkBreaks
<1>6. CASE LinkResumes \/ Applied
  BY <1>6 DEF LinkResumes, Applied
<1>7. CASE Fanout
  BY <1>7 DEF Fanout
<1>8. CASE Flush
  BY <1>8 DEF Flush
<1>9. CASE OtherSymbol
  BY <1>9 DEF OtherSymbol
<1>10. CASE DispatchOther
  BY <1>10 DEF DispatchOther, Reply, Take
<1>11. CASE DispatchStale
  BY <1>11 DEF DispatchStale, Take
<1>12. CASE DispatchNext
  BY <1>12 DEF DispatchNext, Take
<1>13. CASE Write
  BY <1>13 DEF Write
<1>14. CASE WriteFails
  BY <1>14 DEF WriteFails
<1>15. CASE Refuse
  BY <1>15 DEF Refuse, Reply
<1> QED
  BY <1>1, <1>2, <1>3, <1>4, <1>5, <1>6, <1>7, <1>8, <1>9, <1>10, <1>11, <1>12, <1>13, <1>14, <1>15
     DEF Next, Engine, Delivery, Dispatch, Handle

(* A session that is gone has left the registry, unless its dispatch task  *)
(* had died: the exception it raises in websocket_stream's finally skips   *)
(* the cleanup.                                                            *)
THEOREM SessionLeaves == Spec => []GoneUnlessDispatchDied
PROOF
<1>1. Init => GoneUnlessDispatchDied
  BY DEF Init, GoneUnlessDispatchDied
<1>2. GoneUnlessDispatchDied /\ [Next]_vars => GoneUnlessDispatchDied'
  <2> SUFFICES ASSUME GoneUnlessDispatchDied, [Next]_vars
               PROVE  GoneUnlessDispatchDied'
    OBVIOUS
  <2>1. CASE UNCHANGED <<hpc, registered, dpc>>
    BY <2>1, Zenon DEF GoneUnlessDispatchDied
  <2>2. CASE DispatchGap
    BY <2>2 DEF GoneUnlessDispatchDied, DispatchGap, Take, handlerVars
  <2>3. CASE GapRead \/ GapReadRaises
    BY <2>3 DEF GoneUnlessDispatchDied, GapRead, GapReadRaises, handlerVars
  <2>4. CASE Reseed
    BY <2>4 DEF GoneUnlessDispatchDied, Reseed, handlerVars
  <2>5. CASE Subscribe \/ Fetch \/ FetchRaises \/ Overflow \/ Apply
    <3>1. hpc' # "gone"
      BY <2>5 DEF Subscribe, Fetch, FetchRaises, Overflow, RollBack, Apply, Register
    <3> QED
      BY <3>1, Zenon DEF GoneUnlessDispatchDied
  <2>6. CASE Unsubscribe \/ Cleanup
    <3>1. registered' = FALSE
      BY <2>6, Zenon DEF Unsubscribe, Cleanup
    <3> QED
      BY <3>1, Zenon DEF GoneUnlessDispatchDied
  <2>7. CASE Leave
    <3>1. hpc' = "gone" => dpc' = "dead"
      BY <2>7 DEF Leave
    <3> QED
      BY <3>1, Zenon DEF GoneUnlessDispatchDied
  <2>8. CASE UNCHANGED vars
    BY <2>1, <2>8, Zenon DEF vars, handlerVars, dispatchVars
  <2> QED
    BY <2>1, <2>2, <2>3, <2>4, <2>5, <2>6, <2>7, <2>8, DispatchAside
<1> QED
  BY <1>1, <1>2, PTL DEF Spec

-----------------------------------------------------------------------------
(* The handoff.  A bounded queue keeps the last of its entries, ...        *)
LEMMA NewestKeepsLast ==
  ASSUME NEW S, NEW q \in Seq(S), q # <<>>, NEW max \in Nat \ {0}
  PROVE  /\ Newest(q, max) \in Seq(S) /\ Newest(q, max) # <<>>
         /\ Newest(q, max)[Len(Newest(q, max))] = q[Len(q)]
PROOF
<1>1. CASE Len(q) <= max
  BY <1>1 DEF Newest
<1>2. CASE Len(q) > max
  <2> DEFINE m == Len(q) - max + 1
             r == SubSeq(q, m, Len(q))
  <2>1. m \in Int /\ Len(q) \in Int /\ m >= 1 /\ m <= Len(q) /\ \A i \in m .. Len(q) : q[i] \in S
    BY <1>2
  <2>2. /\ r \in Seq(S) /\ Len(r) = Len(q) - m + 1
        /\ \A i \in 1 .. Len(q) - m + 1 : r[i] = q[m + i - 1]
    <3> HIDE DEF m
    <3> QED BY <2>1, SubSeqProperties
  <2>3. Newest(q, max) = r
    BY <1>2 DEF Newest
  <2> HIDE DEF r, m
  <2>4. Len(r) \in 1 .. Len(q) - m + 1 /\ m + Len(r) - 1 = Len(q)
    BY <2>1, <2>2
  <2>5. r[Len(r)] = q[Len(q)] /\ r # <<>>
    BY <2>2, <2>4
  <2> QED
    BY <2>2, <2>3, <2>5
<1> QED
  BY <1>1, <1>2

(* ... so the symbol's last entry is lost only with all the others.        *)
LEMMA NewestTracked ==
  ASSUME NEW S, NEW q \in Seq(S), NEW max \in Nat \ {0}, NEW x, LastTracked(q, x)
  PROVE  LastTracked(Newest(q, max), x) \/ Tracked(Newest(q, max)) = {}
PROOF
<1>1. CASE Len(q) <= max
  BY <1>1 DEF Newest
<1>2. CASE Len(q) > max
  <2> DEFINE m == Len(q) - max + 1
             r == SubSeq(q, m, Len(q))
  <2>1. m \in Int /\ Len(q) \in Int /\ m >= 1 /\ m <= Len(q) /\ \A i \in m .. Len(q) : q[i] \in S
    BY <1>2
  <2>2. /\ r \in Seq(S) /\ Len(r) = Len(q) - m + 1
        /\ \A i \in 1 .. Len(q) - m + 1 : r[i] = q[m + i - 1]
    <3> HIDE DEF m
    <3> QED BY <2>1, SubSeqProperties
  <2>3. Newest(q, max) = r
    BY <1>2 DEF Newest
  <2>4. PICK i \in 1 .. Len(q) : q[i] = x /\ \A j \in 1 .. Len(q) : j > i => q[j] = Other
    BY DEF LastTracked
  <2> HIDE DEF r, m
  <2>5. DOMAIN r = 1 .. Len(q) - m + 1
    BY <2>2
  <2>6. CASE i >= m
    <3>1. i - m + 1 \in DOMAIN r /\ r[i - m + 1] = x
      <4>1. i - m + 1 \in 1 .. Len(q) - m + 1 /\ m + (i - m + 1) - 1 = i
        BY <2>1, <2>6
      <4> QED
        BY <2>2, <2>4, <2>5, <4>1
    <3>2. ASSUME NEW j \in DOMAIN r, j > i - m + 1
          PROVE  r[j] = Other
      <4>1. m + j - 1 \in 1 .. Len(q) /\ m + j - 1 > i /\ j \in 1 .. Len(q) - m + 1
        BY <2>1, <2>5, <3>2
      <4> QED
        BY <2>2, <2>4, <4>1
    <3> QED
      BY <2>3, <3>1, <3>2 DEF LastTracked
  <2>7. CASE i < m
    <3>1. ASSUME NEW j \in DOMAIN r
          PROVE  r[j] = Other
      <4>1. m + j - 1 \in 1 .. Len(q) /\ m + j - 1 > i /\ j \in 1 .. Len(q) - m + 1
        BY <2>1, <2>5, <2>7
      <4> QED
        BY <2>2, <2>4, <4>1
    <3> QED
      BY <2>3, <3>1 DEF Tracked
  <2> QED
    BY <2>1, <2>6, <2>7
<1> QED
  BY <1>1, <1>2

(* The last of a queue is the last of the symbol's, if it is one.          *)
LEMMA LastIsTracked ==
  ASSUME NEW S, NEW q \in Seq(S), q # <<>>
  PROVE  LastTracked(q, q[Len(q)])
PROOF
<1>1. Len(q) \in DOMAIN q /\ \A j \in DOMAIN q : ~(j > Len(q))
  OBVIOUS
<1> QED
  BY <1>1 DEF LastTracked

(* Taking another entry from the head leaves it in place.                  *)
LEMMA TailTracked ==
  ASSUME NEW S, NEW q \in Seq(S), q # <<>>, NEW x, LastTracked(q, x), Head(q) # x
  PROVE  LastTracked(Tail(q), x)
PROOF
<1>1. PICK i \in 1 .. Len(q) : q[i] = x /\ \A j \in 1 .. Len(q) : j > i => q[j] = Other
  BY DEF LastTracked
<1>2. /\ Len(q) \in Nat /\ Head(q) = q[1] /\ DOMAIN Tail(q) = 1 .. Len(q) - 1
      /\ \A j \in 1 .. Len(q) - 1 : Tail(q)[j] = q[j + 1]
  BY HeadTailProperties
<1>3. i - 1 \in 1 .. Len(q) - 1 /\ (i - 1) + 1 = i
  BY <1>1, <1>2
<1>4. Tail(q)[i - 1] = x
  BY <1>1, <1>2, <1>3
<1>5. ASSUME NEW j \in 1 .. Len(q) - 1, j > i - 1
      PROVE  Tail(q)[j] = Other
  <2>1. j + 1 \in 1 .. Len(q) /\ j + 1 > i
    BY <1>2, <1>5
  <2> QED
    BY <1>1, <1>2, <2>1
<1> QED
  BY <1>2, <1>3, <1>4, <1>5 DEF LastTracked

(* Another symbol's entry behind it does not matter.                       *)
LEMMA AppendTracked ==
  ASSUME NEW S, Other \in S, NEW q \in Seq(S), NEW x, LastTracked(q, x)
  PROVE  LastTracked(Append(q, Other), x)
PROOF
<1>1. PICK i \in 1 .. Len(q) : q[i] = x /\ \A j \in 1 .. Len(q) : j > i => q[j] = Other
  BY DEF LastTracked
<1>2. /\ Len(q) \in Nat /\ DOMAIN Append(q, Other) = 1 .. Len(q) + 1
      /\ \A j \in 1 .. Len(q) : Append(q, Other)[j] = q[j]
      /\ Append(q, Other)[Len(q) + 1] = Other
  BY AppendProperties
<1>3. i \in DOMAIN Append(q, Other) /\ Append(q, Other)[i] = x
  BY <1>1, <1>2
<1>4. ASSUME NEW j \in DOMAIN Append(q, Other), j > i
      PROVE  Append(q, Other)[j] = Other
  <2>1. j \in 1 .. Len(q) \/ j = Len(q) + 1
    BY <1>2
  <2> QED
    BY <1>1, <1>2, <1>4, <2>1
<1> QED
  BY <1>3, <1>4 DEF LastTracked

(* Sorting the initialization buffer and dropping what the snapshot covers *)
(* leaves the newest event last, if the snapshot does not cover it.        *)
LEMMA AboveKeepsTop ==
  ASSUME NEW s \in Seq(Seqs), NEW t \in Sorted(s), NEW x \in Seqs,
         NEW a \in DOMAIN s, s[a] = x, \A i \in DOMAIN s : s[i] <= x,
         NEW seq \in Nat, seq < x
  PROVE  Above(t, seq) # <<>> /\ Above(t, seq)[Len(Above(t, seq))] = x
PROOF
<1> DEFINE n == Len(s)
           c == Cardinality({i \in DOMAIN t : t[i] <= seq})
<1>1. n \in Nat /\ DOMAIN s = 1 .. n /\ n >= 1 /\ n \in DOMAIN s /\ x \in Nat
  BY DEF Seqs
<1>2. /\ t \in Seq(Seqs) /\ DOMAIN t = 1 .. n /\ Len(t) = n
      /\ \A i \in 1 .. n : t[i] \in {s[j] : j \in 1 .. n}
      /\ \A i, j \in 1 .. n : i < j => t[i] <= t[j]
      /\ Count(t, x) = Count(s, x)
  <2>1. t \in [1 .. n -> {s[j] : j \in 1 .. n}]
    BY <1>1 DEF Sorted
  <2>2. \A i, j \in 1 .. n : i < j => t[i] <= t[j]
    BY <1>1 DEF Sorted
  <2>3. Count(t, s[a]) = Count(s, s[a])
    BY DEF Sorted
  <2>4. t \in Seq(Seqs)
    BY SortedType
  <2> QED
    BY <1>1, <2>1, <2>2, <2>3, <2>4
<1>3. ASSUME NEW i \in 1 .. n
      PROVE  t[i] \in Nat /\ t[i] <= x
  <2>1. PICK j \in 1 .. n : t[i] = s[j]
    BY <1>2
  <2>2. s[j] \in Seqs /\ s[j] <= x
    BY <1>1
  <2>3. s[j] \in Nat
    BY <2>2 DEF Seqs
  <2> QED
    BY <2>1, <2>2, <2>3
<1>4. \E j \in 1 .. n : t[j] = x
  <2>1. SUFFICES ASSUME \A j \in 1 .. n : t[j] # x
                 PROVE  FALSE
    OBVIOUS
  <2>2. {i \in DOMAIN t : t[i] = x} = {}
    BY <1>2, <2>1
  <2>3. Count(s, x) = 0
    BY <1>2, <2>2, FS_EmptySet DEF Count
  <2>4. IsFiniteSet({i \in DOMAIN s : s[i] = x})
    <3>1. IsFiniteSet(1 .. n)
      BY <1>1, FS_Interval
    <3> QED
      BY <1>1, <3>1, FS_Subset
  <2>5. {i \in DOMAIN s : s[i] = x} = {}
    BY <2>3, <2>4, FS_EmptySet DEF Count
  <2> QED
    BY <2>5
<1>5. t[n] = x
  <2>1. PICK j \in 1 .. n : t[j] = x
    BY <1>4
  <2>2. x <= t[n]
    <3>1. t[j] \in Nat /\ (j = n \/ j < n) /\ n \in 1 .. n
      <4>1. j \in 1 .. n /\ n \in Nat
        BY <1>1
      <4>2. (j = n \/ j < n) /\ n \in 1 .. n
        <5> HIDE DEF n
        <5> QED BY <4>1
      <4> QED
        BY <1>3, <4>2
    <3>2. j < n => t[j] <= t[n]
      BY <1>2, <3>1
    <3> QED
      BY <1>1, <2>1, <3>1, <3>2
  <2>3. t[n] \in Nat /\ t[n] <= x
    BY <1>1, <1>3
  <2> QED
    BY <1>1, <2>2, <2>3
<1>6. c \in Nat /\ c <= n - 1
  <2> DEFINE D == {i \in DOMAIN t : t[i] <= seq}
  <2>1. D \subseteq 1 .. n - 1
    <3>1. ASSUME NEW i \in D
          PROVE  i \in 1 .. n - 1
      <4>1. i \in 1 .. n /\ t[i] <= seq
        BY <1>2, <3>1
      <4>2. i # n
        BY <1>1, <1>5, <4>1
      <4> QED
        BY <1>1, <4>1, <4>2
    <3> QED
      BY <3>1
  <2>2. IsFiniteSet(1 .. n - 1) /\ Cardinality(1 .. n - 1) = n - 1
    <3>1. 1 \in Int /\ n - 1 \in Int /\ (n - 1) - 1 + 1 = n - 1 /\ (1 > n - 1 => n - 1 = 0)
      BY <1>1
    <3>2. /\ IsFiniteSet(1 .. n - 1)
          /\ Cardinality(1 .. n - 1) = IF 1 > n - 1 THEN 0 ELSE (n - 1) - 1 + 1
      BY <3>1, FS_Interval
    <3> QED
      BY <3>1, <3>2
  <2> HIDE DEF D
  <2>3. Cardinality(D) \in Nat /\ Cardinality(D) <= n - 1
    <3>1. IsFiniteSet(D) /\ Cardinality(D) <= Cardinality(1 .. n - 1)
      <4> HIDE DEF n
      <4> QED
        BY <2>1, <2>2, FS_Subset
    <3>2. Cardinality(D) \in Nat
      BY <3>1, FS_CardinalityType
    <3> QED
      BY <2>2, <3>1, <3>2
  <2> QED
    BY <2>3 DEF D
<1>7. Above(t, seq) = SubSeq(t, c + 1, n)
  BY <1>2 DEF Above
<1> HIDE DEF c
<1> DEFINE r == SubSeq(t, c + 1, n)
<1>8. /\ Len(r) = n - (c + 1) + 1
      /\ \A i \in 1 .. n - (c + 1) + 1 : r[i] = t[(c + 1) + i - 1]
      /\ r \in Seq(Seqs)
  <2>1. c + 1 \in Int /\ n \in Int /\ c + 1 <= n /\ \A i \in c + 1 .. n : t[i] \in Seqs
    BY <1>1, <1>2, <1>6
  <2> HIDE DEF n
  <2> QED
    BY <2>1, SubSeqProperties
<1> HIDE DEF r
<1>9. Len(r) \in 1 .. n - (c + 1) + 1 /\ (c + 1) + Len(r) - 1 = n
  <2> HIDE DEF n
  <2> QED
    BY <1>1, <1>6, <1>8
<1>10. r[Len(r)] = x /\ r # <<>>
  BY <1>5, <1>8, <1>9
<1> QED
  BY <1>7, <1>10 DEF r

(* Pushing events into the aggregator makes the last of them the last that *)
(* the aggregator holds of the symbol.                                     *)
LEMMA PushKeepsLast ==
  ASSUME StreamTypeOK, Raw => agg = NoSeq, NEW s \in Seq(Seqs), s # <<>>, Push(s)
  PROVE  agg' = s[Len(s)] \/ (agg' = NoSeq /\ LastTracked(output', s[Len(s)]))
PROOF
<1>1. CASE Raw
  <2> DEFINE q == output \o s
  <2>1. s \in Seq(Seqs \cup {Other}) /\ output \in Seq(Seqs \cup {Other})
    BY DEF StreamTypeOK
  <2>2. q \in Seq(Seqs \cup {Other}) /\ q # <<>> /\ q[Len(q)] = s[Len(s)]
    <3>1. /\ Len(s) \in Nat \ {0} /\ Len(output) \in Nat
          /\ q \in Seq(Seqs \cup {Other})
          /\ Len(q) = Len(output) + Len(s)
          /\ \A i \in 1 .. Len(output) + Len(s) :
               q[i] = IF i <= Len(output) THEN output[i] ELSE s[i - Len(output)]
      BY <2>1, ConcatProperties
    <3> HIDE DEF q
    <3>2. /\ Len(q) \in 1 .. Len(output) + Len(s) /\ ~(Len(q) <= Len(output))
          /\ Len(q) - Len(output) = Len(s)
      BY <3>1
    <3> QED
      BY <3>1, <3>2
  <2>3. output' = Newest(q, OutputMax) /\ agg' = NoSeq
    BY <1>1, Zenon DEF Push
  <2> HIDE DEF q
  <2>4. /\ output' \in Seq(Seqs \cup {Other}) /\ output' # <<>>
        /\ output'[Len(output')] = s[Len(s)]
    BY <2>2, <2>3, NewestKeepsLast, StreamAssumption
  <2> QED
    BY <2>3, <2>4, LastIsTracked
<1>2. CASE ~Raw
  BY <1>2 DEF Push
<1> QED
  BY <1>1, <1>2

(* In the RAW mode nothing waits in the aggregation buffer.                *)
LEMMA PushRaw ==
  ASSUME Raw => agg = NoSeq, NEW s, Push(s)
  PROVE  Raw => agg' = NoSeq
  BY DEF Push

(* The last entry of a channel.                                            *)
LEMMA LastAppended ==
  ASSUME NEW S, NEW q \in Seq(S), NEW x \in S
  PROVE  /\ Append(q, x) # <<>> /\ Append(q, x)[Len(Append(q, x))] = x
         /\ \A i \in DOMAIN Append(q, x) : (i \in DOMAIN q /\ Append(q, x)[i] = q[i])
                                           \/ Append(q, x)[i] = x
PROOF
<1>1. /\ Len(q) \in Nat /\ DOMAIN q = 1 .. Len(q)
      /\ DOMAIN Append(q, x) = 1 .. Len(q) + 1 /\ Len(Append(q, x)) = Len(q) + 1
      /\ \A j \in 1 .. Len(q) : Append(q, x)[j] = q[j]
      /\ Append(q, x)[Len(q) + 1] = x
  BY AppendProperties
<1> QED
  BY <1>1

(* In a topic in sequence a publication moves the newest one upwards, and  *)
(* is the newest itself once the engine is past it.                        *)
LEMMA SendSteps ==
  ASSUME StreamTypeOK, phase = "publish" => next <= Len(topic),
         Publish \/ PublishAmbiguous
  PROVE  /\ next \in 1 .. Len(topic) /\ topic[next] \in Seqs
         /\ next' > pub' => Latest' = topic[next]
         /\ InSequence => Latest <= Latest' /\ topic[next] <= Latest'
         /\ chan' = (IF link = "live" THEN Append(chan, topic[next]) ELSE chan)
         /\ chan' # <<>> \/ missed'
         /\ phase = "publish" /\ phase' = "update" /\ snap' = snap
PROOF
<1>1. /\ Send /\ (next' = next + 1 \/ next' = next) /\ topic' = topic
      /\ phase = "publish" /\ phase' = "update" /\ snap' = snap
  BY DEF Publish, PublishAmbiguous, Send
<1>2. next \in 1 .. Len(topic) /\ topic[next] \in Seqs /\ Len(topic) \in Nat
  BY <1>1, SendType, TopicType
<1>3. /\ pub' = (IF next > pub THEN next ELSE pub)
      /\ chan' = (IF link = "live" THEN Append(chan, topic[next]) ELSE chan)
      /\ missed' = (link # "live")
  BY <1>1 DEF Send
<1>4. /\ next' > pub' => Latest' = topic[next]
      /\ InSequence => Latest <= Latest' /\ topic[next] <= Latest'
  <2>0. /\ pub \in 0 .. Len(topic) /\ \A i \in 1 .. Len(topic) : topic[i] \in Nat
        /\ Latest \in Nat
    BY TopicType, LatestType DEF StreamTypeOK, Seqs
  <2>1. CASE next > pub
    <3>1. Latest' = topic[next]
      BY <1>1, <1>2, <1>3, <2>0, <2>1 DEF Latest
    <3>2. InSequence => Latest <= topic[next]
      <4>1. CASE pub = 0
        BY <1>2, <2>0, <4>1 DEF Latest, NoSeq
      <4>2. CASE pub # 0
        BY <1>2, <2>0, <2>1, <4>2, TopicType DEF Latest, InSequence
      <4> QED
        BY <4>1, <4>2
    <3> QED
      BY <1>2, <2>0, <3>1, <3>2
  <2>2. CASE ~(next > pub)
    <3>1. pub' = pub /\ pub # 0 /\ pub \in 1 .. Len(topic) /\ next <= pub
      BY <1>2, <1>3, <2>0, <2>2
    <3>2. Latest' = topic[pub] /\ Latest = topic[pub]
      BY <1>1, <3>1 DEF Latest
    <3>3. next' > pub' => next = pub
      BY <1>1, <1>2, <2>0, <3>1
    <3>4. InSequence => topic[next] <= topic[pub]
      <4>1. CASE next = pub
        BY <2>0, <3>1, <4>1
      <4>2. CASE next # pub
        BY <1>2, <2>0, <3>1, <4>2, TopicType DEF InSequence
      <4> QED
        BY <4>1, <4>2
    <3> QED
      BY <2>0, <3>1, <3>2, <3>3, <3>4
  <2> QED
    BY <2>1, <2>2
<1>5. chan' # <<>> \/ missed'
  <2>1. CASE link = "live"
    <3>1. chan \in Seq(Seqs) /\ chan' = Append(chan, topic[next])
      BY <1>3, <2>1 DEF StreamTypeOK
    <3> QED
      BY <1>2, <3>1, LastAppended
  <2>2. CASE link # "live"
    BY <1>3, <2>2
  <2> QED
    BY <2>1, <2>2
<1> QED
  BY <1>1, <1>2, <1>3, <1>4, <1>5

(* Publishing makes the published event the newest, or changes nothing.    *)
LEMMA LatestAfter ==
  ASSUME StreamTypeOK, phase = "publish" => next <= Len(topic),
         Publish \/ PublishAmbiguous
  PROVE  Latest' = Latest \/ Latest' = topic[next]
PROOF
<1>1. pub' = pub \/ pub' = next
  BY DEF Publish, PublishAmbiguous, Send
<1>2. topic' = topic /\ next # 0
  BY SendSteps DEF Publish, PublishAmbiguous
<1>3. CASE pub' = pub
  BY <1>2, <1>3 DEF Latest
<1>4. CASE pub' = next
  BY <1>2, <1>4 DEF Latest
<1> QED
  BY <1>1, <1>3, <1>4

(* What only the engine, the link and the fanout loop change.              *)
LEMMA ChannelAside ==
  ASSUME Next, ~Update, ~Publish, ~PublishAmbiguous, ~EngineReplays, ~LinkBreaks, ~LinkResumes, ~Applied, ~Subscribe, ~Fanout
  PROVE  UNCHANGED <<next, phase, snap, pub, chan, link>>
PROOF
<1> USE DEF engineVars, linkVars
<1>1. CASE Flush
  BY <1>1 DEF Flush
<1>2. CASE OtherSymbol
  BY <1>2 DEF OtherSymbol
<1>3. CASE DispatchOther
  BY <1>3 DEF DispatchOther, Reply, Take
<1>4. CASE DispatchStale
  BY <1>4 DEF DispatchStale, Take
<1>5. CASE DispatchNext
  BY <1>5 DEF DispatchNext, Take
<1>6. CASE DispatchGap
  BY <1>6 DEF DispatchGap, Take
<1>7. CASE GapRead
  BY <1>7 DEF GapRead
<1>8. CASE GapReadRaises
  BY <1>8 DEF GapReadRaises
<1>9. CASE Reseed
  BY <1>9 DEF Reseed
<1>10. CASE Write
  BY <1>10 DEF Write
<1>11. CASE WriteFails
  BY <1>11 DEF WriteFails
<1>12. CASE Refuse
  BY <1>12 DEF Refuse, Reply
<1>13. CASE Fetch
  BY <1>13 DEF Fetch
<1>14. CASE FetchRaises
  BY <1>14 DEF FetchRaises, RollBack, Reply
<1>15. CASE Overflow
  BY <1>15 DEF Overflow, RollBack, Reply
<1>16. CASE Apply
  BY <1>16 DEF Apply, Register
<1>17. CASE Unsubscribe
  BY <1>17 DEF Unsubscribe
<1>18. CASE Leave
  BY <1>18 DEF Leave
<1>19. CASE Cleanup
  BY <1>19 DEF Cleanup
<1> QED
  BY <1>1, <1>2, <1>3, <1>4, <1>5, <1>6, <1>7, <1>8, <1>9, <1>10, <1>11, <1>12, <1>13, <1>14, <1>15, <1>16, <1>17, <1>18, <1>19
     DEF Next, Engine, Delivery, Dispatch, Handle

(* Every step keeps the newest publication last on the channel.            *)
LEMMA ChannelNext ==
  ASSUME StreamTypeOK, phase = "publish" => next <= Len(topic), NewestOnChannel, [Next]_vars
  PROVE  NewestOnChannel'
PROOF
<1>0. InSequence' = InSequence /\ (pub' = pub => Latest' = Latest)
  BY LatestStays
<1>a. \A i \in DOMAIN chan : chan[i] \in Nat
  <2>1. \A i \in DOMAIN chan : chan[i] \in Seqs
    BY DEF StreamTypeOK
  <2>2. \A e \in Seqs : e \in Nat
    BY DEF Seqs
  <2> QED
    BY <2>1, <2>2
<1>1. CASE UNCHANGED <<next, pub, chan>> /\ (link' = link \/ (link # "live" /\ chan = <<>>))
  <2>1. Latest' = Latest /\ UNCHANGED <<next, pub, chan>>
    BY <1>0, <1>1
  <2>2. link' # "live" => chan' = <<>>
    BY <1>1 DEF NewestOnChannel
  <2> QED
    BY <1>0, <2>1, <2>2 DEF NewestOnChannel
<1>2. CASE Update
  BY <1>1, <1>2 DEF Update, linkVars
<1>3. CASE Publish \/ PublishAmbiguous
  <2>1. /\ topic[next] \in Seqs
        /\ next' > pub' => Latest' = topic[next]
        /\ InSequence => Latest <= Latest' /\ topic[next] <= Latest'
        /\ chan' = (IF link = "live" THEN Append(chan, topic[next]) ELSE chan)
    BY <1>3, SendSteps
  <2>2. link' = link
    BY <1>3 DEF Publish, PublishAmbiguous
  <2>3. CASE link = "live"
    <3>1. chan \in Seq(Seqs) /\ chan' = Append(chan, topic[next])
      BY <2>1, <2>3 DEF StreamTypeOK
    <3>2. /\ chan'[Len(chan')] = topic[next]
          /\ \A i \in DOMAIN chan' : \/ i \in DOMAIN chan /\ chan'[i] = chan[i]
                                     \/ chan'[i] = topic[next]
      BY <2>1, <3>1, LastAppended
    <3>3. InSequence => \A i \in DOMAIN chan' : chan'[i] <= Latest'
      <4>1. SUFFICES ASSUME InSequence, NEW i \in DOMAIN chan'
                     PROVE  chan'[i] <= Latest'
        OBVIOUS
      <4>2. Latest \in Nat /\ Latest' \in Nat
        <5>1. Latest \in Nat /\ topic[next] \in Nat
          BY <2>1, LatestType DEF Seqs
        <5> QED
          BY <1>3, <5>1, LatestAfter
      <4>3. CASE i \in DOMAIN chan /\ chan'[i] = chan[i]
        <5>1. chan[i] <= Latest /\ chan[i] \in Nat /\ Latest <= Latest'
          BY <1>a, <2>1, <4>1, <4>3 DEF NewestOnChannel
        <5> QED
          BY <4>2, <4>3, <5>1
      <4>4. CASE chan'[i] = topic[next]
        BY <2>1, <4>1, <4>4
      <4> QED
        BY <3>2, <4>3, <4>4
    <3> QED
      BY <1>0, <2>1, <2>2, <2>3, <3>2, <3>3 DEF NewestOnChannel
  <2>4. CASE link # "live"
    <3>1. chan' = <<>>
      BY <2>1, <2>4 DEF NewestOnChannel
    <3> QED
      BY <2>2, <2>4, <3>1 DEF NewestOnChannel
  <2> QED
    BY <2>3, <2>4
<1>4. CASE EngineReplays
  <2>1. next' \in 1 .. next /\ pub' = pub /\ chan' = chan /\ link' = link
    BY <1>4 DEF EngineReplays, linkVars
  <2>2. next' > pub => next > pub
    BY <2>1, TopicType DEF StreamTypeOK
  <2>3. Latest' = Latest
    BY <1>0, <2>1
  <2> QED
    BY <1>0, <2>1, <2>2, <2>3 DEF NewestOnChannel
<1>5. CASE LinkBreaks
  <2>1. chan' = <<>>
    BY <1>5 DEF LinkBreaks
  <2> QED
    BY <2>1 DEF NewestOnChannel
<1>6. CASE LinkResumes \/ Applied
  <2>1. chan' = <<>>
    BY <1>6 DEF LinkResumes, Applied, NewestOnChannel
  <2> QED
    BY <2>1 DEF NewestOnChannel
<1>7. CASE Fanout
  <2>1. /\ chan \in Seq(Seqs) /\ chan # <<>> /\ chan' = Tail(chan)
        /\ UNCHANGED <<next, pub, link>>
    BY <1>7 DEF StreamTypeOK, Fanout, engineVars
  <2>2. /\ Len(chan) \in Nat /\ DOMAIN chan = 1 .. Len(chan)
        /\ Len(chan') = Len(chan) - 1 /\ DOMAIN chan' = 1 .. Len(chan) - 1
        /\ \A i \in 1 .. Len(chan) - 1 : chan'[i] = chan[i + 1]
    BY <2>1, HeadTailProperties
  <2>3. InSequence => \A i \in DOMAIN chan' : chan'[i] <= Latest
    BY <2>2 DEF NewestOnChannel
  <2>4. chan' # <<>> => chan'[Len(chan')] = chan[Len(chan)]
    <3>1. chan' # <<>> => Len(chan') \in 1 .. Len(chan) - 1
      BY <2>1, <2>2
    <3> QED
      BY <2>2, <3>1
  <2>5. link = "live" /\ Latest' = Latest
    BY <1>0, <1>7, <2>1 DEF Fanout
  <2> QED
    BY <1>0, <2>1, <2>3, <2>4, <2>5 DEF NewestOnChannel
<1>8. CASE Subscribe
  <2>1. UNCHANGED <<next, pub, chan>> /\ (link' = link \/ link = "down")
    BY <1>8 DEF Subscribe, engineVars
  <2> QED
    BY <1>1, <2>1 DEF NewestOnChannel
<1>9. CASE UNCHANGED vars
  BY <1>1, <1>9 DEF vars, engineVars, linkVars
<1> QED
  BY <1>1, <1>2, <1>3, <1>4, <1>5, <1>6, <1>7, <1>8, <1>9, ChannelAside

(* Every step keeps the snapshot in step with the publications.            *)
LEMMA SnapshotNext ==
  ASSUME StreamTypeOK, phase = "publish" => next <= Len(topic), SnapshotInStep, [Next]_vars
  PROVE  SnapshotInStep'
PROOF
<1>0. /\ topic' = topic /\ InSequence' = InSequence /\ (pub' = pub => Latest' = Latest)
      /\ Len(topic) \in Nat /\ next \in 1 .. Len(topic) + 1 /\ pub \in 0 .. Len(topic)
      /\ \A i \in 1 .. Len(topic) : topic[i] \in Nat
  BY LatestStays, TopicType DEF StreamTypeOK, Seqs
<1>1. CASE UNCHANGED <<next, phase, snap, pub>>
  BY <1>0, <1>1 DEF SnapshotInStep
<1>2. CASE Update
  <2>1. /\ next <= Len(topic) /\ phase' = "publish" /\ snap' = topic[next]
        /\ UNCHANGED <<next, pub>>
    BY <1>2 DEF Update
  <2>2. ASSUME InSequence, next > pub
        PROVE  topic[next] >= Latest
    <3>1. CASE pub = 0
      BY <1>0, <2>1, <3>1 DEF Latest, NoSeq
    <3>2. CASE pub # 0
      BY <1>0, <2>1, <2>2, <3>2, TopicType DEF Latest, InSequence
    <3> QED
      BY <3>1, <3>2
  <2>3. Latest' = Latest
    BY <1>0, <2>1
  <2> QED
    BY <1>0, <2>1, <2>2, <2>3 DEF SnapshotInStep
<1>3. CASE Publish \/ PublishAmbiguous
  <2>1. /\ next' > pub' => Latest' = topic[next]
        /\ topic[next] \in Nat
        /\ phase = "publish" /\ phase' = "update" /\ snap' = snap
    BY <1>0, <1>3, SendSteps
  <2> QED
    BY <1>0, <2>1 DEF SnapshotInStep
<1>4. CASE EngineReplays
  <2>1. next' \in 1 .. next /\ phase' = "update" /\ snap' = snap /\ pub' = pub
    BY <1>4 DEF EngineReplays
  <2>2. (next' > pub => next > pub) /\ Latest' = Latest
    BY <1>0, <2>1
  <2> QED
    BY <1>0, <2>1, <2>2 DEF SnapshotInStep
<1>5. CASE LinkBreaks \/ LinkResumes \/ Applied \/ Subscribe \/ Fanout
  BY <1>1, <1>5 DEF LinkBreaks, LinkResumes, Applied, Subscribe, Fanout, engineVars
<1>6. CASE UNCHANGED vars
  BY <1>1, <1>6 DEF vars, engineVars
<1> QED
  BY <1>1, <1>2, <1>3, <1>4, <1>5, <1>6, ChannelAside

(* The steps that have no part in what the handler has in hand.            *)
LEMMA HandlerAside ==
  ASSUME Next, ~Publish, ~PublishAmbiguous, ~EngineReplays, ~LinkBreaks, ~Fanout, ~OtherSymbol, ~Subscribe, ~Fetch, ~FetchRaises, ~Overflow, ~Apply, ~Leave, ~Cleanup
  PROVE  UNCHANGED <<next, pub, chan, missed, hpc, fetched, initEvents, overflowed>>
PROOF
<1> USE DEF engineVars, linkVars, handlerVars
<1>1. CASE Update
  BY <1>1 DEF Update
<1>2. CASE LinkResumes \/ Applied
  BY <1>2 DEF LinkResumes, Applied
<1>3. CASE Flush
  BY <1>3 DEF Flush
<1>4. CASE DispatchOther
  BY <1>4 DEF DispatchOther, Reply, Take
<1>5. CASE DispatchStale
  BY <1>5 DEF DispatchStale, Take
<1>6. CASE DispatchNext
  BY <1>6 DEF DispatchNext, Take
<1>7. CASE DispatchGap
  BY <1>7 DEF DispatchGap, Take
<1>8. CASE GapRead
  BY <1>8 DEF GapRead
<1>9. CASE GapReadRaises
  BY <1>9 DEF GapReadRaises
<1>10. CASE Reseed
  BY <1>10 DEF Reseed
<1>11. CASE Write
  BY <1>11 DEF Write
<1>12. CASE WriteFails
  BY <1>12 DEF WriteFails
<1>13. CASE Refuse
  BY <1>13 DEF Refuse, Reply
<1>14. CASE Unsubscribe
  BY <1>14 DEF Unsubscribe
<1> QED
  BY <1>1, <1>2, <1>3, <1>4, <1>5, <1>6, <1>7, <1>8, <1>9, <1>10, <1>11, <1>12, <1>13, <1>14
     DEF Next, Engine, Delivery, Dispatch, Handle

(* When the last event leaves the channel it was the newest publication.   *)
LEMMA LastOnChannel ==
  ASSUME StreamTypeOK, NewestOnChannel, Fanout, Arrived'
  PROVE  Head(chan) = Latest /\ next > pub /\ ~missed
PROOF
<1>1. /\ chan \in Seq(Seqs) /\ chan # <<>> /\ chan' = Tail(chan)
      /\ UNCHANGED <<next, pub, missed>>
  BY DEF StreamTypeOK, Fanout, engineVars
<1>2. next > pub /\ chan' = <<>> /\ ~missed
  BY <1>1 DEF Arrived
<1>3. Len(chan) \in Nat /\ Len(Tail(chan)) = Len(chan) - 1 /\ Head(chan) = chan[1]
  BY <1>1, HeadTailProperties
<1>4. Len(chan) = 1
  <2>1. Len(Tail(chan)) = 0
    BY <1>1, <1>2, Len(<<>>) = 0
  <2> QED
    BY <1>3, <2>1
<1> QED
  BY <1>1, <1>2, <1>3, <1>4 DEF NewestOnChannel

(* A buffered event is one of those that were on the channel.              *)
LEMMA BufferBelow ==
  ASSUME StreamTypeOK, NEW e \in Seqs, e <= Latest, Buffer(e),
         \A i \in DOMAIN initEvents : initEvents[i] <= Latest
  PROVE  /\ \A i \in DOMAIN initEvents' : initEvents'[i] <= Latest
         /\ Initializing => \/ overflowed'
                            \/ \E i \in DOMAIN initEvents' : initEvents'[i] = e
PROOF
<1>1. CASE Initializing /\ Len(initEvents) >= InitMax
  BY <1>1 DEF Buffer
<1>2. CASE Initializing /\ ~(Len(initEvents) >= InitMax)
  <2>1. initEvents \in Seq(Seqs) /\ initEvents' = Append(initEvents, e)
    BY <1>2 DEF Buffer, StreamTypeOK
  <2>2. /\ initEvents' \in Seq(Seqs) /\ initEvents' # <<>> /\ initEvents'[Len(initEvents')] = e
        /\ \A i \in DOMAIN initEvents' :
             (i \in DOMAIN initEvents /\ initEvents'[i] = initEvents[i]) \/ initEvents'[i] = e
    BY <2>1, LastAppended, AppendProperties
  <2>3. Len(initEvents') \in DOMAIN initEvents'
    BY <2>2
  <2>4. \A i \in DOMAIN initEvents' : initEvents'[i] <= Latest
    BY <2>2
  <2> QED
    BY <2>2, <2>3, <2>4
<1>3. CASE ~Initializing
  BY <1>3 DEF Buffer
<1> QED
  BY <1>1, <1>2, <1>3

(* Every step keeps the newest publication in the handler's hands.         *)
LEMMA HandlerNext ==
  ASSUME StreamTypeOK, phase = "publish" => next <= Len(topic),
         NewestOnChannel, SnapshotInStep, NewestInHandler, [Next]_vars
  PROVE  NewestInHandler'
PROOF
<1>s. CASE ~InSequence'
  BY <1>s DEF NewestInHandler
<1> SUFFICES ASSUME InSequence'
             PROVE  NewestInHandler'
  BY <1>s
<1>t. InSequence /\ InSequence' /\ (pub' = pub => Latest' = Latest)
  BY LatestStays
<1>0. next \in Nat /\ pub \in Nat /\ Latest \in Nat
  BY TopicType, LatestType DEF StreamTypeOK
<1>1. CASE UNCHANGED <<next, pub, chan, missed, hpc, fetched, initEvents, overflowed>>
  BY <1>t, <1>1 DEF NewestInHandler, Arrived, InHandler
<1>2. CASE Publish \/ PublishAmbiguous
  <2>1. Latest' \in Nat /\ Latest <= Latest' /\ ~Arrived'
    <3>1. Latest <= Latest' /\ ~Arrived' /\ next \in 1 .. Len(topic) /\ topic[next] \in Nat
      BY <1>t, <1>2, SendSteps DEF Arrived, Seqs
    <3>2. Latest' \in Nat
      BY <1>0, <1>t, <1>2, <3>1, LatestAfter
    <3> QED
      BY <3>1, <3>2
  <2>2. initEvents' = initEvents
    BY <1>2 DEF Publish, PublishAmbiguous, handlerVars
  <2>3. \A i \in DOMAIN initEvents : initEvents[i] \in Nat
    <3>1. \A i \in DOMAIN initEvents : initEvents[i] \in Seqs
      BY DEF StreamTypeOK
    <3>2. \A e \in Seqs : e \in Nat
      BY DEF Seqs
    <3> QED
      BY <3>1, <3>2
  <2>4. \A i \in DOMAIN initEvents' : initEvents'[i] <= Latest'
    BY <1>0, <1>t, <2>1, <2>2, <2>3 DEF NewestInHandler
  <2> QED
    BY <2>1, <2>4 DEF NewestInHandler
<1>3. CASE EngineReplays
  <2>1. next' \in 1 .. next /\ UNCHANGED <<pub, chan, missed, hpc, fetched, initEvents, overflowed>>
    BY <1>3 DEF EngineReplays, linkVars, handlerVars
  <2>2. (next' > pub => next > pub) /\ Latest' = Latest
    BY <1>0, <1>t, <2>1
  <2> QED
    BY <1>t, <2>1, <2>2 DEF NewestInHandler, Arrived, InHandler
<1>4. CASE LinkBreaks
  <2>1. /\ UNCHANGED <<next, pub, hpc, fetched, initEvents, overflowed>>
        /\ missed' = (missed \/ chan # <<>>)
    BY <1>4 DEF LinkBreaks, engineVars, handlerVars
  <2>2. Arrived' => Arrived
    BY <2>1, Zenon DEF Arrived
  <2>3. Latest' = Latest
    BY <1>t, <2>1
  <2> QED
    BY <1>t, <2>1, <2>2, <2>3 DEF NewestInHandler, InHandler
<1>5. CASE Fanout
  <2>1. /\ chan \in Seq(Seqs) /\ chan # <<>> /\ Buffer(Head(chan))
        /\ UNCHANGED <<pub, hpc, fetched>>
    BY <1>5 DEF StreamTypeOK, Fanout, engineVars
  <2>0. Latest' = Latest
    BY <1>t, <2>1
  <2>2. Head(chan) \in Seqs /\ Head(chan) <= Latest
    <3>1. Head(chan) = chan[1] /\ Head(chan) \in Seqs /\ 1 \in DOMAIN chan
      BY <2>1, HeadTailProperties
    <3> QED
      BY <1>t, <3>1 DEF NewestOnChannel
  <2>3. /\ \A i \in DOMAIN initEvents' : initEvents'[i] <= Latest
        /\ Initializing => \/ overflowed'
                           \/ \E i \in DOMAIN initEvents' : initEvents'[i] = Head(chan)
    BY <1>t, <2>1, <2>2, BufferBelow DEF NewestInHandler
  <2>4. hpc' = "apply" /\ Arrived' => InHandler'
    <3>1. SUFFICES ASSUME hpc' = "apply", Arrived'
                   PROVE  InHandler'
      OBVIOUS
    <3>2. Initializing /\ Head(chan) = Latest
      BY <1>5, <2>1, <3>1, LastOnChannel DEF Initializing
    <3> QED
      BY <2>0, <2>1, <2>3, <3>2 DEF InHandler
  <2> QED
    BY <1>t, <2>0, <2>1, <2>3, <2>4 DEF NewestInHandler
<1>6. CASE OtherSymbol
  <2>1. /\ UNCHANGED <<next, pub, chan, hpc, fetched, initEvents, overflowed>>
        /\ missed' = (missed \/ (Tracked(output) # {} /\ Tracked(output') = {}))
    BY <1>6 DEF OtherSymbol, engineVars, linkVars, handlerVars
  <2>2. Arrived' => Arrived
    BY <2>1, Zenon DEF Arrived
  <2>3. Latest' = Latest
    BY <1>t, <2>1
  <2> QED
    BY <1>t, <2>1, <2>2, <2>3 DEF NewestInHandler, InHandler
<1>7. CASE Subscribe
  <2>1. hpc' = "fetch" /\ initEvents' = <<>> /\ pub' = pub
    BY <1>7 DEF Subscribe, engineVars
  <2> QED
    BY <2>1 DEF NewestInHandler
<1>8. CASE Fetch
  <2>1. /\ fetched' = snap /\ UNCHANGED <<next, pub, initEvents>>
    BY <1>8 DEF Fetch, engineVars
  <2>2. Latest' = Latest /\ (Arrived' => fetched' >= Latest)
    BY <1>t, <2>1 DEF Arrived, SnapshotInStep
  <2> QED
    BY <1>t, <2>1, <2>2 DEF NewestInHandler, InHandler
<1>9. CASE FetchRaises \/ Overflow
  <2>1. hpc' = "idle" /\ initEvents' = <<>>
    BY <1>9 DEF FetchRaises, Overflow, RollBack
  <2> QED
    BY <2>1 DEF NewestInHandler
<1>10. CASE Apply
  <2>1. hpc' = "idle" /\ initEvents' = <<>>
    BY <1>10 DEF Apply, Register
  <2> QED
    BY <2>1 DEF NewestInHandler
<1>11. CASE Leave \/ Cleanup
  <2>1. hpc' \in {"gone", "cleanup"} /\ UNCHANGED <<pub, initEvents>>
    BY <1>11 DEF Leave, Cleanup, engineVars
  <2>2. Latest' = Latest
    BY <1>t, <2>1
  <2> QED
    BY <1>t, <2>1, <2>2 DEF NewestInHandler
<1>12. CASE UNCHANGED vars
  BY <1>1, <1>12 DEF vars, engineVars, linkVars, handlerVars
<1> QED
  BY <1>1, <1>2, <1>3, <1>4, <1>5, <1>6, <1>7, <1>8, <1>9, <1>10, <1>11, <1>12, HandlerAside

(* Applying the initialization hands the newest publication to the session.*)
LEMMA ApplyHandsOver ==
  ASSUME StreamTypeOK, InSequence, NewestInHandler, Raw => agg = NoSeq, Apply, Arrived,
         Latest' = Latest
  PROVE  InSession'
PROOF
<1>0. Latest \in Nat /\ fetched \in Nat /\ lastSeq \in Nat /\ Latest \in Seqs \cup {NoSeq}
      /\ initEvents \in Seq(Seqs)
  BY LatestType DEF StreamTypeOK, Seqs, NoSeq
<1>1. /\ hpc = "apply" /\ ~overflowed /\ Register
      /\ \E t \in Sorted(initEvents) : Push(Above(t, fetched))
  BY DEF Apply, Register, engineVars
<1>2. fetched >= Latest \/ \E i \in DOMAIN initEvents : initEvents[i] = Latest
  BY <1>1 DEF NewestInHandler, InHandler
<1>3. CASE fetched >= Latest
  <2>1. CASE fetched = NoSeq
    BY <1>0, <1>1, <1>3, <2>1 DEF Register, InSession, NoSeq
  <2>2. CASE fetched # NoSeq
    BY <1>0, <1>1, <1>3, <2>2 DEF Register, InSession
  <2> QED
    BY <2>1, <2>2
<1>4. CASE ~(fetched >= Latest)
  <2>1. PICK i \in DOMAIN initEvents : initEvents[i] = Latest
    BY <1>2, <1>4
  <2>2. Latest \in Seqs /\ fetched < Latest
    BY <1>0, <1>4 DEF NoSeq
  <2>3. PICK t \in Sorted(initEvents) : Push(Above(t, fetched))
    BY <1>1
  <2> DEFINE s == Above(t, fetched)
  <2>4. \A j \in DOMAIN initEvents : initEvents[j] <= Latest
    BY DEF NewestInHandler
  <2>5. s # <<>> /\ s[Len(s)] = Latest
    BY <1>0, <2>1, <2>2, <2>4, AboveKeepsTop
  <2>6. s \in Seq(Seqs)
    BY <1>0, SortedType, AboveType
  <2>7. agg' = Latest \/ (agg' = NoSeq /\ LastTracked(output', Latest))
    <3> HIDE DEF s
    <3>1. Push(s)
      BY <2>3 DEF s
    <3> QED
      BY <2>5, <2>6, <3>1, PushKeepsLast
  <2> QED
    BY <1>1, <2>7 DEF InSession, InAggregator
<1> QED
  BY <1>3, <1>4

(* Taking an entry that is not accepted leaves the newest publication to   *)
(* the session: it was that entry only if it is stale or beyond a gap.     *)
LEMMA TakeKeepsSession ==
  ASSUME StreamTypeOK, InSession, Take, Latest # NoSeq, Head(output) # Latest \/ lastSeq' >= Latest,
         Latest' = Latest, UNCHANGED <<agg, gapSnap>>, dpc' = dpc,
         lastSeq' \in Nat, lastSeq' >= lastSeq
  PROVE  InSession'
PROOF
<1>0. Latest \in Nat /\ lastSeq \in Nat
  BY LatestType DEF StreamTypeOK, Seqs, NoSeq
<1>1. output \in Seq(Seqs \cup {Other}) /\ output # <<>> /\ output' = Tail(output)
  BY DEF StreamTypeOK, Take
<1>2. CASE lastSeq' >= Latest
  BY <1>2 DEF InSession
<1>3. CASE ~(lastSeq' >= Latest)
  <2>1. ~(lastSeq >= Latest) /\ Head(output) # Latest /\ dpc = "next"
    BY <1>0, <1>3 DEF Take
  <2>2. InAggregator
    BY <2>1 DEF InSession
  <2>3. agg = Latest \/ (agg = NoSeq /\ LastTracked(output', Latest))
    BY <1>1, <2>1, <2>2, TailTracked DEF InAggregator
  <2> QED
    BY <2>3 DEF InSession, InAggregator
<1> QED
  BY <1>2, <1>3

(* The steps that have no part in what the session has in hand.            *)
LEMMA SessionAside ==
  ASSUME Next, ~Publish, ~PublishAmbiguous, ~EngineReplays, ~LinkBreaks, ~Fanout, ~Flush, ~OtherSymbol, ~DispatchOther, ~DispatchStale, ~DispatchNext, ~DispatchGap, ~GapRead, ~GapReadRaises, ~Reseed, ~Fetch, ~Apply, ~Unsubscribe, ~Leave, ~Cleanup
  PROVE  UNCHANGED <<next, pub, chan, missed, registered, lastSeq, agg, output, dpc, gapSnap>>
PROOF
<1> USE DEF engineVars, linkVars, bufferVars, dispatchVars, wireVars
<1>1. CASE Update
  BY <1>1 DEF Update
<1>2. CASE LinkResumes \/ Applied
  BY <1>2 DEF LinkResumes, Applied
<1>3. CASE Write
  BY <1>3 DEF Write
<1>4. CASE WriteFails
  BY <1>4 DEF WriteFails
<1>5. CASE Subscribe
  BY <1>5 DEF Subscribe
<1>6. CASE Refuse
  BY <1>6 DEF Refuse, Reply
<1>7. CASE FetchRaises
  BY <1>7 DEF FetchRaises, RollBack, Reply
<1>8. CASE Overflow
  BY <1>8 DEF Overflow, RollBack, Reply
<1> QED
  BY <1>1, <1>2, <1>3, <1>4, <1>5, <1>6, <1>7, <1>8
     DEF Next, Engine, Delivery, Dispatch, Handle

(* In the RAW mode the aggregation buffer stays empty.                     *)
LEMMA RawBufferNext ==
  ASSUME Raw => agg = NoSeq, [Next]_vars
  PROVE  (Raw => agg = NoSeq)'
PROOF
<1>0. Raw' = Raw
  BY ModeStays DEF Raw
<1>1. CASE UNCHANGED agg
  BY <1>0, <1>1
<1>2. CASE Publish \/ PublishAmbiguous \/ EngineReplays \/ LinkBreaks
  BY <1>1, <1>2 DEF Publish, PublishAmbiguous, EngineReplays, LinkBreaks, bufferVars
<1>3. CASE Fanout
  BY <1>0, <1>1, <1>3, PushRaw DEF Fanout, bufferVars
<1>4. CASE Flush
  BY <1>0, <1>4 DEF Flush
<1>5. CASE OtherSymbol
  BY <1>1, <1>5 DEF OtherSymbol
<1>6. CASE DispatchOther \/ DispatchStale \/ DispatchNext \/ DispatchGap
  BY <1>1, <1>6 DEF DispatchOther, DispatchStale, DispatchNext, DispatchGap
<1>7. CASE GapRead \/ GapReadRaises \/ Reseed
  BY <1>1, <1>7 DEF GapRead, GapReadRaises, Reseed, bufferVars
<1>8. CASE Fetch \/ Unsubscribe \/ Leave \/ Cleanup
  BY <1>1, <1>8 DEF Fetch, Unsubscribe, Leave, Cleanup, bufferVars
<1>9. CASE Apply
  BY <1>0, <1>9, PushRaw DEF Apply
<1>10. CASE UNCHANGED vars
  BY <1>1, <1>10 DEF vars, bufferVars
<1> QED
  BY <1>1, <1>2, <1>3, <1>4, <1>5, <1>6, <1>7, <1>8, <1>9, <1>10, SessionAside

(* Every step keeps the newest publication in the session's hands.         *)
LEMMA SessionNext ==
  ASSUME StreamTypeOK, StreamInv, NewestOnChannel, SnapshotInStep, NewestInHandler,
         NewestInSession, [Next]_vars
  PROVE  NewestInSession'
PROOF
<1>0. (Raw => agg = NoSeq)'
  BY RawBufferNext DEF NewestInSession
<1> SUFFICES ASSUME InSequence', registered', Arrived'
             PROVE  InSession'
  BY <1>0 DEF NewestInSession
<1>t. InSequence /\ InSequence' /\ (pub' = pub => Latest' = Latest)
  BY LatestStays
<1>a. next \in Nat /\ pub \in Nat /\ lastSeq \in Nat /\ Latest \in Nat /\ Latest \in Seqs \cup {NoSeq}
      /\ output \in Seq(Seqs \cup {Other}) /\ gapSnap \in Nat
  BY TopicType, LatestType DEF StreamTypeOK, Seqs, NoSeq
<1>b. registered /\ Arrived => InSession
  BY <1>t DEF NewestInSession
<1>1. CASE UNCHANGED <<next, pub, chan, missed, registered, lastSeq, agg, output, dpc, gapSnap>>
  BY <1>b, <1>t, <1>1 DEF Arrived, InSession, InAggregator
<1>2. CASE Publish \/ PublishAmbiguous
  BY <1>2, SendSteps DEF StreamInv, Arrived
<1>3. CASE EngineReplays
  <2>1. next' \in 1 .. next
        /\ UNCHANGED <<pub, chan, missed, registered, lastSeq, agg, output, dpc, gapSnap>>
    BY <1>3 DEF EngineReplays, linkVars, bufferVars, dispatchVars
  <2>2. registered /\ Arrived
    BY <1>a, <2>1 DEF Arrived
  <2> QED
    BY <1>b, <1>t, <2>1, <2>2 DEF InSession, InAggregator
<1>4. CASE LinkBreaks
  <2>1. /\ UNCHANGED <<next, pub, registered, lastSeq, agg, output, dpc, gapSnap>>
        /\ missed' = (missed \/ chan # <<>>)
    BY <1>4 DEF LinkBreaks, engineVars, bufferVars, dispatchVars
  <2>2. registered /\ Arrived
    BY <2>1, Zenon DEF Arrived
  <2> QED
    BY <1>b, <1>t, <2>1, <2>2 DEF InSession, InAggregator
<1>5. CASE Fanout
  <2>1. Head(chan) = Latest
    BY <1>5, LastOnChannel
  <2>2. registered /\ Push(<<Head(chan)>>) /\ pub' = pub
    BY <1>5 DEF Fanout, engineVars
  <2>3. <<Latest>> \in Seq(Seqs)
    <3>1. chan \in Seq(Seqs) /\ chan # <<>>
      BY <1>5 DEF StreamTypeOK, Fanout
    <3>2. Latest \in Seqs
      BY <2>1, <3>1, HeadTailProperties
    <3> QED
      BY <3>2
  <2> DEFINE s == <<Latest>>
  <2>4. s # <<>> /\ s[Len(s)] = Latest
    OBVIOUS
  <2>5. agg' = Latest \/ (agg' = NoSeq /\ LastTracked(output', Latest))
    <3>1. s \in Seq(Seqs) /\ Push(s) /\ (Raw => agg = NoSeq)
      BY <2>1, <2>2, <2>3 DEF NewestInSession
    <3> HIDE DEF s
    <3> QED
      BY <2>4, <3>1, PushKeepsLast
  <2> QED
    BY <1>t, <2>2, <2>5 DEF InSession, InAggregator
<1>6. CASE Flush
  <2>1. /\ agg # NoSeq /\ agg' = NoSeq /\ output' = Newest(Append(output, agg), OutputMax)
        /\ UNCHANGED <<next, pub, chan, missed, registered, lastSeq, dpc, gapSnap>>
    BY <1>6 DEF Flush, engineVars, linkVars, dispatchVars
  <2>2. InSession
    BY <1>b, <2>1 DEF Arrived
  <2>3. CASE agg = Latest
    <3>1. agg \in Seqs \cup {Other}
      BY <2>1 DEF StreamTypeOK
    <3> DEFINE q == Append(output, agg)
    <3>2. q \in Seq(Seqs \cup {Other}) /\ q # <<>> /\ q[Len(q)] = Latest
      BY <1>a, <2>3, <3>1, LastAppended, AppendProperties
    <3>3. output' = Newest(q, OutputMax)
      BY <2>1
    <3> HIDE DEF q
    <3>4. /\ output' \in Seq(Seqs \cup {Other}) /\ output' # <<>>
          /\ output'[Len(output')] = Latest
      BY <3>2, <3>3, NewestKeepsLast, StreamAssumption
    <3>5. LastTracked(output', Latest)
      BY <3>4, LastIsTracked
    <3> QED
      BY <1>t, <2>1, <3>5 DEF InSession, InAggregator
  <2>4. CASE agg # Latest
    BY <1>t, <2>1, <2>2, <2>4 DEF InSession, InAggregator
  <2> QED
    BY <2>3, <2>4
<1>7. CASE OtherSymbol
  <2>1. /\ output' = Newest(Append(output, Other), OutputMax)
        /\ missed' = (missed \/ (Tracked(output) # {} /\ Tracked(output') = {}))
        /\ UNCHANGED <<next, pub, chan, registered, lastSeq, agg, dpc, gapSnap>>
    BY <1>7 DEF OtherSymbol, engineVars, linkVars, dispatchVars
  <2>2. registered /\ Arrived
    BY <2>1, Zenon DEF Arrived
  <2>3. InSession
    BY <1>b, <2>2
  <2>4. CASE LastTracked(output, Latest) /\ Latest # Other
    <3>1. Append(output, Other) \in Seq(Seqs \cup {Other})
      BY <1>a, AppendProperties
    <3>2. LastTracked(Append(output, Other), Latest)
      BY <1>a, <2>4, AppendTracked
    <3>3. LastTracked(output', Latest) \/ Tracked(output') = {}
      BY <2>1, <3>1, <3>2, NewestTracked, StreamAssumption
    <3>4. Tracked(output) # {}
      BY <2>4 DEF LastTracked, Tracked
    <3>5. Tracked(output') # {}
      BY <2>1, <3>4, Zenon DEF Arrived
    <3> QED
      BY <1>t, <2>1, <2>3, <3>3, <3>5 DEF InSession, InAggregator
  <2>5. CASE Latest = Other
    BY <1>a, <1>t, <2>1, <2>5 DEF InSession, Other
  <2>6. CASE ~LastTracked(output, Latest)
    BY <1>t, <2>1, <2>3, <2>6 DEF InSession, InAggregator
  <2> QED
    BY <2>4, <2>5, <2>6
<1>8. CASE Latest = NoSeq /\ UNCHANGED Latest /\ lastSeq' \in Nat
  BY <1>8 DEF InSession, NoSeq
<1>9. CASE DispatchOther \/ DispatchStale
  <2>1. /\ Take /\ UNCHANGED <<next, pub, chan, missed, registered, agg, gapSnap, lastSeq, dpc>>
        /\ (Head(output) = Other \/ (Head(output) # Other /\ lastSeq >= Head(output)))
    <3>1. Take /\ UNCHANGED <<next, pub, chan, missed, registered, agg, gapSnap, lastSeq, dpc>>
      BY <1>9 DEF DispatchOther, DispatchStale, engineVars, linkVars, dispatchVars
    <3>2. Head(output) \in Nat
      <4>1. output # <<>>
        BY <3>1 DEF Take
      <4>2. Head(output) \in Seqs \cup {Other}
        BY <1>a, <4>1, HeadTailProperties
      <4> QED
        BY <4>2 DEF Seqs, Other
    <3> QED
      BY <1>9, <1>a, <3>1, <3>2 DEF DispatchOther, DispatchStale, Stale
  <2>2. InSession
    BY <1>b, <2>1 DEF Arrived
  <2>3. CASE Latest # NoSeq
    <3>1. Head(output) # Latest \/ lastSeq' >= Latest
      BY <2>1, <2>3 DEF NoSeq, Other
    <3>2. lastSeq' \in Nat /\ lastSeq' >= lastSeq
      BY <1>a, <2>1
    <3> QED
      BY <1>t, <2>1, <2>2, <2>3, <3>1, <3>2, TakeKeepsSession
  <2> QED
    BY <1>8, <1>a, <1>t, <2>1, <2>3
<1>10. CASE DispatchNext
  <2>1. /\ Take /\ UNCHANGED <<next, pub, chan, missed, registered, agg, gapSnap, dpc>>
        /\ lastSeq' = Head(output) /\ Accepts(Head(output)) /\ Head(output) # Other
    BY <1>10 DEF DispatchNext, engineVars, linkVars
  <2>2. lastSeq' \in Nat /\ lastSeq' >= lastSeq
    <3>1. output # <<>>
      BY <2>1 DEF Take
    <3>2. Head(output) \in Seqs
      BY <1>a, <2>1, <3>1, HeadTailProperties
    <3>3. lastSeq' \in Nat
      BY <2>1, <3>2 DEF Seqs
    <3> QED
      BY <1>a, <2>1, <3>3 DEF Accepts, NoSeq
  <2>3. InSession
    BY <1>b, <2>1 DEF Arrived
  <2>4. CASE Latest # NoSeq
    <3>1. Head(output) # Latest \/ lastSeq' >= Latest
      BY <1>a, <2>1
    <3> QED
      BY <1>t, <2>1, <2>2, <2>3, <2>4, <3>1, TakeKeepsSession
  <2> QED
    BY <1>8, <1>t, <2>1, <2>2, <2>4
<1>11. CASE DispatchGap \/ GapReadRaises
  BY <1>11 DEF DispatchGap, GapReadRaises, InSession
<1>12. CASE GapRead
  <2>1. dpc' = "reseed" /\ gapSnap' = snap /\ UNCHANGED <<next, pub>>
    BY <1>12 DEF GapRead, engineVars
  <2> QED
    BY <1>t, <2>1 DEF InSession, Arrived, SnapshotInStep
<1>13. CASE Reseed
  <2>1. /\ dpc = "reseed" /\ UNCHANGED <<next, pub, chan, missed, registered, agg, output>>
        /\ lastSeq' = IF gapSnap # NoSeq /\ (lastSeq = NoSeq \/ gapSnap > lastSeq)
                      THEN gapSnap ELSE lastSeq
    BY <1>13 DEF Reseed, engineVars, linkVars, bufferVars
  <2>2. InSession
    BY <1>b, <2>1 DEF Arrived
  <2>3. CASE InAggregator
    BY <1>t, <2>1, <2>3 DEF InSession, InAggregator
  <2>4. CASE ~InAggregator
    <3>1. lastSeq >= Latest \/ gapSnap >= Latest
      BY <2>1, <2>2, <2>4 DEF InSession
    <3>2. lastSeq' >= Latest
      BY <1>a, <2>1, <3>1 DEF NoSeq
    <3> QED
      BY <1>t, <2>1, <3>2 DEF InSession
  <2> QED
    BY <2>3, <2>4
<1>14. CASE Fetch
  <2>1. hpc = "fetch" /\ registered
    BY <1>14 DEF Fetch
  <2> QED
    BY <2>1 DEF StreamInv, Initializing
<1>15. CASE Apply
  <2>1. Arrived /\ pub' = pub
    BY <1>15 DEF Apply, Register, Arrived, engineVars, linkVars
  <2> QED
    BY <1>15, <1>t, <2>1, ApplyHandsOver DEF NewestInSession
<1>16. CASE Unsubscribe \/ Cleanup
  <2>1. registered' = FALSE
    BY <1>16, Zenon DEF Unsubscribe, Cleanup
  <2> QED
    BY <2>1
<1>17. CASE Leave
  BY <1>17 DEF Leave, InSession
<1>18. CASE UNCHANGED vars
  BY <1>1, <1>18 DEF vars, engineVars, linkVars, bufferVars, dispatchVars, wireVars
<1> QED
  BY <1>1, <1>2, <1>3, <1>4, <1>5, <1>6, <1>7, <1>9, <1>10, <1>11, <1>12, <1>13,
     <1>14, <1>15, <1>16, <1>17, <1>18, SessionAside

(* For a client that does not subscribe twice, and for every mode, filter, *)
(* queue size, topic and bound: in a topic in sequence, whatever holes and *)
(* repeats it has, the newest publication is always accounted for, on the  *)
(* channel, with the handler, in the aggregator or with the dispatch loop, *)
(* unless it was lost with a connection or before Redis had applied the    *)
(* SUBSCRIBE.  What does not depend on the sequence holds in a topic whose *)
(* feed started again, too: the stream's order, a RAW stream's successors, *)
(* and the newest publication on the channel and in the engine's snapshot. *)
THEOREM StreamHandoff ==
  ASSUME ~Resubscribes
  PROVE  Spec => []HandoffInv
PROOF
<1>1. Init => HandoffInv
  <2> SUFFICES ASSUME Init PROVE HandoffInv
    OBVIOUS
  <2>1. StreamInv
    BY StreamInit
  <2>2. NewestOnChannel /\ SnapshotInStep
    BY DEF Init, NewestOnChannel, SnapshotInStep, Latest, NoSeq
  <2>3. NewestInHandler /\ NewestInSession
    BY DEF Init, NewestInHandler, NewestInSession, Arrived
  <2>4. RawTail
    BY DEF Init, RawTail, RawContiguous
  <2> QED
    BY <2>1, <2>2, <2>3, <2>4 DEF HandoffInv
<1>2. StreamTypeOK /\ HandoffInv /\ [Next]_vars => HandoffInv'
  <2> SUFFICES ASSUME StreamTypeOK, HandoffInv, [Next]_vars
               PROVE  HandoffInv'
    OBVIOUS
  <2>1. /\ StreamInv /\ NewestOnChannel /\ SnapshotInStep /\ NewestInHandler
        /\ NewestInSession /\ RawTail
    BY DEF HandoffInv
  <2>2. phase = "publish" => next <= Len(topic)
    BY <2>1 DEF StreamInv
  <2>3. StreamInv'
    BY <2>1, StreamOrderNext, StreamGuardsNext DEF StreamInv
  <2>4. NewestOnChannel' /\ SnapshotInStep'
    BY <2>1, <2>2, ChannelNext, SnapshotNext
  <2>5. NewestInHandler'
    BY <2>1, <2>2, HandlerNext
  <2>6. NewestInSession'
    BY <2>1, SessionNext
  <2>7. RawTail'
    BY <2>1, RawTailNext
  <2> QED
    BY <2>3, <2>4, <2>5, <2>6, <2>7 DEF HandoffInv
<1> QED
  BY <1>1, <1>2, StreamTypes, PTL DEF Spec

(* In a topic in sequence, nothing published once Redis has applied the    *)
(* SUBSCRIBE falls between a session's snapshot and its first live event,  *)
(* and no overflow or gap goes unrepaired.                                 *)
THEOREM ClientHandoffComplete ==
  ASSUME ~Resubscribes
  PROVE  Spec => []HandoffComplete
PROOF
<1>1. StreamTypeOK /\ HandoffInv => HandoffComplete
  <2> SUFFICES ASSUME StreamTypeOK, HandoffInv, InSequence, registered, Drained, CaughtUp, ~missed
               PROVE  lastSeq >= Latest
    BY DEF HandoffComplete
  <2>1. InSession
    BY DEF HandoffInv, NewestInSession, Arrived, Drained, CaughtUp
  <2>2. dpc = "next" /\ agg = NoSeq /\ Tracked(output) = {}
    BY DEF Drained
  <2>3. lastSeq >= Latest \/ agg = Latest \/ LastTracked(output, Latest)
    BY <2>1, <2>2 DEF InSession, InAggregator
  <2>4. LastTracked(output, Latest) => Latest = Other
    BY <2>2 DEF LastTracked, Tracked
  <2>5. lastSeq \in Nat
    BY DEF StreamTypeOK, Seqs, NoSeq
  <2> QED
    BY <2>2, <2>3, <2>4, <2>5 DEF NoSeq, Other
<1> QED
  BY <1>1, StreamTypes, StreamHandoff, PTL
=============================================================================
