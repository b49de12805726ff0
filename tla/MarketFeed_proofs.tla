-------------------------- MODULE MarketFeed_proofs --------------------------
(***************************************************************************)
(* Proof that the simulator and its producer write a topic of the kind     *)
(* that the consumers are proved for: whatever is lost, late, sent twice   *)
(* or numbered from 1 again, every step appends one record or none.        *)
(***************************************************************************)
EXTENDS MarketFeed, MarketTopic_proofs

(* Every step of the feed is a step of the topic, or hidden from it.       *)
LEMMA FeedTopicStep ==
  ASSUME FeedTypeOK, [FeedNext]_feedVars
  PROVE  FeedTypeOK' /\ [TopicNext]_topicVars
PROOF
<1>1. ASSUME TopicNext
      PROVE  TopicTypeOK'
  BY <1>1, TopicAppends DEF FeedTypeOK
<1>2. ASSUME UNCHANGED topicVars
      PROVE  TopicTypeOK'
  BY <1>2 DEF FeedTypeOK, TopicTypeOK, topicVars
<1>3. ASSUME NEW s \in Symbol, Produce(s)
      PROVE  FeedTypeOK' /\ UNCHANGED topicVars
  <2>1. nextSeq[s] \in 1 .. MaxSeq
    BY <1>3, TopicAssumption DEF Produce, FeedTypeOK
  <2>2. \A now \in Times : MakeEvent(s, now) \in Record
    BY <2>1 DEF MakeEvent, Record
  <2>3. sending' \subseteq Record /\ nextSeq' \in [Symbol -> Nat \ {0}] /\ feedRun' \in Nat
    BY <1>3, <2>2 DEF Produce, FeedTypeOK
  <2> QED
    BY <1>2, <1>3, <2>3 DEF Produce, FeedTypeOK
<1>4. ASSUME NEW e \in sending, Appended(e)
      PROVE  FeedTypeOK' /\ TopicNext
  BY <1>1, <1>4 DEF Appended, FeedTypeOK, TopicNext
<1>5. ASSUME NEW e \in sending, DeliveryFailed(e)
      PROVE  FeedTypeOK' /\ UNCHANGED topicVars
  BY <1>2, <1>5 DEF DeliveryFailed, FeedTypeOK
<1>6. ASSUME FeedRestart
      PROVE  FeedTypeOK' /\ UNCHANGED topicVars
  BY <1>2, <1>6 DEF FeedRestart, FeedTypeOK
<1>7. ASSUME UNCHANGED feedVars
      PROVE  FeedTypeOK' /\ UNCHANGED topicVars
  BY <1>2, <1>7 DEF feedVars, simulatorVars, FeedTypeOK
<1> QED
  BY <1>3, <1>4, <1>5, <1>6, <1>7 DEF FeedNext

(* Theorem: the feed writes nothing but a topic.                           *)
THEOREM FeedWritesTopic == FeedSpec => TopicSpec
PROOF
<1>1. FeedInit => FeedTypeOK /\ TopicInit
  <2>1. ASSUME FeedInit PROVE TopicTypeOK
    BY <2>1 DEF FeedInit, TopicInit, TopicTypeOK
  <2> QED
    BY <2>1 DEF FeedInit, FeedTypeOK
<1> QED
  BY <1>1, FeedTopicStep, PTL DEF FeedSpec, TopicSpec
=============================================================================
