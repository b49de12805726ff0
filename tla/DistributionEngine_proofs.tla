---------------------- MODULE DistributionEngine_proofs ----------------------
(***************************************************************************)
(* Proofs about DistributionEngine, its commits, what it has in flight and *)
(* what Redis holds, for any symbols, partitions, queue size and number of *)
(* shutdowns, interrupts and kills.                                        *)
(***************************************************************************)
EXTENDS DistributionEngine, MarketTopic_proofs, FiniteSetTheorems

(* The first state satisfies the inductive invariant.                      *)
LEMMA EngineInitInv ==
  ASSUME Init
  PROVE  EngineInv
PROOF
<1> USE DEF Init, TopicInit, EngineInit
<1>1. TopicTypeOK
  BY DEF TopicTypeOK
<1>2. EngineTypeOK
  <2>1. queue \in Seq(Item) /\ acks \subseteq Item /\ hand \subseteq Item /\ current \subseteq Item
    OBVIOUS
  <2>2. /\ tpc \in {"down", "loop", "poll", "handoff", "final", "stopped"}
        /\ ppc \in {"down", "get", "update", "publish", "returned"}
        /\ shutdown \in BOOLEAN /\ stop \in BOOLEAN
    OBVIOUS
  <2>3. /\ committed \in [Partition -> Nat \cup {NoOffset}]
        /\ nextCommit \in [Partition -> Nat \cup {NoOffset}]
        /\ snapshot \in [Symbol -> Nat \cup {NoOffset}]
        /\ published \in [Symbol -> Nat \cup {NoOffset}]
        /\ position \in [Partition -> Nat] /\ halts \in Nat
    OBVIOUS
  <2>4. /\ pending \in [Partition -> SUBSET Nat]
        /\ done \in [Partition -> SUBSET Nat]
        /\ skipped \in [Partition -> SUBSET Nat]
    OBVIOUS
  <2> QED
    BY <1>1, <2>1, <2>2, <2>3, <2>4 DEF EngineTypeOK
<1>3. \A p \in Partition : committed[p] <= Len(log[p]) /\ Offsets(p) = {}
  BY DEF Offsets, NoOffset
<1>4. ItemsAccountedFor
  BY DEF ItemsAccountedFor
<1> QED
  BY <1>2, <1>3, <1>4 DEF EngineInv, CommitSafe, CursorBase

(* Type correctness is preserved by the thread, the loop and the outside.  *)
LEMMA EngineTypeStep ==
  ASSUME EngineTypeOK, [Next]_vars
  PROVE  EngineTypeOK'
PROOF
<1> USE DEF EngineTypeOK, threadVars, redisVars, Item
<1>1. CASE UNCHANGED vars
  BY <1>1, SameTopic DEF vars, engineVars
<1>2. CASE Feed
  BY <1>2, TopicAppends DEF Feed, engineVars
<1>3. CASE Start
  <2>1. position' \in [Partition -> Nat]
    BY <1>3 DEF Start, ResumeOffset, TopicTypeOK, NoOffset
  <2>2. skipped' \in [Partition -> SUBSET Nat]
    BY <1>3 DEF Start, Offsets
  <2> QED
    BY <1>3, <2>1, <2>2, SameTopic DEF Start
<1>4. CASE DrainOk \/ DrainRaises
  <2>1. Drain
    BY <1>4 DEF DrainOk, DrainRaises
  <2>2. \A p \in Partition : Collected(p) \subseteq Nat
    BY DEF Collected
  <2>3. PICK cursor \in [Partition -> NoOffset .. MaxLog], ps \in SUBSET Partition :
          /\ \A p \in Partition : IsCursor(p, cursor[p])
          /\ Advance(cursor, ps)
          /\ nextCommit' \in {cursor, nextCommit}
          /\ pending' \in [Partition -> SUBSET Nat]
    <3>1. CASE DrainOk
      <4>1. PICK cursor \in [Partition -> NoOffset .. MaxLog] :
              /\ \A p \in Partition : IsCursor(p, cursor[p])
              /\ Advance(cursor, Partition)
              /\ nextCommit' = cursor
              /\ pending' = [p \in Partition |->
                   Collected(p) \ (nextCommit[p] .. cursor[p] - 1)]
        BY <3>1 DEF DrainOk
      <4>2. pending' \in [Partition -> SUBSET Nat]
        BY <2>2, <4>1
      <4> QED
        BY <4>1, <4>2
    <3>2. CASE DrainRaises
      <4>1. pending' \in [Partition -> SUBSET Nat]
        BY <2>2, <3>2 DEF DrainRaises
      <4> QED
        BY <3>2, <4>1 DEF DrainRaises
    <3> QED
      BY <1>4, <3>1, <3>2
  <2>4. \A p \in Partition : cursor[p] \in Nat \cup {NoOffset}
    BY <2>3, TopicAssumption DEF NoOffset
  <2>5. committed' \in [Partition -> Nat \cup {NoOffset}]
    BY <2>3, <2>4 DEF Advance
  <2>6. nextCommit' \in [Partition -> Nat \cup {NoOffset}]
    BY <2>3, <2>4
  <2> QED
    BY <2>1, <2>3, <2>5, <2>6, SameTopic DEF Drain
<1>5. CASE PollNone \/ LoopExit
  BY <1>5, SameTopic DEF PollNone, LoopExit
<1>6. ASSUME NEW p \in Partition, PollEvent(p) \/ PollMalformed(p) PROVE EngineTypeOK'
  <2>1. position[p] \in Nat /\ position' \in [Partition -> Nat]
    <3> HIDE DEF EngineTypeOK
    <3>1. position \in [Partition -> Nat]
      BY DEF EngineTypeOK
    <3>2. position' = [position EXCEPT ![p] = @ + 1]
      BY <1>6 DEF PollEvent, PollMalformed
    <3> QED
      BY <3>1, <3>2
  <2>2. nextCommit' \in [Partition -> Nat \cup {NoOffset}]
    BY <1>6, <2>1 DEF PollEvent, PollMalformed, TrackConsumed
  <2> QED
    BY <1>6, <2>1, <2>2, SameTopic DEF PollEvent, PollMalformed
<1>7. CASE Handoff \/ HandoffStopped
  <2>1. queue' = queue \/ \E t \in Item : queue' = Append(queue, t)
    BY <1>7 DEF Handoff, HandoffStopped, Put
  <2>2. queue' \in Seq(Item)
    <3> HIDE DEF EngineTypeOK, Item
    <3>1. queue \in Seq(Item)
      BY DEF EngineTypeOK
    <3> QED
      BY <2>1, <3>1
  <2> QED
    BY <1>7, <2>2, SameTopic DEF Handoff, HandoffStopped
<1>8. CASE Get
  <2>1. queue' \in Seq(Item) /\ current' \subseteq Item
    BY <1>8 DEF Get
  <2> QED
    BY <1>8, <2>1, SameTopic DEF Get
<1>9. CASE UpdateOk \/ UpdateFails
  <2>1. snapshot' \in [Symbol -> Nat \cup {NoOffset}]
    BY <1>9 DEF UpdateOk, UpdateFails, WriteSnapshot
  <2> QED
    BY <1>9, <2>1, SameTopic DEF UpdateOk, UpdateFails, processorRest
<1>10. CASE PublishOk \/ PublishFails
  <2>1. published' \in [Symbol -> Nat \cup {NoOffset}]
    BY <1>10 DEF PublishOk, PublishFails, Publish
  <2>2. done' \in [Partition -> SUBSET Nat]
    <3> HIDE DEF EngineTypeOK
    <3>1. done \in [Partition -> SUBSET Nat] /\ current \subseteq Partition \X Nat
      BY DEF EngineTypeOK
    <3>2. \/ done' = done
          \/ \E t \in current : done' = [done EXCEPT ![t[1]] = @ \cup {t[2]}]
      BY <1>10 DEF PublishOk, PublishFails
    <3>3. ASSUME NEW t \in current, done' = [done EXCEPT ![t[1]] = @ \cup {t[2]}]
          PROVE  done' \in [Partition -> SUBSET Nat]
      <4>1. t[1] \in Partition /\ t[2] \in Nat
        BY <3>1
      <4>2. done[t[1]] \cup {t[2]} \in SUBSET Nat
        BY <3>1, <4>1
      <4> QED
        BY <3>1, <3>3, <4>2
    <3> QED
      BY <3>1, <3>2, <3>3
  <2>3. acks' \subseteq Item /\ current' \subseteq Item
    BY <1>10 DEF PublishOk, PublishFails
  <2> QED
    BY <1>10, <2>1, <2>2, <2>3, SameTopic DEF PublishOk, PublishFails, processorRest
<1>11. CASE Return \/ Shutdown \/ Interrupt
  <2>1. CASE Return
    BY <2>1, SameTopic DEF Return
  <2>2. CASE Shutdown
    BY <2>2, SameTopic DEF Shutdown
  <2>3. CASE Interrupt
    BY <2>3, SameTopic DEF Interrupt
  <2> QED
    BY <1>11, <2>1, <2>2, <2>3
<1>12. CASE Terminate \/ Kill
  <2>1. Gone /\ halts' \in Nat
    BY <1>12 DEF Terminate, Kill
  <2> QED
    <3>1. /\ nextCommit' \in [Partition -> Nat \cup {NoOffset}]
          /\ pending' \in [Partition -> SUBSET Nat]
      BY <2>1 DEF Gone
    <3>2. queue' \in Seq(Item) /\ acks' \subseteq Item /\ hand' \subseteq Item /\ current' \subseteq Item
      BY <2>1 DEF Gone
    <3>3. tpc' = "down" /\ ppc' = "down" /\ shutdown' = FALSE /\ stop' = FALSE
      BY <2>1 DEF Gone
    <3> QED
      BY <2>1, <3>1, <3>2, <3>3, SameTopic DEF Gone
<1> QED
  BY <1>1, <1>2, <1>3, <1>4, <1>5, <1>6, <1>7, <1>8, <1>9, <1>10, <1>11, <1>12
  DEF Next, Run, Thread, Processor

(* A step that leaves the offsets alone and lets the processed ones grow   *)
(* preserves the invariant, if the travelling items stay accounted for.    *)
LEMMA QuietStep ==
  ASSUME EngineInv, EngineTypeOK', ItemsAccountedFor',
         UNCHANGED <<topicVars, committed, nextCommit, position, pending, skipped>>,
         \A p \in Partition : done[p] \subseteq done'[p],
         tpc' # "down" => tpc # "down"
  PROVE  EngineInv'
PROOF
<1>1. \A p \in Partition : \A o : Settled(p, o) => Settled(p, o)'
  BY SameTopic DEF Settled
<1>2. CommitSafe'
  BY <1>1, SameTopic DEF EngineInv, CommitSafe
<1>3. CursorBase'
  BY <1>1, SameTopic DEF EngineInv, CursorBase
<1> QED
  BY <1>2, <1>3, SameTopic DEF EngineInv

(* While the topic only grows, what was known of it stays known.           *)
LEMMA EngineFeedStep ==
  ASSUME EngineInv, EngineTypeOK', Feed
  PROVE  EngineInv'
PROOF
<1> USE DEF Feed, engineVars, threadVars
<1>1. /\ \A p \in Partition : Offsets(p) \subseteq Offsets(p)'
      /\ \A p \in Partition : \A o \in Offsets(p) : RecordAt(p, o)' = RecordAt(p, o)
  BY TopicAppends DEF EngineInv, EngineTypeOK
<1>2. \A p \in Partition : \A o \in Offsets(p) : Settled(p, o)' <=> Settled(p, o)
  BY <1>1 DEF Settled, IsEvent
<1>3. \A p \in Partition : /\ Len(log[p]) \in Nat /\ Len(log'[p]) \in Nat
                          /\ committed[p] \in Nat \cup {NoOffset} /\ position[p] \in Nat
                          /\ nextCommit[p] \in Nat \cup {NoOffset}
  BY DEF EngineInv, EngineTypeOK, TopicTypeOK
<1>4. \A p \in Partition : Len(log[p]) <= Len(log'[p])
  BY <1>1, <1>3 DEF Offsets
<1>5. \A p \in Partition : committed[p] <= Len(log[p])
  BY DEF EngineInv
<1>6. \A p \in Partition : committed[p] <= Len(log'[p])
  BY <1>3, <1>4, <1>5 DEF NoOffset
<1>7. ASSUME NEW p \in Partition, NEW o \in Offsets(p)', NEW b \in Int, b <= Len(log[p]), o < b
      PROVE  o \in Offsets(p)
  BY <1>3, <1>7 DEF Offsets
<1>8. CommitSafe'
  BY <1>2, <1>3, <1>5, <1>7 DEF EngineInv, CommitSafe, NoOffset
<1>9. ItemsAccountedFor'
  <2>1. \A t \in hand \cup current : t[1] \in Partition
    BY DEF EngineInv, EngineTypeOK, Item
  <2>2. \A i \in 1 .. Len(queue) : queue[i] \in Item
    BY DEF EngineInv, EngineTypeOK
  <2>3. \A i \in 1 .. Len(queue) : queue[i][1] \in Partition
    BY <2>2 DEF Item
  <2> QED
    BY <1>1, <2>1, <2>3 DEF EngineInv, ItemsAccountedFor
<1>10. CursorBase'
  <2>1. SUFFICES ASSUME NEW p \in Partition
                 PROVE  IF nextCommit[p] = NoOffset
                        THEN tpc # "down" =>
                               /\ committed[p] <= position[p] /\ position[p] <= Len(log'[p])
                               /\ \A o \in Offsets(p)' : o < position[p] => Settled(p, o)'
                        ELSE /\ nextCommit[p] <= Len(log'[p])
                             /\ \A o \in Offsets(p)' :
                                  /\ o < nextCommit[p] => Settled(p, o)'
                                  /\ (nextCommit[p] <= o /\ o < committed[p]) => o \in pending[p]
    BY DEF CursorBase
  <2>2. CASE nextCommit[p] = NoOffset /\ tpc # "down"
    <3>1. /\ committed[p] <= position[p] /\ position[p] <= Len(log[p])
          /\ \A o \in Offsets(p) : o < position[p] => Settled(p, o)
      BY <2>2 DEF EngineInv, CursorBase
    <3>2. position[p] <= Len(log'[p])
      BY <1>3, <1>4, <3>1
    <3>3. \A o \in Offsets(p)' : o < position[p] => o \in Offsets(p)
      BY <1>3, <1>7, <3>1
    <3> QED
      BY <1>2, <2>2, <3>1, <3>2, <3>3
  <2>3. CASE nextCommit[p] # NoOffset
    <3>1. /\ nextCommit[p] <= Len(log[p])
          /\ \A o \in Offsets(p) :
               /\ o < nextCommit[p] => Settled(p, o)
               /\ (nextCommit[p] <= o /\ o < committed[p]) => o \in pending[p]
      BY <2>3 DEF EngineInv, CursorBase
    <3>2. nextCommit[p] <= Len(log'[p])
      BY <1>3, <1>4, <2>3, <3>1
    <3>3. \A o \in Offsets(p)' : o < nextCommit[p] \/ o < committed[p] => o \in Offsets(p)
      BY <1>3, <1>5, <1>7, <2>3, <3>1 DEF NoOffset
    <3> QED
      BY <1>2, <2>3, <3>1, <3>2, <3>3
  <2> QED
    BY <2>2, <2>3
<1> QED
  BY <1>6, <1>8, <1>9, <1>10 DEF EngineInv

(* The offset a drain may commit: all below it is settled, and it is not   *)
(* behind what the broker already has.                                     *)
LEMMA CursorLemma ==
  ASSUME EngineInv, NEW p \in Partition, NEW c \in NoOffset .. MaxLog, IsCursor(p, c)
  PROVE  /\ Collected(p) \subseteq done[p]
         /\ nextCommit[p] = NoOffset => c = NoOffset
         /\ nextCommit[p] # NoOffset =>
              /\ c \in Nat /\ nextCommit[p] <= c /\ c <= Len(log[p]) /\ committed[p] <= c
              /\ \A o \in Offsets(p) : o < c => Settled(p, o)
              /\ \A o \in Offsets(p) : (nextCommit[p] <= o /\ o < c) => o \in Collected(p)
PROOF
<1>1. /\ nextCommit[p] \in Nat \cup {NoOffset} /\ committed[p] \in Nat \cup {NoOffset}
      /\ Len(log[p]) \in Nat /\ c \in Int /\ NoOffset = -1
  BY TopicAssumption DEF EngineInv, EngineTypeOK, TopicTypeOK, NoOffset
<1>2. Collected(p) \subseteq done[p]
  BY DEF EngineInv, ItemsAccountedFor, Collected
<1>3. done[p] \subseteq Offsets(p)
  BY DEF EngineInv, ItemsAccountedFor
<1>4. CASE nextCommit[p] = NoOffset
  BY <1>2, <1>4 DEF IsCursor
<1>5. CASE nextCommit[p] # NoOffset
  <2>1. /\ nextCommit[p] \in Nat /\ nextCommit[p] <= c /\ c \in Nat
        /\ nextCommit[p] .. c - 1 \subseteq Collected(p) /\ c \notin Collected(p)
    BY <1>1, <1>5 DEF IsCursor
  <2>2. /\ nextCommit[p] <= Len(log[p])
        /\ \A o \in Offsets(p) :
             /\ o < nextCommit[p] => Settled(p, o)
             /\ (nextCommit[p] <= o /\ o < committed[p]) => o \in pending[p]
    BY <1>5 DEF EngineInv, CursorBase
  <2>3. c <= Len(log[p])
    <3>1. CASE c = nextCommit[p]
      BY <2>2, <3>1
    <3>2. CASE c # nextCommit[p]
      <4>1. c - 1 \in nextCommit[p] .. c - 1
        BY <2>1, <3>2
      <4>2. c - 1 \in Offsets(p)
        BY <1>2, <1>3, <2>1, <4>1
      <4> QED
        BY <1>1, <2>1, <4>2 DEF Offsets
    <3> QED
      BY <3>1, <3>2
  <2>4. committed[p] <= c
    <3>1. SUFFICES ASSUME c < committed[p] PROVE FALSE
      BY <1>1, <2>1
    <3>2. committed[p] <= Len(log[p])
      BY DEF EngineInv
    <3>3. c \in Offsets(p)
      BY <1>1, <2>1, <3>1, <3>2 DEF Offsets
    <3>4. c \in pending[p]
      BY <2>1, <2>2, <3>1, <3>3
    <3> QED
      BY <2>1, <3>4 DEF Collected
  <2>5. \A o \in Offsets(p) : (nextCommit[p] <= o /\ o < c) => o \in Collected(p)
    BY <1>1, <2>1 DEF Offsets
  <2>6. \A o \in Offsets(p) : o < c => Settled(p, o)
    <3>1. SUFFICES ASSUME NEW o \in Offsets(p), o < c PROVE Settled(p, o)
      OBVIOUS
    <3>2. CASE o < nextCommit[p]
      BY <2>2, <3>2
    <3>3. CASE nextCommit[p] <= o
      BY <1>2, <2>5, <3>1, <3>3 DEF Settled
    <3> QED
      BY <1>1, <2>1, <3>2, <3>3 DEF Offsets
  <2> QED
    BY <1>2, <1>5, <2>1, <2>3, <2>4, <2>5, <2>6
<1> QED
  BY <1>4, <1>5

(* What a drain does to the commits, applied to any set of partitions.     *)
LEMMA AdvanceLemma ==
  ASSUME EngineInv, NEW cursor \in [Partition -> NoOffset .. MaxLog], NEW ps \in SUBSET Partition,
         \A p \in Partition : IsCursor(p, cursor[p]), Advance(cursor, ps)
  PROVE  \A p \in Partition :
           /\ committed'[p] = committed[p] \/ (nextCommit[p] # NoOffset /\ committed'[p] = cursor[p])
           /\ committed[p] <= committed'[p] /\ committed'[p] <= Len(log[p])
           /\ \A o \in Offsets(p) : o < committed'[p] => Settled(p, o)
PROOF
<1>1. SUFFICES ASSUME NEW p \in Partition
               PROVE  /\ committed'[p] = committed[p] \/ (nextCommit[p] # NoOffset /\ committed'[p] = cursor[p])
                      /\ committed[p] <= committed'[p] /\ committed'[p] <= Len(log[p])
                      /\ \A o \in Offsets(p) : o < committed'[p] => Settled(p, o)
  OBVIOUS
<1>2. /\ committed[p] \in Nat \cup {NoOffset} /\ committed[p] <= Len(log[p]) /\ NoOffset = -1
      /\ \A o \in Offsets(p) : o < committed[p] => Settled(p, o)
  BY DEF EngineInv, EngineTypeOK, CommitSafe, NoOffset
<1>3. CASE committed'[p] = committed[p]
  BY <1>2, <1>3
<1>4. CASE committed'[p] # committed[p]
  <2>1. cursor[p] \in NoOffset .. MaxLog /\ IsCursor(p, cursor[p])
    OBVIOUS
  <2>2. committed'[p] = cursor[p] /\ cursor[p] > nextCommit[p]
    BY <1>4 DEF Advance
  <2>3. nextCommit[p] # NoOffset
    BY <1>2, <2>1, <2>2, CursorLemma
  <2> QED
    BY <2>1, <2>2, <2>3, CursorLemma
<1> QED
  BY <1>3, <1>4

(* A drain preserves the invariant whether its commit succeeds or raises.  *)
LEMMA DrainStep ==
  ASSUME EngineInv, EngineTypeOK', DrainOk \/ DrainRaises
  PROVE  EngineInv' /\ \A p \in Partition : committed[p] <= committed'[p]
PROOF
<1>1. /\ UNCHANGED <<topicVars, position, hand, queue, current, done, skipped>>
      /\ acks' = {} /\ tpc # "down"
  BY DEF DrainOk, DrainRaises, Drain
<1>2. PICK cursor \in [Partition -> NoOffset .. MaxLog], ps \in SUBSET Partition :
        /\ \A p \in Partition : IsCursor(p, cursor[p])
        /\ Advance(cursor, ps)
        /\ \/ nextCommit' = cursor /\ ps = Partition
           \/ /\ nextCommit' = nextCommit
              /\ pending' = [p \in Partition |-> Collected(p)]
        /\ \A p \in Partition : pending'[p] \subseteq Collected(p)
  <2>1. CASE DrainOk
    <3>1. PICK cursor \in [Partition -> NoOffset .. MaxLog] :
            /\ \A p \in Partition : IsCursor(p, cursor[p])
            /\ Advance(cursor, Partition)
            /\ nextCommit' = cursor
            /\ pending' = [p \in Partition |->
                 Collected(p) \ (nextCommit[p] .. cursor[p] - 1)]
      BY <2>1 DEF DrainOk
    <3>2. \A p \in Partition : pending'[p] \subseteq Collected(p)
      BY <3>1
    <3> QED
      BY <3>1, <3>2
  <2>2. CASE DrainRaises
    <3>1. \A p \in Partition : pending'[p] \subseteq Collected(p)
      BY <2>2 DEF DrainRaises
    <3> QED
      BY <2>2, <3>1 DEF DrainRaises
  <2> QED
    BY <2>1, <2>2
<1>3. \A p \in Partition :
           /\ committed'[p] = committed[p] \/ (nextCommit[p] # NoOffset /\ committed'[p] = cursor[p])
           /\ committed[p] <= committed'[p] /\ committed'[p] <= Len(log[p])
           /\ \A o \in Offsets(p) : o < committed'[p] => Settled(p, o)
  BY <1>2, AdvanceLemma
<1>4. \A p, o : Settled(p, o)' <=> Settled(p, o)
  BY <1>1, SameTopic DEF Settled
<1>5. CommitSafe' /\ \A p \in Partition : committed'[p] <= Len(log'[p])
  BY <1>1, <1>3, <1>4, SameTopic DEF CommitSafe
<1>6. ItemsAccountedFor'
  <2>1. \A p \in Partition : pending'[p] \subseteq done[p]
    <3>1. SUFFICES ASSUME NEW p \in Partition PROVE pending'[p] \subseteq done[p]
      OBVIOUS
    <3>2. cursor[p] \in NoOffset .. MaxLog /\ IsCursor(p, cursor[p])
      BY <1>2
    <3> QED
      BY <1>2, <3>2, CursorLemma
  <2> QED
    BY <1>1, <2>1, SameTopic DEF EngineInv, ItemsAccountedFor
<1>7. CursorBase'
  <2>1. SUFFICES ASSUME NEW p \in Partition
                 PROVE  IF nextCommit'[p] = NoOffset
                        THEN /\ committed'[p] <= position[p] /\ position[p] <= Len(log[p])
                             /\ \A o \in Offsets(p) : o < position[p] => Settled(p, o)
                        ELSE /\ nextCommit'[p] <= Len(log[p])
                             /\ \A o \in Offsets(p) :
                                  /\ o < nextCommit'[p] => Settled(p, o)
                                  /\ (nextCommit'[p] <= o /\ o < committed'[p]) => o \in pending'[p]
    BY <1>1, <1>4, SameTopic DEF CursorBase
  <2>2. /\ cursor[p] \in NoOffset .. MaxLog /\ IsCursor(p, cursor[p]) /\ cursor[p] \in Int
        /\ NoOffset = -1 /\ nextCommit[p] \in Nat \cup {NoOffset}
        /\ committed[p] \in Nat \cup {NoOffset}
    BY <1>2, TopicAssumption DEF EngineInv, EngineTypeOK, NoOffset
  <2>3. CASE nextCommit[p] = NoOffset
    <3>1. nextCommit'[p] = NoOffset /\ committed'[p] = committed[p]
      BY <1>2, <1>3, <2>2, <2>3, CursorLemma
    <3> QED
      BY <1>1, <2>3, <3>1 DEF EngineInv, CursorBase
  <2>4. CASE nextCommit[p] # NoOffset
    <3>1. /\ cursor[p] \in Nat /\ nextCommit[p] <= cursor[p] /\ cursor[p] <= Len(log[p])
          /\ committed[p] <= cursor[p]
          /\ \A o \in Offsets(p) : o < cursor[p] => Settled(p, o)
          /\ \A o \in Offsets(p) : (nextCommit[p] <= o /\ o < cursor[p]) => o \in Collected(p)
      BY <2>2, <2>4, CursorLemma
    <3>2. committed'[p] = committed[p] \/ committed'[p] = cursor[p]
      BY <1>3
    <3>3. CASE nextCommit' = cursor
      <4>1. \A o \in Offsets(p) : ~(cursor[p] <= o /\ o < committed'[p])
        BY <2>2, <3>1, <3>2 DEF Offsets
      <4> QED
        BY <2>2, <3>1, <3>3, <4>1
    <3>4. CASE nextCommit' = nextCommit /\ pending' = [q \in Partition |-> Collected(q)]
      <4>1. \A o \in Offsets(p) : o < committed'[p] => o < cursor[p]
        BY <2>2, <3>1, <3>2 DEF Offsets
      <4>2. /\ nextCommit[p] <= Len(log[p])
            /\ \A o \in Offsets(p) : o < nextCommit[p] => Settled(p, o)
        BY <2>4 DEF EngineInv, CursorBase
      <4> QED
        BY <2>4, <3>1, <3>4, <4>1, <4>2
    <3> QED
      BY <1>2, <3>3, <3>4
  <2> QED
    BY <2>3, <2>4
<1> QED
  BY <1>3, <1>5, <1>6, <1>7 DEF EngineInv

(* Polling a record: the first event of a partition fixes where commits    *)
(* begin, a malformed record moves only the position.                      *)
LEMMA PollStep ==
  ASSUME EngineInv, EngineTypeOK', NEW p \in Partition, PollEvent(p) \/ PollMalformed(p)
  PROVE  EngineInv'
PROOF
<1>1. /\ UNCHANGED <<topicVars, committed, pending, acks, queue, current, done, skipped>>
      /\ tpc # "down" /\ position[p] \in Offsets(p)
      /\ position' = [position EXCEPT ![p] = @ + 1]
      /\ \/ ~IsEvent(p, position[p]) /\ UNCHANGED <<nextCommit, hand>>
         \/ TrackConsumed(p, position[p]) /\ hand' = {<<p, position[p]>>}
  BY DEF PollEvent, PollMalformed
<1>2. /\ position \in [Partition -> Nat] /\ nextCommit \in [Partition -> Nat \cup {NoOffset}]
      /\ committed \in [Partition -> Nat \cup {NoOffset}] /\ NoOffset = -1
      /\ Len(log[p]) \in Nat
  BY DEF EngineInv, EngineTypeOK, TopicTypeOK, NoOffset
<1>3. \A q, o : Settled(q, o)' <=> Settled(q, o)
  BY <1>1, SameTopic DEF Settled
<1>4. CommitSafe' /\ \A q \in Partition : committed'[q] <= Len(log'[q])
  BY <1>1, <1>3, SameTopic DEF EngineInv, CommitSafe
<1>5. ItemsAccountedFor'
  BY <1>1, SameTopic DEF EngineInv, ItemsAccountedFor
<1>6. CursorBase'
  <2>1. SUFFICES ASSUME NEW q \in Partition
                 PROVE  IF nextCommit'[q] = NoOffset
                        THEN /\ committed[q] <= position'[q] /\ position'[q] <= Len(log[q])
                             /\ \A o \in Offsets(q) : o < position'[q] => Settled(q, o)
                        ELSE /\ nextCommit'[q] <= Len(log[q])
                             /\ \A o \in Offsets(q) :
                                  /\ o < nextCommit'[q] => Settled(q, o)
                                  /\ (nextCommit'[q] <= o /\ o < committed[q]) => o \in pending[q]
    BY <1>1, <1>3, SameTopic DEF CursorBase
  <2>2. CASE q # p
    <3>1. nextCommit'[q] = nextCommit[q] /\ position'[q] = position[q]
      BY <1>1, <1>2, <2>2 DEF TrackConsumed
    <3> QED
      BY <1>1, <3>1 DEF EngineInv, CursorBase
  <2>3. CASE q = p /\ nextCommit[p] # NoOffset
    <3>1. nextCommit' = nextCommit
      BY <1>1, <2>3 DEF TrackConsumed
    <3> QED
      BY <2>3, <3>1 DEF EngineInv, CursorBase
  <2>4. CASE q = p /\ nextCommit[p] = NoOffset
    <3>1. /\ committed[p] <= position[p] /\ position[p] <= Len(log[p])
          /\ \A o \in Offsets(p) : o < position[p] => Settled(p, o)
      BY <1>1, <2>4 DEF EngineInv, CursorBase
    <3>2. position'[p] = position[p] + 1 /\ position[p] < Len(log[p]) /\ position[p] \in Nat
      BY <1>1, <1>2 DEF Offsets
    <3>3. CASE ~IsEvent(p, position[p]) /\ UNCHANGED <<nextCommit, hand>>
      <4>1. Settled(p, position[p])
        BY <3>3 DEF Settled
      <4>2. \A o \in Offsets(p) : o < position'[p] => (o < position[p] \/ o = position[p])
        BY <1>2, <3>2 DEF Offsets
      <4>3. committed[p] <= position'[p] /\ position'[p] <= Len(log[p])
        BY <1>2, <3>1, <3>2
      <4> QED
        BY <2>4, <3>1, <3>3, <4>1, <4>2, <4>3
    <3>4. CASE TrackConsumed(p, position[p])
      <4>1. nextCommit'[p] = position[p]
        BY <1>2, <2>4, <3>4 DEF TrackConsumed
      <4>2. \A o \in Offsets(p) : ~(position[p] <= o /\ o < committed[p])
        BY <1>2, <3>1, <3>2 DEF Offsets
      <4> QED
        BY <1>2, <2>4, <3>1, <3>2, <4>1, <4>2
    <3> QED
      BY <1>1, <3>3, <3>4
  <2> QED
    BY <2>2, <2>3, <2>4
<1> QED
  BY <1>4, <1>5, <1>6 DEF EngineInv

(* Every step preserves the inductive invariant and commits forward.       *)
LEMMA EngineNextInv ==
  ASSUME EngineInv, [Next]_vars
  PROVE  EngineInv' /\ \A p \in Partition : committed[p] <= committed'[p]
PROOF
<1>0. EngineTypeOK'
  BY EngineTypeStep DEF EngineInv
<1>a. UNCHANGED committed => \A p \in Partition : committed[p] <= committed'[p]
  <2>1. \A p \in Partition : committed[p] \in Int
    BY DEF EngineInv, EngineTypeOK, NoOffset
  <2> QED
    BY <2>1
<1>1. CASE UNCHANGED vars
  <2>1. ItemsAccountedFor'
    BY <1>1, SameTopic DEF EngineInv, ItemsAccountedFor, vars, engineVars, threadVars
  <2> QED
    BY <1>0, <1>a, <1>1, <2>1, QuietStep DEF vars, engineVars, threadVars
<1>2. CASE Feed
  BY <1>0, <1>a, <1>2, EngineFeedStep DEF Feed, engineVars
<1>3. CASE Start
  <2>1. UNCHANGED <<topicVars, committed, nextCommit, pending, hand, acks, queue, current, done>>
    BY <1>3 DEF Start
  <2>2. \A p \in Partition :
          /\ position'[p] = IF committed[p] = NoOffset THEN Len(log[p]) ELSE committed[p]
          /\ skipped'[p] = skipped[p] \cup (IF committed[p] = NoOffset THEN Offsets(p) ELSE {})
    BY <1>3 DEF Start, ResumeOffset
  <2>3. \A p \in Partition : \A o : Settled(p, o) => Settled(p, o)'
    BY <2>1, <2>2, SameTopic DEF Settled
  <2>4. CommitSafe'
    BY <2>1, <2>3, SameTopic DEF EngineInv, CommitSafe
  <2>5. ItemsAccountedFor'
    BY <2>1, SameTopic DEF EngineInv, ItemsAccountedFor
  <2>6. CursorBase'
    <3>1. SUFFICES ASSUME NEW p \in Partition
                   PROVE  IF nextCommit[p] = NoOffset
                          THEN /\ committed[p] <= position'[p] /\ position'[p] <= Len(log[p])
                               /\ \A o \in Offsets(p) : o < position'[p] => Settled(p, o)'
                          ELSE /\ nextCommit[p] <= Len(log[p])
                               /\ \A o \in Offsets(p) :
                                    /\ o < nextCommit[p] => Settled(p, o)'
                                    /\ (nextCommit[p] <= o /\ o < committed[p]) => o \in pending[p]
      BY <2>1, SameTopic DEF CursorBase
    <3>2. /\ committed[p] \in Nat \cup {NoOffset} /\ Len(log[p]) \in Nat /\ NoOffset = -1
          /\ committed[p] <= Len(log[p])
      BY DEF EngineInv, EngineTypeOK, TopicTypeOK, NoOffset
    <3>3. CASE nextCommit[p] = NoOffset
      <4>1. committed[p] <= position'[p] /\ position'[p] <= Len(log[p])
        BY <2>2, <3>2
      <4>2. CASE committed[p] = NoOffset
        <5>1. \A o \in Offsets(p) : Settled(p, o)'
          BY <2>2, <4>2 DEF Settled
        <5> QED
          BY <3>3, <4>1, <5>1
      <4>3. CASE committed[p] # NoOffset
        <5>1. \A o \in Offsets(p) : o < position'[p] => Settled(p, o)'
          BY <2>2, <2>3, <4>3 DEF EngineInv, CommitSafe
        <5> QED
          BY <3>3, <4>1, <5>1
      <4> QED
        BY <4>2, <4>3
    <3>4. CASE nextCommit[p] # NoOffset
      BY <2>3, <3>4 DEF EngineInv, CursorBase
    <3> QED
      BY <3>3, <3>4
  <2> QED
    BY <1>0, <1>a, <2>1, <2>4, <2>5, <2>6, SameTopic DEF EngineInv
<1>4. CASE DrainOk \/ DrainRaises
  BY <1>0, <1>4, DrainStep
<1>5. ASSUME NEW p \in Partition, PollEvent(p) \/ PollMalformed(p)
      PROVE  EngineInv' /\ UNCHANGED committed
  <2>1. UNCHANGED committed
    BY <1>5 DEF PollEvent, PollMalformed
  <2> QED
    BY <1>0, <1>5, <2>1, PollStep
<1>6. CASE \/ PollNone \/ LoopExit \/ UpdateOk \/ UpdateFails \/ PublishFails
           \/ Return \/ Shutdown \/ Interrupt
  <2>1. /\ UNCHANGED <<topicVars, committed, nextCommit, position, pending, hand, acks, queue,
                       done, skipped>>
        /\ current' \subseteq current /\ (tpc' # "down" => tpc # "down")
    BY <1>6 DEF PollNone, LoopExit, UpdateOk, UpdateFails, PublishFails, Return, Shutdown,
                Interrupt, threadVars, processorRest
  <2>2. ItemsAccountedFor'
    BY <2>1, SameTopic DEF EngineInv, ItemsAccountedFor
  <2> QED
    BY <1>0, <1>a, <2>1, <2>2, QuietStep
<1>7. CASE Handoff \/ HandoffStopped
  <2>1. /\ UNCHANGED <<topicVars, committed, nextCommit, position, pending, acks, current,
                       done, skipped>>
        /\ hand' = {} /\ tpc # "down"
        /\ UNCHANGED queue \/ \E t \in hand : queue' = Append(queue, t)
    BY <1>7 DEF Handoff, HandoffStopped, Put
  <2>2. \A i \in 1 .. Len(queue') : queue'[i][2] \in Offsets(queue'[i][1])
    <3>1. queue \in Seq(Item) /\ hand \subseteq Item
      BY DEF EngineInv, EngineTypeOK
    <3>2. CASE UNCHANGED queue
      BY <3>2 DEF EngineInv, ItemsAccountedFor
    <3>3. ASSUME NEW t \in hand, queue' = Append(queue, t)
          PROVE  \A i \in 1 .. Len(queue') : queue'[i][2] \in Offsets(queue'[i][1])
      <4>1. \A i \in 1 .. Len(queue') : queue'[i] = t \/ (i \in 1 .. Len(queue) /\ queue'[i] = queue[i])
        BY <3>1, <3>3
      <4> QED
        BY <4>1 DEF EngineInv, ItemsAccountedFor
    <3> QED
      BY <2>1, <3>2, <3>3
  <2>3. ItemsAccountedFor'
    BY <2>1, <2>2, SameTopic DEF EngineInv, ItemsAccountedFor
  <2> QED
    BY <1>0, <1>a, <2>1, <2>3, QuietStep
<1>8. CASE Get
  <2>1. /\ UNCHANGED <<topicVars, committed, nextCommit, position, pending, hand, acks, done,
                       skipped, tpc>>
        /\ queue # <<>> /\ current' = {Head(queue)} /\ queue' = Tail(queue)
    BY <1>8 DEF Get, threadVars
  <2>2. queue \in Seq(Item)
    BY DEF EngineInv, EngineTypeOK
  <2>3. /\ 1 \in 1 .. Len(queue) /\ Head(queue) = queue[1]
        /\ \A i \in 1 .. Len(queue') : i + 1 \in 1 .. Len(queue) /\ queue'[i] = queue[i + 1]
    BY <2>1, <2>2
  <2>4. ItemsAccountedFor'
    BY <2>1, <2>3, SameTopic DEF EngineInv, ItemsAccountedFor
  <2> QED
    BY <1>0, <1>a, <2>1, <2>4, QuietStep
<1>9. CASE PublishOk
  <2>1. PICK t \in current :
          /\ done' = [done EXCEPT ![t[1]] = @ \cup {t[2]}] /\ acks' = acks \cup {t}
          /\ current' = {}
          /\ UNCHANGED <<topicVars, committed, nextCommit, position, pending, hand, queue,
                         skipped, tpc>>
    BY <1>9 DEF PublishOk, processorRest, threadVars
  <2>2. t[1] \in Partition /\ t[2] \in Offsets(t[1]) /\ done \in [Partition -> SUBSET Nat]
    BY DEF EngineInv, EngineTypeOK, ItemsAccountedFor, Item
  <2>3. /\ done'[t[1]] = done[t[1]] \cup {t[2]}
        /\ \A p \in Partition : done[p] \subseteq done'[p]
        /\ \A p \in Partition : p # t[1] => done'[p] = done[p]
    BY <2>1, <2>2
  <2>4. \A u \in acks : u[1] \in Partition
    BY DEF EngineInv, EngineTypeOK, Item
  <2>5. ItemsAccountedFor'
    BY <2>1, <2>2, <2>3, <2>4, SameTopic DEF EngineInv, ItemsAccountedFor
  <2> QED
    BY <1>0, <1>a, <2>1, <2>3, <2>5, QuietStep
<1>10. CASE Terminate \/ Kill
  <2>1. Gone
    BY <1>10 DEF Terminate, Kill
  <2>2. ItemsAccountedFor'
    BY <2>1, SameTopic DEF Gone, EngineInv, ItemsAccountedFor
  <2>3. CursorBase'
    BY <2>1 DEF Gone, CursorBase
  <2>4. CommitSafe'
    BY <2>1, SameTopic DEF Gone, EngineInv, CommitSafe, Settled
  <2>5. UNCHANGED committed /\ \A p \in Partition : committed'[p] <= Len(log'[p])
    BY <2>1, SameTopic DEF Gone, EngineInv
  <2> QED
    BY <1>0, <1>a, <2>2, <2>3, <2>4, <2>5 DEF EngineInv
<1> QED
  BY <1>a, <1>1, <1>2, <1>3, <1>4, <1>5, <1>6, <1>7, <1>8, <1>9, <1>10 DEF Next, Run, Thread, Processor

(* Theorem: type correctness and the accounting of the commits.            *)
THEOREM EngineInvariant == Spec => []EngineInv
PROOF
<1>1. Init => EngineInv
  BY EngineInitInv
<1>2. EngineInv /\ [Next]_vars => EngineInv'
  BY EngineNextInv
<1> QED
  BY <1>1, <1>2, PTL DEF Spec

(* Theorem: no event is committed past before it is in Redis and published.*)
THEOREM EngineCommitsSafely == Spec => []CommitSafe
PROOF
<1>1. EngineInv => CommitSafe
  BY DEF EngineInv
<1> QED
  BY <1>1, EngineInvariant, PTL

(* Theorem: the committed offsets of the group never move back.            *)
THEOREM EngineCommitsForward == Spec => CommitsForward
PROOF
<1>1. EngineInv /\ [Next]_vars => [\A p \in Partition : committed[p] <= committed'[p]]_vars
  BY EngineNextInv
<1> QED
  BY <1>1, EngineInvariant, PTL DEF Spec, CommitsForward

(* Every step commits or settles, never both: the offsets that are settled *)
(* only grow, and a commit settles nothing.                                *)
LEMMA SettledStep ==
  ASSUME EngineInv, [Next]_vars
  PROVE  /\ \A p \in Partition : SettledOffsets[p] \subseteq SettledOffsets'[p]
         /\ UNCHANGED committed \/ UNCHANGED SettledOffsets
PROOF
<1>1. \A p \in Partition : /\ SettledOffsets[p] = {o \in Offsets(p) : Settled(p, o)}
                          /\ SettledOffsets'[p] = {o \in Offsets(p)' : Settled(p, o)'}
  BY DEF SettledOffsets
<1>2. CASE Feed
  <2>1. /\ \A p \in Partition : Offsets(p) \subseteq Offsets(p)'
        /\ \A p \in Partition : \A o \in Offsets(p) : RecordAt(p, o)' = RecordAt(p, o)
        /\ UNCHANGED <<committed, done, skipped>>
    BY <1>2, TopicAppends DEF Feed, engineVars, EngineInv, EngineTypeOK
  <2>2. \A p \in Partition : \A o \in Offsets(p) : Settled(p, o) => Settled(p, o)'
    BY <2>1 DEF Settled, IsEvent
  <2> QED
    BY <1>1, <2>1, <2>2
<1>3. CASE DrainOk \/ DrainRaises
  <2>1. UNCHANGED <<topicVars, done, skipped>>
    BY <1>3 DEF DrainOk, DrainRaises, Drain
  <2>2. UNCHANGED SettledOffsets
    BY <2>1, SameTopic DEF SettledOffsets, Settled
  <2> QED
    BY <2>2
<1>4. ASSUME UNCHANGED <<topicVars, committed>>,
             \A p \in Partition : done[p] \subseteq done'[p] /\ skipped[p] \subseteq skipped'[p]
      PROVE  /\ \A p \in Partition : SettledOffsets[p] \subseteq SettledOffsets'[p]
             /\ UNCHANGED committed
  <2>1. \A p \in Partition : \A o : Settled(p, o) => Settled(p, o)'
    BY <1>4, SameTopic DEF Settled
  <2> QED
    BY <1>1, <1>4, <2>1, SameTopic
<1>5. CASE Start
  BY <1>4, <1>5 DEF Start
<1>6. CASE PublishOk
  <2>1. PICK t \in current : done' = [done EXCEPT ![t[1]] = @ \cup {t[2]}]
    BY <1>6 DEF PublishOk
  <2>2. done \in [Partition -> SUBSET Nat]
    BY DEF EngineInv, EngineTypeOK
  <2>3. \A p \in Partition : done[p] \subseteq done'[p]
    BY <2>1, <2>2
  <2> QED
    BY <1>4, <1>6, <2>3 DEF PublishOk, processorRest
<1>7. CASE \/ UNCHANGED vars
           \/ PollNone \/ Handoff \/ HandoffStopped \/ LoopExit
           \/ Get \/ UpdateOk \/ UpdateFails \/ PublishFails \/ Return
           \/ Shutdown \/ Interrupt \/ Terminate \/ Kill
           \/ \E p \in Partition : PollEvent(p) \/ PollMalformed(p)
  <2>1. UNCHANGED <<topicVars, committed, done, skipped>>
    BY <1>7 DEF vars, engineVars, PollNone, Handoff, HandoffStopped, LoopExit, Get, UpdateOk,
                UpdateFails, PublishFails, Return, Shutdown, Interrupt, Terminate, Kill, Gone,
                PollEvent, PollMalformed, processorRest
  <2> QED
    BY <1>4, <2>1
<1> QED
  BY <1>2, <1>3, <1>5, <1>6, <1>7 DEF Next, Run, Thread, Processor

(* Theorem: the engine implements the at-least-once consumer.              *)
THEOREM EngineImplementsCommittedConsumer == Spec => ImplementsCommittedConsumer
PROOF
<1>1. Init => Abstract!Init
  BY DEF Init, TopicInit, EngineInit, Abstract!Init, SettledOffsets, CommittedOffset, Offsets
<1>2. ASSUME EngineInv, EngineInv', [Next]_vars
      PROVE  [Abstract!Next]_<<SettledOffsets, CommittedOffset>>
  <2>1. CASE UNCHANGED committed
    <3>1. UNCHANGED CommittedOffset
      BY <2>1 DEF CommittedOffset
    <3>2. \A p \in Partition : SettledOffsets[p] \subseteq SettledOffsets'[p]
      BY <1>2, SettledStep
    <3> QED
      BY <3>1, <3>2 DEF Abstract!Next, Abstract!Settle
  <2>2. CASE UNCHANGED SettledOffsets
    <3>1. ASSUME NEW p \in Partition
          PROVE  /\ CommittedOffset[p] <= CommittedOffset'[p]
                 /\ 0 .. CommittedOffset'[p] - 1 \subseteq SettledOffsets[p]
      <4>1. /\ committed[p] \in Nat \cup {NoOffset} /\ committed'[p] \in Nat \cup {NoOffset}
            /\ committed[p] <= committed'[p] /\ NoOffset = -1
            /\ committed'[p] <= Len(log'[p]) /\ Len(log'[p]) \in Nat
        <5>1. committed[p] <= committed'[p]
          BY <1>2, EngineNextInv
        <5>2. committed[p] \in Nat \cup {NoOffset} /\ NoOffset = -1
          BY <1>2 DEF EngineInv, EngineTypeOK, NoOffset
        <5>3. /\ committed'[p] \in Nat \cup {NoOffset}
              /\ committed'[p] <= Len(log'[p]) /\ Len(log'[p]) \in Nat
          BY <1>2 DEF EngineInv, EngineTypeOK, TopicTypeOK
        <5> QED
          BY <5>1, <5>2, <5>3
      <4>2. /\ CommittedOffset[p] = IF committed[p] = NoOffset THEN 0 ELSE committed[p]
            /\ CommittedOffset'[p] = IF committed'[p] = NoOffset THEN 0 ELSE committed'[p]
        BY DEF CommittedOffset
      <4>3. CommittedOffset[p] <= CommittedOffset'[p]
        BY <4>1, <4>2
      <4>4. \A o \in Offsets(p)' : o < committed'[p] => Settled(p, o)'
        BY <1>2 DEF EngineInv, CommitSafe
      <4>5. SettledOffsets'[p] = {o \in Offsets(p)' : Settled(p, o)'}
        BY DEF SettledOffsets
      <4>6. 0 .. CommittedOffset'[p] - 1 \subseteq SettledOffsets'[p]
        BY <4>1, <4>2, <4>4, <4>5 DEF Offsets
      <4> QED
        BY <2>2, <4>3, <4>6
    <3> QED
      BY <2>2, <3>1 DEF Abstract!Next, Abstract!Commit
  <2> QED
    BY <1>2, <2>1, <2>2, SettledStep
<1> QED
  BY <1>1, <1>2, EngineInvariant, PTL DEF Spec, ImplementsCommittedConsumer, Abstract!Spec
-----------------------------------------------------------------------------
(* What the engine has in flight.                                          *)

(* Whatever travels lies in its partition of the topic, with all that      *)
(* comes before it.                                                        *)
LEMMA Travellers ==
  ASSUME EngineInv
  PROVE  /\ \A t \in hand \cup current :
              /\ t = <<t[1], t[2]>> /\ t[1] \in Partition /\ t[2] \in Nat
              /\ t[2] \in Offsets(t[1]) /\ 0 .. t[2] - 1 \subseteq Offsets(t[1])
         /\ \A i \in 1 .. Len(queue) :
              /\ queue[i] = <<queue[i][1], queue[i][2]>>
              /\ queue[i][1] \in Partition /\ queue[i][2] \in Nat
              /\ queue[i][2] \in Offsets(queue[i][1])
              /\ 0 .. queue[i][2] - 1 \subseteq Offsets(queue[i][1])
PROOF
<1>1. \A p \in Partition : Len(log[p]) \in Nat
  BY DEF EngineInv, EngineTypeOK, TopicTypeOK
<1>2. ASSUME NEW t \in Item, t[2] \in Offsets(t[1])
      PROVE  /\ t = <<t[1], t[2]>> /\ t[1] \in Partition /\ t[2] \in Nat
             /\ 0 .. t[2] - 1 \subseteq Offsets(t[1])
  <2>1. t = <<t[1], t[2]>> /\ t[1] \in Partition /\ t[2] \in Nat
    BY DEF Item
  <2>2. Len(log[t[1]]) \in Nat /\ t[2] < Len(log[t[1]])
    BY <1>1, <1>2, <2>1 DEF Offsets
  <2>3. 0 .. t[2] - 1 \subseteq Offsets(t[1])
    BY <2>1, <2>2 DEF Offsets
  <2> QED
    BY <2>1, <2>3
<1>3. \A t \in hand \cup current : t \in Item /\ t[2] \in Offsets(t[1])
  BY DEF EngineInv, EngineTypeOK, ItemsAccountedFor
<1>4. \A i \in 1 .. Len(queue) : queue[i] \in Item /\ queue[i][2] \in Offsets(queue[i][1])
  BY DEF EngineInv, EngineTypeOK, ItemsAccountedFor
<1> QED
  BY <1>2, <1>3, <1>4

(* What was settled stays settled.                                         *)
LEMMA SettledStays ==
  ASSUME EngineInv, [Next]_vars, NEW p \in Partition, NEW o \in Offsets(p), Settled(p, o)
  PROVE  Settled(p, o)'
PROOF
<1>1. SettledOffsets[p] \subseteq SettledOffsets'[p]
  BY SettledStep
<1>2. /\ SettledOffsets[p] = {q \in Offsets(p) : Settled(p, q)}
      /\ SettledOffsets'[p] = {q \in Offsets(p)' : Settled(p, q)'}
  BY DEF SettledOffsets
<1> QED
  BY <1>1, <1>2

(* Appending the event in hand, and taking the head.                       *)
LEMMA PutFacts ==
  ASSUME queue \in Seq(Item), NEW t \in Item, queue' = Append(queue, t)
  PROVE  /\ Len(queue') = Len(queue) + 1 /\ Len(queue) \in Nat
         /\ \A i \in 1 .. Len(queue) : i \in 1 .. Len(queue') /\ queue'[i] = queue[i]
         /\ \A i \in 1 .. Len(queue') :
              i \in 1 .. Len(queue) \/ (i = Len(queue) + 1 /\ queue'[i] = t)
         /\ Len(queue) + 1 \in 1 .. Len(queue') /\ queue'[Len(queue) + 1] = t
  OBVIOUS

LEMMA GetFacts ==
  ASSUME queue \in Seq(Item), queue # <<>>, queue' = Tail(queue)
  PROVE  /\ Len(queue') = Len(queue) - 1 /\ Len(queue) \in Nat
         /\ 1 \in 1 .. Len(queue) /\ Head(queue) = queue[1]
         /\ \A i \in 1 .. Len(queue') : i + 1 \in 1 .. Len(queue) /\ queue'[i] = queue[i + 1]
         /\ \A j \in 1 .. Len(queue) :
              j = 1 \/ (j - 1 \in 1 .. Len(queue') /\ queue'[j - 1] = queue[j])
  OBVIOUS

(* The stop flag is set before anything stops, and the queue is bounded.   *)
LEMMA ByPlaceStep ==
  ASSUME EngineInv, ByPlace, [Next]_vars
  PROVE  ByPlace'
PROOF
<1>0. /\ tpc \in {"down", "loop", "poll", "handoff", "final", "stopped"}
      /\ ppc \in {"down", "get", "update", "publish", "returned"}
      /\ queue \in Seq(Item) /\ hand \subseteq Item /\ Len(queue) \in Nat
      /\ position \in [Partition -> Nat]
      /\ \A p \in Partition : Len(log[p]) \in Nat
      /\ QueueMax \in Nat \ {0}
  BY EngineAssumption DEF EngineInv, EngineTypeOK, TopicTypeOK
<1>1. CASE UNCHANGED vars
  BY <1>1, SameTopic DEF ByPlace, vars, engineVars, threadVars
<1>2. CASE Feed
  <2>1. \A p \in Partition : Offsets(p) \subseteq Offsets(p)' /\ Len(log'[p]) \in Nat
    BY <1>2, TopicAppends DEF Feed, EngineInv, EngineTypeOK, TopicTypeOK
  <2>2. \A p \in Partition : position[p] <= Len(log'[p])
    <3>1. SUFFICES ASSUME NEW p \in Partition PROVE position[p] <= Len(log'[p])
      OBVIOUS
    <3>2. position[p] <= Len(log[p]) /\ position[p] \in Nat /\ Len(log[p]) \in Nat
      BY <1>0 DEF ByPlace
    <3>3. Offsets(p) \subseteq Offsets(p)' /\ Len(log'[p]) \in Nat
      BY <2>1
    <3> QED
      BY <3>2, <3>3 DEF Offsets
  <2> QED
    BY <1>2, <2>2 DEF Feed, ByPlace, engineVars, threadVars
<1>3. CASE Start
  <2>1. \A p \in Partition : position'[p] <= Len(log[p])
    BY <1>0, <1>3 DEF Start, ResumeOffset, EngineInv
  <2> QED
    BY <1>3, <2>1, SameTopic DEF Start, ByPlace
<1>4. CASE DrainOk \/ DrainRaises
  <2>1. Drain
    BY <1>4 DEF DrainOk, DrainRaises
  <2> QED
    BY <1>0, <2>1, SameTopic DEF Drain, ByPlace
<1>5. ASSUME NEW p \in Partition, PollEvent(p) \/ PollMalformed(p) PROVE ByPlace'
  <2>1. \A q \in Partition : position'[q] <= Len(log[q])
    <3>1. position[p] \in Nat /\ position[p] < Len(log[p]) /\ position' = [position EXCEPT ![p] = @ + 1]
      BY <1>0, <1>5 DEF PollEvent, PollMalformed, Offsets
    <3>2. position[p] + 1 <= Len(log[p])
      BY <1>0, <3>1
    <3>3. position'[p] = position[p] + 1 /\ \A q \in Partition : q # p => position'[q] = position[q]
      BY <1>0, <3>1
    <3> QED
      BY <3>2, <3>3 DEF ByPlace
  <2>2. CASE PollEvent(p)
    <3>1. hand' = {<<p, position[p]>>} /\ tpc' = "handoff" /\ tpc = "poll"
          /\ UNCHANGED <<topicVars, queue, current, ppc, stop>>
      BY <2>2 DEF PollEvent
    <3>2. \E t \in hand' : hand' = {t}
      BY <3>1
    <3> QED
      BY <2>1, <3>1, <3>2, SameTopic DEF ByPlace
  <2>3. CASE PollMalformed(p)
    BY <2>1, <2>3, SameTopic DEF ByPlace, PollMalformed
  <2> QED
    BY <1>5, <2>2, <2>3
<1>6. CASE PollNone \/ LoopExit
  BY <1>6, SameTopic DEF PollNone, LoopExit, ByPlace, threadVars
<1>7. CASE Handoff \/ HandoffStopped
  <2>1. Len(queue') <= QueueMax
    <3>1. CASE UNCHANGED queue
      BY <3>1 DEF ByPlace
    <3>2. CASE Put
      <4>1. PICK t \in hand : queue' = Append(queue, t)
        BY <3>2 DEF Put
      <4>2. Len(queue') = Len(queue) + 1
        BY <1>0, <4>1
      <4> QED
        BY <1>0, <3>2, <4>2 DEF Put
    <3> QED
      BY <1>7, <3>1, <3>2 DEF Handoff, HandoffStopped
  <2> QED
    BY <1>7, <2>1, SameTopic DEF Handoff, HandoffStopped, ByPlace
<1>8. CASE Get
  <2>1. Len(queue') <= QueueMax
    BY <1>0, <1>8, GetFacts DEF Get, ByPlace
  <2>2. /\ current' = {Head(queue)} /\ ppc' = "update" /\ ppc = "get"
        /\ UNCHANGED <<topicVars, position, nextCommit, hand, tpc, stop>>
    BY <1>8 DEF Get, threadVars
  <2>3. \E t \in current' : current' = {t}
    BY <2>2
  <2> QED
    BY <2>1, <2>2, <2>3, SameTopic DEF ByPlace
<1>9. CASE UpdateOk \/ UpdateFails \/ PublishOk \/ PublishFails
  BY <1>9, SameTopic
  DEF UpdateOk, UpdateFails, PublishOk, PublishFails, processorRest, threadVars, ByPlace
<1>10. CASE Return \/ Shutdown \/ Interrupt
  BY <1>10, SameTopic DEF Return, Shutdown, Interrupt, threadVars, ByPlace
<1>11. CASE Terminate \/ Kill
  <2>1. Gone
    BY <1>11 DEF Terminate, Kill
  <2>2. Len(queue') = 0
    BY <2>1 DEF Gone
  <2> QED
    BY <1>0, <2>1, <2>2, SameTopic DEF Gone, ByPlace
<1> QED
  BY <1>1, <1>2, <1>3, <1>4, <1>5, <1>6, <1>7, <1>8, <1>9, <1>10, <1>11
  DEF Next, Run, Thread, Processor

(* Every step leaves the records of the topic as they are.                 *)
LEMMA RecordsStay ==
  ASSUME EngineInv, [Next]_vars
  PROVE  \A p \in Partition : \A o \in Offsets(p) :
           /\ o \in Offsets(p)' /\ RecordAt(p, o)' = RecordAt(p, o)
           /\ IsEvent(p, o)' <=> IsEvent(p, o)
PROOF
<1>1. CASE TopicNext
  BY <1>1, TopicAppends DEF EngineInv, EngineTypeOK, IsEvent
<1>2. CASE UNCHANGED topicVars
  BY <1>2, SameTopic
<1>3. TopicNext \/ UNCHANGED topicVars
  BY DEF vars, Next, Run, Feed, Start, Thread, DrainOk, DrainRaises, Drain, PollNone, PollEvent,
         PollMalformed, Handoff, HandoffStopped, LoopExit, Processor, Get, UpdateOk, UpdateFails,
         PublishOk, PublishFails, processorRest, Return, Shutdown, Interrupt, Terminate, Kill, Gone
<1> QED
  BY <1>1, <1>2, <1>3

(* Events come into transit only from the topic, one poll at a time.       *)
LEMMA TransitStep ==
  ASSUME EngineInv, [Next]_vars, NEW t \in InTransit'
  PROVE  t \in InTransit \/ \E p \in Partition : PollEvent(p) /\ t = <<p, position[p]>>
PROOF
<1>0. queue \in Seq(Item) /\ hand \subseteq Item
  BY DEF EngineInv, EngineTypeOK
<1>1. CASE UNCHANGED <<hand, queue>> /\ current' \subseteq current
  BY <1>1 DEF InTransit
<1>2. CASE Handoff \/ HandoffStopped
  <2>1. hand' = {} /\ current' = current
    BY <1>2 DEF Handoff, HandoffStopped
  <2>2. CASE UNCHANGED queue
    BY <2>1, <2>2 DEF InTransit
  <2>3. CASE Put
    <3>1. PICK u \in hand : queue' = Append(queue, u)
      BY <2>3 DEF Put
    <3>2. \A i \in 1 .. Len(queue') :
            (i \in 1 .. Len(queue) /\ queue'[i] = queue[i]) \/ queue'[i] = u
      BY <1>0, <3>1, PutFacts
    <3> QED
      BY <2>1, <3>2 DEF InTransit
  <2> QED
    BY <1>2, <2>2, <2>3 DEF Handoff, HandoffStopped
<1>3. CASE Get
  <2>1. /\ UNCHANGED hand /\ current' = {queue[1]} /\ 1 \in 1 .. Len(queue)
        /\ \A i \in 1 .. Len(queue') : i + 1 \in 1 .. Len(queue) /\ queue'[i] = queue[i + 1]
    BY <1>0, <1>3, GetFacts DEF Get, threadVars
  <2> QED
    BY <2>1 DEF InTransit
<1>4. CASE Terminate \/ Kill
  <2>1. hand' = {} /\ current' = {} /\ Len(queue') = 0
    BY <1>4 DEF Terminate, Kill, Gone
  <2> QED
    BY <2>1 DEF InTransit
<1>5. ASSUME NEW p \in Partition, PollEvent(p)
      PROVE  t \in InTransit \/ t = <<p, position[p]>>
  BY <1>5 DEF PollEvent, InTransit
<1>6. ASSUME NEW p \in Partition, PollMalformed(p)
      PROVE  UNCHANGED <<hand, queue>> /\ current' \subseteq current
  BY <1>6 DEF PollMalformed
<1>7. CASE \/ UNCHANGED vars \/ Feed \/ Start \/ DrainOk \/ DrainRaises \/ PollNone \/ LoopExit
           \/ UpdateOk \/ UpdateFails \/ PublishOk \/ PublishFails
           \/ Return \/ Shutdown \/ Interrupt
  <2>1. UNCHANGED <<hand, queue>> /\ current' \subseteq current
    BY <1>7 DEF vars, engineVars, threadVars, Feed, Start, DrainOk, DrainRaises, Drain, PollNone,
       LoopExit, UpdateOk, UpdateFails, PublishOk, PublishFails, processorRest, Return, Shutdown,
       Interrupt
  <2> QED
    BY <1>1, <2>1
<1> QED
  BY <1>1, <1>2, <1>3, <1>4, <1>5, <1>6, <1>7 DEF Next, Run, Thread, Processor

(* Offsets are skipped only by a start, when nothing is in transit.        *)
LEMMA NotSkipped ==
  ASSUME EngineInv, ByPlace, SkippedBehind, [Next]_vars, NEW t \in InTransit'
  PROVE  IsEvent(t[1], t[2])' /\ t[2] \notin skipped'[t[1]]
PROOF
<1>1. CASE Start
  <2>1. t \in InTransit
    BY <1>1, TransitStep DEF Start, PollEvent
  <2>2. hand = {} /\ current = {} /\ Len(queue) = 0
    BY <1>1 DEF Start, ByPlace
  <2> QED
    BY <2>1, <2>2 DEF InTransit
<1>2. CASE ~Start
  <2>1. UNCHANGED skipped
    BY <1>2 DEF vars, engineVars, Next, Run, Feed, Thread, DrainOk, DrainRaises, Drain, PollNone,
       PollEvent, PollMalformed, Handoff, HandoffStopped, LoopExit, Processor, Get, UpdateOk,
       UpdateFails, PublishOk, PublishFails, processorRest, Return, Shutdown, Interrupt,
       Terminate, Kill, Gone
  <2>2. CASE t \in InTransit
    <3>1. t[1] \in Partition /\ t[2] \in Offsets(t[1])
      BY <2>2, Travellers DEF InTransit
    <3> QED
      BY <2>1, <2>2, <3>1, RecordsStay DEF SkippedBehind
  <2>3. ASSUME NEW p \in Partition, PollEvent(p), t = <<p, position[p]>>
        PROVE  IsEvent(t[1], t[2])' /\ t[2] \notin skipped'[t[1]]
    <3>1. /\ position[p] \in Offsets(p) /\ IsEvent(p, position[p]) /\ tpc = "poll"
          /\ t[1] = p /\ t[2] = position[p]
      BY <2>3 DEF PollEvent
    <3>2. position[p] \in Nat
      BY DEF EngineInv, EngineTypeOK
    <3>3. position[p] \notin skipped[p]
      BY <3>1, <3>2 DEF SkippedBehind
    <3> QED
      BY <2>1, <3>1, <3>3, RecordsStay
  <2> QED
    BY <2>2, <2>3, TransitStep
<1> QED
  BY <1>1, <1>2

(* The skipped offsets stay behind positions and commits.                  *)
LEMMA SkippedStep ==
  ASSUME EngineInv, ByPlace, SkippedBehind, [Next]_vars
  PROVE  SkippedBehind'
PROOF
<1>1. \A t \in InTransit' : IsEvent(t[1], t[2])' /\ t[2] \notin skipped'[t[1]]
  BY NotSkipped
<1>2. \A p \in Partition : skipped[p] \subseteq Offsets(p)'
  BY RecordsStay DEF SkippedBehind
<1>3. SUFFICES ASSUME NEW p \in Partition, NEW o \in skipped'[p]
               PROVE  /\ o \in Offsets(p)'
                      /\ tpc' # "down" => o < position'[p]
                      /\ committed'[p] # NoOffset => o < committed'[p]
                      /\ nextCommit'[p] # NoOffset => o < nextCommit'[p]
  BY <1>1 DEF SkippedBehind
<1>4. /\ committed \in [Partition -> Nat \cup {NoOffset}] /\ NoOffset = -1
      /\ nextCommit \in [Partition -> Nat \cup {NoOffset}] /\ position \in [Partition -> Nat]
      /\ Len(log[p]) \in Nat
  BY DEF EngineInv, EngineTypeOK, TopicTypeOK, NoOffset
<1>5. CASE /\ UNCHANGED <<committed, nextCommit, position, skipped>>
           /\ tpc' # "down" => tpc # "down"
  BY <1>2, <1>5 DEF SkippedBehind
<1>6. CASE Start
  <2>1. /\ UNCHANGED <<topicVars, committed, nextCommit>>
        /\ position'[p] = IF committed[p] = NoOffset THEN Len(log[p]) ELSE committed[p]
        /\ skipped'[p] = skipped[p] \cup (IF committed[p] = NoOffset THEN Offsets(p) ELSE {})
        /\ nextCommit[p] = NoOffset
    BY <1>6 DEF Start, ResumeOffset, ByPlace
  <2>2. Offsets(p)' = Offsets(p) /\ o \in Offsets(p)
    BY <2>1, SameTopic DEF SkippedBehind
  <2>3. committed[p] = NoOffset => o < position'[p]
    BY <1>4, <2>1, <2>2 DEF Offsets
  <2>4. committed[p] # NoOffset => o < committed[p]
    BY <2>1 DEF SkippedBehind
  <2> QED
    BY <2>1, <2>2, <2>3, <2>4
<1>7. CASE DrainOk \/ DrainRaises
  <2>1. UNCHANGED <<skipped, position>> /\ tpc # "down" /\ Offsets(p) \subseteq Offsets(p)'
    BY <1>7, RecordsStay DEF DrainOk, DrainRaises, Drain
  <2>2. PICK cursor \in [Partition -> NoOffset .. MaxLog], ps \in SUBSET Partition :
          /\ \A q \in Partition : IsCursor(q, cursor[q])
          /\ Advance(cursor, ps)
          /\ nextCommit' = cursor \/ nextCommit' = nextCommit
    BY <1>7 DEF DrainOk, DrainRaises
  <2>3. committed'[p] = committed[p] \/ (nextCommit[p] # NoOffset /\ committed'[p] = cursor[p])
    BY <2>2, AdvanceLemma
  <2>4. cursor[p] \in NoOffset .. MaxLog /\ IsCursor(p, cursor[p])
    BY <2>2
  <2>5. /\ nextCommit[p] = NoOffset => cursor[p] = NoOffset
        /\ nextCommit[p] # NoOffset => cursor[p] \in Nat /\ nextCommit[p] <= cursor[p]
    BY <2>4, CursorLemma
  <2>6. /\ o \in Offsets(p) /\ o < position[p]
        /\ committed[p] # NoOffset => o < committed[p]
        /\ nextCommit[p] # NoOffset => o < nextCommit[p]
    BY <2>1 DEF SkippedBehind
  <2>7. nextCommit[p] # NoOffset => o < cursor[p]
    BY <1>4, <2>5, <2>6 DEF Offsets
  <2> QED
    BY <2>1, <2>2, <2>3, <2>5, <2>6, <2>7
<1>8. ASSUME NEW r \in Partition, PollEvent(r) \/ PollMalformed(r)
      PROVE  /\ o \in Offsets(p)' /\ (tpc' # "down" => o < position'[p])
             /\ committed'[p] # NoOffset => o < committed'[p]
             /\ nextCommit'[p] # NoOffset => o < nextCommit'[p]
  <2>1. /\ UNCHANGED <<skipped, committed>> /\ tpc # "down"
        /\ position' = [position EXCEPT ![r] = @ + 1]
        /\ UNCHANGED nextCommit \/ TrackConsumed(r, position[r])
    BY <1>8 DEF PollEvent, PollMalformed
  <2>2. /\ o \in Offsets(p) /\ o < position[p] /\ o \in Nat
        /\ committed[p] # NoOffset => o < committed[p]
        /\ nextCommit[p] # NoOffset => o < nextCommit[p]
    BY <2>1 DEF SkippedBehind, Offsets
  <2>3. position'[p] = position[p] \/ position'[p] = position[p] + 1
    BY <1>4, <2>1
  <2>4. nextCommit'[p] = nextCommit[p] \/ nextCommit'[p] = position[p]
    BY <1>4, <2>1 DEF TrackConsumed
  <2>5. o < position'[p]
    BY <1>4, <2>2, <2>3
  <2> QED
    BY <1>2, <2>1, <2>2, <2>4, <2>5
<1>9. CASE Terminate \/ Kill
  <2>1. /\ UNCHANGED <<committed, skipped>>
        /\ nextCommit'[p] = NoOffset /\ tpc' = "down"
    BY <1>9 DEF Terminate, Kill, Gone
  <2> QED
    BY <1>2, <2>1 DEF SkippedBehind
<1>10. CASE \/ UNCHANGED vars \/ Feed \/ PollNone \/ LoopExit \/ Handoff \/ HandoffStopped \/ Get
            \/ UpdateOk \/ UpdateFails \/ PublishOk \/ PublishFails
            \/ Return \/ Shutdown \/ Interrupt
  <2>1. /\ UNCHANGED <<committed, nextCommit, position, skipped>>
        /\ tpc' # "down" => tpc # "down"
    BY <1>10 DEF vars, engineVars, threadVars, Feed, PollNone, LoopExit, Handoff, HandoffStopped,
       Get, UpdateOk, UpdateFails, PublishOk, PublishFails, processorRest, Return, Shutdown,
       Interrupt
  <2> QED
    BY <1>5, <2>1
<1> QED
  BY <1>6, <1>7, <1>8, <1>9, <1>10 DEF Next, Run, Thread, Processor

(* What the order says of an offset, kept by every step that moves nothing *)
(* but the control.                                                        *)
LEMMA OrderQuiet ==
  ASSUME EngineInv, ByPlace, InOrder, [Next]_vars,
         UNCHANGED <<current, queue, hand, position>>,
         ppc' # "returned" => ppc # "returned",
         tpc' \in {"loop", "poll", "handoff"} => tpc \in {"loop", "poll", "handoff"}
  PROVE  InOrder'
PROOF
<1>1. \A p \in Partition : \A o \in Offsets(p) : Settled(p, o) => Settled(p, o)'
  BY SettledStays
<1>2. \A t \in hand \cup current : t[1] \in Partition /\ 0 .. t[2] - 1 \subseteq Offsets(t[1])
  BY Travellers
<1>3. \A i \in 1 .. Len(queue) :
        queue[i][1] \in Partition /\ 0 .. queue[i][2] - 1 \subseteq Offsets(queue[i][1])
  BY Travellers
<1>4. \A p \in Partition : 0 .. position[p] - 1 \subseteq Offsets(p)
  BY DEF ByPlace, Offsets, EngineInv, EngineTypeOK, TopicTypeOK
<1>5. \A t \in current' : \A o \in 0 .. t[2] - 1 : Settled(t[1], o)'
  BY <1>1, <1>2 DEF InOrder, BeforeCurrent
<1>6. ASSUME ppc # "returned", NEW i \in 1 .. Len(queue), NEW o \in 0 .. queue[i][2] - 1
      PROVE  \/ Settled(queue[i][1], o)'
             \/ <<queue[i][1], o>> \in current
             \/ \E j \in 1 .. i - 1 : queue[j] = <<queue[i][1], o>>
  BY <1>1, <1>3, <1>6 DEF InOrder, BeforeQueued
<1>7. ASSUME ppc # "returned", NEW t \in hand, NEW o \in 0 .. t[2] - 1
      PROVE  Settled(t[1], o)' \/ <<t[1], o>> \in current \/ Queued(<<t[1], o>>)
  BY <1>1, <1>2, <1>7 DEF InOrder, BeforeHand
<1>8. ASSUME ppc # "returned", tpc \in {"loop", "poll", "handoff"},
             NEW p \in Partition, NEW o \in 0 .. position[p] - 1
      PROVE  \/ Settled(p, o)'
             \/ <<p, o>> \in current \cup hand \/ Queued(<<p, o>>)
  BY <1>1, <1>4, <1>8 DEF InOrder, BeforePosition
<1>9. BeforeCurrent'
  BY <1>5 DEF BeforeCurrent
<1>10. ppc # "returned" => BeforeQueued'
  BY <1>6 DEF BeforeQueued
<1>11. ppc # "returned" => BeforeHand'
  BY <1>7 DEF BeforeHand, Queued
<1>12. (ppc # "returned" /\ tpc \in {"loop", "poll", "handoff"}) => BeforePosition'
  BY <1>8 DEF BeforePosition, Queued
<1> QED
  BY <1>9, <1>10, <1>11, <1>12 DEF InOrder

(* A start begins where everything is settled.                             *)
LEMMA OrderStart ==
  ASSUME EngineInv', ByPlace, Start
  PROVE  InOrder'
PROOF
<1>1. /\ UNCHANGED <<nextCommit, hand, queue, current, topicVars>> /\ tpc' = "loop"
      /\ hand = {} /\ current = {} /\ Len(queue) = 0
      /\ \A p \in Partition : nextCommit[p] = NoOffset
  BY DEF Start, ByPlace
<1>2. ASSUME NEW p \in Partition, NEW o \in 0 .. position'[p] - 1
      PROVE  Settled(p, o)'
  <2>1. /\ position'[p] <= Len(log'[p])
        /\ \A q \in Offsets(p)' : q < position'[p] => Settled(p, q)'
    BY <1>1 DEF EngineInv, CursorBase
  <2>2. position'[p] \in Nat /\ Len(log'[p]) \in Nat
    BY DEF EngineInv, EngineTypeOK, TopicTypeOK
  <2>3. o \in Offsets(p)' /\ o < position'[p]
    BY <1>2, <2>1, <2>2 DEF Offsets
  <2> QED
    BY <2>1, <2>3
<1> QED
  BY <1>1, <1>2 DEF InOrder, BeforeCurrent, BeforeQueued, BeforeHand, BeforePosition

(* A polled event goes behind all that its partition has in transit.       *)
LEMMA OrderPoll ==
  ASSUME EngineInv, ByPlace, InOrder, [Next]_vars,
         NEW p \in Partition, PollEvent(p) \/ PollMalformed(p)
  PROVE  InOrder'
PROOF
<1>1. /\ UNCHANGED <<topicVars, queue, current, done, skipped, ppc>>
      /\ tpc = "poll" /\ position[p] \in Offsets(p)
      /\ position' = [position EXCEPT ![p] = @ + 1]
      /\ \/ ~IsEvent(p, position[p]) /\ UNCHANGED hand
         \/ hand' = {<<p, position[p]>>}
  BY DEF PollEvent, PollMalformed
<1>2. hand = {} /\ position \in [Partition -> Nat]
  BY <1>1 DEF ByPlace, EngineInv, EngineTypeOK
<1>3. \A q, o : Settled(q, o)' <=> Settled(q, o)
  BY <1>1, SameTopic DEF Settled
<1>4. \A q, o : Queued(<<q, o>>)' <=> Queued(<<q, o>>)
  BY <1>1 DEF Queued
<1>5. ASSUME ppc # "returned", NEW q \in Partition, NEW o \in 0 .. position[q] - 1
      PROVE  Settled(q, o) \/ <<q, o>> \in current \/ Queued(<<q, o>>)
  BY <1>1, <1>2, <1>5 DEF InOrder, BeforePosition
<1>6. ASSUME ppc # "returned", NEW t \in hand', NEW o \in 0 .. t[2] - 1
      PROVE  Settled(t[1], o) \/ <<t[1], o>> \in current \/ Queued(<<t[1], o>>)
  <2>1. t[1] = p /\ t[2] = position[p]
    BY <1>1, <1>2
  <2> QED
    BY <1>5, <1>6, <2>1
<1>7. ASSUME ppc # "returned", NEW q \in Partition, NEW o \in 0 .. position'[q] - 1
      PROVE  Settled(q, o) \/ <<q, o>> \in current \cup hand' \/ Queued(<<q, o>>)
  <2>1. CASE o \in 0 .. position[q] - 1
    BY <1>5, <1>7, <2>1
  <2>2. CASE o \notin 0 .. position[q] - 1
    <3>1. q = p /\ o = position[p]
      BY <1>1, <1>2, <1>7, <2>2
    <3> QED
      BY <1>1, <3>1 DEF Settled
  <2> QED
    BY <2>1, <2>2
<1>8. BeforeCurrent'
  BY <1>1, <1>3 DEF InOrder, BeforeCurrent
<1>9. ppc # "returned" => BeforeQueued'
  BY <1>1, <1>3 DEF InOrder, BeforeQueued
<1>10. ppc # "returned" => BeforeHand'
  BY <1>1, <1>3, <1>4, <1>6 DEF BeforeHand
<1>11. ppc # "returned" => BeforePosition'
  BY <1>1, <1>3, <1>4, <1>7 DEF BeforePosition
<1> QED
  BY <1>1, <1>8, <1>9, <1>10, <1>11 DEF InOrder

(* The event in hand becomes the last of the queue, or is dropped by a     *)
(* thread that polls no more.                                              *)
LEMMA OrderHandoff ==
  ASSUME EngineInv, ByPlace, InOrder, Handoff \/ HandoffStopped
  PROVE  InOrder'
PROOF
<1>1. /\ UNCHANGED <<topicVars, position, current, done, skipped, ppc>> /\ hand' = {}
      /\ tpc = "handoff"
      /\ (UNCHANGED queue /\ tpc' = "final") \/ Put
  BY DEF Handoff, HandoffStopped
<1>2. \A q, o : Settled(q, o)' <=> Settled(q, o)
  BY <1>1, SameTopic DEF Settled
<1>3. CASE UNCHANGED queue /\ tpc' = "final"
  <2>1. BeforeCurrent'
    BY <1>1, <1>2 DEF InOrder, BeforeCurrent
  <2>2. ppc # "returned" => BeforeQueued'
    BY <1>1, <1>2, <1>3 DEF InOrder, BeforeQueued
  <2>3. BeforeHand'
    BY <1>1 DEF BeforeHand
  <2> QED
    BY <1>1, <1>3, <2>1, <2>2, <2>3 DEF InOrder
<1>4. CASE Put
  <2>1. PICK t \in hand : queue' = Append(queue, t)
    BY <1>4 DEF Put
  <2>2. hand = {t}
    BY <2>1 DEF ByPlace
  <2>3. queue \in Seq(Item) /\ t \in Item
    BY <2>1 DEF EngineInv, EngineTypeOK
  <2>4. /\ Len(queue') = Len(queue) + 1 /\ Len(queue) \in Nat
        /\ \A i \in 1 .. Len(queue) : i \in 1 .. Len(queue') /\ queue'[i] = queue[i]
        /\ \A i \in 1 .. Len(queue') :
             i \in 1 .. Len(queue) \/ (i = Len(queue) + 1 /\ queue'[i] = t)
        /\ Len(queue) + 1 \in 1 .. Len(queue') /\ queue'[Len(queue) + 1] = t
    BY <2>1, <2>3, PutFacts
  <2>5. /\ \A u : Queued(u) => Queued(u)'
        /\ Queued(t)'
    BY <2>4 DEF Queued
  <2>6. ASSUME ppc # "returned", NEW i \in 1 .. Len(queue'), NEW o \in 0 .. queue'[i][2] - 1
        PROVE  \/ Settled(queue'[i][1], o)
               \/ <<queue'[i][1], o>> \in current
               \/ \E j \in 1 .. i - 1 : queue'[j] = <<queue'[i][1], o>>
    <3>1. CASE i \in 1 .. Len(queue)
      <4>1. \/ Settled(queue[i][1], o)
            \/ <<queue[i][1], o>> \in current
            \/ \E j \in 1 .. i - 1 : queue[j] = <<queue[i][1], o>>
        BY <2>4, <2>6, <3>1 DEF InOrder, BeforeQueued
      <4>2. \A j \in 1 .. i - 1 : queue'[j] = queue[j]
        BY <2>4, <3>1
      <4> QED
        BY <2>4, <3>1, <4>1, <4>2
    <3>2. CASE i = Len(queue) + 1 /\ queue'[i] = t
      <4>1. Settled(t[1], o) \/ <<t[1], o>> \in current \/ Queued(<<t[1], o>>)
        BY <2>1, <2>6, <3>2 DEF InOrder, BeforeHand
      <4>2. Queued(<<t[1], o>>) => \E j \in 1 .. i - 1 : queue'[j] = <<t[1], o>>
        BY <2>4, <3>2 DEF Queued
      <4> QED
        BY <3>2, <4>1, <4>2
    <3> QED
      BY <2>4, <3>1, <3>2
  <2>7. ASSUME ppc # "returned", NEW p \in Partition, NEW o \in 0 .. position[p] - 1
        PROVE  Settled(p, o) \/ <<p, o>> \in current \/ Queued(<<p, o>>)'
    <3>1. Settled(p, o) \/ <<p, o>> \in current \cup hand \/ Queued(<<p, o>>)
      BY <1>1, <2>7 DEF InOrder, BeforePosition
    <3> QED
      BY <2>2, <2>5, <3>1
  <2>8. BeforeCurrent'
    BY <1>1, <1>2 DEF InOrder, BeforeCurrent
  <2>9. ppc # "returned" => BeforeQueued'
    BY <1>1, <1>2, <2>6 DEF BeforeQueued
  <2>10. BeforeHand'
    BY <1>1 DEF BeforeHand
  <2>11. ppc # "returned" => BeforePosition'
    BY <1>1, <1>2, <2>7 DEF BeforePosition
  <2> QED
    BY <1>1, <2>8, <2>9, <2>10, <2>11 DEF InOrder
<1> QED
  BY <1>1, <1>3, <1>4

(* run() takes the head of the queue, and nothing was before it.           *)
LEMMA OrderGet ==
  ASSUME EngineInv, ByPlace, InOrder, Get
  PROVE  InOrder'
PROOF
<1>1. /\ UNCHANGED <<topicVars, position, hand, done, skipped, tpc>>
      /\ ppc = "get" /\ queue # <<>> /\ current' = {Head(queue)} /\ queue' = Tail(queue)
      /\ current = {}
  BY DEF Get, threadVars, ByPlace
<1>2. queue \in Seq(Item)
  BY DEF EngineInv, EngineTypeOK
<1>3. /\ Len(queue') = Len(queue) - 1 /\ Len(queue) \in Nat
      /\ 1 \in 1 .. Len(queue) /\ Head(queue) = queue[1]
      /\ \A i \in 1 .. Len(queue') : i + 1 \in 1 .. Len(queue) /\ queue'[i] = queue[i + 1]
      /\ \A j \in 1 .. Len(queue) :
           j = 1 \/ (j - 1 \in 1 .. Len(queue') /\ queue'[j - 1] = queue[j])
  BY <1>1, <1>2, GetFacts
<1>4. \A q, o : Settled(q, o)' <=> Settled(q, o)
  BY <1>1, SameTopic DEF Settled
<1>5. \A u : Queued(u) => u \in current' \/ Queued(u)'
  BY <1>1, <1>3 DEF Queued
<1>6. \A o \in 0 .. queue[1][2] - 1 : Settled(queue[1][1], o)
  BY <1>1, <1>3 DEF InOrder, BeforeQueued
<1>7. ASSUME NEW i \in 1 .. Len(queue'), NEW o \in 0 .. queue'[i][2] - 1
      PROVE  \/ Settled(queue'[i][1], o)
             \/ <<queue'[i][1], o>> \in current'
             \/ \E j \in 1 .. i - 1 : queue'[j] = <<queue'[i][1], o>>
  <2>1. i + 1 \in 1 .. Len(queue) /\ queue'[i] = queue[i + 1]
    BY <1>3
  <2>2. CASE \E j \in 1 .. (i + 1) - 1 : queue[j] = <<queue'[i][1], o>>
    <3>1. PICK j \in 1 .. (i + 1) - 1 : queue[j] = <<queue'[i][1], o>>
      BY <2>2
    <3>2. CASE j = 1
      BY <1>1, <1>3, <3>1, <3>2
    <3>3. CASE j # 1
      <4>1. j - 1 \in 1 .. i - 1 /\ j \in 1 .. Len(queue)
        BY <1>3, <2>1, <3>1, <3>3
      <4>2. queue'[j - 1] = <<queue'[i][1], o>>
        BY <1>3, <3>1, <3>3, <4>1
      <4> QED
        BY <4>1, <4>2
    <3> QED
      BY <3>2, <3>3
  <2>3. \/ Settled(queue[i + 1][1], o)
        \/ <<queue[i + 1][1], o>> \in current
        \/ \E j \in 1 .. (i + 1) - 1 : queue[j] = <<queue[i + 1][1], o>>
    BY <1>1, <2>1 DEF InOrder, BeforeQueued
  <2> QED
    BY <1>1, <2>1, <2>2, <2>3
<1>8. ASSUME NEW t \in hand, NEW o \in 0 .. t[2] - 1
      PROVE  Settled(t[1], o) \/ <<t[1], o>> \in current' \/ Queued(<<t[1], o>>)'
  <2>1. Settled(t[1], o) \/ <<t[1], o>> \in current \/ Queued(<<t[1], o>>)
    BY <1>1 DEF InOrder, BeforeHand
  <2> QED
    BY <1>1, <1>5, <2>1
<1>9. ASSUME tpc \in {"loop", "poll", "handoff"},
             NEW p \in Partition, NEW o \in 0 .. position[p] - 1
      PROVE  Settled(p, o) \/ <<p, o>> \in current' \cup hand \/ Queued(<<p, o>>)'
  <2>1. Settled(p, o) \/ <<p, o>> \in current \cup hand \/ Queued(<<p, o>>)
    BY <1>1, <1>9 DEF InOrder, BeforePosition
  <2> QED
    BY <1>1, <1>5, <2>1
<1>10. BeforeCurrent'
  BY <1>1, <1>3, <1>4, <1>6 DEF BeforeCurrent
<1>11. BeforeQueued'
  BY <1>4, <1>7 DEF BeforeQueued
<1>12. BeforeHand'
  BY <1>1, <1>4, <1>8 DEF BeforeHand
<1>13. tpc \in {"loop", "poll", "handoff"} => BeforePosition'
  BY <1>1, <1>4, <1>9 DEF BeforePosition
<1> QED
  BY <1>1, <1>10, <1>11, <1>12, <1>13 DEF InOrder

(* What run() has published is settled.                                    *)
LEMMA OrderPublish ==
  ASSUME EngineInv, ByPlace, InOrder, [Next]_vars, PublishOk
  PROVE  InOrder'
PROOF
<1>1. PICK t \in current :
        /\ done' = [done EXCEPT ![t[1]] = @ \cup {t[2]}]
        /\ current' = {} /\ UNCHANGED <<topicVars, position, hand, queue, skipped, tpc>>
        /\ ppc = "publish"
  BY DEF PublishOk, processorRest, threadVars
<1>2. current = {t}
  BY <1>1 DEF ByPlace
<1>3. t = <<t[1], t[2]>> /\ t[1] \in Partition /\ done \in [Partition -> SUBSET Nat]
  BY Travellers DEF EngineInv, EngineTypeOK
<1>4. \A p, o : <<p, o>> \in current => p = t[1] /\ o = t[2]
  BY <1>2, <1>3
<1>5. Settled(t[1], t[2])'
  BY <1>1, <1>3 DEF Settled
<1>6. \A p \in Partition : \A o \in Offsets(p) :
        Settled(p, o) \/ <<p, o>> \in current => Settled(p, o)'
  BY <1>4, <1>5, SettledStays
<1>7. \A u : Queued(u)' <=> Queued(u)
  BY <1>1 DEF Queued
<1>8. ASSUME NEW i \in 1 .. Len(queue), NEW o \in 0 .. queue[i][2] - 1
      PROVE  Settled(queue[i][1], o)' \/ \E j \in 1 .. i - 1 : queue[j] = <<queue[i][1], o>>
  BY <1>1, <1>6, Travellers DEF InOrder, BeforeQueued
<1>9. ASSUME NEW u \in hand, NEW o \in 0 .. u[2] - 1
      PROVE  Settled(u[1], o)' \/ Queued(<<u[1], o>>)
  BY <1>1, <1>6, Travellers DEF InOrder, BeforeHand
<1>10. ASSUME tpc \in {"loop", "poll", "handoff"},
             NEW p \in Partition, NEW o \in 0 .. position[p] - 1
       PROVE  Settled(p, o)' \/ <<p, o>> \in hand \/ Queued(<<p, o>>)
  <2>1. o \in Offsets(p)
    BY DEF ByPlace, Offsets, EngineInv, EngineTypeOK, TopicTypeOK
  <2> QED
    BY <1>1, <1>6, <1>10, <2>1 DEF InOrder, BeforePosition
<1>11. BeforeCurrent'
  BY <1>1 DEF BeforeCurrent
<1>12. BeforeQueued'
  BY <1>1, <1>8 DEF BeforeQueued
<1>13. BeforeHand'
  BY <1>1, <1>7, <1>9 DEF BeforeHand
<1>14. tpc \in {"loop", "poll", "handoff"} => BeforePosition'
  BY <1>1, <1>7, <1>10 DEF BeforePosition
<1> QED
  BY <1>1, <1>11, <1>12, <1>13, <1>14 DEF InOrder

(* Nothing overtakes, whatever step is taken.                              *)
LEMMA OrderStep ==
  ASSUME EngineInv, ByPlace, InOrder, [Next]_vars
  PROVE  InOrder'
PROOF
<1>1. EngineInv'
  BY EngineNextInv
<1>2. CASE \/ UNCHANGED vars \/ Feed \/ DrainOk \/ DrainRaises \/ PollNone \/ LoopExit
           \/ UpdateOk \/ UpdateFails \/ PublishFails \/ Shutdown
  <2>1. /\ UNCHANGED <<current, queue, hand, position>>
        /\ ppc' # "returned" => ppc # "returned"
        /\ tpc' \in {"loop", "poll", "handoff"} => tpc \in {"loop", "poll", "handoff"}
    BY <1>2 DEF vars, engineVars, threadVars, Feed, DrainOk, DrainRaises, Drain, PollNone,
       LoopExit, UpdateOk, UpdateFails, PublishFails, processorRest, Shutdown
  <2> QED
    BY <2>1, OrderQuiet
<1>3. CASE Start
  BY <1>1, <1>3, OrderStart
<1>4. ASSUME NEW p \in Partition, PollEvent(p) \/ PollMalformed(p) PROVE InOrder'
  BY <1>4, OrderPoll
<1>5. CASE Handoff \/ HandoffStopped
  BY <1>5, OrderHandoff
<1>6. CASE Get
  BY <1>6, OrderGet
<1>7. CASE PublishOk
  BY <1>7, OrderPublish
<1>8. CASE Return \/ Interrupt
  BY <1>8 DEF Return, Interrupt, InOrder, BeforeCurrent
<1>9. CASE Terminate \/ Kill
  <2>1. current' = {} /\ hand' = {} /\ Len(queue') = 0 /\ tpc' = "down"
    BY <1>9 DEF Terminate, Kill, Gone
  <2> QED
    BY <2>1 DEF InOrder, BeforeCurrent, BeforeQueued, BeforeHand
<1> QED
  BY <1>2, <1>3, <1>4, <1>5, <1>6, <1>7, <1>8, <1>9 DEF Next, Run, Thread, Processor

(* The snapshot an update writes is in the symbol of the event's partition.*)
LEMMA WrittenSymbol ==
  ASSUME EngineInv, TopicKeyed, SkippedBehind, NEW t \in current
  PROVE  /\ RecordAt(t[1], t[2]).symbol \in Symbol
         /\ PartitionOf[RecordAt(t[1], t[2]).symbol] = t[1]
PROOF
<1>1. t[1] \in Partition /\ t[2] \in Offsets(t[1])
  BY Travellers
<1>2. IsEvent(t[1], t[2])
  BY DEF SkippedBehind, InTransit
<1>3. RecordAt(t[1], t[2]) \in Record
  BY <1>1, <1>2 DEF EngineInv, EngineTypeOK, TopicTypeOK, IsEvent, RecordAt, Offsets
<1> QED
  BY <1>1, <1>2, <1>3 DEF TopicKeyed, Record

(* A written snapshot shows an event with all before it settled, and what  *)
(* was settled in transit was processed.                                   *)
LEMMA SnapshotWrite ==
  ASSUME EngineInv, TopicKeyed, SkippedBehind, InOrder, SnapshotsBehind,
         NEW t \in current, WriteSnapshot(t), NEW s \in Symbol
  PROVE  /\ snapshot'[s] < Len(log[PartitionOf[s]])
         /\ \A o \in 0 .. snapshot'[s] - 1 : Settled(PartitionOf[s], o)
         /\ snapshot'[s] < snapshot[s] => snapshot'[s] \in done[PartitionOf[s]]
         /\ snapshot'[RecordAt(t[1], t[2]).symbol] = t[2]
PROOF
<1>1. /\ RecordAt(t[1], t[2]).symbol \in Symbol
      /\ PartitionOf[RecordAt(t[1], t[2]).symbol] = t[1]
  BY WrittenSymbol
<1>2. t[1] \in Partition /\ t[2] \in Nat /\ t[2] < Len(log[t[1]])
  BY Travellers DEF Offsets, EngineInv, EngineTypeOK, TopicTypeOK
<1>3. snapshot \in [Symbol -> Nat \cup {NoOffset}] /\ NoOffset = -1
  BY DEF EngineInv, EngineTypeOK, NoOffset
<1>4. /\ snapshot'[RecordAt(t[1], t[2]).symbol] = t[2]
      /\ s # RecordAt(t[1], t[2]).symbol => snapshot'[s] = snapshot[s]
  BY <1>1, <1>3 DEF WriteSnapshot
<1>5. CASE s # RecordAt(t[1], t[2]).symbol
  BY <1>3, <1>4, <1>5 DEF SnapshotsBehind
<1>6. CASE s = RecordAt(t[1], t[2]).symbol
  <2>1. \A o \in 0 .. t[2] - 1 : Settled(t[1], o)
    BY DEF InOrder, BeforeCurrent
  <2>2. ASSUME t[2] < snapshot[s] PROVE t[2] \in done[t[1]]
    <3>1. t[2] \in 0 .. snapshot[s] - 1
      BY <1>2, <1>3, <2>2
    <3>2. Settled(t[1], t[2])
      BY <1>1, <1>6, <3>1 DEF SnapshotsBehind
    <3> QED
      BY <3>2 DEF Settled, SkippedBehind, InTransit
  <2> QED
    BY <1>1, <1>2, <1>4, <1>6, <2>1, <2>2
<1> QED
  BY <1>5, <1>6

(* The snapshots follow the order of the topic, and only a replay takes    *)
(* one back.                                                               *)
LEMMA SnapshotsStep ==
  ASSUME FlightInv, [Next]_vars
  PROVE  /\ SnapshotsBehind'
         /\ \A s \in Symbol :
              snapshot'[s] < snapshot[s] => snapshot'[s] \in done[PartitionOf[s]]
PROOF
<1> USE DEF FlightInv
<1>1. /\ snapshot \in [Symbol -> Nat \cup {NoOffset}] /\ NoOffset = -1
      /\ \A p \in Partition : Len(log[p]) \in Nat /\ Len(log'[p]) \in Nat
      /\ PartitionOf \in [Symbol -> Partition]
  <2>1. EngineTypeOK'
    BY EngineTypeStep DEF EngineInv
  <2> QED
    BY <2>1, TopicAssumption DEF EngineInv, EngineTypeOK, TopicTypeOK, NoOffset
<1>2. \A p \in Partition : \A o \in Offsets(p) :
        o \in Offsets(p)' /\ RecordAt(p, o)' = RecordAt(p, o)
  BY RecordsStay
<1>3. \A p \in Partition : Len(log[p]) <= Len(log'[p])
  BY <1>1, <1>2 DEF Offsets
<1>4. \A p \in Partition : \A o \in Offsets(p) : Settled(p, o) => Settled(p, o)'
  BY SettledStays
<1>5. ASSUME NEW s \in Symbol, NEW w \in Nat \cup {NoOffset},
             w < Len(log[PartitionOf[s]]), \A o \in 0 .. w - 1 : Settled(PartitionOf[s], o)
      PROVE  /\ w < Len(log'[PartitionOf[s]])
             /\ \A o \in 0 .. w - 1 : Settled(PartitionOf[s], o)'
  <2>1. PartitionOf[s] \in Partition
    BY <1>1
  <2>2. 0 .. w - 1 \subseteq Offsets(PartitionOf[s])
    BY <1>1, <1>5, <2>1 DEF Offsets
  <2>3. w < Len(log'[PartitionOf[s]])
    BY <1>1, <1>3, <1>5, <2>1
  <2> QED
    BY <1>4, <1>5, <2>1, <2>2, <2>3
<1>6. CASE UNCHANGED snapshot
  <2>1. \A s \in Symbol : /\ snapshot[s] < Len(log'[PartitionOf[s]])
                          /\ \A o \in 0 .. snapshot[s] - 1 : Settled(PartitionOf[s], o)'
    BY <1>1, <1>5 DEF SnapshotsBehind
  <2>2. \A s \in Symbol : ~(snapshot'[s] < snapshot[s])
    BY <1>1, <1>6
  <2>3. CASE ~UpdateOk
    <3>1. ppc' = "publish" => ppc = "publish" /\ current' = current
      BY <2>3 DEF vars, engineVars, Next, Run, Feed, Start, Thread, DrainOk, DrainRaises, Drain,
         PollNone, PollEvent, PollMalformed, Handoff, HandoffStopped, LoopExit, Processor, Get,
         UpdateFails, PublishOk, PublishFails, processorRest, Return, Shutdown, Interrupt,
         Terminate, Kill, Gone
    <3>2. \A t \in current : RecordAt(t[1], t[2])' = RecordAt(t[1], t[2])
      BY <1>2, Travellers
    <3>3. ppc' = "publish" =>
            \A t \in current' : snapshot'[RecordAt(t[1], t[2])'.symbol] = t[2]
      BY <1>6, <3>1, <3>2 DEF SnapshotsBehind
    <3> QED
      BY <1>6, <2>1, <2>2, <3>3 DEF SnapshotsBehind
  <2>4. CASE UpdateOk
    <3>1. PICK t \in current : WriteSnapshot(t)
      BY <2>4 DEF UpdateOk
    <3>2. current = {t} /\ current' = current /\ UNCHANGED topicVars
      BY <2>4, <3>1 DEF UpdateOk, ByPlace, processorRest
    <3>3. snapshot'[RecordAt(t[1], t[2]).symbol] = t[2]
      BY <1>1, <3>1, SnapshotWrite, WrittenSymbol
    <3>4. \A u \in current' : snapshot'[RecordAt(u[1], u[2])'.symbol] = u[2]
      BY <3>2, <3>3, SameTopic
    <3> QED
      BY <1>6, <2>1, <2>2, <3>4 DEF SnapshotsBehind
  <2> QED
    BY <2>3, <2>4
<1>7. CASE (UpdateOk \/ UpdateFails) /\ ~UNCHANGED snapshot
  <2>1. PICK t \in current : WriteSnapshot(t)
    BY <1>7 DEF UpdateOk, UpdateFails
  <2>2. current = {t} /\ current' = current /\ UNCHANGED topicVars
    BY <1>7, <2>1 DEF UpdateOk, UpdateFails, ByPlace, processorRest
  <2>3. \A s \in Symbol :
         /\ snapshot'[s] < Len(log[PartitionOf[s]])
         /\ \A o \in 0 .. snapshot'[s] - 1 : Settled(PartitionOf[s], o)
         /\ snapshot'[s] < snapshot[s] => snapshot'[s] \in done[PartitionOf[s]]
         /\ snapshot'[RecordAt(t[1], t[2]).symbol] = t[2]
    BY <2>1, SnapshotWrite
  <2>4. snapshot'[RecordAt(t[1], t[2]).symbol] = t[2]
    BY <2>1, <2>3, WrittenSymbol
  <2>5. \A s \in Symbol : snapshot'[s] \in Nat \cup {NoOffset}
    BY EngineTypeStep DEF EngineInv, EngineTypeOK
  <2>6. \A s \in Symbol : /\ snapshot'[s] < Len(log'[PartitionOf[s]])
                          /\ \A o \in 0 .. snapshot'[s] - 1 : Settled(PartitionOf[s], o)'
    BY <1>5, <2>3, <2>5
  <2>7. \A u \in current' : snapshot'[RecordAt(u[1], u[2])'.symbol] = u[2]
    BY <2>2, <2>4, SameTopic
  <2> QED
    BY <2>3, <2>6, <2>7 DEF SnapshotsBehind
<1>8. UpdateOk \/ UpdateFails \/ UNCHANGED snapshot
  BY DEF vars, engineVars, redisVars, Next, Run, Feed, Start, Thread, DrainOk, DrainRaises, Drain,
     PollNone, PollEvent, PollMalformed, Handoff, HandoffStopped, LoopExit, Processor, Get,
     PublishOk, PublishFails, processorRest, Return, Shutdown, Interrupt, Terminate, Kill, Gone
<1> QED
  BY <1>6, <1>7, <1>8

(* Theorem: what the engine has in flight is in the order of the topic,    *)
(* and its snapshots follow that order.                                    *)
THEOREM EngineFlight == Spec => []FlightInv
PROOF
<1>1. Init => FlightInv
  <2>1. SUFFICES ASSUME Init PROVE FlightInv
    OBVIOUS
  <2>2. EngineInv
    BY <2>1, EngineInitInv
  <2>3. \A p \in Partition : Offsets(p) = {} /\ Len(log[p]) = 0
    BY <2>1 DEF Init, TopicInit, Offsets
  <2>4. /\ queue = <<>> /\ Len(queue) = 0 /\ hand = {} /\ current = {} /\ tpc = "down" /\ ppc = "down"
        /\ stop = FALSE
        /\ \A p \in Partition : position[p] = 0 /\ nextCommit[p] = NoOffset /\ skipped[p] = {}
        /\ \A s \in Symbol : snapshot[s] = -1
    BY <2>1 DEF Init, EngineInit, NoOffset
  <2>5. ByPlace
    BY <2>3, <2>4, EngineAssumption DEF ByPlace
  <2>6. SkippedBehind /\ TopicKeyed
    BY <2>3, <2>4 DEF SkippedBehind, InTransit, TopicKeyed
  <2>7. InOrder
    BY <2>4 DEF InOrder, BeforeCurrent, BeforeQueued, BeforeHand
  <2>8. SnapshotsBehind
    BY <2>3, <2>4, TopicAssumption DEF SnapshotsBehind
  <2> QED
    BY <2>2, <2>5, <2>6, <2>7, <2>8 DEF FlightInv
<1>2. FlightInv /\ [Next]_vars => FlightInv'
  <2>1. SUFFICES ASSUME FlightInv, [Next]_vars PROVE FlightInv'
    OBVIOUS
  <2>2. TopicKeyed'
    <3>1. CASE TopicNext
      BY <2>1, <3>1, KeyedStep DEF FlightInv, EngineInv, EngineTypeOK
    <3>2. CASE UNCHANGED topicVars
      BY <2>1, <3>2, SameTopic DEF FlightInv, TopicKeyed
    <3> QED
      BY <2>1, <3>1, <3>2 DEF vars, Next, Run, Feed, Start, Thread, DrainOk, DrainRaises, Drain,
         PollNone, PollEvent, PollMalformed, Handoff, HandoffStopped, LoopExit, Processor, Get,
         UpdateOk, UpdateFails, PublishOk, PublishFails, processorRest, Return, Shutdown,
         Interrupt, Terminate, Kill, Gone
  <2> QED
    BY <2>1, <2>2, EngineNextInv, ByPlaceStep, SkippedStep, OrderStep, SnapshotsStep DEF FlightInv
<1> QED
  BY <1>1, <1>2, PTL DEF Spec

(* Theorem: the snapshot of a published event is in Redis before the event.*)
THEOREM EngineSnapshotFirst == Spec => SnapshotCoversPublish
PROOF
<1>1. ASSUME FlightInv, [Next]_vars, NEW s \in Symbol, published'[s] # published[s]
      PROVE  snapshot[s] = published'[s]
  <2>1. PublishOk \/ PublishFails
    BY <1>1 DEF vars, engineVars, redisVars, Next, Run, Feed, Start, Thread, DrainOk, DrainRaises,
       Drain, PollNone, PollEvent, PollMalformed, Handoff, HandoffStopped, LoopExit, Processor,
       Get, UpdateOk, UpdateFails, processorRest, Return, Shutdown, Interrupt, Terminate, Kill,
       Gone
  <2>2. PICK t \in current : Publish(t)
    BY <1>1, <2>1 DEF PublishOk, PublishFails
  <2>3. published \in [Symbol -> Nat \cup {NoOffset}]
    BY <1>1 DEF FlightInv, EngineInv, EngineTypeOK
  <2>4. s = RecordAt(t[1], t[2]).symbol /\ published'[s] = t[2]
    BY <1>1, <2>2, <2>3 DEF Publish
  <2>5. ppc = "publish"
    BY <2>1 DEF PublishOk, PublishFails
  <2> QED
    BY <1>1, <2>4, <2>5 DEF FlightInv, SnapshotsBehind
<1>2. FlightInv /\ [Next]_vars =>
        [\A s \in Symbol : published'[s] # published[s] => snapshot[s] = published'[s]]_vars
  BY <1>1
<1> QED
  BY <1>2, EngineFlight, PTL DEF Spec, SnapshotCoversPublish

(* Theorem: a snapshot moves back only when a processed event is replayed. *)
THEOREM EngineSnapshotsForward == Spec => RegressionOnlyByReplay
PROOF
<1>1. FlightInv /\ [Next]_vars =>
        [\A s \in Symbol : snapshot'[s] < snapshot[s] => snapshot'[s] \in done[PartitionOf[s]]]_vars
  BY SnapshotsStep
<1> QED
  BY <1>1, EngineFlight, PTL DEF Spec, RegressionOnlyByReplay

(* A sequence has no more elements than its length.                        *)
LEMMA ElementsBound ==
  ASSUME NEW S, NEW q \in Seq(S)
  PROVE  /\ IsFiniteSet({q[i] : i \in 1 .. Len(q)})
         /\ Cardinality({q[i] : i \in 1 .. Len(q)}) <= Len(q)
PROOF
<1> DEFINE T == {q[i] : i \in 1 .. Len(q)}
           f == [i \in 1 .. Len(q) |-> q[i]]
<1>1. f \in Surjection(1 .. Len(q), T)
  BY DEF Surjection
<1>2. IsFiniteSet(1 .. Len(q)) /\ Cardinality(1 .. Len(q)) = Len(q)
  <2>1. Len(q) \in Nat /\ 1 \in Int /\ Len(q) \in Int
    OBVIOUS
  <2>2. /\ IsFiniteSet(1 .. Len(q))
        /\ Cardinality(1 .. Len(q)) = IF 1 > Len(q) THEN 0 ELSE Len(q) - 1 + 1
    BY <2>1, FS_Interval
  <2> QED
    BY <2>1, <2>2
<1> HIDE DEF T, f
<1>3. IsFiniteSet(T) /\ Cardinality(T) <= Cardinality(1 .. Len(q))
  BY <1>1, <1>2, FS_Surjection
<1> QED
  BY <1>2, <1>3 DEF T

(* A set grows by at most one element at a time.                           *)
LEMMA OneMore ==
  ASSUME NEW S, IsFiniteSet(S), NEW T, T = {} \/ \E t \in T : T = {t}
  PROVE  IsFiniteSet(S \cup T) /\ Cardinality(S \cup T) <= Cardinality(S) + 1
PROOF
<1>1. Cardinality(S) \in Nat
  BY FS_CardinalityType
<1>2. CASE T = {}
  <2>1. S \cup T = S
    BY <1>2
  <2>2. IsFiniteSet(S \cup T) /\ Cardinality(S \cup T) = Cardinality(S)
    BY <2>1
  <2> QED
    BY <1>1, <2>2
<1>3. CASE \E t \in T : T = {t}
  <2>1. PICK t \in T : T = {t}
    BY <1>3
  <2>2. /\ IsFiniteSet(S \cup {t})
        /\ Cardinality(S \cup {t}) = IF t \in S THEN Cardinality(S) ELSE Cardinality(S) + 1
    BY FS_AddElement
  <2>3. S \cup T = S \cup {t}
    BY <2>1
  <2>4. IsFiniteSet(S \cup T)
    BY <2>2, <2>3
  <2>5. Cardinality(S \cup T) <= Cardinality(S) + 1
    <3>1. Cardinality(S \cup T) = Cardinality(S) \/ Cardinality(S \cup T) = Cardinality(S) + 1
      BY <2>2, <2>3
    <3> QED
      BY <1>1, <3>1
  <2> QED
    BY <2>4, <2>5
<1> QED
  BY <1>2, <1>3

(* Theorem: the handoff holds at most the queue and two events.            *)
THEOREM EngineBounded == Spec => []BoundedInFlight
PROOF
<1>1. ASSUME FlightInv, tpc # "down", ~stop
      PROVE  Cardinality(InFlight) <= QueueMax + 2
  <2> DEFINE Q == {queue[i] : i \in 1 .. Len(queue)}
  <2>1. queue \in Seq(Item) /\ Len(queue) \in Nat /\ Len(queue) <= QueueMax /\ QueueMax \in Nat
    BY <1>1, EngineAssumption DEF FlightInv, EngineInv, EngineTypeOK, ByPlace
  <2>2. IsFiniteSet(Q) /\ Cardinality(Q) <= Len(queue)
    BY <2>1, ElementsBound
  <2>3. IsFiniteSet(Q \cup hand) /\ Cardinality(Q \cup hand) <= Cardinality(Q) + 1
    <3>1. hand = {} \/ \E t \in hand : hand = {t}
      BY <1>1 DEF FlightInv, ByPlace
    <3> QED
      BY <2>2, <3>1, OneMore
  <2>4. /\ IsFiniteSet((Q \cup hand) \cup current)
        /\ Cardinality((Q \cup hand) \cup current) <= Cardinality(Q \cup hand) + 1
    <3>1. current = {} \/ \E t \in current : current = {t}
      BY <1>1 DEF FlightInv, ByPlace
    <3> QED
      BY <2>3, <3>1, OneMore
  <2>5. InFlight \subseteq (Q \cup hand) \cup current
    <3>1. BeforePosition
      BY <1>1 DEF FlightInv, ByPlace, InOrder
    <3>2. SUFFICES ASSUME NEW t \in InFlight
                   PROVE  t \in (Q \cup hand) \cup current
      OBVIOUS
    <3>3. /\ t = <<t[1], t[2]>> /\ t[1] \in Partition /\ t[2] \in Nat
          /\ t[2] < position[t[1]] /\ ~Settled(t[1], t[2])
      BY DEF InFlight
    <3>4. t[2] \in 0 .. position[t[1]] - 1
      BY <1>1, <3>3 DEF FlightInv, EngineInv, EngineTypeOK
    <3> QED
      BY <3>1, <3>3, <3>4 DEF BeforePosition, Queued
  <2> HIDE DEF Q
  <2>6. /\ Cardinality(InFlight) <= Cardinality((Q \cup hand) \cup current)
        /\ IsFiniteSet(InFlight)
    BY <2>4, <2>5, FS_Subset
  <2>7. /\ Cardinality(InFlight) \in Nat /\ Cardinality(Q) \in Nat
        /\ Cardinality(Q \cup hand) \in Nat /\ Cardinality((Q \cup hand) \cup current) \in Nat
    BY <2>2, <2>3, <2>4, <2>6, FS_CardinalityType
  <2> QED
    BY <2>1, <2>2, <2>3, <2>4, <2>6, <2>7
<1>2. FlightInv => BoundedInFlight
  BY <1>1 DEF BoundedInFlight
<1> QED
  BY <1>2, EngineFlight, PTL

=============================================================================
