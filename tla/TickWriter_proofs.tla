-------------------------- MODULE TickWriter_proofs --------------------------
(***************************************************************************)
(* Proofs about TickWriter, for any set of symbols and partitions, any     *)
(* batch size and any number of stops, kills and failures.                 *)
(***************************************************************************)
EXTENDS TickWriter, MarketTopic_proofs, FiniteSetTheorems

(* The first state satisfies the inductive invariant.                      *)
LEMMA WriterInitInv ==
  ASSUME Init
  PROVE  WriterInv
PROOF
<1> USE DEF Init, TopicInit, WriterInit
<1>1. TopicTypeOK
  BY DEF TopicTypeOK
<1>2. WriterTypeOK
  BY <1>1 DEF WriterTypeOK
<1>3. \A p \in Partition : committed[p] <= Len(log[p]) /\ Offsets(p) = {}
  BY DEF Offsets
<1> QED
  BY <1>2, <1>3 DEF WriterInv, NoLostTick, PolledAccountedFor, InHand, ByPlace

(* While the topic only grows, what was known of it stays known.           *)
LEMMA FeedStep ==
  ASSUME WriterInv, Feed
  PROVE  WriterInv'
PROOF
<1>1. /\ TopicTypeOK'
      /\ \A p \in Partition : Offsets(p) \subseteq Offsets(p)'
      /\ \A p \in Partition : \A o \in Offsets(p) : RecordAt(p, o)' = RecordAt(p, o)
  BY TopicAppends DEF Feed, WriterInv, WriterTypeOK
<1>2. WriterTypeOK'
  BY <1>1 DEF Feed, WriterInv, WriterTypeOK, writerVars
<1>3. \A p \in Partition : Len(log[p]) \in Nat /\ Len(log'[p]) \in Nat
  BY <1>1 DEF WriterInv, WriterTypeOK, TopicTypeOK
<1>4. \A p \in Partition : Len(log[p]) <= Len(log'[p])
  BY <1>1, <1>3 DEF Offsets
<1>5. \A p \in Partition : \A o \in Offsets(p) :
        (Stored(p, o)' <=> Stored(p, o)) /\ (IsEvent(p, o)' <=> IsEvent(p, o))
  BY <1>1 DEF Feed, writerVars, Stored, IsEvent
<1> USE DEF Feed, writerVars
<1>6. \A p \in Partition : committed'[p] <= Len(log'[p])
  BY <1>3, <1>4 DEF WriterInv, WriterTypeOK
<1>7. NoLostTick'
  <2>1. SUFFICES ASSUME NEW p \in Partition, NEW o \in Offsets(p)', o < committed[p]
                 PROVE  Stored(p, o)'
    BY DEF NoLostTick
  <2>2. o \in Offsets(p)
    BY <1>3, <2>1 DEF WriterInv, WriterTypeOK, Offsets
  <2> QED
    BY <1>5, <2>1, <2>2 DEF WriterInv, NoLostTick
<1>8. PolledAccountedFor'
  <2>1. SUFFICES ASSUME pc # "down", NEW p \in Partition
                 PROVE  /\ committed[p] <= position[p] /\ position[p] <= Len(log'[p])
                        /\ \A o \in Offsets(p)' : o < position[p] =>
                             (Stored(p, o)' \/ <<p, o>> \in batch)
    BY DEF PolledAccountedFor
  <2>2. committed[p] <= position[p] /\ position[p] <= Len(log[p])
    BY <2>1 DEF WriterInv, PolledAccountedFor
  <2>3. \A o \in Offsets(p)' : o < position[p] => o \in Offsets(p)
    BY <1>3, <2>2 DEF WriterInv, WriterTypeOK, Offsets
  <2>4. position[p] <= Len(log'[p])
    BY <1>3, <1>4, <2>2 DEF WriterInv, WriterTypeOK
  <2> QED
    BY <1>5, <2>1, <2>2, <2>3, <2>4 DEF WriterInv, PolledAccountedFor
<1>9. \A t \in batch : t[1] \in Partition /\ t[2] \in Offsets(t[1])
  <2>1. SUFFICES ASSUME NEW t \in batch PROVE t[1] \in Partition /\ t[2] \in Offsets(t[1])
    OBVIOUS
  <2>2. t[1] \in Partition /\ t[2] \in Nat
    BY DEF WriterInv, WriterTypeOK
  <2>3. pc # "down"
    BY DEF WriterInv, ByPlace
  <2>4. t[2] < position[t[1]] /\ position[t[1]] <= Len(log[t[1]])
    BY <2>2, <2>3 DEF WriterInv, InHand, PolledAccountedFor
  <2> QED
    BY <1>3, <2>2, <2>4 DEF WriterInv, WriterTypeOK, Offsets
<1>10. InHand'
  BY <1>5, <1>9 DEF WriterInv, InHand
<1>11. ByPlace'
  BY <1>1, <1>9 DEF WriterInv, ByPlace, Rows
<1> QED
  BY <1>2, <1>6, <1>7, <1>8, <1>10, <1>11 DEF WriterInv

(* Steps that only move the control point.                                 *)
LEMMA ControlStep ==
  ASSUME WriterInv, EnsureSchema \/ PollNone \/ Expire \/ TryInsert \/ Stop
  PROVE  WriterInv'
PROOF
<1>1. UNCHANGED <<topicVars, position, committed, batch, invalid, table>>
  BY DEF EnsureSchema, PollNone, Expire, TryInsert, Stop
<1>2. WriterTypeOK'
  <2>1. TopicTypeOK'
    BY SameTopic, <1>1 DEF WriterInv, WriterTypeOK
  <2>2. expired' \in BOOLEAN /\ stopped' \in BOOLEAN
    BY DEF WriterInv, WriterTypeOK, EnsureSchema, PollNone, Expire, TryInsert, Stop
  <2>3. halts' \in Nat
    BY DEF WriterInv, WriterTypeOK, EnsureSchema, PollNone, Expire, TryInsert, Stop
  <2>4. pc' \in {"schema", "poll", "flush", "insert"} \/ pc' = pc
    BY DEF EnsureSchema, PollNone, Expire, TryInsert, Stop
  <2> QED
    BY <1>1, <2>1, <2>2, <2>3, <2>4 DEF WriterInv, WriterTypeOK
<1>3. /\ pc # "down"
      /\ pc' \in {"schema", "poll"} => pc' = pc \/ pc \in {"schema", "poll"}
      /\ pc' \in {"commit", "skip", "down"} => pc' = pc
  BY DEF EnsureSchema, PollNone, Expire, TryInsert, Stop
<1>4. ByPlace'
  <2>1. Rows(batch)' = Rows(batch)
    BY SameTopic, <1>1 DEF Rows
  <2>2. pc' \in {"schema", "skip"} => pc' = pc
    BY DEF EnsureSchema, PollNone, Expire, TryInsert, Stop
  <2> QED
    BY <1>1, <1>3, <2>1, <2>2 DEF WriterInv, ByPlace
<1> QED
  BY SameTopic, <1>1, <1>2, <1>3, <1>4
  DEF WriterInv, NoLostTick, PolledAccountedFor, InHand, Stored

(* A process that ends, with or without a commit, forgets what it had in   *)
(* hand.                                                                   *)
LEMMA DownStep ==
  ASSUME WriterInv, Down, UNCHANGED <<topicVars, position, table>>, halts' \in Nat,
         committed' \in [Partition -> Nat],
         \A p \in Partition : committed'[p] <= Len(log[p]),
         \A p \in Partition : \A o \in Offsets(p) : o < committed'[p] => Stored(p, o)
  PROVE  WriterInv'
PROOF
<1>1. WriterTypeOK'
  BY SameTopic DEF WriterInv, WriterTypeOK, Down
<1> QED
  BY SameTopic, <1>1 DEF WriterInv, NoLostTick, PolledAccountedFor, InHand, ByPlace, Stored, Down

(* What a commit needs: all below the new offset is settled.               *)
LEMMA CommitLemma ==
  ASSUME WriterInv, NEW p \in Partition, NEW o \in Nat, CommitOffset(p, o),
         (pc = "commit" /\ LastOfBatch(p, o)) \/ (pc = "skip" /\ <<p, o>> \in invalid)
  PROVE  /\ committed' \in [Partition -> Nat]
         /\ committed'[p] = o + 1
         /\ \A q \in Partition : q # p => committed'[q] = committed[q]
         /\ \A q \in Partition : committed[q] <= committed'[q]
         /\ \A q \in Partition : committed'[q] <= position[q] /\ position[q] <= Len(log[q])
         /\ \A q \in Partition : \A i \in Offsets(q) : i < committed'[q] => Stored(q, i)
PROOF
<1>1. /\ committed' \in [Partition -> Nat]
      /\ committed'[p] = o + 1
      /\ \A q \in Partition : q # p => committed'[q] = committed[q]
  BY DEF CommitOffset, WriterInv, WriterTypeOK
<1>2. <<p, o>> \in batch \cup invalid
  BY DEF LastOfBatch
<1>3. committed[p] <= o /\ o < position[p]
  BY <1>2 DEF WriterInv, InHand
<1>4. \A q \in Partition : /\ committed[q] \in Nat /\ position[q] \in Nat /\ Len(log[q]) \in Nat
                          /\ committed[q] <= position[q] /\ position[q] <= Len(log[q])
  BY DEF WriterInv, WriterTypeOK, TopicTypeOK, PolledAccountedFor
<1>5. ASSUME NEW i \in Offsets(p), i <= o
      PROVE  Stored(p, i)
  <2>1. i \in Nat /\ i < position[p]
    BY <1>3, <1>4, <1>5 DEF Offsets
  <2>2. Stored(p, i) \/ <<p, i>> \in batch
    BY <1>5, <2>1 DEF WriterInv, PolledAccountedFor
  <2>3. <<p, i>> \in batch => RecordAt(p, i) \in Rows(batch)
    BY DEF Rows
  <2> QED
    BY <2>2, <2>3 DEF WriterInv, ByPlace, Stored
<1>6. \A q \in Partition : \A i \in Offsets(q) : i < committed'[q] => Stored(q, i)
  <2>1. SUFFICES ASSUME NEW q \in Partition, NEW i \in Offsets(q), i < committed'[q]
                 PROVE  Stored(q, i)
    OBVIOUS
  <2>2. CASE q = p
    BY <1>1, <1>4, <1>5, <2>1, <2>2 DEF Offsets
  <2>3. CASE q # p
    BY <1>1, <2>1, <2>3 DEF WriterInv, NoLostTick
  <2> QED
    BY <2>2, <2>3
<1>7. \A q \in Partition : committed[q] <= committed'[q] /\ committed'[q] <= position[q]
  <2>1. SUFFICES ASSUME NEW q \in Partition
                 PROVE  committed[q] <= committed'[q] /\ committed'[q] <= position[q]
    OBVIOUS
  <2>2. CASE q = p
    BY <1>1, <1>3, <1>4, <2>2
  <2>3. CASE q # p
    BY <1>1, <1>4, <2>3
  <2> QED
    BY <2>2, <2>3
<1> QED
  BY <1>1, <1>4, <1>6, <1>7

(* Every step of the specification preserves the inductive invariant.      *)
LEMMA WriterNextInv ==
  ASSUME WriterInv, [Next]_vars
  PROVE  WriterInv'
PROOF
<1>1. CASE UNCHANGED vars
  <2>1. UNCHANGED topicVars /\ UNCHANGED writerVars
    BY <1>1 DEF vars
  <2>2. WriterTypeOK'
    BY SameTopic, <2>1 DEF WriterInv, WriterTypeOK, writerVars
  <2>3. Rows(batch)' = Rows(batch)
    BY SameTopic, <2>1 DEF Rows, writerVars
  <2> QED
    BY SameTopic, <2>1, <2>2, <2>3
    DEF WriterInv, NoLostTick, PolledAccountedFor, InHand, ByPlace, Stored, writerVars
<1>2. CASE Feed
  BY <1>2, FeedStep
<1>3. CASE EnsureSchema \/ PollNone \/ Expire \/ TryInsert \/ Stop
  BY <1>3, ControlStep
<1>4. CASE Start
  <2>1. WriterTypeOK'
    BY <1>4, SameTopic DEF Start, WriterInv, WriterTypeOK
  <2>2. PolledAccountedFor'
    BY <1>4, SameTopic
    DEF Start, WriterInv, WriterTypeOK, NoLostTick, PolledAccountedFor, Stored
  <2> QED
    BY <1>4, SameTopic, <2>1, <2>2 DEF Start, WriterInv, NoLostTick, InHand, ByPlace, Stored
<1>5. ASSUME NEW p \in Partition, PollEvent(p) PROVE WriterInv'
  <2> USE <1>5 DEF PollEvent
  <2>1. /\ position[p] \in Nat /\ position[p] < Len(log[p]) /\ Len(log[p]) \in Nat
        /\ IsEvent(p, position[p])
    BY DEF WriterInv, WriterTypeOK, TopicTypeOK, Offsets
  <2>2. /\ position' \in [Partition -> Nat] /\ position'[p] = position[p] + 1
        /\ \A q \in Partition : q # p => position'[q] = position[q]
    BY <2>1 DEF WriterInv, WriterTypeOK
  <2>3. batch' = batch \cup {<<p, position[p]>>} /\ batch' \subseteq Partition \X Nat
    BY <2>1 DEF WriterInv, WriterTypeOK
  <2>4. WriterTypeOK'
    BY SameTopic, <2>2, <2>3 DEF WriterInv, WriterTypeOK
  <2>5. NoLostTick'
    BY SameTopic DEF WriterInv, NoLostTick, Stored
  <2>6. PolledAccountedFor'
    <3>1. SUFFICES ASSUME NEW q \in Partition
                   PROVE  /\ committed[q] <= position'[q] /\ position'[q] <= Len(log[q])
                          /\ \A o \in Offsets(q) : o < position'[q] =>
                               (Stored(q, o) \/ <<q, o>> \in batch')
      BY SameTopic DEF PolledAccountedFor, Stored
    <3>2. /\ committed[q] \in Nat /\ position[q] \in Nat
          /\ committed[q] <= position[q] /\ position[q] <= Len(log[q])
          /\ \A o \in Offsets(q) : o < position[q] => (Stored(q, o) \/ <<q, o>> \in batch)
      BY DEF WriterInv, WriterTypeOK, PolledAccountedFor
    <3>3. CASE q = p
      <4>1. committed[q] <= position'[q] /\ position'[q] <= Len(log[q])
        BY <2>1, <2>2, <3>2, <3>3
      <4>2. ASSUME NEW o \in Offsets(q), o < position'[q]
            PROVE  o < position[q] \/ o = position[q]
        BY <2>1, <2>2, <3>2, <3>3, <4>2 DEF Offsets
      <4> QED
        BY <2>3, <3>2, <3>3, <4>1, <4>2
    <3>4. CASE q # p
      BY <2>2, <2>3, <3>2, <3>4
    <3> QED
      BY <3>3, <3>4
  <2>7. InHand'
    <3>1. invalid = {}
      BY DEF WriterInv, ByPlace
    <3>2. \A t \in batch : /\ t[1] \in Partition /\ t[2] \in Nat
                          /\ committed[t[1]] <= t[2] /\ t[2] < position[t[1]]
      BY DEF WriterInv, WriterTypeOK, InHand
    <3>3. \A t \in batch : t[2] < position'[t[1]]
      BY <2>1, <2>2, <3>2 DEF WriterInv, WriterTypeOK
    <3>4. committed[p] <= position[p] /\ position[p] < position'[p]
      BY <2>1, <2>2 DEF WriterInv, PolledAccountedFor
    <3>5. \A t \in batch' : committed[t[1]] <= t[2] /\ t[2] < position'[t[1]]
      BY <2>3, <3>2, <3>3, <3>4
    <3>6. \A t \in batch' : IsEvent(t[1], t[2])
      BY <2>1, <2>3 DEF WriterInv, InHand
    <3> QED
      BY SameTopic, <3>1, <3>5, <3>6 DEF InHand
  <2>8. ByPlace'
    BY DEF WriterInv, ByPlace
  <2> QED
    BY SameTopic, <2>4, <2>5, <2>6, <2>7, <2>8 DEF WriterInv
<1>6. ASSUME NEW p \in Partition, PollMalformed(p) PROVE WriterInv'
  <2> USE <1>6 DEF PollMalformed
  <2>1. /\ position[p] \in Nat /\ position[p] < Len(log[p]) /\ Len(log[p]) \in Nat
        /\ Stored(p, position[p])
    BY DEF WriterInv, WriterTypeOK, TopicTypeOK, Offsets, Stored
  <2>2. /\ position' \in [Partition -> Nat] /\ position'[p] = position[p] + 1
        /\ \A q \in Partition : q # p => position'[q] = position[q]
    BY <2>1 DEF WriterInv, WriterTypeOK
  <2>4. WriterTypeOK'
    BY SameTopic, <2>1, <2>2 DEF WriterInv, WriterTypeOK
  <2>5. NoLostTick'
    BY SameTopic DEF WriterInv, NoLostTick, Stored
  <2>6. PolledAccountedFor'
    <3>1. SUFFICES ASSUME NEW q \in Partition
                   PROVE  /\ committed[q] <= position'[q] /\ position'[q] <= Len(log[q])
                          /\ \A o \in Offsets(q) : o < position'[q] =>
                               (Stored(q, o) \/ <<q, o>> \in batch)
      BY SameTopic DEF PolledAccountedFor, Stored
    <3>2. /\ committed[q] \in Nat /\ position[q] \in Nat
          /\ committed[q] <= position[q] /\ position[q] <= Len(log[q])
          /\ \A o \in Offsets(q) : o < position[q] => (Stored(q, o) \/ <<q, o>> \in batch)
      BY DEF WriterInv, WriterTypeOK, PolledAccountedFor
    <3>3. CASE q = p
      <4>1. committed[q] <= position'[q] /\ position'[q] <= Len(log[q])
        BY <2>1, <2>2, <3>2, <3>3
      <4>2. ASSUME NEW o \in Offsets(q), o < position'[q]
            PROVE  o < position[q] \/ o = position[q]
        BY <2>1, <2>2, <3>2, <3>3, <4>2 DEF Offsets
      <4> QED
        BY <2>1, <3>2, <3>3, <4>1, <4>2
    <3>4. CASE q # p
      BY <2>2, <3>2, <3>4
    <3> QED
      BY <3>3, <3>4
  <2>7. InHand'
    <3>2. \A t \in batch : /\ t[1] \in Partition /\ t[2] \in Nat
                          /\ committed[t[1]] <= t[2] /\ t[2] < position[t[1]]
      BY DEF WriterInv, WriterTypeOK, InHand
    <3>3. \A t \in batch : t[2] < position'[t[1]]
      BY <2>1, <2>2, <3>2 DEF WriterInv, WriterTypeOK
    <3>4. committed[p] <= position[p] /\ position[p] < position'[p]
      BY <2>1, <2>2 DEF WriterInv, PolledAccountedFor
    <3>5. \A t \in batch' \cup invalid' : committed[t[1]] <= t[2] /\ t[2] < position'[t[1]]
      BY <3>2, <3>3, <3>4
    <3>6. \A t \in batch : \A u \in invalid' : t[1] = u[1] => t[2] < u[2]
      BY <3>2
    <3>7. (\A t \in batch : IsEvent(t[1], t[2]))'
      BY SameTopic DEF WriterInv, InHand
    <3> QED
      BY <3>5, <3>6, <3>7 DEF InHand
  <2>8. ByPlace'
    BY DEF WriterInv, ByPlace
  <2> QED
    BY SameTopic, <2>4, <2>5, <2>6, <2>7, <2>8 DEF WriterInv
<1>7. CASE InsertOk \/ InsertFails
  <2>1. /\ UNCHANGED <<topicVars, position, committed, batch, expired, invalid, stopped, halts>>
        /\ pc = "insert" /\ pc' \in {"commit", "flush"}
        /\ table \subseteq table' /\ table' \subseteq table \cup Rows(batch)
        /\ pc' = "commit" => Rows(batch) \subseteq table'
    BY <1>7 DEF InsertOk, InsertFails
  <2>2. Rows(batch) \subseteq Record
    <3>1. SUFFICES ASSUME NEW t \in batch PROVE RecordAt(t[1], t[2]) \in Record
      BY DEF Rows
    <3>2. t[1] \in Partition /\ t[2] \in Nat /\ t[2] + 1 \in 1 .. Len(log[t[1]])
      BY <2>1 DEF WriterInv, WriterTypeOK, TopicTypeOK, InHand, PolledAccountedFor
    <3>3. log[t[1]] \in Seq(Record \cup {Malformed})
      BY <3>2 DEF WriterInv, WriterTypeOK, TopicTypeOK
    <3>4. log[t[1]][t[2] + 1] \in Record \cup {Malformed}
      BY <3>2, <3>3
    <3>5. IsEvent(t[1], t[2])
      BY DEF WriterInv, InHand
    <3> QED
      BY <3>4, <3>5 DEF IsEvent, RecordAt
  <2>3. WriterTypeOK'
    BY SameTopic, <2>1, <2>2 DEF WriterInv, WriterTypeOK
  <2>4. \A p, o : Stored(p, o) => Stored(p, o)'
    BY SameTopic, <2>1 DEF Stored
  <2>5. Rows(batch)' = Rows(batch)
    BY SameTopic, <2>1 DEF Rows
  <2>6. NoLostTick' /\ PolledAccountedFor'
    BY SameTopic, <2>1, <2>4 DEF WriterInv, NoLostTick, PolledAccountedFor
  <2>7. InHand' /\ ByPlace'
    BY SameTopic, <2>1, <2>5 DEF WriterInv, InHand, ByPlace
  <2> QED
    BY SameTopic, <2>1, <2>3, <2>6, <2>7 DEF WriterInv
<1>8. ASSUME NEW p \in Partition, CommitBatch(p) PROVE WriterInv'
  <2> DEFINE rest == {t \in batch : t[1] # p}
  <2>1. PICK o \in {t[2] : t \in batch} : LastOfBatch(p, o) /\ CommitOffset(p, o)
    BY <1>8 DEF CommitBatch
  <2>2. o \in Nat /\ <<p, o>> \in batch
    BY <2>1 DEF LastOfBatch, WriterInv, WriterTypeOK
  <2>3. /\ pc = "commit" /\ batch' = rest /\ expired' \in {expired, FALSE}
        /\ pc' \in {"commit", "skip", "poll"}
        /\ pc' = "skip" => rest = {}
        /\ pc' = "poll" => invalid = {}
        /\ UNCHANGED <<topicVars, position, invalid, stopped, table, halts>>
    BY <1>8 DEF CommitBatch
  <2>4. /\ committed' \in [Partition -> Nat]
        /\ committed'[p] = o + 1
        /\ \A q \in Partition : q # p => committed'[q] = committed[q]
        /\ \A q \in Partition : committed'[q] <= position[q] /\ position[q] <= Len(log[q])
        /\ \A q \in Partition : \A i \in Offsets(q) : i < committed'[q] => Stored(q, i)
    <3>1. pc = "commit" /\ LastOfBatch(p, o)
      BY <2>1, <2>3
    <3> QED
      BY <2>1, <2>2, <3>1, CommitLemma
  <2>5. \A q, i : Stored(q, i)' <=> Stored(q, i)
    BY SameTopic, <2>3 DEF Stored
  <2>6. WriterTypeOK'
    BY SameTopic, <2>3, <2>4 DEF WriterInv, WriterTypeOK
  <2>7. NoLostTick'
    BY SameTopic, <2>3, <2>4, <2>5 DEF NoLostTick
  <2>8. \A q \in Partition : committed'[q] <= Len(log'[q])
    BY SameTopic, <2>3, <2>4 DEF WriterInv, WriterTypeOK, TopicTypeOK
  <2>9. PolledAccountedFor'
    <3>1. \A q \in Partition : \A i \in Offsets(q) : <<q, i>> \in batch => Stored(q, i)
      BY <2>3 DEF WriterInv, ByPlace, Rows, Stored
    <3> QED
      BY SameTopic, <2>3, <2>4, <2>5, <3>1 DEF WriterInv, PolledAccountedFor
  <2>10. InHand'
    <3>1. \A u \in invalid : u[1] \in Partition /\ u[2] \in Nat /\ (u[1] = p => o < u[2])
      BY <2>2 DEF WriterInv, WriterTypeOK, InHand
    <3>2. \A t \in rest \cup invalid : committed'[t[1]] <= t[2] /\ t[2] < position[t[1]]
      BY <2>2, <2>4, <3>1 DEF WriterInv, WriterTypeOK, InHand
    <3>3. \A t \in rest : IsEvent(t[1], t[2])'
      BY SameTopic, <2>3 DEF WriterInv, InHand
    <3> QED
      BY <2>3, <3>2, <3>3 DEF WriterInv, InHand
  <2>11. ByPlace'
    BY SameTopic, <2>3 DEF WriterInv, ByPlace, Rows
  <2> QED
    BY <2>6, <2>7, <2>8, <2>9, <2>10, <2>11 DEF WriterInv
<1>9. CASE CommitInvalid
  <2>1. PICK t \in invalid : CommitOffset(t[1], t[2])
    BY <1>9 DEF CommitInvalid
  <2>2. t[1] \in Partition /\ t[2] \in Nat /\ <<t[1], t[2]>> \in invalid
    <3>1. invalid \subseteq Partition \X Nat
      BY Zenon DEF WriterInv, WriterTypeOK
    <3>2. t \in invalid /\ t \in Partition \X Nat
      BY <2>1, <3>1
    <3>3. t[1] \in Partition /\ t[2] \in Nat /\ t = <<t[1], t[2]>>
      BY <3>2
    <3> QED
      BY <3>2, <3>3, Zenon
  <2>3. /\ pc = "skip" /\ pc' = "poll" /\ invalid' = {} /\ batch = {} /\ batch' = {}
        /\ UNCHANGED <<topicVars, position, expired, stopped, table, halts>>
    BY <1>9 DEF CommitInvalid, WriterInv, ByPlace
  <2>4. /\ committed' \in [Partition -> Nat]
        /\ \A q \in Partition : committed'[q] <= position[q] /\ position[q] <= Len(log[q])
        /\ \A q \in Partition : \A i \in Offsets(q) : i < committed'[q] => Stored(q, i)
    BY <2>1, <2>2, <2>3, CommitLemma
  <2>5. \A q, i : Stored(q, i)' <=> Stored(q, i)
    BY SameTopic, <2>3 DEF Stored
  <2>6. WriterTypeOK'
    BY SameTopic, <2>3, <2>4 DEF WriterInv, WriterTypeOK
  <2>7. NoLostTick'
    BY SameTopic, <2>3, <2>4, <2>5 DEF NoLostTick
  <2>8. \A q \in Partition : committed'[q] <= Len(log'[q])
    BY SameTopic, <2>3, <2>4 DEF WriterInv, WriterTypeOK, TopicTypeOK
  <2>9. PolledAccountedFor'
    BY SameTopic, <2>3, <2>4, <2>5 DEF WriterInv, PolledAccountedFor
  <2>10. InHand' /\ ByPlace'
    BY <2>3 DEF InHand, ByPlace, Rows
  <2> QED
    BY <2>6, <2>7, <2>8, <2>9, <2>10 DEF WriterInv
<1>10. CASE CommitRaises
  <2>1. /\ pc \in {"commit", "skip"} /\ Down /\ halts' \in Nat
        /\ UNCHANGED <<topicVars, position, table>>
    BY <1>10 DEF CommitRaises, WriterInv, WriterTypeOK
  <2>2. /\ committed' \in [Partition -> Nat]
        /\ \A q \in Partition : committed'[q] <= Len(log[q])
        /\ \A q \in Partition : \A i \in Offsets(q) : i < committed'[q] => Stored(q, i)
    <3>1. CASE UNCHANGED committed
      BY <3>1 DEF WriterInv, WriterTypeOK, NoLostTick
    <3>2. ASSUME NEW t \in batch \cup invalid, CommitOffset(t[1], t[2]),
                 (pc = "commit" /\ LastOfBatch(t[1], t[2])) \/ (pc = "skip" /\ t \in invalid)
          PROVE  /\ committed' \in [Partition -> Nat]
                 /\ \A q \in Partition : committed'[q] <= Len(log[q])
                 /\ \A q \in Partition : \A i \in Offsets(q) : i < committed'[q] => Stored(q, i)
      <4>1. t[1] \in Partition /\ t[2] \in Nat /\ t = <<t[1], t[2]>>
        BY DEF WriterInv, WriterTypeOK
      <4>2. /\ committed' \in [Partition -> Nat]
            /\ \A q \in Partition : committed'[q] <= position[q] /\ position[q] <= Len(log[q])
            /\ \A q \in Partition : \A i \in Offsets(q) : i < committed'[q] => Stored(q, i)
        BY <3>2, <4>1, CommitLemma
      <4> QED
        BY <4>2 DEF WriterInv, WriterTypeOK, TopicTypeOK
    <3>3. \/ UNCHANGED committed
          \/ \E t \in batch \cup invalid :
               /\ CommitOffset(t[1], t[2])
               /\ (pc = "commit" /\ LastOfBatch(t[1], t[2])) \/ (pc = "skip" /\ t \in invalid)
      BY <1>10 DEF CommitRaises
    <3> QED
      BY <3>1, <3>2, <3>3
  <2> QED
    BY <2>1, <2>2, DownStep
<1>11. CASE Exit \/ Kill
  <2>1. Down /\ halts' \in Nat /\ UNCHANGED <<topicVars, position, committed, table>>
    BY <1>11 DEF Exit, Kill, WriterInv, WriterTypeOK
  <2> QED
    BY <2>1, DownStep DEF WriterInv, WriterTypeOK, NoLostTick
<1> QED
  BY <1>1, <1>2, <1>3, <1>4, <1>5, <1>6, <1>7, <1>8, <1>9, <1>10, <1>11 DEF Next, Run

(* Theorem: whatever the failures, the offset of a tick is committed only  *)
(* once the tick is in market_ticks.                                       *)
THEOREM WriterNeverLosesTick == Spec => []NoLostTick
PROOF
<1>1. Init => WriterInv
  BY WriterInitInv
<1>2. WriterInv /\ [Next]_vars => WriterInv'
  BY WriterNextInv
<1>3. WriterInv => NoLostTick
  BY DEF WriterInv
<1> QED
  BY <1>1, <1>2, <1>3, PTL DEF Spec

(* Theorem: type correctness and the accounting of every polled record.    *)
THEOREM WriterInvariant == Spec => []WriterInv
PROOF
<1>1. Init => WriterInv
  BY WriterInitInv
<1>2. WriterInv /\ [Next]_vars => WriterInv'
  BY WriterNextInv
<1> QED
  BY <1>1, <1>2, PTL DEF Spec

(* Each step of the writer commits forward or not at all, and commits only *)
(* what is settled.                                                        *)
LEMMA CommitStep ==
  ASSUME WriterInv, [Next]_vars
  PROVE  \/ UNCHANGED committed
         \/ /\ \A p \in Partition : committed[p] <= committed'[p]
            /\ UNCHANGED <<topicVars, table>>
PROOF
<1>1. CASE UNCHANGED vars
  BY <1>1 DEF vars, writerVars
<1>2. ASSUME NEW t \in batch \cup invalid, CommitOffset(t[1], t[2]),
             (pc = "commit" /\ LastOfBatch(t[1], t[2])) \/ (pc = "skip" /\ t \in invalid)
      PROVE  \A p \in Partition : committed[p] <= committed'[p]
  <2>1. t[1] \in Partition /\ t[2] \in Nat /\ t = <<t[1], t[2]>>
    BY DEF WriterInv, WriterTypeOK
  <2> QED
    BY <1>2, <2>1, CommitLemma
<1>3. ASSUME NEW p \in Partition, CommitBatch(p)
      PROVE  (\A q \in Partition : committed[q] <= committed'[q]) /\ UNCHANGED <<topicVars, table>>
  <2>1. PICK t \in batch : LastOfBatch(p, t[2]) /\ CommitOffset(p, t[2]) /\ pc = "commit"
    BY <1>3 DEF CommitBatch
  <2>2. <<p, t[2]>> \in batch
    BY <2>1 DEF LastOfBatch
  <2>3. \A q \in Partition : committed[q] <= committed'[q]
    BY <1>2, <2>1, <2>2
  <2> QED
    BY <1>3, <2>3 DEF CommitBatch
<1>4. CASE CommitInvalid
  BY <1>2, <1>4 DEF CommitInvalid
<1>5. CASE CommitRaises
  BY <1>2, <1>5 DEF CommitRaises
<1>6. CASE \/ Feed \/ Start \/ EnsureSchema \/ PollNone \/ Expire \/ TryInsert
           \/ InsertOk \/ InsertFails \/ Stop \/ Exit \/ Kill
           \/ \E p \in Partition : PollEvent(p) \/ PollMalformed(p)
  BY <1>6 DEF Feed, writerVars, Start, EnsureSchema, PollNone, Expire, TryInsert,
              InsertOk, InsertFails, Stop, Exit, Kill, PollEvent, PollMalformed
<1> QED
  BY <1>1, <1>3, <1>4, <1>5, <1>6 DEF Next, Run

(* Theorem: the committed offsets of the group never move back.            *)
THEOREM WriterCommitsForward == Spec => CommittedNeverRegresses
PROOF
<1>1. WriterInv /\ [Next]_vars => [\A p \in Partition : committed[p] <= committed'[p]]_vars
  <2>1. SUFFICES ASSUME WriterInv, [Next]_vars
                 PROVE  \A p \in Partition : committed[p] <= committed'[p]
    OBVIOUS
  <2>2. \A p \in Partition : committed[p] \in Nat
    BY <2>1 DEF WriterInv, WriterTypeOK
  <2> QED
    BY <2>1, <2>2, CommitStep
<1> QED
  BY <1>1, WriterInvariant, PTL DEF Spec, CommittedNeverRegresses

(* Theorem: the writer implements the at-least-once consumer: each of its  *)
(* steps settles offsets, commits settled offsets, or stutters.            *)
THEOREM WriterImplementsCommittedConsumer == Spec => ImplementsCommittedConsumer
PROOF
<1>1. Init => Abstract!Init
  BY DEF Init, TopicInit, WriterInit, Abstract!Init, Settled, Offsets
<1>2. ASSUME WriterInv, WriterInv', [Next]_vars
      PROVE  [Abstract!Next]_<<Settled, committed>>
  <2>1. \A p \in Partition : Settled[p] = {o \in Offsets(p) : Stored(p, o)}
    BY DEF Settled
  <2>2. \A p \in Partition : Settled'[p] = {o \in Offsets(p)' : Stored(p, o)'}
    BY DEF Settled
  <2>3. CASE UNCHANGED <<topicVars, table>> /\ \A p \in Partition : committed[p] <= committed'[p]
    <3>1. UNCHANGED Settled
      BY <2>3, SameTopic DEF Settled, Stored
    <3>2. ASSUME NEW p \in Partition
          PROVE  0 .. committed'[p] - 1 \subseteq Settled[p]
      <4>1. /\ committed'[p] \in Nat /\ committed'[p] <= Len(log'[p]) /\ Len(log'[p]) \in Nat
        BY <1>2 DEF WriterInv, WriterTypeOK, TopicTypeOK
      <4>2. \A o \in Offsets(p)' : o < committed'[p] => Stored(p, o)'
        BY <1>2 DEF WriterInv, NoLostTick
      <4>3. 0 .. committed'[p] - 1 \subseteq Settled'[p]
        BY <2>2, <4>1, <4>2 DEF Offsets
      <4> QED
        BY <3>1, <4>3
    <3> QED
      BY <2>3, <3>1, <3>2 DEF Abstract!Next, Abstract!Commit
  <2>4. CASE UNCHANGED committed
    <3>1. ASSUME NEW p \in Partition, NEW o \in Offsets(p), Stored(p, o)
          PROVE  o \in Offsets(p)' /\ Stored(p, o)'
      <4>1. /\ o \in Offsets(p)'
            /\ RecordAt(p, o)' = RecordAt(p, o)
        <5>1. CASE TopicNext
          BY <1>2, <3>1, <5>1, TopicAppends DEF WriterInv, WriterTypeOK
        <5>2. CASE UNCHANGED topicVars
          BY <3>1, <5>2, SameTopic
        <5>3. TopicNext \/ UNCHANGED topicVars
          BY <1>2 DEF Next, Run, vars, Feed, Start, EnsureSchema, PollNone, Expire, TryInsert,
             InsertOk, InsertFails, Stop, Exit, Kill, PollEvent, PollMalformed,
             CommitBatch, CommitInvalid, CommitRaises
        <5> QED
          BY <5>1, <5>2, <5>3
      <4>2. table \subseteq table'
        BY <1>2 DEF Next, Run, vars, writerVars, Feed, Start, EnsureSchema, PollNone, Expire, TryInsert,
           InsertOk, InsertFails, Stop, Exit, Kill, PollEvent, PollMalformed,
           CommitBatch, CommitInvalid, CommitRaises
      <4> QED
        BY <3>1, <4>1, <4>2 DEF Stored, IsEvent
    <3> QED
      BY <2>1, <2>2, <2>4, <3>1 DEF Abstract!Next, Abstract!Settle
  <2> QED
    BY <1>2, <2>3, <2>4, CommitStep
<1> QED
  BY <1>1, <1>2, WriterInvariant, PTL DEF Spec, ImplementsCommittedConsumer, Abstract!Spec
-----------------------------------------------------------------------------
(* Steps of the feed leave the table as it is, and the first records of a  *)
(* partition what they were.                                               *)
LEMMA FeedKeepsOrder ==
  ASSUME TopicTypeOK, StorageInv, TopicNext, UNCHANGED table
  PROVE  StorageInv'
PROOF
<1>1. TopicKeyed'
  BY KeyedStep DEF StorageInv
<1>2. ASSUME NEW p \in Partition
      PROVE  \E n \in 0 .. Len(log'[p]) : RowsOf(p)' = Events(p, n)'
  <2>1. PICK n \in 0 .. Len(log[p]) : RowsOf(p) = Events(p, n)
    BY DEF StorageInv, StoredInOrder
  <2>2. n \in 0 .. Len(log'[p]) /\ Events(p, n)' = Events(p, n)
    BY EventsStay
  <2>3. RowsOf(p)' = RowsOf(p)
    BY DEF RowsOf
  <2> QED
    BY <2>1, <2>2, <2>3
<1> QED
  BY <1>1, <1>2 DEF StorageInv, StoredInOrder

(* Whatever lies below a polled offset is a row after the insert, and what *)
(* is inserted lies below the polled offset.                               *)
LEMMA InsertKeepsOrder ==
  ASSUME WriterInv, StorageInv, InsertOk \/ InsertFails
  PROVE  StorageInv'
PROOF
<1>1. UNCHANGED topicVars /\ pc = "insert" /\ table' \in {table, table \cup Rows(batch)}
  BY DEF InsertOk, InsertFails
<1>2. /\ log' = log /\ \A p : Offsets(p)' = Offsets(p)
      /\ \A p, o : RecordAt(p, o)' = RecordAt(p, o) /\ (IsEvent(p, o)' <=> IsEvent(p, o))
  BY <1>1, SameTopic
<1>3. TopicKeyed'
  BY <1>2 DEF StorageInv, TopicKeyed
<1>4. \A p, n : Events(p, n)' = Events(p, n)
  BY <1>2 DEF Events
<1>5. ASSUME NEW t \in batch
      PROVE  /\ t[1] \in Partition /\ t[2] \in Offsets(t[1]) /\ t = <<t[1], t[2]>>
             /\ IsEvent(t[1], t[2]) /\ t[2] < position[t[1]]
             /\ PartitionOf[RecordAt(t[1], t[2]).symbol] = t[1]
  <2>1. /\ t[1] \in Partition /\ t[2] \in Nat /\ t[2] < position[t[1]] /\ IsEvent(t[1], t[2])
        /\ t = <<t[1], t[2]>>
    BY <1>5 DEF WriterInv, WriterTypeOK, InHand
  <2>2. /\ position[t[1]] \in Nat /\ Len(log[t[1]]) \in Nat
        /\ position[t[1]] <= Len(log[t[1]])
    BY <1>1, <2>1 DEF WriterInv, WriterTypeOK, PolledAccountedFor, TopicTypeOK
  <2>3. t[2] \in Offsets(t[1])
    BY <2>1, <2>2 DEF Offsets
  <2> QED
    BY <2>1, <2>3 DEF StorageInv, TopicKeyed
<1>6. ASSUME NEW p \in Partition
      PROVE  \E n \in 0 .. Len(log[p]) : RowsOf(p)' = Events(p, n)
  <2>1. PICK n \in 0 .. Len(log[p]) : RowsOf(p) = Events(p, n)
    BY DEF StorageInv, StoredInOrder
  <2>2. /\ position[p] \in Nat /\ Len(log[p]) \in Nat /\ n \in Nat
        /\ position[p] <= Len(log[p])
    BY <1>1 DEF WriterInv, WriterTypeOK, PolledAccountedFor, TopicTypeOK
  <2>3. CASE table' = table
    BY <2>1, <2>3 DEF RowsOf
  <2>4. CASE table' = table \cup Rows(batch)
    <3>1. ASSUME NEW row, row \in RowsOf(p)', row \notin RowsOf(p)
          PROVE  row \in Events(p, position[p])
      <4>1. row \in Rows(batch) /\ PartitionOf[row.symbol] = p
        BY <2>4, <3>1 DEF RowsOf
      <4>2. PICK t \in batch : row = RecordAt(t[1], t[2])
        BY <4>1 DEF Rows
      <4>3. t[1] = p
        BY <1>5, <4>1, <4>2
      <4>4. t[2] \in Offsets(p) /\ t[2] < position[p] /\ IsEvent(p, t[2]) /\ row = RecordAt(p, t[2])
        BY <1>5, <4>2, <4>3
      <4> QED
        BY <4>4 DEF Events
    <3>2. ASSUME NEW row, row \in Events(p, position[p])
          PROVE  row \in RowsOf(p)'
      <4>1. PICK o \in Offsets(p) : o < position[p] /\ IsEvent(p, o) /\ row = RecordAt(p, o)
        BY <3>2 DEF Events
      <4>2. Stored(p, o) \/ <<p, o>> \in batch
        BY <1>1, <4>1 DEF WriterInv, PolledAccountedFor
      <4>3. row \in table'
        BY <2>4, <4>1, <4>2 DEF Stored, Rows
      <4>4. PartitionOf[row.symbol] = p
        BY <4>1 DEF StorageInv, TopicKeyed
      <4> QED
        BY <4>3, <4>4 DEF RowsOf
    <3>3. RowsOf(p) \subseteq RowsOf(p)'
      BY <2>4 DEF RowsOf
    <3>4. \A o \in Offsets(p) : o \in Nat
      BY DEF Offsets
    <3>5. CASE position[p] <= n
      <4>1. Events(p, position[p]) \subseteq Events(p, n)
        BY <2>2, <3>4, <3>5 DEF Events
      <4>2. RowsOf(p)' = Events(p, n)
        BY <2>1, <3>1, <3>3, <4>1
      <4> QED
        BY <4>2
    <3>6. CASE n < position[p]
      <4>1. Events(p, n) \subseteq Events(p, position[p])
        BY <2>2, <3>4, <3>6 DEF Events
      <4>2. RowsOf(p)' = Events(p, position[p])
        BY <2>1, <3>1, <3>2, <4>1
      <4>3. position[p] \in 0 .. Len(log[p])
        BY <2>2
      <4> QED
        BY <4>2, <4>3
    <3> QED
      BY <2>2, <3>5, <3>6
  <2> QED
    BY <1>1, <2>3, <2>4
<1>7. StoredInOrder'
  BY <1>2, <1>4, <1>6 DEF StoredInOrder
<1> QED
  BY <1>3, <1>7 DEF StorageInv

(* The topic is keyed, and the table holds of every partition the first of *)
(* its events, whatever is retried, replayed or killed.                    *)
THEOREM WriterStorage == Spec => []StorageInv
PROOF
<1>1. ASSUME Init
      PROVE  StorageInv
  <2>1. \A p \in Partition : Offsets(p) = {} /\ Len(log[p]) = 0
    BY <1>1 DEF Init, TopicInit, Offsets
  <2>2. \A p \in Partition : RowsOf(p) = {} /\ Events(p, 0) = {}
    BY <1>1, <2>1 DEF Init, WriterInit, RowsOf, Events
  <2>3. \A p \in Partition : 0 \in 0 .. Len(log[p])
    BY <2>1
  <2>4. StoredInOrder
    BY <2>2, <2>3 DEF StoredInOrder
  <2> QED
    BY <2>1, <2>4 DEF StorageInv, TopicKeyed
<1>2. ASSUME WriterInv, StorageInv, [Next]_vars
      PROVE  StorageInv'
  <2>1. CASE TopicNext /\ UNCHANGED table
    BY <1>2, <2>1, FeedKeepsOrder DEF WriterInv, WriterTypeOK
  <2>2. CASE InsertOk \/ InsertFails
    BY <1>2, <2>2, InsertKeepsOrder
  <2>3. CASE UNCHANGED <<topicVars, table>>
    <3>1. \A p, n : Events(p, n)' = Events(p, n) /\ RowsOf(p)' = RowsOf(p)
      BY <2>3, SameTopic DEF Events, RowsOf
    <3> QED
      BY <1>2, <2>3, <3>1, SameTopic DEF StorageInv, TopicKeyed, StoredInOrder
  <2> QED
    BY <1>2, <2>1, <2>2, <2>3 DEF Next, Run, vars, writerVars, Feed, Start, EnsureSchema, PollNone,
       Expire, TryInsert, Stop, Exit, Kill, PollEvent, PollMalformed, CommitBatch,
       CommitInvalid, CommitRaises
<1> QED
  BY <1>1, <1>2, WriterInvariant, PTL DEF Spec

(* market_ticks never has a hole.                                          *)
THEOREM TicksStoredInOrder == Spec => []StoredInOrder
PROOF
<1>1. StorageInv => StoredInOrder
  BY DEF StorageInv
<1> QED
  BY <1>1, WriterStorage, PTL
-----------------------------------------------------------------------------
(* Adding a record to what is in hand.                                     *)
LEMMA OneMoreInHand ==
  ASSUME NEW S, IsFiniteSet(S), NEW x
  PROVE  /\ IsFiniteSet(S \cup {x}) /\ Cardinality(S \cup {x}) \in Nat /\ Cardinality(S) \in Nat
         /\ Cardinality(S \cup {x}) <= Cardinality(S) + 1
PROOF
<1>1. Cardinality(S) \in Nat
  BY FS_CardinalityType
<1>2. /\ IsFiniteSet(S \cup {x})
      /\ Cardinality(S \cup {x}) = IF x \in S THEN Cardinality(S) ELSE Cardinality(S) + 1
  BY FS_AddElement
<1>3. Cardinality(S \cup {x}) = Cardinality(S) \/ Cardinality(S \cup {x}) = Cardinality(S) + 1
  BY <1>2
<1> QED
  BY <1>1, <1>2, <1>3

(* What is in hand is finite.                                              *)
LEMMA InHandFinite ==
  ASSUME ReplayInv
  PROVE  IsFiniteSet(batch \cup invalid)
PROOF
<1>1. invalid = {} \/ \E t : invalid = {t}
  BY DEF ReplayInv, WriterInv, InHand
<1>2. CASE invalid = {}
  <2>1. batch \cup invalid = batch
    BY <1>2
  <2> QED
    BY <2>1 DEF ReplayInv
<1>3. CASE \E t : invalid = {t}
  <2>1. PICK t : invalid = {t}
    BY <1>3
  <2>2. IsFiniteSet(batch \cup {t})
    BY OneMoreInHand DEF ReplayInv
  <2> QED
    BY <2>1, <2>2
<1> QED
  BY <1>1, <1>2, <1>3

(* The bounds of the batch, kept by steps that take nothing in.            *)
LEMMA ReplayQuiet ==
  ASSUME ReplayInv, WriterInv',
         batch' \subseteq batch, invalid' \subseteq invalid,
         pc' = "poll" => pc = "poll" \/ batch' = {},
         pc' # "down" => \A p \in Partition : \A o \in committed'[p] .. position'[p] - 1 :
           <<p, o>> \in batch' \cup invalid'
  PROVE  ReplayInv'
PROOF
<1>1. IsFiniteSet(batch') /\ Cardinality(batch') <= Cardinality(batch)
  BY FS_Subset DEF ReplayInv
<1>2. IsFiniteSet(batch \cup invalid)
  BY InHandFinite
<1>3. /\ IsFiniteSet(batch' \cup invalid')
      /\ Cardinality(batch' \cup invalid') <= Cardinality(batch \cup invalid)
  <2>1. batch' \cup invalid' \in SUBSET (batch \cup invalid)
    OBVIOUS
  <2> QED
    BY <1>2, <2>1, FS_Subset
<1>4. /\ Cardinality(batch') \in Nat /\ Cardinality(batch) \in Nat
      /\ Cardinality(batch' \cup invalid') \in Nat /\ Cardinality(batch \cup invalid) \in Nat
      /\ BatchMax \in Nat \ {0}
  BY <1>1, <1>2, <1>3, FS_CardinalityType, WriterAssumption DEF ReplayInv
<1>5. Cardinality(batch' \cup invalid') <= BatchMax
  BY <1>3, <1>4 DEF ReplayInv
<1>6. pc' = "poll" => Cardinality(batch') < BatchMax
  <2>1. CASE pc = "poll"
    BY <1>1, <1>4, <2>1 DEF ReplayInv
  <2>2. CASE batch' = {}
    <3>1. Cardinality(batch') = 0
      BY <2>2, FS_EmptySet
    <3> QED
      BY <1>4, <3>1
  <2> QED
    BY <2>1, <2>2
<1> QED
  BY <1>1, <1>5, <1>6 DEF ReplayInv

(* A polled record joins the batch or is the malformed one in hand.        *)
LEMMA ReplayPoll ==
  ASSUME ReplayInv, WriterInv', NEW p \in Partition, PollEvent(p) \/ PollMalformed(p)
  PROVE  ReplayInv'
PROOF
<1> DEFINE t == <<p, position[p]>>
<1>1. /\ pc = "poll" /\ invalid = {} /\ IsFiniteSet(batch) /\ Cardinality(batch) < BatchMax
      /\ BatchMax \in Nat \ {0}
      /\ UNCHANGED committed /\ position' = [position EXCEPT ![p] = @ + 1]
      /\ position \in [Partition -> Nat] /\ committed \in [Partition -> Nat]
  BY WriterAssumption
  DEF ReplayInv, WriterInv, WriterTypeOK, ByPlace, PollEvent, PollMalformed
<1>2. \/ batch' = batch \cup {t} /\ invalid' = {} /\ pc' = (IF ShouldFlush(batch') THEN "flush" ELSE "poll")
      \/ batch' = batch /\ invalid' = {t} /\ pc' # "poll"
  BY <1>1 DEF PollEvent, PollMalformed
<1> HIDE DEF t
<1>3. batch' \cup invalid' = batch \cup {t}
  BY <1>2
<1>4. /\ IsFiniteSet(batch \cup {t}) /\ Cardinality(batch \cup {t}) \in Nat /\ Cardinality(batch) \in Nat
      /\ Cardinality(batch \cup {t}) <= Cardinality(batch) + 1
  BY <1>1, OneMoreInHand
<1>5. Cardinality(batch' \cup invalid') <= BatchMax
  <2>1. Cardinality(batch \cup {t}) <= BatchMax
    BY <1>1, <1>4
  <2> QED
    BY <1>3, <2>1
<1>6. IsFiniteSet(batch')
  BY <1>1, <1>2, <1>4
<1>7. pc' = "poll" => Cardinality(batch') < BatchMax
  <2>1. SUFFICES ASSUME pc' = "poll" PROVE Cardinality(batch') < BatchMax
    OBVIOUS
  <2>2. batch' = batch \cup {t} /\ ~(Cardinality(batch') >= BatchMax)
    BY <1>2, <2>1 DEF ShouldFlush
  <2>3. Cardinality(batch') \in Nat
    BY <1>4, <2>2
  <2> QED
    BY <1>1, <2>2, <2>3
<1>8. \A q \in Partition : \A o \in committed'[q] .. position'[q] - 1 :
        <<q, o>> \in batch' \cup invalid'
  <2>1. SUFFICES ASSUME NEW q \in Partition, NEW o \in committed[q] .. position'[q] - 1
                 PROVE  <<q, o>> \in batch \cup {t}
    BY <1>1, <1>3
  <2>2. CASE o \in committed[q] .. position[q] - 1
    BY <1>1, <2>2 DEF ReplayInv
  <2>3. CASE o \notin committed[q] .. position[q] - 1
    <3>1. q = p /\ o = position[p]
      BY <1>1, <2>1, <2>3
    <3> QED
      BY <3>1 DEF t
  <2> QED
    BY <2>2, <2>3
<1> QED
  BY <1>5, <1>6, <1>7, <1>8 DEF ReplayInv

(* A commit forgets what it commits past, and no more.                     *)
LEMMA ReplayCommit ==
  ASSUME ReplayInv, WriterInv', CommitInvalid \/ \E p \in Partition : CommitBatch(p)
  PROVE  ReplayInv'
PROOF
<1>1. /\ position \in [Partition -> Nat] /\ committed \in [Partition -> Nat]
      /\ batch \subseteq Partition \X Nat /\ invalid \subseteq Partition \X Nat
      /\ UNCHANGED position /\ pc # "down"
      /\ \A t \in batch \cup invalid : committed[t[1]] <= t[2]
  BY DEF ReplayInv, WriterInv, WriterTypeOK, InHand, CommitInvalid, CommitBatch
<1>2. \A q \in Partition : \A o \in committed[q] .. position[q] - 1 :
        <<q, o>> \in batch \cup invalid
  BY <1>1 DEF ReplayInv
<1>3. ASSUME NEW p \in Partition, NEW n \in Nat, CommitOffset(p, n), committed[p] <= n,
             \A u \in (batch \cup invalid) \ (batch' \cup invalid') : u[1] = p /\ u[2] <= n
      PROVE  \A q \in Partition : \A o \in committed'[q] .. position'[q] - 1 :
               <<q, o>> \in batch' \cup invalid'
  <2>1. committed'[p] = n + 1 /\ \A q \in Partition : q # p => committed'[q] = committed[q]
    BY <1>1, <1>3 DEF CommitOffset
  <2>2. SUFFICES ASSUME NEW q \in Partition, NEW o \in committed'[q] .. position[q] - 1
                 PROVE  <<q, o>> \in batch' \cup invalid'
    BY <1>1
  <2>3. o \in committed[q] .. position[q] - 1 /\ (q = p => n < o)
    BY <1>1, <1>3, <2>1
  <2>4. <<q, o>> \in batch \cup invalid
    BY <1>2, <2>3
  <2>5. ~(<<q, o>>[1] = p /\ <<q, o>>[2] <= n)
    BY <1>3, <2>3
  <2> QED
    BY <1>3, <2>4, <2>5
<1>4. CASE CommitInvalid
  <2>1. /\ batch = {} /\ batch' = {} /\ invalid' = {}
        /\ \A t, u \in invalid : t = u
    BY <1>4 DEF CommitInvalid, ReplayInv, WriterInv, ByPlace, InHand
  <2>2. PICK t \in invalid : CommitOffset(t[1], t[2])
    BY <1>4 DEF CommitInvalid
  <2>3. t[1] \in Partition /\ t[2] \in Nat /\ committed[t[1]] <= t[2]
    BY <1>1
  <2>4. \A u \in (batch \cup invalid) \ (batch' \cup invalid') : u[1] = t[1] /\ u[2] <= t[2]
    BY <2>1, <2>3
  <2>5. \A q \in Partition : \A o \in committed'[q] .. position'[q] - 1 :
          <<q, o>> \in batch' \cup invalid'
    BY <1>3, <2>2, <2>3, <2>4
  <2> QED
    BY <2>1, <2>5, ReplayQuiet
<1>5. ASSUME NEW p \in Partition, CommitBatch(p)
      PROVE  ReplayInv'
  <2>1. /\ batch' = {t \in batch : t[1] # p} /\ invalid' = invalid
        /\ pc' = "poll" => batch' = {}
    BY <1>5 DEF CommitBatch
  <2>2. PICK n \in {t[2] : t \in batch} : LastOfBatch(p, n) /\ CommitOffset(p, n)
    BY <1>5 DEF CommitBatch
  <2>3. /\ n \in Nat /\ <<p, n>> \in batch
        /\ \A t \in batch : t[1] = p => t[2] <= n
    BY <1>1, <2>2 DEF LastOfBatch
  <2>4. committed[p] <= n
    BY <1>1, <2>3
  <2>5. \A u \in (batch \cup invalid) \ (batch' \cup invalid') : u[1] = p /\ u[2] <= n
    BY <2>1, <2>3
  <2>6. \A q \in Partition : \A o \in committed'[q] .. position'[q] - 1 :
          <<q, o>> \in batch' \cup invalid'
    BY <1>3, <2>2, <2>3, <2>4, <2>5
  <2> QED
    BY <2>1, <2>6, ReplayQuiet
<1> QED
  BY <1>4, <1>5

(* Theorem: between commits the batch and one malformed message are all    *)
(* that is polled, and they are no more than a batch.                      *)
THEOREM WriterReplayInvariant == Spec => []ReplayInv
PROOF
<1>1. Init => ReplayInv
  <2>1. SUFFICES ASSUME Init PROVE ReplayInv
    OBVIOUS
  <2>2. WriterInv
    BY <2>1, WriterInitInv
  <2>3. batch = {} /\ batch \cup invalid = {} /\ pc = "down"
    BY <2>1 DEF Init, WriterInit
  <2>4. IsFiniteSet(batch) /\ Cardinality(batch \cup invalid) = 0
    BY <2>3, FS_EmptySet
  <2> QED
    BY <2>2, <2>3, <2>4, WriterAssumption DEF ReplayInv
<1>2. ReplayInv /\ [Next]_vars => ReplayInv'
  <2>1. SUFFICES ASSUME ReplayInv, [Next]_vars PROVE ReplayInv'
    OBVIOUS
  <2>2. WriterInv'
    BY <2>1, WriterNextInv DEF ReplayInv
  <2>3. CASE /\ UNCHANGED <<committed, position, batch, invalid>>
             /\ pc' # "down" => pc # "down"
             /\ pc' = "poll" => pc = "poll" \/ batch' = {}
    <3>1. pc' # "down" => \A p \in Partition : \A o \in committed'[p] .. position'[p] - 1 :
                            <<p, o>> \in batch' \cup invalid'
      BY <2>1, <2>3 DEF ReplayInv
    <3> QED
      BY <2>1, <2>2, <2>3, <3>1, ReplayQuiet
  <2>4. CASE \/ UNCHANGED vars \/ Feed \/ EnsureSchema \/ PollNone \/ Expire \/ TryInsert
             \/ InsertOk \/ InsertFails \/ Stop
    <3>1. pc = "schema" => batch = {}
      BY <2>1 DEF ReplayInv, WriterInv, ByPlace
    <3>2. /\ UNCHANGED <<committed, position, batch, invalid>>
          /\ pc' # "down" => pc # "down"
          /\ pc' = "poll" => pc = "poll" \/ batch' = {}
      BY <2>4, <3>1 DEF vars, writerVars, Feed, EnsureSchema, PollNone, Expire, TryInsert,
         InsertOk, InsertFails, Stop
    <3> QED
      BY <2>3, <3>2
  <2>5. CASE Start
    <3>1. /\ batch' = batch /\ invalid' = invalid /\ pc' = "schema"
          /\ position' = committed /\ committed' = committed
      BY <2>5 DEF Start
    <3>2. \A p \in Partition : committed[p] \in Nat
      BY <2>1 DEF ReplayInv, WriterInv, WriterTypeOK
    <3>3. \A p \in Partition : committed'[p] .. position'[p] - 1 = {}
      BY <3>1, <3>2
    <3> QED
      BY <2>1, <2>2, <3>1, <3>3, ReplayQuiet
  <2>6. CASE CommitRaises \/ Exit \/ Kill
    <3>1. batch' = {} /\ invalid' = {} /\ pc' = "down"
      BY <2>6 DEF CommitRaises, Exit, Kill, Down
    <3> QED
      BY <2>1, <2>2, <3>1, ReplayQuiet
  <2>7. ASSUME NEW p \in Partition, PollEvent(p) \/ PollMalformed(p) PROVE ReplayInv'
    BY <2>1, <2>2, <2>7, ReplayPoll
  <2>8. CASE CommitInvalid \/ \E p \in Partition : CommitBatch(p)
    BY <2>1, <2>2, <2>8, ReplayCommit
  <2> QED
    BY <2>1, <2>4, <2>5, <2>6, <2>7, <2>8 DEF Next, Run
<1> QED
  BY <1>1, <1>2, PTL DEF Spec

(* Theorem: a crash makes Kafka deliver at most one batch again.           *)
THEOREM WriterBoundedReplay == Spec => []BoundedReplay
PROOF
<1>1. ASSUME ReplayInv, pc # "down" PROVE Cardinality(Uncommitted) <= BatchMax
  <2>1. Uncommitted \subseteq batch \cup invalid
    <3>1. SUFFICES ASSUME NEW t \in Uncommitted PROVE t \in batch \cup invalid
      OBVIOUS
    <3>2. /\ t = <<t[1], t[2]>> /\ t[1] \in Partition
          /\ t[2] \in committed[t[1]] .. position[t[1]] - 1
      BY DEF Uncommitted
    <3> QED
      BY <1>1, <3>2 DEF ReplayInv
  <2>2. IsFiniteSet(batch \cup invalid)
    BY <1>1, InHandFinite
  <2>3. /\ IsFiniteSet(Uncommitted)
        /\ Cardinality(Uncommitted) <= Cardinality(batch \cup invalid)
    BY <2>1, <2>2, FS_Subset
  <2>4. /\ Cardinality(Uncommitted) \in Nat /\ Cardinality(batch \cup invalid) \in Nat
        /\ BatchMax \in Nat /\ Cardinality(batch \cup invalid) <= BatchMax
    BY <1>1, <2>2, <2>3, FS_CardinalityType, WriterAssumption DEF ReplayInv
  <2> QED
    BY <2>3, <2>4
<1>2. ReplayInv => BoundedReplay
  BY <1>1 DEF BoundedReplay
<1> QED
  BY <1>2, WriterReplayInvariant, PTL
=============================================================================
