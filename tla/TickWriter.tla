----------------------------- MODULE TickWriter -----------------------------
(***************************************************************************)
(* TickWriter: the Kafka consumer that stores every tick in TimescaleDB.   *)
(*                                                                         *)
(* One task polls, collects a batch, inserts it with retries and only then *)
(* commits the batch's highest offset of each partition.  A malformed      *)
(* record flushes the batch before it is committed past.  stop() may come  *)
(* at any point, the process may be killed at any point, an insert may     *)
(* fail after it took effect, and a commit may raise after it took effect. *)
(***************************************************************************)
EXTENDS MarketTopic

CONSTANTS
  BatchMax,   \* batch_max_size
  MaxHalts    \* bound: stops, kills and raised commits

ASSUME WriterAssumption == BatchMax \in Nat \ {0} /\ MaxHalts \in Nat

VARIABLES
  pc,         \* where run() is
  position,   \* the consumer's next offset, per partition
  committed,  \* the group's committed offset; 0 is "auto.offset.reset" earliest
  batch,      \* the <<partition, offset>> of the ConsumedTicks in batch
  expired,    \* _batch_expired(batch_started)
  invalid,    \* the malformed message being handled: {} or {<<p, o>>}
  stopped,    \* self._stop
  table,      \* the rows of market_ticks
  halts

procVars   == <<pc, batch, expired, invalid, stopped>>
writerVars == <<pc, position, committed, batch, expired, invalid, stopped, table, halts>>
vars       == <<topicVars, writerVars>>

WriterTypeOK ==
  /\ TopicTypeOK
  /\ pc \in {"down", "schema", "poll", "flush", "insert", "commit", "skip"}
  /\ position \in [Partition -> Nat]
  /\ committed \in [Partition -> Nat]
  /\ batch \subseteq Partition \X Nat
  /\ expired \in BOOLEAN
  /\ invalid \subseteq Partition \X Nat
  /\ stopped \in BOOLEAN
  /\ table \subseteq Record
  /\ halts \in Nat

WriterInit ==
  /\ pc = "down"
  /\ position = [p \in Partition |-> 0]
  /\ committed = [p \in Partition |-> 0]
  /\ batch = {}
  /\ expired = FALSE
  /\ invalid = {}
  /\ stopped = FALSE
  /\ table = {}
  /\ halts = 0

Init == TopicInit /\ WriterInit
-----------------------------------------------------------------------------
(* A new process: schema first, then a consumer at the committed offsets.  *)
Start ==
  /\ pc = "down"
  /\ pc' = "schema"
  /\ position' = committed
  /\ UNCHANGED <<topicVars, committed, batch, expired, invalid, stopped, table, halts>>

(* The process is gone, and with it the batch and the stop flag.           *)
Down ==
  /\ pc' = "down"
  /\ batch' = {}
  /\ expired' = FALSE
  /\ invalid' = {}
  /\ stopped' = FALSE

(* _ensure_schema_with_retry returns once the schema is there; a failed    *)
(* attempt changes nothing.                                                *)
EnsureSchema ==
  /\ pc = "schema" /\ ~stopped
  /\ pc' = "poll"
  /\ UNCHANGED <<topicVars, position, committed, batch, expired, invalid, stopped, table, halts>>

(* A row stands for its key (symbol, seq, event_time), which an event      *)
(* shares with its duplicates: of those, ON CONFLICT keeps the first.      *)
Rows(b) == {RecordAt(t[1], t[2]) : t \in b}

(* Mutant: an off-by-one in the batch limit.                               *)
ShouldFlushLate(b) == Cardinality(b) > BatchMax \/ expired

ShouldFlush(b) == Cardinality(b) >= BatchMax \/ expired

(* poll() returns a record: an event joins the batch, which is flushed     *)
(* when it is full or overdue; a malformed one is handled at once, after   *)
(* the batch.                                                              *)
PollEvent(p) ==
  LET b == batch \cup {<<p, position[p]>>} IN
  /\ pc = "poll" /\ ~stopped
  /\ position[p] \in Offsets(p) /\ IsEvent(p, position[p])
  /\ position' = [position EXCEPT ![p] = @ + 1]
  /\ batch' = b
  /\ pc' = IF ShouldFlush(b) THEN "flush" ELSE "poll"
  /\ UNCHANGED <<topicVars, committed, expired, invalid, stopped, table, halts>>

(* Mutant: the malformed message is committed past before the batch is     *)
(* flushed.                                                                *)
PollMalformedSkipsFlush(p) ==
  /\ pc = "poll" /\ ~stopped
  /\ position[p] \in Offsets(p) /\ ~IsEvent(p, position[p])
  /\ position' = [position EXCEPT ![p] = @ + 1]
  /\ invalid' = {<<p, position[p]>>}
  /\ pc' = "skip"
  /\ UNCHANGED <<topicVars, committed, batch, expired, stopped, table, halts>>

PollMalformed(p) ==
  /\ pc = "poll" /\ ~stopped
  /\ position[p] \in Offsets(p) /\ ~IsEvent(p, position[p])
  /\ position' = [position EXCEPT ![p] = @ + 1]
  /\ invalid' = {<<p, position[p]>>}
  /\ pc' = IF batch = {} THEN "skip" ELSE "flush"
  /\ UNCHANGED <<topicVars, committed, batch, expired, stopped, table, halts>>

(* Mutant: a poll that times out never flushes.                            *)
PollNoneNeverFlushes ==
  /\ pc = "poll" /\ ~stopped
  /\ UNCHANGED vars

(* poll() times out: an overdue batch is flushed.                          *)
PollNone ==
  /\ pc = "poll" /\ ~stopped
  /\ pc' = IF batch # {} /\ expired THEN "flush" ELSE "poll"
  /\ UNCHANGED <<topicVars, position, committed, batch, expired, invalid, stopped, table, halts>>

(* Time passes: batch_max_latency_ms since the batch got its first tick.   *)
Expire ==
  /\ pc = "poll" /\ batch # {} /\ ~expired
  /\ expired' = TRUE
  /\ UNCHANGED <<topicVars, pc, position, committed, batch, invalid, stopped, table, halts>>

(* Mutant: the loop of _flush does not look at the stop flag.              *)
TryInsertForEver ==
  /\ pc = "flush"
  /\ pc' = "insert"
  /\ UNCHANGED <<topicVars, position, committed, batch, expired, invalid, stopped, table, halts>>

(* The loop of _flush goes round unless stop() was called.                 *)
TryInsert ==
  /\ pc = "flush" /\ ~stopped
  /\ pc' = "insert"
  /\ UNCHANGED <<topicVars, position, committed, batch, expired, invalid, stopped, table, halts>>

(* One INSERT ... ON CONFLICT DO NOTHING for the whole batch.              *)
InsertOk ==
  /\ pc = "insert"
  /\ table' = table \cup Rows(batch)
  /\ pc' = "commit"
  /\ UNCHANGED <<topicVars, position, committed, batch, expired, invalid, stopped, halts>>

(* Mutant: the exception of insert_ticks is logged and not retried.        *)
InsertFailsAndGoesOn ==
  /\ pc = "insert"
  /\ table' \in {table, table \cup Rows(batch)}
  /\ pc' = "commit"
  /\ UNCHANGED <<topicVars, position, committed, batch, expired, invalid, stopped, halts>>

(* insert_ticks raises or times out, before or after it took effect.       *)
InsertFails ==
  /\ pc = "insert"
  /\ table' \in {table, table \cup Rows(batch)}
  /\ pc' = "flush"
  /\ UNCHANGED <<topicVars, position, committed, batch, expired, invalid, stopped, halts>>

LastOfBatch(p, o) ==
  /\ <<p, o>> \in batch
  /\ \A t \in batch : t[1] = p => t[2] <= o

(* _commit_batch: one synchronous commit per partition of the batch.  The  *)
(* last one ends _flush, and the batch with it.                            *)
CommitOffset(p, o) == committed' = [committed EXCEPT ![p] = o + 1]

CommitBatch(p) ==
  LET rest == {t \in batch : t[1] # p} IN
  /\ pc = "commit"
  /\ \E o \in {t[2] : t \in batch} : LastOfBatch(p, o) /\ CommitOffset(p, o)
  /\ batch' = rest
  /\ expired' = IF rest = {} THEN FALSE ELSE expired
  /\ pc' = IF rest # {} THEN "commit" ELSE IF invalid # {} THEN "skip" ELSE "poll"
  /\ UNCHANGED <<topicVars, position, invalid, stopped, table, halts>>

(* _handle_invalid_message commits past the malformed message.             *)
CommitInvalid ==
  /\ pc = "skip"
  /\ \E t \in invalid : CommitOffset(t[1], t[2])
  /\ invalid' = {}
  /\ pc' = "poll"
  /\ UNCHANGED <<topicVars, position, batch, expired, stopped, table, halts>>

(* commit() raises, the broker having applied it or not.  Nothing catches  *)
(* it: run() ends.                                                         *)
CommitRaises ==
  /\ pc \in {"commit", "skip"}
  /\ halts < MaxHalts
  /\ \/ UNCHANGED committed
     \/ /\ pc = "commit"
        /\ \E t \in batch : LastOfBatch(t[1], t[2]) /\ CommitOffset(t[1], t[2])
     \/ /\ pc = "skip"
        /\ \E t \in invalid : CommitOffset(t[1], t[2])
  /\ Down
  /\ halts' = halts + 1
  /\ UNCHANGED <<topicVars, position, table>>

(* stop() from outside, and the places where run() notices it.  The        *)
(* partial batch is left uncommitted.                                      *)
Stop ==
  /\ pc # "down" /\ ~stopped
  /\ halts < MaxHalts
  /\ stopped' = TRUE
  /\ halts' = halts + 1
  /\ UNCHANGED <<topicVars, pc, position, committed, batch, expired, invalid, table>>

Exit ==
  /\ stopped
  /\ pc \in {"schema", "poll", "flush"}
  /\ Down
  /\ UNCHANGED <<topicVars, position, committed, table, halts>>

Kill ==
  /\ pc # "down"
  /\ halts < MaxHalts
  /\ Down
  /\ halts' = halts + 1
  /\ UNCHANGED <<topicVars, position, committed, table>>

(* The topic grows.                                                        *)
Feed == TopicNext /\ UNCHANGED writerVars

(* What the task does, and what is done to it.                             *)
Run ==
  \/ Start
  \/ EnsureSchema
  \/ \E p \in Partition : PollEvent(p) \/ PollMalformed(p)
  \/ PollNone
  \/ Expire
  \/ TryInsert
  \/ InsertOk
  \/ InsertFails
  \/ \E p \in Partition : CommitBatch(p)
  \/ CommitInvalid
  \/ CommitRaises
  \/ Stop
  \/ Exit
  \/ Kill

Next == Feed \/ Run

Spec == Init /\ [][Next]_vars

(* The task's own steps happen: run() is a loop with no condition variable *)
(* to miss, every await has a timeout, and a stopped writer is restarted.  *)
Progress ==
  /\ WF_vars(Start)
  /\ WF_vars(Expire) /\ WF_vars(PollNone)
  /\ \A p \in Partition : WF_vars(PollEvent(p)) /\ WF_vars(PollMalformed(p))
  /\ WF_vars(TryInsert) /\ WF_vars(InsertOk \/ InsertFails)
  /\ WF_vars(\E p \in Partition : CommitBatch(p)) /\ WF_vars(CommitInvalid)
  /\ WF_vars(Exit)

(* The database may stay down for ever ...                                 *)
FairSpec == Spec /\ Progress

(* ... or else what it is asked again and again succeeds at last.  This    *)
(* leaves out a batch that the database can never accept, which _flush     *)
(* would insert again for ever.                                            *)
DatabaseRecovers == WF_vars(EnsureSchema) /\ SF_vars(InsertOk)
-----------------------------------------------------------------------------
Stored(p, o) == IsEvent(p, o) => RecordAt(p, o) \in table

(* No tick is lost: whatever stop, kill, insert or commit failure happens, *)
(* an offset is committed only when every event below it is a row of       *)
(* market_ticks (_flush inserts, then _commit_batch commits).              *)
NoLostTick ==
  \A p \in Partition : \A o \in Offsets(p) : o < committed[p] => Stored(p, o)

RowsOf(p) == {row \in table : PartitionOf[row.symbol] = p}

(* The table has no holes: what it holds of a partition are the events of  *)
(* the first so many records of the topic, whatever is inserted again      *)
(* after a failure, so that a reader of market_ticks never meets a tick    *)
(* whose forerunners in the topic are missing.                             *)
StoredInOrder ==
  \A p \in Partition : \E n \in 0 .. Len(log[p]) : RowsOf(p) = Events(p, n)

(* Why it has none, besides WriterInv: the rows of a symbol come from one  *)
(* partition.                                                              *)
StorageInv == TopicKeyed /\ StoredInOrder

(* Every record taken from Kafka by this process is settled or in hand.    *)
PolledAccountedFor ==
  pc # "down" => \A p \in Partition :
    /\ committed[p] <= position[p] /\ position[p] <= Len(log[p])
    /\ \A o \in Offsets(p) : o < position[p] => (Stored(p, o) \/ <<p, o>> \in batch)

(* What is in hand is ahead of the commits, and a malformed message is     *)
(* behind the events of its partition.                                     *)
InHand ==
  /\ \A t \in batch \cup invalid :
       committed[t[1]] <= t[2] /\ t[2] < position[t[1]]
  /\ \A t \in batch : IsEvent(t[1], t[2])
  /\ \A t \in batch : \A u \in invalid : t[1] = u[1] => t[2] < u[2]
  /\ \A t, u \in invalid : t = u

(* What each place of run() knows of the batch.                            *)
ByPlace ==
  /\ pc \in {"down", "schema", "poll"} => invalid = {}
  /\ pc \in {"down", "schema", "skip"} => batch = {}
  /\ pc = "commit" => Rows(batch) \subseteq table

(* The inductive invariant: commits stay inside the topic, no tick is      *)
(* lost, and run() never loses track of a record it polled.                *)
WriterInv ==
  /\ WriterTypeOK
  /\ \A p \in Partition : committed[p] <= Len(log[p])
  /\ NoLostTick
  /\ PolledAccountedFor
  /\ InHand
  /\ ByPlace

(* The group never moves back: no commit of a batch or of a malformed      *)
(* message undoes a later one, in whichever order the partitions of a      *)
(* batch are committed.                                                    *)
CommittedNeverRegresses ==
  [][\A p \in Partition : committed[p] <= committed'[p]]_vars

Uncommitted == {t \in Partition \X (0 .. MaxLog) : t[2] \in committed[t[1]] .. position[t[1]] - 1}

(* What a crash makes Kafka deliver again is bounded by one batch, the     *)
(* malformed message behind an incomplete one included: _should_flush and  *)
(* _handle_invalid_message leave nothing else uncommitted, in any of the   *)
(* partitions together, while the loop goes round.                         *)
BoundedReplay == pc # "down" => Cardinality(Uncommitted) <= BatchMax

(* Why: between commits run() has in hand whatever it polled beyond them,  *)
(* and it polls only while the batch has room.                             *)
ReplayInv ==
  /\ WriterInv
  /\ IsFiniteSet(batch)
  /\ Cardinality(batch \cup invalid) <= BatchMax
  /\ pc = "poll" => Cardinality(batch) < BatchMax
  /\ pc # "down" => \A p \in Partition : \A o \in committed[p] .. position[p] - 1 :
       <<p, o>> \in batch \cup invalid

(* With a database that recovers, and accepts every batch at last, every   *)
(* event of the topic becomes a row, and its offset is committed: neither  *)
(* a busy topic nor an idle one keeps an incomplete batch in memory.       *)
EventuallyStored == DatabaseRecovers =>
  \A p \in Partition : \A o \in 0 .. MaxLog - 1 :
    (o \in Offsets(p)) ~> (committed[p] > o /\ Stored(p, o))

(* stop() ends run() even when the database never answers again: the retry *)
(* loops look at the flag.                                                 *)
StopTerminates == stopped ~> pc = "down"

(* The writer keeps the at-least-once promise of CommittedConsumer.        *)
Settled == [p \in Partition |->
  {o \in Offsets(p) : Stored(p, o)}]

Abstract == INSTANCE CommittedConsumer WITH settled <- Settled

ImplementsCommittedConsumer == Abstract!Spec
=============================================================================
