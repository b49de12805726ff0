------------------------- MODULE DistributionEngine -------------------------
(***************************************************************************)
(* DistributionEngine and its KafkaConsumerBridge.                         *)
(*                                                                         *)
(* A thread polls Kafka, hands each event to the asyncio loop through a    *)
(* bounded queue and commits what the loop has acknowledged.  The loop     *)
(* takes one event at a time, writes the Redis snapshot, publishes the     *)
(* event and acknowledges it, retrying both Redis calls together.  An      *)
(* event is identified by its <<partition, offset>>; a snapshot by the     *)
(* offset of the event it was taken from.                                  *)
(***************************************************************************)
EXTENDS MarketTopic, Integers

CONSTANTS
  QueueMax,   \* asyncio.Queue(maxsize=10000)
  MaxHalts    \* bound: shutdowns, interrupts and kills

ASSUME EngineAssumption == QueueMax \in Nat \ {0} /\ MaxHalts \in Nat

NoOffset == -1   \* no commit yet, no dictionary entry, no snapshot

VARIABLES
  committed,   \* the group's committed offset at the broker
  position,    \* the consumer's next offset
  nextCommit,  \* _next_commit_offsets
  pending,     \* the offsets in _pending_acknowledgements
  acks,        \* _acknowledgements, drained as a whole
  queue,       \* _queue
  hand,        \* the event in _handoff: {} or {<<p, o>>}
  current,     \* the event in process_consumed_event
  tpc, ppc,    \* where the consumer thread and run() are
  shutdown,    \* DistributionEngine._shutdown
  stop,        \* _stop_event
  snapshot,    \* Redis: the event each symbol's snapshot shows
  published,   \* Redis: the event last published on each symbol's channel
  done,        \* history: offsets whose update and publish both succeeded
  skipped,     \* history: offsets that "auto.offset.reset" latest jumped over
  halts

threadVars == <<position, nextCommit, pending, hand>>
redisVars  == <<snapshot, published>>
engineVars == <<committed, threadVars, acks, queue, current, tpc, ppc, shutdown,
                stop, redisVars, done, skipped, halts>>
vars       == <<topicVars, engineVars>>

Item == Partition \X Nat

EngineTypeOK ==
  /\ TopicTypeOK
  /\ committed \in [Partition -> Nat \cup {NoOffset}]
  /\ position \in [Partition -> Nat]
  /\ nextCommit \in [Partition -> Nat \cup {NoOffset}]
  /\ pending \in [Partition -> SUBSET Nat]
  /\ acks \subseteq Item
  /\ queue \in Seq(Item)
  /\ hand \subseteq Item
  /\ current \subseteq Item
  /\ tpc \in {"down", "loop", "poll", "handoff", "final", "stopped"}
  /\ ppc \in {"down", "get", "update", "publish", "returned"}
  /\ shutdown \in BOOLEAN
  /\ stop \in BOOLEAN
  /\ snapshot \in [Symbol -> Nat \cup {NoOffset}]
  /\ published \in [Symbol -> Nat \cup {NoOffset}]
  /\ done \in [Partition -> SUBSET Nat]
  /\ skipped \in [Partition -> SUBSET Nat]
  /\ halts \in Nat

EngineInit ==
  /\ nextCommit = [p \in Partition |-> NoOffset]
  /\ pending = [p \in Partition |-> {}]
  /\ acks = {}
  /\ queue = <<>>
  /\ hand = {}
  /\ current = {}
  /\ tpc = "down"
  /\ ppc = "down"
  /\ shutdown = FALSE
  /\ stop = FALSE
  /\ committed = [p \in Partition |-> NoOffset]
  /\ position = [p \in Partition |-> 0]
  /\ snapshot = [s \in Symbol |-> NoOffset]
  /\ published = [s \in Symbol |-> NoOffset]
  /\ done = [p \in Partition |-> {}]
  /\ skipped = [p \in Partition |-> {}]
  /\ halts = 0

Init == TopicInit /\ EngineInit
-----------------------------------------------------------------------------
(* Where a new consumer of the group begins: the committed offset, or the  *)
(* end of the partition when there is none ("auto.offset.reset": latest).  *)
ResumeOffset(p) == IF committed[p] = NoOffset THEN Len(log[p]) ELSE committed[p]

(* run(): start() launches the thread, the loop waits on the queue.        *)
Start ==
  /\ tpc = "down" /\ ppc = "down"
  /\ tpc' = "loop"
  /\ ppc' = "get"
  /\ position' = [p \in Partition |-> ResumeOffset(p)]
  /\ skipped' = [p \in Partition |->
       skipped[p] \cup (IF committed[p] = NoOffset THEN Offsets(p) ELSE {})]
  /\ UNCHANGED <<topicVars, committed, nextCommit, pending, hand, acks, queue, current,
                 shutdown, stop, redisVars, done, halts>>
-----------------------------------------------------------------------------
(* The consumer thread.                                                    *)

Collected(p) == pending[p] \cup {t[2] : t \in {a \in acks : a[1] = p}}

(* while cursor in pending: cursor += 1, from the next offset to commit.   *)
IsCursor(p, c) ==
  IF nextCommit[p] = NoOffset THEN c = NoOffset
  ELSE /\ nextCommit[p] <= c
       /\ nextCommit[p] .. c - 1 \subseteq Collected(p)
       /\ c \notin Collected(p)

Drain ==
  /\ (tpc = "loop" /\ ~stop) \/ tpc = "final"
  /\ tpc' = IF tpc = "loop" THEN "poll" ELSE "stopped"
  /\ acks' = {}
  /\ UNCHANGED <<topicVars, position, hand, queue, current, ppc, shutdown, stop,
                 redisVars, done, skipped, halts>>

Advance(cursor, ps) ==
  committed' = [p \in Partition |->
    IF p \in ps /\ cursor[p] > nextCommit[p] THEN cursor[p] ELSE committed[p]]

(* _drain_acknowledgements with its one synchronous commit.                *)
DrainOk ==
  /\ Drain
  /\ \E cursor \in [Partition -> NoOffset .. MaxLog] :
       /\ \A p \in Partition : IsCursor(p, cursor[p])
       /\ Advance(cursor, Partition)
       /\ nextCommit' = cursor
       /\ pending' = [p \in Partition |->
            Collected(p) \ (nextCommit[p] .. cursor[p] - 1)]

(* The commit raises, the broker having applied it to any of the           *)
(* partitions: the local offsets stay.                                     *)
DrainRaises ==
  /\ Drain
  /\ \E cursor \in [Partition -> NoOffset .. MaxLog] : \E applied \in SUBSET Partition :
       /\ \A p \in Partition : IsCursor(p, cursor[p])
       /\ cursor # nextCommit
       /\ Advance(cursor, applied)
  /\ pending' = [p \in Partition |-> Collected(p)]
  /\ UNCHANGED nextCommit

PollNone ==
  /\ tpc = "poll"
  /\ tpc' = "loop"
  /\ UNCHANGED <<topicVars, committed, threadVars, acks, queue, current, ppc, shutdown,
                 stop, redisVars, done, skipped, halts>>

(* A record that does not parse is dropped, and not tracked.               *)
PollMalformed(p) ==
  /\ tpc = "poll"
  /\ position[p] \in Offsets(p) /\ ~IsEvent(p, position[p])
  /\ position' = [position EXCEPT ![p] = @ + 1]
  /\ tpc' = "loop"
  /\ UNCHANGED <<topicVars, committed, nextCommit, pending, hand, acks, queue, current, ppc,
                 shutdown, stop, redisVars, done, skipped, halts>>

(* Mutants: commits begin after the first event, or nothing is tracked.    *)
TrackConsumedAfter(p, o) ==
  nextCommit' = IF nextCommit[p] = NoOffset THEN [nextCommit EXCEPT ![p] = o + 1] ELSE nextCommit
TrackNothing(p, o) == UNCHANGED nextCommit

TrackConsumed(p, o) ==
  nextCommit' = IF nextCommit[p] = NoOffset THEN [nextCommit EXCEPT ![p] = o] ELSE nextCommit

PollEvent(p) ==
  /\ tpc = "poll"
  /\ position[p] \in Offsets(p) /\ IsEvent(p, position[p])
  /\ position' = [position EXCEPT ![p] = @ + 1]
  /\ TrackConsumed(p, position[p])
  /\ hand' = {<<p, position[p]>>}
  /\ tpc' = "handoff"
  /\ UNCHANGED <<topicVars, committed, pending, acks, queue, current, ppc, shutdown, stop,
                 redisVars, done, skipped, halts>>

(* Mutant: the queue has no limit.                                         *)
PutUnbounded == \E t \in hand : queue' = Append(queue, t)

Put ==
  /\ Len(queue) < QueueMax
  /\ \E t \in hand : queue' = Append(queue, t)

(* _handoff: the loop runs queue.put() once there is room.                 *)
Handoff ==
  /\ tpc = "handoff" /\ ppc # "returned"
  /\ Put
  /\ hand' = {}
  /\ tpc' = "loop"
  /\ UNCHANGED <<topicVars, committed, position, nextCommit, pending, acks, current, ppc,
                 shutdown, stop, redisVars, done, skipped, halts>>

(* Mutant: _handoff waits for the put and does not look at the stop flag.  *)
HandoffStoppedAfterPut ==
  /\ tpc = "handoff" /\ stop
  /\ Put
  /\ hand' = {}
  /\ tpc' = "final"
  /\ UNCHANGED <<topicVars, committed, position, nextCommit, pending, acks, current, ppc,
                 shutdown, stop, redisVars, done, skipped, halts>>

(* The stop flag ends the wait; the put may have gone through just before  *)
(* it is cancelled.                                                        *)
HandoffStopped ==
  /\ tpc = "handoff" /\ stop
  /\ UNCHANGED queue \/ Put
  /\ hand' = {}
  /\ tpc' = "final"
  /\ UNCHANGED <<topicVars, committed, position, nextCommit, pending, acks, current, ppc,
                 shutdown, stop, redisVars, done, skipped, halts>>

LoopExit ==
  /\ tpc = "loop" /\ stop
  /\ tpc' = "final"
  /\ UNCHANGED <<topicVars, committed, threadVars, acks, queue, current, ppc, shutdown,
                 stop, redisVars, done, skipped, halts>>
-----------------------------------------------------------------------------
(* The asyncio side: run() and process_consumed_event.                     *)

Get ==
  /\ ppc = "get" /\ queue # <<>>
  /\ current' = {Head(queue)}
  /\ queue' = Tail(queue)
  /\ ppc' = "update"
  /\ UNCHANGED <<topicVars, committed, threadVars, acks, tpc, shutdown, stop, redisVars,
                 done, skipped, halts>>

WriteSnapshot(t) == snapshot' = [snapshot EXCEPT ![RecordAt(t[1], t[2]).symbol] = t[2]]
Publish(t) == published' = [published EXCEPT ![RecordAt(t[1], t[2]).symbol] = t[2]]

processorRest == <<topicVars, committed, threadVars, queue, tpc, shutdown, stop, skipped, halts>>

UpdateOk ==
  /\ ppc = "update" /\ ~shutdown
  /\ \E t \in current : WriteSnapshot(t)
  /\ ppc' = "publish"
  /\ UNCHANGED <<processorRest, acks, current, published, done>>

(* Mutants: a failed update is published, put back into the queue, or      *)
(* dropped.                                                                *)
UpdateFailsAndPublishes ==
  /\ ppc = "update" /\ ~shutdown
  /\ UNCHANGED snapshot \/ \E t \in current : WriteSnapshot(t)
  /\ ppc' = "publish"
  /\ UNCHANGED <<processorRest, acks, current, published, done>>
UpdateFailsAndRequeues ==
  /\ ppc = "update" /\ ~shutdown
  /\ \E t \in current : queue' = Append(queue, t)
  /\ current' = {}
  /\ ppc' = "get"
  /\ UNCHANGED <<topicVars, committed, threadVars, tpc, shutdown, stop, skipped, halts, acks,
                 redisVars, done>>
UpdateFailsAndDrops ==
  /\ ppc = "update" /\ ~shutdown
  /\ current' = {}
  /\ ppc' = "get"
  /\ UNCHANGED <<processorRest, acks, redisVars, done>>

(* update() raises, having taken effect or not: back off and start over.   *)
UpdateFails ==
  /\ ppc = "update" /\ ~shutdown
  /\ UNCHANGED snapshot \/ \E t \in current : WriteSnapshot(t)
  /\ UNCHANGED <<processorRest, acks, current, ppc, published, done>>

PublishOk ==
  /\ ppc = "publish"
  /\ \E t \in current :
       /\ Publish(t)
       /\ done' = [done EXCEPT ![t[1]] = @ \cup {t[2]}]
       /\ acks' = acks \cup {t}
  /\ current' = {}
  /\ ppc' = "get"
  /\ UNCHANGED <<processorRest, snapshot>>

(* Mutant: an event whose publish failed is acknowledged all the same.     *)
PublishFailsAndAcknowledges ==
  /\ ppc = "publish"
  /\ acks' = acks \cup current
  /\ current' = {}
  /\ ppc' = "get"
  /\ UNCHANGED <<processorRest, redisVars, done>>

PublishFails ==
  /\ ppc = "publish"
  /\ UNCHANGED published \/ \E t \in current : Publish(t)
  /\ ppc' = "update"
  /\ UNCHANGED <<processorRest, acks, current, snapshot, done>>

(* Mutant: run() returns only when the queue is empty.                     *)
ReturnWhenEmpty ==
  /\ ppc = "update" /\ shutdown /\ queue = <<>>
  /\ ppc' = "returned"
  /\ current' = {}
  /\ stop' = TRUE
  /\ UNCHANGED <<topicVars, committed, threadVars, acks, queue, tpc, shutdown, redisVars,
                 done, skipped, halts>>

(* The retry loop sees the shutdown: run() leaves the event and stops the  *)
(* bridge.                                                                 *)
Return ==
  /\ ppc = "update" /\ shutdown
  /\ ppc' = "returned"
  /\ current' = {}
  /\ stop' = TRUE
  /\ UNCHANGED <<topicVars, committed, threadVars, acks, queue, tpc, shutdown, redisVars,
                 done, skipped, halts>>
-----------------------------------------------------------------------------
(* The outside.                                                            *)

(* shutdown() sets both flags.                                             *)
Shutdown ==
  /\ ppc \in {"get", "update", "publish"} /\ ~shutdown
  /\ halts < MaxHalts
  /\ shutdown' = TRUE
  /\ stop' = TRUE
  /\ halts' = halts + 1
  /\ UNCHANGED <<topicVars, committed, threadVars, acks, queue, current, tpc, ppc, redisVars,
                 done, skipped>>

(* Ctrl-C cancels run() at an await; its finally clause stops the bridge.  *)
Interrupt ==
  /\ ppc \in {"get", "update", "publish"}
  /\ halts < MaxHalts
  /\ ppc' = "returned"
  /\ current' = {}
  /\ stop' = TRUE
  /\ halts' = halts + 1
  /\ UNCHANGED <<topicVars, committed, threadVars, acks, queue, tpc, shutdown, redisVars,
                 done, skipped>>

(* The process is gone: after both of its threads have ended, by a kill,   *)
(* or because join(timeout=2.0) gave up on the consumer thread.            *)
Gone ==
  /\ tpc # "down"
  /\ nextCommit' = [p \in Partition |-> NoOffset]
  /\ pending' = [p \in Partition |-> {}]
  /\ acks' = {}
  /\ queue' = <<>>
  /\ hand' = {}
  /\ current' = {}
  /\ tpc' = "down"
  /\ ppc' = "down"
  /\ shutdown' = FALSE
  /\ stop' = FALSE
  /\ UNCHANGED <<topicVars, committed, position, redisVars, done, skipped>>

Terminate == tpc = "stopped" /\ ppc = "returned" /\ Gone /\ UNCHANGED halts

Kill ==
  \/ halts < MaxHalts /\ Gone /\ halts' = halts + 1
  \/ shutdown /\ Gone /\ UNCHANGED halts

Feed == TopicNext /\ UNCHANGED engineVars

Thread ==
  \/ DrainOk \/ DrainRaises
  \/ PollNone
  \/ \E p \in Partition : PollEvent(p) \/ PollMalformed(p)
  \/ Handoff \/ HandoffStopped
  \/ LoopExit

Processor ==
  \/ Get
  \/ UpdateOk \/ UpdateFails
  \/ PublishOk \/ PublishFails
  \/ Return

Run ==
  \/ Start
  \/ Thread
  \/ Processor
  \/ Shutdown \/ Interrupt \/ Terminate \/ Kill

Next == Feed \/ Run

Spec == Init /\ [][Next]_vars

(* Both threads run, no wait of theirs is without a timeout or a waker,    *)
(* and a process that ended is started again.                              *)
Progress ==
  /\ WF_vars(Start) /\ WF_vars(Terminate)
  /\ WF_vars(DrainOk \/ DrainRaises) /\ WF_vars(PollNone)
  /\ \A p \in Partition : SF_vars(PollEvent(p)) /\ SF_vars(PollMalformed(p))
  /\ WF_vars(Handoff) /\ WF_vars(HandoffStopped) /\ WF_vars(LoopExit)
  /\ WF_vars(Get)
  /\ WF_vars(PublishOk \/ PublishFails) /\ WF_vars(Return)

(* Redis and the commits may fail for ever ...                             *)
FairSpec == Spec /\ Progress

(* ... or else what is retried again and again succeeds at last.           *)
RedisRecovers  == SF_vars(UpdateOk) /\ SF_vars(PublishOk)
BrokerRecovers == SF_vars(DrainOk)
-----------------------------------------------------------------------------
Settled(p, o) == ~IsEvent(p, o) \/ o \in done[p] \/ o \in skipped[p]

(* No event is committed past before its snapshot update and its publish   *)
(* both succeeded, whatever the order in which acknowledgements, drains,   *)
(* failed commits, stops and restarts meet.                                *)
CommitSafe ==
  \A p \in Partition : \A o \in Offsets(p) : o < committed[p] => Settled(p, o)

(* Whatever travels between the threads was read from the topic, and       *)
(* whatever was acknowledged was processed.                                *)
ItemsAccountedFor ==
  /\ \A t \in hand \cup current : t[2] \in Offsets(t[1])
  /\ \A i \in 1 .. Len(queue) : queue[i][2] \in Offsets(queue[i][1])
  /\ \A t \in acks : t[2] \in done[t[1]]
  /\ \A p \in Partition : pending[p] \subseteq done[p] /\ done[p] \subseteq Offsets(p)

(* All below the next offset to commit is settled, and if the broker is    *)
(* ahead of it, by a commit that raised, the difference is acknowledged.   *)
CursorBase ==
  \A p \in Partition :
    IF nextCommit[p] = NoOffset
    THEN tpc # "down" =>
           /\ committed[p] <= position[p] /\ position[p] <= Len(log[p])
           /\ \A o \in Offsets(p) : o < position[p] => Settled(p, o)
    ELSE /\ nextCommit[p] <= Len(log[p])
         /\ \A o \in Offsets(p) :
              /\ o < nextCommit[p] => Settled(p, o)
              /\ (nextCommit[p] <= o /\ o < committed[p]) => o \in pending[p]

(* The inductive invariant of the commits.                                 *)
EngineInv ==
  /\ EngineTypeOK
  /\ \A p \in Partition : committed[p] <= Len(log[p])
  /\ CommitSafe
  /\ ItemsAccountedFor
  /\ CursorBase

(* A commit never moves the group back, although a commit that raised may  *)
(* have been applied while the local offsets stayed behind.                *)
CommitsForward == [][\A p \in Partition : committed[p] <= committed'[p]]_vars

(* Whoever receives an event finds in Redis a snapshot of that event:      *)
(* update() comes before publish_event(), also in a retry.  The gateway's  *)
(* gap recovery and subscription handshake read the snapshot after the     *)
(* event.                                                                  *)
SnapshotCoversPublish ==
  [][\A s \in Symbol :
       published'[s] # published[s] => snapshot[s] = published'[s]]_vars

(* The snapshot of a symbol only ever moves back to an event that was      *)
(* already processed to the end, i.e. by replay after a restart: new       *)
(* events are written in the order of the topic.                           *)
RegressionOnlyByReplay ==
  [][\A s \in Symbol :
       snapshot'[s] < snapshot[s] => snapshot'[s] \in done[PartitionOf[s]]]_vars

(* The handoff is bounded: the queue, the event in hand and the event      *)
(* being processed are all that is polled and not acknowledged.            *)
InFlight == {t \in Partition \X (0 .. MaxLog) :
  t[2] < position[t[1]] /\ ~Settled(t[1], t[2])}

BoundedInFlight ==
  (tpc # "down" /\ ~stop) => Cardinality(InFlight) <= QueueMax + 2

(* Why: what travels is where the control of the two sides says it is.     *)
ByPlace ==
  /\ tpc = "down" => queue = <<>> /\ ppc = "down" /\ ~stop
  /\ hand = {} \/ (tpc = "handoff" /\ \E t \in hand : hand = {t})
  /\ current = {} \/ (ppc \in {"update", "publish"} /\ \E t \in current : current = {t})
  /\ Len(queue) <= QueueMax
  /\ \A p \in Partition : position[p] <= Len(log[p])
  /\ \A p \in Partition : tpc = "down" => nextCommit[p] = NoOffset
  /\ (tpc # "down" /\ ~stop) => ppc # "returned" /\ tpc \in {"loop", "poll", "handoff"}

InTransit == hand \cup current \cup {queue[i] : i \in 1 .. Len(queue)}

(* It is made of events, and none of them was jumped over: what a start at *)
(* the end of the topic skipped is behind every later position and commit. *)
SkippedBehind ==
  /\ \A t \in InTransit : IsEvent(t[1], t[2]) /\ t[2] \notin skipped[t[1]]
  /\ \A p \in Partition : \A o \in skipped[p] :
       /\ o \in Offsets(p)
       /\ tpc # "down" => o < position[p]
       /\ committed[p] # NoOffset => o < committed[p]
       /\ nextCommit[p] # NoOffset => o < nextCommit[p]

Queued(t) == \E i \in 1 .. Len(queue) : queue[i] = t

(* While run() lasts nothing overtakes: whatever is before an item in its  *)
(* partition is settled or further ahead on the way.                       *)
BeforeCurrent == \A t \in current : \A o \in 0 .. t[2] - 1 : Settled(t[1], o)

BeforeQueued ==
  \A i \in 1 .. Len(queue) : \A o \in 0 .. queue[i][2] - 1 :
    \/ Settled(queue[i][1], o) \/ <<queue[i][1], o>> \in current
    \/ \E j \in 1 .. i - 1 : queue[j] = <<queue[i][1], o>>

BeforeHand ==
  \A t \in hand : \A o \in 0 .. t[2] - 1 :
    Settled(t[1], o) \/ <<t[1], o>> \in current \/ Queued(<<t[1], o>>)

BeforePosition ==
  \A p \in Partition : \A o \in 0 .. position[p] - 1 :
    Settled(p, o) \/ <<p, o>> \in current \cup hand \/ Queued(<<p, o>>)

InOrder ==
  /\ BeforeCurrent
  /\ ppc # "returned" => BeforeQueued /\ BeforeHand
  /\ (ppc # "returned" /\ tpc \in {"loop", "poll", "handoff"}) => BeforePosition

(* A snapshot shows an event with nothing unsettled before it, the one     *)
(* about to be published when there is one.                                *)
SnapshotsBehind ==
  /\ \A s \in Symbol :
       /\ snapshot[s] < Len(log[PartitionOf[s]])
       /\ \A o \in 0 .. snapshot[s] - 1 : Settled(PartitionOf[s], o)
  /\ ppc = "publish" =>
       \A t \in current : snapshot[RecordAt(t[1], t[2]).symbol] = t[2]

(* The inductive invariant of what is in flight, and of Redis.             *)
FlightInv ==
  /\ EngineInv
  /\ TopicKeyed
  /\ ByPlace
  /\ SkippedBehind
  /\ InOrder
  /\ SnapshotsBehind

(* With a Redis that recovers, an event the running consumer is about to   *)
(* reach is processed, unless the engine is shut down first or a restart   *)
(* skips it.                                                               *)
EventuallyProcessed == RedisRecovers =>
  \A p \in Partition : \A o \in 0 .. MaxLog - 1 :
    (tpc # "down" /\ o \in Offsets(p) /\ position[p] <= o)
      ~> ((o \in Offsets(p) /\ Settled(p, o)) \/ shutdown)

(* "one synchronous commit advances each partition to its highest safe     *)
(* offset" (SPEC.md, the engine's data flow): when Redis and the broker    *)
(* recover, a processed event is committed at last.                        *)
EventuallyCommitted == RedisRecovers /\ BrokerRecovers =>
  \A p \in Partition : \A o \in 0 .. MaxLog - 1 :
    (o \in done[p]) ~> (committed[p] > o \/ o \in skipped[p] \/ shutdown)

(* The stop flag always gets the consumer thread to close its consumer,    *)
(* even when the queue is full and Redis is down.                          *)
StopEndsThread == stop ~> tpc \in {"stopped", "down"}

(* A shutdown during a retry ends run(), even when Redis never recovers.   *)
ShutdownEndsRetry == (shutdown /\ current # {}) ~> ppc \in {"get", "returned", "down"}

(* The engine keeps the at-least-once promise of CommittedConsumer.        *)
SettledOffsets  == [p \in Partition |-> {o \in Offsets(p) : Settled(p, o)}]
CommittedOffset == [p \in Partition |-> IF committed[p] = NoOffset THEN 0 ELSE committed[p]]

Abstract == INSTANCE CommittedConsumer WITH
  settled <- SettledOffsets, committed <- CommittedOffset

ImplementsCommittedConsumer == Abstract!Spec
=============================================================================
