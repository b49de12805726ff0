# A TLA+ model of the realtime market data platform

The platform moves quotes from a feed to WebSocket clients and into a database:

```
FeedSimulator -> Kafka topic -> DistributionEngine -> Redis (snapshot + Pub/Sub) -> Gateway -> clients
                           \-> TickWriter -> TimescaleDB (market_ticks)
```

This directory models the parts that carry state between steps, checks them with
TLC on small instances, and proves the main safety properties with TLAPS for every
instance. `PROJECT.json` lists components, runs, mutants, the definition-to-source
map, findings, hazards and theorems.

## Inventory

| Part | State | Operations | What is hard | What makes it correct |
|---|---|---|---|---|
| `feed/simulator.py` | one counter per symbol, the Kafka producer | `_make_event`, `run`, `_delivery_report` | restarts, a clock that steps back, rejected, repeated and late deliveries | what it writes is a keyed topic, and nobody downstream needs more |
| `storage/tick_writer.py`, `history_store.py` (insert) | consumer position, batch and its start time, stop flag, the table | `run`, `_flush`, `_commit_batch`, `_handle_invalid_message`, `stop` | ambiguous inserts and commits, crash between insert and commit, malformed records, deadline under load | nothing is committed before it is stored; the table has no holes; every tick is stored; `stop` ends it |
| `history_store.py` (query), `GET /history` | the lazily opened pool | `connect`, `fetch_ticks`, `get_history`, `_parse_history_params` | rows inserted late, twice or after a crash, numbers that start again, timestamps that go back | a page has no holes, nothing answered is withdrawn, a later page continues it in a topic in the order of time, what is committed is visible |
| `engine/engine.py` | bridge queue, acknowledgement queue, next commit offsets, flags; a thread and an asyncio task | `_consume_loop`, `_handoff`, `_drain_acknowledgements`, `process_consumed_event`, `shutdown` | two threads, retries of two Redis calls together, commits that raise, replay | nothing is committed before update and publish succeeded; a publication finds its snapshot; shutdown ends everything |
| `engine/snapshot_store.py` | a Redis hash per symbol, a channel per symbol | `update`, `get`, `publish_event` | calls that raise after taking effect | as used above |
| `gateway/gateway.py` (data plane), `session.py`, `aggregator.py` | registries, initialization buffers, per session `last_seq`, aggregator, outbound queue | `_subscribe`, `_unsubscribe`, `_cleanup`, `_fanout_event`, `client_dispatch_loop`, `_writer_loop`, `_flush_loop` | four tasks per session, awaits between read and use, bounded queues, at-most-once Pub/Sub | ordered, gap-free streams; no loss at the handoff; no leaked session |
| `gateway/gateway.py` (control plane) | `active_channels`, `confirmed_channels`, `channel_demand`, `redis_pubsub`, `pubsub_lock` | `fanout_loop`, `_subscribe_pubsub_symbol`, `_ensure_pubsub_subscription`, `_unsubscribe_pubsub_symbol`, `_remove_desired_channel_if_unused` | a lock held across awaits, reconnection, handlers of several sessions | a confirmed channel was subscribed on the connection that listens; no orphan channels; reconnection restores; every request ends |
| `session.py` (outbound side) | `filters`, `last_price`, `_queue`, `_disconnected`, `stats` | `should_deliver`, `mark_delivered`, `enqueue`, `_writer_loop`, `close`, `LatencyTracker` | drops, withheld events and new filters between the comparison and the client; exceptions and cancellation of a send | the client stays within its threshold; every message is accounted for; a slow client is written no more |
| `/health`, `/snapshot`, `/metrics`; encodings; benchmarks | views | read-only | - | not modelled, but for the overall percentiles |

Interactions: Kafka is the only link between feed, engine and writer (the two
consumers are separate groups); Redis is the only link between engine and gateway
(snapshot and channel are two independent reads for the gateway); the table is the
only link between writer and history query; inside the gateway the tasks share the
registries under `subscriptions_lock`, whose sections never await, and the Pub/Sub
connection under `pubsub_lock`, whose sections do.

## Modules

| Module | Models | Proofs |
|---|---|---|
| `MarketTopic` | the topic `log[p]` with Kafka's offsets, as the consumers find it: any events in any order | `MarketTopic_proofs` |
| `MarketFeed` | the simulator and its producer; implements `MarketTopic` | `MarketFeed_proofs` |
| `CommittedConsumer` | the abstract promise of both consumers: the committed offset of a partition never moves back and has nothing unsettled below it | - |
| `TickWriter` | `TickWriter.run` and the `market_ticks` table; extends `MarketTopic`, implements `CommittedConsumer` | `TickWriter_proofs` |
| `TickHistory` | `GET /history/{symbol}` over that table; extends `TickWriter`: topic, writer and gateway run together | `TickHistory_proofs` |
| `DistributionEngine` | the bridge thread and the asyncio side over Redis; extends `MarketTopic`, implements `CommittedConsumer` | `DistributionEngine_proofs` |
| `ClientStream` | one gateway session and one symbol, from Redis to the outbound queue | `ClientStream_proofs` |
| `ClientSession` | the outbound side of one session: filter, queue, writer, socket, statistics | `ClientSession_proofs` |
| `GatewayChannels` | the Pub/Sub channels shared by the fanout loop and the handlers of all sessions | `GatewayChannels_proofs` |
| `MCFedEngine` | `DistributionEngine` and `MarketFeed` together | - |
| `MC...` | model values, symbol-to-partition maps, clients and questions for TLC | - |

An operator whose comment begins with "Mutant" is a plausible bug in the definition
that follows it; `PROJECT.json` names the property that notices it.

### How the state corresponds to the code

*Events.* An event is `[symbol, seq, event_ts]`; prices and sizes are left out, as no
decision but a filter's depends on them. `event_ts` is whatever `time.time()` returned
(`Times`): it may step back within a run of the simulator and across runs. A run
numbers each symbol from 1. `sending` is what the producer has in hand: it is
asynchronous, not idempotent and retries, so that the broker may append an event late,
twice (`Appended`) or never (`DeliveryFailed`). A record that `_parse_event` turns into
`None` is `Malformed`.

*The topic.* The consumers are modelled over `MarketTopic`, in which the next record
is any event of its partition, or a malformed one; nothing is said of the order of
numbers or timestamps. `FeedWritesTopic` proves that the feed writes such a topic, so
that what is checked and proved of the consumers holds behind it; one run
(`engine_live`) composes feed and engine, so that the steps of the feed are exercised
too. Two different events may have the same symbol, number and millisecond: the code
then has one row for both (`UNIQUE (symbol, seq, event_time)`), and so has the model,
whose events differ in nothing else.

*TickWriter.* `pc` is the place in `run`: `schema` (the retry of `ensure_schema`),
`poll`, `flush` (the head of `_flush`'s loop), `insert` (inside `insert_ticks`),
`commit` (`_commit_batch`, one partition per step), `skip` (the commit of a malformed
message). `expired` is the clock of `_batch_expired`. `InsertFails` leaves the rows or
not; `CommitRaises` applies the commit or not and ends the process, since nothing
catches it. `Stop` sets the flag, `Exit` is every place that looks at it, `Kill` may
happen anywhere.

*History.* `step` is the place of each request in `get_history`; the query and its
sort are one step, as they are one `SELECT`. `Before` is the `ORDER BY`, `Clamp` the
limit. `pools` counts the pools opened: two first requests may both find none.
`since` is a history variable: what was committed and answered when a request came.
The sorted result is any ordering of the matching rows that `ORDER BY` allows
(`Ordered`); that there is only one is proved, not assumed, since two rows may have
the same sequence number or the same millisecond. What an answer should hold is stated
over the first records of the topic (`IsTopicCut`), in the order of time, which need
not be the order of the topic. Where it is (`InFeedOrder`), the i-th tick of an answer
is the one at the i-th wanted offset (`Wanted`).

*Engine.* `tpc` is the consumer thread (`loop`, `poll`, `handoff`, `final`,
`stopped`), `ppc` the asyncio side (`get`, `update`, `publish`, `returned`). The
drain of the acknowledgement queue and its commit is one step, successful
(`DrainOk`) or raising after the broker applied it to some partitions
(`DrainRaises`). `IsCursor` states what the `while cursor in pending` loop computes.
`done` and `skipped` are history variables. `snapshot` and `published` hold offsets
rather than sequence numbers: within a partition they order the events of a symbol.

*Client stream.* A step is the code between two awaits. The handler is `idle`,
about to read the snapshot (`fetch`), about to activate (`apply`), or leaving; the
dispatcher waits for an event (`next`), for a gap's snapshot (`gap`), is about to
compare it (`reseed`), has died of a raising read (`dead`) or was cancelled (`done`).
`mode` is what the query string and the filter made of the session: RAW or
aggregated, filtered or not. `lastSeq`, `agg`, `output`, `out` are
`last_seq[symbol]`, the aggregator's buffer and queue, and the length of the outbound
queue; another symbol's event is `Other` in `output`. The engine appears as it does in
Redis: `Update` before `Publish`, `PublishAmbiguous` for a publication that raised and
is retried, `EngineReplays` for a restart. The numbers it publishes are those of
`topic`, one of `Topics`: any sequence of them, with holes, repetitions, and a feed
that started again. `link` is the symbol's channel: `down`, `asked` (redis-py has sent
the SUBSCRIBE, which is when `subscribe()` returns and the channel counts as confirmed)
or `live` (Redis has applied it, `Applied`). That the channel stays desired while the
session is registered is `GatewayChannels`' part. `stream` and `missed` are history
variables; `missed` says that the newest publication was lost before it reached the
session: it was published while the connection was broken or before Redis had applied
the SUBSCRIBE, it was on a connection that broke, or another symbol's event pushed it
out of a full output queue.

*Client session.* `filter` and `lastPrice` are `filters[symbol]` and
`last_price[symbol]`; `queue` is `_queue`, `hand` the message `_writer_loop` is
sending, `wpc` its place; `sent`, `dropped` and `samples` are the statistics.
`newest`, `lost`, `seen`, `offered` and `failed` are history variables. Prices are
integers: a relative change is compared by cross-multiplication, which is what the
code's `PERCENT_EPSILON` approximates in floating point. Which sequence is delivered
is `ClientStream`'s part; there a filter withholds any event. `Percentile` takes its
sample from an ascending rearrangement of the window (`Ascending`), which is what
`sorted` returns.

*Channels.* A symbol stands for its channel. `fpc` is the place of `fanout_loop` (`wait`
for `channel_demand`, `open` a connection, `seed` the desired channels under the lock,
`listen`, `backoff`, `close`), `wire` the channels whose last command sent on its
connection is SUBSCRIBE; when Redis applies it is `ClientStream`'s part. Of each handler
`pc` is the place (`attempt` waits for the lock, `subscribe` holds it, `sleep` is the
back-off of `_ensure_pubsub_subscription`, `fetch` the snapshot read, `remove` and
`unsubscribe` the removal), `tries` the failed attempts, `todo` the symbols whose
channels it still removes. A free `asyncio.Lock` is taken without a switch of tasks; the
model lets other tasks run before every acquisition, which adds interleavings and takes
none away.

## Runs

| Run | Checks | Bounds |
|---|---|---|
| `writer_history` | `AnswerIsTopicCut`, `NeverWithdrawn`, `PagesContinue`, `CommittedIsVisible`, and their inductive invariant `HistoryInv` with the types | one symbol, three records with two numbers and two timestamps in any order (so that time steps back, numbers start again and events come twice), batches of one, one halt; two requests that ask for more rows than the store returns (the limit of 3 is cut to 2), with the default limit of 1, or for a range that cuts inside the topic |
| `writer` | the inductive invariant with the types (`ReplayInv`), `NoLostTick`, `StoredInOrder`, `BoundedReplay`, refinement of `CommittedConsumer`; `EventuallyStored` (if the database recovers), `StopTerminates` (in any case) | two partitions of two records, one malformed each, and a batch limit of three, so that a batch spans both and a deadline expires on a batch that is not full; two halts, so that a replay happens |
| `engine_safety` | the commit protocol: `CommitSafe`, refinement of `CommittedConsumer`, the inductive invariant with the types (`FlightInv`); Redis: `SnapshotCoversPublish`, `RegressionOnlyByReplay`; `BoundedInFlight` | two partitions of two records, one malformed record each, a queue of one, two halts: four events in flight would break the bound, and two of one symbol replayed move its snapshot back |
| `engine_live` | `EventuallyProcessed`, `EventuallyCommitted` (if Redis and the broker recover), `StopEndsThread`, `ShutdownEndsRetry` (in any case) | the feed of one symbol, whose simulator is restarted once, and a producer that appends up to three records; a queue of one, so that it is full; no malformed records: see `engine_poison` |
| `stream_safety` | types, the inductive invariant of the handoff (`HandoffInv`), `StreamOrdered`, `RawContiguous`, `HandoffComplete`, `GoneUnlessDispatchDied`, for a RAW session and for a filtered aggregated one | three events (in sequence; with a hole and a repetition; with numbers that start again), an initialization buffer of one and an output queue of two (both overflow), one replay or retry, one broken connection, one failed read, one other message, two requests |
| `stream_live` | `SubscriberCatchesUp`, `FailedSessionLeaves` for both kinds of session | the same three topics, one request, one event in flight, one replay, one broken connection, reads that return, no other messages |
| `channels` | `ChannelsInv`, `NoOrphanChannel`; `RequestAnswered` (in any case), `ReconnectRestores` (if Redis answers) | two sessions, one of which asks for both channels and one for one of them (`Wants`), two attempts: the first failure is retried, the second gives up; no bound on failures, reconnections and requests |
| `session` | `SessionInv`, `WithinBand`, `PercentilesReported`; `SlowClientStops` (if the socket returns or raises), `QueueDrains` (if the client reads) | four prices with a threshold of one half, so that two withheld changes add up to more than it and the price 0 turns the filter off; both policies, a queue of two, two drops to a disconnection, four offered messages (two fill the queue, two are dropped), a window of three samples |

Three events are the least that make a gap (the successor is missing and something
follows it); a buffer of one overflows on the second event; one replay suffices to
publish every sequence twice. The sizes of the code (500, 1000, 10000) are constants,
and the theorems hold for all of them. That no commit moves back
(`CommittedNeverRegresses`, `CommitsForward`) is part of the refinement that is
checked, and a theorem of its own.

Deadlock is not checked where the bounds, the end of a session or the answered
requests stop the model (`writer_history`, `session`, the `stream_*` runs); every
bound is a constant named in its module.

### What the code does differently from its documents

Four runs check a statement of the documents, and TLC refutes it.

| Run | Statement | What happens |
|---|---|---|
| `engine_poison` | the commit advances to the highest safe offset (`SPEC.md:145`) | a malformed record is never acknowledged, and nothing behind it is committed by that process |
| `channels_robbed` | `active_channels` represents desired local demand (`SPEC.md:276`, `REMEDIATION_SPEC.md:277`) | the last registered session unsubscribes while another is being initialized, and removes the channel after that one was told it is confirmed: a registered session hears nothing |
| `stream_resubscribe` | no stale or duplicate increment (`REMEDIATION_SPEC.md:54`, `465`) | a registered client that subscribes again is sent an event twice |
| `stream_dead_dispatch` | a disconnected client is in no registry (`README.md:432`) | the dispatch task died of a Redis error, and awaiting it skips the cleanup |

`GoneUnlessDispatchDied` is what the code keeps of the last statement, and holds in
`stream_safety`.

Smaller differences that are not runs of their own:

* `SPEC.md:200` says `seq` increases within a symbol, and a restarted simulator counts
  from 1 again; so do `README.md:80` and `REMEDIATION_SPEC.md:55`. A session that is
  registered then turns every event of the new run away as STALE until the numbers
  pass its `last_seq` (`session.py:153`), and one that subscribes then may be seeded
  with a snapshot of the new run and be pushed buffered events of the old one
  (`gateway.py:761-763`), or the other way round. `stream_safety` runs through both
  (`StartsOver`): the stream stays ordered, but `HandoffComplete` is stated for a topic
  in sequence, and `SubscriberCatchesUp` ends where a feed publishes below what was
  published before.
* `SPEC.md:277` has a channel in `confirmed_channels` only after Redis confirms
  `SUBSCRIBE`, and `REMEDIATION_SPEC.md:236` has nothing lost that is published while
  the snapshot is read. redis-py's `subscribe()` returns when the command was sent, and
  nobody waits for the reply (`gateway.py:212-221`): what is published after the
  snapshot was read and before Redis has applied the command reaches no one, until the
  next event shows a gap. `ClientStream` has it (`Applied`, `missed`).
* `SPEC.md:440` speaks of stale or skewed `event_ts`: with them a tick stored later may
  enter a page of history before ticks answered already. `NeverWithdrawn` says what
  holds then, `PagesContinue` when a later page continues an earlier one.
* `REMEDIATION_SPEC.md:436` wants what was polled before a stop to be replayed; before
  the first commit, the group restarts at the end of the topic (`engine.py:40`;
  `ResumeOffset` and `Start` have it).
* `engine.py:129` calls a replay harmless because Redis updates are idempotent, and a
  replay of several events moves a snapshot back for a while (`RegressionOnlyByReplay`
  bounds that).
* A batch that the database can never accept is retried for ever
  (`tick_writer.py:185-210`); `EventuallyStored` is about what it can accept.
* `REMEDIATION_SPEC.md:230` wants the snapshot to be the first message a client sees,
  and the drop-oldest queue of a slow client may drop it.
* `SPEC.md:470` and `README.md:434` say a persistently slow consumer is disconnected.
  The `disconnect` policy does that, and `session` checks it; every session of the
  gateway is created with `drop_oldest` (`gateway.py:645`).
* Two first requests of `/history` open two pools, of which `close()` closes one
  (`history_store.py:50`; `Connected` counts them).
* An exception of `_close_pubsub` in `fanout_loop`'s finally clause (`gateway.py:170`)
  ends the loop for good; the model lets the close succeed.

## Fairness

* `TickWriter`: `run` is a loop whose awaits all have timeouts, so its own steps are
  weakly fair, and a supervisor starts it again (`FairSpec`). The database may stay
  down for ever; `EventuallyStored` is conditional on `DatabaseRecovers`, that what is
  retried for ever succeeds at last, which leaves out a batch it can never accept.
* `DistributionEngine`: both threads run, every wait has a timeout or a waker. Polls
  are strongly fair per partition (the client library serves all assigned
  partitions). `EventuallyProcessed` and `EventuallyCommitted` are conditional on
  `RedisRecovers` and `BrokerRecovers`, strong fairness of the Redis calls and of the
  commit; the shutdown properties are not.
* `ClientStream`: ready asyncio tasks run; the fanout loop reconnects; Redis applies the
  commands it was sent; a Redis read returns; the engine goes on. Nothing is assumed of
  the client: it need not read, ask or leave. `WriteFails` is not fair either: only what
  follows it is.
* `ClientSession`: the writer is scheduled; `wait_for` returns the message or times out;
  `get()` returns when there is a message (strong, since it may time out first again
  and again). Nothing is assumed of `close()`: the handler comes to it only past the
  dispatch task, which may have died (`gateway.py:712-718`, `stream_dead_dispatch`), and
  past Redis. The socket may hold a message for ever; `SlowClientStops` is conditional
  on `SocketReturns`, that it takes the message or raises, `QueueDrains` on
  `ClientReads`. The model bounds the offers, so that `QueueDrains` says that the queue
  empties once nothing more is offered.
* `GatewayChannels`: a call to Redis returns or raises, a sleep ends, and
  `asyncio.Lock` serves its waiters in turn, which is strong fairness of every
  acquisition. `RequestAnswered` assumes nothing of Redis; `ReconnectRestores` is
  conditional on `RedisAnswers`, that the loop's subscription succeeds at last.

## Proofs

All are invariance or step-simulation proofs; they hold for every value of the
constants under the named `ASSUME`s (sizes are natural numbers, `PartitionOf` is a
function, `Malformed` is not an event, the fanout loop is no session). Type
correctness is a conjunct of each inductive invariant.

* `MarketTopic_proofs`: lemmas on the topic (`KeyedStep`: events lie in their symbol's
  partition; `EventsStay`: what it held it holds). `MarketFeed_proofs`:
  `FeedWritesTopic`, by simulation: every step of the feed appends one event or none.
* `TickWriter_proofs`: `WriterInvariant`, and from it `WriterNeverLosesTick`,
  `WriterCommitsForward` and `WriterImplementsCommittedConsumer`. `NoLostTick` needs
  `PolledAccountedFor` (every polled offset is stored or in the batch), `InHand` (what
  is in hand is ahead of the commits, and a malformed record is behind the batch of its
  partition) and `ByPlace` (what each place of `run` knows). `TicksStoredInOrder` needs
  `StorageInv` besides: an event lies in its symbol's partition, so that the rows of a
  partition are the events of its first records, although two records may make one row.
  `WriterBoundedReplay` comes from `ReplayInv`: what is polled and not committed is in
  the batch or is the malformed message in hand, and a poll finds room in the batch, so
  that the two together are at most one batch.
* `TickHistory_proofs`: `HistoryTakesNoPart` (a request changes nothing that topic and
  writer see, so `WriterInv` and `StorageInv` hold here too), `HistoryInvariant`, and
  from it `AnswersHaveNoHoles`, `AnswersNeverWithdrawn`, `AnswersContinue` and
  `CommittedTicksAnswered`. The argument: the rows of a range are the events of it among
  the first records of the topic (`MatchingIsCut`, from `StoredInOrder`), the first of
  them in the order of time are a cut (`FetchIsCut`), which stays one while the topic
  grows (`CutStands`); an earlier answer's ticks are still rows when a later one is
  read (`AnswerStored`), so that they are in it or behind it. For a topic in the order
  of time the rows lie at ascending offsets and skip none (`RowPlaces`), so that the
  i-th row of any allowed ordering is the i-th wanted tick (`RowsAreTopicPrefix`, by
  counting); what a later step appends comes after what was wanted before
  (`PrefixStands`), and two prefixes of one range agree as far as they go
  (`TopicPrefixesAgree`), the later being no shorter (`FetchContinues`).
* `DistributionEngine_proofs`: `EngineInvariant`, and from it `EngineCommitsSafely`,
  `EngineCommitsForward`, `EngineImplementsCommittedConsumer`. `CommitSafe` needs
  `ItemsAccountedFor` (what is acknowledged was processed) and `CursorBase`: below the
  local next offset all is settled, and where a raised commit left the broker ahead,
  the difference is still among the pending acknowledgements. That last part is what
  makes the next commit move forward. `EngineFlight` adds where every event in flight
  is (`ByPlace`), that events are in the order of the topic (`InOrder`) and what Redis
  holds (`SnapshotsBehind`); `EngineBounded`, `EngineSnapshotFirst` and
  `EngineSnapshotsForward` follow from it.
* `ClientStream_proofs`: `StreamInvariant` and `ClientStreamOrdered`, for a client
  that does not subscribe to what it is subscribed to (with that, the statement is
  false: `stream_resubscribe`). The strengthening is `LastSeqCovers`: the session's
  `last_seq` is at least the last sequence enqueued, whichever task enqueued it, and a
  session that is initializing is not registered. `StreamTypes`,
  `ClientRawContiguous` (from `RawTail`: without a filter what was accepted last was
  enqueued last) and `SessionLeaves` assume nothing of the client. `StreamHandoff` and
  `ClientHandoffComplete` follow the newest publication of a topic in sequence, whatever
  its holes and repetitions: it is the last on the channel
  (`NewestOnChannel`), in the snapshot or the buffer of the handler
  (`NewestInHandler`), or in the aggregator, the output queue or the dispatcher
  (`NewestInSession`), or `missed` says it was lost.
* `GatewayChannels_proofs`: `ChannelsInvariant`, and from it
  `ConfirmedChannelsWereSent` and `NoChannelIsOrphaned`, for any number of
  sessions, symbols and attempts. `ConfirmedWasSent` needs `LockDiscipline` (the
  loop seeds and a handler subscribes one at a time) and `ChannelsAgree`;
  `NoOrphanChannel` needs `HandlersAgree` (what a handler is doing is what the
  registries and its `todo` say), so that a handler that gives up leaves the channel to
  another session or to its own removal.
* `ClientSession_proofs`: `SessionInvariant`, and from it `ClientStaysWithinBand`.
  `WithinBand` speaks of the client and the market and is not inductive; the invariant
  adds the filter's own price between them (`LastPriceIsSeen`): what the filter
  compares with is what the client will see last. It rests on four lemmas about the
  messages on their way (one is appended, an error reply is appended, the oldest is
  dropped, one is sent). `PercentileIndex` is the arithmetic of
  `int(n * p / 100)`, and `PercentilesAreRanks` what it means for the samples: a sorted
  rearrangement exists (`SortExists`: the rank of a sample is its place), the sample at
  that index has the rank of the percentile (`PercentileRanks`), and the counts of two
  windows add up in the pooled one (`CountsAddUp`), so that the overall percentile lies
  between those of the clients.

Every invariant and every action property that a passing run checks is a theorem. The
two that speak of a client that subscribes twice (`StreamOrdered`, `HandoffComplete`)
are proved for one that does not, as in `stream_safety`.

Only model-checked: the liveness properties (`EventuallyStored`, `StopTerminates`,
`EventuallyProcessed`, `EventuallyCommitted`, `StopEndsThread`, `ShutdownEndsRetry`,
`SubscriberCatchesUp`, `FailedSessionLeaves`, `RequestAnswered`, `ReconnectRestores`,
`SlowClientStops`, `QueueDrains`): the prover does not handle `ENABLED`, on
which fairness rests.

## Not modelled

* Benchmarks: they keep no state of the system.
* `/health`, `/snapshot`, `/metrics` and the Prometheus text: read-only renderings.
* Encodings (JSON, msgpack) and their error paths, but for the record that does not
  parse; the rounding of prices.
* The 24 hour expiry of snapshots, `ping`; the gap counter and the uptime of a
  session.
* Cancellation of WebSocket handlers and of the fanout loop by the server's own
  shutdown; rebalancing of Kafka groups; a `_close_pubsub` that raises.

## Plan

1. Composition: a proof that `DistributionEngine`'s Redis steps implement those
   `ClientStream` has of the engine.
2. Abstract specifications of `GatewayChannels` (a desired channel is listened to) and
   of the outbound queue of `ClientSession` (a bounded queue that counts what it
   drops), with the refinements that the invariants already suggest.
3. The server's shutdown: the cancellation of the fanout loop and of the handlers at
   each of their awaits.
