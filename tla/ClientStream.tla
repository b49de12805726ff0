---------------------------- MODULE ClientStream ----------------------------
(***************************************************************************)
(* ClientStream: how one WebSocket session of the gateway turns a symbol's *)
(* Redis snapshot and its Pub/Sub events into the stream its client sees.  *)
(*                                                                         *)
(* Four asyncio tasks share the session: the handler of the client's       *)
(* requests, the gateway's fanout loop, the session's dispatch loop and    *)
(* its writer.  A step is the code between two awaits; the sections under  *)
(* subscriptions_lock never await, so they are part of a step.  One symbol *)
(* is followed: the other symbols of the session, and the gateway's error  *)
(* replies, are Other entries that take room in its queues.                *)
(*                                                                         *)
(* The engine publishes the symbol's events as the topic has them: with    *)
(* holes, twice, late, or numbered from 1 again after the feed was         *)
(* restarted.                                                              *)
(* That the symbol's channel stays desired is GatewayChannels' part.       *)
(***************************************************************************)
EXTENDS Integers, Sequences, FiniteSets

CONSTANTS
  Modes,        \* the sessions: [raw |-> mode=raw, else agg_100ms,
                \* filtered |-> a filter may withhold any event]
  Resubscribes, \* the client may subscribe to a symbol it is subscribed to
  InitMax,      \* INITIALIZATION_BUFFER_MAX_SIZE
  OutputMax,    \* OUTPUT_MAX_SIZE of the aggregator
  OutMax,       \* QUEUE_MAX_SIZE of the session
  Topics,       \* bound: the numbers of the symbol's events, in the topic's order
  MaxChan,      \* bound: events in flight between Redis and the gateway
  MaxRepeats,   \* bound: the engine's retries and restarts
  MaxBreaks,    \* bound: lost Pub/Sub connections
  MaxFailures,  \* bound: snapshot reads that raise
  MaxOther,     \* bound: other symbols' events and error replies
  MaxRequests   \* bound: subscribe and unsubscribe requests

ASSUME StreamAssumption ==
  /\ Modes \subseteq [raw : BOOLEAN, filtered : BOOLEAN] /\ Resubscribes \in BOOLEAN
  /\ InitMax \in Nat \ {0} /\ OutputMax \in Nat \ {0} /\ OutMax \in Nat \ {0}
  /\ Topics \subseteq Seq(Nat \ {0}) /\ MaxChan \in Nat /\ MaxRepeats \in Nat /\ MaxBreaks \in Nat
  /\ MaxFailures \in Nat /\ MaxOther \in Nat /\ MaxRequests \in Nat

VARIABLES
  mode,         \* what the client chose when it connected and subscribed
  topic,        \* the numbers of the symbol's events, as they will come
  next,         \* which of them the engine is processing
  phase,        \* what process_event does next with it: "update" or "publish"
  snap,         \* seq of the Redis snapshot; NoSeq before the first
  pub,          \* how many of them were published
  chan,         \* events on their way to the fanout loop
  link,         \* the symbol's channel: "down", "asked" (SUBSCRIBE was sent) or
                \* "live" (Redis has applied it)
  hpc,          \* the session's request handler
  fetched,      \* the handler's snapshot
  initEvents,   \* initialization.events
  overflowed,   \* initialization.overflowed
  registered,   \* session in subscriptions[symbol]
  lastSeq,      \* session.last_seq[symbol]; NoSeq when absent
  agg,          \* aggregator._buffer[symbol]; NoSeq when absent
  output,       \* aggregator._output
  dpc,          \* the dispatch loop
  gapSnap,      \* the dispatch loop's snapshot
  out,          \* the number of messages in session._queue
  disconnected, \* session._disconnected
  stream,       \* history: what was enqueued for the symbol since it was
                \* last subscribed or unsubscribed
  missed,       \* history: the newest publication never reached the session
  budget        \* what is left of each bound

Raw      == mode.raw
Filtered == mode.filtered

NoSeq == 0
Other == 0

engineVars  == <<next, phase, snap, pub>>
linkVars    == <<chan, link>>
handlerVars == <<hpc, fetched, initEvents, overflowed>>
bufferVars  == <<agg, output>>
dispatchVars == <<dpc, gapSnap, lastSeq>>
wireVars    == <<out, disconnected, stream>>
vars == <<mode, topic, engineVars, linkVars, handlerVars, registered, bufferVars, dispatchVars,
          wireVars, missed, budget>>

Seqs    == Nat \ {0}
Kind    == {"snapshot", "event"}
Message == [kind : Kind, seq : Seqs]
Bounds  == {"repeat", "break", "failure", "other", "request"}

FlagsOK == {overflowed, registered, disconnected, missed} \subseteq BOOLEAN

StreamTypeOK ==
  /\ FlagsOK
  /\ mode \in Modes
  /\ topic \in Topics
  /\ next \in 1 .. Len(topic) + 1
  /\ phase \in {"update", "publish"}
  /\ snap \in Seqs \cup {NoSeq}
  /\ pub \in 0 .. Len(topic)
  /\ chan \in Seq(Seqs)
  /\ link \in {"down", "asked", "live"}
  /\ hpc \in {"idle", "fetch", "apply", "cleanup", "gone"}
  /\ fetched \in Seqs \cup {NoSeq}
  /\ initEvents \in Seq(Seqs) /\ Len(initEvents) <= InitMax
  /\ lastSeq \in Seqs \cup {NoSeq}
  /\ agg \in Seqs \cup {NoSeq}
  /\ output \in Seq(Seqs \cup {Other}) /\ Len(output) <= OutputMax
  /\ dpc \in {"next", "gap", "reseed", "dead", "done"}
  /\ gapSnap \in Seqs \cup {NoSeq}
  /\ out \in 0 .. OutMax
  /\ stream \in Seq(Message)
  /\ budget \in [Bounds -> Nat]

Init ==
  /\ mode \in Modes /\ topic \in Topics
  /\ next = 1 /\ phase = "update" /\ snap = NoSeq /\ pub = 0
  /\ chan = <<>> /\ link \in {"down", "live"}
  /\ hpc = "idle" /\ fetched = NoSeq /\ initEvents = <<>> /\ overflowed = FALSE
  /\ registered = FALSE
  /\ agg = NoSeq /\ output = <<>>
  /\ dpc = "next" /\ gapSnap = NoSeq /\ lastSeq = NoSeq
  /\ out = 0 /\ disconnected = FALSE /\ stream = <<>>
  /\ missed = FALSE
  /\ budget = [b \in Bounds |-> CASE b = "repeat"  -> MaxRepeats
                                  [] b = "break"   -> MaxBreaks
                                  [] b = "failure" -> MaxFailures
                                  [] b = "other"   -> MaxOther
                                  [] b = "request" -> MaxRequests]

Spend(b) == budget[b] > 0 /\ budget' = [budget EXCEPT ![b] = @ - 1]
-----------------------------------------------------------------------------
(* Bounded queues that make room by dropping their oldest entries.         *)
Newest(q, max) == IF Len(q) <= max THEN q ELSE SubSeq(q, Len(q) - max + 1, Len(q))

(* AggregationBuffer.push of each event of s in turn: through to the       *)
(* output queue in RAW mode, else the symbol's last one replaces the       *)
(* buffered one.                                                           *)
Push(s) ==
  IF Raw
  THEN output' = Newest(output \o s, OutputMax) /\ UNCHANGED agg
  ELSE agg' = (IF s = <<>> THEN agg ELSE s[Len(s)]) /\ UNCHANGED output

(* ClientSession.enqueue under DROP_OLDEST, the policy of every session: a *)
(* full queue drops one message for the new one.                           *)
Enqueue == out' = IF out < OutMax THEN out + 1 ELSE out

Reply == Enqueue /\ UNCHANGED <<disconnected, stream>>

Deliver(m) ==
  /\ Enqueue
  /\ stream' = Append(stream, m)
  /\ UNCHANGED disconnected
-----------------------------------------------------------------------------
(* The engine, as the gateway meets it in Redis: process_event updates the *)
(* snapshot and then publishes.                                            *)
Update ==
  /\ next <= Len(topic) /\ phase = "update"
  /\ snap' = topic[next]
  /\ phase' = "publish"
  /\ UNCHANGED <<mode, topic, next, pub, linkVars, handlerVars, registered, bufferVars,
                 dispatchVars, wireVars, missed, budget>>

Send ==
  /\ phase = "publish"
  /\ Len(chan) < MaxChan
  /\ pub' = (IF next > pub THEN next ELSE pub)
  /\ chan' = (IF link = "live" THEN Append(chan, topic[next]) ELSE chan)
  /\ missed' = (link # "live")
  /\ phase' = "update"

Publish ==
  /\ Send
  /\ next' = next + 1
  /\ UNCHANGED <<mode, topic, snap, link, handlerVars, registered, bufferVars, dispatchVars,
                 wireVars, budget>>

(* Redis published but the call raised: process_consumed_event tries the   *)
(* event again.                                                            *)
PublishAmbiguous ==
  /\ Send
  /\ Spend("repeat")
  /\ UNCHANGED <<mode, topic, next, snap, link, handlerVars, registered, bufferVars,
                 dispatchVars, wireVars>>

(* The engine restarts and replays from the committed offset.              *)
EngineReplays ==
  /\ Spend("repeat")
  /\ next' \in 1 .. next
  /\ phase' = "update"
  /\ UNCHANGED <<mode, topic, snap, pub, linkVars, handlerVars, registered, bufferVars,
                 dispatchVars, wireVars, missed>>

(* pubsub.listen() raises: what was in flight is lost.                     *)
LinkBreaks ==
  /\ link # "down"
  /\ Spend("break")
  /\ link' = "down"
  /\ chan' = <<>>
  /\ missed' = (missed \/ chan # <<>>)
  /\ UNCHANGED <<mode, topic, engineVars, handlerVars, registered, bufferVars, dispatchVars, wireVars>>

(* The fanout loop subscribes the desired channels again: its SUBSCRIBE    *)
(* returns when it was sent.                                               *)
LinkResumes ==
  /\ link = "down"
  /\ link' = "asked"
  /\ UNCHANGED <<mode, topic, engineVars, chan, handlerVars, registered, bufferVars,
                 dispatchVars, wireVars, missed, budget>>

(* Redis applies the SUBSCRIBE; nobody waits for its reply.                *)
Applied ==
  /\ link = "asked"
  /\ link' = "live"
  /\ UNCHANGED <<mode, topic, engineVars, chan, handlerVars, registered, bufferVars,
                 dispatchVars, wireVars, missed, budget>>
-----------------------------------------------------------------------------
(* _fanout_event: an initializing session buffers the event, unless its    *)
(* buffer is full; a registered one pushes it into its aggregator.  A      *)
(* session that subscribes again does both.                                *)
Initializing == hpc \in {"fetch", "apply"}

(* Mutants: the buffer has no limit, or overflows unnoticed.               *)
BufferUnbounded(e) ==
  /\ initEvents' = (IF Initializing THEN Append(initEvents, e) ELSE initEvents)
  /\ UNCHANGED overflowed

BufferSilently(e) ==
  /\ initEvents' = (IF Initializing /\ Len(initEvents) < InitMax
                    THEN Append(initEvents, e) ELSE initEvents)
  /\ UNCHANGED overflowed

Buffer(e) ==
  IF Initializing /\ Len(initEvents) >= InitMax
  THEN overflowed' = TRUE /\ UNCHANGED initEvents
  ELSE /\ initEvents' = (IF Initializing THEN Append(initEvents, e) ELSE initEvents)
       /\ UNCHANGED overflowed

Fanout ==
  /\ link = "live" /\ chan # <<>>
  /\ chan' = Tail(chan)
  /\ Buffer(Head(chan))
  /\ IF registered THEN Push(<<Head(chan)>>) ELSE UNCHANGED bufferVars
  /\ UNCHANGED <<mode, topic, engineVars, link, hpc, fetched, registered, dispatchVars, wireVars,
                 missed, budget>>

(* _flush_loop: the interval is over.                                      *)
Flush ==
  /\ agg # NoSeq
  /\ output' = Newest(Append(output, agg), OutputMax)
  /\ agg' = NoSeq
  /\ UNCHANGED <<mode, topic, engineVars, linkVars, handlerVars, registered, dispatchVars, wireVars,
                 missed, budget>>

(* Another symbol's event reaches the output queue of a session still in   *)
(* the registries, and may push this symbol's last one out of it.          *)
Tracked(q) == {i \in DOMAIN q : q[i] # Other}

OtherSymbol ==
  /\ hpc # "gone" \/ dpc = "dead"
  /\ Spend("other")
  /\ output' = Newest(Append(output, Other), OutputMax)
  /\ missed' = (missed \/ (Tracked(output) # {} /\ Tracked(output') = {}))
  /\ UNCHANGED <<mode, topic, engineVars, linkVars, handlerVars, registered, agg, dispatchVars, wireVars>>
-----------------------------------------------------------------------------
(* Mutants: an equal sequence is not stale, or a gap is not noticed.       *)
AcceptsRepeats(seq) == lastSeq = NoSeq \/ (seq >= lastSeq /\ (Raw => seq <= lastSeq + 1))

AcceptsJumps(seq) == lastSeq = NoSeq \/ seq > lastSeq

(* client_dispatch_loop, with classify_sequence: a first sequence is       *)
(* accepted whatever it is, one at or below the last is stale, and in RAW  *)
(* mode one beyond the next is a gap.                                      *)
Accepts(seq) == lastSeq = NoSeq \/ (seq > lastSeq /\ (Raw => seq = lastSeq + 1))
Gap(seq)     == lastSeq # NoSeq /\ seq > lastSeq /\ Raw /\ seq # lastSeq + 1
Stale(seq)   == lastSeq # NoSeq /\ seq <= lastSeq

Take == dpc = "next" /\ output # <<>> /\ output' = Tail(output)

DispatchOther ==
  /\ Take /\ Head(output) = Other
  /\ Reply
  /\ UNCHANGED <<mode, topic, engineVars, linkVars, handlerVars, registered, agg, dispatchVars, missed, budget>>

DispatchStale ==
  /\ Take /\ Head(output) # Other
  /\ Stale(Head(output))
  /\ UNCHANGED <<mode, topic, engineVars, linkVars, handlerVars, registered, agg, dispatchVars,
                 wireVars, missed, budget>>

(* should_deliver may withhold the event; its sequence is accepted anyway. *)
DispatchNext ==
  /\ Take /\ Head(output) # Other
  /\ Accepts(Head(output))
  /\ lastSeq' = Head(output)
  /\ \/ Deliver([kind |-> "event", seq |-> Head(output)])
     \/ Filtered /\ UNCHANGED wireVars
  /\ UNCHANGED <<mode, topic, engineVars, linkVars, handlerVars, registered, agg, dpc, gapSnap,
                 missed, budget>>

(* Mutant: the event beyond a gap is dropped and no snapshot read.         *)
DispatchGapIgnored ==
  /\ Take /\ Head(output) # Other
  /\ Gap(Head(output))
  /\ UNCHANGED <<mode, topic, engineVars, linkVars, handlerVars, registered, agg, dpc, gapSnap, lastSeq,
                 wireVars, missed, budget>>

DispatchGap ==
  /\ Take /\ Head(output) # Other
  /\ Gap(Head(output))
  /\ dpc' = "gap"
  /\ UNCHANGED <<mode, topic, engineVars, linkVars, handlerVars, registered, agg, gapSnap, lastSeq,
                 wireVars, missed, budget>>

GapRead ==
  /\ dpc = "gap"
  /\ dpc' = "reseed"
  /\ gapSnap' = snap
  /\ UNCHANGED <<mode, topic, engineVars, linkVars, handlerVars, registered, bufferVars, lastSeq,
                 wireVars, missed, budget>>

(* snapshot_store.get raises out of the dispatch loop: the task is over.   *)
GapReadRaises ==
  /\ dpc = "gap"
  /\ Spend("failure")
  /\ dpc' = "dead"
  /\ UNCHANGED <<mode, topic, engineVars, linkVars, handlerVars, registered, bufferVars, gapSnap,
                 lastSeq, wireVars, missed>>

(* Mutant: last_seq is not looked at after the await.                      *)
ReseedAlways ==
  /\ dpc = "reseed"
  /\ dpc' = "next"
  /\ gapSnap' = NoSeq
  /\ IF gapSnap # NoSeq
     THEN Deliver([kind |-> "snapshot", seq |-> gapSnap]) /\ lastSeq' = gapSnap
     ELSE UNCHANGED <<wireVars, lastSeq>>
  /\ UNCHANGED <<mode, topic, engineVars, linkVars, handlerVars, registered, bufferVars, missed, budget>>

(* Back from the await: last_seq is read again before it is compared.      *)
Reseed ==
  /\ dpc = "reseed"
  /\ dpc' = "next"
  /\ gapSnap' = NoSeq
  /\ IF gapSnap # NoSeq /\ (lastSeq = NoSeq \/ gapSnap > lastSeq)
     THEN Deliver([kind |-> "snapshot", seq |-> gapSnap]) /\ lastSeq' = gapSnap
     ELSE UNCHANGED <<wireVars, lastSeq>>
  /\ UNCHANGED <<mode, topic, engineVars, linkVars, handlerVars, registered, bufferVars, missed, budget>>
-----------------------------------------------------------------------------
(* _writer_loop: one message sent, or the socket raises.                   *)
Write ==
  /\ out > 0 /\ ~disconnected
  /\ out' = out - 1
  /\ UNCHANGED <<mode, topic, engineVars, linkVars, handlerVars, registered, bufferVars, dispatchVars,
                 disconnected, stream, missed, budget>>

WriteFails ==
  /\ out > 0 /\ ~disconnected
  /\ out' = out - 1
  /\ disconnected' = TRUE
  /\ UNCHANGED <<mode, topic, engineVars, linkVars, handlerVars, registered, bufferVars, dispatchVars,
                 stream, missed, budget>>
-----------------------------------------------------------------------------
(* _subscribe.  With the channel in confirmed_channels, where a lost       *)
(* connection may have left it, or with a SUBSCRIBE sent for it, the       *)
(* initialization is in place before the snapshot is read.                 *)
Subscribe ==
  /\ hpc = "idle" /\ ~disconnected
  /\ Spend("request")
  /\ Resubscribes \/ ~registered
  /\ hpc' = "fetch"
  /\ initEvents' = <<>>
  /\ overflowed' = FALSE
  /\ link' \in IF link = "down" THEN {"down", "asked"} ELSE {link}
  /\ UNCHANGED <<mode, topic, engineVars, chan, fetched, registered, bufferVars, dispatchVars,
                 wireVars, missed>>

(* The channel was not confirmed, the filter was invalid, or the request   *)
(* was not understood: the client is told and nothing else happens.        *)
Refuse ==
  /\ hpc = "idle" /\ ~disconnected
  /\ Spend("other")
  /\ Reply
  /\ UNCHANGED <<mode, topic, engineVars, linkVars, handlerVars, registered, bufferVars, dispatchVars,
                 missed>>

Fetch ==
  /\ hpc = "fetch"
  /\ hpc' = "apply"
  /\ fetched' = snap
  /\ missed' = FALSE
  /\ UNCHANGED <<mode, topic, engineVars, linkVars, initEvents, overflowed, registered, bufferVars,
                 dispatchVars, wireVars, budget>>

(* The initialization is dropped and the client told; a session that was   *)
(* registered before stays registered.                                     *)
RollBack ==
  /\ hpc' = "idle"
  /\ fetched' = NoSeq
  /\ initEvents' = <<>>
  /\ overflowed' = FALSE
  /\ Reply
  /\ UNCHANGED <<mode, topic, engineVars, linkVars, registered, bufferVars, dispatchVars>>

FetchRaises ==
  /\ hpc = "fetch"
  /\ Spend("failure")
  /\ RollBack
  /\ UNCHANGED missed

Overflow ==
  /\ hpc = "apply" /\ overflowed
  /\ RollBack
  /\ UNCHANGED <<missed, budget>>

(* sorted(initialization.events), then those above the snapshot.           *)
Count(s, x)  == Cardinality({i \in DOMAIN s : s[i] = x})
Sorted(s)    == {t \in [DOMAIN s -> {s[i] : i \in DOMAIN s}] :
                   /\ \A i, j \in DOMAIN s : i < j => t[i] <= t[j]
                   /\ \A i \in DOMAIN s : Count(t, s[i]) = Count(s, s[i])}
Above(t, seq) == SubSeq(t, Cardinality({i \in DOMAIN t : t[i] <= seq}) + 1, Len(t))

(* One section under the lock: the snapshot is enqueued and seeds          *)
(* last_seq, the buffered events above it go to the aggregator, and the    *)
(* session is registered.                                                  *)
Register ==
  /\ hpc' = "idle"
  /\ fetched' = NoSeq
  /\ initEvents' = <<>>
  /\ overflowed' = FALSE
  /\ registered' = TRUE
  /\ LET current == IF registered THEN stream ELSE <<>> IN
     IF fetched = NoSeq
     THEN /\ stream' = current
          /\ UNCHANGED <<out, lastSeq>>
     ELSE /\ Enqueue
          /\ stream' = Append(current, [kind |-> "snapshot", seq |-> fetched])
          /\ lastSeq' = fetched
  /\ UNCHANGED <<mode, topic, engineVars, linkVars, dpc, gapSnap, disconnected, missed, budget>>

Apply ==
  /\ hpc = "apply" /\ ~overflowed
  /\ Register
  /\ \E t \in Sorted(initEvents) : Push(Above(t, fetched))

(* _unsubscribe: what the aggregator holds of the symbol stays there.      *)
Unsubscribe ==
  /\ hpc = "idle" /\ ~disconnected
  /\ Spend("request")
  /\ registered' = FALSE
  /\ lastSeq' = NoSeq
  /\ stream' = <<>>
  /\ UNCHANGED <<mode, topic, engineVars, linkVars, handlerVars, bufferVars, dpc, gapSnap, out,
                 disconnected, missed>>
-----------------------------------------------------------------------------
(* websocket_stream's finally: the dispatch task is cancelled and awaited. *)
(* A task that died raises its exception here, and the rest is skipped.    *)
Leave ==
  /\ hpc = "idle"
  /\ hpc' = (IF dpc = "dead" THEN "gone" ELSE "cleanup")
  /\ dpc' = (IF dpc = "dead" THEN "dead" ELSE "done")
  /\ UNCHANGED <<mode, topic, engineVars, linkVars, fetched, initEvents, overflowed, registered,
                 bufferVars, gapSnap, lastSeq, wireVars, missed, budget>>

(* Mutant: _cleanup returns early when the socket failed already.          *)
CleanupUnlessDisconnected ==
  /\ hpc = "cleanup"
  /\ hpc' = "gone"
  /\ registered' = (IF disconnected THEN registered ELSE FALSE)
  /\ disconnected' = TRUE
  /\ UNCHANGED <<mode, topic, engineVars, linkVars, fetched, initEvents, overflowed, bufferVars,
                 dispatchVars, out, stream, missed, budget>>

(* _cleanup and session.close().                                           *)
Cleanup ==
  /\ hpc = "cleanup"
  /\ hpc' = "gone"
  /\ registered' = FALSE
  /\ disconnected' = TRUE
  /\ UNCHANGED <<mode, topic, engineVars, linkVars, fetched, initEvents, overflowed, bufferVars,
                 dispatchVars, out, stream, missed, budget>>
-----------------------------------------------------------------------------
Engine   == Update \/ Publish
Delivery == Fanout \/ Flush
Dispatch == DispatchOther \/ DispatchStale \/ DispatchNext \/ DispatchGap \/ Reseed
Handle   == Overflow \/ Apply \/ Cleanup

Next ==
  \/ Engine \/ PublishAmbiguous \/ EngineReplays
  \/ LinkBreaks \/ LinkResumes \/ Applied
  \/ Delivery \/ OtherSymbol
  \/ Dispatch \/ GapRead \/ GapReadRaises
  \/ Write \/ WriteFails
  \/ Subscribe \/ Refuse \/ Fetch \/ FetchRaises \/ Handle \/ Unsubscribe
  \/ Leave

Spec == Init /\ [][Next]_vars

(* The engine keeps going, the fanout loop reconnects, Redis applies what  *)
(* it was sent, ready tasks run, and a Redis read returns.  A client need  *)
(* not read, ask or leave, but a handler told of a disconnection ends.     *)
Fairness ==
  /\ WF_vars(Engine) /\ WF_vars(LinkResumes) /\ WF_vars(Applied)
  /\ WF_vars(Fanout) /\ WF_vars(Flush)
  /\ WF_vars(Dispatch) /\ WF_vars(GapRead)
  /\ WF_vars(Fetch) /\ WF_vars(Handle)
  /\ WF_vars(disconnected /\ Leave)

LiveSpec == Spec /\ Fairness
-----------------------------------------------------------------------------
(* Within a subscription the sequences enqueued for the client strictly    *)
(* increase: the snapshot, the buffered events, the live events and a      *)
(* gap's snapshot come from three tasks, none of them ever repeats or      *)
(* precedes what another one enqueued, whatever the engine replays.        *)
StreamOrdered ==
  \A i, j \in DOMAIN stream : i < j => stream[i].seq < stream[j].seq

(* A RAW client without a filter is never sent an event that is not the    *)
(* successor of the message before it: what was lost on the way shows up   *)
(* as a snapshot.                                                          *)
RawContiguous ==
  Raw /\ ~Filtered =>
    \A i \in DOMAIN stream : i > 1 /\ stream[i].kind = "event" =>
                               stream[i].seq = stream[i - 1].seq + 1

(* The last sequence the session accepted is never behind the last one it  *)
(* enqueued, which is what keeps the three tasks in step.                  *)
LastSeqCovers ==
  stream # <<>> => lastSeq >= stream[Len(stream)].seq

(* The inductive strengthening: besides, the event being published is one  *)
(* of the symbol's, and a session that initializes is not registered.      *)
StreamInv ==
  /\ StreamOrdered
  /\ LastSeqCovers
  /\ phase = "publish" => next <= Len(topic)
  /\ Initializing => ~registered

(* The topic numbers the symbol's events upwards, whatever is left out or  *)
(* comes twice.  A feed that is restarted numbers from 1 again: from then  *)
(* on a registered session turns every event away as STALE until the       *)
(* numbers pass its last_seq, and one that subscribes then may be seeded   *)
(* with the new numbers and pushed buffered events with the old ones.      *)
InSequence == \A i, j \in DOMAIN topic : i < j => topic[i] <= topic[j]

(* The number of the newest publication.                                   *)
Latest == IF pub = 0 THEN NoSeq ELSE topic[pub]

(* Nothing published while a session subscribes falls between its snapshot *)
(* and its first live event, and no overflow or gap goes unrepaired: once  *)
(* the engine has caught up and nothing is on the way, a registered        *)
(* session has accepted the newest publication, unless that one never      *)
(* reached its queues: it was published without a connection, or before    *)
(* Redis had applied the SUBSCRIBE that the gateway took for confirmed.    *)
Drained == chan = <<>> /\ agg = NoSeq /\ Tracked(output) = {} /\ dpc = "next"
CaughtUp == phase = "update" /\ next > pub

HandoffComplete ==
  InSequence /\ registered /\ hpc = "idle" /\ Drained /\ CaughtUp /\ ~missed => lastSeq >= Latest

(* Where the newest publication is, which is what makes the handoff        *)
(* complete: of all that was published it is the last on the channel ...   *)
NewestOnChannel ==
  /\ link # "live" => chan = <<>>
  /\ next > pub /\ chan # <<>> => chan[Len(chan)] = Latest
  /\ InSequence => \A i \in DOMAIN chan : chan[i] <= Latest

(* ... and the Redis snapshot covers it once the engine has caught up.     *)
SnapshotInStep ==
  /\ phase = "publish" => snap = topic[next]
  /\ InSequence /\ next > pub => snap >= Latest

(* Off the channel, and not lost on it, it is in the handler's snapshot or *)
(* in its buffer, unless that overflowed, ...                              *)
Arrived == next > pub /\ chan = <<>> /\ ~missed

InHandler ==
  \/ fetched >= Latest \/ overflowed
  \/ \E i \in DOMAIN initEvents : initEvents[i] = Latest

NewestInHandler ==
  InSequence =>
    /\ \A i \in DOMAIN initEvents : initEvents[i] <= Latest
    /\ hpc = "apply" /\ Arrived => InHandler

(* ... and once the session is registered it was accepted, is the last of  *)
(* the symbol in the aggregator, or comes with the snapshot of a gap.      *)
LastTracked(q, seq) ==
  \E i \in DOMAIN q : q[i] = seq /\ \A j \in DOMAIN q : j > i => q[j] = Other

InAggregator == agg = Latest \/ (agg = NoSeq /\ LastTracked(output, Latest))

InSession ==
  \/ lastSeq >= Latest \/ InAggregator
  \/ dpc \in {"gap", "dead", "done"}
  \/ dpc = "reseed" /\ gapSnap >= Latest

NewestInSession ==
  /\ Raw => agg = NoSeq
  /\ InSequence /\ registered /\ Arrived => InSession

(* RawContiguous, inductively: without a filter what was accepted last was *)
(* enqueued last.                                                          *)
RawTail ==
  /\ RawContiguous
  /\ Raw /\ ~Filtered /\ stream # <<>> => lastSeq = stream[Len(stream)].seq

(* The inductive invariant of the handoff.                                 *)
HandoffInv ==
  /\ StreamInv
  /\ NewestOnChannel
  /\ SnapshotInStep
  /\ NewestInHandler
  /\ NewestInSession
  /\ RawTail

(* A session that is gone is in no registry: the documented promise.       *)
GoneLeavesNothing == hpc = "gone" => ~registered

(* What the code keeps of it: whether the socket failed or the client      *)
(* left, a session stays in a registry only if its dispatch task died.     *)
GoneUnlessDispatchDied == hpc = "gone" /\ registered => dpc = "dead"

(* A publication above all before it.                                      *)
High(t, n) == \A m \in 1 .. n - 1 : t[m] < t[n]

(* What a registered session can still learn it does learn: a publication  *)
(* above all before it is accepted, or overtaken by a higher one, unless   *)
(* the session's interest ends first, the newest publication was lost, or  *)
(* the feed has started again below it.                                    *)
SubscriberCatchesUp ==
  \A t \in Topics : \A n \in DOMAIN t : High(t, n) =>
    (topic = t /\ registered /\ pub = n ~>
       \/ lastSeq >= t[n]
       \/ missed \/ ~registered \/ hpc \in {"cleanup", "gone"}
       \/ \E m \in n + 1 .. pub : t[m] < t[n])

(* A session whose socket failed leaves every registry in the end.         *)
FailedSessionLeaves == disconnected ~> hpc = "gone" /\ ~registered

(* "No stale or duplicate incremental can follow a newer snapshot for the  *)
(* same symbol": also when the client subscribes to it again.              *)
NoStaleIncremental ==
  \A i, j \in DOMAIN stream :
    i < j /\ stream[j].kind = "event" => stream[i].seq < stream[j].seq
=============================================================================
