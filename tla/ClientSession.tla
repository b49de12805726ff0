--------------------------- MODULE ClientSession ---------------------------
(***************************************************************************)
(* ClientSession: the outbound side of a WebSocket session, from the       *)
(* filter of a subscription to the socket, and the statistics it keeps.    *)
(*                                                                         *)
(* The handler and the dispatch loop offer messages to a bounded queue,    *)
(* the writer takes them out one by one.  One symbol is followed; its      *)
(* sequence numbers are ClientStream's business.  Prices are integers,     *)
(* which is where the code's PERCENT_EPSILON makes no difference: a change *)
(* of exactly the threshold is delivered.                                  *)
(***************************************************************************)
EXTENDS Integers, Sequences, FiniteSets, TLC, Functions

CONSTANTS
  Prices,       \* bid prices
  Filters,      \* the filters a client asks for: NoFilter, or what
                \* _parse_subscription_filter lets through
  Policies,     \* of a session, among the SlowConsumerPolicy values
  OutMax,       \* QUEUE_MAX_SIZE
  DropLimit,    \* SLOW_CLIENT_DROP_LIMIT
  SampleMax,    \* LatencyTracker._max_samples
  Latencies,    \* bound: measured latencies
  MaxOffered    \* bound: messages offered to the queue

NoLimit == -1
NoFilter == [change |-> 0, spread |-> NoLimit]

ASSUME SessionAssumption ==
  /\ Prices \subseteq Nat
  /\ Filters \subseteq [change : Nat, spread : Nat \cup {NoLimit}]
  /\ Policies \subseteq {"drop_oldest", "disconnect"}
  /\ OutMax \in Nat \ {0} /\ DropLimit \in Nat /\ SampleMax \in Nat \ {0}
  /\ Latencies \subseteq Int /\ MaxOffered \in Nat

VARIABLES
  policy,
  filter,       \* filters[symbol]
  lastPrice,    \* last_price[symbol]; Absent when there is none
  queue,        \* _queue
  hand,         \* the message the writer is sending: <<>> or <<message>>
  wpc,          \* where _writer_loop is
  disconnected, \* _disconnected
  sent,         \* stats.sent
  dropped,      \* stats.dropped
  samples,      \* stats.latency._samples
  offered,      \* history: calls of enqueue
  failed,       \* history: messages taken by the writer and not sent
  newest,       \* history: the newest price the spread limit let through
                \* under the current filter
  lost,         \* history: the newest message of the symbol was turned away,
                \* or dropped from the queue
  seen          \* history: the last price of the symbol that was sent

Absent == -1
Message == [kind : {"event", "snapshot"}, bid : Prices] \cup {[kind |-> "error", bid |-> 0]}
Error == [kind |-> "error", bid |-> 0]

filterVars == <<filter, lastPrice, newest, lost>>
queueVars  == <<queue, dropped, offered>>
writerVars == <<hand, wpc, sent, samples, failed, seen>>
vars == <<policy, filterVars, queueVars, writerVars, disconnected>>

SessionTypeOK ==
  /\ policy \in Policies
  /\ filter \in Filters \cup {NoFilter}
  /\ lastPrice \in Prices \cup {Absent} /\ newest \in Prices \cup {Absent}
  /\ seen \in Prices \cup {Absent}
  /\ queue \in Seq(Message) /\ Len(queue) <= OutMax
  /\ hand = <<>> \/ \E m \in Message : hand = <<m>>
  /\ wpc \in {"loop", "get", "send", "done", "closed"}
  /\ wpc = "send" <=> hand # <<>>
  /\ disconnected \in BOOLEAN /\ lost \in BOOLEAN
  /\ sent \in Nat /\ dropped \in Nat /\ offered \in Nat /\ failed \in Nat
  /\ samples \in Seq(Latencies) /\ Len(samples) <= SampleMax

Init ==
  /\ policy \in Policies
  /\ filter = NoFilter /\ lastPrice = Absent
  /\ queue = <<>> /\ hand = <<>> /\ wpc = "loop" /\ disconnected = FALSE
  /\ sent = 0 /\ dropped = 0 /\ samples = <<>>
  /\ offered = 0 /\ failed = 0 /\ newest = Absent /\ lost = FALSE /\ seen = Absent
-----------------------------------------------------------------------------
Full == Len(queue) >= OutMax
Accepts == ~Full \/ policy = "drop_oldest"

(* enqueue: a full queue drops its oldest message for the new one, or      *)
(* turns the new one away and counts.                                      *)
Enqueue(m) ==
  /\ queue' = CASE ~Full           -> Append(queue, m)
                [] Full /\ Accepts -> Append(Tail(queue), m)
                [] OTHER           -> queue
  /\ dropped' = dropped + (IF Full THEN 1 ELSE 0)
  /\ disconnected' = (disconnected \/ (~Accepts /\ dropped' >= DropLimit))
  /\ offered' = offered + 1

Open(n) == wpc # "closed" /\ offered + n <= MaxOffered

(* An error reply, or another symbol's message.                            *)
Tracked(q) == {i \in DOMAIN q : q[i].kind # "error"}

Reply ==
  /\ Open(1)
  /\ Enqueue(Error)
  /\ lost' = (lost \/ (Tracked(queue) # {} /\ Tracked(queue') = {}))
  /\ UNCHANGED <<policy, filter, lastPrice, newest, writerVars>>

(* A message of the symbol; the price a filter compares with moves only    *)
(* when the queue took it.                                                 *)
Offer(kind, b) ==
  /\ Open(1)
  /\ Enqueue([kind |-> kind, bid |-> b])
  /\ lastPrice' = (IF Accepts THEN b ELSE lastPrice)
-----------------------------------------------------------------------------
(* should_deliver.                                                         *)
Distance(a, b) == IF a < b THEN b - a ELSE a - b

SpreadOK(spread) == filter.spread = NoLimit \/ spread <= filter.spread

ChangeOK(b) ==
  \/ lastPrice \in {Absent, 0}
  \/ 100 * Distance(b, lastPrice) >= filter.change * lastPrice

(* client_dispatch_loop, with mark_delivered, for an event whose sequence  *)
(* was accepted.                                                           *)
EventDelivered(b, spread) ==
  /\ SpreadOK(spread) /\ ChangeOK(b)
  /\ Offer("event", b)
  /\ newest' = b
  /\ lost' = ~Accepts
  /\ UNCHANGED <<policy, filter, writerVars>>

(* Mutant: mark_delivered also where nothing is delivered.                 *)
EventWithheldMarked(b, spread) ==
  /\ Open(0)
  /\ ~(SpreadOK(spread) /\ ChangeOK(b))
  /\ newest' = (IF SpreadOK(spread) THEN b ELSE newest)
  /\ lastPrice' = b
  /\ UNCHANGED <<policy, filter, lost, queueVars, writerVars, disconnected>>

EventWithheld(b, spread) ==
  /\ Open(0)
  /\ ~(SpreadOK(spread) /\ ChangeOK(b))
  /\ newest' = (IF SpreadOK(spread) THEN b ELSE newest)
  /\ UNCHANGED <<policy, filter, lastPrice, lost, queueVars, writerVars, disconnected>>

(* The snapshot that repairs a gap.                                        *)
Reseed(b) ==
  /\ Offer("snapshot", b)
  /\ newest' = (IF Accepts THEN Absent ELSE newest)
  /\ lost' = (lost /\ ~Accepts)
  /\ UNCHANGED <<policy, filter, writerVars>>

(* _subscribe puts the filter in place together with the snapshot, if      *)
(* there is one.                                                           *)
Subscribe(f, b) ==
  /\ Accepts
  /\ Offer("snapshot", b)
  /\ filter' = f
  /\ newest' = Absent
  /\ lost' = FALSE
  /\ UNCHANGED <<policy, writerVars>>

SubscribeUnseen(f) ==
  /\ Open(0)
  /\ filter' = f
  /\ newest' = Absent
  /\ UNCHANGED <<policy, lastPrice, lost, queueVars, writerVars, disconnected>>

(* The queue turns the snapshot away, and then the error reply.            *)
SubscribeRefused ==
  /\ Open(2) /\ ~Accepts
  /\ dropped' = dropped + 2
  /\ offered' = offered + 2
  /\ disconnected' = (disconnected \/ dropped' >= DropLimit)
  /\ UNCHANGED <<policy, filterVars, queue, writerVars>>

(* _unsubscribe.                                                           *)
Unsubscribe ==
  /\ Open(0)
  /\ filter' = NoFilter
  /\ lastPrice' = Absent
  /\ newest' = Absent
  /\ lost' = FALSE
  /\ UNCHANGED <<policy, queueVars, writerVars, disconnected>>
-----------------------------------------------------------------------------
(* _writer_loop.                                                           *)

(* Mutant: the loop does not look whether the session is to be             *)
(* disconnected.                                                           *)
LoopOn ==
  /\ wpc = "loop"
  /\ wpc' = "get"
  /\ UNCHANGED <<policy, filterVars, queueVars, hand, sent, samples, failed, seen, disconnected>>

Loop ==
  /\ wpc = "loop"
  /\ wpc' = (IF disconnected THEN "done" ELSE "get")
  /\ UNCHANGED <<policy, filterVars, queueVars, hand, sent, samples, failed, seen, disconnected>>

Get ==
  /\ wpc = "get" /\ queue # <<>>
  /\ hand' = <<Head(queue)>>
  /\ queue' = Tail(queue)
  /\ wpc' = "send"
  /\ UNCHANGED <<policy, filterVars, dropped, offered, sent, samples, failed, seen, disconnected>>

(* Mutant: a quiet second ends the loop.                                   *)
TimedOutEnds ==
  /\ wpc = "get"
  /\ wpc' = "done"
  /\ UNCHANGED <<policy, filterVars, queueVars, hand, sent, samples, failed, seen, disconnected>>

(* wait_for gives up after a second, a message that came just then stays   *)
(* in the queue.                                                           *)
TimedOut ==
  /\ wpc = "get"
  /\ wpc' = "loop"
  /\ UNCHANGED <<policy, filterVars, queueVars, hand, sent, samples, failed, seen, disconnected>>

(* LatencyTracker.record keeps the last SampleMax; only an event has the   *)
(* event_ts it needs.                                                      *)
Record(l) ==
  LET all == Append(samples, l) IN
  samples' = IF Len(all) > SampleMax THEN Tail(all) ELSE all

SendOk(l) ==
  /\ wpc = "send"
  /\ sent' = sent + 1
  /\ IF hand[1].kind = "event" THEN Record(l) ELSE UNCHANGED samples
  /\ seen' = (IF hand[1].kind = "error" THEN seen ELSE hand[1].bid)
  /\ hand' = <<>>
  /\ wpc' = "loop"
  /\ UNCHANGED <<policy, filterVars, queueVars, failed, disconnected>>

(* Mutant: the message counts as sent before the socket took it.           *)
SendRaisesCounted ==
  /\ wpc = "send"
  /\ sent' = sent + 1
  /\ failed' = failed + 1
  /\ hand' = <<>>
  /\ disconnected' = TRUE
  /\ wpc' = "done"
  /\ UNCHANGED <<policy, filterVars, queueVars, samples, seen>>

SendRaises ==
  /\ wpc = "send"
  /\ failed' = failed + 1
  /\ hand' = <<>>
  /\ disconnected' = TRUE
  /\ wpc' = "done"
  /\ UNCHANGED <<policy, filterVars, queueVars, sent, samples, seen>>

(* close(), after the dispatch loop is over: the writer is cancelled       *)
(* wherever it is.                                                         *)
Close ==
  /\ wpc # "closed"
  /\ disconnected' = TRUE
  /\ wpc' = "closed"
  /\ failed' = failed + Len(hand)
  /\ hand' = <<>>
  /\ UNCHANGED <<policy, filterVars, queueVars, sent, samples, seen>>
-----------------------------------------------------------------------------
Spreads == {0, 1, 2}

Offered ==
  \/ \E b \in Prices, spread \in Spreads : EventDelivered(b, spread) \/ EventWithheld(b, spread)
  \/ \E b \in Prices : Reseed(b)
  \/ \E f \in Filters, b \in Prices : Subscribe(f, b)
  \/ \E f \in Filters : SubscribeUnseen(f)
  \/ SubscribeRefused
  \/ Unsubscribe
  \/ Reply

Sent == \E l \in Latencies : SendOk(l)

Next == Offered \/ Loop \/ Get \/ TimedOut \/ Sent \/ SendRaises \/ Close

Spec == Init /\ [][Next]_vars

(* The writer is scheduled, wait_for times out when nothing comes, and a   *)
(* queue with a message lets get() return. Nothing is assumed of close():  *)
(* the handler comes to it only past the dispatch task, which may have     *)
(* died, and past Redis. The socket may hold a message for ever ...        *)
FairSpec == Spec /\ WF_vars(Loop) /\ WF_vars(Get \/ TimedOut) /\ SF_vars(Get)

(* ... take it or raise in the end, or take it.                            *)
SocketReturns == WF_vars(Sent \/ SendRaises)
ClientReads   == WF_vars(Sent)
-----------------------------------------------------------------------------
(* sorted(): the places of s in the order of what they hold.               *)
Ascending(s) ==
  {place \in Bijection(DOMAIN s, DOMAIN s) :
     \A i, j \in DOMAIN s : i <= j => s[place[i]] <= s[place[j]]}

(* Mutant: the rank rounded up.                                            *)
IndexUp(n, p) == IF ((n * p) + 99) \div 100 < n - 1 THEN ((n * p) + 99) \div 100 ELSE n - 1

(* LatencyTracker.percentile and the percentile of get_metrics_summary:    *)
(* the sample at index min(int(n * p / 100), n - 1).                       *)
Index(n, p) == IF (n * p) \div 100 < n - 1 THEN (n * p) \div 100 ELSE n - 1

Percentile(s, p) ==
  LET sorted == CHOOSE place \in Ascending(s) : TRUE
  IN  s[sorted[Index(Len(s), p) + 1]]

(* overall_p50_ms and overall_p99_ms of two clients.                       *)
Overall(s, t, p) == Percentile(s \o t, p)
-----------------------------------------------------------------------------
(* Every message offered is sent, dropped and counted, still here, or lost *)
(* with the socket: what /metrics reports as sent and dropped adds up at   *)
(* every moment, whichever policy, exception and cancellation, and only    *)
(* what was sent has a latency.                                            *)
StatsAddUp ==
  /\ offered = sent + dropped + Len(queue) + Len(hand) + failed
  /\ Len(samples) <= sent

(* A client whose last price of the symbol was d comes to have x when the  *)
(* messages w have arrived.                                                *)
Shows(w, d, x) ==
  IF Tracked(w) = {} THEN x = d
  ELSE \E i \in Tracked(w) : (\A j \in Tracked(w) : j <= i) /\ x = w[i].bid

WillSee(x) == Shows(hand \o queue, seen, x)

Near(b, x) == b = x \/ 100 * Distance(b, x) < filter.change * x

(* min_change_pct bounds how far the client is from the market: however    *)
(* many small changes are withheld one after the other, the newest price   *)
(* (of those within the spread limit) is within the threshold of the last  *)
(* price the client has or will have, unless the full queue cost it that   *)
(* one.                                                                    *)
WithinBand ==
  newest # Absent /\ ~lost /\ ~disconnected => \E x \in Prices : WillSee(x) /\ Near(newest, x)

(* Why it is: what the filter compares with is what the client will see    *)
(* last, across snapshots, withheld events, drops and new filters.         *)
LastPriceIsSeen ==
  ~lost /\ ~disconnected =>
    /\ lastPrice # Absent => WillSee(lastPrice)
    /\ newest # Absent => lastPrice # Absent /\ Near(newest, lastPrice)

(* The inductive invariant.                                                *)
SessionInv == SessionTypeOK /\ StatsAddUp /\ LastPriceIsSeen

(* A reported percentile is one: at most p percent of the samples are      *)
(* below it, and more than p percent are not above it.                     *)
Below(s, x) == Cardinality({i \in DOMAIN s : s[i] < x})
UpTo(s, x) == Cardinality({i \in DOMAIN s : s[i] <= x})

Ranks(s, p) ==
  LET x == Percentile(s, p) IN
  100 * Below(s, x) <= p * Len(s) /\ 100 * UpTo(s, x) > p * Len(s)

(* The overall one of two clients is between their own.                    *)
Between(s, t, p) ==
  LET both == {Percentile(s, p), Percentile(t, p)} IN
  (\E x \in both : x <= Overall(s, t, p)) /\ (\E x \in both : Overall(s, t, p) <= x)

(* What /metrics and /metrics/summary report as p50 and p99 of the samples *)
(* are percentiles, at every fill level of the window, and however the     *)
(* samples are spread over two clients.                                    *)
PercentilesReported ==
  samples # <<>> => \A p \in {50, 99} :
    /\ Ranks(samples, p)
    /\ \A k \in 1 .. Len(samples) - 1 :
         Between(SubSeq(samples, 1, k), SubSeq(samples, k + 1, Len(samples)), p)

(* A client of the DISCONNECT policy that has lost DropLimit messages is   *)
(* written no more, whether its losses came from events, replies or a      *)
(* refused subscription, by a writer that is waiting or sending then,      *)
(* whatever is left in its queue, and without close(): its socket only has *)
(* to return or raise.                                                     *)
SlowClientStops ==
  SocketReturns =>
    (policy = "disconnect" /\ dropped >= DropLimit ~> wpc \in {"done", "closed"})

(* A client that reads gets what was queued for it: no timeout of the      *)
(* writer's get() strands a message.  Offers end with MaxOffered, so the   *)
(* queue empties once nothing more comes.                                  *)
QueueDrains == ClientReads => (queue # <<>> ~> queue = <<>> \/ disconnected)
=============================================================================
