----------------------------- MODULE TickHistory -----------------------------
(***************************************************************************)
(* TickHistory: GET /history/{symbol} of the gateway, composed with the    *)
(* TickWriter that fills the table it reads, and the topic that it reads.  *)
(*                                                                         *)
(* A request is one call of get_history: it is answered at once when its   *)
(* parameters are bad, else it opens the pool if there is none, reads the  *)
(* rows of one range and answers.  A step is the code between two awaits.  *)
(* Each request is asked once.                                             *)
(***************************************************************************)
EXTENDS TickWriter, SequencesExt

CONSTANTS
  Request,          \* the requests
  Param,            \* bound: what a client asks for
  Absent,           \* a parameter that is not in the query string
  NotANumber,       \* one that int() rejects
  NotATime,         \* one that datetime.fromtimestamp() rejects
  Failures,         \* bound: what a failed query is answered, of 500 (unexpected),
                    \* 503 (unavailable) and 504 (timed out)
  DefaultLimit,     \* DEFAULT_HISTORY_LIMIT
  MaxHistoryLimit   \* MAX_HISTORY_LIMIT

ASSUME HistoryAssumption ==
  /\ IsFiniteSet(Request)
  /\ DefaultLimit \in Nat \ {0} /\ MaxHistoryLimit \in Nat \ {0}
  /\ Failures \subseteq {500, 503, 504}
  /\ Param \subseteq [symbol : Symbol, from : Nat \cup {Absent, NotANumber, NotATime},
                      to : Nat \cup {Absent, NotANumber, NotATime},
                      limit : Nat \cup {Absent, NotANumber}]

VARIABLES
  pools,    \* how many pools the store has opened; it keeps the last in _pool
  step,     \* where each request is
  query,    \* what it asks for
  answer,   \* the response: status and ticks
  since     \* history: the group's offsets and the requests answered when
            \* the request came

historyVars == <<pools, step, query, answer, since>>
allVars     == <<vars, historyVars>>

Status == {200, 400, 404} \cup Failures
NoAnswer == [status |-> 0, ticks |-> <<>>]
NoQuery  == [symbol |-> Absent]

HistoryTypeOK ==
  /\ pools \in 0 .. Cardinality(Request)
  /\ step \in [Request -> {"idle", "connect", "fetch", "done"}]
  /\ query \in [Request -> Param \cup {NoQuery}]
  /\ answer \in [Request -> [status : {0} \cup Status, ticks : Seq(Record)]]
  /\ since \in [Request -> [committed : [Partition -> Nat], answered : SUBSET Request]]
  /\ \A r \in Request :
       /\ step[r] = "done" <=> answer[r].status \in Status
       /\ Len(answer[r].ticks) <= MaxHistoryLimit
       /\ answer[r].status = 200 <=> answer[r].ticks # <<>>
       /\ since[r].answered \subseteq {s \in Request : step[s] = "done"}

HistoryInit ==
  /\ Init
  /\ pools = 0
  /\ step = [r \in Request |-> "idle"]
  /\ query = [r \in Request |-> NoQuery]
  /\ answer = [r \in Request |-> NoAnswer]
  /\ since = [r \in Request |-> [committed |-> [p \in Partition |-> 0], answered |-> {}]]
-----------------------------------------------------------------------------
(* _parse_history_params: which requests are answered 400.                 *)
BadParams(q) ==
  \/ Absent \in {q.from, q.to}
  \/ NotANumber \in {q.from, q.to, q.limit}
  \/ NotATime \in {q.from, q.to}
  \/ q.from > q.to
  \/ q.limit = 0

RowLimit(q) == IF q.limit = Absent THEN DefaultLimit ELSE q.limit

Finish(r, status, ticks) ==
  /\ step' = [step EXCEPT ![r] = "done"]
  /\ answer' = [answer EXCEPT ![r] = [status |-> status, ticks |-> ticks]]

Ask(r, q) ==
  /\ step[r] = "idle"
  /\ query' = [query EXCEPT ![r] = q]
  /\ since' = [since EXCEPT ![r] = [committed |-> committed,
                                    answered |-> {s \in Request : step[s] = "done"}]]
  /\ IF BadParams(q)
     THEN Finish(r, 400, <<>>)
     ELSE /\ step' = [step EXCEPT ![r] = IF pools = 0 THEN "connect" ELSE "fetch"]
          /\ UNCHANGED answer
  /\ UNCHANGED pools

(* connect() saw no pool before its await, and stores the one it got.      *)
Connected(r) ==
  /\ step[r] = "connect"
  /\ step' = [step EXCEPT ![r] = "fetch"]
  /\ pools' = pools + 1
  /\ UNCHANGED <<query, answer, since>>

(* The database is unavailable, the query times out, or anything else.     *)
QueryRaises(r) ==
  /\ step[r] \in {"connect", "fetch"}
  /\ \E status \in Failures : Finish(r, status, <<>>)
  /\ UNCHANGED <<pools, query, since>>

(* Mutants: the order of the sequence numbers alone, and newest first.     *)
BeforeBySeq(a, b) == a.seq < b.seq \/ (a.seq = b.seq /\ a.event_ts < b.event_ts)

BeforeNewest(a, b) == a.event_ts > b.event_ts \/ (a.event_ts = b.event_ts /\ a.seq > b.seq)

(* ORDER BY event_time ASC, seq ASC.                                       *)
Before(a, b) == a.event_ts < b.event_ts \/ (a.event_ts = b.event_ts /\ a.seq < b.seq)

Ordered(S) == {s \in SetToSeqs(S) : \A i, j \in DOMAIN s : i < j => ~Before(s[j], s[i])}

(* Mutant: the limit of the client is the limit of the query.              *)
ClampNone(limit) == limit

(* max(1, min(limit, MAX_HISTORY_LIMIT)), limit being positive.            *)
Clamp(limit) == IF limit < MaxHistoryLimit THEN limit ELSE MaxHistoryLimit

InRange(e, q) == e.symbol = q.symbol /\ q.from <= e.event_ts /\ e.event_ts <= q.to

First(s, n) == SubSeq(s, 1, IF Len(s) < n THEN Len(s) ELSE n)

Matching(q) == {e \in table : InRange(e, q)}

FetchTicks(q) == {First(s, Clamp(RowLimit(q))) : s \in Ordered(Matching(q))}

Fetched(r) ==
  /\ step[r] = "fetch"
  /\ \E ticks \in FetchTicks(query[r]) : Finish(r, IF ticks = <<>> THEN 404 ELSE 200, ticks)
  /\ UNCHANGED <<pools, query, since>>

(* lifespan: the gateway closes the store when its requests are answered,  *)
(* and the next one starts without a pool.                                 *)
GatewayRestarts ==
  /\ pools > 0
  /\ \A r \in Request : step[r] \in {"idle", "done"}
  /\ pools' = 0
  /\ UNCHANGED <<step, query, answer, since>>

Serve ==
  \/ \E r \in Request, q \in Param : Ask(r, q)
  \/ \E r \in Request : Connected(r)
  \/ \E r \in Request : QueryRaises(r)
  \/ \E r \in Request : Fetched(r)
  \/ GatewayRestarts

HistoryNext ==
  \/ Next /\ UNCHANGED historyVars
  \/ Serve /\ UNCHANGED vars

HistorySpec == HistoryInit /\ [][HistoryNext]_allVars
-----------------------------------------------------------------------------
Ok(r) == answer[r].status \in {200, 404}

(* The order of time.  It is not the order of the topic.                   *)
Earlier(a, b) == a.event_ts < b.event_ts \/ (a.event_ts = b.event_ts /\ a.seq < b.seq)

(* An answer has no holes that the limit did not make: there are so many   *)
(* first records of the topic that it has, in the order of time, all the   *)
(* events of its range among them, or when it is full those that come      *)
(* before the others.  That is so although TickWriter inserts late, twice  *)
(* or after a crash, and although the clock steps back, numbers start      *)
(* again and events come late or twice, so that the next event stored may  *)
(* belong anywhere in the page.                                            *)
IsTopicCut(ticks, q) ==
  /\ \A i, j \in DOMAIN ticks : i < j => Earlier(ticks[i], ticks[j])
  /\ \E n \in 0 .. Len(log[PartitionOf[q.symbol]]) :
       LET want == {e \in Events(PartitionOf[q.symbol], n) : InRange(e, q)}
           got  == ToSet(ticks)
       IN  /\ got \subseteq want
           /\ \A e \in want \ got : /\ Len(ticks) = Clamp(RowLimit(q))
                                   /\ \A g \in got : Earlier(g, e)

AnswerIsTopicCut ==
  \A r \in Request : Ok(r) => IsTopicCut(answer[r].ticks, query[r])

(* r was answered 200 or 404 after s was, to the same question.            *)
AskedAgain(r, s) ==
  Ok(r) /\ Ok(s) /\ s \in since[r].answered /\ query[r] = query[s]

(* What was answered once is not withdrawn: a later answer to the same     *)
(* question has it too, or is full of ticks of an earlier time, which a    *)
(* clock that stepped back let in.                                         *)
NeverWithdrawn ==
  \A r, s \in Request : AskedAgain(r, s) =>
    \A e \in ToSet(answer[s].ticks) :
      \/ e \in ToSet(answer[r].ticks)
      \/ /\ Len(answer[r].ticks) = Clamp(RowLimit(query[r]))
         /\ \A g \in ToSet(answer[r].ticks) : Earlier(g, e)

(* The topic holds the events of a symbol in the order of time: the clock  *)
(* went on, the producer sent nothing late or twice.                       *)
InFeedOrder(y) ==
  \A i, j \in Offsets(PartitionOf[y]) :
    LET a == RecordAt(PartitionOf[y], i)
        b == RecordAt(PartitionOf[y], j)
    IN  (/\ i < j /\ a # Malformed /\ b # Malformed
         /\ a.symbol = y /\ b.symbol = y) => Earlier(a, b)

(* Then a later answer to the same question continues the earlier one, so  *)
(* that a client may page by what it has seen, even when the feed was      *)
(* restarted and numbers from 1 again.                                     *)
PagesContinue ==
  \A r, s \in Request :
    (AskedAgain(r, s) /\ InFeedOrder(query[r].symbol))
      => IsPrefix(answer[s].ticks, answer[r].ticks)

(* Why it does: the i-th tick answered is the i-th that the query wants of *)
(* the topic.                                                              *)
TickAt(q, o) == RecordAt(PartitionOf[q.symbol], o)
Wanted(q) == {o \in Offsets(PartitionOf[q.symbol]) :
                IsEvent(PartitionOf[q.symbol], o) /\ InRange(TickAt(q, o), q)}

IsTopicPrefix(ticks, q) ==
  \A i \in DOMAIN ticks : \E o \in Wanted(q) :
    ticks[i] = TickAt(q, o) /\ Cardinality({w \in Wanted(q) : w < o}) = i - 1

OrderedIsPrefix ==
  \A r \in Request : (Ok(r) /\ InFeedOrder(query[r].symbol)) =>
                      IsTopicPrefix(answer[r].ticks, query[r])

(* What TickWriter had committed when the request came is in the answer,   *)
(* unless the limit cut it off: 404 is no answer for a tick that Kafka     *)
(* will not deliver to the writer again.                                   *)
CommittedIsVisible ==
  \A r \in Request : Ok(r) =>
    LET q == query[r]
        p == PartitionOf[q.symbol]
    IN  \A o \in Offsets(p) :
          (o < since[r].committed[p] /\ IsEvent(p, o) /\ InRange(RecordAt(p, o), q)) =>
            \/ RecordAt(p, o) \in ToSet(answer[r].ticks)
            \/ Len(answer[r].ticks) = Clamp(RowLimit(q))

(* The inductive invariant: besides, a query is run only for parameters    *)
(* that passed, what was answered is still in the table and within the     *)
(* limit, and only a request that got its connection opened a pool.        *)
QueryChecked ==
  \A r \in Request : step[r] \in {"connect", "fetch"} \/ Ok(r) =>
                       query[r] \in Param /\ ~BadParams(query[r])

AnswerStored ==
  \A r \in Request : Ok(r) =>
    /\ ToSet(answer[r].ticks) \subseteq table
    /\ Len(answer[r].ticks) <= Clamp(RowLimit(query[r]))

SinceBehind == \A r \in Request : \A p \in Partition : since[r].committed[p] <= committed[p]

PoolsOpened == pools <= Cardinality({r \in Request : step[r] \in {"fetch", "done"}})

HistoryInv ==
  /\ HistoryTypeOK
  /\ QueryChecked
  /\ AnswerStored
  /\ SinceBehind
  /\ PoolsOpened
  /\ AnswerIsTopicCut
  /\ NeverWithdrawn
  /\ OrderedIsPrefix
  /\ PagesContinue
  /\ CommittedIsVisible
=============================================================================
