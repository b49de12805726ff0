------------------------- MODULE ClientSession_proofs -------------------------
(***************************************************************************)
(* Proofs about ClientSession, for any prices, filters, policies, queue    *)
(* size and window of samples.                                             *)
(***************************************************************************)
EXTENDS ClientSession, FiniteSetTheorems, TLAPS

USE DEF Absent, NoLimit, filterVars, queueVars, writerVars

(* Theorem: the index that LatencyTracker.percentile and                   *)
(* get_metrics_summary take is inside the sorted samples, and leaves at    *)
(* most p percent of them before it, and more than p percent up to it.     *)
THEOREM PercentileIndex ==
  ASSUME NEW n \in Nat \ {0}, NEW p \in 0 .. 99
  PROVE  /\ Index(n, p) \in 0 .. n - 1
         /\ 100 * Index(n, p) <= n * p
         /\ n * p < 100 * (Index(n, p) + 1)
PROOF
<1>1. n * p \in Nat /\ n * p <= 99 * n
  OBVIOUS
<1>2. \A x \in Nat : /\ x \div 100 \in Nat
                     /\ 100 * (x \div 100) <= x
                     /\ x < 100 * ((x \div 100) + 1)
  OBVIOUS
<1> DEFINE d == (n * p) \div 100
<1>3. d \in Nat /\ 100 * d <= n * p /\ n * p < 100 * (d + 1)
  BY <1>1, <1>2
<1>4. d <= n - 1
  <2> DEFINE x == n * p
  <2>1. x \in Nat /\ x <= 99 * n /\ 100 * d <= x
    BY <1>1, <1>3
  <2> HIDE DEF x, d
  <2> QED
    BY <2>1, <1>3
<1>5. Index(n, p) = IF d < n - 1 THEN d ELSE n - 1
  BY DEF Index
<1>6. Index(n, p) = d
  <2> HIDE DEF d
  <2> QED
    BY <1>3, <1>4, <1>5
<1> QED
  BY <1>3, <1>4, <1>6
-----------------------------------------------------------------------------
(* What a client comes to have, when the messages on their way change.     *)
LEMMA ShownAppended ==
  ASSUME NEW w \in Seq(Message), NEW m \in Message, NEW d, m.kind # "error"
  PROVE  Shows(Append(w, m), d, m.bid)
PROOF
<1> DEFINE v == Append(w, m)
<1>1. v \in Seq(Message) /\ Len(v) = Len(w) + 1 /\ v[Len(v)] = m
  OBVIOUS
<1>2. Len(v) \in Tracked(v)
  BY <1>1 DEF Tracked
<1>3. \A j \in Tracked(v) : j <= Len(v)
  BY <1>1 DEF Tracked
<1> QED
  BY <1>1, <1>2, <1>3 DEF Shows

LEMMA ShownBeforeError ==
  ASSUME NEW w \in Seq(Message), NEW m \in Message, NEW d, NEW x,
         m.kind = "error", Shows(w, d, x)
  PROVE  Shows(Append(w, m), d, x)
PROOF
<1> DEFINE v == Append(w, m)
<1>1. /\ DOMAIN v = 1 .. Len(w) + 1 /\ DOMAIN w = 1 .. Len(w) /\ Len(w) \in Nat
      /\ v[Len(w) + 1] = m /\ \A i \in 1 .. Len(w) : v[i] = w[i]
  OBVIOUS
<1> HIDE DEF v
<1>2. Tracked(v) = Tracked(w)
  BY <1>1 DEF Tracked
<1>3. \A i \in Tracked(w) : v[i] = w[i]
  BY <1>1 DEF Tracked
<1>4. Shows(v, d, x)
  BY <1>2, <1>3 DEF Shows
<1> QED
  BY <1>4 DEF v

(* The oldest message of the queue may go when it is no message of the     *)
(* symbol, or a later one is.                                              *)
LEMMA ShownWithoutOldest ==
  ASSUME NEW h \in Seq(Message), NEW q \in Seq(Message), q # <<>>, NEW d, NEW x,
         Tracked(q) = {} \/ Tracked(Tail(q)) # {}, Shows(h \o q, d, x)
  PROVE  Shows(h \o Tail(q), d, x)
PROOF
<1> DEFINE t == Tail(q)  v == h \o t  w == h \o q
<1>1. /\ Len(t) = Len(q) - 1 /\ Len(q) \in Nat \ {0} /\ Len(h) \in Nat
      /\ DOMAIN t = 1 .. Len(q) - 1 /\ DOMAIN q = 1 .. Len(q)
      /\ \A i \in 1 .. Len(q) - 1 : t[i] = q[i + 1]
  OBVIOUS
<1>2. /\ DOMAIN w = 1 .. Len(h) + Len(q) /\ DOMAIN v = 1 .. Len(h) + Len(q) - 1
      /\ \A i \in 1 .. Len(h) : w[i] = h[i] /\ v[i] = h[i]
      /\ \A i \in 1 .. Len(q) : w[Len(h) + i] = q[i]
      /\ \A i \in 1 .. Len(q) - 1 : v[Len(h) + i] = t[i]
  BY <1>1
<1> HIDE DEF t, v, w
<1>3. \A i \in 1 .. Len(q) - 1 : v[Len(h) + i] = w[Len(h) + i + 1]
  <2> TAKE i \in 1 .. Len(q) - 1
  <2>1. i + 1 \in 1 .. Len(q) /\ Len(h) + (i + 1) = Len(h) + i + 1
    BY <1>1
  <2> QED
    BY <1>1, <1>2, <2>1
<1>4. Shows(w, d, x)
  BY DEF w
<1>5. CASE Tracked(q) = {}
  <2>1. Tracked(w) = {i \in 1 .. Len(h) : h[i].kind # "error"}
    <3>1. \A i \in Tracked(w) : i \in 1 .. Len(h)
      <4> SUFFICES ASSUME NEW i \in Tracked(w), i > Len(h) PROVE FALSE
        BY <1>1, <1>2 DEF Tracked
      <4>1. i - Len(h) \in 1 .. Len(q) /\ w[i] = q[i - Len(h)]
        <5>1. i \in 1 .. Len(h) + Len(q)
          BY <1>2 DEF Tracked
        <5>2. i - Len(h) \in 1 .. Len(q) /\ Len(h) + (i - Len(h)) = i
          BY <5>1, <1>1
        <5> QED
          BY <5>2, <1>2
      <4> QED
        BY <4>1, <1>1, <1>5 DEF Tracked
    <3> QED
      BY <3>1, <1>1, <1>2 DEF Tracked
  <2>2. Tracked(v) = {i \in 1 .. Len(h) : h[i].kind # "error"}
    <3>1. \A i \in Tracked(v) : i \in 1 .. Len(h)
      <4> SUFFICES ASSUME NEW i \in Tracked(v), i > Len(h) PROVE FALSE
        BY <1>1, <1>2 DEF Tracked
      <4>1. i \in 1 .. Len(h) + Len(q) - 1
        BY <1>2 DEF Tracked
      <4>2. PICK k \in 1 .. Len(q) - 1 : i = Len(h) + k
        <5>1. i - Len(h) \in 1 .. Len(q) - 1 /\ i = Len(h) + (i - Len(h))
          BY <4>1, <1>1
        <5> QED
          BY <5>1
      <4>3. v[i] = t[k] /\ t[k] = q[k + 1] /\ k + 1 \in 1 .. Len(q)
        BY <4>2, <1>1, <1>2
      <4> QED
        BY <4>3, <1>1, <1>5 DEF Tracked
    <3> QED
      BY <3>1, <1>1, <1>2 DEF Tracked
  <2>3. \A i \in Tracked(w) : v[i] = w[i]
    BY <2>1, <1>2
  <2>4. Shows(v, d, x)
    BY <1>4, <2>1, <2>2, <2>3 DEF Shows
  <2> QED
    BY <2>4 DEF v, t
<1>6. CASE Tracked(t) # {}
  <2>1. PICK k \in 1 .. Len(q) - 1 : t[k].kind # "error"
    BY <1>1, <1>6 DEF Tracked
  <2>2. Len(h) + k + 1 \in Tracked(w) /\ Len(h) + k \in Tracked(v)
    <3>1. Len(h) + k + 1 \in 1 .. Len(h) + Len(q) /\ Len(h) + k \in 1 .. Len(h) + Len(q) - 1
      BY <1>1
    <3> QED
      BY <3>1, <2>1, <1>2, <1>3 DEF Tracked
  <2>3. PICK i \in Tracked(w) : (\A j \in Tracked(w) : j <= i) /\ x = w[i].bid
    BY <1>4, <2>2 DEF Shows
  <2>4. i \in 1 .. Len(h) + Len(q) /\ i >= Len(h) + k + 1
    BY <1>2, <2>2, <2>3 DEF Tracked
  <2>5. i - 1 \in Tracked(v) /\ v[i - 1] = w[i]
    <3>1. i - 1 - Len(h) \in 1 .. Len(q) - 1 /\ Len(h) + (i - 1 - Len(h)) = i - 1
          /\ Len(h) + (i - 1 - Len(h)) + 1 = i
      BY <2>4, <1>1
    <3>2. v[i - 1] = w[i]
      BY <3>1, <1>3
    <3>3. i - 1 \in 1 .. Len(h) + Len(q) - 1
      BY <2>4, <1>1
    <3> QED
      BY <2>3, <3>2, <3>3, <1>2 DEF Tracked
  <2>6. ASSUME NEW j \in Tracked(v) PROVE j <= i - 1
    <3>1. j \in 1 .. Len(h) + Len(q) - 1
      BY <1>2 DEF Tracked
    <3>2. CASE j <= Len(h)
      BY <2>4, <3>1, <3>2, <1>1
    <3>3. CASE j > Len(h)
      <4>1. j - Len(h) \in 1 .. Len(q) - 1 /\ Len(h) + (j - Len(h)) = j
            /\ Len(h) + (j - Len(h)) + 1 = j + 1 /\ j + 1 \in 1 .. Len(h) + Len(q)
        BY <3>1, <3>3, <1>1
      <4>2. v[j] = w[j + 1]
        BY <4>1, <1>3
      <4>3. j + 1 \in Tracked(w)
        BY <4>1, <4>2, <1>2 DEF Tracked
      <4> QED
        BY <4>3, <2>3, <2>4, <3>1
    <3> QED
      BY <3>1, <3>2, <3>3, <1>1
  <2>7. Shows(v, d, x)
    BY <2>3, <2>5, <2>6 DEF Shows
  <2> QED
    BY <2>7 DEF v, t
<1> QED
  BY <1>5, <1>6 DEF t

(* A message sent is one the client has.                                   *)
LEMMA ShownSent ==
  ASSUME NEW m \in Message, NEW q \in Seq(Message), NEW d, NEW x, Shows(<<m>> \o q, d, x)
  PROVE  Shows(q, IF m.kind = "error" THEN d ELSE m.bid, x)
PROOF
<1> DEFINE w == <<m>> \o q  e == IF m.kind = "error" THEN d ELSE m.bid
<1>1. /\ DOMAIN w = 1 .. Len(q) + 1 /\ DOMAIN q = 1 .. Len(q) /\ Len(q) \in Nat
      /\ w[1] = m /\ \A i \in 1 .. Len(q) : w[i + 1] = q[i]
  OBVIOUS
<1>2. Shows(w, d, x)
  OBVIOUS
<1> HIDE DEF w
<1>3. ASSUME NEW j \in Tracked(w), j # 1 PROVE j - 1 \in Tracked(q) /\ w[j] = q[j - 1]
  <2>1. j - 1 \in 1 .. Len(q) /\ j = (j - 1) + 1
    BY <1>1, <1>3 DEF Tracked
  <2> QED
    BY <2>1, <1>1 DEF Tracked
<1>4. ASSUME NEW j \in Tracked(q) PROVE j \in 1 .. Len(q) /\ j + 1 \in Tracked(w)
  BY <1>1 DEF Tracked
<1>5. CASE Tracked(q) = {}
  <2>1. Tracked(w) = {} \/ Tracked(w) = {1}
    BY <1>3, <1>5
  <2>2. 1 \in Tracked(w) <=> m.kind # "error"
    BY <1>1 DEF Tracked
  <2>3. x = e
    BY <1>1, <1>2, <2>1, <2>2 DEF Shows
  <2> QED
    BY <1>5, <2>3 DEF Shows
<1>6. CASE Tracked(q) # {}
  <2>1. PICK k \in Tracked(q) : TRUE
    BY <1>6
  <2>2. PICK i \in Tracked(w) : (\A j \in Tracked(w) : j <= i) /\ x = w[i].bid
    BY <1>2, <1>4, <2>1 DEF Shows
  <2>3. i \in 1 .. Len(q) + 1 /\ i # 1
    <3>1. k + 1 <= i /\ k \in 1 .. Len(q)
      BY <1>4, <2>1, <2>2
    <3>2. i \in 1 .. Len(q) + 1
      BY <1>1, <2>2 DEF Tracked
    <3> QED
      BY <3>1, <3>2
  <2>4. i - 1 \in Tracked(q) /\ x = q[i - 1].bid
    BY <1>3, <2>2, <2>3
  <2>5. ASSUME NEW j \in Tracked(q) PROVE j <= i - 1
    <3>1. j \in 1 .. Len(q) /\ j + 1 <= i
      BY <1>4, <2>2
    <3> QED
      BY <3>1, <2>3, <1>1
  <2> QED
    BY <1>6, <2>4, <2>5 DEF Shows
<1> QED
  BY <1>5, <1>6
-----------------------------------------------------------------------------
(* The queue after enqueue, whatever was full and whichever policy.        *)
LEMMA EnqueueStep ==
  ASSUME SessionTypeOK, NEW m \in Message, Enqueue(m)
  PROVE  /\ queue' \in Seq(Message) /\ Len(queue') <= OutMax
         /\ offered' = offered + 1
         /\ \E d \in {0, 1} : dropped' = dropped + d /\ Len(queue') = Len(queue) + 1 - d
PROOF
<1>1. /\ queue \in Seq(Message) /\ Len(queue) \in Nat /\ Len(queue) <= OutMax
      /\ OutMax \in Nat \ {0} /\ dropped \in Nat /\ offered \in Nat
  BY SessionAssumption DEF SessionTypeOK
<1>2. /\ dropped' = dropped + (IF Full THEN 1 ELSE 0)
      /\ offered' = offered + 1
  BY DEF Enqueue
<1>3. CASE ~Full
  <2>1. queue' = Append(queue, m)
    BY <1>3 DEF Enqueue
  <2>2. Len(queue) < OutMax
    BY <1>1, <1>3 DEF Full
  <2> QED
    BY <1>1, <1>2, <1>3, <2>1, <2>2
<1>4. CASE Full /\ Accepts
  <2>1. queue' = Append(Tail(queue), m)
    BY <1>4 DEF Enqueue
  <2>2. queue # <<>>
    BY <1>1, <1>4 DEF Full
  <2>3. Tail(queue) \in Seq(Message) /\ Len(Tail(queue)) = Len(queue) - 1
    BY <1>1, <2>2
  <2> QED
    BY <1>1, <1>2, <1>4, <2>1, <2>3
<1>5. CASE Full /\ ~Accepts
  <2>1. queue' = queue
    BY <1>5 DEF Enqueue
  <2> QED
    BY <1>1, <1>2, <1>5, <2>1
<1> QED
  BY <1>3, <1>4, <1>5

LEMMA EnqueueDisconnects ==
  ASSUME SessionTypeOK, NEW m \in Message, Enqueue(m)
  PROVE  disconnected' \in BOOLEAN /\ (disconnected => disconnected')
PROOF
  BY DEF SessionTypeOK, Enqueue

(* The messages the handler and the dispatch loop offer.                   *)
LEMMA Messages ==
  /\ Error \in Message
  /\ \A k \in {"event", "snapshot"}, b \in Prices : [kind |-> k, bid |-> b] \in Message
  /\ \A m \in Message : m.kind # "error" => m.bid \in Prices
PROOF
  BY DEF Error, Message

(* The hand holds nothing, or the message that is being sent.              *)
LEMMA Hand ==
  ASSUME SessionTypeOK
  PROVE  /\ hand \in Seq(Message) /\ Len(hand) \in Nat
         /\ wpc = "send" => /\ hand[1] \in Message /\ Len(hand) = 1
                            /\ hand = <<hand[1]>>
         /\ wpc # "send" => hand = <<>> /\ Len(hand) = 0
PROOF
<1>1. CASE hand = <<>>
  BY <1>1 DEF SessionTypeOK
<1>2. ASSUME NEW m \in Message, hand = <<m>>
      PROVE  /\ hand \in Seq(Message) /\ Len(hand) = 1 /\ hand[1] = m /\ wpc = "send"
  <2>1. hand # <<>>
    BY <1>2
  <2> QED
    BY <1>2, <2>1 DEF SessionTypeOK
<1> QED
  BY <1>1, <1>2 DEF SessionTypeOK

(* A step of the handler or of the dispatch loop.                          *)
LEMMA OfferedTypeStep ==
  ASSUME SessionTypeOK, StatsAddUp, Offered
  PROVE  SessionTypeOK' /\ StatsAddUp'
PROOF
<1>1. ASSUME UNCHANGED <<policy, writerVars>>,
             queue' \in Seq(Message), Len(queue') <= OutMax,
             disconnected' \in BOOLEAN,
             NEW n \in Nat, NEW d \in Nat, offered' = offered + n, dropped' = dropped + d,
             Len(queue') = Len(queue) + n - d,
             filter' \in Filters \cup {NoFilter}, lost' \in BOOLEAN,
             lastPrice' \in Prices \cup {Absent}, newest' \in Prices \cup {Absent}
      PROVE  SessionTypeOK' /\ StatsAddUp'
  <2>1. SessionTypeOK'
    <3>1. dropped' \in Nat /\ offered' \in Nat
      BY <1>1 DEF SessionTypeOK
    <3> QED
      BY <1>1, <3>1 DEF SessionTypeOK
  <2>2. /\ sent \in Nat /\ failed \in Nat /\ dropped \in Nat /\ offered \in Nat
        /\ Len(queue) \in Nat
    BY DEF SessionTypeOK
  <2>3. Len(hand) \in Nat /\ Len(queue') \in Nat
    BY <1>1, Hand
  <2>4. /\ hand' = hand /\ sent' = sent /\ failed' = failed /\ samples' = samples
    BY <1>1
  <2>5. offered' = sent' + dropped' + Len(queue') + Len(hand') + failed'
    <3>1. offered = sent + dropped + Len(queue) + Len(hand) + failed
      BY DEF StatsAddUp
    <3>2. offered + n = sent + (dropped + d) + (Len(queue) + n - d) + Len(hand) + failed
      BY <1>1, <2>2, <2>3, <3>1
    <3> QED
      BY <1>1, <2>4, <3>2
  <2> QED
    BY <2>1, <2>4, <2>5 DEF StatsAddUp
<1>2. ASSUME NEW m \in Message, Enqueue(m), UNCHANGED <<policy, writerVars>>,
             filter' \in Filters \cup {NoFilter}, lost' \in BOOLEAN,
             lastPrice' \in Prices \cup {Absent}, newest' \in Prices \cup {Absent}
      PROVE  SessionTypeOK' /\ StatsAddUp'
  <2>1. /\ queue' \in Seq(Message) /\ Len(queue') <= OutMax
        /\ offered' = offered + 1
    BY <1>2, EnqueueStep
  <2>2. PICK d \in {0, 1} : dropped' = dropped + d /\ Len(queue') = Len(queue) + 1 - d
    BY <1>2, EnqueueStep
  <2>3. disconnected' \in BOOLEAN
    BY <1>2, EnqueueDisconnects
  <2> QED
    BY <1>1, <1>2, <2>1, <2>2, <2>3
<1>3. /\ filter \in Filters \cup {NoFilter}
      /\ lastPrice \in Prices \cup {Absent} /\ newest \in Prices \cup {Absent}
      /\ queue \in Seq(Message) /\ Len(queue) <= OutMax
      /\ dropped \in Nat /\ offered \in Nat
  BY DEF SessionTypeOK
<1>4. lost \in BOOLEAN /\ disconnected \in BOOLEAN
  BY DEF SessionTypeOK
<1>5. CASE Reply
  <2>1. Error \in Message
    BY Messages
  <2>2. Enqueue(Error) /\ UNCHANGED <<policy, filter, lastPrice, newest, writerVars>>
    BY <1>5 DEF Reply
  <2>3. lost' \in BOOLEAN
    BY <1>4, <1>5 DEF Reply
  <2> QED
    BY <1>2, <1>3, <2>1, <2>2, <2>3
<1>6. ASSUME NEW b \in Prices, NEW spread \in Spreads, EventDelivered(b, spread)
      PROVE  SessionTypeOK' /\ StatsAddUp'
  <2>1. [kind |-> "event", bid |-> b] \in Message
    BY Messages
  <2>2. /\ Enqueue([kind |-> "event", bid |-> b])
        /\ lastPrice' = (IF Accepts THEN b ELSE lastPrice)
        /\ newest' = b /\ UNCHANGED <<policy, filter, writerVars>>
    BY <1>6 DEF EventDelivered, Offer
  <2>3. lost' \in BOOLEAN
    BY <1>6 DEF EventDelivered
  <2> QED
    BY <1>2, <1>3, <2>1, <2>2, <2>3
<1>7. ASSUME NEW b \in Prices, Reseed(b)
      PROVE  SessionTypeOK' /\ StatsAddUp'
  <2>1. [kind |-> "snapshot", bid |-> b] \in Message
    BY Messages
  <2>2. /\ Enqueue([kind |-> "snapshot", bid |-> b])
        /\ lastPrice' = (IF Accepts THEN b ELSE lastPrice)
        /\ newest' = (IF Accepts THEN Absent ELSE newest)
        /\ UNCHANGED <<policy, filter, writerVars>>
    BY <1>7 DEF Reseed, Offer
  <2>3. lost' \in BOOLEAN
    BY <1>4, <1>7 DEF Reseed
  <2> QED
    BY <1>2, <1>3, <2>1, <2>2, <2>3
<1>8. ASSUME NEW f \in Filters, NEW b \in Prices, Subscribe(f, b)
      PROVE  SessionTypeOK' /\ StatsAddUp'
  <2>1. [kind |-> "snapshot", bid |-> b] \in Message
    BY Messages
  <2>2. /\ Enqueue([kind |-> "snapshot", bid |-> b])
        /\ lastPrice' = (IF Accepts THEN b ELSE lastPrice)
        /\ newest' = Absent /\ filter' = f
        /\ UNCHANGED <<policy, writerVars>>
    BY <1>8 DEF Subscribe, Offer
  <2>3. lost' \in BOOLEAN
    BY <1>8 DEF Subscribe
  <2> QED
    BY <1>2, <1>3, <2>1, <2>2, <2>3
<1>9. ASSUME NEW b \in Prices, NEW spread \in Spreads, EventWithheld(b, spread)
      PROVE  SessionTypeOK' /\ StatsAddUp'
  <2>1. /\ newest' \in Prices \cup {Absent}
        /\ UNCHANGED <<policy, filter, lastPrice, lost, queueVars, writerVars, disconnected>>
    BY <1>3, <1>9 DEF EventWithheld
  <2>2. /\ offered' = offered + 0 /\ dropped' = dropped + 0
        /\ Len(queue') = Len(queue) + 0 - 0
    BY <1>3, <2>1
  <2> QED
    BY <1>1, <1>3, <1>4, <2>1, <2>2
<1>10. ASSUME NEW f \in Filters, SubscribeUnseen(f)
       PROVE  SessionTypeOK' /\ StatsAddUp'
  <2>1. /\ newest' = Absent /\ filter' = f
        /\ UNCHANGED <<policy, lastPrice, lost, queueVars, writerVars, disconnected>>
    BY <1>10 DEF SubscribeUnseen
  <2>2. /\ offered' = offered + 0 /\ dropped' = dropped + 0
        /\ Len(queue') = Len(queue) + 0 - 0
    BY <1>3, <2>1
  <2> QED
    BY <1>1, <1>3, <1>4, <2>1, <2>2
<1>11. CASE SubscribeRefused
  <2>1. /\ dropped' = dropped + 2 /\ offered' = offered + 2
        /\ UNCHANGED <<policy, filterVars, queue, writerVars>>
    BY <1>11 DEF SubscribeRefused
  <2>2. disconnected' \in BOOLEAN
    BY <1>4, <1>11 DEF SubscribeRefused
  <2>3. Len(queue') = Len(queue) + 2 - 2
    BY <1>3, <2>1
  <2> QED
    BY <1>1, <1>3, <1>4, <2>1, <2>2, <2>3
<1>12. CASE Unsubscribe
  <2>1. /\ filter' = NoFilter /\ lastPrice' = Absent /\ newest' = Absent /\ lost' = FALSE
        /\ UNCHANGED <<policy, queueVars, writerVars, disconnected>>
    BY <1>12 DEF Unsubscribe
  <2>2. /\ offered' = offered + 0 /\ dropped' = dropped + 0
        /\ Len(queue') = Len(queue) + 0 - 0
    BY <1>3, <2>1
  <2> QED
    BY <1>1, <1>3, <1>4, <2>1, <2>2
<1> QED
  BY <1>5, <1>6, <1>7, <1>8, <1>9, <1>10, <1>11, <1>12 DEF Offered

(* A step of the writer, or the end of the session.                        *)
LEMMA WriterTypeStep ==
  ASSUME SessionTypeOK, StatsAddUp,
         Loop \/ Get \/ TimedOut \/ Sent \/ SendRaises \/ Close
  PROVE  SessionTypeOK' /\ StatsAddUp'
PROOF
<1>1. /\ sent \in Nat /\ failed \in Nat /\ dropped \in Nat /\ offered \in Nat
      /\ queue \in Seq(Message) /\ Len(queue) \in Nat /\ Len(queue) <= OutMax
      /\ samples \in Seq(Latencies) /\ Len(samples) \in Nat /\ Len(samples) <= SampleMax
      /\ SampleMax \in Nat /\ OutMax \in Nat
  BY SessionAssumption DEF SessionTypeOK
<1>2. /\ offered = sent + dropped + Len(queue) + Len(hand) + failed
      /\ Len(samples) <= sent
  BY DEF StatsAddUp
<1>3. CASE Loop \/ TimedOut
  <2>1. /\ UNCHANGED <<policy, filterVars, queueVars, hand, sent, samples, failed, seen,
                       disconnected>>
        /\ wpc # "send" /\ wpc' \in {"loop", "get", "done"}
    BY <1>3 DEF Loop, TimedOut
  <2>2. SessionTypeOK'
    BY <2>1 DEF SessionTypeOK
  <2>3. StatsAddUp'
    BY <2>1 DEF StatsAddUp
  <2> QED
    BY <2>2, <2>3
<1>4. CASE Get
  <2>1. /\ wpc = "get" /\ queue # <<>> /\ hand' = <<Head(queue)>> /\ queue' = Tail(queue)
        /\ wpc' = "send"
        /\ UNCHANGED <<policy, filterVars, dropped, offered, sent, samples, failed, seen,
                       disconnected>>
    BY <1>4 DEF Get
  <2>2. /\ Head(queue) \in Message /\ queue' \in Seq(Message)
        /\ Len(queue') = Len(queue) - 1
    BY <1>1, <2>1
  <2>3. Len(hand) = 0 /\ Len(hand') = 1 /\ hand' # <<>>
    BY <2>1, Hand
  <2>4. SessionTypeOK'
    <3>1. Len(queue') <= OutMax
      BY <1>1, <2>2
    <3> QED
      BY <2>1, <2>2, <2>3, <3>1 DEF SessionTypeOK
  <2>5. StatsAddUp'
    <3>1. offered = sent + dropped + Len(queue') + Len(hand') + failed
      BY <1>1, <1>2, <2>2, <2>3
    <3> QED
      BY <1>2, <2>1, <3>1 DEF StatsAddUp
  <2> QED
    BY <2>4, <2>5
<1>5. ASSUME NEW l \in Latencies, SendOk(l) PROVE SessionTypeOK' /\ StatsAddUp'
  <2>1. hand[1] \in Message /\ Len(hand) = 1
    BY <1>5, Hand DEF SendOk
  <2>2. /\ hand' = <<>> /\ wpc' = "loop" /\ sent' = sent + 1
        /\ UNCHANGED <<policy, filterVars, queueVars, failed, disconnected>>
        /\ Record(l) \/ UNCHANGED samples
        /\ seen' = (IF hand[1].kind = "error" THEN seen ELSE hand[1].bid)
    BY <1>5 DEF SendOk
  <2>3. /\ samples' \in Seq(Latencies) /\ Len(samples') <= SampleMax
        /\ Len(samples') <= Len(samples) + 1
    <3>1. CASE UNCHANGED samples
      BY <1>1, <3>1
    <3>2. CASE Record(l)
      <4> DEFINE all == Append(samples, l)
      <4>1. /\ all \in Seq(Latencies) /\ Len(all) = Len(samples) + 1
            /\ Tail(all) \in Seq(Latencies) /\ Len(Tail(all)) = Len(samples)
        BY <1>1
      <4>2. samples' = IF Len(all) > SampleMax THEN Tail(all) ELSE all
        BY <3>2 DEF Record
      <4> HIDE DEF all
      <4> QED
        BY <1>1, <4>1, <4>2
    <3> QED
      BY <2>2, <3>1, <3>2
  <2>4. seen' \in Prices \cup {Absent}
    <3>1. hand[1].kind # "error" => hand[1].bid \in Prices
      BY <2>1, Messages
    <3>2. seen \in Prices \cup {Absent}
      BY DEF SessionTypeOK
    <3> QED
      BY <2>2, <3>1, <3>2
  <2>5. SessionTypeOK'
    <3>1. sent' \in Nat
      BY <1>1, <2>2
    <3> QED
      BY <2>2, <2>3, <2>4, <3>1 DEF SessionTypeOK
  <2>6. StatsAddUp'
    <3>1. Len(hand') = 0 /\ Len(samples') \in Nat
      BY <2>2, <2>3
    <3>2. offered = (sent + 1) + dropped + Len(queue) + 0 + failed
      BY <1>1, <1>2, <2>1
    <3>3. Len(samples') <= sent + 1
      BY <1>1, <1>2, <2>3, <3>1
    <3> QED
      BY <2>2, <3>1, <3>2, <3>3 DEF StatsAddUp
  <2> QED
    BY <2>5, <2>6
<1>6. CASE SendRaises \/ Close
  <2>1. /\ hand' = <<>> /\ wpc' \in {"done", "closed"} /\ disconnected' = TRUE
        /\ UNCHANGED <<policy, filterVars, queueVars, sent, samples, seen>>
    BY <1>6 DEF SendRaises, Close
  <2>2. failed' = failed + Len(hand) /\ Len(hand) \in Nat
    BY <1>1, <1>6, Hand DEF SendRaises, Close
  <2>3. SessionTypeOK'
    <3>1. failed' \in Nat
      BY <1>1, <2>2
    <3> QED
      BY <2>1, <3>1 DEF SessionTypeOK
  <2>4. StatsAddUp'
    <3>1. Len(hand') = 0
      BY <2>1
    <3>2. offered = sent + dropped + Len(queue) + 0 + failed'
      BY <1>1, <1>2, <2>2
    <3> QED
      BY <1>2, <2>1, <3>1, <3>2 DEF StatsAddUp
  <2> QED
    BY <2>3, <2>4
<1> QED
  BY <1>3, <1>4, <1>5, <1>6 DEF Sent
-----------------------------------------------------------------------------
(* The queue takes a message of the symbol: the client will see it last.   *)
LEMMA AcceptedIsSeen ==
  ASSUME SessionTypeOK, NEW m \in Message, Enqueue(m), Accepts, m.kind # "error",
         UNCHANGED <<hand, seen>>
  PROVE  WillSee(m.bid)'
PROOF
<1>1. /\ queue \in Seq(Message) /\ OutMax \in Nat \ {0}
  BY SessionAssumption DEF SessionTypeOK
<1>2. hand \in Seq(Message)
  BY Hand
<1>3. PICK q \in Seq(Message) : queue' = Append(q, m)
  <2>1. CASE ~Full
    BY <1>1, <2>1 DEF Enqueue
  <2>2. CASE Full
    <3>1. queue # <<>>
      BY <1>1, <2>2 DEF Full
    <3>2. Tail(queue) \in Seq(Message)
      BY <1>1, <3>1
    <3> QED
      BY <2>2, <3>2 DEF Enqueue
  <2> QED
    BY <2>1, <2>2
<1>4. hand \o q \in Seq(Message)
  BY <1>2, <1>3
<1>5. hand \o queue' = Append(hand \o q, m)
  BY <1>2, <1>3
<1>6. Shows(Append(hand \o q, m), seen, m.bid)
  BY <1>4, ShownAppended
<1> QED
  BY <1>5, <1>6 DEF WillSee

(* An error reply costs the client no message of the symbol, unless the    *)
(* history variable lost says so.                                          *)
LEMMA ReplyKeepsSeen ==
  ASSUME SessionTypeOK, Reply, ~lost', NEW x, WillSee(x)
  PROVE  WillSee(x)'
PROOF
<1>1. /\ queue \in Seq(Message) /\ OutMax \in Nat \ {0}
  BY SessionAssumption DEF SessionTypeOK
<1>2. hand \in Seq(Message) /\ Error \in Message /\ Error.kind = "error"
  BY Hand, Messages DEF Error
<1>3. Enqueue(Error) /\ hand' = hand /\ seen' = seen
  BY DEF Reply
<1>4. Tracked(queue) = {} \/ Tracked(queue') # {}
  BY DEF Reply
<1>5. Shows(hand \o queue, seen, x)
  BY DEF WillSee
<1>6. ASSUME NEW q \in Seq(Message), queue' = Append(q, Error), Shows(hand \o q, seen, x)
      PROVE  WillSee(x)'
  <2>1. hand \o q \in Seq(Message) /\ hand \o queue' = Append(hand \o q, Error)
    BY <1>2, <1>6
  <2>2. Shows(Append(hand \o q, Error), seen, x)
    BY <1>2, <1>6, <2>1, ShownBeforeError
  <2> QED
    BY <1>3, <2>1, <2>2 DEF WillSee
<1>7. CASE ~Full
  <2>1. queue' = Append(queue, Error)
    BY <1>3, <1>7 DEF Enqueue
  <2> QED
    BY <1>1, <1>5, <1>6, <2>1
<1>8. CASE Full /\ Accepts
  <2>1. queue # <<>> /\ queue' = Append(Tail(queue), Error)
    BY <1>1, <1>3, <1>8 DEF Enqueue, Full
  <2> DEFINE t == Tail(queue)
  <2>2. t \in Seq(Message)
    BY <1>1, <2>1
  <2>3. Tracked(Append(t, Error)) = Tracked(t)
    <3> HIDE DEF t
    <3>1. /\ DOMAIN Append(t, Error) = 1 .. Len(t) + 1 /\ DOMAIN t = 1 .. Len(t)
          /\ Len(t) \in Nat /\ Append(t, Error)[Len(t) + 1] = Error
          /\ \A i \in 1 .. Len(t) : Append(t, Error)[i] = t[i]
      BY <1>2, <2>2
    <3> QED
      BY <1>2, <3>1 DEF Tracked
  <2>4. Tracked(queue) = {} \/ Tracked(Tail(queue)) # {}
    BY <1>4, <2>1, <2>3
  <2>5. Shows(hand \o Tail(queue), seen, x)
    BY <1>1, <1>2, <1>5, <2>1, <2>4, ShownWithoutOldest
  <2> QED
    BY <1>6, <2>1, <2>2, <2>5
<1>9. CASE Full /\ ~Accepts
  <2>1. queue' = queue
    BY <1>3, <1>9 DEF Enqueue
  <2> QED
    BY <1>3, <1>5, <2>1 DEF WillSee
<1> QED
  BY <1>7, <1>8, <1>9

(* An event that the threshold withholds is within it.                     *)
LEMMA WithheldIsNear ==
  ASSUME SessionTypeOK, NEW b \in Prices, ~ChangeOK(b)
  PROVE  lastPrice # Absent /\ Near(b, lastPrice)
PROOF
<1>1. lastPrice \in Prices \cup {Absent} /\ lastPrice \notin {Absent, 0}
  BY DEF SessionTypeOK, ChangeOK
<1>2. lastPrice \in Nat /\ b \in Nat
  BY <1>1, SessionAssumption
<1>3. filter.change \in Nat
  BY SessionAssumption DEF SessionTypeOK, NoFilter
<1>4. Distance(b, lastPrice) \in Nat
  BY <1>2 DEF Distance
<1>5. ~(100 * Distance(b, lastPrice) >= filter.change * lastPrice)
  BY DEF ChangeOK
<1> DEFINE d == 100 * Distance(b, lastPrice)  e == filter.change * lastPrice
<1>6. d \in Nat /\ e \in Nat
  BY <1>2, <1>3, <1>4
<1>7. d < e
  <2> HIDE DEF d, e
  <2>1. ~(d >= e)
    BY <1>5 DEF d, e
  <2> QED
    BY <1>6, <2>1
<1> QED
  BY <1>1, <1>7 DEF Near

(* What the filter compares with stays what the client will see last.      *)
LEMMA LastPriceStep ==
  ASSUME SessionTypeOK, LastPriceIsSeen, [Next]_vars
  PROVE  LastPriceIsSeen'
PROOF
<1> DEFINE Seen == lastPrice # Absent => WillSee(lastPrice)
           Band == newest # Absent => lastPrice # Absent /\ Near(newest, lastPrice)
<1>1. ~lost /\ ~disconnected => Seen /\ Band
  BY DEF LastPriceIsSeen
<1>2. SUFFICES ASSUME ~lost', ~disconnected' PROVE Seen' /\ Band'
  BY DEF LastPriceIsSeen
<1> HIDE DEF Seen, Band
<1>3. ASSUME UNCHANGED <<filter, lastPrice, newest, queue, hand, seen>>, ~lost, ~disconnected
      PROVE  Seen' /\ Band'
  BY <1>1, <1>3 DEF Seen, Band, WillSee, Near
<1>4. ASSUME NEW m \in Message, Enqueue(m), Accepts, m.kind # "error",
             UNCHANGED <<hand, seen>>, lastPrice' = m.bid
      PROVE  Seen'
  <2>1. WillSee(m.bid)'
    BY <1>4, AcceptedIsSeen
  <2> QED
    BY <1>4, <2>1 DEF Seen, WillSee
<1>5. \A m \in Message : Enqueue(m) => ~disconnected
  BY <1>2, EnqueueDisconnects
<1>6. CASE UNCHANGED vars
  BY <1>2, <1>3, <1>6 DEF vars
<1>7. CASE Reply
  <2>1. ~disconnected /\ ~lost
    BY <1>2, <1>5, <1>7, Messages DEF Reply
  <2>2. UNCHANGED <<filter, lastPrice, newest>>
    BY <1>7 DEF Reply
  <2>3. Seen'
    <3>1. CASE lastPrice = Absent
      BY <2>2, <3>1 DEF Seen
    <3>2. CASE lastPrice # Absent
      <4>1. WillSee(lastPrice)
        BY <1>1, <2>1, <3>2 DEF Seen
      <4>2. \A x : WillSee(x) => WillSee(x)'
        BY <1>2, <1>7, ReplyKeepsSeen
      <4>3. Shows(hand' \o queue', seen', lastPrice)
        BY <4>1, <4>2 DEF WillSee
      <4> QED
        BY <2>2, <4>3 DEF Seen, WillSee
    <3> QED
      BY <3>1, <3>2
  <2>4. Band'
    BY <1>1, <2>1, <2>2 DEF Band, Near
  <2> QED
    BY <2>3, <2>4
<1>8. ASSUME NEW b \in Prices, NEW spread \in Spreads, EventDelivered(b, spread)
      PROVE  Seen' /\ Band'
  <2> DEFINE m == [kind |-> "event", bid |-> b]
  <2>1. m \in Message /\ m.kind # "error" /\ m.bid = b
    BY Messages
  <2>2. Enqueue(m) /\ UNCHANGED <<hand, seen>>
    BY <1>8 DEF EventDelivered, Offer
  <2>3. Accepts /\ lastPrice' = b /\ newest' = b
    BY <1>2, <1>8 DEF EventDelivered, Offer
  <2>4. Seen'
    <3> HIDE DEF m
    <3> QED
      BY <1>4, <2>1, <2>2, <2>3
  <2>5. b # Absent
    BY SessionAssumption
  <2> QED
    BY <2>3, <2>4, <2>5 DEF Band, Near
<1>9. ASSUME NEW b \in Prices, NEW spread \in Spreads, EventWithheld(b, spread)
      PROVE  Seen' /\ Band'
  <2>1. /\ UNCHANGED <<filter, lastPrice, lost, queue, hand, seen, disconnected>>
        /\ newest' = (IF SpreadOK(spread) THEN b ELSE newest)
        /\ ~(SpreadOK(spread) /\ ChangeOK(b))
    BY <1>9 DEF EventWithheld
  <2>2. ~lost /\ ~disconnected
    BY <1>2, <2>1
  <2>3. CASE ~SpreadOK(spread)
    BY <1>3, <2>1, <2>2, <2>3
  <2>4. CASE SpreadOK(spread)
    <3>1. newest' = b /\ lastPrice # Absent /\ Near(b, lastPrice)
      BY <2>1, <2>4, WithheldIsNear
    <3>2. Band'
      BY <2>1, <3>1 DEF Band, Near
    <3>3. Seen'
      BY <1>1, <2>1, <2>2 DEF Seen, WillSee
    <3> QED
      BY <3>2, <3>3
  <2> QED
    BY <2>3, <2>4
<1>10. ASSUME NEW b \in Prices, Reseed(b) PROVE Seen' /\ Band'
  <2> DEFINE m == [kind |-> "snapshot", bid |-> b]
  <2>1. m \in Message /\ m.kind # "error" /\ m.bid = b
    BY Messages
  <2>2. Enqueue(m) /\ UNCHANGED <<filter, hand, seen>>
    BY <1>10 DEF Reseed, Offer
  <2>3. CASE Accepts
    <3>1. lastPrice' = b /\ newest' = Absent
      BY <1>10, <2>3 DEF Reseed, Offer
    <3>2. Seen'
      <4> HIDE DEF m
      <4> QED
        BY <1>4, <2>1, <2>2, <2>3, <3>1
    <3> QED
      BY <3>1, <3>2 DEF Band
  <2>4. CASE ~Accepts
    <3>1. lastPrice' = lastPrice /\ newest' = newest /\ queue' = queue
      BY <1>10, <2>2, <2>4 DEF Reseed, Offer, Enqueue, Accepts
    <3>2. ~lost
      BY <1>2, <1>10, <2>4 DEF Reseed
    <3>3. ~disconnected
      BY <1>5, <2>1, <2>2
    <3> QED
      BY <1>3, <2>2, <3>1, <3>2, <3>3
  <2> QED
    BY <2>3, <2>4
<1>11. ASSUME NEW f \in Filters, NEW b \in Prices, Subscribe(f, b) PROVE Seen' /\ Band'
  <2> DEFINE m == [kind |-> "snapshot", bid |-> b]
  <2>1. m \in Message /\ m.kind # "error" /\ m.bid = b
    BY Messages
  <2>2. Enqueue(m) /\ UNCHANGED <<hand, seen>> /\ Accepts /\ lastPrice' = b /\ newest' = Absent
    BY <1>11 DEF Subscribe, Offer
  <2>3. Seen'
    <3> HIDE DEF m
    <3> QED
      BY <1>4, <2>1, <2>2
  <2> QED
    BY <2>2, <2>3 DEF Band
<1>12. ASSUME NEW f \in Filters, SubscribeUnseen(f) PROVE Seen' /\ Band'
  <2>1. /\ UNCHANGED <<lastPrice, lost, queue, hand, seen, disconnected>>
        /\ newest' = Absent
    BY <1>12 DEF SubscribeUnseen
  <2>2. Seen'
    BY <1>1, <1>2, <2>1 DEF Seen, WillSee
  <2> QED
    BY <2>1, <2>2 DEF Band
<1>13. CASE SubscribeRefused
  <2>1. UNCHANGED <<filter, lastPrice, newest, lost, queue, hand, seen>>
    BY <1>13 DEF SubscribeRefused
  <2>2. ~disconnected
    BY <1>2, <1>13 DEF SubscribeRefused
  <2> QED
    BY <1>2, <1>3, <2>1, <2>2
<1>14. CASE Unsubscribe
  BY <1>14 DEF Unsubscribe, Seen, Band
<1>15. CASE Loop \/ TimedOut
  <2>1. UNCHANGED <<filter, lastPrice, newest, lost, queue, hand, seen, disconnected>>
    BY <1>15 DEF Loop, TimedOut
  <2> QED
    BY <1>2, <1>3, <2>1
<1>16. ASSUME UNCHANGED <<filter, lastPrice, newest, lost, disconnected>>,
              \A x : WillSee(x) => WillSee(x)'
       PROVE  Seen' /\ Band'
  <2>1. ~lost /\ ~disconnected
    BY <1>2, <1>16
  <2>2. Seen'
    <3>1. CASE lastPrice = Absent
      BY <1>16, <3>1 DEF Seen
    <3>2. CASE lastPrice # Absent
      <4>1. WillSee(lastPrice)
        BY <1>1, <2>1, <3>2 DEF Seen
      <4>2. Shows(hand' \o queue', seen', lastPrice)
        BY <1>16, <4>1 DEF WillSee
      <4> QED
        BY <1>16, <4>2 DEF Seen, WillSee
    <3> QED
      BY <3>1, <3>2
  <2>3. Band'
    BY <1>1, <1>16, <2>1 DEF Band, Near
  <2> QED
    BY <2>2, <2>3
<1>17. queue \in Seq(Message)
  BY DEF SessionTypeOK
<1>18. CASE Get
  <2>1. /\ hand = <<>> /\ queue # <<>> /\ hand' = <<Head(queue)>> /\ queue' = Tail(queue)
        /\ UNCHANGED <<filter, lastPrice, newest, lost, seen, disconnected>>
    BY <1>18, Hand DEF Get
  <2>2. hand' \o queue' = hand \o queue
    BY <1>17, <2>1
  <2> QED
    BY <1>16, <2>1, <2>2 DEF WillSee
<1>19. ASSUME NEW l \in Latencies, SendOk(l) PROVE Seen' /\ Band'
  <2>1. /\ hand[1] \in Message /\ hand = <<hand[1]>> /\ hand' = <<>> /\ queue' = queue
        /\ seen' = (IF hand[1].kind = "error" THEN seen ELSE hand[1].bid)
        /\ UNCHANGED <<filter, lastPrice, newest, lost, disconnected>>
    BY <1>19, Hand DEF SendOk
  <2>2. ASSUME NEW x, WillSee(x) PROVE WillSee(x)'
    <3> DEFINE m == hand[1]
    <3>1. Shows(<<m>> \o queue, seen, x)
      BY <2>1, <2>2 DEF WillSee
    <3>2. Shows(queue, seen', x)
      <4> HIDE DEF m
      <4>1. m \in Message /\ seen' = (IF m.kind = "error" THEN seen ELSE m.bid)
        BY <2>1 DEF m
      <4> QED
        BY <1>17, <3>1, <4>1, ShownSent
    <3>3. hand' \o queue' = queue
      BY <1>17, <2>1
    <3> QED
      BY <3>2, <3>3 DEF WillSee
  <2> QED
    BY <1>16, <2>1, <2>2
<1>20. CASE SendRaises \/ Close
  BY <1>2, <1>20 DEF SendRaises, Close
<1> QED
  BY <1>6, <1>7, <1>8, <1>9, <1>10, <1>11, <1>12, <1>13, <1>14, <1>15, <1>18, <1>19, <1>20
     DEF Next, Offered, Sent
-----------------------------------------------------------------------------
LEMMA SessionInitially == Init => SessionInv
PROOF
<1> SUFFICES ASSUME Init PROVE SessionInv
  OBVIOUS
<1>1. SessionTypeOK
  <2>1. /\ queue \in Seq(Message) /\ Len(queue) = 0
        /\ samples \in Seq(Latencies) /\ Len(samples) = 0 /\ OutMax \in Nat /\ SampleMax \in Nat
    BY SessionAssumption DEF Init
  <2>2. /\ Len(queue) <= OutMax /\ Len(samples) <= SampleMax
        /\ sent \in Nat /\ dropped \in Nat /\ offered \in Nat /\ failed \in Nat
    BY <2>1 DEF Init
  <2>3. /\ lost \in BOOLEAN /\ disconnected \in BOOLEAN
        /\ hand = <<>> /\ wpc = "loop"
    BY DEF Init
  <2>4. /\ policy \in Policies /\ filter \in Filters \cup {NoFilter}
        /\ lastPrice \in Prices \cup {Absent} /\ newest \in Prices \cup {Absent}
        /\ seen \in Prices \cup {Absent}
    BY DEF Init
  <2> QED
    BY <2>1, <2>2, <2>3, <2>4 DEF SessionTypeOK
<1>2. StatsAddUp
  BY DEF Init, StatsAddUp
<1>3. LastPriceIsSeen
  BY DEF Init, LastPriceIsSeen
<1> QED
  BY <1>1, <1>2, <1>3 DEF SessionInv

LEMMA SessionStep == SessionInv /\ [Next]_vars => SessionInv'
PROOF
<1> SUFFICES ASSUME SessionTypeOK, StatsAddUp, LastPriceIsSeen, [Next]_vars
             PROVE  SessionInv'
  BY DEF SessionInv
<1>1. SessionTypeOK' /\ StatsAddUp'
  <2>1. CASE UNCHANGED vars
    BY <2>1 DEF vars, SessionTypeOK, StatsAddUp
  <2>2. CASE Next
    BY <2>2, OfferedTypeStep, WriterTypeStep DEF Next
  <2> QED
    BY <2>1, <2>2
<1> QED
  BY <1>1, LastPriceStep DEF SessionInv

(* Theorem: in every state of a session, each message offered is sent,     *)
(* counted as dropped, still held or lost with the socket, and the price   *)
(* the filter compares with is the last one the client will see.           *)
THEOREM SessionInvariant == Spec => []SessionInv
PROOF
<1> QED
  BY SessionInitially, SessionStep, PTL DEF Spec

(* Theorem: a filtered client is never further from the market than its    *)
(* threshold, for any prices, thresholds, queue size and policy, unless    *)
(* the full queue cost it its last price.                                  *)
THEOREM ClientStaysWithinBand == Spec => []WithinBand
PROOF
<1>1. SessionInv => WithinBand
  <2> SUFFICES ASSUME SessionInv, newest # Absent, ~lost, ~disconnected
               PROVE  \E x \in Prices : WillSee(x) /\ Near(newest, x)
    BY DEF WithinBand
  <2>1. lastPrice # Absent /\ WillSee(lastPrice) /\ Near(newest, lastPrice)
    BY DEF SessionInv, LastPriceIsSeen
  <2>2. lastPrice \in Prices
    BY <2>1 DEF SessionInv, SessionTypeOK
  <2> QED
    BY <2>1, <2>2
<1> QED
  BY <1>1, SessionInvariant, PTL

-----------------------------------------------------------------------------
(* Of two samples one comes first: the lower, and of equal ones the        *)
(* earlier.                                                                *)
Sooner(s, i, j) == s[i] < s[j] \/ (s[i] = s[j] /\ i < j)

(* The numbers up to n are n.                                              *)
LEMMA FirstNumbers ==
  ASSUME NEW n \in Nat
  PROVE  IsFiniteSet(1 .. n) /\ Cardinality(1 .. n) = n
PROOF
<1>1. IsFiniteSet(1 .. n) /\ Cardinality(1 .. n) = IF 1 > n THEN 0 ELSE n - 1 + 1
  BY FS_Interval
<1> QED
  BY <1>1

(* sorted() has an outcome: the rank of a sample is its place.             *)
LEMMA SortExists ==
  ASSUME NEW s \in Seq(Int)
  PROVE  \E place \in Bijection(DOMAIN s, DOMAIN s) : place \in Ascending(s)
PROOF
<1> DEFINE D == DOMAIN s
           First(i) == {j \in D : Sooner(s, j, i)}
           rank == [i \in D |-> Cardinality(First(i)) + 1]
<1>1. D = 1 .. Len(s) /\ Len(s) \in Nat /\ \A i \in D : s[i] \in Int /\ i \in Nat
  OBVIOUS
<1>2. IsFiniteSet(D) /\ Cardinality(D) = Len(s)
  BY <1>1, FirstNumbers
<1>3. ASSUME NEW i \in D
      PROVE  /\ IsFiniteSet(First(i)) /\ Cardinality(First(i)) \in Nat
             /\ Cardinality(First(i)) < Len(s)
  <2>1. First(i) \subseteq D /\ i \notin First(i)
    BY <1>1 DEF Sooner
  <2> HIDE DEF First, D
  <2>2. IsFiniteSet(First(i)) /\ Cardinality(First(i)) <= Cardinality(D)
    BY <1>2, <2>1, FS_Subset
  <2>3. Cardinality(First(i)) # Cardinality(D)
    BY <1>2, <1>3, <2>1, FS_Subset
  <2>4. Cardinality(First(i)) \in Nat
    BY <2>2, FS_CardinalityType
  <2> QED
    BY <1>1, <1>2, <2>2, <2>3, <2>4
<1>4. ASSUME NEW i \in D, NEW j \in D, Sooner(s, i, j)
      PROVE  Cardinality(First(i)) < Cardinality(First(j))
  <2>1. First(i) \subseteq First(j)
    <3> SUFFICES ASSUME NEW k \in D, Sooner(s, k, i)
                 PROVE  Sooner(s, k, j)
      OBVIOUS
    <3> QED
      BY <1>1, <1>4 DEF Sooner
  <2>2. i \in First(j) /\ i \notin First(i)
    BY <1>1, <1>4 DEF Sooner
  <2>3. IsFiniteSet(First(j)) /\ Cardinality(First(i)) \in Nat /\ Cardinality(First(j)) \in Nat
    BY <1>3
  <2> HIDE DEF First
  <2> QED
    BY <2>1, <2>2, <2>3, FS_Subset
<1>5. \A i, j \in D : i = j \/ Sooner(s, i, j) \/ Sooner(s, j, i)
  BY <1>1 DEF Sooner
<1>6. rank \in Injection(D, D)
  <2>1. \A i \in D : rank[i] = Cardinality(First(i)) + 1
    OBVIOUS
  <2>2. \A i \in D : rank[i] \in D
    <3> HIDE DEF First, rank
    <3> QED
      BY <1>1, <1>3, <2>1
  <2>3. rank \in [D -> D]
    BY <2>2
  <2>4. \A i, j \in D : rank[i] = rank[j] => i = j
    <3> HIDE DEF First, rank, D
    <3> QED
      BY <1>3, <1>4, <1>5, <2>1
  <2>5. DOMAIN rank = D
    OBVIOUS
  <2> HIDE DEF rank, D
  <2> QED
    BY <2>3, <2>4, <2>5 DEF Injection, IsInjective
<1>7. \A k \in D : \E i \in D : rank[i] = k
  <2> HIDE DEF rank, D
  <2>1. rank \in Surjection(D, D)
    BY <1>2, <1>6, FS_Injection
  <2> QED
    BY <2>1 DEF Surjection
<1> DEFINE place == [k \in D |-> CHOOSE i \in D : rank[i] = k]
<1>8. \A k \in D : place[k] \in D /\ rank[place[k]] = k
  <2> HIDE DEF rank, D
  <2> QED
    BY <1>7
<1>9. place \in Bijection(D, D)
  <2>1. place \in [D -> D] /\ DOMAIN place = D
    BY <1>8
  <2>2. \A k, l \in D : place[k] = place[l] => k = l
    BY <1>8, Zenon
  <2> HIDE DEF place, rank, D
  <2>3. place \in Injection(D, D)
    BY <2>1, <2>2 DEF Injection, IsInjective
  <2>4. place \in Surjection(D, D)
    BY <1>2, <2>3, FS_Injection
  <2> QED
    BY <2>3, <2>4 DEF Bijection
<1>10. ASSUME NEW k \in D, NEW l \in D, k <= l
       PROVE  s[place[k]] <= s[place[l]]
  <2>1. place[k] \in D /\ place[l] \in D /\ rank[place[k]] = k /\ rank[place[l]] = l
    BY <1>8
  <2>2. rank[place[k]] = Cardinality(First(place[k])) + 1
        /\ rank[place[l]] = Cardinality(First(place[l])) + 1
    BY <2>1
  <2> HIDE DEF place, rank, First
  <2>3. ~Sooner(s, place[l], place[k])
    <3> SUFFICES ASSUME Sooner(s, place[l], place[k])
                 PROVE  FALSE
      OBVIOUS
    <3>1. Cardinality(First(place[l])) < Cardinality(First(place[k]))
      BY <1>4, <2>1
    <3>2. Cardinality(First(place[l])) \in Nat /\ Cardinality(First(place[k])) \in Nat
      BY <1>3, <2>1
    <3> QED
      BY <1>10, <2>1, <2>2, <3>1, <3>2
  <2> QED
    BY <1>1, <2>1, <2>3 DEF Sooner
<1> HIDE DEF place
<1> QED
  BY <1>9, <1>10 DEF Ascending

(* percentile() reports a sample whose rank is that of the percentile.     *)
LEMMA PercentileRanks ==
  ASSUME NEW s \in Seq(Int), s # <<>>, NEW p \in 0 .. 99
  PROVE  Percentile(s, p) \in Int /\ Ranks(s, p)
PROOF
<1> DEFINE D == DOMAIN s
           n == Len(s)
           place == CHOOSE f \in Ascending(s) : TRUE
           k == Index(n, p) + 1
           x == s[place[k]]
<1>1. D = 1 .. n /\ n \in Nat \ {0} /\ \A i \in D : s[i] \in Int
  OBVIOUS
<1>2. place \in Bijection(D, D) /\ \A i, j \in D : i <= j => s[place[i]] <= s[place[j]]
  <2>1. Ascending(s) # {}
    BY SortExists
  <2>2. place \in Ascending(s)
    BY <2>1
  <2> HIDE DEF place
  <2> QED
    BY <2>2 DEF Ascending
<1>3. /\ Index(n, p) \in 0 .. n - 1
      /\ 100 * Index(n, p) <= n * p
      /\ n * p < 100 * (Index(n, p) + 1)
  <2> HIDE DEF n
  <2> QED
    BY <1>1, PercentileIndex
<1>4. k \in D /\ k - 1 = Index(n, p) /\ k \in Nat /\ k - 1 \in Nat
  <2> HIDE DEF n, D
  <2> QED
    BY <1>1, <1>3
<1>5. Percentile(s, p) = x
  BY DEF Percentile
<1> HIDE DEF place, k
<1>6. /\ \A i \in D : place[i] \in D
      /\ \A i \in D : \E j \in D : place[j] = i
      /\ \A i, j \in D : place[i] = place[j] => i = j
      /\ DOMAIN place = D
  BY <1>2 DEF Bijection, Injection, Surjection, IsInjective
<1>7. x \in Int
  BY <1>1, <1>4, <1>6
<1>8. \A i, j \in D : i \in Nat /\ j \in Nat
  BY <1>1
<1>9. \A i \in 1 .. k : i \in D /\ i <= k
  <2> HIDE DEF n, D
  <2> QED
    BY <1>1, <1>4
<1>10. Below(s, x) \in Nat /\ Below(s, x) <= k - 1
  <2> DEFINE B == {i \in D : s[i] < x}
             I == 1 .. k - 1
             C == {i \in D : \E j \in I : place[j] = i}
             f == [j \in I |-> place[j]]
  <2>1. B \subseteq C
    <3> SUFFICES ASSUME NEW i \in D, s[i] < x
                 PROVE  \E j \in I : place[j] = i
      OBVIOUS
    <3>1. PICK j \in D : place[j] = i
      BY <1>6
    <3>2. ~(k <= j)
      <4>1. k <= j => x <= s[i]
        BY <1>2, <1>4, <3>1
      <4> QED
        BY <1>1, <1>7, <4>1
    <3>3. j \in I
      BY <1>1, <1>4, <1>8, <3>2
    <3> QED
      BY <3>1, <3>3
  <2>2. \A j \in I : j \in D /\ f[j] = place[j]
    BY <1>4, <1>9
  <2>3. f \in Surjection(I, C)
    <3>1. f \in [I -> C]
      BY <1>6, <2>2
    <3>2. \A i \in C : \E j \in I : f[j] = i
      BY <2>2
    <3> HIDE DEF f, I, C
    <3> QED
      BY <3>1, <3>2 DEF Surjection
  <2>4. IsFiniteSet(I) /\ Cardinality(I) = k - 1
    <3>1. k - 1 \in Nat
      BY <1>4
    <3> QED
      BY <3>1, FirstNumbers
  <2>5. Below(s, x) = Cardinality(B)
    BY DEF Below
  <2> HIDE DEF B, I, C, f
  <2>6. IsFiniteSet(C) /\ Cardinality(C) <= k - 1
    BY <2>3, <2>4, FS_Surjection
  <2>7. IsFiniteSet(B) /\ Cardinality(B) <= Cardinality(C)
    BY <2>1, <2>6, FS_Subset
  <2>8. Cardinality(B) \in Nat /\ Cardinality(C) \in Nat
    BY <2>6, <2>7, FS_CardinalityType
  <2> QED
    BY <1>4, <2>5, <2>6, <2>7, <2>8
<1>11. UpTo(s, x) \in Nat /\ k <= UpTo(s, x)
  <2> DEFINE U == {i \in D : s[i] <= x}
             I == 1 .. k
             f == [j \in I |-> place[j]]
  <2>1. \A j \in I : j \in D /\ f[j] = place[j] /\ place[j] \in U
    BY <1>2, <1>4, <1>6, <1>9
  <2>2. f \in Injection(I, U)
    <3>1. f \in [I -> U] /\ DOMAIN f = I
      BY <2>1
    <3>2. \A i, j \in I : f[i] = f[j] => i = j
      BY <1>6, <2>1
    <3> HIDE DEF f, I, U
    <3> QED
      BY <3>1, <3>2 DEF Injection, IsInjective
  <2>3. Cardinality(I) = k
    <3>1. k \in Nat
      BY <1>4
    <3> QED
      BY <3>1, FirstNumbers
  <2>4. UpTo(s, x) = Cardinality(U)
    BY DEF UpTo
  <2>5. U \subseteq 1 .. n /\ IsFiniteSet(1 .. n)
    BY <1>1, FS_Interval
  <2> HIDE DEF U, I, f
  <2>6. IsFiniteSet(U)
    BY <2>5, FS_Subset
  <2>7. Cardinality(I) <= Cardinality(U) /\ Cardinality(U) \in Nat
    BY <2>2, <2>6, FS_Injection, FS_CardinalityType
  <2> QED
    BY <2>3, <2>4, <2>7
<1>12. Ranks(s, p)
  <2> DEFINE b == Below(s, x)
             u == UpTo(s, x)
             i == Index(n, p)
             m == n * p
  <2>1. b \in Nat /\ u \in Nat /\ i \in Nat /\ b <= i /\ i + 1 <= u
    BY <1>3, <1>4, <1>10, <1>11
  <2>2. m \in Nat /\ 100 * i <= m /\ m < 100 * (i + 1) /\ p * n = m
    BY <1>1, <1>3
  <2> HIDE DEF b, u, i, m
  <2>3. 100 * b <= m /\ 100 * u > m
    BY <2>1, <2>2
  <2>4. 100 * b <= p * n /\ 100 * u > p * n
    BY <2>2, <2>3
  <2> HIDE DEF x
  <2> QED
    BY <1>5, <2>4 DEF Ranks, b, u
<1> QED
  BY <1>5, <1>7, <1>12

(* W are the places A of a first window of n samples, and the places B of  *)
(* a second window of m behind them.                                       *)
Pooled(W, A, B, n, m) ==
  /\ A \subseteq 1 .. n /\ B \subseteq 1 .. m /\ W \subseteq 1 .. n + m
  /\ \A i \in 1 .. n + m : i \in W <=> (i \in A \/ (i > n /\ i - n \in B))

(* They are as many as A and B together.                                   *)
LEMMA CountPooled ==
  ASSUME NEW n \in Nat, NEW m \in Nat, NEW A, NEW B, NEW W, Pooled(W, A, B, n, m)
  PROVE  Cardinality(W) = Cardinality(A) + Cardinality(B)
PROOF
<1> USE DEF Pooled
<1> DEFINE C == {i \in W : i > n}
           f == [j \in B |-> j + n]
<1>1. IsFiniteSet(A) /\ IsFiniteSet(B)
  <2>1. IsFiniteSet(1 .. n) /\ IsFiniteSet(1 .. m)
    BY FirstNumbers
  <2> QED
    BY <2>1, FS_Subset
<1>2. f \in Bijection(B, C)
  <2>1. \A j \in B : j \in Nat /\ j + n \in C /\ f[j] = j + n
    OBVIOUS
  <2>2. \A i \in C : i - n \in B /\ f[i - n] = i
    OBVIOUS
  <2>3. f \in [B -> C] /\ DOMAIN f = B
    BY <2>1
  <2>4. \A i, j \in B : f[i] = f[j] => i = j
    BY <2>1
  <2> HIDE DEF f, C
  <2> QED
    BY <2>2, <2>3, <2>4 DEF Bijection, Injection, Surjection, IsInjective
<1>3. W = A \cup C /\ A \cap C = {}
  <2>1. \A i \in A : i \in 1 .. n + m /\ ~(i > n)
    OBVIOUS
  <2>2. \A i \in W : i \in A \/ i > n
    OBVIOUS
  <2>3. \A i \in A : i \in W
    BY <2>1
  <2> QED
    BY <2>1, <2>2, <2>3
<1> HIDE DEF f, C, Pooled
<1>4. IsFiniteSet(C) /\ Cardinality(C) = Cardinality(B)
  BY <1>1, <1>2, FS_Bijection DEF ExistsBijection
<1>5. Cardinality(W) = Cardinality(A) + Cardinality(C) - Cardinality(A \cap C)
  BY <1>1, <1>3, <1>4, FS_Union
<1>6. Cardinality(A \cap C) = 0
  BY <1>3, FS_EmptySet
<1>7. Cardinality(A) \in Nat /\ Cardinality(B) \in Nat
  BY <1>1, FS_CardinalityType
<1> QED
  BY <1>4, <1>5, <1>6, <1>7

(* The counts below and up to a value add up.                              *)
LEMMA CountsAddUp ==
  ASSUME NEW s \in Seq(Int), NEW t \in Seq(Int), NEW z \in Int
  PROVE  /\ Below(s \o t, z) = Below(s, z) + Below(t, z)
         /\ UpTo(s \o t, z) = UpTo(s, z) + UpTo(t, z)
PROOF
<1> DEFINE n == Len(s)
           m == Len(t)
           u == s \o t
<1>1. n \in Nat /\ m \in Nat /\ DOMAIN s = 1 .. n /\ DOMAIN t = 1 .. m /\ DOMAIN u = 1 .. n + m
  OBVIOUS
<1>2. /\ \A i \in 1 .. n : u[i] = s[i]
      /\ \A i \in 1 .. n + m : i > n => u[i] = t[i - n]
  OBVIOUS
<1> HIDE DEF u
<1>3. Below(u, z) = Below(s, z) + Below(t, z)
  <2> DEFINE A == {i \in DOMAIN s : s[i] < z}
             B == {i \in DOMAIN t : t[i] < z}
             W == {i \in DOMAIN u : u[i] < z}
  <2>1. A \in SUBSET (1 .. n) /\ B \in SUBSET (1 .. m) /\ W \subseteq 1 .. n + m
    BY <1>1
  <2>2. ASSUME NEW i \in 1 .. n + m
        PROVE  i \in W <=> (i \in A \/ (i > n /\ i - n \in B))
    <3>1. CASE i \in 1 .. n
      BY <1>1, <1>2, <3>1
    <3>2. CASE i > n
      <4>1. i - n \in 1 .. m /\ i \notin 1 .. n
        BY <1>1, <3>2
      <4> QED
        BY <1>1, <1>2, <3>2, <4>1
    <3>3. i \in 1 .. n \/ i > n
      BY <1>1
    <3> QED
      BY <3>1, <3>2, <3>3
  <2> HIDE DEF A, B, W, n, m
  <2>3. n \in Nat /\ m \in Nat
    BY <1>1
  <2>4. Pooled(W, A, B, n, m)
    BY <2>1, <2>2 DEF Pooled
  <2>5. Cardinality(W) = Cardinality(A) + Cardinality(B)
    BY <2>3, <2>4, CountPooled
  <2> QED
    BY <2>5 DEF A, B, W, Below
<1>4. UpTo(u, z) = UpTo(s, z) + UpTo(t, z)
  <2> DEFINE A == {i \in DOMAIN s : s[i] <= z}
             B == {i \in DOMAIN t : t[i] <= z}
             W == {i \in DOMAIN u : u[i] <= z}
  <2>1. A \in SUBSET (1 .. n) /\ B \in SUBSET (1 .. m) /\ W \subseteq 1 .. n + m
    BY <1>1
  <2>2. ASSUME NEW i \in 1 .. n + m
        PROVE  i \in W <=> (i \in A \/ (i > n /\ i - n \in B))
    <3>1. CASE i \in 1 .. n
      BY <1>1, <1>2, <3>1
    <3>2. CASE i > n
      <4>1. i - n \in 1 .. m /\ i \notin 1 .. n
        BY <1>1, <3>2
      <4> QED
        BY <1>1, <1>2, <3>2, <4>1
    <3>3. i \in 1 .. n \/ i > n
      BY <1>1
    <3> QED
      BY <3>1, <3>2, <3>3
  <2> HIDE DEF A, B, W, n, m
  <2>3. n \in Nat /\ m \in Nat
    BY <1>1
  <2>4. Pooled(W, A, B, n, m)
    BY <2>1, <2>2 DEF Pooled
  <2>5. Cardinality(W) = Cardinality(A) + Cardinality(B)
    BY <2>3, <2>4, CountPooled
  <2> QED
    BY <2>5 DEF A, B, W, UpTo
<1> QED
  BY <1>3, <1>4 DEF u

(* What is up to a value is below every higher one.                        *)
LEMMA CountsAscend ==
  ASSUME NEW s \in Seq(Int), NEW x \in Int, NEW z \in Int
  PROVE  /\ x < z => UpTo(s, x) <= Below(s, z)
         /\ UpTo(s, x) \in Nat /\ Below(s, x) \in Nat
PROOF
<1> DEFINE U(y) == {i \in DOMAIN s : s[i] <= y}
           B(y) == {i \in DOMAIN s : s[i] < y}
<1>1. IsFiniteSet(DOMAIN s)
  BY FirstNumbers
<1>2. x < z => U(x) \subseteq B(z)
  OBVIOUS
<1>3. \A y : U(y) \subseteq DOMAIN s /\ B(y) \subseteq DOMAIN s
  OBVIOUS
<1>4. \A y : UpTo(s, y) = Cardinality(U(y)) /\ Below(s, y) = Cardinality(B(y))
  BY DEF UpTo, Below
<1> HIDE DEF U, B
<1>5. \A y : IsFiniteSet(U(y)) /\ IsFiniteSet(B(y))
  BY <1>1, <1>3, FS_Subset
<1>6. x < z => Cardinality(U(x)) <= Cardinality(B(z))
  BY <1>2, <1>5, FS_Subset
<1> QED
  BY <1>4, <1>5, <1>6, FS_CardinalityType

(* Two counts within p percent of their windows are within p percent of    *)
(* both together.                                                          *)
LEMMA TwoShares ==
  ASSUME NEW a \in Nat, NEW b \in Nat, NEW c \in Nat, NEW d \in Nat,
         NEW P \in Nat, NEW Q \in Nat, a <= c, b <= d
  PROVE  /\ 100 * c <= P /\ 100 * d <= Q => ~(100 * (a + b) > P + Q)
         /\ 100 * a > P /\ 100 * b > Q => ~(100 * (c + d) <= P + Q)
PROOF
  OBVIOUS

(* The percentile of two pooled windows is not below both of theirs, nor   *)
(* above both.                                                             *)
LEMMA OverallBetween ==
  ASSUME NEW s \in Seq(Int), s # <<>>, NEW t \in Seq(Int), t # <<>>, NEW p \in 0 .. 99
  PROVE  Between(s, t, p)
PROOF
<1> DEFINE x == Percentile(s, p)
           y == Percentile(t, p)
           z == Percentile(s \o t, p)
<1>1. x \in Int /\ y \in Int /\ z \in Int /\ Ranks(s, p) /\ Ranks(t, p) /\ Ranks(s \o t, p)
  <2>1. s \o t \in Seq(Int) /\ s \o t # <<>>
    OBVIOUS
  <2> QED
    BY <2>1, PercentileRanks
<1>2. /\ 100 * Below(s, x) <= p * Len(s) /\ 100 * UpTo(s, x) > p * Len(s)
      /\ 100 * Below(t, y) <= p * Len(t) /\ 100 * UpTo(t, y) > p * Len(t)
      /\ 100 * Below(s \o t, z) <= p * Len(s \o t) /\ 100 * UpTo(s \o t, z) > p * Len(s \o t)
  BY <1>1 DEF Ranks
<1>3. p * Len(s \o t) = p * Len(s) + p * Len(t) /\ p * Len(s) \in Nat /\ p * Len(t) \in Nat
  <2>1. Len(s \o t) = Len(s) + Len(t) /\ Len(s) \in Nat /\ Len(t) \in Nat /\ p \in Nat
    OBVIOUS
  <2> QED
    BY <2>1
<1> HIDE DEF x, y, z
<1>4. /\ Below(s \o t, z) = Below(s, z) + Below(t, z)
      /\ UpTo(s \o t, z) = UpTo(s, z) + UpTo(t, z)
  BY <1>1, CountsAddUp
<1>5. /\ z < x => UpTo(s, z) <= Below(s, x)
      /\ z < y => UpTo(t, z) <= Below(t, y)
      /\ x < z => UpTo(s, x) <= Below(s, z)
      /\ y < z => UpTo(t, y) <= Below(t, z)
  BY <1>1, CountsAscend
<1>6. \A v \in {x, y, z} : /\ UpTo(s, v) \in Nat /\ Below(s, v) \in Nat
                           /\ UpTo(t, v) \in Nat /\ Below(t, v) \in Nat
  BY <1>1, CountsAscend
<1>7. x <= z \/ y <= z
  <2> SUFFICES ASSUME z < x, z < y
               PROVE  FALSE
    BY <1>1
  <2>1. ~(100 * (UpTo(s, z) + UpTo(t, z)) > p * Len(s) + p * Len(t))
    BY <1>2, <1>3, <1>5, <1>6, TwoShares
  <2> QED
    BY <1>2, <1>3, <1>4, <2>1
<1>8. z <= x \/ z <= y
  <2> SUFFICES ASSUME x < z, y < z
               PROVE  FALSE
    BY <1>1
  <2>1. ~(100 * (Below(s, z) + Below(t, z)) <= p * Len(s) + p * Len(t))
    BY <1>2, <1>3, <1>5, <1>6, TwoShares
  <2> QED
    BY <1>2, <1>3, <1>4, <2>1
<1> QED
  BY <1>7, <1>8 DEF Between, Overall, x, y, z

(* Whatever was recorded, and however it is spread over two clients, what  *)
(* percentile() and get_metrics_summary report is a percentile of it, and  *)
(* the overall one lies between those of the clients.                      *)
THEOREM PercentilesAreRanks == Spec => []PercentilesReported
PROOF
<1>1. SessionInv => PercentilesReported
  <2> SUFFICES ASSUME SessionInv, samples # <<>>, NEW p \in {50, 99}
               PROVE  /\ Ranks(samples, p)
                      /\ \A k \in 1 .. Len(samples) - 1 :
                           Between(SubSeq(samples, 1, k),
                                   SubSeq(samples, k + 1, Len(samples)), p)
    BY DEF PercentilesReported
  <2>1. samples \in Seq(Int)
    <3>1. samples \in Seq(Latencies) /\ Latencies \subseteq Int
      BY SessionAssumption DEF SessionInv, SessionTypeOK
    <3>2. \A i \in 1 .. Len(samples) : samples[i] \in Latencies
      BY <3>1
    <3>3. \A i \in 1 .. Len(samples) : samples[i] \in Int
      BY <3>1, <3>2
    <3> QED
      BY <3>1, <3>3
  <2>2. p \in 0 .. 99
    OBVIOUS
  <2>3. Ranks(samples, p)
    BY <2>1, <2>2, PercentileRanks
  <2>4. ASSUME NEW k \in 1 .. Len(samples) - 1
        PROVE  Between(SubSeq(samples, 1, k), SubSeq(samples, k + 1, Len(samples)), p)
    <3>1. /\ SubSeq(samples, 1, k) \in Seq(Int) /\ Len(SubSeq(samples, 1, k)) = k
          /\ SubSeq(samples, k + 1, Len(samples)) \in Seq(Int)
          /\ Len(SubSeq(samples, k + 1, Len(samples))) = Len(samples) - k
      BY <2>1
    <3>2. k # 0 /\ Len(samples) - k # 0 /\ Len(<<>>) = 0
      <4>1. Len(samples) \in Nat
        BY <2>1
      <4> QED
        BY <4>1
    <3>3. SubSeq(samples, 1, k) # <<>> /\ SubSeq(samples, k + 1, Len(samples)) # <<>>
      BY <3>1, <3>2
    <3> QED
      BY <2>2, <3>1, <3>3, OverallBetween
  <2> QED
    BY <2>3, <2>4
<1> QED
  BY <1>1, SessionInvariant, PTL
=============================================================================
