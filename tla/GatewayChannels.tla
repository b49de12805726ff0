-------------------------- MODULE GatewayChannels --------------------------
(***************************************************************************)
(* GatewayChannels: which Redis Pub/Sub channels the gateway desires, and  *)
(* which of them its connection was told to subscribe.                     *)
(*                                                                         *)
(* The fanout loop opens a connection, subscribes the desired channels and *)
(* listens until it fails; meanwhile the handlers of the sessions add and  *)
(* remove channels on the same connection.  pubsub_lock is held across     *)
(* their calls to Redis.  The sections under subscriptions_lock never      *)
(* await, so they are part of a step.  A symbol stands for its channel.    *)
(*                                                                         *)
(* asyncio does not switch tasks when it takes a free lock; here other     *)
(* tasks may run before every acquisition, as they do when it is held.     *)
(*                                                                         *)
(* redis-py returns from subscribe() when the command is sent, and nobody  *)
(* waits for Redis to apply it: confirmed_channels and wire are about what *)
(* was sent.  What is published before Redis has applied it is missed:     *)
(* that is in ClientStream (Applied).                                      *)
(***************************************************************************)
EXTENDS Integers

CONSTANTS
  Session,   \* WebSocket sessions; one that left stands for the next client
  Symbol,
  Wants,     \* bound: the symbols the client of each session asks for
  Attempts,  \* of _ensure_pubsub_subscription: 5 in the code
  Fanout,    \* the fanout loop, as a holder of pubsub_lock
  Nobody     \* pubsub_lock is free

ASSUME ChannelsAssumption ==
  /\ Symbol # {}
  /\ Wants \in [Session -> SUBSET Symbol]
  /\ Attempts \in Nat \ {0}
  /\ Fanout \notin Session /\ Nobody \notin Session /\ Fanout # Nobody

VARIABLES
  active,      \* active_channels
  confirmed,   \* confirmed_channels
  demand,      \* channel_demand.is_set()
  handle,      \* redis_pubsub is not None
  lock,        \* the holder of pubsub_lock
  fpc,         \* where fanout_loop is
  wire,        \* the channels whose last command sent on its connection is
               \* SUBSCRIBE
  registered,  \* subscriptions
  initializing, \* initializing_subscriptions
  pc,          \* where the handler of each session is
  target,      \* the symbol it is working on
  tries,       \* failed attempts of _ensure_pubsub_subscription
  todo         \* the symbols whose channels it is going to remove

channelVars  == <<active, confirmed, demand>>
fanoutVars   == <<handle, fpc>>
registryVars == <<registered, initializing>>
handlerVars  == <<pc, target, tries, todo>>
vars == <<channelVars, fanoutVars, lock, wire, registryVars, handlerVars>>

ChannelsTypeOK ==
  /\ active \subseteq Symbol /\ confirmed \subseteq Symbol /\ wire \subseteq Symbol
  /\ demand \in BOOLEAN /\ handle \in BOOLEAN
  /\ lock \in Session \cup {Fanout, Nobody}
  /\ fpc \in {"wait", "open", "seed", "listen", "backoff", "close"}
  /\ registered \in [Symbol -> SUBSET Session]
  /\ initializing \in [Symbol -> SUBSET Session]
  /\ pc \in [Session -> {"idle", "attempt", "subscribe", "sleep", "fetch",
                         "remove", "unsubscribe"}]
  /\ target \in [Session -> Symbol]
  /\ tries \in [Session -> 0 .. Attempts]
  /\ todo \in [Session -> SUBSET Symbol]

Init ==
  /\ active = {} /\ confirmed = {} /\ demand = FALSE
  /\ handle = FALSE /\ lock = Nobody /\ fpc = "wait" /\ wire = {}
  /\ registered = [y \in Symbol |-> {}]
  /\ initializing = [y \in Symbol |-> {}]
  /\ pc = [s \in Session |-> "idle"]
  /\ target = [s \in Session |-> CHOOSE y \in Symbol : TRUE]
  /\ tries = [s \in Session |-> 0]
  /\ todo = [s \in Session |-> {}]

Goto(s, place) == pc' = [pc EXCEPT ![s] = place]
-----------------------------------------------------------------------------
(* fanout_loop: channel_demand.wait() returns, a connection is made.       *)
Open ==
  /\ fpc = "wait" /\ demand
  /\ fpc' = "open"
  /\ UNCHANGED <<channelVars, handle, lock, wire, registryVars, handlerVars>>

(* _subscribe_desired_channels, up to its call to Redis: nothing is called *)
(* when the demand is gone already.                                        *)
Seed ==
  /\ fpc = "open" /\ lock = Nobody
  /\ handle' = TRUE
  /\ confirmed' = {}
  /\ IF active = {} THEN fpc' = "listen" /\ UNCHANGED lock
                    ELSE fpc' = "seed" /\ lock' = Fanout
  /\ UNCHANGED <<active, demand, wire, registryVars, handlerVars>>

SeedOk ==
  /\ fpc = "seed"
  /\ wire' = active \cup wire
  /\ confirmed' = active
  /\ lock' = Nobody
  /\ fpc' = "listen"
  /\ UNCHANGED <<active, demand, handle, registryVars, handlerVars>>

SeedFails ==
  /\ fpc = "seed"
  /\ lock' = Nobody
  /\ fpc' = "backoff"
  /\ UNCHANGED <<channelVars, handle, wire, registryVars, handlerVars>>

(* listen() ends by itself when the reply to the last UNSUBSCRIBE was read *)
(* and no channel is left ...                                              *)
ListenEnds ==
  /\ fpc = "listen" /\ wire = {}
  /\ fpc' = "close"
  /\ UNCHANGED <<channelVars, handle, lock, wire, registryVars, handlerVars>>

(* ... or raises: the connection is lost.  What the gateway knows of it    *)
(* stays as it was until the sleep is over.                                *)
ListenRaises ==
  /\ fpc = "listen"
  /\ fpc' = "backoff"
  /\ wire' = {}
  /\ UNCHANGED <<channelVars, handle, lock, registryVars, handlerVars>>

BackoffOver ==
  /\ fpc = "backoff"
  /\ fpc' = "close"
  /\ UNCHANGED <<channelVars, handle, lock, wire, registryVars, handlerVars>>

(* Mutant: the finally clause keeps what was confirmed.                    *)
CloseKeepsConfirmed ==
  /\ fpc = "close" /\ lock = Nobody
  /\ handle' = FALSE
  /\ wire' = {}
  /\ fpc' = "wait"
  /\ UNCHANGED <<channelVars, lock, registryVars, handlerVars>>

(* The finally clause.                                                     *)
Close ==
  /\ fpc = "close" /\ lock = Nobody
  /\ handle' = FALSE
  /\ confirmed' = {}
  /\ wire' = {}
  /\ fpc' = "wait"
  /\ UNCHANGED <<active, demand, lock, registryVars, handlerVars>>
-----------------------------------------------------------------------------
(* _subscribe, from the client's request on.                               *)
Subscribe(s, y) ==
  /\ pc[s] = "idle"
  /\ Goto(s, "attempt")
  /\ target' = [target EXCEPT ![s] = y]
  /\ UNCHANGED <<channelVars, fanoutVars, lock, wire, registryVars, tries, todo>>

(* The channel is confirmed: the session buffers events and reads the      *)
(* snapshot.                                                               *)
Initialize(s) ==
  /\ Goto(s, "fetch")
  /\ tries' = [tries EXCEPT ![s] = 0]
  /\ initializing' = [initializing EXCEPT ![target[s]] = @ \cup {s}]
  /\ UNCHANGED <<registered, target, todo>>

AttemptFails(s) ==
  /\ Goto(s, "sleep")
  /\ tries' = [tries EXCEPT ![s] = @ + 1]
  /\ UNCHANGED <<registryVars, target, todo>>

(* _subscribe_pubsub_symbol, up to its call to Redis: the channel becomes  *)
(* a desired one whatever comes of it.                                     *)
Attempt(s) ==
  /\ pc[s] = "attempt" /\ lock = Nobody
  /\ active' = active \cup {target[s]}
  /\ demand' = TRUE
  /\ \/ /\ target[s] \in confirmed
        /\ Initialize(s)
        /\ UNCHANGED lock
     \/ /\ target[s] \notin confirmed /\ ~handle
        /\ AttemptFails(s)
        /\ UNCHANGED lock
     \/ /\ target[s] \notin confirmed /\ handle
        /\ Goto(s, "subscribe")
        /\ lock' = s
        /\ UNCHANGED <<registryVars, target, tries, todo>>
  /\ UNCHANGED <<confirmed, fanoutVars, wire>>

SubscribeOk(s) ==
  /\ pc[s] = "subscribe"
  /\ wire' = wire \cup {target[s]}
  /\ confirmed' = confirmed \cup {target[s]}
  /\ lock' = Nobody
  /\ Initialize(s)
  /\ UNCHANGED <<active, demand, fanoutVars>>

(* The command may have been sent before the call raised.                  *)
SubscribeRaises(s) ==
  /\ pc[s] = "subscribe"
  /\ wire' \in {wire, wire \cup {target[s]}}
  /\ lock' = Nobody
  /\ AttemptFails(s)
  /\ UNCHANGED <<channelVars, fanoutVars>>

(* The next attempt, after the sleep.                                      *)
Retry(s) ==
  /\ pc[s] = "sleep" /\ tries[s] < Attempts
  /\ Goto(s, "attempt")
  /\ UNCHANGED <<channelVars, fanoutVars, lock, wire, registryVars, target, tries, todo>>
-----------------------------------------------------------------------------
(* The handler goes on to remove the channels ys, under pubsub_lock, which *)
(* it does not hold yet.                                                   *)
Discard(s, ys) ==
  /\ Goto(s, IF ys = {} THEN "idle" ELSE "remove")
  /\ todo' = [todo EXCEPT ![s] = ys]

(* _remove_desired_channel_if_unused, as far as subscriptions_lock.        *)
DiscardIfUnused(s) ==
  Discard(s, {target[s]} \ {y \in Symbol : registered'[y] \cup initializing'[y] # {}})

(* Mutant: the attempts are counted anew.                                  *)
GiveUpStartsOver(s) ==
  /\ pc[s] = "sleep" /\ tries[s] = Attempts
  /\ tries' = [tries EXCEPT ![s] = 0]
  /\ Goto(s, "attempt")
  /\ UNCHANGED <<channelVars, fanoutVars, lock, wire, registryVars, target, todo>>

(* _ensure_pubsub_subscription gives up, and the client is told.           *)
GiveUp(s) ==
  /\ pc[s] = "sleep" /\ tries[s] = Attempts
  /\ tries' = [tries EXCEPT ![s] = 0]
  /\ UNCHANGED registryVars
  /\ DiscardIfUnused(s)
  /\ UNCHANGED <<channelVars, fanoutVars, lock, wire, target>>

(* The snapshot is there: the session is registered.                       *)
Register(s) ==
  /\ pc[s] = "fetch"
  /\ registered' = [registered EXCEPT ![target[s]] = @ \cup {s}]
  /\ initializing' = [initializing EXCEPT ![target[s]] = @ \ {s}]
  /\ DiscardIfUnused(s)
  /\ UNCHANGED <<channelVars, fanoutVars, lock, wire, target, tries>>

(* Mutant: a failed initialization leaves the channel as it is.            *)
RollBackRegistryOnly(s) ==
  /\ pc[s] = "fetch"
  /\ UNCHANGED registered
  /\ initializing' = [initializing EXCEPT ![target[s]] = @ \ {s}]
  /\ Discard(s, {})
  /\ UNCHANGED <<channelVars, fanoutVars, lock, wire, target, tries>>

(* The read raised, or the buffer or the outbound queue was full.          *)
RollBack(s) ==
  /\ pc[s] = "fetch"
  /\ UNCHANGED registered
  /\ initializing' = [initializing EXCEPT ![target[s]] = @ \ {s}]
  /\ DiscardIfUnused(s)
  /\ UNCHANGED <<channelVars, fanoutVars, lock, wire, target, tries>>

(* _unsubscribe: the channel goes when no session is registered any more;  *)
(* those that are initializing are not looked at.                          *)
Unsubscribe(s, y) ==
  /\ pc[s] = "idle"
  /\ registered' = [registered EXCEPT ![y] = @ \ {s}]
  /\ Discard(s, IF registered'[y] = {} THEN {y} ELSE {})
  /\ UNCHANGED <<channelVars, fanoutVars, lock, wire, initializing, target, tries>>

(* _cleanup of a session whose client is gone; the next client's session   *)
(* takes its place.                                                        *)
Cleanup(s) ==
  /\ pc[s] = "idle"
  /\ registered' = [y \in Symbol |-> registered[y] \ {s}]
  /\ Discard(s, {y \in Symbol : registered[y] = {s}})
  /\ UNCHANGED <<channelVars, fanoutVars, lock, wire, initializing, target, tries>>

(* Mutant: the fanout loop is told that nothing is desired.                *)
DemandGone == demand' = FALSE

DemandOfActive == demand' = (active' # {})

(* _unsubscribe_pubsub_symbol, up to its call to Redis.                    *)
Remove(s) ==
  /\ pc[s] = "remove" /\ lock = Nobody
  /\ \E y \in todo[s] :
       IF y \in active
       THEN /\ active' = active \ {y}
            /\ confirmed' = confirmed \ {y}
            /\ DemandOfActive
            /\ target' = [target EXCEPT ![s] = y]
            /\ IF handle THEN lock' = s /\ Goto(s, "unsubscribe") /\ UNCHANGED todo
                         ELSE UNCHANGED lock /\ Discard(s, todo[s] \ {y})
       ELSE Discard(s, todo[s] \ {y}) /\ UNCHANGED <<channelVars, target, lock>>
  /\ UNCHANGED <<fanoutVars, wire, registryVars, tries>>

Removed(s) ==
  /\ pc[s] = "unsubscribe"
  /\ lock' = Nobody
  /\ Discard(s, todo[s] \ {target[s]})
  /\ UNCHANGED <<channelVars, fanoutVars, registryVars, target, tries>>

UnsubscribeOk(s) == Removed(s) /\ wire' = wire \ {target[s]}

(* The exception is logged; the command may have been sent.                *)
UnsubscribeRaises(s) == Removed(s) /\ wire' \in {wire, wire \ {target[s]}}
-----------------------------------------------------------------------------
FanoutStep == Open \/ Seed \/ SeedOk \/ SeedFails \/ ListenEnds \/ ListenRaises
                \/ BackoffOver \/ Close

(* What the client, or its disconnection, makes the handler do ...         *)
Request(s) ==
  \/ \E y \in Wants[s] : Subscribe(s, y) \/ Unsubscribe(s, y)
  \/ Cleanup(s)

(* ... and what it does by itself.                                         *)
Fetched(s)  == Register(s) \/ RollBack(s)
Returned(s) == SubscribeOk(s) \/ SubscribeRaises(s) \/ UnsubscribeOk(s) \/ UnsubscribeRaises(s)
Slept(s)    == Retry(s) \/ GiveUp(s)

Next ==
  \/ FanoutStep
  \/ \E s \in Session : Request(s) \/ Attempt(s) \/ Returned(s) \/ Slept(s)
                           \/ Fetched(s) \/ Remove(s)

Spec == Init /\ [][Next]_vars

(* Calls to Redis return or raise, sleeps end, and asyncio.Lock serves its *)
(* waiters first come, first served.                                       *)
Fairness ==
  /\ WF_vars(Open) /\ SF_vars(Seed) /\ WF_vars(SeedOk \/ SeedFails)
  /\ WF_vars(ListenEnds) /\ WF_vars(BackoffOver) /\ SF_vars(Close)
  /\ \A s \in Session :
       /\ SF_vars(Attempt(s)) /\ SF_vars(Remove(s))
       /\ WF_vars(Returned(s)) /\ WF_vars(Slept(s)) /\ WF_vars(Fetched(s))

FairSpec == Spec /\ Fairness

(* Redis may refuse for ever ... or else it does at last what the fanout   *)
(* loop asks again and again.                                              *)
RedisAnswers == SF_vars(SeedOk)
-----------------------------------------------------------------------------
(* pubsub_lock is held by whoever awaits a call to Redis, and by nobody    *)
(* else: no two calls overlap, and every exception gives it back.          *)
LockDiscipline ==
  /\ lock = Fanout <=> fpc = "seed"
  /\ \A s \in Session : lock = s <=> pc[s] \in {"subscribe", "unsubscribe"}

(* The four pieces of the channel state agree whatever handlers and fanout *)
(* loop do to them in between: only desired channels are confirmed, the    *)
(* loop is woken exactly when there is a channel to listen to, and nothing *)
(* is confirmed without a connection.                                      *)
ChannelsAgree ==
  /\ confirmed \subseteq active
  /\ demand <=> active # {}
  /\ handle <=> fpc \in {"seed", "listen", "backoff", "close"}
  /\ ~handle => confirmed = {} /\ wire = {}

(* A confirmed channel is one the listening connection was told to         *)
(* subscribe; Redis need not have done it yet.                             *)
ConfirmedWasSent == fpc = "listen" => confirmed \subseteq wire

(* What a handler is doing is what the registries say.                     *)
HandlersAgree ==
  /\ \A s \in Session : \A y \in Symbol :
       s \in initializing[y] <=> pc[s] = "fetch" /\ target[s] = y
  /\ \A s \in Session : (pc[s] \in {"remove", "unsubscribe"} <=> todo[s] # {})
  /\ \A s \in Session : pc[s] # "sleep" => tries[s] < Attempts
  /\ \A s \in Session : pc[s] = "subscribe" => handle /\ target[s] \in active
  /\ \A s \in Session : pc[s] = "unsubscribe" => target[s] \notin active

(* Somebody answers for every desired channel: a registered session, or a  *)
(* handler that is about to register for it or to remove it.               *)
Answers(s, y) ==
  \/ pc[s] \in {"attempt", "subscribe", "sleep", "fetch"} /\ target[s] = y
  \/ y \in todo[s]

NoOrphanChannel ==
  \A y \in active : registered[y] # {} \/ \E s \in Session : Answers(s, y)

ChannelsInv ==
  /\ ChannelsTypeOK
  /\ LockDiscipline
  /\ ChannelsAgree
  /\ ConfirmedWasSent
  /\ HandlersAgree
  /\ NoOrphanChannel

(* Every request comes to its end, with Redis refusing for ever too.       *)
RequestAnswered == \A s \in Session : pc[s] # "idle" ~> pc[s] = "idle"

(* "Reconnect restores all desired channels": whatever happened to the     *)
(* connection, the loop comes to listen on one that was sent a SUBSCRIBE   *)
(* for each of them, or none is left.                                      *)
ReconnectRestores == RedisAnswers =>
  (active # {} /\ fpc # "listen"
     ~> active = {} \/ (fpc = "listen" /\ confirmed = active /\ active \subseteq wire))

(* "active_channels represents desired local demand": the channel of every *)
(* registered session is desired, once no handler is at work.              *)
RegisteredIsDesired ==
  (\A s \in Session : pc[s] = "idle") =>
    \A y \in Symbol : registered[y] # {} => y \in active
=============================================================================
