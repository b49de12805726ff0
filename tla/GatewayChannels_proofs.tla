----------------------- MODULE GatewayChannels_proofs -----------------------
(***************************************************************************)
(* Proofs about GatewayChannels, for any sets of sessions and symbols and  *)
(* any number of attempts: each part of ChannelsInv is preserved, from the *)
(* parts it rests on.                                                      *)
(***************************************************************************)
EXTENDS GatewayChannels, TLAPS

USE DEF Goto, Discard, DiscardIfUnused, Initialize, AttemptFails, DemandOfActive,
        Removed, Answers
USE DEF vars, channelVars, fanoutVars, registryVars, handlerVars

LEMMA ChannelsInitially == Init => ChannelsInv
PROOF
<1> SUFFICES ASSUME Init PROVE ChannelsInv
  OBVIOUS
<1>1. (CHOOSE y \in Symbol : TRUE) \in Symbol
  BY ChannelsAssumption
<1>2. ChannelsTypeOK
  <2>1. target \in [Session -> Symbol]
    BY <1>1 DEF Init
  <2>2. tries \in [Session -> 0 .. Attempts] /\ todo \in [Session -> SUBSET Symbol]
    BY ChannelsAssumption DEF Init
  <2> QED
    BY <2>1, <2>2, ChannelsAssumption DEF Init, ChannelsTypeOK
<1>3. LockDiscipline /\ ChannelsAgree /\ ConfirmedWasSent /\ NoOrphanChannel
  BY ChannelsAssumption
     DEF Init, LockDiscipline, ChannelsAgree, ConfirmedWasSent, NoOrphanChannel
<1>4. HandlersAgree
  BY ChannelsAssumption DEF Init, HandlersAgree
<1> QED
  BY <1>2, <1>3, <1>4 DEF ChannelsInv

(* Every step keeps the types; the attempts are counted no further than    *)
(* Attempts.                                                               *)
LEMMA ChannelsTypeOKStep ==
  ASSUME ChannelsTypeOK, HandlersAgree, [Next]_vars
  PROVE  ChannelsTypeOK'
PROOF
<1> USE ChannelsAssumption DEF ChannelsTypeOK, HandlersAgree
<1>1. CASE Open
  BY <1>1 DEF Open
<1>2. CASE Seed
  BY <1>2 DEF Seed
<1>3. CASE SeedOk
  BY <1>3 DEF SeedOk
<1>4. CASE SeedFails
  BY <1>4 DEF SeedFails
<1>5. CASE ListenEnds
  BY <1>5 DEF ListenEnds
<1>6. CASE ListenRaises
  BY <1>6 DEF ListenRaises
<1>7. CASE BackoffOver
  BY <1>7 DEF BackoffOver
<1>8. CASE Close
  BY <1>8 DEF Close
<1>9. ASSUME NEW s \in Session, Attempt(s) PROVE ChannelsTypeOK'
  <2>1. CASE target[s] \in confirmed
    BY <1>9, <2>1 DEF Attempt
  <2>2. CASE target[s] \notin confirmed /\ ~handle
    <3>1. tries'[s] \in 0 .. Attempts
      BY <1>9, <2>2 DEF Attempt
    <3> QED
      BY <1>9, <2>2, <3>1 DEF Attempt
  <2>3. CASE target[s] \notin confirmed /\ handle
    BY <1>9, <2>3 DEF Attempt
  <2> QED
    BY <2>1, <2>2, <2>3
<1>10. ASSUME NEW s \in Session, SubscribeOk(s) PROVE ChannelsTypeOK'
  BY <1>10 DEF SubscribeOk
<1>11. ASSUME NEW s \in Session, SubscribeRaises(s) PROVE ChannelsTypeOK'
  BY <1>11 DEF SubscribeRaises
<1>12. ASSUME NEW s \in Session, Retry(s) PROVE ChannelsTypeOK'
  BY <1>12 DEF Retry
<1>13. ASSUME NEW s \in Session, GiveUp(s) PROVE ChannelsTypeOK'
  BY <1>13 DEF GiveUp
<1>14. ASSUME NEW s \in Session, Register(s) PROVE ChannelsTypeOK'
  BY <1>14 DEF Register
<1>15. ASSUME NEW s \in Session, RollBack(s) PROVE ChannelsTypeOK'
  BY <1>15 DEF RollBack
<1>16. ASSUME NEW s \in Session, Cleanup(s) PROVE ChannelsTypeOK'
  BY <1>16 DEF Cleanup
<1>17. ASSUME NEW s \in Session, Remove(s) PROVE ChannelsTypeOK'
  <2> PICK y \in todo[s] :
         IF y \in active
         THEN /\ active' = active \ {y}
              /\ confirmed' = confirmed \ {y}
              /\ DemandOfActive
              /\ target' = [target EXCEPT ![s] = y]
              /\ IF handle THEN lock' = s /\ Goto(s, "unsubscribe") /\ UNCHANGED todo
                           ELSE UNCHANGED lock /\ Discard(s, todo[s] \ {y})
         ELSE Discard(s, todo[s] \ {y}) /\ UNCHANGED <<channelVars, target, lock>>
    BY <1>17 DEF Remove
  <2>1. CASE y \notin active
    BY <1>17, <2>1 DEF Remove
  <2>2. CASE y \in active /\ handle
    BY <1>17, <2>2 DEF Remove
  <2>3. CASE y \in active /\ ~handle
    BY <1>17, <2>3 DEF Remove
  <2> QED
    BY <2>1, <2>2, <2>3
<1>18. ASSUME NEW s \in Session, UnsubscribeOk(s) PROVE ChannelsTypeOK'
  BY <1>18 DEF UnsubscribeOk
<1>19. ASSUME NEW s \in Session, UnsubscribeRaises(s) PROVE ChannelsTypeOK'
  BY <1>19 DEF UnsubscribeRaises
<1>20. ASSUME NEW s \in Session, NEW y \in Wants[s], Subscribe(s, y) PROVE ChannelsTypeOK'
  BY <1>20 DEF Subscribe
<1>21. ASSUME NEW s \in Session, NEW y \in Wants[s], Unsubscribe(s, y) PROVE ChannelsTypeOK'
  BY <1>21 DEF Unsubscribe
<1>22. CASE UNCHANGED vars
  BY <1>22
<1> HIDE DEF ChannelsTypeOK, HandlersAgree
<1> QED
  BY <1>1, <1>2, <1>3, <1>4, <1>5, <1>6, <1>7, <1>8, <1>9, <1>10, <1>11, <1>12,
     <1>13, <1>14, <1>15, <1>16, <1>17, <1>18, <1>19, <1>20, <1>21, <1>22
     DEF Next, FanoutStep, Request, Returned, Slept, Fetched

(* Every step takes and gives back pubsub_lock with the call it is held    *)
(* for.                                                                    *)
LEMMA LockDisciplineStep ==
  ASSUME ChannelsTypeOK, LockDiscipline, [Next]_vars
  PROVE  LockDiscipline'
PROOF
<1> USE ChannelsAssumption DEF ChannelsTypeOK, LockDiscipline
<1>1. CASE Open
  BY <1>1 DEF Open
<1>2. CASE Seed
  BY <1>2 DEF Seed
<1>3. CASE SeedOk
  BY <1>3 DEF SeedOk
<1>4. CASE SeedFails
  BY <1>4 DEF SeedFails
<1>5. CASE ListenEnds
  BY <1>5 DEF ListenEnds
<1>6. CASE ListenRaises
  BY <1>6 DEF ListenRaises
<1>7. CASE BackoffOver
  BY <1>7 DEF BackoffOver
<1>8. CASE Close
  BY <1>8 DEF Close
<1>9. ASSUME NEW s \in Session, Attempt(s) PROVE LockDiscipline'
  BY <1>9 DEF Attempt
<1>10. ASSUME NEW s \in Session, SubscribeOk(s) PROVE LockDiscipline'
  BY <1>10 DEF SubscribeOk
<1>11. ASSUME NEW s \in Session, SubscribeRaises(s) PROVE LockDiscipline'
  BY <1>11 DEF SubscribeRaises
<1>12. ASSUME NEW s \in Session, Retry(s) PROVE LockDiscipline'
  BY <1>12 DEF Retry
<1>13. ASSUME NEW s \in Session, GiveUp(s) PROVE LockDiscipline'
  BY <1>13 DEF GiveUp
<1>14. ASSUME NEW s \in Session, Register(s) PROVE LockDiscipline'
  BY <1>14 DEF Register
<1>15. ASSUME NEW s \in Session, RollBack(s) PROVE LockDiscipline'
  BY <1>15 DEF RollBack
<1>16. ASSUME NEW s \in Session, Cleanup(s) PROVE LockDiscipline'
  BY <1>16 DEF Cleanup
<1>17. ASSUME NEW s \in Session, Remove(s) PROVE LockDiscipline'
  BY <1>17 DEF Remove
<1>18. ASSUME NEW s \in Session, UnsubscribeOk(s) PROVE LockDiscipline'
  BY <1>18 DEF UnsubscribeOk
<1>19. ASSUME NEW s \in Session, UnsubscribeRaises(s) PROVE LockDiscipline'
  BY <1>19 DEF UnsubscribeRaises
<1>20. ASSUME NEW s \in Session, NEW y \in Wants[s], Subscribe(s, y) PROVE LockDiscipline'
  BY <1>20 DEF Subscribe
<1>21. ASSUME NEW s \in Session, NEW y \in Wants[s], Unsubscribe(s, y) PROVE LockDiscipline'
  BY <1>21 DEF Unsubscribe
<1>22. CASE UNCHANGED vars
  BY <1>22
<1> HIDE DEF ChannelsTypeOK, LockDiscipline
<1> QED
  BY <1>1, <1>2, <1>3, <1>4, <1>5, <1>6, <1>7, <1>8, <1>9, <1>10, <1>11, <1>12,
     <1>13, <1>14, <1>15, <1>16, <1>17, <1>18, <1>19, <1>20, <1>21, <1>22
     DEF Next, FanoutStep, Request, Returned, Slept, Fetched

(* Every step keeps active_channels, confirmed_channels, channel_demand    *)
(* and redis_pubsub in agreement.                                          *)
LEMMA ChannelsAgreeStep ==
  ASSUME ChannelsTypeOK, LockDiscipline, ChannelsAgree, HandlersAgree, [Next]_vars
  PROVE  ChannelsAgree'
PROOF
<1> USE ChannelsAssumption DEF ChannelsTypeOK, LockDiscipline, ChannelsAgree, HandlersAgree
<1>1. CASE Open
  BY <1>1 DEF Open
<1>2. CASE Seed
  BY <1>2 DEF Seed
<1>3. CASE SeedOk
  BY <1>3 DEF SeedOk
<1>4. CASE SeedFails
  BY <1>4 DEF SeedFails
<1>5. CASE ListenEnds
  BY <1>5 DEF ListenEnds
<1>6. CASE ListenRaises
  BY <1>6 DEF ListenRaises
<1>7. CASE BackoffOver
  BY <1>7 DEF BackoffOver
<1>8. CASE Close
  BY <1>8 DEF Close
<1>9. ASSUME NEW s \in Session, Attempt(s) PROVE ChannelsAgree'
  BY <1>9 DEF Attempt
<1>10. ASSUME NEW s \in Session, SubscribeOk(s) PROVE ChannelsAgree'
  BY <1>10 DEF SubscribeOk
<1>11. ASSUME NEW s \in Session, SubscribeRaises(s) PROVE ChannelsAgree'
  BY <1>11 DEF SubscribeRaises
<1>12. ASSUME NEW s \in Session, Retry(s) PROVE ChannelsAgree'
  BY <1>12 DEF Retry
<1>13. ASSUME NEW s \in Session, GiveUp(s) PROVE ChannelsAgree'
  BY <1>13 DEF GiveUp
<1>14. ASSUME NEW s \in Session, Register(s) PROVE ChannelsAgree'
  BY <1>14 DEF Register
<1>15. ASSUME NEW s \in Session, RollBack(s) PROVE ChannelsAgree'
  BY <1>15 DEF RollBack
<1>16. ASSUME NEW s \in Session, Cleanup(s) PROVE ChannelsAgree'
  BY <1>16 DEF Cleanup
<1>17. ASSUME NEW s \in Session, Remove(s) PROVE ChannelsAgree'
  <2> PICK y \in todo[s] :
         IF y \in active
         THEN /\ active' = active \ {y}
              /\ confirmed' = confirmed \ {y}
              /\ DemandOfActive
              /\ target' = [target EXCEPT ![s] = y]
              /\ IF handle THEN lock' = s /\ Goto(s, "unsubscribe") /\ UNCHANGED todo
                           ELSE UNCHANGED lock /\ Discard(s, todo[s] \ {y})
         ELSE Discard(s, todo[s] \ {y}) /\ UNCHANGED <<channelVars, target, lock>>
    BY <1>17 DEF Remove
  <2>1. CASE y \notin active
    BY <1>17, <2>1 DEF Remove
  <2>2. CASE y \in active
    <3>1. active' = active \ {y} /\ confirmed' = confirmed \ {y} /\ (demand' <=> active' # {})
      BY <2>2
    <3>2. UNCHANGED <<handle, fpc, wire>>
      BY <1>17 DEF Remove
    <3> QED
      BY <3>1, <3>2
  <2> QED
    BY <2>1, <2>2
<1>18. ASSUME NEW s \in Session, UnsubscribeOk(s) PROVE ChannelsAgree'
  BY <1>18 DEF UnsubscribeOk
<1>19. ASSUME NEW s \in Session, UnsubscribeRaises(s) PROVE ChannelsAgree'
  BY <1>19 DEF UnsubscribeRaises
<1>20. ASSUME NEW s \in Session, NEW y \in Wants[s], Subscribe(s, y) PROVE ChannelsAgree'
  BY <1>20 DEF Subscribe
<1>21. ASSUME NEW s \in Session, NEW y \in Wants[s], Unsubscribe(s, y) PROVE ChannelsAgree'
  BY <1>21 DEF Unsubscribe
<1>22. CASE UNCHANGED vars
  BY <1>22
<1> HIDE DEF ChannelsTypeOK, LockDiscipline, ChannelsAgree, HandlersAgree
<1> QED
  BY <1>1, <1>2, <1>3, <1>4, <1>5, <1>6, <1>7, <1>8, <1>9, <1>10, <1>11, <1>12,
     <1>13, <1>14, <1>15, <1>16, <1>17, <1>18, <1>19, <1>20, <1>21, <1>22
     DEF Next, FanoutStep, Request, Returned, Slept, Fetched

(* Every step keeps what is confirmed sent.                                *)
LEMMA ConfirmedWasSentStep ==
  ASSUME ChannelsTypeOK, LockDiscipline, ChannelsAgree, ConfirmedWasSent, HandlersAgree,
         [Next]_vars
  PROVE  ConfirmedWasSent'
PROOF
<1> USE ChannelsAssumption DEF ChannelsTypeOK, LockDiscipline, ChannelsAgree, ConfirmedWasSent, HandlersAgree
<1>1. CASE Open
  BY <1>1 DEF Open
<1>2. CASE Seed
  BY <1>2 DEF Seed
<1>3. CASE SeedOk
  BY <1>3 DEF SeedOk
<1>4. CASE SeedFails
  BY <1>4 DEF SeedFails
<1>5. CASE ListenEnds
  BY <1>5 DEF ListenEnds
<1>6. CASE ListenRaises
  BY <1>6 DEF ListenRaises
<1>7. CASE BackoffOver
  BY <1>7 DEF BackoffOver
<1>8. CASE Close
  BY <1>8 DEF Close
<1>9. ASSUME NEW s \in Session, Attempt(s) PROVE ConfirmedWasSent'
  BY <1>9 DEF Attempt
<1>10. ASSUME NEW s \in Session, SubscribeOk(s) PROVE ConfirmedWasSent'
  BY <1>10 DEF SubscribeOk
<1>11. ASSUME NEW s \in Session, SubscribeRaises(s) PROVE ConfirmedWasSent'
  BY <1>11 DEF SubscribeRaises
<1>12. ASSUME NEW s \in Session, Retry(s) PROVE ConfirmedWasSent'
  BY <1>12 DEF Retry
<1>13. ASSUME NEW s \in Session, GiveUp(s) PROVE ConfirmedWasSent'
  BY <1>13 DEF GiveUp
<1>14. ASSUME NEW s \in Session, Register(s) PROVE ConfirmedWasSent'
  BY <1>14 DEF Register
<1>15. ASSUME NEW s \in Session, RollBack(s) PROVE ConfirmedWasSent'
  BY <1>15 DEF RollBack
<1>16. ASSUME NEW s \in Session, Cleanup(s) PROVE ConfirmedWasSent'
  BY <1>16 DEF Cleanup
<1>17. ASSUME NEW s \in Session, Remove(s) PROVE ConfirmedWasSent'
  BY <1>17 DEF Remove
<1>18. ASSUME NEW s \in Session, UnsubscribeOk(s) PROVE ConfirmedWasSent'
  BY <1>18 DEF UnsubscribeOk
<1>19. ASSUME NEW s \in Session, UnsubscribeRaises(s) PROVE ConfirmedWasSent'
  BY <1>19 DEF UnsubscribeRaises
<1>20. ASSUME NEW s \in Session, NEW y \in Wants[s], Subscribe(s, y) PROVE ConfirmedWasSent'
  BY <1>20 DEF Subscribe
<1>21. ASSUME NEW s \in Session, NEW y \in Wants[s], Unsubscribe(s, y) PROVE ConfirmedWasSent'
  BY <1>21 DEF Unsubscribe
<1>22. CASE UNCHANGED vars
  BY <1>22
<1> HIDE DEF ChannelsTypeOK, LockDiscipline, ChannelsAgree, ConfirmedWasSent, HandlersAgree
<1> QED
  BY <1>1, <1>2, <1>3, <1>4, <1>5, <1>6, <1>7, <1>8, <1>9, <1>10, <1>11, <1>12,
     <1>13, <1>14, <1>15, <1>16, <1>17, <1>18, <1>19, <1>20, <1>21, <1>22
     DEF Next, FanoutStep, Request, Returned, Slept, Fetched

(* Every step keeps the handlers and the registries in agreement.          *)
LEMMA HandlersAgreeStep ==
  ASSUME ChannelsTypeOK, LockDiscipline, ChannelsAgree, HandlersAgree, [Next]_vars
  PROVE  HandlersAgree'
PROOF
<1> USE ChannelsAssumption DEF ChannelsTypeOK, LockDiscipline, ChannelsAgree, HandlersAgree
<1>1. CASE Open
  BY <1>1 DEF Open
<1>2. CASE Seed
  BY <1>2 DEF Seed
<1>3. CASE SeedOk
  BY <1>3 DEF SeedOk
<1>4. CASE SeedFails
  BY <1>4 DEF SeedFails
<1>5. CASE ListenEnds
  BY <1>5 DEF ListenEnds
<1>6. CASE ListenRaises
  BY <1>6 DEF ListenRaises
<1>7. CASE BackoffOver
  BY <1>7 DEF BackoffOver
<1>8. CASE Close
  BY <1>8 DEF Close
<1>9. ASSUME NEW s \in Session, Attempt(s) PROVE HandlersAgree'
  <2>1. CASE target[s] \in confirmed
    BY <1>9, <2>1 DEF Attempt
  <2>2. CASE target[s] \notin confirmed /\ ~handle
    BY <1>9, <2>2 DEF Attempt
  <2>3. CASE target[s] \notin confirmed /\ handle
    BY <1>9, <2>3 DEF Attempt
  <2> QED
    BY <2>1, <2>2, <2>3
<1>10. ASSUME NEW s \in Session, SubscribeOk(s) PROVE HandlersAgree'
  BY <1>10 DEF SubscribeOk
<1>11. ASSUME NEW s \in Session, SubscribeRaises(s) PROVE HandlersAgree'
  BY <1>11 DEF SubscribeRaises
<1>12. ASSUME NEW s \in Session, Retry(s) PROVE HandlersAgree'
  BY <1>12 DEF Retry
<1>13. ASSUME NEW s \in Session, GiveUp(s) PROVE HandlersAgree'
  BY <1>13 DEF GiveUp
<1>14. ASSUME NEW s \in Session, Register(s) PROVE HandlersAgree'
  BY <1>14 DEF Register
<1>15. ASSUME NEW s \in Session, RollBack(s) PROVE HandlersAgree'
  BY <1>15 DEF RollBack
<1>16. ASSUME NEW s \in Session, Cleanup(s) PROVE HandlersAgree'
  BY <1>16 DEF Cleanup
<1>17. ASSUME NEW s \in Session, Remove(s) PROVE HandlersAgree'
  BY <1>17 DEF Remove
<1>18. ASSUME NEW s \in Session, UnsubscribeOk(s) PROVE HandlersAgree'
  BY <1>18 DEF UnsubscribeOk
<1>19. ASSUME NEW s \in Session, UnsubscribeRaises(s) PROVE HandlersAgree'
  BY <1>19 DEF UnsubscribeRaises
<1>20. ASSUME NEW s \in Session, NEW y \in Wants[s], Subscribe(s, y) PROVE HandlersAgree'
  BY <1>20 DEF Subscribe
<1>21. ASSUME NEW s \in Session, NEW y \in Wants[s], Unsubscribe(s, y) PROVE HandlersAgree'
  <2>1. y \in Symbol
    BY ChannelsAssumption
  <2>2. \A t \in Session : t # s => pc'[t] = pc[t] /\ todo'[t] = todo[t]
    BY <1>21 DEF Unsubscribe
  <2>3. pc[s] = "idle" /\ pc'[s] \in {"idle", "remove"} /\ (pc'[s] = "remove" <=> todo'[s] # {})
    <3>1. CASE registered'[y] = {}
      BY <1>21, <2>1, <3>1 DEF Unsubscribe
    <3>2. CASE registered'[y] # {}
      BY <1>21, <2>1, <3>2 DEF Unsubscribe
    <3> QED
      BY <3>1, <3>2
  <2>4. UNCHANGED <<initializing, target, tries, handle, active>>
    BY <1>21 DEF Unsubscribe
  <2> QED
    BY <2>2, <2>3, <2>4
<1>22. CASE UNCHANGED vars
  BY <1>22
<1> HIDE DEF ChannelsTypeOK, LockDiscipline, ChannelsAgree, HandlersAgree
<1> QED
  BY <1>1, <1>2, <1>3, <1>4, <1>5, <1>6, <1>7, <1>8, <1>9, <1>10, <1>11, <1>12,
     <1>13, <1>14, <1>15, <1>16, <1>17, <1>18, <1>19, <1>20, <1>21, <1>22
     DEF Next, FanoutStep, Request, Returned, Slept, Fetched

(* Every step leaves somebody to answer for each desired channel.          *)
LEMMA NoOrphanChannelStep ==
  ASSUME ChannelsTypeOK, ChannelsAgree, HandlersAgree, NoOrphanChannel, [Next]_vars
  PROVE  NoOrphanChannel'
PROOF
<1> USE ChannelsAssumption DEF ChannelsTypeOK, ChannelsAgree, HandlersAgree, NoOrphanChannel
<1>1. CASE Open
  BY <1>1 DEF Open
<1>2. CASE Seed
  BY <1>2 DEF Seed
<1>3. CASE SeedOk
  BY <1>3 DEF SeedOk
<1>4. CASE SeedFails
  BY <1>4 DEF SeedFails
<1>5. CASE ListenEnds
  BY <1>5 DEF ListenEnds
<1>6. CASE ListenRaises
  BY <1>6 DEF ListenRaises
<1>7. CASE BackoffOver
  BY <1>7 DEF BackoffOver
<1>8. CASE Close
  BY <1>8 DEF Close
<1>9. ASSUME NEW s \in Session, Attempt(s) PROVE NoOrphanChannel'
  BY <1>9 DEF Attempt
<1>10. ASSUME NEW s \in Session, SubscribeOk(s) PROVE NoOrphanChannel'
  BY <1>10 DEF SubscribeOk
<1>11. ASSUME NEW s \in Session, SubscribeRaises(s) PROVE NoOrphanChannel'
  BY <1>11 DEF SubscribeRaises
<1>12. ASSUME NEW s \in Session, Retry(s) PROVE NoOrphanChannel'
  BY <1>12 DEF Retry
<1>13. ASSUME NEW s \in Session, GiveUp(s) PROVE NoOrphanChannel'
  <2>1. \A z \in Symbol, t \in Session : t # s /\ Answers(t, z) => Answers(t, z)'
    BY <1>13 DEF GiveUp
  <2>2. CASE registered[target[s]] \cup initializing[target[s]] = {}
    <3>1. target[s] \in todo'[s]
      BY <1>13, <2>2 DEF GiveUp
    <3> QED
      BY <1>13, <2>1, <3>1 DEF GiveUp
  <2>3. CASE registered[target[s]] \cup initializing[target[s]] # {}
    <3>1. registered[target[s]] # {} \/ \E t \in Session : t # s /\ Answers(t, target[s])
      BY <1>13, <2>3 DEF GiveUp
    <3> QED
      BY <1>13, <2>1, <3>1 DEF GiveUp
  <2> QED
    BY <2>2, <2>3
<1>14. ASSUME NEW s \in Session, Register(s) PROVE NoOrphanChannel'
  BY <1>14 DEF Register
<1>15. ASSUME NEW s \in Session, RollBack(s) PROVE NoOrphanChannel'
  BY <1>15 DEF RollBack
<1>16. ASSUME NEW s \in Session, Cleanup(s) PROVE NoOrphanChannel'
  <2>1. \A z \in Symbol, t \in Session : t # s /\ Answers(t, z) => Answers(t, z)'
    BY <1>16 DEF Cleanup
  <2>2. \A z \in Symbol : ~Answers(s, z)
    BY <1>16 DEF Cleanup
  <2>3. todo'[s] = {z \in Symbol : registered[z] = {s}}
    BY <1>16 DEF Cleanup
  <2>4. \A z \in Symbol : registered'[z] = registered[z] \ {s}
    BY <1>16 DEF Cleanup
  <2>5. active' = active
    BY <1>16 DEF Cleanup
  <2> QED
    BY <2>1, <2>2, <2>3, <2>4, <2>5
<1>17. ASSUME NEW s \in Session, Remove(s) PROVE NoOrphanChannel'
  BY <1>17 DEF Remove
<1>18. ASSUME NEW s \in Session, UnsubscribeOk(s) PROVE NoOrphanChannel'
  BY <1>18 DEF UnsubscribeOk
<1>19. ASSUME NEW s \in Session, UnsubscribeRaises(s) PROVE NoOrphanChannel'
  BY <1>19 DEF UnsubscribeRaises
<1>20. ASSUME NEW s \in Session, NEW y \in Wants[s], Subscribe(s, y) PROVE NoOrphanChannel'
  BY <1>20 DEF Subscribe
<1>21. ASSUME NEW s \in Session, NEW y \in Wants[s], Unsubscribe(s, y) PROVE NoOrphanChannel'
  BY <1>21 DEF Unsubscribe
<1>22. CASE UNCHANGED vars
  BY <1>22
<1> HIDE DEF ChannelsTypeOK, ChannelsAgree, HandlersAgree, NoOrphanChannel
<1> QED
  BY <1>1, <1>2, <1>3, <1>4, <1>5, <1>6, <1>7, <1>8, <1>9, <1>10, <1>11, <1>12,
     <1>13, <1>14, <1>15, <1>16, <1>17, <1>18, <1>19, <1>20, <1>21, <1>22
     DEF Next, FanoutStep, Request, Returned, Slept, Fetched

LEMMA ChannelsInvStep == ChannelsInv /\ [Next]_vars => ChannelsInv'
BY ChannelsTypeOKStep, LockDisciplineStep, ChannelsAgreeStep, ConfirmedWasSentStep,
   HandlersAgreeStep, NoOrphanChannelStep DEF ChannelsInv

(* The handlers of all sessions and the fanout loop keep the four pieces   *)
(* of the channel state, the lock, the registries and the connection in    *)
(* agreement (gateway.py: fanout_loop, _subscribe_pubsub_symbol,           *)
(* _unsubscribe_pubsub_symbol and their callers).                          *)
THEOREM ChannelsInvariant == Spec => []ChannelsInv
PROOF
<1>1. Init => ChannelsInv
  BY ChannelsInitially
<1>2. ChannelsInv /\ [Next]_vars => ChannelsInv'
  BY ChannelsInvStep
<1> QED
  BY <1>1, <1>2, PTL DEF Spec

(* What confirmed_channels says is subscribed was asked of the connection  *)
(* that is listened to, whichever calls raised and whatever was sent of    *)
(* them.                                                                   *)
THEOREM ConfirmedChannelsWereSent == Spec => []ConfirmedWasSent
PROOF
<1>1. ChannelsInv => ConfirmedWasSent
  BY DEF ChannelsInv
<1> QED
  BY <1>1, ChannelsInvariant, PTL

(* No channel stays desired without a session that is registered for it or *)
(* a handler that is going to register or to remove it: failed             *)
(* subscriptions and departures leave nothing behind.                      *)
THEOREM NoChannelIsOrphaned == Spec => []NoOrphanChannel
PROOF
<1>1. ChannelsInv => NoOrphanChannel
  BY DEF ChannelsInv
<1> QED
  BY <1>1, ChannelsInvariant, PTL
=============================================================================
