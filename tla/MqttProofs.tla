------------------------------ MODULE MqttProofs ------------------------------
(***************************************************************************)
(* What Mqtt.tla keeps for any number of requests and of losses, proved    *)
(* from an inductive invariant: the types (TypeOK), what holds at each     *)
(* place of main (PlaceInv), and the order in which requests pass from the *)
(* broker through the router to the answers (OrderInv).                    *)
(***************************************************************************)
EXTENDS Mqtt, TLAPS, SequenceTheorems

Opening == {"connect", "subscribe"}
Opened == {"open", "offline", "disconnect", "closed"}

(* The subscription lives in the connection, and the rest of the state       *)
(* follows the progress of Open and of Close.                                *)
PlaceInv ==
    /\ subscribed => client = "up"
    /\ main = "connect" => client = "new"
    /\ main \in Opening => ~ subscribed /\ ~ cut /\ inbox = <<>> /\ handler = Idle
    /\ ready <=> main \in Opened
    /\ main \in {"disconnect", "closed"} => presence = "offline" \/ "offline" \in unsaid
    /\ HearsUntilLoss
    /\ FailedIsSilent
    /\ OnlyEarlyRequestsCrash

(* Requests are numbered as they are sent: those on their way come after the *)
(* one that is handled, and that after those which have been answered.       *)
OrderInv ==
    /\ handler.at = "idle" <=> handler.of = 0
    /\ handler.of <= sent
    /\ \A i \in DOMAIN inbox : handler.of < inbox[i] /\ inbox[i] <= sent
    /\ \A i, j \in DOMAIN inbox : i < j => inbox[i] < inbox[j]
    /\ \A i \in DOMAIN answers :
          /\ answers[i] <= sent
          /\ handler.at # "idle" => answers[i] < handler.of
          /\ \A j \in DOMAIN inbox : answers[i] < inbox[j]
    /\ AnswersInOrder

IInv == TypeOK /\ PlaceInv /\ OrderInv

-----------------------------------------------------------------------------
(* Both queues hold requests, and requests are numbers from 1 on. *)
LEMMA QueueTypes ==
    ASSUME TypeOK
    PROVE  /\ inbox \in Seq(Request) /\ answers \in Seq(Request)
           /\ Len(inbox) \in Nat /\ DOMAIN inbox = 1..Len(inbox)
           /\ Len(answers) \in Nat /\ DOMAIN answers = 1..Len(answers)
           /\ \A i \in DOMAIN inbox : inbox[i] \in Request
           /\ \A i \in DOMAIN answers : answers[i] \in Request
           /\ Request \subseteq Nat \ {0}
<1>1. inbox \in Seq(Request) /\ answers \in Seq(Request)
    BY DEF TypeOK
<1>2. Request \subseteq Nat \ {0}
    BY BoundsAssumption DEF Request
<1>3. QED
    BY <1>1, <1>2, LenProperties, ElementOfSeq

(* What is under way when the connection is given up is cut short. *)
LEMMA GiveUpCuts ==
    ASSUME TypeOK, NEW status, GiveUp(status)
    PROVE  /\ inbox' \in Seq(Request) /\ missed' \subseteq Request
           /\ DOMAIN inbox' \subseteq DOMAIN inbox
           /\ \A i \in DOMAIN inbox' : inbox'[i] = inbox[i]
<1>1. PICK n \in 0..Len(inbox) :
          /\ inbox' = SubSeq(inbox, 1, n)
          /\ missed' = missed \cup {inbox[i] : i \in n+1..Len(inbox)}
    BY DEF GiveUp
<1>2. inbox \in Seq(Request) /\ Len(inbox) \in Nat /\ DOMAIN inbox = 1..Len(inbox)
    BY QueueTypes
<1>3. \A i \in 1..Len(inbox) : inbox[i] \in Request
    BY QueueTypes
<1>4. /\ inbox' \in Seq(Request)
      /\ Len(inbox') = n
      /\ \A i \in 1..n : inbox'[i] = inbox[i]
    BY <1>1, <1>2, <1>3, SubSeqProperties
<1>5. DOMAIN inbox' = 1..n
    BY <1>4, LenProperties
<1>6. missed' \subseteq Request
  <2>1. n+1..Len(inbox) \subseteq 1..Len(inbox)
      BY <1>2
  <2>2. \A i \in n+1..Len(inbox) : inbox[i] \in Request
      BY <1>3, <2>1
  <2>3. missed \subseteq Request
      BY DEF TypeOK
  <2>4. QED
      BY <1>1, <2>2, <2>3
<1>7. QED
    BY <1>1, <1>2, <1>4, <1>5, <1>6

(* Every step keeps the types. *)
LEMMA TypedStep ==
    ASSUME TypeOK, OrderInv, [Next]_vars
    PROVE  TypeOK'
<1>1. CASE OpenClient
    BY <1>1 DEF TypeOK, Main, link, server, history, OpenClient
<1>2. CASE OpenClientFails
    BY <1>2 DEF TypeOK, Main, link, server, history, OpenClientFails
<1>3. CASE SubscribeRequest \/ Subscribed
    BY <1>3 DEF TypeOK, Main, link, server, history, SubscribeRequest, Subscribed
<1>4. CASE SubscribeFails
    BY <1>4 DEF TypeOK, Main, link, server, history, SubscribeFails
<1>5. CASE PublishHeartbeat
    BY <1>5 DEF TypeOK, Main, link, server, history, PublishHeartbeat, Publish
<1>6. CASE HeartbeatFails
    BY <1>6 DEF TypeOK, Main, link, server, history, HeartbeatFails
<1>7. CASE AssignMqtt
    BY <1>7 DEF TypeOK, Main, link, server, history, AssignMqtt
<1>8. CASE Disconnect("close_client", "failed")
    BY <1>8, GiveUpCuts DEF TypeOK, Main, link, server, history, Disconnect, GiveUp
<1>9. CASE PublishOffline
    BY <1>9 DEF TypeOK, Main, link, server, history, PublishOffline, Publish
<1>10. CASE Disconnect("disconnect", "closed")
    BY <1>10, GiveUpCuts DEF TypeOK, Main, link, server, history, Disconnect, GiveUp
<1>11. CASE Close
    BY <1>11 DEF TypeOK, Main, link, server, history, Close
<1>12. CASE Exit
    BY <1>12 DEF TypeOK, Main, link, server, history, Exit
<1>13. CASE Take
  <2>1. Head(inbox) \in Request /\ Tail(inbox) \in Seq(Request)
      BY <1>13, HeadTailProperties DEF TypeOK, Take
  <2>2. handler' = [at |-> "handle", of |-> Head(inbox)] /\ inbox' = Tail(inbox)
      BY <1>13 DEF Take
  <2>3. handler' \in [at : {"idle", "handle", "answer", "stuck"}, of : 0..MaxRequests]
      BY <2>1, <2>2, BoundsAssumption DEF Request
  <2>4. QED
      BY <1>13, <2>1, <2>2, <2>3 DEF TypeOK, Take, link, server, history
<1>14. CASE Handle
    BY <1>14 DEF TypeOK, Main, link, server, history, Handle
<1>15. CASE AnswerNil
    BY <1>15 DEF TypeOK, Main, link, server, history, AnswerNil
<1>16. CASE Answer
  <2>1. handler' \in [at : {"idle", "handle", "answer", "stuck"}, of : 0..MaxRequests]
      BY <1>16, BoundsAssumption DEF Answer, Idle
  <2>2. answers' \in Seq(Request) /\ dropped' \subseteq Request
    <3>1. handler.of \in Request
        BY <1>16 DEF Answer, TypeOK, OrderInv, Request
    <3>2. answers \in Seq(Request) /\ dropped \subseteq Request
        BY DEF TypeOK
    <3>3. Append(answers, handler.of) \in Seq(Request)
        BY <3>1, <3>2, AppendProperties
    <3>4. QED
        BY <1>16, <3>1, <3>2, <3>3 DEF Answer
  <2>3. QED
      BY <1>16, <2>1, <2>2 DEF TypeOK, Answer, link, server, history
<1>17. CASE Publication
  <2>1. sent' \in Request /\ sent' \in 0..MaxRequests
      BY <1>17, BoundsAssumption DEF TypeOK, Publication, Request
  <2>2. inbox' \in Seq(Request) /\ missed' \subseteq Request
    <3>1. inbox \in Seq(Request) /\ missed \subseteq Request
        BY DEF TypeOK
    <3>2. Append(inbox, sent') \in Seq(Request)
        BY <2>1, <3>1, AppendProperties
    <3>3. QED
        BY <1>17, <2>1, <3>1, <3>2 DEF Publication
  <2>3. QED
      BY <1>17, <2>1, <2>2 DEF TypeOK, Publication, link, server, history
<1>18. CASE Lose
  <2>1. inbox' \in Seq(Request) /\ missed' \subseteq Request
      BY <1>18, GiveUpCuts DEF Lose
  <2>2. losses' \in 0..MaxLosses
      BY <1>18, BoundsAssumption DEF Lose, TypeOK
  <2>3. client' = "reconnecting" /\ subscribed' = FALSE /\ cut' \in BOOLEAN
      BY <1>18 DEF Lose, GiveUp, TypeOK
  <2>4. QED
      BY <1>18, <2>1, <2>2, <2>3 DEF TypeOK, Lose, link, server, history
<1>19. CASE Reconnect
    BY <1>19 DEF TypeOK, Main, link, server, history, Reconnect
<1>20. CASE UNCHANGED vars
  <2>1. /\ UNCHANGED <<main, ready, client, subscribed, losses, cut, inbox, handler>>
        /\ UNCHANGED <<process, presence, sent, answers, missed, dropped, unsaid>>
      BY <1>20 DEF vars, link, server, history
  <2>2. /\ inbox' \in Seq(Request) /\ answers' \in Seq(Request)
        /\ handler' \in [at : {"idle", "handle", "answer", "stuck"}, of : 0..MaxRequests]
      BY <2>1 DEF TypeOK
  <2>3. QED
      BY <2>1, <2>2 DEF TypeOK
<1>21. QED
    BY <1>1, <1>2, <1>3, <1>4, <1>5, <1>6, <1>7, <1>8, <1>9, <1>10, <1>11, <1>12,
       <1>13, <1>14, <1>15, <1>16, <1>17, <1>18, <1>19, <1>20 DEF Next, MainStep,
       RouterStep

(* Every step keeps what holds at the places of main. *)
LEMMA PlaceStep ==
    ASSUME TypeOK, PlaceInv, [Next]_vars
    PROVE  PlaceInv'
<1>1. CASE OpenClient
    BY <1>1 DEF TypeOK, PlaceInv, HearsUntilLoss, FailedIsSilent,
       OnlyEarlyRequestsCrash, Opening, Opened, Main, link, server, history,
       OpenClient
<1>2. CASE OpenClientFails
    BY <1>2 DEF TypeOK, PlaceInv, HearsUntilLoss, FailedIsSilent,
       OnlyEarlyRequestsCrash, Opening, Opened, Main, link, server, history,
       OpenClientFails
<1>3. CASE SubscribeRequest \/ Subscribed
  <2>1. CASE SubscribeRequest
      BY <2>1 DEF TypeOK, PlaceInv, HearsUntilLoss, FailedIsSilent,
         OnlyEarlyRequestsCrash, Opening, Opened, Main, link, server, history,
         SubscribeRequest
  <2>2. CASE Subscribed
      BY <2>2 DEF TypeOK, PlaceInv, HearsUntilLoss, FailedIsSilent,
         OnlyEarlyRequestsCrash, Opening, Opened, Main, link, server, history,
         Subscribed
  <2>3. QED
      BY <1>3, <2>1, <2>2
<1>4. CASE SubscribeFails
    BY <1>4 DEF TypeOK, PlaceInv, HearsUntilLoss, FailedIsSilent,
       OnlyEarlyRequestsCrash, Opening, Opened, Main, link, server, history,
       SubscribeFails
<1>5. CASE PublishHeartbeat
    BY <1>5 DEF TypeOK, PlaceInv, HearsUntilLoss, FailedIsSilent,
       OnlyEarlyRequestsCrash, Opening, Opened, Main, link, server, history,
       PublishHeartbeat, Publish
<1>6. CASE HeartbeatFails
    BY <1>6 DEF TypeOK, PlaceInv, HearsUntilLoss, FailedIsSilent,
       OnlyEarlyRequestsCrash, Opening, Opened, Main, link, server, history,
       HeartbeatFails
<1>7. CASE AssignMqtt
    BY <1>7 DEF TypeOK, PlaceInv, HearsUntilLoss, FailedIsSilent,
       OnlyEarlyRequestsCrash, Opening, Opened, Main, link, server, history,
       AssignMqtt
<1>8. CASE Disconnect("close_client", "failed")
    BY <1>8 DEF TypeOK, PlaceInv, HearsUntilLoss, FailedIsSilent,
       OnlyEarlyRequestsCrash, Opening, Opened, Main, link, server, history,
       Disconnect, GiveUp
<1>9. CASE PublishOffline
    BY <1>9 DEF TypeOK, PlaceInv, HearsUntilLoss, FailedIsSilent,
       OnlyEarlyRequestsCrash, Opening, Opened, Main, link, server, history,
       PublishOffline, Publish
<1>10. CASE Disconnect("disconnect", "closed")
    BY <1>10 DEF TypeOK, PlaceInv, HearsUntilLoss, FailedIsSilent,
       OnlyEarlyRequestsCrash, Opening, Opened, Main, link, server, history,
       Disconnect, GiveUp
<1>11. CASE Close
    BY <1>11 DEF TypeOK, PlaceInv, HearsUntilLoss, FailedIsSilent,
       OnlyEarlyRequestsCrash, Opening, Opened, Main, link, server, history, Close
<1>12. CASE Exit
    BY <1>12 DEF TypeOK, PlaceInv, HearsUntilLoss, FailedIsSilent,
       OnlyEarlyRequestsCrash, Opening, Opened, Main, link, server, history, Exit
<1>13. CASE Take
    BY <1>13 DEF TypeOK, PlaceInv, HearsUntilLoss, FailedIsSilent,
       OnlyEarlyRequestsCrash, Opening, Opened, Main, link, server, history, Take,
       Idle
<1>14. CASE Handle
    BY <1>14 DEF TypeOK, PlaceInv, HearsUntilLoss, FailedIsSilent,
       OnlyEarlyRequestsCrash, Opening, Opened, Main, link, server, history, Handle,
       Idle
<1>15. CASE AnswerNil
  <2>1. main \notin Opened /\ main \notin Opening
    <3>1. ~ ready /\ handler # Idle
      <4>1. Idle.at = "idle"
          BY DEF Idle
      <4>2. QED
          BY <1>15, <4>1, Zenon DEF AnswerNil
    <3>2. QED
        BY <3>1 DEF PlaceInv
  <2>2. main \in {"suback", "heartbeat", "assign", "close_client", "failed"}
      BY <2>1 DEF Opened, Opening, TypeOK
  <2>3. UNCHANGED <<main, ready, client, subscribed, cut, inbox, handler, presence, unsaid>>
      BY <1>15 DEF AnswerNil, link, server, history
  <2>4. OnlyEarlyRequestsCrash'
      BY <2>2, <2>3 DEF OnlyEarlyRequestsCrash
  <2>5. QED
      BY <2>3, <2>4 DEF PlaceInv, HearsUntilLoss, FailedIsSilent
<1>16. CASE Answer
    BY <1>16 DEF TypeOK, PlaceInv, HearsUntilLoss, FailedIsSilent,
       OnlyEarlyRequestsCrash, Opening, Opened, Main, link, server, history, Answer,
       Idle
<1>17. CASE Publication
    BY <1>17 DEF TypeOK, PlaceInv, HearsUntilLoss, FailedIsSilent,
       OnlyEarlyRequestsCrash, Opening, Opened, Main, link, server, history,
       Publication
<1>18. CASE Lose
    BY <1>18 DEF TypeOK, PlaceInv, HearsUntilLoss, FailedIsSilent,
       OnlyEarlyRequestsCrash, Opening, Opened, Main, link, server, history, Lose,
       GiveUp
<1>19. CASE Reconnect
    BY <1>19 DEF TypeOK, PlaceInv, HearsUntilLoss, FailedIsSilent,
       OnlyEarlyRequestsCrash, Opening, Opened, Main, link, server, history,
       Reconnect
<1>20. CASE UNCHANGED vars
    BY <1>20 DEF TypeOK, PlaceInv, HearsUntilLoss, FailedIsSilent,
       OnlyEarlyRequestsCrash, Opening, Opened, Main, link, server, history, vars
<1>21. QED
    BY <1>1, <1>2, <1>3, <1>4, <1>5, <1>6, <1>7, <1>8, <1>9, <1>10, <1>11, <1>12,
       <1>13, <1>14, <1>15, <1>16, <1>17, <1>18, <1>19, <1>20 DEF Next, MainStep,
       RouterStep

(* Every step keeps the order. *)
LEMMA OrderStep ==
    ASSUME TypeOK, OrderInv, [Next]_vars
    PROVE  OrderInv'
<1>1. CASE OpenClient
    BY <1>1 DEF TypeOK, OrderInv, AnswersInOrder, Main, link, server, history,
       OpenClient
<1>2. CASE OpenClientFails
    BY <1>2 DEF TypeOK, OrderInv, AnswersInOrder, Main, link, server, history,
       OpenClientFails
<1>3. CASE SubscribeRequest \/ Subscribed
    BY <1>3 DEF TypeOK, OrderInv, AnswersInOrder, Main, link, server, history,
       SubscribeRequest, Subscribed
<1>4. CASE SubscribeFails
    BY <1>4 DEF TypeOK, OrderInv, AnswersInOrder, Main, link, server, history,
       SubscribeFails
<1>5. CASE PublishHeartbeat
    BY <1>5 DEF TypeOK, OrderInv, AnswersInOrder, Main, link, server, history,
       PublishHeartbeat, Publish
<1>6. CASE HeartbeatFails
    BY <1>6 DEF TypeOK, OrderInv, AnswersInOrder, Main, link, server, history,
       HeartbeatFails
<1>7. CASE AssignMqtt
    BY <1>7 DEF TypeOK, OrderInv, AnswersInOrder, Main, link, server, history,
       AssignMqtt
<1>8. CASE Disconnect("close_client", "failed")
    BY <1>8, GiveUpCuts DEF TypeOK, OrderInv, AnswersInOrder, Main, link, server,
       history, Disconnect
<1>9. CASE PublishOffline
    BY <1>9 DEF TypeOK, OrderInv, AnswersInOrder, Main, link, server, history,
       PublishOffline, Publish
<1>10. CASE Disconnect("disconnect", "closed")
    BY <1>10, GiveUpCuts DEF TypeOK, OrderInv, AnswersInOrder, Main, link, server,
       history, Disconnect
<1>11. CASE Close
    BY <1>11 DEF TypeOK, OrderInv, AnswersInOrder, Main, link, server, history, Close
<1>12. CASE Exit
    BY <1>12 DEF TypeOK, OrderInv, AnswersInOrder, Main, link, server, history, Exit
<1>13. CASE Take
    BY <1>13, HeadTailProperties DEF TypeOK, OrderInv, AnswersInOrder, Main, link,
       server, history, Take, Request, Idle
<1>14. CASE Handle
    BY <1>14 DEF TypeOK, OrderInv, AnswersInOrder, Main, link, server, history,
       Handle, Idle
<1>15. CASE AnswerNil
    BY <1>15 DEF TypeOK, OrderInv, AnswersInOrder, Main, link, server, history,
       AnswerNil, Idle
<1>16. CASE Answer
  <2>1. answers \in Seq(Request) /\ DOMAIN answers = 1..Len(answers) /\ Len(answers) \in Nat
      BY QueueTypes
  <2>2. handler' = Idle /\ inbox' = inbox /\ sent' = sent
      BY <1>16 DEF Answer
  <2>3. handler.of \in Request /\ sent \in Nat
      BY <1>16, BoundsAssumption DEF Answer, TypeOK, OrderInv, Request
  <2>4. CASE answers' = Append(answers, handler.of)
    <3>1. /\ DOMAIN answers' = 1..Len(answers)+1
          /\ \A i \in 1..Len(answers) : answers'[i] = answers[i]
          /\ answers'[Len(answers)+1] = handler.of
      <4>1. /\ Append(answers, handler.of) \in Seq(Request)
            /\ Len(Append(answers, handler.of)) = Len(answers)+1
            /\ \A i \in 1..Len(answers) : Append(answers, handler.of)[i] = answers[i]
            /\ Append(answers, handler.of)[Len(answers)+1] = handler.of
          BY <2>1, <2>3, AppendProperties
      <4>2. QED
          BY <2>4, <4>1, LenProperties
    <3>2. \A i \in DOMAIN answers' \ DOMAIN answers :
              answers'[i] = handler.of /\ i = Len(answers)+1
      <4>1. \A i \in 1..Len(answers)+1 : i \in 1..Len(answers) \/ i = Len(answers)+1
          BY <2>1
      <4>2. QED
          BY <2>1, <3>1, <4>1
    <3>3. \A i \in DOMAIN answers : answers'[i] = answers[i] /\ answers[i] < handler.of
        BY <1>16, <2>1, <3>1 DEF Answer, OrderInv
    <3>4. \A i, j \in DOMAIN answers' : i < j => answers'[i] < answers'[j]
        BY <2>1, <3>2, <3>3 DEF OrderInv, AnswersInOrder
    <3>5. \A i \in DOMAIN inbox : 0 < inbox[i] /\ handler.of < inbox[i] /\ inbox[i] <= sent
        BY QueueTypes DEF OrderInv
    <3>6. \A i \in DOMAIN answers' : answers'[i] <= sent /\ \A j \in DOMAIN inbox : answers'[i] < inbox[j]
        BY <3>2, <3>3, <3>5 DEF OrderInv
    <3>7. QED
        BY <2>2, <2>3, <3>4, <3>5, <3>6 DEF OrderInv, AnswersInOrder, Idle
  <2>5. CASE answers' = answers
    <3>1. \A i \in DOMAIN inbox : 0 < inbox[i]
        BY QueueTypes
    <3>2. QED
        BY <2>2, <2>3, <2>5, <3>1 DEF OrderInv, AnswersInOrder, Idle
  <2>6. QED
      BY <1>16, <2>4, <2>5 DEF Answer
<1>17. CASE Publication
  <2>1. sent' = sent + 1 /\ sent \in Nat /\ sent' \in Request
      BY <1>17, BoundsAssumption DEF Publication, TypeOK, Request
  <2>2. UNCHANGED <<handler, answers>> /\ handler.of \in Nat
      BY <1>17, BoundsAssumption DEF Publication, TypeOK
  <2>3. inbox \in Seq(Request) /\ DOMAIN inbox = 1..Len(inbox) /\ Len(inbox) \in Nat
      BY QueueTypes
  <2>4. \A i \in DOMAIN answers : answers[i] \in Request
      BY QueueTypes
  <2>5. \A i \in DOMAIN inbox : inbox[i] \in Request
      BY <2>3, ElementOfSeq
  <2>6. CASE inbox' = Append(inbox, sent')
    <3>1. /\ Append(inbox, sent') \in Seq(Request)
          /\ Len(Append(inbox, sent')) = Len(inbox)+1
          /\ \A i \in 1..Len(inbox) : Append(inbox, sent')[i] = inbox[i]
          /\ Append(inbox, sent')[Len(inbox)+1] = sent'
        BY <2>1, <2>3, AppendProperties
    <3>2. /\ DOMAIN inbox' = 1..Len(inbox)+1
          /\ \A i \in DOMAIN inbox : inbox'[i] = inbox[i]
          /\ inbox'[Len(inbox)+1] = sent'
        BY <2>3, <2>6, <3>1, LenProperties
    <3>3. \A i \in DOMAIN inbox' \ DOMAIN inbox :
              inbox'[i] = sent' /\ i = Len(inbox)+1
      <4>1. \A i \in 1..Len(inbox)+1 : i \in 1..Len(inbox) \/ i = Len(inbox)+1
          BY <2>3
      <4>2. QED
          BY <2>3, <3>2, <4>1
    <3>4. \A i \in DOMAIN inbox' : handler.of < inbox'[i] /\ inbox'[i] <= sent'
        BY <2>1, <2>2, <2>5, <3>2, <3>3 DEF OrderInv, Request
    <3>5. \A i, j \in DOMAIN inbox' : i < j => inbox'[i] < inbox'[j]
        BY <2>1, <2>3, <2>5, <3>2, <3>3 DEF OrderInv, Request
    <3>6. \A i \in DOMAIN answers :
              answers[i] <= sent' /\ \A j \in DOMAIN inbox' : answers[i] < inbox'[j]
        BY <2>1, <2>4, <3>2, <3>3 DEF OrderInv, Request
    <3>7. QED
        BY <2>1, <2>2, <3>4, <3>5, <3>6 DEF OrderInv, AnswersInOrder
  <2>7. CASE inbox' = inbox
      BY <2>1, <2>2, <2>4, <2>5, <2>7 DEF OrderInv, AnswersInOrder, Request
  <2>8. QED
      BY <1>17, <2>6, <2>7 DEF Publication
<1>18. CASE Lose
    BY <1>18, GiveUpCuts DEF TypeOK, OrderInv, AnswersInOrder, Main, link, server,
       history, Lose
<1>19. CASE Reconnect
    BY <1>19 DEF TypeOK, OrderInv, AnswersInOrder, Main, link, server, history,
       Reconnect
<1>20. CASE UNCHANGED vars
    BY <1>20 DEF TypeOK, OrderInv, AnswersInOrder, Main, link, server, history, vars
<1>21. QED
    BY <1>1, <1>2, <1>3, <1>4, <1>5, <1>6, <1>7, <1>8, <1>9, <1>10, <1>11, <1>12,
       <1>13, <1>14, <1>15, <1>16, <1>17, <1>18, <1>19, <1>20 DEF Next, MainStep,
       RouterStep

THEOREM Invariance == Spec => []IInv
<1>1. Init => IInv
  <2>. SUFFICES ASSUME Init PROVE IInv
      OBVIOUS
  <2>1. /\ inbox \in Seq(Request) /\ answers \in Seq(Request)
        /\ DOMAIN inbox = {} /\ DOMAIN answers = {}
      BY DEF Init
  <2>2. TypeOK
    <3>1. /\ Idle \in [at : {"idle", "handle", "answer", "stuck"}, of : 0..MaxRequests]
          /\ 0 \in 0..MaxRequests /\ 0 \in 0..MaxLosses
        BY BoundsAssumption DEF Idle
    <3>2. QED
        BY <2>1, <3>1, Zenon DEF Init, TypeOK
  <2>3. PlaceInv
      BY DEF Init, PlaceInv, Opening, Opened, HearsUntilLoss, FailedIsSilent,
             OnlyEarlyRequestsCrash
  <2>4. OrderInv
      BY <2>1 DEF Init, OrderInv, AnswersInOrder, Idle
  <2>5. QED
      BY <2>2, <2>3, <2>4 DEF IInv
<1>2. IInv /\ [Next]_vars => IInv'
    BY TypedStep, PlaceStep, OrderStep DEF IInv
<1>3. QED
    BY <1>1, <1>2, PTL DEF Spec

(* The variables keep their types, and requests their numbers. *)
THEOREM Typing == Spec => []TypeOK
<1>1. IInv => TypeOK
    BY DEF IInv, PlaceInv, OrderInv
<1>2. QED
    BY <1>1, Invariance, PTL

(* From the subscription to the end of Close, the broker hands requests to the
   device unless a loss of the connection took the subscription along. *)
THEOREM Hears == Spec => []HearsUntilLoss
<1>1. IInv => HearsUntilLoss
    BY DEF IInv, PlaceInv, OrderInv
<1>2. QED
    BY <1>1, Invariance, PTL

(* An Open that fails leaves no client behind that takes requests. *)
THEOREM FailsSilently == Spec => []FailedIsSilent
<1>1. IInv => FailedIsSilent
    BY DEF IInv, PlaceInv, OrderInv
<1>2. QED
    BY <1>1, Invariance, PTL

(* The nil d.mqtt of a request ends the process only before Open has finished
   or after it has failed. *)
THEOREM CrashIsEarly == Spec => []OnlyEarlyRequestsCrash
<1>1. IInv => OnlyEarlyRequestsCrash
    BY DEF IInv, PlaceInv, OrderInv
<1>2. QED
    BY <1>1, Invariance, PTL

(* For any number of requests and losses, the server gets answers in the order
   of its requests, one for each at most. *)
THEOREM InOrder == Spec => []AnswersInOrder
<1>1. IInv => AnswersInOrder
    BY DEF IInv, PlaceInv, OrderInv
<1>2. QED
    BY <1>1, Invariance, PTL

(* A device that was closed has told the broker, unless that message was lost. *)
THEOREM SaysOffline == Spec => []ClosedIsOffline
<1>1. IInv => ClosedIsOffline
    BY DEF IInv, PlaceInv, OrderInv, ClosedIsOffline
<1>2. QED
    BY <1>1, Invariance, PTL
=============================================================================
