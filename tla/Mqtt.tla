--------------------------------- MODULE Mqtt ---------------------------------
(***************************************************************************)
(* src/packages/mqtt/mqtt.go with the parts of src/device.go that open,    *)
(* use and close it: how requests reach the device and its answers and     *)
(* status reach the server.                                                *)
(*                                                                         *)
(* Three parties run: main (Device.Open, a signal, Device.Close), paho's   *)
(* router, which calls one message handler after the other, and the broker *)
(* with the server behind it.  paho is used with its default options: it   *)
(* reconnects by itself after a loss, each connection is a clean session,  *)
(* and while it reconnects a publication at QoS 0 is dropped and reported  *)
(* as done.                                                                *)
(***************************************************************************)
EXTENDS Integers, Sequences

CONSTANTS MaxRequests,  \* bounds the requests of the server
          MaxLosses,    \* bounds the losses of the connection
          Faults        \* what may fail

ASSUME BoundsAssumption == MaxRequests \in Nat /\ MaxLosses \in Nat
ASSUME FaultAssumption == Faults \subseteq {"connect", "subscribe", "publish", "handler"}

Request == 1..MaxRequests

VARIABLES main,         \* where Device.Open or Device.Close is
          ready,        \* d.mqtt is not nil
          client,       \* the connection, as paho sees it
          subscribed,   \* the broker has the subscription for this connection
          inbox,        \* requests on their way to the router
          handler,      \* the router: what it does, and with which request
          process,      \* "up", or why it has ended
          presence,     \* the last status that the broker got
          sent,         \* how many requests the server has published
          answers,      \* the responses that the broker got
          losses,       \* how often the connection was lost
          cut,          \* history: a loss took the subscription along
          missed,       \* history: requests that never reached the router
          dropped,      \* history: requests whose answers never reached the broker
          unsaid        \* history: statuses that never reached the broker

link == <<client, subscribed, losses, cut>>
server == <<presence, sent, answers>>
history == <<missed, dropped, unsaid>>
vars == <<main, ready, link, inbox, handler, process, server, history>>

Idle == [at |-> "idle", of |-> 0]

Init ==
    /\ main = "connect"
    /\ ready = FALSE
    /\ client = "new"
    /\ subscribed = FALSE
    /\ inbox = <<>>
    /\ handler = Idle
    /\ process = "up"
    /\ presence = "none"
    /\ sent = 0
    /\ answers = <<>>
    /\ losses = 0
    /\ cut = FALSE
    /\ missed = {}
    /\ dropped = {}
    /\ unsaid = {}

(* A step of main from one place to another. *)
Main(from, to) == process = "up" /\ main = from /\ main' = to

-----------------------------------------------------------------------------
(* Mqtt.Open: connect, subscribe, heartbeat; then d.mqtt is set. *)

OpenClient ==
    /\ client' = "up" /\ Main("connect", "subscribe")
    /\ UNCHANGED <<ready, subscribed, losses, cut, inbox, handler, process, server, history>>

(* Without ConnectRetry the client does not try again, and neither does Open. *)
OpenClientFails ==
    /\ "connect" \in Faults
    /\ Main("connect", "failed")
    /\ UNCHANGED <<ready, link, inbox, handler, process, server, history>>

(* The broker makes the subscription, and may hand on requests before main   *)
(* has its acknowledgement.                                                  *)
SubscribeRequest ==
    /\ client = "up"
    /\ subscribed' = TRUE
    /\ Main("subscribe", "suback")
    /\ UNCHANGED <<ready, client, losses, cut, inbox, handler, process, server, history>>

(* The acknowledgement came, be it just before the connection was lost.      *)
Subscribed ==
    /\ Main("suback", "heartbeat")
    /\ UNCHANGED <<ready, link, inbox, handler, process, server, history>>

(* Mutant of SubscribeFails: Open goes on. *)
SubscribeIgnored ==
    /\ \/ main = "subscribe" /\ (client # "up" \/ "subscribe" \in Faults)
       \/ main = "suback" /\ ~ subscribed
    /\ Main(main, "heartbeat")
    /\ UNCHANGED <<ready, link, inbox, handler, process, server, history>>

(* No connection, a refusal, or a connection lost before the acknowledgement *)
(* came: paho ends the token of a message that it has lost.  token.Wait      *)
(* (mqtt.go:94) itself has no limit of time.                                 *)
SubscribeFails ==
    /\ \/ main = "subscribe" /\ (client # "up" \/ "subscribe" \in Faults)
       \/ main = "suback" /\ ~ subscribed
    /\ Main(main, "close_client")
    /\ UNCHANGED <<ready, link, inbox, handler, process, server, history>>

(* publish of a status, at QoS 0: it reaches the broker, or it does not and  *)
(* may still be reported as done.                                            *)
Publish(status) ==
    \/ client = "up" /\ presence' = status /\ UNCHANGED unsaid
    \/ /\ client = "reconnecting" \/ "publish" \in Faults
       /\ unsaid' = unsaid \cup {status}
       /\ UNCHANGED presence

PublishHeartbeat ==
    /\ Main("heartbeat", "assign")
    /\ Publish("online")
    /\ UNCHANGED <<ready, link, inbox, handler, process, sent, answers, missed, dropped>>

(* Mutant of HeartbeatFails: the client is left as it is. *)
HeartbeatFailsOpen ==
    /\ "publish" \in Faults
    /\ Main("heartbeat", "failed")
    /\ unsaid' = unsaid \cup {"online"}
    /\ UNCHANGED <<ready, link, inbox, handler, process, server, missed, dropped>>

HeartbeatFails ==
    /\ "publish" \in Faults
    /\ Main("heartbeat", "close_client")
    /\ unsaid' = unsaid \cup {"online"}
    /\ UNCHANGED <<ready, link, inbox, handler, process, server, missed, dropped>>

(* Disconnect gives up the connection, its session and what was under way,   *)
(* but for some requests that paho has read.  It does not wait for a handler *)
(* longer than its quarter of a second.                                      *)
GiveUp(status) ==
    /\ client' = status
    /\ subscribed' = FALSE
    /\ \E n \in 0..Len(inbox) :
          /\ inbox' = SubSeq(inbox, 1, n)
          /\ missed' = missed \cup {inbox[i] : i \in n+1..Len(inbox)}

(* Mutant of Disconnect: it waits until the handler has returned. *)
DisconnectDrains(from, to) ==
    /\ Main(from, to)
    /\ handler = Idle
    /\ GiveUp("closed")
    /\ UNCHANGED <<ready, losses, cut, handler, process, server, dropped, unsaid>>

Disconnect(from, to) ==
    /\ Main(from, to)
    /\ GiveUp("closed")
    /\ UNCHANGED <<ready, losses, cut, handler, process, server, dropped, unsaid>>

(* Device.Open learns of the client when Mqtt.Open has returned. *)
AssignMqtt ==
    /\ Main("assign", "open")
    /\ ready' = TRUE
    /\ UNCHANGED <<link, inbox, handler, process, server, history>>

-----------------------------------------------------------------------------
(* Device.Close, which main calls for a signal, and the end of the process.  *)

(* Mutant of Close: no word to the server. *)
CloseSilently ==
    /\ Main("open", "disconnect")
    /\ UNCHANGED <<ready, link, inbox, handler, process, server, history>>

(* Mutant of Close: the client is forgotten first. *)
CloseForgets ==
    /\ Main("open", "offline")
    /\ ready' = FALSE
    /\ UNCHANGED <<link, inbox, handler, process, server, history>>

Close ==
    /\ Main("open", "offline")
    /\ UNCHANGED <<ready, link, inbox, handler, process, server, history>>

PublishOffline ==
    /\ Main("offline", "disconnect")
    /\ Publish("offline")
    /\ UNCHANGED <<ready, link, inbox, handler, process, sent, answers, missed, dropped>>

(* Without a client there is nothing to close. *)
Exit ==
    /\ process = "up"
    /\ main \in {"failed", "closed"}
    /\ process' = "exited"
    /\ UNCHANGED <<main, ready, link, inbox, handler, server, history>>

-----------------------------------------------------------------------------
(* The router calls OnRequest, which handles the request and answers it.     *)

Take ==
    /\ process = "up"
    /\ handler = Idle
    /\ inbox # <<>>
    /\ handler' = [at |-> "handle", of |-> Head(inbox)]
    /\ inbox' = Tail(inbox)
    /\ UNCHANGED <<main, ready, link, process, server, history>>

(* handleMqttMessage answers whatever it is, errors included.  A wsStop that *)
(* waits for ever (Device.tla) does not return.                              *)
Handle ==
    /\ process = "up"
    /\ handler.at = "handle"
    /\ \/ handler' = [handler EXCEPT !.at = "answer"]
       \/ "handler" \in Faults /\ handler' = [handler EXCEPT !.at = "stuck"]
    /\ UNCHANGED <<main, ready, link, inbox, process, server, history>>

(* d.mqtt.Send with d.mqtt nil. *)
AnswerNil ==
    /\ process = "up"
    /\ handler.at = "answer"
    /\ ~ ready
    /\ process' = "nil mqtt"
    /\ UNCHANGED <<main, ready, link, inbox, handler, server, history>>

(* Mutant of Answer: it goes to the topic of the status. *)
AnswerAsStatus ==
    /\ process = "up"
    /\ handler.at = "answer"
    /\ ready
    /\ client = "up" /\ presence' = "response"
    /\ handler' = Idle
    /\ UNCHANGED <<main, ready, link, inbox, process, sent, answers, history>>

(* Mutant of Answer: a publication that was not reported as done is repeated. *)
AnswerTwice ==
    /\ process = "up"
    /\ handler.at = "answer"
    /\ ready
    /\ client = "up" /\ answers' = answers \o <<handler.of, handler.of>>
    /\ handler' = Idle
    /\ UNCHANGED <<main, ready, link, inbox, process, presence, sent, history>>

(* Mutant of Answer: it waits for a connection. *)
AnswerWaits ==
    /\ process = "up"
    /\ handler.at = "answer"
    /\ ready
    /\ client = "up" /\ answers' = Append(answers, handler.of)
    /\ handler' = Idle
    /\ UNCHANGED <<main, ready, link, inbox, process, presence, sent, history>>

(* The answer is published at QoS 0, and an error is ignored. *)
Answer ==
    /\ process = "up"
    /\ handler.at = "answer"
    /\ ready
    /\ \/ client = "up" /\ answers' = Append(answers, handler.of) /\ UNCHANGED dropped
       \/ /\ client # "up" \/ "publish" \in Faults
          /\ dropped' = dropped \cup {handler.of}
          /\ UNCHANGED answers
    /\ handler' = Idle
    /\ UNCHANGED <<main, ready, link, inbox, process, presence, sent, missed, unsaid>>

-----------------------------------------------------------------------------
(* The broker and the network. *)

Publication ==
    /\ process = "up"
    /\ sent < MaxRequests
    /\ sent' = sent + 1
    /\ IF subscribed
       THEN inbox' = Append(inbox, sent') /\ UNCHANGED missed
       ELSE missed' = missed \cup {sent'} /\ UNCHANGED inbox
    /\ UNCHANGED <<main, ready, link, handler, process, presence, answers, dropped, unsaid>>

Lose ==
    /\ process = "up"
    /\ client = "up"
    /\ losses < MaxLosses
    /\ losses' = losses + 1
    /\ cut' = (cut \/ subscribed)
    /\ GiveUp("reconnecting")
    /\ UNCHANGED <<main, ready, handler, process, server, dropped, unsaid>>

(* A clean session: the broker has forgotten the subscription, and OnConnect *)
(* only logs.                                                                *)
Reconnect ==
    /\ process = "up"
    /\ client = "reconnecting"
    /\ client' = "up"
    /\ UNCHANGED <<main, ready, subscribed, losses, cut, inbox, handler, process, server, history>>

MainStep ==
    \/ OpenClient \/ OpenClientFails
    \/ SubscribeRequest \/ Subscribed \/ SubscribeFails
    \/ PublishHeartbeat \/ HeartbeatFails \/ AssignMqtt
    \/ Disconnect("close_client", "failed")
    \/ PublishOffline \/ Disconnect("disconnect", "closed")

RouterStep == Take \/ Handle \/ AnswerNil \/ Answer

Next ==
    \/ MainStep \/ Close \/ Exit
    \/ RouterStep
    \/ Publication \/ Lose \/ Reconnect

(* Each call of paho returns (the broker acknowledges a subscription, though *)
(* nothing limits the wait for it), and the router goes on.  Nobody has to    *)
(* send a request or a signal, and a lost connection need not come back.      *)
Fairness == WF_vars(MainStep) /\ WF_vars(RouterStep)

Spec == Init /\ [][Next]_vars
FairSpec == Spec /\ Fairness

-----------------------------------------------------------------------------
TypeOK ==
    /\ main \in {"connect", "subscribe", "suback", "heartbeat", "assign", "open",
                 "close_client", "failed", "offline", "disconnect", "closed"}
    /\ ready \in BOOLEAN
    /\ client \in {"new", "up", "reconnecting", "closed"}
    /\ subscribed \in BOOLEAN
    /\ inbox \in Seq(Request)
    /\ handler \in [at : {"idle", "handle", "answer", "stuck"}, of : 0..MaxRequests]
    /\ process \in {"up", "nil mqtt", "exited"}
    /\ presence \in {"none", "online", "offline"}
    /\ sent \in 0..MaxRequests
    /\ answers \in Seq(Request)
    /\ losses \in 0..MaxLosses
    /\ cut \in BOOLEAN
    /\ missed \subseteq Request
    /\ dropped \subseteq Request
    /\ unsaid \subseteq {"online", "offline"}

(* From the subscription until Close, the broker hands requests to the       *)
(* device, unless a loss of the connection took the subscription along.      *)
(* Nothing renews it then: only the first loss is excused, and it is final.  *)
HearsUntilLoss ==
    main \in {"suback", "heartbeat", "assign", "open", "offline"} =>
        (subscribed <=> ~ cut)

(* An Open that fails leaves no client that takes requests or comes back by  *)
(* itself: d.mqtt stays nil, and a request would end the process.            *)
FailedIsSilent == main = "failed" => ~ subscribed /\ client \in {"new", "closed"}

(* A request can end the process only if it comes before Open has finished,  *)
(* or finds an Open that has failed: never once the device is open, and not  *)
(* while it closes under a handler that is still busy.                       *)
OnlyEarlyRequestsCrash ==
    process = "nil mqtt" =>
        main \in {"suback", "heartbeat", "assign", "close_client", "failed"}

(* The server gets answers in the order of its requests, one for each at     *)
(* most, through losses, reconnects and a router that outlives the client.   *)
AnswersInOrder == \A i, j \in DOMAIN answers : i < j => answers[i] < answers[j]

(* The last that the server hears of a device which has been closed is that  *)
(* it is offline, unless that word itself was dropped.                       *)
ClosedIsOffline == main = "closed" => presence = "offline" \/ "offline" \in unsaid

(* A request on its way is answered or lost with a connection, unless the    *)
(* process ends or a handler before it never returns.                        *)
RequestsAreAnswered ==
    \A r \in Request :
        (\E i \in DOMAIN inbox : inbox[i] = r) ~>
            \/ \E i \in DOMAIN answers : answers[i] = r
            \/ r \in missed \cup dropped
            \/ process # "up" \/ handler.at = "stuck"

(* Device.Close gets past mqtt although a handler may never return.          *)
CloseReturns == main = "offline" ~> main = "closed"
=============================================================================
