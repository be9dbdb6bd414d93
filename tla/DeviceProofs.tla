----------------------------- MODULE DeviceProofs -----------------------------
(***************************************************************************)
(* Device uses its websockets as WebSocket.tla allows, for any number of   *)
(* websockets and of peer connections, and however its goroutines overlap. *)
(***************************************************************************)
EXTENDS Device, TLAPS

(* The places in device.go, and those where a goroutine is in no method of a *)
(* websocket: there, at rest or in the callback of the websocket it reads.   *)
OwnPc == {"dial", "hello", "assign", "ws_stop", "ws_close", "ws_clear",
          "media_stop", "media_close", "media_clear", "hid_close", "wrtc_clear",
          "pc_close", "wrtc_stop", "wrtc_close", "wrtc_unset", "wrtc_set", "pc_open",
          "media_start", "media_set", "track", "media_open", "use", "reply", "leave", "gone",
          "ice_send"}
Rest(g) == IF g \in Ws THEN "callback" ELSE "idle"
InDevice(g, label) == label \in OwnPc \cup {Rest(g)}

Labels == OwnPc \cup Methods \cup {"idle"}
CallPc == WS!SendPc \cup WS!ClosePc
RetPc == {"idle", "assign", "ws_clear", "read_return", "read_error"}

Shape ==
    /\ pc \in [Goroutine -> Labels]
    /\ ret \in [Goroutine -> RetPc]
    /\ target \in [Goroutine -> Ws \cup {Nil}]
    /\ senders \in [Ws -> SUBSET Goroutine]
    /\ peer \in [Rtc -> {"fresh", "created", "open", "closed"}]
    /\ session \in [Goroutine -> Rtc \cup {Nil}]
    /\ responseWs \in Ws \cup {Nil}
    /\ wrtc \in Rtc \cup {Nil}
    /\ mediaSource \in MediaSources
    /\ media \in Rtc \cup {Nil}
    /\ running \subseteq Rtc
    /\ hid \in {"closed", "open", "writing", "stuck"}

(* Methods are called on websockets that have been opened. *)
OpenedInv ==
    /\ responseWs # Nil => pc[responseWs] # "fresh"
    /\ \A g \in Goroutine : pc[g] \in CallPc => target[g] \in Ws
    /\ pc[Mqtt] \in {"hello", "assign"} \cup CallPc =>
            target[Mqtt] \in Ws /\ pc[target[Mqtt]] # "fresh"

(* Pion reports a peer connection closed once, in a goroutine that has       *)
(* nothing else to do: a connection is opened by the goroutine that made it, *)
(* and never again.                                                          *)
OnceInv ==
    /\ \A r \in Rtc : peer[r] # "closed" => pc[Closed(r)] = "idle"
    /\ \A w \in Ws : pc[w] = "pc_open" =>
            session[w] \in Rtc /\ peer[session[w]] = "created"
    /\ \A v, w \in Ws : v # w /\ pc[v] = "pc_open" /\ pc[w] = "pc_open" =>
            session[v] # session[w]

DevInv == Shape /\ OpenedInv /\ OnceInv

-----------------------------------------------------------------------------
(* What a step of Device is for its websockets.                              *)

(* A goroutine goes on inside device.go. *)
Move(g) ==
    /\ InDevice(g, pc[g]) /\ InDevice(g, pc'[g])
    /\ pc'[g] \notin {"hello", "assign"}
    /\ \A r \in Rtc : g = Closed(r) => pc[g] # "idle"
    /\ pc' = [pc EXCEPT ![g] = pc'[g]]
    /\ UNCHANGED wsvars
    /\ \/ responseWs' \in {responseWs, Nil}
       \/ pc[Mqtt] = "assign" /\ responseWs' = target[Mqtt]
    /\ wrtc' \in Rtc \cup {Nil} /\ media' \in Rtc \cup {Nil}
    /\ running' \subseteq Rtc /\ hid' \in {hid, "closed"} /\ mediaSource' = mediaSource

(* The peer connections stay as they are. *)
Quietly(g) ==
    /\ Move(g)
    /\ pc'[g] # "pc_open"
    /\ session' \in [Goroutine -> Rtc \cup {Nil}]
    /\ \A h \in Goroutine \ {g} : session'[h] = session[h]
    /\ UNCHANGED peer

(* From a place in device.go it calls a method of an opened websocket, and   *)
(* goes on there or, from a callback, returns from it.                       *)
Calls(g, w) ==
    /\ process = "up"
    /\ pc[g] \in OwnPc \ {"pc_open"}
    /\ w \in Ws /\ pc[w] # "fresh"
    /\ \E r \in IF g \in Ws THEN {"read_return", "ws_clear"}
                ELSE {"idle", "assign", "ws_clear"} :
          WS!CallSend(g, w, r) \/ WS!CallClose(g, w, r)
    /\ UNCHANGED fields

(* The process ends for a reason of Device's own. *)
Ends ==
    /\ process = "up" /\ process' \in OwnEnds
    /\ UNCHANGED <<fields, objects, target, ret, pc>>

(* The hid file is opened, written or taken from. *)
Hids ==
    /\ hid' \in {"open", "writing", "stuck"}
    /\ UNCHANGED <<mediaSource, responseWs, wrtc, peer, media, running, session, wsvars, pc>>

(* A step inside a method called by g, and one of the reading goroutine. *)
Inside(g) ==
    /\ \/ /\ pc[g] \in CallPc
          /\ \E label \in CallPc \cup {ret[g]} : pc' = [pc EXCEPT ![g] = label]
       \/ UNCHANGED pc
    /\ senders' \in [Ws -> SUBSET Goroutine]
    /\ UNCHANGED <<target, ret, fields>>
Reading(w) ==
    /\ \/ /\ pc[w] \in WS!HandlePc \cup WS!ReadPc
          /\ \E label \in (WS!HandlePc \cup WS!ReadPc) \ {"fresh"} :
                pc' = [pc EXCEPT ![w] = label]
       \/ UNCHANGED pc
    /\ UNCHANGED <<senders, target, ret, fields>>

-----------------------------------------------------------------------------
(* The goroutines are different, and in Goroutine. *)
LEMMA Places ==
    /\ Mqtt \in Goroutine /\ Main \in Goroutine
    /\ Ws \subseteq Goroutine
    /\ \A r \in Rtc : {Lost(r), Closed(r), Ice(r)} \subseteq Goroutine
    /\ Mqtt \notin Ws /\ Main \notin Ws /\ Mqtt # Main
    /\ \A r \in Rtc : Lost(r) \notin Ws /\ Closed(r) \notin Ws /\ Ice(r) \notin Ws
    /\ \A r \in Rtc : Closed(r) \notin {Mqtt, Main, Lost(r), Ice(r)}
    /\ \A q, r \in Rtc : q # r => Closed(q) # Closed(r)
    /\ \A q, r \in Rtc : Closed(q) # Lost(r) /\ Closed(q) # Ice(r)
    /\ \A g \in Ws : g \notin Notified
    /\ Closed(Nil) \notin Goroutine
    /\ Nil \notin Goroutine
BY CallersAssumption, DeviceAssumption
DEF Mqtt, Main, Lost, Closed, Ice, Callers, Goroutine, WS!Goroutine, Notified, Names

(* The steps that stay in device.go and leave the peer connections alone. *)
LEMMA QuietSteps ==
    ASSUME Shape
    PROVE
    /\ RequestStart => Quietly(Mqtt)
    /\ RequestStop => Quietly(Mqtt)
    /\ Close => Quietly(Main)
    /\ DialFails => Quietly(Mqtt)
    /\ AssignResponseWs => Quietly(Mqtt)
    /\ \A w \in Ws : MediaCheck(w) => Quietly(w)
    /\ \A w \in Ws : MediaStart(w) => Quietly(w)
    /\ \A w \in Ws : WrtcCheck(w) => Quietly(w)
    /\ \A w \in Ws : UseCheck(w) => Quietly(w)
    /\ \A w \in Ws : OtherMessage(w) => Quietly(w)
    /\ \A r \in Rtc : PeerLost(r) => Quietly(Lost(r))
    /\ \A r \in Rtc : Candidate(r) => Quietly(Ice(r))
    /\ \A g \in Goroutine : WsStop(g) => Quietly(g)
    /\ \A g \in Goroutine : WsStopClear(g) => Quietly(g)
    /\ \A g \in Goroutine : MediaStop(g) => Quietly(g)
    /\ \A g \in Goroutine : MediaStopClear(g) => Quietly(g)
    /\ \A g \in Goroutine : HidClose(g) => Quietly(g)
    /\ \A g \in Goroutine : WrtcClear(g) => Quietly(g)
    /\ \A g \in Goroutine : WrtcStop(g) => Quietly(g)
    /\ \A g \in Goroutine : WrtcStopClear(g) => Quietly(g)
<1> USE Places DEF Shape, Quietly, Move, InDevice, OwnPc, Rest, Local, At, WS!At,
        Goto, WS!Goto, fields
<1>1. ASSUME RequestStart PROVE Quietly(Mqtt)
  BY <1>1 DEF RequestStart
<1>2. ASSUME RequestStop PROVE Quietly(Mqtt)
  BY <1>2 DEF RequestStop
<1>3. ASSUME Close PROVE Quietly(Main)
  BY <1>3 DEF Close
<1>4. ASSUME DialFails PROVE Quietly(Mqtt)
  BY <1>4 DEF DialFails
<1>5. ASSUME AssignResponseWs PROVE Quietly(Mqtt)
  BY <1>5 DEF AssignResponseWs
<1>6. ASSUME NEW w \in Ws, MediaCheck(w) PROVE Quietly(w)
  BY <1>6 DEF MediaCheck
<1>19. ASSUME NEW w \in Ws, MediaStart(w) PROVE Quietly(w)
  BY <1>19 DEF MediaStart
<1>20. ASSUME NEW w \in Ws, WrtcCheck(w) PROVE Quietly(w)
  BY <1>20 DEF WrtcCheck
<1>7. ASSUME NEW w \in Ws, UseCheck(w) PROVE Quietly(w)
  BY <1>7 DEF UseCheck
<1>8. ASSUME NEW w \in Ws, OtherMessage(w) PROVE Quietly(w)
  BY <1>8 DEF OtherMessage
<1>9. ASSUME NEW r \in Rtc, PeerLost(r) PROVE Quietly(Lost(r))
  BY <1>9 DEF PeerLost
<1>10. ASSUME NEW r \in Rtc, Candidate(r) PROVE Quietly(Ice(r))
  BY <1>10 DEF Candidate
<1>11. ASSUME NEW g \in Goroutine, WsStop(g) PROVE Quietly(g)
  BY <1>11 DEF WsStop
<1>12. ASSUME NEW g \in Goroutine, WsStopClear(g) PROVE Quietly(g)
  BY <1>12 DEF WsStopClear
<1>13. ASSUME NEW g \in Goroutine, MediaStop(g) PROVE Quietly(g)
  BY <1>13 DEF MediaStop
<1>14. ASSUME NEW g \in Goroutine, MediaStopClear(g) PROVE Quietly(g)
  BY <1>14 DEF MediaStopClear
<1>15. ASSUME NEW g \in Goroutine, HidClose(g) PROVE Quietly(g)
  BY <1>15 DEF HidClose
<1>16. ASSUME NEW g \in Goroutine, WrtcClear(g) PROVE Quietly(g)
  BY <1>16 DEF WrtcClear
<1>17. ASSUME NEW g \in Goroutine, WrtcStop(g) PROVE Quietly(g)
  BY <1>17 DEF WrtcStop
<1>18. ASSUME NEW g \in Goroutine, WrtcStopClear(g) PROVE Quietly(g)
  BY <1>18 DEF WrtcStopClear
<1> HIDE DEF Quietly
<1> QED
  BY <1>1, <1>2, <1>3, <1>4, <1>5, <1>6, <1>7, <1>8, <1>9, <1>10, <1>11, <1>12,
     <1>13, <1>14, <1>15, <1>16, <1>17, <1>18, <1>19, <1>20

(* Those that find the pointer nil end the process. *)
LEMMA EndingSteps ==
    ASSUME Shape
    PROVE
    /\ \A w \in Ws : AddTrack(w) => Ends \/ Quietly(w)
    /\ \A w \in Ws : UsePeer(w) => Ends \/ Quietly(w)
    /\ \A w \in Ws : MediaOpen(w) => Ends \/ Quietly(w)
    /\ \A g \in Goroutine : MediaStopClose(g) => Ends \/ Quietly(g)
    /\ \A g \in Goroutine : WrtcStopClose(g) => Ends \/ Quietly(g)
    /\ Frame => Ends
    /\ Exit => Ends
    /\ RefreshPanics => Ends
<1> USE Places DEF Shape, Quietly, Move, InDevice, OwnPc, Rest, Local, At, WS!At,
        Goto, WS!Goto, fields
<1>1. ASSUME NEW w \in Ws, AddTrack(w) PROVE Ends \/ Quietly(w)
  BY <1>1
     DEF AddTrack, Ends, OwnEnds, Panic, WS!Panic, objects, wsvars, WS!object,
         WS!lock
<1>2. ASSUME NEW w \in Ws, UsePeer(w) PROVE Ends \/ Quietly(w)
  BY <1>2
     DEF UsePeer, Ends, OwnEnds, Panic, WS!Panic, objects, wsvars, WS!object,
         WS!lock
<1>3. ASSUME NEW w \in Ws, MediaOpen(w) PROVE Ends \/ Quietly(w)
  <2>1. ASSUME NEW why \in OwnEnds, At(w, "media_open"), Panic(why) PROVE Ends
    BY <2>1 DEF Ends, Panic, WS!Panic, objects, WS!object, WS!lock
  <2>2. ASSUME At(w, "media_open"), media # Nil, Local(w, "reply"),
               running' = running \cup {media} \/ UNCHANGED running,
               UNCHANGED <<mediaSource, responseWs, wrtc, peer, media, hid, session>>
        PROVE  Quietly(w)
    <3>1. running' \subseteq Rtc
      BY <2>2
    <3> QED
      BY <2>2, <3>1
  <2>3. At(w, "media_open")
        /\ \/ Panic("nil media") \/ Panic("stack overflow")
           \/ /\ media # Nil /\ Local(w, "reply")
              /\ running' = running \cup {media} \/ UNCHANGED running
              /\ UNCHANGED <<mediaSource, responseWs, wrtc, peer, media, hid, session>>
    BY <1>3 DEF MediaOpen, fields
  <2> HIDE DEF Quietly, Ends, Local, At, fields
  <2> QED
    BY <2>1, <2>2, <2>3 DEF OwnEnds
<1>4. ASSUME NEW g \in Goroutine, MediaStopClose(g) PROVE Ends \/ Quietly(g)
  BY <1>4
     DEF MediaStopClose, Ends, OwnEnds, Panic, WS!Panic, objects, wsvars,
         WS!object, WS!lock
<1>5. ASSUME NEW g \in Goroutine, WrtcStopClose(g) PROVE Ends \/ Quietly(g)
  <2>1. CASE wrtc = Nil
    BY <1>5, <2>1
       DEF WrtcStopClose, Ends, OwnEnds, Panic, WS!Panic, objects, wsvars,
           WS!object, WS!lock
  <2>2. CASE wrtc # Nil
    <3>1. /\ session' = [session EXCEPT ![g] = wrtc]
          /\ Local(g, "ws_stop") /\ At(g, "wrtc_close")
          /\ UNCHANGED <<mediaSource, responseWs, wrtc, peer, media, running, hid>>
      BY <1>5, <2>2 DEF WrtcStopClose
    <3>2. /\ session' \in [Goroutine -> Rtc \cup {Nil}]
          /\ \A h \in Goroutine \ {g} : session'[h] = session[h]
      BY <3>1
    <3> QED
      BY <3>1, <3>2
  <2> QED
    BY <2>1, <2>2
<1>6. ASSUME Frame PROVE Ends
  BY <1>6
     DEF Frame, Ends, OwnEnds, Panic, WS!Panic, objects, wsvars, WS!object,
         WS!lock
<1>7. ASSUME Exit PROVE Ends
  BY <1>7
     DEF Exit, Ends, OwnEnds, Panic, WS!Panic, objects, wsvars, WS!object, WS!lock
<1>8. ASSUME RefreshPanics PROVE Ends
  BY <1>8
     DEF RefreshPanics, Ends, OwnEnds, Panic, WS!Panic, objects, wsvars, WS!object, WS!lock
<1> HIDE DEF Quietly, Ends
<1> QED
  BY <1>1, <1>2, <1>3, <1>4, <1>5, <1>6, <1>7, <1>8

(* The steps of the hid file leave everything else alone. *)
LEMMA HidSteps ==
    (\E r \in Rtc : DataChannel(r) \/ HidWrite(r)) \/ HostTakes \/ HostSleeps => Hids
BY DEF DataChannel, HidWrite, HostTakes, HostSleeps, HidIs, Hids

(* A new peer connection is made and opened in device.go. *)
LEMMA PeerSteps ==
    ASSUME Shape
    PROVE
    /\ \A w \in Ws : WrtcStart(w) => Move(w)
    /\ \A w \in Ws : PcOpen(w) => Move(w)
<1> USE Places DEF Shape, Quietly, Move, InDevice, OwnPc, Rest, Local, At, WS!At,
        Goto, WS!Goto, fields
<1>1. ASSUME NEW w \in Ws, WrtcStart(w) PROVE Move(w)
  BY <1>1 DEF WrtcStart
<1>2. ASSUME NEW w \in Ws, PcOpen(w) PROVE Move(w)
  BY <1>2 DEF PcOpen
<1> HIDE DEF Move
<1> QED
  BY <1>1, <1>2

(* The methods of websockets that device.go calls. *)
LEMMA CallingSteps ==
    ASSUME Shape, OpenedInv
    PROVE
    /\ SendHello => Calls(Mqtt, target[Mqtt])
    /\ \A w \in Ws : Reply(w) => Calls(w, w)
    /\ \A r \in Rtc : SendCandidate(r) => Ends \/ Calls(Ice(r), responseWs)
    /\ \A g \in Goroutine : WsStopClose(g) => Ends \/ Calls(g, responseWs)
<1> USE Places DEF Shape, OpenedInv, Calls, OwnPc, At, WS!At, fields
<1>1. ASSUME SendHello PROVE Calls(Mqtt, target[Mqtt])
  BY <1>1 DEF SendHello
<1>2. ASSUME NEW w \in Ws, Reply(w) PROVE Calls(w, w)
  BY <1>2 DEF Reply
<1>3. ASSUME NEW r \in Rtc, SendCandidate(r) PROVE Ends \/ Calls(Ice(r), responseWs)
  BY <1>3
     DEF SendCandidate, Ends, OwnEnds, Panic, WS!Panic, objects, wsvars,
         WS!object, WS!lock
<1>4. ASSUME NEW g \in Goroutine, WsStopClose(g) PROVE Ends \/ Calls(g, responseWs)
  BY <1>4
     DEF WsStopClose, Ends, OwnEnds, Panic, WS!Panic, objects, wsvars, WS!object,
         WS!lock
<1> HIDE DEF Calls, Ends
<1> QED
  BY <1>1, <1>2, <1>3, <1>4

(* Every step is one of these. *)
LEMMA Kinds ==
    ASSUME Shape, OpenedInv, Next
    PROVE  \/ Ends
           \/ \E g \in Goroutine : Quietly(g)
           \/ \E w \in Ws : Move(w) /\ (WrtcStart(w) \/ PcOpen(w))
           \/ \E g \in Goroutine : PcClose(g)
           \/ \E w \in Ws : Dial(w)
           \/ \E g \in Goroutine, w \in Ws : Calls(g, w)
           \/ \E w \in Ws : CloseFrame(w) \/ Hear(w) \/ ServerGone(w)
           \/ Hids
           \/ \E g \in Goroutine : LibraryCall(g)
           \/ \E w \in Ws : Library(w)
<1>1. \A g, w : Calls(g, w) => w \in Ws
  BY DEF Calls
<1>2. CASE Event
  BY <1>2, QuietSteps, EndingSteps, HidSteps, Places DEF Event
<1>3. ASSUME NEW g \in Goroutine, TeardownStep(g)
      PROVE  Ends \/ Quietly(g) \/ PcClose(g) \/ \E w \in Ws : Calls(g, w)
  BY <1>1, <1>3, QuietSteps, EndingSteps, CallingSteps DEF TeardownStep
<1>4. CASE MqttStep
  BY <1>1, <1>3, <1>4, QuietSteps, EndingSteps, CallingSteps, Places DEF MqttStep
<1>5. CASE MainStep
  BY <1>3, <1>5, EndingSteps, Places DEF MainStep
<1>6. ASSUME NEW w \in Ws, HandlerStep(w)
      PROVE  \/ Ends \/ Quietly(w) \/ PcClose(w) \/ LibraryCall(w) \/ Library(w)
             \/ \E v \in Ws : Calls(w, v)
             \/ Move(w) /\ (WrtcStart(w) \/ PcOpen(w))
  BY <1>3, <1>6, QuietSteps, EndingSteps, PeerSteps, CallingSteps, Places
     DEF HandlerStep
<1>7. ASSUME NEW r \in Rtc, PionStep(r)
      PROVE  \E g \in Goroutine :
                Ends \/ Quietly(g) \/ PcClose(g) \/ LibraryCall(g) \/ \E v \in Ws : Calls(g, v)
  BY <1>1, <1>3, <1>7, CallingSteps, Places DEF PionStep
<1> QED
  BY <1>2, <1>4, <1>5, <1>6, <1>7, HidSteps, Places DEF Next

(* Inside a method, the callers stay where they are but for the one that is in *)
(* it; it returns where it was told to.                                      *)
LEMMA InsideSteps ==
    ASSUME Shape, OpenedInv, NEW g \in Goroutine, LibraryCall(g)
    PROVE  Inside(g)
<1>0. UNCHANGED fields
  BY DEF LibraryCall
<1> USE <1>0
   DEF Shape, OpenedInv, Inside, CallPc, WS!SendPc, WS!ClosePc, At, WS!At, Goto,
        WS!Goto, WS!object, WS!lock
<1>1. ASSUME WS!SendLock(g) PROVE Inside(g)
  BY <1>1 DEF WS!SendLock
<1>2. ASSUME WS!SendNil(g) PROVE Inside(g)
  BY <1>2 DEF WS!SendNil
<1>3. ASSUME WS!SendBegin(g) PROVE Inside(g)
  BY <1>3 DEF WS!SendBegin
<1>4. ASSUME WS!SendCollide(g) PROVE Inside(g)
  BY <1>4 DEF WS!SendCollide, WS!Panic
<1>5. ASSUME WS!SendWrite(g) PROVE Inside(g)
  BY <1>5 DEF WS!SendWrite
<1>6. ASSUME WS!CloseDeadline(g) PROVE Inside(g)
  BY <1>6 DEF WS!CloseDeadline
<1>7. ASSUME WS!CloseNil(g) PROVE Inside(g)
  BY <1>7 DEF WS!CloseNil, WS!Panic
<1>8. ASSUME WS!CloseLock(g) PROVE Inside(g)
  BY <1>8 DEF WS!CloseLock
<1>9. ASSUME WS!CloseDrain(g) PROVE Inside(g)
  BY <1>9 DEF WS!CloseDrain
<1>10. ASSUME WS!CloseConnection(g) PROVE Inside(g)
  BY <1>10 DEF WS!CloseConnection
<1>11. ASSUME WS!CloseCheckCancel(g) PROVE Inside(g)
  BY <1>11 DEF WS!CloseCheckCancel
<1>12. ASSUME WS!CloseCancel(g) PROVE Inside(g)
  BY <1>12 DEF WS!CloseCancel
<1>13. ASSUME WS!CloseCancelNil(g) PROVE Inside(g)
  BY <1>13 DEF WS!CloseCancelNil, WS!Panic
<1>14. ASSUME WS!CloseWait(g) PROVE Inside(g)
  BY <1>14 DEF WS!CloseWait
<1> HIDE DEF Inside
<1> QED
  BY <1>1, <1>2, <1>3, <1>4, <1>5, <1>6, <1>7, <1>8, <1>9, <1>10, <1>11, <1>12,
     <1>13, <1>14
     DEF LibraryCall, WS!CallStep

LEMMA ReadingSteps ==
    ASSUME Shape, NEW w \in Ws, Library(w) \/ Hear(w) \/ ServerGone(w)
    PROVE  Reading(w)
<1>0. UNCHANGED fields
  BY DEF Library, Hear, ServerGone
<1> USE <1>0 DEF Shape, Reading, WS!HandlePc, WS!ReadPc, At, WS!At, Goto, WS!Goto,
        WS!object, WS!lock
<1>1. ASSUME WS!HandleStart(w) PROVE Reading(w)
  BY <1>1 DEF WS!HandleStart
<1>2. ASSUME WS!HandleSelect(w) PROVE Reading(w)
  BY <1>2 DEF WS!HandleSelect
<1>3. ASSUME WS!ReadLock(w) PROVE Reading(w)
  BY <1>3 DEF WS!ReadLock
<1>4. ASSUME WS!ReadNil(w) PROVE Reading(w)
  BY <1>4 DEF WS!ReadNil, WS!Panic
<1>5. ASSUME WS!ReadTimeout(w) PROVE Reading(w)
  BY <1>5 DEF WS!ReadTimeout, WS!ReadFail
<1>6. ASSUME WS!ReadReturn(w) PROVE Reading(w)
  BY <1>6 DEF WS!ReadReturn
<1>7. ASSUME WS!HandleExit(w) PROVE Reading(w)
  BY <1>7 DEF WS!HandleExit
<1>8. ASSUME WS!ReadText(w) PROVE Reading(w)
  BY <1>8 DEF WS!ReadText
<1>9. ASSUME WS!ReadFail(w) PROVE Reading(w)
  BY <1>9 DEF WS!ReadFail
<1> HIDE DEF Reading
<1> QED
  BY <1>1, <1>2, <1>3, <1>4, <1>5, <1>6, <1>7, <1>8, <1>9
     DEF Library, WS!HandlerStep, Hear, ServerGone

(* The variables keep their types. *)
LEMMA ShapeStep ==
    ASSUME Shape, OpenedInv, [Next]_vars
    PROVE  Shape'
<1> USE Places, DeviceAssumption
   DEF Shape, RetPc, Labels, OwnPc, Methods, WS!HandlePc, WS!ReadPc, WS!SendPc,
       WS!ClosePc, CallPc
<1>1. ASSUME Ends PROVE Shape'
  BY <1>1 DEF Ends, OwnEnds, fields, objects
<1>2. ASSUME NEW g \in Goroutine, Quietly(g) PROVE Shape'
  <2> DEFINE l == pc'[g]
  <2>1. l \in Labels /\ pc' = [pc EXCEPT ![g] = l]
    BY <1>2 DEF Quietly, Move, InDevice, Rest
  <2> HIDE DEF l
  <2>2. pc' \in [Goroutine -> Labels]
    BY <2>1
  <2> QED
    BY <1>2, <2>2 DEF Quietly, Move, wsvars, objects
<1>3. ASSUME NEW w \in Ws, Move(w), WrtcStart(w) PROVE Shape'
  BY <1>3
     DEF Move, InDevice, OwnPc, Rest, wsvars, objects, WrtcStart, Local, At,
         WS!At, Goto, WS!Goto
<1>4. ASSUME NEW w \in Ws, Move(w), PcOpen(w) PROVE Shape'
  BY <1>4
     DEF Move, InDevice, OwnPc, Rest, wsvars, objects, PcOpen, Local, At, WS!At,
         Goto, WS!Goto
<1>5. ASSUME NEW g \in Goroutine, PcClose(g) PROVE Shape'
  BY <1>5 DEF PcClose, wsvars, objects, At, WS!At
<1>6. ASSUME NEW w \in Ws, Dial(w) PROVE Shape'
  BY <1>6 DEF Dial, WS!OpenWs, fields, At, WS!At, WS!lock
<1>7. ASSUME NEW g \in Goroutine, NEW w \in Ws, Calls(g, w) PROVE Shape'
  BY <1>7
     DEF Calls, OwnPc, WS!CallSend, WS!CallClose, WS!Call, Goto, WS!Goto,
         WS!object, WS!lock, fields
<1>8. ASSUME NEW w \in Ws, CloseFrame(w) PROVE Shape'
  BY <1>8
     DEF CloseFrame, WS!CallClose, WS!Call, At, WS!At, Goto, WS!Goto, WS!object,
         WS!lock, fields
<1>9. ASSUME Hids PROVE Shape'
  BY <1>9 DEF Hids, wsvars, objects
<1>10. ASSUME NEW g \in Goroutine, Inside(g) PROVE Shape'
  BY <1>10 DEF Inside, fields
<1>11. ASSUME NEW w \in Ws, Reading(w) PROVE Shape'
  <2>1. pc' \in [Goroutine -> Labels]
    BY <1>11 DEF Reading
  <2> QED
    BY <1>11, <2>1 DEF Reading, fields
<1>12. ASSUME UNCHANGED vars PROVE Shape'
  BY <1>12 DEF vars, wsvars, objects, fields
<1> HIDE
   DEF Shape, RetPc, Labels, OwnPc, Methods, WS!HandlePc, WS!ReadPc, WS!SendPc,
       WS!ClosePc, CallPc
<1> QED
  BY Kinds, InsideSteps, ReadingSteps, <1>1, <1>2, <1>3, <1>4, <1>5, <1>6, <1>7,
     <1>8, <1>9, <1>10, <1>11, <1>12

(* A websocket is opened before anybody is told of it. *)
LEMMA OpenedStep ==
    ASSUME Shape, OpenedInv, [Next]_vars
    PROVE  OpenedInv'
<1> USE Places, DeviceAssumption
   DEF Shape, RetPc, CallPc, WS!SendPc, WS!ClosePc, OpenedInv
<1>1. ASSUME Ends PROVE OpenedInv'
  BY <1>1 DEF Ends, OwnEnds, fields, objects
<1>2. ASSUME NEW g \in Goroutine, Quietly(g) PROVE OpenedInv'
  BY <1>2 DEF Quietly, Move, InDevice, OwnPc, Rest, wsvars, objects
<1>3. ASSUME NEW w \in Ws, Move(w), WrtcStart(w) PROVE OpenedInv'
  BY <1>3
     DEF Move, InDevice, OwnPc, Rest, wsvars, objects, WrtcStart, Local, At,
         WS!At, Goto, WS!Goto
<1>4. ASSUME NEW w \in Ws, Move(w), PcOpen(w) PROVE OpenedInv'
  BY <1>4
     DEF Move, InDevice, OwnPc, Rest, wsvars, objects, PcOpen, Local, At, WS!At,
         Goto, WS!Goto
<1>5. ASSUME NEW g \in Goroutine, PcClose(g) PROVE OpenedInv'
  BY <1>5 DEF PcClose, wsvars, objects, At, WS!At
<1>6. ASSUME NEW w \in Ws, Dial(w) PROVE OpenedInv'
  BY <1>6 DEF Dial, WS!OpenWs, fields, At, WS!At, WS!lock
<1>7. ASSUME NEW g \in Goroutine, NEW w \in Ws, Calls(g, w) PROVE OpenedInv'
  BY <1>7
     DEF Calls, OwnPc, WS!CallSend, WS!CallClose, WS!Call, Goto, WS!Goto,
         WS!object, WS!lock, fields
<1>8. ASSUME NEW w \in Ws, CloseFrame(w) PROVE OpenedInv'
  BY <1>8
     DEF CloseFrame, WS!CallClose, WS!Call, At, WS!At, Goto, WS!Goto, WS!object,
         WS!lock, fields
<1>9. ASSUME Hids PROVE OpenedInv'
  BY <1>9 DEF Hids, wsvars, objects
<1>10. ASSUME NEW g \in Goroutine, Inside(g) PROVE OpenedInv'
  BY <1>10 DEF Inside, fields
<1>11. ASSUME NEW w \in Ws, Reading(w) PROVE OpenedInv'
  BY <1>11 DEF Reading, fields, WS!HandlePc, WS!ReadPc
<1>12. ASSUME UNCHANGED vars PROVE OpenedInv'
  BY <1>12 DEF vars, wsvars, objects, fields
<1> HIDE DEF Shape, RetPc, CallPc, WS!SendPc, WS!ClosePc, OpenedInv
<1> QED
  BY Kinds, InsideSteps, ReadingSteps, <1>1, <1>2, <1>3, <1>4, <1>5, <1>6, <1>7,
     <1>8, <1>9, <1>10, <1>11, <1>12

(* A peer connection goes from fresh to closed without turning back. *)
LEMMA OnceStep ==
    ASSUME Shape, OpenedInv, OnceInv, [Next]_vars
    PROVE  OnceInv'
<1> USE Places, DeviceAssumption
   DEF Shape, RetPc, CallPc, WS!SendPc, WS!ClosePc, OnceInv
<1>1. ASSUME Ends PROVE OnceInv'
  BY <1>1 DEF Ends, OwnEnds, fields, objects
<1>2. ASSUME NEW g \in Goroutine, Quietly(g) PROVE OnceInv'
  <2>1. /\ \A h \in Goroutine \ {g} : pc'[h] = pc[h] /\ session'[h] = session[h]
        /\ pc'[g] # "pc_open"
        /\ peer' = peer
        /\ \A r \in Rtc : g = Closed(r) => pc[g] # "idle"
    BY <1>2 DEF Quietly, Move
  <2>2. \A r \in Rtc : peer'[r] # "closed" => pc'[Closed(r)] = "idle"
    BY <2>1
  <2> QED
    BY <2>1, <2>2
<1>3. ASSUME NEW w \in Ws, Move(w), WrtcStart(w) PROVE OnceInv'
  BY <1>3
     DEF Move, InDevice, OwnPc, Rest, wsvars, objects, WrtcStart, Local, At,
         WS!At, Goto, WS!Goto
<1>4. ASSUME NEW w \in Ws, Move(w), PcOpen(w) PROVE OnceInv'
  BY <1>4
     DEF Move, InDevice, OwnPc, Rest, wsvars, objects, PcOpen, Local, At, WS!At,
         Goto, WS!Goto
<1>5. ASSUME NEW g \in Goroutine, PcClose(g) PROVE OnceInv'
  BY <1>5 DEF PcClose, wsvars, objects, At, WS!At
<1>6. ASSUME NEW w \in Ws, Dial(w) PROVE OnceInv'
  BY <1>6 DEF Dial, WS!OpenWs, fields, At, WS!At, WS!lock
<1>7. ASSUME NEW g \in Goroutine, NEW w \in Ws, Calls(g, w) PROVE OnceInv'
  BY <1>7
     DEF Calls, OwnPc, WS!CallSend, WS!CallClose, WS!Call, Goto, WS!Goto,
         WS!object, WS!lock, fields
<1>8. ASSUME NEW w \in Ws, CloseFrame(w) PROVE OnceInv'
  BY <1>8
     DEF CloseFrame, WS!CallClose, WS!Call, At, WS!At, Goto, WS!Goto, WS!object,
         WS!lock, fields
<1>9. ASSUME Hids PROVE OnceInv'
  BY <1>9 DEF Hids, wsvars, objects
<1>10. ASSUME NEW g \in Goroutine, Inside(g) PROVE OnceInv'
  BY <1>10 DEF Inside, fields
<1>11. ASSUME NEW w \in Ws, Reading(w) PROVE OnceInv'
  BY <1>11 DEF Reading, fields, WS!HandlePc, WS!ReadPc
<1>12. ASSUME UNCHANGED vars PROVE OnceInv'
  BY <1>12 DEF vars, wsvars, objects, fields
<1> HIDE DEF Shape, RetPc, CallPc, WS!SendPc, WS!ClosePc, OnceInv
<1> QED
  BY Kinds, InsideSteps, ReadingSteps, <1>1, <1>2, <1>3, <1>4, <1>5, <1>6, <1>7,
     <1>8, <1>9, <1>10, <1>11, <1>12

-----------------------------------------------------------------------------
(* Where the goroutines are for the websockets. *)
Placed == [g \in Goroutine |-> Place(g, pc[g])]
Returning == [g \in Goroutine |-> Place(g, ret[g])]
Seen == IF process \in OwnEnds THEN "up" ELSE process

LEMMA PlaceOf ==
    /\ \A g : \A label : InDevice(g, label) => Place(g, label) = Rest(g)
    /\ \A g : \A label \in Methods \cup {"idle"} : Place(g, label) = label
    /\ \A g \in Ws : Place(g, "ws_clear") = "callback"
    /\ \A g : g \notin Ws => Place(g, "ws_clear") = "idle" /\ Place(g, "assign") = "idle"
BY
   DEF InDevice, Rest, Place, Methods, OwnPc, WS!HandlePc, WS!ReadPc, WS!SendPc,
       WS!ClosePc

LEMMA Moves ==
    ASSUME Shape
    PROVE  /\ \A g \in Goroutine : \A label : WS!Goto(g, label) =>
                  Placed' = [Placed EXCEPT ![g] = Place(g, label)]
           /\ \A g \in Goroutine : \A label : ret' = [ret EXCEPT ![g] = label] =>
                  Returning' = [Returning EXCEPT ![g] = Place(g, label)]
           /\ pc' = pc => Placed' = Placed
           /\ ret' = ret => Returning' = Returning
           /\ process' = process => Seen' = Seen
BY DEF Shape, Placed, Returning, Seen, WS!Goto

(* A goroutine is at a place of the websocket, or goes there, for both. *)
LEMMA Goes ==
    ASSUME Shape, NEW g \in Goroutine
    PROVE  /\ \A s \in Goroutine : \A label \in Methods : pc[s] = label => Placed[s] = label
           /\ \A label \in Methods \cup {"idle"} : pc' = [pc EXCEPT ![g] = label] =>
                                    Placed' = [Placed EXCEPT ![g] = label]
<1>1. \A s \in Goroutine : \A label \in Methods : pc[s] = label => Placed[s] = label
  BY PlaceOf DEF Placed
<1>2. ASSUME NEW label \in Methods \cup {"idle"}, pc' = [pc EXCEPT ![g] = label]
      PROVE  Placed' = [Placed EXCEPT ![g] = label]
  <2>1. Place(g, label) = label
    BY PlaceOf
  <2>2. Placed' = [Placed EXCEPT ![g] = Place(g, label)]
    BY <1>2, Moves DEF WS!Goto
  <2> QED
    BY <2>1, <2>2
<1> QED
  BY <1>1, <1>2

(* Every step inside a method is that step of the websocket. *)
LEMMA MapCalls ==
    ASSUME Shape, OpenedInv, NEW g \in Goroutine, WS!CallStep(g)
    PROVE  Used!CallStep(g)
<1>1. /\ \A s \in Goroutine : \A label \in CallPc : pc[s] = label => Placed[s] = label
      /\ \A label \in CallPc : pc' = [pc EXCEPT ![g] = label] =>
                                Placed' = [Placed EXCEPT ![g] = label]
  BY Goes DEF Methods, CallPc
<1>2. pc' = [pc EXCEPT ![g] = ret[g]] => Placed' = [Placed EXCEPT ![g] = Returning[g]]
  BY Moves DEF WS!Goto, Returning
<1>3. /\ ret' = ret => Returning' = Returning
      /\ process' = process => Seen' = Seen
  BY Moves
<1> USE <1>1, <1>2, <1>3
   DEF Placed, Returning, Seen, CallPc, OwnEnds, WS!SendPc, WS!ClosePc
<1>4. ASSUME WS!SendLock(g) PROVE Used!SendLock(g)
  BY <1>4
     DEF WS!SendLock, Used!SendLock, WS!At, Used!At, WS!Goto, Used!Goto,
         Used!object, Used!lock, WS!object, WS!lock
<1>5. ASSUME WS!SendNil(g) PROVE Used!SendNil(g)
  BY <1>5
     DEF WS!SendNil, Used!SendNil, WS!At, Used!At, WS!Goto, Used!Goto,
         Used!object, Used!lock, WS!object, WS!lock
<1>6. ASSUME WS!SendBegin(g) PROVE Used!SendBegin(g)
  BY <1>6
     DEF WS!SendBegin, Used!SendBegin, WS!At, Used!At, WS!Goto, Used!Goto,
         Used!object, Used!lock, WS!object, WS!lock
<1>7. ASSUME WS!SendCollide(g) PROVE Used!SendCollide(g)
  <2>1. PICK s \in senders[target[g]] : pc[s] = "send_write"
    BY <1>7 DEF WS!SendCollide
  <2>2. s \in Goroutine
    BY <1>7 DEF WS!SendCollide, WS!At, Shape, OpenedInv
  <2>3. Placed[s] = "send_write"
    BY <1>1, <2>1, <2>2
  <2> QED
    BY <1>7, <2>1, <2>3
       DEF WS!SendCollide, Used!SendCollide, WS!At, Used!At, WS!Goto, Used!Goto,
           Used!object, Used!lock, WS!object, WS!lock, WS!Panic, Used!Panic
<1>8. ASSUME WS!SendWrite(g) PROVE Used!SendWrite(g)
  BY <1>8
     DEF WS!SendWrite, Used!SendWrite, WS!At, Used!At, WS!Goto, Used!Goto,
         Used!object, Used!lock, WS!object, WS!lock
<1>9. ASSUME WS!CloseDeadline(g) PROVE Used!CloseDeadline(g)
  BY <1>9
     DEF WS!CloseDeadline, Used!CloseDeadline, WS!At, Used!At, WS!Goto, Used!Goto,
         Used!object, Used!lock, WS!object, WS!lock
<1>10. ASSUME WS!CloseNil(g) PROVE Used!CloseNil(g)
  BY <1>10
     DEF WS!CloseNil, Used!CloseNil, WS!At, Used!At, WS!Goto, Used!Goto,
         Used!object, Used!lock, WS!object, WS!lock, WS!Panic, Used!Panic
<1>11. ASSUME WS!CloseLock(g) PROVE Used!CloseLock(g)
  BY <1>11
     DEF WS!CloseLock, Used!CloseLock, WS!At, Used!At, WS!Goto, Used!Goto,
         Used!object, Used!lock, WS!object, WS!lock
<1>12. ASSUME WS!CloseDrain(g) PROVE Used!CloseDrain(g)
  BY <1>12
     DEF WS!CloseDrain, Used!CloseDrain, WS!At, Used!At, WS!Goto, Used!Goto,
         Used!object, Used!lock, WS!object, WS!lock
<1>13. ASSUME WS!CloseConnection(g) PROVE Used!CloseConnection(g)
  BY <1>13
     DEF WS!CloseConnection, Used!CloseConnection, WS!At, Used!At, WS!Goto,
         Used!Goto, Used!object, Used!lock, WS!object, WS!lock
<1>14. ASSUME WS!CloseCheckCancel(g) PROVE Used!CloseCheckCancel(g)
  BY <1>14
     DEF WS!CloseCheckCancel, Used!CloseCheckCancel, WS!At, Used!At, WS!Goto,
         Used!Goto, Used!object, Used!lock, WS!object, WS!lock
<1>15. ASSUME WS!CloseCancel(g) PROVE Used!CloseCancel(g)
  BY <1>15
     DEF WS!CloseCancel, Used!CloseCancel, WS!At, Used!At, WS!Goto, Used!Goto,
         Used!object, Used!lock, WS!object, WS!lock
<1>16. ASSUME WS!CloseCancelNil(g) PROVE Used!CloseCancelNil(g)
  BY <1>16
     DEF WS!CloseCancelNil, Used!CloseCancelNil, WS!At, Used!At, WS!Goto,
         Used!Goto, Used!object, Used!lock, WS!object, WS!lock, WS!Panic,
         Used!Panic
<1>17. ASSUME WS!CloseWait(g) PROVE Used!CloseWait(g)
  BY <1>17
     DEF WS!CloseWait, Used!CloseWait, WS!At, Used!At, WS!Goto, Used!Goto,
         Used!object, Used!lock, WS!object, WS!lock
<1> QED
  BY <1>4, <1>5, <1>6, <1>7, <1>8, <1>9, <1>10, <1>11, <1>12, <1>13, <1>14, <1>15,
     <1>16, <1>17
     DEF WS!CallStep, Used!CallStep

LEMMA MapReading ==
    ASSUME Shape, NEW w \in Ws
    PROVE  /\ WS!HandlerStep(w) => Used!HandlerStep(w)
           /\ WS!ReadText(w) => Used!PeerText(w)
           /\ WS!ReadFail(w) => Used!PeerGone(w)
<1> w \in Goroutine
  BY Places
<1>1. /\ \A label \in WS!HandlePc \cup WS!ReadPc : pc[w] = label => Placed[w] = label
      /\ \A label \in WS!HandlePc \cup WS!ReadPc : pc' = [pc EXCEPT ![w] = label] =>
                                Placed' = [Placed EXCEPT ![w] = label]
  BY Goes DEF Methods
<1>2. /\ ret' = ret => Returning' = Returning
      /\ process' = process => Seen' = Seen
      /\ pc' = pc => Placed' = Placed
  BY Moves
<1> USE <1>1, <1>2 DEF Placed, Returning, Seen, OwnEnds, WS!HandlePc, WS!ReadPc
<1>3. ASSUME WS!HandleStart(w) PROVE Used!HandleStart(w)
  BY <1>3
     DEF WS!HandleStart, Used!HandleStart, WS!At, Used!At, WS!Goto, Used!Goto,
         Used!object, Used!lock, WS!object, WS!lock
<1>4. ASSUME WS!HandleSelect(w) PROVE Used!HandleSelect(w)
  BY <1>4
     DEF WS!HandleSelect, Used!HandleSelect, WS!At, Used!At, WS!Goto, Used!Goto,
         Used!object, Used!lock, WS!object, WS!lock
<1>5. ASSUME WS!ReadLock(w) PROVE Used!ReadLock(w)
  BY <1>5
     DEF WS!ReadLock, Used!ReadLock, WS!At, Used!At, WS!Goto, Used!Goto,
         Used!object, Used!lock, WS!object, WS!lock
<1>6. ASSUME WS!ReadNil(w) PROVE Used!ReadNil(w)
  BY <1>6
     DEF WS!ReadNil, Used!ReadNil, WS!Panic, Used!Panic, WS!At, Used!At, WS!Goto,
         Used!Goto, Used!object, Used!lock, WS!object, WS!lock
<1>7. ASSUME WS!ReadTimeout(w) PROVE Used!ReadTimeout(w)
  BY <1>7
     DEF WS!ReadTimeout, Used!ReadTimeout, WS!ReadFail, Used!ReadFail, WS!At,
         Used!At, WS!Goto, Used!Goto, Used!object, Used!lock, WS!object, WS!lock
<1>8. ASSUME WS!ReadReturn(w) PROVE Used!ReadReturn(w)
  BY <1>8
     DEF WS!ReadReturn, Used!ReadReturn, WS!At, Used!At, WS!Goto, Used!Goto,
         Used!object, Used!lock, WS!object, WS!lock
<1>9. ASSUME WS!HandleExit(w) PROVE Used!HandleExit(w)
  BY <1>9
     DEF WS!HandleExit, Used!HandleExit, WS!At, Used!At, WS!Goto, Used!Goto,
         Used!object, Used!lock, WS!object, WS!lock
<1>10. ASSUME WS!ReadText(w) PROVE Used!PeerText(w)
  BY <1>10
     DEF WS!ReadText, Used!ReadText, Used!PeerText, WS!At, Used!At, WS!Goto,
         Used!Goto, Used!object, Used!lock, WS!object, WS!lock
<1>11. ASSUME WS!ReadFail(w) PROVE Used!PeerGone(w)
  BY <1>11
     DEF WS!ReadFail, Used!ReadFail, Used!PeerGone, WS!At, Used!At, WS!Goto,
         Used!Goto, Used!object, Used!lock, WS!object, WS!lock
<1> QED
  BY <1>3, <1>4, <1>5, <1>6, <1>7, <1>8, <1>9, <1>10, <1>11
     DEF WS!HandlerStep, Used!HandlerStep

(* Device moves on and the websockets do not notice. *)
LEMMA Unnoticed ==
    ASSUME DevInv
    PROVE  /\ \A g \in Goroutine : Move(g) => UNCHANGED Used!vars
           /\ \A g \in Goroutine : PcClose(g) => UNCHANGED Used!vars
           /\ Hids => UNCHANGED Used!vars
           /\ Ends => UNCHANGED Used!vars
           /\ UNCHANGED vars => UNCHANGED Used!vars
<1>1. ASSUME UNCHANGED wsvars, UNCHANGED Placed PROVE UNCHANGED Used!vars
  <2>1. UNCHANGED Returning /\ UNCHANGED Seen
    BY <1>1, Moves DEF DevInv, wsvars
  <2> QED
    BY <1>1, <2>1
       DEF Used!vars, Used!object, Used!lock, wsvars, objects, Placed, Returning,
           Seen
<1>2. ASSUME UNCHANGED pc PROVE UNCHANGED Placed
  BY <1>2, Moves DEF DevInv
<1>3. ASSUME NEW g \in Goroutine, Move(g) PROVE UNCHANGED Used!vars
  <2>1. Place(g, pc[g]) = Place(g, pc'[g])
    BY <1>3, PlaceOf DEF Move
  <2>2. Placed' = [Placed EXCEPT ![g] = Place(g, pc'[g])]
    BY <1>3, Moves DEF Move, WS!Goto, DevInv
  <2>3. Placed' = Placed
    BY <2>1, <2>2 DEF Placed
  <2> QED
    BY <1>1, <1>3, <2>3 DEF Move
<1>4. ASSUME NEW g \in Goroutine, PcClose(g) PROVE UNCHANGED Used!vars
  <2>1. pc[g] = "pc_close" /\ UNCHANGED wsvars
    BY <1>4 DEF PcClose, At, WS!At
  <2>2. ASSUME NEW h \in Goroutine PROVE Place(h, pc'[h]) = Place(h, pc[h])
    <3>1. CASE h # g /\ h # Closed(session[g])
      BY <1>4, <3>1 DEF PcClose, DevInv, Shape
    <3>2. CASE h = g
      <4>1. InDevice(h, pc[h]) /\ InDevice(h, pc'[h])
        BY <1>4, <2>1, <3>2, Places
           DEF PcClose, DevInv, Shape, OnceInv, InDevice, OwnPc
      <4> QED
        BY <4>1, PlaceOf
    <3>3. CASE h # g /\ h = Closed(session[g])
      <4>1. session[g] \in Rtc
        BY <3>3, Places DEF DevInv, Shape
      <4>2. \/ pc'[h] = pc[h]
            \/ pc'[h] = "ws_stop" /\ pc[h] = "idle"
        <5>1. pc'[h] = IF peer[session[g]] = "open" THEN "ws_stop" ELSE pc[h]
          BY <1>4, <3>3 DEF PcClose, DevInv, Shape
        <5>2. peer[session[g]] = "open" => pc[h] = "idle"
          BY <3>3, <4>1 DEF DevInv, OnceInv
        <5> QED
          BY <5>1, <5>2
      <4>3. h \notin Ws
        BY <3>3, <4>1, Places
      <4>4. InDevice(h, "ws_stop") /\ InDevice(h, "idle")
        BY <4>3 DEF InDevice, OwnPc, Rest
      <4>5. Place(h, "ws_stop") = Place(h, "idle")
        BY <4>4, PlaceOf
      <4> QED
        BY <4>2, <4>5
    <3> QED
      BY <3>1, <3>2, <3>3
  <2>3. UNCHANGED Placed
    BY <2>2 DEF Placed
  <2> QED
    BY <1>1, <2>1, <2>3
<1>5. ASSUME Hids PROVE UNCHANGED Used!vars
  BY <1>1, <1>2, <1>5 DEF Hids
<1>6. ASSUME Ends PROVE UNCHANGED Used!vars
  <2>1. UNCHANGED Seen
    BY <1>6 DEF Ends, Seen, OwnEnds
  <2>2. UNCHANGED Placed /\ UNCHANGED Returning
    BY <1>6, Moves DEF Ends, DevInv
  <2> QED
    BY <1>6, <2>1, <2>2
       DEF Ends, Used!vars, Used!object, Used!lock, objects, Placed, Returning,
           Seen
<1>7. ASSUME UNCHANGED vars PROVE UNCHANGED Used!vars
  BY <1>1, <1>2, <1>7 DEF vars
<1> QED
  BY <1>3, <1>4, <1>5, <1>6, <1>7

(* The calls of Device are calls that WebSocket.tla allows. *)
LEMMA MapUse ==
    ASSUME DevInv
    PROVE  /\ \A w \in Ws : Dial(w) => Used!Open(Mqtt, w)
           /\ \A w \in Ws : CloseFrame(w) => Used!PeerClose(w)
           /\ \A g \in Goroutine, w \in Ws : Calls(g, w) =>
                  IF g \in Ws THEN Used!Callback(g) ELSE Used!Send(g, w) \/ Used!Close(g, w)
<1> USE DEF DevInv
<1>1. ASSUME NEW w \in Ws, Dial(w) PROVE Used!Open(Mqtt, w)
  <2>1. /\ process = "up" /\ pc[Mqtt] = "dial" /\ pc[w] = "fresh"
        /\ pc' = [pc EXCEPT ![w] = "spawned", ![Mqtt] = "hello"]
        /\ UNCHANGED <<ret, process>>
    BY <1>1 DEF Dial, At, WS!At, WS!OpenWs
  <2>2. InDevice(Mqtt, "dial") /\ InDevice(Mqtt, "hello") /\ Rest(Mqtt) = "idle"
    BY Places DEF InDevice, OwnPc, Rest
  <2>3. Place(Mqtt, "dial") = "idle" /\ Place(Mqtt, "hello") = "idle"
    BY <2>2, PlaceOf
  <2>4. Place(w, "fresh") = "fresh" /\ Place(w, "spawned") = "spawned"
    BY PlaceOf DEF Methods, WS!HandlePc
  <2>5. Placed[Mqtt] = "idle" /\ Placed[w] = "fresh"
    BY <2>1, <2>3, <2>4, Places DEF Placed
  <2>6. Placed' = [Placed EXCEPT ![w] = "spawned"]
    BY <2>1, <2>3, <2>4, Places DEF Placed, Shape
  <2>7. UNCHANGED Returning /\ UNCHANGED Seen /\ Seen = "up"
    BY <2>1, Moves DEF Seen
  <2> QED
    BY <1>1, <2>5, <2>6, <2>7
       DEF Dial, WS!OpenWs, Used!Open, Used!OpenWs, Used!At, Used!Goto, Used!lock,
           WS!lock, Placed, Returning, Seen
<1>2. ASSUME NEW w \in Ws, CloseFrame(w) PROVE Used!PeerClose(w)
  <2>1. pc' = [pc EXCEPT ![w] = "close_deadline"] /\ ret' = [ret EXCEPT ![w] = "read_error"]
    BY <1>2 DEF CloseFrame, WS!CallClose, WS!Call, WS!Goto
  <2>2. Placed[w] = "reading" /\ Placed' = [Placed EXCEPT ![w] = "close_deadline"]
    BY <1>2, <2>1, Goes, Places
       DEF CloseFrame, At, WS!At, Methods, WS!ReadPc, WS!ClosePc
  <2>3. Place(w, "read_error") = "read_error"
    BY PlaceOf DEF Methods, WS!ReadPc
  <2>4. Returning' = [Returning EXCEPT ![w] = "read_error"]
    <3>1. w \in Goroutine
      BY Places
    <3>2. Returning' = [Returning EXCEPT ![w] = Place(w, "read_error")]
      BY <2>1, <3>1, Moves
    <3> QED
      BY <2>3, <3>2
  <2>5. Seen = "up" /\ Seen' = Seen
    BY <1>2 DEF CloseFrame, At, WS!At, WS!CallClose, WS!Call, Seen
  <2> QED
    BY <1>2, <2>2, <2>4, <2>5
       DEF CloseFrame, WS!CallClose, WS!Call, Used!PeerClose, Used!CallClose,
           Used!Call,
           Used!At, Used!Goto, Used!object, Used!lock, WS!object, WS!lock,
           Placed, Returning, Seen
<1>3. ASSUME NEW g \in Goroutine, NEW w \in Ws, Calls(g, w)
      PROVE  IF g \in Ws THEN Used!Callback(g) ELSE Used!Send(g, w) \/ Used!Close(g, w)
  <2>1. PICK r \in IF g \in Ws THEN {"read_return", "ws_clear"}
                   ELSE {"idle", "assign", "ws_clear"} :
            WS!CallSend(g, w, r) \/ WS!CallClose(g, w, r)
    BY <1>3 DEF Calls
  <2>2. Placed[g] = Rest(g)
    BY <1>3, PlaceOf DEF Calls, Placed, InDevice
  <2>3. Placed[w] # "fresh"
    <3>1. w \in Goroutine /\ pc[w] # "fresh"
      BY <1>3, Places DEF Calls
    <3> QED
      BY <3>1 DEF Placed, Place
  <2>4. Place(g, r) = IF g \in Ws THEN IF r = "ws_clear" THEN "callback" ELSE r ELSE "idle"
    BY <2>1, PlaceOf DEF Methods, WS!ReadPc
  <2> DEFINE s == Place(g, r)
  <2>5. Returning' = [Returning EXCEPT ![g] = s]
    BY <2>1, Moves DEF WS!CallSend, WS!CallClose, WS!Call
  <2>6. Seen = "up" /\ Seen' = Seen
    BY <1>3, <2>1 DEF Calls, WS!CallSend, WS!CallClose, WS!Call, Seen
  <2> HIDE DEF s
  <2>7. CASE WS!CallSend(g, w, r)
    <3>1. Placed' = [Placed EXCEPT ![g] = "send_lock"]
      BY <2>7, Goes DEF WS!CallSend, WS!Call, WS!Goto, Methods, WS!SendPc
    <3>2. Used!CallSend(g, w, s)
      BY <2>5, <2>6, <2>7, <3>1
         DEF WS!CallSend, WS!Call, Used!CallSend, Used!Call, Used!Goto, Used!object,
             Used!lock, WS!object, WS!lock, Placed, Returning, Seen
    <3> QED
      BY <2>2, <2>3, <2>4, <2>6, <3>2
         DEF Used!Callback, Used!Send, Used!At, Placed, Seen, Rest, s
  <2>8. CASE WS!CallClose(g, w, r)
    <3>1. Placed' = [Placed EXCEPT ![g] = "close_deadline"]
      BY <2>8, Goes DEF WS!CallClose, WS!Call, WS!Goto, Methods, WS!ClosePc
    <3>2. Used!CallClose(g, w, s)
      BY <2>5, <2>6, <2>8, <3>1
         DEF WS!CallClose, WS!Call, Used!CallClose, Used!Call, Used!Goto,
             Used!object,
             Used!lock, WS!object, WS!lock, Placed, Returning, Seen
    <3> QED
      BY <2>2, <2>3, <2>4, <2>6, <3>2
         DEF Used!Callback, Used!Close, Used!At, Placed, Seen, Rest, s
  <2> QED
    BY <2>1, <2>7, <2>8
<1> QED
  BY <1>1, <1>2, <1>3

-----------------------------------------------------------------------------
(* The state the mapping rests on is kept by every step. *)
THEOREM Invariance == Spec => []DevInv
<1>1. Init => DevInv
  <2> SUFFICES ASSUME Init PROVE DevInv
    OBVIOUS
  <2> USE Places, DeviceAssumption DEF Init, WS!WsInit
  <2>1. pc \in [Goroutine -> Labels]
    BY DEF Labels, Methods, WS!HandlePc
  <2>2. Shape
    <3>1. \A g \in Notified : g[2] \in Rtc
      BY DEF Notified
    <3>2. session \in [Goroutine -> Rtc \cup {Nil}]
      BY <3>1
    <3>3. WS!Goroutine = Goroutine
      BY DEF Goroutine
    <3>4. /\ ret \in [Goroutine -> RetPc]
          /\ target \in [Goroutine -> Ws \cup {Nil}]
          /\ senders \in [Ws -> SUBSET Goroutine]
      BY <3>3 DEF RetPc
    <3> QED
      BY <2>1, <3>2, <3>4 DEF Shape
  <2>3. OpenedInv
    BY DEF OpenedInv, CallPc, WS!SendPc, WS!ClosePc
  <2>4. OnceInv
    BY DEF OnceInv
  <2> QED
    BY <2>2, <2>3, <2>4 DEF DevInv
<1>2. DevInv /\ [Next]_vars => DevInv'
  BY ShapeStep, OpenedStep, OnceStep DEF DevInv
<1> QED
  BY <1>1, <1>2, PTL DEF Spec

(* device.go, in any interleaving of the goroutines of mqtt, of pion, of the *)
(* websockets and of main, calls Open, Send and Close as WebSocket.tla says: *)
(* on opened websockets only, at rest or from a callback, one at a time.     *)
THEOREM ImplementsWebSocket == Spec => UsesWebSockets
<1>1. Init => Used!Init
  <2> SUFFICES ASSUME Init PROVE Used!Init
    OBVIOUS
  <2>1. \A g : Place(g, "fresh") = "fresh" /\ Place(g, "idle") = "idle"
    BY PlaceOf DEF Methods, WS!HandlePc
  <2>2. Placed = [g \in Goroutine |-> IF g \in Ws THEN "fresh" ELSE "idle"]
    BY <2>1 DEF Init, Placed
  <2>3. Returning = [g \in Goroutine |-> "idle"]
    BY <2>1 DEF Init, WS!WsInit, WS!Goroutine, Goroutine, Returning
  <2>4. Seen = "up"
    BY DEF Init, WS!WsInit, Seen, OwnEnds
  <2> QED
    BY <2>2, <2>3, <2>4
       DEF Init, WS!WsInit, Used!Init, Used!WsInit, Used!Goroutine, WS!Goroutine,
           Goroutine, Placed, Returning, Seen
<1>2. DevInv /\ [Next]_vars => [Used!Next]_(Used!vars)
  <2> SUFFICES ASSUME DevInv, Next PROVE Used!Next \/ UNCHANGED Used!vars
    BY Unnoticed
  <2>1. ASSUME NEW g \in Goroutine, LibraryCall(g) PROVE Used!CallStep(g)
    BY <2>1, MapCalls DEF LibraryCall, DevInv
  <2>2. ASSUME NEW w \in Ws, Library(w) PROVE Used!HandlerStep(w)
    BY <2>2, MapReading DEF Library, DevInv
  <2>3. ASSUME NEW w \in Ws, Hear(w) \/ ServerGone(w) PROVE Used!PeerText(w) \/ Used!PeerGone(w)
    BY <2>3, MapReading DEF Hear, ServerGone, DevInv
  <2>4. Goroutine = Callers \cup Ws /\ Mqtt \in Callers
    BY DEF Goroutine, WS!Goroutine, Callers
  <2>5. ASSUME NEW g \in Goroutine, Quietly(g) PROVE UNCHANGED Used!vars
    BY <2>5, Unnoticed DEF Quietly
  <2>6. ASSUME NEW w \in Ws, Move(w) PROVE UNCHANGED Used!vars
    BY <2>6, Unnoticed, Places
  <2>7. Shape /\ OpenedInv
    BY DEF DevInv
  <2> QED
    BY <2>1, <2>2, <2>3, <2>4, <2>5, <2>6, <2>7, Kinds, Unnoticed, MapUse
       DEF Used!Next, Used!WsStep
<1> QED
  BY <1>1, <1>2, Invariance, PTL DEF Spec, UsesWebSockets, Used!Spec

(* So what WebSocketProofs shows of WebSocket.tla holds in Device.           *)
Shown == INSTANCE WebSocketProofs WITH
            NoOne <- Nil,
            CallbackOps <- {"return", "send", "close"}, PeerFrames <- {"text", "close"},
            pc <- [g \in Goroutine |-> Place(g, pc[g])],
            ret <- [g \in Goroutine |-> Place(g, ret[g])],
            process <- IF process \in OwnEnds THEN "up" ELSE process

(* The two names are of one specification. *)
LEMMA OneSpec == Used!Spec => Shown!Spec
<1>1. Used!Init => Shown!Init
  BY
     DEF Used!Init, Shown!Init, Used!WsInit, Shown!WsInit, Used!Goroutine,
         Shown!Goroutine
<1>2. UNCHANGED Used!vars => UNCHANGED Shown!vars
  BY DEF Used!vars, Shown!vars, Used!object, Shown!object, Used!lock, Shown!lock
<1>3. Used!Next => Shown!Next
  BY
     DEF Used!Next, Shown!Next, Used!Open, Shown!Open, Used!Send, Shown!Send,
         Used!Close,
         Shown!Close, Used!Callback, Shown!Callback, Used!PeerText,
         Shown!PeerText, Used!PeerClose, Shown!PeerClose, Used!PeerGone,
         Shown!PeerGone, Used!OpenWs, Shown!OpenWs, Used!CallSend,
         Shown!CallSend, Used!CallClose, Shown!CallClose, Used!Call,
         Shown!Call, Used!ReadText, Shown!ReadText, Used!ReadFail,
         Shown!ReadFail, Used!Panic, Shown!Panic, Used!At, Shown!At,
         Used!Goto, Shown!Goto, Used!object, Shown!object, Used!lock,
         Shown!lock, Used!vars, Shown!vars, Used!WsInit, Shown!WsInit,
         Used!Goroutine, Shown!Goroutine, Used!WsStep, Shown!WsStep,
         Used!HandlerStep, Shown!HandlerStep, Used!CallStep, Shown!CallStep,
         Used!HandleStart, Shown!HandleStart, Used!HandleSelect,
         Shown!HandleSelect, Used!ReadLock, Shown!ReadLock, Used!ReadNil,
         Shown!ReadNil, Used!ReadTimeout, Shown!ReadTimeout,
         Used!ReadReturn, Shown!ReadReturn, Used!HandleExit,
         Shown!HandleExit, Used!SendLock, Shown!SendLock, Used!SendNil,
         Shown!SendNil, Used!SendBegin, Shown!SendBegin, Used!SendCollide,
         Shown!SendCollide, Used!SendWrite, Shown!SendWrite,
         Used!CloseDeadline, Shown!CloseDeadline, Used!CloseNil,
         Shown!CloseNil, Used!CloseLock, Shown!CloseLock, Used!CloseDrain,
         Shown!CloseDrain, Used!CloseConnection, Shown!CloseConnection,
         Used!CloseCheckCancel, Shown!CloseCheckCancel, Used!CloseCancel,
         Shown!CloseCancel, Used!CloseCancelNil, Shown!CloseCancelNil,
         Used!CloseWait, Shown!CloseWait
<1>4. [Used!Next]_(Used!vars) => [Shown!Next]_(Shown!vars)
  BY <1>2, <1>3
<1> QED
  BY <1>1, <1>4, PTL DEF Used!Spec, Shown!Spec

LEMMA ShownAssumptions ==
    /\ {"return", "send", "close"} \subseteq {"return", "send", "close"}
    /\ {"text", "close"} \subseteq {"text", "close"}
    /\ Callers \cap Ws = {} /\ Nil \notin Callers \cup Ws
BY Places, CallersAssumption
DEF Goroutine, WS!Goroutine, Mqtt, Main, Lost, Closed, Ice, Callers, Names

(* No websocket is closed under a goroutine of Device that works on it, and  *)
(* when a Close has returned to Device, its reading goroutine is quiet.      *)
THEOREM WebSocketsSafe == Spec => []WebSocketsHold
<1>1. Shown!Spec => []Shown!OpenWhileInUse
  BY Shown!UseIsSafe, ShownAssumptions
<1>2. Shown!Spec => []Shown!QuietAfterClose
  BY Shown!CloseIsQuiet, ShownAssumptions
<1>3. Shown!OpenWhileInUse => WS!OpenWhileInUse
  <2> SUFFICES ASSUME Shown!OpenWhileInUse, NEW w \in Ws, WS!InUse(w) PROVE connection[w]
    BY DEF WS!OpenWhileInUse
  <2>1. \A g \in Goroutine : pc[g] = "send_write" => Placed[g] = "send_write"
    BY PlaceOf DEF Placed, Methods, WS!SendPc
  <2>2. Shown!InUse(w)
    BY <2>1
       DEF Shown!InUse, WS!InUse, Placed, Shown!Goroutine, WS!Goroutine, Goroutine
  <2> QED
    BY <2>2 DEF Shown!OpenWhileInUse
<1>4. Shown!QuietAfterClose => WS!QuietAfterClose
  BY Places DEF Shown!QuietAfterClose, WS!QuietAfterClose, Place
<1>5. Shown!OpenWhileInUse /\ Shown!QuietAfterClose => WebSocketsHold
  BY <1>3, <1>4 DEF WebSocketsHold
<1> QED
  BY <1>1, <1>2, <1>5, OneSpec, ImplementsWebSocket, PTL DEF UsesWebSockets

(* A websocket that its own reading goroutine closes, on webrtc-stop or on a  *)
(* close frame, stays locked and open whatever Device does afterwards.        *)
THEOREM SelfClosedStays == Spec => SelfClosedStaysDead
<1> DEFINE Stuck == \A w \in Ws : writer[w] = w =>
                writer'[w] = w /\ senders'[w] \subseteq senders[w] /\ connection'[w]
<1>1. Shown!Spec => Shown!SelfCloseStuck /\ []Shown!IInv
  BY Shown!SelfCloseNeverReturns, Shown!Invariance, ShownAssumptions, PTL
<1>2. ASSUME Shown!IInv, [Stuck]_(Shown!vars) PROVE [Stuck]_(WS!vars)
  <2>1. \A w \in Ws : writer[w] = w => connection[w]
    BY <1>2, Places
       DEF Shown!IInv, Shown!Typed, Shown!TypeOK, Shown!CallInv, Shown!Locked,
           Shown!ReadInv, Shown!WriteInv, Shown!OpenWhileInUse, Shown!InUse,
           Shown!CallPc, Shown!SendPc, Shown!ClosePc, Shown!Goroutine, Goroutine, WS!Goroutine
  <2>2. CASE UNCHANGED Shown!vars
    BY <2>1, <2>2 DEF Shown!vars, Shown!object, Shown!lock
  <2> QED
    BY <1>2, <2>2
<1>3. Shown!SelfCloseStuck <=> [][Stuck]_(Shown!vars)
  BY PTL DEF Shown!SelfCloseStuck
<1> QED
  BY <1>1, <1>2, <1>3, OneSpec, ImplementsWebSocket, PTL
     DEF UsesWebSockets, SelfClosedStaysDead, WS!SelfCloseStuck

(* Device's goroutines wait for one another inside websockets only, and there  *)
(* every circle goes through a reading goroutine that has called a method from *)
(* a message handler or the close handler: for webrtc-stop, for an answer, for *)
(* a close frame.                                                              *)
THEOREM OnlyHandlersBlock == Spec => []Used!OnlyCallbacksBlock
<1>1. Shown!Spec => []Shown!OnlyCallbacksBlock
  BY Shown!NoOtherDeadlock, ShownAssumptions
<1>2. Shown!OnlyCallbacksBlock => Used!OnlyCallbacksBlock
  BY DEF Shown!OnlyCallbacksBlock, Used!OnlyCallbacksBlock, Shown!WaitsFor, Used!WaitsFor,
         Shown!GoesOn, Used!GoesOn, Shown!SendPc, Used!SendPc, Shown!ClosePc, Used!ClosePc,
         Shown!Goroutine, Used!Goroutine
<1> QED
  BY <1>1, <1>2, ImplementsWebSocket, OneSpec, PTL DEF UsesWebSockets

(* Every field of Device and every variable of its websockets keeps its type. *)
THEOREM Typing == Spec => []TypeOK
<1>1. Shown!Spec => []Shown!TypeOK
  BY Shown!Typing, ShownAssumptions
<1>2. DevInv /\ Shown!TypeOK => TypeOK
  BY DEF DevInv, Shape, Shown!TypeOK, Shown!ObjectTypeOK, TypeOK, WS!ObjectTypeOK,
         Shown!Goroutine, WS!Goroutine
<1> QED
  BY <1>1, <1>2, Invariance, OneSpec, ImplementsWebSocket, PTL DEF UsesWebSockets

=============================================================================
