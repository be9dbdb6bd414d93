-------------------------------- MODULE Device --------------------------------
(***************************************************************************)
(* src/device.go with src/libs/webrtc/webrtc.go: the remote control        *)
(* sessions of the device.  An mqtt request opens or closes the signalling *)
(* websocket (responseWs); the browser's messages on it start, use and     *)
(* stop a peer connection (wrtc); the peer connection carries the video    *)
(* (mv or mg) and feeds the keyboard and mouse (hid).                      *)
(*                                                                         *)
(* Device has no lock.  Its fields are read and written by the goroutine   *)
(* of mqtt, the reading goroutine of every websocket, the goroutines in    *)
(* which pion reports events of a peer connection, and main.  A check of a *)
(* field and its use are two steps.                                        *)
(***************************************************************************)
EXTENDS Integers, FiniteSets

CONSTANTS Ws,           \* the websockets that can be opened, one after another
          Rtc,          \* the peer connections, the same
          Nil,
          Messages,     \* what the browser sends
          Faults,       \* what may fail
          MediaSources, \* values of args.MediaSource
          Overlap       \* how many goroutines may be busy when the next event comes

ASSUME DeviceAssumption ==
    /\ Messages \subseteq {"webrtc-start", "webrtc-stop",
                          "use",    \* an offer or a candidate
                          "bare",   \* one without its payload
                          "other", "close"}
    /\ Faults \subseteq {"dial",    \* no token, or no connection
                        "refresh", \* the token is old, and no answer to renew it
                        "peer", "video",
                        "asleep"}  \* the host takes no more reports
    /\ MediaSources \subseteq Nat
    /\ Overlap \in Nat
    /\ Nil \notin Ws \cup Rtc

Mqtt == <<"mqtt", Nil>>         \* paho calls the message handlers in order
Main == <<"main", Nil>>
Lost(r) == <<"lost", r>>        \* pion: the connection failed or the peer closed it
Closed(r) == <<"closed", r>>    \* pion: the connection was closed on this side
Ice(r) == <<"ice", r>>          \* pion: a local candidate was found
Callers == {Mqtt, Main} \cup ({"lost", "closed", "ice"} \X Rtc)
Notified == {"lost", "closed"} \X Rtc

Names == {"mqtt", "main", "lost", "closed", "ice"} \X (Rtc \cup {Nil})

ASSUME CallersAssumption == Names \cap Ws = {} /\ Nil \notin Names

VARIABLES mediaSource,  \* d.mediaSource
          responseWs,   \* d.responseWs
          wrtc,         \* d.wrtc
          peer,         \* the peer connection behind each WebRTC
          media,        \* d.mv or d.mg, named by the session that set it
          running,      \* the pipelines that run
          hid,          \* the hid file; "stuck": a write waits for a sleeping host
          session       \* the receiver of a goroutine's call of WebRTC.Close or Open

VARIABLES connection, deadline, cancel, done, wg, closed, reading, senders, writer,
          pc, target, ret, process

WS == INSTANCE WebSocket
      WITH NoOne <- Nil, CallbackOps <- {}, PeerFrames <- {}

Goroutine == WS!Goroutine
At(g, label) == WS!At(g, label)
Goto(g, label) == WS!Goto(g, label)

fields == <<mediaSource, responseWs, wrtc, peer, media, running, hid, session>>
objects == <<connection, deadline, cancel, done, wg, closed, reading, senders, writer>>
wsvars == <<objects, target, ret, process>>
vars == <<fields, wsvars, pc>>

Init ==
    /\ WS!WsInit
    /\ pc = [g \in Goroutine |-> IF g \in Ws THEN "fresh" ELSE "idle"]
    /\ mediaSource \in MediaSources
    /\ responseWs = Nil
    /\ wrtc = Nil
    /\ peer = [r \in Rtc |-> "fresh"]
    /\ media = Nil
    /\ running = {}
    /\ hid = "closed"
    /\ session = [g \in Goroutine |-> IF g \in Notified THEN g[2] ELSE Nil]

(* A goroutine at rest waits for an event from outside. *)
Busy == {g \in Goroutine : pc[g] \notin {"idle", "gone", "fresh", "reading", "ended"}}
Quiet == Busy = {}
Deliver == process = "up" /\ Cardinality(Busy) <= Overlap

Panic(why) == WS!Panic(why) /\ UNCHANGED fields

(* A step of a goroutine that changes nothing but some of d's fields. *)
Local(g, label) == Goto(g, label) /\ UNCHANGED wsvars

-----------------------------------------------------------------------------
(* The steps inside a WebSocket. *)
LibraryCall(g) == WS!CallStep(g) /\ UNCHANGED fields

Library(w) == WS!HandlerStep(w) /\ UNCHANGED fields

-----------------------------------------------------------------------------
(* wsStart, for the request websocket-start.  A request while d.responseWs   *)
(* is set is refused, and so is one for which there is no access token.      *)
(* Mutant of RequestStart: it does not look at d.responseWs. *)
RequestStartAgain ==
    /\ At(Mqtt, "idle") /\ Deliver
    /\ pc[Main] = "idle"
    /\ \E w \in Ws : pc[w] = "fresh"
    /\ Local(Mqtt, "dial")
    /\ UNCHANGED fields

RequestStart ==
    /\ At(Mqtt, "idle") /\ Deliver
    /\ pc[Main] = "idle"
    /\ \E w \in Ws : pc[w] = "fresh"
    /\ responseWs = Nil
    /\ Local(Mqtt, "dial")
    /\ UNCHANGED fields

(* Mutant of DialFails: wsStart has set d.responseWs before it dials. *)
DialFailsAssigned ==
    /\ At(Mqtt, "dial")
    /\ "dial" \in Faults
    /\ \E w \in Ws : pc[w] = "fresh" /\ responseWs' = w
    /\ Local(Mqtt, "idle")
    /\ UNCHANGED <<mediaSource, wrtc, peer, media, running, hid, session>>

DialFails ==
    /\ At(Mqtt, "dial")
    /\ "dial" \in Faults
    /\ Local(Mqtt, "idle")
    /\ UNCHANGED fields

(* UseDeviceResponse renews an old token first.  When that request gets no   *)
(* answer, doRequest reads the status of a response that is not there; the   *)
(* data of an answer without any is used likewise (Tokens.tla: Panic).       *)
RefreshPanics ==
    /\ At(Mqtt, "dial")
    /\ "refresh" \in Faults
    /\ Panic("nil response")

(* Open starts the reading goroutine: from now on the browser is heard. *)
Dial(w) ==
    /\ At(Mqtt, "dial")
    /\ pc[w] = "fresh"
    /\ WS!OpenWs(w)
    /\ pc' = [pc EXCEPT ![w] = "spawned", ![Mqtt] = "hello"]
    /\ target' = [target EXCEPT ![Mqtt] = w]
    /\ UNCHANGED <<ret, fields>>

SendHello ==
    /\ At(Mqtt, "hello")
    /\ WS!CallSend(Mqtt, target[Mqtt], "assign")
    /\ UNCHANGED fields

(* Mutant of AssignResponseWs: wsStart forgets the websocket. *)
AssignNothing ==
    /\ At(Mqtt, "assign")
    /\ Local(Mqtt, "idle")
    /\ UNCHANGED fields

AssignResponseWs ==
    /\ At(Mqtt, "assign")
    /\ responseWs' = target[Mqtt]
    /\ Local(Mqtt, "idle")
    /\ UNCHANGED <<mediaSource, wrtc, peer, media, running, hid, session>>

RequestStop ==
    /\ At(Mqtt, "idle") /\ Deliver
    /\ pc[Main] = "idle"
    /\ Local(Mqtt, "ws_stop")
    /\ UNCHANGED fields

-----------------------------------------------------------------------------
(* wsStop, mediaStop and hid.Close, one after the other, are the teardown of *)
(* WebRTC.Close (its OnClose) and of Device.Close; a request stops at wsStop. *)
WsStop(g) ==
    /\ At(g, "ws_stop")
    /\ Local(g, IF responseWs # Nil THEN "ws_close"
                ELSE IF g = Mqtt THEN "idle" ELSE "media_stop")
    /\ UNCHANGED fields

WsStopClose(g) ==
    /\ At(g, "ws_close")
    /\ IF responseWs = Nil
       THEN Panic("nil websocket")
       ELSE WS!CallClose(g, responseWs, "ws_clear") /\ UNCHANGED fields

(* Mutant of WsStopClear: d.responseWs keeps the closed websocket. *)
WsStopKeep(g) ==
    /\ At(g, "ws_clear")
    /\ Local(g, IF g = Mqtt THEN "idle" ELSE "media_stop")
    /\ UNCHANGED fields

WsStopClear(g) ==
    /\ At(g, "ws_clear")
    /\ responseWs' = Nil
    /\ Local(g, IF g = Mqtt THEN "idle" ELSE "media_stop")
    /\ UNCHANGED <<mediaSource, wrtc, peer, media, running, hid, session>>

MediaStop(g) ==
    /\ At(g, "media_stop")
    /\ Local(g, IF media = Nil THEN "hid_close" ELSE "media_close")
    /\ UNCHANGED fields

(* Mutant of MediaStopClose: the video goes on. *)
MediaStopKeep(g) ==
    /\ At(g, "media_close")
    /\ Local(g, "media_clear")
    /\ UNCHANGED fields

MediaStopClose(g) ==
    /\ At(g, "media_close")
    /\ IF media = Nil
       THEN Panic("nil media")
       ELSE /\ running' = running \ {media}
            /\ Local(g, "media_clear")
            /\ UNCHANGED <<mediaSource, responseWs, wrtc, peer, media, hid, session>>

MediaStopClear(g) ==
    /\ At(g, "media_clear")
    /\ media' = Nil
    /\ Local(g, "hid_close")
    /\ UNCHANGED <<mediaSource, responseWs, wrtc, peer, running, hid, session>>

(* Mutant of HidClose: OnClose leaves the hid file open. *)
HidKeep(g) ==
    /\ At(g, "hid_close")
    /\ Local(g, IF g = Main /\ session[g] = Nil THEN "wrtc_stop" ELSE "wrtc_clear")
    /\ UNCHANGED fields

(* The Lock of hid.Close waits for a write, which holds the read lock until  *)
(* the host has taken the report.  Device.Close goes on with wrtcStop,       *)
(* OnClose with d.wrtc = nil.                                                *)
HidClose(g) ==
    /\ At(g, "hid_close")
    /\ hid \in {"closed", "open"}
    /\ hid' = "closed"
    /\ Local(g, IF g = Main /\ session[g] = Nil THEN "wrtc_stop" ELSE "wrtc_clear")
    /\ UNCHANGED <<mediaSource, responseWs, wrtc, peer, media, running, session>>

(* Mutant of WrtcClear: OnClose does not clear d.wrtc. *)
WrtcKeep(g) ==
    /\ At(g, "wrtc_clear")
    /\ Local(g, "pc_close")
    /\ UNCHANGED fields

WrtcClear(g) ==
    /\ At(g, "wrtc_clear")
    /\ wrtc' = Nil
    /\ Local(g, "pc_close")
    /\ UNCHANGED <<mediaSource, responseWs, peer, media, running, hid, session>>

(* pc.Close, after OnClose: pion reports the change to Closed in a goroutine *)
(* of its own, once.                                                         *)
PcClose(g) ==
    LET r == session[g] IN
    /\ At(g, "pc_close")
    /\ peer' = [peer EXCEPT ![r] = IF @ = "open" THEN "closed" ELSE @]
    /\ pc' = [pc EXCEPT ![g] = IF g \in Notified THEN "gone" ELSE "wrtc_unset",
                        ![Closed(r)] = IF peer[r] = "open" THEN "ws_stop"
                                       ELSE IF g = Closed(r) THEN "gone" ELSE @]
    /\ UNCHANGED <<mediaSource, responseWs, wrtc, media, running, hid, session, wsvars>>

(* wrtcStop: the caller answers the browser, or is main and ends. *)
WrtcStop(g) ==
    /\ At(g, "wrtc_stop")
    /\ Local(g, IF wrtc # Nil THEN "wrtc_close" ELSE IF g = Main THEN "leave" ELSE "reply")
    /\ UNCHANGED fields

WrtcStopClose(g) ==
    /\ At(g, "wrtc_close")
    /\ IF wrtc = Nil
       THEN Panic("nil webrtc")
       ELSE /\ session' = [session EXCEPT ![g] = wrtc]
            /\ Local(g, "ws_stop")
            /\ UNCHANGED <<mediaSource, responseWs, wrtc, peer, media, running, hid>>

WrtcStopClear(g) ==
    /\ At(g, "wrtc_unset")
    /\ wrtc' = Nil
    /\ Local(g, IF g = Main THEN "leave" ELSE "reply")
    /\ UNCHANGED <<mediaSource, responseWs, peer, media, running, hid, session>>

TeardownStep(g) ==
    \/ WsStop(g) \/ WsStopClose(g) \/ WsStopClear(g)
    \/ MediaStop(g) \/ MediaStopClose(g) \/ MediaStopClear(g) \/ HidClose(g)
    \/ WrtcClear(g) \/ PcClose(g) \/ WrtcStop(g) \/ WrtcStopClose(g) \/ WrtcStopClear(g)

-----------------------------------------------------------------------------
(* handleWsMessage, inside the OnMessage callback of websocket w; then the   *)
(* answer is sent on w.                                                      *)
Hear(w) == Deliver /\ WS!ReadText(w) /\ UNCHANGED fields

Reply(w) ==
    /\ At(w, "reply")
    /\ WS!CallSend(w, w, "read_return")
    /\ UNCHANGED fields

(* wrtcStart: a second session is refused; d.wrtc is set before Open. *)
WrtcCheck(w) ==
    /\ At(w, "callback")
    /\ "webrtc-start" \in Messages
    /\ wrtc = Nil
    /\ \E r \in Rtc : peer[r] = "fresh"
    /\ Local(w, "wrtc_set")
    /\ UNCHANGED fields

WrtcStart(w) ==
    /\ At(w, "wrtc_set")
    /\ \E r \in Rtc :
          /\ peer[r] = "fresh"
          /\ peer' = [peer EXCEPT ![r] = "created"]
          /\ wrtc' = r
          /\ session' = [session EXCEPT ![w] = r]
    /\ Local(w, "pc_open")
    /\ UNCHANGED <<mediaSource, responseWs, media, running, hid>>

PcOpen(w) ==
    /\ At(w, "pc_open")
    /\ \/ /\ peer' = [peer EXCEPT ![session[w]] = "open"]
          /\ Local(w, "media_start")
       \/ /\ "peer" \in Faults
          /\ Local(w, "reply")
          /\ UNCHANGED peer
    /\ UNCHANGED <<mediaSource, responseWs, wrtc, media, running, hid, session>>

MediaCheck(w) ==
    /\ At(w, "media_start")
    /\ Local(w, IF wrtc = Nil \/ media # Nil \/ mediaSource \notin {1, 2}
                THEN "reply" ELSE "media_set")
    /\ UNCHANGED fields

MediaStart(w) ==
    /\ At(w, "media_set")
    /\ media' = session[w]
    /\ Local(w, "track")
    /\ UNCHANGED <<mediaSource, responseWs, wrtc, peer, running, hid, session>>

(* For a method of *d.wrtc: the pointer, or the connection inside, may be nil. *)
Usable == wrtc # Nil /\ peer[wrtc] # "created"

AddTrack(w) ==
    /\ At(w, "track")
    /\ IF Usable
       THEN Local(w, "media_open") /\ UNCHANGED fields
       ELSE Panic("nil webrtc")

(* Video.Open starts the pipeline, and its error is ignored; Gstreamer.Open  *)
(* calls UDP.Open, which does nothing but call itself.                       *)
MediaOpen(w) ==
    /\ At(w, "media_open")
    /\ \/ media = Nil /\ Panic("nil media")
       \/ media # Nil /\ mediaSource = 2 /\ Panic("stack overflow")
       \/ /\ media # Nil /\ mediaSource = 1
          /\ \/ running' = running \cup {media}
             \/ "video" \in Faults /\ UNCHANGED running
          /\ Local(w, "reply")
          /\ UNCHANGED <<mediaSource, responseWs, wrtc, peer, media, hid, session>>

(* An offer or a candidate.  Its payload is a pointer too, and nobody checks *)
(* that the message has one.                                                 *)
UseCheck(w) ==
    /\ At(w, "callback")
    /\ {"use", "bare"} \cap Messages # {}
    /\ Local(w, IF wrtc = Nil THEN "reply" ELSE "use")
    /\ UNCHANGED fields

UsePeer(w) ==
    /\ At(w, "use")
    /\ \/ "use" \in Messages /\ Usable /\ Local(w, "reply") /\ UNCHANGED fields
       \/ "use" \in Messages /\ ~ Usable /\ Panic("nil webrtc")
       \/ "bare" \in Messages /\ Panic("nil payload")

(* webrtc-stop runs wrtcStop; anything else, and a webrtc-start that is      *)
(* refused, is answered and changes nothing.                                 *)
OtherMessage(w) ==
    /\ At(w, "callback")
    /\ \/ "webrtc-stop" \in Messages /\ Local(w, "wrtc_stop")
       \/ Local(w, "reply")
    /\ UNCHANGED fields

(* The peer's close frame makes ReadMessage call WebSocket.Close. *)
CloseFrame(w) ==
    /\ At(w, "reading") /\ Deliver
    /\ "close" \in Messages
    /\ WS!CallClose(w, w, "read_error")
    /\ UNCHANGED fields

ServerGone(w) == Deliver /\ WS!ReadFail(w) /\ UNCHANGED fields

-----------------------------------------------------------------------------
(* Events of a peer connection.  Those that pion has handed to a goroutine   *)
(* may arrive when the connection is closed already.                         *)
Alive(r) == peer[r] = "open" \/ (Overlap > 0 /\ peer[r] = "closed")

PeerLost(r) ==
    /\ At(Lost(r), "idle") /\ Deliver
    /\ peer[r] = "open"
    /\ Local(Lost(r), "ws_stop")
    /\ UNCHANGED fields

(* sendIceCandidate and wsSend. *)
Candidate(r) ==
    /\ At(Ice(r), "idle") /\ Deliver
    /\ Alive(r)
    /\ responseWs # Nil
    /\ Local(Ice(r), "ice_send")
    /\ UNCHANGED fields

SendCandidate(r) ==
    /\ At(Ice(r), "ice_send")
    /\ IF responseWs = Nil
       THEN Panic("nil websocket")
       ELSE WS!CallSend(Ice(r), responseWs, "idle") /\ UNCHANGED fields

(* useDataChannel opens the hid file.  An Open that fails changes nothing,   *)
(* and one that waits behind a write will: the file is open then.            *)
HidIs(state) ==
    /\ hid' = state
    /\ UNCHANGED <<mediaSource, responseWs, wrtc, peer, media, running, session, wsvars, pc>>

DataChannel(r) ==
    /\ Deliver
    /\ Alive(r)
    /\ hid = "closed"
    /\ HidIs("open")

(* A message on the data channel is written to the hid file, in pion's own   *)
(* goroutine; a Lock that waits keeps further ones out.                      *)
HidWrite(r) ==
    /\ Deliver
    /\ Alive(r)
    /\ hid = "open"
    /\ \A g \in Goroutine : pc[g] # "hid_close"
    /\ HidIs("writing")

HostTakes == process = "up" /\ hid = "writing" /\ HidIs("open")

HostSleeps == process = "up" /\ hid = "writing" /\ "asleep" \in Faults /\ HidIs("stuck")

(* OnData of a running pipeline hands a frame to d.wrtc, whatever it is. *)
Frame ==
    /\ process = "up"
    /\ running # {}
    /\ wrtc = Nil
    /\ Panic("nil webrtc")

(* Device.Close; mqtt.Close has ended the requests.  The video monitor it    *)
(* closes too has a pipeline of its own, which Pipeline.tla models.          *)
Close ==
    /\ At(Main, "idle") /\ Deliver
    /\ Local(Main, "ws_stop")
    /\ UNCHANGED fields

Exit ==
    /\ At(Main, "leave")
    /\ process' = "exited"
    /\ UNCHANGED <<fields, objects, target, ret, pc>>

-----------------------------------------------------------------------------
MqttStep ==
    \/ DialFails \/ RefreshPanics \/ (\E w \in Ws : Dial(w)) \/ SendHello \/ AssignResponseWs
    \/ LibraryCall(Mqtt) \/ TeardownStep(Mqtt)

HandlerStep(w) ==
    \/ Library(w) \/ LibraryCall(w) \/ Reply(w) \/ TeardownStep(w)
    \/ WrtcCheck(w) \/ WrtcStart(w) \/ PcOpen(w)
    \/ MediaCheck(w) \/ MediaStart(w) \/ AddTrack(w) \/ MediaOpen(w)
    \/ UseCheck(w) \/ UsePeer(w) \/ OtherMessage(w)

PionStep(r) ==
    \/ \E g \in {Lost(r), Closed(r)} : LibraryCall(g) \/ TeardownStep(g)
    \/ LibraryCall(Ice(r)) \/ SendCandidate(r)

MainStep == LibraryCall(Main) \/ TeardownStep(Main) \/ Exit

Event ==
    \/ RequestStart \/ RequestStop \/ Close \/ Frame
    \/ \E w \in Ws : Hear(w) \/ CloseFrame(w) \/ ServerGone(w)
    \/ \E r \in Rtc : PeerLost(r) \/ Candidate(r) \/ DataChannel(r) \/ HidWrite(r)

Next ==
    \/ Event \/ MqttStep \/ MainStep \/ HostTakes \/ HostSleeps
    \/ \E w \in Ws : HandlerStep(w)
    \/ \E r \in Rtc : PionStep(r)

(* Every goroutine that can go on is scheduled, and the host takes reports   *)
(* until it falls asleep; no event has to happen.                            *)
Fairness ==
    /\ WF_vars(MqttStep) /\ WF_vars(MainStep) /\ WF_vars(HostTakes)
    /\ \A w \in Ws : WF_vars(HandlerStep(w))
    /\ \A r \in Rtc : WF_vars(LibraryCall(Lost(r)) \/ TeardownStep(Lost(r)))
    /\ \A r \in Rtc : WF_vars(LibraryCall(Closed(r)) \/ TeardownStep(Closed(r)))
    /\ \A r \in Rtc : WF_vars(LibraryCall(Ice(r)) \/ SendCandidate(r))

Spec == Init /\ [][Next]_vars
FairSpec == Spec /\ Fairness

-----------------------------------------------------------------------------
TypeOK ==
    /\ mediaSource \in MediaSources
    /\ responseWs \in Ws \cup {Nil}
    /\ wrtc \in Rtc \cup {Nil}
    /\ peer \in [Rtc -> {"fresh", "created", "open", "closed"}]
    /\ media \in Rtc \cup {Nil}
    /\ running \subseteq Rtc
    /\ hid \in {"closed", "open", "writing", "stuck"}
    /\ session \in [Goroutine -> Rtc \cup {Nil}]
    /\ WS!ObjectTypeOK

(* What Device keeps for a session: Session.tla's promise.                   *)
Held == INSTANCE Session WITH
            link <- responseWs # Nil, peer <- wrtc # Nil,
            media <- media # Nil, hid <- hid # "closed"

(* The fields of Device implement Session.tla: media and hid are taken only  *)
(* while there is a webrtc, and d.wrtc is cleared only when the websocket,   *)
(* the media and hid are given up.                                           *)
KeepsSession == Held!Spec

(* The sessions use their videos the way Feed.tla asks, and Pipeline.tla     *)
(* relies on: the video of a session is opened when that of the session      *)
(* before has been closed (device.go:207 after 247, in other goroutines).    *)
Fed == INSTANCE Feed WITH Videos <- Rtc, open <- running, calling <- {}

KeepsFeed == Fed!Spec

(* An event brings the process down in four ways only: a message uses the    *)
(* session whose peer connection could not be made (wrtcStart keeps it), an  *)
(* offer or a candidate comes without its payload, a token cannot be renewed *)
(* while no websocket is open, or the video of a session is to be gst's.     *)
CrashesAreNamed ==
    \/ process \in {"up", "exited"}
    \/ process = "nil webrtc" /\ wrtc # Nil /\ peer[wrtc] = "created" /\ media = Nil
    \/ process = "nil payload" /\ wrtc # Nil /\ peer[wrtc] \in {"created", "open"}
    \/ process = "nil response" /\ \A w \in Ws : ~ connection[w]
    \/ process = "stack overflow" /\ mediaSource = 2 /\ media # Nil /\ wrtc = media

(* Once an event has been dealt with, nothing is left behind: every open     *)
(* websocket is responseWs, every open peer connection is wrtc, only its     *)
(* pipeline runs, and hid is open only for it.                               *)
NothingLeaks ==
    Quiet =>
        /\ \A w \in Ws : connection[w] => responseWs = w
        /\ \A r \in Rtc : peer[r] = "open" => wrtc = r
        /\ running \subseteq {wrtc} /\ running \subseteq {media}
        /\ hid # "closed" => wrtc # Nil

(* When the peer connection is lost, everything that served it is given up;  *)
(* but for a host that has fallen asleep over a report: then the session,    *)
(* with its hid file, is kept for good.                                      *)
LostIsReleased ==
    \A r \in Rtc : pc[Lost(r)] = "ws_stop" ~>
        /\ responseWs = Nil /\ running = {}
        /\ \/ wrtc = Nil /\ hid = "closed" /\ peer[r] = "closed"
           \/ hid = "stuck" /\ pc[Lost(r)] = "hid_close"

(* A websocket-stop frees the place for the next websocket, also when the    *)
(* reading goroutine of this one has ended by itself long before.            *)
StopFrees == pc[Mqtt] = "ws_stop" ~> responseWs = Nil

(* Device, whatever it does without a lock, uses its websockets the way      *)
(* WebSocket.tla allows: it calls methods of opened ones only, from idle     *)
(* goroutines or from callbacks, and a call runs to its end.  A goroutine    *)
(* that is somewhere in device.go is in a callback, if it is the reading     *)
(* goroutine of a websocket, and idle for the websockets otherwise; that the *)
(* process has ended for a reason of Device's own is not their business.     *)
Methods == WS!HandlePc \cup WS!ReadPc \cup WS!SendPc \cup WS!ClosePc
Place(g, label) ==
    IF label \in Methods \cup {"idle"} THEN label
    ELSE IF g \in Ws THEN "callback" ELSE "idle"
OwnEnds == {"exited", "nil websocket", "nil webrtc", "nil media", "nil payload",
            "nil response", "stack overflow"}

Used == INSTANCE WebSocket WITH
            NoOne <- Nil,
            CallbackOps <- {"return", "send", "close"}, PeerFrames <- {"text", "close"},
            pc <- [g \in Goroutine |-> Place(g, pc[g])],
            ret <- [g \in Goroutine |-> Place(g, ret[g])],
            process <- IF process \in OwnEnds THEN "up" ELSE process

UsesWebSockets == Used!Spec

(* Whatever is called when, a websocket that a goroutine works on is not     *)
(* closed under it, and the callbacks of one that has been closed have ended.*)
WebSocketsHold == WS!OpenWhileInUse /\ WS!QuietAfterClose

(* A websocket that its own reading goroutine closes (webrtc-stop and the    *)
(* close frame do) stays locked and open: nobody ever sends on it again.     *)
SelfClosedStaysDead == WS!SelfCloseStuck

(* A signalling websocket is given up before another takes its place.        *)
WsNotReplaced ==
    [][responseWs # Nil /\ responseWs' # responseWs => responseWs' = Nil]_vars

(* webrtc.go:43 says of the handler that calls WebRTC.Close when the state   *)
(* changes "close by peer": the session it ends is the one whose peer        *)
(* closed, and not another that was started since.                           *)
ClosedByPeer ==
    \A r \in Rtc : \A g \in {Lost(r), Closed(r)} :
        pc[g] = "wrtc_clear" => wrtc \in {r, Nil}

(* device.go:127 says of wrtcStop "webrt stop": after it has found a session, *)
(* that session comes to its end.                                            *)
StopStops ==
    \A w \in Ws, r \in Rtc :
        pc[w] = "wrtc_close" /\ wrtc = r ~> wrtc # r \/ process # "up"
=============================================================================
