----------------------------- MODULE SerialProofs -----------------------------
(***************************************************************************)
(* What Device promises when an event is delivered only after the one      *)
(* before it has been dealt with (Overlap = 0): nothing ends the process   *)
(* but what CrashesAreNamed lists, nothing leaks, and the fields of Device *)
(* keep to Session.tla and to Feed.tla.                                    *)
(***************************************************************************)
EXTENDS DeviceProofs, FiniteSetTheorems

(* What the lock and the wait group of a websocket say of its reading        *)
(* goroutine, whoever overlaps with whom; only that goroutine runs handle.   *)
LockInv ==
    /\ connection \in [Ws -> BOOLEAN] /\ cancel \in [Ws -> BOOLEAN]
    /\ \A g \in Goroutine \ Ws : pc[g] \notin WS!HandlePc \cup WS!ReadPc
    /\ \A w \in Ws :
          /\ pc[w] \notin {"idle"}
          /\ pc[w] \in WS!ReadPc \cup CallPc => reading[w]
          /\ pc[w] \notin {"fresh", "spawned", "ended"} => wg[w] = 1
    /\ \A g \in Goroutine : pc[g] = "close_conn" => ~ reading[target[g]]

(* The goroutines of pion, by what they report.                              *)
Losts == {"lost"} \X Rtc
Closeds == {"closed"} \X Rtc
Ices == {"ice"} \X Rtc

(* Stretches of device.go: the end of the signalling websocket, of what the  *)
(* session holds, and of the session; the handling of a message; wsStart.    *)
Teardown == {"ws_stop", "ws_close", "ws_clear"} \cup WS!ClosePc
Shut == {"close_check", "close_cancel", "close_wait", "ws_clear"}
Releasing == {"media_stop", "media_close", "media_clear", "hid_close",
              "wrtc_clear", "pc_close"}
Stopping == {"wrtc_stop", "wrtc_close", "wrtc_unset", "leave"}
Handling == {"wrtc_set", "pc_open", "media_start", "media_set", "track", "media_open",
             "use", "reply"}
Opening == {"hello", "assign"} \cup WS!SendPc

Resting == {"idle", "gone", "fresh", "reading", "ended"}
Serving == {"spawned", "select", "read_lock", "read_return", "read_error", "exit"}

(* What comes after a session has been given up: main leaves, and pion has   *)
(* the closing reported once more.                                           *)
Trails(g) ==
    \/ g \in Closeds /\ pc[g] \notin {"idle", "gone"}
    \/ g = Main /\ pc[g] \in {"wrtc_unset", "leave"}

(* It deals with an event. *)
Leads(g) == pc[g] \notin Resting \cup Serving /\ ~ Trails(g)

(* Whose the places are. *)
WhereInv ==
    \A g \in Goroutine :
        /\ pc[g] \in {"dial", "hello", "assign"} => g = Mqtt
        /\ pc[g] \in WS!SendPc => g \in {Mqtt} \cup Ices \cup Ws
        /\ pc[g] \in Teardown => g \notin Ices
        /\ pc[g] \in Teardown /\ g \in Ws =>
              pc[g] \in {"ws_stop", "ws_close", "close_deadline", "close_lock", "close_drain"}
        /\ pc[g] \in Releasing => g \in {Main} \cup Notified
        /\ pc[g] \in {"wrtc_stop", "wrtc_close"} => g \in {Main} \cup Ws
        /\ pc[g] \in {"wrtc_unset", "leave"} => g = Main
        /\ pc[g] \in {"callback"} \cup Handling => g \in Ws
        /\ pc[g] = "gone" => g \in Notified
        /\ pc[g] = "ice_send" => g \in Ices

(* Where a call returns to. *)
ReturnInv ==
    \A g \in Goroutine :
        /\ pc[g] \in WS!SendPc =>
              ret[g] = IF g = Mqtt THEN "assign" ELSE IF g \in Ws THEN "read_return" ELSE "idle"
        /\ pc[g] \in WS!ClosePc /\ g \notin Ws => ret[g] = "ws_clear"

(* One goroutine at a time deals with an event; when others come after it,   *)
(* nothing is left that they could give up a second time.                    *)
AloneInv == \A g, h \in Goroutine : Leads(g) /\ Leads(h) => g = h

TrailInv ==
    \A g \in Goroutine : Trails(g) =>
        /\ responseWs = Nil /\ wrtc = Nil /\ media = Nil /\ hid = "closed"
        /\ \A h \in Goroutine : ~ Leads(h)

(* While a session is given up no reading goroutine starts to read. *)
StillInv ==
    \A g \in Goroutine \ Ws :
        pc[g] \in Teardown \cup Releasing \cup Stopping =>
            \A w \in Ws : pc[w] \in {"fresh", "reading", "read_error", "exit", "ended"}

(* An open websocket is d.responseWs, or about to be, and it is the one whose *)
(* messages are handled; a websocket is read only while it is open.           *)
LinkInv ==
    /\ pc[Mqtt] \in {"dial"} \cup Opening => responseWs = Nil
    /\ pc[Mqtt] \in Opening => connection[target[Mqtt]]
    /\ \A w \in Ws : connection[w] =>
          /\ cancel[w]
          /\ responseWs = w \/ (pc[Mqtt] \in Opening /\ target[Mqtt] = w)
    /\ \A w \in Ws : pc[w] \notin {"fresh", "read_error", "exit", "ended"} => connection[w]
    /\ \A w \in Ws : pc[w] \notin Resting \cup Serving => responseWs = w
    /\ \A g \in Ices : pc[g] = "ice_send" => responseWs # Nil

(* d.responseWs is open until the goroutine that closes it has done so. *)
CloseInv ==
    /\ responseWs # Nil =>
          connection[responseWs] \/ \E g \in Goroutine : pc[g] \in Shut
    /\ \A g \in Goroutine :
          /\ pc[g] \in {"ws_close", "ws_clear"} \cup WS!ClosePc => responseWs # Nil
          /\ pc[g] \in {"ws_clear"} \cup WS!ClosePc => target[g] = responseWs
          /\ pc[g] \in Shut => ~ connection[responseWs]
          /\ pc[g] \in {"close_check", "close_cancel"} => cancel[responseWs]

(* What has been given up so far. *)
ReleaseInv ==
    \A g \in Goroutine :
        /\ pc[g] \in Releasing => responseWs = Nil
        /\ pc[g] = "media_close" => media # Nil
        /\ pc[g] = "media_clear" => running = {}
        /\ pc[g] \in {"hid_close", "wrtc_clear", "pc_close"} => media = Nil
        /\ pc[g] \in {"wrtc_clear", "pc_close"} => hid = "closed"
        /\ pc[g] = "pc_close" => wrtc = Nil

(* The session that a goroutine gives up is d.wrtc. *)
OwnerInv ==
    /\ \A g \in Notified : session[g] = g[2]
    /\ \A g \in Losts : pc[g] \notin {"idle", "gone", "pc_close"} => wrtc = session[g]
    /\ pc[Main] \in {"idle", "wrtc_stop", "wrtc_close"} => session[Main] = Nil
    /\ pc[Main] \in {"wrtc_clear", "pc_close"} => session[Main] # Nil
    /\ pc[Main] \in Teardown \cup (Releasing \ {"pc_close"}) => session[Main] \in {Nil, wrtc}
    /\ pc[Main] \in {"wrtc_stop", "wrtc_close"} =>
          responseWs = Nil /\ media = Nil /\ hid = "closed"
    /\ pc[Main] = "wrtc_close" => wrtc # Nil

(* What a message is handled with stays as the steps before have found it. *)
HandleInv ==
    \A w \in Ws :
        /\ pc[w] \in {"pc_open", "media_start", "media_set", "track", "media_open"} =>
              wrtc = session[w] /\ wrtc # Nil
        /\ pc[w] = "wrtc_set" => wrtc = Nil
        /\ pc[w] = "pc_open" => peer[wrtc] = "created"
        /\ pc[w] \in {"media_start", "media_set", "track", "media_open"} => peer[wrtc] = "open"
        /\ pc[w] = "media_set" => media = Nil /\ running = {} /\ mediaSource \in {1, 2}
        /\ pc[w] \in {"track", "media_open"} =>
              media = wrtc /\ running = {} /\ mediaSource \in {1, 2}
        /\ pc[w] \in {"use", "wrtc_close"} => wrtc # Nil

(* What Device holds, it holds for d.wrtc. *)
HoldInv ==
    /\ \A r \in Rtc : peer[r] = "open" =>
          \/ wrtc = r
          \/ pc[Lost(r)] = "pc_close"
          \/ pc[Main] = "pc_close" /\ session[Main] = r
    /\ media # Nil => wrtc = media /\ peer[media] = "open"
    /\ running \subseteq {media}
    /\ hid # "closed" => wrtc # Nil
    /\ wrtc # Nil => peer[wrtc] \in {"created", "open"}

SerialInv ==
    /\ WhereInv /\ ReturnInv /\ AloneInv /\ TrailInv /\ StillInv
    /\ LinkInv /\ CloseInv /\ ReleaseInv /\ OwnerInv /\ HandleInv /\ HoldInv

-----------------------------------------------------------------------------
(* The goroutines differ, and there are no others.                           *)
LEMMA Apart ==
    /\ Goroutine = {Mqtt, Main} \cup Losts \cup Closeds \cup Ices \cup Ws
    /\ Notified = Losts \cup Closeds
    /\ Mqtt # Main
    /\ {Mqtt, Main} \cap (Notified \cup Ices \cup Ws) = {}
    /\ Notified \cap Ices = {} /\ Notified \cap Ws = {} /\ Ices \cap Ws = {}
    /\ Losts \cap Closeds = {}
    /\ Nil \notin Ws \cup Rtc
    /\ \A r \in Rtc : Lost(r) \in Losts /\ Closed(r) \in Closeds /\ Ice(r) \in Ices
    /\ \A r : Lost(r)[2] = r /\ Closed(r)[2] = r
    /\ \A g \in Losts : g[2] \in Rtc /\ g = Lost(g[2])
    /\ \A g \in Closeds : g[2] \in Rtc /\ g = Closed(g[2])
    /\ \A g \in Ices : g[2] \in Rtc /\ g = Ice(g[2])
BY CallersAssumption, DeviceAssumption
DEF Mqtt, Main, Lost, Closed, Ice, Callers, Goroutine, WS!Goroutine, Notified, Names,
    Losts, Closeds, Ices

(* From WebSocketProofs, by way of the refinement.                           *)
LEMMA LockHolds == Spec => []LockInv
<1>1. Shown!Spec => []Shown!IInv
  BY Shown!Invariance, ShownAssumptions
<1>2. DevInv /\ Shown!IInv => LockInv
  <2> SUFFICES ASSUME DevInv, Shown!IInv PROVE LockInv
    OBVIOUS
  <2>1. /\ \A g \in Goroutine : pc[g] \in Methods \cup {"idle"} => Placed[g] = pc[g]
        /\ \A w \in Ws : Placed[w] \in {pc[w], "callback"}
    BY Places DEF Placed, Place
  <2>2. Goroutine = Callers \cup Ws /\ Callers \cap Ws = {}
    BY ShownAssumptions DEF Goroutine, WS!Goroutine
  <2>3. /\ \A g \in Goroutine \ Ws : Placed[g] \in {"idle"} \cup CallPc
        /\ \A w \in Ws : Placed[w] # "idle"
        /\ \A w \in Ws : Placed[w] \in WS!ReadPc \cup CallPc => reading[w]
        /\ \A w \in Ws : Placed[w] \notin {"fresh", "spawned", "ended"} => wg[w] = 1
        /\ \A g \in Goroutine : Placed[g] = "close_conn" => ~ reading[target[g]]
        /\ connection \in [Ws -> BOOLEAN] /\ cancel \in [Ws -> BOOLEAN]
    BY <2>2
       DEF Shown!IInv, Shown!Typed, Shown!TypeOK, Shown!ObjectTypeOK, Shown!CallInv,
           Shown!WgInv, Shown!Locked, Shown!ReadInv, Shown!AloneInv, Placed, Shown!CallPc, Shown!SendPc,
           Shown!ClosePc, Shown!ReadPc, Shown!Goroutine, CallPc, WS!SendPc, WS!ClosePc, WS!ReadPc
  <2> QED
    BY <2>1, <2>3, Places
       DEF LockInv, Methods, CallPc, WS!HandlePc, WS!ReadPc, WS!SendPc, WS!ClosePc
<1> QED
  BY <1>1, <1>2, Invariance, OneSpec, ImplementsWebSocket, PTL DEF UsesWebSockets

(* A step sets two goroutines going at most, so that those that are busy are *)
(* finitely many.                                                            *)
LEMMA TwoMove ==
    ASSUME Shape, OpenedInv, [Next]_vars
    PROVE  \E g, h \in Goroutine : \A k \in Goroutine \ {g, h} : pc'[k] = pc[k]
<1> USE DEF Shape
<1>1. CASE UNCHANGED vars
  BY <1>1, Places DEF vars
<1>2. ASSUME NEW g \in Goroutine, NEW label, pc' = [pc EXCEPT ![g] = label]
      PROVE  \A k \in Goroutine \ {g, g} : pc'[k] = pc[k]
  BY <1>2
<1>3. CASE Ends
  BY <1>3, Places DEF Ends
<1>4. ASSUME NEW g \in Goroutine, Move(g) PROVE \A k \in Goroutine \ {g, g} : pc'[k] = pc[k]
  BY <1>2, <1>4 DEF Move
<1>5. ASSUME NEW g \in Goroutine, PcClose(g)
      PROVE  \E h \in Goroutine : \A k \in Goroutine \ {g, h} : pc'[k] = pc[k]
  <2>1. CASE session[g] \in Rtc
    BY <1>5, <2>1, Places DEF PcClose
  <2>2. CASE session[g] = Nil
    BY <1>5, <2>2, Places DEF PcClose
  <2> QED
    BY <2>1, <2>2
<1>6. ASSUME NEW w \in Ws, Dial(w) PROVE \A k \in Goroutine \ {w, Mqtt} : pc'[k] = pc[k]
  BY <1>6, Places DEF Dial
<1>7. ASSUME NEW g \in Goroutine, NEW w \in Ws, Calls(g, w) \/ CloseFrame(w)
      PROVE  \E h \in Goroutine : \A k \in Goroutine \ {h, h} : pc'[k] = pc[k]
  BY <1>2, <1>7, Places
     DEF Calls, CloseFrame, WS!CallSend, WS!CallClose, WS!Call, WS!Goto
<1>8. ASSUME NEW g \in Goroutine, LibraryCall(g)
      PROVE  \A k \in Goroutine \ {g, g} : pc'[k] = pc[k]
  BY <1>2, <1>8, InsideSteps DEF Inside
<1>9. ASSUME NEW w \in Ws, Library(w) \/ Hear(w) \/ ServerGone(w)
      PROVE  \A k \in Goroutine \ {w, w} : pc'[k] = pc[k]
  BY <1>2, <1>9, ReadingSteps, Places DEF Reading
<1>10. ASSUME Hids PROVE pc' = pc
  BY <1>10 DEF Hids
<1> HIDE DEF Shape
<1> QED
  BY <1>1, <1>3, <1>4, <1>5, <1>6, <1>7, <1>8, <1>9, <1>10, Kinds, Places DEF Quietly

LEMMA BusyFinite == Spec => []IsFiniteSet(Busy)
<1>1. Init => IsFiniteSet(Busy)
  <2>1. Init => Busy = {}
    BY DEF Init, Busy
  <2> QED
    BY <2>1, FS_EmptySet
<1>2. DevInv /\ IsFiniteSet(Busy) /\ [Next]_vars => IsFiniteSet(Busy)'
  <2> SUFFICES ASSUME DevInv, IsFiniteSet(Busy), [Next]_vars PROVE IsFiniteSet(Busy')
    OBVIOUS
  <2>1. PICK g \in Goroutine, h \in Goroutine : \A k \in Goroutine \ {g, h} : pc'[k] = pc[k]
    BY TwoMove DEF DevInv
  <2>2. Busy' \subseteq (Busy \cup {g}) \cup {h}
    BY <2>1 DEF Busy
  <2>3. IsFiniteSet((Busy \cup {g}) \cup {h})
    BY FS_AddElement
  <2> QED
    BY <2>2, <2>3, FS_Subset
<1> QED
  BY <1>1, <1>2, Invariance, PTL DEF Spec

(* With Overlap = 0 an event finds everybody at rest.                        *)
LEMMA Alone ==
    ASSUME IsFiniteSet(Busy), LockInv, WhereInv, Overlap = 0, Deliver
    PROVE  /\ \A g \in Goroutine : pc[g] \in Resting
           /\ \A g \in Goroutine \ Ws : pc[g] \in {"idle", "gone"}
           /\ \A w \in Ws : pc[w] \in {"fresh", "reading", "ended"}
           /\ \A g \in Goroutine : ~ Leads(g) /\ ~ Trails(g)
<1>1. Cardinality(Busy) \in Nat
  BY FS_CardinalityType
<1>2. Busy = {}
  BY <1>1, FS_EmptySet DEF Deliver
<1>3. \A g \in Goroutine : pc[g] \in Resting
  BY <1>2 DEF Deliver, Busy, Resting
<1>4. /\ \A g \in Goroutine \ Ws : pc[g] \in {"idle", "gone"}
      /\ \A w \in Ws : pc[w] \in {"fresh", "reading", "ended"}
  BY <1>3, Apart DEF Resting, LockInv, WhereInv, WS!HandlePc, WS!ReadPc
<1> QED
  BY <1>3, <1>4, Apart DEF Leads, Trails

-----------------------------------------------------------------------------
(* What a step does to the places of the goroutines.                         *)

LEMMA ReaderMoves ==
    ASSUME Shape, NEW w \in Ws, Library(w)
    PROVE  /\ UNCHANGED <<fields, senders, target, ret, cancel, connection>>
           /\ \/ UNCHANGED pc
              \/ /\ pc[w] \in {"spawned", "select", "read_lock", "read_return"}
                 /\ \E label \in {"select", "read_lock", "reading", "exit"} :
                       pc' = [pc EXCEPT ![w] = label]
              \/ /\ pc[w] \in {"reading", "read_error", "exit"}
                 /\ \E label \in {"read_error", "exit", "ended"} :
                       pc' = [pc EXCEPT ![w] = label]
BY DEF Shape, Library, WS!HandlerStep, WS!HandleStart, WS!HandleSelect, WS!ReadLock,
       WS!ReadNil, WS!ReadTimeout, WS!ReadFail, WS!ReadReturn, WS!HandleExit,
       WS!At, WS!Goto, WS!Panic, WS!object, WS!lock

(* How a call that is going on takes its goroutine to a label.               *)
CallMove(g, label) ==
    /\ pc' = [pc EXCEPT ![g] = label]
    /\ connection' = IF pc[g] = "close_conn" THEN [connection EXCEPT ![target[g]] = FALSE]
                                             ELSE connection
    /\ cancel' = IF pc[g] = "close_cancel" THEN [cancel EXCEPT ![target[g]] = FALSE]
                                           ELSE cancel
    /\ \/ /\ pc[g] \in WS!SendPc
          /\ \/ label \in WS!SendPc
             \/ g = Mqtt /\ label = "assign"
             \/ g \in Ws /\ label = "read_return"
             \/ g \in Ices /\ label = "idle"
       \/ /\ pc[g] \in {"close_deadline", "close_lock", "close_drain"}
          /\ label \in {"close_lock", "close_drain"} \/ (g \notin Ws /\ label = "close_conn")
       \/ pc[g] = "close_conn" /\ g \notin Ws /\ label = "close_check"
       \/ pc[g] = "close_check" /\ g \notin Ws /\ label \in {"close_cancel", "close_wait"}
       \/ pc[g] = "close_cancel" /\ g \notin Ws /\ label = "close_wait"
       \/ pc[g] = "close_wait" /\ g \notin Ws /\ label = "ws_clear"

LEMMA CallMoves ==
    ASSUME DevInv, LockInv, SerialInv, NEW g \in Goroutine, LibraryCall(g)
    PROVE  /\ UNCHANGED <<fields, target, ret>>
           /\ UNCHANGED <<pc, connection, cancel>> \/ \E label \in Labels : CallMove(g, label)
<1> USE DEF SerialInv
<1>1. g \in Ws /\ pc[g] \in WS!ClosePc =>
         reading[target[g]] /\ pc[g] \in {"close_deadline", "close_lock", "close_drain"}
  BY Places
     DEF LockInv, WhereInv, LinkInv, CloseInv, CallPc, Teardown, Serving, Resting, WS!ReadPc,
         WS!SendPc, WS!ClosePc
<1>2. pc[g] \in WS!ClosePc /\ g \notin Ws => ret[g] = "ws_clear"
  BY DEF ReturnInv, WS!ClosePc, WS!SendPc
<1>3. pc[g] \in WS!SendPc =>
          \/ g = Mqtt /\ ret[g] = "assign"
          \/ g \in Ws /\ ret[g] = "read_return"
          \/ g \in Ices /\ ret[g] = "idle"
  BY Apart DEF WhereInv, ReturnInv
<1>4. WS!SendPc \cup WS!ClosePc \cup {"assign", "read_return", "idle", "ws_clear"} \subseteq Labels
  BY DEF Labels, Methods, OwnPc, WS!ReadPc
<1>5. UNCHANGED <<fields, target, ret>>
  BY DEF LibraryCall, WS!CallStep, WS!SendLock, WS!SendNil, WS!SendBegin, WS!SendCollide,
         WS!SendWrite, WS!CloseDeadline, WS!CloseNil, WS!CloseLock, WS!CloseDrain,
         WS!CloseConnection, WS!CloseCheckCancel, WS!CloseCancel, WS!CloseCancelNil,
         WS!CloseWait, WS!Panic
<1> USE DEF LibraryCall, WS!At, WS!Goto, WS!Panic, WS!object, WS!lock, WS!SendPc,
        WS!ClosePc, CallMove
<1>6. ASSUME WS!SendLock(g) \/ WS!SendBegin(g)
      PROVE  CallMove(g, "send_check") \/ CallMove(g, "send_write")
  BY <1>6 DEF WS!SendLock, WS!SendBegin
<1>7. ASSUME WS!SendNil(g) \/ WS!SendWrite(g) PROVE CallMove(g, ret[g])
  BY <1>3, <1>7 DEF WS!SendNil, WS!SendWrite
<1>8. ASSUME WS!SendCollide(g) \/ WS!CloseNil(g) \/ WS!CloseCancelNil(g)
      PROVE  UNCHANGED <<pc, connection, cancel>>
  BY <1>8 DEF WS!SendCollide, WS!CloseNil, WS!CloseCancelNil
<1>9. ASSUME WS!CloseDeadline(g) \/ WS!CloseLock(g)
      PROVE  CallMove(g, "close_lock") \/ CallMove(g, "close_drain")
  BY <1>9 DEF WS!CloseDeadline, WS!CloseLock
<1>10. ASSUME WS!CloseDrain(g) PROVE CallMove(g, "close_conn")
  BY <1>1, <1>10 DEF WS!CloseDrain
<1>11. ASSUME WS!CloseConnection(g) PROVE CallMove(g, "close_check")
  BY <1>1, <1>11 DEF WS!CloseConnection
<1>12. ASSUME WS!CloseCheckCancel(g)
       PROVE  CallMove(g, "close_cancel") \/ CallMove(g, "close_wait")
  BY <1>1, <1>12 DEF WS!CloseCheckCancel
<1>13. ASSUME WS!CloseCancel(g) PROVE CallMove(g, "close_wait")
  BY <1>1, <1>13 DEF WS!CloseCancel
<1>14. ASSUME WS!CloseWait(g) PROVE CallMove(g, "ws_clear")
  BY <1>1, <1>2, <1>14 DEF WS!CloseWait
<1> HIDE DEF CallMove
<1>15. ret[g] \in Labels \/ ~ (WS!SendNil(g) \/ WS!SendWrite(g))
  BY <1>3, <1>4 DEF WS!SendNil, WS!SendWrite
<1> QED
  BY <1>4, <1>5, <1>6, <1>7, <1>8, <1>9, <1>10, <1>11, <1>12, <1>13, <1>14, <1>15
     DEF WS!CallStep

(* A nil pointer ends the process; otherwise the pointer was there. *)
LEMMA Proceeds ==
    /\ \A g \in Goroutine : WsStopClose(g) => Ends \/
          /\ At(g, "ws_close") /\ responseWs # Nil
          /\ WS!CallClose(g, responseWs, "ws_clear") /\ UNCHANGED fields
    /\ \A g \in Goroutine : MediaStopClose(g) => Ends \/
          /\ At(g, "media_close") /\ media # Nil
          /\ running' = running \ {media} /\ Local(g, "media_clear")
          /\ UNCHANGED <<mediaSource, responseWs, wrtc, peer, media, hid, session>>
    /\ \A g \in Goroutine : WrtcStopClose(g) => Ends \/
          /\ At(g, "wrtc_close") /\ wrtc # Nil
          /\ session' = [session EXCEPT ![g] = wrtc] /\ Local(g, "ws_stop")
          /\ UNCHANGED <<mediaSource, responseWs, wrtc, peer, media, running, hid>>
    /\ \A w \in Ws : AddTrack(w) => Ends \/
          /\ At(w, "track") /\ Usable /\ Local(w, "media_open") /\ UNCHANGED fields
    /\ \A w \in Ws : MediaOpen(w) => Ends \/
          /\ At(w, "media_open") /\ media # Nil /\ mediaSource = 1
          /\ running' \in {running, running \cup {media}} /\ Local(w, "reply")
          /\ UNCHANGED <<mediaSource, responseWs, wrtc, peer, media, hid, session>>
    /\ \A w \in Ws : UsePeer(w) => Ends \/
          /\ At(w, "use") /\ Usable /\ Local(w, "reply") /\ UNCHANGED fields
    /\ \A r \in Rtc : SendCandidate(r) => Ends \/
          /\ At(Ice(r), "ice_send") /\ responseWs # Nil
          /\ WS!CallSend(Ice(r), responseWs, "idle") /\ UNCHANGED fields
<1>1. \A why \in OwnEnds : process = "up" /\ Panic(why) => Ends
  BY DEF Panic, WS!Panic, Ends, objects, WS!object, WS!lock
<1>2. /\ process = "up" /\ Panic("nil websocket") => Ends
      /\ process = "up" /\ Panic("nil webrtc") => Ends
      /\ process = "up" /\ Panic("nil media") => Ends
      /\ process = "up" /\ Panic("stack overflow") => Ends
      /\ process = "up" /\ Panic("nil payload") => Ends
  BY <1>1 DEF OwnEnds
<1> QED
  BY <1>2
     DEF WsStopClose, MediaStopClose, WrtcStopClose, AddTrack, MediaOpen, UsePeer,
         SendCandidate, At, WS!At

(* While a goroutine deals with an event, or comes after it, the others rest *)
(* or come after it.                                                         *)
LEMMA Others ==
    ASSUME LockInv, WhereInv, AloneInv, TrailInv,
           NEW g \in Goroutine, pc[g] \notin Resting \cup Serving
    PROVE  /\ \A w \in Ws \ {g} : pc[w] \in Resting \cup Serving
           /\ \A h \in ({Mqtt} \cup Losts \cup Ices) \ {g} : pc[h] \in {"idle", "gone"}
           /\ Main # g => pc[Main] \in {"idle", "wrtc_unset", "leave"}
           /\ \/ g \notin {Main} \cup Closeds
              \/ responseWs # Nil \/ wrtc # Nil \/ media # Nil
              => /\ \A h \in Closeds \ {g} : pc[h] \in {"idle", "gone"}
                 /\ Main # g => pc[Main] = "idle"
                 /\ \A h \in Goroutine \ {g} : pc[h] \in Resting \cup Serving
<1>1. \A h \in Goroutine \ {g} : ~ Leads(h)
  <2>1. CASE Leads(g)
    BY <2>1 DEF AloneInv
  <2>2. CASE Trails(g)
    BY <2>2 DEF TrailInv
  <2> QED
    BY <2>1, <2>2 DEF Leads
<1>2. \A h \in Goroutine \ Ws : pc[h] \in Resting \cup Serving => pc[h] \in {"idle", "gone"}
  BY DEF LockInv, Resting, Serving, WS!HandlePc, WS!ReadPc
<1>3. \A w \in Ws \ {g} : pc[w] \in Resting \cup Serving
  BY <1>1, Apart DEF Leads, Trails
<1>4. \A h \in ({Mqtt} \cup Losts \cup Ices) \ {g} : pc[h] \in {"idle", "gone"}
  BY <1>1, <1>2, Apart DEF Leads, Trails
<1>5. Main # g => pc[Main] \in {"idle", "wrtc_unset", "leave"}
  BY <1>1, <1>2, Apart DEF Leads, Trails, WhereInv
<1>6. ASSUME \/ g \notin {Main} \cup Closeds
             \/ responseWs # Nil \/ wrtc # Nil \/ media # Nil
      PROVE  /\ \A h \in Closeds \ {g} : pc[h] \in {"idle", "gone"}
             /\ Main # g => pc[Main] = "idle"
             /\ \A h \in Goroutine \ {g} : pc[h] \in Resting \cup Serving
  <2>1. Leads(g)
    BY <1>6 DEF Leads, Trails, TrailInv
  <2>2. \A h \in Goroutine : ~ Trails(h)
    BY <2>1 DEF TrailInv
  <2>3. \A h \in Goroutine \ {g} : pc[h] \in Resting \cup Serving
    BY <1>1, <2>2 DEF Leads
  <2> QED
    BY <1>5, <2>2, <2>3, Apart DEF Trails
<1> QED
  BY <1>3, <1>4, <1>5, <1>6

LEMMA Steps ==
    ASSUME Shape, [Next]_vars
    PROVE  \/ Ends \/ UNCHANGED vars
           \/ RequestStart \/ RequestStop \/ Close \/ DialFails \/ SendHello \/ AssignResponseWs
           \/ \E g \in Goroutine :
                 \/ LibraryCall(g) \/ WsStop(g) \/ WsStopClose(g) \/ WsStopClear(g)
                 \/ MediaStop(g) \/ MediaStopClose(g) \/ MediaStopClear(g) \/ HidClose(g)
                 \/ WrtcClear(g) \/ PcClose(g) \/ WrtcStop(g) \/ WrtcStopClose(g)
                 \/ WrtcStopClear(g)
           \/ \E w \in Ws :
                 \/ Library(w) \/ Reply(w) \/ WrtcCheck(w) \/ WrtcStart(w) \/ PcOpen(w)
                 \/ MediaCheck(w) \/ MediaStart(w)
                 \/ AddTrack(w) \/ MediaOpen(w) \/ UseCheck(w) \/ UsePeer(w)
                 \/ OtherMessage(w) \/ Dial(w) \/ Hear(w) \/ CloseFrame(w) \/ ServerGone(w)
           \/ \E r \in Rtc : PeerLost(r) \/ Candidate(r) \/ DataChannel(r) \/ SendCandidate(r)
           \/ Hids /\ hid # "closed"
<1>1. Frame \/ Exit \/ RefreshPanics => Ends
  BY EndingSteps
<1>6. HostTakes \/ HostSleeps \/ (\E r \in Rtc : HidWrite(r)) => Hids /\ hid # "closed"
  BY HidSteps DEF HostTakes, HostSleeps, HidWrite
<1>2. CASE Event
  BY <1>1, <1>2, <1>6 DEF Event
<1>3. CASE MqttStep \/ MainStep
  BY <1>1, <1>3, Places DEF MqttStep, MainStep, TeardownStep
<1>4. ASSUME NEW w \in Ws, HandlerStep(w)
      PROVE  \/ \E g \in Goroutine :
                   \/ LibraryCall(g) \/ WsStop(g) \/ WsStopClose(g) \/ WsStopClear(g)
                   \/ MediaStop(g) \/ MediaStopClose(g) \/ MediaStopClear(g) \/ HidClose(g)
                   \/ WrtcClear(g) \/ PcClose(g) \/ WrtcStop(g) \/ WrtcStopClose(g)
                   \/ WrtcStopClear(g)
             \/ \/ Library(w) \/ Reply(w) \/ WrtcCheck(w) \/ WrtcStart(w) \/ PcOpen(w)
                 \/ MediaCheck(w) \/ MediaStart(w)
                \/ AddTrack(w) \/ MediaOpen(w) \/ UseCheck(w) \/ UsePeer(w) \/ OtherMessage(w)
  BY <1>4, Places DEF HandlerStep, TeardownStep
<1>5. ASSUME NEW r \in Rtc, PionStep(r)
      PROVE  \/ \E g \in Goroutine : LibraryCall(g) \/ TeardownStep(g)
             \/ SendCandidate(r)
  BY <1>5, Places DEF PionStep
<1> QED
  BY <1>2, <1>3, <1>4, <1>5, <1>6 DEF Next, TeardownStep

-----------------------------------------------------------------------------
(* Every step keeps every part of the invariant.                             *)

(* Each place is reached from the one before it in device.go only.          *)
LEMMA WhereStep ==
    ASSUME DevInv, LockInv, IsFiniteSet(Busy), Overlap = 0, SerialInv, [Next]_vars
    PROVE  WhereInv'
<1>0. Shape /\ WhereInv /\ LinkInv
  BY DEF DevInv, SerialInv
<1> USE <1>0, Apart DEF Shape, WhereInv, LinkInv, Local, At, WS!At, Goto, WS!Goto,
    WS!CallSend, WS!CallClose, WS!Call, WS!ReadText, WS!ReadFail, WS!OpenWs, fields,
    objects, wsvars, WS!object, WS!lock, Teardown, Releasing, Stopping, Handling,
    Resting, Opening, Serving, Shut, WS!SendPc, WS!ClosePc
<1>1. ASSUME NEW g \in Goroutine,
             \/ WsStop(g) \/ WsStopClear(g) \/ MediaStop(g) \/ MediaStopClear(g)
      PROVE  WhereInv'
  BY <1>1 DEF WsStop, WsStopClear, MediaStop, MediaStopClear
<1>2. ASSUME NEW g \in Goroutine,
             \/ HidClose(g) \/ WrtcClear(g) \/ WrtcStop(g) \/ WrtcStopClear(g)
      PROVE  WhereInv'
  BY <1>2 DEF HidClose, WrtcClear, WrtcStop, WrtcStopClear
<1>3. ASSUME NEW g \in Goroutine, PcClose(g) PROVE WhereInv'
  BY <1>3 DEF PcClose
<1>4. ASSUME NEW g \in Goroutine,
             \/ WsStopClose(g) \/ MediaStopClose(g) \/ WrtcStopClose(g), ~ Ends
      PROVE  WhereInv'
  BY <1>4, Proceeds
<1>5. ASSUME NEW w \in Ws,
             \/ Reply(w) \/ WrtcCheck(w) \/ WrtcStart(w) \/ PcOpen(w)
             \/ MediaCheck(w) \/ MediaStart(w) \/ UseCheck(w) \/ OtherMessage(w)
      PROVE  WhereInv'
  BY <1>5 DEF Reply, WrtcCheck, WrtcStart, PcOpen, MediaCheck, MediaStart, UseCheck,
         OtherMessage
<1>6. ASSUME NEW w \in Ws,
             \/ AddTrack(w) \/ MediaOpen(w) \/ UsePeer(w), ~ Ends
      PROVE  WhereInv'
  BY <1>6, Proceeds
<1>7. ASSUME DialFails \/ SendHello \/ AssignResponseWs PROVE WhereInv'
  BY <1>7 DEF DialFails, SendHello, AssignResponseWs
<1>8. ASSUME NEW w \in Ws, Dial(w) PROVE WhereInv'
  BY <1>8 DEF Dial
<1>9. ASSUME RequestStart \/ RequestStop \/ Close PROVE WhereInv'
  BY <1>9, Alone DEF RequestStart, RequestStop, Close
<1>10. ASSUME NEW w \in Ws,
              \/ Hear(w) \/ CloseFrame(w) \/ ServerGone(w)
       PROVE  WhereInv'
  BY <1>10, Alone DEF Hear, CloseFrame, ServerGone
<1>11. ASSUME NEW r \in Rtc,
              \/ PeerLost(r) \/ Candidate(r) \/ DataChannel(r)
       PROVE  WhereInv'
  BY <1>11, Alone DEF PeerLost, Candidate, DataChannel, HidIs
<1>12. ASSUME NEW r \in Rtc, SendCandidate(r), ~ Ends PROVE WhereInv'
  BY <1>12, Proceeds
<1>13. ASSUME NEW g \in Goroutine, LibraryCall(g) PROVE WhereInv'
  <2>0. UNCHANGED <<fields, target, ret>>
    BY <1>13, CallMoves
  <2>1. CASE UNCHANGED <<pc, connection, cancel>>
    BY <2>0, <2>1
  <2>2. ASSUME NEW label, CallMove(g, label) PROVE WhereInv'
    BY <2>0, <2>2 DEF CallMove
  <2> HIDE DEF WhereInv, LinkInv
  <2> QED
    BY <1>13, <2>1, <2>2, CallMoves
<1>14. ASSUME NEW w \in Ws, Library(w) PROVE WhereInv'
  BY <1>14, ReaderMoves
<1>15. ASSUME Ends \/ UNCHANGED vars PROVE WhereInv'
  BY <1>15 DEF Ends, vars
<1>16. ASSUME Hids, hid # "closed" PROVE WhereInv'
  BY <1>16 DEF Hids
<1> HIDE DEF WhereInv
<1> QED
  BY <1>1, <1>2, <1>3, <1>4, <1>5, <1>6, <1>7, <1>8, <1>9, <1>10, <1>11, <1>12, <1>13,
      <1>14, <1>15, <1>16, Steps

(* A call returns to where its caller was when it made it.                  *)
LEMMA ReturnStep ==
    ASSUME DevInv, LockInv, IsFiniteSet(Busy), Overlap = 0, SerialInv, [Next]_vars
    PROVE  ReturnInv'
<1>0. Shape /\ ReturnInv /\ WhereInv
  BY DEF DevInv, SerialInv
<1> USE <1>0, Apart DEF Shape, ReturnInv, WhereInv, Local, At, WS!At, Goto, WS!Goto,
    WS!CallSend, WS!CallClose, WS!Call, WS!ReadText, WS!ReadFail, WS!OpenWs, fields,
    objects, wsvars, WS!object, WS!lock, Teardown, Releasing, Stopping, Handling,
    Resting, Opening, Serving, Shut, WS!SendPc, WS!ClosePc
<1>1. ASSUME NEW g \in Goroutine,
             \/ WsStop(g) \/ WsStopClear(g) \/ MediaStop(g) \/ MediaStopClear(g)
      PROVE  ReturnInv'
  BY <1>1 DEF WsStop, WsStopClear, MediaStop, MediaStopClear
<1>2. ASSUME NEW g \in Goroutine,
             \/ HidClose(g) \/ WrtcClear(g) \/ WrtcStop(g) \/ WrtcStopClear(g)
      PROVE  ReturnInv'
  BY <1>2 DEF HidClose, WrtcClear, WrtcStop, WrtcStopClear
<1>3. ASSUME NEW g \in Goroutine, PcClose(g) PROVE ReturnInv'
  BY <1>3 DEF PcClose
<1>4. ASSUME NEW g \in Goroutine,
             \/ WsStopClose(g) \/ MediaStopClose(g) \/ WrtcStopClose(g), ~ Ends
      PROVE  ReturnInv'
  BY <1>4, Proceeds
<1>5. ASSUME NEW w \in Ws,
             \/ Reply(w) \/ WrtcCheck(w) \/ WrtcStart(w) \/ PcOpen(w)
             \/ MediaCheck(w) \/ MediaStart(w) \/ UseCheck(w) \/ OtherMessage(w)
      PROVE  ReturnInv'
  BY <1>5 DEF Reply, WrtcCheck, WrtcStart, PcOpen, MediaCheck, MediaStart, UseCheck,
         OtherMessage
<1>6. ASSUME NEW w \in Ws,
             \/ AddTrack(w) \/ MediaOpen(w) \/ UsePeer(w), ~ Ends
      PROVE  ReturnInv'
  BY <1>6, Proceeds
<1>7. ASSUME DialFails \/ SendHello \/ AssignResponseWs PROVE ReturnInv'
  BY <1>7 DEF DialFails, SendHello, AssignResponseWs
<1>8. ASSUME NEW w \in Ws, Dial(w) PROVE ReturnInv'
  BY <1>8 DEF Dial
<1>9. ASSUME RequestStart \/ RequestStop \/ Close PROVE ReturnInv'
  BY <1>9, Alone DEF RequestStart, RequestStop, Close
<1>10. ASSUME NEW w \in Ws,
              \/ Hear(w) \/ CloseFrame(w) \/ ServerGone(w)
       PROVE  ReturnInv'
  BY <1>10, Alone DEF Hear, CloseFrame, ServerGone
<1>11. ASSUME NEW r \in Rtc,
              \/ PeerLost(r) \/ Candidate(r) \/ DataChannel(r)
       PROVE  ReturnInv'
  BY <1>11, Alone DEF PeerLost, Candidate, DataChannel, HidIs
<1>12. ASSUME NEW r \in Rtc, SendCandidate(r), ~ Ends PROVE ReturnInv'
  <2>1. /\ pc' = [pc EXCEPT ![Ice(r)] = "send_lock"] /\ ret' = [ret EXCEPT ![Ice(r)] = "idle"]
        /\ Ice(r) \in Goroutine \ ({Mqtt} \cup Ws)
    BY <1>12, Proceeds
  <2> QED
    BY <2>1
<1>13. ASSUME NEW g \in Goroutine, LibraryCall(g) PROVE ReturnInv'
  <2>0. UNCHANGED <<fields, target, ret>>
    BY <1>13, CallMoves
  <2>1. CASE UNCHANGED <<pc, connection, cancel>>
    BY <2>0, <2>1
  <2>2. ASSUME NEW label, CallMove(g, label) PROVE ReturnInv'
    BY <2>0, <2>2 DEF CallMove
  <2> HIDE DEF ReturnInv, WhereInv
  <2> QED
    BY <1>13, <2>1, <2>2, CallMoves
<1>14. ASSUME NEW w \in Ws, Library(w) PROVE ReturnInv'
  BY <1>14, ReaderMoves
<1>15. ASSUME Ends \/ UNCHANGED vars PROVE ReturnInv'
  BY <1>15 DEF Ends, vars
<1>16. ASSUME Hids, hid # "closed" PROVE ReturnInv'
  BY <1>16 DEF Hids
<1> HIDE DEF ReturnInv
<1> QED
  BY <1>1, <1>2, <1>3, <1>4, <1>5, <1>6, <1>7, <1>8, <1>9, <1>10, <1>11, <1>12, <1>13,
      <1>14, <1>15, <1>16, Steps

(* An event is delivered to one goroutine, when all are at rest; a step of  *)
(* a goroutine that deals with one sets no other going, but for pion.       *)
LEMMA AloneStep ==
    ASSUME DevInv, LockInv, IsFiniteSet(Busy), Overlap = 0, SerialInv, [Next]_vars
    PROVE  AloneInv'
<1>0. Shape /\ AloneInv /\ TrailInv /\ WhereInv /\ OnceInv
  BY DEF DevInv, SerialInv
<1> USE <1>0, Apart DEF Shape, AloneInv, TrailInv, WhereInv, Leads, Trails, Local, At,
    WS!At, Goto, WS!Goto, WS!CallSend, WS!CallClose, WS!Call, WS!ReadText,
    WS!ReadFail, WS!OpenWs, fields, objects, wsvars, WS!object, WS!lock, Teardown,
    Releasing, Stopping, Handling, Resting, Opening, Serving, Shut, WS!SendPc,
    WS!ClosePc
<1>1. ASSUME NEW g \in Goroutine,
             \/ WsStop(g) \/ WsStopClear(g) \/ MediaStop(g) \/ MediaStopClear(g)
      PROVE  AloneInv'
  BY <1>1 DEF WsStop, WsStopClear, MediaStop, MediaStopClear
<1>2. ASSUME NEW g \in Goroutine,
             \/ HidClose(g) \/ WrtcClear(g) \/ WrtcStop(g) \/ WrtcStopClear(g)
      PROVE  AloneInv'
  BY <1>2 DEF HidClose, WrtcClear, WrtcStop, WrtcStopClear
<1>3. ASSUME NEW g \in Goroutine, PcClose(g) PROVE AloneInv'
  BY <1>3 DEF PcClose, OnceInv
<1>4. ASSUME NEW g \in Goroutine,
             \/ WsStopClose(g) \/ MediaStopClose(g) \/ WrtcStopClose(g), ~ Ends
      PROVE  AloneInv'
  BY <1>4, Proceeds
<1>5. ASSUME NEW w \in Ws,
             \/ Reply(w) \/ WrtcCheck(w) \/ WrtcStart(w) \/ PcOpen(w)
             \/ MediaCheck(w) \/ MediaStart(w) \/ UseCheck(w) \/ OtherMessage(w)
      PROVE  AloneInv'
  BY <1>5 DEF Reply, WrtcCheck, WrtcStart, PcOpen, MediaCheck, MediaStart, UseCheck,
         OtherMessage
<1>6. ASSUME NEW w \in Ws,
             \/ AddTrack(w) \/ MediaOpen(w) \/ UsePeer(w), ~ Ends
      PROVE  AloneInv'
  BY <1>6, Proceeds
<1>7. ASSUME DialFails \/ SendHello \/ AssignResponseWs PROVE AloneInv'
  BY <1>7 DEF DialFails, SendHello, AssignResponseWs
<1>8. ASSUME NEW w \in Ws, Dial(w) PROVE AloneInv'
  BY <1>8 DEF Dial
<1>9. ASSUME RequestStart \/ RequestStop \/ Close PROVE AloneInv'
  BY <1>9, Alone DEF RequestStart, RequestStop, Close
<1>10. ASSUME NEW w \in Ws,
              \/ Hear(w) \/ CloseFrame(w) \/ ServerGone(w)
       PROVE  AloneInv'
  BY <1>10, Alone DEF Hear, CloseFrame, ServerGone
<1>11. ASSUME NEW r \in Rtc,
              \/ PeerLost(r) \/ Candidate(r) \/ DataChannel(r)
       PROVE  AloneInv'
  BY <1>11, Alone DEF PeerLost, Candidate, DataChannel, HidIs
<1>12. ASSUME NEW r \in Rtc, SendCandidate(r), ~ Ends PROVE AloneInv'
  BY <1>12, Proceeds
<1>13. ASSUME NEW g \in Goroutine, LibraryCall(g) PROVE AloneInv'
  <2>0. UNCHANGED <<fields, target, ret>>
    BY <1>13, CallMoves
  <2>1. CASE UNCHANGED <<pc, connection, cancel>>
    BY <2>0, <2>1
  <2>2. ASSUME NEW label, CallMove(g, label) PROVE AloneInv'
    BY <2>0, <2>2 DEF CallMove
  <2> HIDE DEF AloneInv, TrailInv, WhereInv, Leads, Trails
  <2> QED
    BY <1>13, <2>1, <2>2, CallMoves
<1>14. ASSUME NEW w \in Ws, Library(w) PROVE AloneInv'
  BY <1>14, ReaderMoves
<1>15. ASSUME Ends \/ UNCHANGED vars PROVE AloneInv'
  BY <1>15 DEF Ends, vars
<1>16. ASSUME Hids, hid # "closed" PROVE AloneInv'
  BY <1>16 DEF Hids
<1> HIDE DEF AloneInv
<1> QED
  BY <1>1, <1>2, <1>3, <1>4, <1>5, <1>6, <1>7, <1>8, <1>9, <1>10, <1>11, <1>12, <1>13,
      <1>14, <1>15, <1>16, Steps

(* OnClose clears all of the fields before pc.Close; Device.Close the same  *)
(* before wrtcStop finds nothing.                                           *)
LEMMA TrailStep ==
    ASSUME DevInv, LockInv, IsFiniteSet(Busy), Overlap = 0, SerialInv, [Next]_vars
    PROVE  TrailInv'
<1>0. Shape /\ TrailInv /\ AloneInv /\ WhereInv /\ ReleaseInv /\ OwnerInv /\ CloseInv
  BY DEF DevInv, SerialInv
<1>g. ASSUME NEW g \in Goroutine \ ({Main} \cup Closeds), pc[g] \notin Resting \cup Serving,
             \A h \in Goroutine \ {g} : pc'[h] = pc[h]
      PROVE  TrailInv'
  <2>1. \A h \in Goroutine : ~ Trails(h)
    BY <1>0, <1>g DEF TrailInv, Leads, Trails
  <2>2. \A h \in Goroutine : ~ Trails(h)'
    BY <1>g, <2>1, Apart DEF Trails
  <2> QED
    BY <2>2 DEF TrailInv
<1> USE <1>0, Apart DEF Shape, TrailInv, AloneInv, WhereInv, Leads, Trails, Local, At,
    WS!At, Goto, WS!Goto, WS!CallSend, WS!CallClose, WS!Call, WS!ReadText,
    WS!ReadFail, WS!OpenWs, fields, objects, wsvars, WS!object, WS!lock, Teardown,
    Releasing, Stopping, Handling, Resting, Opening, Serving, Shut, WS!SendPc,
    WS!ClosePc
<1>1. ASSUME NEW g \in Goroutine, WsStop(g) PROVE TrailInv'
  BY <1>1 DEF WsStop
<1>2. ASSUME NEW g \in Goroutine, WsStopClear(g) PROVE TrailInv'
  BY <1>2 DEF WsStopClear
<1>3. ASSUME NEW g \in Goroutine, MediaStop(g) \/ MediaStopClear(g) PROVE TrailInv'
  BY <1>3 DEF MediaStop, MediaStopClear
<1>4. ASSUME NEW g \in Goroutine, WrtcStop(g) PROVE TrailInv'
  BY <1>4 DEF WrtcStop, OwnerInv
<1>5. ASSUME NEW g \in Goroutine,
             \/ HidClose(g) \/ WrtcClear(g) \/ WrtcStopClear(g)
      PROVE  TrailInv'
  BY <1>5 DEF HidClose, WrtcClear, WrtcStopClear
<1>6. ASSUME NEW g \in Goroutine, PcClose(g) PROVE TrailInv'
  BY <1>6 DEF PcClose, ReleaseInv, OwnerInv
<1>7. ASSUME NEW g \in Goroutine, WsStopClose(g), ~ Ends PROVE TrailInv'
  BY <1>7, Proceeds
<1>8. ASSUME NEW g \in Goroutine, MediaStopClose(g), ~ Ends PROVE TrailInv'
  BY <1>8, Proceeds
<1>9. ASSUME NEW g \in Goroutine, WrtcStopClose(g), ~ Ends PROVE TrailInv'
  BY <1>9, Proceeds
<1>10. ASSUME NEW w \in Ws,
              \/ Reply(w) \/ WrtcCheck(w) \/ WrtcStart(w) \/ PcOpen(w)
              \/ MediaCheck(w) \/ MediaStart(w) \/ UseCheck(w) \/ OtherMessage(w)
       PROVE  TrailInv'
  BY <1>10 DEF Reply, WrtcCheck, WrtcStart, PcOpen, MediaCheck, MediaStart, UseCheck,
         OtherMessage
<1>11. ASSUME NEW w \in Ws,
              \/ AddTrack(w) \/ MediaOpen(w) \/ UsePeer(w), ~ Ends
       PROVE  TrailInv'
  <2>1. pc[w] \notin Resting \cup Serving /\ \A h \in Goroutine \ {w} : pc'[h] = pc[h]
    BY <1>11, Proceeds
  <2> QED
    BY <1>g, <2>1
<1>12. ASSUME DialFails \/ SendHello \/ AssignResponseWs PROVE TrailInv'
  BY <1>12 DEF DialFails, SendHello, AssignResponseWs
<1>13. ASSUME NEW w \in Ws, Dial(w) PROVE TrailInv'
  BY <1>13 DEF Dial
<1>14. ASSUME RequestStart \/ RequestStop \/ Close PROVE TrailInv'
  BY <1>14, Alone DEF RequestStart, RequestStop, Close
<1>15. ASSUME NEW w \in Ws,
              \/ Hear(w) \/ CloseFrame(w) \/ ServerGone(w)
       PROVE  TrailInv'
  BY <1>15, Alone DEF Hear, CloseFrame, ServerGone
<1>16. ASSUME NEW r \in Rtc,
              \/ PeerLost(r) \/ Candidate(r) \/ DataChannel(r)
       PROVE  TrailInv'
  BY <1>16, Alone DEF PeerLost, Candidate, DataChannel, HidIs
<1>17. ASSUME NEW r \in Rtc, SendCandidate(r), ~ Ends PROVE TrailInv'
  <2>1. /\ pc[Ice(r)] \notin Resting \cup Serving
        /\ \A h \in Goroutine \ {Ice(r)} : pc'[h] = pc[h]
    BY <1>17, Proceeds
  <2> QED
    BY <1>g, <2>1
<1>18. ASSUME NEW g \in Goroutine, LibraryCall(g) PROVE TrailInv'
  <2>0. UNCHANGED <<fields, target, ret>>
    BY <1>18, CallMoves
  <2>1. CASE UNCHANGED <<pc, connection, cancel>>
    BY <2>0, <2>1 DEF CloseInv
  <2>2. ASSUME NEW label, CallMove(g, label) PROVE TrailInv'
    BY <2>0, <2>2 DEF CallMove, CloseInv
  <2> HIDE DEF TrailInv, AloneInv, WhereInv, Leads, Trails
  <2> QED
    BY <1>18, <2>1, <2>2, CallMoves
<1>19. ASSUME NEW w \in Ws, Library(w) PROVE TrailInv'
  BY <1>19, ReaderMoves
<1>20. ASSUME Ends \/ UNCHANGED vars PROVE TrailInv'
  BY <1>20 DEF Ends, vars
<1>21. ASSUME Hids, hid # "closed" PROVE TrailInv'
  BY <1>21 DEF Hids
<1> HIDE DEF TrailInv
<1> QED
  BY <1>1, <1>2, <1>3, <1>4, <1>5, <1>6, <1>7, <1>8, <1>9, <1>10, <1>11, <1>12, <1>13,
      <1>14, <1>15, <1>16, <1>17, <1>18, <1>19, <1>20, <1>21, Steps

(* Only a websocket that is dialled is read from the start, and only a      *)
(* message is handled: both end before the next event.                      *)
LEMMA StillStep ==
    ASSUME DevInv, LockInv, IsFiniteSet(Busy), Overlap = 0, SerialInv, [Next]_vars
    PROVE  StillInv'
<1>0. Shape /\ StillInv /\ WhereInv /\ TrailInv /\ AloneInv
  BY DEF DevInv, SerialInv
<1> USE <1>0, Apart DEF Shape, StillInv, WhereInv, TrailInv, Trails, Local, At, WS!At,
    Goto, WS!Goto, WS!CallSend, WS!CallClose, WS!Call, WS!ReadText, WS!ReadFail,
    WS!OpenWs, fields, objects, wsvars, WS!object, WS!lock, Teardown, Releasing,
    Stopping, Handling, Resting, Opening, Serving, Shut, WS!SendPc, WS!ClosePc
<1>1. ASSUME NEW g \in Goroutine,
             \/ WsStop(g) \/ WsStopClear(g) \/ MediaStop(g) \/ MediaStopClear(g)
      PROVE  StillInv'
  BY <1>1, Others DEF WsStop, WsStopClear, MediaStop, MediaStopClear
<1>2. ASSUME NEW g \in Goroutine,
             \/ HidClose(g) \/ WrtcClear(g) \/ WrtcStop(g) \/ WrtcStopClear(g)
      PROVE  StillInv'
  BY <1>2, Others DEF HidClose, WrtcClear, WrtcStop, WrtcStopClear
<1>3. ASSUME NEW g \in Goroutine, PcClose(g) PROVE StillInv'
  BY <1>3, Others, Places DEF PcClose
<1>4. ASSUME NEW g \in Goroutine,
             \/ WsStopClose(g) \/ MediaStopClose(g) \/ WrtcStopClose(g), ~ Ends
      PROVE  StillInv'
  BY <1>4, Proceeds, Others
<1>5. ASSUME NEW w \in Ws,
             \/ Reply(w) \/ WrtcCheck(w) \/ WrtcStart(w) \/ PcOpen(w)
             \/ MediaCheck(w) \/ MediaStart(w) \/ UseCheck(w) \/ OtherMessage(w)
      PROVE  StillInv'
  BY <1>5, Others DEF Reply, WrtcCheck, WrtcStart, PcOpen, MediaCheck, MediaStart, UseCheck,
         OtherMessage
<1>6. ASSUME NEW w \in Ws,
             \/ AddTrack(w) \/ MediaOpen(w) \/ UsePeer(w), ~ Ends
      PROVE  StillInv'
  <2>1. pc[w] \in Handling /\ \E label \in Handling : pc' = [pc EXCEPT ![w] = label]
    BY <1>6, Proceeds
  <2>2. \A g \in Goroutine \ Ws : pc[g] \notin Teardown \cup Releasing \cup Stopping
    BY <2>1
  <2> QED
    BY <2>1, <2>2
<1>7. ASSUME DialFails \/ SendHello \/ AssignResponseWs PROVE StillInv'
  BY <1>7, Others DEF DialFails, SendHello, AssignResponseWs
<1>8. ASSUME NEW w \in Ws, Dial(w) PROVE StillInv'
  BY <1>8, Others DEF Dial
<1>9. ASSUME RequestStart \/ RequestStop \/ Close PROVE StillInv'
  BY <1>9, Alone DEF RequestStart, RequestStop, Close
<1>10. ASSUME NEW w \in Ws,
              \/ Hear(w) \/ CloseFrame(w) \/ ServerGone(w)
       PROVE  StillInv'
  BY <1>10, Alone DEF Hear, CloseFrame, ServerGone
<1>11. ASSUME NEW r \in Rtc,
              \/ PeerLost(r) \/ Candidate(r) \/ DataChannel(r)
       PROVE  StillInv'
  BY <1>11, Alone DEF PeerLost, Candidate, DataChannel, HidIs
<1>12. ASSUME NEW r \in Rtc, SendCandidate(r), ~ Ends PROVE StillInv'
  BY <1>12, Proceeds, Others
<1>13. ASSUME NEW g \in Goroutine, LibraryCall(g) PROVE StillInv'
  <2>0. UNCHANGED <<fields, target, ret>>
    BY <1>13, CallMoves
  <2>1. CASE UNCHANGED <<pc, connection, cancel>>
    BY <2>0, <2>1
  <2>2. ASSUME NEW label, CallMove(g, label) PROVE StillInv'
    BY <2>0, <2>2, Others DEF CallMove
  <2> HIDE DEF StillInv, WhereInv, TrailInv, Trails
  <2> QED
    BY <1>13, <2>1, <2>2, CallMoves
<1>14. ASSUME NEW w \in Ws, Library(w) PROVE StillInv'
  BY <1>14, ReaderMoves
<1>15. ASSUME Ends \/ UNCHANGED vars PROVE StillInv'
  BY <1>15 DEF Ends, vars
<1>16. ASSUME Hids, hid # "closed" PROVE StillInv'
  BY <1>16 DEF Hids
<1> HIDE DEF StillInv
<1> QED
  BY <1>1, <1>2, <1>3, <1>4, <1>5, <1>6, <1>7, <1>8, <1>9, <1>10, <1>11, <1>12, <1>13,
      <1>14, <1>15, <1>16, Steps

(* wsStart opens a websocket only when d.responseWs is nil, and Close ends  *)
(* the reading goroutine of the one it closes.                              *)
LEMMA LinkStep ==
    ASSUME DevInv, LockInv, IsFiniteSet(Busy), Overlap = 0, SerialInv, [Next]_vars
    PROVE  LinkInv'
<1>0. Shape /\ LinkInv /\ WhereInv /\ CloseInv /\ LockInv /\ StillInv /\ AloneInv /\
    TrailInv
  BY DEF DevInv, SerialInv
<1> USE <1>0, Apart DEF Shape, LinkInv, WhereInv, Local, At, WS!At, Goto, WS!Goto,
    WS!CallSend, WS!CallClose, WS!Call, WS!ReadText, WS!ReadFail, WS!OpenWs, fields,
    objects, wsvars, WS!object, WS!lock, Teardown, Releasing, Stopping, Handling,
    Resting, Opening, Serving, Shut, WS!SendPc, WS!ClosePc
<1>1. ASSUME NEW g \in Goroutine, WsStopClear(g) PROVE LinkInv'
  BY <1>1, Others DEF WsStopClear, CloseInv
<1>2. ASSUME NEW g \in Goroutine,
             \/ WsStop(g) \/ MediaStop(g) \/ MediaStopClear(g)
      PROVE  LinkInv'
  BY <1>2, Others DEF WsStop, MediaStop, MediaStopClear
<1>3. ASSUME NEW g \in Goroutine,
             \/ HidClose(g) \/ WrtcClear(g) \/ WrtcStop(g) \/ WrtcStopClear(g)
      PROVE  LinkInv'
  BY <1>3, Others DEF HidClose, WrtcClear, WrtcStop, WrtcStopClear
<1>4. ASSUME NEW g \in Goroutine, PcClose(g) PROVE LinkInv'
  <2>1. /\ \A h \in {Mqtt} \cup Ices \cup Ws : pc'[h] = pc[h]
        /\ UNCHANGED <<connection, cancel, responseWs, target>>
    BY <1>4, Places DEF PcClose
  <2> QED
    BY <2>1
<1>5. ASSUME NEW g \in Goroutine, WsStopClose(g), ~ Ends PROVE LinkInv'
  <2>1. /\ pc[g] = "ws_close" /\ responseWs # Nil
        /\ pc' = [pc EXCEPT ![g] = "close_deadline"]
        /\ g # Mqtt => target'[Mqtt] = target[Mqtt]
        /\ UNCHANGED <<connection, cancel, responseWs>>
    BY <1>5, Proceeds
  <2> QED
    BY <2>1
<1>6. ASSUME NEW g \in Goroutine,
             \/ MediaStopClose(g) \/ WrtcStopClose(g), ~ Ends
      PROVE  LinkInv'
  <2>1. /\ pc[g] \in {"media_close", "wrtc_close"}
        /\ \E label \in {"media_clear", "ws_stop"} : pc' = [pc EXCEPT ![g] = label]
        /\ UNCHANGED <<connection, cancel, responseWs, target>>
    BY <1>6, Proceeds
  <2> QED
    BY <2>1
<1>7. ASSUME NEW w \in Ws,
             \/ Reply(w) \/ WrtcCheck(w) \/ WrtcStart(w) \/ PcOpen(w)
             \/ MediaCheck(w) \/ MediaStart(w) \/ UseCheck(w) \/ OtherMessage(w)
      PROVE  LinkInv'
  BY <1>7, Others DEF Reply, WrtcCheck, WrtcStart, PcOpen, MediaCheck, MediaStart, UseCheck,
         OtherMessage
<1>8. ASSUME NEW w \in Ws,
             \/ AddTrack(w) \/ MediaOpen(w) \/ UsePeer(w), ~ Ends
      PROVE  LinkInv'
  BY <1>8, Proceeds, Others
<1>9. ASSUME DialFails \/ SendHello \/ AssignResponseWs PROVE LinkInv'
  BY <1>9, Others DEF DialFails, SendHello, AssignResponseWs
<1>10. ASSUME NEW w \in Ws, Dial(w) PROVE LinkInv'
  BY <1>10, Others DEF Dial, LockInv
<1>11. ASSUME RequestStart \/ RequestStop \/ Close PROVE LinkInv'
  BY <1>11, Alone DEF RequestStart, RequestStop, Close
<1>12. ASSUME NEW w \in Ws, Hear(w) \/ CloseFrame(w) \/ ServerGone(w) PROVE LinkInv'
  BY <1>12, Alone DEF Hear, CloseFrame, ServerGone
<1>13. ASSUME NEW r \in Rtc,
              \/ PeerLost(r) \/ Candidate(r) \/ DataChannel(r)
       PROVE  LinkInv'
  BY <1>13, Alone DEF PeerLost, Candidate, DataChannel, HidIs
<1>14. ASSUME NEW r \in Rtc, SendCandidate(r), ~ Ends PROVE LinkInv'
  BY <1>14, Proceeds
<1>15. ASSUME NEW g \in Goroutine, LibraryCall(g) PROVE LinkInv'
  <2>0. UNCHANGED <<fields, target, ret>>
    BY <1>15, CallMoves
  <2>1. CASE UNCHANGED <<pc, connection, cancel>>
    BY <2>0, <2>1
  <2>2. ASSUME NEW label, CallMove(g, label), pc[g] \in WS!SendPc PROVE LinkInv'
    BY <2>0, <2>2 DEF CallMove
  <2>3. ASSUME NEW label, CallMove(g, label),
               pc[g] \in {"close_deadline", "close_lock", "close_drain"}
        PROVE  LinkInv'
    BY <2>0, <2>3 DEF CallMove
  <2>4. ASSUME NEW label, CallMove(g, label), pc[g] = "close_conn" PROVE LinkInv'
    BY <2>0, <2>4, Others DEF CallMove, LockInv, CloseInv, StillInv, WS!ReadPc
  <2>5. ASSUME NEW label, CallMove(g, label), pc[g] = "close_cancel" PROVE LinkInv'
    BY <2>0, <2>5 DEF CallMove, LockInv, CloseInv
  <2>6. ASSUME NEW label, CallMove(g, label), pc[g] \in {"close_check", "close_wait"} PROVE LinkInv'
    BY <2>0, <2>6 DEF CallMove
  <2>7. ASSUME NEW label, CallMove(g, label)
        PROVE  pc[g] \in WS!SendPc \cup WS!ClosePc
    BY <2>7 DEF CallMove
  <2> HIDE DEF LinkInv, WhereInv
  <2> QED
    BY <1>15, <2>1, <2>2, <2>3, <2>4, <2>5, <2>6, <2>7, CallMoves
<1>16. ASSUME NEW w \in Ws, Library(w) PROVE LinkInv'
  BY <1>16, ReaderMoves
<1>17. ASSUME Ends \/ UNCHANGED vars PROVE LinkInv'
  BY <1>17 DEF Ends, vars
<1>18. ASSUME Hids, hid # "closed" PROVE LinkInv'
  BY <1>18 DEF Hids
<1> HIDE DEF LinkInv
<1> QED
  BY <1>1, <1>2, <1>3, <1>4, <1>5, <1>6, <1>7, <1>8, <1>9, <1>10, <1>11, <1>12, <1>13,
      <1>14, <1>15, <1>16, <1>17, <1>18, Steps

(* wsStop is the only caller that gets beyond the lock of Close: a reading  *)
(* goroutine that closes its own websocket waits there for itself.          *)
LEMMA CloseStep ==
    ASSUME DevInv, LockInv, IsFiniteSet(Busy), Overlap = 0, SerialInv, [Next]_vars
    PROVE  CloseInv'
<1>0. Shape /\ CloseInv /\ WhereInv /\ ReleaseInv /\ LinkInv /\ LockInv /\ AloneInv /\
    TrailInv
  BY DEF DevInv, SerialInv
<1> USE <1>0, Apart DEF Shape, CloseInv, WhereInv, Local, At, WS!At, Goto, WS!Goto,
    WS!CallSend, WS!CallClose, WS!Call, WS!ReadText, WS!ReadFail, WS!OpenWs, fields,
    objects, wsvars, WS!object, WS!lock, Teardown, Releasing, Stopping, Handling,
    Resting, Opening, Serving, Shut, WS!SendPc, WS!ClosePc
<1>1. ASSUME NEW g \in Goroutine, WsStopClear(g) PROVE CloseInv'
  <2>1. \A h \in Goroutine \ {g} : pc[h] \in Resting \cup Serving
    BY <1>1, Others DEF WsStopClear
  <2> QED
    BY <1>1, <2>1 DEF WsStopClear
<1>2. ASSUME NEW g \in Goroutine,
             \/ WsStop(g) \/ MediaStop(g) \/ MediaStopClear(g)
      PROVE  CloseInv'
  BY <1>2, Others DEF WsStop, MediaStop, MediaStopClear
<1>3. ASSUME NEW g \in Goroutine,
             \/ HidClose(g) \/ WrtcClear(g) \/ WrtcStop(g) \/ WrtcStopClear(g)
      PROVE  CloseInv'
  BY <1>3, Others DEF HidClose, WrtcClear, WrtcStop, WrtcStopClear
<1>4. ASSUME NEW g \in Goroutine, PcClose(g) PROVE CloseInv'
  BY <1>4, Others DEF PcClose, ReleaseInv
<1>5. ASSUME NEW g \in Goroutine,
             \/ WsStopClose(g) \/ MediaStopClose(g) \/ WrtcStopClose(g), ~ Ends
      PROVE  CloseInv'
  BY <1>5, Proceeds, Others
<1>6. ASSUME NEW w \in Ws,
             \/ Reply(w) \/ WrtcCheck(w) \/ WrtcStart(w) \/ PcOpen(w)
             \/ MediaCheck(w) \/ MediaStart(w) \/ UseCheck(w) \/ OtherMessage(w)
      PROVE  CloseInv'
  BY <1>6, Others DEF Reply, WrtcCheck, WrtcStart, PcOpen, MediaCheck, MediaStart, UseCheck,
         OtherMessage
<1>7. ASSUME NEW w \in Ws,
             \/ AddTrack(w) \/ MediaOpen(w) \/ UsePeer(w), ~ Ends
      PROVE  CloseInv'
  BY <1>7, Proceeds, Others
<1>8. ASSUME AssignResponseWs PROVE CloseInv'
  BY <1>8, Others DEF AssignResponseWs, LinkInv
<1>9. ASSUME DialFails \/ SendHello PROVE CloseInv'
  BY <1>9, Others DEF DialFails, SendHello
<1>10. ASSUME NEW w \in Ws, Dial(w) PROVE CloseInv'
  BY <1>10, Others DEF Dial, LinkInv
<1>11. ASSUME RequestStart \/ RequestStop \/ Close PROVE CloseInv'
  BY <1>11, Alone DEF RequestStart, RequestStop, Close
<1>12. ASSUME NEW w \in Ws, CloseFrame(w) PROVE CloseInv'
  BY <1>12, Alone DEF CloseFrame, LinkInv
<1>13. ASSUME NEW w \in Ws, Hear(w) \/ ServerGone(w) PROVE CloseInv'
  BY <1>13, Alone DEF Hear, ServerGone
<1>14. ASSUME NEW r \in Rtc,
              \/ PeerLost(r) \/ Candidate(r) \/ DataChannel(r)
       PROVE  CloseInv'
  BY <1>14, Alone DEF PeerLost, Candidate, DataChannel, HidIs
<1>15. ASSUME NEW r \in Rtc, SendCandidate(r), ~ Ends PROVE CloseInv'
  BY <1>15, Proceeds, Others
<1>16. ASSUME NEW g \in Goroutine, LibraryCall(g) PROVE CloseInv'
  <2>0. UNCHANGED <<fields, target, ret>>
    BY <1>16, CallMoves
  <2>1. CASE UNCHANGED <<pc, connection, cancel>>
    BY <2>0, <2>1
  <2>2. ASSUME NEW label, CallMove(g, label), pc[g] \in WS!SendPc PROVE CloseInv'
    BY <2>0, <2>2 DEF CallMove
  <2>3. ASSUME NEW label, CallMove(g, label),
               pc[g] \in {"close_deadline", "close_lock", "close_drain"}
        PROVE  CloseInv'
    BY <2>0, <2>3 DEF CallMove
  <2>4. ASSUME NEW label, CallMove(g, label), pc[g] = "close_conn" PROVE CloseInv'
    <3>1. \A h \in Goroutine \ {g} : pc[h] \in Resting \cup Serving
      BY <2>4, Others
    <3>2. responseWs \in Ws /\ target[g] = responseWs /\ connection[responseWs]
      BY <2>4, <3>1
    <3>3. cancel[responseWs]
      BY <3>2 DEF LinkInv
    <3> QED
      BY <2>0, <2>4, <3>1, <3>2, <3>3 DEF CallMove, LockInv
  <2>5. ASSUME NEW label, CallMove(g, label), pc[g] = "close_cancel" PROVE CloseInv'
    <3>1. \A h \in Goroutine \ {g} : pc[h] \in Resting \cup Serving
      BY <2>5, Others
    <3>2. responseWs # Nil /\ target[g] = responseWs /\ ~ connection[responseWs]
      BY <2>5
    <3>3. /\ connection' = connection /\ pc'[g] = "close_wait"
          /\ \A h \in Goroutine \ {g} : pc'[h] = pc[h]
      BY <2>5 DEF CallMove
    <3>4. ASSUME NEW h \in Goroutine \ {g}
          PROVE  pc'[h] \notin {"ws_close"} \cup Shut \cup WS!ClosePc
      <4>1. pc'[h] = pc[h] /\ pc[h] \in Resting \cup Serving
        BY <3>1, <3>3
      <4> QED
        BY <4>1
    <3> QED
      BY <2>0, <3>2, <3>3, <3>4
  <2>6. ASSUME NEW label, CallMove(g, label), pc[g] \in {"close_check", "close_wait"} PROVE CloseInv'
    BY <2>0, <2>6 DEF CallMove
  <2>7. ASSUME NEW label, CallMove(g, label)
        PROVE  pc[g] \in WS!SendPc \cup WS!ClosePc
    BY <2>7 DEF CallMove
  <2> HIDE DEF CloseInv, WhereInv
  <2> QED
    BY <1>16, <2>1, <2>2, <2>3, <2>4, <2>5, <2>6, <2>7, CallMoves
<1>17. ASSUME NEW w \in Ws, Library(w) PROVE CloseInv'
  BY <1>17, ReaderMoves
<1>18. ASSUME Ends \/ UNCHANGED vars PROVE CloseInv'
  BY <1>18 DEF Ends, vars
<1>19. ASSUME Hids, hid # "closed" PROVE CloseInv'
  BY <1>19 DEF Hids
<1> HIDE DEF CloseInv
<1> QED
  BY <1>1, <1>2, <1>3, <1>4, <1>5, <1>6, <1>7, <1>8, <1>9, <1>10, <1>11, <1>12, <1>13,
      <1>14, <1>15, <1>16, <1>17, <1>18, <1>19, Steps

(* wsStop, mediaStop, hid.Close and d.wrtc = nil come in this order, and    *)
(* nobody takes anything in between.                                        *)
LEMMA ReleaseStep ==
    ASSUME DevInv, LockInv, IsFiniteSet(Busy), Overlap = 0, SerialInv, [Next]_vars
    PROVE  ReleaseInv'
<1>0. Shape /\ ReleaseInv /\ WhereInv /\ TrailInv /\ OwnerInv /\ HoldInv /\ AloneInv
  BY DEF DevInv, SerialInv
<1> USE <1>0, Apart DEF Shape, ReleaseInv, WhereInv, TrailInv, Trails, Local, At,
    WS!At, Goto, WS!Goto, WS!CallSend, WS!CallClose, WS!Call, WS!ReadText,
    WS!ReadFail, WS!OpenWs, fields, objects, wsvars, WS!object, WS!lock, Teardown,
    Releasing, Stopping, Handling, Resting, Opening, Serving, Shut, WS!SendPc,
    WS!ClosePc
<1>1. ASSUME NEW g \in Goroutine, WsStop(g) PROVE ReleaseInv'
  BY <1>1, Others DEF WsStop
<1>2. ASSUME NEW g \in Goroutine, WsStopClear(g) PROVE ReleaseInv'
  BY <1>2, Others DEF WsStopClear
<1>3. ASSUME NEW g \in Goroutine, MediaStop(g) PROVE ReleaseInv'
  BY <1>3, Others DEF MediaStop
<1>4. ASSUME NEW g \in Goroutine, MediaStopClear(g) PROVE ReleaseInv'
  BY <1>4, Others DEF MediaStopClear
<1>5. ASSUME NEW g \in Goroutine,
             \/ HidClose(g) \/ WrtcClear(g) \/ WrtcStop(g) \/ WrtcStopClear(g)
      PROVE  ReleaseInv'
  BY <1>5, Others DEF HidClose, WrtcClear, WrtcStop, WrtcStopClear, HoldInv, OwnerInv
<1>6. ASSUME NEW g \in Goroutine, PcClose(g) PROVE ReleaseInv'
  BY <1>6, Others DEF PcClose
<1>7. ASSUME NEW g \in Goroutine, WsStopClose(g), ~ Ends PROVE ReleaseInv'
  BY <1>7, Proceeds, Others
<1>8. ASSUME NEW g \in Goroutine, MediaStopClose(g), ~ Ends PROVE ReleaseInv'
  BY <1>8, Proceeds, Others DEF HoldInv
<1>9. ASSUME NEW g \in Goroutine, WrtcStopClose(g), ~ Ends PROVE ReleaseInv'
  BY <1>9, Proceeds, Others
<1>10. ASSUME NEW w \in Ws, MediaStart(w) PROVE ReleaseInv'
  BY <1>10, Others DEF MediaStart
<1>11. ASSUME NEW w \in Ws,
              \/ Reply(w) \/ WrtcCheck(w) \/ WrtcStart(w) \/ PcOpen(w) \/ MediaCheck(w) \/ UseCheck(w)
              \/ OtherMessage(w)
       PROVE  ReleaseInv'
  BY <1>11, Others DEF Reply, WrtcCheck, WrtcStart, PcOpen, MediaCheck, UseCheck, OtherMessage
<1>12. ASSUME NEW w \in Ws,
              \/ AddTrack(w) \/ MediaOpen(w) \/ UsePeer(w), ~ Ends
       PROVE  ReleaseInv'
  BY <1>12, Proceeds, Others
<1>13. ASSUME DialFails \/ SendHello \/ AssignResponseWs PROVE ReleaseInv'
  BY <1>13, Others DEF DialFails, SendHello, AssignResponseWs
<1>14. ASSUME NEW w \in Ws, Dial(w) PROVE ReleaseInv'
  BY <1>14, Others DEF Dial
<1>15. ASSUME RequestStart \/ RequestStop \/ Close PROVE ReleaseInv'
  BY <1>15, Alone DEF RequestStart, RequestStop, Close
<1>16. ASSUME NEW w \in Ws,
              \/ Hear(w) \/ CloseFrame(w) \/ ServerGone(w)
       PROVE  ReleaseInv'
  BY <1>16, Alone DEF Hear, CloseFrame, ServerGone
<1>17. ASSUME NEW r \in Rtc,
              \/ PeerLost(r) \/ Candidate(r) \/ DataChannel(r)
       PROVE  ReleaseInv'
  BY <1>17, Alone DEF PeerLost, Candidate, DataChannel, HidIs
<1>18. ASSUME NEW r \in Rtc, SendCandidate(r), ~ Ends PROVE ReleaseInv'
  BY <1>18, Proceeds, Others
<1>19. ASSUME NEW g \in Goroutine, LibraryCall(g) PROVE ReleaseInv'
  <2>0. UNCHANGED <<fields, target, ret>>
    BY <1>19, CallMoves
  <2>1. CASE UNCHANGED <<pc, connection, cancel>>
    BY <2>0, <2>1
  <2>2. ASSUME NEW label, CallMove(g, label) PROVE ReleaseInv'
    BY <2>0, <2>2, Others DEF CallMove
  <2> HIDE DEF ReleaseInv, WhereInv, TrailInv, Trails
  <2> QED
    BY <1>19, <2>1, <2>2, CallMoves
<1>20. ASSUME NEW w \in Ws, Library(w) PROVE ReleaseInv'
  BY <1>20, ReaderMoves
<1>21. ASSUME Ends \/ UNCHANGED vars PROVE ReleaseInv'
  BY <1>21 DEF Ends, vars
<1>22. ASSUME Hids, hid # "closed" PROVE ReleaseInv'
  BY <1>22 DEF Hids
<1> HIDE DEF ReleaseInv
<1> QED
  BY <1>1, <1>2, <1>3, <1>4, <1>5, <1>6, <1>7, <1>8, <1>9, <1>10, <1>11, <1>12, <1>13,
      <1>14, <1>15, <1>16, <1>17, <1>18, <1>19, <1>20, <1>21, <1>22, Steps

(* d.wrtc is the session that is closed until its OnClose clears it.        *)
LEMMA OwnerStep ==
    ASSUME DevInv, LockInv, IsFiniteSet(Busy), Overlap = 0, SerialInv, [Next]_vars
    PROVE  OwnerInv'
<1>0. Shape /\ OwnerInv /\ WhereInv /\ HoldInv /\ ReleaseInv /\ TrailInv /\ AloneInv
  BY DEF DevInv, SerialInv
<1> USE <1>0, Apart DEF Shape, OwnerInv, WhereInv, Local, At, WS!At, Goto, WS!Goto,
    WS!CallSend, WS!CallClose, WS!Call, WS!ReadText, WS!ReadFail, WS!OpenWs, fields,
    objects, wsvars, WS!object, WS!lock, Teardown, Releasing, Stopping, Handling,
    Resting, Opening, Serving, Shut, WS!SendPc, WS!ClosePc
<1>1. ASSUME NEW g \in Goroutine,
             \/ WsStop(g) \/ WsStopClear(g) \/ MediaStop(g) \/ MediaStopClear(g)
      PROVE  OwnerInv'
  BY <1>1, Others DEF WsStop, WsStopClear, MediaStop, MediaStopClear
<1>2. ASSUME NEW g \in Goroutine, WrtcStop(g) PROVE OwnerInv'
  BY <1>2, Others DEF WrtcStop, ReleaseInv
<1>3. ASSUME NEW g \in Goroutine, HidClose(g) PROVE OwnerInv'
  BY <1>3, Others DEF HidClose, ReleaseInv
<1>4. ASSUME NEW g \in Goroutine, WrtcClear(g) PROVE OwnerInv'
  BY <1>4, Others DEF WrtcClear
<1>5. ASSUME NEW g \in Goroutine, WrtcStopClear(g) PROVE OwnerInv'
  BY <1>5, Others DEF WrtcStopClear, TrailInv, Trails
<1>6. ASSUME NEW g \in Goroutine, PcClose(g) PROVE OwnerInv'
  BY <1>6, Others DEF PcClose
<1>7. ASSUME NEW g \in Goroutine,
             \/ WsStopClose(g) \/ MediaStopClose(g) \/ WrtcStopClose(g), ~ Ends
      PROVE  OwnerInv'
  BY <1>7, Proceeds, Others
<1>8. ASSUME NEW w \in Ws, WrtcStart(w) PROVE OwnerInv'
  BY <1>8, Others DEF WrtcStart
<1>9. ASSUME NEW w \in Ws, MediaStart(w) PROVE OwnerInv'
  <2>1. pc[Main] \in {"idle", "wrtc_unset", "leave"} /\ \A h \in Losts : pc[h] \in {"idle", "gone"}
    BY <1>9, Others DEF MediaStart
  <2> QED
    BY <1>9, <2>1 DEF MediaStart
<1>10. ASSUME NEW w \in Ws, PcOpen(w) PROVE OwnerInv'
  BY <1>10, Others DEF PcOpen
<1>11. ASSUME NEW w \in Ws,
              \/ Reply(w) \/ WrtcCheck(w) \/ MediaCheck(w) \/ UseCheck(w) \/ OtherMessage(w)
       PROVE  OwnerInv'
  BY <1>11, Others DEF Reply, WrtcCheck, MediaCheck, UseCheck, OtherMessage
<1>12. ASSUME NEW w \in Ws,
              \/ AddTrack(w) \/ MediaOpen(w) \/ UsePeer(w), ~ Ends
       PROVE  OwnerInv'
  BY <1>12, Proceeds, Others
<1>13. ASSUME DialFails \/ SendHello \/ AssignResponseWs PROVE OwnerInv'
  BY <1>13, Others DEF DialFails, SendHello, AssignResponseWs
<1>14. ASSUME NEW w \in Ws, Dial(w) PROVE OwnerInv'
  BY <1>14, Others DEF Dial
<1>15. ASSUME RequestStart \/ RequestStop \/ Close PROVE OwnerInv'
  BY <1>15, Alone DEF RequestStart, RequestStop, Close
<1>16. ASSUME NEW w \in Ws,
              \/ Hear(w) \/ CloseFrame(w) \/ ServerGone(w)
       PROVE  OwnerInv'
  BY <1>16, Alone DEF Hear, CloseFrame, ServerGone
<1>17. ASSUME NEW r \in Rtc,
              \/ PeerLost(r) \/ Candidate(r) \/ DataChannel(r)
       PROVE  OwnerInv'
  BY <1>17, Alone DEF PeerLost, Candidate, DataChannel, HidIs, HoldInv
<1>18. ASSUME NEW r \in Rtc, SendCandidate(r), ~ Ends PROVE OwnerInv'
  BY <1>18, Proceeds, Others
<1>19. ASSUME NEW g \in Goroutine, LibraryCall(g) PROVE OwnerInv'
  <2>0. UNCHANGED <<fields, target, ret>>
    BY <1>19, CallMoves
  <2>1. CASE UNCHANGED <<pc, connection, cancel>>
    BY <2>0, <2>1
  <2>2. ASSUME NEW label, CallMove(g, label) PROVE OwnerInv'
    BY <2>0, <2>2, Others DEF CallMove
  <2> HIDE DEF OwnerInv, WhereInv
  <2> QED
    BY <1>19, <2>1, <2>2, CallMoves
<1>20. ASSUME NEW w \in Ws, Library(w) PROVE OwnerInv'
  BY <1>20, ReaderMoves
<1>21. ASSUME Ends \/ UNCHANGED vars PROVE OwnerInv'
  BY <1>21 DEF Ends, vars
<1>22. ASSUME Hids, hid # "closed" PROVE OwnerInv'
  BY <1>22 DEF Hids
<1> HIDE DEF OwnerInv
<1> QED
  BY <1>1, <1>2, <1>3, <1>4, <1>5, <1>6, <1>7, <1>8, <1>9, <1>10, <1>11, <1>12, <1>13,
      <1>14, <1>15, <1>16, <1>17, <1>18, <1>19, <1>20, <1>21, <1>22, Steps

(* Between the steps of a handler nobody else changes the fields.           *)
LEMMA HandleStep ==
    ASSUME DevInv, LockInv, IsFiniteSet(Busy), Overlap = 0, SerialInv, [Next]_vars
    PROVE  HandleInv'
<1>0. Shape /\ HandleInv /\ WhereInv /\ HoldInv /\ OnceInv /\ AloneInv /\ TrailInv
  BY DEF DevInv, SerialInv
<1> USE <1>0, Apart DEF Shape, HandleInv, WhereInv, Local, At, WS!At, Goto, WS!Goto,
    WS!CallSend, WS!CallClose, WS!Call, WS!ReadText, WS!ReadFail, WS!OpenWs, fields,
    objects, wsvars, WS!object, WS!lock, Teardown, Releasing, Stopping, Handling,
    Resting, Opening, Serving, Shut, WS!SendPc, WS!ClosePc
<1>1. ASSUME NEW g \in Goroutine,
             \/ WsStop(g) \/ WsStopClear(g) \/ MediaStop(g) \/ MediaStopClear(g)
      PROVE  HandleInv'
  <2>1. \A w \in Ws \ {g} : pc[w] \in Resting \cup Serving
    BY <1>1, Others DEF WsStop, WsStopClear, MediaStop, MediaStopClear
  <2> QED
    BY <1>1, <2>1 DEF WsStop, WsStopClear, MediaStop, MediaStopClear
<1>2. ASSUME NEW g \in Goroutine,
             \/ HidClose(g) \/ WrtcClear(g) \/ WrtcStop(g) \/ WrtcStopClear(g)
      PROVE  HandleInv'
  BY <1>2, Others DEF HidClose, WrtcClear, WrtcStop, WrtcStopClear
<1>3. ASSUME NEW g \in Goroutine, PcClose(g) PROVE HandleInv'
  BY <1>3, Others DEF PcClose
<1>4. ASSUME NEW g \in Goroutine,
             \/ WsStopClose(g) \/ MediaStopClose(g) \/ WrtcStopClose(g), ~ Ends
      PROVE  HandleInv'
  BY <1>4, Proceeds, Others
<1>5. ASSUME NEW w \in Ws,
             \/ Reply(w) \/ WrtcCheck(w) \/ WrtcStart(w) \/ PcOpen(w)
             \/ MediaCheck(w) \/ MediaStart(w) \/ UseCheck(w) \/ OtherMessage(w)
      PROVE  HandleInv'
  BY <1>5, Others DEF Reply, WrtcCheck, WrtcStart, PcOpen, MediaCheck, MediaStart, UseCheck,
         OtherMessage,
      HoldInv, OnceInv, HoldInv
<1>6. ASSUME NEW w \in Ws,
             \/ AddTrack(w) \/ MediaOpen(w) \/ UsePeer(w), ~ Ends
      PROVE  HandleInv'
  BY <1>6, Proceeds, Others
<1>7. ASSUME DialFails \/ SendHello \/ AssignResponseWs PROVE HandleInv'
  BY <1>7, Others DEF DialFails, SendHello, AssignResponseWs
<1>8. ASSUME NEW w \in Ws, Dial(w) PROVE HandleInv'
  BY <1>8, Others DEF Dial
<1>9. ASSUME RequestStart \/ RequestStop \/ Close PROVE HandleInv'
  BY <1>9, Alone DEF RequestStart, RequestStop, Close
<1>10. ASSUME NEW w \in Ws,
              \/ Hear(w) \/ CloseFrame(w) \/ ServerGone(w)
       PROVE  HandleInv'
  BY <1>10, Alone DEF Hear, CloseFrame, ServerGone
<1>11. ASSUME NEW r \in Rtc,
              \/ PeerLost(r) \/ Candidate(r) \/ DataChannel(r)
       PROVE  HandleInv'
  BY <1>11, Alone DEF PeerLost, Candidate, DataChannel, HidIs
<1>12. ASSUME NEW r \in Rtc, SendCandidate(r), ~ Ends PROVE HandleInv'
  BY <1>12, Proceeds, Others
<1>13. ASSUME NEW g \in Goroutine, LibraryCall(g) PROVE HandleInv'
  <2>0. UNCHANGED <<fields, target, ret>>
    BY <1>13, CallMoves
  <2>1. CASE UNCHANGED <<pc, connection, cancel>>
    BY <2>0, <2>1
  <2>2. ASSUME NEW label, CallMove(g, label) PROVE HandleInv'
    BY <2>0, <2>2, Others DEF CallMove
  <2> HIDE DEF HandleInv, WhereInv
  <2> QED
    BY <1>13, <2>1, <2>2, CallMoves
<1>14. ASSUME NEW w \in Ws, Library(w) PROVE HandleInv'
  BY <1>14, ReaderMoves
<1>15. ASSUME Ends \/ UNCHANGED vars PROVE HandleInv'
  BY <1>15 DEF Ends, vars
<1>16. ASSUME Hids, hid # "closed" PROVE HandleInv'
  BY <1>16 DEF Hids
<1> HIDE DEF HandleInv
<1> QED
  BY <1>1, <1>2, <1>3, <1>4, <1>5, <1>6, <1>7, <1>8, <1>9, <1>10, <1>11, <1>12, <1>13,
      <1>14, <1>15, <1>16, Steps

(* A peer connection that opens is d.wrtc, and it is closed with d.wrtc.    *)
LEMMA HoldStep ==
    ASSUME DevInv, LockInv, IsFiniteSet(Busy), Overlap = 0, SerialInv, [Next]_vars
    PROVE  HoldInv'
<1>0. Shape /\ HoldInv /\ WhereInv /\ TrailInv /\ ReleaseInv /\ OwnerInv /\ HandleInv
    /\ AloneInv
  BY DEF DevInv, SerialInv
<1> USE <1>0, Apart DEF Shape, HoldInv, WhereInv, TrailInv, Trails, Local, At, WS!At,
    Goto, WS!Goto, WS!CallSend, WS!CallClose, WS!Call, WS!ReadText, WS!ReadFail,
    WS!OpenWs, fields, objects, wsvars, WS!object, WS!lock, Teardown, Releasing,
    Stopping, Handling, Resting, Opening, Serving, Shut, WS!SendPc, WS!ClosePc
<1>1. ASSUME NEW g \in Goroutine,
             \/ WsStop(g) \/ WsStopClear(g) \/ MediaStop(g) \/ MediaStopClear(g)
      PROVE  HoldInv'
  BY <1>1, Others DEF WsStop, WsStopClear, MediaStop, MediaStopClear, ReleaseInv
<1>2. ASSUME NEW g \in Goroutine,
             \/ HidClose(g) \/ WrtcClear(g) \/ WrtcStop(g) \/ WrtcStopClear(g)
      PROVE  HoldInv'
  BY <1>2, Others DEF HidClose, WrtcClear, WrtcStop, WrtcStopClear, ReleaseInv,
      OwnerInv
<1>3. ASSUME NEW g \in Goroutine, PcClose(g) PROVE HoldInv'
  BY <1>3, Others DEF PcClose, ReleaseInv, OwnerInv
<1>4. ASSUME NEW g \in Goroutine,
             \/ WsStopClose(g) \/ MediaStopClose(g) \/ WrtcStopClose(g), ~ Ends
      PROVE  HoldInv'
  BY <1>4, Proceeds, Others DEF OwnerInv
<1>5. ASSUME NEW w \in Ws,
             \/ Reply(w) \/ WrtcCheck(w) \/ WrtcStart(w) \/ PcOpen(w)
             \/ MediaCheck(w) \/ MediaStart(w) \/ UseCheck(w) \/ OtherMessage(w)
      PROVE  HoldInv'
  BY <1>5, Others DEF Reply, WrtcCheck, WrtcStart, PcOpen, MediaCheck, MediaStart, UseCheck,
         OtherMessage,
      HandleInv, HandleInv
<1>6. ASSUME NEW w \in Ws,
             \/ AddTrack(w) \/ MediaOpen(w) \/ UsePeer(w), ~ Ends
      PROVE  HoldInv'
  BY <1>6, Proceeds, Others DEF HandleInv
<1>7. ASSUME DialFails \/ SendHello \/ AssignResponseWs PROVE HoldInv'
  BY <1>7, Others DEF DialFails, SendHello, AssignResponseWs
<1>8. ASSUME NEW w \in Ws, Dial(w) PROVE HoldInv'
  BY <1>8, Others DEF Dial
<1>9. ASSUME RequestStart \/ RequestStop \/ Close PROVE HoldInv'
  BY <1>9, Alone DEF RequestStart, RequestStop, Close
<1>10. ASSUME NEW w \in Ws, Hear(w) \/ CloseFrame(w) \/ ServerGone(w) PROVE HoldInv'
  BY <1>10, Alone DEF Hear, CloseFrame, ServerGone
<1>11. ASSUME NEW r \in Rtc,
              \/ PeerLost(r) \/ Candidate(r) \/ DataChannel(r)
       PROVE  HoldInv'
  BY <1>11, Alone DEF PeerLost, Candidate, DataChannel, HidIs, Alive
<1>12. ASSUME NEW r \in Rtc, SendCandidate(r), ~ Ends PROVE HoldInv'
  BY <1>12, Proceeds, Others
<1>13. ASSUME NEW g \in Goroutine, LibraryCall(g) PROVE HoldInv'
  <2>0. UNCHANGED <<fields, target, ret>>
    BY <1>13, CallMoves
  <2>1. CASE UNCHANGED <<pc, connection, cancel>>
    BY <2>0, <2>1
  <2>2. ASSUME NEW label, CallMove(g, label) PROVE HoldInv'
    BY <2>0, <2>2, Others DEF CallMove
  <2> HIDE DEF HoldInv, WhereInv, TrailInv, Trails
  <2> QED
    BY <1>13, <2>1, <2>2, CallMoves
<1>14. ASSUME NEW w \in Ws, Library(w) PROVE HoldInv'
  BY <1>14, ReaderMoves
<1>15. ASSUME Ends \/ UNCHANGED vars PROVE HoldInv'
  BY <1>15 DEF Ends, vars
<1>16. ASSUME Hids, hid # "closed" PROVE HoldInv'
  BY <1>16 DEF Hids
<1> HIDE DEF HoldInv
<1> QED
  BY <1>1, <1>2, <1>3, <1>4, <1>5, <1>6, <1>7, <1>8, <1>9, <1>10, <1>11, <1>12, <1>13,
      <1>14, <1>15, <1>16, Steps

-----------------------------------------------------------------------------
(* The theorems.  The hypothesis is that of the run MCDevice: the events come *)
(* one after another.  That the fields have no lock does no harm then.        *)

(* The invariant holds at the start, when nothing has been opened. *)
LEMMA SerialInit == Init => SerialInv
<1> SUFFICES ASSUME Init PROVE SerialInv
  OBVIOUS
<1> USE Apart, Places
    DEF Init, WS!WsInit, Teardown, Releasing, Stopping, Handling, Opening, Shut, Resting,
        Serving, Trails, Leads, WS!SendPc, WS!ClosePc
<1>1. \A g \in Goroutine : pc[g] \in {"idle", "fresh"} /\ (pc[g] = "fresh" => g \in Ws)
  OBVIOUS
<1>2. WhereInv /\ ReturnInv
  BY <1>1 DEF WhereInv, ReturnInv
<1>3. AloneInv /\ TrailInv /\ StillInv
  BY <1>1 DEF AloneInv, TrailInv, StillInv
<1>4. LinkInv /\ CloseInv
  BY <1>1 DEF LinkInv, CloseInv
<1>5. ReleaseInv /\ HandleInv
  BY <1>1 DEF ReleaseInv, HandleInv
<1>6. OwnerInv
  BY <1>1 DEF OwnerInv
<1>7. HoldInv
  BY <1>1 DEF HoldInv
<1> QED
  BY <1>2, <1>3, <1>4, <1>5, <1>6, <1>7 DEF SerialInv

(* When events come one after another, the goroutines of device.go, of pion  *)
(* and of the websockets keep out of each other's way, lock or no lock.      *)
THEOREM SerialInvariance == ASSUME Overlap = 0 PROVE Spec => []SerialInv
<1>1. /\ SerialInv /\ [Next]_vars /\ DevInv /\ LockInv /\ IsFiniteSet(Busy)
      => SerialInv'
  BY WhereStep, ReturnStep, AloneStep, TrailStep, StillStep, LinkStep, CloseStep,
     ReleaseStep, OwnerStep, HandleStep, HoldStep
     DEF SerialInv
<1> QED
  BY <1>1, SerialInit, Invariance, LockHolds, BusyFinite, PTL DEF Spec

(* Once an event has been dealt with, everything that is open is in a field  *)
(* of Device: no websocket, peer connection, pipeline or hid file is lost.   *)
THEOREM NothingIsLeaked == ASSUME Overlap = 0 PROVE Spec => []NothingLeaks
<1>1. DevInv /\ SerialInv => NothingLeaks
  <2> SUFFICES ASSUME DevInv, SerialInv, Quiet PROVE NothingLeaks
    BY DEF NothingLeaks
  <2>1. \A g \in Goroutine : pc[g] \in Resting
    BY DEF Quiet, Busy, Resting
  <2>2. \A w \in Ws : connection[w] => responseWs = w
    BY <2>1, Places
       DEF SerialInv, LinkInv, Opening, Resting, WS!SendPc
  <2>3. \A r \in Rtc : peer[r] = "open" => wrtc = r
    BY <2>1, Places DEF SerialInv, HoldInv, Resting
  <2>4. running \subseteq {wrtc} /\ running \subseteq {media} /\ (hid # "closed" => wrtc # Nil)
    BY DeviceAssumption DEF SerialInv, HoldInv, DevInv, Shape
  <2> QED
    BY <2>2, <2>3, <2>4 DEF NothingLeaks
<1> QED
  BY <1>1, Invariance, SerialInvariance, PTL

(* A peer connection that is lost, or reported closed, ends its own session  *)
(* and no other; MCDeviceOverlap shows what happens when events overlap.     *)
THEOREM ClosedByItsPeer == ASSUME Overlap = 0 PROVE Spec => []ClosedByPeer
<1>1. SerialInv => ClosedByPeer
  <2> SUFFICES ASSUME SerialInv, NEW r \in Rtc, NEW g \in {Lost(r), Closed(r)},
                      pc[g] = "wrtc_clear"
               PROVE  wrtc \in {r, Nil}
    BY DEF ClosedByPeer
  <2>1. CASE g = Lost(r)
    BY <2>1, Apart DEF SerialInv, OwnerInv
  <2>2. CASE g = Closed(r)
    BY <2>2, Apart, Places DEF SerialInv, TrailInv, Trails
  <2> QED
    BY <2>1, <2>2
<1> QED
  BY <1>1, SerialInvariance, PTL

(* The steps that change what Device holds. *)
LEMMA FieldSteps ==
    ASSUME Shape, [Next]_vars
    PROVE  \/ UNCHANGED <<responseWs, wrtc, media, running, hid>>
           \/ AssignResponseWs
           \/ \E g \in Goroutine :
                 \/ WsStopClear(g) \/ MediaStopClear(g) \/ HidClose(g) \/ WrtcClear(g)
                 \/ WrtcStopClear(g) \/ (MediaStopClose(g) /\ ~ Ends)
           \/ \E w \in Ws : WrtcStart(w) \/ MediaStart(w) \/ (MediaOpen(w) /\ ~ Ends)
           \/ (\E r \in Rtc : DataChannel(r)) \/ (Hids /\ hid # "closed")
<1> DEFINE Kept == UNCHANGED <<responseWs, wrtc, media, running, hid>>
<1>1. ASSUME Ends \/ UNCHANGED vars PROVE Kept
  BY <1>1 DEF Ends, vars, fields
<1>2. ASSUME RequestStart \/ RequestStop \/ Close \/ DialFails \/ SendHello PROVE Kept
  BY <1>2 DEF RequestStart, RequestStop, Close, DialFails, SendHello, fields
<1>3. ASSUME NEW w \in Ws,
             \/ Library(w) \/ Reply(w) \/ WrtcCheck(w) \/ PcOpen(w) \/ MediaCheck(w)
             \/ UseCheck(w) \/ OtherMessage(w) \/ Dial(w) \/ Hear(w) \/ CloseFrame(w) \/ ServerGone(w)
      PROVE  Kept
  BY <1>3
     DEF Library, Reply, WrtcCheck, PcOpen, MediaCheck, UseCheck, OtherMessage, Dial, Hear,
         CloseFrame, ServerGone, fields
<1>4. ASSUME NEW r \in Rtc, PeerLost(r) \/ Candidate(r) PROVE Kept
  BY <1>4 DEF PeerLost, Candidate, fields
<1>5. ASSUME NEW g \in Goroutine,
             LibraryCall(g) \/ WsStop(g) \/ MediaStop(g) \/ PcClose(g) \/ WrtcStop(g)
      PROVE  Kept
  BY <1>5 DEF LibraryCall, WsStop, MediaStop, PcClose, WrtcStop, fields
<1>6. ASSUME ~ Ends,
             \/ \E g \in Goroutine : WsStopClose(g) \/ WrtcStopClose(g)
             \/ \E w \in Ws : AddTrack(w) \/ UsePeer(w)
             \/ \E r \in Rtc : SendCandidate(r)
      PROVE  Kept
  BY <1>6, Proceeds DEF fields
<1> HIDE DEF Kept
<1>7. \/ Kept \/ AssignResponseWs
      \/ \E g \in Goroutine :
            \/ WsStopClear(g) \/ MediaStopClear(g) \/ HidClose(g) \/ WrtcClear(g)
            \/ WrtcStopClear(g) \/ (MediaStopClose(g) /\ ~ Ends)
      \/ \E w \in Ws : WrtcStart(w) \/ MediaStart(w) \/ (MediaOpen(w) /\ ~ Ends)
      \/ (\E r \in Rtc : DataChannel(r)) \/ (Hids /\ hid # "closed")
  BY <1>1, <1>2, <1>3, <1>4, <1>5, <1>6, Steps
<1> QED
  BY <1>7 DEF Kept

(* d.responseWs is cleared before it is set again. *)
THEOREM WebSocketNotReplaced == ASSUME Overlap = 0 PROVE Spec => WsNotReplaced
<1> DEFINE Replaces == responseWs # Nil /\ responseWs' # responseWs => responseWs' = Nil
<1>1. DevInv /\ SerialInv /\ [Next]_vars => [Replaces]_vars
  <2> SUFFICES ASSUME DevInv, SerialInv, [Next]_vars PROVE Replaces
    OBVIOUS
  <2>1. Shape /\ LinkInv
    BY DEF DevInv, SerialInv
  <2>2. CASE AssignResponseWs
    BY <2>1, <2>2 DEF LinkInv, Opening, AssignResponseWs, At, WS!At
  <2>3. CASE responseWs' \in {responseWs, Nil}
    BY <2>3
  <2> HIDE DEF Replaces
  <2>4. AssignResponseWs \/ responseWs' \in {responseWs, Nil}
    BY <2>1, FieldSteps, Proceeds
       DEF WsStopClear, MediaStopClear, HidClose, WrtcClear, WrtcStopClear, WrtcStart,
           MediaStart, DataChannel, HidIs, Hids
  <2> QED
    BY <2>2, <2>3, <2>4
<1> HIDE DEF Replaces
<1>2. Spec => [][Replaces]_vars
  BY <1>1, Invariance, SerialInvariance, PTL DEF Spec
<1> USE DEF Replaces
<1> QED
  BY <1>2 DEF WsNotReplaced

(* The videos of the sessions are used the way Feed.tla asks: one is opened  *)
(* when that of the session before has been closed.                          *)
THEOREM FeedKept == ASSUME Overlap = 0 PROVE Spec => KeepsFeed
<1>1. Init => Fed!Init
  BY DEF Init, Fed!Init
<1>2. DevInv /\ SerialInv /\ [Next]_vars => [Fed!Next]_(Fed!feed)
  <2> SUFFICES ASSUME DevInv, SerialInv, [Next]_vars PROVE Fed!Next \/ running' = running
    BY DEF Fed!feed
  <2>1. Shape /\ HandleInv
    BY DEF DevInv, SerialInv
  <2>2. ASSUME NEW g \in Goroutine, MediaStopClose(g), ~ Ends
        PROVE  Fed!Next \/ running' = running
    <3>1. media \in Rtc /\ running' = running \ {media}
      BY <2>1, <2>2, Proceeds DEF Shape
    <3>2. CASE media \in running
      BY <3>1, <3>2 DEF Fed!Next, Fed!Close
    <3> QED
      BY <3>1, <3>2
  <2>3. ASSUME NEW w \in Ws, MediaOpen(w), ~ Ends PROVE Fed!Next \/ running' = running
    <3>1. media \in Rtc /\ running = {} /\ running' \in {running, running \cup {media}}
      BY <2>1, <2>3, Proceeds DEF Shape, HandleInv, At, WS!At
    <3> QED
      BY <3>1 DEF Fed!Next, Fed!Open
  <2>4. \/ running' = running
        \/ \E g \in Goroutine : MediaStopClose(g) /\ ~ Ends
        \/ \E w \in Ws : MediaOpen(w) /\ ~ Ends
    BY <2>1, FieldSteps
       DEF AssignResponseWs, WsStopClear, MediaStopClear, HidClose, WrtcClear, WrtcStopClear,
           WrtcStart, MediaStart, DataChannel, HidIs, Hids
  <2> QED
    BY <2>2, <2>3, <2>4
<1> QED
  BY <1>1, <1>2, Invariance, SerialInvariance, PTL DEF Spec, KeepsFeed, Fed!Spec

(* What Device holds, it takes and gives up as Session.tla says: the video   *)
(* and the hid file only for a peer connection, which is given up last.      *)
THEOREM SessionKept == ASSUME Overlap = 0 PROVE Spec => KeepsSession
<1>1. Init => Held!Init
  BY DEF Init, Held!Init
<1>2. /\ DevInv /\ LockInv /\ IsFiniteSet(Busy) /\ SerialInv /\ [Next]_vars
      => [Held!Next]_(Held!held)
  <2> SUFFICES ASSUME DevInv, LockInv, IsFiniteSet(Busy), SerialInv, [Next]_vars
               PROVE  Held!Next \/ UNCHANGED Held!held
    OBVIOUS
  <2> DEFINE Allowed == Held!Next \/ UNCHANGED Held!held
  <2>0. Shape /\ WhereInv /\ TrailInv /\ LinkInv /\ CloseInv /\ ReleaseInv /\ HandleInv /\ HoldInv
    BY DEF DevInv, SerialInv
  <2>1. CASE UNCHANGED <<responseWs, wrtc, media, running, hid>>
    BY <2>1 DEF Held!held
  <2> USE DEF Held!Next, Held!held, At, WS!At
  <2>2. CASE AssignResponseWs
    <3>1. responseWs = Nil /\ target[Mqtt] # Nil
      BY <2>0, <2>2, Apart DEF AssignResponseWs, LinkInv, Opening, DevInv, OpenedInv
    <3> QED
      BY <2>2, <3>1 DEF AssignResponseWs, Held!Connect
  <2>3. ASSUME NEW g \in Goroutine, WsStopClear(g) PROVE Allowed
    BY <2>0, <2>3 DEF WsStopClear, CloseInv, Held!Disconnect
  <2>4. ASSUME NEW g \in Goroutine, MediaStopClear(g) PROVE Allowed
    BY <2>4 DEF MediaStopClear, Held!FreeMedia
  <2>5. ASSUME NEW g \in Goroutine, HidClose(g) PROVE Allowed
    BY <2>0, <2>5 DEF HidClose, Held!FreeHid, Shape
  <2>6. ASSUME NEW g \in Goroutine, WrtcClear(g) PROVE Allowed
    <3>1. responseWs = Nil /\ media = Nil /\ hid = "closed"
      BY <2>0, <2>6 DEF WrtcClear, ReleaseInv, Releasing
    <3> QED
      BY <2>6, <3>1 DEF WrtcClear, Held!Stop
  <2>7. ASSUME NEW g \in Goroutine, WrtcStopClear(g) PROVE Allowed
    <3>1. wrtc = Nil
      BY <2>0, <2>7, Places DEF WrtcStopClear, WhereInv, TrailInv, Trails
    <3> QED
      BY <2>7, <3>1 DEF WrtcStopClear
  <2>8. ASSUME NEW g \in Goroutine, MediaStopClose(g), ~ Ends PROVE Allowed
    BY <2>8, Proceeds
  <2>9. ASSUME NEW w \in Ws, WrtcStart(w) PROVE Allowed
    <3>1. responseWs # Nil
      BY <2>0, <2>9, Apart DEF WrtcStart, LinkInv, Resting, Serving
    <3> QED
      BY <2>9, <3>1, Apart DEF WrtcStart, Held!Start
  <2>10. ASSUME NEW w \in Ws, MediaStart(w) PROVE Allowed
    <3>1. session[w] = wrtc /\ wrtc # Nil
      BY <2>0, <2>10 DEF MediaStart, HandleInv
    <3> QED
      BY <2>10, <3>1 DEF MediaStart, Held!UseMedia
  <2>11. ASSUME NEW w \in Ws, MediaOpen(w), ~ Ends PROVE Allowed
    BY <2>11, Proceeds
  <2>12. ASSUME NEW r \in Rtc, DataChannel(r) PROVE Allowed
    <3>1. peer[r] = "open"
      BY <2>12 DEF DataChannel, Alive
    <3>2. Main \in Goroutine \ Ws /\ Lost(r) \in Goroutine \ Ws
      BY Places
    <3>3. pc[Lost(r)] # "pc_close" /\ pc[Main] # "pc_close"
      BY <2>0, <2>12, <3>2, Alone DEF DataChannel
    <3>4. wrtc # Nil
      BY <2>0, <3>1, <3>3, Apart DEF HoldInv
    <3> QED
      BY <2>0, <2>12, <3>4 DEF DataChannel, HidIs, Held!UseHid, Shape
  <2>14. ASSUME Hids, hid # "closed" PROVE Allowed
    BY <2>14 DEF Hids
  <2> HIDE DEF Allowed
  <2>13. Allowed
    <3>1. CASE AssignResponseWs \/ UNCHANGED <<responseWs, wrtc, media, running, hid>>
      BY <2>1, <2>2, <3>1 DEF Allowed
    <3> QED
      BY <2>0, <2>3, <2>4, <2>5, <2>6, <2>7, <2>8, <2>9, <2>10, <2>11, <2>12, <2>14, <3>1,
         FieldSteps
  <2> QED
    BY <2>13 DEF Allowed
<1> QED
  BY <1>1, <1>2, Invariance, LockHolds, BusyFinite, SerialInvariance, PTL
     DEF Spec, KeepsSession, Held!Spec

(* The step leaves the process up, or it is one of those that end it.        *)
UpStill == process' = process /\ process = "up"
Deadly ==
    \/ UpStill \/ process' = "exited"
    \/ running # {} /\ wrtc = Nil
    \/ \E g \in Goroutine :
          \/ pc[g] = "ws_close" /\ responseWs = Nil
          \/ pc[g] = "media_close" /\ media = Nil
          \/ pc[g] = "wrtc_close" /\ wrtc = Nil
          \/ pc[g] = "close_deadline" /\ ~ connection[target[g]]
          \/ pc[g] = "close_cancel" /\ ~ cancel[target[g]]
          \/ WS!SendCollide(g)
    \/ \E w \in Ws :
          \/ pc[w] = "read_lock" /\ ~ connection[w]
          \/ pc[w] = "track" /\ ~ Usable
          \/ pc[w] = "media_open" /\ media = Nil
          \/ pc[w] = "media_open" /\ mediaSource = 2 /\ process' = "stack overflow" /\ UNCHANGED fields
          \/ pc[w] = "use" /\ ~ Usable /\ process' = "nil webrtc" /\ UNCHANGED fields
          \/ pc[w] = "use" /\ process' = "nil payload" /\ UNCHANGED fields
    \/ pc[Mqtt] = "dial" /\ process' = "nil response" /\ UNCHANGED connection
    \/ \E r \in Rtc : pc[Ice(r)] = "ice_send" /\ responseWs = Nil

LEMMA Deaths == ASSUME Next PROVE Deadly
<1> USE DEF UpStill, Local, At, WS!At, wsvars, Panic, WS!Panic
<1>1. ASSUME \/ RequestStart \/ RequestStop \/ Close \/ DialFails \/ SendHello
             \/ AssignResponseWs
      PROVE  UpStill
  BY <1>1
     DEF RequestStart, RequestStop, Close, Deliver, DialFails, SendHello, AssignResponseWs,
         WS!CallSend, WS!Call
<1>2. ASSUME Frame \/ Exit PROVE process' = "exited" \/ (running # {} /\ wrtc = Nil)
  BY <1>2 DEF Frame, Exit
<1>3. ASSUME NEW g \in Goroutine,
             \/ WsStop(g) \/ WsStopClear(g) \/ MediaStop(g) \/ MediaStopClear(g)
             \/ HidClose(g) \/ WrtcClear(g) \/ PcClose(g) \/ WrtcStop(g) \/ WrtcStopClear(g)
      PROVE  UpStill
  BY <1>3
     DEF WsStop, WsStopClear, MediaStop, MediaStopClear, HidClose, WrtcClear, PcClose,
         WrtcStop, WrtcStopClear
<1>4. ASSUME NEW g \in Goroutine, WsStopClose(g)
      PROVE  UpStill \/ (pc[g] = "ws_close" /\ responseWs = Nil)
  BY <1>4 DEF WsStopClose, WS!CallClose, WS!Call
<1>5. ASSUME NEW g \in Goroutine, MediaStopClose(g)
      PROVE  UpStill \/ (pc[g] = "media_close" /\ media = Nil)
  BY <1>5 DEF MediaStopClose
<1>6. ASSUME NEW g \in Goroutine, WrtcStopClose(g)
      PROVE  UpStill \/ (pc[g] = "wrtc_close" /\ wrtc = Nil)
  BY <1>6 DEF WrtcStopClose
<1>7. ASSUME NEW g \in Goroutine, LibraryCall(g)
      PROVE  \/ UpStill
             \/ pc[g] = "close_deadline" /\ ~ connection[target[g]]
             \/ pc[g] = "close_cancel" /\ ~ cancel[target[g]]
             \/ WS!SendCollide(g)
  BY <1>7
     DEF LibraryCall, WS!CallStep, WS!SendLock, WS!SendNil, WS!SendBegin, WS!SendWrite,
         WS!CloseDeadline, WS!CloseNil, WS!CloseLock, WS!CloseDrain, WS!CloseConnection,
         WS!CloseCheckCancel, WS!CloseCancel, WS!CloseCancelNil, WS!CloseWait
<1>8. ASSUME NEW w \in Ws, Library(w)
      PROVE  UpStill \/ (pc[w] = "read_lock" /\ ~ connection[w])
  BY <1>8
     DEF Library, WS!HandlerStep, WS!HandleStart, WS!HandleSelect, WS!ReadLock, WS!ReadNil,
         WS!ReadTimeout, WS!ReadFail, WS!ReadReturn, WS!HandleExit
<1>9. ASSUME NEW w \in Ws,
             \/ Reply(w) \/ WrtcCheck(w) \/ WrtcStart(w) \/ PcOpen(w) \/ MediaCheck(w)
             \/ MediaStart(w) \/ UseCheck(w)
             \/ OtherMessage(w) \/ Dial(w) \/ Hear(w) \/ CloseFrame(w) \/ ServerGone(w)
      PROVE  UpStill
  BY <1>9
     DEF Reply, WrtcCheck, WrtcStart, PcOpen, MediaCheck, MediaStart, UseCheck,
         OtherMessage, Dial, Hear, CloseFrame,
         ServerGone, Deliver, WS!CallSend, WS!CallClose, WS!Call, WS!OpenWs, WS!ReadText,
         WS!ReadFail
<1>10. ASSUME NEW w \in Ws, AddTrack(w)
       PROVE  UpStill \/ (pc[w] = "track" /\ ~ Usable)
  BY <1>10 DEF AddTrack
<1>11. ASSUME NEW w \in Ws, MediaOpen(w)
       PROVE  \/ UpStill
              \/ pc[w] = "media_open" /\ media = Nil
              \/ /\ pc[w] = "media_open" /\ mediaSource = 2
                 /\ process' = "stack overflow" /\ UNCHANGED fields
  BY <1>11 DEF MediaOpen
<1>12. ASSUME NEW w \in Ws, UsePeer(w)
       PROVE  \/ UpStill
              \/ pc[w] = "use" /\ ~ Usable /\ process' = "nil webrtc" /\ UNCHANGED fields
              \/ pc[w] = "use" /\ process' = "nil payload" /\ UNCHANGED fields
  BY <1>12 DEF UsePeer
<1>13. ASSUME NEW r \in Rtc, PeerLost(r) \/ Candidate(r) \/ DataChannel(r) \/ HidWrite(r)
       PROVE  UpStill
  BY <1>13 DEF PeerLost, Candidate, DataChannel, HidWrite, HidIs, Deliver
<1>14. ASSUME NEW r \in Rtc, SendCandidate(r)
       PROVE  UpStill \/ (pc[Ice(r)] = "ice_send" /\ responseWs = Nil)
  BY <1>14 DEF SendCandidate, WS!CallSend, WS!Call
<1>15. ASSUME NEW g \in Goroutine, TeardownStep(g)
       PROVE  \/ UpStill
              \/ pc[g] = "ws_close" /\ responseWs = Nil
              \/ pc[g] = "media_close" /\ media = Nil
              \/ pc[g] = "wrtc_close" /\ wrtc = Nil
  BY <1>3, <1>4, <1>5, <1>6, <1>15 DEF TeardownStep
<1>20. ASSUME RefreshPanics
       PROVE  pc[Mqtt] = "dial" /\ process' = "nil response" /\ UNCHANGED connection
  BY <1>20 DEF RefreshPanics, WS!object
<1>21. ASSUME HostTakes \/ HostSleeps PROVE UpStill
  BY <1>21 DEF HostTakes, HostSleeps, HidIs
<1> HIDE DEF Local, At, WS!At, wsvars, Panic, WS!Panic, UpStill
<1> USE DEF Deadly
<1>16. ASSUME Event PROVE Deadly
  BY <1>1, <1>2, <1>9, <1>13, <1>16 DEF Event
<1>17. ASSUME MqttStep \/ MainStep PROVE Deadly
  BY <1>1, <1>2, <1>7, <1>9, <1>15, <1>17, <1>20, Places DEF MqttStep, MainStep
<1>18. ASSUME NEW w \in Ws, HandlerStep(w) PROVE Deadly
  BY <1>7, <1>8, <1>9, <1>10, <1>11, <1>12, <1>15, <1>18, Places DEF HandlerStep
<1>19. ASSUME NEW r \in Rtc, PionStep(r) PROVE Deadly
  BY <1>7, <1>14, <1>15, <1>19, Places DEF PionStep
<1> QED
  BY <1>16, <1>17, <1>18, <1>19, <1>21 DEF Next

(* Events that come one after another bring the process down in the four      *)
(* ways that CrashesAreNamed lists and in no other: no pointer, channel or     *)
(* connection of Device, of a websocket or of a video is ever found nil.       *)
THEOREM OnlyNamedCrashes == ASSUME Overlap = 0 PROVE Spec => []CrashesAreNamed
<1>1. Init => CrashesAreNamed
  BY DEF Init, WS!WsInit, CrashesAreNamed
<1>2. DevInv /\ SerialInv /\ LockInv /\ CrashesAreNamed /\ [Next]_vars => CrashesAreNamed'
  <2> SUFFICES ASSUME DevInv, SerialInv, LockInv, CrashesAreNamed, [Next]_vars PROVE CrashesAreNamed'
    OBVIOUS
  <2>0. /\ Shape /\ WhereInv /\ AloneInv /\ TrailInv /\ LinkInv /\ CloseInv /\ ReleaseInv
        /\ OwnerInv /\ HandleInv /\ HoldInv
    BY DEF DevInv, SerialInv
  <2>1. CASE UNCHANGED vars
    BY <2>1 DEF CrashesAreNamed, vars, wsvars, fields, objects
  <2>2. CASE process' \in {"up", "exited"}
    BY <2>2 DEF CrashesAreNamed
  <2>3. running = {} \/ wrtc # Nil
    BY <2>0, DeviceAssumption DEF Shape, HoldInv
  <2>4. \A g \in Goroutine : pc[g] = "ws_close" => responseWs # Nil
    BY <2>0 DEF CloseInv
  <2>5. \A g \in Goroutine : pc[g] = "media_close" => media # Nil
    BY <2>0 DEF ReleaseInv
  <2>6. \A g \in Goroutine : pc[g] = "wrtc_close" => wrtc # Nil
    BY <2>0 DEF WhereInv, OwnerInv, HandleInv
  <2>7. ASSUME NEW g \in Goroutine, pc[g] = "close_deadline" PROVE connection[target[g]]
    <3>1. responseWs # Nil /\ target[g] = responseWs
      BY <2>0, <2>7 DEF CloseInv, WS!ClosePc
    <3>2. \A h \in Goroutine \ {g} : pc[h] \in Resting \cup Serving
      BY <2>0, <2>7, <3>1, Others DEF Resting, Serving
    <3>3. \A h \in Goroutine : pc[h] \notin Shut
      BY <2>7, <3>2 DEF Resting, Serving, Shut
    <3> QED
      BY <2>0, <3>1, <3>3 DEF CloseInv
  <2>8. \A g \in Goroutine : pc[g] = "close_cancel" => cancel[target[g]]
    BY <2>0 DEF CloseInv, WS!ClosePc
  <2>9. ASSUME NEW g \in Goroutine PROVE ~ WS!SendCollide(g)
    <3> SUFFICES ASSUME WS!SendCollide(g) PROVE FALSE
      OBVIOUS
    <3>1. pc[g] = "send_check" /\ target[g] \in Ws
      BY DEF WS!SendCollide, WS!At, DevInv, OpenedInv, CallPc, WS!SendPc
    <3>2. PICK s \in Goroutine : pc[s] = "send_write"
      BY <2>0, <3>1 DEF WS!SendCollide, Shape
    <3>3. Leads(g) /\ Leads(s)
      BY <2>0, <3>1, <3>2, Apart DEF WhereInv, Leads, Trails, Resting, Serving, WS!SendPc
    <3> QED
      BY <2>0, <3>1, <3>2, <3>3 DEF AloneInv
  <2>10. \A w \in Ws : pc[w] = "read_lock" => connection[w]
    BY <2>0 DEF LinkInv
  <2>11. \A w \in Ws : pc[w] = "track" => Usable
    BY <2>0 DEF HandleInv, Usable
  <2>12. \A w \in Ws : pc[w] = "media_open" => media # Nil
    BY <2>0 DEF HandleInv
  <2>15. ASSUME NEW w \in Ws, pc[w] = "media_open", mediaSource = 2,
                process' = "stack overflow", UNCHANGED fields
         PROVE  CrashesAreNamed'
    <3>1. media # Nil /\ wrtc = media
      BY <2>0, <2>15 DEF HandleInv
    <3> QED
      BY <2>15, <3>1 DEF CrashesAreNamed, fields
  <2>16. ASSUME NEW w \in Ws, pc[w] = "use", process' = "nil payload", UNCHANGED fields
         PROVE  CrashesAreNamed'
    <3>1. wrtc # Nil /\ peer[wrtc] \in {"created", "open"}
      BY <2>0, <2>16 DEF HandleInv, HoldInv
    <3> QED
      BY <2>16, <3>1 DEF CrashesAreNamed, fields
  <2>17. ASSUME pc[Mqtt] = "dial", process' = "nil response", UNCHANGED connection
         PROVE  CrashesAreNamed'
    <3>1. \A w \in Ws : ~ connection[w]
      BY <2>0, <2>17, DeviceAssumption DEF LinkInv, Opening, WS!SendPc
    <3> QED
      BY <2>17, <3>1 DEF CrashesAreNamed
  <2>13. ASSUME NEW w \in Ws, pc[w] = "use", ~ Usable, process' = "nil webrtc", UNCHANGED fields
         PROVE  CrashesAreNamed'
    <3>1. wrtc # Nil /\ peer[wrtc] = "created"
      BY <2>0, <2>13 DEF HandleInv, Usable
    <3>2. media = Nil
      BY <2>0, <3>1 DEF HoldInv
    <3> QED
      BY <2>13, <3>1, <3>2 DEF CrashesAreNamed, fields
  <2>14. \A r \in Rtc : pc[Ice(r)] = "ice_send" => responseWs # Nil
    BY <2>0, Apart DEF LinkInv
  <2> HIDE DEF CrashesAreNamed
  <2> QED
    BY <2>1, <2>2, <2>3, <2>4, <2>5, <2>6, <2>7, <2>8, <2>9, <2>10, <2>11, <2>12, <2>13, <2>14,
       <2>15, <2>16, <2>17, Deaths DEF Deadly, UpStill
<1> QED
  BY <1>1, <1>2, Invariance, LockHolds, SerialInvariance, PTL DEF Spec
=============================================================================
