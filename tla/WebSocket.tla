------------------------------ MODULE WebSocket ------------------------------
(***************************************************************************)
(* src/libs/websocket/websocket.go: a client websocket with one reading    *)
(* goroutine.  Any goroutine may call Send and Close on it, and so may the *)
(* reading goroutine itself: OnMessage runs inside read(), with the read   *)
(* lock of connectionMu held, and the close handler runs inside            *)
(* ReadMessage.                                                            *)
(*                                                                         *)
(* An element of Ws is a websocket object and also names the goroutine     *)
(* that runs its handle() method.  A goroutine is at pc[g]; while it is    *)
(* inside Send or Close, target[g] is the object it called and ret[g] the  *)
(* place the call returns to.  An object is opened once.  A goroutine that *)
(* is in no method is "idle", or in a "callback".                          *)
(*                                                                         *)
(* connectionMu is Go's RWMutex.  reading[w] is the read lock taken by     *)
(* read(), senders[w] the goroutines that hold the one taken by Send, and  *)
(* writer[w] the goroutine that has announced Lock: from then on RLock     *)
(* blocks, the goroutine's own recursive RLock included, and the writer    *)
(* goes on when the read locks taken earlier are released.                 *)
(***************************************************************************)
EXTENDS Integers

CONSTANTS Callers,      \* goroutines other than the reading ones
          Ws,           \* websocket objects
          NoOne,        \* no goroutine
          CallbackOps,  \* what OnMessage may do
          PeerFrames    \* the frames the peer sends

ASSUME GoroutineAssumption ==
    /\ Callers \cap Ws = {}
    /\ NoOne \notin Callers \cup Ws
ASSUME ClientAssumption ==
    /\ CallbackOps \subseteq {"return", "send", "close"}
    /\ PeerFrames \subseteq {"text", "close"}

Goroutine == Callers \cup Ws

VARIABLES connection,   \* ws.connection is not nil
          deadline,     \* a read deadline has been set
          cancel,       \* ws.cancel is not nil
          done,         \* the context of handle() is cancelled
          wg,           \* ws.wg
          reading, senders, writer,   \* ws.connectionMu
          pc, target, ret,
          process,        \* "up", or why it has ended
          closed        \* history: a call of Close has returned

lock == <<reading, senders, writer>>
object == <<connection, deadline, cancel, done, wg, closed>>
vars == <<object, lock, pc, target, ret, process>>

HandlePc == {"fresh", "spawned", "select", "read_lock", "exit", "ended"}
ReadPc == {"reading", "callback", "read_return", "read_error"}
SendPc == {"send_lock", "send_check", "send_write"}
ClosePc == {"close_deadline", "close_lock", "close_drain", "close_conn",
            "close_check", "close_cancel", "close_wait"}

WsInit ==
    /\ connection = [w \in Ws |-> FALSE]
    /\ deadline = [w \in Ws |-> FALSE]
    /\ cancel = [w \in Ws |-> FALSE]
    /\ done = [w \in Ws |-> FALSE]
    /\ wg = [w \in Ws |-> 0]
    /\ closed = [w \in Ws |-> FALSE]
    /\ reading = [w \in Ws |-> FALSE]
    /\ senders = [w \in Ws |-> {}]
    /\ writer = [w \in Ws |-> NoOne]
    /\ target = [g \in Goroutine |-> NoOne]
    /\ ret = [g \in Goroutine |-> "idle"]
    /\ process = "up"

At(g, label) == process = "up" /\ pc[g] = label
Goto(g, label) == pc' = [pc EXCEPT ![g] = label]

(* The whole process dies: nothing runs after it. *)
Panic(why) ==
    /\ process' = why
    /\ UNCHANGED <<object, lock, pc, target, ret>>

-----------------------------------------------------------------------------
(* Open: openConnection dials, then the context and the handler start. *)

OpenWs(w) ==
    /\ connection' = [connection EXCEPT ![w] = TRUE]
    /\ cancel' = [cancel EXCEPT ![w] = TRUE]
    /\ UNCHANGED <<deadline, done, wg, closed, lock, process>>

(* handle: the first statement of the goroutine is wg.Add(1). *)
HandleStart(w) ==
    /\ At(w, "spawned")
    /\ wg' = [wg EXCEPT ![w] = @ + 1]
    /\ Goto(w, "select")
    /\ UNCHANGED <<connection, deadline, cancel, done, closed, lock, target, ret, process>>

(* Mutant of HandleSelect: the context is not looked at. *)
HandleSelectBlind(w) ==
    /\ At(w, "select")
    /\ Goto(w, "read_lock")
    /\ UNCHANGED <<object, lock, target, ret, process>>

HandleSelect(w) ==
    /\ At(w, "select")
    /\ Goto(w, IF done[w] THEN "exit" ELSE "read_lock")
    /\ UNCHANGED <<object, lock, target, ret, process>>

(* read: RLock, then ReadMessage on whatever ws.connection is. *)
ReadLock(w) ==
    /\ At(w, "read_lock")
    /\ writer[w] = NoOne
    /\ connection[w]
    /\ reading' = [reading EXCEPT ![w] = TRUE]
    /\ Goto(w, "reading")
    /\ UNCHANGED <<object, senders, writer, target, ret, process>>

ReadNil(w) ==
    /\ At(w, "read_lock")
    /\ writer[w] = NoOne
    /\ ~ connection[w]
    /\ Panic("nil connection read")

ReadText(w) ==
    /\ At(w, "reading")
    /\ Goto(w, "callback")
    /\ UNCHANGED <<object, lock, target, ret, process>>

(* ReadMessage fails: the peer is gone, or the read deadline has passed. *)
ReadFail(w) ==
    /\ At(w, "reading")
    /\ Goto(w, "read_error")
    /\ UNCHANGED <<object, lock, target, ret, process>>

ReadTimeout(w) == deadline[w] /\ ReadFail(w)

(* Mutant of ReadReturn: no RUnlock when ReadMessage has failed. *)
ReadReturnKeepsLock(w) ==
    /\ process = "up"
    /\ pc[w] \in {"read_return", "read_error"}
    /\ reading' = [reading EXCEPT ![w] = pc[w] = "read_error"]
    /\ Goto(w, IF pc[w] = "read_error" THEN "exit" ELSE "select")
    /\ UNCHANGED <<object, senders, writer, target, ret, process>>

(* The deferred RUnlock; after an error handle returns. *)
ReadReturn(w) ==
    /\ process = "up"
    /\ pc[w] \in {"read_return", "read_error"}
    /\ reading' = [reading EXCEPT ![w] = FALSE]
    /\ Goto(w, IF pc[w] = "read_error" THEN "exit" ELSE "select")
    /\ UNCHANGED <<object, senders, writer, target, ret, process>>

(* Mutant of HandleExit: Done on the way out and again in the defer. *)
HandleExitTwice(w) ==
    /\ At(w, "exit")
    /\ wg' = [wg EXCEPT ![w] = @ - 2]
    /\ Goto(w, "ended")
    /\ UNCHANGED <<connection, deadline, cancel, done, closed, lock, target, ret, process>>

HandleExit(w) ==
    /\ At(w, "exit")
    /\ wg' = [wg EXCEPT ![w] = @ - 1]
    /\ Goto(w, "ended")
    /\ UNCHANGED <<connection, deadline, cancel, done, closed, lock, target, ret, process>>

-----------------------------------------------------------------------------
(* A goroutine calls a method of w and goes on at label r when it returns. *)
Call(g, method, w, r) ==
    /\ Goto(g, method)
    /\ target' = [target EXCEPT ![g] = w]
    /\ ret' = [ret EXCEPT ![g] = r]
    /\ UNCHANGED <<object, lock, process>>

CallSend(g, w, r) == Call(g, "send_lock", w, r)
CallClose(g, w, r) == Call(g, "close_deadline", w, r)

SendLock(g) ==
    LET w == target[g] IN
    /\ At(g, "send_lock")
    /\ writer[w] = NoOne
    /\ senders' = [senders EXCEPT ![w] = @ \cup {g}]
    /\ Goto(g, "send_check")
    /\ UNCHANGED <<object, reading, writer, target, ret, process>>

Writing(w) == {g \in senders[w] : pc[g] = "send_write"}

(* A nil connection is an error; otherwise WriteJSON starts writing. *)
SendNil(g) ==
    LET w == target[g] IN
    /\ At(g, "send_check")
    /\ ~ connection[w]
    /\ senders' = [senders EXCEPT ![w] = @ \ {g}]
    /\ Goto(g, ret[g])
    /\ UNCHANGED <<object, reading, writer, target, ret, process>>

SendBegin(g) ==
    /\ At(g, "send_check")
    /\ connection[target[g]]
    /\ Goto(g, "send_write")
    /\ UNCHANGED <<object, lock, target, ret, process>>

(* The library allows one writer at a time.  It panics when it sees a second *)
(* one; SendBegin is also possible then, as its check of isWriting is a race. *)
SendCollide(g) ==
    /\ At(g, "send_check")
    /\ connection[target[g]]
    /\ \E s \in senders[target[g]] : pc[s] = "send_write"
    /\ Panic("concurrent write")

SendWrite(g) ==
    LET w == target[g] IN
    /\ At(g, "send_write")
    /\ senders' = [senders EXCEPT ![w] = @ \ {g}]
    /\ Goto(g, ret[g])
    /\ UNCHANGED <<object, reading, writer, target, ret, process>>

-----------------------------------------------------------------------------
(* Close.  SetReadDeadline is called before the lock is taken. *)
CloseDeadline(g) ==
    LET w == target[g] IN
    /\ At(g, "close_deadline")
    /\ connection[w]
    /\ deadline' = [deadline EXCEPT ![w] = TRUE]
    /\ Goto(g, "close_lock")
    /\ UNCHANGED <<connection, cancel, done, wg, closed, lock, target, ret, process>>

CloseNil(g) ==
    /\ At(g, "close_deadline")
    /\ ~ connection[target[g]]
    /\ Panic("nil connection close")

(* Lock excludes other writers and announces itself to the readers. *)
CloseLock(g) ==
    LET w == target[g] IN
    /\ At(g, "close_lock")
    /\ writer[w] = NoOne
    /\ writer' = [writer EXCEPT ![w] = g]
    /\ Goto(g, "close_drain")
    /\ UNCHANGED <<object, reading, senders, target, ret, process>>

(* Mutant of CloseDrain: the lock only excludes the writers. *)
CloseDrainNoReader(g) ==
    /\ At(g, "close_drain")
    /\ senders[target[g]] = {}
    /\ Goto(g, "close_conn")
    /\ UNCHANGED <<object, lock, target, ret, process>>

(* Lock returns when the read locks taken before it are released. *)
CloseDrain(g) ==
    LET w == target[g] IN
    /\ At(g, "close_drain")
    /\ ~ reading[w]
    /\ senders[w] = {}
    /\ Goto(g, "close_conn")
    /\ UNCHANGED <<object, lock, target, ret, process>>

(* The connection is closed unless another Close was first; Unlock. *)
CloseConnection(g) ==
    LET w == target[g] IN
    /\ At(g, "close_conn")
    /\ connection' = [connection EXCEPT ![w] = FALSE]
    /\ writer' = [writer EXCEPT ![w] = NoOne]
    /\ Goto(g, "close_check")
    /\ UNCHANGED <<deadline, cancel, done, wg, closed, reading, senders, target, ret, process>>

CloseCheckCancel(g) ==
    /\ At(g, "close_check")
    /\ Goto(g, IF cancel[target[g]] THEN "close_cancel" ELSE "close_wait")
    /\ UNCHANGED <<object, lock, target, ret, process>>

(* ws.cancel is read again for the call: another Close may have cleared it. *)
CloseCancel(g) ==
    LET w == target[g] IN
    /\ At(g, "close_cancel")
    /\ cancel[w]
    /\ done' = [done EXCEPT ![w] = TRUE]
    /\ cancel' = [cancel EXCEPT ![w] = FALSE]
    /\ Goto(g, "close_wait")
    /\ UNCHANGED <<connection, deadline, wg, closed, lock, target, ret, process>>

CloseCancelNil(g) ==
    /\ At(g, "close_cancel")
    /\ ~ cancel[target[g]]
    /\ Panic("nil cancel")

(* Mutant of CloseWait: Close does not wait for the reading goroutine. *)
CloseWaitNot(g) ==
    /\ At(g, "close_wait")
    /\ closed' = [closed EXCEPT ![target[g]] = TRUE]
    /\ Goto(g, ret[g])
    /\ UNCHANGED <<connection, deadline, cancel, done, wg, lock, target, ret, process>>

(* wg.Wait.  No client of the source sets OnClose. *)
CloseWait(g) ==
    LET w == target[g] IN
    /\ At(g, "close_wait")
    /\ wg[w] = 0
    /\ closed' = [closed EXCEPT ![w] = TRUE]
    /\ Goto(g, ret[g])
    /\ UNCHANGED <<connection, deadline, cancel, done, wg, lock, target, ret, process>>

HandlerStep(w) ==
    \/ HandleStart(w) \/ HandleSelect(w) \/ ReadLock(w) \/ ReadNil(w)
    \/ ReadTimeout(w) \/ ReadReturn(w) \/ HandleExit(w)

CallStep(g) ==
    \/ SendLock(g) \/ SendNil(g) \/ SendBegin(g) \/ SendCollide(g) \/ SendWrite(g)
    \/ CloseDeadline(g) \/ CloseNil(g) \/ CloseLock(g) \/ CloseDrain(g)
    \/ CloseConnection(g) \/ CloseCheckCancel(g) \/ CloseCancel(g)
    \/ CloseCancelNil(g) \/ CloseWait(g)

-----------------------------------------------------------------------------
(* The object by itself: callers that open, send and close as they please. *)

Init == WsInit /\ pc = [g \in Goroutine |-> IF g \in Ws THEN "fresh" ELSE "idle"]

Open(c, w) ==
    /\ At(c, "idle")
    /\ pc[w] = "fresh"
    /\ OpenWs(w)
    /\ Goto(w, "spawned")
    /\ target' = [target EXCEPT ![c] = w]
    /\ UNCHANGED ret

Send(c, w) ==
    /\ At(c, "idle")
    /\ pc[w] # "fresh"
    /\ CallSend(c, w, "idle")

Close(c, w) ==
    /\ At(c, "idle")
    /\ pc[w] # "fresh"
    /\ CallClose(c, w, "idle")

(* OnMessage returns; before that it may call methods of any object that is  *)
(* open, its own included, and its last call may be its last statement.      *)
Callback(w) ==
    /\ At(w, "callback")
    /\ \/ /\ "return" \in CallbackOps
          /\ Goto(w, "read_return")
          /\ UNCHANGED <<object, lock, target, ret, process>>
       \/ \E v \in Ws, r \in {"callback", "read_return"} :
             /\ pc[v] # "fresh"
             /\ \/ "send" \in CallbackOps /\ CallSend(w, v, r)
                \/ "close" \in CallbackOps /\ CallClose(w, v, r)

PeerText(w) == "text" \in PeerFrames /\ ReadText(w)

(* A close frame: ReadMessage calls the close handler, which calls Close. *)
PeerClose(w) ==
    /\ "close" \in PeerFrames
    /\ At(w, "reading")
    /\ CallClose(w, w, "read_error")

PeerGone(w) == ReadFail(w)

WsStep(w) == HandlerStep(w) \/ Callback(w) \/ CallStep(w)

Next ==
    \/ \E c \in Callers : CallStep(c) \/ \E w \in Ws : Open(c, w) \/ Send(c, w) \/ Close(c, w)
    \/ \E w \in Ws : WsStep(w) \/ PeerText(w) \/ PeerClose(w) \/ PeerGone(w)

(* The scheduler runs every goroutine that can go on; nobody has to call a *)
(* method, and the peer has to send nothing.                               *)
Fairness ==
    /\ \A c \in Callers : WF_vars(CallStep(c))
    /\ \A w \in Ws : WF_vars(WsStep(w))

Spec == Init /\ [][Next]_vars
FairSpec == Spec /\ Fairness

-----------------------------------------------------------------------------
ObjectTypeOK ==
    /\ connection \in [Ws -> BOOLEAN]
    /\ deadline \in [Ws -> BOOLEAN]
    /\ cancel \in [Ws -> BOOLEAN]
    /\ done \in [Ws -> BOOLEAN]
    /\ closed \in [Ws -> BOOLEAN]
    /\ wg \in [Ws -> 0..1]
    /\ reading \in [Ws -> BOOLEAN]
    /\ senders \in [Ws -> SUBSET Goroutine]
    /\ writer \in [Ws -> Goroutine \cup {NoOne}]
    /\ target \in [Goroutine -> Ws \cup {NoOne}]

TypeOK ==
    /\ ObjectTypeOK
    /\ pc \in [Goroutine -> {"idle"} \cup HandlePc \cup ReadPc \cup SendPc \cup ClosePc]
    /\ ret \in [Goroutine -> {"idle", "callback", "read_return", "read_error"}]
    /\ process \in {"up", "nil connection read", "concurrent write",
                  "nil connection close", "nil cancel"}

InUse(w) == reading[w] \/ \E g \in Goroutine : pc[g] = "send_write" /\ target[g] = w

(* A goroutine that has found the connection usable and works on it (reads,  *)
(* runs the callback of what it read, writes) never has it closed under its  *)
(* feet, whoever calls Close and when: closeConnection waits for them all.   *)
OpenWhileInUse == \A w \in Ws : InUse(w) => connection[w]

(* Once a Close has returned, the reading goroutine will not touch the       *)
(* object again or run OnMessage: it has ended or its next select ends it.   *)
(* The Add(1) inside the goroutine makes that less than obvious: Wait may    *)
(* return before the goroutine has started.                                  *)
QuietAfterClose ==
    \A w \in Ws : closed[w] => done[w] /\ pc[w] \in {"spawned", "select", "exit", "ended"}

(* A Close of w has closed the connection and has not returned.              *)
Closing(w) ==
    \E g \in Goroutine :
        target[g] = w /\ pc[g] \in {"close_check", "close_cancel", "close_wait"}

ReadRace == \E w \in Ws : pc[w] = "read_lock" /\ Closing(w) /\ ~ closed[w]

CloseRace ==
    \E g \in Goroutine :
        pc[g] = "close_deadline" /\ (Closing(target[g]) \/ closed[target[g]])

CancelRace ==
    \E g, h \in Goroutine :
        /\ pc[g] = "close_cancel"
        /\ target[h] = target[g]
        /\ pc[h] = "close_wait" \/ closed[target[g]]

WriteRace ==
    \E g, h \in Goroutine :
        pc[g] = "send_check" /\ pc[h] = "send_write" /\ target[h] = target[g]

(* What it takes to end the process.  One Close does it: the reading          *)
(* goroutine has passed its select, and takes the read lock (websocket.go:120) *)
(* after the connection is gone and before Close returns.  The others take    *)
(* two calls: a Close after the first has closed the connection (76), two     *)
(* past the check of cancel (161), two that write (182).  Callers that never  *)
(* call two methods of an object at once, nor Close twice, can meet the first *)
(* only, and never once their Close has returned.                             *)
OnlyRacesPanic ==
    /\ process = "nil connection read" => ReadRace
    /\ process = "nil connection close" => CloseRace
    /\ process = "nil cancel" => CancelRace
    /\ process = "concurrent write" => WriteRace

(* A Close called from the reading goroutine (a close frame of the peer, or  *)
(* OnMessage closing its own object) announces Lock under its own read lock. *)
(* From then on the object is dead: no step of anybody takes the lock from   *)
(* it, lets a Send in, or closes the connection.                             *)
SelfCloseStuck ==
    [][\A w \in Ws : writer[w] = w =>
          writer'[w] = w /\ senders'[w] \subseteq senders[w] /\ connection'[w]]_vars

(* The reading goroutine waits for the lock that it holds itself: it closes   *)
(* its own object, or it sends on it after somebody has announced Lock.       *)
SelfWaiting(w) ==
    /\ reading[w]
    /\ writer[w] # NoOne
    /\ target[w] = w
    /\ pc[w] \in {"send_lock", "close_lock", "close_drain"}

(* What a goroutine inside a method waits for: h has to move first.           *)
WaitsFor(g, h) ==
    LET w == target[g] IN
    \/ pc[g] \in {"send_lock", "close_lock"} /\ h = writer[w]
    \/ pc[g] = "read_lock" /\ h = writer[g]
    \/ pc[g] = "close_drain" /\ (h \in senders[w] \/ (h = w /\ reading[w]))
    \/ pc[g] = "close_wait" /\ h = w /\ wg[w] # 0

(* It waits for nobody, and not for the peer either.                         *)
GoesOn(g) ==
    \/ pc[g] \in {"spawned", "select", "callback", "read_return", "read_error", "exit",
                  "send_check", "send_write", "close_deadline", "close_conn",
                  "close_check", "close_cancel"}
    \/ pc[g] = "reading" /\ deadline[g]

(* There is no circle of waits but through a callback (or close handler) that *)
(* calls a method, of its own object or of another, with its read lock held.  *)
(* All other waits are in the order: for the wait group, for the lock, for    *)
(* the read locks to be released; who is waited for there goes on by himself. *)
OnlyCallbacksBlock ==
    \A g, h \in Goroutine : WaitsFor(g, h) =>
        \/ GoesOn(h)
        \/ pc[g] = "close_wait" /\ pc[h] = "read_lock"
        \/ pc[g] \in {"send_lock", "close_lock", "read_lock"} /\ pc[h] = "close_drain"
        \/ h \in Ws /\ reading[h] /\ pc[h] \in SendPc \cup ClosePc

(* A Close that any goroutine calls returns, unless the process dies or the  *)
(* reading goroutine deadlocks with itself.  Nothing else holds it up: not a  *)
(* peer that is silent, a callback, a sender or another Close.                *)
CloseReturns ==
    \A c \in Callers :
        pc[c] \in ClosePc ~> \/ pc[c] = "idle"
                            \/ process # "up"
                            \/ \E w \in Ws : target[c] = w /\ SelfWaiting(w)

(* websocket.go:75 says of the short deadline "this will stop read".         *)
DeadlineStopsRead ==
    \A w \in Ws : deadline[w] ~> ~ reading[w] \/ process # "up"

=============================================================================
