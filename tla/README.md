# A verification of the KVVM device program

The program (Go, `src/`) runs on a small board between a computer, the *host*, and a
user's browser. It captures the host's screen, sends it to the browser over WebRTC, and
plays the browser's keyboard and mouse events to the host over USB. This directory holds
TLA+ models of the parts of the program where something can go wrong, the TLC runs that
check them, and TLAPS proofs about six of them. Line numbers refer to files under
`src/src/` unless they say otherwise.

- [The system](#the-system)
- [The modules and the code](#the-modules-and-the-code)
- [The runs](#the-runs)
- [Bounds](#bounds) and [fairness](#fairness)
- [What is proved](#what-is-proved)
- [What the models found](#what-the-models-found)
- [What is not modelled](#what-is-not-modelled)
- [Plan](#plan)

To run: `tlc -config MCDevice.cfg MCDevice` (any cfg with the MC module of its name's
prefix), `tlapm WebSocketProofs.tla` and likewise the other `*Proofs.tla`.

## The system

| Component | Code | State it keeps | Operations | Called by |
|---|---|---|---|---|
| Device | `device.go` | the current websocket, webrtc, video, hid, mqtt; no lock | Open, Close, handlers of mqtt and websocket messages, callbacks of WebRTC | main, mqtt, websockets, pion |
| WebSocket | `libs/websocket` | connection under an RWMutex, cancel, wait group | Open, Close, Send, SendBinary; a reading goroutine | Device |
| WebRTC | `libs/webrtc` | peer connection, tracks; no lock | Open, Close, UseOffer, AddIceCandidate, tracks | Device, pion |
| Video, VideoMonitor | `packages/video` | a socket and a child program | Open, Close | Device |
| Socket | `libs/socket` | listener and connection under an RWMutex, cancel, wait group | Open, Close, Send; an accepting and a reading goroutine | Video |
| Exec | `libs/exec` | the child, under a mutex | Start, Stop | Video |
| Gstreamer, UDP | `packages/gstreamer`, `libs/udp` | a connection and a child | Open, Close | Device |
| Hid | `packages/hid` | the gadget file under an RWMutex | Open, Close, Send | data channels, Device |
| ServeApi | `apis/serve.go` | access and refresh token under an RWMutex | GetAccessToken, both grants, useDeviceResponse | Device |
| ConfigFile | `config.go` | id, MAC and tokens, and the file | Load, Save | Device |
| Mqtt | `packages/mqtt` | paho's client; at the broker the subscription and the last status | Open, Close, Send; paho's router calls the request handler | Device |
| Front, Speech, Wifi, WakeOnLan | `packages/*`, `front.go` | | | nothing that runs |

How they interact. The server publishes requests to a topic; paho's router hands them to
Device, one after the other. A request makes Device open or close a signalling websocket, for
which ServeApi finds an access token. The browser's messages come in the websocket's
reading goroutine, inside its `OnMessage` callback, and start, use or stop a WebRTC
session; the answer goes out on the same websocket. A session starts the video pipeline,
whose frames come back in the socket's reading goroutine and go to `d.wrtc`, whatever that
is by then. Data channels write to Hid. When the peer connection closes or fails, pion
calls the state handler in a goroutine of its own, and `OnClose` gives up the websocket,
the video and hid. main closes everything at the end.

What is hard. Callbacks run with their object's lock held, and call back into it. Device's
fields are shared by at least four kinds of goroutine without a lock, and every check of a
field is separate from its use. Objects of one session live on into the next: a late
`OnClose`, a late data channel, a socket's late cleanup. Wait groups are counted up inside
the goroutines that they count. The server takes each refresh token once, and the file
the tokens are kept in is truncated before it is written: a crash, a lost answer or a failed save
in between can sign the device out.
`PROJECT.json` lists each of these hazards with its line.

What makes each part correct:

- **WebSocket**: a connection in use is not closed; a returned Close is final; Close returns;
  only calls that race end the process.
- **Device**: what is taken for a session is given up with it; one session at a time; an event
  ends the process in the ways that `CrashesAreNamed` names and in no other.
- **Video, Socket, Exec**: one child uses the capture device, its frames go to its own
  pipeline, none after Close; Close returns.
- **Hid**: one descriptor, not closed under a write; the host shows what was sent.
- **ServeApi, ConfigFile**: a device that was given an id and signed in stays so, through
  refreshes, crashes and restarts, unless one of a few named things befell it.
- **Mqtt**: a device that was never cut off hears requests; answers come in order, once each;
  a failed Open leaves nothing behind, a closed device has said so.

## The modules and the code

**`WebSocket.tla`** models `websocket.go` lock step by lock step. A websocket `w` also
names its reading goroutine; every goroutine has a place `pc[g]`, and `target[g]`,
`ret[g]` say which object's method it is in and where that returns to. The RWMutex is three
variables: the read lock of `read()` (`reading`), those of Send (`senders`), and the
goroutine that has announced `Lock` (`writer`), after which `RLock` blocks, as Go documents:
a recursive read lock behind a waiting writer is a deadlock, and that is what the model is
about. By itself the module lets its callers open, send and close as they please, and lets a
callback call any opened websocket before it returns: everything that a client may do. `process` is
`"up"` or the panic that ended the program. The panics are real
outcomes: a second Close dereferences a nil connection (76) or calls a nil cancel (161), gorilla
panics when two writes overlap (182 under a read lock), and `read()` dereferences a nil connection
(123) when it gets its lock after a Close has taken the connection away and before that Close has
cancelled the context, which the select (98) looked at earlier. The last takes no second caller.

**`Device.tla`** models the sessions of `device.go` and `webrtc.go` and *composes* them with
`WebSocket.tla`: `WS == INSTANCE WebSocket` shares `pc`, the locks and the process, and where Device
calls `ws.Close()` or `ws.Send()` the goroutine steps through WebSocket's own actions. Goroutines:
`Mqtt` (one request at a time), `Main`, the reading goroutine of each websocket, and per peer
connection pion's notification that it was lost (`Lost(r)`), that it was closed on this side
(`Closed(r)`), and of a candidate (`Ice(r)`). `wsStop`, `mediaStop`, `hid.Close` are one chain of
actions that both `OnClose` and `Device.Close` walk; a check of a field (`WsStop`), its use
(`WsStopClose`) and its clearing (`WsStopClear`) are three steps. wrtcStart (`WrtcCheck`,
`WrtcStart`), the start of media (`MediaCheck`, `MediaStart`) and the handling of an offer
(`UseCheck`, `UsePeer`) check a field in one step and set or use it in another, and so does wsStart.
A message `"use"` is an offer or a candidate with its payload, `"bare"` one without: its pointer is
nil and nobody looks (`webrtc.go:109,128`). A websocket-start renews an old token first, and when
that request gets no answer the process ends (`RefreshPanics`, `serve.go:84`). hid is `"closed"`,
`"open"`, `"writing"` while a report waits for the host, or `"stuck"` when that host sleeps;
`HidClose` waits behind a write, as the lock of `hid.go:47` does. hid is opened in one step, and a
failing or waiting Open needs none: nothing in Device asks whether it succeeded. `Overlap` says how
many goroutines may be busy when the next event comes: 0 makes events serial, 1 lets one interrupt
another. A video is only a member of `running` here, and the video monitor that Device.Close ends
(540) is left out: it shares nothing with a session.

Device is also a *client* of `WebSocket.tla` in the exact sense: `Used` instantiates it with
`pc` and `ret` mapped by `Place`, which puts a goroutine that is somewhere in `device.go` in a
callback, if it is the reading goroutine of a websocket, and at rest otherwise; a panic of
Device's own does not count. `UsesWebSockets == Used!Spec` is checked and proved. It is what
carries every theorem about websockets over to Device.

**`Session.tla`** is the abstract specification of what a session holds: a link, a peer,
media and hid; media and hid only for a peer, the peer given up last. Device's fields
implement it through the mapping `Held` (`link <- responseWs # Nil` and so on), and
`KeepsSession == Held!Spec` is checked as a property.

**`Pipeline.tla`** models `video.go` over `socket.go` and `exec.go`, one pipeline after
another on one path. The owner opens and closes; each pipeline has an accepting goroutine
(`apc`) and a reading one (`hpc`); the child is a process of its own that dials whatever
the path leads to, dies when it likes and leaves bytes behind (`"draining"`). Closing a
listener unlinks the path whoever owns it by then. Stop's branch for a Signal that fails, which
kills without waiting (`exec.go:58-61`), is left out: Signal fails for a child that has been waited
for, and only this Stop waits.

**`Feed.tla`** is the abstract specification between those two: which videos are open, and
which are inside their owner's `OnData`. It says what the owner must do (open none while
another is open) and what a video promises (only an open one calls, Close returns after
the last call). `Pipeline.tla` implements it as the video (`open` is the pipeline that the
owner is in, `calling` those at `hpc = "callback"`), `Device.tla` uses it as the owner
(`open <- running`); both check it as `KeepsFeed == Fed!Spec`. That is what makes the two
models one: Pipeline's owner opens pipelines in turn *because* Device does, though Device
opens and closes them in different goroutines.

**`Mqtt.tla`** models `mqtt.go` with the parts of `device.go` that open, use and close it.
`main` walks through Open (connect, subscribe, wait for the acknowledgement, heartbeat, set
`d.mqtt`), waits, and closes (say offline, disconnect); an Open that fails at any step closes the
client. The wait for the acknowledgement (94) has no limit of its own. The router
(`handler`) takes one request at a time from `inbox`, handles it (which may never return,
see finding 3) and answers. The broker has `subscribed`, `presence`, `answers`. paho is modelled
by the options that `mqtt.go` sets and by its defaults: it reconnects by itself, each connection
is a clean session, a QoS 0 publication is dropped and reported as done while it reconnects,
Disconnect does not wait for a handler. `cut`, `missed`, `dropped` and `unsaid` are history:
what a loss took along. What a request does is `Device.tla`. A broker that accepts the
connection and refuses the subscription is not modelled.

**`Tokens.tla`** models the tokens of `serve.go` with `config.go` and `Device.Open`. In this program
one goroutine asks for tokens, paho's router in wsStart, and nobody signs in with a code: the first
tokens come in the config file, and a sign-in of the model also stands for that. The api has a lock
and exports its sign-in, so the module is general in its callers; what it shows for two holds for
the program's one. The server's grants are numbered, `call[c]` is a caller's place, what it asked
with and was told; `mu` is the token lock, which is held while the file is saved because
`OnUpdateToken` runs under it. Save is truncate and write. The process may die at every step and
start again from the file. `excuse` is a history variable that names what befell the device: a new
device, a torn file, a failed save, a lost answer, a token not sent. The properties say what holds
*unless* one of those happened, so that each is a claim about everything else.

**`Hid.tla`** models `packages/hid`: the file and its lock, the checks of a message, the
bytes of a report, and the host, which decodes by the report descriptor in
`scripts/usb.txt` and takes one report at a time. The modifier and button masks, the byte
order and the conversion to 16 bits are computed, the key table is a constant function, and
six key bytes are a set because the host reads them as an array.

**`MC*.tla`** give TLC its values. **`WebSocketProofs.tla`**, **`TokensProofs.tla`**,
**`MqttProofs.tla`**, **`PipelineProofs.tla`**, **`HidProofs.tla`**, **`DeviceProofs.tla`** and
**`SerialProofs.tla`** hold the theorems; the last two are both about Device, whatever overlaps
and when nothing does. An operator whose comment calls it a mutant is never part of a
specification: it is the body a plausible bug would give the action after it, and shows
that the property it is meant for does fail.

## The runs

| Run | What it checks | What it shows |
|---|---|---|
| `websocket` | TypeOK, OpenWhileInUse, QuietAfterClose, OnlyCallbacksBlock, OnlyRacesPanic, SelfCloseStuck, CloseReturns | three goroutines and the reading one open, send, close; callbacks answer or close; the peer sends close frames. The lock protects every use, a returned Close is final although `wg.Add` may come after `wg.Wait`, and a self-closed object stays locked for good. Goroutines wait for one another in a circle only through a callback, or close handler, that is inside a method (OnlyCallbacksBlock). The process ends by four panics, each only at a race that OnlyRacesPanic names: a read during a Close (123), a Close after another has closed the connection (76), two past the check of cancel (161), two writes (182). A Close returns, or the process has died of one of these, or the reading goroutine waits for the lock it holds itself (`SelfWaiting`): nothing else can hold it up |
| `websocket_read` | DeadlineStopsRead, violated | see finding 1 |
| `device` | CrashesAreNamed, NothingLeaks, KeepsSession, KeepsFeed, WsNotReplaced, LostIsReleased, StopFrees | serial events over two websockets and two sessions, with failing dials, refreshes, peers and videos, messages without payload, lost peers, a host that falls asleep, and shutdown: nothing is left behind, the abstract session is kept, a video is opened when the last one is closed, a lost peer releases everything unless hid is stuck on a sleeping host, websocket-stop frees the place. Four crashes are left, and CrashesAreNamed names them: an offer for a session whose peer connection could not be made (`device.go:109`), an offer or candidate without payload (422, 408), a token that cannot be renewed for want of an answer (261), and the media source gst |
| `device_overlap` | TypeOK, UsesWebSockets, SelfClosedStaysDead | two goroutines at once, all messages and faults, all media sources. The process may end in more ways (nil websocket, nil webrtc, nil media: Device has no lock), but it calls its websockets only as WebSocket.tla allows, and a self-closed one stays locked |
| `device_peer` | ClosedByPeer, violated | finding 2 |
| `device_stop` | StopStops, violated | finding 3 |
| `pipeline` | TypeOK, NoFrameAfterClose, OneChild, OwnChild, KeepsFeed, CloseReturns | two pipelines in a row, with failures of listen, start, accept and read, late dials, dying children: they implement Feed |
| `pipeline_path` | OpenIsReachable, violated | finding 4 |
| `pipeline_eof` | EofEndsRead, violated | finding 5 |
| `tokens` | TypeOK, StaysSignedIn, KeepsIdentity, FileFollows, NeverEmpty | two callers, three grants and every fault, among them an answer, granted or refused, whose body cannot be read (it empties both tokens of the file): the device stays signed in and keeps its id unless `excuse` names why not, also across crashes and a torn file |
| `mqtt` | TypeOK, HearsUntilLoss, FailedIsSilent, OnlyEarlyRequestsCrash, AnswersInOrder, ClosedIsOffline, RequestsAreAnswered, CloseReturns | three requests, two losses, every step of Open failing, handlers that never return. The device is deaf exactly from the first loss after the subscription on (`mqtt.go:126`), though it says it is online; a request ends the process only before Open has finished or while a failed one gives up its client; answers keep their order and are given once; Close gets through |
| `hid` | TypeOK, OneFile, HostAgrees, CloseReturns | two channels, a closer and a host that may fall asleep, messages on both sides of every boundary |

Deadlock checking is off in all of them. In the session, pipeline, mqtt and websocket models the
system stops when all objects have been used; a process that has died stops by
design; with a self-close the goroutines are stuck, which SelfCloseStuck states; and a host
asleep blocks a write for good. What must not stop is stated as a liveness property.

## Bounds

- `Ws`, `Rtc`, `Pipelines`: objects are used once each, so their number is how many
  sessions follow one another. Two suffice for what goes from a session to the next (a late
  close, an unlinked path). The websocket itself is checked with one object. Its invariants are
  proved for any number. `CloseReturns` is stated of one: callbacks that call each other's
  objects can wait in a circle, which OnlyCallbacksBlock allows for any number.
- `Callers`: three for the websocket (a writer, a reader and one that comes between), two
  for tokens (more than the program has; a winner and a loser of a race).
- `MaxRequests = 3`, `MaxLosses = 2`: one request answered, one in the handler and one on its
  way; a loss before and a loss after the reconnect. The proofs hold for any of both.
- `MaxGrants = 3`: two racing refreshes and one after them; the proofs hold for any bound.
  It caps what the server grants.
- `Overlap`: 0 or 1. More than two busy goroutines add no new pair of steps, and one
  overlap already reaches every panic of Device.
- `MediaSources`: 1 video, 2 gst, 3 unknown. gst ends the process (`udp.go:132`). `device` has 1
  and 2, `device_overlap` all three; an unknown one opens no media, as a refused start does.
- `Faults`: each module's constant lists what may fail. `device` has all of its own, with a refresh
  without answer and a host that falls asleep. It leaves out the messages `webrtc-stop` and
  `close`, because they leave a goroutine stuck (finding 3); `device_overlap` has them.
- Hid's messages sit at 0, 32767, 32768, 65537 and -1, and at byte patterns that differ
  from their swapped form; one closer, which closes again and again.

## Fairness

Weak fairness of goroutines that can go on: Go's scheduler is preemptive. No fairness of events:
nobody has to send a request, a frame or a close. In Device the host takes each report until it
falls asleep, which it may at any time and for good: LostIsReleased does not assume that it wakes,
but says what is kept then (the session, in `HidClose`, and its hid). In Hid, strong fairness of
taking the lock, since Go's mutexes hand over to a waiter that starves, and a host that is awake
polls. In Pipeline an interrupted child ends (the video program handles SIGINT; if it did not,
`exec.go:64` would wait for ever, and that is an assumption) and bytes that are there are read. In
Mqtt main and the router go on when they can, and the broker acknowledges a subscription or the
connection is lost; a request, a signal, a loss and a reconnect need not come. Tokens has no
liveness property and no fairness.

## What is proved

TLC checks small instances. The following hold for every value of the constants that
satisfies the assumptions named in the modules: `GoroutineAssumption` (callers, websockets
and the null value are different things), `ClientAssumption` (what a callback and a peer may
do), `DeviceAssumption` and `CallersAssumption` (the values of Device's constants, and that a
websocket has not the name of another goroutine), `GrantsAssumption`, `DistinctAssumption` (the
same for the token model), `BoundsAssumption` (Mqtt's bounds are numbers), `NilAssumption` (of
Pipeline and of Hid: the null value is none of the others), and for Hid `KeyAssumption` (codes
from 1 to 101), `MessageAssumption` (what a message looks like) and `ReportAssumption` (a report
is not the null value). Nothing else is assumed of the number of goroutines, websockets, grants,
requests, losses, pipelines, channels or messages.

**WebSocketProofs.** `OpenWhileInUse` is not inductive: that a connection in use is open
depends on who holds which lock. The invariant is built in layers, each proved from those
before it by one case per action:

1. `Typed`: types; where a goroutine can be and where its call returns to (`CallInv`); the
   wait group is 1 exactly between the goroutine's first and last statement (`WgInv`).
2. `Locked`: the lock's variables say what the places say (`ReadInv`, `SendInv`,
   `WriteInv`), and a writer in `closeConnection`'s body is alone (`AloneInv`).
3. `OpenWhileInUse`, now by steps of the writer only.
4. `CancelInv`: an opened object can be cancelled or has been, and whoever waits has
   cancelled.
5. `QuietAfterClose`: from 1 and 4, Wait returns when the goroutine has ended or has not
   yet started, and then its select finds the context done.

`SelfCloseNeverReturns` follows from 2: the writer waits for the read lock under which its own
goroutine called it. `PanicsAreRaces` proves OnlyRacesPanic: by `GoneInv`, a connection or a cancel
that is nil again was cleared by a Close that is still inside, or has returned. `NoOtherDeadlock`
proves OnlyCallbacksBlock: waits have an order (for the wait group, for the lock, for the read locks
to be released), and the one who is waited for there goes on by himself, or waits further down the
order, or is a reading goroutine that called a method from its callback or close handler with the
read lock held. So findings 1 and 3 are the only kind of deadlock that `websocket.go` has. Beyond 2
and 4 it needs `BlockInv`: whoever waits in Close for the read lock to be released has set the read
deadline, so a goroutine that is in ReadMessage comes back. The theorems are `Typing`, `UseIsSafe`,
`CloseIsQuiet`, `SelfCloseNeverReturns`, `NoOtherDeadlock` and `PanicsAreRaces`.

**TokensProofs.** `StaysSignedIn` speaks of a device at rest; the invariant has to follow a
refresh token everywhere it can be. `FileInv` and `IdInv` relate the config, the file and the
caller that is saving. `AccessInv` says that a call which succeeds carries an access
token. `IssuedInv` bounds every token by what was issued, so that a new grant is new.
`FreshInv`: a token on its way to SetOAuthToken is taken by the server and known to no one
else. `ChainInv`: the device has a token that the server takes, or one is on its way; while
the process is down, the file has it. The theorems are `Typing`, `SignedIn`,
`IdentityKept`, `FileAgrees` and `NoEmptyToken`.

**MqttProofs.** `PlaceInv` says what holds at each place of `main`: before the subscription
nothing is on its way, `d.mqtt` is set from `open` on, the subscription lives in a connection
that is up. `OrderInv` orders the requests from the broker to the answers: those in the
inbox come after the one that is handled, and that after all that were answered.
`AnswersInOrder` alone is not inductive, since nothing in it says that what is answered
next is new. The theorems are `Typing`, `Hears`, `FailsSilently`, `CrashIsEarly`, `InOrder` and
`SaysOffline`.

**PipelineProofs.** `OwnerInv`: the path leads to the pipeline that the owner is in or
nowhere, only its child runs, and a pipeline with an acceptor is that one or closed.
`HandleInv`: the reading goroutine comes after the acceptor, the wait group is 1 exactly between
its first and last statement, and whoever waits has cancelled. From them `ClosedIsQuiet`,
`FedByItsOwn`, `AloneOnTheDevice`, and `ImplementsFeed`, which maps every step to a step of
Feed or a stutter: CloseWait to Close, because the wait group rules the callback out;
ReadReturn to Call, because a reader that is still active belongs to the open pipeline.
`CloseWaitsForRunners` is the safety core of `CloseReturns`: a Close that waits does so for a
goroutine that can take its next step and has been cancelled. `LockInv` says who holds the lock and
that a reader has the connection of its own child; with `OwnerInv` that child has ended by then,
because Video.Close stops it first, so that no read is left without an end.

**HidProofs.** Two lemmas on bytes (`WordOfBytes`: a legal number survives the conversion to
16 bits and two bytes; `BitsOfMask`) give `MouseIsRead` and `KeyboardIsRead`: for *every* legal
message the host reads back what it said and keeps the other half. `HostInv` then says that
the host shows every last message but the one whose report waits. `WaitsEndAtTheHost` says that
whenever somebody is inside `hid.go`, somebody there can go on or the host has a report to take. The
theorems are `Typing`, `OneFileOpen`, `HostShowsWritten` and `WaitsEndAtTheHost`.

**DeviceProofs.** `ImplementsWebSocket` is the refinement above, for any `Overlap` and any number
of websockets and peer connections. A step of Device is one of ten kinds (`Kinds`): a move inside
`device.go` (`Quietly`, or `Move` with a new peer connection), a call, an opening, an event of the
peer, a step inside a method or of a reading goroutine, the end of the process. Moves are
stutters of the websockets, the others are steps of theirs. That rests on `DevInv`:

1. `Shape`: types, and the places that a call may return to.
2. `OpenedInv`: `d.responseWs` and the websocket in wsStart have been opened. Methods of an
   unopened one would not be allowed, and a wsStart that set the field before it dials breaks this.
3. `OnceInv`: the goroutine in which pion reports a peer connection closed starts once, and is
   idle until then. Otherwise `pc.Close` would restart a goroutine that is inside a method.

`WebSocketsSafe`, `SelfClosedStays`, `OnlyHandlersBlock` and `Typing` then follow from
WebSocketProofs, instantiated with the same mapping (`Shown`). `OnlyHandlersBlock` carries the
deadlock theorem over: Device's goroutines wait for one another inside websockets only, and in a
circle only through a message handler or close handler that answers on or closes a websocket.

**SerialProofs.** The runs `device_overlap` and `device_peer` show what Device's missing lock does
when events overlap. These theorems show that nothing else is wrong with it: under the one
hypothesis `Overlap = 0`, for any number of websockets and peer connections, all messages, all
faults. They are `NothingIsLeaked`, `OnlyNamedCrashes` (the four of the run `device`, and no fifth),
`SessionKept` and `FeedKept` (refinements, step by step), `WebSocketNotReplaced`, and
`ClosedByItsPeer`, whose statement is the one that `device_peer` violates. `FeedKept` closes the
circle of the two models: Device, in many goroutines, keeps the order that Pipeline's single owner
is modelled with.

`Overlap = 0` delivers an event when no goroutine is busy. One event still sets several going:
`Dial` starts a reading goroutine, `pc.Close` makes pion report the change, main goes on to
leave while pion's goroutine walks the same teardown behind it. So the steps do interleave, and
the invariant says how:

1. `LockInv`, true for any `Overlap`, comes from WebSocketProofs through the refinement: who
   is in `handle`, who holds the read lock, when the wait group is 1. It is why a reading
   goroutine that closes its own websocket never gets beyond `CloseDrain`, and why a goroutine
   that is in the body of Close has no reader in its way.
2. `BusyFinite`: `Deliver` compares a cardinality, which says something only of a finite
   set. A step sets two goroutines going at most (`TwoMove`), so `Busy` stays finite even with
   infinitely many websockets. From it `Alone`: an event finds everybody at rest.
3. `WhereInv` and `ReturnInv`: whose the places are, and where a call returns to.
4. `AloneInv` and `TrailInv`: one goroutine leads; others walk the teardown only when every field
   is nil already (`Trails`). `StillInv`: no reading goroutine starts to read meanwhile.
5. `LinkInv` and `CloseInv`: an open websocket is `d.responseWs` or about to be, and that one is
   open until the goroutine that closes it has done so. The first alone is not inductive: wsStop
   clears the field after Close, and what Close has done by then is the second.
6. `ReleaseInv`: what a goroutine at each place of the chain has given up. `OwnerInv`: the session
   it gives up is `d.wrtc`. `HandleInv`: between the steps of a message handler the fields
   stay as it found them. `HoldInv`: an open peer connection is `d.wrtc`, the video and hid
   are held for it.

Each part has a lemma of its own (`WhereStep`, `ReturnStep` and so on), with one step for each
action or small group of actions. They share five facts about steps: `Steps` (the actions, or the
end of the process), `Proceeds` (an action that uses a pointer ends the process or finds it set),
`Others` (while one goroutine is on its way, where the others rest), `CallMoves` and `ReaderMoves`
(what a step inside a websocket does to the places). TLC has found the invariant true of all
reachable states of two websockets and two sessions with every message, fault and media source
before it was proved.

What `Overlap = 0` leaves out, besides overlapping events: after a webrtc-stop or a close frame
(finding 3) one goroutine is busy for good, so no further event is delivered, and these
theorems say nothing of what an event would find then. `device_overlap` has such states, and
`SelfClosedStays` and `OnlyHandlersBlock` hold of them.

**Only model-checked.** All liveness (fairness and ENABLED are out of the prover's reach):
CloseReturns of four models, LostIsReleased, StopFrees and RequestsAreAnswered. Every invariant
and action property of a passing run is a theorem.

## What the models found

1. **A callback that answers deadlocks with Close** (`websocket.go:75-79`, run
   `websocket_read`). closeConnection sets a short read deadline and comments "this will stop
   read". It does not stop a read that is in its callback, and Device's callback answers on
   the same websocket: its RLock waits behind Close's Lock, which waits for the RLock that
   `read()` holds.
2. **A session is torn down by its predecessor** (`webrtc.go:44-52`, run `device_peer`). The
   handler "close by peer" also runs for this side's own close, and OnClose works on
   Device's current fields.
3. **webrtc-stop never returns** (`device.go:133`, run `device_stop`). It closes the
   websocket in whose callback it runs; the peer's close frame does the same.
4. **A new socket's path is removed by the old one** (`socket.go:63,109`, run
   `pipeline_path`): the reading goroutine that Close did not wait for, as it had not
   yet counted itself, unlinks the path.
5. **The end of the stream spins** (`socket.go:179-180`, run `pipeline_eof`): the break leaves
   the select, and the error for an incomplete read is never reported.

Also reachable, and stated by no text of the repository: the nil dereferences of a second
Close (`websocket.go:76`) and of a read during a Close (123), overlapping writes (182), panics of
unlocked fields in Device, an offer or a candidate without payload (`webrtc.go:109,128`), a request
to the server that gets no answer (`serve.go:84`), a session that outlives its peer while the
host sleeps (`device.go:105`),
a session without connection after a failed Open (`device.go:109`), the endless recursion of
`udp.go:132`, the sign-out after an answer without refresh token (`serve.go:215`), and keys
that stay down after a session (`hid.go:54`).

## What is not modelled

- **Mqtt**: a broker that refuses the subscription, and paho's inside.
- **VideoMonitor and Front**: the same Open and Close over Socket and Exec as Video. Front
  is not opened; VideoMonitor once, on a path of its own: one pipeline of `Pipeline.tla`. Its status
  fields are only logged, by a loop that is never started.
- **Socket.Send**, header bytes: nothing in the program sends on a socket.
- **Gstreamer, UDP**: unreachable behind UDP.Open, which calls itself.
- **Speech, Wifi, src/front.go, WakeOnLan, loop and sendStatus**: no caller that runs.
- **pion, gorilla, paho, the kernel**: external, by how the code uses them.
- **Message formats, arguments, version, scripts** other than the report descriptor: data
  without control.

## Plan

Order: what a user depends on first, and what others build on before what builds on it.

1. Done: WebSocket, Tokens, Mqtt, Pipeline, Hid and Device, each with proofs; Session and Feed;
   Device over WebSocket, checked and proved against all three.
2. In `SerialProofs.tla`: let a goroutine that waits for itself count as at rest, so that the events
   after a webrtc-stop are delivered to a serial Device too; `LinkInv` then needs a case for the
   websocket that is locked for good. Little is left to learn from it: from there on every event that
   touches the websocket waits too, as `SelfClosedStays` says.
3. `Wire.tla`: header and body framing of the socket, ids and interleaved senders, with the
   byte layout of `header.go`, if a sender appears.
4. Device with the broker of `Mqtt.tla` in place of its goroutine `Mqtt`, so that a handler that is
   stuck in websocket-stop is the one that keeps later requests from being answered.
