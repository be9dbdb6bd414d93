---------------------------------- MODULE Hid ----------------------------------
(***************************************************************************)
(* src/packages/hid: the keyboard and the mouse that the device is to the  *)
(* host it controls.  A data channel of the browser opens the gadget file  *)
(* (device.go useDataChannel) and sends one message per report; the end of *)
(* a session and the end of the program close the file.  Every channel and *)
(* every closer is a goroutine of its own, and fdMu guards fd.             *)
(*                                                                         *)
(* The host reads the reports as scripts/usb.txt tells it.  The gadget     *)
(* holds one report: a write waits until the host has taken the last one,  *)
(* and waits with the read lock held.                                      *)
(***************************************************************************)
EXTENDS Integers, FiniteSets

CONSTANTS Channels, Closers, Nil,
          Files,    \* descriptors: the system gives a free one to an open
          KeyCode,  \* keyboardUsageTable
          Messages, \* what the browser sends
          Faults    \* what may go wrong

Modifiers == {"ctrl", "shift", "alt"}
Buttons == 1 .. 3
Mouse == [category : {"mouse"}, x : Int, y : Int, buttons : SUBSET Buttons]
Keyboard == [category : {"keyboard"}, modifiers : SUBSET Modifiers, keys : SUBSET STRING]

ASSUME HidFaultAssumption ==
    Faults \subseteq {"open",   \* the file cannot be opened
                      "write",  \* a write fails
                      "asleep"} \* the host takes no more reports
ASSUME KeyAssumption ==
    /\ DOMAIN KeyCode \subseteq STRING
    /\ \A k \in DOMAIN KeyCode : KeyCode[k] \in 1 .. 101
ASSUME MessageAssumption ==
    \A m \in Messages : m \in Mouse \/ m \in Keyboard \/ m = [category |-> "unknown"]
ASSUME NilAssumption ==
    Nil \notin Files \cup Channels \cup Closers \cup Messages /\ Channels \cap Closers = {}

VARIABLES fd,       \* h.fd
          files,    \* the descriptors of the gadget file that are open
          readers, writer,  \* h.fdMu: read locks held; who holds or has announced Lock
          pc,       \* where every goroutine is
          message,  \* what a channel is sending
          report,   \* the report the gadget holds for the host
          host,     \* what the host takes the keyboard and the mouse to show
          awake,    \* the host takes reports
          written   \* history: the last message of each kind that was written

locks == <<readers, writer>>
outside == <<report, host, awake, written>>
vars == <<fd, files, locks, pc, message, outside>>

At(g, label) == pc[g] = label
Goto(g, label) == pc' = [pc EXCEPT ![g] = label]

AtRest == [x |-> 0, y |-> 0, buttons |-> {}, modifiers |-> {}, keys |-> {}]

Init ==
    /\ fd = Nil /\ files = {}
    /\ readers = {} /\ writer = Nil
    /\ pc = [g \in Channels \cup Closers |-> IF g \in Channels THEN "none" ELSE "idle"]
    /\ message = [c \in Channels |-> Nil]
    /\ report = Nil /\ host = AtRest /\ awake = TRUE
    /\ written = [mouse |-> Nil, keyboard |-> Nil]

-----------------------------------------------------------------------------
(* Bytes: what Go's conversions and encoding/binary do, and the host undoes. *)
Byte(n) == n % 256
Uint16(n) == n % 65536
LittleEndian(n) == <<Byte(n), Byte(n \div 256)>>
Word(b) == b[1] + 256 * b[2]
Mask(b0, b1, b2) == (IF b0 THEN 1 ELSE 0) + (IF b1 THEN 2 ELSE 0) + (IF b2 THEN 4 ELSE 0)
Bit(byte, weight) == (byte \div weight) % 2 = 1

(* UnmarshalHidData: an unknown category and a position outside are errors. *)
InRange(n) == 0 <= n /\ n < 32768
(* Mutant of Legal: the upper bound is one too high. *)
LegalUpTo(m) ==
    \/ m.category = "mouse" /\ \A n \in {m.x, m.y} : 0 <= n /\ n <= 32768
    \/ m.category = "keyboard"

Legal(m) ==
    \/ m.category = "mouse" /\ InRange(m.x) /\ InRange(m.y)
    \/ m.category = "keyboard"

FindKeyCode(k) == IF k \in DOMAIN KeyCode THEN KeyCode[k] ELSE 0

MouseReport(m) ==
    [id |-> 2, buttons |-> Mask(1 \in m.buttons, 2 \in m.buttons, 3 \in m.buttons),
     x |-> LittleEndian(Uint16(m.x)), y |-> LittleEndian(Uint16(m.y))]

(* The six key bytes are a set here: the host reads an array, in no order. *)
KeyboardReport(m) ==
    [id |-> 1,
     modifiers |-> Mask("ctrl" \in m.modifiers, "shift" \in m.modifiers, "alt" \in m.modifiers),
     keys |-> {FindKeyCode(k) : k \in m.keys}]

Report(m) == IF m.category = "mouse" THEN MouseReport(m) ELSE KeyboardReport(m)

ASSUME ReportAssumption == \A m \in Messages : Legal(m) => Report(m) # Nil

(* scripts/usb.txt, on the host: eight modifier bits from LeftControl up and *)
(* six key codes, 0 for none; three button bits, two absolute axes, and a    *)
(* value above LOGICAL_MAXIMUM is no value.                                  *)
HostModifier == [ctrl |-> 1, shift |-> 2, alt |-> 4]
HostButton == <<1, 2, 4>>
HostAxis(old, b) == IF Word(b) <= 32767 THEN Word(b) ELSE old
HostKeyboard(r, h) ==
    [h EXCEPT !.modifiers = {k \in Modifiers : Bit(r.modifiers, HostModifier[k])},
              !.keys = r.keys \ {0}]
HostMouse(r, h) ==
    [h EXCEPT !.buttons = {b \in Buttons : Bit(r.buttons, HostButton[b])},
              !.x = HostAxis(h.x, r.x), !.y = HostAxis(h.y, r.y)]
HostReads(r, h) == IF r.id = 1 THEN HostKeyboard(r, h) ELSE HostMouse(r, h)

-----------------------------------------------------------------------------
(* fdMu.Lock, of openFile and closeFile: a goroutine that has announced it   *)
(* keeps new readers out and waits for those inside.                         *)
LockFile(g) ==
    /\ At(g, "opening") \/ At(g, "closing")
    /\ writer = Nil
    /\ writer' = g
    /\ UNCHANGED <<fd, files, readers, pc, message, outside>>

Locked(g) == writer = g /\ readers = {}

(* useDataChannel of a channel named hid.  What Open returns is not looked   *)
(* at: messages are accepted with the file open or not.                      *)
OpenChannel(c) ==
    /\ At(c, "none")
    /\ Goto(c, "opening")
    /\ UNCHANGED <<fd, files, locks, message, outside>>

OpenReturn(c) ==
    /\ writer' = Nil
    /\ Goto(c, "idle")
    /\ UNCHANGED <<readers, message, outside>>

(* Mutant of OpenFile: openFile does not look at fd. *)
OpenFileAgain(c) ==
    /\ At(c, "opening") /\ Locked(c)
    /\ \E f \in Files \ files : fd' = f /\ files' = files \cup {f}
    /\ OpenReturn(c)

OpenFile(c) ==
    /\ At(c, "opening") /\ Locked(c)
    /\ fd = Nil
    /\ \E f \in Files \ files : fd' = f /\ files' = files \cup {f}
    /\ OpenReturn(c)

OpenFails(c) ==
    /\ At(c, "opening") /\ Locked(c)
    /\ fd # Nil \/ "open" \in Faults
    /\ OpenReturn(c)
    /\ UNCHANGED <<fd, files>>

ChannelEnds(c) ==
    /\ At(c, "idle")
    /\ Goto(c, "none")
    /\ UNCHANGED <<fd, files, locks, message, outside>>

(* OnMessage: Send.  A message that is not legal is dropped. *)
Receive(c, m) ==
    /\ At(c, "idle")
    /\ Legal(m)
    /\ Goto(c, "sending")
    /\ message' = [message EXCEPT ![c] = m]
    /\ UNCHANGED <<fd, files, locks, outside>>

SendReturn(c) ==
    /\ Goto(c, "idle")
    /\ message' = [message EXCEPT ![c] = Nil]

(* write: the read lock, then the check of fd, then the write. *)
WriteNil(c) ==
    /\ At(c, "sending") /\ writer = Nil
    /\ fd = Nil
    /\ SendReturn(c)
    /\ UNCHANGED <<fd, files, locks, outside>>

WriteBegin(c) ==
    /\ At(c, "sending") /\ writer = Nil
    /\ fd # Nil
    /\ readers' = readers \cup {c}
    /\ Goto(c, "writing")
    /\ UNCHANGED <<fd, files, writer, message, outside>>

Write(c) ==
    /\ At(c, "writing")
    /\ report = Nil
    /\ report' = Report(message[c])
    /\ written' = [written EXCEPT ![message[c].category] = message[c]]
    /\ readers' = readers \ {c}
    /\ SendReturn(c)
    /\ UNCHANGED <<fd, files, writer, host, awake>>

(* Mutant of WriteFails: the error is returned with the lock held. *)
WriteFailsLocked(c) ==
    /\ At(c, "writing")
    /\ "write" \in Faults
    /\ SendReturn(c)
    /\ UNCHANGED <<fd, files, locks, outside>>

WriteFails(c) ==
    /\ At(c, "writing")
    /\ "write" \in Faults
    /\ readers' = readers \ {c}
    /\ SendReturn(c)
    /\ UNCHANGED <<fd, files, writer, outside>>

-----------------------------------------------------------------------------
(* hid.Close: of OnClose of a session, and of Device.Close. *)
CallClose(k) ==
    /\ At(k, "idle")
    /\ Goto(k, "closing")
    /\ UNCHANGED <<fd, files, locks, message, outside>>

(* With fd nil it is the error "hid null fd", which Close drops. *)
CloseFile(k) ==
    /\ At(k, "closing") /\ Locked(k)
    /\ files' = files \ {fd}
    /\ fd' = Nil
    /\ writer' = Nil
    /\ Goto(k, "idle")
    /\ UNCHANGED <<readers, message, outside>>

-----------------------------------------------------------------------------
(* The host. *)
HostTakes ==
    /\ awake /\ report # Nil
    /\ host' = HostReads(report, host)
    /\ report' = Nil
    /\ UNCHANGED <<fd, files, locks, pc, message, awake, written>>

HostSleeps ==
    /\ "asleep" \in Faults /\ awake
    /\ awake' = FALSE
    /\ UNCHANGED <<fd, files, locks, pc, message, report, host, written>>

OpenStep(c) == OpenChannel(c) \/ OpenFile(c) \/ OpenFails(c) \/ ChannelEnds(c)
SendStep(c) == WriteNil(c) \/ WriteBegin(c) \/ Write(c) \/ WriteFails(c)

Next ==
    \/ \E g \in Channels \cup Closers : LockFile(g)
    \/ \E c \in Channels : OpenStep(c) \/ SendStep(c) \/ \E m \in Messages : Receive(c, m)
    \/ \E k \in Closers : CallClose(k) \/ CloseFile(k)
    \/ HostTakes \/ HostSleeps

(* Goroutines that can run do, Go's mutex lets nobody starve, and a host that *)
(* is awake polls.  Nothing has to open a channel, send or close.             *)
Fairness ==
    /\ \A g \in Channels \cup Closers : SF_vars(LockFile(g))
    /\ \A c \in Channels :
        /\ WF_vars(OpenFile(c) \/ OpenFails(c))
        /\ SF_vars(WriteNil(c) \/ WriteBegin(c))
        /\ WF_vars(Write(c))
    /\ \A k \in Closers : WF_vars(CloseFile(k))
    /\ WF_vars(HostTakes)

Spec == Init /\ [][Next]_vars
FairSpec == Spec /\ Fairness

-----------------------------------------------------------------------------
(* The types of the variables, and that every read lock is held by a write   *)
(* in progress.                                                              *)
TypeOK ==
    /\ fd \in Files \cup {Nil} /\ files \subseteq Files
    /\ readers = {c \in Channels : At(c, "writing")}
    /\ writer \in Channels \cup Closers \cup {Nil}
    /\ pc \in [Channels \cup Closers ->
               {"none", "opening", "idle", "sending", "writing", "closing"}]
    /\ message \in [Channels -> Messages \cup {Nil}]
    /\ \A c \in Channels :
        IF pc[c] \in {"sending", "writing"}
        THEN message[c] \in Messages /\ Legal(message[c])
        ELSE message[c] = Nil
    /\ awake \in BOOLEAN

(* A write in progress has its descriptor open until it ends, whoever closes *)
(* the file (hid.go:54 against hid.go:69), and the file is open once at most:*)
(* channels that open it again, in a session or across two, leave no second  *)
(* descriptor behind (hid.go:32).                                            *)
OneFile ==
    /\ files = IF fd = Nil THEN {} ELSE {fd}
    /\ \A c \in readers : fd \in files

(* What the host shows is what the browser's messages said, in the messages' *)
(* own terms: the bits, the byte order and the ranges that hid.go writes are *)
(* the ones scripts/usb.txt declares, and each kind of report leaves the     *)
(* other half alone, so that keys stay held under a drag (hid.go:97, 126).   *)
Shows(h, m) ==
    /\ m.category = "mouse" => h.x = m.x /\ h.y = m.y /\ h.buttons = m.buttons
    /\ m.category = "keyboard" =>
        /\ h.modifiers = m.modifiers
        /\ h.keys = {KeyCode[k] : k \in m.keys \cap DOMAIN KeyCode}

HostAgrees ==
    report = Nil => \A kind \in DOMAIN written :
                        written[kind] # Nil => Shows(host, written[kind])

(* hid.Close returns, whatever the channels do meanwhile, as long as the host *)
(* takes reports: the end of a session waits for a write (hid.go:47), and     *)
(* with a host asleep it waits for good.                                      *)
CloseReturns == \A k \in Closers : At(k, "closing") ~> (At(k, "idle") \/ ~awake)

=============================================================================
