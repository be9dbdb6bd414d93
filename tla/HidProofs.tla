------------------------------- MODULE HidProofs -------------------------------
(***************************************************************************)
(* What Hid.tla keeps for any number of channels, closers and descriptors  *)
(* and for every message a browser may send: the bytes of a report mean to *)
(* the host what the message said (the lemmas on bytes and masks), the     *)
(* file's lock keeps a write and a close apart (FileStep), and the host    *)
(* shows the last messages (HostStep).                                     *)
(***************************************************************************)
EXTENDS Hid, TLAPS

Kinds == {"mouse", "keyboard"}

(* The last message of a kind is one that was legal. *)
WrittenInv ==
    /\ written \in [Kinds -> Messages \cup {Nil}]
    /\ \A kind \in Kinds : written[kind] # Nil =>
            Legal(written[kind]) /\ written[kind].category = kind

HostType ==
    host \in [x : Int, y : Int, buttons : SUBSET Buttons,
              modifiers : SUBSET Modifiers, keys : SUBSET Int]

(* The host shows every message but the one in the report that waits. *)
HostInv ==
    \/ report = Nil /\ \A kind \in Kinds : written[kind] # Nil => Shows(host, written[kind])
    \/ \E kind \in Kinds :
        /\ written[kind] # Nil
        /\ report = Report(written[kind])
        /\ \A other \in Kinds \ {kind} : written[other] # Nil => Shows(host, written[other])

IInv == TypeOK /\ OneFile /\ WrittenInv /\ HostType /\ HostInv

-----------------------------------------------------------------------------
(* Legal numbers survive the conversion to 16 bits and the two bytes. *)
LEMMA WordOfBytes ==
    ASSUME NEW n \in Int, InRange(n)
    PROVE  /\ Word(LittleEndian(Uint16(n))) = n
           /\ \A old : HostAxis(old, LittleEndian(Uint16(n))) = n
<1>1. Uint16(n) = n
    BY DEF Uint16, InRange
<1>2. LittleEndian(n)[1] = n % 256 /\ LittleEndian(n)[2] = (n \div 256) % 256
    BY DEF LittleEndian, Byte
<1>3. (n \div 256) % 256 = n \div 256
    BY DEF InRange
<1>4. (n % 256) + 256 * (n \div 256) = n
    OBVIOUS
<1>5. Word(LittleEndian(Uint16(n))) = n
    BY <1>1, <1>2, <1>3, <1>4 DEF Word
<1>6. QED
    BY <1>5 DEF HostAxis, InRange

(* The host finds in a mask the bits of those that were in the message. *)
LEMMA BitsOfMask ==
    ASSUME NEW S, NEW a, NEW b, NEW c
    PROVE  LET mask == Mask(a \in S, b \in S, c \in S) IN
           /\ Bit(mask, 1) <=> a \in S
           /\ Bit(mask, 2) <=> b \in S
           /\ Bit(mask, 4) <=> c \in S
<1>1. CASE a \in S
  <2>1. CASE b \in S
      BY <1>1, <2>1 DEF Bit, Mask
  <2>2. CASE b \notin S
      BY <1>1, <2>2 DEF Bit, Mask
  <2>3. QED
      BY <2>1, <2>2
<1>2. CASE a \notin S
  <2>1. CASE b \in S
      BY <1>2, <2>1 DEF Bit, Mask
  <2>2. CASE b \notin S
      BY <1>2, <2>2 DEF Bit, Mask
  <2>3. QED
      BY <2>1, <2>2
<1>3. QED
    BY <1>1, <1>2

(* A mouse report tells the host what its message said, and no more. *)
LEMMA MouseIsRead ==
    ASSUME HostType, NEW m \in Mouse, Legal(m)
    PROVE  LET h == HostReads(Report(m), host) IN
           /\ Shows(h, m)
           /\ h.modifiers = host.modifiers /\ h.keys = host.keys
           /\ h \in [x : Int, y : Int, buttons : SUBSET Buttons,
                     modifiers : SUBSET Modifiers, keys : SUBSET Int]
<1> DEFINE r == MouseReport(m)
           h == HostMouse(r, host)
<1>1. m.category = "mouse" /\ m.x \in Int /\ m.y \in Int /\ m.buttons \subseteq Buttons
    BY DEF Mouse
<1>2. InRange(m.x) /\ InRange(m.y)
    BY <1>1 DEF Legal
<1>3. HostReads(Report(m), host) = h
    BY <1>1 DEF HostReads, Report, MouseReport
<1>4. h.x = m.x /\ h.y = m.y /\ h.modifiers = host.modifiers /\ h.keys = host.keys
    BY <1>1, <1>2, WordOfBytes DEF HostType, HostMouse, MouseReport
<1>5. h.buttons = m.buttons
  <2>1. h.buttons = {b \in Buttons : Bit(r.buttons, HostButton[b])}
      BY DEF HostType, HostMouse
  <2>2. r.buttons = Mask(1 \in m.buttons, 2 \in m.buttons, 3 \in m.buttons)
      BY DEF MouseReport
  <2>3. /\ Bit(r.buttons, 1) <=> 1 \in m.buttons
        /\ Bit(r.buttons, 2) <=> 2 \in m.buttons
        /\ Bit(r.buttons, 4) <=> 3 \in m.buttons
      BY <2>2, BitsOfMask
  <2>4. HostButton[1] = 1 /\ HostButton[2] = 2 /\ HostButton[3] = 4
      BY DEF HostButton
  <2>5. \A b \in Buttons : Bit(r.buttons, HostButton[b]) <=> b \in m.buttons
      BY <2>3, <2>4 DEF Buttons
  <2>6. QED
      BY <1>1, <2>1, <2>5
<1>6. h \in [x : Int, y : Int, buttons : SUBSET Buttons,
             modifiers : SUBSET Modifiers, keys : SUBSET Int]
  <2>1. h = [host EXCEPT !.buttons = h.buttons, !.x = h.x, !.y = h.y]
      BY DEF HostType, HostMouse
  <2>2. QED
      BY <1>1, <1>4, <1>5, <2>1 DEF HostType
<1>7. QED
    BY <1>1, <1>3, <1>4, <1>5, <1>6 DEF Shows

(* A keyboard report tells the host what its message said, and no more. *)
LEMMA KeyboardIsRead ==
    ASSUME HostType, NEW m \in Keyboard
    PROVE  LET h == HostReads(Report(m), host) IN
           /\ Shows(h, m)
           /\ h.x = host.x /\ h.y = host.y /\ h.buttons = host.buttons
           /\ h \in [x : Int, y : Int, buttons : SUBSET Buttons,
                     modifiers : SUBSET Modifiers, keys : SUBSET Int]
<1> DEFINE r == KeyboardReport(m)
           h == HostKeyboard(r, host)
<1>1. m.category = "keyboard" /\ m.modifiers \subseteq Modifiers
    BY DEF Keyboard
<1>2. HostReads(Report(m), host) = h
    BY <1>1 DEF HostReads, Report, KeyboardReport
<1>3. h.x = host.x /\ h.y = host.y /\ h.buttons = host.buttons
    BY DEF HostType, HostKeyboard
<1>4. h.modifiers = m.modifiers
  <2>1. h.modifiers = {k \in Modifiers : Bit(r.modifiers, HostModifier[k])}
      BY DEF HostType, HostKeyboard
  <2>2. r.modifiers = Mask("ctrl" \in m.modifiers, "shift" \in m.modifiers, "alt" \in m.modifiers)
      BY DEF KeyboardReport
  <2>3. /\ Bit(r.modifiers, 1) <=> "ctrl" \in m.modifiers
        /\ Bit(r.modifiers, 2) <=> "shift" \in m.modifiers
        /\ Bit(r.modifiers, 4) <=> "alt" \in m.modifiers
      BY <2>2, BitsOfMask
  <2>4. /\ HostModifier["ctrl"] = 1 /\ HostModifier["shift"] = 2
        /\ HostModifier["alt"] = 4
      BY DEF HostModifier
  <2>5. \A k \in Modifiers : Bit(r.modifiers, HostModifier[k]) <=> k \in m.modifiers
      BY <2>3, <2>4 DEF Modifiers
  <2>6. QED
      BY <1>1, <2>1, <2>5
<1>5. h.keys = {KeyCode[k] : k \in m.keys \cap DOMAIN KeyCode}
  <2>1. h.keys = {FindKeyCode(k) : k \in m.keys} \ {0}
      BY DEF HostType, HostKeyboard, KeyboardReport
  <2>2. \A k \in DOMAIN KeyCode : FindKeyCode(k) = KeyCode[k] /\ KeyCode[k] # 0
      BY KeyAssumption DEF FindKeyCode
  <2>3. \A k : k \notin DOMAIN KeyCode => FindKeyCode(k) = 0
      BY DEF FindKeyCode
  <2>4. QED
      BY <2>1, <2>2, <2>3
<1>6. h.keys \subseteq Int
    BY <1>5, KeyAssumption
<1>7. h \in [x : Int, y : Int, buttons : SUBSET Buttons,
             modifiers : SUBSET Modifiers, keys : SUBSET Int]
  <2>1. h = [host EXCEPT !.modifiers = h.modifiers, !.keys = h.keys]
      BY DEF HostType, HostKeyboard
  <2>2. QED
      BY <1>1, <1>4, <1>6, <2>1 DEF HostType
<1>8. QED
    BY <1>1, <1>2, <1>3, <1>4, <1>5, <1>7 DEF Shows
-----------------------------------------------------------------------------
(* A channel has a legal message exactly while it sends it, and a read lock  *)
(* exactly while it writes.                                                  *)
LEMMA TypeStep ==
    ASSUME TypeOK, [Next]_vars
    PROVE  TypeOK'
<1>1. ASSUME NEW g \in Channels \cup Closers, LockFile(g) PROVE TypeOK'
    BY <1>1, NilAssumption DEF TypeOK, LockFile, At, locks, outside
<1>2. ASSUME NEW c \in Channels, OpenChannel(c) PROVE TypeOK'
    BY <1>2, NilAssumption DEF TypeOK, OpenChannel, At, Goto, locks, outside
<1>3. ASSUME NEW c \in Channels, OpenFile(c) PROVE TypeOK'
    BY <1>3, NilAssumption DEF TypeOK, OpenFile, OpenReturn, Locked, At, Goto, locks, outside
<1>4. ASSUME NEW c \in Channels, OpenFails(c) PROVE TypeOK'
    BY <1>4, NilAssumption DEF TypeOK, OpenFails, OpenReturn, Locked, At, Goto, locks, outside
<1>5. ASSUME NEW c \in Channels, ChannelEnds(c) PROVE TypeOK'
    BY <1>5, NilAssumption DEF TypeOK, ChannelEnds, At, Goto, locks, outside
<1>6. ASSUME NEW c \in Channels, WriteNil(c) PROVE TypeOK'
    BY <1>6, NilAssumption DEF TypeOK, WriteNil, SendReturn, At, Goto, locks, outside
<1>7. ASSUME NEW c \in Channels, WriteBegin(c) PROVE TypeOK'
    BY <1>7, NilAssumption DEF TypeOK, WriteBegin, At, Goto, locks, outside
<1>8. ASSUME NEW c \in Channels, Write(c) PROVE TypeOK'
    BY <1>8, NilAssumption DEF TypeOK, Write, SendReturn, At, Goto, locks, outside
<1>9. ASSUME NEW c \in Channels, WriteFails(c) PROVE TypeOK'
    BY <1>9, NilAssumption DEF TypeOK, WriteFails, SendReturn, At, Goto, locks, outside
<1>10. ASSUME NEW c \in Channels, NEW m \in Messages, Receive(c, m) PROVE TypeOK'
    BY <1>10, NilAssumption DEF TypeOK, Receive, At, Goto, locks, outside
<1>11. ASSUME NEW k \in Closers, CallClose(k) PROVE TypeOK'
    BY <1>11, NilAssumption DEF TypeOK, CallClose, At, Goto, locks, outside
<1>12. ASSUME NEW k \in Closers, CloseFile(k) PROVE TypeOK'
    BY <1>12, NilAssumption DEF TypeOK, CloseFile, Locked, At, Goto, locks, outside
<1>13. ASSUME HostTakes PROVE TypeOK'
    BY <1>13, NilAssumption DEF TypeOK, At, HostTakes, locks, outside
<1>14. ASSUME HostSleeps PROVE TypeOK'
    BY <1>14, NilAssumption DEF TypeOK, At, HostSleeps, locks, outside
<1>15. CASE UNCHANGED vars
    BY <1>15 DEF TypeOK, At, vars, locks, outside
<1>16. QED
    BY <1>1, <1>2, <1>3, <1>4, <1>5, <1>6, <1>7, <1>8,
       <1>9, <1>10, <1>11, <1>12, <1>13, <1>14, <1>15 DEF Next, OpenStep, SendStep

(* A descriptor is opened only when there is none, and closed only when      *)
(* nobody writes.                                                            *)
LEMMA FileStep ==
    ASSUME TypeOK, OneFile, [Next]_vars
    PROVE  OneFile'
<1>1. ASSUME NEW g \in Channels \cup Closers, LockFile(g) PROVE OneFile'
    BY <1>1, NilAssumption DEF TypeOK, OneFile, LockFile, At, locks, outside
<1>2. ASSUME NEW c \in Channels, OpenChannel(c) PROVE OneFile'
    BY <1>2, NilAssumption DEF TypeOK, OneFile, OpenChannel, At, Goto, locks, outside
<1>3. ASSUME NEW c \in Channels, OpenFile(c) PROVE OneFile'
    BY <1>3, NilAssumption DEF TypeOK, OneFile, OpenFile, OpenReturn, Locked, At, Goto, locks, outside
<1>4. ASSUME NEW c \in Channels, OpenFails(c) PROVE OneFile'
    BY <1>4, NilAssumption DEF TypeOK, OneFile, OpenFails, OpenReturn, Locked, At, Goto, locks, outside
<1>5. ASSUME NEW c \in Channels, ChannelEnds(c) PROVE OneFile'
    BY <1>5, NilAssumption DEF TypeOK, OneFile, ChannelEnds, At, Goto, locks, outside
<1>6. ASSUME NEW c \in Channels, WriteNil(c) PROVE OneFile'
    BY <1>6, NilAssumption DEF TypeOK, OneFile, WriteNil, SendReturn, At, Goto, locks, outside
<1>7. ASSUME NEW c \in Channels, WriteBegin(c) PROVE OneFile'
    BY <1>7, NilAssumption DEF TypeOK, OneFile, WriteBegin, At, Goto, locks, outside
<1>8. ASSUME NEW c \in Channels, Write(c) PROVE OneFile'
    BY <1>8, NilAssumption DEF TypeOK, OneFile, Write, SendReturn, At, Goto, locks, outside
<1>9. ASSUME NEW c \in Channels, WriteFails(c) PROVE OneFile'
    BY <1>9, NilAssumption DEF TypeOK, OneFile, WriteFails, SendReturn, At, Goto, locks, outside
<1>10. ASSUME NEW c \in Channels, NEW m \in Messages, Receive(c, m) PROVE OneFile'
    BY <1>10, NilAssumption DEF TypeOK, OneFile, Receive, At, Goto, locks, outside
<1>11. ASSUME NEW k \in Closers, CallClose(k) PROVE OneFile'
    BY <1>11, NilAssumption DEF TypeOK, OneFile, CallClose, At, Goto, locks, outside
<1>12. ASSUME NEW k \in Closers, CloseFile(k) PROVE OneFile'
    BY <1>12, NilAssumption DEF TypeOK, OneFile, CloseFile, Locked, At, Goto, locks, outside
<1>13. ASSUME HostTakes PROVE OneFile'
    BY <1>13, NilAssumption DEF TypeOK, OneFile, HostTakes, locks, outside
<1>14. ASSUME HostSleeps PROVE OneFile'
    BY <1>14, NilAssumption DEF TypeOK, OneFile, HostSleeps, locks, outside
<1>15. CASE UNCHANGED vars
    BY <1>15 DEF TypeOK, OneFile, At, vars, locks, outside
<1>16. QED
    BY <1>1, <1>2, <1>3, <1>4, <1>5, <1>6, <1>7, <1>8,
       <1>9, <1>10, <1>11, <1>12, <1>13, <1>14, <1>15 DEF Next, OpenStep, SendStep

(* The kinds of a legal message. *)
LEMMA LegalMessages ==
    ASSUME NEW m \in Messages, Legal(m)
    PROVE  /\ m.category \in Kinds
           /\ m.category = "mouse" => m \in Mouse
           /\ m.category = "keyboard" => m \in Keyboard
<1>1. m # [category |-> "unknown"]
    BY DEF Legal
<1>2. QED
    BY <1>1, MessageAssumption DEF Kinds, Legal, Mouse, Keyboard

(* What a write hands over is legal, and of its message's kind. *)
LEMMA WrittenStep ==
    ASSUME TypeOK, WrittenInv, [Next]_vars
    PROVE  WrittenInv'
<1>1. ASSUME NEW c \in Channels, Write(c) PROVE WrittenInv'
  <2>1. message[c] \in Messages /\ Legal(message[c])
      BY <1>1 DEF Write, At, TypeOK
  <2>2. message[c].category \in Kinds
      BY <2>1, LegalMessages
  <2>3. written' = [written EXCEPT ![message[c].category] = message[c]]
      BY <1>1 DEF Write
  <2>4. QED
      BY <2>1, <2>2, <2>3 DEF WrittenInv
<1>2. CASE UNCHANGED written
    BY <1>2 DEF WrittenInv
<1>3. QED
    BY <1>1, <1>2
    DEF Next, OpenStep, SendStep, LockFile, OpenChannel, OpenFile, OpenFails, OpenReturn,
        ChannelEnds, WriteNil, WriteBegin, WriteFails, Receive, CallClose, CloseFile,
        HostTakes, HostSleeps, outside, vars

(* A write puts its message into the empty report and the host takes it: no  *)
(* other step touches what the host shows or has still to read.              *)
LEMMA HostStep ==
    ASSUME TypeOK, WrittenInv, HostType, HostInv, [Next]_vars
    PROVE  HostType' /\ HostInv'
<1>1. ASSUME NEW c \in Channels, Write(c) PROVE HostType' /\ HostInv'
  <2> DEFINE m == message[c]
  <2>1. m \in Messages /\ Legal(m)
      BY <1>1 DEF Write, At, TypeOK
  <2>2. m.category \in Kinds /\ m # Nil
      BY <2>1, LegalMessages, NilAssumption
  <2>3. /\ report = Nil /\ report' = Report(m)
        /\ written' = [written EXCEPT ![m.category] = m]
        /\ UNCHANGED host
      BY <1>1 DEF Write
  <2>4. written'[m.category] = m
      BY <2>2, <2>3 DEF WrittenInv
  <2>5. \A other \in Kinds \ {m.category} : written'[other] = written[other]
      BY <2>2, <2>3 DEF WrittenInv
  <2>6. \A kind \in Kinds : written[kind] # Nil => Shows(host, written[kind])
    <3>1. \A kind \in Kinds : written[kind] # Nil => Report(written[kind]) # Nil
        BY ReportAssumption DEF WrittenInv
    <3>2. QED
        BY <2>3, <3>1 DEF HostInv
  <2>7. HostInv'
    <3>1. \A other \in Kinds \ {m.category} :
              written'[other] # Nil => Shows(host', written'[other])
        BY <2>3, <2>5, <2>6
    <3>2. QED
        BY <2>2, <2>3, <2>4, <3>1 DEF HostInv
  <2>8. QED
      BY <2>3, <2>7 DEF HostType
<1>2. CASE HostTakes
  <2>1. report # Nil /\ report' = Nil /\ host' = HostReads(report, host) /\ UNCHANGED written
      BY <1>2 DEF HostTakes
  <2>2. PICK kind \in Kinds :
            /\ written[kind] # Nil
            /\ report = Report(written[kind])
            /\ \A other \in Kinds \ {kind} : written[other] # Nil => Shows(host, written[other])
      BY <2>1 DEF HostInv
  <2>3. written[kind] \in Messages /\ Legal(written[kind]) /\ written[kind].category = kind
      BY <2>2 DEF WrittenInv
  <2>4. CASE kind = "mouse"
    <3>1. written[kind] \in Mouse
        BY <2>3, <2>4, LegalMessages
    <3>2. /\ Shows(host', written[kind]) /\ HostType'
          /\ host'.modifiers = host.modifiers /\ host'.keys = host.keys
        BY <2>1, <2>2, <2>3, <3>1, MouseIsRead DEF HostType
    <3>3. written["keyboard"] # Nil => Shows(host', written["keyboard"])
      <4>1. SUFFICES ASSUME written["keyboard"] # Nil
                     PROVE  Shows(host', written["keyboard"])
          OBVIOUS
      <4>2. Shows(host, written["keyboard"]) /\ written["keyboard"].category = "keyboard"
          BY <2>2, <2>4, <4>1 DEF Kinds, WrittenInv
      <4>3. QED
          BY <3>2, <4>2 DEF Shows
    <3>4. QED
        BY <2>1, <2>4, <3>2, <3>3 DEF HostInv, Kinds
  <2>5. CASE kind = "keyboard"
    <3>1. written[kind] \in Keyboard
        BY <2>3, <2>5, LegalMessages
    <3>2. /\ Shows(host', written[kind]) /\ HostType'
          /\ host'.x = host.x /\ host'.y = host.y /\ host'.buttons = host.buttons
        BY <2>1, <2>2, <3>1, KeyboardIsRead DEF HostType
    <3>3. written["mouse"] # Nil => Shows(host', written["mouse"])
      <4>1. SUFFICES ASSUME written["mouse"] # Nil
                     PROVE  Shows(host', written["mouse"])
          OBVIOUS
      <4>2. Shows(host, written["mouse"]) /\ written["mouse"].category = "mouse"
          BY <2>2, <2>5, <4>1 DEF Kinds, WrittenInv
      <4>3. QED
          BY <3>2, <4>2 DEF Shows
    <3>4. QED
        BY <2>1, <2>5, <3>2, <3>3 DEF HostInv, Kinds
  <2>6. QED
      BY <2>4, <2>5 DEF Kinds
<1>3. CASE UNCHANGED <<report, host, written>>
    BY <1>3 DEF HostType, HostInv
<1>4. QED
    BY <1>1, <1>2, <1>3
    DEF Next, OpenStep, SendStep, LockFile, OpenChannel, OpenFile, OpenFails, OpenReturn,
        ChannelEnds, WriteNil, WriteBegin, WriteFails, Receive, CallClose, CloseFile,
        HostSleeps, outside, vars

-----------------------------------------------------------------------------
(* IInv holds in every state of every behaviour. *)
THEOREM Invariance == Spec => []IInv
<1>1. Init => IInv
  <2> SUFFICES ASSUME Init PROVE IInv
      OBVIOUS
  <2>1. TypeOK /\ OneFile
      BY NilAssumption DEF Init, TypeOK, OneFile, At
  <2>2. written = [kind \in Kinds |-> Nil]
      BY DEF Init, Kinds
  <2>3. WrittenInv /\ HostInv
      BY <2>2 DEF Init, WrittenInv, HostInv
  <2>4. HostType
      BY DEF Init, AtRest, HostType
  <2>5. QED
      BY <2>1, <2>3, <2>4 DEF IInv
<1>2. IInv /\ [Next]_vars => IInv'
    BY TypeStep, FileStep, WrittenStep, HostStep DEF IInv
<1>3. QED
    BY <1>1, <1>2, PTL DEF Spec

(* The types of Hid.tla; a write holds the read lock, and nobody else does. *)
THEOREM Typing == Spec => []TypeOK
BY Invariance, PTL DEF IInv

(* The file is open once at most, and never closed under a write (hid.go:28-72). *)
THEOREM OneFileOpen == Spec => []OneFile
BY Invariance, PTL DEF IInv

(* The host shows what was written, for every message that data.go lets     *)
(* through (hid.go:74-127 against scripts/usb.txt).                         *)
THEOREM HostShowsWritten == Spec => []HostAgrees
<1>1. IInv => HostAgrees
  <2> SUFFICES ASSUME IInv, report = Nil, NEW kind \in Kinds, written[kind] # Nil
               PROVE  Shows(host, written[kind])
      BY DEF HostAgrees, IInv, WrittenInv
  <2>1. \A k \in Kinds : written[k] # Nil => Report(written[k]) # Nil
      BY ReportAssumption DEF IInv, WrittenInv
  <2>2. QED
      BY <2>1 DEF IInv, HostInv
<1>2. QED
    BY <1>1, Invariance, PTL

-----------------------------------------------------------------------------
(* Who is held up inside hid.go, and by whom. *)
Goroutines == Channels \cup Closers
Inside(g) == pc[g] \in {"opening", "sending", "writing", "closing"}
GoesOn(g) ==
    \/ pc[g] \in {"opening", "closing"} /\ (writer = Nil \/ Locked(g))
    \/ At(g, "sending") /\ writer = Nil
    \/ At(g, "writing") /\ report = Nil

(* Who has announced Lock is at the statement that takes and releases it: no *)
(* way out of openFile or closeFile keeps it.                                 *)
WriterInv == writer # Nil => pc[writer] \in {"opening", "closing"}

(* A report that the host has not taken holds a goroutine up, and through it  *)
(* all others; nothing else does.                                             *)
OnlyHostBlocks ==
    (\E g \in Goroutines : Inside(g)) => report # Nil \/ \E g \in Goroutines : GoesOn(g)

(* hid.Close, useDataChannel and Send do not deadlock with one another        *)
(* (hid.go:28-72): every wait ends at a write, and that waits for the host.   *)
THEOREM WaitsEndAtTheHost == Spec => []OnlyHostBlocks
<1>1. Init => WriterInv
    BY DEF Init, WriterInv
<1>2. IInv /\ WriterInv /\ [Next]_vars => WriterInv'
  <2> SUFFICES ASSUME IInv, WriterInv, [Next]_vars PROVE WriterInv'
      OBVIOUS
  <2>1. ASSUME NEW g \in Goroutines, LockFile(g) PROVE WriterInv'
      BY <2>1 DEF LockFile, WriterInv, At
  <2>2. ASSUME NEW c \in Channels, OpenFile(c) \/ OpenFails(c) PROVE WriterInv'
      BY <2>2 DEF OpenFile, OpenFails, OpenReturn, WriterInv
  <2>3. ASSUME NEW k \in Closers, CloseFile(k) PROVE WriterInv'
      BY <2>3 DEF CloseFile, WriterInv
  <2>4. ASSUME NEW c \in Channels,
               OpenChannel(c) \/ ChannelEnds(c) \/ SendStep(c) \/ \E m \in Messages : Receive(c, m)
        PROVE  WriterInv'
    <3>1. pc[c] \notin {"opening", "closing"} /\ writer' = writer
        BY <2>4 DEF OpenChannel, ChannelEnds, SendStep, WriteNil, WriteBegin, Write, WriteFails,
                    Receive, At, locks
    <3>2. \A g \in Goroutines : g # c => pc'[g] = pc[g]
        BY <2>4 DEF IInv, TypeOK, OpenChannel, ChannelEnds, SendStep, WriteNil, WriteBegin, Write,
                    WriteFails, Receive, SendReturn, Goto, Goroutines
    <3>3. QED
        BY <3>1, <3>2 DEF WriterInv, IInv, TypeOK, Goroutines
  <2>5. ASSUME NEW k \in Closers, CallClose(k) PROVE WriterInv'
      BY <2>5 DEF CallClose, WriterInv, At, Goto, locks, IInv, TypeOK
  <2>6. CASE HostTakes \/ HostSleeps \/ UNCHANGED vars
      BY <2>6 DEF HostTakes, HostSleeps, vars, locks, WriterInv
  <2>7. QED
      BY <2>1, <2>2, <2>3, <2>4, <2>5, <2>6 DEF Next, OpenStep, Goroutines
<1>3. IInv /\ WriterInv => OnlyHostBlocks
  <2> SUFFICES ASSUME IInv, WriterInv, report = Nil, NEW g \in Goroutines, Inside(g)
               PROVE  \E h \in Goroutines : GoesOn(h)
      BY DEF OnlyHostBlocks
  <2>1. CASE writer = Nil
      BY <2>1 DEF Inside, GoesOn, At
  <2>2. CASE writer # Nil /\ readers = {}
      BY <2>2 DEF GoesOn, Locked, WriterInv, IInv, TypeOK, Goroutines
  <2>3. CASE readers # {}
      BY <2>3 DEF GoesOn, At, IInv, TypeOK, Goroutines
  <2>4. QED
      BY <2>1, <2>2, <2>3
<1>4. QED
    BY <1>1, <1>2, <1>3, Invariance, PTL DEF Spec
=============================================================================
