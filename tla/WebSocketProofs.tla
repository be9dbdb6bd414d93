--------------------------- MODULE WebSocketProofs ---------------------------
(* Proofs about WebSocket.tla, for any number of callers and of objects and   *)
(* any of the client's and the peer's choices.                                *)
EXTENDS WebSocket, TLAPS

CallPc == SendPc \cup ClosePc

(* Who can be where, and where a call came from and returns to.               *)
CallInv ==
    /\ \A c \in Callers : pc[c] \in {"idle"} \cup CallPc
    /\ \A w \in Ws : pc[w] # "idle"
    /\ \A g \in Goroutine : pc[g] \in CallPc =>
          /\ target[g] \in Ws
          /\ pc[target[g]] # "fresh"
          /\ g \in Callers => ret[g] = "idle"
          /\ g \in Ws => ret[g] \in {"callback", "read_return", "read_error"}

(* ws.wg counts the reading goroutine from its first statement to its last.   *)
WgInv ==
    \A w \in Ws : wg[w] = IF pc[w] \in {"fresh", "spawned", "ended"} THEN 0 ELSE 1

Typed == TypeOK /\ CallInv /\ WgInv

(* The state of connectionMu says where its holders are, and a writer that    *)
(* has got the lock has it alone.                                             *)
ReadInv == \A w \in Ws : reading[w] <=> pc[w] \in ReadPc \cup CallPc
SendInv ==
    \A w \in Ws, g \in Goroutine :
        g \in senders[w] <=> pc[g] \in {"send_check", "send_write"} /\ target[g] = w
WriteInv ==
    \A w \in Ws, g \in Goroutine :
        writer[w] = g <=> pc[g] \in {"close_drain", "close_conn"} /\ target[g] = w
AloneInv ==
    \A g \in Goroutine : pc[g] = "close_conn" =>
        ~ reading[target[g]] /\ senders[target[g]] = {}

Locked == ReadInv /\ SendInv /\ WriteInv /\ AloneInv

(* The context of an opened object is there to be cancelled, or cancelled.    *)
CancelInv ==
    /\ \A w \in Ws : pc[w] # "fresh" => cancel[w] \/ done[w]
    /\ \A g \in Goroutine : pc[g] = "close_wait" => done[target[g]]

(* Whoever waits for a reader has set its deadline; once the connection is    *)
(* gone, Close waits for the end of the loop only.                            *)
BlockInv ==
    \A g \in Goroutine :
        /\ pc[g] \in ClosePc \ {"close_deadline"} => deadline[target[g]]
        /\ pc[g] \in {"close_check", "close_cancel", "close_wait"} => ~ connection[target[g]]

(* What is nil again was cleared by a Close: by one still inside, or by one   *)
(* that has returned.                                                         *)
GoneInv ==
    \A w \in Ws : pc[w] # "fresh" =>
        /\ connection[w] \/ closed[w] \/ Closing(w)
        /\ \/ cancel[w] \/ closed[w]
           \/ \E g \in Goroutine : target[g] = w /\ pc[g] = "close_wait"

IInv == Typed /\ Locked /\ OpenWhileInUse /\ CancelInv /\ QuietAfterClose

(* Every step keeps the types, the places calls come from and ws.wg.          *)
LEMMA TypedStep == Typed /\ [Next]_vars => Typed'
<1> SUFFICES ASSUME Typed, [Next]_vars PROVE Typed'
  OBVIOUS
<1>1. ASSUME UNCHANGED vars PROVE Typed'
  BY <1>1 DEF Typed, TypeOK, ObjectTypeOK, CallInv, WgInv, object, lock, vars
<1> USE GoroutineAssumption
   DEF Typed, TypeOK, ObjectTypeOK, CallInv, WgInv, Goroutine, CallPc, SendPc,
       ClosePc, ReadPc, HandlePc, At, Goto
<1>2. ASSUME NEW c \in Callers, NEW w \in Ws, Open(c, w) PROVE Typed'
  BY <1>2 DEF Open, OpenWs, object, lock
<1>3. ASSUME NEW c \in Callers, NEW w \in Ws, Send(c, w) PROVE Typed'
  BY <1>3 DEF Send, CallSend, Call, object, lock
<1>4. ASSUME NEW c \in Callers, NEW w \in Ws, Close(c, w) PROVE Typed'
  BY <1>4 DEF Close, CallClose, Call, object, lock
<1>5. ASSUME NEW w \in Ws, HandleStart(w) PROVE Typed'
  BY <1>5 DEF HandleStart, object, lock
<1>6. ASSUME NEW w \in Ws, HandleSelect(w) PROVE Typed'
  BY <1>6 DEF HandleSelect, object, lock
<1>7. ASSUME NEW w \in Ws, ReadLock(w) PROVE Typed'
  BY <1>7 DEF ReadLock, object, lock
<1>8. ASSUME NEW w \in Ws, ReadNil(w) PROVE Typed'
  BY <1>8 DEF ReadNil, Panic, object, lock
<1>9. ASSUME NEW w \in Ws, ReadTimeout(w) PROVE Typed'
  BY <1>9 DEF ReadTimeout, ReadFail, object, lock
<1>10. ASSUME NEW w \in Ws, ReadReturn(w) PROVE Typed'
  BY <1>10 DEF ReadReturn, object, lock
<1>11. ASSUME NEW w \in Ws, HandleExit(w) PROVE Typed'
  BY <1>11 DEF HandleExit, object, lock
<1>12. ASSUME NEW w \in Ws, Callback(w) PROVE Typed'
  <2>1. CASE pc' = [pc EXCEPT ![w] = "read_return"]
             /\ UNCHANGED <<object, lock, target, ret, process>>
    BY <1>12, <2>1 DEF Callback, Goto, object, lock
  <2>2. ASSUME NEW v \in Ws, pc[v] # "fresh", NEW r \in {"callback", "read_return"},
               CallSend(w, v, r)
        PROVE  Typed'
    BY <1>12, <2>2 DEF Callback, CallSend, Call, object, lock
  <2>3. ASSUME NEW v \in Ws, pc[v] # "fresh", NEW r \in {"callback", "read_return"},
               CallClose(w, v, r)
        PROVE  Typed'
    BY <1>12, <2>3 DEF Callback, CallClose, Call, object, lock
  <2>4. \/ pc' = [pc EXCEPT ![w] = "read_return"]
           /\ UNCHANGED <<object, lock, target, ret, process>>
        \/ \E v \in Ws, r \in {"callback", "read_return"} :
             pc[v] # "fresh" /\ (CallSend(w, v, r) \/ CallClose(w, v, r))
    BY <1>12 DEF Callback, Goto
  <2> HIDE DEF Typed, TypeOK, ObjectTypeOK, CallInv, WgInv, Goto
  <2> QED
    BY <2>1, <2>2, <2>3, <2>4
<1>13. ASSUME NEW w \in Ws, PeerText(w) PROVE Typed'
  BY <1>13 DEF PeerText, ReadText, object, lock
<1>14. ASSUME NEW w \in Ws, PeerClose(w) PROVE Typed'
  BY <1>14 DEF PeerClose, CallClose, Call, object, lock
<1>15. ASSUME NEW w \in Ws, PeerGone(w) PROVE Typed'
  BY <1>15 DEF PeerGone, ReadFail, object, lock
<1>16. ASSUME NEW g \in Goroutine, SendLock(g) PROVE Typed'
  BY <1>16 DEF SendLock, object, lock
<1>17. ASSUME NEW g \in Goroutine, SendNil(g) PROVE Typed'
  BY <1>17 DEF SendNil, object, lock
<1>18. ASSUME NEW g \in Goroutine, SendBegin(g) PROVE Typed'
  BY <1>18 DEF SendBegin, object, lock
<1>19. ASSUME NEW g \in Goroutine, SendCollide(g) PROVE Typed'
  BY <1>19 DEF SendCollide, Panic, object, lock
<1>20. ASSUME NEW g \in Goroutine, SendWrite(g) PROVE Typed'
  BY <1>20 DEF SendWrite, object, lock
<1>21. ASSUME NEW g \in Goroutine, CloseDeadline(g) PROVE Typed'
  BY <1>21 DEF CloseDeadline, object, lock
<1>22. ASSUME NEW g \in Goroutine, CloseNil(g) PROVE Typed'
  BY <1>22 DEF CloseNil, Panic, object, lock
<1>23. ASSUME NEW g \in Goroutine, CloseLock(g) PROVE Typed'
  BY <1>23 DEF CloseLock, object, lock
<1>24. ASSUME NEW g \in Goroutine, CloseDrain(g) PROVE Typed'
  BY <1>24 DEF CloseDrain, object, lock
<1>25. ASSUME NEW g \in Goroutine, CloseConnection(g) PROVE Typed'
  BY <1>25 DEF CloseConnection, object, lock
<1>26. ASSUME NEW g \in Goroutine, CloseCheckCancel(g) PROVE Typed'
  BY <1>26 DEF CloseCheckCancel, object, lock
<1>27. ASSUME NEW g \in Goroutine, CloseCancel(g) PROVE Typed'
  BY <1>27 DEF CloseCancel, object, lock
<1>28. ASSUME NEW g \in Goroutine, CloseCancelNil(g) PROVE Typed'
  BY <1>28 DEF CloseCancelNil, Panic, object, lock
<1>29. ASSUME NEW g \in Goroutine, CloseWait(g) PROVE Typed'
  BY <1>29 DEF CloseWait, object, lock
<1> HIDE DEF Typed, TypeOK, ObjectTypeOK, CallInv, WgInv
<1> QED
  BY <1>1, <1>2, <1>3, <1>4, <1>5, <1>6, <1>7, <1>8, <1>9, <1>10, <1>11, <1>12,
     <1>13, <1>14, <1>15, <1>16, <1>17, <1>18, <1>19, <1>20, <1>21, <1>22,
     <1>23, <1>24, <1>25, <1>26, <1>27, <1>28, <1>29
     DEF Next, WsStep, HandlerStep, CallStep, Panic, ReadNil, SendCollide,
         CloseNil, CloseCancelNil, vars

(* Every step keeps connectionMu in accord with where the goroutines are.     *)
LEMMA LockedStep == Typed /\ Locked /\ [Next]_vars => Locked'
<1> SUFFICES ASSUME Typed /\ Locked, [Next]_vars PROVE Locked'
  OBVIOUS
<1>1. ASSUME UNCHANGED <<object, lock, pc, target, ret>> PROVE Locked'
  <2>1. ReadInv'
    BY <1>1 DEF Locked, ReadInv, object, lock
  <2>2. SendInv'
    BY <1>1 DEF Locked, SendInv, object, lock
  <2>3. WriteInv'
    BY <1>1 DEF Locked, WriteInv, object, lock
  <2>4. AloneInv'
    BY <1>1 DEF Locked, AloneInv, object, lock
  <2> QED
    BY <2>1, <2>2, <2>3, <2>4 DEF Locked
<1> USE GoroutineAssumption
   DEF Typed, TypeOK, ObjectTypeOK, CallInv, Locked, ReadInv, SendInv, WriteInv,
       AloneInv, Goroutine, CallPc, SendPc, ClosePc, ReadPc, HandlePc, At, Goto
<1>2. ASSUME NEW c \in Callers, NEW w \in Ws, Open(c, w) PROVE Locked'
  BY <1>2 DEF Open, OpenWs, object, lock
<1>3. ASSUME NEW c \in Callers, NEW w \in Ws, Send(c, w) PROVE Locked'
  BY <1>3 DEF Send, CallSend, Call, object, lock
<1>4. ASSUME NEW c \in Callers, NEW w \in Ws, Close(c, w) PROVE Locked'
  BY <1>4 DEF Close, CallClose, Call, object, lock
<1>5. ASSUME NEW w \in Ws, HandleStart(w) PROVE Locked'
  BY <1>5 DEF HandleStart, object, lock
<1>6. ASSUME NEW w \in Ws, HandleSelect(w) PROVE Locked'
  BY <1>6 DEF HandleSelect, object, lock
<1>7. ASSUME NEW w \in Ws, ReadLock(w) PROVE Locked'
  BY <1>7 DEF ReadLock, object, lock
<1>8. ASSUME NEW w \in Ws, ReadTimeout(w) PROVE Locked'
  BY <1>8 DEF ReadTimeout, ReadFail, object, lock
<1>9. ASSUME NEW w \in Ws, ReadReturn(w) PROVE Locked'
  BY <1>9 DEF ReadReturn, object, lock
<1>10. ASSUME NEW w \in Ws, HandleExit(w) PROVE Locked'
  BY <1>10 DEF HandleExit, object, lock
<1>11. ASSUME NEW w \in Ws, Callback(w) PROVE Locked'
  <2>1. CASE pc' = [pc EXCEPT ![w] = "read_return"]
             /\ UNCHANGED <<object, lock, target, ret, process>>
    BY <1>11, <2>1 DEF Callback, Goto, object, lock
  <2>2. ASSUME NEW v \in Ws, pc[v] # "fresh", NEW r \in {"callback", "read_return"},
               CallSend(w, v, r)
        PROVE  Locked'
    BY <1>11, <2>2 DEF Callback, CallSend, Call, object, lock
  <2>3. ASSUME NEW v \in Ws, pc[v] # "fresh", NEW r \in {"callback", "read_return"},
               CallClose(w, v, r)
        PROVE  Locked'
    BY <1>11, <2>3 DEF Callback, CallClose, Call, object, lock
  <2>4. \/ pc' = [pc EXCEPT ![w] = "read_return"]
           /\ UNCHANGED <<object, lock, target, ret, process>>
        \/ \E v \in Ws, r \in {"callback", "read_return"} :
             pc[v] # "fresh" /\ (CallSend(w, v, r) \/ CallClose(w, v, r))
    BY <1>11 DEF Callback, Goto
  <2> HIDE DEF Typed, TypeOK, ObjectTypeOK, CallInv, Locked, ReadInv, SendInv, WriteInv,
      AloneInv, Goto
  <2> QED
    BY <2>1, <2>2, <2>3, <2>4
<1>12. ASSUME NEW w \in Ws, PeerText(w) PROVE Locked'
  BY <1>12 DEF PeerText, ReadText, object, lock
<1>13. ASSUME NEW w \in Ws, PeerClose(w) PROVE Locked'
  BY <1>13 DEF PeerClose, CallClose, Call, object, lock
<1>14. ASSUME NEW w \in Ws, PeerGone(w) PROVE Locked'
  BY <1>14 DEF PeerGone, ReadFail, object, lock
<1>15. ASSUME NEW g \in Goroutine, SendLock(g) PROVE Locked'
  BY <1>15 DEF SendLock, object, lock
<1>16. ASSUME NEW g \in Goroutine, SendNil(g) PROVE Locked'
  BY <1>16 DEF SendNil, object, lock
<1>17. ASSUME NEW g \in Goroutine, SendBegin(g) PROVE Locked'
  BY <1>17 DEF SendBegin, object, lock
<1>18. ASSUME NEW g \in Goroutine, SendWrite(g) PROVE Locked'
  BY <1>18 DEF SendWrite, object, lock
<1>19. ASSUME NEW g \in Goroutine, CloseDeadline(g) PROVE Locked'
  BY <1>19 DEF CloseDeadline, object, lock
<1>20. ASSUME NEW g \in Goroutine, CloseLock(g) PROVE Locked'
  BY <1>20 DEF CloseLock, object, lock
<1>21. ASSUME NEW g \in Goroutine, CloseDrain(g) PROVE Locked'
  BY <1>21 DEF CloseDrain, object, lock
<1>22. ASSUME NEW g \in Goroutine, CloseConnection(g) PROVE Locked'
  BY <1>22 DEF CloseConnection, object, lock
<1>23. ASSUME NEW g \in Goroutine, CloseCheckCancel(g) PROVE Locked'
  BY <1>23 DEF CloseCheckCancel, object, lock
<1>24. ASSUME NEW g \in Goroutine, CloseCancel(g) PROVE Locked'
  BY <1>24 DEF CloseCancel, object, lock
<1>25. ASSUME NEW g \in Goroutine, CloseWait(g) PROVE Locked'
  BY <1>25 DEF CloseWait, object, lock
<1> HIDE
   DEF Typed, TypeOK, ObjectTypeOK, CallInv, Locked, ReadInv, SendInv, WriteInv,
       AloneInv
<1> QED
  BY <1>1, <1>2, <1>3, <1>4, <1>5, <1>6, <1>7, <1>8, <1>9, <1>10, <1>11, <1>12,
     <1>13, <1>14, <1>15, <1>16, <1>17, <1>18, <1>19, <1>20, <1>21, <1>22,
     <1>23, <1>24, <1>25
     DEF Next, WsStep, HandlerStep, CallStep, Panic, ReadNil, SendCollide,
         CloseNil, CloseCancelNil, vars

(* The connection is cleared only by a writer that is alone with it.          *)
LEMMA OpenWhileInUseStep == Typed /\ Locked /\ OpenWhileInUse /\ [Next]_vars => OpenWhileInUse'
<1> SUFFICES ASSUME Typed /\ Locked /\ OpenWhileInUse, [Next]_vars PROVE OpenWhileInUse'
  OBVIOUS
<1>1. ASSUME UNCHANGED <<object, lock, pc, target, ret>> PROVE OpenWhileInUse'
  BY <1>1
     DEF Typed, TypeOK, ObjectTypeOK, CallInv, Locked, ReadInv, SendInv, WriteInv,
         AloneInv, OpenWhileInUse, InUse, object, lock, vars
<1> USE GoroutineAssumption
   DEF Typed, TypeOK, ObjectTypeOK, CallInv, Locked, ReadInv, SendInv, WriteInv,
       AloneInv, OpenWhileInUse, InUse, Goroutine, CallPc, SendPc, ClosePc,
       ReadPc, HandlePc, At, Goto
<1>2. ASSUME NEW c \in Callers, NEW w \in Ws, Open(c, w) PROVE OpenWhileInUse'
  BY <1>2 DEF Open, OpenWs, object, lock
<1>3. ASSUME NEW c \in Callers, NEW w \in Ws, Send(c, w) PROVE OpenWhileInUse'
  BY <1>3 DEF Send, CallSend, Call, object, lock
<1>4. ASSUME NEW c \in Callers, NEW w \in Ws, Close(c, w) PROVE OpenWhileInUse'
  BY <1>4 DEF Close, CallClose, Call, object, lock
<1>5. ASSUME NEW w \in Ws, HandleStart(w) PROVE OpenWhileInUse'
  BY <1>5 DEF HandleStart, object, lock
<1>6. ASSUME NEW w \in Ws, HandleSelect(w) PROVE OpenWhileInUse'
  BY <1>6 DEF HandleSelect, object, lock
<1>7. ASSUME NEW w \in Ws, ReadLock(w) PROVE OpenWhileInUse'
  BY <1>7 DEF ReadLock, object, lock
<1>8. ASSUME NEW w \in Ws, ReadTimeout(w) PROVE OpenWhileInUse'
  BY <1>8 DEF ReadTimeout, ReadFail, object, lock
<1>9. ASSUME NEW w \in Ws, ReadReturn(w) PROVE OpenWhileInUse'
  BY <1>9 DEF ReadReturn, object, lock
<1>10. ASSUME NEW w \in Ws, HandleExit(w) PROVE OpenWhileInUse'
  BY <1>10 DEF HandleExit, object, lock
<1>11. ASSUME NEW w \in Ws, Callback(w) PROVE OpenWhileInUse'
  <2>1. CASE pc' = [pc EXCEPT ![w] = "read_return"]
             /\ UNCHANGED <<object, lock, target, ret, process>>
    BY <1>11, <2>1 DEF Callback, Goto, object, lock
  <2>2. ASSUME NEW v \in Ws, pc[v] # "fresh", NEW r \in {"callback", "read_return"},
               CallSend(w, v, r)
        PROVE  OpenWhileInUse'
    BY <1>11, <2>2 DEF Callback, CallSend, Call, object, lock
  <2>3. ASSUME NEW v \in Ws, pc[v] # "fresh", NEW r \in {"callback", "read_return"},
               CallClose(w, v, r)
        PROVE  OpenWhileInUse'
    BY <1>11, <2>3 DEF Callback, CallClose, Call, object, lock
  <2> QED
    BY <1>11, <2>1, <2>2, <2>3 DEF Callback
<1>12. ASSUME NEW w \in Ws, PeerText(w) PROVE OpenWhileInUse'
  BY <1>12 DEF PeerText, ReadText, object, lock
<1>13. ASSUME NEW w \in Ws, PeerClose(w) PROVE OpenWhileInUse'
  BY <1>13 DEF PeerClose, CallClose, Call, object, lock
<1>14. ASSUME NEW w \in Ws, PeerGone(w) PROVE OpenWhileInUse'
  BY <1>14 DEF PeerGone, ReadFail, object, lock
<1>15. ASSUME NEW g \in Goroutine, SendLock(g) PROVE OpenWhileInUse'
  BY <1>15 DEF SendLock, object, lock
<1>16. ASSUME NEW g \in Goroutine, SendNil(g) PROVE OpenWhileInUse'
  BY <1>16 DEF SendNil, object, lock
<1>17. ASSUME NEW g \in Goroutine, SendBegin(g) PROVE OpenWhileInUse'
  BY <1>17 DEF SendBegin, object, lock
<1>18. ASSUME NEW g \in Goroutine, SendWrite(g) PROVE OpenWhileInUse'
  BY <1>18 DEF SendWrite, object, lock
<1>19. ASSUME NEW g \in Goroutine, CloseDeadline(g) PROVE OpenWhileInUse'
  BY <1>19 DEF CloseDeadline, object, lock
<1>20. ASSUME NEW g \in Goroutine, CloseLock(g) PROVE OpenWhileInUse'
  BY <1>20 DEF CloseLock, object, lock
<1>21. ASSUME NEW g \in Goroutine, CloseDrain(g) PROVE OpenWhileInUse'
  BY <1>21 DEF CloseDrain, object, lock
<1>22. ASSUME NEW g \in Goroutine, CloseConnection(g) PROVE OpenWhileInUse'
  BY <1>22 DEF CloseConnection, object, lock
<1>23. ASSUME NEW g \in Goroutine, CloseCheckCancel(g) PROVE OpenWhileInUse'
  BY <1>23 DEF CloseCheckCancel, object, lock
<1>24. ASSUME NEW g \in Goroutine, CloseCancel(g) PROVE OpenWhileInUse'
  BY <1>24 DEF CloseCancel, object, lock
<1>25. ASSUME NEW g \in Goroutine, CloseWait(g) PROVE OpenWhileInUse'
  BY <1>25 DEF CloseWait, object, lock
<1> HIDE
   DEF Typed, TypeOK, ObjectTypeOK, CallInv, Locked, ReadInv, SendInv, WriteInv,
       AloneInv, OpenWhileInUse, InUse
<1> QED
  BY <1>1, <1>2, <1>3, <1>4, <1>5, <1>6, <1>7, <1>8, <1>9, <1>10, <1>11, <1>12,
     <1>13, <1>14, <1>15, <1>16, <1>17, <1>18, <1>19, <1>20, <1>21, <1>22,
     <1>23, <1>24, <1>25
     DEF Next, WsStep, HandlerStep, CallStep, Panic, ReadNil, SendCollide,
         CloseNil, CloseCancelNil, vars

(* Open leaves a context, and a Close that waits has cancelled it.            *)
LEMMA CancelInvStep == Typed /\ CancelInv /\ [Next]_vars => CancelInv'
<1> SUFFICES ASSUME Typed /\ CancelInv, [Next]_vars PROVE CancelInv'
  OBVIOUS
<1>1. ASSUME UNCHANGED <<object, lock, pc, target, ret>> PROVE CancelInv'
  BY <1>1 DEF Typed, TypeOK, ObjectTypeOK, CallInv, CancelInv, object, lock, vars
<1> USE GoroutineAssumption
   DEF Typed, TypeOK, ObjectTypeOK, CallInv, CancelInv, Goroutine, CallPc, SendPc,
       ClosePc, ReadPc, HandlePc, At, Goto
<1>2. ASSUME NEW c \in Callers, NEW w \in Ws, Open(c, w) PROVE CancelInv'
  BY <1>2 DEF Open, OpenWs, object, lock
<1>3. ASSUME NEW c \in Callers, NEW w \in Ws, Send(c, w) PROVE CancelInv'
  BY <1>3 DEF Send, CallSend, Call, object, lock
<1>4. ASSUME NEW c \in Callers, NEW w \in Ws, Close(c, w) PROVE CancelInv'
  BY <1>4 DEF Close, CallClose, Call, object, lock
<1>5. ASSUME NEW w \in Ws, HandleStart(w) PROVE CancelInv'
  BY <1>5 DEF HandleStart, object, lock
<1>6. ASSUME NEW w \in Ws, HandleSelect(w) PROVE CancelInv'
  BY <1>6 DEF HandleSelect, object, lock
<1>7. ASSUME NEW w \in Ws, ReadLock(w) PROVE CancelInv'
  BY <1>7 DEF ReadLock, object, lock
<1>8. ASSUME NEW w \in Ws, ReadTimeout(w) PROVE CancelInv'
  BY <1>8 DEF ReadTimeout, ReadFail, object, lock
<1>9. ASSUME NEW w \in Ws, ReadReturn(w) PROVE CancelInv'
  BY <1>9 DEF ReadReturn, object, lock
<1>10. ASSUME NEW w \in Ws, HandleExit(w) PROVE CancelInv'
  BY <1>10 DEF HandleExit, object, lock
<1>11. ASSUME NEW w \in Ws, Callback(w) PROVE CancelInv'
  <2>1. CASE pc' = [pc EXCEPT ![w] = "read_return"]
             /\ UNCHANGED <<object, lock, target, ret, process>>
    BY <1>11, <2>1 DEF Callback, Goto, object, lock
  <2>2. ASSUME NEW v \in Ws, pc[v] # "fresh", NEW r \in {"callback", "read_return"},
               CallSend(w, v, r)
        PROVE  CancelInv'
    BY <1>11, <2>2 DEF Callback, CallSend, Call, object, lock
  <2>3. ASSUME NEW v \in Ws, pc[v] # "fresh", NEW r \in {"callback", "read_return"},
               CallClose(w, v, r)
        PROVE  CancelInv'
    BY <1>11, <2>3 DEF Callback, CallClose, Call, object, lock
  <2> QED
    BY <1>11, <2>1, <2>2, <2>3 DEF Callback
<1>12. ASSUME NEW w \in Ws, PeerText(w) PROVE CancelInv'
  BY <1>12 DEF PeerText, ReadText, object, lock
<1>13. ASSUME NEW w \in Ws, PeerClose(w) PROVE CancelInv'
  BY <1>13 DEF PeerClose, CallClose, Call, object, lock
<1>14. ASSUME NEW w \in Ws, PeerGone(w) PROVE CancelInv'
  BY <1>14 DEF PeerGone, ReadFail, object, lock
<1>15. ASSUME NEW g \in Goroutine, SendLock(g) PROVE CancelInv'
  BY <1>15 DEF SendLock, object, lock
<1>16. ASSUME NEW g \in Goroutine, SendNil(g) PROVE CancelInv'
  BY <1>16 DEF SendNil, object, lock
<1>17. ASSUME NEW g \in Goroutine, SendBegin(g) PROVE CancelInv'
  BY <1>17 DEF SendBegin, object, lock
<1>18. ASSUME NEW g \in Goroutine, SendWrite(g) PROVE CancelInv'
  BY <1>18 DEF SendWrite, object, lock
<1>19. ASSUME NEW g \in Goroutine, CloseDeadline(g) PROVE CancelInv'
  BY <1>19 DEF CloseDeadline, object, lock
<1>20. ASSUME NEW g \in Goroutine, CloseLock(g) PROVE CancelInv'
  BY <1>20 DEF CloseLock, object, lock
<1>21. ASSUME NEW g \in Goroutine, CloseDrain(g) PROVE CancelInv'
  BY <1>21 DEF CloseDrain, object, lock
<1>22. ASSUME NEW g \in Goroutine, CloseConnection(g) PROVE CancelInv'
  BY <1>22 DEF CloseConnection, object, lock
<1>23. ASSUME NEW g \in Goroutine, CloseCheckCancel(g) PROVE CancelInv'
  BY <1>23 DEF CloseCheckCancel, object, lock
<1>24. ASSUME NEW g \in Goroutine, CloseCancel(g) PROVE CancelInv'
  BY <1>24 DEF CloseCancel, object, lock
<1>25. ASSUME NEW g \in Goroutine, CloseWait(g) PROVE CancelInv'
  BY <1>25 DEF CloseWait, object, lock
<1> HIDE DEF Typed, TypeOK, ObjectTypeOK, CallInv, CancelInv
<1> QED
  BY <1>1, <1>2, <1>3, <1>4, <1>5, <1>6, <1>7, <1>8, <1>9, <1>10, <1>11, <1>12,
     <1>13, <1>14, <1>15, <1>16, <1>17, <1>18, <1>19, <1>20, <1>21, <1>22,
     <1>23, <1>24, <1>25
     DEF Next, WsStep, HandlerStep, CallStep, Panic, ReadNil, SendCollide,
         CloseNil, CloseCancelNil, vars

(* A Close returns only when the reading goroutine is outside its loop, and   *)
(* the cancelled context keeps it from going on.                              *)
LEMMA QuietAfterCloseStep == Typed /\ CancelInv /\ QuietAfterClose /\ [Next]_vars => QuietAfterClose'
<1> SUFFICES ASSUME Typed /\ CancelInv /\ QuietAfterClose, [Next]_vars PROVE QuietAfterClose'
  OBVIOUS
<1>1. ASSUME UNCHANGED <<object, lock, pc, target, ret>> PROVE QuietAfterClose'
  BY <1>1
     DEF Typed, TypeOK, ObjectTypeOK, CallInv, WgInv, CancelInv, QuietAfterClose,
         object, lock, vars
<1> USE GoroutineAssumption
   DEF Typed, TypeOK, ObjectTypeOK, CallInv, WgInv, CancelInv, QuietAfterClose,
       Goroutine, CallPc, SendPc, ClosePc, ReadPc, HandlePc, At, Goto
<1>2. ASSUME NEW c \in Callers, NEW w \in Ws, Open(c, w) PROVE QuietAfterClose'
  BY <1>2 DEF Open, OpenWs, object, lock
<1>3. ASSUME NEW c \in Callers, NEW w \in Ws, Send(c, w) PROVE QuietAfterClose'
  BY <1>3 DEF Send, CallSend, Call, object, lock
<1>4. ASSUME NEW c \in Callers, NEW w \in Ws, Close(c, w) PROVE QuietAfterClose'
  BY <1>4 DEF Close, CallClose, Call, object, lock
<1>5. ASSUME NEW w \in Ws, HandleStart(w) PROVE QuietAfterClose'
  BY <1>5 DEF HandleStart, object, lock
<1>6. ASSUME NEW w \in Ws, HandleSelect(w) PROVE QuietAfterClose'
  BY <1>6 DEF HandleSelect, object, lock
<1>7. ASSUME NEW w \in Ws, ReadLock(w) PROVE QuietAfterClose'
  BY <1>7 DEF ReadLock, object, lock
<1>8. ASSUME NEW w \in Ws, ReadTimeout(w) PROVE QuietAfterClose'
  BY <1>8 DEF ReadTimeout, ReadFail, object, lock
<1>9. ASSUME NEW w \in Ws, ReadReturn(w) PROVE QuietAfterClose'
  BY <1>9 DEF ReadReturn, object, lock
<1>10. ASSUME NEW w \in Ws, HandleExit(w) PROVE QuietAfterClose'
  BY <1>10 DEF HandleExit, object, lock
<1>11. ASSUME NEW w \in Ws, Callback(w) PROVE QuietAfterClose'
  <2>1. CASE pc' = [pc EXCEPT ![w] = "read_return"]
             /\ UNCHANGED <<object, lock, target, ret, process>>
    BY <1>11, <2>1 DEF Callback, Goto, object, lock
  <2>2. ASSUME NEW v \in Ws, pc[v] # "fresh", NEW r \in {"callback", "read_return"},
               CallSend(w, v, r)
        PROVE  QuietAfterClose'
    BY <1>11, <2>2 DEF Callback, CallSend, Call, object, lock
  <2>3. ASSUME NEW v \in Ws, pc[v] # "fresh", NEW r \in {"callback", "read_return"},
               CallClose(w, v, r)
        PROVE  QuietAfterClose'
    BY <1>11, <2>3 DEF Callback, CallClose, Call, object, lock
  <2> QED
    BY <1>11, <2>1, <2>2, <2>3 DEF Callback
<1>12. ASSUME NEW w \in Ws, PeerText(w) PROVE QuietAfterClose'
  BY <1>12 DEF PeerText, ReadText, object, lock
<1>13. ASSUME NEW w \in Ws, PeerClose(w) PROVE QuietAfterClose'
  BY <1>13 DEF PeerClose, CallClose, Call, object, lock
<1>14. ASSUME NEW w \in Ws, PeerGone(w) PROVE QuietAfterClose'
  BY <1>14 DEF PeerGone, ReadFail, object, lock
<1>15. ASSUME NEW g \in Goroutine, SendLock(g) PROVE QuietAfterClose'
  BY <1>15 DEF SendLock, object, lock
<1>16. ASSUME NEW g \in Goroutine, SendNil(g) PROVE QuietAfterClose'
  BY <1>16 DEF SendNil, object, lock
<1>17. ASSUME NEW g \in Goroutine, SendBegin(g) PROVE QuietAfterClose'
  BY <1>17 DEF SendBegin, object, lock
<1>18. ASSUME NEW g \in Goroutine, SendWrite(g) PROVE QuietAfterClose'
  BY <1>18 DEF SendWrite, object, lock
<1>19. ASSUME NEW g \in Goroutine, CloseDeadline(g) PROVE QuietAfterClose'
  BY <1>19 DEF CloseDeadline, object, lock
<1>20. ASSUME NEW g \in Goroutine, CloseLock(g) PROVE QuietAfterClose'
  BY <1>20 DEF CloseLock, object, lock
<1>21. ASSUME NEW g \in Goroutine, CloseDrain(g) PROVE QuietAfterClose'
  BY <1>21 DEF CloseDrain, object, lock
<1>22. ASSUME NEW g \in Goroutine, CloseConnection(g) PROVE QuietAfterClose'
  BY <1>22 DEF CloseConnection, object, lock
<1>23. ASSUME NEW g \in Goroutine, CloseCheckCancel(g) PROVE QuietAfterClose'
  BY <1>23 DEF CloseCheckCancel, object, lock
<1>24. ASSUME NEW g \in Goroutine, CloseCancel(g) PROVE QuietAfterClose'
  BY <1>24 DEF CloseCancel, object, lock
<1>25. ASSUME NEW g \in Goroutine, CloseWait(g) PROVE QuietAfterClose'
  BY <1>25 DEF CloseWait, object, lock
<1> HIDE
   DEF Typed, TypeOK, ObjectTypeOK, CallInv, WgInv, CancelInv, QuietAfterClose
<1> QED
  BY <1>1, <1>2, <1>3, <1>4, <1>5, <1>6, <1>7, <1>8, <1>9, <1>10, <1>11, <1>12,
     <1>13, <1>14, <1>15, <1>16, <1>17, <1>18, <1>19, <1>20, <1>21, <1>22,
     <1>23, <1>24, <1>25
     DEF Next, WsStep, HandlerStep, CallStep, Panic, ReadNil, SendCollide,
         CloseNil, CloseCancelNil, vars

(* Close sets the deadline first, and a connection once closed is not opened *)
(* again: Open is called for a fresh object only.                             *)
LEMMA BlockStep == Typed /\ BlockInv /\ [Next]_vars => BlockInv'
<1> SUFFICES ASSUME Typed /\ BlockInv, [Next]_vars PROVE BlockInv'
  OBVIOUS
<1>1. ASSUME UNCHANGED <<object, lock, pc, target, ret>> PROVE BlockInv'
  BY <1>1
     DEF Typed, TypeOK, ObjectTypeOK, CallInv, WgInv, BlockInv,
         object, lock, vars
<1> USE GoroutineAssumption
   DEF Typed, TypeOK, ObjectTypeOK, CallInv, WgInv, BlockInv,
       Goroutine, CallPc, SendPc, ClosePc, ReadPc, HandlePc, At, Goto
<1>2. ASSUME NEW c \in Callers, NEW w \in Ws, Open(c, w) PROVE BlockInv'
  BY <1>2 DEF Open, OpenWs, object, lock
<1>3. ASSUME NEW c \in Callers, NEW w \in Ws, Send(c, w) PROVE BlockInv'
  BY <1>3 DEF Send, CallSend, Call, object, lock
<1>4. ASSUME NEW c \in Callers, NEW w \in Ws, Close(c, w) PROVE BlockInv'
  BY <1>4 DEF Close, CallClose, Call, object, lock
<1>5. ASSUME NEW w \in Ws, HandleStart(w) PROVE BlockInv'
  BY <1>5 DEF HandleStart, object, lock
<1>6. ASSUME NEW w \in Ws, HandleSelect(w) PROVE BlockInv'
  BY <1>6 DEF HandleSelect, object, lock
<1>7. ASSUME NEW w \in Ws, ReadLock(w) PROVE BlockInv'
  BY <1>7 DEF ReadLock, object, lock
<1>8. ASSUME NEW w \in Ws, ReadTimeout(w) PROVE BlockInv'
  BY <1>8 DEF ReadTimeout, ReadFail, object, lock
<1>9. ASSUME NEW w \in Ws, ReadReturn(w) PROVE BlockInv'
  BY <1>9 DEF ReadReturn, object, lock
<1>10. ASSUME NEW w \in Ws, HandleExit(w) PROVE BlockInv'
  BY <1>10 DEF HandleExit, object, lock
<1>11. ASSUME NEW w \in Ws, Callback(w) PROVE BlockInv'
  <2>1. CASE pc' = [pc EXCEPT ![w] = "read_return"]
             /\ UNCHANGED <<object, lock, target, ret, process>>
    BY <1>11, <2>1 DEF Callback, Goto, object, lock
  <2>2. ASSUME NEW v \in Ws, pc[v] # "fresh", NEW r \in {"callback", "read_return"},
               CallSend(w, v, r)
        PROVE  BlockInv'
    BY <1>11, <2>2 DEF Callback, CallSend, Call, object, lock
  <2>3. ASSUME NEW v \in Ws, pc[v] # "fresh", NEW r \in {"callback", "read_return"},
               CallClose(w, v, r)
        PROVE  BlockInv'
    BY <1>11, <2>3 DEF Callback, CallClose, Call, object, lock
  <2> QED
    BY <1>11, <2>1, <2>2, <2>3 DEF Callback
<1>12. ASSUME NEW w \in Ws, PeerText(w) PROVE BlockInv'
  BY <1>12 DEF PeerText, ReadText, object, lock
<1>13. ASSUME NEW w \in Ws, PeerClose(w) PROVE BlockInv'
  BY <1>13 DEF PeerClose, CallClose, Call, object, lock
<1>14. ASSUME NEW w \in Ws, PeerGone(w) PROVE BlockInv'
  BY <1>14 DEF PeerGone, ReadFail, object, lock
<1>15. ASSUME NEW g \in Goroutine, SendLock(g) PROVE BlockInv'
  BY <1>15 DEF SendLock, object, lock
<1>16. ASSUME NEW g \in Goroutine, SendNil(g) PROVE BlockInv'
  BY <1>16 DEF SendNil, object, lock
<1>17. ASSUME NEW g \in Goroutine, SendBegin(g) PROVE BlockInv'
  BY <1>17 DEF SendBegin, object, lock
<1>18. ASSUME NEW g \in Goroutine, SendWrite(g) PROVE BlockInv'
  BY <1>18 DEF SendWrite, object, lock
<1>19. ASSUME NEW g \in Goroutine, CloseDeadline(g) PROVE BlockInv'
  BY <1>19 DEF CloseDeadline, object, lock
<1>20. ASSUME NEW g \in Goroutine, CloseLock(g) PROVE BlockInv'
  BY <1>20 DEF CloseLock, object, lock
<1>21. ASSUME NEW g \in Goroutine, CloseDrain(g) PROVE BlockInv'
  BY <1>21 DEF CloseDrain, object, lock
<1>22. ASSUME NEW g \in Goroutine, CloseConnection(g) PROVE BlockInv'
  BY <1>22 DEF CloseConnection, object, lock
<1>23. ASSUME NEW g \in Goroutine, CloseCheckCancel(g) PROVE BlockInv'
  BY <1>23 DEF CloseCheckCancel, object, lock
<1>24. ASSUME NEW g \in Goroutine, CloseCancel(g) PROVE BlockInv'
  BY <1>24 DEF CloseCancel, object, lock
<1>25. ASSUME NEW g \in Goroutine, CloseWait(g) PROVE BlockInv'
  BY <1>25 DEF CloseWait, object, lock
<1> HIDE
   DEF Typed, TypeOK, ObjectTypeOK, CallInv, WgInv, BlockInv
<1> QED
  BY <1>1, <1>2, <1>3, <1>4, <1>5, <1>6, <1>7, <1>8, <1>9, <1>10, <1>11, <1>12,
     <1>13, <1>14, <1>15, <1>16, <1>17, <1>18, <1>19, <1>20, <1>21, <1>22,
     <1>23, <1>24, <1>25
     DEF Next, WsStep, HandlerStep, CallStep, Panic, ReadNil, SendCollide,
         CloseNil, CloseCancelNil, vars

(* Close clears the connection and cancel, and goes on to close_wait.         *)
LEMMA GoneStep == Typed /\ GoneInv /\ [Next]_vars => GoneInv'
<1> SUFFICES ASSUME Typed /\ GoneInv, [Next]_vars PROVE GoneInv'
  OBVIOUS
<1>1. ASSUME UNCHANGED <<object, lock, pc, target, ret>> PROVE GoneInv'
  <2> SUFFICES ASSUME NEW w \in Ws, pc[w] # "fresh"
               PROVE  /\ (connection[w] \/ closed[w] \/ Closing(w))'
                      /\ (\/ cancel[w] \/ closed[w]
                          \/ \E g \in Goroutine : target[g] = w /\ pc[g] = "close_wait")'
    BY <1>1 DEF GoneInv
  <2>1. (connection[w] \/ closed[w] \/ Closing(w))'
    BY <1>1 DEF GoneInv, Closing, object
  <2>2. (\/ cancel[w] \/ closed[w]
         \/ \E g \in Goroutine : target[g] = w /\ pc[g] = "close_wait")'
    BY <1>1 DEF GoneInv, object
  <2> QED
    BY <2>1, <2>2
<1> USE GoroutineAssumption
   DEF Typed, TypeOK, ObjectTypeOK, CallInv, WgInv, GoneInv, Closing,
       Goroutine, CallPc, SendPc, ClosePc, ReadPc, HandlePc, At, Goto
<1>2. ASSUME NEW c \in Callers, NEW w \in Ws, Open(c, w) PROVE GoneInv'
  BY <1>2 DEF Open, OpenWs, object, lock
<1>3. ASSUME NEW c \in Callers, NEW w \in Ws, Send(c, w) PROVE GoneInv'
  BY <1>3 DEF Send, CallSend, Call, object, lock
<1>4. ASSUME NEW c \in Callers, NEW w \in Ws, Close(c, w) PROVE GoneInv'
  BY <1>4 DEF Close, CallClose, Call, object, lock
<1>5. ASSUME NEW w \in Ws, HandleStart(w) PROVE GoneInv'
  BY <1>5 DEF HandleStart, object, lock
<1>6. ASSUME NEW w \in Ws, HandleSelect(w) PROVE GoneInv'
  BY <1>6 DEF HandleSelect, object, lock
<1>7. ASSUME NEW w \in Ws, ReadLock(w) PROVE GoneInv'
  BY <1>7 DEF ReadLock, object, lock
<1>8. ASSUME NEW w \in Ws, ReadTimeout(w) PROVE GoneInv'
  BY <1>8 DEF ReadTimeout, ReadFail, object, lock
<1>9. ASSUME NEW w \in Ws, ReadReturn(w) PROVE GoneInv'
  BY <1>9 DEF ReadReturn, object, lock
<1>10. ASSUME NEW w \in Ws, HandleExit(w) PROVE GoneInv'
  BY <1>10 DEF HandleExit, object, lock
<1>11. ASSUME NEW w \in Ws, Callback(w) PROVE GoneInv'
  <2>1. CASE pc' = [pc EXCEPT ![w] = "read_return"]
             /\ UNCHANGED <<object, lock, target, ret, process>>
    BY <1>11, <2>1 DEF Callback, Goto, object, lock
  <2>2. ASSUME NEW v \in Ws, pc[v] # "fresh", NEW r \in {"callback", "read_return"},
               CallSend(w, v, r)
        PROVE  GoneInv'
    BY <1>11, <2>2 DEF Callback, CallSend, Call, object, lock
  <2>3. ASSUME NEW v \in Ws, pc[v] # "fresh", NEW r \in {"callback", "read_return"},
               CallClose(w, v, r)
        PROVE  GoneInv'
    BY <1>11, <2>3 DEF Callback, CallClose, Call, object, lock
  <2> QED
    BY <1>11, <2>1, <2>2, <2>3 DEF Callback
<1>12. ASSUME NEW w \in Ws, PeerText(w) PROVE GoneInv'
  BY <1>12 DEF PeerText, ReadText, object, lock
<1>13. ASSUME NEW w \in Ws, PeerClose(w) PROVE GoneInv'
  BY <1>13 DEF PeerClose, CallClose, Call, object, lock
<1>14. ASSUME NEW w \in Ws, PeerGone(w) PROVE GoneInv'
  BY <1>14 DEF PeerGone, ReadFail, object, lock
<1>15. ASSUME NEW g \in Goroutine, SendLock(g) PROVE GoneInv'
  BY <1>15 DEF SendLock, object, lock
<1>16. ASSUME NEW g \in Goroutine, SendNil(g) PROVE GoneInv'
  BY <1>16 DEF SendNil, object, lock
<1>17. ASSUME NEW g \in Goroutine, SendBegin(g) PROVE GoneInv'
  BY <1>17 DEF SendBegin, object, lock
<1>18. ASSUME NEW g \in Goroutine, SendWrite(g) PROVE GoneInv'
  BY <1>18 DEF SendWrite, object, lock
<1>19. ASSUME NEW g \in Goroutine, CloseDeadline(g) PROVE GoneInv'
  BY <1>19 DEF CloseDeadline, object, lock
<1>20. ASSUME NEW g \in Goroutine, CloseLock(g) PROVE GoneInv'
  BY <1>20 DEF CloseLock, object, lock
<1>21. ASSUME NEW g \in Goroutine, CloseDrain(g) PROVE GoneInv'
  BY <1>21 DEF CloseDrain, object, lock
<1>22. ASSUME NEW g \in Goroutine, CloseConnection(g) PROVE GoneInv'
  BY <1>22 DEF CloseConnection, object, lock
<1>23. ASSUME NEW g \in Goroutine, CloseCheckCancel(g) PROVE GoneInv'
  BY <1>23 DEF CloseCheckCancel, object, lock
<1>24. ASSUME NEW g \in Goroutine, CloseCancel(g) PROVE GoneInv'
  BY <1>24 DEF CloseCancel, object, lock
<1>25. ASSUME NEW g \in Goroutine, CloseWait(g) PROVE GoneInv'
  BY <1>25 DEF CloseWait, object, lock
<1> HIDE
   DEF Typed, TypeOK, ObjectTypeOK, CallInv, WgInv, GoneInv
<1> QED
  BY <1>1, <1>2, <1>3, <1>4, <1>5, <1>6, <1>7, <1>8, <1>9, <1>10, <1>11, <1>12,
     <1>13, <1>14, <1>15, <1>16, <1>17, <1>18, <1>19, <1>20, <1>21, <1>22,
     <1>23, <1>24, <1>25
     DEF Next, WsStep, HandlerStep, CallStep, Panic, ReadNil, SendCollide,
         CloseNil, CloseCancelNil, vars

-----------------------------------------------------------------------------
(* The inductive invariant holds throughout every behaviour.                  *)
THEOREM Invariance == Spec => []IInv
<1>1. Init => IInv
  <2> SUFFICES ASSUME Init PROVE IInv
    OBVIOUS
  <2> USE GoroutineAssumption
     DEF Init, WsInit, Goroutine, CallPc, SendPc, ClosePc, ReadPc, HandlePc
  <2>1. TypeOK
    BY DEF TypeOK, ObjectTypeOK
  <2>2. CallInv
    BY DEF CallInv
  <2>3. WgInv
    BY DEF WgInv
  <2>4. ReadInv /\ SendInv /\ AloneInv
    BY DEF ReadInv, SendInv, AloneInv
  <2>5. WriteInv
    BY DEF WriteInv
  <2>6. OpenWhileInUse /\ CancelInv /\ QuietAfterClose
    BY DEF OpenWhileInUse, InUse, CancelInv, QuietAfterClose
  <2> QED
    BY <2>1, <2>2, <2>3, <2>4, <2>5, <2>6 DEF IInv, Typed, Locked
<1>2. IInv /\ [Next]_vars => IInv'
  BY TypedStep, LockedStep, OpenWhileInUseStep, CancelInvStep, QuietAfterCloseStep
     DEF IInv
<1> QED
  BY <1>1, <1>2, PTL DEF Spec

(* Every variable of the websocket model keeps its type: in particular the    *)
(* wait group of websocket.go counts at most the one reading goroutine.       *)
THEOREM Typing == Spec => []TypeOK
<1>1. IInv => TypeOK
  BY DEF IInv, Typed
<1> QED
  BY <1>1, Invariance, PTL

(* No goroutine that reads, runs the callback or writes ever has ws.connection *)
(* closed or cleared under it, however many goroutines call Close.            *)
THEOREM UseIsSafe == Spec => []OpenWhileInUse
<1>1. IInv => OpenWhileInUse
  BY DEF IInv
<1> QED
  BY <1>1, Invariance, PTL

(* After a Close has returned, the reading goroutine never reads the          *)
(* connection or runs OnMessage again.                                        *)
THEOREM CloseIsQuiet == Spec => []QuietAfterClose
<1>1. IInv => QuietAfterClose
  BY DEF IInv
<1> QED
  BY <1>1, Invariance, PTL

(* A reading goroutine that closes its own object never gets the lock, and    *)
(* the object stays dead: no Send gets in and the connection stays open.      *)
THEOREM SelfCloseNeverReturns == Spec => SelfCloseStuck
<1> DEFINE Stuck == \A w \in Ws : writer[w] = w =>
                writer'[w] = w /\ senders'[w] \subseteq senders[w] /\ connection'[w]
<1>1. IInv /\ Next => Stuck
  <2> SUFFICES ASSUME IInv, Next, NEW v \in Ws, writer[v] = v
               PROVE  writer'[v] = v /\ senders'[v] \subseteq senders[v] /\ connection'[v]
    OBVIOUS
  <2>1. /\ Typed /\ Locked /\ OpenWhileInUse
        /\ pc[v] = "close_drain" /\ target[v] = v /\ reading[v] /\ connection[v]
    BY
       DEF IInv, Typed, Locked, ReadInv, SendInv, WriteInv, AloneInv,
           OpenWhileInUse, InUse,
           Goroutine, CallPc, SendPc, ClosePc, ReadPc, HandlePc, At, Goto
  <2> USE GoroutineAssumption, <2>1
      DEF Typed, Locked, TypeOK, ObjectTypeOK, CallInv, ReadInv, SendInv, WriteInv, AloneInv, OpenWhileInUse, InUse,
           Goroutine, CallPc, SendPc, ClosePc, ReadPc, HandlePc, At, Goto
  <2>2. ASSUME NEW c \in Callers, NEW w \in Ws, Open(c, w)
         PROVE  writer'[v] = v /\ senders'[v] \subseteq senders[v] /\ connection'[v]
    BY <2>2 DEF Open, OpenWs, object, lock
  <2>3. ASSUME NEW c \in Callers, NEW w \in Ws, Send(c, w)
         PROVE  writer'[v] = v /\ senders'[v] \subseteq senders[v] /\ connection'[v]
    BY <2>3 DEF Send, CallSend, Call, object, lock
  <2>4. ASSUME NEW c \in Callers, NEW w \in Ws, Close(c, w)
         PROVE  writer'[v] = v /\ senders'[v] \subseteq senders[v] /\ connection'[v]
    BY <2>4 DEF Close, CallClose, Call, object, lock
  <2>5. ASSUME NEW w \in Ws, HandleStart(w)
         PROVE  writer'[v] = v /\ senders'[v] \subseteq senders[v] /\ connection'[v]
    BY <2>5 DEF HandleStart, object, lock
  <2>6. ASSUME NEW w \in Ws, HandleSelect(w)
         PROVE  writer'[v] = v /\ senders'[v] \subseteq senders[v] /\ connection'[v]
    BY <2>6 DEF HandleSelect, object, lock
  <2>7. ASSUME NEW w \in Ws, ReadLock(w)
         PROVE  writer'[v] = v /\ senders'[v] \subseteq senders[v] /\ connection'[v]
    BY <2>7 DEF ReadLock, object, lock
  <2>8. ASSUME NEW w \in Ws, ReadTimeout(w)
         PROVE  writer'[v] = v /\ senders'[v] \subseteq senders[v] /\ connection'[v]
    BY <2>8 DEF ReadTimeout, ReadFail, object, lock
  <2>9. ASSUME NEW w \in Ws, ReadReturn(w)
         PROVE  writer'[v] = v /\ senders'[v] \subseteq senders[v] /\ connection'[v]
    BY <2>9 DEF ReadReturn, object, lock
  <2>10. ASSUME NEW w \in Ws, HandleExit(w)
         PROVE  writer'[v] = v /\ senders'[v] \subseteq senders[v] /\ connection'[v]
    BY <2>10 DEF HandleExit, object, lock
  <2>11. ASSUME NEW w \in Ws, Callback(w)
         PROVE  writer'[v] = v /\ senders'[v] \subseteq senders[v] /\ connection'[v]
    BY <2>11 DEF Callback, CallSend, CallClose, Call, object, lock
  <2>12. ASSUME NEW w \in Ws, PeerText(w)
         PROVE  writer'[v] = v /\ senders'[v] \subseteq senders[v] /\ connection'[v]
    BY <2>12 DEF PeerText, ReadText, object, lock
  <2>13. ASSUME NEW w \in Ws, PeerClose(w)
         PROVE  writer'[v] = v /\ senders'[v] \subseteq senders[v] /\ connection'[v]
    BY <2>13 DEF PeerClose, CallClose, Call, object, lock
  <2>14. ASSUME NEW w \in Ws, PeerGone(w)
         PROVE  writer'[v] = v /\ senders'[v] \subseteq senders[v] /\ connection'[v]
    BY <2>14 DEF PeerGone, ReadFail, object, lock
  <2>15. ASSUME NEW g \in Goroutine, SendLock(g)
         PROVE  writer'[v] = v /\ senders'[v] \subseteq senders[v] /\ connection'[v]
    BY <2>15 DEF SendLock, object, lock
  <2>16. ASSUME NEW g \in Goroutine, SendNil(g)
         PROVE  writer'[v] = v /\ senders'[v] \subseteq senders[v] /\ connection'[v]
    BY <2>16 DEF SendNil, object, lock
  <2>17. ASSUME NEW g \in Goroutine, SendBegin(g)
         PROVE  writer'[v] = v /\ senders'[v] \subseteq senders[v] /\ connection'[v]
    BY <2>17 DEF SendBegin, object, lock
  <2>18. ASSUME NEW g \in Goroutine, SendWrite(g)
         PROVE  writer'[v] = v /\ senders'[v] \subseteq senders[v] /\ connection'[v]
    BY <2>18 DEF SendWrite, object, lock
  <2>19. ASSUME NEW g \in Goroutine, CloseDeadline(g)
         PROVE  writer'[v] = v /\ senders'[v] \subseteq senders[v] /\ connection'[v]
    BY <2>19 DEF CloseDeadline, object, lock
  <2>20. ASSUME NEW g \in Goroutine, CloseLock(g)
         PROVE  writer'[v] = v /\ senders'[v] \subseteq senders[v] /\ connection'[v]
    BY <2>20 DEF CloseLock, object, lock
  <2>21. ASSUME NEW g \in Goroutine, CloseDrain(g)
         PROVE  writer'[v] = v /\ senders'[v] \subseteq senders[v] /\ connection'[v]
    BY <2>21 DEF CloseDrain, object, lock
  <2>22. ASSUME NEW g \in Goroutine, CloseConnection(g)
         PROVE  writer'[v] = v /\ senders'[v] \subseteq senders[v] /\ connection'[v]
    BY <2>22 DEF CloseConnection, object, lock
  <2>23. ASSUME NEW g \in Goroutine, CloseCheckCancel(g)
         PROVE  writer'[v] = v /\ senders'[v] \subseteq senders[v] /\ connection'[v]
    BY <2>23 DEF CloseCheckCancel, object, lock
  <2>24. ASSUME NEW g \in Goroutine, CloseCancel(g)
         PROVE  writer'[v] = v /\ senders'[v] \subseteq senders[v] /\ connection'[v]
    BY <2>24 DEF CloseCancel, object, lock
  <2>25. ASSUME NEW g \in Goroutine, CloseWait(g)
         PROVE  writer'[v] = v /\ senders'[v] \subseteq senders[v] /\ connection'[v]
    BY <2>25 DEF CloseWait, object, lock
  <2>26. ASSUME UNCHANGED <<object, lock>>
         PROVE  writer'[v] = v /\ senders'[v] \subseteq senders[v] /\ connection'[v]
    BY <2>26 DEF object, lock
  <2> HIDE
     DEF Typed, Locked, TypeOK, ObjectTypeOK, CallInv, ReadInv, SendInv, WriteInv,
         AloneInv
  <2> QED
    BY <2>2, <2>3, <2>4, <2>5, <2>6, <2>7, <2>8, <2>9, <2>10, <2>11, <2>12,
       <2>13, <2>14, <2>15, <2>16, <2>17, <2>18, <2>19, <2>20, <2>21, <2>22,
       <2>23, <2>24, <2>25, <2>26
       DEF Next, WsStep, HandlerStep, CallStep, Panic, ReadNil, SendCollide,
           CloseNil, CloseCancelNil
<1>2. IInv /\ [Next]_vars => [Stuck]_vars
  BY <1>1
<1> QED
  BY <1>2, Invariance, PTL DEF Spec, SelfCloseStuck

(* Whatever locks and wait groups keep a method from going on, only a callback *)
(* that calls a method itself can close the circle, whoever calls what and on  *)
(* however many objects.                                                       *)
THEOREM NoOtherDeadlock == Spec => []OnlyCallbacksBlock
<1>1. Init => BlockInv
  BY GoroutineAssumption DEF Init, BlockInv, ClosePc, Goroutine
<1>2. IInv /\ BlockInv => OnlyCallbacksBlock
  <2> SUFFICES ASSUME IInv, BlockInv, NEW g \in Goroutine, NEW h \in Goroutine, WaitsFor(g, h)
               PROVE  \/ GoesOn(h)
                      \/ pc[g] = "close_wait" /\ pc[h] = "read_lock"
                      \/ pc[g] \in {"send_lock", "close_lock", "read_lock"} /\ pc[h] = "close_drain"
                      \/ h \in Ws /\ reading[h] /\ pc[h] \in SendPc \cup ClosePc
    BY DEF OnlyCallbacksBlock
  <2> USE GoroutineAssumption DEF IInv, Typed, Locked
  <2>1. pc[g] \in CallPc => target[g] \in Ws /\ pc[target[g]] # "fresh"
    BY DEF CallInv
  <2>2. pc[g] = "read_lock" => g \in Ws
    BY DEF CallInv, Goroutine, CallPc, SendPc, ClosePc
  <2>3. ASSUME pc[g] \in {"send_lock", "close_lock"}, h = writer[target[g]]
        PROVE  pc[h] \in {"close_drain", "close_conn"}
    BY <2>1, <2>3 DEF WriteInv, CallPc, SendPc, ClosePc
  <2>4. ASSUME pc[g] = "read_lock", h = writer[g] PROVE pc[h] \in {"close_drain", "close_conn"}
    BY <2>2, <2>4 DEF WriteInv
  <2>5. ASSUME pc[g] = "close_drain", h \in senders[target[g]]
        PROVE  pc[h] \in {"send_check", "send_write"}
    BY <2>1, <2>5 DEF SendInv, CallPc, ClosePc
  <2>6. ASSUME pc[g] = "close_drain", h = target[g], reading[h]
        PROVE  GoesOn(h) \/ (h \in Ws /\ reading[h] /\ pc[h] \in SendPc \cup ClosePc)
    BY <2>1, <2>6 DEF ReadInv, BlockInv, ReadPc, CallPc, ClosePc, GoesOn
  <2>7. ASSUME pc[g] = "close_wait", h = target[g], wg[h] # 0
        PROVE  pc[h] \in {"select", "read_lock", "exit"}
    <3>1. h \in Ws /\ ~ connection[h]
      BY <2>1, <2>7 DEF BlockInv, CallPc, ClosePc
    <3>2. ~ reading[h]
      BY <3>1 DEF OpenWhileInUse, InUse
    <3>3. pc[h] \in HandlePc \ {"fresh", "spawned", "ended"}
      BY <2>7, <3>1, <3>2
         DEF ReadInv, WgInv, CallInv, TypeOK, Goroutine, CallPc, HandlePc, ReadPc
    <3> QED
      BY <3>3 DEF HandlePc
  <2> QED
    BY <2>3, <2>4, <2>5, <2>6, <2>7 DEF WaitsFor, GoesOn
<1> QED
  BY <1>1, <1>2, BlockStep, Invariance, PTL DEF Spec, IInv

(* A panic leaves everybody where he is.                                      *)
LEMMA RacesStay ==
    ASSUME UNCHANGED <<pc, target, closed>>
    PROVE  /\ ReadRace => ReadRace'
           /\ CloseRace => CloseRace'
           /\ CancelRace => CancelRace'
           /\ WriteRace => WriteRace'
<1>1. ReadRace => ReadRace'
  BY DEF ReadRace, Closing
<1>2. CloseRace => CloseRace'
  BY DEF CloseRace, Closing
<1>3. CancelRace => CancelRace'
  BY Zenon DEF CancelRace
<1>4. WriteRace => WriteRace'
  BY DEF WriteRace
<1> QED
  BY <1>1, <1>2, <1>3, <1>4

(* The process ends by a race that OnlyRacesPanic names and by nothing else,  *)
(* for any number of callers and objects and whatever the callbacks do.       *)
THEOREM PanicsAreRaces == Spec => []OnlyRacesPanic
<1>1. Init => GoneInv /\ OnlyRacesPanic
  BY GoroutineAssumption DEF Init, WsInit, GoneInv, OnlyRacesPanic, Goroutine
<1>2. IInv /\ GoneInv /\ OnlyRacesPanic /\ [Next]_vars => OnlyRacesPanic'
  <2> SUFFICES ASSUME IInv, GoneInv, OnlyRacesPanic, [Next]_vars PROVE OnlyRacesPanic'
    OBVIOUS
  <2>1. CASE UNCHANGED vars
    BY <2>1, RacesStay DEF vars, object, OnlyRacesPanic
  <2>2. CASE process' = "up"
    BY <2>2 DEF OnlyRacesPanic
  <2> USE DEF IInv, Typed, CallInv
  <2>3. ASSUME NEW w \in Ws, ReadNil(w) PROVE OnlyRacesPanic'
    <3>1. ReadRace
      BY <2>3 DEF ReadNil, At, GoneInv, QuietAfterClose, ReadRace
    <3> QED
      BY <2>3, <3>1, RacesStay DEF ReadNil, Panic, object, OnlyRacesPanic
  <2>4. ASSUME NEW g \in Goroutine, SendCollide(g) PROVE OnlyRacesPanic'
    <3>1. pc[g] = "send_check" /\ target[g] \in Ws
      BY <2>4 DEF SendCollide, At, CallPc, SendPc
    <3>2. PICK h \in senders[target[g]] : pc[h] = "send_write"
      BY <2>4 DEF SendCollide
    <3>3. h \in Goroutine
      <4>1. senders \in [Ws -> SUBSET Goroutine]
        BY DEF TypeOK, ObjectTypeOK
      <4> QED
        BY <3>1, <3>2, <4>1
    <3>4. target[h] = target[g]
      BY <3>1, <3>2, <3>3 DEF Locked, SendInv
    <3>5. WriteRace
      BY <3>1, <3>2, <3>3, <3>4 DEF WriteRace
    <3> QED
      BY <2>4, <3>5, RacesStay DEF SendCollide, Panic, object, OnlyRacesPanic
  <2>5. ASSUME NEW g \in Goroutine, CloseNil(g) PROVE OnlyRacesPanic'
    <3>1. CloseRace
      BY <2>5 DEF CloseNil, At, GoneInv, CallPc, ClosePc, CloseRace
    <3> QED
      BY <2>5, <3>1, RacesStay DEF CloseNil, Panic, object, OnlyRacesPanic
  <2>6. ASSUME NEW g \in Goroutine, CloseCancelNil(g) PROVE OnlyRacesPanic'
    <3>1. pc[g] = "close_cancel" /\ target[g] \in Ws /\ pc[target[g]] # "fresh"
      BY <2>6 DEF CloseCancelNil, At, CallPc, ClosePc
    <3>2. \/ closed[target[g]]
          \/ \E h \in Goroutine : target[h] = target[g] /\ pc[h] = "close_wait"
      BY <2>6, <3>1 DEF CloseCancelNil, GoneInv
    <3>3. CancelRace
      <4>1. CASE closed[target[g]]
        BY <3>1, <4>1, Zenon DEF CancelRace
      <4>2. ASSUME NEW h \in Goroutine, target[h] = target[g], pc[h] = "close_wait"
            PROVE  CancelRace
        BY <3>1, <4>2 DEF CancelRace
      <4> QED
        BY <3>2, <4>1, <4>2
    <3> QED
      BY <2>6, <3>3, RacesStay DEF CloseCancelNil, Panic, object, OnlyRacesPanic
  <2>7. \/ UNCHANGED vars
        \/ process' = "up"
        \/ \E w \in Ws : ReadNil(w)
        \/ \E g \in Goroutine : SendCollide(g) \/ CloseNil(g) \/ CloseCancelNil(g)
    <3>1. ASSUME NEW g \in Goroutine, CallStep(g)
          PROVE  process' = "up" \/ SendCollide(g) \/ CloseNil(g) \/ CloseCancelNil(g)
      BY <3>1
         DEF CallStep, SendLock, SendNil, SendBegin, SendWrite, CloseDeadline, CloseLock,
             CloseDrain, CloseConnection, CloseCheckCancel, CloseCancel, CloseWait, At
    <3>2. ASSUME NEW w \in Ws, HandlerStep(w) PROVE process' = "up" \/ ReadNil(w)
      BY <3>2
         DEF HandlerStep, HandleStart, HandleSelect, ReadLock, ReadTimeout, ReadFail,
             ReadReturn, HandleExit, At
    <3>3. ASSUME NEW w \in Ws, Callback(w) \/ PeerText(w) \/ PeerClose(w) \/ PeerGone(w)
          PROVE  process' = "up"
      BY <3>3
         DEF Callback, PeerText, ReadText, PeerClose, PeerGone, ReadFail, CallSend,
             CallClose, Call, At
    <3>4. ASSUME NEW c \in Callers, NEW w \in Ws, Open(c, w) \/ Send(c, w) \/ Close(c, w)
          PROVE  process' = "up"
      BY <3>4 DEF Open, OpenWs, Send, CallSend, Close, CallClose, Call, At
    <3> QED
      BY <3>1, <3>2, <3>3, <3>4 DEF Next, WsStep, Goroutine
  <2> QED
    BY <2>1, <2>2, <2>3, <2>4, <2>5, <2>6, <2>7
<1> QED
  BY <1>1, <1>2, GoneStep, Invariance, PTL DEF Spec, IInv
=============================================================================
