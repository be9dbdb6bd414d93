---------------------------- MODULE PipelineProofs ----------------------------
(***************************************************************************)
(* What Pipeline.tla keeps for any number of pipelines, one after another, *)
(* and that it implements Feed.tla.  The inductive invariant says how far  *)
(* the owner, the accepting goroutine and the reading goroutine of a       *)
(* pipeline can be from one another.                                       *)
(***************************************************************************)
EXTENDS Pipeline, TLAPS, FiniteSetTheorems

(* Where the reading goroutine may still call OnData. *)
Active == {"read_lock", "read_check", "read_block", "read_full", "callback"}

(* What is alive belongs to the pipeline that the owner is in: the path, if  *)
(* there is one, leads to it, and only its child runs.                       *)
OwnerInv ==
    /\ owner.at # "idle" => /\ owner.of \in Pipelines
                            /\ path \in {owner.of, Nil}
                            /\ ~ closed[owner.of]
    /\ \A p \in Pipelines :
        /\ apc[p] # "none" => closed[p] \/ (owner.at # "idle" /\ owner.of = p)
        /\ child[p] \in {"running", "interrupted"} => Owner(p, "opened") \/ Owner(p, "wait_child")

(* The wait group counts the reading goroutine from its first statement to   *)
(* its last, and whoever waits for it has cancelled the context before.      *)
HandleInv ==
    \A p \in Pipelines :
        /\ hpc[p] # "none" => apc[p] \in {"unlock", "ended"}
        /\ wg[p] = IF hpc[p] \in {"none", "spawned", "ended"} THEN 0 ELSE 1
        /\ Owner(p, "wait") \/ Owner(p, "wait_start") \/ closed[p] => done[p] \/ apc[p] = "none"

IInv == TypeOK /\ OwnerInv /\ HandleInv /\ NoFrameAfterClose /\ OwnChild

-----------------------------------------------------------------------------
(* The types hold after every step; the wait group stays 0 or 1 by HandleInv. *)
LEMMA TypeStep ==
    ASSUME TypeOK /\ HandleInv, [Next]_vars
    PROVE  TypeOK'
<1>1. ASSUME NEW p \in Pipelines, Listen(p) PROVE TypeOK'
  <2>1. /\ path' \in Pipelines \cup {Nil}
        /\ listener' \in [Pipelines -> BOOLEAN]
        /\ apc' \in [Pipelines -> {"none", "lock", "accept", "unlock", "ended"}]
      BY <1>1 DEF TypeOK, Listen, AcceptTo
  <2>2. owner' \in [at : {"idle", "start", "opened", "cancel_start", "wait_start",
                          "wait_child", "cancel", "wait"},
                    of : Pipelines \cup {Nil}]
      BY <1>1 DEF Listen, OwnerTo
  <2>3. QED
      BY <1>1, <2>1, <2>2 DEF TypeOK, Listen
<1>2. ASSUME NEW p \in Pipelines, Interrupt(p) PROVE TypeOK'
    BY <1>2, NilAssumption DEF TypeOK, HandleInv, Interrupt, Owner, OwnerTo, socket
<1>3. ASSUME NEW p \in Pipelines, Start(p) PROVE TypeOK'
    BY <1>3, NilAssumption DEF TypeOK, HandleInv, Start, Owner, OwnerTo, socket
<1>4. ASSUME NEW p \in Pipelines, WaitChild(p) PROVE TypeOK'
    BY <1>4, NilAssumption DEF TypeOK, HandleInv, WaitChild, Owner, OwnerTo, socket
<1>5. ASSUME NEW p \in Pipelines, Cancel(p) PROVE TypeOK'
    BY <1>5, NilAssumption DEF TypeOK, HandleInv, Cancel, Owner, OwnerTo, socket
<1>6. ASSUME NEW p \in Pipelines, CloseWait(p) PROVE TypeOK'
    BY <1>6, NilAssumption DEF TypeOK, HandleInv, CloseWait, Owner, OwnerTo, socket
<1>7. ASSUME NEW p \in Pipelines, AcceptLock(p) PROVE TypeOK'
    BY <1>7, NilAssumption DEF TypeOK, HandleInv, AcceptLock, AcceptTo, socket
<1>8. ASSUME NEW p \in Pipelines, Accept(p) PROVE TypeOK'
    BY <1>8, NilAssumption DEF TypeOK, HandleInv, Accept, AcceptTo, HandleTo, socket
<1>9. ASSUME NEW p \in Pipelines, AcceptUnlock(p) PROVE TypeOK'
    BY <1>9, NilAssumption DEF TypeOK, HandleInv, AcceptUnlock, AcceptTo, socket
<1>10. ASSUME NEW p \in Pipelines, AcceptFails(p) PROVE TypeOK'
    BY <1>10, NilAssumption DEF TypeOK, HandleInv, AcceptFails, AcceptTo, CloseListener, socket
<1>11. ASSUME NEW p \in Pipelines, HandleStart(p) PROVE TypeOK'
    BY <1>11, NilAssumption DEF TypeOK, HandleInv, HandleStart, HandleTo, socket
<1>12. ASSUME NEW p \in Pipelines, HandleSelect(p) PROVE TypeOK'
    BY <1>12, NilAssumption DEF TypeOK, HandleInv, HandleSelect, HandleTo, socket
<1>13. ASSUME NEW p \in Pipelines, ReadLock(p) PROVE TypeOK'
    BY <1>13, NilAssumption DEF TypeOK, HandleInv, ReadLock, HandleTo, socket
<1>14. ASSUME NEW p \in Pipelines, ReadCheck(p) PROVE TypeOK'
    BY <1>14, NilAssumption DEF TypeOK, HandleInv, ReadCheck, HandleTo, socket
<1>15. ASSUME NEW p \in Pipelines, ReadEof(p) PROVE TypeOK'
    BY <1>15, NilAssumption DEF TypeOK, HandleInv, ReadEof, HandleTo, socket
<1>16. ASSUME NEW p \in Pipelines, ReadReturn(p) PROVE TypeOK'
    BY <1>16, NilAssumption DEF TypeOK, HandleInv, ReadReturn, HandleTo, socket
<1>17. ASSUME NEW p \in Pipelines, OnData(p) PROVE TypeOK'
    BY <1>17, NilAssumption DEF TypeOK, HandleInv, OnData, HandleTo, socket
<1>18. ASSUME NEW p \in Pipelines, CloseConnection(p) PROVE TypeOK'
    BY <1>18, NilAssumption DEF TypeOK, HandleInv, CloseConnection, HandleTo, socket
<1>19. ASSUME NEW p \in Pipelines, HandleCloseListener(p) PROVE TypeOK'
    BY <1>19, NilAssumption DEF TypeOK, HandleInv, HandleCloseListener, HandleTo, CloseListener, socket
<1>20. ASSUME NEW p \in Pipelines, HandleDone(p) PROVE TypeOK'
    BY <1>20, NilAssumption DEF TypeOK, HandleInv, HandleDone, HandleTo, socket
<1>21. ASSUME NEW p \in Pipelines, ReadData(p) PROVE TypeOK'
  <2>1. child' \in [Pipelines -> {"none", "running", "interrupted", "draining", "dead"}]
      BY <1>21 DEF TypeOK, ReadData
  <2>2. hpc' \in [Pipelines -> {"none", "spawned", "select", "read_lock", "read_check", "read_block",
                                "read_full", "read_error", "callback", "close_connection",
                                "close_listener", "done", "ended"}]
      BY <1>21 DEF TypeOK, ReadData, HandleTo
  <2>3. wg' \in [Pipelines -> {0, 1}]
      BY <1>21 DEF TypeOK, ReadData, socket
  <2>4. QED
      BY <1>21, <2>1, <2>2, <2>3 DEF TypeOK, ReadData, socket
<1>22. ASSUME NEW p \in Pipelines, ReadFails(p) PROVE TypeOK'
    BY <1>22, NilAssumption DEF TypeOK, HandleInv, ReadFails, HandleTo, socket
<1>23. ASSUME NEW p \in Pipelines, ChildConnect(p) PROVE TypeOK'
    BY <1>23, NilAssumption DEF TypeOK, HandleInv, ChildConnect, socket
<1>24. ASSUME NEW p \in Pipelines, ChildDies(p) PROVE TypeOK'
    BY <1>24, NilAssumption DEF TypeOK, HandleInv, ChildDies, socket
<1>25. CASE UNCHANGED vars
    BY <1>25 DEF TypeOK, HandleInv, vars, socket
<1>26. QED
    BY <1>1, <1>2, <1>3, <1>4, <1>5, <1>6, <1>7, <1>8, <1>9, <1>10, <1>11, <1>12, <1>13, <1>14, <1>15, <1>16, <1>17, <1>18, <1>19, <1>20, <1>21, <1>22, <1>23, <1>24, <1>25 DEF Next, OwnerStep, AcceptStep, HandleStep

(* A pipeline is listened for when no other is open, its child is started in *)
(* it and has ended before the owner goes on.                                 *)
LEMMA OwnerInvStep ==
    ASSUME TypeOK /\ OwnerInv, [Next]_vars
    PROVE  OwnerInv'
<1>1. ASSUME NEW p \in Pipelines, Listen(p) PROVE OwnerInv'
    BY <1>1, NilAssumption DEF TypeOK, OwnerInv, Owner, Listen, OwnerTo, AcceptTo, socket
<1>2. ASSUME NEW p \in Pipelines, Interrupt(p) PROVE OwnerInv'
    BY <1>2, NilAssumption DEF TypeOK, OwnerInv, Owner, Interrupt, OwnerTo, socket
<1>3. ASSUME NEW p \in Pipelines, Start(p) PROVE OwnerInv'
  <2>1. owner.of = p /\ owner.at = "start" /\ owner'.of = p /\ owner'.at # "idle"
      BY <1>3 DEF Start, Owner, OwnerTo
  <2>2. \A q \in Pipelines : q # p => child'[q] \notin {"running", "interrupted"}
    <3>1. \A q \in Pipelines : ~ Owner(q, "opened") /\ ~ Owner(q, "wait_child")
        BY <2>1 DEF Owner
    <3>2. \A q \in Pipelines : q # p => child'[q] = child[q]
        BY <1>3 DEF TypeOK, Start
    <3>3. QED
        BY <3>1, <3>2 DEF OwnerInv
  <2>3. child'[p] \in {"running", "interrupted"} => Owner(p, "opened")'
      BY <1>3, <2>1 DEF TypeOK, OwnerInv, Owner, OwnerTo, Start
  <2>4. QED
      BY <1>3, <2>1, <2>2, <2>3 DEF TypeOK, OwnerInv, Start, socket
<1>4. ASSUME NEW p \in Pipelines, WaitChild(p) PROVE OwnerInv'
    BY <1>4, NilAssumption DEF TypeOK, OwnerInv, Owner, WaitChild, OwnerTo, socket
<1>5. ASSUME NEW p \in Pipelines, Cancel(p) PROVE OwnerInv'
    BY <1>5, NilAssumption DEF TypeOK, OwnerInv, Owner, Cancel, OwnerTo, socket
<1>6. ASSUME NEW p \in Pipelines, CloseWait(p) PROVE OwnerInv'
  <2>1. owner.of = p /\ owner.at \in {"wait", "wait_start"}
      BY <1>6 DEF CloseWait, Owner
  <2>2. \A q \in Pipelines : child'[q] \notin {"running", "interrupted"}
      BY <1>6, <2>1 DEF OwnerInv, Owner, CloseWait
  <2>3. CASE owner.at = "wait"
    <3>1. owner'.at = "idle" /\ closed'[p] /\ \A q \in Pipelines : closed[q] => closed'[q]
        BY <1>6, <2>3 DEF CloseWait, OwnerTo, TypeOK
    <3>2. QED
        BY <1>6, <2>1, <2>2, <3>1 DEF OwnerInv, CloseWait, socket
  <2>4. CASE owner.at = "wait_start"
    <3>1. /\ owner'.at = "opened" /\ owner'.of = p
          /\ ~ closed'[p] /\ \A q \in Pipelines : q # p => closed'[q] = closed[q]
        BY <1>6, <2>4 DEF CloseWait, OwnerTo, TypeOK
    <3>2. QED
        BY <1>6, <2>1, <2>2, <2>4, <3>1 DEF OwnerInv, CloseWait, socket
  <2>5. QED
      BY <2>1, <2>3, <2>4
<1>7. ASSUME NEW p \in Pipelines, AcceptLock(p) PROVE OwnerInv'
    BY <1>7, NilAssumption DEF TypeOK, OwnerInv, Owner, AcceptLock, AcceptTo, socket
<1>8. ASSUME NEW p \in Pipelines, Accept(p) PROVE OwnerInv'
    BY <1>8, NilAssumption DEF TypeOK, OwnerInv, Owner, Accept, AcceptTo, HandleTo, socket
<1>9. ASSUME NEW p \in Pipelines, AcceptUnlock(p) PROVE OwnerInv'
    BY <1>9, NilAssumption DEF TypeOK, OwnerInv, Owner, AcceptUnlock, AcceptTo, socket
<1>10. ASSUME NEW p \in Pipelines, AcceptFails(p) PROVE OwnerInv'
    BY <1>10, NilAssumption DEF TypeOK, OwnerInv, Owner, AcceptFails, AcceptTo, CloseListener, socket
<1>11. ASSUME NEW p \in Pipelines, HandleStart(p) PROVE OwnerInv'
    BY <1>11, NilAssumption DEF TypeOK, OwnerInv, Owner, HandleStart, HandleTo, socket
<1>12. ASSUME NEW p \in Pipelines, HandleSelect(p) PROVE OwnerInv'
    BY <1>12, NilAssumption DEF TypeOK, OwnerInv, Owner, HandleSelect, HandleTo, socket
<1>13. ASSUME NEW p \in Pipelines, ReadLock(p) PROVE OwnerInv'
    BY <1>13, NilAssumption DEF TypeOK, OwnerInv, Owner, ReadLock, HandleTo, socket
<1>14. ASSUME NEW p \in Pipelines, ReadCheck(p) PROVE OwnerInv'
    BY <1>14, NilAssumption DEF TypeOK, OwnerInv, Owner, ReadCheck, HandleTo, socket
<1>15. ASSUME NEW p \in Pipelines, ReadEof(p) PROVE OwnerInv'
    BY <1>15, NilAssumption DEF TypeOK, OwnerInv, Owner, ReadEof, HandleTo, socket
<1>16. ASSUME NEW p \in Pipelines, ReadReturn(p) PROVE OwnerInv'
    BY <1>16, NilAssumption DEF TypeOK, OwnerInv, Owner, ReadReturn, HandleTo, socket
<1>17. ASSUME NEW p \in Pipelines, OnData(p) PROVE OwnerInv'
    BY <1>17, NilAssumption DEF TypeOK, OwnerInv, Owner, OnData, HandleTo, socket
<1>18. ASSUME NEW p \in Pipelines, CloseConnection(p) PROVE OwnerInv'
    BY <1>18, NilAssumption DEF TypeOK, OwnerInv, Owner, CloseConnection, HandleTo, socket
<1>19. ASSUME NEW p \in Pipelines, HandleCloseListener(p) PROVE OwnerInv'
    BY <1>19, NilAssumption DEF TypeOK, OwnerInv, Owner, HandleCloseListener, HandleTo, CloseListener, socket
<1>20. ASSUME NEW p \in Pipelines, HandleDone(p) PROVE OwnerInv'
    BY <1>20, NilAssumption DEF TypeOK, OwnerInv, Owner, HandleDone, HandleTo, socket
<1>21. ASSUME NEW p \in Pipelines, ReadData(p) PROVE OwnerInv'
    BY <1>21, NilAssumption DEF TypeOK, OwnerInv, Owner, ReadData, HandleTo, socket
<1>22. ASSUME NEW p \in Pipelines, ReadFails(p) PROVE OwnerInv'
    BY <1>22, NilAssumption DEF TypeOK, OwnerInv, Owner, ReadFails, HandleTo, socket
<1>23. ASSUME NEW p \in Pipelines, ChildConnect(p) PROVE OwnerInv'
    BY <1>23, NilAssumption DEF TypeOK, OwnerInv, Owner, ChildConnect, socket
<1>24. ASSUME NEW p \in Pipelines, ChildDies(p) PROVE OwnerInv'
    BY <1>24, NilAssumption DEF TypeOK, OwnerInv, Owner, ChildDies, socket
<1>25. CASE UNCHANGED vars
    BY <1>25 DEF TypeOK, OwnerInv, Owner, vars, socket
<1>26. QED
    BY <1>1, <1>2, <1>3, <1>4, <1>5, <1>6, <1>7, <1>8, <1>9, <1>10, <1>11, <1>12, <1>13, <1>14, <1>15, <1>16, <1>17, <1>18, <1>19, <1>20, <1>21, <1>22, <1>23, <1>24, <1>25 DEF Next, OwnerStep, AcceptStep, HandleStep

(* The reading goroutine counts itself in and out once, and Cancel comes      *)
(* before the wait.                                                           *)
LEMMA HandleInvStep ==
    ASSUME TypeOK /\ OwnerInv /\ HandleInv, [Next]_vars
    PROVE  HandleInv'
<1>1. ASSUME NEW p \in Pipelines, Listen(p) PROVE HandleInv'
    BY <1>1, NilAssumption DEF TypeOK, OwnerInv, HandleInv, Owner, Listen, OwnerTo, AcceptTo, socket
<1>2. ASSUME NEW p \in Pipelines, Interrupt(p) PROVE HandleInv'
    BY <1>2, NilAssumption DEF TypeOK, OwnerInv, HandleInv, Owner, Interrupt, OwnerTo, socket
<1>3. ASSUME NEW p \in Pipelines, Start(p) PROVE HandleInv'
  <2>1. owner'.at \in {"opened", "cancel_start"}
      BY <1>3 DEF Start, OwnerTo
  <2>2. \A q \in Pipelines : ~ Owner(q, "wait")' /\ ~ Owner(q, "wait_start")'
      BY <2>1 DEF Owner
  <2>3. QED
      BY <1>3, <2>2 DEF HandleInv, Start, socket
<1>4. ASSUME NEW p \in Pipelines, WaitChild(p) PROVE HandleInv'
    BY <1>4, NilAssumption DEF TypeOK, OwnerInv, HandleInv, Owner, WaitChild, OwnerTo, socket
<1>5. ASSUME NEW p \in Pipelines, Cancel(p) PROVE HandleInv'
  <2>1. owner.of = p /\ owner'.of = p
      BY <1>5 DEF Cancel, Owner, OwnerTo
  <2>2. done'[p] \/ apc'[p] = "none"
      BY <1>5 DEF TypeOK, Cancel
  <2>3. \A q \in Pipelines : q # p => ~ Owner(q, "wait")' /\ ~ Owner(q, "wait_start")'
      BY <2>1 DEF Owner
  <2>4. \A q \in Pipelines : q # p => done'[q] = done[q]
      BY <1>5 DEF TypeOK, Cancel
  <2>5. QED
      BY <1>5, <2>2, <2>3, <2>4 DEF HandleInv, Cancel
<1>6. ASSUME NEW p \in Pipelines, CloseWait(p) PROVE HandleInv'
    BY <1>6, NilAssumption DEF TypeOK, OwnerInv, HandleInv, Owner, CloseWait, OwnerTo, socket
<1>7. ASSUME NEW p \in Pipelines, AcceptLock(p) PROVE HandleInv'
    BY <1>7, NilAssumption DEF TypeOK, OwnerInv, HandleInv, Owner, AcceptLock, AcceptTo, socket
<1>8. ASSUME NEW p \in Pipelines, Accept(p) PROVE HandleInv'
    BY <1>8, NilAssumption DEF TypeOK, OwnerInv, HandleInv, Owner, Accept, AcceptTo, HandleTo, socket
<1>9. ASSUME NEW p \in Pipelines, AcceptUnlock(p) PROVE HandleInv'
    BY <1>9, NilAssumption DEF TypeOK, OwnerInv, HandleInv, Owner, AcceptUnlock, AcceptTo, socket
<1>10. ASSUME NEW p \in Pipelines, AcceptFails(p) PROVE HandleInv'
    BY <1>10, NilAssumption DEF TypeOK, OwnerInv, HandleInv, Owner, AcceptFails, AcceptTo, CloseListener, socket
<1>11. ASSUME NEW p \in Pipelines, HandleStart(p) PROVE HandleInv'
    BY <1>11, NilAssumption DEF TypeOK, OwnerInv, HandleInv, Owner, HandleStart, HandleTo, socket
<1>12. ASSUME NEW p \in Pipelines, HandleSelect(p) PROVE HandleInv'
    BY <1>12, NilAssumption DEF TypeOK, OwnerInv, HandleInv, Owner, HandleSelect, HandleTo, socket
<1>13. ASSUME NEW p \in Pipelines, ReadLock(p) PROVE HandleInv'
    BY <1>13, NilAssumption DEF TypeOK, OwnerInv, HandleInv, Owner, ReadLock, HandleTo, socket
<1>14. ASSUME NEW p \in Pipelines, ReadCheck(p) PROVE HandleInv'
    BY <1>14, NilAssumption DEF TypeOK, OwnerInv, HandleInv, Owner, ReadCheck, HandleTo, socket
<1>15. ASSUME NEW p \in Pipelines, ReadEof(p) PROVE HandleInv'
    BY <1>15, NilAssumption DEF TypeOK, OwnerInv, HandleInv, Owner, ReadEof, HandleTo, socket
<1>16. ASSUME NEW p \in Pipelines, ReadReturn(p) PROVE HandleInv'
    BY <1>16, NilAssumption DEF TypeOK, OwnerInv, HandleInv, Owner, ReadReturn, HandleTo, socket
<1>17. ASSUME NEW p \in Pipelines, OnData(p) PROVE HandleInv'
    BY <1>17, NilAssumption DEF TypeOK, OwnerInv, HandleInv, Owner, OnData, HandleTo, socket
<1>18. ASSUME NEW p \in Pipelines, CloseConnection(p) PROVE HandleInv'
    BY <1>18, NilAssumption DEF TypeOK, OwnerInv, HandleInv, Owner, CloseConnection, HandleTo, socket
<1>19. ASSUME NEW p \in Pipelines, HandleCloseListener(p) PROVE HandleInv'
    BY <1>19, NilAssumption DEF TypeOK, OwnerInv, HandleInv, Owner, HandleCloseListener, HandleTo, CloseListener, socket
<1>20. ASSUME NEW p \in Pipelines, HandleDone(p) PROVE HandleInv'
    BY <1>20, NilAssumption DEF TypeOK, OwnerInv, HandleInv, Owner, HandleDone, HandleTo, socket
<1>21. ASSUME NEW p \in Pipelines, ReadData(p) PROVE HandleInv'
    BY <1>21, NilAssumption DEF TypeOK, OwnerInv, HandleInv, Owner, ReadData, HandleTo, socket
<1>22. ASSUME NEW p \in Pipelines, ReadFails(p) PROVE HandleInv'
    BY <1>22, NilAssumption DEF TypeOK, OwnerInv, HandleInv, Owner, ReadFails, HandleTo, socket
<1>23. ASSUME NEW p \in Pipelines, ChildConnect(p) PROVE HandleInv'
    BY <1>23, NilAssumption DEF TypeOK, OwnerInv, HandleInv, Owner, ChildConnect, socket
<1>24. ASSUME NEW p \in Pipelines, ChildDies(p) PROVE HandleInv'
    BY <1>24, NilAssumption DEF TypeOK, OwnerInv, HandleInv, Owner, ChildDies, socket
<1>25. CASE UNCHANGED vars
    BY <1>25 DEF TypeOK, OwnerInv, HandleInv, Owner, vars, socket
<1>26. QED
    BY <1>1, <1>2, <1>3, <1>4, <1>5, <1>6, <1>7, <1>8, <1>9, <1>10, <1>11, <1>12, <1>13, <1>14, <1>15, <1>16, <1>17, <1>18, <1>19, <1>20, <1>21, <1>22, <1>23, <1>24, <1>25 DEF Next, OwnerStep, AcceptStep, HandleStep

(* CloseWait finds a goroutine that has ended or not started; the latter goes *)
(* from its select to the end, as the context is done.                        *)
LEMMA NoFrameStep ==
    ASSUME TypeOK /\ OwnerInv /\ HandleInv /\ NoFrameAfterClose, [Next]_vars
    PROVE  NoFrameAfterClose'
<1>1. ASSUME NEW p \in Pipelines, Listen(p) PROVE NoFrameAfterClose'
    BY <1>1, NilAssumption DEF TypeOK, OwnerInv, HandleInv, NoFrameAfterClose, Owner, Listen, OwnerTo, AcceptTo, socket
<1>2. ASSUME NEW p \in Pipelines, Interrupt(p) PROVE NoFrameAfterClose'
    BY <1>2, NilAssumption DEF TypeOK, OwnerInv, HandleInv, NoFrameAfterClose, Owner, Interrupt, OwnerTo, socket
<1>3. ASSUME NEW p \in Pipelines, Start(p) PROVE NoFrameAfterClose'
    BY <1>3, NilAssumption DEF TypeOK, OwnerInv, HandleInv, NoFrameAfterClose, Owner, Start, OwnerTo, socket
<1>4. ASSUME NEW p \in Pipelines, WaitChild(p) PROVE NoFrameAfterClose'
    BY <1>4, NilAssumption DEF TypeOK, OwnerInv, HandleInv, NoFrameAfterClose, Owner, WaitChild, OwnerTo, socket
<1>5. ASSUME NEW p \in Pipelines, Cancel(p) PROVE NoFrameAfterClose'
    BY <1>5, NilAssumption DEF TypeOK, OwnerInv, HandleInv, NoFrameAfterClose, Owner, Cancel, OwnerTo, socket
<1>6. ASSUME NEW p \in Pipelines, CloseWait(p) PROVE NoFrameAfterClose'
    BY <1>6, NilAssumption DEF TypeOK, OwnerInv, HandleInv, NoFrameAfterClose, Owner, CloseWait, OwnerTo, socket
<1>7. ASSUME NEW p \in Pipelines, AcceptLock(p) PROVE NoFrameAfterClose'
    BY <1>7, NilAssumption DEF TypeOK, OwnerInv, HandleInv, NoFrameAfterClose, Owner, AcceptLock, AcceptTo, socket
<1>8. ASSUME NEW p \in Pipelines, Accept(p) PROVE NoFrameAfterClose'
    BY <1>8, NilAssumption DEF TypeOK, OwnerInv, HandleInv, NoFrameAfterClose, Owner, Accept, AcceptTo, HandleTo, socket
<1>9. ASSUME NEW p \in Pipelines, AcceptUnlock(p) PROVE NoFrameAfterClose'
    BY <1>9, NilAssumption DEF TypeOK, OwnerInv, HandleInv, NoFrameAfterClose, Owner, AcceptUnlock, AcceptTo, socket
<1>10. ASSUME NEW p \in Pipelines, AcceptFails(p) PROVE NoFrameAfterClose'
    BY <1>10, NilAssumption DEF TypeOK, OwnerInv, HandleInv, NoFrameAfterClose, Owner, AcceptFails, AcceptTo, CloseListener, socket
<1>11. ASSUME NEW p \in Pipelines, HandleStart(p) PROVE NoFrameAfterClose'
    BY <1>11, NilAssumption DEF TypeOK, OwnerInv, HandleInv, NoFrameAfterClose, Owner, HandleStart, HandleTo, socket
<1>12. ASSUME NEW p \in Pipelines, HandleSelect(p) PROVE NoFrameAfterClose'
    BY <1>12, NilAssumption DEF TypeOK, OwnerInv, HandleInv, NoFrameAfterClose, Owner, HandleSelect, HandleTo, socket
<1>13. ASSUME NEW p \in Pipelines, ReadLock(p) PROVE NoFrameAfterClose'
    BY <1>13, NilAssumption DEF TypeOK, OwnerInv, HandleInv, NoFrameAfterClose, Owner, ReadLock, HandleTo, socket
<1>14. ASSUME NEW p \in Pipelines, ReadCheck(p) PROVE NoFrameAfterClose'
    BY <1>14, NilAssumption DEF TypeOK, OwnerInv, HandleInv, NoFrameAfterClose, Owner, ReadCheck, HandleTo, socket
<1>15. ASSUME NEW p \in Pipelines, ReadEof(p) PROVE NoFrameAfterClose'
    BY <1>15, NilAssumption DEF TypeOK, OwnerInv, HandleInv, NoFrameAfterClose, Owner, ReadEof, HandleTo, socket
<1>16. ASSUME NEW p \in Pipelines, ReadReturn(p) PROVE NoFrameAfterClose'
    BY <1>16, NilAssumption DEF TypeOK, OwnerInv, HandleInv, NoFrameAfterClose, Owner, ReadReturn, HandleTo, socket
<1>17. ASSUME NEW p \in Pipelines, OnData(p) PROVE NoFrameAfterClose'
    BY <1>17, NilAssumption DEF TypeOK, OwnerInv, HandleInv, NoFrameAfterClose, Owner, OnData, HandleTo, socket
<1>18. ASSUME NEW p \in Pipelines, CloseConnection(p) PROVE NoFrameAfterClose'
    BY <1>18, NilAssumption DEF TypeOK, OwnerInv, HandleInv, NoFrameAfterClose, Owner, CloseConnection, HandleTo, socket
<1>19. ASSUME NEW p \in Pipelines, HandleCloseListener(p) PROVE NoFrameAfterClose'
    BY <1>19, NilAssumption DEF TypeOK, OwnerInv, HandleInv, NoFrameAfterClose, Owner, HandleCloseListener, HandleTo, CloseListener, socket
<1>20. ASSUME NEW p \in Pipelines, HandleDone(p) PROVE NoFrameAfterClose'
    BY <1>20, NilAssumption DEF TypeOK, OwnerInv, HandleInv, NoFrameAfterClose, Owner, HandleDone, HandleTo, socket
<1>21. ASSUME NEW p \in Pipelines, ReadData(p) PROVE NoFrameAfterClose'
    BY <1>21, NilAssumption DEF TypeOK, OwnerInv, HandleInv, NoFrameAfterClose, Owner, ReadData, HandleTo, socket
<1>22. ASSUME NEW p \in Pipelines, ReadFails(p) PROVE NoFrameAfterClose'
    BY <1>22, NilAssumption DEF TypeOK, OwnerInv, HandleInv, NoFrameAfterClose, Owner, ReadFails, HandleTo, socket
<1>23. ASSUME NEW p \in Pipelines, ChildConnect(p) PROVE NoFrameAfterClose'
    BY <1>23, NilAssumption DEF TypeOK, OwnerInv, HandleInv, NoFrameAfterClose, Owner, ChildConnect, socket
<1>24. ASSUME NEW p \in Pipelines, ChildDies(p) PROVE NoFrameAfterClose'
    BY <1>24, NilAssumption DEF TypeOK, OwnerInv, HandleInv, NoFrameAfterClose, Owner, ChildDies, socket
<1>25. CASE UNCHANGED vars
    BY <1>25 DEF TypeOK, OwnerInv, HandleInv, NoFrameAfterClose, Owner, vars, socket
<1>26. QED
    BY <1>1, <1>2, <1>3, <1>4, <1>5, <1>6, <1>7, <1>8, <1>9, <1>10, <1>11, <1>12, <1>13, <1>14, <1>15, <1>16, <1>17, <1>18, <1>19, <1>20, <1>21, <1>22, <1>23, <1>24, <1>25 DEF Next, OwnerStep, AcceptStep, HandleStep

(* A child that dials finds the path of its own pipeline, or none.           *)
LEMMA OwnChildStep ==
    ASSUME TypeOK /\ OwnerInv /\ OwnChild, [Next]_vars
    PROVE  OwnChild'
<1>1. ASSUME NEW p \in Pipelines, Listen(p) PROVE OwnChild'
    BY <1>1, NilAssumption DEF TypeOK, OwnerInv, OwnChild, Owner, Listen, OwnerTo, AcceptTo, socket
<1>2. ASSUME NEW p \in Pipelines, Interrupt(p) PROVE OwnChild'
    BY <1>2, NilAssumption DEF TypeOK, OwnerInv, OwnChild, Owner, Interrupt, OwnerTo, socket
<1>3. ASSUME NEW p \in Pipelines, Start(p) PROVE OwnChild'
    BY <1>3, NilAssumption DEF TypeOK, OwnerInv, OwnChild, Owner, Start, OwnerTo, socket
<1>4. ASSUME NEW p \in Pipelines, WaitChild(p) PROVE OwnChild'
    BY <1>4, NilAssumption DEF TypeOK, OwnerInv, OwnChild, Owner, WaitChild, OwnerTo, socket
<1>5. ASSUME NEW p \in Pipelines, Cancel(p) PROVE OwnChild'
    BY <1>5, NilAssumption DEF TypeOK, OwnerInv, OwnChild, Owner, Cancel, OwnerTo, socket
<1>6. ASSUME NEW p \in Pipelines, CloseWait(p) PROVE OwnChild'
    BY <1>6, NilAssumption DEF TypeOK, OwnerInv, OwnChild, Owner, CloseWait, OwnerTo, socket
<1>7. ASSUME NEW p \in Pipelines, AcceptLock(p) PROVE OwnChild'
    BY <1>7, NilAssumption DEF TypeOK, OwnerInv, OwnChild, Owner, AcceptLock, AcceptTo, socket
<1>8. ASSUME NEW p \in Pipelines, Accept(p) PROVE OwnChild'
    BY <1>8, NilAssumption DEF TypeOK, OwnerInv, OwnChild, Owner, Accept, AcceptTo, HandleTo, socket
<1>9. ASSUME NEW p \in Pipelines, AcceptUnlock(p) PROVE OwnChild'
    BY <1>9, NilAssumption DEF TypeOK, OwnerInv, OwnChild, Owner, AcceptUnlock, AcceptTo, socket
<1>10. ASSUME NEW p \in Pipelines, AcceptFails(p) PROVE OwnChild'
    BY <1>10, NilAssumption DEF TypeOK, OwnerInv, OwnChild, Owner, AcceptFails, AcceptTo, CloseListener, socket
<1>11. ASSUME NEW p \in Pipelines, HandleStart(p) PROVE OwnChild'
    BY <1>11, NilAssumption DEF TypeOK, OwnerInv, OwnChild, Owner, HandleStart, HandleTo, socket
<1>12. ASSUME NEW p \in Pipelines, HandleSelect(p) PROVE OwnChild'
    BY <1>12, NilAssumption DEF TypeOK, OwnerInv, OwnChild, Owner, HandleSelect, HandleTo, socket
<1>13. ASSUME NEW p \in Pipelines, ReadLock(p) PROVE OwnChild'
    BY <1>13, NilAssumption DEF TypeOK, OwnerInv, OwnChild, Owner, ReadLock, HandleTo, socket
<1>14. ASSUME NEW p \in Pipelines, ReadCheck(p) PROVE OwnChild'
    BY <1>14, NilAssumption DEF TypeOK, OwnerInv, OwnChild, Owner, ReadCheck, HandleTo, socket
<1>15. ASSUME NEW p \in Pipelines, ReadEof(p) PROVE OwnChild'
    BY <1>15, NilAssumption DEF TypeOK, OwnerInv, OwnChild, Owner, ReadEof, HandleTo, socket
<1>16. ASSUME NEW p \in Pipelines, ReadReturn(p) PROVE OwnChild'
    BY <1>16, NilAssumption DEF TypeOK, OwnerInv, OwnChild, Owner, ReadReturn, HandleTo, socket
<1>17. ASSUME NEW p \in Pipelines, OnData(p) PROVE OwnChild'
    BY <1>17, NilAssumption DEF TypeOK, OwnerInv, OwnChild, Owner, OnData, HandleTo, socket
<1>18. ASSUME NEW p \in Pipelines, CloseConnection(p) PROVE OwnChild'
    BY <1>18, NilAssumption DEF TypeOK, OwnerInv, OwnChild, Owner, CloseConnection, HandleTo, socket
<1>19. ASSUME NEW p \in Pipelines, HandleCloseListener(p) PROVE OwnChild'
    BY <1>19, NilAssumption DEF TypeOK, OwnerInv, OwnChild, Owner, HandleCloseListener, HandleTo, CloseListener, socket
<1>20. ASSUME NEW p \in Pipelines, HandleDone(p) PROVE OwnChild'
    BY <1>20, NilAssumption DEF TypeOK, OwnerInv, OwnChild, Owner, HandleDone, HandleTo, socket
<1>21. ASSUME NEW p \in Pipelines, ReadData(p) PROVE OwnChild'
    BY <1>21, NilAssumption DEF TypeOK, OwnerInv, OwnChild, Owner, ReadData, HandleTo, socket
<1>22. ASSUME NEW p \in Pipelines, ReadFails(p) PROVE OwnChild'
    BY <1>22, NilAssumption DEF TypeOK, OwnerInv, OwnChild, Owner, ReadFails, HandleTo, socket
<1>23. ASSUME NEW p \in Pipelines, ChildConnect(p) PROVE OwnChild'
    BY <1>23, NilAssumption DEF TypeOK, OwnerInv, OwnChild, Owner, ChildConnect, socket
<1>24. ASSUME NEW p \in Pipelines, ChildDies(p) PROVE OwnChild'
    BY <1>24, NilAssumption DEF TypeOK, OwnerInv, OwnChild, Owner, ChildDies, socket
<1>25. CASE UNCHANGED vars
    BY <1>25 DEF TypeOK, OwnerInv, OwnChild, Owner, vars, socket
<1>26. QED
    BY <1>1, <1>2, <1>3, <1>4, <1>5, <1>6, <1>7, <1>8, <1>9, <1>10, <1>11, <1>12, <1>13, <1>14, <1>15, <1>16, <1>17, <1>18, <1>19, <1>20, <1>21, <1>22, <1>23, <1>24, <1>25 DEF Next, OwnerStep, AcceptStep, HandleStep

-----------------------------------------------------------------------------
(* IInv holds in every state of every behaviour. *)
THEOREM Invariance == Spec => []IInv
<1>1. Init => IInv
    BY NilAssumption
    DEF Init, IInv, TypeOK, OwnerInv, HandleInv, NoFrameAfterClose, OwnChild, Owner
<1>2. IInv /\ [Next]_vars => IInv'
    BY TypeStep, OwnerInvStep, HandleInvStep, NoFrameStep, OwnChildStep DEF IInv
<1>3. QED
    BY <1>1, <1>2, PTL DEF Spec

(* The types of Pipeline.tla, the wait group's two values among them. *)
THEOREM Typing == Spec => []TypeOK
BY Invariance, PTL DEF IInv

(* A closed pipeline hands on no frame (socket.go:109 and 267).  *)
THEOREM ClosedIsQuiet == Spec => []NoFrameAfterClose
BY Invariance, PTL DEF IInv

(* A pipeline is fed by its own child only (socket.go:48-62, 110-114). *)
THEOREM FedByItsOwn == Spec => []OwnChild
BY Invariance, PTL DEF IInv

(* One child at a time uses the capture device (exec.go:49-69): it is that    *)
(* of the pipeline the owner is in.                                           *)
THEOREM AloneOnTheDevice == Spec => []OneChild
<1>1. IInv => OneChild
  <2> SUFFICES ASSUME IInv PROVE OneChild
      OBVIOUS
  <2> DEFINE Running == {p \in Pipelines : child[p] \in {"running", "interrupted"}}
  <2>1. Running \subseteq {owner.of}
      BY DEF IInv, OwnerInv, Owner
  <2>2. IsFiniteSet({owner.of}) /\ Cardinality({owner.of}) = 1
      BY FS_Singleton
  <2>3. Cardinality(Running) \in Nat /\ Cardinality(Running) <= 1
      BY <2>1, <2>2, FS_Subset, FS_CardinalityType
  <2>4. QED
      BY <2>3 DEF OneChild
<1>2. QED
    BY <1>1, Invariance, PTL

-----------------------------------------------------------------------------
(* Pipelines implement Feed.tla: every step is one of an abstract video, or   *)
(* changes nothing that its owner sees.                                       *)
Open == IF owner.at = "idle" THEN {} ELSE {owner.of}
Calling == {p \in Pipelines : hpc[p] = "callback"}

THEOREM ImplementsFeed == Spec => KeepsFeed
<1>1. Init => Fed!Init
    BY DEF Init, Fed!Init
<1>2. IInv /\ [Next]_vars => [Fed!Next]_(Fed!feed)
  <2> SUFFICES ASSUME IInv, [Next]_vars
               PROVE  Fed!Next \/ (Open' = Open /\ Calling' = Calling)
      BY DEF Fed!feed, Open, Calling
  <2> USE DEF IInv
  <2>1. ASSUME NEW p \in Pipelines, Listen(p) PROVE Fed!Open(p)
      BY <2>1 DEF Listen, OwnerTo, Fed!Open
  <2>2. ASSUME NEW p \in Pipelines, CloseWait(p), owner.at = "wait" PROVE Fed!Close(p)
    <3>1. owner.of = p /\ hpc[p] # "callback" /\ owner'.at = "idle"
        BY <2>2 DEF CloseWait, Owner, OwnerTo, HandleInv
    <3>2. QED
        BY <2>2, <3>1 DEF CloseWait, Fed!Close
  <2>3. ASSUME NEW p \in Pipelines, ReadReturn(p), hpc'[p] = "callback" PROVE Fed!Call(p)
    <3>1. hpc[p] = "read_full"
        BY <2>3 DEF ReadReturn, HandleTo, TypeOK
    <3>2. owner.at # "idle" /\ owner.of = p
        BY <3>1 DEF NoFrameAfterClose, HandleInv, OwnerInv
    <3>3. Calling' = Calling \cup {p} /\ UNCHANGED owner
        BY <2>3 DEF ReadReturn, HandleTo, TypeOK, Calling
    <3>4. QED
        BY <3>2, <3>3 DEF Fed!Call, Calling
  <2>4. ASSUME NEW p \in Pipelines, OnData(p) PROVE Fed!Return(p)
    <3>1. p \in Calling /\ Calling' = Calling \ {p} /\ UNCHANGED owner
        BY <2>4 DEF OnData, HandleTo, TypeOK, Calling
    <3>2. QED
        BY <3>1 DEF Fed!Return, Calling
  <2>5. ASSUME NEW p \in Pipelines,
               Start(p) \/ Interrupt(p) \/ WaitChild(p) \/ Cancel(p)
                 \/ (CloseWait(p) /\ owner.at # "wait")
        PROVE  Open' = Open /\ Calling' = Calling
      BY <2>5 DEF Start, Interrupt, WaitChild, Cancel, CloseWait, Owner, OwnerTo, Open, Calling
  <2>6. ASSUME NEW p \in Pipelines,
               AcceptStep(p) \/ AcceptFails(p) \/ ChildConnect(p) \/ ChildDies(p)
        PROVE  Open' = Open /\ Calling' = Calling
    <3>1. CASE Accept(p)
      <4>1. hpc[p] = "none"
          BY <3>1 DEF Accept, HandleInv
      <4>2. QED
          BY <3>1, <4>1 DEF Accept, HandleTo, TypeOK, Open, Calling
    <3>2. CASE ~ Accept(p)
        BY <2>6, <3>2 DEF AcceptStep, AcceptLock, AcceptUnlock, AcceptFails, ChildConnect,
                          ChildDies, Open, Calling
    <3>3. QED
        BY <3>1, <3>2
  <2>7. ASSUME NEW p \in Pipelines,
               HandleStep(p) \/ ReadData(p) \/ ReadFails(p),
               ~ OnData(p), ~ (ReadReturn(p) /\ hpc'[p] = "callback")
        PROVE  Open' = Open /\ Calling' = Calling
    <3>1. UNCHANGED owner
        BY <2>7 DEF HandleStep, HandleStart, HandleSelect, ReadLock, ReadCheck, ReadEof,
                    ReadReturn, CloseConnection, HandleCloseListener, HandleDone, ReadData,
                    ReadFails
    <3>2. hpc[p] # "callback" /\ hpc'[p] # "callback"
        BY <2>7 DEF HandleStep, HandleStart, HandleSelect, ReadLock, ReadCheck, ReadEof,
                    ReadReturn, CloseConnection, HandleCloseListener, HandleDone, ReadData,
                    ReadFails, HandleTo, TypeOK
    <3>3. \A q \in Pipelines : q # p => hpc'[q] = hpc[q]
        BY <2>7 DEF HandleStep, HandleStart, HandleSelect, ReadLock, ReadCheck, ReadEof,
                    ReadReturn, CloseConnection, HandleCloseListener, HandleDone, ReadData,
                    ReadFails, HandleTo, TypeOK
    <3>4. QED
        BY <3>1, <3>2, <3>3 DEF Open, Calling
  <2>8. CASE UNCHANGED vars
      BY <2>8 DEF vars, Open, Calling
  <2>9. QED
      BY <2>1, <2>2, <2>3, <2>4, <2>5, <2>6, <2>7, <2>8
      DEF Next, OwnerStep, HandleStep, Fed!Next
<1>3. QED
    BY <1>1, <1>2, Invariance, PTL DEF Spec, KeepsFeed, Fed!Spec
-----------------------------------------------------------------------------
(* What holds up a Close that waits for its reading goroutine. *)
Reading == {"read_check", "read_block", "read_full", "read_error"}
Connected == {"spawned", "select", "close_connection"} \cup Reading \cup Active

(* The locks are held where the places say, the reading goroutine has a       *)
(* connection until it closes it, and only a child that was started dials.    *)
LockInv ==
    \A p \in Pipelines :
        /\ mu[p] = "accept" <=> apc[p] \in {"accept", "unlock"}
        /\ reading[p] <=> hpc[p] \in Reading
        /\ hpc[p] \in Connected => connection[p] = p
        /\ connection[p] = p \/ p \in backlog[p] => child[p] # "none"

(* The reading goroutine can take its next step, or can as soon as the one    *)
(* that has accepted unlocks.  A read returns when the child has ended.       *)
ReaderGoesOn(p) ==
    \/ hpc[p] \in {"select", "read_check", "read_full", "read_error", "callback",
                   "close_listener", "done"}
    \/ hpc[p] = "read_block" /\ child[connection[p]] \in {"draining", "dead"}
    \/ hpc[p] \in {"read_lock", "close_connection"} /\ ~ reading[p]
         /\ (mu[p] = "free" \/ apc[p] = "unlock")

(* Socket.Close waits for nobody who waits: not for a read that has nothing   *)
(* to read, not for an Accept that holds the lock, not for the owner itself.  *)
CloseGoesOn ==
    \A p \in Pipelines :
        (Owner(p, "wait") \/ Owner(p, "wait_start")) /\ wg[p] # 0
            => ReaderGoesOn(p) /\ done[p]

(* Each of the three goroutines of a pipeline takes and gives back its lock   *)
(* as its place moves; a connection comes from the backlog of its pipeline.   *)
LEMMA LockStep ==
    ASSUME IInv /\ LockInv, [Next]_vars
    PROVE  LockInv'
<1> USE DEF IInv
<1>1. ASSUME NEW p \in Pipelines, Listen(p) PROVE LockInv'
    BY <1>1 DEF TypeOK, LockInv, Listen, AcceptTo
<1>2. ASSUME NEW p \in Pipelines, Start(p) \/ Interrupt(p) \/ ReadData(p) \/ ChildDies(p)
      PROVE  \A q \in Pipelines : child[q] # "none" => child'[q] # "none"
    BY <1>2 DEF TypeOK, Start, Interrupt, ReadData, ChildDies
<1>3. ASSUME NEW p \in Pipelines,
             Start(p) \/ Interrupt(p) \/ WaitChild(p) \/ Cancel(p) \/ CloseWait(p) \/ ChildDies(p)
      PROVE  LockInv'
  <2>1. UNCHANGED <<mu, apc, reading, hpc, connection, backlog>>
      BY <1>3 DEF Start, Interrupt, WaitChild, Cancel, CloseWait, ChildDies, socket
  <2>2. \A q \in Pipelines : child[q] # "none" => child'[q] # "none"
      BY <1>2, <1>3 DEF WaitChild, Cancel, CloseWait
  <2>3. QED
      BY <2>1, <2>2 DEF LockInv
<1>4. ASSUME NEW p \in Pipelines, AcceptLock(p) \/ AcceptFails(p) \/ AcceptUnlock(p) PROVE LockInv'
    BY <1>4 DEF TypeOK, LockInv, AcceptLock, AcceptFails, AcceptUnlock, AcceptTo, CloseListener
<1>5. ASSUME NEW p \in Pipelines, Accept(p) PROVE LockInv'
  <2>1. connection' = [connection EXCEPT ![p] = p] /\ p \in backlog[p]
      BY <1>5 DEF Accept, OwnChild
  <2>2. hpc[p] = "none" /\ hpc' = [hpc EXCEPT ![p] = "spawned"] /\ apc' = [apc EXCEPT ![p] = "unlock"]
      BY <1>5 DEF Accept, AcceptTo, HandleTo, HandleInv
  <2>3. \A q \in Pipelines : backlog'[q] \subseteq backlog[q]
      BY <1>5 DEF Accept, TypeOK
  <2>4. apc[p] = "accept" /\ UNCHANGED <<mu, reading, child>>
      BY <1>5 DEF Accept
  <2>5. QED
      BY <2>1, <2>2, <2>3, <2>4 DEF LockInv, TypeOK, Connected, Reading, Active
<1>6. ASSUME NEW p \in Pipelines,
             HandleStart(p) \/ HandleSelect(p) \/ ReadCheck(p) \/ ReadEof(p) \/ ReadFails(p)
               \/ OnData(p) \/ HandleDone(p)
      PROVE  LockInv'
    BY <1>6 DEF TypeOK, LockInv, HandleStart, HandleSelect, ReadCheck, ReadEof, ReadFails, OnData,
                HandleDone, HandleTo, Connected, Reading, Active, socket
<1>7. ASSUME NEW p \in Pipelines, ReadLock(p) \/ ReadReturn(p) PROVE LockInv'
    BY <1>7 DEF TypeOK, LockInv, ReadLock, ReadReturn, HandleTo, Connected, Reading, Active
<1>8. ASSUME NEW p \in Pipelines, ReadData(p) PROVE LockInv'
  <2>1. hpc[p] = "read_block" /\ (HandleTo(p, "read_check") \/ HandleTo(p, "read_full"))
      BY <1>8 DEF ReadData
  <2>2. UNCHANGED <<mu, apc, reading, connection, backlog>>
      BY <1>8 DEF ReadData, socket
  <2>3. \A q \in Pipelines : child[q] # "none" => child'[q] # "none"
      BY <1>2, <1>8
  <2>4. QED
      BY <2>1, <2>2, <2>3 DEF LockInv, TypeOK, HandleTo, Connected, Reading, Active
<1>9. ASSUME NEW p \in Pipelines, CloseConnection(p) \/ HandleCloseListener(p) PROVE LockInv'
    BY <1>9, NilAssumption DEF TypeOK, LockInv, CloseConnection, HandleCloseListener, CloseListener,
                HandleTo, Connected, Reading, Active
<1>10. ASSUME NEW p \in Pipelines, ChildConnect(p) PROVE LockInv'
  <2>1. \A q \in Pipelines : q \in backlog'[q] => q \in backlog[q] \/ q = p
      BY <1>10 DEF ChildConnect, TypeOK
  <2>2. child[p] # "none" /\ UNCHANGED <<mu, apc, reading, hpc, connection, child>>
      BY <1>10 DEF ChildConnect, socket
  <2>3. QED
      BY <2>1, <2>2 DEF LockInv
<1>11. CASE UNCHANGED vars
    BY <1>11 DEF LockInv, vars, socket
<1>12. QED
    BY <1>1, <1>3, <1>4, <1>5, <1>6, <1>7, <1>8, <1>9, <1>10, <1>11
    DEF Next, OwnerStep, AcceptStep, HandleStep

(* Video.Close stops the child before it closes the socket (video.go:64-67),  *)
(* and openConnection holds the lock only until somebody has connected        *)
(* (socket.go:68-90): so a Close that waits (socket.go:267) waits for a       *)
(* goroutine that goes on, and that finds the context done.                   *)
THEOREM CloseWaitsForRunners == Spec => []CloseGoesOn
<1>1. Init => LockInv
    BY NilAssumption DEF Init, LockInv, Connected, Reading, Active
<1>2. Spec => []LockInv
    BY <1>1, LockStep, Invariance, PTL DEF Spec
<1>3. IInv /\ LockInv => CloseGoesOn
  <2> SUFFICES ASSUME IInv, LockInv, NEW p \in Pipelines,
                      Owner(p, "wait") \/ Owner(p, "wait_start"), wg[p] # 0
               PROVE  ReaderGoesOn(p) /\ done[p]
      BY DEF CloseGoesOn
  <2> USE DEF IInv
  <2>1. hpc[p] \notin {"none", "spawned", "ended"} /\ apc[p] \in {"unlock", "ended"} /\ done[p]
      BY DEF HandleInv, TypeOK
  <2>2. CASE hpc[p] = "read_block"
    <3>1. connection[p] = p /\ child[p] # "none"
        BY <2>2 DEF LockInv, Connected, Reading
    <3>2. child[p] \notin {"running", "interrupted"}
        BY DEF OwnerInv, Owner
    <3>3. QED
        BY <2>1, <2>2, <3>1, <3>2 DEF ReaderGoesOn, TypeOK
  <2>3. CASE hpc[p] \in {"read_lock", "close_connection"}
      BY <2>1, <2>3 DEF ReaderGoesOn, LockInv, Reading, TypeOK
  <2>4. QED
      BY <2>1, <2>2, <2>3 DEF ReaderGoesOn, TypeOK
<1>4. QED
    BY <1>2, <1>3, Invariance, PTL
=============================================================================
