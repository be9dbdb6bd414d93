------------------------------- MODULE Pipeline -------------------------------
(***************************************************************************)
(* The video pipelines of the device, one after another: src/packages/     *)
(* video/video.go over src/libs/socket/socket.go and src/libs/exec/exec.go. *)
(* Video.Open listens on a unix socket and starts a child program, which   *)
(* connects to the socket's path and sends frames; Video.Close interrupts  *)
(* the child and closes the socket.  All pipelines use the same path.      *)
(*                                                                         *)
(* The owner is the goroutine that opens and closes pipelines, in turn.    *)
(* Every pipeline p has a goroutine that accepts one connection, at apc[p],*)
(* and one that reads it, at hpc[p].  mu[p] is connectionMu's write lock   *)
(* and reading[p] the read lock that read() holds.  A child may die at any *)
(* time; it is "draining" while bytes of it are still unread.              *)
(***************************************************************************)
EXTENDS Integers, FiniteSets

CONSTANTS Pipelines,
          Nil,
          Faults    \* what may fail: "listen", "start", "accept", "read"

ASSUME FaultAssumption == Faults \subseteq {"listen", "start", "accept", "read"}
ASSUME NilAssumption == Nil \notin Pipelines

VARIABLES path,         \* the pipeline whose listener the socket file leads to
          listener,     \* s.listener is not nil
          backlog,      \* the children that have connected and wait to be accepted
          connection,   \* the child behind s.connection, or Nil
          mu, reading,
          done,         \* s.cancel has been called
          wg,
          apc, hpc, part,
          owner,        \* where the owner is, and in which pipeline
          child,        \* the child program, as the system sees it
          closed        \* history: Close of the pipeline has returned

socket == <<listener, connection, mu, reading, done, wg>>
vars == <<path, backlog, socket, apc, hpc, part, owner, child, closed>>

Init ==
    /\ path = Nil
    /\ listener = [p \in Pipelines |-> FALSE]
    /\ backlog = [p \in Pipelines |-> {}]
    /\ connection = [p \in Pipelines |-> Nil]
    /\ mu = [p \in Pipelines |-> "free"]
    /\ reading = [p \in Pipelines |-> FALSE]
    /\ done = [p \in Pipelines |-> FALSE]
    /\ wg = [p \in Pipelines |-> 0]
    /\ apc = [p \in Pipelines |-> "none"]
    /\ hpc = [p \in Pipelines |-> "none"]
    /\ part = [p \in Pipelines |-> "header"]
    /\ owner = [at |-> "idle", of |-> Nil]
    /\ child = [p \in Pipelines |-> "none"]
    /\ closed = [p \in Pipelines |-> FALSE]

Owner(p, label) == owner = [at |-> label, of |-> p]
OwnerTo(p, label) == owner' = [at |-> label, of |-> p]
AcceptTo(p, label) == apc' = [apc EXCEPT ![p] = label]
HandleTo(p, label) == hpc' = [hpc EXCEPT ![p] = label]

-----------------------------------------------------------------------------
(* Video.Open: Socket.Open, then Exec.Start. *)

(* openListener removes the file that is there and binds its own; then the  *)
(* accepting goroutine is started.                                          *)
Listen(p) ==
    /\ owner.at = "idle"
    /\ apc[p] = "none" /\ ~ closed[p]
    /\ \/ /\ path' = p
          /\ listener' = [listener EXCEPT ![p] = TRUE]
          /\ AcceptTo(p, "lock")
          /\ OwnerTo(p, "start")
       \/ /\ "listen" \in Faults
          /\ path' = Nil
          /\ OwnerTo(p, "opened")
          /\ UNCHANGED <<listener, apc>>
    /\ UNCHANGED <<backlog, connection, mu, reading, done, wg, hpc, part, child, closed>>

Start(p) ==
    /\ Owner(p, "start")
    /\ \/ child' = [child EXCEPT ![p] = "running"] /\ OwnerTo(p, "opened")
       \/ "start" \in Faults /\ UNCHANGED child /\ OwnerTo(p, "cancel_start")
    /\ UNCHANGED <<path, backlog, socket, apc, hpc, part, closed>>

(* Video.Close: Exec.Stop interrupts the child, if there is one, and waits  *)
(* for its end.  Its other branch (exec.go:58-61, a Signal that fails, then *)
(* Kill without Wait) is for a child that has been waited for already; only *)
(* this Stop waits for its child, so that the branch is not reached.        *)
Interrupt(p) ==
    /\ Owner(p, "opened")
    /\ child' = [child EXCEPT ![p] = IF @ = "running" THEN "interrupted" ELSE @]
    /\ OwnerTo(p, IF child[p] = "none" THEN "cancel" ELSE "wait_child")
    /\ UNCHANGED <<path, backlog, socket, apc, hpc, part, closed>>

(* Mutant of WaitChild: Stop does not wait for the child. *)
WaitNoChild(p) ==
    /\ Owner(p, "wait_child")
    /\ OwnerTo(p, "cancel")
    /\ UNCHANGED <<path, backlog, socket, apc, hpc, part, child, closed>>

WaitChild(p) ==
    /\ Owner(p, "wait_child")
    /\ child[p] \in {"draining", "dead"}
    /\ OwnerTo(p, "cancel")
    /\ UNCHANGED <<path, backlog, socket, apc, hpc, part, child, closed>>

(* Socket.Close, from Video.Close or from a Video.Open that could not start  *)
(* its program.  There is nothing to cancel when Listen has failed.          *)
Cancel(p) ==
    /\ Owner(p, "cancel") \/ Owner(p, "cancel_start")
    /\ done' = [done EXCEPT ![p] = apc[p] # "none"]
    /\ OwnerTo(p, IF owner.at = "cancel" THEN "wait" ELSE "wait_start")
    /\ UNCHANGED <<path, backlog, listener, connection, mu, reading, wg, apc, hpc, part, child, closed>>

(* Mutant of CloseWait: Socket.Close does not wait for the reading goroutine. *)
CloseWaitNot(p) ==
    /\ Owner(p, "wait") \/ Owner(p, "wait_start")
    /\ closed' = [closed EXCEPT ![p] = owner.at = "wait"]
    /\ OwnerTo(p, IF owner.at = "wait" THEN "idle" ELSE "opened")
    /\ UNCHANGED <<path, backlog, socket, apc, hpc, part, child>>

CloseWait(p) ==
    /\ Owner(p, "wait") \/ Owner(p, "wait_start")
    /\ wg[p] = 0
    /\ closed' = [closed EXCEPT ![p] = owner.at = "wait"]
    /\ OwnerTo(p, IF owner.at = "wait" THEN "idle" ELSE "opened")
    /\ UNCHANGED <<path, backlog, socket, apc, hpc, part, child>>

-----------------------------------------------------------------------------
(* openConnection holds the lock while it waits in Accept. *)
AcceptLock(p) ==
    /\ apc[p] = "lock"
    /\ mu[p] = "free" /\ ~ reading[p]
    /\ mu' = [mu EXCEPT ![p] = "accept"]
    /\ AcceptTo(p, "accept")
    /\ UNCHANGED <<path, backlog, listener, connection, reading, done, wg, hpc, part, owner, child, closed>>

Accept(p) ==
    /\ apc[p] = "accept"
    /\ \E c \in backlog[p] :
          /\ connection' = [connection EXCEPT ![p] = c]
          /\ backlog' = [backlog EXCEPT ![p] = @ \ {c}]
    /\ AcceptTo(p, "unlock")
    /\ HandleTo(p, "spawned")
    /\ UNCHANGED <<path, listener, mu, reading, done, wg, part, owner, child, closed>>

(* closeListener: closing a listener unlinks the path, whoever is bound to it. *)
CloseListener(p) ==
    /\ listener' = [listener EXCEPT ![p] = FALSE]
    /\ backlog' = [backlog EXCEPT ![p] = {}]
    /\ path' = IF listener[p] THEN Nil ELSE path

AcceptFails(p) ==
    /\ apc[p] = "accept"
    /\ "accept" \in Faults
    /\ CloseListener(p)
    /\ AcceptTo(p, "unlock")
    /\ UNCHANGED <<connection, mu, reading, done, wg, hpc, part, owner, child, closed>>

AcceptUnlock(p) ==
    /\ apc[p] = "unlock"
    /\ mu' = [mu EXCEPT ![p] = "free"]
    /\ AcceptTo(p, "ended")
    /\ UNCHANGED <<path, backlog, listener, connection, reading, done, wg, hpc, part, owner, child, closed>>

-----------------------------------------------------------------------------
HandleStart(p) ==
    /\ hpc[p] = "spawned"
    /\ wg' = [wg EXCEPT ![p] = @ + 1]
    /\ HandleTo(p, "select")
    /\ UNCHANGED <<path, backlog, listener, connection, mu, reading, done, apc, part, owner, child, closed>>

HandleSelect(p) ==
    /\ hpc[p] = "select"
    /\ HandleTo(p, IF done[p] THEN "close_connection" ELSE "read_lock")
    /\ part' = [part EXCEPT ![p] = "header"]
    /\ UNCHANGED <<path, backlog, socket, apc, owner, child, closed>>

ReadLock(p) ==
    /\ hpc[p] = "read_lock"
    /\ mu[p] = "free"
    /\ reading' = [reading EXCEPT ![p] = TRUE]
    /\ HandleTo(p, "read_check")
    /\ UNCHANGED <<path, backlog, listener, connection, mu, done, wg, apc, part, owner, child, closed>>

(* Mutant of ReadCheck: the loop does not look at the context. *)
ReadCheckNot(p) ==
    /\ hpc[p] = "read_check"
    /\ HandleTo(p, "read_block")
    /\ UNCHANGED <<path, backlog, socket, apc, part, owner, child, closed>>

(* One turn of the loop of read(): the context, then conn.Read. *)
ReadCheck(p) ==
    /\ hpc[p] = "read_check"
    /\ HandleTo(p, IF done[p] THEN "read_error" ELSE "read_block")
    /\ UNCHANGED <<path, backlog, socket, apc, part, owner, child, closed>>

(* Bytes have come: part of the buffer, or the rest of it.  What a dead      *)
(* child has left in the connection comes in one read.                       *)
ReadData(p) ==
    /\ hpc[p] = "read_block"
    /\ child[connection[p]] # "dead"
    /\ HandleTo(p, "read_check") \/ HandleTo(p, "read_full")
    /\ child' = [child EXCEPT ![connection[p]] = IF @ = "draining" THEN "dead" ELSE @]
    /\ UNCHANGED <<path, backlog, socket, apc, part, owner, closed>>

(* At the end of the stream, break leaves the select, not the loop. *)
ReadEof(p) ==
    /\ hpc[p] = "read_block"
    /\ child[connection[p]] = "dead"
    /\ HandleTo(p, "read_check")
    /\ UNCHANGED <<path, backlog, socket, apc, part, owner, child, closed>>

ReadFails(p) ==
    /\ hpc[p] = "read_block"
    /\ "read" \in Faults
    /\ HandleTo(p, "read_error")
    /\ UNCHANGED <<path, backlog, socket, apc, part, owner, child, closed>>

(* read returns: a header without body and a body are handed to OnData. *)
ReadReturn(p) ==
    /\ hpc[p] \in {"read_full", "read_error"}
    /\ reading' = [reading EXCEPT ![p] = FALSE]
    /\ \/ hpc[p] = "read_error" /\ HandleTo(p, "close_connection") /\ UNCHANGED part
       \/ hpc[p] = "read_full" /\ HandleTo(p, "callback") /\ UNCHANGED part
       \/ /\ hpc[p] = "read_full" /\ part[p] = "header"
          /\ HandleTo(p, "read_lock")
          /\ part' = [part EXCEPT ![p] = "body"]
    /\ UNCHANGED <<path, backlog, listener, connection, mu, done, wg, apc, owner, child, closed>>

OnData(p) ==
    /\ hpc[p] = "callback"
    /\ HandleTo(p, "select")
    /\ UNCHANGED <<path, backlog, socket, apc, part, owner, child, closed>>

(* The deferred function of handle. *)
CloseConnection(p) ==
    /\ hpc[p] = "close_connection"
    /\ mu[p] = "free" /\ ~ reading[p]
    /\ connection' = [connection EXCEPT ![p] = Nil]
    /\ HandleTo(p, "close_listener")
    /\ UNCHANGED <<path, backlog, listener, mu, reading, done, wg, apc, part, owner, child, closed>>

HandleCloseListener(p) ==
    /\ hpc[p] = "close_listener"
    /\ CloseListener(p)
    /\ HandleTo(p, "done")
    /\ UNCHANGED <<connection, mu, reading, done, wg, apc, part, owner, child, closed>>

(* Mutant of HandleDone: Done is called on two ways out. *)
HandleDoneTwice(p) ==
    /\ hpc[p] = "done"
    /\ wg' = [wg EXCEPT ![p] = @ - 2]
    /\ HandleTo(p, "ended")
    /\ UNCHANGED <<path, backlog, listener, connection, mu, reading, done, apc, part, owner, child, closed>>

HandleDone(p) ==
    /\ hpc[p] = "done"
    /\ wg' = [wg EXCEPT ![p] = @ - 1]
    /\ HandleTo(p, "ended")
    /\ UNCHANGED <<path, backlog, listener, connection, mu, reading, done, apc, part, owner, child, closed>>

-----------------------------------------------------------------------------
(* The child program dials whatever the path leads to, and dials again when  *)
(* it has lost its connection.                                               *)
ChildConnect(p) ==
    /\ child[p] \in {"running", "interrupted"}
    /\ path # Nil
    /\ \A q \in Pipelines : p \notin backlog[q] /\ connection[q] # p
    /\ backlog' = [backlog EXCEPT ![path] = @ \cup {p}]
    /\ UNCHANGED <<path, socket, apc, hpc, part, owner, child, closed>>

ChildDies(p) ==
    /\ child[p] \in {"running", "interrupted"}
    /\ \E end \in {"draining", "dead"} : child' = [child EXCEPT ![p] = end]
    /\ UNCHANGED <<path, backlog, socket, apc, hpc, part, owner, closed>>

OwnerStep(p) == Start(p) \/ WaitChild(p) \/ Cancel(p) \/ CloseWait(p)
AcceptStep(p) == AcceptLock(p) \/ Accept(p) \/ AcceptUnlock(p)
HandleStep(p) ==
    \/ HandleStart(p) \/ HandleSelect(p) \/ ReadLock(p) \/ ReadCheck(p) \/ ReadEof(p)
    \/ ReadReturn(p) \/ OnData(p) \/ CloseConnection(p) \/ HandleCloseListener(p)
    \/ HandleDone(p)

Next == \E p \in Pipelines :
    \/ Listen(p) \/ Interrupt(p) \/ OwnerStep(p)
    \/ AcceptStep(p) \/ AcceptFails(p)
    \/ HandleStep(p) \/ ReadData(p) \/ ReadFails(p)
    \/ ChildConnect(p) \/ ChildDies(p)

(* Goroutines that can go on are scheduled, and an interrupted child ends.   *)
(* Nobody has to open or close a pipeline, and a child need not send; bytes  *)
(* that are there are read.                                                  *)
Fairness == \A p \in Pipelines :
    /\ WF_vars(OwnerStep(p)) /\ WF_vars(AcceptStep(p)) /\ WF_vars(HandleStep(p))
    /\ WF_vars(child[p] = "interrupted" /\ ChildDies(p))
    /\ WF_vars(ReadData(p) /\ child[connection[p]] = "draining")

Spec == Init /\ [][Next]_vars
FairSpec == Spec /\ Fairness

-----------------------------------------------------------------------------
TypeOK ==
    /\ path \in Pipelines \cup {Nil}
    /\ listener \in [Pipelines -> BOOLEAN]
    /\ backlog \in [Pipelines -> SUBSET Pipelines]
    /\ connection \in [Pipelines -> Pipelines \cup {Nil}]
    /\ mu \in [Pipelines -> {"free", "accept"}]
    /\ reading \in [Pipelines -> BOOLEAN]
    /\ done \in [Pipelines -> BOOLEAN]
    /\ closed \in [Pipelines -> BOOLEAN]
    /\ wg \in [Pipelines -> {0, 1}]
    /\ apc \in [Pipelines -> {"none", "lock", "accept", "unlock", "ended"}]
    /\ hpc \in [Pipelines -> {"none", "spawned", "select", "read_lock", "read_check", "read_block",
                              "read_full", "read_error", "callback", "close_connection",
                              "close_listener", "done", "ended"}]
    /\ part \in [Pipelines -> {"header", "body"}]
    /\ owner \in [at : {"idle", "start", "opened", "cancel_start", "wait_start",
                        "wait_child", "cancel", "wait"},
                  of : Pipelines \cup {Nil}]
    /\ child \in [Pipelines -> {"none", "running", "interrupted", "draining", "dead"}]

(* After Close of a pipeline has returned, none of its frames is handed to   *)
(* OnData any more, although the goroutine that reads may not have started   *)
(* (and so not be waited for) when Close returns.                            *)
NoFrameAfterClose ==
    \A p \in Pipelines : closed[p] =>
        hpc[p] \notin {"read_lock", "read_check", "read_block", "read_full", "callback"}

(* Pipelines, one after another, implement the promise of Feed.tla: only a   *)
(* pipeline that has been opened calls OnData, and its Close does not return *)
(* while it does (socket.go:267 waits for the callback of line 132).         *)
Fed == INSTANCE Feed WITH
           Videos <- Pipelines,
           open <- IF owner.at = "idle" THEN {} ELSE {owner.of},
           calling <- {p \in Pipelines : hpc[p] = "callback"}

KeepsFeed == Fed!Spec

(* The capture device is used by one child at a time.                        *)
OneChild == Cardinality({p \in Pipelines : child[p] \in {"running", "interrupted"}}) <= 1

(* A pipeline is fed by its own child, though all children dial one path.    *)
OwnChild == \A p \in Pipelines : connection[p] \in {p, Nil} /\ backlog[p] \subseteq {p}

(* Close returns, whatever its reading goroutine and its child are doing.    *)
CloseReturns ==
    \A p \in Pipelines : Owner(p, "wait_child") \/ Owner(p, "cancel") ~> closed[p]

(* socket_test.go:65-68 dials the path after Open and fails with "connect    *)
(* error": until Close, or the end of the connection, an opened socket that  *)
(* has accepted nobody can be dialled.                                       *)
OpenIsReachable ==
    \A p \in Pipelines :
        owner.of = p /\ owner.at \in {"start", "opened"} /\ apc[p] \in {"lock", "accept"}
            => path = p

(* socket.go:190-192 makes a stream that ends early the error "incomplete    *)
(* read": when its child is dead, read returns.                              *)
EofEndsRead ==
    \A p \in Pipelines : hpc[p] = "read_block" /\ child[p] = "dead" ~> ~ reading[p]
=============================================================================
