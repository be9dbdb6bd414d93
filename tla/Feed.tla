--------------------------------- MODULE Feed ---------------------------------
(* What the videos of the device promise to the sessions that use them, and    *)
(* what they ask for.  open: the videos that have been opened and whose Close  *)
(* has not returned.  calling: those that are inside their owner's OnData.     *)
(* All videos share one capture device and one path, so none is opened while   *)
(* another is open; in return only an open video calls, and Close returns when *)
(* its last call has.                                                          *)
CONSTANT Videos
VARIABLES open, calling

feed == <<open, calling>>

Init == open = {} /\ calling = {}

Open(v) == open = {} /\ open' = {v} /\ UNCHANGED calling
Call(v) == v \in open /\ calling' = calling \cup {v} /\ UNCHANGED open
Return(v) == v \in calling /\ calling' = calling \ {v} /\ UNCHANGED open
Close(v) ==
    /\ v \in open /\ v \notin calling
    /\ open' = open \ {v}
    /\ UNCHANGED calling

Next == \E v \in Videos : Open(v) \/ Call(v) \/ Return(v) \/ Close(v)

Spec == Init /\ [][Next]_feed
=============================================================================
