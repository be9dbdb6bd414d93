------------------------------- MODULE Session -------------------------------
(* What a remote control session of the device may hold.  link: the signalling *)
(* websocket; peer: the WebRTC connection; media: the video pipeline; hid: the *)
(* keyboard and mouse.  Media and hid are taken for a peer only, and the peer  *)
(* is given up last.                                                           *)
VARIABLES link, peer, media, hid

held == <<link, peer, media, hid>>

Init == ~ link /\ ~ peer /\ ~ media /\ ~ hid

Connect == ~ link /\ link' /\ UNCHANGED <<peer, media, hid>>
Start == link /\ ~ peer /\ peer' /\ UNCHANGED <<link, media, hid>>
UseMedia == peer /\ ~ media /\ media' /\ UNCHANGED <<link, peer, hid>>
UseHid == peer /\ ~ hid /\ hid' /\ UNCHANGED <<link, peer, media>>

Disconnect == link /\ ~ link' /\ UNCHANGED <<peer, media, hid>>
FreeMedia == media /\ ~ media' /\ UNCHANGED <<link, peer, hid>>
FreeHid == hid /\ ~ hid' /\ UNCHANGED <<link, peer, media>>
Stop ==
    /\ peer /\ ~ link /\ ~ media /\ ~ hid
    /\ ~ peer'
    /\ UNCHANGED <<link, media, hid>>

Next ==
    \/ Connect \/ Start \/ UseMedia \/ UseHid
    \/ Disconnect \/ FreeMedia \/ FreeHid \/ Stop

Spec == Init /\ [][Next]_held
=============================================================================
