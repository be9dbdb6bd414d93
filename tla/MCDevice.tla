------------------------------- MODULE MCDevice -------------------------------
(* Device.tla for TLC: websockets and peer connections are model values.        *)
EXTENDS Device, TLC

Symmetry == Permutations(Ws) \cup Permutations(Rtc)
=============================================================================
