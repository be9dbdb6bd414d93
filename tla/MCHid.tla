--------------------------------- MODULE MCHid ---------------------------------
(* Hid.tla for TLC: messages at the ends of every range, and a key table with   *)
(* two names for one code, as keyboardUsageTable has.                           *)
EXTENDS Hid

Keys == [a |-> 4, A |-> 4, F12 |-> 69]

Mice ==
    {[category |-> "mouse", x |-> x, y |-> 258, buttons |-> {1}] : x \in {32767, 32768, 65537}}
    \cup {[category |-> "mouse", x |-> 0, y |-> y, buttons |-> {2, 3}] : y \in {-1, 513}}

Keyboards ==
    {[category |-> "keyboard", modifiers |-> {"shift", "alt"}, keys |-> {"A", "F12", "End"}],
     [category |-> "keyboard", modifiers |-> {}, keys |-> {""}]}

Sent == Mice \cup Keyboards \cup {[category |-> "unknown"]}
=============================================================================
