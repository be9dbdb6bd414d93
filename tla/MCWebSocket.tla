----------------------------- MODULE MCWebSocket -----------------------------
(* WebSocket.tla for TLC: goroutines and objects are model values.  No          *)
(* symmetry is declared, since every run has a liveness property.               *)
EXTENDS WebSocket
=============================================================================
