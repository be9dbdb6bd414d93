------------------------------- MODULE MCTokens -------------------------------
(* Tokens.tla for TLC: callers are model values.                               *)
EXTENDS Tokens, TLC

Symmetry == Permutations(Callers)
=============================================================================
