----------------------------- MODULE MCSessions -----------------------------
(***************************************************************************)
(* Model-checking instances of Sessions: tokens, links, addresses and      *)
(* slots are interchangeable.                                              *)
(***************************************************************************)
EXTENDS Sessions, TLC

Symmetry == Permutations(Token) \cup Permutations(Link) \cup Permutations(Slot)
=============================================================================
