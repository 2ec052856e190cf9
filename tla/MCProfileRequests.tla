------------------------- MODULE MCProfileRequests -------------------------
(***************************************************************************)
(* Model-checking instances of ProfileRequests: rows, slots and what is    *)
(* written in a field are interchangeable.                                 *)
(***************************************************************************)
EXTENDS ProfileRequests, TLC

Symmetry == Permutations(Row) \cup Permutations(Slot)
            \cup Permutations(Value \ {Blank})
=============================================================================
