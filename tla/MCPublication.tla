--------------------------- MODULE MCPublication ---------------------------
(***************************************************************************)
(* Model-checking instance of Publication: slots, records and processes    *)
(* are interchangeable.                                                    *)
(***************************************************************************)
EXTENDS Publication, TLC

Symmetry == Permutations(Row) \cup Permutations(Slot) \cup Permutations(Server)
=============================================================================
