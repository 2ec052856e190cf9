------------------------------ MODULE MCStaff ------------------------------
(***************************************************************************)
(* Model-checking instances of Staff: accounts and slots are               *)
(* interchangeable, and an update changes one thing at a time.             *)
(***************************************************************************)
EXTENDS Staff, TLC

Symmetry == Permutations(Account) \cup Permutations(Slot)

OneChange ==
    {[role |-> r, lock |-> "leave"] : r \in {"ADMIN", "SUPER_ADMIN"}} \cup
    {[role |-> Keep, lock |-> l] : l \in {"set", "clear"}}
=============================================================================
