---------------------------- MODULE MCUserService ----------------------------
(* Small instances of UserService for TLC. *)
EXTENDS UserService, TLC
CONSTANTS n1, e1
EmptyOrOneUser ==
    {{}, {[uid |-> 1, name |-> n1, email |-> e1, active |-> TRUE]}}
Symmetry == Permutations(Calls) \cup Permutations(SessionIds)
==============================================================================
