-------------------------- MODULE MCCallAdmission --------------------------
(* CallAdmission on three bridges and a table of two reservations. *)
EXTENDS CallAdmission, TLC

Symmetry == Permutations(Ids) \cup Permutations(Bridges) \cup Permutations(Requests)
============================================================================
