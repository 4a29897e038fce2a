----------------------------- MODULE MCTtsPool -----------------------------
(* Threads that share two voices. *)
EXTENDS TtsPool, TLC

Symmetry == Permutations(Voices) \cup Permutations(Threads)
============================================================================
