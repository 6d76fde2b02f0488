---------------------------- MODULE MCProofReplay ----------------------------
(* Two requests in progress, a window of one second. *)
EXTENDS ProofReplay, TLC

Perms == Permutations(Requests) \cup Permutations(Jti)
===============================================================================
