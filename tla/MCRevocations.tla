---------------------------- MODULE MCRevocations ----------------------------
(* Two tokens of one agent, the second issued while the first is alive. *)
EXTENDS Revocations, TLC

MCTokens ==
    { [jti |-> "j1", subject |-> "agent", iat |-> 1, exp |-> 5],
      [jti |-> "j2", subject |-> "agent", iat |-> 3, exp |-> 5] }

MCOtherAges == {-1}

\* Polls have no identity.
Perms == Permutations(Polls)
===============================================================================
