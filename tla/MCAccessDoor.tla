---------------------------- MODULE MCAccessDoor ----------------------------
(* An agent's own token, a user's delegation to that agent, and one with as
   many actors as the record has entries; proofs made with two keys, and one that
   carries no identifier. *)
EXTENDS AccessDoor

Token(typ, jti, sub, act, exp) ==
    [typ |-> typ, jti |-> jti, sub |-> sub, client |-> sub, act |-> act, iat |-> 1,
     exp |-> exp, kid |-> "k1", ours |-> TRUE, jkt |-> "keyA"]

MCTokens == { Token("at+jwt", "t1", "a", <<>>, 2), Token("JWT", "t2", "u", <<"a">>, 4),
              Token("JWT", "t3", "u", <<"b", "a">>, 2) }

MCProofs == { [jti |-> "p1", iat |-> 2, key |-> "keyA", ath |-> "t1", fits |-> TRUE],
              [jti |-> "p2", iat |-> 1, key |-> "keyB", ath |-> "t1", fits |-> TRUE],
              [jti |-> NoJti, iat |-> 3, key |-> "keyA", ath |-> "t1", fits |-> TRUE] }

Perms == Permutations(Requests)
===============================================================================
