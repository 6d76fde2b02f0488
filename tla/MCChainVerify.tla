----------------------------- MODULE MCChainVerify -----------------------------
(* Small streams for TLC. *)
EXTENDS TailWindow

CONSTANTS a, b, odd

Bodies == {a, b, odd}

\* Honest and forged lines: every body, with no, a right or a wrong prev_hash.
SomeLines ==
    {Event(c, p) : c \in Bodies, p \in {None, a, b}}
      \cup {[Fragment EXCEPT !.nl = TRUE], BlankLine}

Ended(n) == UNION {[1..k -> SomeLines] : k \in 0..n}

MCStreams == Ended(3)
               \cup {[f EXCEPT ![Len(f)].nl = FALSE] : f \in Ended(2) \ Ended(0)}

NoFiles == { <<>> }
===============================================================================
