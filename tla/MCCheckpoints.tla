----------------------------- MODULE MCCheckpoints -----------------------------
(* Small streams for TLC. *)
EXTENDS Checkpoints

CONSTANTS good, odd

\* A fresh stream, one a dead writer left torn, one that ends in a whole line
\* that is no event.
MCInitFiles ==
    { <<>>,
      <<Event(good, None), Fragment>>,
      <<Event(good, None), [Fragment EXCEPT !.nl = TRUE]>> }

Fresh == { <<>> }
===============================================================================
