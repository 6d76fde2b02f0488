---------------------------- MODULE MCChainedStream ----------------------------
(* Small streams and writers for TLC. *)
EXTENDS ChainedStream, TLC

CONSTANTS good, fine, odd

\* Streams found on disk: a fresh one, a chained one that a dead writer left
\* torn, one ending in an event JCS refuses, one in white space.
MCInitFiles ==
    { <<>>,
      <<Event(good, None), Fragment>>,
      <<Event(odd, None)>>,
      <<[Event(good, None) EXCEPT !.nl = FALSE]>>,
      <<Event(good, None), [BlankLine EXCEPT !.nl = FALSE]>> }

Torn == { <<Event(good, None), Fragment>> }

Perms == Permutations(Threads) \cup Permutations(Chained)
===============================================================================
