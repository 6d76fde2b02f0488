------------------------------ MODULE MCWatchDir ------------------------------
(* A small bus for TLC. *)
EXTENDS WatchDir

CONSTANTS a, b, x, y

\* A stream whose writer died, one with an edited line, one that nothing chains.
Torn3     == <<"head", "linked", "malformed">>
Edited    == <<"head", "break", "malformed", "head">>
Unchained == <<"head", "malformed", "head", "head">>

MCContents == {Torn3, Edited, Unchained}
===============================================================================
