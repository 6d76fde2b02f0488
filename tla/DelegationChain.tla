---------------------------- MODULE DelegationChain ----------------------------
(***************************************************************************)
(* The two forms of a delegation chain and the rules on each: the `act`     *)
(* claim of a token (delegation/chain.go) and the record's `on_behalf_of`   *)
(* (chain/chain.go).  A chain is a sequence of names, root first; an act    *)
(* claim is the sequence of its nested names, outermost (the current actor) *)
(* first, and empty when there is none.                                     *)
(***************************************************************************)
EXTENDS SequencesExt

CONSTANTS
    Principals,  \* names that can stand in a chain
    Schemed,     \* those of them that are agent:// or user:// URIs
    Nobody,      \* the empty name
    MaxDepth     \* entries a record's chain may hold

ASSUME ChainAssumption ==
    /\ Schemed \subseteq Principals
    /\ Nobody \notin Principals
    /\ MaxDepth \in Nat \ {0}

Names == Principals \cup {Nobody}

-----------------------------------------------------------------------------
(* The token's side. *)

\* Seeded fault: the actors alone are bounded, and the subject comes on top.
MaxDepthOfActors == MaxDepth

MaxActorsWithSubject == MaxDepth - 1

NamesAll(s) == \A i \in DOMAIN s : s[i] # Nobody

Buildable(chain) == Len(chain) <= MaxDepth /\ NamesAll(chain)
BuildAct(chain)  == Reverse(chain)

Readable(act) == Len(act) <= MaxDepth /\ NamesAll(act)
ReadAct(act)  == Reverse(act)

Extendable(chain, actor) ==
    /\ actor # Nobody
    /\ Len(chain) + 1 <= MaxDepth
    /\ \A i \in DOMAIN chain : chain[i] # actor
Extend(chain, actor) == Append(chain, actor)

\* Chain: the subject, if there is one, then the actors.
Chain(sub, act) == IF sub = Nobody THEN ReadAct(act) ELSE <<sub>> \o ReadAct(act)

AllSchemed(chain) == \A i \in DOMAIN chain : chain[i] \in Schemed

\* When Chain returns no error.
Chained(sub, act) ==
    /\ Readable(act)
    /\ sub # Nobody => Len(act) <= MaxActorsWithSubject
    /\ IsInjective(Chain(sub, act))
    /\ AllSchemed(Chain(sub, act))

-----------------------------------------------------------------------------
(* The record's side. *)

Appendable(chain, principal) ==
    /\ \A i \in DOMAIN chain : chain[i] # principal
    /\ Len(chain) < MaxDepth

Validates(chain) ==
    /\ Len(chain) <= MaxDepth
    /\ IsInjective(chain)
    /\ AllSchemed(chain)
===============================================================================
