------------------------------ MODULE AccessDoor ------------------------------
(***************************************************************************)
(* The doors a request passes (delegation/access.go, verify.go) in front of *)
(* the memory of proofs and the revocation list of their process: an agent  *)
(* token with its proof at VerifyAccess, relayed without one at             *)
(* VerifyRelayedAccess, and a delegation token with its proof at Verify.    *)
(*                                                                          *)
(* A request reads the clock once, when it arrives, and everything is asked *)
(* with that reading: first what its token, proof and key set say, in one   *)
(* step, for nothing there is shared; then the memory and the list, each a  *)
(* step, in the door's own order, while the list is refreshed, other        *)
(* requests take their turns and the process restarts.  Memory and list are *)
(* ProofReplay and Revocations, composed here.                              *)
(***************************************************************************)
EXTENDS DelegationChain, Integers, FiniteSets

CONSTANTS
    Requests, Tokens, Proofs,
    Revocable,    \* parties that are revoked
    Agents,       \* names that are agent:// with something after it
    Kids,         \* the key ids of the set a door holds
    NoKey,        \* an absent cnf.jkt
    NoProof,      \* what a relayed token comes with
    NoJti,        \* the identifier of a proof that carries none
    Leeway,       \* AgentTokenLeeway
    Window, Cap, Slack, MaxTurns,                               \* of ProofReplay
    Polls, FailModes, DefaultAge, MaxLife, Lag, MaxEntries, MaxRejected,   \* of Revocations
    MaxTime

VARIABLES
    clock,
    memory, begun, started, current, previous, seen,            \* of ProofReplay
    turns, turn, ordered, uses, told,
    recorded, polls, failClosed, held, fetchedAt, maxAge, rejectedBackwards,
    at,         \* where each request is; an accepted one until the next takes its place
    accepted    \* history: proof identifiers VerifyAccess accepted a request with

-----------------------------------------------------------------------------
(* What a request carries. *)

Jtis == {p.jti : p \in Proofs} \ {NoJti}

\* A token's names: its subject and the actors of its act claim.
PartiesOf(t) == ({t.sub} \cup Range(t.act)) \ {Nobody}

AgentToken(t) == t.typ = "at+jwt"

\* The first second in which no door takes the token.
Until(t) == IF AgentToken(t) THEN t.exp + Leeway ELSE t.exp

\* A token as the list is asked about it, for one party.
Entry(t, party) == [jti |-> t.jti, subject |-> party, iat |-> t.iat, exp |-> Until(t)]
ListTokens == UNION {{Entry(t, p) : p \in PartiesOf(t)} : t \in Tokens}

ASSUME AccessAssumption ==
    /\ \A t \in Tokens :
          /\ t.sub \in Names /\ t.act \in Seq(Names)
          /\ t.iat \in Nat /\ t.exp \in Nat /\ Until(t) <= t.iat + MaxLife
    /\ \A t, u \in Tokens : t.jti = u.jti => Until(t) = Until(u)
    /\ \A t \in Tokens : t.jti # Nobody
    /\ \A p \in Proofs : p.iat \in Int
    /\ Agents \subseteq Schemed /\ Revocable \subseteq Principals
    /\ FailModes \subseteq BOOLEAN
    /\ Leeway \in Nat /\ Lag \in Nat /\ Slack \in Nat /\ Cap \in Nat
    /\ MaxLife \in Nat /\ MaxTurns \in Nat /\ MaxEntries \in Nat /\ MaxRejected \in Nat
    /\ MaxTime \in Nat \ {0} /\ Window \in Nat \ {0} /\ DefaultAge \in Nat \ {0}

Idle == [pc |-> "idle"]

\* A request whose next question is the memory's, as ProofReplay knows it.
Waiting ==
    [r \in Requests |->
        IF at[r].pc = "busy" /\ Head(at[r].todo) = "memory"
        THEN [pc |-> "verified", now |-> at[r].now,
              proof |-> [jti |-> at[r].proof.jti, iat |-> at[r].proof.iat]]
        ELSE Idle]

Memory == INSTANCE ProofReplay
            WITH req <- Waiting, Jti <- Jtis, Iats <- {p.iat : p \in Proofs}, Memories <- {"cache", "seen"}
List   == INSTANCE Revocations
            WITH Tokens <- ListTokens, Subjects <- Revocable, None <- Nobody, OtherAges <- {}

memoryVars == <<memory, begun, started, current, previous, seen, turns, turn, ordered, uses, told>>
listVars   == <<recorded, polls, failClosed, held, fetchedAt, maxAge, rejectedBackwards>>
doorVars   == <<at, accepted>>
vars       == <<clock, memoryVars, listVars, doorVars>>

-----------------------------------------------------------------------------
(* The checks that need nothing shared. *)

Signed(t) == t.kid \in Kids /\ t.ours

\* agentClaims.
AgentClaims(t, now) ==
    /\ AgentToken(t) /\ Signed(t)
    /\ now < t.exp + Leeway
    /\ t.iat <= now + Leeway
    /\ t.sub \in Agents /\ t.client = t.sub /\ t.act = <<>>
    /\ t.jkt # NoKey

\* Verify, up to the proof.
DelegationClaims(t, now) ==
    /\ ~AgentToken(t) /\ Signed(t)
    /\ now < t.exp
    /\ t.sub # Nobody
    /\ t.jkt # NoKey

\* Seeded fault: any proof that is for this request will do.
ProofUndated(p, now) == p.fits

\* verifyProof, but for the identifier: signed, for this request, and fresh.
ProofHolds(p, now) == p.fits /\ Memory!Fresh(p, now)

\* decodeAct leaves an absent claim the zero Act, whose one name is empty.
Act(t) == IF t.act = <<>> THEN <<Nobody>> ELSE t.act

\* Seeded fault: a token is revoked by its subject only.
AskedSubjectOnly(t) == <<t.sub>>

\* Who the list is asked about, in order.
Asked(t) == IF AgentToken(t) THEN <<t.sub>> ELSE Chain(t.sub, Act(t))

\* Seeded fault: VerifyAccess records the proof before it asks the list.
StepsMemoryFirst(door) ==
    CASE door = "access" -> <<"memory", "list">>
      [] door = "relay"  -> <<"list">>
      [] door = "verify" -> <<"memory", "binding", "list">>

\* What each door goes through after those checks, in its order.
Steps(door) ==
    CASE door = "access" -> <<"list", "memory">>
      [] door = "relay"  -> <<"list">>
      [] door = "verify" -> <<"memory", "binding", "list">>

\* Which doors a process has, by the memory it keeps.
Doors == IF memory = "cache" THEN {"access", "relay"} ELSE {"verify"}

\* The token's claims hold, and its proof does up to the identifier.
Proven(door, t, p, now) ==
    /\ \/ door = "access" /\ AgentClaims(t, now)
       \/ door = "verify" /\ DelegationClaims(t, now)
    /\ p # NoProof /\ ProofHolds(p, now)

\* VerifyAccess compares the key and the token's hash here, Verify later.
Fitting(door, t, p) == (door = "access") => p.key = t.jkt /\ p.ath = t.jti

\* Seeded fault: no identifier is an identifier like any other.
AdmitsUnnamed(door, t, p, now) ==
    \/ Proven(door, t, p, now) /\ Fitting(door, t, p)
    \/ door = "relay" /\ AgentClaims(t, now) /\ p = NoProof

Admits(door, t, p, now) ==
    \/ Proven(door, t, p, now) /\ p.jti # NoJti /\ Fitting(door, t, p)
    \/ door = "relay" /\ AgentClaims(t, now) /\ p = NoProof

-----------------------------------------------------------------------------
Init ==
    /\ at = [r \in Requests |-> Idle]
    /\ accepted = {}
    /\ Memory!Init
    /\ List!Init

\* A proof with no identifier is answered ErrReplay, bare at Verify and wrapped in
\* ErrWrongKey at VerifyAccess, with no memory asked.
ArriveUnnamed(r, door, t, p) ==
    /\ at[r].pc # "busy"
    /\ door \in Doors
    /\ Proven(door, t, p, clock) /\ p.jti = NoJti
    /\ told' = told \cup {NoJti}
    /\ UNCHANGED <<clock, memory, begun, started, current, previous, seen, turns, turn,
                   ordered, uses, listVars, doorVars>>

\* A request that fails another check of its own changes nothing.
Arrive(r, door, t, p) ==
    /\ at[r].pc # "busy"
    /\ door \in Doors
    /\ Admits(door, t, p, clock)
    /\ at' = [at EXCEPT ![r] = [pc |-> "busy", door |-> door, token |-> t, proof |-> p,
                               now |-> clock, todo |-> Steps(door), left |-> Asked(t)]]
    /\ UNCHANGED <<clock, memoryVars, listVars, accepted>>

Asks(r, step) == at[r].pc = "busy" /\ Head(at[r].todo) = step

\* The request after its present step has passed.
After(q) ==
    IF Len(q.todo) = 1 THEN [q EXCEPT !.pc = "accepted", !.todo = <<>>]
                       ELSE [q EXCEPT !.todo = Tail(@)]

Becomes(r, q) ==
    /\ at' = [at EXCEPT ![r] = q]
    /\ accepted' = IF q.pc = "accepted" /\ q.door = "access"
                   THEN accepted \cup {q.proof.jti} ELSE accepted

Refused(r) == at' = [at EXCEPT ![r] = Idle] /\ UNCHANGED accepted

\* ErrWrongKey or ErrMalformed at Verify, after the proof is spent.
ReadBinding(r) ==
    /\ Asks(r, "binding")
    /\ LET t == at[r].token
       IN  IF at[r].proof.key = t.jkt /\ Chained(t.sub, Act(t))
           THEN Becomes(r, After(at[r])) ELSE Refused(r)
    /\ UNCHANGED <<clock, memoryVars, listVars>>

\* One question, about the next party, with the request's own reading.
AskList(r) ==
    /\ Asks(r, "list")
    /\ LET q == at[r]
       IN  IF List!Check(Entry(q.token, Head(q.left)), q.now).revoked THEN Refused(r)
           ELSE IF Len(q.left) = 1 THEN Becomes(r, After([q EXCEPT !.left = <<>>]))
           ELSE Becomes(r, [q EXCEPT !.left = Tail(@)])
    /\ UNCHANGED <<clock, memoryVars, listVars>>

\* The memory has room for the proof and does not know it.
Takes(p, now) ==
    IF memory = "cache" THEN ~Memory!Seen(p.jti, now) /\ ~Memory!Full(now)
    ELSE \A e \in Memory!Pruned(now) : e.jti # p.jti

AskMemory(r) ==
    /\ Asks(r, "memory")
    /\ IF Takes(at[r].proof, at[r].now) THEN Becomes(r, After(at[r])) ELSE Refused(r)
    /\ Memory!CheckAndRecord(r) \/ Memory!Remember(r)
    /\ UNCHANGED listVars

\* Time passes, but no reading in use gets older than Slack.
Tick ==
    /\ clock < MaxTime
    /\ \A r \in Requests : at[r].pc = "busy" => clock < at[r].now + Slack
    /\ clock' = clock + 1
    /\ UNCHANGED <<memoryVars, listVars, doorVars>>

Refreshes == List!Refreshes /\ UNCHANGED <<memoryVars, doorVars>>

Restart ==
    /\ at' = [r \in Requests |-> Idle]
    /\ accepted' = {}
    /\ Memory!Restart
    /\ List!Restart

Next ==
    \/ Tick \/ Restart \/ Refreshes
    \/ \E r \in Requests, door \in {"access", "relay", "verify"},
          t \in Tokens, p \in Proofs \cup {NoProof} :
          Arrive(r, door, t, p) \/ ArriveUnnamed(r, door, t, p)
    \/ \E r \in Requests : AskList(r) \/ AskMemory(r) \/ ReadBinding(r)

Spec == Init /\ [][Next]_vars
-----------------------------------------------------------------------------
Busy == [pc : {"busy", "accepted"}, door : {"access", "relay", "verify"}, token : Tokens,
         proof : Proofs \cup {NoProof}, now : 0..MaxTime, todo : Seq({"memory", "binding", "list"}),
         left : Seq(Names)]

TypeOK ==
    /\ at \in [Requests -> Busy \cup {Idle}]
    /\ \A r \in Requests : at[r].pc = "busy" => at[r].todo # <<>>
    /\ accepted \subseteq Jtis

\* What the doors ask of the memory is what ProofReplay lets requests ask: a
\* proof that was fresh when the clock was read, with that same reading, at
\* most Slack old however long the list took.  So what is shown of the memory
\* there, single use first, holds behind the doors.
MemoryRefined == Memory!Spec

\* "A proof spent on a refused presentation is not spent at all": VerifyAccess
\* tells a caller that a proof was used only if it accepted a request with it.  The
\* ErrReplay for a proof without an identifier speaks of no use.
RefusalSpendsNothing == memory = "cache" => told \ {NoJti} \subseteq accepted

\* Fail closed, no door accepts a token once the revocation of it, or of any
\* party of its chain, is older than the maximum age of the list (and the
\* service's lag) was at the request's reading; whichever lists the questions
\* about its parties met.  Of a token whose life ended while it waited, the
\* service has dropped the entry.
RevokedPartyRefused ==
    failClosed =>
        \A r \in Requests, e \in recorded :
            /\ at[r].pc = "accepted" /\ clock < Until(at[r].token)
            /\ \E p \in PartiesOf(at[r].token) : List!Ends(e, Entry(at[r].token, p))
            => e.at >= at[r].now - DefaultAge - Lag

\* The chain Verify hands out is one the record takes: "a door that hands out a
\* chain the record will refuse has verified a token whose trail cannot be
\* written".
AcceptedIsRecordable ==
    \A r \in Requests :
        at[r].pc = "accepted" /\ at[r].door = "verify"
          => Validates(Chain(at[r].token.sub, at[r].token.act))
===============================================================================
