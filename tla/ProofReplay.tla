------------------------------ MODULE ProofReplay ------------------------------
(***************************************************************************)
(* The two memories that make a DPoP proof single use: the ReplayCache a    *)
(* process's doors share (delegation/replay.go, asked by VerifyAccess) and  *)
(* the seen-set of a Verifier (delegation/dpop.go).                         *)
(*                                                                          *)
(* A request reads the clock and has its proof checked for freshness        *)
(* against that reading; later, under the memory's mutex, the proof is      *)
(* looked up and recorded with the SAME reading.  Slack is how old the      *)
(* reading may be by then, so that two requests may take their turn in the  *)
(* opposite order of their readings.  Time is in whole seconds, as           *)
(* VerifyAccess reads it.                                                    *)
(***************************************************************************)
EXTENDS Integers, FiniteSets

CONSTANTS
    Requests,   \* requests in progress at once
    Jti,        \* identifiers clients choose for their proofs
    NoJti,      \* the identifier of a proof that carries none
    Iats,       \* the moments they put in them
    Window,     \* how far iat may be from now, either way
    Cap,        \* identifiers one generation of a ReplayCache holds
    Memories,   \* which of the two memories there are
    Slack,      \* how old a reading of the clock may be when it is used
    MaxTurns,   \* bound: turns taken by one process
    MaxTime     \* bound: the last second of a behaviour

ASSUME ReplayAssumption ==
    /\ NoJti \notin Jti
    /\ Iats \subseteq Int
    /\ Window \in Nat \ {0}
    /\ Cap \in Nat
    /\ Memories \subseteq {"cache", "seen"}
    /\ Slack \in Nat
    /\ MaxTurns \in Nat
    /\ MaxTime \in Nat \ {0}

\* Seeded fault: a generation of one window.
GenOfOneWindow == Window

\* replayGeneration.
Gen   == 2 * Window
Proof == [jti : Jti, iat : Iats]
Presented == [jti : Jti \cup {NoJti}, iat : Iats]
Idle  == [pc |-> "idle"]

VARIABLES
    clock,
    memory,                             \* which memory this process asks
    begun, started, current, previous,  \* the ReplayCache
    seen,                               \* the Verifier's map, as pairs
    req,                                \* each request: its proof and reading
    turns,      \* how many turns this process has given
    turn,       \* history: the latest reading a turn was taken with
    ordered,    \* history: no turn was taken with an earlier reading than one before
    uses,       \* history of this process: accepted presentations
    told        \* history of this process: identifiers answered ErrReplay

cache == <<begun, started, current, previous>>
order == <<turns, turn, ordered>>
vars  == <<clock, memory, cache, seen, req, order, uses, told>>

Use     == [proof : Proof, at : 0..MaxTime, nth : {1, 2}]
Pending == [pc : {"verified"}, proof : Proof, now : 0..MaxTime]

Init ==
    /\ clock = 1
    /\ memory \in Memories
    /\ begun = FALSE
    /\ started = 0
    /\ current = {}
    /\ previous = {}
    /\ seen = {}
    /\ req = [r \in Requests |-> Idle]
    /\ turns = 0
    /\ turn = 0
    /\ ordered = TRUE
    /\ uses = {}
    /\ told = {}

\* verifyProof's freshness rule, both ends included.
Fresh(p, now) == -Window <= now - p.iat /\ now - p.iat <= Window

\* Time passes, but no reading in use gets older than Slack.
Tick ==
    /\ clock < MaxTime
    /\ \A r \in Requests : req[r] # Idle => clock < req[r].now + Slack
    /\ clock' = clock + 1
    /\ UNCHANGED <<memory, cache, seen, req, order, uses, told>>

\* A request reads the clock and its proof passes every check but the last two.
\* One with no identifier is answered ErrReplay there and then, for nothing could
\* remember it; of the others the memory is asked.
Verify(r, p) ==
    /\ req[r] = Idle
    /\ \E now \in 0..clock :
          /\ clock - now <= Slack
          /\ Fresh(p, now)
          /\ \/ /\ p.jti = NoJti
                /\ told' = told \cup {NoJti}
                /\ UNCHANGED req
             \/ /\ p.jti # NoJti
                /\ req' = [req EXCEPT ![r] = [pc |-> "verified", proof |-> p, now |-> now]]
                /\ UNCHANGED told
    /\ UNCHANGED <<clock, memory, cache, seen, order, uses>>

\* An earlier use of p is on record, so this one is its second.
Nth(p) == IF \E u \in uses : u.proof = p THEN 2 ELSE 1

Accept(r) ==
    /\ uses' = uses \cup {[proof |-> req[r].proof, at |-> req[r].now, nth |-> Nth(req[r].proof)]}
    /\ UNCHANGED told
RefuseReplay(r) ==
    /\ told' = told \cup {req[r].proof.jti}
    /\ UNCHANGED uses

TakesTurn(r) ==
    /\ turns < MaxTurns
    /\ turns' = turns + 1
    /\ turn' = IF req[r].now > turn THEN req[r].now ELSE turn
    /\ ordered' = (ordered /\ req[r].now >= turn)

Done(r) == req' = [req EXCEPT ![r] = Idle]

-----------------------------------------------------------------------------
(* ReplayCache.CheckAndRecord. *)

\* The generations after a look at the clock that read now.
Rotates(now)    == ~begun \/ now - started >= Gen
NowCurrent(now) == IF Rotates(now) THEN {} ELSE current
NowPrevious(now) ==
    IF ~Rotates(now) THEN previous
    ELSE IF ~begun \/ now - started >= 2 * Gen THEN {} ELSE current

\* Seeded fault: off by one, a generation takes one identifier over its cap.
FullOneLater(now) == Cardinality(NowCurrent(now)) > Cap

Full(now) == Cardinality(NowCurrent(now)) >= Cap

\* Seeded fault: a cache with no room answers as it does for a replay.
SeenOrFull(j, now) == j \in NowCurrent(now) \cup NowPrevious(now) \/ Full(now)

Seen(j, now) == j \in NowCurrent(now) \cup NowPrevious(now)

CheckAndRecord(r) ==
    /\ req[r] # Idle
    /\ memory = "cache"
    /\ LET j   == req[r].proof.jti
           now == req[r].now
       IN  /\ begun' = TRUE
           /\ started' = IF Rotates(now) THEN now ELSE started
           /\ previous' = NowPrevious(now)
           /\ \/ /\ Seen(j, now)
                 /\ current' = NowCurrent(now)
                 /\ RefuseReplay(r)
              \/ /\ ~Seen(j, now) /\ Full(now)     \* ErrReplayCacheFull
                 /\ current' = NowCurrent(now)
                 /\ UNCHANGED <<uses, told>>
              \/ /\ ~Seen(j, now) /\ ~Full(now)
                 /\ current' = NowCurrent(now) \cup {j}
                 /\ Accept(r)
    /\ TakesTurn(r)
    /\ Done(r)
    /\ UNCHANGED <<clock, memory, seen>>

-----------------------------------------------------------------------------
(* Verifier.remember. *)

\* Seeded fault: the sweep drops an entry at the last second it matters.
PrunedEarly(now) == {e \in seen : ~(now - e.iat >= Window)}

\* What the sweep leaves: the entries whose proof could still be fresh.
Pruned(now) == {e \in seen : ~(now - e.iat > Window)}

Remember(r) ==
    /\ req[r] # Idle
    /\ memory = "seen"
    /\ LET p   == req[r].proof
           now == req[r].now
       IN  \/ /\ \E e \in Pruned(now) : e.jti = p.jti
              /\ seen' = Pruned(now)
              /\ RefuseReplay(r)
           \/ /\ \A e \in Pruned(now) : e.jti # p.jti
              /\ seen' = Pruned(now) \cup {p}
              /\ Accept(r)
    /\ TakesTurn(r)
    /\ Done(r)
    /\ UNCHANGED <<clock, memory, cache>>

-----------------------------------------------------------------------------
\* A restart forgets both memories, the requests in progress, and with them
\* what single use was promised for.
Restart ==
    /\ begun' = FALSE
    /\ started' = 0
    /\ current' = {}
    /\ previous' = {}
    /\ seen' = {}
    /\ req' = [r \in Requests |-> Idle]
    /\ turns' = 0
    /\ turn' = 0
    /\ ordered' = TRUE
    /\ uses' = {}
    /\ told' = {}
    /\ UNCHANGED <<clock, memory>>

Next ==
    \/ Tick \/ Restart
    \/ \E r \in Requests, p \in Presented : Verify(r, p)
    \/ \E r \in Requests : CheckAndRecord(r) \/ Remember(r)

Spec == Init /\ [][Next]_vars
-----------------------------------------------------------------------------
\* "At most twice cap identifiers are held": neither generation has more than
\* its cap.
TypeOK ==
    /\ clock \in 0..MaxTime
    /\ memory \in Memories
    /\ begun \in BOOLEAN
    /\ started \in 0..MaxTime
    /\ \A gen \in {current, previous} :
          gen \subseteq Jti /\ IsFiniteSet(gen) /\ Cardinality(gen) <= Cap
    /\ seen \subseteq Proof
    /\ req \in [Requests -> Pending \cup {Idle}]
    /\ turns \in Nat
    /\ turn \in 0..MaxTime
    /\ ordered \in BOOLEAN
    /\ uses \subseteq Use
    /\ told \subseteq Jti \cup {NoJti}

\* A proof is accepted at most once at the doors that share a ReplayCache
\* ("no entry is forgotten while a proof carrying it could still be fresh"),
\* however long a request waits for its turn, as long as turns come in the
\* order of the readings they are taken with.
CacheAtMostOnce == memory = "cache" /\ ordered => \A u \in uses : u.nth = 1

\* The same of a Verifier ("nothing here forgets a proof before it stops
\* mattering").
SeenAtMostOnce == memory = "seen" /\ ordered => \A u \in uses : u.nth = 1

\* Nobody is told of a replay of an identifier that was never accepted, whatever
\* the order: a full cache, a stale entry or a presentation refused for another
\* reason spends nothing.  The one answer ErrReplay that follows no use is that to
\* a proof without an identifier, which is given it at its first presentation.
NoFalseReplay ==
    \A j \in told : j = NoJti \/ \E u \in uses : u.proof.jti = j
===============================================================================
