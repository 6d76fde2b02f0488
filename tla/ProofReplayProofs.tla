--------------------------- MODULE ProofReplayProofs ---------------------------
(***************************************************************************)
(* Types, single use and honest refusals, for any window, cap, number of    *)
(* requests and age of a reading.  Single use holds while turns come in the  *)
(* order of their readings; everything is said relative to the latest        *)
(* reading a turn was taken with, and the clock plays no part.               *)
(*                                                                          *)
(* The cache: a proof accepted at second a is fresh until a + Gen at most,  *)
(* and is in the current generation while that one began by a, in the       *)
(* previous one for a generation more.  The Verifier: an entry is dropped   *)
(* only when its own proof is stale.                                        *)
(***************************************************************************)
EXTENDS ProofReplay, FiniteSetTheorems, TLAPS

\* The proof of a request in progress was fresh when the clock was read.
ReadingsFresh ==
    \A r \in Requests : req[r] # Idle => Fresh(req[r].proof, req[r].now)

CacheRemembers ==
    memory = "cache" /\ ordered =>
      /\ started <= turn
      /\ \A u \in uses :
          /\ begun
          /\ Fresh(u.proof, u.at)
          /\ u.at < started + Gen
          /\ u.at >= started => u.proof.jti \in current
          /\ u.at < started /\ u.at >= started - Gen => u.proof.jti \in previous

SeenRemembers ==
    memory = "seen" /\ ordered => \A u \in uses :
        u.proof \in seen \/ turn - u.proof.iat > Window

\* What either memory holds, and what was refused as a replay, was accepted.
Accepted == {u.proof.jti : u \in uses}
HeldIsUsed ==
    /\ current \subseteq Accepted
    /\ previous \subseteq Accepted
    /\ \A e \in seen : e.jti \in Accepted
    /\ told \subseteq Accepted \cup {NoJti}

OnceEach == CacheAtMostOnce /\ SeenAtMostOnce

Inv == TypeOK /\ ReadingsFresh /\ CacheRemembers /\ SeenRemembers /\ OnceEach

-----------------------------------------------------------------------------
LEMMA PendingTyped ==
    ASSUME TypeOK, NEW r \in Requests, req[r] # Idle
    PROVE  /\ req[r] \in Pending
           /\ req[r].proof \in Proof /\ req[r].now \in 0..MaxTime
           /\ req[r].proof.jti \in Jti /\ req[r].proof.iat \in Int
<1>1. req[r] \in Pending
  BY DEF TypeOK
<1> QED BY <1>1, ReplayAssumption DEF Pending, Proof

LEMMA UseTyped ==
    ASSUME TypeOK, NEW u \in uses
    PROVE  u.at \in Int /\ u.proof \in Proof /\ u.proof.iat \in Int
<1>1. u \in Use
  BY DEF TypeOK
<1>2. u.proof \in Proof /\ u.at \in 0..MaxTime
  BY <1>1 DEF Use
<1>3. u.proof.iat \in Int
  BY <1>2, ReplayAssumption DEF Proof
<1> QED BY <1>2, <1>3, ReplayAssumption

\* A proof the cache accepted and that is still fresh is found again.
LEMMA CacheFinds ==
    ASSUME Inv, NEW r \in Requests, req[r] # Idle, NEW u \in uses,
           memory = "cache", ordered, req[r].now >= turn, u.proof = req[r].proof
    PROVE  Seen(req[r].proof.jti, req[r].now)
<1> DEFINE i == req[r].proof.iat
           now == req[r].now
<1>1. /\ Window \in Int /\ Window > 0 /\ started \in Int /\ turn \in Int
      /\ u.at \in Int /\ i \in Int /\ now \in Int /\ turn <= now
  BY ReplayAssumption, PendingTyped, UseTyped DEF Inv, TypeOK
<1>2. /\ begun /\ started <= turn
      /\ u.at - i >= -Window /\ now - i <= Window
      /\ u.at < started + 2 * Window
      /\ u.at >= started => u.proof.jti \in current
      /\ u.at < started /\ u.at >= started - 2 * Window => u.proof.jti \in previous
  BY DEF Inv, CacheRemembers, ReadingsFresh, Fresh, Gen
<1> HIDE DEF i, now
<1>3. u.at >= now - 2 * Window
  BY <1>1, <1>2
<1>4. CASE now - started < 2 * Window
  <2>1. ~Rotates(now)
    BY <1>1, <1>2, <1>4 DEF Rotates, Gen
  <2>2. u.proof.jti \in current \cup previous
    BY <1>1, <1>2, <1>3, <1>4
  <2> QED BY <2>1, <2>2 DEF Seen, NowCurrent, NowPrevious, now
<1>5. CASE now - started >= 2 * Window
  <2>1. Rotates(now)
    BY <1>1, <1>5 DEF Rotates, Gen
  <2>2. u.at >= started /\ now - started < 4 * Window
    BY <1>1, <1>2, <1>3, <1>5
  <2>3. ~(now - started >= 2 * Gen)
    BY <1>1, <2>2 DEF Gen
  <2>4. NowPrevious(now) = current
    BY <1>2, <2>1, <2>3 DEF NowPrevious
  <2> QED BY <1>2, <2>2, <2>4 DEF Seen, now
<1> QED BY <1>1, <1>4, <1>5

\* The same of the Verifier.
LEMMA SeenFinds ==
    ASSUME Inv, NEW r \in Requests, req[r] # Idle, NEW u \in uses,
           memory = "seen", ordered, req[r].now >= turn, u.proof = req[r].proof
    PROVE  \E e \in Pruned(req[r].now) : e.jti = req[r].proof.jti
<1>1. /\ req[r].now \in Int /\ turn \in Int /\ Window \in Int
      /\ req[r].proof.iat \in Int /\ req[r].now - req[r].proof.iat <= Window
  BY ReplayAssumption, PendingTyped DEF Inv, TypeOK, ReadingsFresh, Fresh
<1>2. req[r].proof \in seen
  BY <1>1 DEF Inv, SeenRemembers
<1>3. req[r].proof \in Pruned(req[r].now)
  BY <1>1, <1>2 DEF Pruned
<1> QED BY <1>3

-----------------------------------------------------------------------------
\* What TakesTurn makes of the two histories of order.
LEMMA TurnTaken ==
    ASSUME TypeOK, NEW r \in Requests, req[r] # Idle, TakesTurn(r)
    PROVE  /\ turns' \in Nat /\ turn' \in 0..MaxTime /\ ordered' \in BOOLEAN
           /\ ordered' => ordered /\ req[r].now >= turn /\ turn' = req[r].now
<1>1. req[r].now \in 0..MaxTime /\ turn \in 0..MaxTime /\ turns \in Nat /\ MaxTime \in Nat
  BY PendingTyped, ReplayAssumption DEF TypeOK
<1>2. /\ turns' = turns + 1 /\ turn' = IF req[r].now > turn THEN req[r].now ELSE turn
      /\ ordered' = (ordered /\ req[r].now >= turn)
  BY DEF TakesTurn
<1>3. ordered' \in BOOLEAN /\ (ordered' => ordered /\ req[r].now >= turn)
  BY <1>2, Zenon
<1>4. req[r].now >= turn => turn' = req[r].now
  BY <1>1, <1>2
<1>5. turns' \in Nat /\ turn' \in 0..MaxTime
  BY <1>1, <1>2
<1> QED BY <1>3, <1>4, <1>5, Zenon

\* What TypeOK says of a generation.
Generation(g) == g \subseteq Jti /\ IsFiniteSet(g) /\ Cardinality(g) <= Cap

LEMMA NoGeneration == Generation({})
BY FS_EmptySet, ReplayAssumption DEF Generation

LEMMA GenerationsKept ==
    ASSUME TypeOK, NEW now
    PROVE  Generation(NowCurrent(now)) /\ Generation(NowPrevious(now))
<1>1. Generation(current) /\ Generation(previous)
  BY DEF TypeOK, Generation
<1> QED BY <1>1, NoGeneration DEF NowCurrent, NowPrevious

LEMMA GenerationGrows ==
    ASSUME NEW now, NEW j \in Jti, Generation(NowCurrent(now)), ~Full(now)
    PROVE  Generation(NowCurrent(now) \cup {j})
<1> DEFINE g == NowCurrent(now)
<1>1. g \subseteq Jti /\ IsFiniteSet(g) /\ ~(Cardinality(g) >= Cap)
  BY DEF Generation, Full
<1>2. Cardinality(g) \in Nat /\ Cap \in Nat
  BY <1>1, FS_CardinalityType, ReplayAssumption
<1> HIDE DEF g
<1>3. /\ IsFiniteSet(g \cup {j})
      /\ Cardinality(g \cup {j}) = IF j \in g THEN Cardinality(g) ELSE Cardinality(g) + 1
  BY <1>1, FS_AddElement
<1>4. Cardinality(g \cup {j}) <= Cap
  BY <1>1, <1>2, <1>3
<1>5. Generation(g \cup {j})
  BY <1>1, <1>3, <1>4 DEF Generation
<1> QED BY <1>5 DEF g

LEMMA StepTypes ==
    ASSUME TypeOK, [Next]_vars
    PROVE  TypeOK'
<1> USE ReplayAssumption
<1>0. Generation({})
  BY NoGeneration
<1>1. CASE Tick
  BY <1>1 DEF Tick, TypeOK, cache, order, Idle
<1>2. CASE Restart
  <2>1. {} \subseteq Jti /\ {} \subseteq Proof /\ {} \subseteq Use /\ {} \subseteq Jti
    OBVIOUS
  <2>2. [r \in Requests |-> Idle] \in [Requests -> Pending \cup {Idle}]
    OBVIOUS
  <2>3. 0 \in 0..MaxTime /\ FALSE \in BOOLEAN /\ TRUE \in BOOLEAN /\ 0 \in Nat
    OBVIOUS
  <2> QED BY <1>0, <1>2, <2>1, <2>2, <2>3 DEF Restart, TypeOK, Generation
<1>3. ASSUME NEW r \in Requests, NEW p \in Presented, Verify(r, p)
      PROVE  TypeOK'
  <2>1. \/ told' = told \cup {NoJti} /\ req' = req
        \/ /\ p.jti # NoJti /\ told' = told
           /\ \E now \in 0..clock :
                 req' = [req EXCEPT ![r] = [pc |-> "verified", proof |-> p, now |-> now]]
    BY <1>3 DEF Verify
  <2>2. told' \subseteq Jti \cup {NoJti}
    BY <2>1 DEF TypeOK
  <2>3. CASE req' = req
    BY <1>3, <2>2, <2>3 DEF Verify, TypeOK, cache, order
  <2>4. CASE req' # req
    <3>1. PICK now \in 0..clock :
             req' = [req EXCEPT ![r] = [pc |-> "verified", proof |-> p, now |-> now]]
      BY <2>1, <2>4
    <3>2. now \in 0..MaxTime /\ p \in Proof
      BY <2>1, <2>4, <3>1 DEF TypeOK, Presented, Proof
    <3>3. [pc |-> "verified", proof |-> p, now |-> now] \in Pending
      BY <3>2 DEF Pending
    <3>4. req' \in [Requests -> Pending \cup {Idle}]
      BY <3>1, <3>3 DEF TypeOK
    <3> QED BY <1>3, <2>2, <3>4 DEF Verify, TypeOK, cache, order
  <2> QED BY <2>3, <2>4
<1>4. ASSUME NEW r \in Requests, req[r] # Idle, Accept(r)
      PROVE  uses' \subseteq Use /\ told' \subseteq Jti \cup {NoJti}
  BY <1>4, PendingTyped DEF Accept, Use, Nth, TypeOK
<1>5. ASSUME NEW r \in Requests, req[r] # Idle, RefuseReplay(r)
      PROVE  uses' \subseteq Use /\ told' \subseteq Jti \cup {NoJti}
  BY <1>5, PendingTyped DEF RefuseReplay, TypeOK
<1>6. ASSUME NEW r \in Requests, CheckAndRecord(r)
      PROVE  TypeOK'
  <2>1. req[r] # Idle /\ req[r].proof.jti \in Jti /\ req[r].now \in 0..MaxTime
    BY <1>6, PendingTyped DEF CheckAndRecord
  <2>2. uses' \subseteq Use /\ told' \subseteq Jti \cup {NoJti}
    BY <1>4, <1>5, <1>6, <2>1 DEF CheckAndRecord, TypeOK
  <2>3. Generation(NowCurrent(req[r].now)) /\ Generation(NowPrevious(req[r].now))
    BY GenerationsKept
  <2>4. Generation(current') /\ Generation(previous') /\ begun' \in BOOLEAN
        /\ started' \in 0..MaxTime
    <3>1. \/ current' = NowCurrent(req[r].now)
          \/ ~Full(req[r].now) /\ current' = NowCurrent(req[r].now) \cup {req[r].proof.jti}
      BY <1>6 DEF CheckAndRecord
    <3>2. Generation(current')
      BY <2>1, <2>3, <3>1, GenerationGrows
    <3> QED BY <1>6, <2>1, <2>3, <3>2 DEF CheckAndRecord, TypeOK
  <2>5. turns' \in Nat /\ turn' \in 0..MaxTime /\ ordered' \in BOOLEAN
    BY <1>6, <2>1, TurnTaken DEF CheckAndRecord
  <2> QED BY <1>6, <2>2, <2>4, <2>5 DEF CheckAndRecord, Done, TypeOK, Generation
<1>7. ASSUME NEW r \in Requests, Remember(r)
      PROVE  TypeOK'
  <2>1. req[r] # Idle /\ req[r].proof \in Proof
    BY <1>7, PendingTyped DEF Remember
  <2>2. uses' \subseteq Use /\ told' \subseteq Jti \cup {NoJti}
    BY <1>4, <1>5, <1>7, <2>1 DEF Remember
  <2>3. seen' \subseteq Proof
    BY <1>7, <2>1 DEF Remember, Pruned, TypeOK
  <2>4. turns' \in Nat /\ turn' \in 0..MaxTime /\ ordered' \in BOOLEAN
    BY <1>7, <2>1, TurnTaken DEF Remember
  <2> QED BY <1>7, <2>2, <2>3, <2>4 DEF Remember, Done, TypeOK, cache
<1>8. CASE UNCHANGED vars
  BY <1>8 DEF vars, cache, order, TypeOK
<1> QED BY <1>1, <1>2, <1>3, <1>6, <1>7, <1>8 DEF Next

LEMMA StepReading ==
    ASSUME TypeOK, ReadingsFresh, [Next]_vars
    PROVE  ReadingsFresh'
<1>1. CASE Tick \/ UNCHANGED vars
  BY <1>1 DEF Tick, vars, ReadingsFresh, Fresh
<1>2. CASE Restart
  BY <1>2 DEF Restart, ReadingsFresh
<1>3. ASSUME NEW r \in Requests, NEW p \in Presented, Verify(r, p)
      PROVE  ReadingsFresh'
  BY <1>3 DEF Verify, ReadingsFresh, TypeOK, Fresh
<1>4. ASSUME NEW r \in Requests, CheckAndRecord(r) \/ Remember(r)
      PROVE  ReadingsFresh'
  BY <1>4 DEF CheckAndRecord, Remember, Done, ReadingsFresh, TypeOK, Fresh
<1> QED BY <1>1, <1>2, <1>3, <1>4 DEF Next

-----------------------------------------------------------------------------
FirstUse(r) == [proof |-> req[r].proof, at |-> req[r].now, nth |-> 1]

\* What an answer in order adds to the history is its proof's first use, now
\* on record.
LEMMA CacheAnswers ==
    ASSUME Inv, NEW r \in Requests, CheckAndRecord(r), ordered'
    PROVE  \/ uses' = uses
           \/ uses' = uses \cup {FirstUse(r)} /\ req[r].proof.jti \in current'
<1> DEFINE j == req[r].proof.jti
           now == req[r].now
<1>1. req[r] # Idle /\ memory = "cache" /\ TakesTurn(r)
  BY DEF CheckAndRecord
<1>2. \/ uses' = uses
      \/ ~Seen(j, now) /\ Accept(r) /\ j \in current'
  BY DEF CheckAndRecord, RefuseReplay
<1>3. CASE ~Seen(j, now) /\ Accept(r) /\ j \in current'
  <2>1. ordered /\ now >= turn
    BY <1>1, TurnTaken DEF Inv
  <2>2. ~ \E u \in uses : u.proof = req[r].proof
    BY <1>1, <1>3, <2>1, CacheFinds
  <2>3. Nth(req[r].proof) = 1
    BY <2>2 DEF Nth
  <2> QED BY <1>3, <2>3 DEF Accept, FirstUse
<1> QED BY <1>2, <1>3

LEMMA SeenAnswers ==
    ASSUME Inv, NEW r \in Requests, Remember(r), ordered'
    PROVE  \/ uses' = uses
           \/ uses' = uses \cup {FirstUse(r)} /\ req[r].proof \in seen'
<1>1. req[r] # Idle /\ memory = "seen" /\ TakesTurn(r)
  BY DEF Remember
<1>2. \/ uses' = uses
      \/ /\ \A e \in Pruned(req[r].now) : e.jti # req[r].proof.jti
         /\ Accept(r) /\ req[r].proof \in seen'
  BY DEF Remember, RefuseReplay
<1>3. CASE /\ \A e \in Pruned(req[r].now) : e.jti # req[r].proof.jti
           /\ Accept(r) /\ req[r].proof \in seen'
  <2>1. ordered /\ req[r].now >= turn
    BY <1>1, TurnTaken DEF Inv
  <2>2. ~ \E u \in uses : u.proof = req[r].proof
    BY <1>1, <1>3, <2>1, SeenFinds
  <2>3. Nth(req[r].proof) = 1
    BY <2>2 DEF Nth
  <2> QED BY <1>3, <2>3 DEF Accept, FirstUse
<1> QED BY <1>2, <1>3

\* A look at the clock keeps what the cache must remember, rotated or not.
LEMMA CacheKeeps ==
    ASSUME Inv, NEW r \in Requests, CheckAndRecord(r)
    PROVE  CacheRemembers'
<1> SUFFICES ASSUME ordered'
             PROVE  /\ started' <= turn'
                    /\ \A u \in uses' :
                          /\ begun'
                          /\ Fresh(u.proof, u.at)
                          /\ u.at < started' + Gen
                          /\ u.at >= started' => u.proof.jti \in current'
                          /\ u.at < started' /\ u.at >= started' - Gen => u.proof.jti \in previous'
  BY DEF CacheRemembers, Fresh, Gen
<1> DEFINE now == req[r].now
<1>0. /\ req[r] # Idle /\ memory = "cache"
      /\ ordered /\ turn <= now /\ turn' = now
  BY TurnTaken, PendingTyped DEF CheckAndRecord, Inv, TypeOK
<1>1. /\ Window \in Int /\ Window > 0 /\ started \in Int /\ now \in Int /\ turn \in Int
      /\ begun' /\ started <= now
      /\ started' = IF Rotates(now) THEN now ELSE started
      /\ NowCurrent(now) \subseteq current' /\ previous' = NowPrevious(now)
      /\ Fresh(req[r].proof, now)
  BY <1>0, ReplayAssumption, PendingTyped DEF CheckAndRecord, Inv, TypeOK, ReadingsFresh, CacheRemembers
<1>2. ASSUME NEW u \in uses
      PROVE  /\ Fresh(u.proof, u.at) /\ u.at < started' + Gen
             /\ u.at >= started' => u.proof.jti \in current'
             /\ u.at < started' /\ u.at >= started' - Gen => u.proof.jti \in previous'
  <2>1. u.at \in Int
    BY UseTyped DEF Inv
  <2>2. /\ begun /\ u.at < started + 2 * Window
        /\ u.at >= started => u.proof.jti \in current
        /\ u.at < started /\ u.at >= started - 2 * Window => u.proof.jti \in previous
        /\ Fresh(u.proof, u.at)
    BY <1>0 DEF Inv, CacheRemembers, Gen
  <2> HIDE DEF now
  <2>3. CASE ~Rotates(now)
    BY <1>1, <2>2, <2>3 DEF NowCurrent, NowPrevious, Gen
  <2>4. CASE Rotates(now)
    <3>1. now - started >= 2 * Window /\ started' = now
      BY <1>1, <2>2, <2>4 DEF Rotates, Gen
    <3>2. CASE now - started >= 4 * Window
      <4>1. u.at < now - 2 * Window
        BY <1>1, <2>1, <2>2, <3>2
      <4> QED BY <1>1, <2>1, <2>2, <3>1, <4>1 DEF Gen
    <3>3. CASE now - started < 4 * Window
      <4>1. previous' = current
        BY <1>1, <2>2, <2>4, <3>3 DEF NowPrevious, Gen
      <4> QED BY <1>1, <2>1, <2>2, <3>1, <4>1 DEF Gen
    <3> QED BY <1>1, <3>2, <3>3
  <2> QED BY <2>3, <2>4
<1>3. started' <= now /\ now < started' + Gen
  BY <1>1 DEF Rotates, Gen, Inv, TypeOK
<1>4. ASSUME NEW u \in uses'
      PROVE  /\ Fresh(u.proof, u.at) /\ u.at < started' + Gen
             /\ u.at >= started' => u.proof.jti \in current'
             /\ u.at < started' /\ u.at >= started' - Gen => u.proof.jti \in previous'
  <2>1. CASE u \in uses
    BY <1>2, <1>4, <2>1
  <2>2. CASE u \notin uses
    <3>1. u = FirstUse(r) /\ req[r].proof.jti \in current'
      BY <1>4, <2>2, CacheAnswers
    <3>2. u.at = now /\ u.proof = req[r].proof
      BY <3>1 DEF FirstUse
    <3>3. now \in Int /\ started' \in Int
      BY <1>1
    <3> HIDE DEF now
    <3> QED BY <1>1, <1>3, <3>1, <3>2, <3>3
  <2> QED BY <2>1, <2>2
<1> QED BY <1>0, <1>1, <1>3, <1>4

\* A sweep drops stale proofs only.
LEMMA SeenKeeps ==
    ASSUME Inv, NEW r \in Requests, Remember(r)
    PROVE  SeenRemembers'
<1> SUFFICES ASSUME ordered', NEW u \in uses'
             PROVE  u.proof \in seen' \/ turn' - u.proof.iat > Window
  BY DEF SeenRemembers
<1> DEFINE now == req[r].now
<1>0. /\ req[r] # Idle /\ memory = "seen"
      /\ ordered /\ turn <= now /\ turn' = now
  BY TurnTaken, PendingTyped DEF Remember, Inv, TypeOK
<1>1. now \in Int /\ turn \in Int /\ Window \in Int /\ Pruned(now) \subseteq seen'
  BY <1>0, ReplayAssumption, PendingTyped DEF Remember, Inv, TypeOK
<1>2. CASE u \in uses
  <2>1. u.proof.iat \in Int
    BY <1>2, UseTyped DEF Inv
  <2>2. u.proof \in seen \/ turn - u.proof.iat > Window
    BY <1>0, <1>2 DEF Inv, SeenRemembers
  <2> HIDE DEF now
  <2>3. CASE now - u.proof.iat > Window
    BY <1>0, <2>3
  <2>4. CASE ~(now - u.proof.iat > Window)
    BY <1>0, <1>1, <2>1, <2>2, <2>4 DEF Pruned
  <2> QED BY <2>3, <2>4
<1>3. CASE u \notin uses
  BY <1>3, SeenAnswers DEF FirstUse
<1> QED BY <1>2, <1>3

\* A step that leaves both memories and the histories alone.
LEMMA QuietStep ==
    ASSUME Inv, UNCHANGED <<memory, begun, started, current, previous, seen, order, uses>>
    PROVE  CacheRemembers' /\ SeenRemembers' /\ OnceEach'
BY DEF Inv, CacheRemembers, SeenRemembers, OnceEach, CacheAtMostOnce, SeenAtMostOnce, Fresh, Gen, order

LEMMA InvStep ==
    ASSUME Inv, [Next]_vars
    PROVE  Inv'
<1>0. TypeOK' /\ ReadingsFresh'
  BY StepTypes, StepReading DEF Inv
<1>1. CASE Tick \/ (\E r \in Requests, p \in Presented : Verify(r, p)) \/ UNCHANGED vars
  <2>1. UNCHANGED <<memory, begun, started, current, previous, seen, order, uses>>
    BY <1>1 DEF Tick, Verify, vars, cache
  <2> QED BY <1>0, <2>1, QuietStep DEF Inv
<1>2. CASE Restart
  BY <1>0, <1>2, ReplayAssumption
     DEF Restart, Inv, TypeOK, CacheRemembers, SeenRemembers, OnceEach, CacheAtMostOnce, SeenAtMostOnce
<1>4. ASSUME NEW r \in Requests, CheckAndRecord(r)
      PROVE  Inv'
  <2>1. UNCHANGED <<clock, memory, seen>> /\ memory = "cache"
    BY <1>4 DEF CheckAndRecord
  <2>2. ordered' => ordered
    BY <1>4, TurnTaken DEF CheckAndRecord, Inv
  <2>3. OnceEach'
    BY <1>4, <2>1, <2>2, CacheAnswers DEF Inv, OnceEach, CacheAtMostOnce, SeenAtMostOnce, FirstUse
  <2>4. SeenRemembers'
    BY <2>1 DEF SeenRemembers
  <2> QED BY <1>0, <1>4, <2>3, <2>4, CacheKeeps DEF Inv
<1>5. ASSUME NEW r \in Requests, Remember(r)
      PROVE  Inv'
  <2>1. UNCHANGED <<clock, memory, begun, started, current, previous>> /\ memory = "seen"
    BY <1>5 DEF Remember, cache
  <2>2. ordered' => ordered
    BY <1>5, TurnTaken DEF Remember, Inv
  <2>3. OnceEach'
    BY <1>5, <2>1, <2>2, SeenAnswers DEF Inv, OnceEach, CacheAtMostOnce, SeenAtMostOnce, FirstUse
  <2>4. CacheRemembers'
    BY <2>1 DEF CacheRemembers
  <2> QED BY <1>0, <1>5, <2>3, <2>4, SeenKeeps DEF Inv
<1> QED BY <1>1, <1>2, <1>4, <1>5 DEF Next

\* Both memories hold accepted identifiers only, so only those are refused.
LEMMA HeldStep ==
    ASSUME TypeOK, HeldIsUsed, [Next]_vars
    PROVE  HeldIsUsed'
<1>1. CASE Tick \/ (\E r \in Requests, p \in Presented : Verify(r, p)) \/ UNCHANGED vars
  BY <1>1 DEF Tick, Verify, vars, cache, HeldIsUsed, Accepted
<1>2. CASE Restart
  BY <1>2 DEF Restart, HeldIsUsed
<1>3. ASSUME NEW r \in Requests, CheckAndRecord(r)
      PROVE  HeldIsUsed'
  <2>1. \/ RefuseReplay(r) /\ req[r].proof.jti \in Accepted /\ current' = NowCurrent(req[r].now)
        \/ UNCHANGED <<uses, told>> /\ current' = NowCurrent(req[r].now)
        \/ Accept(r) /\ current' = NowCurrent(req[r].now) \cup {req[r].proof.jti}
    BY <1>3 DEF CheckAndRecord, Seen, NowCurrent, NowPrevious, HeldIsUsed
  <2>2. /\ previous' = NowPrevious(req[r].now) /\ seen' = seen
        /\ NowPrevious(req[r].now) \subseteq Accepted /\ NowCurrent(req[r].now) \subseteq Accepted
    BY <1>3 DEF CheckAndRecord, NowCurrent, NowPrevious, HeldIsUsed
  <2>3. /\ Accepted \subseteq Accepted'
        /\ Accept(r) => req[r].proof.jti \in Accepted' /\ told' = told
        /\ RefuseReplay(r) => told' = told \cup {req[r].proof.jti}
    BY <2>1 DEF Accepted, Accept, RefuseReplay
  <2> QED BY <2>1, <2>2, <2>3 DEF HeldIsUsed
<1>4. ASSUME NEW r \in Requests, Remember(r)
      PROVE  HeldIsUsed'
  <2>1. \/ RefuseReplay(r) /\ req[r].proof.jti \in Accepted /\ seen' = Pruned(req[r].now)
        \/ Accept(r) /\ seen' = Pruned(req[r].now) \cup {req[r].proof}
    BY <1>4 DEF Remember, Pruned, HeldIsUsed
  <2>2. current' = current /\ previous' = previous /\ Pruned(req[r].now) \subseteq seen
    BY <1>4 DEF Remember, cache, Pruned
  <2> QED BY <2>1, <2>2 DEF HeldIsUsed, Accepted, Accept, RefuseReplay
<1> QED BY <1>1, <1>2, <1>3, <1>4 DEF Next

LEMMA InitInv == Init => Inv
<1>1. ASSUME Init
      PROVE  TypeOK
  <2>1. {} \subseteq Jti /\ {} \subseteq Proof /\ {} \subseteq Use /\ {} \subseteq Jti
    OBVIOUS
  <2>2. [r \in Requests |-> Idle] \in [Requests -> Pending \cup {Idle}]
    OBVIOUS
  <2>3. {0, 1} \subseteq 0..MaxTime /\ FALSE \in BOOLEAN /\ TRUE \in BOOLEAN /\ 0 \in Nat
    BY ReplayAssumption
  <2> QED BY <1>1, <2>1, <2>2, <2>3, NoGeneration DEF Init, TypeOK, Generation
<1>2. Init => ReadingsFresh /\ CacheRemembers /\ SeenRemembers /\ OnceEach
  BY DEF Init, ReadingsFresh, CacheRemembers, SeenRemembers, OnceEach, CacheAtMostOnce, SeenAtMostOnce
<1> QED BY <1>1, <1>2 DEF Inv

\* The type invariant of the doors' two memories.
THEOREM Typing == Spec => []TypeOK
<1>1. Init => TypeOK
  BY InitInv DEF Inv
<1>2. TypeOK /\ [Next]_vars => TypeOK'
  BY StepTypes
<1> QED BY <1>1, <1>2, PTL DEF Spec

\* A proof presented at the doors of one process is accepted at most once, for
\* every window, cap and age of a reading and any traffic, while turns come in
\* the order of their readings.
THEOREM SingleUse == Spec => []CacheAtMostOnce
<1>1. Inv /\ [Next]_vars => Inv'
  BY InvStep
<1>2. Inv => CacheAtMostOnce
  BY DEF Inv, OnceEach
<1> QED BY InitInv, <1>1, <1>2, PTL DEF Spec

\* The same of the seen-set of a Verifier.
THEOREM SingleUseSeen == Spec => []SeenAtMostOnce
<1>1. Inv /\ [Next]_vars => Inv'
  BY InvStep
<1>2. Inv => SeenAtMostOnce
  BY DEF Inv, OnceEach
<1> QED BY InitInv, <1>1, <1>2, PTL DEF Spec

\* Whatever the order of the turns, nobody is told of a replay of an identifier
\* that was never accepted; an ErrReplay without one before it went to a proof
\* that carried no identifier.
THEOREM HonestRefusals == Spec => []NoFalseReplay
<1>1. Init => TypeOK /\ HeldIsUsed
  BY InitInv DEF Inv, Init, HeldIsUsed, Accepted
<1>2. TypeOK /\ HeldIsUsed /\ [Next]_vars => (TypeOK /\ HeldIsUsed)'
  BY StepTypes, HeldStep
<1>3. HeldIsUsed => NoFalseReplay
  BY DEF HeldIsUsed, Accepted, NoFalseReplay
<1> QED BY <1>1, <1>2, <1>3, PTL DEF Spec
===============================================================================
