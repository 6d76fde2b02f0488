--------------------------- MODULE AccessDoorProofs ---------------------------
(***************************************************************************)
(* The two rules on a delegation chain agree, and the doors keep their      *)
(* promises, for any tokens, proofs, requests, windows and ages.            *)
(*                                                                          *)
(* The doors implement the memory of ProofReplay and the list of            *)
(* Revocations: every step of a door is a step of each or leaves it alone.  *)
(* So what is proved of those two holds behind the doors, and what is left  *)
(* is the way of a request: which steps it has behind it, and whom the      *)
(* list has already been asked about.                                       *)
(***************************************************************************)
EXTENDS AccessDoor, TLAPS

MP == INSTANCE ProofReplayProofs
        WITH req <- Waiting, Jti <- Jtis, Iats <- {p.iat : p \in Proofs},
             Memories <- {"cache", "seen"}
LP == INSTANCE RevocationsProofs
        WITH Tokens <- ListTokens, Subjects <- Revocable, None <- Nobody, OtherAges <- {}

-----------------------------------------------------------------------------
(* Chains. *)

LEMMA ReverseFacts ==
    ASSUME NEW S, NEW s \in Seq(S)
    PROVE  /\ Reverse(s) \in Seq(S) /\ Len(Reverse(s)) = Len(s)
           /\ \A i \in 1..Len(s) : Reverse(s)[i] = s[Len(s) - i + 1]
           /\ Reverse(Reverse(s)) = s
<1>1. /\ Reverse(s) \in Seq(S) /\ Len(Reverse(s)) = Len(s)
      /\ \A i \in 1..Len(s) : Reverse(s)[i] = s[(Len(s) - i) + 1]
  BY DEF Reverse
<1>2. Reverse(Reverse(s)) = [i \in 1..Len(s) |-> s[(Len(s) - ((Len(s) - i) + 1)) + 1]]
  BY <1>1 DEF Reverse
<1>3. \A i \in 1..Len(s) : (Len(s) - ((Len(s) - i) + 1)) + 1 = i
  OBVIOUS
<1>4. Reverse(Reverse(s)) = [i \in 1..Len(s) |-> s[i]]
  BY <1>2, <1>3
<1> QED BY <1>1, <1>4

\* "A test holds them against each other in both directions": whatever chain
\* can be built into an act claim is read back from it, and no act claim that
\* can be read says anything else than the chain it was read as.
THEOREM ActInverse ==
    ASSUME NEW s \in Seq(Names)
    PROVE  /\ Buildable(s) => Readable(BuildAct(s)) /\ ReadAct(BuildAct(s)) = s
           /\ Readable(s) => Buildable(ReadAct(s)) /\ BuildAct(ReadAct(s)) = s
<1>1. /\ Reverse(s) \in Seq(Names) /\ Len(Reverse(s)) = Len(s)
      /\ \A i \in 1..Len(s) : Reverse(s)[i] = s[Len(s) - i + 1]
      /\ Reverse(Reverse(s)) = s
  BY ReverseFacts
<1>2. NamesAll(s) => NamesAll(Reverse(s))
  <2> SUFFICES ASSUME NamesAll(s), NEW i \in 1..Len(s) PROVE Reverse(s)[i] # Nobody
    BY <1>1 DEF NamesAll
  <2>1. Len(s) - i + 1 \in 1..Len(s)
    OBVIOUS
  <2>2. s[Len(s) - i + 1] # Nobody
    BY <2>1 DEF NamesAll
  <2> QED BY <1>1, <2>2
<1> QED BY <1>1, <1>2 DEF Buildable, BuildAct, Readable, ReadAct

\* The door accepts the chain of a token exactly when it can read the act claim
\* and the record takes the chain: the rule that exists twice is one rule, depth
\* of the subject included.
THEOREM DoorAgreesWithRecord ==
    ASSUME NEW sub \in Names, NEW act \in Seq(Names)
    PROVE  Chained(sub, act) <=> Readable(act) /\ Validates(Chain(sub, act))
<1>1. Reverse(act) \in Seq(Names) /\ Len(Reverse(act)) = Len(act)
  BY ReverseFacts
<1>2. CASE sub = Nobody
  BY <1>1, <1>2 DEF Chained, Validates, Chain, ReadAct, Readable
<1>3. CASE sub # Nobody
  <2>1. Len(Chain(sub, act)) = Len(act) + 1
    BY <1>1, <1>3 DEF Chain, ReadAct
  <2>2. Len(act) <= MaxActorsWithSubject <=> Len(act) + 1 <= MaxDepth
    BY ChainAssumption DEF MaxActorsWithSubject
  <2> QED BY <1>3, <2>1, <2>2 DEF Chained, Validates
<1> QED BY <1>2, <1>3
LEMMA ConsFacts ==
    ASSUME NEW S, NEW e \in S, NEW q \in Seq(S), NEW a \in S
    PROVE  /\ <<e>> \o q \in Seq(S) /\ Len(<<e>> \o q) = Len(q) + 1
           /\ \A i \in 1..Len(q) : (<<e>> \o q)[i + 1] = q[i]
           /\ Tail(<<e>> \o q) = q
           /\ Append(<<e>> \o q, a) = <<e>> \o Append(q, a)
<1>1. /\ <<e>> \o q \in Seq(S) /\ Len(<<e>> \o q) = Len(q) + 1
      /\ \A i \in 1..Len(q) : (<<e>> \o q)[i + 1] = q[i]
      /\ (<<e>> \o q)[1] = e
  OBVIOUS
<1>2. Tail(<<e>> \o q) = q
  <2> DEFINE c == <<e>> \o q
  <2>1. Tail(c) \in Seq(S) /\ Len(Tail(c)) = Len(q) /\ \A i \in 1..Len(q) : Tail(c)[i] = c[i + 1]
    BY <1>1
  <2>2. \A i \in 1..Len(q) : Tail(c)[i] = q[i]
    BY <1>1, <2>1
  <2> HIDE DEF c
  <2>3. Tail(c) = q
    BY <2>1, <2>2
  <2> QED BY <2>3 DEF c
<1>3. Append(<<e>> \o q, a) = <<e>> \o Append(q, a)
  OBVIOUS
<1> QED BY <1>1, <1>2, <1>3

LEMMA AppendDistinct ==
    ASSUME NEW S, NEW q \in Seq(S), NEW x \in S,
           \A i, j \in DOMAIN q : q[i] = q[j] => i = j,
           \A i \in DOMAIN q : q[i] # x
    PROVE  \A i, j \in DOMAIN Append(q, x) : Append(q, x)[i] = Append(q, x)[j] => i = j
<1>1. /\ DOMAIN Append(q, x) = 1..(Len(q) + 1)
      /\ \A i \in 1..Len(q) : Append(q, x)[i] = q[i]
      /\ Append(q, x)[Len(q) + 1] = x
  OBVIOUS
<1>2. DOMAIN q = 1..Len(q) /\ Len(q) \in Nat
  OBVIOUS
<1>3. ASSUME NEW i \in 1..(Len(q) + 1), NEW j \in 1..(Len(q) + 1),
             Append(q, x)[i] = Append(q, x)[j]
      PROVE  i = j
  <2>1. CASE i = Len(q) + 1 /\ j = Len(q) + 1
    BY <2>1
  <2>2. CASE i \in 1..Len(q) /\ j \in 1..Len(q)
    BY <1>1, <1>2, <1>3, <2>2
  <2>3. CASE i \in 1..Len(q) /\ j = Len(q) + 1
    BY <1>1, <1>2, <1>3, <2>3
  <2>4. CASE i = Len(q) + 1 /\ j \in 1..Len(q)
    BY <1>1, <1>2, <1>3, <2>4
  <2> QED BY <1>2, <2>1, <2>2, <2>3, <2>4
<1> QED BY <1>1, <1>3

\* One more hop on a chain a door handed out: extended as a whole and minted
\* again with its root as the subject, it is a token the door accepts, and reads
\* as the extended chain; and Extend refuses no hop that the record would append.
THEOREM HopIsAccepted ==
    ASSUME NEW sub \in Names \ {Nobody}, NEW act \in Seq(Names), NEW actor \in Schemed,
           Chained(sub, act)
    PROVE  LET chain == Chain(sub, act)
               hop   == Extend(chain, actor)
           IN  /\ Extendable(chain, actor) <=> Appendable(chain, actor)
               /\ Extendable(chain, actor) =>
                     /\ Buildable(Tail(hop))
                     /\ Chained(sub, BuildAct(Tail(hop)))
                     /\ Chain(sub, BuildAct(Tail(hop))) = hop
<1> DEFINE chain == Chain(sub, act)
           hop   == Extend(chain, actor)
           rest  == Append(Reverse(act), actor)
<1>1. /\ Reverse(act) \in Seq(Names) /\ Len(Reverse(act)) = Len(act)
      /\ chain = <<sub>> \o Reverse(act) /\ Readable(act) /\ Validates(chain)
  BY ReverseFacts, DoorAgreesWithRecord DEF Chain, ReadAct
<1>2. /\ chain \in Seq(Names) /\ Len(chain) = Len(act) + 1
      /\ actor \in Names /\ actor # Nobody /\ MaxDepth \in Nat /\ Schemed \subseteq Names
  BY <1>1, ChainAssumption DEF Names
<1>3. Extendable(chain, actor) <=> Appendable(chain, actor)
  BY <1>2 DEF Extendable, Appendable
<1>4. ASSUME Extendable(chain, actor)
      PROVE  /\ Buildable(Tail(hop)) /\ Chained(sub, BuildAct(Tail(hop)))
             /\ Chain(sub, BuildAct(Tail(hop))) = hop
  <2>1. /\ rest \in Seq(Names) /\ Len(rest) = Len(act) + 1
        /\ hop = <<sub>> \o rest /\ hop \in Seq(Names) /\ Tail(hop) = rest
    <3>1. rest \in Seq(Names) /\ Len(rest) = Len(act) + 1
      BY <1>1, <1>2
    <3>2. hop = <<sub>> \o rest
      <4>1. Append(<<sub>> \o Reverse(act), actor) = <<sub>> \o Append(Reverse(act), actor)
        <5>1. sub \in Names /\ Reverse(act) \in Seq(Names) /\ actor \in Names
          BY <1>1, <1>2
        <5> QED BY ONLY <5>1, ConsFacts
      <4> QED BY <1>1, <4>1 DEF Extend
    <3>3. sub \in Names
      BY <1>2 DEF Names
    <3> HIDE DEF rest, hop
    <3> QED BY <3>1, <3>2, <3>3, ConsFacts
  <2>2. Len(rest) <= MaxDepth - 1
    BY <1>2, <1>4, <2>1 DEF Extendable
  <2>3. Validates(hop)
    <3>1. Len(hop) <= MaxDepth
      BY <1>2, <2>1, <2>2
    <3>2. AllSchemed(hop)
      BY <1>1, <1>2 DEF Extend, Validates, AllSchemed
    <3>3. IsInjective(hop)
      <4>1. /\ \A i, j \in DOMAIN chain : chain[i] = chain[j] => i = j
            /\ \A i \in DOMAIN chain : chain[i] # actor
        BY <1>1, <1>4 DEF Validates, Extendable, IsInjective
      <4> HIDE DEF chain
      <4>2. \A i, j \in DOMAIN Append(chain, actor) :
                 Append(chain, actor)[i] = Append(chain, actor)[j] => i = j
        BY <1>2, <4>1, AppendDistinct
      <4> QED BY <4>2 DEF Extend, IsInjective
    <3> QED BY <3>1, <3>2, <3>3 DEF Validates
  <2>4. NamesAll(rest)
    <3> SUFFICES ASSUME NEW i \in 1..Len(rest) PROVE rest[i] # Nobody
      BY <2>1 DEF NamesAll
    <3>1. hop[i + 1] = rest[i] /\ i + 1 \in DOMAIN hop
      <4>1. rest \in Seq(Names) /\ hop = <<sub>> \o rest /\ sub \in Names
        BY <2>1
      <4> HIDE DEF rest, hop
      <4> QED BY <4>1, ConsFacts
    <3>2. hop[i + 1] \in Schemed
      BY <2>3, <3>1 DEF Validates, AllSchemed
    <3> QED BY <3>1, <3>2, ChainAssumption
  <2>5. Buildable(rest)
    BY <1>2, <2>1, <2>2, <2>4 DEF Buildable
  <2>6. Readable(BuildAct(rest)) /\ ReadAct(BuildAct(rest)) = rest /\ BuildAct(rest) \in Seq(Names)
    BY <2>1, <2>5, ActInverse, ReverseFacts DEF BuildAct
  <2>7. Chain(sub, BuildAct(rest)) = hop
    BY <2>1, <2>6 DEF Chain
  <2>8. Chained(sub, BuildAct(rest))
    BY <2>3, <2>6, <2>7, DoorAgreesWithRecord
  <2> QED BY <2>1, <2>5, <2>7, <2>8
<1> QED BY <1>3, <1>4
-----------------------------------------------------------------------------
(* What the two instances assume. *)

LEMMA TokenFacts ==
    ASSUME NEW t \in Tokens
    PROVE  /\ Until(t) \in Nat /\ t.sub \in Names /\ t.act \in Seq(Names)
           /\ Act(t) \in Seq(Names) /\ Asked(t) \in Seq(Names)
           /\ \A p \in PartiesOf(t) : Entry(t, p) \in ListTokens
<1>1. Nobody \in Names /\ t.sub \in Names /\ t.act \in Seq(Names) /\ t.exp \in Nat /\ Leeway \in Nat
  BY AccessAssumption DEF Names
<1>2. Until(t) \in Nat
  BY <1>1 DEF Until
<1>3. Act(t) \in Seq(Names)
  BY <1>1 DEF Act
<1>4. Reverse(Act(t)) \in Seq(Names)
  BY <1>3, ReverseFacts
<1>5. <<t.sub>> \in Seq(Names) /\ <<t.sub>> \o Reverse(Act(t)) \in Seq(Names)
  BY <1>1, <1>4
<1>6. Asked(t) \in Seq(Names)
  BY <1>4, <1>5 DEF Asked, Chain, ReadAct
<1>7. \A p \in PartiesOf(t) : Entry(t, p) \in ListTokens
  BY DEF ListTokens
<1> QED BY <1>1, <1>2, <1>3, <1>6, <1>7

LEMMA MemoryAssumption == MP!ReplayAssumption
BY AccessAssumption DEF MP!ReplayAssumption, Jtis

LEMMA ListAssumption == LP!RevocationAssumption
<1>1. ASSUME NEW e \in ListTokens
      PROVE  \E t \in Tokens : \E p \in PartiesOf(t) : e = Entry(t, p)
  BY DEF ListTokens
<1>2. ASSUME NEW e \in ListTokens
      PROVE  /\ e.iat \in Nat /\ e.exp \in Nat /\ e.exp <= e.iat + MaxLife
             /\ e.jti # Nobody /\ e.subject # Nobody
  <2>1. PICK t \in Tokens : \E p \in PartiesOf(t) : e = Entry(t, p)
    BY <1>1
  <2> QED BY <2>1, TokenFacts, AccessAssumption DEF Entry, PartiesOf
<1>3. ASSUME NEW e \in ListTokens, NEW f \in ListTokens, e.jti = f.jti
      PROVE  e.exp = f.exp
  <2>1. PICK t \in Tokens : \E p \in PartiesOf(t) : e = Entry(t, p)
    BY <1>1
  <2>2. PICK u \in Tokens : \E q \in PartiesOf(u) : f = Entry(u, q)
    BY <1>1
  <2> QED BY <1>3, <2>1, <2>2, AccessAssumption DEF Entry
<1>4. Nobody \notin Revocable
  BY AccessAssumption, ChainAssumption
<1> QED BY <1>2, <1>3, <1>4, AccessAssumption DEF LP!RevocationAssumption

-----------------------------------------------------------------------------
(* The way of a request. *)

Todos == {<<"list", "memory">>, <<"memory">>, <<"list">>,
          <<"memory", "binding", "list">>, <<"binding", "list">>}

LEMMA TodoFacts ==
    ASSUME NEW s \in Todos
    PROVE  /\ s \in Seq({"memory", "binding", "list"}) /\ s # <<>>
           /\ s = <<"list", "memory">> => Len(s) = 2 /\ Head(s) = "list" /\ Tail(s) = <<"memory">>
           /\ s = <<"memory">> => Len(s) = 1 /\ Head(s) = "memory"
           /\ s = <<"list">> => Len(s) = 1 /\ Head(s) = "list"
           /\ s = <<"memory", "binding", "list">> =>
                 Len(s) = 3 /\ Head(s) = "memory" /\ Tail(s) = <<"binding", "list">>
           /\ s = <<"binding", "list">> =>
                 Len(s) = 2 /\ Head(s) = "binding" /\ Tail(s) = <<"list">>
<1> DEFINE S == {"memory", "binding", "list"}
<1>1. /\ <<"list", "memory">> \in Seq(S) /\ <<"memory">> \in Seq(S) /\ <<"list">> \in Seq(S)
      /\ <<"memory", "binding", "list">> \in Seq(S) /\ <<"binding", "list">> \in Seq(S)
  OBVIOUS
<1>2. /\ Len(<<"list", "memory">>) = 2 /\ Len(<<"memory">>) = 1 /\ Len(<<"list">>) = 1
      /\ Len(<<"memory", "binding", "list">>) = 3 /\ Len(<<"binding", "list">>) = 2
  OBVIOUS
<1>3. /\ Head(<<"list", "memory">>) = "list" /\ Head(<<"memory">>) = "memory"
      /\ Head(<<"list">>) = "list" /\ Head(<<"memory", "binding", "list">>) = "memory"
      /\ Head(<<"binding", "list">>) = "binding"
  OBVIOUS
<1>4. Tail(<<"list", "memory">>) = <<"memory">>
  OBVIOUS
<1>5. Tail(<<"binding", "list">>) = <<"list">>
  OBVIOUS
<1>6. Tail(<<"memory", "binding", "list">>) = <<"binding", "list">>
  OBVIOUS
<1>7. s \in Seq(S) /\ s # <<>>
  <2>1. s \in Seq(S)
    BY <1>1 DEF Todos
  <2>2. Len(s) # 0
    BY <1>2 DEF Todos
  <2> QED BY <2>1, <2>2
<1> HIDE DEF S
<1> QED BY <1>2, <1>3, <1>4, <1>5, <1>6, <1>7 DEF S

\* Where a request at a door can be: what it has still to go through, and whom
\* the list has still to be asked about.
OnItsWay(q) ==
    /\ q.door = "access" => \/ q.todo = <<"list", "memory">> /\ q.left # <<>>
                            \/ q.todo = <<"memory">> /\ q.left = <<>>
    /\ q.door = "relay" => q.todo = <<"list">> /\ q.left # <<>>
    /\ q.door = "verify" =>
          /\ q.todo \in {<<"memory", "binding", "list">>, <<"binding", "list">>, <<"list">>}
          /\ q.left # <<>>

\* Its reading is at most Slack old, and a proof it came with was fresh by it and
\* carries an identifier.
InOrder(q) ==
    /\ q.pc = "busy" =>
          /\ q.door \in Doors /\ OnItsWay(q)
          /\ q.now <= clock /\ clock - q.now <= Slack
          /\ q.door # "relay" => /\ q.proof \in Proofs /\ q.proof.jti # NoJti
                                /\ MP!Fresh(q.proof, q.now)
    /\ q.pc = "accepted" => q.left = <<>> /\ q.now <= clock /\ q.todo = <<>>

DoorInv ==
    /\ clock \in 0..MaxTime
    /\ at \in [Requests -> Busy \cup {Idle}]
    /\ \A r \in Requests : InOrder(at[r])
    /\ accepted \subseteq Jtis

LEMMA BusyFacts ==
    ASSUME DoorInv, NEW r \in Requests, at[r].pc = "busy"
    PROVE  /\ at[r] \in Busy /\ InOrder(at[r]) /\ at[r].todo \in Todos
           /\ at[r].token \in Tokens /\ at[r].now \in 0..MaxTime /\ at[r].left \in Seq(Names)
           /\ at[r].door \in {"access", "relay", "verify"}
<1>1. at[r] \in Busy /\ InOrder(at[r])
  BY DEF DoorInv, Idle
<1>2. /\ at[r].token \in Tokens /\ at[r].now \in 0..MaxTime /\ at[r].left \in Seq(Names)
      /\ at[r].door \in {"access", "relay", "verify"}
  BY <1>1 DEF Busy
<1>3. at[r].todo \in Todos
  BY <1>1, <1>2 DEF InOrder, OnItsWay, Todos
<1> QED BY <1>1, <1>2, <1>3

LEMMA AfterFacts ==
    ASSUME NEW q \in Busy, q.todo \in Todos
    PROVE  /\ After(q).door = q.door /\ After(q).token = q.token /\ After(q).proof = q.proof
           /\ After(q).now = q.now /\ After(q).left = q.left
           /\ After(q) \in Busy
           /\ q.todo = <<"memory">> \/ q.todo = <<"list">> =>
                 After(q).pc = "accepted" /\ After(q).todo = <<>>
           /\ q.todo = <<"list", "memory">> =>
                 After(q).pc = q.pc /\ After(q).todo = <<"memory">>
           /\ q.todo = <<"memory", "binding", "list">> =>
                 After(q).pc = q.pc /\ After(q).todo = <<"binding", "list">>
           /\ q.todo = <<"binding", "list">> =>
                 After(q).pc = q.pc /\ After(q).todo = <<"list">>
<1> DEFINE rest == Tail(q.todo)
<1>1. /\ q.todo = <<"memory">> \/ q.todo = <<"list">> => Len(q.todo) = 1
      /\ q.todo = <<"list", "memory">> => Len(q.todo) # 1 /\ rest = <<"memory">>
      /\ q.todo = <<"memory", "binding", "list">> => Len(q.todo) # 1 /\ rest = <<"binding", "list">>
      /\ q.todo = <<"binding", "list">> => Len(q.todo) # 1 /\ rest = <<"list">>
  <2>1. /\ q.todo = <<"memory">> \/ q.todo = <<"list">> => Len(q.todo) = 1
        /\ q.todo = <<"list", "memory">> => Len(q.todo) = 2 /\ rest = <<"memory">>
        /\ q.todo = <<"memory", "binding", "list">> => Len(q.todo) = 3 /\ rest = <<"binding", "list">>
        /\ q.todo = <<"binding", "list">> => Len(q.todo) = 2 /\ rest = <<"list">>
    BY TodoFacts, Zenon
  <2> HIDE DEF rest
  <2> QED BY <2>1
<1>2. /\ Len(q.todo) # 1 => rest \in Seq({"memory", "binding", "list"})
      /\ <<>> \in Seq({"memory", "binding", "list"})
  <2> HIDE DEF rest
  <2>1. /\ <<"memory">> \in Todos /\ <<"binding", "list">> \in Todos /\ <<"list">> \in Todos
    BY DEF Todos
  <2>2. \A s \in Todos : s \in Seq({"memory", "binding", "list"})
    BY TodoFacts, Zenon
  <2>3. q.todo \in {<<"memory">>, <<"list">>, <<"list", "memory">>,
                    <<"memory", "binding", "list">>, <<"binding", "list">>}
    BY DEF Todos
  <2>4. Len(q.todo) # 1 => rest \in {<<"memory">>, <<"binding", "list">>, <<"list">>}
    BY <1>1, <2>3
  <2> QED BY <2>1, <2>2, <2>4
<1>3. After(q) = IF Len(q.todo) = 1 THEN [q EXCEPT !.pc = "accepted", !.todo = <<>>]
                                    ELSE [q EXCEPT !.todo = rest]
  BY DEF After
<1> HIDE DEF rest
<1> QED BY <1>1, <1>2, <1>3 DEF Busy

LEMMA Moves ==
    ASSUME DoorInv, NEW r \in Requests, NEW q \in Busy \cup {Idle}, InOrder(q),
           at' = [at EXCEPT ![r] = q], UNCHANGED <<clock, memory>>, accepted' \subseteq Jtis
    PROVE  DoorInv'
<1>1. at \in [Requests -> Busy \cup {Idle}]
  BY DEF DoorInv
<1>2. at' \in [Requests -> Busy \cup {Idle}]
  BY <1>1
<1>3. ASSUME NEW x \in Requests
      PROVE  InOrder(at[x])'
  <2>1. at'[x] = q \/ at'[x] = at[x]
    BY <1>1
  <2>2. InOrder(at'[x])
    BY <2>1 DEF DoorInv
  <2> QED BY <2>2 DEF InOrder, Doors
<1> QED BY <1>2, <1>3 DEF DoorInv

LEMMA ArriveFacts ==
    ASSUME DoorInv, NEW r \in Requests, NEW door \in {"access", "relay", "verify"},
           NEW t \in Tokens, NEW p \in Proofs \cup {NoProof}, Arrive(r, door, t, p),
           NEW q, q = [pc |-> "busy", door |-> door, token |-> t, proof |-> p, now |-> clock,
                       todo |-> Steps(door), left |-> Asked(t)]
    PROVE  q \in Busy /\ InOrder(q)
<1>1. /\ door = "access" => Steps(door) = <<"list", "memory">>
      /\ door = "relay" => Steps(door) = <<"list">>
      /\ door = "verify" => Steps(door) = <<"memory", "binding", "list">>
  BY DEF Steps
<1>2. Steps(door) \in Todos
  BY <1>1 DEF Todos
<1>3. clock \in 0..MaxTime /\ Slack \in Nat
  BY AccessAssumption DEF DoorInv
<1>4. Asked(t) \in Seq(Names) /\ Asked(t) # <<>>
  <2>1. CASE AgentToken(t)
    BY <2>1, TokenFacts DEF Asked
  <2>2. CASE ~AgentToken(t)
    <3>1. t.sub \in Names /\ t.sub # Nobody /\ Reverse(Act(t)) \in Seq(Names)
      BY <2>2, TokenFacts, ReverseFacts DEF Arrive, Admits, Proven, DelegationClaims, AgentClaims
    <3>2. Asked(t) = <<t.sub>> \o Reverse(Act(t))
      BY <2>2, <3>1 DEF Asked, Chain, ReadAct
    <3>3. Len(Asked(t)) # 0
      BY <3>1, <3>2
    <3> QED BY <3>3, TokenFacts
  <2> QED BY <2>1, <2>2
<1>5. q \in Busy
  BY <1>2, <1>3, <1>4, TodoFacts DEF Busy
<1>6. OnItsWay(q)
  BY <1>1, <1>4 DEF OnItsWay
<1>7. door # "relay" => p \in Proofs /\ p.jti # NoJti /\ MP!Fresh(p, clock)
  BY DEF Arrive, Admits, Proven, ProofHolds, Memory!Fresh, MP!Fresh
<1> QED BY <1>3, <1>5, <1>6, <1>7 DEF InOrder, Arrive

LEMMA TailFacts ==
    ASSUME NEW S, NEW s \in Seq(S), s # <<>>
    PROVE  /\ Tail(s) \in Seq(S) /\ Len(Tail(s)) = Len(s) - 1
           /\ Len(s) = 1 => Tail(s) = <<>>
           /\ Len(s) # 1 => Tail(s) # <<>>
<1>1. Len(s) \in Nat /\ Len(s) # 0
  OBVIOUS
<1>2. Tail(s) \in Seq(S) /\ Len(Tail(s)) = Len(s) - 1
  BY <1>1
<1>3. \A x \in Seq(S) : Len(x) = 0 <=> x = <<>>
  OBVIOUS
<1> DEFINE t == Tail(s)
<1>4. t \in Seq(S) /\ Len(t) = Len(s) - 1
  BY <1>2
<1> HIDE DEF t
<1>5. Len(t) = 0 <=> t = <<>>
  BY <1>3, <1>4, Zenon
<1>6. Len(s) = 1 <=> Len(t) = 0
  BY <1>1, <1>4
<1> QED BY <1>4, <1>5, <1>6, Zenon DEF t

LEMMA ListFacts ==
    ASSUME DoorInv, NEW r \in Requests, Asks(r, "list"),
           NEW q, q = [at[r] EXCEPT !.left = Tail(@)]
    PROVE  /\ q \in Busy /\ at[r].left # <<>>
           /\ Len(at[r].left) # 1 => InOrder(q)
           /\ Len(at[r].left) = 1 => /\ q = [at[r] EXCEPT !.left = <<>>] /\ q.left = <<>>
                                     /\ After(q) \in Busy /\ InOrder(After(q))
<1>1. /\ at[r] \in Busy /\ InOrder(at[r]) /\ at[r].todo \in Todos /\ at[r].pc = "busy"
      /\ at[r].left \in Seq(Names) /\ at[r].door \in {"access", "relay", "verify"}
      /\ Head(at[r].todo) = "list"
  BY BusyFacts DEF Asks
<1>2. \/ at[r].door = "access" /\ at[r].todo = <<"list", "memory">>
      \/ at[r].door # "access" /\ at[r].todo = <<"list">>
  BY <1>1, TodoFacts DEF InOrder, OnItsWay, Todos
<1>3. at[r].left # <<>>
  BY <1>1, <1>2, TodoFacts DEF InOrder, OnItsWay, Todos
<1>4. Tail(at[r].left) \in Seq(Names)
  BY <1>1, <1>3
<1>5. /\ Len(at[r].left) # 1 => Tail(at[r].left) # <<>>
      /\ Len(at[r].left) = 1 => Tail(at[r].left) = <<>>
  BY <1>1, <1>3, TailFacts
<1>6. /\ q \in Busy /\ q.pc = "busy" /\ q.door = at[r].door /\ q.proof = at[r].proof
      /\ q.now = at[r].now /\ q.todo = at[r].todo /\ q.left = Tail(at[r].left)
  BY <1>1, <1>4 DEF Busy
<1>7. ASSUME Len(at[r].left) # 1
      PROVE  InOrder(q)
  BY <1>1, <1>2, <1>5, <1>6, <1>7 DEF InOrder, OnItsWay
<1>8. ASSUME Len(at[r].left) = 1
      PROVE  InOrder(After(q)) /\ After(q) \in Busy
  <2>1. /\ After(q).door = q.door /\ After(q).proof = q.proof /\ After(q).now = q.now
        /\ After(q).left = <<>> /\ After(q) \in Busy
    BY <1>1, <1>5, <1>6, <1>8, AfterFacts
  <2>2. CASE at[r].door = "access"
    <3>1. After(q).pc = "busy" /\ After(q).todo = <<"memory">>
      BY <1>1, <1>2, <1>6, <2>2, AfterFacts
    <3> QED BY <1>1, <1>6, <2>1, <2>2, <3>1 DEF InOrder, OnItsWay
  <2>3. CASE at[r].door # "access"
    <3>1. After(q).pc = "accepted" /\ After(q).todo = <<>>
      BY <1>1, <1>2, <1>6, <2>3, AfterFacts
    <3> QED BY <1>1, <1>6, <2>1, <3>1 DEF InOrder
  <2> QED BY <2>2, <2>3, <2>1
<1> QED BY <1>3, <1>5, <1>6, <1>7, <1>8

LEMMA TurnFacts ==
    ASSUME DoorInv, NEW r \in Requests, Asks(r, "memory") \/ Asks(r, "binding")
    PROVE  /\ After(at[r]) \in Busy /\ InOrder(After(at[r]))
           /\ After(at[r]).proof \in Proofs /\ After(at[r]).proof.jti # NoJti
           /\ Asks(r, "memory") =>
                 \/ at[r].door = "access" /\ After(at[r]).pc = "accepted"
                 \/ at[r].door = "verify" /\ After(at[r]).pc = "busy"
                    /\ After(at[r]).todo = <<"binding", "list">>
           /\ Asks(r, "binding") => at[r].door = "verify" /\ After(at[r]).pc = "busy"
                                    /\ After(at[r]).todo = <<"list">>
<1> DEFINE q == at[r]
<1>1. /\ q \in Busy /\ InOrder(q) /\ q.todo \in Todos /\ q.pc = "busy"
      /\ q.door \in {"access", "relay", "verify"}
      /\ Head(q.todo) \in {"memory", "binding"}
  BY BusyFacts DEF Asks
<1>2. \/ q.door = "access" /\ q.todo = <<"memory">> /\ q.left = <<>> /\ Head(q.todo) = "memory"
      \/ q.door = "verify" /\ q.todo = <<"memory", "binding", "list">> /\ Head(q.todo) = "memory"
      \/ q.door = "verify" /\ q.todo = <<"binding", "list">> /\ Head(q.todo) = "binding"
  BY <1>1, TodoFacts DEF InOrder, OnItsWay, Todos
<1>3. /\ After(q).door = q.door /\ After(q).proof = q.proof /\ After(q).now = q.now
      /\ After(q).left = q.left /\ q.proof \in Proofs /\ q.proof.jti # NoJti
  BY <1>1, <1>2, AfterFacts DEF InOrder
<1>4. CASE q.door = "access"
  <2>1. After(q) \in Busy /\ After(q).pc = "accepted" /\ After(q).todo = <<>>
    BY <1>1, <1>2, <1>4, AfterFacts
  <2> QED BY <1>1, <1>2, <1>3, <1>4, <2>1 DEF InOrder, Asks
<1>5. CASE q.todo = <<"memory", "binding", "list">> /\ q.door = "verify"
  <2>1. After(q) \in Busy /\ After(q).pc = "busy" /\ After(q).todo = <<"binding", "list">>
    BY <1>1, <1>5, AfterFacts
  <2>2. Head(q.todo) = "memory"
    BY <1>1, <1>5, TodoFacts
  <2> QED BY <1>1, <1>3, <1>5, <2>1, <2>2 DEF InOrder, Asks, OnItsWay
<1>6. CASE q.todo = <<"binding", "list">> /\ q.door = "verify"
  <2>1. After(q) \in Busy /\ After(q).pc = "busy" /\ After(q).todo = <<"list">>
    BY <1>1, <1>6, AfterFacts
  <2>2. Head(q.todo) = "binding"
    BY <1>1, <1>6, TodoFacts
  <2> QED BY <1>1, <1>3, <1>6, <2>1, <2>2 DEF InOrder, Asks, OnItsWay
<1> QED BY <1>2, <1>4, <1>5, <1>6

\* What a step of the list, or of the memory, leaves alone.
LEMMA RefreshesLeave == List!Refreshes => UNCHANGED clock
BY DEF List!Refreshes, List!RevokeToken, List!RevokeSubject, List!Record, List!Send,
       List!Answer, List!FetchFails, List!Install, List!InstallNoCursor, List!InstallBackwards

LEMMA TurnLeaves ==
    ASSUME NEW r \in Requests, Memory!CheckAndRecord(r) \/ Memory!Remember(r)
    PROVE  UNCHANGED <<clock, memory>>
BY DEF Memory!CheckAndRecord, Memory!Remember

\* A request whose proof carries no identifier.
Unnamed ==
    \E r \in Requests, door \in {"access", "relay", "verify"},
       t \in Tokens, p \in Proofs \cup {NoProof} : ArriveUnnamed(r, door, t, p)

LEMMA UnnamedLeaves ==
    Unnamed => UNCHANGED <<clock, memory, uses, at, accepted, listVars>>
BY DEF Unnamed, ArriveUnnamed, doorVars

LEMMA RefusedKeeps ==
    ASSUME DoorInv, NEW r \in Requests, Refused(r), UNCHANGED <<clock, memory>>
    PROVE  DoorInv'
<1>1. Idle \in Busy \cup {Idle} /\ InOrder(Idle)
  BY DEF Idle, InOrder
<1> QED BY <1>1, Moves DEF Refused, DoorInv

LEMMA BecomesKeeps ==
    ASSUME DoorInv, NEW r \in Requests, NEW q \in Busy, InOrder(q), Becomes(r, q),
           q.door = "access" => q.proof \in Proofs /\ q.proof.jti # NoJti,
           UNCHANGED <<clock, memory>>
    PROVE  DoorInv'
<1>1. at' = [at EXCEPT ![r] = q] /\ accepted' \subseteq Jtis
  BY DEF Becomes, DoorInv, Jtis
<1> QED BY <1>1, Moves

LEMMA AskListKeeps ==
    ASSUME DoorInv, NEW r \in Requests, AskList(r)
    PROVE  DoorInv'
<1> DEFINE q == [at[r] EXCEPT !.left = Tail(@)]
<1>1. UNCHANGED <<clock, memory>> /\ Asks(r, "list")
  BY DEF AskList, memoryVars
<1>2. /\ q \in Busy
      /\ Len(at[r].left) # 1 => InOrder(q)
      /\ Len(at[r].left) = 1 => /\ q = [at[r] EXCEPT !.left = <<>>]
                                /\ After(q) \in Busy /\ InOrder(After(q))
  BY <1>1, ListFacts
<1>3. q.door = at[r].door /\ q.proof = at[r].proof
  BY BusyFacts, <1>1 DEF Asks, Busy
<1>4. After(q).door = q.door /\ After(q).proof = q.proof
  BY <1>2, <1>3 DEF After, Busy
<1>5. at[r].door = "access" => at[r].proof \in Proofs /\ at[r].proof.jti # NoJti
  BY BusyFacts, <1>1 DEF Asks, InOrder
<1> HIDE DEF q
<1>6. CASE Refused(r)
  BY <1>1, <1>6, RefusedKeeps
<1>7. CASE Len(at[r].left) = 1 /\ Becomes(r, After(q))
  BY <1>1, <1>2, <1>3, <1>4, <1>5, <1>7, BecomesKeeps
<1>8. CASE Len(at[r].left) # 1 /\ Becomes(r, q)
  BY <1>1, <1>2, <1>3, <1>5, <1>8, BecomesKeeps
<1>9. \/ Refused(r)
      \/ Len(at[r].left) = 1 /\ Becomes(r, After([at[r] EXCEPT !.left = <<>>]))
      \/ Len(at[r].left) # 1 /\ Becomes(r, q)
  BY DEF AskList, q
<1> QED BY <1>2, <1>6, <1>7, <1>8, <1>9

LEMMA TurnKeeps ==
    ASSUME DoorInv, NEW r \in Requests, AskMemory(r) \/ ReadBinding(r)
    PROVE  DoorInv'
<1>1. UNCHANGED <<clock, memory>>
  BY TurnLeaves DEF AskMemory, ReadBinding, memoryVars
<1>2. Asks(r, "memory") \/ Asks(r, "binding")
  BY DEF AskMemory, ReadBinding
<1>3. /\ After(at[r]) \in Busy /\ InOrder(After(at[r])) /\ After(at[r]).proof \in Proofs
      /\ After(at[r]).proof.jti # NoJti
  BY <1>2, TurnFacts
<1>4. Refused(r) \/ Becomes(r, After(at[r]))
  BY DEF AskMemory, ReadBinding
<1> QED BY <1>1, <1>3, <1>4, RefusedKeeps, BecomesKeeps

LEMMA ArriveKeeps ==
    ASSUME DoorInv, NEW r \in Requests, NEW door \in {"access", "relay", "verify"},
           NEW t \in Tokens, NEW p \in Proofs \cup {NoProof}, Arrive(r, door, t, p)
    PROVE  DoorInv'
<1> DEFINE q == [pc |-> "busy", door |-> door, token |-> t, proof |-> p, now |-> clock,
                 todo |-> Steps(door), left |-> Asked(t)]
<1>1. q \in Busy /\ InOrder(q)
  BY ArriveFacts
<1>2. /\ at' = [at EXCEPT ![r] = q] /\ UNCHANGED <<clock, memory>>
      /\ accepted' \subseteq Jtis
  BY DEF Arrive, memoryVars, DoorInv
<1> HIDE DEF q
<1> QED BY <1>1, <1>2, Moves

LEMMA DoorKeeps == DoorInv /\ [Next]_vars => DoorInv'
<1> SUFFICES ASSUME DoorInv, [Next]_vars PROVE DoorInv'
  OBVIOUS
<1>1. CASE Tick
  <2>1. /\ clock' = clock + 1 /\ clock < MaxTime /\ UNCHANGED <<at, accepted, memory>>
        /\ clock \in Nat /\ MaxTime \in Nat /\ Slack \in Nat
    BY <1>1, AccessAssumption DEF Tick, DoorInv, memoryVars, doorVars
  <2>2. ASSUME NEW r \in Requests
        PROVE  InOrder(at[r])'
    <3>1. CASE at[r].pc = "busy"
      <4>1. clock < at[r].now + Slack /\ at[r].now \in Nat /\ InOrder(at[r])
        BY <1>1, <3>1, BusyFacts DEF Tick
      <4> QED BY <2>1, <3>1, <4>1 DEF InOrder, Doors
    <3>2. CASE at[r].pc = "accepted"
      <4>1. InOrder(at[r]) /\ at[r].now \in Nat
        BY <3>2 DEF DoorInv, Busy, Idle
      <4> QED BY <2>1, <3>2, <4>1 DEF InOrder
    <3> QED BY <2>1, <3>1, <3>2 DEF InOrder
  <2> QED BY <2>1, <2>2 DEF DoorInv
<1>2. CASE Restart
  <2>1. /\ at' = [r \in Requests |-> Idle] /\ accepted' = {} /\ UNCHANGED clock
    BY <1>2 DEF Restart, Memory!Restart
  <2> QED BY <2>1 DEF DoorInv, InOrder, Idle
<1>3. CASE Refreshes \/ Unnamed \/ UNCHANGED vars
  <2>1. UNCHANGED <<clock, memory, at, accepted>>
    BY <1>3, RefreshesLeave, UnnamedLeaves DEF Refreshes, vars, memoryVars, doorVars
  <2> QED BY <2>1 DEF DoorInv, InOrder, Doors
<1>4. CASE \E r \in Requests, door \in {"access", "relay", "verify"},
              t \in Tokens, p \in Proofs \cup {NoProof} : Arrive(r, door, t, p)
  BY <1>4, ArriveKeeps
<1>5. CASE \E r \in Requests : AskList(r) \/ AskMemory(r) \/ ReadBinding(r)
  BY <1>5, AskListKeeps, TurnKeeps
<1> QED BY <1>1, <1>2, <1>3, <1>4, <1>5 DEF Next, Unnamed

LEMMA DoorInit == Init => DoorInv
BY AccessAssumption DEF Init, Memory!Init, DoorInv, InOrder, Idle

-----------------------------------------------------------------------------
(* Every step of a door is a step of the memory, or leaves it alone. *)

AsWaiting(q) ==
    IF q.pc = "busy" /\ Head(q.todo) = "memory"
    THEN [pc |-> "verified", now |-> q.now, proof |-> [jti |-> q.proof.jti, iat |-> q.proof.iat]]
    ELSE Idle

LEMMA WaitingIs == Waiting = [r \in Requests |-> AsWaiting(at[r])]
BY DEF Waiting, AsWaiting

LEMMA WaitingMoves ==
    ASSUME DoorInv, NEW r \in Requests, NEW q, at' = [at EXCEPT ![r] = q]
    PROVE  /\ Waiting' = [Waiting EXCEPT ![r] = AsWaiting(q)]
           /\ AsWaiting(q) = AsWaiting(at[r]) => Waiting' = Waiting
<1> DEFINE w(x) == AsWaiting(x)
<1>1. at \in [Requests -> Busy \cup {Idle}]
  BY DEF DoorInv
<1>2. Waiting = [x \in Requests |-> w(at[x])] /\ Waiting' = [x \in Requests |-> w(at'[x])]
  BY DEF Waiting, AsWaiting
<1> HIDE DEF w
<1>3. \A x \in Requests : at'[x] = IF x = r THEN q ELSE at[x]
  BY <1>1
<1>4. Waiting' = [Waiting EXCEPT ![r] = w(q)]
  BY <1>2, <1>3
<1>5. w(q) = w(at[r]) => Waiting' = Waiting
  BY <1>2, <1>3
<1> QED BY <1>4, <1>5 DEF w

\* A request whose next question becomes the memory's is one more waiting for
\* its turn, with a proof that was fresh by the reading it brings.
LEMMA QueuesUp ==
    ASSUME DoorInv, NEW r \in Requests, NEW q \in Busy, InOrder(q), at' = [at EXCEPT ![r] = q],
           q.pc = "busy", q.door # "relay", Head(q.todo) = "memory",
           AsWaiting(at[r]) = Idle, UNCHANGED <<clock, memoryVars>>
    PROVE  Memory!Next
<1> DEFINE p == [jti |-> q.proof.jti, iat |-> q.proof.iat]
<1>1. /\ q.proof \in Proofs /\ q.proof.jti # NoJti /\ MP!Fresh(q.proof, q.now)
      /\ q.now \in 0..MaxTime /\ q.now <= clock /\ clock - q.now <= Slack
  BY DEF InOrder, Busy
<1>2. p \in Memory!Presented /\ p.jti # NoJti /\ Memory!Fresh(p, q.now)
  BY <1>1 DEF Memory!Presented, Jtis, Memory!Fresh, MP!Fresh
<1>3. q.now \in 0..clock
  BY <1>1 DEF DoorInv
<1>4. Waiting[r] = Memory!Idle
  BY WaitingIs DEF Memory!Idle, Idle
<1>5. Waiting' = [Waiting EXCEPT ![r] = [pc |-> "verified", proof |-> p, now |-> q.now]]
  <2>1. AsWaiting(q) = [pc |-> "verified", now |-> q.now, proof |-> p]
    BY DEF AsWaiting
  <2>2. Waiting' = [Waiting EXCEPT ![r] = AsWaiting(q)]
    BY WaitingMoves
  <2> QED BY <2>1, <2>2
<1> HIDE DEF p
<1>6. Memory!Verify(r, p)
  BY <1>1, <1>2, <1>3, <1>4, <1>5 DEF Memory!Verify, memoryVars, Memory!cache, Memory!order
<1> QED BY <1>2, <1>6 DEF Memory!Next

LEMMA MemoryStill ==
    ASSUME UNCHANGED <<clock, memoryVars>>, Waiting' = Waiting
    PROVE  UNCHANGED Memory!vars
BY DEF memoryVars, Memory!vars, Memory!cache, Memory!order

LEMMA ArriveImplements ==
    ASSUME DoorInv, NEW r \in Requests, NEW door \in {"access", "relay", "verify"},
           NEW t \in Tokens, NEW p \in Proofs \cup {NoProof}, Arrive(r, door, t, p)
    PROVE  [Memory!Next]_(Memory!vars)
<1> DEFINE q == [pc |-> "busy", door |-> door, token |-> t, proof |-> p, now |-> clock,
                 todo |-> Steps(door), left |-> Asked(t)]
<1>1. /\ at' = [at EXCEPT ![r] = q] /\ UNCHANGED <<clock, memoryVars>>
      /\ AsWaiting(at[r]) = Idle
  BY DEF Arrive, AsWaiting
<1>2. q \in Busy /\ InOrder(q)
  BY ArriveFacts
<1>3. q.pc = "busy" /\ q.door = door /\ q.todo = Steps(door)
  OBVIOUS
<1> HIDE DEF q
<1>4. CASE door = "verify"
  <2>1. Head(q.todo) = "memory"
    BY <1>3, <1>4 DEF Steps
  <2> QED BY <1>1, <1>2, <1>3, <1>4, <2>1, QueuesUp
<1>5. CASE door # "verify"
  <2>1. Head(q.todo) = "list"
    BY <1>3, <1>5 DEF Steps
  <2>2. AsWaiting(q) = Idle
    BY <2>1 DEF AsWaiting
  <2> QED BY <1>1, <2>2, WaitingMoves, MemoryStill
<1> QED BY <1>4, <1>5

\* The memory's module answers such a proof as the doors do.
LEMMA UnnamedImplements ==
    ASSUME DoorInv, NEW r \in Requests, NEW door \in {"access", "relay", "verify"},
           NEW t \in Tokens, NEW p \in Proofs \cup {NoProof}, ArriveUnnamed(r, door, t, p)
    PROVE  Memory!Next
<1> DEFINE q == [jti |-> NoJti, iat |-> p.iat]
<1>1. /\ p \in Proofs /\ Memory!Fresh(p, clock) /\ told' = told \cup {NoJti}
      /\ UNCHANGED <<clock, memory, begun, started, current, previous, seen, turns, turn,
                     ordered, uses, at>>
      /\ at[r].pc # "busy"
  BY DEF ArriveUnnamed, Proven, ProofHolds, doorVars
<1>2. q \in Memory!Presented /\ Memory!Fresh(q, clock)
  BY <1>1 DEF Memory!Presented, Memory!Fresh
<1>3. clock \in 0..clock /\ clock - clock <= Slack
  BY AccessAssumption DEF DoorInv
<1>4. Waiting[r] = Memory!Idle
  BY <1>1, WaitingIs DEF AsWaiting, Memory!Idle, Idle
<1>5. Waiting' = Waiting
  BY <1>1 DEF Waiting
<1>6. q.jti = NoJti
  OBVIOUS
<1> HIDE DEF q
<1>7. Memory!Verify(r, q)
  BY <1>1, <1>2, <1>3, <1>4, <1>5, <1>6 DEF Memory!Verify, Memory!cache, Memory!order
<1> QED BY <1>2, <1>7 DEF Memory!Next

LEMMA RefusedStill ==
    ASSUME DoorInv, NEW r \in Requests, Refused(r), AsWaiting(at[r]) = Idle,
           UNCHANGED <<clock, memoryVars>>
    PROVE  UNCHANGED Memory!vars
<1>1. AsWaiting(Idle) = Idle
  BY DEF AsWaiting, Idle
<1> QED BY <1>1, WaitingMoves, MemoryStill DEF Refused

LEMMA AskListImplements ==
    ASSUME DoorInv, NEW r \in Requests, AskList(r)
    PROVE  [Memory!Next]_(Memory!vars)
<1> DEFINE q == [at[r] EXCEPT !.left = Tail(@)]
<1>1. /\ UNCHANGED <<clock, memoryVars>> /\ Asks(r, "list")
      /\ AsWaiting(at[r]) = Idle
  BY DEF AskList, Asks, AsWaiting
<1>2. /\ q \in Busy
      /\ Len(at[r].left) # 1 => InOrder(q)
      /\ Len(at[r].left) = 1 => /\ q = [at[r] EXCEPT !.left = <<>>]
                                /\ After(q) \in Busy /\ InOrder(After(q))
  BY <1>1, ListFacts
<1>3. /\ at[r].todo \in Todos /\ at[r].door \in {"access", "relay", "verify"}
      /\ InOrder(at[r]) /\ at[r].pc = "busy" /\ Head(at[r].todo) = "list" /\ at[r] \in Busy
  BY <1>1, BusyFacts DEF Asks
<1>4. q.todo = at[r].todo /\ q.door = at[r].door /\ q.pc = "busy"
  BY <1>3 DEF Busy
<1>5. \/ q.door = "access" /\ q.todo = <<"list", "memory">>
      \/ q.door # "access" /\ q.todo = <<"list">>
  BY <1>3, <1>4, TodoFacts DEF InOrder, OnItsWay, Todos
<1> HIDE DEF q
<1>6. CASE Refused(r)
  BY <1>1, <1>6, RefusedStill
<1>7. CASE Len(at[r].left) # 1 /\ Becomes(r, q)
  <2>1. AsWaiting(q) = Idle
    BY <1>3, <1>4 DEF AsWaiting
  <2> QED BY <1>1, <1>7, <2>1, WaitingMoves, MemoryStill DEF Becomes
<1>8. CASE Len(at[r].left) = 1 /\ Becomes(r, After(q)) /\ q.door = "access"
  <2>1. After(q).pc = "busy" /\ After(q).todo = <<"memory">> /\ After(q).door = "access"
    BY <1>2, <1>3, <1>4, <1>5, <1>8, AfterFacts
  <2>2. Head(After(q).todo) = "memory"
    BY <2>1
  <2> QED BY <1>1, <1>2, <1>8, <2>1, <2>2, QueuesUp DEF Becomes
<1>9. CASE Len(at[r].left) = 1 /\ Becomes(r, After(q)) /\ q.door # "access"
  <2>1. After(q).pc = "accepted"
    BY <1>2, <1>3, <1>4, <1>5, <1>9, AfterFacts
  <2>2. AsWaiting(After(q)) = Idle
    BY <2>1 DEF AsWaiting
  <2> QED BY <1>1, <1>9, <2>2, WaitingMoves, MemoryStill DEF Becomes
<1>10. \/ Refused(r)
       \/ Len(at[r].left) = 1 /\ Becomes(r, After([at[r] EXCEPT !.left = <<>>]))
       \/ Len(at[r].left) # 1 /\ Becomes(r, q)
  BY DEF AskList, q
<1> QED BY <1>2, <1>6, <1>7, <1>8, <1>9, <1>10

LEMMA BindingImplements ==
    ASSUME DoorInv, NEW r \in Requests, ReadBinding(r)
    PROVE  UNCHANGED Memory!vars
<1>1. UNCHANGED <<clock, memoryVars>> /\ AsWaiting(at[r]) = Idle /\ Asks(r, "binding")
  BY DEF ReadBinding, Asks, AsWaiting
<1>2. CASE Refused(r)
  BY <1>1, <1>2, RefusedStill
<1>3. CASE Becomes(r, After(at[r]))
  <2>1. After(at[r]).todo = <<"list">>
    BY <1>1, TurnFacts
  <2>2. AsWaiting(After(at[r])) = Idle
    <3>1. Head(After(at[r]).todo) = "list"
      BY <2>1
    <3> QED BY <3>1 DEF AsWaiting
  <2> QED BY <1>1, <1>3, <2>2, WaitingMoves, MemoryStill DEF Becomes
<1> QED BY <1>2, <1>3 DEF ReadBinding

LEMMA MemoryStep == DoorInv /\ [Next]_vars => [Memory!Next]_(Memory!vars)
<1> SUFFICES ASSUME DoorInv, [Next]_vars PROVE [Memory!Next]_(Memory!vars)
  OBVIOUS
<1>1. CASE Tick
  <2>1. /\ clock < MaxTime /\ clock' = clock + 1 /\ UNCHANGED <<memoryVars, at>>
    BY <1>1 DEF Tick, doorVars
  <2>2. Waiting' = Waiting
    BY <2>1 DEF Waiting
  <2>3. ASSUME NEW r \in Requests, Waiting[r] # Memory!Idle
        PROVE  clock < Waiting[r].now + Slack
    <3>1. at[r].pc = "busy" /\ Waiting[r].now = at[r].now
      BY <2>3, WaitingIs DEF AsWaiting, Memory!Idle, Idle
    <3> QED BY <1>1, <3>1 DEF Tick
  <2>4. Memory!Tick
    BY <2>1, <2>2, <2>3 DEF Memory!Tick, memoryVars, Memory!cache, Memory!order
  <2> QED BY <2>4 DEF Memory!Next
<1>2. CASE Restart
  BY <1>2 DEF Restart, Memory!Next
<1>3. CASE Refreshes \/ UNCHANGED vars
  <2>1. UNCHANGED <<clock, memoryVars, at>>
    BY <1>3, RefreshesLeave DEF Refreshes, vars, doorVars
  <2>2. Waiting' = Waiting
    BY <2>1 DEF Waiting
  <2> QED BY <2>1, <2>2, MemoryStill
<1>4. CASE \E r \in Requests, door \in {"access", "relay", "verify"},
              t \in Tokens, p \in Proofs \cup {NoProof} : Arrive(r, door, t, p)
  BY <1>4, ArriveImplements
<1>5. CASE \E r \in Requests : AskList(r) \/ ReadBinding(r)
  BY <1>5, AskListImplements, BindingImplements
<1>6. CASE \E r \in Requests : AskMemory(r)
  BY <1>6 DEF AskMemory, Memory!Next
<1>7. CASE Unnamed
  BY <1>7, UnnamedImplements DEF Unnamed
<1> QED BY <1>1, <1>2, <1>3, <1>4, <1>5, <1>6, <1>7 DEF Next, Unnamed

LEMMA MemoryInit == Init => Memory!Init
BY DEF Init

\* The doors keep their types, whatever waits for its turn.
THEOREM Typing == Spec => []TypeOK
<1>1. DoorInv => TypeOK
  <2> SUFFICES ASSUME DoorInv PROVE TypeOK
    OBVIOUS
  <2>1. ASSUME NEW r \in Requests, at[r].pc = "busy"
        PROVE  at[r].todo # <<>>
    BY <2>1, BusyFacts, TodoFacts
  <2> QED BY <2>1 DEF DoorInv, TypeOK
<1> QED BY DoorInit, DoorKeeps, <1>1, PTL DEF Spec

\* What the doors ask of the memory is what ProofReplay lets requests ask.
THEOREM MemoryImplemented == Spec => MemoryRefined
BY DoorInit, DoorKeeps, MemoryInit, MemoryStep, PTL DEF Spec, MemoryRefined, Memory!Spec

-----------------------------------------------------------------------------
(* What is proved of the memory and of the list, behind the doors. *)

LEMMA SameMemory ==
    /\ Memory!Init => MP!Init
    /\ [Memory!Next]_(Memory!vars) => [MP!Next]_(MP!vars)
<1>1. Memory!Init => MP!Init
  BY DEF Memory!Init, MP!Init, Memory!Idle, MP!Idle
<1>2. Memory!vars = MP!vars
  BY DEF Memory!vars, MP!vars, Memory!cache, MP!cache, Memory!order, MP!order
<1>3. Memory!vars' = MP!vars'
  BY DEF Memory!vars, MP!vars, Memory!cache, MP!cache, Memory!order, MP!order
<1>4. Memory!Tick => MP!Tick
  BY DEF Memory!Tick, MP!Tick, Memory!cache, MP!cache, Memory!order, MP!order, Memory!Idle, MP!Idle
<1>5. Memory!Restart => MP!Restart
  BY DEF Memory!Restart, MP!Restart, Memory!Idle, MP!Idle
<1>6. \A r \in Requests, p \in Memory!Presented :
         p \in MP!Presented /\ (Memory!Verify(r, p) => MP!Verify(r, p))
  BY DEF Memory!Verify, MP!Verify, Memory!Presented, MP!Presented, Memory!cache, MP!cache, Memory!order,
         MP!order, Memory!Idle, MP!Idle, Memory!Fresh, MP!Fresh
<1>7. ASSUME NEW r \in Requests, Memory!CheckAndRecord(r)
      PROVE  MP!CheckAndRecord(r)
  <2>1. \A now : Memory!Rotates(now) <=> MP!Rotates(now)
    BY DEF Memory!Rotates, MP!Rotates, Memory!Gen, MP!Gen
  <2>2. \A now : /\ Memory!NowCurrent(now) = MP!NowCurrent(now)
                 /\ Memory!NowPrevious(now) = MP!NowPrevious(now)
    BY <2>1 DEF Memory!NowCurrent, MP!NowCurrent, Memory!NowPrevious, MP!NowPrevious,
                Memory!Gen, MP!Gen
  <2>3. \A now, j : /\ Memory!Seen(j, now) <=> MP!Seen(j, now)
                    /\ Memory!Full(now) <=> MP!Full(now)
    BY <2>2 DEF Memory!Seen, MP!Seen, Memory!Full, MP!Full, Memory!Cardinality, MP!Cardinality
  <2>4. /\ Memory!Accept(r) <=> MP!Accept(r)
        /\ Memory!RefuseReplay(r) <=> MP!RefuseReplay(r)
        /\ Memory!TakesTurn(r) <=> MP!TakesTurn(r)
        /\ Memory!Done(r) <=> MP!Done(r)
    BY DEF Memory!Accept, MP!Accept, Memory!Nth, MP!Nth, Memory!RefuseReplay, MP!RefuseReplay,
           Memory!TakesTurn, MP!TakesTurn, Memory!Done, MP!Done, Memory!Idle, MP!Idle
  <2> QED BY <1>7, <2>1, <2>2, <2>3, <2>4, Zenon
             DEF Memory!CheckAndRecord, MP!CheckAndRecord, Memory!Idle, MP!Idle
<1>8. ASSUME NEW r \in Requests, Memory!Remember(r)
      PROVE  MP!Remember(r)
  BY <1>8 DEF Memory!Remember, MP!Remember, Memory!Idle, MP!Idle, Memory!Pruned, MP!Pruned,
         Memory!Accept, MP!Accept, Memory!Nth, MP!Nth, Memory!cache, MP!cache,
         Memory!RefuseReplay, MP!RefuseReplay, Memory!TakesTurn, MP!TakesTurn, Memory!Done, MP!Done
<1> QED BY <1>1, <1>2, <1>3, <1>4, <1>5, <1>6, <1>7, <1>8 DEF Memory!Next, MP!Next

LEMMA SameList ==
    /\ List!Init => LP!Init
    /\ [List!Next]_(List!vars) => [LP!Next]_(LP!vars)
<1>1. List!Init => LP!Init
  BY DEF List!Init, LP!Init, List!Idle, LP!Idle
<1>2. List!vars = LP!vars /\ List!vars' = LP!vars'
  BY DEF List!vars, LP!vars, List!view, LP!view
<1>3. List!Tick => LP!Tick
  BY DEF List!Tick, LP!Tick, List!view, LP!view
<1>4. List!Restart => LP!Restart
  BY DEF List!Restart, LP!Restart, List!Idle, LP!Idle
<1>5. List!Refreshes => LP!Refreshes
  <2>1. \A lag : List!Served(lag) = LP!Served(lag)
    BY DEF List!Served, LP!Served, List!LiveAt, LP!LiveAt
  <2>2. \A e : List!Record(e) <=> LP!Record(e)
    BY DEF List!Record, LP!Record, List!view, LP!view, List!Cardinality, LP!Cardinality
  <2>3. \A t : List!RevokeToken(t) <=> LP!RevokeToken(t)
    BY <2>2 DEF List!RevokeToken, LP!RevokeToken
  <2>4. \A s : List!RevokeSubject(s) <=> LP!RevokeSubject(s)
    BY <2>2 DEF List!RevokeSubject, LP!RevokeSubject
  <2>5. \A p : List!Answer(p) <=> LP!Answer(p)
    BY <2>1 DEF List!Answer, LP!Answer, List!view, LP!view
  <2>6. \A p : /\ List!Send(p) <=> LP!Send(p)
               /\ List!FetchFails(p) <=> LP!FetchFails(p)
    BY DEF List!Send, LP!Send, List!FetchFails, LP!FetchFails, List!Idle, LP!Idle, List!view, LP!view
  <2>7. \A p : /\ List!Install(p) <=> LP!Install(p)
               /\ List!InstallNoCursor(p) <=> LP!InstallNoCursor(p)
               /\ List!InstallBackwards(p) <=> LP!InstallBackwards(p)
    BY DEF List!Install, LP!Install, List!InstallNoCursor, LP!InstallNoCursor,
           List!InstallBackwards, LP!InstallBackwards, List!Idle, LP!Idle, List!view, LP!view
  <2> QED BY <2>3, <2>4, <2>5, <2>6, <2>7 DEF List!Refreshes, LP!Refreshes
<1> QED BY <1>1, <1>2, <1>3, <1>4, <1>5 DEF List!Next, LP!Next

\* At the doors that share a ReplayCache a proof is accepted at most once while
\* turns come in the order of their readings: what is proved of the memory alone
\* holds of it behind VerifyAccess.
THEOREM SingleUseAtDoors == Spec => []Memory!CacheAtMostOnce
<1>1. Memory!Spec => MP!Spec
  BY SameMemory, PTL DEF Memory!Spec, MP!Spec
<1>2. MP!Spec => []MP!CacheAtMostOnce
  BY MP!SingleUse, MemoryAssumption
<1>3. MP!CacheAtMostOnce => Memory!CacheAtMostOnce
  BY DEF MP!CacheAtMostOnce, Memory!CacheAtMostOnce
<1> QED BY MemoryImplemented, <1>1, <1>2, <1>3, PTL DEF MemoryRefined

-----------------------------------------------------------------------------
(* A refusal spends nothing. *)

\* Every use the doors' cache has on record was an acceptance.
SpentOnAcceptance == memory = "cache" => {u.proof.jti : u \in uses} \subseteq accepted

LEMMA AcceptedGrows ==
    ASSUME NEW r \in Requests, AskList(r) \/ ReadBinding(r)
    PROVE  UNCHANGED <<clock, memoryVars>> /\ accepted \subseteq accepted'
<1>1. \/ Refused(r) \/ \E q : Becomes(r, q)
  BY DEF AskList, ReadBinding
<1>2. accepted \subseteq accepted'
  BY <1>1 DEF Refused, Becomes
<1> QED BY <1>2 DEF AskList, ReadBinding

LEMMA AskMemorySpends ==
    ASSUME DoorInv, SpentOnAcceptance, NEW r \in Requests, AskMemory(r)
    PROVE  SpentOnAcceptance'
<1> SUFFICES ASSUME memory' = "cache" PROVE {u.proof.jti : u \in uses'} \subseteq accepted'
  BY DEF SpentOnAcceptance
<1>1. memory = "cache" /\ Asks(r, "memory") /\ Memory!CheckAndRecord(r)
  BY TurnLeaves DEF AskMemory, Memory!Remember
<1>2. /\ Waiting[r].proof.jti = at[r].proof.jti /\ Waiting[r].now = at[r].now
  BY <1>1, WaitingIs DEF AsWaiting, Asks
<1>3. {u.proof.jti : u \in uses} \subseteq accepted
  BY <1>1 DEF SpentOnAcceptance
<1>4. \/ UNCHANGED uses
      \/ /\ \E n : uses' = uses \cup {[proof |-> Waiting[r].proof, at |-> Waiting[r].now, nth |-> n]}
         /\ ~Memory!Seen(at[r].proof.jti, at[r].now) /\ ~Memory!Full(at[r].now)
  BY <1>1, <1>2 DEF Memory!CheckAndRecord, Memory!RefuseReplay, Memory!Accept
<1>5. CASE UNCHANGED uses
  BY <1>3, <1>5 DEF AskMemory, Refused, Becomes
<1>6. CASE /\ \E n : uses' = uses \cup {[proof |-> Waiting[r].proof, at |-> Waiting[r].now, nth |-> n]}
           /\ ~Memory!Seen(at[r].proof.jti, at[r].now) /\ ~Memory!Full(at[r].now)
  <2>1. Becomes(r, After(at[r]))
    BY <1>1, <1>6 DEF AskMemory, Takes
  <2>2. at[r].door \in Doors /\ at[r] \in Busy /\ at[r].todo \in Todos
    BY <1>1, BusyFacts DEF Asks, InOrder
  <2>3. After(at[r]).pc = "accepted" /\ After(at[r]).door = "access"
    BY <1>1, <2>2, TurnFacts, AfterFacts DEF Doors
  <2>4. After(at[r]).proof = at[r].proof
    BY <2>2, AfterFacts
  <2>5. accepted' = accepted \cup {at[r].proof.jti}
    BY <2>1, <2>3, <2>4 DEF Becomes
  <2>6. \A u \in uses' : u \in uses \/ u.proof = Waiting[r].proof
    BY <1>6
  <2> QED BY <1>2, <1>3, <2>5, <2>6
<1> QED BY <1>4, <1>5, <1>6

LEMMA SpentKeeps == DoorInv /\ SpentOnAcceptance /\ [Next]_vars => SpentOnAcceptance'
<1> SUFFICES ASSUME DoorInv, SpentOnAcceptance, [Next]_vars PROVE SpentOnAcceptance'
  OBVIOUS
<1>1. CASE Tick \/ Refreshes \/ Unnamed \/ UNCHANGED vars
           \/ \E r \in Requests, door \in {"access", "relay", "verify"},
                 t \in Tokens, p \in Proofs \cup {NoProof} : Arrive(r, door, t, p)
  <2>1. UNCHANGED <<memory, uses, accepted>>
    BY <1>1, UnnamedLeaves DEF Tick, Refreshes, vars, Arrive, memoryVars, doorVars
  <2> QED BY <2>1 DEF SpentOnAcceptance
<1>2. CASE Restart
  BY <1>2 DEF Restart, Memory!Restart, SpentOnAcceptance
<1>3. CASE \E r \in Requests : AskList(r) \/ ReadBinding(r)
  BY <1>3, AcceptedGrows DEF SpentOnAcceptance, memoryVars
<1>4. CASE \E r \in Requests : AskMemory(r)
  BY <1>4, AskMemorySpends
<1> QED BY <1>1, <1>2, <1>3, <1>4 DEF Next, Unnamed

\* VerifyAccess answers that a proof was used only to a caller who presents one
\* that was accepted: a request it refuses for any other reason, its list or a
\* full cache included, leaves the proof to be used.
THEOREM SpendsNothing == Spec => []RefusalSpendsNothing
<1>1. Init => SpentOnAcceptance
  BY DEF Init, Memory!Init, SpentOnAcceptance
<1>2. Memory!Spec => MP!Spec
  BY SameMemory, PTL DEF Memory!Spec, MP!Spec
<1>3. MP!Spec => []MP!NoFalseReplay
  BY MP!HonestRefusals, MemoryAssumption
<1>4. MP!NoFalseReplay /\ SpentOnAcceptance => RefusalSpendsNothing
  BY DEF MP!NoFalseReplay, SpentOnAcceptance, RefusalSpendsNothing
<1> QED BY MemoryImplemented, DoorInit, DoorKeeps, SpentKeeps, <1>1, <1>2, <1>3, <1>4, PTL
           DEF MemoryRefined, Spec

-----------------------------------------------------------------------------
(* What Verify accepts can be written down. *)

\* A request at Verify that has its binding behind it had its chain read.
Read(q) ==
    q.door = "verify" /\ (q.pc = "accepted" \/ q.todo = <<"list">>)
      => Chained(q.token.sub, Act(q.token))

ChainsRead == \A r \in Requests : at[r].pc # "idle" => Read(at[r])

LEMMA ReadMoves ==
    ASSUME DoorInv, ChainsRead, NEW r \in Requests, NEW q, at' = [at EXCEPT ![r] = q],
           q.pc = "idle" \/ Read(q)
    PROVE  ChainsRead'
<1>1. \A x \in Requests : at'[x] = IF x = r THEN q ELSE at[x]
  BY DEF DoorInv
<1> QED BY <1>1 DEF ChainsRead, Read

LEMMA ReadOnList ==
    ASSUME DoorInv, ChainsRead, NEW r \in Requests, AskList(r)
    PROVE  ChainsRead'
<1> DEFINE q == [at[r] EXCEPT !.left = Tail(@)]
<1>1. Asks(r, "list")
  BY DEF AskList
<1>2. /\ q \in Busy
      /\ Len(at[r].left) = 1 => q = [at[r] EXCEPT !.left = <<>>]
  BY <1>1, ListFacts
<1>3. /\ at[r] \in Busy /\ at[r].pc = "busy" /\ at[r].todo \in Todos /\ InOrder(at[r])
      /\ at[r].door \in {"access", "relay", "verify"} /\ Head(at[r].todo) = "list"
  BY <1>1, BusyFacts DEF Asks
<1>4. q.door = at[r].door /\ q.token = at[r].token /\ q.todo = at[r].todo /\ q.pc = "busy"
  BY <1>3 DEF Busy
<1>5. at[r].door = "verify" => /\ at[r].todo = <<"list">>
                              /\ Chained(at[r].token.sub, Act(at[r].token))
  <2> SUFFICES ASSUME at[r].door = "verify"
               PROVE  at[r].todo = <<"list">> /\ Chained(at[r].token.sub, Act(at[r].token))
    OBVIOUS
  <2>1. at[r].todo = <<"list">>
    BY <1>3, TodoFacts DEF InOrder, OnItsWay
  <2> QED BY <1>3, <2>1 DEF ChainsRead, Read
<1> HIDE DEF q
<1>6. After(q).door = q.door /\ After(q).token = q.token
  BY <1>2, <1>3, <1>4, AfterFacts
<1>7. Read(q) /\ Read(After(q)) /\ Idle.pc = "idle"
  BY <1>4, <1>5, <1>6 DEF Read, Idle
<1>8. at' \in {[at EXCEPT ![r] = Idle], [at EXCEPT ![r] = After(q)], [at EXCEPT ![r] = q]}
  <2>1. \/ Refused(r)
        \/ Len(at[r].left) = 1 /\ Becomes(r, After([at[r] EXCEPT !.left = <<>>]))
        \/ Len(at[r].left) # 1 /\ Becomes(r, q)
    BY DEF AskList, q
  <2> QED BY <1>2, <2>1 DEF Refused, Becomes
<1> QED BY <1>7, <1>8, ReadMoves

LEMMA ReadOnTurn ==
    ASSUME DoorInv, ChainsRead, NEW r \in Requests, AskMemory(r) \/ ReadBinding(r)
    PROVE  ChainsRead'
<1> DEFINE q == at[r]
<1>1. q \in Busy /\ q.pc = "busy" /\ q.todo \in Todos
  BY BusyFacts DEF AskMemory, ReadBinding, Asks
<1>2. After(q).door = q.door /\ After(q).token = q.token
  BY <1>1, AfterFacts
<1>3. CASE Refused(r)
  BY <1>3, ReadMoves DEF Refused, Idle
<1>4. CASE AskMemory(r) /\ Becomes(r, After(q))
  <2>1. \/ q.door = "access"
        \/ After(q).pc = "busy" /\ After(q).todo = <<"binding", "list">>
    BY <1>4, TurnFacts DEF AskMemory
  <2>2. <<"binding", "list">> # <<"list">>
    OBVIOUS
  <2>3. Read(After(q))
    BY <1>2, <2>1, <2>2 DEF Read
  <2> QED BY <1>4, <2>3, ReadMoves DEF Becomes
<1>5. CASE ReadBinding(r) /\ Becomes(r, After(q)) /\ ~Refused(r)
  <2>1. Chained(q.token.sub, Act(q.token))
    BY <1>5 DEF ReadBinding
  <2>2. Read(After(q))
    BY <1>2, <2>1 DEF Read
  <2> QED BY <1>5, <2>2, ReadMoves DEF Becomes
<1> QED BY <1>3, <1>4, <1>5 DEF AskMemory, ReadBinding

LEMMA ReadKeeps == DoorInv /\ ChainsRead /\ [Next]_vars => ChainsRead'
<1> SUFFICES ASSUME DoorInv, ChainsRead, [Next]_vars PROVE ChainsRead'
  OBVIOUS
<1>1. CASE Tick \/ Refreshes \/ Unnamed \/ UNCHANGED vars
  <2>1. UNCHANGED at
    BY <1>1, UnnamedLeaves DEF Tick, Refreshes, vars, doorVars
  <2> QED BY <2>1 DEF ChainsRead
<1>2. CASE Restart
  BY <1>2 DEF Restart, ChainsRead, Idle
<1>3. ASSUME NEW r \in Requests, NEW door \in {"access", "relay", "verify"},
             NEW t \in Tokens, NEW p \in Proofs \cup {NoProof}, Arrive(r, door, t, p)
      PROVE  ChainsRead'
  <2> DEFINE q == [pc |-> "busy", door |-> door, token |-> t, proof |-> p, now |-> clock,
                   todo |-> Steps(door), left |-> Asked(t)]
  <2>1. at' = [at EXCEPT ![r] = q]
    BY <1>3 DEF Arrive
  <2>2. door = "verify" => q.todo = <<"memory", "binding", "list">>
    BY DEF Steps
  <2>3. <<"memory", "binding", "list">> # <<"list">>
    OBVIOUS
  <2>4. q.door = door /\ q.pc = "busy"
    OBVIOUS
  <2> HIDE DEF q
  <2>5. Read(q)
    BY <2>2, <2>3, <2>4 DEF Read
  <2> QED BY <2>1, <2>5, ReadMoves
<1>4. CASE \E r \in Requests : AskList(r) \/ AskMemory(r) \/ ReadBinding(r)
  BY <1>4, ReadOnList, ReadOnTurn
<1> QED BY <1>1, <1>2, <1>3, <1>4 DEF Next, Unnamed

\* The chain of every token Verify accepts is one the record takes: neither its
\* depth, with the subject, nor a name in it is found out only when the call it
\* was accepted for is to be written down.
THEOREM Recordable == Spec => []AcceptedIsRecordable
<1>1. Init => ChainsRead
  BY DEF Init, ChainsRead, Idle
<1>2. DoorInv /\ ChainsRead => AcceptedIsRecordable
  <2> SUFFICES ASSUME DoorInv, ChainsRead, NEW r \in Requests,
                      at[r].pc = "accepted", at[r].door = "verify"
               PROVE  Validates(Chain(at[r].token.sub, at[r].token.act))
    BY DEF AcceptedIsRecordable
  <2> DEFINE t == at[r].token
  <2>1. t \in Tokens
    BY DEF DoorInv, Busy, Idle
  <2>2. Chained(t.sub, Act(t))
    BY DEF ChainsRead, Read
  <2>3. Act(t) # <<Nobody>>
    BY <2>2 DEF Chained, Readable, NamesAll
  <2>4. Act(t) = t.act
    BY <2>3 DEF Act
  <2>5. t.sub \in Names /\ t.act \in Seq(Names)
    BY <2>1, TokenFacts
  <2> QED BY <2>2, <2>4, <2>5, DoorAgreesWithRecord
<1> QED BY DoorInit, DoorKeeps, ReadKeeps, <1>1, <1>2, PTL DEF Spec

-----------------------------------------------------------------------------
(* Whom the list has cleared. *)

LEMMA ListStep == [Next]_vars => [List!Next]_(List!vars)
<1> SUFFICES ASSUME [Next]_vars PROVE [List!Next]_(List!vars)
  OBVIOUS
<1>1. CASE Tick
  <2>1. List!Tick
    BY <1>1 DEF Tick, listVars, List!Tick, List!view
  <2> QED BY <2>1 DEF List!Next
<1>2. CASE Restart
  BY <1>2 DEF Restart, List!Next
<1>3. CASE Refreshes
  BY <1>3 DEF Refreshes, List!Next
<1>4. CASE \/ UNCHANGED vars \/ Unnamed
           \/ \E r \in Requests, door \in {"access", "relay", "verify"},
                 t \in Tokens, p \in Proofs \cup {NoProof} : Arrive(r, door, t, p)
           \/ \E r \in Requests : AskList(r) \/ AskMemory(r) \/ ReadBinding(r)
  <2>1. UNCHANGED <<clock, listVars>>
    BY <1>4, TurnLeaves, UnnamedLeaves DEF vars, Arrive, AskList, AskMemory, ReadBinding
  <2> QED BY <2>1 DEF listVars, List!vars, List!view
<1> QED BY <1>1, <1>2, <1>3, <1>4 DEF Next, Unnamed

\* The doors leave the list to its poller.
THEOREM ListImplemented == Spec => List!Spec
<1>1. Init => List!Init
  BY DEF Init
<1> QED BY <1>1, ListStep, PTL DEF Spec, List!Spec

LEMMA ListInit == Init => LP!Inv
<1>1. Init => LP!Init
  BY SameList DEF Init
<1> QED BY <1>1, LP!InitInv, ListAssumption

LEMMA ListKeeps == LP!Inv /\ [Next]_vars => LP!Inv'
BY ListStep, SameList, LP!NextKeeps, ListAssumption

\* Before its life ends, what the token is to be refused for, by the list as it
\* is a maximum age later, was not yet recorded at the request's reading.
Cleared(q, p) ==
    clock < Until(q.token) =>
        \A e \in recorded :
            List!Ends(e, Entry(q.token, p)) => e.at >= q.now - DefaultAge - Lag

PartiesCleared ==
    failClosed => \A r \in Requests : at[r].pc # "idle" =>
        \A p \in PartiesOf(at[r].token) : p \in Range(at[r].left) \/ Cleared(at[r], p)

PartiesInv == maxAge = DefaultAge /\ PartiesCleared

LEMMA RangeTail ==
    ASSUME NEW S, NEW s \in Seq(S), s # <<>>, NEW p \in Range(s), p # Head(s)
    PROVE  p \in Range(Tail(s))
<1>1. PICK i \in 1..Len(s) : s[i] = p
  BY DEF Range
<1>2. i # 1 /\ Len(s) \in Nat
  BY <1>1
<1>3. i - 1 \in 1..(Len(s) - 1)
  BY <1>1, <1>2
<1>4. i - 1 \in DOMAIN Tail(s) /\ Tail(s)[i - 1] = s[i]
  BY <1>2, <1>3
<1> QED BY <1>1, <1>4 DEF Range

\* Everybody a token names is somebody the list is asked about.
LEMMA AskedOfAll ==
    ASSUME NEW t \in Tokens, AgentToken(t) => t.act = <<>>, t.sub # Nobody
    PROVE  PartiesOf(t) \subseteq Range(Asked(t))
<1>1. t.sub \in Names /\ t.act \in Seq(Names) /\ Act(t) \in Seq(Names)
  BY TokenFacts
<1>2. CASE AgentToken(t)
  <2>1. Range(<<>>) = {}
    BY DEF Range
  <2>2. PartiesOf(t) \subseteq {t.sub}
    BY <1>2, <2>1 DEF PartiesOf
  <2>3. t.sub \in Range(<<t.sub>>)
    BY DEF Range
  <2> QED BY <1>2, <2>2, <2>3 DEF Asked
<1>3. CASE ~AgentToken(t)
  <2> DEFINE a == Reverse(Act(t))
             c == <<t.sub>> \o a
  <2>1. /\ a \in Seq(Names) /\ Len(a) = Len(Act(t))
        /\ \A i \in 1..Len(Act(t)) : a[i] = Act(t)[Len(Act(t)) - i + 1]
    BY <1>1, ReverseFacts
  <2>2. Asked(t) = c
    BY <1>3 DEF Asked, Chain, ReadAct
  <2> HIDE DEF a
  <2>3. /\ c \in Seq(Names) /\ Len(c) = Len(a) + 1
        /\ \A i \in 1..Len(a) : c[i + 1] = a[i]
        /\ c[1] = t.sub
    BY <1>1, <2>1
  <2> HIDE DEF c
  <2>4. t.sub \in Range(c)
    <3>1. 1 \in DOMAIN c
      BY <2>1, <2>3
    <3> QED BY <2>3, <3>1 DEF Range
  <2>5. ASSUME NEW p \in Range(t.act)
        PROVE  p \in Range(c)
    <3>1. PICK i \in 1..Len(t.act) : t.act[i] = p
      BY <1>1, <2>5 DEF Range
    <3>2. Len(t.act) \in Nat /\ t.act # <<>>
      BY <1>1, <3>1
    <3>3. Act(t) = t.act
      BY <3>2 DEF Act
    <3> DEFINE j == Len(t.act) - i + 1
    <3>4. j \in 1..Len(t.act) /\ Len(t.act) - j + 1 = i
      BY <3>2
    <3> HIDE DEF j
    <3>5. a[j] = p
      BY <2>1, <3>1, <3>3, <3>4
    <3>6. c[j + 1] = p /\ j + 1 \in DOMAIN c
      BY <2>1, <2>3, <3>2, <3>3, <3>4, <3>5
    <3> QED BY <3>6 DEF Range
  <2> QED BY <2>2, <2>4, <2>5 DEF PartiesOf
<1> QED BY <1>2, <1>3

\* An answer that lets a token pass clears the party it was about.
LEMMA AnswerClears ==
    ASSUME LP!Inv, DoorInv, maxAge = DefaultAge, failClosed, NEW r \in Requests,
           at[r].pc = "busy", NEW p \in PartiesOf(at[r].token),
           ~List!Check(Entry(at[r].token, p), at[r].now).revoked
    PROVE  Cleared(at[r], p)
<1> DEFINE t == Entry(at[r].token, p)
           now == at[r].now
<1> SUFFICES ASSUME clock < Until(at[r].token), NEW e \in recorded, List!Ends(e, t)
             PROVE  e.at >= now - DefaultAge - Lag
  BY DEF Cleared
<1>1. /\ t \in ListTokens /\ t.exp = Until(at[r].token) /\ t.exp \in Nat
      /\ now \in Nat /\ now <= clock /\ clock \in Nat
  BY BusyFacts, TokenFacts DEF Entry, InOrder, DoorInv
<1>2. /\ fetchedAt \in Int /\ maxAge \in Int /\ Lag \in Nat /\ DefaultAge \in Nat
      /\ e.at \in Int /\ e.entry.expires \in Int
  BY AccessAssumption DEF LP!Inv, LP!TypeOK, LP!Entry
<1> HIDE DEF t, now
<1>3. held # Nobody /\ ~List!Listed(t, now) /\ now - fetchedAt <= maxAge
  BY DEF List!Check, t, now
<1>4. LP!Covers(e.entry, t) /\ (e.entry.expires = 0 \/ t.exp <= e.entry.expires)
  BY <1>1 DEF LP!Inv, LP!EntriesLast, LP!Ends, List!Ends
<1>5. e.entry \notin held.revocations
  BY <1>1, <1>2, <1>3, <1>4 DEF List!Listed, List!LiveAt, List!Covers, LP!Covers
<1>6. ~(e.at < fetchedAt - Lag)
  BY <1>1, <1>2, <1>3, <1>4, <1>5 DEF LP!Inv, LP!HeldComplete, LP!Complete
<1> QED BY <1>1, <1>2, <1>3, <1>6

LEMMA RecordedGrows ==
    ASSUME DoorInv, [Next]_vars
    PROVE  /\ clock' \in Nat /\ clock <= clock' /\ UNCHANGED failClosed
           /\ \A e \in recorded' : e \in recorded \/ e.at = clock
           /\ maxAge' = maxAge \/ maxAge' = DefaultAge
<1>0. clock \in Nat /\ MaxTime \in Nat
  BY AccessAssumption DEF DoorInv
<1>1. CASE Tick
  BY <1>0, <1>1 DEF Tick, listVars
<1>2. CASE Restart
  BY <1>0, <1>2 DEF Restart, Memory!Restart, List!Restart
<1>3. CASE Refreshes
  <2>1. UNCHANGED clock
    BY <1>3, RefreshesLeave DEF Refreshes
  <2>2. UNCHANGED <<failClosed, maxAge>> /\ \A e \in recorded' : e \in recorded \/ e.at = clock
    BY <1>3 DEF Refreshes, List!Refreshes, List!RevokeToken, List!RevokeSubject, List!Record,
                List!Send, List!Answer, List!FetchFails, List!Install, List!InstallNoCursor,
                List!InstallBackwards, List!view
  <2> QED BY <1>0, <2>1, <2>2
<1>4. CASE \/ UNCHANGED vars \/ Unnamed
           \/ \E r \in Requests, door \in {"access", "relay", "verify"},
                 t \in Tokens, p \in Proofs \cup {NoProof} : Arrive(r, door, t, p)
           \/ \E r \in Requests : AskList(r) \/ AskMemory(r) \/ ReadBinding(r)
  <2>1. UNCHANGED <<clock, listVars>>
    BY <1>4, TurnLeaves, UnnamedLeaves DEF vars, Arrive, AskList, AskMemory, ReadBinding
  <2> QED BY <1>0, <2>1 DEF listVars
<1> QED BY <1>1, <1>2, <1>3, <1>4 DEF Next, Unnamed

\* Time and new entries clear nobody of what they were cleared of.
LEMMA ClearedStays ==
    ASSUME DoorInv, LP!Inv, [Next]_vars, NEW q, q.now \in Nat, q.now <= clock,
           q.token \in Tokens, NEW p, Cleared(q, p)
    PROVE  Cleared(q, p)'
<1> SUFFICES ASSUME clock' < Until(q.token), NEW e \in recorded',
                    List!Ends(e, Entry(q.token, p))
             PROVE  e.at >= q.now - DefaultAge - Lag
  BY DEF Cleared
<1>1. /\ clock \in Nat /\ clock' \in Nat /\ clock <= clock' /\ Until(q.token) \in Nat
      /\ DefaultAge \in Nat /\ Lag \in Nat /\ (e \in recorded \/ e.at = clock)
  BY RecordedGrows, TokenFacts, AccessAssumption DEF DoorInv
<1>2. CASE e \in recorded
  BY <1>1, <1>2 DEF Cleared
<1>3. CASE e.at = clock
  BY <1>1, <1>3
<1> QED BY <1>1, <1>2, <1>3

\* What remains to be said of one request.
Settling(q) == \A p \in PartiesOf(q.token) : p \in Range(q.left) \/ Cleared(q, p)

LEMMA SettlingStays ==
    ASSUME DoorInv, LP!Inv, PartiesInv, [Next]_vars, failClosed,
           NEW x \in Requests, at'[x] = at[x], at[x].pc # "idle"
    PROVE  Settling(at[x])'
<1>1. Settling(at[x]) /\ at[x].now \in Nat /\ at[x].now <= clock /\ at[x].token \in Tokens
  BY DEF PartiesInv, PartiesCleared, Settling, DoorInv, Busy, Idle, InOrder
<1>2. ASSUME NEW y, y = at[x]
      PROVE  Settling(y)'
  <2>1. y.now \in Nat /\ y.now <= clock /\ y.token \in Tokens /\ Settling(y)
    BY <1>1, <1>2
  <2>2. ASSUME NEW p, Cleared(y, p)
        PROVE  Cleared(y, p)'
    BY <2>1, <2>2, ClearedStays
  <2> QED BY <2>1, <2>2 DEF Settling
<1> QED BY <1>2 DEF Settling, Cleared

LEMMA SettlingMoves ==
    ASSUME DoorInv, LP!Inv, PartiesInv, [Next]_vars, failClosed,
           NEW r \in Requests, NEW q, at' = [at EXCEPT ![r] = q],
           q.pc = "idle" \/ Settling(q)'
    PROVE  PartiesCleared'
<1> SUFFICES ASSUME NEW x \in Requests, at'[x].pc # "idle"
             PROVE  Settling(at[x])'
  BY DEF PartiesCleared, Settling
<1>1. at'[x] = IF x = r THEN q ELSE at[x]
  BY DEF DoorInv
<1>2. CASE x = r
  <2>1. Settling(q)' /\ at'[x] = q
    BY <1>1, <1>2
  <2> QED BY <2>1 DEF Settling, Cleared
<1>3. CASE x # r
  BY <1>1, <1>3, SettlingStays
<1> QED BY <1>2, <1>3

LEMMA SettlingStill ==
    ASSUME DoorInv, LP!Inv, PartiesInv, [Next]_vars, failClosed, UNCHANGED at
    PROVE  PartiesCleared'
<1> SUFFICES ASSUME NEW x \in Requests, at'[x].pc # "idle"
             PROVE  Settling(at[x])'
  BY DEF PartiesCleared, Settling
<1> QED BY SettlingStays

\* A step that moves a request on, and asks the list about nobody, or about
\* the first of those left.
LEMMA SameSettling ==
    ASSUME NEW r \in Requests, NEW q, q.token = at[r].token, q.now = at[r].now,
           \A p \in PartiesOf(at[r].token) : p \in Range(q.left) \/ Cleared(at[r], p),
           UNCHANGED <<clock, recorded>>
    PROVE  Settling(q)'
BY DEF Settling, Cleared

LEMMA AskListSettles ==
    ASSUME DoorInv, LP!Inv, PartiesInv, failClosed, NEW r \in Requests, AskList(r)
    PROVE  PartiesCleared'
<1> DEFINE q == [at[r] EXCEPT !.left = Tail(@)]
           t == at[r].token
<1>1. Asks(r, "list") /\ at[r].pc = "busy" /\ UNCHANGED <<clock, recorded>> /\ [Next]_vars
  BY DEF AskList, Asks, listVars, Next
<1>2. /\ q \in Busy /\ at[r].left # <<>>
      /\ Len(at[r].left) = 1 => q = [at[r] EXCEPT !.left = <<>>]
  BY <1>1, ListFacts
<1>3. at[r] \in Busy /\ at[r].todo \in Todos /\ at[r].left \in Seq(Names)
  BY <1>1, BusyFacts
<1>4. q.token = t /\ q.now = at[r].now /\ q.left = Tail(at[r].left) /\ q.todo = at[r].todo
  BY <1>3 DEF Busy
<1>5. CASE Refused(r)
  BY <1>1, <1>5, SettlingMoves DEF Refused, Idle
<1>6. ASSUME ~Refused(r), NEW p \in PartiesOf(t)
      PROVE  p \in Range(Tail(at[r].left)) \/ Cleared(at[r], p)
  <2>1. p \in Range(at[r].left) \/ Cleared(at[r], p)
    BY <1>1 DEF PartiesInv, PartiesCleared
  <2>2. CASE p = Head(at[r].left)
    <3>1. ~List!Check(Entry(t, p), at[r].now).revoked
      BY <1>6, <2>2 DEF AskList
    <3> QED BY <1>1, <3>1, AnswerClears DEF PartiesInv
  <2>3. CASE p \in Range(at[r].left) /\ p # Head(at[r].left)
    BY <1>2, <1>3, <2>3, RangeTail
  <2> QED BY <2>1, <2>2, <2>3
<1> HIDE DEF q
<1>7. After(q).token = t /\ After(q).now = at[r].now /\ After(q).left = q.left
  BY <1>2, <1>3, <1>4, AfterFacts
<1>8. ASSUME NEW y, y = q \/ y = After(q), ~Refused(r), at' = [at EXCEPT ![r] = y]
      PROVE  PartiesCleared'
  <2>1. y.token = t /\ y.now = at[r].now /\ y.left = Tail(at[r].left)
    BY <1>4, <1>7, <1>8
  <2>2. \A p \in PartiesOf(t) : p \in Range(y.left) \/ Cleared(at[r], p)
    BY <1>6, <1>8, <2>1, Zenon
  <2>3. Settling(y)'
    BY <1>1, <2>1, <2>2, SameSettling
  <2> QED BY <1>1, <1>8, <2>3, SettlingMoves
<1>9. ASSUME ~Refused(r)
      PROVE  at' = [at EXCEPT ![r] = q] \/ at' = [at EXCEPT ![r] = After(q)]
  <2>1. \/ Len(at[r].left) = 1 /\ Becomes(r, After([at[r] EXCEPT !.left = <<>>]))
        \/ Len(at[r].left) # 1 /\ Becomes(r, q)
    BY <1>9 DEF AskList, q
  <2> QED BY <1>2, <2>1 DEF Becomes
<1> QED BY <1>5, <1>8, <1>9

LEMMA TurnSettles ==
    ASSUME DoorInv, LP!Inv, PartiesInv, failClosed, NEW r \in Requests, AskMemory(r) \/ ReadBinding(r)
    PROVE  PartiesCleared'
<1>1. UNCHANGED <<clock, recorded>> /\ [Next]_vars /\ at[r].pc = "busy"
  BY TurnLeaves DEF AskMemory, ReadBinding, listVars, Next, Asks
<1>2. /\ After(at[r]).token = at[r].token /\ After(at[r]).now = at[r].now
      /\ After(at[r]).left = at[r].left
  BY <1>1, BusyFacts, AfterFacts
<1>3. Settling(at[r])
  BY <1>1 DEF PartiesInv, PartiesCleared, Settling
<1>4. ASSUME NEW y, y = After(at[r]), at' = [at EXCEPT ![r] = y]
      PROVE  PartiesCleared'
  <2>1. y.token = at[r].token /\ y.now = at[r].now /\ y.left = at[r].left
    BY <1>2, <1>4
  <2>2. \A p \in PartiesOf(at[r].token) : p \in Range(y.left) \/ Cleared(at[r], p)
    BY <1>3, <2>1 DEF Settling
  <2>3. Settling(y)'
    BY <1>1, <2>1, <2>2, SameSettling
  <2> QED BY <1>1, <1>4, <2>3, SettlingMoves
<1>5. CASE Refused(r)
  BY <1>1, <1>5, SettlingMoves DEF Refused, Idle
<1>6. CASE Becomes(r, After(at[r]))
  BY <1>4, <1>6 DEF Becomes
<1> QED BY <1>5, <1>6 DEF AskMemory, ReadBinding

LEMMA ArriveSettles ==
    ASSUME DoorInv, LP!Inv, PartiesInv, failClosed, NEW r \in Requests,
           NEW door \in {"access", "relay", "verify"},
           NEW t \in Tokens, NEW p \in Proofs \cup {NoProof}, Arrive(r, door, t, p)
    PROVE  PartiesCleared'
<1> DEFINE q == [pc |-> "busy", door |-> door, token |-> t, proof |-> p, now |-> clock,
                 todo |-> Steps(door), left |-> Asked(t)]
<1>1. at' = [at EXCEPT ![r] = q] /\ [Next]_vars
  BY DEF Arrive, Next
<1>2. (AgentToken(t) => t.act = <<>>) /\ t.sub # Nobody
  BY AccessAssumption, ChainAssumption DEF Arrive, Admits, Proven, AgentClaims, DelegationClaims
<1>3. PartiesOf(t) \subseteq Range(Asked(t))
  BY <1>2, AskedOfAll
<1>4. ASSUME NEW y, y = q
      PROVE  PartiesCleared'
  <2>1. y.token = t /\ y.left = Asked(t)
    BY <1>4
  <2>2. at' = [at EXCEPT ![r] = y]
    BY <1>1, <1>4
  <2>3. Settling(y)'
    BY <1>3, <2>1 DEF Settling
  <2> QED BY <1>1, <2>2, <2>3, SettlingMoves
<1> QED BY <1>4

LEMMA PartiesKeep == DoorInv /\ LP!Inv /\ PartiesInv /\ [Next]_vars => PartiesInv'
<1> SUFFICES ASSUME DoorInv, LP!Inv, PartiesInv, [Next]_vars PROVE PartiesInv'
  OBVIOUS
<1>0. maxAge' = DefaultAge /\ UNCHANGED failClosed
  BY RecordedGrows DEF PartiesInv
<1> SUFFICES ASSUME failClosed PROVE PartiesCleared'
  BY <1>0 DEF PartiesInv, PartiesCleared
<1>1. CASE Tick \/ Refreshes \/ Unnamed \/ UNCHANGED vars
  <2>1. UNCHANGED at
    BY <1>1, UnnamedLeaves DEF Tick, Refreshes, vars, doorVars
  <2> QED BY <2>1, SettlingStill
<1>2. CASE Restart
  BY <1>2 DEF Restart, PartiesCleared, Idle
<1>3. CASE \E r \in Requests, door \in {"access", "relay", "verify"},
              t \in Tokens, p \in Proofs \cup {NoProof} : Arrive(r, door, t, p)
  BY <1>3, ArriveSettles
<1>4. CASE \E r \in Requests : AskList(r) \/ AskMemory(r) \/ ReadBinding(r)
  BY <1>4, AskListSettles, TurnSettles
<1> QED BY <1>1, <1>2, <1>3, <1>4 DEF Next, Unnamed

\* Fail closed, whatever the lists were that the questions about a token's
\* parties met, an accepted request names nobody whose revocation was older than
\* the maximum age and the service's lag at its reading.
THEOREM PartiesRefused == Spec => []RevokedPartyRefused
<1>1. Init => PartiesInv
  BY DEF Init, List!Init, PartiesInv, PartiesCleared, Idle
<1>2. DoorInv /\ PartiesInv => RevokedPartyRefused
  <2> SUFFICES ASSUME DoorInv, PartiesInv, failClosed, NEW r \in Requests, NEW e \in recorded,
                      at[r].pc = "accepted", clock < Until(at[r].token),
                      NEW p \in PartiesOf(at[r].token), List!Ends(e, Entry(at[r].token, p))
               PROVE  e.at >= at[r].now - DefaultAge - Lag
    BY DEF RevokedPartyRefused
  <2>1. at[r].left = <<>>
    BY DEF DoorInv, InOrder
  <2>2. p \notin Range(at[r].left)
    BY <2>1 DEF Range
  <2>3. Cleared(at[r], p)
    BY <2>2 DEF PartiesInv, PartiesCleared
  <2> QED BY <2>3 DEF Cleared
<1> QED BY DoorInit, DoorKeeps, ListInit, ListKeeps, PartiesKeep, <1>1, <1>2, PTL DEF Spec
===============================================================================
