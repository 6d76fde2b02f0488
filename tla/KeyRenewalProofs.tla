-------------------------- MODULE KeyRenewalProofs --------------------------
(***************************************************************************)
(* What KeyRenewal's run shows of one caller, one life and twenty seconds,  *)
(* for every number of callers, every life, wait and skew, and all time: a  *)
(* process never goes back to an older key, and never asks custody early.   *)
(*                                                                          *)
(* Both rest on every key living exactly the life asked for: of two keys    *)
(* the one that starts later then ends later and is due later.              *)
(***************************************************************************)
EXTENDS KeyRenewal, TLAPS

OneLife == \A k \in keys : k.na = k.nb + Life

\* The key that signed last is still held, or has run out.
LastSigner ==
    signed # None => /\ signed <= now
                     /\ (\E k \in keys : k.nb = signed) \/ signed + Life <= now

\* Keys that are held have a newest.
HasNewest == keys # {} => \E k \in keys : \A o \in keys : o.nb <= k.nb

\* The wait after a failure is over, or nextTry still stands for it; and it is
\* over whenever custody is being asked.
Waited ==
    /\ lastFail + Retry <= now \/ lastFail + Retry <= nextTry
    /\ renewMu # None => lastFail + Retry <= now

Inv == TypeOK /\ OneLife /\ LastSigner /\ HasNewest /\ Waited

-----------------------------------------------------------------------------
LEMMA Numbers == /\ Life \in Nat /\ Retry \in Nat \ {0} /\ Delay \in Nat /\ Skew \in Nat
                 /\ Lives \subseteq Nat
                 /\ Run \in Goroutines /\ None \notin Goroutines /\ None \notin Int
BY GoroutineAssumption, LifeAssumption, TimeAssumption DEF Goroutines

LEMMA Start == Init => Inv
<1> SUFFICES ASSUME Init PROVE Inv
  OBVIOUS
<1>1. \A p \in Goroutines : pc[p] = "asking" <=> renewMu = p
  BY Numbers DEF Init
<1>2. pc \in [Goroutines -> {"idle", "queued", "asking", "back", "asleep", "gone"}]
  BY DEF Init
<1>3. lastFail \in Int /\ lastFail + Retry = 0 /\ now = 0 /\ renewMu = None
  BY Numbers DEF Init
<1>4. TypeOK
  <2>1. keys \subseteq Keys /\ nextTry \in Int /\ renewMu \in Goroutines \cup {None}
    BY DEF Init
  <2>2. wake \in Int /\ started \in Int /\ failed \in Nat
    BY DEF Init
  <2>3. signed \in Int \cup {None}
    BY DEF Init
  <2>4. now \in Int
    BY DEF Init
  <2>5. cancelled \in BOOLEAN
    BY Zenon DEF Init
  <2> QED BY <1>1, <1>2, <1>3, <2>1, <2>2, <2>3, <2>4, <2>5 DEF TypeOK
<1>5. OneLife /\ LastSigner /\ HasNewest /\ Waited
  BY <1>3 DEF Init, OneLife, LastSigner, HasNewest, Waited
<1> QED BY <1>4, <1>5 DEF Inv

\* A step of one goroutine that leaves the keys, the waits and the mutex alone.
LEMMA Moving ==
    ASSUME Inv, NEW p \in Goroutines, pc[p] # "asking",
           NEW at \in {"idle", "queued", "back", "asleep", "gone"},
           pc' = [pc EXCEPT ![p] = at], wake' \in Int,
           UNCHANGED <<now, keys, nextTry, renewMu, cancelled, started, history, signed>>
    PROVE  Inv'
<1>1. TypeOK'
  BY DEF Inv, TypeOK, history
<1>2. OneLife' /\ LastSigner' /\ HasNewest' /\ Waited'
  BY DEF Inv, OneLife, LastSigner, HasNewest, Waited, history
<1> QED BY <1>1, <1>2 DEF Inv

LEMMA AskKeeps ==
    ASSUME Inv, NEW p \in Goroutines, Ask(p)
    PROVE  Inv'
<1>1. TypeOK'
  BY Numbers DEF Inv, TypeOK, Ask, timing, history
<1>2. Waited'
  BY Numbers DEF Inv, TypeOK, Waited, Ask, Due, timing, history
<1>3. OneLife' /\ LastSigner' /\ HasNewest'
  BY DEF Inv, OneLife, LastSigner, HasNewest, Ask, history
<1> QED BY <1>1, <1>2, <1>3 DEF Inv

LEMMA CertifiedKeeps ==
    ASSUME Inv, NEW p \in Goroutines, Certified(p)
    PROVE  Inv'
<1>1. PICK nb \in (started - Skew)..(now + Skew), life \in Lives :
         LET k == [nb |-> nb, na |-> nb + life]
         IN  LifeAsked(k) /\ keys' = { old \in keys : now < old.na } \cup {k}
  BY DEF Certified, Answers
<1> DEFINE k == [nb |-> nb, na |-> nb + life]
<1>2. now \in Int /\ started \in Int /\ nextTry \in Int /\ lastFail \in Int /\ keys \subseteq Keys
  BY DEF Inv, TypeOK
<1>3. nb \in Int /\ life \in Int
  BY <1>1, <1>2, Numbers
<1>4. k \in Keys /\ k.nb \in Int /\ k.na = k.nb + Life
  BY <1>1, <1>3, Numbers DEF Keys, LifeAsked
<1>5. keys' = { old \in keys : now < old.na } \cup {k}
  BY <1>1
<1> HIDE DEF k
<1>6. TypeOK'
  BY <1>2, <1>4, <1>5, Numbers DEF Inv, TypeOK, Certified, timing, Returned
<1>7. OneLife'
  BY <1>4, <1>5 DEF Inv, OneLife
<1>8. LastSigner'
  <2>0. now' = now /\ signed' = signed
    BY DEF Certified
  <2> SUFFICES ASSUME signed # None
               PROVE  signed <= now /\ ((\E c \in keys' : c.nb = signed) \/ signed + Life <= now)
    BY <2>0 DEF LastSigner
  <2>1. ASSUME ~(signed + Life <= now)
        PROVE  \E c \in keys' : c.nb = signed
    <3>1. PICK c \in keys : c.nb = signed
      BY <2>1 DEF Inv, LastSigner
    <3>2. c.na = signed + Life /\ signed \in Int
      BY <3>1 DEF Inv, TypeOK, OneLife
    <3>3. c \in keys'
      BY <1>2, <1>5, <2>1, <3>2, Numbers
    <3> QED BY <3>1, <3>3
  <2> QED BY <2>1 DEF Inv, LastSigner
<1>9. HasNewest'
  <2>1. CASE \A c \in keys : c.na <= now
    <3>1. keys' = {k}
      BY <1>2, <1>5, <2>1 DEF Keys
    <3> QED BY <1>4, <3>1 DEF HasNewest
  <2>2. CASE \E c \in keys : ~(c.na <= now)
    <3>1. PICK c \in keys : ~(c.na <= now)
      BY <2>2
    <3>2. PICK m \in keys : \A o \in keys : o.nb <= m.nb
      BY <3>1 DEF Inv, HasNewest
    <3>3. m.na = m.nb + Life /\ c.na = c.nb + Life /\ c.nb <= m.nb
      BY <3>2 DEF Inv, OneLife
    <3>4. m \in keys' /\ m.nb \in Int
      BY <1>2, <1>5, <3>1, <3>3, Numbers DEF Keys
    <3>5. \A o \in keys' : o.nb \in Int /\ (o.nb <= m.nb \/ o = k)
      BY <1>2, <1>4, <1>5, <3>2 DEF Keys
    <3>6. CASE k.nb <= m.nb
      BY <3>4, <3>5, <3>6 DEF HasNewest
    <3>7. CASE ~(k.nb <= m.nb)
      <4>1. \A o \in keys' : o.nb <= k.nb
        BY <1>4, <3>4, <3>5, <3>7
      <4> QED BY <1>5, <4>1 DEF HasNewest
    <3> QED BY <3>6, <3>7
  <2> QED BY <2>1, <2>2
<1>10. Waited'
  <2>1. renewMu = p /\ p # None
    BY Numbers DEF Inv, TypeOK, Certified
  <2> QED BY <2>1 DEF Inv, Waited, Certified
<1> QED BY <1>6, <1>7, <1>8, <1>9, <1>10 DEF Inv

LEMMA FailKeeps ==
    ASSUME Inv, NEW p \in Goroutines, Fail(p)
    PROVE  Inv'
<1>1. TypeOK'
  BY Numbers DEF Inv, TypeOK, Fail, timing, Returned
<1>2. Waited'
  BY Numbers DEF Inv, TypeOK, Waited, Fail
<1>3. OneLife' /\ LastSigner' /\ HasNewest'
  BY DEF Inv, OneLife, LastSigner, HasNewest, Fail
<1> QED BY <1>1, <1>2, <1>3 DEF Inv

LEMMA SignKeeps ==
    ASSUME Inv, Sign
    PROVE  Inv' /\ (signed # None => signed <= signed')
<1>1. PICK k \in keys : InUse(k) /\ signed' = k.nb
  BY DEF Sign
<1>2. now \in Int /\ k.nb \in Int /\ k.nb <= now /\ now < k.na
  BY <1>1 DEF Inv, TypeOK, Keys, InUse, Valid
<1>3. TypeOK'
  BY <1>1, <1>2 DEF Inv, TypeOK, Sign, timing, history
<1>4. LastSigner'
  BY <1>1, <1>2 DEF LastSigner, Sign
<1>5. OneLife' /\ HasNewest' /\ Waited'
  BY DEF Inv, OneLife, HasNewest, Waited, Sign, history
<1>6. ASSUME signed # None
      PROVE  signed <= k.nb
  <2>1. signed \in Int /\ signed <= now /\ k.na = k.nb + Life
    BY <1>6 DEF Inv, TypeOK, OneLife, LastSigner
  <2>2. CASE signed + Life <= now
    BY <1>2, <2>1, <2>2, Numbers
  <2>3. CASE \E c \in keys : c.nb = signed
    <3>1. PICK c \in keys : c.nb = signed
      BY <2>3
    <3>2. c.na = signed + Life
      BY <3>1 DEF Inv, OneLife
    <3>3. CASE Valid(c)
      BY <1>1, <3>1, <3>3 DEF InUse
    <3>4. CASE ~Valid(c)
      BY <1>2, <2>1, <3>1, <3>2, <3>4, Numbers DEF Valid
    <3> QED BY <3>3, <3>4
  <2> QED BY <1>6, <2>2, <2>3 DEF Inv, LastSigner
<1> QED BY <1>1, <1>3, <1>4, <1>5, <1>6 DEF Inv

LEMMA TickKeeps ==
    ASSUME Inv, Tick
    PROVE  Inv'
<1>1. TypeOK'
  BY DEF Inv, TypeOK, Tick, timing, history
<1>2. now \in Int /\ now' = now + 1 /\ signed \in Int \cup {None} /\ lastFail \in Int
  BY DEF Inv, TypeOK, Tick
<1>3. LastSigner'
  BY <1>2, Numbers DEF Inv, LastSigner, Tick
<1>4. OneLife' /\ HasNewest'
  BY DEF Inv, OneLife, HasNewest, Tick
<1>5. Waited'
  BY <1>2, Numbers DEF Inv, Waited, Tick, history
<1> QED BY <1>1, <1>3, <1>4, <1>5 DEF Inv

LEMMA RestartKeeps ==
    ASSUME Inv, Restart
    PROVE  Inv'
<1>1. \A p \in Goroutines : pc'[p] = "asking" <=> renewMu' = p
  BY Numbers DEF Restart
<1>2. pc' \in [Goroutines -> {"idle", "queued", "asking", "back", "asleep", "gone"}]
  BY DEF Restart
<1>3. lastFail' \in Int /\ lastFail' + Retry = 0 /\ nextTry' = 0 /\ renewMu' = None
  BY Numbers DEF Restart
<1>4. TypeOK'
  <2>1. keys' \subseteq Keys /\ nextTry' \in Int /\ renewMu' \in Goroutines \cup {None}
    BY DEF Restart
  <2>2. wake' \in Int /\ started' \in Int /\ failed' \in Nat
    BY DEF Restart
  <2>3. signed' \in Int \cup {None}
    BY DEF Restart
  <2>4. now' \in Int
    BY DEF Inv, TypeOK, Restart
  <2>5. cancelled' \in BOOLEAN
    BY Zenon DEF Restart
  <2> QED BY <1>1, <1>2, <1>3, <2>1, <2>2, <2>3, <2>4, <2>5 DEF TypeOK
<1>5. OneLife' /\ LastSigner' /\ HasNewest' /\ Waited'
  BY <1>3 DEF OneLife, LastSigner, HasNewest, Waited, Restart
<1> QED BY <1>4, <1>5 DEF Inv

\* Every step keeps Inv, and a step that signs does not go back.
LEMMA Step ==
    ASSUME Inv, [Next]_vars
    PROVE  Inv' /\ (signed # None /\ signed' # None => signed <= signed')
<1>1. ASSUME signed' = signed, signed # None
      PROVE  signed <= signed'
  BY <1>1 DEF Inv, TypeOK
<1>2. ASSUME NEW p \in Goroutines, Call(p) \/ NotDue(p)
      PROVE  Inv' /\ signed' = signed
  BY <1>2, Moving DEF Inv, TypeOK, Call, NotDue, Returned, timing
<1>3. ASSUME NEW p \in Goroutines, Ask(p) \/ Certified(p) \/ Fail(p)
      PROVE  Inv' /\ signed' = signed
  BY <1>3, AskKeeps, CertifiedKeeps, FailKeeps DEF Ask, Certified, Fail
<1>4. CASE Sleep \/ Wake \/ Leave
  <2>1. Run \in Goroutines /\ pc[Run] # "asking"
    BY <1>4, Numbers DEF Sleep, Wake, Leave
  <2>2. wake' \in Int
    <3>1. now \in Int /\ wake \in Int
      BY DEF Inv, TypeOK
    <3>2. CASE Sleep
      <4>1. NextDue \in Int
        <5>1. ASSUME keys # {}
              PROVE  Newest \in keys
          BY <5>1 DEF Inv, HasNewest, Newest
        <5>2. \A k \in keys : Half(k) \in Int
          BY DEF Inv, TypeOK, Keys, Half
        <5> QED BY <3>1, <5>1, <5>2 DEF Inv, TypeOK, NextDue
      <4> QED BY <3>1, <3>2, <4>1 DEF Sleep
    <3> QED BY <1>4, <3>1, <3>2 DEF Wake, Leave, timing
  <2>3. Inv' /\ signed' = signed
    BY <1>4, <2>1, <2>2, Moving DEF Sleep, Wake, Leave, timing
  <2> QED BY <1>1, <2>3
<1>5. CASE Cancel
  <2>1. TypeOK' /\ signed' = signed
    BY <1>5 DEF Inv, TypeOK, Cancel, history
  <2>2. OneLife' /\ LastSigner' /\ HasNewest' /\ Waited'
    BY <1>5 DEF Inv, OneLife, LastSigner, HasNewest, Waited, Cancel, history
  <2> QED BY <1>1, <2>1, <2>2 DEF Inv
<1>6. CASE Sign
  BY <1>6, SignKeeps
<1>7. CASE Restart
  BY <1>7, RestartKeeps DEF Restart
<1>8. CASE Tick
  BY <1>1, <1>8, TickKeeps DEF Tick
<1>9. CASE UNCHANGED vars
  <2>1. TypeOK' /\ signed' = signed
    BY <1>9 DEF Inv, TypeOK, vars
  <2>2. OneLife' /\ LastSigner' /\ HasNewest' /\ Waited'
    BY <1>9 DEF Inv, OneLife, LastSigner, HasNewest, Waited, vars
  <2> QED BY <1>1, <2>1, <2>2 DEF Inv
<1> QED BY <1>1, <1>2, <1>3, <1>4, <1>5, <1>6, <1>7, <1>8, <1>9 DEF Next

LEMMA Invariance == Spec => []Inv
<1>1. Inv /\ [Next]_vars => Inv'
  BY Step
<1> QED BY <1>1, Start, PTL DEF Spec

\* Types, and renewMu held by exactly the goroutine that is asking.
THEOREM Typing == Spec => []TypeOK
<1>1. Inv => TypeOK
  BY DEF Inv
<1> QED BY <1>1, Invariance, PTL

\* No signature of a process is made with an older key than the one before it.
THEOREM SignsForward == Spec => NeverOlder
<1>1. Inv /\ [Next]_vars => [signed # None /\ signed' # None => signed <= signed']_vars
  BY Step
<1> QED BY <1>1, Invariance, PTL DEF Spec, NeverOlder

-----------------------------------------------------------------------------
\* Of keys of one life, the one that starts last is due last and ends last.
LEMMA Latest ==
    ASSUME NEW K \in SUBSET Keys, \A k \in K : k.na = k.nb + Life,
           NEW n \in K, \A o \in K : o.nb <= n.nb
    PROVE  /\ Half(n) \in Int
           /\ Half(n) + Life \div 2 = n.na
           /\ \A k \in K : Half(k) <= Half(n) /\ Half(k) = k.nb + Life \div 2
<1>1. \A o \in K : o.nb \in Int /\ o.na \in Int
  BY DEF Keys
<1>2. Life \in Int /\ Life \div 2 \in Int /\ Life \div 2 + Life \div 2 = Life
  BY LifeAssumption
<1>3. \A o \in K : o.na - o.nb = Life
  BY <1>1, <1>2
<1>4. \A o \in K : Half(o) = o.nb + Life \div 2
  BY <1>3 DEF Half
<1> QED BY <1>1, <1>2, <1>4

LEMMA NewestTyped ==
    ASSUME Inv, keys # {}
    PROVE  /\ Newest \in keys
           /\ Half(Newest) \in Int
           /\ Half(Newest) + Life \div 2 = Newest.na
           /\ \A k \in keys : Half(k) <= Half(Newest)
<1>1. Newest \in keys /\ \A k \in keys : k.nb <= Newest.nb
  BY DEF Inv, HasNewest, Newest
<1>2. keys \in SUBSET Keys /\ \A k \in keys : k.na = k.nb + Life
  BY DEF Inv, TypeOK, OneLife
<1> HIDE DEF Newest
<1> QED BY <1>1, <1>2, Latest

\* However many goroutines ask for a renewal and however they interleave,
\* custody is asked by one at a time, and only when it is time.
THEOREM NeverAskedEarly == Spec => Spaced
<1> DEFINE Alone(p) == pc[p] # "asking" /\ pc'[p] = "asking" =>
                         /\ \A q \in Goroutines : pc[q] # "asking"
                         /\ lastFail + Retry <= now
                         /\ \A k \in keys : Half(k) <= now
<1>1. ASSUME Inv, Next, NEW p \in Goroutines, pc[p] # "asking", pc'[p] = "asking"
      PROVE  Ask(p)
  <2>1. pc \in [Goroutines -> {"idle", "queued", "asking", "back", "asleep", "gone"}]
    BY <1>1 DEF Inv, TypeOK
  <2>2. ASSUME NEW q \in Goroutines, Call(q) \/ NotDue(q) \/ Certified(q) \/ Fail(q)
        PROVE  FALSE
    BY <1>1, <2>1, <2>2 DEF Call, NotDue, Certified, Fail, Returned
  <2>3. ASSUME NEW q \in Goroutines, Ask(q)
        PROVE  q = p
    BY <1>1, <2>1, <2>3 DEF Ask
  <2>4. ~(Sleep \/ Wake \/ Leave \/ Cancel \/ Sign \/ Restart \/ Tick)
    BY <1>1, <2>1 DEF Sleep, Wake, Leave, Cancel, Sign, Restart, Tick
  <2> QED BY <1>1, <2>2, <2>3, <2>4 DEF Next
<1>2. ASSUME Inv, Next, NEW p \in Goroutines
      PROVE  Alone(p)
  <2> SUFFICES ASSUME pc[p] # "asking", pc'[p] = "asking"
               PROVE  /\ \A q \in Goroutines : pc[q] # "asking"
                      /\ lastFail + Retry <= now
                      /\ \A k \in keys : Half(k) <= now
    OBVIOUS
  <2>1. Ask(p)
    BY <1>1, <1>2
  <2>2. \A q \in Goroutines : pc[q] # "asking"
    BY <1>2, <2>1, Numbers DEF Inv, TypeOK, Ask
  <2>3. lastFail + Retry <= now
    BY <1>2, <2>1, Numbers DEF Inv, TypeOK, Waited, Ask, Due
  <2>4. ASSUME NEW k \in keys
        PROVE  Half(k) <= now
    <3>1. Half(Newest) \in Int /\ Half(k) <= Half(Newest) /\ Half(k) \in Int
      BY <1>2, NewestTyped DEF Inv, TypeOK, Keys, Half
    <3>2. Half(Newest) <= now /\ now \in Int
      BY <1>2, <2>1 DEF Inv, TypeOK, Ask, Due
    <3> QED BY <3>1, <3>2
  <2> QED BY <2>2, <2>3, <2>4
<1>3. Inv /\ [Next]_vars => [\A p \in Goroutines : Alone(p)]_vars
  BY <1>2
<1> QED BY <1>3, Invariance, PTL DEF Spec, Spaced

-----------------------------------------------------------------------------
\* What the failures since the newest key was certified may have taken.
Taken == failed * (Delay + Retry)

\* Run, unless its ctx is done, never sleeps past the moment the next renewal
\* is due, and never finds one due between RenewIfDue and its timer.
RunWakes ==
    /\ pc[Run] # "idle" /\ (pc[Run] = "gone" => cancelled)
    /\ pc[Run] = "back" => renewMu = None /\ ~Due
    /\ pc[Run] = "asleep" =>
         /\ now <= wake
         /\ renewMu # None => wake <= started
         /\ wake <= nextTry \/ (keys # {} /\ wake <= Half(Newest))

\* A renewal under way lasts no longer than its requests.
Underway == renewMu # None => started <= now /\ now <= started + Delay

\* The attempt that is due or under way comes no later than the failed ones
\* can have put it off.
InTime ==
    ~cancelled /\ keys # {} =>
        /\ nextTry <= Half(Newest) + Taken
        /\ IF renewMu = None THEN now <= Half(Newest) + Taken
                             ELSE started <= Half(Newest) + Taken

Timely == Inv /\ 0 <= now /\ RunWakes /\ Underway /\ InTime

LEMMA TakenTyped ==
    ASSUME Inv
    PROVE  Taken \in Int /\ 0 <= Taken
<1>1. failed \in Nat /\ Delay + Retry \in Nat
  BY Numbers DEF Inv, TypeOK
<1>2. \A m, n \in Nat : m * n \in Nat
  OBVIOUS
<1> QED BY <1>1, <1>2 DEF Taken

\* What none of the three parts mentions may change.
LEMMA SameHalf ==
    ASSUME keys' = keys
    PROVE  Newest' = Newest /\ Half(Newest)' = Half(Newest)
BY DEF Newest, Half

LEMMA TimelyStart == Init => Timely
<1> SUFFICES ASSUME Init PROVE Timely
  OBVIOUS
<1>1. now = 0 /\ renewMu = None /\ keys = {} /\ pc[Run] = "queued"
  BY Numbers DEF Init
<1> QED BY <1>1, Start DEF Timely, RunWakes, Underway, InTime

\* A step that moves neither Run nor anything the timing speaks of.
LEMMA Elsewhere ==
    ASSUME Timely, pc'[Run] = pc[Run],
           UNCHANGED <<now, keys, nextTry, renewMu, wake, cancelled, started, failed>>
    PROVE  0 <= now' /\ RunWakes' /\ Underway' /\ InTime'
<1>1. Newest' = Newest /\ Half(Newest)' = Half(Newest)
  BY SameHalf
<1> QED BY <1>1 DEF Timely, RunWakes, Underway, InTime, Taken, Due, Half, Newest

LEMMA NotDueInTime ==
    ASSUME Timely, NEW p \in Goroutines, NotDue(p)
    PROVE  0 <= now' /\ RunWakes' /\ Underway' /\ InTime'
<1>1. pc' = [pc EXCEPT ![p] = Returned(p)] /\ pc = [g \in Goroutines |-> pc[g]] /\ Run \in Goroutines
  BY Numbers DEF Timely, Inv, TypeOK, NotDue
<1>2. UNCHANGED <<now, keys, nextTry, renewMu, wake, cancelled, started, failed>>
  BY DEF NotDue, timing, history
<1>3. CASE p = Run
  <2>1. pc'[Run] = "back" /\ renewMu = None /\ ~Due
    BY <1>1, <1>3 DEF NotDue, Returned
  <2>2. ~Due' /\ Half(Newest)' = Half(Newest)
    BY <1>2, <2>1, SameHalf DEF Due, Half, Newest
  <2> QED BY <1>2, <2>1, <2>2 DEF Timely, RunWakes, Underway, InTime, Taken
<1>4. CASE p # Run
  BY <1>1, <1>2, <1>4, Elsewhere
<1> QED BY <1>3, <1>4

LEMMA AskInTime ==
    ASSUME Timely, NEW p \in Goroutines, Ask(p)
    PROVE  0 <= now' /\ RunWakes' /\ Underway' /\ InTime'
<1>1. /\ pc' = [pc EXCEPT ![p] = "asking"] /\ pc = [g \in Goroutines |-> pc[g]] /\ Run \in Goroutines
      /\ UNCHANGED <<now, keys, nextTry, wake, cancelled, failed>>
      /\ started' = now /\ renewMu = None /\ renewMu' = p /\ Due /\ p # None
  BY Numbers DEF Timely, Inv, TypeOK, Ask, timing, history
<1>2. /\ now \in Int /\ nextTry \in Int /\ wake \in Int /\ Delay \in Nat
      /\ Half(Newest)' = Half(Newest) /\ (keys # {} => Half(Newest) \in Int)
  BY <1>1, Numbers, SameHalf, NewestTyped DEF Timely, Inv, TypeOK
<1>3. RunWakes'
  <2>1. pc'[Run] = IF p = Run THEN "asking" ELSE pc[Run]
    BY <1>1
  <2>2. pc[Run] # "back"
    BY <1>1 DEF Timely, RunWakes
  <2>3. ASSUME pc[Run] = "asleep"
        PROVE  wake <= now
    BY <1>1, <1>2, <2>3 DEF Timely, RunWakes, Due
  <2> QED BY <1>1, <1>2, <2>1, <2>2, <2>3 DEF Timely, RunWakes
<1>4. 0 <= now' /\ Underway'
  BY <1>1, <1>2 DEF Timely, Underway
<1>5. InTime'
  BY <1>1, <1>2 DEF Timely, InTime, Taken
<1> QED BY <1>3, <1>4, <1>5

LEMMA CertifiedInTime ==
    ASSUME Timely, NEW p \in Goroutines, Certified(p)
    PROVE  0 <= now' /\ RunWakes' /\ Underway' /\ InTime'
<1>1. /\ pc' = [pc EXCEPT ![p] = Returned(p)] /\ pc = [g \in Goroutines |-> pc[g]] /\ Run \in Goroutines
      /\ UNCHANGED <<now, wake, cancelled, started>>
      /\ renewMu = p /\ p # None /\ renewMu' = None /\ nextTry' = 0 /\ failed' = 0
  BY Numbers DEF Timely, Inv, TypeOK, Certified, timing
<1>2. /\ now \in Int /\ started \in Int /\ wake \in Int /\ 0 <= now
      /\ started <= now /\ now <= started + Delay
  BY <1>1 DEF Timely, Inv, TypeOK, Underway
<1>3. PICK nb \in (started - Skew)..(now + Skew), life \in Lives :
        [nb |-> nb, na |-> nb + life] \in keys'
  BY DEF Certified, Answers
<1> DEFINE k == [nb |-> nb, na |-> nb + life]
<1>4. Inv'
  BY CertifiedKeeps DEF Timely
<1>5. k \in keys' /\ k.nb = nb /\ nb \in Int /\ started - Skew <= nb
  BY <1>2, <1>3, Numbers
<1> HIDE DEF k
<1>6. PICK n : n = Newest' /\ n \in keys' /\ \A o \in keys' : o.nb <= n.nb
  BY <1>4, <1>5 DEF Inv, HasNewest, Newest
<1>7. keys' \in SUBSET Keys /\ \A o \in keys' : o.na = o.nb + Life
  BY <1>4 DEF Inv, TypeOK, OneLife
<1>8. Half(n) \in Int /\ Half(k) <= Half(n) /\ Half(k) = nb + Life \div 2
  BY <1>5, <1>6, <1>7, Latest
<1>9. now < Half(n)
  <2>1. /\ Life \in Nat /\ Life \div 2 \in Int /\ Life \div 2 + Life \div 2 = Life
        /\ Delay \in Nat /\ Skew \in Nat /\ 2 * (Delay + Skew) < Life
    BY LifeAssumption, TimeAssumption
  <2>2. Delay + Skew < Life \div 2
    BY <2>1
  <2> QED BY <1>2, <1>5, <1>8, <2>1, <2>2
<1>10. Half(Newest)' = Half(n) /\ keys' # {}
  BY <1>5, <1>6 DEF Half
<1>11. RunWakes'
  <2>1. pc'[Run] = IF p = Run THEN "back" ELSE pc[Run]
    BY <1>1 DEF Returned
  <2>2. ~Due'
    BY <1>1, <1>2, <1>8, <1>9, <1>10 DEF Due
  <2>3. ASSUME pc'[Run] = "asleep"
        PROVE  now <= wake /\ wake <= Half(n)
    BY <1>1, <1>2, <1>8, <1>9, <2>1, <2>3 DEF Timely, RunWakes
  <2> QED BY <1>1, <1>10, <2>1, <2>2, <2>3 DEF Timely, RunWakes
<1>12. InTime'
  <2>1. Taken' = 0
    BY <1>1, Numbers DEF Taken
  <2> QED BY <1>1, <1>2, <1>8, <1>9, <1>10, <2>1 DEF InTime
<1> QED BY <1>1, <1>2, <1>11, <1>12 DEF Underway

LEMMA FailInTime ==
    ASSUME Timely, NEW p \in Goroutines, Fail(p)
    PROVE  0 <= now' /\ RunWakes' /\ Underway' /\ InTime'
<1>1. /\ pc' = [pc EXCEPT ![p] = Returned(p)] /\ pc = [g \in Goroutines |-> pc[g]] /\ Run \in Goroutines
      /\ UNCHANGED <<now, keys, wake, cancelled, started>>
      /\ renewMu = p /\ p # None /\ renewMu' = None /\ nextTry' = now + Retry
      /\ failed' = failed + 1
  BY Numbers DEF Timely, Inv, TypeOK, Fail, timing
<1>2. /\ now \in Int /\ started \in Int /\ wake \in Int /\ 0 <= now /\ failed \in Nat
      /\ started <= now /\ now <= started + Delay /\ Delay \in Nat /\ Retry \in Nat \ {0}
  BY <1>1, Numbers DEF Timely, Inv, TypeOK, Underway
<1>3. RunWakes'
  <2>1. pc'[Run] = IF p = Run THEN "back" ELSE pc[Run]
    BY <1>1 DEF Returned
  <2>2. ~Due'
    BY <1>1, <1>2 DEF Due
  <2>3. ASSUME pc'[Run] = "asleep"
        PROVE  now <= wake /\ wake <= nextTry'
    BY <1>1, <1>2, <2>1, <2>3 DEF Timely, RunWakes
  <2> QED BY <1>1, <2>1, <2>2, <2>3 DEF Timely, RunWakes
<1>4. InTime'
  <2> SUFFICES ASSUME ~cancelled, keys # {}
               PROVE  /\ nextTry' <= Half(Newest) + Taken'
                      /\ now <= Half(Newest) + Taken'
    BY <1>1, SameHalf DEF InTime
  <2>1. Taken' = Taken + Delay + Retry
    <3>1. \A m, n \in Nat : (m + 1) * n = m * n + n
      OBVIOUS
    <3> QED BY <1>1, <1>2, <3>1 DEF Taken
  <2>2. Half(Newest) \in Int /\ Taken \in Int /\ started <= Half(Newest) + Taken
    BY <1>1, NewestTyped, TakenTyped DEF Timely, InTime
  <2> QED BY <1>1, <1>2, <2>1, <2>2
<1> QED BY <1>1, <1>2, <1>3, <1>4 DEF Underway

LEMMA RunInTime ==
    ASSUME Timely, Sleep \/ Wake \/ Leave \/ Cancel
    PROVE  0 <= now' /\ RunWakes' /\ Underway' /\ InTime'
<1>1. /\ pc = [g \in Goroutines |-> pc[g]] /\ Run \in Goroutines
      /\ UNCHANGED <<now, keys, nextTry, renewMu, started, failed>>
      /\ cancelled' = cancelled \/ cancelled' = TRUE
  BY Numbers DEF Timely, Inv, TypeOK, Sleep, Wake, Leave, Cancel, timing, history
<1>2. Half(Newest)' = Half(Newest) /\ (Due' <=> Due)
  BY <1>1, SameHalf DEF Due, Half, Newest
<1>3. 0 <= now' /\ Underway' /\ InTime'
  BY <1>1, <1>2 DEF Timely, Underway, InTime, Taken
<1>4. RunWakes'
  <2>1. CASE Sleep
    <3>1. pc[Run] = "back" /\ pc'[Run] = "asleep" /\ renewMu = None /\ ~Due
      BY <1>1, <2>1 DEF Sleep, Timely, RunWakes
    <3>2. now \in Int /\ nextTry \in Int /\ (keys # {} => Half(Newest) \in Int)
      BY NewestTyped DEF Timely, Inv, TypeOK
    <3>3. NextDue > now /\ (NextDue <= nextTry \/ (keys # {} /\ NextDue <= Half(Newest)))
      BY <3>1, <3>2 DEF Due, NextDue
    <3>4. wake' = NextDue /\ NextDue \in Int
      BY <2>1, <3>2, <3>3 DEF Sleep, NextDue
    <3> QED BY <1>1, <1>2, <3>1, <3>2, <3>3, <3>4 DEF RunWakes
  <2>2. CASE Wake
    BY <1>1, <2>2 DEF Wake, RunWakes
  <2>3. CASE Leave
    BY <1>1, <2>3 DEF Leave, timing, RunWakes
  <2>4. CASE Cancel
    BY <1>1, <1>2, <2>4 DEF Cancel, Timely, RunWakes
  <2> QED BY <2>1, <2>2, <2>3, <2>4
<1> QED BY <1>3, <1>4

LEMMA RestartInTime ==
    ASSUME Timely, Restart
    PROVE  0 <= now' /\ RunWakes' /\ Underway' /\ InTime'
<1>1. pc'[Run] = "queued" /\ keys' = {} /\ renewMu' = None /\ now' = now
  BY Numbers DEF Restart
<1> QED BY <1>1 DEF Timely, RunWakes, Underway, InTime

LEMMA TickInTime ==
    ASSUME Timely, Tick
    PROVE  0 <= now' /\ RunWakes' /\ Underway' /\ InTime'
<1>1. /\ now' = now + 1 /\ ~RunCanStep /\ (renewMu # None => now < started + Delay)
      /\ UNCHANGED <<keys, nextTry, renewMu, pc, wake, cancelled, started, failed>>
      /\ Half(Newest)' = Half(Newest)
  BY SameHalf DEF Tick, timing, history
<1>2. /\ now \in Int /\ started \in Int /\ wake \in Int /\ nextTry \in Int /\ 0 <= now
      /\ Delay \in Nat /\ Taken \in Int /\ 0 <= Taken
  BY Numbers, TakenTyped DEF Timely, Inv, TypeOK
<1>3. pc[Run] = "asleep" => now < wake
  BY <1>1, <1>2 DEF RunCanStep
<1>4. RunWakes'
  BY <1>1, <1>2, <1>3 DEF Timely, RunWakes, RunCanStep
<1>5. 0 <= now' /\ Underway'
  BY <1>1, <1>2 DEF Timely, Underway
<1>6. InTime'
  <2> SUFFICES ASSUME ~cancelled, keys # {}, renewMu = None
               PROVE  now + 1 <= Half(Newest) + Taken
    BY <1>1 DEF Timely, InTime, Taken
  <2>1. pc[Run] = "asleep"
    BY <1>1, Numbers DEF Timely, Inv, TypeOK, RunWakes, RunCanStep
  <2>2. Half(Newest) \in Int /\ nextTry <= Half(Newest) + Taken
    BY NewestTyped DEF Timely, InTime
  <2>3. wake <= nextTry \/ wake <= Half(Newest)
    BY <2>1 DEF Timely, RunWakes
  <2> QED BY <1>2, <1>3, <2>1, <2>2, <2>3
<1> QED BY <1>4, <1>5, <1>6

LEMMA TimelyStep ==
    ASSUME Timely, [Next]_vars
    PROVE  Timely'
<1>1. Inv'
  BY Step DEF Timely
<1>2. ASSUME NEW p \in Goroutines, Call(p)
      PROVE  0 <= now' /\ RunWakes' /\ Underway' /\ InTime'
  <2>1. p # Run /\ pc' = [pc EXCEPT ![p] = "queued"] /\ pc = [g \in Goroutines |-> pc[g]] /\ Run \in Goroutines
    BY <1>2, Numbers DEF Timely, Inv, TypeOK, RunWakes, Call
  <2>2. pc'[Run] = pc[Run]
    BY <2>1
  <2> QED BY <1>2, <2>2, Elsewhere DEF Call, timing, history
<1>3. ASSUME NEW p \in Goroutines, NotDue(p) \/ Ask(p) \/ Certified(p) \/ Fail(p)
      PROVE  0 <= now' /\ RunWakes' /\ Underway' /\ InTime'
  BY <1>3, NotDueInTime, AskInTime, CertifiedInTime, FailInTime
<1>4. CASE Sleep \/ Wake \/ Leave \/ Cancel
  BY <1>1, <1>4, RunInTime DEF Timely
<1>5. CASE Restart
  BY <1>1, <1>5, RestartInTime DEF Timely
<1>6. CASE Tick
  BY <1>1, <1>6, TickInTime DEF Timely
<1>7. CASE Sign
  BY <1>1, <1>7, Elsewhere DEF Timely, Sign, timing, history
<1>8. CASE UNCHANGED vars
  BY <1>1, <1>8, Elsewhere DEF Timely, vars
<1> QED BY <1>1, <1>2, <1>3, <1>4, <1>5, <1>6, <1>7, <1>8 DEF Next, Timely

\* While Run runs, custody may be away for half a life, less the waits, before
\* a process is left without a valid key: for every life, wait and request
\* timeout, every skew custody's clock may have within them, and any callers.
THEOREM HalfALifeToRecover == Spec => []GapNeedsFailures
<1>1. Timely /\ [Next]_vars => Timely'
  BY TimelyStep
<1>2. Timely => GapNeedsFailures
  <2> SUFFICES ASSUME Timely, ~cancelled, keys # {}, \A k \in keys : k.na <= now
               PROVE  Life \div 2 <= failed * (Delay + Retry) + Delay
    BY DEF GapNeedsFailures
  <2>1. /\ Half(Newest) \in Int /\ Half(Newest) + Life \div 2 <= now
        /\ Taken \in Int /\ 0 <= Taken
    BY NewestTyped, TakenTyped DEF Timely
  <2>2. now \in Int /\ started \in Int /\ Delay \in Nat /\ Life \div 2 \in Int
    BY Numbers DEF Timely, Inv, TypeOK
  <2>3. now <= Half(Newest) + Taken + Delay
    BY <2>1, <2>2 DEF Timely, InTime, Underway
  <2>4. Life \div 2 <= Taken + Delay
    BY <2>1, <2>2, <2>3
  <2> QED BY <2>4 DEF Taken
<1> QED BY <1>1, <1>2, TimelyStart, PTL DEF Spec
=============================================================================
