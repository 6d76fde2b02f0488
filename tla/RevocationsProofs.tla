--------------------------- MODULE RevocationsProofs ---------------------------
(***************************************************************************)
(* A revoked token stops working within the maximum age of the list, for    *)
(* any tokens, any number of overlapping polls, any failures, any lag of    *)
(* the service and any change of the maximum age.                           *)
(*                                                                          *)
(* A list fetched by a poll that read the clock at second n has every live  *)
(* entry recorded before n - Lag.  That holds of an answer in flight and of *)
(* the list held, whichever of the polls brought it.  And a list that       *)
(* describes second s has every live entry recorded before s, which is why  *)
(* an answer with no older cursor loses no such entry.                      *)
(***************************************************************************)
EXTENDS Revocations, TLAPS

\* At second now, the snapshot lacks nothing of rec from before second n,
\* except what cannot cover a live token any more.
Complete(rec, now, snap, n) ==
    \A r \in rec :
        r.at < n => \/ r.entry \in snap.revocations
                    \/ r.entry.expires # 0 /\ r.entry.expires <= now

PollsComplete ==
    \A p \in Polls :
        /\ polls[p].pc # "idle" => polls[p].now <= clock
        /\ polls[p].pc = "answered" =>
              /\ Complete(recorded, clock, polls[p].snap, polls[p].now - Lag)
              /\ polls[p].snap.as_of <= clock
              /\ Complete(recorded, clock, polls[p].snap, polls[p].snap.as_of)

HeldComplete ==
    held # None => /\ fetchedAt <= clock
                   /\ Complete(recorded, clock, held, fetchedAt - Lag)
                   /\ held.as_of <= clock
                   /\ Complete(recorded, clock, held, held.as_of)

\* An entry covers the tokens it was recorded to end, and outlives whatever it
\* covers.
EntriesLast ==
    \A r \in recorded, t \in Tokens :
        /\ Ends(r, t) => Covers(r.entry, t)
        /\ Covers(r.entry, t) => r.entry.expires = 0 \/ t.exp <= r.entry.expires

Inv == TypeOK /\ PollsComplete /\ HeldComplete /\ EntriesLast

-----------------------------------------------------------------------------
LEMMA PollTyped ==
    ASSUME TypeOK, NEW p \in Polls
    PROVE  /\ polls[p].pc \in {"idle", "sent", "answered"}
           /\ polls[p].pc # "idle" => polls[p].now \in Int
           /\ polls[p].pc = "answered" => polls[p].snap \in Snapshot
BY DEF TypeOK, Poll, Idle

\* What an instance serves is a snapshot, complete but for what it is behind.
LEMMA ServedComplete ==
    ASSUME TypeOK, NEW lag \in 0..Lag, NEW n \in Int, n <= clock
    PROVE  /\ Served(lag) \in Snapshot
           /\ Complete(recorded, clock, Served(lag), n - Lag)
           /\ Served(lag).as_of <= clock
           /\ Complete(recorded, clock, Served(lag), Served(lag).as_of)
<1>1. clock \in Int /\ Lag \in Int /\ lag \in Int /\ lag <= Lag
  BY RevocationAssumption DEF TypeOK
<1>2. Served(lag) \in Snapshot
  BY <1>1 DEF Served, Snapshot, TypeOK
<1>3. ASSUME NEW r \in recorded, r.at < n - Lag \/ r.at < clock - lag
      PROVE  \/ r.entry \in Served(lag).revocations
             \/ r.entry.expires # 0 /\ r.entry.expires <= clock
  <2>1. r.at \in Int /\ r.entry.expires \in Int
    BY DEF TypeOK, Entry
  <2>2. r.at <= clock - lag
    BY <1>1, <1>3, <2>1
  <2>3. CASE LiveAt(r.entry, clock - lag)
    BY <2>2, <2>3 DEF Served
  <2>4. CASE ~LiveAt(r.entry, clock - lag)
    BY <1>1, <2>1, <2>4 DEF LiveAt
  <2> QED BY <2>3, <2>4
<1>4. Served(lag).as_of = clock - lag /\ clock - lag <= clock
  BY <1>1 DEF Served
<1> QED BY <1>2, <1>3, <1>4 DEF Complete

\* Completeness survives time and new entries, which are never older than n.
LEMMA StaysComplete ==
    ASSUME TypeOK, NEW snap, NEW n \in Int, n <= clock,
           Complete(recorded, clock, snap, n),
           NEW rec, \A r \in rec : r \in recorded \/ r.at = clock,
           NEW now \in Int, clock <= now
    PROVE  Complete(rec, now, snap, n)
<1> SUFFICES ASSUME NEW r \in rec, r.at < n
             PROVE  \/ r.entry \in snap.revocations
                    \/ r.entry.expires # 0 /\ r.entry.expires <= now
  BY DEF Complete
<1>1. clock \in Int
  BY DEF TypeOK
<1>2. r \in recorded
  BY <1>1
<1>3. r.at \in Int /\ r.entry.expires \in Int
  BY <1>2 DEF TypeOK, Entry
<1> QED BY <1>1, <1>2, <1>3 DEF Complete

\* So a step that only moves the clock or adds entries keeps both invariants.
LEMMA StillComplete ==
    ASSUME Inv, clock' \in Int, clock <= clock',
           \A r \in recorded' : r \in recorded \/ r.at = clock,
           UNCHANGED <<polls, held, fetchedAt>>
    PROVE  PollsComplete' /\ HeldComplete'
<1>1. clock \in Int /\ Lag \in Nat /\ fetchedAt \in Int
  BY RevocationAssumption DEF Inv, TypeOK
<1>2. ASSUME NEW p \in Polls
      PROVE  /\ polls[p].pc # "idle" => polls[p].now <= clock'
             /\ polls[p].pc = "answered" =>
                   /\ Complete(recorded', clock', polls[p].snap, polls[p].now - Lag)
                   /\ polls[p].snap.as_of <= clock'
                   /\ Complete(recorded', clock', polls[p].snap, polls[p].snap.as_of)
  <2>1. polls[p].pc # "idle" => polls[p].now \in Int /\ polls[p].now <= clock
    BY PollTyped DEF Inv, PollsComplete
  <2>2. polls[p].pc = "answered" =>
           Complete(recorded, clock, polls[p].snap, polls[p].now - Lag)
    BY DEF Inv, PollsComplete
  <2>3. polls[p].pc = "answered" => polls[p].now - Lag \in Int /\ polls[p].now - Lag <= clock
    BY <1>1, <2>1
  <2>4. TypeOK
    BY DEF Inv
  <2>5. ASSUME polls[p].pc = "answered"
        PROVE  Complete(recorded', clock', polls[p].snap, polls[p].now - Lag)
    BY <2>2, <2>3, <2>4, <2>5, StaysComplete
  <2>6. ASSUME polls[p].pc = "answered"
        PROVE  /\ polls[p].snap.as_of <= clock'
               /\ Complete(recorded', clock', polls[p].snap, polls[p].snap.as_of)
    <3>1. /\ polls[p].snap.as_of \in Int /\ polls[p].snap.as_of <= clock
          /\ Complete(recorded, clock, polls[p].snap, polls[p].snap.as_of)
      BY <2>4, <2>6, PollTyped DEF Inv, PollsComplete, Snapshot
    <3> QED BY <1>1, <2>4, <3>1, StaysComplete
  <2> QED BY <1>1, <2>1, <2>5, <2>6
<1>3. ASSUME held # None
      PROVE  /\ fetchedAt <= clock' /\ Complete(recorded', clock', held, fetchedAt - Lag)
             /\ held.as_of <= clock' /\ Complete(recorded', clock', held, held.as_of)
  <2>1. fetchedAt <= clock /\ Complete(recorded, clock, held, fetchedAt - Lag)
    BY <1>3 DEF Inv, HeldComplete
  <2>2. fetchedAt - Lag \in Int /\ fetchedAt - Lag <= clock
    BY <1>1, <2>1
  <2>3. TypeOK
    BY DEF Inv
  <2>4. Complete(recorded', clock', held, fetchedAt - Lag)
    BY <2>1, <2>2, <2>3, StaysComplete
  <2>5. /\ held.as_of \in Int /\ held.as_of <= clock
        /\ Complete(recorded, clock, held, held.as_of)
    BY <1>3, <2>3 DEF Inv, TypeOK, HeldComplete, Snapshot
  <2>6. Complete(recorded', clock', held, held.as_of)
    BY <2>3, <2>5, StaysComplete
  <2> QED BY <1>1, <2>1, <2>4, <2>5, <2>6
<1> QED BY <1>2, <1>3 DEF PollsComplete, HeldComplete

-----------------------------------------------------------------------------
LEMMA InitInv == Init => Inv
<1> SUFFICES ASSUME Init PROVE Inv
  OBVIOUS
<1>1. TypeOK
  BY RevocationAssumption DEF Init, TypeOK, Poll
<1>2. PollsComplete
  BY DEF Init, PollsComplete, Idle
<1>3. HeldComplete /\ EntriesLast
  BY DEF Init, HeldComplete, EntriesLast
<1> QED BY <1>1, <1>2, <1>3 DEF Inv

LEMMA TickKeeps == Inv /\ Tick => Inv'
<1> SUFFICES ASSUME Inv, Tick PROVE Inv'
  OBVIOUS
<1>1. TypeOK'
  BY DEF Inv, TypeOK, Tick, view
<1>2. PollsComplete' /\ HeldComplete'
  BY <1>1, StillComplete DEF Inv, TypeOK, Tick, view
<1>3. EntriesLast'
  BY DEF Inv, EntriesLast, Tick
<1> QED BY <1>1, <1>2, <1>3 DEF Inv

\* A recorded entry that ends nothing but what it covers and outlives.
LEMMA RecordKeeps ==
    ASSUME Inv, NEW e \in Entry, Record(e),
           \A t \in Tokens : /\ Ends([entry |-> e, at |-> clock], t) => Covers(e, t)
                             /\ Covers(e, t) => e.expires = 0 \/ t.exp <= e.expires
    PROVE  Inv'
<1>1. TypeOK'
  BY DEF Inv, TypeOK, Record, view
<1>2. PollsComplete' /\ HeldComplete'
  BY StillComplete DEF Inv, TypeOK, Record, view
<1>3. EntriesLast'
  BY DEF Inv, EntriesLast, Record
<1> QED BY <1>1, <1>2, <1>3 DEF Inv

LEMMA RevokeTokenKeeps ==
    ASSUME Inv, NEW t \in Tokens, RevokeToken(t)
    PROVE  Inv'
<1> DEFINE e == [jti |-> t.jti, subject |-> None, issued_before |-> 0, expires |-> t.exp]
<1>1. e \in Entry
  BY RevocationAssumption DEF Entry, Jtis
<1>2. ASSUME NEW u \in Tokens
      PROVE  /\ Ends([entry |-> e, at |-> clock], u) => Covers(e, u)
             /\ Covers(e, u) => e.expires = 0 \/ u.exp <= e.expires
  <2>1. t.jti # None /\ u.subject # None /\ t.exp \in Int
    BY RevocationAssumption
  <2>2. Covers(e, u) <=> u.jti = t.jti
    BY <2>1 DEF Covers
  <2>3. Ends([entry |-> e, at |-> clock], u) => u.jti = t.jti
    BY <2>1 DEF Ends
  <2>4. u.jti = t.jti => u.exp = t.exp
    BY RevocationAssumption
  <2> QED BY <2>1, <2>2, <2>3, <2>4
<1>3. Record(e)
  BY DEF RevokeToken
<1> HIDE DEF e
<1> QED BY <1>1, <1>2, <1>3, RecordKeeps

LEMMA RevokeSubjectKeeps ==
    ASSUME Inv, NEW s \in Subjects, RevokeSubject(s)
    PROVE  Inv'
<1> DEFINE e == [jti |-> None, subject |-> s, issued_before |-> clock, expires |-> clock + MaxLife]
<1>1. clock \in Int /\ MaxLife \in Nat
  BY RevocationAssumption DEF Inv, TypeOK
<1>2. e \in Entry
  BY <1>1 DEF Entry
<1>3. ASSUME NEW u \in Tokens
      PROVE  /\ Ends([entry |-> e, at |-> clock], u) => Covers(e, u)
             /\ Covers(e, u) => e.expires = 0 \/ u.exp <= e.expires
  <2>1. u.jti # None /\ s # None
    BY RevocationAssumption
  <2>2. Covers(e, u) <=> u.subject = s /\ u.iat <= clock
    BY <2>1 DEF Covers
  <2>3. Ends([entry |-> e, at |-> clock], u) => u.subject = s /\ u.iat <= clock
    BY <2>1 DEF Ends
  <2>4. u.iat <= clock => u.exp <= clock + MaxLife
    BY <1>1, RevocationAssumption
  <2> QED BY <2>2, <2>3, <2>4
<1>4. Record(e)
  BY DEF RevokeSubject
<1> HIDE DEF e
<1> QED BY <1>2, <1>3, <1>4, RecordKeeps

\* A step of one poll that leaves the clock, the service and the list alone.
LEMMA PollMoves ==
    ASSUME Inv, NEW p \in Polls, NEW q \in Poll, polls' = [polls EXCEPT ![p] = q],
           UNCHANGED <<clock, recorded, failClosed, held, fetchedAt, maxAge>>,
           rejectedBackwards' \in Nat,
           q.pc # "idle" => q.now <= clock,
           q.pc = "answered" => /\ Complete(recorded, clock, q.snap, q.now - Lag)
                                /\ q.snap.as_of <= clock
                                /\ Complete(recorded, clock, q.snap, q.snap.as_of)
    PROVE  Inv'
<1>1. TypeOK'
  BY DEF Inv, TypeOK
<1>2. polls'[p] = q /\ \A o \in Polls \ {p} : polls'[o] = polls[o]
  BY DEF Inv, TypeOK
<1>3. PollsComplete'
  BY <1>2 DEF Inv, PollsComplete
<1>4. HeldComplete' /\ EntriesLast'
  BY DEF Inv, HeldComplete, EntriesLast
<1> QED BY <1>1, <1>3, <1>4 DEF Inv

LEMMA SendKeeps ==
    ASSUME Inv, NEW p \in Polls, Send(p)
    PROVE  Inv'
<1> DEFINE q == [pc |-> "sent", now |-> clock]
<1>1. clock \in Int /\ rejectedBackwards \in Nat
  BY DEF Inv, TypeOK
<1>2. q \in Poll /\ q.pc = "sent" /\ q.now <= clock
  BY <1>1 DEF Poll
<1>3. /\ polls' = [polls EXCEPT ![p] = q]
      /\ UNCHANGED <<clock, recorded, failClosed, held, fetchedAt, maxAge>>
      /\ rejectedBackwards' \in Nat
  BY <1>1 DEF Send, view
<1> HIDE DEF q
<1> QED BY <1>2, <1>3, PollMoves

LEMMA AnswerKeeps ==
    ASSUME Inv, NEW p \in Polls, Answer(p)
    PROVE  Inv'
<1>1. PICK lag \in 0..Lag :
         polls' = [polls EXCEPT ![p] =
                      [pc |-> "answered", now |-> polls[p].now, snap |-> Served(lag)]]
  BY DEF Answer
<1> DEFINE q == [pc |-> "answered", now |-> polls[p].now, snap |-> Served(lag)]
<1>2. polls[p].now \in Int /\ polls[p].now <= clock
  BY PollTyped DEF Inv, PollsComplete, Answer
<1>3. /\ Served(lag) \in Snapshot /\ Complete(recorded, clock, Served(lag), polls[p].now - Lag)
      /\ Served(lag).as_of <= clock /\ Complete(recorded, clock, Served(lag), Served(lag).as_of)
  BY <1>2, ServedComplete DEF Inv
<1>4. q \in Poll
  BY <1>2, <1>3 DEF Poll
<1>5. /\ polls' = [polls EXCEPT ![p] = q]
      /\ UNCHANGED <<clock, recorded, failClosed, held, fetchedAt, maxAge>>
      /\ rejectedBackwards' \in Nat
  BY <1>1 DEF Answer, view, Inv, TypeOK
<1>6. /\ q.now <= clock /\ Complete(recorded, clock, q.snap, q.now - Lag)
      /\ q.snap.as_of <= clock /\ Complete(recorded, clock, q.snap, q.snap.as_of)
  BY <1>2, <1>3
<1> HIDE DEF q
<1> QED BY <1>4, <1>5, <1>6, PollMoves

LEMMA GivingUpKeeps ==
    ASSUME Inv, NEW p \in Polls, FetchFails(p) \/ InstallNoCursor(p) \/ InstallBackwards(p)
    PROVE  Inv'
<1>1. rejectedBackwards \in Nat
  BY DEF Inv, TypeOK
<1>2. /\ polls' = [polls EXCEPT ![p] = Idle]
      /\ UNCHANGED <<clock, recorded, failClosed, held, fetchedAt, maxAge>>
      /\ rejectedBackwards' \in Nat
  BY <1>1 DEF FetchFails, InstallNoCursor, InstallBackwards, view
<1>3. Idle \in Poll /\ Idle.pc = "idle"
  BY DEF Poll, Idle
<1> QED BY <1>2, <1>3, PollMoves

LEMMA InstallKeeps ==
    ASSUME Inv, NEW p \in Polls, Install(p)
    PROVE  Inv'
<1>1. /\ polls[p].snap \in Snapshot /\ polls[p].snap.as_of > 0
      /\ polls[p].now \in Int /\ polls[p].now <= clock
      /\ Complete(recorded, clock, polls[p].snap, polls[p].now - Lag)
      /\ polls[p].snap.as_of <= clock
      /\ Complete(recorded, clock, polls[p].snap, polls[p].snap.as_of)
  BY PollTyped DEF Inv, PollsComplete, Install
<1>2. TypeOK'
  <2>1. Idle \in Poll
    BY DEF Poll
  <2>2. polls' \in [Polls -> Poll]
    BY <2>1 DEF Inv, TypeOK, Install
  <2> QED BY <1>1, <2>2 DEF Inv, TypeOK, Install
<1>3. PollsComplete'
  <2>1. polls'[p] = Idle /\ \A o \in Polls \ {p} : polls'[o] = polls[o]
    BY DEF Inv, TypeOK, Install
  <2>2. Idle.pc = "idle"
    BY DEF Idle
  <2> QED BY <2>1, <2>2 DEF Inv, PollsComplete, Install
<1>4. HeldComplete'
  BY <1>1 DEF HeldComplete, Install
<1>5. EntriesLast'
  BY DEF Inv, EntriesLast, Install
<1> QED BY <1>2, <1>3, <1>4, <1>5 DEF Inv

LEMMA SetMaxAgeKeeps ==
    ASSUME Inv, NEW d \in OtherAges, SetMaxAge(d)
    PROVE  Inv'
<1>1. TypeOK'
  BY RevocationAssumption DEF Inv, TypeOK, SetMaxAge
<1> QED BY <1>1 DEF Inv, PollsComplete, HeldComplete, EntriesLast, SetMaxAge

LEMMA RestartKeeps == Inv /\ Restart => Inv'
<1> SUFFICES ASSUME Inv, Restart PROVE Inv'
  OBVIOUS
<1>1. Idle \in Poll /\ Idle.pc = "idle"
  BY DEF Poll, Idle
<1>2. TypeOK'
  BY <1>1, RevocationAssumption DEF Inv, TypeOK, Restart
<1>3. PollsComplete'
  BY <1>1 DEF PollsComplete, Restart
<1>4. HeldComplete' /\ EntriesLast'
  BY DEF Inv, HeldComplete, EntriesLast, Restart
<1> QED BY <1>2, <1>3, <1>4 DEF Inv

-----------------------------------------------------------------------------
\* Every step keeps the invariant.
LEMMA NextKeeps == Inv /\ [Next]_vars => Inv'
<1> SUFFICES ASSUME Inv, [Next]_vars PROVE Inv'
  OBVIOUS
<1>1. CASE Tick
  BY <1>1, TickKeeps
<1>11. CASE Restart
  BY <1>11, RestartKeeps
<1>2. CASE \E t \in Tokens : RevokeToken(t)
  BY <1>2, RevokeTokenKeeps
<1>3. CASE \E s \in Subjects : RevokeSubject(s)
  BY <1>3, RevokeSubjectKeeps
<1>4. CASE \E p \in Polls : Send(p)
  BY <1>4, SendKeeps
<1>5. CASE \E p \in Polls : Answer(p)
  BY <1>5, AnswerKeeps
<1>7. CASE \E p \in Polls : FetchFails(p) \/ InstallNoCursor(p) \/ InstallBackwards(p)
  BY <1>7, GivingUpKeeps
<1>8. CASE \E p \in Polls : Install(p)
  BY <1>8, InstallKeeps
<1>9. CASE \E d \in OtherAges : SetMaxAge(d)
  BY <1>9, SetMaxAgeKeeps
<1>10. CASE UNCHANGED vars
  <2>1. UNCHANGED <<clock, recorded, polls, failClosed, held, fetchedAt, maxAge, rejectedBackwards>>
    BY <1>10 DEF vars, view
  <2>2. TypeOK'
    BY <2>1 DEF Inv, TypeOK
  <2> QED BY <2>1, <2>2 DEF Inv, PollsComplete, HeldComplete, EntriesLast
<1> QED BY <1>1, <1>2, <1>3, <1>4, <1>5, <1>7, <1>8, <1>9, <1>10, <1>11 DEF Next, Refreshes

\* A miss that a young list answers is no later than the age allows.
LEMMA InvBounds == Inv => RevokedWithinMaxAge
<1> SUFFICES ASSUME Inv, failClosed, NEW t \in Tokens, NEW r \in recorded,
                    Valid(t), Ends(r, t), ~Check(t, clock).revoked
             PROVE  r.at >= clock - maxAge - Lag
  BY DEF RevokedWithinMaxAge
<1>1. /\ clock \in Int /\ fetchedAt \in Int /\ maxAge \in Int /\ Lag \in Nat
      /\ r.at \in Int /\ r.entry.expires \in Int /\ t.exp \in Int
  BY RevocationAssumption DEF Inv, TypeOK, Entry
<1>2. held # None /\ ~Listed(t, clock) /\ clock - fetchedAt <= maxAge
  BY DEF Check
<1>3. Covers(r.entry, t) /\ (r.entry.expires = 0 \/ t.exp <= r.entry.expires)
  BY DEF Inv, EntriesLast
<1>4. clock < t.exp
  BY DEF Valid
<1>5. r.entry \notin held.revocations
  BY <1>1, <1>2, <1>3, <1>4 DEF Listed, LiveAt
<1>6. ~(r.at < fetchedAt - Lag)
  BY <1>1, <1>2, <1>3, <1>4, <1>5 DEF Inv, HeldComplete, Complete
<1> QED BY <1>1, <1>2, <1>6

\* No step but a restart loses a settled entry that is still alive.
LEMMA SettledStays ==
    ASSUME Inv, [Next]_vars, held' # None, NEW r \in recorded,
           Settled(r), LiveAt(r.entry, clock')
    PROVE  r.entry \in held'.revocations
<1>1. CASE UNCHANGED held
  BY <1>1 DEF Settled
<1>2. CASE held' # held
  <2>1. PICK p \in Polls : Install(p)
    BY <1>2 DEF Next, Refreshes, vars, view, Tick, Restart, RevokeToken, RevokeSubject, Record, Send,
         Answer, FetchFails, InstallNoCursor, InstallBackwards, SetMaxAge
  <2>2. /\ held' = polls[p].snap /\ clock' = clock /\ polls[p].snap.as_of >= held.as_of
        /\ Complete(recorded, clock, polls[p].snap, polls[p].snap.as_of)
    BY <2>1 DEF Install, Settled, Inv, PollsComplete
  <2>3. polls[p].snap \in Snapshot /\ held \in Snapshot /\ clock \in Int
    BY <2>1, PollTyped DEF Inv, TypeOK, Install, Settled
  <2>4. r.at \in Int /\ r.entry.expires \in Int
    BY DEF Inv, TypeOK, Entry
  <2>5. r.at < polls[p].snap.as_of
    BY <2>2, <2>3, <2>4 DEF Settled, Snapshot
  <2>6. ~(r.entry.expires # 0 /\ r.entry.expires <= clock)
    BY <2>2, <2>3, <2>4 DEF LiveAt
  <2> QED BY <2>2, <2>5, <2>6 DEF Complete
<1> QED BY <1>1, <1>2

\* So a hit on one holds for the rest of the token's life.
LEMMA HitStays ==
    ASSUME Inv, [Next]_vars, held' # None, NEW t \in Tokens, NEW r \in recorded,
           Valid(t)', Settled(r), Covers(r.entry, t)
    PROVE  Check(t, clock)'.revoked
<1>1. Inv'
  BY NextKeeps
<1>2. clock' \in Int /\ t.exp \in Int /\ r.entry.expires \in Int /\ clock' < t.exp
  BY <1>1, RevocationAssumption DEF Inv, TypeOK, Entry, Valid
<1>3. r.entry.expires = 0 \/ t.exp <= r.entry.expires
  BY DEF Inv, EntriesLast
<1>4. LiveAt(r.entry, clock')
  BY <1>2, <1>3 DEF LiveAt
<1>5. r.entry \in held'.revocations
  BY <1>4, SettledStays
<1>6. Listed(t, clock)'
  BY <1>4, <1>5 DEF Listed
<1> QED BY <1>6 DEF Check

-----------------------------------------------------------------------------
\* The type invariant of the list, its polls and the service.
THEOREM Typing == Spec => []TypeOK
<1>1. Inv => TypeOK
  BY DEF Inv
<1> QED BY InitInv, NextKeeps, <1>1, PTL DEF Spec

\* In the fail-closed mode, and whatever happens to the polls, a token
\* that was revoked is refused from one maximum age (and the service's lag)
\* after the revocation was recorded, and for the rest of its life, restarts
\* included.
THEOREM RevocationBounded == Spec => []RevokedWithinMaxAge
<1>1. Init => Inv
  BY InitInv
<1>2. Inv /\ [Next]_vars => Inv'
  BY NextKeeps
<1>3. Inv => RevokedWithinMaxAge
  BY InvBounds
<1> QED BY <1>1, <1>2, <1>3, PTL DEF Spec

\* However polls overlap and fail, what the held list says of the seconds before
\* its own is not lost to a later installation.
THEOREM NothingOlderLost == Spec => NeverReplacedByEarlier
<1> DEFINE Kept == held' # None =>
                     \A r \in recorded :
                        Settled(r) /\ LiveAt(r.entry, clock') => r.entry \in held'.revocations
<1>1. Inv /\ [Next]_vars => [Kept]_vars
  BY SettledStays
<1>2. Spec => [][Kept]_vars
  BY InitInv, NextKeeps, <1>1, PTL DEF Spec
<1> QED BY <1>2 DEF NeverReplacedByEarlier

\* Until the process restarts, a token a settled entry refused stays refused
\* for the rest of its life, in both fail modes.
THEOREM NothingUnrevokes == Spec => HitsPersist
<1> DEFINE Held == held' # None =>
                     \A t \in Tokens, r \in recorded :
                        Valid(t) /\ Valid(t)' /\ Settled(r) /\ Covers(r.entry, t)
                          => Check(t, clock)'.revoked
<1>1. Inv /\ [Next]_vars => [Held]_vars
  BY HitStays
<1>2. Spec => [][Held]_vars
  BY InitInv, NextKeeps, <1>1, PTL DEF Spec
<1> QED BY <1>2 DEF HitsPersist
===============================================================================
