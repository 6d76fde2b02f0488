------------------------------ MODULE Revocations ------------------------------
(***************************************************************************)
(* delegation/revocations.go: the last known revocation list of a process,  *)
(* the polls that refresh it and what it answers a request.                 *)
(*                                                                          *)
(* Refresh is three steps: the caller reads the clock, the service answers  *)
(* (or nobody does), the snapshot is offered to Install with the reading of *)
(* step one.  The service is external: it records revocations and serves,   *)
(* from an instance at most Lag seconds behind, the entries still alive     *)
(* with the second they describe; nothing on the way repeats an answer.     *)
(***************************************************************************)
EXTENDS Integers, FiniteSets

CONSTANTS
    Tokens,       \* records [jti, subject, iat, exp], one per party of a token
    Subjects,     \* parties that are revoked
    Polls,        \* Refresh calls that may be in flight at once
    None,         \* an absent member; no list
    FailModes,    \* fail modes it may be built with: TRUE is closed
    DefaultAge,   \* maximum age the cache is built with
    OtherAges,    \* what SetMaxAge may be called with
    MaxLife,      \* longest life of a token
    Lag,          \* how far behind an instance of the service may be
    MaxEntries,   \* bound: revocations recorded
    MaxRejected,  \* bound: snapshots refused for their cursor
    MaxTime       \* bound: the last second of a behaviour

ASSUME RevocationAssumption ==
    /\ \A t \in Tokens : /\ t.iat \in Nat /\ t.exp \in Nat
                         /\ t.exp <= t.iat + MaxLife
                         /\ t.jti # None /\ t.subject # None
    /\ \A t, u \in Tokens : t.jti = u.jti => t.exp = u.exp
    /\ None \notin Subjects /\ FailModes \subseteq BOOLEAN
    /\ MaxLife \in Nat /\ Lag \in Nat /\ MaxTime \in Nat /\ MaxEntries \in Nat
    /\ MaxRejected \in Nat
    /\ DefaultAge \in Nat \ {0} /\ OtherAges \subseteq Int

VARIABLES
    clock,
    recorded,   \* the service: entries with the second they were recorded in
    polls,      \* each Refresh in flight
    failClosed, \* the fail mode it is built with: TRUE refuses an unanswerable miss
    held, fetchedAt, maxAge, rejectedBackwards

view == <<failClosed, held, fetchedAt, maxAge, rejectedBackwards>>
vars == <<clock, recorded, polls, view>>

Jtis  == {t.jti : t \in Tokens}
Entry == [jti : Jtis \cup {None}, subject : Subjects \cup {None},
          issued_before : Int, expires : Int]
Snapshot == [revocations : SUBSET Entry, as_of : Int]
Idle == [pc |-> "idle"]
Poll == {Idle} \cup [pc : {"sent"}, now : Int]
               \cup [pc : {"answered"}, now : Int, snap : Snapshot]

Init ==
    /\ clock = 1
    /\ recorded = {}
    /\ polls = [p \in Polls |-> Idle]
    /\ failClosed \in FailModes
    /\ held = None
    /\ fetchedAt = 0
    /\ maxAge = DefaultAge
    /\ rejectedBackwards = 0

Tick ==
    /\ clock < MaxTime
    /\ clock' = clock + 1
    /\ UNCHANGED <<recorded, polls, view>>

-----------------------------------------------------------------------------
(* Entries and answers. *)

\* Revocation.covers.
Covers(e, t) ==
    \/ e.jti # None /\ e.jti = t.jti
    \/ e.subject # None /\ e.subject = t.subject /\ t.iat <= e.issued_before

LiveAt(e, now) == e.expires = 0 \/ e.expires > now

Listed(t, now) ==
    /\ held # None
    /\ \E e \in held.revocations : LiveAt(e, now) /\ Covers(e, t)

\* Seeded fault: a hit on a list that has aged out is left to the fail mode.
CheckFreshOnly(t, now) ==
    IF held = None THEN [revoked |-> failClosed, basis |-> "never"]
    ELSE IF now - fetchedAt > maxAge THEN [revoked |-> failClosed, basis |-> "stale"]
    ELSE [revoked |-> Listed(t, now), basis |-> IF Listed(t, now) THEN "listed" ELSE "absent"]

\* Revocations.Check: a hit holds whatever the age, a miss only while young.
Check(t, now) ==
    IF held = None THEN [revoked |-> failClosed, basis |-> "never"]
    ELSE IF Listed(t, now) THEN [revoked |-> TRUE, basis |-> "listed"]
    ELSE IF now - fetchedAt <= maxAge THEN [revoked |-> FALSE, basis |-> "absent"]
    ELSE [revoked |-> failClosed, basis |-> "stale"]

-----------------------------------------------------------------------------
(* The service. *)

Record(e) ==
    /\ Cardinality(recorded) < MaxEntries
    /\ recorded' = recorded \cup {[entry |-> e, at |-> clock]}
    /\ UNCHANGED <<clock, polls, view>>

\* One token, until it expires.
RevokeToken(t) ==
    /\ t.iat <= clock /\ clock < t.exp
    /\ Record([jti |-> t.jti, subject |-> None, issued_before |-> 0, expires |-> t.exp])

\* A party: whatever was issued up to this second, while any of it can live.
RevokeSubject(s) ==
    Record([jti |-> None, subject |-> s, issued_before |-> clock, expires |-> clock + MaxLife])

\* What an instance lag seconds behind serves: all of a second that is over,
\* and of the present one what has been recorded so far.
Served(lag) ==
    LET s == clock - lag
    IN  [revocations |-> {r.entry : r \in {q \in recorded : q.at <= s /\ LiveAt(q.entry, s)}},
         as_of |-> s]

-----------------------------------------------------------------------------
(* Refresh. *)

Send(p) ==
    /\ polls[p] = Idle
    /\ polls' = [polls EXCEPT ![p] = [pc |-> "sent", now |-> clock]]
    /\ UNCHANGED <<clock, recorded, view>>

Answer(p) ==
    /\ polls[p].pc = "sent"
    /\ \E lag \in 0..Lag :
          polls' = [polls EXCEPT ![p] =
                       [pc |-> "answered", now |-> polls[p].now, snap |-> Served(lag)]]
    /\ UNCHANGED <<clock, recorded, view>>

\* No answer, not a 200, too long or not a list: what is held goes on ageing.
FetchFails(p) ==
    /\ polls[p].pc = "sent"
    /\ polls' = [polls EXCEPT ![p] = Idle]
    /\ UNCHANGED <<clock, recorded, view>>

\* Seeded fault: whatever was fetched last is what is held.
InstallLast(p) ==
    /\ polls[p].pc = "answered"
    /\ polls[p].snap.as_of > 0
    /\ held' = polls[p].snap
    /\ fetchedAt' = polls[p].now
    /\ polls' = [polls EXCEPT ![p] = Idle]
    /\ UNCHANGED <<clock, recorded, failClosed, maxAge, rejectedBackwards>>

\* Seeded fault: a list with no cursor is held like any other.
InstallUncursored(p) ==
    /\ polls[p].pc = "answered"
    /\ held # None => polls[p].snap.as_of >= held.as_of
    /\ held' = polls[p].snap
    /\ fetchedAt' = polls[p].now
    /\ polls' = [polls EXCEPT ![p] = Idle]
    /\ UNCHANGED <<clock, recorded, failClosed, maxAge, rejectedBackwards>>

\* Seeded fault: the age is counted from the installation, not the request.
InstallLate(p) ==
    /\ polls[p].pc = "answered"
    /\ polls[p].snap.as_of > 0
    /\ held # None => polls[p].snap.as_of >= held.as_of
    /\ held' = polls[p].snap
    /\ fetchedAt' = clock
    /\ polls' = [polls EXCEPT ![p] = Idle]
    /\ UNCHANGED <<clock, recorded, failClosed, maxAge, rejectedBackwards>>

Install(p) ==
    /\ polls[p].pc = "answered"
    /\ polls[p].snap.as_of > 0
    /\ held # None => polls[p].snap.as_of >= held.as_of
    /\ held' = polls[p].snap
    /\ fetchedAt' = polls[p].now
    /\ polls' = [polls EXCEPT ![p] = Idle]
    /\ UNCHANGED <<clock, recorded, failClosed, maxAge, rejectedBackwards>>

\* ErrNoCursor.
InstallNoCursor(p) ==
    /\ polls[p].pc = "answered"
    /\ polls[p].snap.as_of <= 0
    /\ polls' = [polls EXCEPT ![p] = Idle]
    /\ UNCHANGED <<clock, recorded, view>>

\* ErrCursorWentBackwards: the list and its age stay.
InstallBackwards(p) ==
    /\ polls[p].pc = "answered"
    /\ polls[p].snap.as_of > 0
    /\ held # None /\ polls[p].snap.as_of < held.as_of
    /\ rejectedBackwards < MaxRejected
    /\ rejectedBackwards' = rejectedBackwards + 1
    /\ polls' = [polls EXCEPT ![p] = Idle]
    /\ UNCHANGED <<clock, recorded, failClosed, held, fetchedAt, maxAge>>

SetMaxAge(d) ==
    /\ maxAge' = d
    /\ UNCHANGED <<clock, recorded, polls, failClosed, held, fetchedAt, rejectedBackwards>>

\* Nothing of the list outlives the process, its cursor included.
Restart ==
    /\ polls' = [p \in Polls |-> Idle]
    /\ held' = None
    /\ fetchedAt' = 0
    /\ maxAge' = DefaultAge
    /\ rejectedBackwards' = 0
    /\ UNCHANGED <<clock, recorded, failClosed>>

-----------------------------------------------------------------------------
\* What happens to the list without anybody of this process but its poller.
Refreshes ==
    \/ \E t \in Tokens : RevokeToken(t)
    \/ \E s \in Subjects : RevokeSubject(s)
    \/ \E p \in Polls : \/ Send(p) \/ Answer(p) \/ FetchFails(p)
                        \/ Install(p) \/ InstallNoCursor(p) \/ InstallBackwards(p)

Next ==
    \/ Tick \/ Restart \/ Refreshes
    \/ \E d \in OtherAges : SetMaxAge(d)

Spec == Init /\ [][Next]_vars
-----------------------------------------------------------------------------
TypeOK ==
    /\ clock \in Int
    /\ recorded \subseteq [entry : Entry, at : Int]
    /\ polls \in [Polls -> Poll]
    /\ held \in Snapshot \cup {None}
    /\ held # None => held.as_of > 0
    /\ fetchedAt \in Int
    /\ maxAge \in Int
    /\ rejectedBackwards \in Nat
    /\ failClosed \in BOOLEAN

\* A token a request may carry now: issued, and not past its exp, which Verify
\* checks before it asks the list.
Valid(t) == t.iat <= clock /\ clock < t.exp

\* What r was recorded to end: one token, or all a party was issued by then.
Ends(r, t) ==
    \/ r.entry.jti = t.jti
    \/ r.entry.subject = t.subject /\ t.iat <= r.at

\* The claim of DefaultRevocationMaxAge, in the default fail mode: a revoked
\* token stops working within the maximum age of the list (and what the
\* service itself is behind), whether polls succeed, fail, stall or overlap.
RevokedWithinMaxAge ==
    failClosed =>
        \A t \in Tokens, r \in recorded :
            Valid(t) /\ Ends(r, t) /\ ~Check(t, clock).revoked
              => r.at >= clock - maxAge - Lag

\* The held list has r's entry, recorded before the second the list describes.
Settled(r) == held # None /\ r.at < held.as_of /\ r.entry \in held.revocations

\* "Nothing un-revokes a token": one that a settled entry has refused is refused
\* for the rest of its life, whatever is installed after, in whatever order
\* overlapping polls end, however old the list gets and whatever the fail mode.
\* A restart is the exception: the cursor is gone with the list.
HitsPersist ==
    [][held' # None =>
          \A t \in Tokens, r \in recorded :
              Valid(t) /\ Valid(t)' /\ Settled(r) /\ Covers(r.entry, t)
                => Check(t, clock)'.revoked]_vars

\* "An answer describing an earlier moment never replaces a later one": a
\* settled entry stays held while it is alive.  An entry of the very second
\* does not: an equal cursor is accepted, and of two polls that overlap inside
\* a second the one installed last may have seen less.
NeverReplacedByEarlier ==
    [][held' # None =>
          \A r \in recorded :
              Settled(r) /\ LiveAt(r.entry, clock') => r.entry \in held'.revocations]_vars
===============================================================================
