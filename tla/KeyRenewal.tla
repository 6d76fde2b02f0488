----------------------------- MODULE KeyRenewal -----------------------------
\* A delegated key of keyclient/delegated.go: Run keeps renewing it, other
\* goroutines call RenewIfDue, every goroutine may Sign, and custody answers
\* by a clock of its own, refuses, or says nothing until the request times
\* out.  A key is its statement's two times: the private key, the proof of
\* possession and the claims that name the key are abstracted into an answer
\* that is refused (Fail).  Time is one clock in whole seconds.
EXTENDS Integers

CONSTANTS Callers,     \* goroutines that call RenewIfDue themselves
          Run,         \* the goroutine inside Run
          None,        \* no goroutine, no signature yet
          Life,        \* the life asked for
          Lives,       \* lives a statement may come back with
          Retry,       \* the wait after a failure
          Delay,       \* both requests of a renewal are over within it
          Skew,        \* custody's clock is this far from ours at most
          MaxTime      \* bound of the clock

ASSUME GoroutineAssumption == Run \notin Callers /\ None \notin Callers \cup {Run} \cup Int
ASSUME LifeAssumption == Life \in Nat /\ Life % 2 = 0 /\ Lives \subseteq Nat
ASSUME TimeAssumption == /\ Retry \in Nat \ {0} /\ Delay \in Nat /\ Skew \in Nat
                         /\ MaxTime \in Nat /\ 2 * (Delay + Skew) < Life

VARIABLES
  now,        \* the clock
  keys,       \* Delegated.keys
  nextTry,    \* Delegated.nextTry; 0 is the zero time
  renewMu,    \* who holds the mutex
  pc,         \* where each goroutine is
  wake,       \* when Run's timer fires
  cancelled,  \* Run's ctx is done
  started,    \* when the renewal under way began
  failed,     \* history: renewals that failed since the last one that did not
  lastFail,   \* history: when the last of them ended
  signed      \* history: not_before of the key that signed last

timing  == <<wake, cancelled>>
history == <<failed, lastFail>>
vars    == <<now, keys, nextTry, renewMu, pc, wake, cancelled, started, failed, lastFail, signed>>

Goroutines == Callers \cup {Run}
Keys       == [nb : Int, na : Int]

Half(k)  == k.nb + (k.na - k.nb) \div 2
Newest   == CHOOSE k \in keys : \A o \in keys : o.nb <= k.nb
Valid(k) == k.nb <= now /\ now < k.na
InUse(k) == Valid(k) /\ \A o \in keys : Valid(o) => o.nb <= k.nb

Due     == nextTry <= now /\ (keys # {} => Half(Newest) <= now)

\* Seeded fault: Run sleeps through to the end of the newest key's life.
NextDueAtEnd == IF now < nextTry THEN nextTry ELSE IF keys = {} THEN now ELSE Newest.na

NextDue == IF now < nextTry THEN nextTry ELSE IF keys = {} THEN now ELSE Half(Newest)

\* Seeded fault: the life of the statement is not checked.
AnyLife(k) == TRUE

\* checkStatement's last case; the others are answers that Fail.
LifeAsked(k) == k.na - k.nb = Life

\* What renew may come back with: custody certified the key at a moment of the
\* request, by a clock of its own.
Answers == { [nb |-> nb, na |-> nb + life] : nb \in (started - Skew)..(now + Skew), life \in Lives }

\* Where RenewIfDue returns to: Run goes on with its loop.
Returned(p) == IF p = Run THEN "back" ELSE "idle"

Init ==
  /\ now = 0 /\ keys = {} /\ nextTry = 0 /\ renewMu = None
  /\ pc = [p \in Goroutines |-> IF p = Run THEN "queued" ELSE "idle"]
  /\ wake = 0 /\ cancelled = FALSE /\ started = 0
  /\ failed = 0 /\ lastFail = -Retry /\ signed = None

-----------------------------------------------------------------------------
\* RenewIfDue, up to renewMu.
Call(p) ==
  /\ pc[p] = "idle"
  /\ pc' = [pc EXCEPT ![p] = "queued"]
  /\ UNCHANGED <<now, keys, nextTry, renewMu, timing, started, history, signed>>

\* Seeded fault: the early return leaves renewMu locked.
NotDueLocked(p) ==
  /\ pc[p] = "queued" /\ renewMu = None /\ ~Due
  /\ pc' = [pc EXCEPT ![p] = Returned(p)]
  /\ renewMu' = p
  /\ UNCHANGED <<now, keys, nextTry, timing, started, history, signed>>

\* With renewMu: nothing is due, and the call returns ...
NotDue(p) ==
  /\ pc[p] = "queued" /\ renewMu = None /\ ~Due
  /\ pc' = [pc EXCEPT ![p] = Returned(p)]
  /\ UNCHANGED <<now, keys, nextTry, renewMu, timing, started, history, signed>>

\* ... or custody is asked, with renewMu held and mu free.
Ask(p) ==
  /\ pc[p] = "queued" /\ renewMu = None /\ Due
  /\ pc' = [pc EXCEPT ![p] = "asking"]
  /\ renewMu' = p
  /\ started' = now
  /\ UNCHANGED <<now, keys, nextTry, timing, history, signed>>

\* The statement passes every check: it is kept, and keys that ran out are not.
Certified(p) ==
  /\ pc[p] = "asking"
  /\ \E k \in Answers :
       LifeAsked(k) /\ keys' = { old \in keys : now < old.na } \cup {k}
  /\ nextTry' = 0
  /\ renewMu' = None
  /\ pc' = [pc EXCEPT ![p] = Returned(p)]
  /\ failed' = 0
  /\ UNCHANGED <<now, timing, started, lastFail, signed>>

\* Seeded fault: the wait is counted from the clock read before the requests.
FailFromStart(p) ==
  /\ pc[p] = "asking"
  /\ nextTry' = started + Retry
  /\ renewMu' = None
  /\ pc' = [pc EXCEPT ![p] = Returned(p)]
  /\ failed' = failed + 1
  /\ lastFail' = now
  /\ UNCHANGED <<now, keys, timing, started, signed>>

\* A request failed, timed out or was cancelled, or the answer was refused.
Fail(p) ==
  /\ pc[p] = "asking"
  /\ nextTry' = now + Retry
  /\ renewMu' = None
  /\ pc' = [pc EXCEPT ![p] = Returned(p)]
  /\ failed' = failed + 1
  /\ lastFail' = now
  /\ UNCHANGED <<now, keys, timing, started, signed>>

-----------------------------------------------------------------------------
\* Run, after RenewIfDue: it sleeps until the next renewal is due, a second
\* at least; or its ctx is done.
Sleep ==
  /\ pc[Run] = "back" /\ ~cancelled
  /\ wake' = IF NextDue > now THEN NextDue ELSE now + 1
  /\ pc' = [pc EXCEPT ![Run] = "asleep"]
  /\ UNCHANGED <<now, keys, nextTry, renewMu, cancelled, started, history, signed>>

Wake ==
  /\ pc[Run] = "asleep" /\ wake <= now
  /\ pc' = [pc EXCEPT ![Run] = "queued"]
  /\ UNCHANGED <<now, keys, nextTry, renewMu, timing, started, history, signed>>

Leave ==
  /\ cancelled /\ pc[Run] \in {"back", "asleep"}
  /\ pc' = [pc EXCEPT ![Run] = "gone"]
  /\ UNCHANGED <<now, keys, nextTry, renewMu, timing, started, history, signed>>

\* The owner of Run's ctx is done with it, wherever Run is.
Cancel ==
  /\ ~cancelled /\ cancelled' = TRUE
  /\ UNCHANGED <<now, keys, nextTry, renewMu, pc, wake, started, history, signed>>

\* Sign, and Current: the key valid by the clock that started last.
Sign ==
  /\ \E k \in keys : InUse(k) /\ signed' = k.nb
  /\ UNCHANGED <<now, keys, nextTry, renewMu, pc, timing, started, history>>

\* The private keys live in memory only: a new process starts with none.
Restart ==
  /\ keys' = {} /\ nextTry' = 0 /\ renewMu' = None
  /\ pc' = [p \in Goroutines |-> IF p = Run THEN "queued" ELSE "idle"]
  /\ wake' = 0 /\ cancelled' = FALSE /\ started' = 0
  /\ failed' = 0 /\ lastFail' = -Retry /\ signed' = None
  /\ UNCHANGED now

\* A second passes: not while Run could take its next step, and not once a
\* renewal has had all the time its requests are given.
RunCanStep == \/ pc[Run] = "back"
              \/ pc[Run] = "asleep" /\ wake <= now
              \/ pc[Run] = "queued" /\ renewMu = None

Tick ==
  /\ now < MaxTime
  /\ ~RunCanStep
  /\ renewMu # None => now < started + Delay
  /\ now' = now + 1
  /\ UNCHANGED <<keys, nextTry, renewMu, pc, timing, started, history, signed>>

Next == \/ \E p \in Goroutines : Call(p) \/ NotDue(p) \/ Ask(p) \/ Certified(p) \/ Fail(p)
        \/ Sleep \/ Wake \/ Leave \/ Cancel \/ Sign \/ Restart \/ Tick

Spec == Init /\ [][Next]_vars

-----------------------------------------------------------------------------
\* Types; one goroutine at most is renewing, and it holds renewMu.
TypeOK ==
  /\ now \in Int /\ keys \subseteq Keys /\ nextTry \in Int
  /\ renewMu \in Goroutines \cup {None}
  /\ pc \in [Goroutines -> {"idle", "queued", "asking", "back", "asleep", "gone"}]
  /\ wake \in Int /\ cancelled \in BOOLEAN /\ started \in Int
  /\ failed \in Nat /\ lastFail \in Int /\ signed \in Int \cup {None}
  /\ \A p \in Goroutines : pc[p] = "asking" <=> renewMu = p

\* A process never goes back to an older key: the key of a signature started
\* no earlier than the key of the signature before it, whatever renewals,
\* failures and gaps without a key lie between them.  A verifier that saw
\* the newer key is never shown the one it replaced.
NeverOlder == [][signed # None /\ signed' # None => signed <= signed']_vars

\* A custody that is down is not hammered, and one that answers is not asked
\* early: however many goroutines call RenewIfDue, a renewal begins alone,
\* Retry after the end of one that failed, and never while a key held is in
\* the first half of its life.
Spaced ==
  [][\A p \in Goroutines : pc[p] # "asking" /\ pc'[p] = "asking" =>
       /\ \A q \in Goroutines : pc[q] # "asking"
       /\ lastFail + Retry <= now
       /\ \A k \in keys : Half(k) <= now]_vars

\* While Run runs, custody has half a life to come back in: a process that had
\* a key is without one only when the renewals that failed since, each with its
\* request and its wait, and the request under way, fill that half.  With the
\* shortest life and the wait of five minutes a single failure does.
GapNeedsFailures ==
  ~cancelled /\ keys # {} /\ (\A k \in keys : k.na <= now) =>
    Life \div 2 <= failed * (Delay + Retry) + Delay
=============================================================================
