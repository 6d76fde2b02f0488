----------------------------- MODULE ChainedStream -----------------------------
(***************************************************************************)
(* The writers of event/chain.go and event/event.go on one stream.          *)
(*                                                                          *)
(* A handle is an opened writer (an *os.File with its mutex); a thread is a *)
(* goroutine calling one.  flock(2) belongs to the open file, so a handle   *)
(* that holds it is granted it again: only mu keeps apart the goroutines    *)
(* that share a handle, and only the flock keeps apart the handles.  A      *)
(* write is mu.Lock, lockForAppend, readTail (chained writers only), the    *)
(* append, unlockAfterAppend and the deferred mu.Unlock, each a step.  A    *)
(* lock, an unlock, a tail read or a write may fail, a caller may panic, a  *)
(* writer may be closed under a call, a process may die, the host may lose  *)
(* power.                                                                   *)
(***************************************************************************)
EXTENDS ChainLog

CONSTANTS
    Threads,        \* goroutines
    Handles,        \* writers that may be opened on the stream
    Chained,        \* those that are ChainedWriters; the others are Writers
    MaxCalls,       \* bound: Write calls started in a behaviour
    UnlockMayFail,  \* whether flock(LOCK_UN) can return an error
    HostMayFail     \* whether the host may lose power

ASSUME StreamAssumption ==
    /\ None \notin Threads
    /\ None \notin Handles
    /\ Chained \subseteq Handles
    /\ MaxCalls \in Nat
    /\ UnlockMayFail \in BOOLEAN
    /\ HostMayFail \in BOOLEAN

VARIABLES
    open,     \* handles a constructor has returned
    resumed,  \* resumedFrom of each handle
    mu,       \* the thread holding each handle's mutex
    flock,    \* the handle holding the lock of the stream
    pc,       \* where each thread is
    on,       \* the handle its call is on
    body,     \* the event it writes
    tail,     \* what readTail told it: the digest and endsNewline
    done,     \* the line its write landed on, 0 while it has written nothing
    acked,    \* history: lines for which Write returned nil
    calls     \* Write calls so far

call == <<on, body, tail, done>>
vars == <<file, open, resumed, mu, flock, pc, on, body, tail, done, acked, calls>>

Opening  == {"openLock", "openTail", "openUnlock"}
Locked   == {"tail", "append", "unlock"}
PCs      == {"idle", "mu", "lock"} \cup Locked \cup Opening
NoTail   == [hash |-> None, nl |-> TRUE]
\* The event a call puts on the wire, prev_hash stamped by the writer.
Stamped(t) == Event(body[t], IF on[t] \in Chained THEN tail[t].hash ELSE None)
\* Seeded fault: the append never looks at how the last line ends.
LeadsNever(t) == FALSE

\* A write starts with a newline when readTail saw the last line unterminated.
Leads(t)   == ~tail[t].nl

Users(h) == {t \in Threads : pc[t] # "idle" /\ on[t] = h}

Writing  == {"mu", "lock"} \cup Locked

\* The file was closed under t's call.  What t had begun on it came to its end
\* first; whatever it tries next returns os.ErrClosed and does nothing.
Shut(t) == pc[t] \in Writing /\ on[t] \notin open

Init ==
    /\ LogInit
    /\ open = {}
    /\ resumed = [h \in Handles |-> None]
    /\ mu = [h \in Handles |-> None]
    /\ flock = None
    /\ pc = [t \in Threads |-> "idle"]
    /\ on = [t \in Threads |-> None]
    /\ body = [t \in Threads |-> None]
    /\ tail = [t \in Threads |-> NoTail]
    /\ done = [t \in Threads |-> 0]
    /\ acked = {}
    /\ calls = 0

\* The lock of the stream as h asks for it: free, or already its own.
Grantable(h) == flock \in {None, h}

\* flock(LOCK_UN) on an open file: the lock is gone, or the call failed and it
\* may not be.
Unlock(h, ok) ==
    /\ ok \/ UnlockMayFail
    /\ flock' \in IF ok THEN {None} ELSE {None, h}

\* The return of a call: its locals are garbage, kept at one value.
Return(t) ==
    /\ pc' = [pc EXCEPT ![t] = "idle"]
    /\ on' = [on EXCEPT ![t] = None]
    /\ body' = [body EXCEPT ![t] = None]
    /\ tail' = [tail EXCEPT ![t] = NoTail]
    /\ done' = [done EXCEPT ![t] = 0]

-----------------------------------------------------------------------------
(* NewWriter and NewChainedWriter. *)

\* openAppend succeeded; NewWriter has nothing more to do.
OpenPlain(h) ==
    /\ h \in Handles \ (Chained \cup open)
    /\ Users(h) = {}
    /\ open' = open \cup {h}
    /\ UNCHANGED <<file, resumed, mu, flock, pc, call, acked, calls>>

OpenChained(t, h) ==
    /\ pc[t] = "idle"
    /\ h \in Chained \ open
    /\ Users(h) = {}
    /\ pc' = [pc EXCEPT ![t] = "openLock"]
    /\ on' = [on EXCEPT ![t] = h]
    /\ UNCHANGED <<file, open, resumed, mu, flock, body, tail, done, acked, calls>>

\* Seeded fault: the constructor reads the tail without the lock.
OpenUnlocked(t) ==
    /\ pc[t] = "openLock"
    /\ pc' = [pc EXCEPT ![t] = "openTail"]
    /\ UNCHANGED <<file, open, resumed, mu, flock, call, acked, calls>>

OpenLock(t) ==
    /\ pc[t] = "openLock"
    /\ Grantable(on[t])
    /\ flock' = on[t]
    /\ pc' = [pc EXCEPT ![t] = "openTail"]
    /\ UNCHANGED <<file, open, resumed, mu, call, acked, calls>>

\* The file cannot be locked: it is closed and the constructor fails.
OpenLockFails(t) ==
    /\ pc[t] = "openLock"
    /\ Return(t)
    /\ UNCHANGED <<file, open, resumed, mu, flock, acked, calls>>

\* An unreadable or malformed tail is no error here: the chain starts fresh.
OpenTail(t) ==
    /\ pc[t] = "openTail"
    /\ \E h \in {None, TailHash(file)} : tail' = [tail EXCEPT ![t].hash = h]
    /\ pc' = [pc EXCEPT ![t] = "openUnlock"]
    /\ UNCHANGED <<file, open, resumed, mu, flock, on, body, done, acked, calls>>

OpenUnlock(t) ==
    /\ pc[t] = "openUnlock"
    /\ Unlock(on[t], TRUE)
    /\ open' = open \cup {on[t]}
    /\ resumed' = [resumed EXCEPT ![on[t]] = tail[t].hash]
    /\ Return(t)
    /\ UNCHANGED <<file, mu, acked, calls>>

\* The unlock failed; closing the file releases the lock all the same.
OpenUnlockFails(t) ==
    /\ pc[t] = "openUnlock"
    /\ UnlockMayFail
    /\ flock' = None
    /\ Return(t)
    /\ UNCHANGED <<file, open, resumed, mu, acked, calls>>

\* Close takes no mutex: calls may be under way.  It frees the lock, also one
\* that an unlock left behind.
Close(h) ==
    /\ h \in open
    /\ open' = open \ {h}
    /\ resumed' = [resumed EXCEPT ![h] = None]
    /\ flock' = IF flock = h THEN None ELSE flock
    /\ UNCHANGED <<file, mu, pc, call, acked, calls>>

-----------------------------------------------------------------------------
(* Write. *)

Begin(t, h, c) ==
    /\ pc[t] = "idle"
    /\ h \in open
    /\ calls < MaxCalls
    /\ calls' = calls + 1
    /\ pc' = [pc EXCEPT ![t] = "mu"]
    /\ on' = [on EXCEPT ![t] = h]
    /\ body' = [body EXCEPT ![t] = c]
    /\ UNCHANGED <<file, open, resumed, mu, flock, tail, done, acked>>

\* Seeded fault: the mutex is left out, the file lock is thought to do.
TakeNoMu(t) ==
    /\ pc[t] = "mu"
    /\ mu' = [mu EXCEPT ![on[t]] = t]
    /\ pc' = [pc EXCEPT ![t] = "lock"]
    /\ UNCHANGED <<file, open, resumed, flock, call, acked, calls>>

TakeMu(t) ==
    /\ pc[t] = "mu"
    /\ mu[on[t]] = None
    /\ mu' = [mu EXCEPT ![on[t]] = t]
    /\ pc' = [pc EXCEPT ![t] = "lock"]
    /\ UNCHANGED <<file, open, resumed, flock, call, acked, calls>>

\* Seeded fault: the append goes ahead whether or not the lock was granted.
TakeLockAnyway(t) ==
    /\ pc[t] = "lock" /\ ~Shut(t)
    /\ flock' = on[t]
    /\ pc' = [pc EXCEPT ![t] = IF on[t] \in Chained THEN "tail" ELSE "append"]
    /\ UNCHANGED <<file, open, resumed, mu, call, acked, calls>>

TakeLock(t) ==
    /\ pc[t] = "lock" /\ ~Shut(t)
    /\ Grantable(on[t])
    /\ flock' = on[t]
    /\ pc' = [pc EXCEPT ![t] = IF on[t] \in Chained THEN "tail" ELSE "append"]
    /\ UNCHANGED <<file, open, resumed, mu, call, acked, calls>>

LeaveMu(t) == mu' = [mu EXCEPT ![on[t]] = None]

\* Seeded fault: the early return forgets the mutex.
LockFailsInMu(t) ==
    /\ pc[t] = "lock"
    /\ Return(t)
    /\ UNCHANGED <<file, open, resumed, mu, flock, acked, calls>>

\* No lock, no write.
LockFails(t) ==
    /\ pc[t] = "lock"
    /\ LeaveMu(t)
    /\ Return(t)
    /\ UNCHANGED <<file, open, resumed, flock, acked, calls>>

\* Seeded fault: the lock covers the read of the tail and not the append.
ReadTailAndUnlock(t) ==
    /\ pc[t] = "tail" /\ ~Shut(t)
    /\ tail' = [tail EXCEPT ![t] = [hash |-> TailHash(file), nl |-> EndsNewline(file)]]
    /\ flock' = None
    /\ pc' = [pc EXCEPT ![t] = "append"]
    /\ UNCHANGED <<file, open, resumed, mu, on, body, done, acked, calls>>

ReadTail(t) ==
    /\ pc[t] = "tail" /\ ~Shut(t)
    /\ tail' = [tail EXCEPT ![t] = [hash |-> TailHash(file), nl |-> EndsNewline(file)]]
    /\ pc' = [pc EXCEPT ![t] = "append"]
    /\ UNCHANGED <<file, open, resumed, mu, flock, on, body, done, acked, calls>>

ReadTailFails(t) ==
    /\ pc[t] = "tail"
    /\ pc' = [pc EXCEPT ![t] = "unlock"]
    /\ UNCHANGED <<file, open, resumed, mu, flock, call, acked, calls>>

\* A ChainedWriter refuses an event the next writer could not hash.
Refuse(t) ==
    /\ pc[t] = "append"
    /\ on[t] \in Chained
    /\ body[t] \notin Hashable
    /\ pc' = [pc EXCEPT ![t] = "unlock"]
    /\ UNCHANGED <<file, open, resumed, mu, flock, call, acked, calls>>

AppendLine(t) ==
    /\ pc[t] = "append" /\ ~Shut(t)
    /\ on[t] \in Chained => body[t] \in Hashable
    /\ file' = PutLine(file, Leads(t), Stamped(t))
    /\ done' = [done EXCEPT ![t] = Len(file')]
    /\ pc' = [pc EXCEPT ![t] = "unlock"]
    /\ UNCHANGED <<open, resumed, mu, flock, on, body, tail, acked, calls>>

\* The write returned an error after some of its bytes, or before any.
AppendFails(t) ==
    /\ pc[t] = "append"
    /\ on[t] \in Chained => body[t] \in Hashable
    /\ file' \in IF Shut(t) THEN {file} ELSE ShortWrites(file, Leads(t), Stamped(t))
    /\ pc' = [pc EXCEPT ![t] = "unlock"]
    /\ UNCHANGED <<open, resumed, mu, flock, call, acked, calls>>

\* The call returns nil exactly when the line was written and the lock let go.
Ack(t) ==
    IF done[t] = 0 THEN acked
    ELSE acked \cup {[by |-> on[t], at |-> done[t], line |-> Stamped(t)]}

Finish(t) ==
    /\ pc[t] = "unlock" /\ ~Shut(t)
    /\ Unlock(on[t], TRUE)
    /\ acked' = Ack(t)
    /\ LeaveMu(t)
    /\ Return(t)
    /\ UNCHANGED <<file, open, resumed, calls>>

\* What a call under the lock does to it on its way out: nothing, when Close
\* has let go of it already.
LetGo(t, ok) == IF Shut(t) THEN ~ok /\ UNCHANGED flock ELSE Unlock(on[t], ok)

\* The error is returned though the line may be on disk, and the lock may
\* still be held.
FinishFails(t) ==
    /\ pc[t] = "unlock"
    /\ LetGo(t, FALSE)
    /\ LeaveMu(t)
    /\ Return(t)
    /\ UNCHANGED <<file, open, resumed, acked, calls>>

\* Seeded fault: no deferred release of the file lock.
PanicLocked(t) ==
    /\ pc[t] \in {"tail", "append"}
    /\ LeaveMu(t)
    /\ Return(t)
    /\ UNCHANGED <<file, open, resumed, flock, acked, calls>>

\* Seeded fault: mu is let go of at the end of the call and not by a defer.
PanicInMu(t) ==
    /\ pc[t] \in {"tail", "append"}
    /\ \E ok \in BOOLEAN : LetGo(t, ok)
    /\ Return(t)
    /\ UNCHANGED <<file, open, resumed, mu, acked, calls>>

\* A panic under the lock that the caller recovers: the deferred calls let go
\* of both locks.
Panic(t) ==
    /\ pc[t] \in {"tail", "append"}
    /\ \E ok \in BOOLEAN : LetGo(t, ok)
    /\ LeaveMu(t)
    /\ Return(t)
    /\ UNCHANGED <<file, open, resumed, acked, calls>>

-----------------------------------------------------------------------------
(* Failures of what runs the writers. *)

\* All calls of the threads in T are gone, with whatever they held in memory.
Gone(T) ==
    /\ pc' = [t \in Threads |-> IF t \in T THEN "idle" ELSE pc[t]]
    /\ on' = [t \in Threads |-> IF t \in T THEN None ELSE on[t]]
    /\ body' = [t \in Threads |-> IF t \in T THEN None ELSE body[t]]
    /\ tail' = [t \in Threads |-> IF t \in T THEN NoTail ELSE tail[t]]
    /\ done' = [t \in Threads |-> IF t \in T THEN 0 ELSE done[t]]

\* The process of h dies; the kernel closes its file.
Crash(h) ==
    /\ h \in open \/ Users(h) # {}
    /\ open' = open \ {h}
    /\ resumed' = [resumed EXCEPT ![h] = None]
    /\ mu' = [mu EXCEPT ![h] = None]
    /\ flock' = IF flock = h THEN None ELSE flock
    /\ Gone(Users(h))
    /\ UNCHANGED <<file, acked, calls>>

\* The host goes down: every process with it, and the tail that was never
\* synced.  What was acknowledged before is no promise any more.
PowerLoss ==
    /\ HostMayFail
    /\ file' \in PowerCuts(file)
    /\ open' = {}
    /\ resumed' = [h \in Handles |-> None]
    /\ mu' = [h \in Handles |-> None]
    /\ flock' = None
    /\ Gone(Threads)
    /\ acked' = {}
    /\ UNCHANGED calls

-----------------------------------------------------------------------------
Step(t) ==
    \/ OpenLock(t) \/ OpenLockFails(t) \/ OpenTail(t)
    \/ OpenUnlock(t) \/ OpenUnlockFails(t)
    \/ TakeMu(t) \/ TakeLock(t) \/ LockFails(t)
    \/ ReadTail(t) \/ ReadTailFails(t)
    \/ Refuse(t) \/ AppendLine(t) \/ AppendFails(t)
    \/ Finish(t) \/ FinishFails(t) \/ Panic(t)

Next ==
    \/ \E t \in Threads : Step(t)
    \/ \E t \in Threads, h \in Handles : OpenChained(t, h)
    \/ \E t \in Threads, h \in Handles, c \in Content : Begin(t, h, c)
    \/ \E h \in Handles : OpenPlain(h) \/ Close(h) \/ Crash(h)
    \/ PowerLoss

Spec == Init /\ [][Next]_vars

(***************************************************************************)
(* A goroutine that can run does run, and a lock that keeps being let go is *)
(* granted in the end: sync.Mutex hands over to a waiter it has starved for *)
(* a millisecond, and the kernel wakes flock waiters in order.  Nobody is   *)
(* obliged to call, to open, to fail or to close.  On a closed file flock   *)
(* does not wait, it fails.                                                 *)
(***************************************************************************)
Inside(t) == pc[t] \in Locked \cup {"openTail", "openUnlock"}
Holds(t)  == Inside(t) /\ ~Shut(t)
Runs(t)   == Inside(t) \/ (pc[t] = "lock" /\ Shut(t))

FairSpec ==
    /\ Spec
    /\ \A t \in Threads : /\ WF_vars(Runs(t) /\ Step(t))
                          /\ SF_vars(TakeMu(t))
                          /\ SF_vars(TakeLock(t))
-----------------------------------------------------------------------------
(***************************************************************************)
(* Properties.                                                              *)
(***************************************************************************)
\* The types; and a mutex that is held is held by a call on its handle.
TypeOK ==
    /\ WellFormed(file)
    /\ open \subseteq Handles
    /\ resumed \in [Handles -> Hash]
    /\ mu \in [Handles -> Threads \cup {None}]
    /\ flock \in Handles \cup {None}
    /\ pc \in [Threads -> PCs]
    /\ on \in [Threads -> Handles \cup {None}]
    /\ body \in [Threads -> Hash]
    /\ tail \in [Threads -> [hash : Hash, nl : BOOLEAN]]
    /\ done \in [Threads -> Nat]
    /\ acked \subseteq [by : Handles, at : Nat, line : Line]
    /\ calls \in 0..MaxCalls
    /\ \A h \in Handles : mu[h] # None => pc[mu[h]] \in {"lock"} \cup Locked /\ on[mu[h]] = h

\* At most one thread is past the file lock, whatever handles and processes
\* are involved, although an unlock may have failed and left the lock held and
\* a Close may have freed it under a call, which then does nothing more
\* (ChainedWriter: the lock is the open file's, mu the goroutines').
OneInside == \A t, u \in Threads : Holds(t) /\ Holds(u) => t = u

\* A line Write returned nil for stays in the stream as a line of its own,
\* whole and unaltered, through later writes, failed ones included, crashes
\* and restarts (ChainedWriter.Write: "e is never glued onto a fragment").
Kept(a) == a.at \in 1..Len(file) /\ file[a.at] = a.line
ChainedAcksKept == \A a \in acked : a.by \in Chained => Kept(a)

\* The locks, handles and failures above amount to writes that are one step
\* each and chain from what is last on disk at that step.
LogRefined == LogInit /\ [][LogNext]_file

\* resumedFrom is what the file held when the constructor returned (or
\* nothing, were the tail unreadable): no writer got in between.
ResumesFromDisk ==
    [][\A h \in open' \ open : resumed'[h] \in {None, TailHash(file')}]_vars

\* While the lock can be released it is, panics and failed writes included:
\* no writer of the file waits for ever behind one that has gone away.
LockReleased == \A h \in Handles : flock = h ~> flock # h

\* So every Write that was started returns.
WriteReturns == \A t \in Threads : pc[t] \in {"mu", "lock"} ~> pc[t] = "idle"
-----------------------------------------------------------------------------
(***************************************************************************)
(* The inductive invariant behind the safety properties.                    *)
(***************************************************************************)
\* Who holds what: past the file lock the lock is the handle's own, from
\* mu.Lock to the return the mutex is the thread's, and a handle that is being
\* opened is used by nobody else.
Discipline ==
    \A t \in Threads :
        /\ Holds(t) => flock = on[t]
        /\ pc[t] \in {"lock"} \cup Locked => mu[on[t]] = t
        /\ pc[t] \in Writing => on[t] \in Handles /\ body[t] \in Content
        /\ pc[t] = "tail" => on[t] \in Chained
        /\ pc[t] \in Opening => /\ on[t] \in Chained \ open
                                /\ \A u \in Threads :
                                      pc[u] # "idle" /\ on[u] = on[t] => u = t

\* What readTail returned is still so when the line is appended.
TailCurrent ==
    \A t \in Threads :
        /\ pc[t] \in {"idle", "mu", "lock"} => tail[t] = NoTail
        /\ pc[t] = "append" /\ ~Shut(t) =>
              tail[t] = IF on[t] \in Chained
                        THEN [hash |-> TailHash(file), nl |-> EndsNewline(file)]
                        ELSE NoTail

\* A line written and not yet acknowledged is there to be acknowledged, unless
\* the writer was closed and nothing will be.
DoneKept ==
    \A t \in Threads : done[t] # 0 =>
        /\ pc[t] = "unlock"
        /\ on[t] \in Chained /\ ~Shut(t) => /\ done[t] \in 1..Len(file)
                                            /\ file[done[t]] = Stamped(t)
===============================================================================
