# agent-stack-go: a verification project

TLA+ models of the parts of agent-stack-go that have state: the event stream
and its hash chain, the checkpoint sidecar, the verifier that watches a bus of
streams, the memories that make a proof single use, the revocation list, the
doors that ask both, the delegation chain, and the client that keeps a delegated
key renewed.
TLC checks them on small instances, and TLAPS proves the results that matter
most for every value of the constants.

Paths below are those of the repository (`event/chain.go` is
`src/event/chain.go`). `PROJECT.json` maps every definition to the lines it
models, and lists the runs, the seeded faults, the hazards and the theorems.

## 1. Inventory

| Component | State | Operations | Hard behaviour |
|---|---|---|---|
| Stream writers: `event.Writer`, `event.ChainedWriter`, `lock_flock.go` | the file; per handle a mutex, the flock of its open file, `resumedFrom` | `NewWriter`, `NewChainedWriter`, `Write`, `Close` | goroutines and processes on one file; failing lock, read, write, unlock; panic, crash, power cut |
| Chain verifier: `event.VerifyChain` | one line of memory: the last digest, whether there is one, whether it is known; the report | one pass over the lines | the file grows while it is read; lines that are malformed, blank or cannot be hashed; segments that open mid-chain |
| Checkpoints: `CheckpointedWriter`, `VerifyCheckpoints` | sidecar; in memory the running SHA-256, count, offset, head, previous record, sidecar size, pending | open (cut a torn record, resume record), write, advance, record, close, verify | crash between line and record; other writers' lines; the stream cut underneath; reading two files while both are written |
| `agent-conform watch-dir` | state file and its temporary sibling; in memory the reported keys, findings, exit code | load, verify a stream and its sidecar, alert, save, refuse, exit | crash between alert and save; any call failing, a write that fails with its line on the bus included; overlapping passes; a bus that changes during a pass |
| Replay memories: `ReplayCache`, `dpop.Verifier` | two generations of identifiers with a start; a map of identifiers with their `iat` | `CheckAndRecord`; `remember` with its sweep | clock read before the lock; boundaries of the window; the cap; restart |
| Revocation list: `Revocations`, `Fetch`, `Refresh` | last snapshot, `fetchedAt`, maximum age, fail mode, counter of refused cursors | `Refresh` = clock, fetch, `Install`; `SetMaxAge`; `Check` | answers late, lost, out of order, about an earlier moment; a list that ages |
| Access doors: `VerifyAccess`, `VerifyRelayedAccess`, `Verifier.Verify` | none of their own | sequences of checks that end in the memories above | which check comes before the one that spends the proof; one question per party of the chain while the list is refreshed |
| Delegated key client: `keyclient/delegated.go` | renewal mutex, keys with validity, next try | `RenewIfDue`, `Run`, `Sign`, `Current` | a renewal racing an expiry; retries; concurrent callers |
| Key set client: `keyclient/jwks.go`, `client.go` | the last key set | `Refresh`, lookups | a set is replaced whole or not at all |
| Delegation chain: `delegation/chain.go`, `chain/chain.go` | none | `BuildAct`, `ReadAct`, `Extend`, `Append`, `Validate` | depth limits counted on two sides |
| JOSE: `delegation/jose.go` | none | sign, verify, thumbprint | encodings and cryptography |
| Passport: `passport/` | none | load, validate | none that is not a unit test |
| `agent-conform validate / verify`, tolerant readers, `internal/apisurface` | counters | loops over files | none |

How they interact. A `CheckpointedWriter` is a `ChainedWriter` whose lock it
keeps while it looks at the stream and writes its record. `VerifyChain` and
`VerifyCheckpoints` read the stream and the sidecar with no lock. `watch-dir`
calls both for every stream of a directory and is itself a `ChainedWriter` of
its own output stream. The doors call a `Verifier` or a `ReplayCache`, and ask
the revocation list `Check`; a poller (the caller's loop) calls `Refresh`.

What makes each correct:

- *Writers*: a write is one atomic step that chains from what is last on disk;
  an honest stream never shows a break, whatever failed; an acknowledged line
  stays; the lock is always let go.
- *Chain verifier*: it accuses exactly the genuine breaks, whatever it forgets.
- *Checkpoints*: a refused record means that the stream was rewritten; a record
  says what the stream holds; no `Every` lines go unrecorded.
- *watch-dir*: nothing is remembered that was not reported; a loss costs one
  duplicate; a restart whose record stands and can be read is not called unexplained; exit codes do not lie; a break that stays is reported in the end.
- *Replay memories*: a proof is accepted once, and nobody whose proof carries an
  identifier is told of a replay that was none.
- *Revocations*: a revoked token stops working in bounded time and for good.
- *Doors*: what the list or the claims refuse spends no proof; a revoked party of
  any chain is refused, whichever lists its questions meet; a chain handed out is
  one the record takes.
- *Delegation chain*: the two directions are inverse, and the two packages that
  state its limits agree.
- *Delegated key*: custody is not hammered, an outage shorter than half a key's
  life is not noticed, and signatures never go back to an older key.

## 2. Plan

Order, most important first. Done in this state of the project: 1 to 11.

1. `ChainLog` (abstract stream) and `ChainedStream` (writers), refinement, proofs.
2. `ChainVerify` over `ChainLog`, proofs.
3. `Checkpoints` over `ChainLog`.
4. `ProofReplay`, proofs.
5. `Revocations`, proofs.
6. `WatchDir`, which takes the verdicts of 2 and 3 as data, proofs.
7. `KeyRenewal` (`keyclient/delegated.go`), proofs.
8. `DelegationChain` (`delegation/chain.go` against `chain/chain.go`), proofs.
9. `AccessDoor` (`access.go`, `verify.go`), which composes 4, 5 and 8, proofs.
10. `TailWindow` (the bytes of `readTail`), over 2 and compared with 1 and 2.
11. Proofs for `Checkpoints` and `TailWindow`, with those of 2 in `ReadersProofs`, and of
    `ResumesFromDisk`.
12. Left: what `Checkpoints` promises of several checkpointed writers, which is less than
    what its theorems say of one (section 7), as a property of its own.

Abstract specifications: `ChainLog!LogSpec` (one operation, one step) is
implemented by `ChainedStream`, is what `ChainVerify` and `Checkpoints` use
for other writers, and is in turn implemented by `Checkpoints` whole (a cut is one
of its power losses). `ProofReplay` and `Revocations` are in turn what `AccessDoor` implements: it
instantiates both, the requests of the first being an expression over its own
(`Waiting`), and their theorems hold behind the doors.

## 3. The modules

### ChainLog: a stream as data, and the abstract stream

A stream is a sequence of physical lines: an event, junk, or blank; only the
last may lack its newline. The digest of a line is its body without
`prev_hash`: SHA-256 over RFC 8785 JSON is taken to be injective. `Hashable`
separates the events JCS refuses, which parse but have no digest. `Put` says
what write(2) in append mode does after an unterminated line: bytes are glued on,
which spoils both lines unless the first was white space. `TailHash` is what
`readTail` finds, `ShortWrites` what a write that fails midway leaves,
`PowerCuts` what an unsynced file can lose. `IsBreak` is the meaning of a
break. `LogSpec` has a chained append, a plain append, their failures and a
power cut, each one step.

### ChainedStream: the writers

State: which handles are open, each handle's mutex `mu` (`ChainedWriter.mu`),
the holder of the file's `flock`, and for each goroutine its program counter
and the locals of its call. One action for each call the code makes:
`TakeMu`, `TakeLock`, `ReadTail`, `AppendLine`, `Ack`, `Finish`, with a failing
form of each (`LockFails`, `ReadTailFails`, `AppendFails`, `FinishFails`), `Panic`
(recovered by the caller; the deferred unlock runs), `Crash` of a process and
`PowerLoss`. The constructor is three steps under the lock. `Close` takes no mutex and
is one step that may come at any moment of a call on its handle: it lets go of the
lock with the open file, and whatever that call still asks of the file (`Shut`)
fails.
flock(2) belongs to the open file: a handle that holds the lock is granted it
again, so `mu` is what keeps apart goroutines of one handle, and only the pair
makes a write atomic.

### ChainVerify: VerifyChain

One action per kind of line of the loop of `verifyChain`, with its three
variables of memory (`prevHash`, `prevSeen`, `prevKnown`), while `Grow` appends
to the stream as `ChainLog` writers do. Reports are sets of line numbers. The
properties compare them with definitions over the whole stream. A restart is a head that
is not the first line (`LaterHeads`), as the comments of `event/chain.go` have it; in a
stream that does not open with a head the code names fewer, and `RestartsNamed` says so.

### Checkpoints: the sidecar

`Open` (cut a torn record, hash the stream, decide on a resume record), `Write`
(the event, `advance`, the record, in three steps: a crash may come between),
`Close`, a failing form of each, `Crash`, `CrashWriting`. The running SHA-256
`c.sum` is the sequence of lines hashed into it; `sum` and `last` differ as in the
code when a scan stops midway. Other writers are `ChainLog` steps that run only
while the lock is free. `Shrink` is a hand that cuts the stream, once.
`ReadSidecar` and `ReadStream` are the two reads of `VerifyCheckpoints`, and
`Holds` is `checkRecord`. Signatures are left out: a key that has expired leaves
a record unsigned, which changes no verdict the properties are about.

### ProofReplay: the two memories

`Verify` is the reading of the clock and every check before the memory, the refusal of a
proof that carries no identifier (`NoJti`) included, which is `ErrReplay` at its first showing;
`CheckAndRecord` and `Remember` are the critical sections of `ReplayCache` and of
`Verifier`. Which memory a process asks is chosen at the start (`memory`). A reading of
the clock may be `Slack` seconds old by the time the lock is taken, so requests
may take their turn in the opposite order of their readings; `ordered` is the
history variable that says whether any has. `Restart` empties both memories, and
with them what single use was promised for.

### Revocations: the polled list

`Refresh` is `Send` (the clock is read), `Answer` or `FetchFails`, and `Install`
with its two refusals. Any number of `Polls` are in flight at once, and end in any
order. The service is external: it records revocations of tokens and of parties
and serves, from an instance up to `Lag` seconds behind, the live entries and the
second they describe. `failClosed` is chosen at the start, as the constructor
does. `Check` is an operator of the state and a second. `Restart` loses the list,
and its cursor with it.

### DelegationChain: one chain, two forms

A chain is a sequence of names, root first; an `act` claim is the sequence of its
nested names, outermost first. `BuildAct`, `ReadAct`, `Extend` and `Chain` are the
functions of `delegation/chain.go`, with their refusals apart (`Buildable`,
`Readable`, `Extendable`, `Chained`); `Appendable` and `Validates` are those of
`chain/chain.go`, which states the same limits again because the first package may
not use the second.

### AccessDoor: the doors, in front of memory and list

A request arrives (`Arrive`) with a token and a proof: the clock is read and every
check that touches nothing shared is one guard, `Admits`, for `VerifyAccess`,
`VerifyRelayedAccess` and `Verify`; one that fails it changes nothing, but that a fresh
proof with no identifier is told of a replay (`ArriveUnnamed`). What is left
is a sequence of questions in the door's own order (`Steps`): `VerifyAccess` asks
the list, then the memory; `Verify` the memory, then reads the binding and the
chain (`ReadBinding`), then asks the list about each party in turn (`AskList`).
Between any two of them the list may be refreshed, other requests take their
turns, the clock moves and the process restarts. `memory`, `started` and so on
are the variables of `ProofReplay`; its requests are `Waiting`, those here whose
next question is the memory's. `accepted` keeps which proofs were accepted.
A token is a record of what its claims say; `ours` says whether signature, issuer
and audience hold, and `fits` the same of a proof's own signature and request.

### TailWindow: the bytes of readTail

`ChainLog!TailHash` takes the last line of a stream for granted; `readTail` looks for
it backwards, in reads that double up to a window. `TailWindow` is that loop as a
function of the bytes (`Looks`, the reads; `LastLook`, the cases that end it; `Found`,
the one that has the line). `Bytes` are the files that a stream of `ChainVerify` may
be written as, and the answer is compared with `TailHash` and with what the reader
of that stream remembers at its end. Bytes are of a few kinds, enough to tell an
event from the end of one. What a failing read does is `ChainedStream!ReadTailFails`.

### WatchDir: passes over a bus

One step per call that touches a file: load the state, verify a stream, verify
its sidecar, open the output, write an alert, save the state (truncate the
sibling, write, rename), close, refuse, exit; a failing form of each; a crash
anywhere. A stream is a sequence of lines of which `ChainVerify` tells four kinds (a head,
a linked event, one that contradicts the event before it, no event), read in one step to
its end or to any line when a cap or an oversize line ends the read (`Part`); what
a pass makes of the lines it read (`Findings`) is derived from them. A sidecar is the
records refused and the lines that valid resume records name. Both change at any time, between a
pass's two reads too: writers append (`Grow`) and put resume records (`ResumeRecord`), which
no head line waits for, since the code writes none after an unterminated fragment; anybody
else replaces the stream (`Tamper`), and then no record whose bytes changed holds any
more, and of the others any. `AlertFails` is a `Write` that returned an error: with nothing on
the bus, or with the whole line there, as after a failed unlock (`Written`). `unnamed` and
`lost` are history: restarts that stood on the bus with no record naming the event before them,
and lines whose record stopped holding.

### KeyRenewal: a delegated key

`Run` and any number of `Callers` go through `RenewIfDue`: `Call` up to
`renewMu`, then `NotDue` or `Ask`, which keeps `renewMu` for the two requests,
then `Certified` or `Fail`. A key is the two times of its statement; `Answers`
is what `renew` may come back with, by custody's clock, `LifeAsked` the check of
`checkStatement` that the times are subject to, and every other refusal, error,
timeout or cancellation is `Fail`. `Run` goes on with `Sleep` (whose length is
`NextDue`), `Wake` and `Leave`. `Sign` stands for `Sign` and `Current`, and keeps
the start of the key it used as a history variable, as `failed` and `lastFail` keep
the failures. `Restart` is a new process with no keys. `Tick` lets a second pass
unless `Run` could take its next step or a request has had its time.

## 4. What is checked

| Run | Distinct states | What it shows |
|---|---|---|
| `ChainedStream_safety` | 283 thousand | two calls of two goroutines, two chained writers and a plain one, every failure, crashes and power cuts: `OneInside` (mutual exclusion past the lock), `NoBreaks`, `ChainedAcksKept`, `LogRefined` (the refinement), `ResumesFromDisk` |
| `ChainedStream_live` | 216 thousand | three calls, one chained writer and a plain one, under fairness, when unlocks succeed: `LockReleased`, `WriteReturns` |
| `ChainVerify_scan` | 142 thousand | all streams of three lines, honest and forged, growing, and each as the bytes it may be written as: `BreaksAreGenuine`, `EveryEventJudged`, `RestartsNamed`, `TailIsExact` |
| `Checkpoints_writer` | 2.5 million | one checkpointed writer, a chained and a plain one, a cut, events JCS refuses: `RefusedMeansRewritten`, `RecordsSpeakTheTruth`, `EveryLines` |
| `Checkpoints_odd` | violation | `EveryLinesOfAny` fails, see section 7 |
| `Checkpoints_torn` | violation | `ResumeNamed` fails, see section 7 |
| `ProofReplay_both` | 3.2 million | two requests racing for either memory, turns in either order: `CacheAtMostOnce`, `SeenAtMostOnce`, `NoFalseReplay` |
| `Revocations_poller` | 5.1 million | two polls that overlap, several instances, either fail mode, restarts: `RevokedWithinMaxAge`, `HitsPersist`, `NeverReplacedByEarlier` |
| `AccessDoor_doors` | 1.0 million | two requests at the three doors, one memory, one list: `MemoryRefined` (the refinement), `RefusalSpendsNothing`, `RevokedPartyRefused`, `AcceptedIsRecordable` |
| `KeyRenewal_loop` | 1.5 million | `Run` and one more caller, cancellation, restarts: `GapNeedsFailures`, `NeverOlder`, `Spaced` |
| `WatchDir_pass` | 0.4 million | passes with two faults, a stream that grows and is rewritten once: `RecordedIsOnTheBus`, `OneDuplicateAtWorst`, `UnexplainedOnlyIfUnnamed`, `NeverHalf`, `CleanExitIsComplete`, `BreakIsReported` |
| `WatchDir_refusal` | violation | `RefusalExitsOne` fails, see section 7 |

Every property of a passing run has a mutant: an operator named `Seeded fault`
in its module, which replaces one definition by a plausible bug and makes the
property fail under the same configuration.

### Bounds, and why they are enough

- `ChainedStream`: the safety run has two calls, which is what a race takes, with
  every failure, a handle closed under a call, and power cuts; the live run has a third call, which meets what
  the two left, on a stream that starts with an event and a fragment. In the
  safety run streams start fresh, torn, with an event JCS refuses, with a last line
  that lacks its newline, and with white space. Two bodies that hash differently
  make a wrong `prev_hash` visible. Threads and chained handles are symmetric
  (safety run only).
- `ChainVerify`: the reader remembers one line, so every case of its memory is
  reached by three lines (before, accused, and what comes between); the
  stream then grows to four.
- `Checkpoints`: `Every` is 2, so three lines hold a record, lines since, and
  a line of somebody else; two records hold a chain. The stream starts fresh,
  with a fragment, and with a malformed line.
- `ProofReplay`: window 1, so a generation is 2 seconds and 5 seconds hold two
  rotations and a gap of two generations; cap 1 is full after one identifier; proofs are dated
  at every second, with an identifier or without; a
  `Slack` of 1 puts readings out of order. A process gives 4 turns (`MaxTurns`): a
  proof, one that rotates it away, one more rotation and the proof again.
- `Revocations`: two tokens of one agent, one issued after a revocation of the
  other's can have been recorded; two polls are what it takes to overlap; maximum
  ages below and at what the poll can meet; 5 seconds are the tokens' life.
- `AccessDoor`: an agent's token, a delegation to it, and one with as many actors
  as the record has entries (`MaxDepth` 2); one proof of the right key, one of
  another and one with no identifier; the agent may be revoked. The tokens end at different
  seconds. Every token here is admissible, so that each
  state is one of a request under way; what is not admitted changes nothing. One
  poll, since overlapping ones are the subject of `Revocations`.
- `TailWindow`: a window of four takes the shortest event and the newlines on both
  sides of it, exactly; a space before or after it, or blank lines behind it, put
  it out of the window; reads of 1, 2 and 4 bytes double twice.
- `WatchDir`: one stream of three or four lines: one whose writer died, which the next
  head restarts, with its resume record or without; one with a break and a restart after it; one
  that nothing chains. Four lines are what an explained restart takes (head, linked, fragment,
  head). One change by somebody else, one refused record; two faults are a failure and a crash,
  or two of either.
- `KeyRenewal`: a life of 12 seconds, a wait of 2, requests of 1 and a skew of 1
  give each half of a life room for two failures, and 20 seconds hold a key, its
  renewal and the end of the second key. The theorems lift all of these.

### Fairness

`ChainedStream!FairSpec`: weak fairness of each step of a thread inside a call,
strong fairness of being granted the mutex and the lock. Goroutines inside a
call are scheduled; Go's mutex and flock(2) hand over to waiters, and a caller
that waits is not passed over for ever (Go's mutex has a starvation mode).
Starting a call, failing and crashing are not fair: nothing has to be written or to fail.

`WatchDir!FairSpec`: weak fairness of `Proceed`: a pass goes on, and a next one is
started, by `-every` or by the job that runs the command. Faults are bounded, so
some pass in the end is free of them.

## 5. What is proved

| Theorem | Statement, for every value of the constants |
|---|---|
| `ChainLogProofs!LogNeverBreaks` | the abstract stream never shows a break |
| `ChainedStreamProofs!TypesCorrect` | type invariant |
| `ChainedStreamProofs!MutualExclusion` | at most one thread is past the file lock |
| `ChainedStreamProofs!Refinement` | `ChainedStream` implements `LogSpec` |
| `ChainedStreamProofs!NeverBreaks` | writers never make a broken stream |
| `ChainedStreamProofs!AcksAreKept` | an acknowledged chained line stays whole |
| `ChainedStreamProofs!ResumesTrue` | a constructor returns what the file holds at its return, or nothing |
| `ReadersProofs!BreaksExact`, `JudgedRight`, `RestartsRight`, `ReportTyped` | the reader's verdicts are those of the whole stream; it names only restarts, and all of them where the stream opens with a head |
| `ReadersProofs!TailExact`, `TailImplemented` | whatever the stream, its bytes, the reads and the window, `readTail` finds the line the reader will judge by, or nothing when the window does not hold it; within the window it is `TailHash` |
| `ReadersProofs!LineNamed` | a new record names a line of the stream and the event on it; any number of checkpointed writers, reads that fail midway |
| `ReadersProofs!RecordsTrue` | and the bytes through it; any number of checkpointed writers, no read fails midway |
| `ReadersProofs!RefusalsGenuine` | a record is refused only of a stream somebody cut; one checkpointed writer, no read fails midway |
| `ReadersProofs!EveryCounted` | fewer than `Every` lines are in no record; one checkpointed writer, reads that fail midway |
| `ReadersProofs!HonestNeverAccused` | the reader reports no break in a stream that had none, while writers of both kinds append to it, tear and glue it |
| `ReadersProofs!CheckpointedRefines`, `CheckpointedNeverBreaks` | checkpointed writers, with whoever writes beside them, implement `ChainLog!LogSpec`: their stream gets no break either |
| `ProofReplayProofs!Typing`, `SingleUse`, `SingleUseSeen` | both memories accept a proof once while turns come in the order of their readings |
| `ProofReplayProofs!HonestRefusals` | in any order, only what was accepted is refused as a replay, proofs without an identifier excepted |
| `RevocationsProofs!Typing`, `RevocationBounded` | fail closed, a revoked token stops within the maximum age and the lag |
| `RevocationsProofs!NothingOlderLost`, `NothingUnrevokes` | a settled entry stays held, and refuses, while it is alive |
| `AccessDoorProofs!ActInverse`, `DoorAgreesWithRecord`, `HopIsAccepted` | build and read are inverse; door and record state one rule; a further hop is accepted |
| `AccessDoorProofs!MemoryImplemented`, `ListImplemented` | the doors implement `ProofReplay` and `Revocations` |
| `AccessDoorProofs!SingleUseAtDoors`, `SpendsNothing` | a proof is accepted once, and one that has an identifier is spent only on acceptance |
| `AccessDoorProofs!PartiesRefused`, `Recordable`, `Typing` | every party of an accepted chain was asked about in time; the chain can be recorded |
| `KeyRenewalProofs!Typing`, `SignsForward` | a process never signs with an older key than it did |
| `KeyRenewalProofs!NeverAskedEarly` | custody is asked by one goroutine at a time, and only when it is time |
| `KeyRenewalProofs!HalfALifeToRecover` | while `Run` runs, only failures that fill half a life leave it without a key |
| `WatchDirProofs!NothingLost` | what is remembered as reported is on the bus |
| `WatchDirProofs!RestartsExplained` | a restart is called unexplained only if no record named the line before it at some time, or a record stopped holding, or the sidecar could not be read |
| `WatchDirProofs!Typing`, `StateIsWhole`, `DuplicatesBounded`, `CleanExits` | one pass after another: the state file is never half of one, an alert is written twice only for a loss, a clean exit saved all |

The arguments:

- *ChainLog.* A step only alters the last line and adds one after it. A line with
  a `prev_hash` is appended only by `ChainedAppend`, with the digest of the line
  it lands behind, so it is no break; gluing turns lines to junk, which is no
  event; a prefix of an unbroken stream is unbroken.
- *ChainedStream.* Mutual exclusion is not inductive by itself: the invariant ties
  each thread past `TakeMu` to `mu` of its handle, and each thread past `TakeLock`
  to the flock held by its handle. Under it, what `ReadTail` saw is still the
  end of the file when `AppendLine` runs (`TailFresh`), so the append is the
  atomic `ChainedAppend`, and every other step leaves the file alone. `NeverBreaks`
  is then `LogNeverBreaks` through the refinement. A kept acknowledgement needs
  that an acknowledged line has its newline and that appends alter no line that has.
- *ChainVerify.* The invariant says what the three variables of memory mean: the
  digest of the last solid line when it is chainable and known, and that
  forgetting is honest; `lastEvent` is the last event read, and a restart is settled
  by the lines up to its own. Growth alters only lines the reader has not passed.
- *Resuming.* The tail an opening thread has read is still the file's while the thread
  holds the lock, which is `OneInside` again, and a handle that is not open has resumed
  from nothing (`OpenerCurrent`).
- *TailWindow.* Two halves, joined by the bytes of a file. Going back (`TailFound`): a suffix
  that holds a newline before something solid holds the last line whole, so the read that
  ends the loop returns what a read of the whole file would; a loop that ends at the window
  without such a newline found nothing, and then the file is not `InWindow`. Going forward
  (`BytesSpelt`): the bytes of the first *n* lines end with the last line that is not blank,
  then white space, and in a newline when line *n* has one (`Spelt`); a line more keeps that,
  so it holds of the file. What is hashed is then `TailHash`, and `Memory` of the previous
  argument says that the reader's `prevHash` is as well, since a pass that reports the end of
  the file has read every line (`AtEnd`).
- *Checkpoints.* A writer that has looked at the stream since it was last cut remembers how
  many lines it counted, which are still there, and the event on the last of them (`Remembers`);
  while no read fails, the hash at its last record position is of these very lines, and so is the
  running one unless a scan stopped before an event JCS refuses, which no scan gets past (`Hashed`).
  Others append only to lines that are not yet terminated, and a look counts only
  terminated ones, so the memory stays true while the writer is away; under the lock it is alone
  (`OneInLock`). A record copies this memory: `LineNamed` and `RecordsTrue`, for any number of writers.
  Two more parts hold for one writer: the sidecar ends where it believes it does, with the
  record it believes was last (`Position`), and every record in it holds of the stream, or the
  stream was cut (`SideTrue`); a sidecar read first is then true of a stream read later, which only
  grew. For `EveryCounted`, the lines counted are no more than those of some record, or of the
  open, and the `pending` ones (`Uncounted`).
- *ProofReplay.* A proof accepted at second *a* is fresh until *a* + 2 windows at
  most; it is in the current generation while that began by *a*, then in the
  previous one for a generation more, which is 2 windows.
  The histories make it inductive: `turn` is the latest reading used, and while
  `ordered` holds no rotation or sweep was made with a later reading than this one.
- *Revocations.* A list fetched by a poll that read the clock at second *n* has
  every live entry recorded before *n* minus the lag (`Complete`); that holds of an
  answer in flight, survives time and new entries, and is inherited on `Install`.
  A miss is answered while the list is younger than the maximum age.
  For the two action properties: every answer in flight is complete for the second
  it describes, so whatever passes the test of the cursor has each entry recorded
  before the second of the list it replaces.
- *DelegationChain.* Reversing a sequence twice gives it back, and a subject counts
  one: `MaxActorsWithSubject` and `MaxDepth` are one bound.
- *AccessDoor.* Under `DoorInv` (a request is in its door's order, its reading is at
  most `Slack` old and its proof fresh by it) a step of a request is a turn of
  `ProofReplay`, its arrival in front of the memory a `Verify` of it, and all else
  leaves that module's variables alone; `Revocations` is refined by dropping what is
  not its own. Both modules' theorems then hold of the doors, by instances of their
  proof modules. `SpendsNothing` needs that what the memory holds was accepted
  (`SpentOnAcceptance`). For `PartiesRefused`, each party asked about is `Cleared`:
  every entry that ends it is recent, or the token's life is over. That is read off
  `Complete` at the question, and no later revocation undoes it, since whatever is
  recorded afterwards is recorded at the clock, past the reading.
- *WatchDir.* For `NothingLost` the invariant follows keys through the state file,
  its sibling and the memory of each pass: only `Alert` adds an alert's key, and adds
  it to the bus. For `RestartsExplained` the invariant says of each restart on the bus that it is
  noted in `unnamed` or named by a record (`NamedOnBus`); a pass that has read the stream and not
  yet the sidecar keeps that, but that the record may have been lost meanwhile
  (`NamedWhenRead`), and a restart of the part that was read is one of the whole, behind the same
  event (`PartRestarts`). What the sidecar then fails to explain is excused. Both hold of any passes at once.
  The rest needs `OneAtATime`, since two passes share the sibling and one may rename
  what the other truncated. What the pass has in memory then contains the state file
  and equals it between saves (`Files`), a finding is new and listed once (`Pending`),
  and a key on the bus that the state file lacks is the one being saved or was paid for by
  a crash, a failed save or an alert that landed though its `Write` failed (`Paid`): writing it
  again is paid from the same loss.
- *KeyRenewal.* Every key lives exactly the life asked for, so of two keys the one
  that starts later ends later and is due later. The key that signed last is
  still held or has run out (`LastSigner`), so the next signature cannot reach
  behind it. For the gap, the invariant follows the attempt that is due: it comes
  no later than half-life plus one request and one wait for each failure since
  (`InTime`), because `Run` never sleeps past what is due, whatever other callers
  do to `nextTry` meanwhile (`RunWakes`), and a request does not outlast its
  timeout (`Underway`). At the end of a life that leaves half of it to fill.

Assumptions are the `ASSUME`s of the modules, weak enough for any use of the code:
`None` is not a body, handles or threads are not `None`, windows and ages are positive,
tokens live no longer than `MaxLife`, a key's life exceeds twice a renewal's requests
and the skew of custody's clock together (ten minutes against twenty seconds and
the skew), initial streams are unbroken, a line that contradicts
another has an event before it, the first byte of an event is not one of
white space or of the end of an event. Two theorems say in their statement that no read of the
stream fails midway (`~ScanMayFail`) and two that there is one checkpointed writer: without
that they are false of the code, as section 7 tells of each.

### Only model-checked

Liveness (`LockReleased`, `WriteReturns`, `BreakIsReported`): TLAPS does not treat
fairness and ENABLED. Every other property of a passing run is a theorem. Induction is by
the least counterexample (`ChainLogProofs!Least`), over a set of numbers that the lemma
names: the bytes of a stream are built by a recursive function, and what it is (`GluedIs`) and
what its values are like (`BytesSpelt`) are proved that way. No module has a RECURSIVE operator.

## 6. What is left out

- `lock_other.go`: on systems without flock there is no lock at all between
  processes; the models describe unix.
- Lines as bytes, but for `readTail`: caps and oversize lines are an end of a read
  at any line, and a chained writer always finds an event that ends its file, which
  `TailWindow` shows of those within the window; in `Checkpoints`, offsets are line counts, so a stream that was
  cut and grew past the old offset between two looks is told from one that was
  not only by the history variable `stale`, as the code cannot tell it at all.
- `Checkpoints`: power cuts (the chain's are in `ChainedStream`), and a truncate
  that fails after the append it undoes has failed.
- `ChainVerify`: termination. A file that grows for ever is read for ever.
- `WatchDir`: its own output stream among those it verifies, flags and key files; a stream
  that grows while it is read is read as it was at one moment.
- `Revocations`: an answer repeated on the way (section 7).
- `AccessDoor`: the optional parts of `Options` left out by a caller (no memory, no
  hook: then nothing is promised of single use or revocation); `maxProofJTIBytes`;
  tokens without a `jti`, which every door refuses; a clock that differs between
  `o.Now` and the hook's, which the caller binds.
- The key set client (`keyclient/jwks.go`): its one state is the last set, replaced
  whole, with no cursor and no age; nothing is promised of the order of refreshes.
- `KeyRenewal`: a wall clock that is set back; a computer that sleeps through `Run`'s
  timer, or a goroutine that is not scheduled for seconds (`Tick`).
- JOSE, passport, printing and the readers have no state to check.

## 7. Divergences met while modelling

Checked by a violation run:

- `Checkpoints_torn`. `event/checkpoint.go:156` promises a resume record when a
  stream ends in a fragment. `openCheckpointer` looks only at lines that end in a
  newline, so a fragment without one, which is what a killed writer leaves, gets
  none. `watch-dir` will then call the restart unexplained.
- `Checkpoints_odd`. `event/checkpoint.go:158` promises a record every `Every`
  lines. An event that parses and that JCS refuses, written by a plain `Writer`,
  stops every later `advance` at that line: no record is written again.
- `WatchDir_refusal`. `cmd/agent-conform/watchdir.go:37` promises that a refusal
  makes the run exit 1 the first time. A pass in which something else failed
  exits 2 and remembers the refusal, so no pass exits 1 for it.

Seen in the models by changing a constant, not among the runs:

- Without `ordered` both memories accept a proof twice: a request with a later
  reading rotates (or sweeps) what one with an earlier reading, still fresh,
  needs. Two requests must read the clock on either side of a second and take the
  lock in the opposite order. `delegation/replay.go` says that "no entry is forgotten
  while a proof carrying it could still be fresh", by the clock of its caller.
- `InWindow` asks for more than the scanner of `VerifyChain`: the newline before the line
  and the blank lines after it must be in the window too. `event/chain.go:44` says "any
  line the verifier can judge, a writer can chain from"; behind a line of one byte less
  than the cap with its newline a writer starts a fresh chain, a restart.
- With two `CheckpointedWriters` of one stream `RefusedMeansRewritten` fails: each
  chains its records from its own last one.
- With `ScanMayFail` `RecordsSpeakTheTruth` fails: a read that fails midway leaves
  `c.sum` ahead of `c.off`, and the next look hashes the lines again.
- Of two polls in flight the one that saw less may be installed last when both
  describe one second, since equal cursors are accepted: an entry of that very second
  is gone until the next poll. `Settled` therefore speaks of entries recorded
  before the second. An answer repeated by a cache on the way resets
  the age each time, so `RevokedWithinMaxAge` holds only without one.
- With two `Watchers` `NeverHalf` fails: the temporary sibling has one name.
- A plain `Writer` after a fragment acknowledges an event that is part of a
  malformed line (`event/event.go:193` does not look at how the file ends).
- `event/chain.go:458` calls a head that is not the first line a restart. In a stream that
  does not open with a head (a segment that opens mid-chain, a malformed first line) the
  code does not name the first one (`event/chain.go:513`). `RestartsNamed` states both: what is
  named is a restart, and all are named where the first line is a head.
- `watch-dir` calls a restart of an honest writer unexplained in three cases that
  `UnexplainedOnlyIfUnnamed` lists: the writer left no resume record, which is what it does after an
  unterminated fragment (`event/checkpoint.go:395`); the record stopped holding because bytes it
  covers were changed; a pass could not read the sidecar, and remembers its answer (`blind`).
- `watchdir.go:39` says that a finding is written once, and `:528` that after a failed `Write`
  "the alert never reached the bus". A `Write` whose unlock fails returns an error with the line on
  disk (`event/chain.go:303`), and the next pass writes the alert again: `OneDuplicateAtWorst`
  counts that with the crashes and the failed saves.
- A proof with no `jti` is answered `ErrReplay` at its first showing (`delegation/dpop.go:191`),
  bare by `Check` and `Verify`, inside `ErrWrongKey` by `VerifyAccess` (`access.go:236`), whose doc says
  "a replayed proof is `ErrReplay`". `NoFalseReplay` and `RefusalSpendsNothing` except it.
- `revocations.go:336` says that `fetchedAt` is the clock "when the held list was installed".
  `Refresh` installs with the reading it was handed before it asked (`revocations.go:513`), and the
  age counts from that; `RevokedWithinMaxAge` needs it to.
- `RenewIfDue` says that it asks "when no key is valid"
  (`keyclient/delegated.go:90`). With custody's clock ahead the newest key may not
  have begun: no key is valid, and it does not ask. `GapNeedsFailures` speaks of
  keys that ran out, for that reason.
- The shortest life the client takes is ten minutes and its wait after a failure
  five: half a life is one wait, and a single failure at half-life can leave the
  process without a key for the length of a request.
- `VerifyAccess` asks the memory last so that "a proof spent on a refused
  presentation is not spent at all" (`access.go:219`). `Verify` does not: it spends
  the proof before it looks at the key, the chain and the list (`verify.go:157`), so
  there a retry after a refusal is told of a replay. It does not promise otherwise.
- `verify.go:104` says that an agent token's claims "would read as a chain of one".
  A token without `act` does not: `decodeAct` of an absent claim leaves the zero
  `Act`, `ReadAct` finds an actor with no name, and `Verify` answers `ErrMalformed`.
- An agent token is accepted for `AgentTokenLeeway` after its `exp` (`access.go:169`).
  An entry of the list is live while its `expires` is ahead (`revocations.go:148`), so
  if the service states the token's `exp` there a revoked agent token passes again
  for the length of the leeway. `AccessDoor` states the end of the leeway (`Until`).
  The doc of `Expires` ("the last moment a token it could match might still be valid")
  is one second off: at that second the entry is no longer live.
- A request that reads the clock in its token's last second and asks the list in the
  next may meet a list that has dropped the entry; `RevokedPartyRefused` leaves out
  a token whose life ended while it waited.
