------------------------------ MODULE Checkpoints ------------------------------
(***************************************************************************)
(* event/checkpoint.go: the sidecar a CheckpointedWriter keeps beside its   *)
(* stream, and VerifyCheckpoints reading both while they are written.       *)
(*                                                                          *)
(* Everything a writer does, its records included, happens under the lock   *)
(* of the stream, so other writers of the stream are the atomic steps of    *)
(* ChainLog (ChainedStream implements them) and run only while the lock is  *)
(* free.  A crash may come between an event, the look at the stream and the *)
(* record.  The running SHA-256 is the lines hashed into it, a digest is    *)
(* what was hashed, and a record's digest is a number of its own.           *)
(***************************************************************************)
EXTENDS ChainLog

CONSTANTS
    Writers,      \* CheckpointedWriters of the stream and its one sidecar
    Others,       \* who else writes: a subset of {"chained", "plain"}
    Every,        \* CheckpointConfig.Every
    ScanMayFail,  \* whether a read of the stream can fail midway
    MayShrink,    \* whether somebody may cut the stream, once
    MaxLines,     \* bound: lines of the stream
    MaxRecords    \* bound: records encoded in a behaviour

ASSUME CheckpointAssumption ==
    /\ Every \in Nat \ {0} /\ MaxLines \in Nat /\ MaxRecords \in Nat
    /\ Others \subseteq {"chained", "plain"}
    /\ ScanMayFail \in BOOLEAN /\ MayShrink \in BOOLEAN

VARIABLES
    side,      \* complete records of the sidecar
    torn,      \* whether a fragment of one follows them
    ids,       \* record digests given out
    pc,        \* where each writer is
    sum,       \* lines hashed into c.sum
    last,      \* c.last, the hash as it was after line count
    count,     \* c.count, and c.off in lines
    head,      \* c.head
    prev,      \* c.prev, 0 for the genesis value
    size,      \* c.size in records
    pending,   \* c.pending
    read,      \* the verifier's copy of the sidecar, None between two runs
    accused,   \* positions of the records its last run refused
    cut,       \* history: the stream was cut
    stale,     \* history: for each writer, and not hashed from zero since
    failed,    \* history: a record that was due failed since the last one
    base       \* history: lines of the stream when each writer was opened

mine == <<sum, last, count, head, prev, size, pending>>
log  == <<side, torn, ids>>
check == <<read, accused>>
vars == <<file, log, pc, mine, check, cut, stale, failed, base>>

\* Bytes glued together are a record of kind junk.
Kinds  == {"resume", "checkpoint", "close", "junk"}
Record == [id : Nat, kind : Kinds, count : Nat, head : Hash, prefix : Seq(Line),
           prev : Nat]
InLock == {"resume", "appended", "due", "close"}

\* Newline-terminated lines, the only ones a scan counts.
Lines(f) == IF EndsNewline(f) THEN Len(f) ELSE Len(f) - 1
Prefix(f, n) == SubSeq(f, 1, n)
HeadAt(f, n) == IF n \in 1..Lines(f) /\ Chainable(f[n]) THEN f[n].body ELSE None
\* The last line among them that is an event, 0 for none.
LastGood(f) ==
    IF \E n \in 1..Lines(f) : HeadAt(f, n) # None
    THEN CHOOSE n \in 1..Lines(f) :
            HeadAt(f, n) # None /\ \A k \in (n + 1)..Lines(f) : HeadAt(f, k) = None
    ELSE 0
\* An event JCS refuses ends a scan with an error.
Unhashable(l) == l.kind = "event" /\ l.body \notin Hashable

\* What a writer that is no more remembers.
Gone(w) ==
    /\ sum' = [sum EXCEPT ![w] = <<>>] /\ last' = [last EXCEPT ![w] = <<>>]
    /\ count' = [count EXCEPT ![w] = 0] /\ head' = [head EXCEPT ![w] = None]
    /\ prev' = [prev EXCEPT ![w] = 0] /\ size' = [size EXCEPT ![w] = 0]
    /\ pending' = [pending EXCEPT ![w] = 0] /\ base' = [base EXCEPT ![w] = 0]
    /\ stale' = [stale EXCEPT ![w] = FALSE]

LockFree == \A w \in Writers : pc[w] \notin InLock

Init ==
    /\ LogInit
    /\ side = <<>> /\ torn = FALSE /\ ids = 0
    /\ pc = [w \in Writers |-> "down"]
    /\ sum = [w \in Writers |-> <<>>]
    /\ last = [w \in Writers |-> <<>>]
    /\ count = [w \in Writers |-> 0]
    /\ head = [w \in Writers |-> None]
    /\ prev = [w \in Writers |-> 0]
    /\ size = [w \in Writers |-> 0]
    /\ pending = [w \in Writers |-> 0]
    /\ read = None /\ accused = {}
    /\ cut = FALSE /\ stale = [w \in Writers |-> FALSE] /\ failed = FALSE
    /\ base = [w \in Writers |-> 0]

-----------------------------------------------------------------------------
(* writeRecord. *)

Encoded(w, kind, n, h, prefix) ==
    [id |-> ids + 1, kind |-> IF torn THEN "junk" ELSE kind, count |-> n, head |-> h, prefix |-> prefix,
     prev |-> prev[w]]

\* Signed, or unsigned when the key has expired, which no verdict here depends
\* on.  What follows a fragment is glued onto it.
Recorded(w, kind, n, h, prefix) ==
    /\ ids < MaxRecords
    /\ ids' = ids + 1
    /\ side' = Append(side, Encoded(w, kind, n, h, prefix))
    /\ torn' = FALSE
    /\ failed' = FALSE

\* Seeded fault: the next record chains from where this one did.
WriteRecordUnchained(w, kind, n, h, prefix) ==
    /\ Recorded(w, kind, n, h, prefix)
    /\ size' = [size EXCEPT ![w] = @ + 1]
    /\ pending' = [pending EXCEPT ![w] = 0]
    /\ UNCHANGED <<sum, last, count, head, prev>>

WriteRecord(w, kind, n, h, prefix) ==
    /\ Recorded(w, kind, n, h, prefix)
    /\ size' = [size EXCEPT ![w] = @ + 1]
    /\ prev' = [prev EXCEPT ![w] = ids + 1]
    /\ pending' = [pending EXCEPT ![w] = 0]
    /\ UNCHANGED <<sum, last, count, head>>

\* The signer failed and nothing was written, or the append did and the sidecar
\* is cut back to the length this writer knows.
RecordFails(w) ==
    /\ failed' = TRUE
    /\ \/ UNCHANGED log
       \/ /\ size[w] <= Len(side)
          /\ side' = SubSeq(side, 1, size[w])
          /\ torn' = FALSE
          /\ UNCHANGED ids

-----------------------------------------------------------------------------
(* openCheckpointer. *)

LastId == IF side = <<>> THEN 0 ELSE side[Len(side)].id

CutTorn == FALSE

Open(w) ==
    /\ pc[w] = "down" /\ LockFree
    /\ \A n \in 1..Lines(file) : ~Unhashable(file[n])
    /\ torn' = CutTorn
    /\ prev' = [prev EXCEPT ![w] = LastId]
    /\ size' = [size EXCEPT ![w] = Len(side)]
    /\ sum' = [sum EXCEPT ![w] = Prefix(file, Lines(file))]
    /\ last' = [last EXCEPT ![w] = Prefix(file, Lines(file))]
    /\ stale' = [stale EXCEPT ![w] = FALSE]
    /\ count' = [count EXCEPT ![w] = Lines(file)]
    /\ head' = [head EXCEPT ![w] = HeadAt(file, Lines(file))]
    /\ pending' = [pending EXCEPT ![w] = 0]
    /\ base' = [base EXCEPT ![w] = Lines(file)]
    /\ pc' = [pc EXCEPT ![w] =
                IF Lines(file) > 0 /\ HeadAt(file, Lines(file)) = None /\ LastGood(file) > 0
                THEN "resume" ELSE "idle"]
    /\ UNCHANGED <<file, side, ids, check, cut, failed>>

\* The scan failed, or met an event that cannot be hashed: no writer.
OpenFails(w) ==
    /\ pc[w] = "down" /\ LockFree
    /\ \/ ScanMayFail
       \/ \E n \in 1..Lines(file) : Unhashable(file[n])
    /\ torn' = CutTorn
    /\ UNCHANGED <<file, side, ids, pc, mine, check, cut, failed, base, stale>>

Resume(w) ==
    /\ pc[w] = "resume"
    /\ LET n == LastGood(file) IN WriteRecord(w, "resume", n, HeadAt(file, n), Prefix(file, n))
    /\ pc' = [pc EXCEPT ![w] = "idle"]
    /\ UNCHANGED <<file, check, cut, base, stale>>

ResumeFails(w) ==
    /\ pc[w] = "resume"
    /\ RecordFails(w) /\ Gone(w)
    /\ pc' = [pc EXCEPT ![w] = "down"]
    /\ UNCHANGED <<file, check, cut>>

-----------------------------------------------------------------------------
(* CheckpointedWriter.Write: the event, then afterAppend. *)

Write(w, c) ==
    /\ pc[w] = "idle" /\ LockFree
    /\ Len(file) < MaxLines
    /\ ChainedAppend(c)
    /\ pc' = [pc EXCEPT ![w] = "appended"]
    /\ UNCHANGED <<log, mine, check, cut, failed, base, stale>>

\* The write failed: no look at the stream, no record.
WriteFails(w, c) ==
    /\ pc[w] = "idle" /\ LockFree
    /\ Len(file) < MaxLines
    /\ ChainedAppendFails(c)
    /\ UNCHANGED <<log, pc, mine, check, cut, failed, base, stale>>

\* advance: the stream is hashed on from where it was left, or from byte zero
\* when it has shrunk.
Shrank(w) == Lines(file) < count[w]
\* Seeded fault: a stream that shrank is hashed on from where it is.
FromNeverReset(w) == IF Shrank(w) THEN Lines(file) ELSE count[w]
From(w)   == IF Shrank(w) THEN 0 ELSE count[w]
Before(w) == IF Shrank(w) THEN <<>> ELSE sum[w]
\* What a scan of nothing but a fragment is undone to.
Settled(w) == IF Shrank(w) THEN <<>> ELSE last[w]
New(w)    == SubSeq(file, From(w) + 1, Lines(file))

Advanced(w) ==
    /\ \A n \in (From(w) + 1)..Lines(file) : ~Unhashable(file[n])
    /\ sum' = [sum EXCEPT ![w] =
                 IF New(w) # <<>> \/ Len(file) = From(w) THEN Before(w) \o New(w)
                 ELSE Settled(w)]
    /\ last' = [last EXCEPT ![w] = IF New(w) # <<>> THEN sum'[w] ELSE Settled(w)]
    /\ stale' = [stale EXCEPT ![w] = @ /\ ~Shrank(w)]
    /\ count' = [count EXCEPT ![w] = Lines(file)]
    /\ head' = [head EXCEPT ![w] =
                  IF New(w) # <<>> THEN HeadAt(file, Lines(file))
                  ELSE IF Shrank(w) THEN None ELSE @]
    /\ UNCHANGED <<prev, size>>

\* Seeded fault: a writer counts its own line and no other.
AddedOne(w) == 1
Added(w) == Lines(file) - From(w)

\* Enough lines, or (the clock says) enough time.
Advance(w) ==
    /\ pc[w] = "appended"
    /\ Advanced(w)
    /\ pending' = [pending EXCEPT ![w] = @ + Added(w)]
    /\ \E elapsed \in BOOLEAN :
          pc' = [pc EXCEPT ![w] =
                   IF pending'[w] # 0 /\ (pending'[w] >= Every \/ elapsed) /\ head'[w] # None
                   THEN "due" ELSE "idle"]
    /\ UNCHANGED <<file, log, check, cut, failed, base>>

\* A scan that ends early has hashed what it read, and that is not undone.
AdvanceStops(w) ==
    /\ \E k \in From(w)..Len(file) :
          /\ \/ ScanMayFail
             \/ k \in (From(w) + 1)..Lines(file) /\ Unhashable(file[k])
          /\ \A n \in (From(w) + 1)..(k - 1) : n <= Lines(file) => ~Unhashable(file[n])
          /\ sum' = [sum EXCEPT ![w] = Before(w) \o SubSeq(file, From(w) + 1, k)]
    /\ count' = [count EXCEPT ![w] = From(w)]
    /\ head' = [head EXCEPT ![w] = IF Shrank(w) THEN None ELSE @]
    /\ failed' = (failed \/ \A n \in 1..Lines(file) : ~Unhashable(file[n]))
    /\ last' = [last EXCEPT ![w] = Settled(w)]
    /\ stale' = [stale EXCEPT ![w] = @ /\ ~Shrank(w)]
    /\ UNCHANGED <<prev, size, pending>>

AdvanceFails(w) ==
    /\ pc[w] = "appended"
    /\ AdvanceStops(w)
    /\ pc' = [pc EXCEPT ![w] = "idle"]
    /\ UNCHANGED <<file, log, check, cut, base>>

Checkpoint(w) ==
    /\ pc[w] = "due"
    /\ WriteRecord(w, "checkpoint", count[w], head[w], sum[w])
    /\ pc' = [pc EXCEPT ![w] = "idle"]
    /\ UNCHANGED <<file, check, cut, base, stale>>

CheckpointFails(w) ==
    /\ pc[w] = "due"
    /\ RecordFails(w)
    /\ pc' = [pc EXCEPT ![w] = "idle"]
    /\ UNCHANGED <<file, mine, check, cut, base, stale>>

-----------------------------------------------------------------------------
(* CheckpointedWriter.Close. *)

Close(w) ==
    /\ pc[w] = "idle" /\ LockFree
    /\ Advanced(w)
    /\ pc' = [pc EXCEPT ![w] = IF count'[w] = 0 \/ head'[w] = None THEN "down" ELSE "close"]
    /\ UNCHANGED <<file, log, pending, check, cut, failed, base>>

CloseRecord(w) ==
    /\ pc[w] = "close"
    /\ Recorded(w, "close", count[w], head[w], sum[w]) /\ Gone(w)
    /\ pc' = [pc EXCEPT ![w] = "down"]
    /\ UNCHANGED <<file, check, cut>>

\* The lock, the scan or the record failed; the files are closed all the same.
CloseFails(w) ==
    /\ \/ pc[w] = "idle" /\ LockFree /\ UNCHANGED <<log, failed>>
       \/ pc[w] = "close" /\ RecordFails(w)
    /\ Gone(w)
    /\ pc' = [pc EXCEPT ![w] = "down"]
    /\ UNCHANGED <<file, check, cut>>

\* The process dies, a record it was writing half on disk.
Crash(w) ==
    /\ pc[w] # "down"
    /\ pc' = [pc EXCEPT ![w] = "down"]
    /\ torn' \in IF pc[w] \in {"resume", "due", "close"} THEN {torn, TRUE} ELSE {torn}
    /\ Gone(w)
    /\ UNCHANGED <<file, side, ids, check, cut, failed>>

\* Or an event.
CrashWriting(w, c) ==
    /\ pc[w] = "idle" /\ LockFree
    /\ Len(file) < MaxLines
    /\ ChainedAppendFails(c)
    /\ pc' = [pc EXCEPT ![w] = "down"]
    /\ Gone(w)
    /\ UNCHANGED <<log, check, cut, failed>>

-----------------------------------------------------------------------------
(* The other writers, and a hand that cuts the stream. *)

OtherWrites(c) ==
    /\ LockFree
    /\ Len(file) < MaxLines
    /\ \/ "chained" \in Others /\ (ChainedAppend(c) \/ ChainedAppendFails(c))
       \/ "plain" \in Others /\ (PlainAppend(c) \/ PlainAppendFails(c))
    /\ UNCHANGED <<log, pc, mine, check, cut, failed, base, stale>>

Shrink ==
    /\ MayShrink /\ ~cut                 \* bound: once
    /\ \E n \in 0..(Len(file) - 1) : file' = Prefix(file, n)
    /\ cut' = TRUE
    /\ stale' = [w \in Writers |-> TRUE]
    /\ UNCHANGED <<log, pc, mine, check, failed, base>>

-----------------------------------------------------------------------------
(* VerifyCheckpoints: the sidecar to its end, then the stream. *)

\* checkRecord, the i-th record of recs over the stream f.
Holds(recs, i, f) ==
    /\ recs[i].kind # "junk"
    /\ recs[i].count \in 1..Lines(f)
    /\ recs[i].head = HeadAt(f, recs[i].count) /\ recs[i].head # None
    /\ recs[i].prefix = Prefix(f, recs[i].count)
    /\ recs[i].prev = IF i = 1 THEN 0 ELSE recs[i - 1].id

Refused(recs, f) == {i \in 1..Len(recs) : ~Holds(recs, i, f)}

ReadSidecar ==
    /\ read = None
    /\ side # <<>>                        \* else ErrNoCheckpoints
    /\ read' = side
    /\ UNCHANGED <<file, log, pc, mine, accused, cut, failed, base, stale>>

ReadStream ==
    /\ read # None
    /\ accused' = IF \E i \in 1..Len(read) :
                       read[i].count \in 1..Lines(file) /\ Unhashable(file[read[i].count])
                  THEN accused            \* an error, and no verdict
                  ELSE Refused(read, file)
    /\ read' = None
    /\ UNCHANGED <<file, log, pc, mine, cut, failed, base, stale>>

-----------------------------------------------------------------------------
Step(w) ==
    \/ Open(w) \/ OpenFails(w) \/ Resume(w) \/ ResumeFails(w)
    \/ Advance(w) \/ AdvanceFails(w) \/ Checkpoint(w) \/ CheckpointFails(w)
    \/ Close(w) \/ CloseRecord(w) \/ CloseFails(w) \/ Crash(w)

Next ==
    \/ \E w \in Writers : Step(w)
    \/ \E w \in Writers, c \in Content : Write(w, c) \/ WriteFails(w, c) \/ CrashWriting(w, c)
    \/ \E c \in Content : OtherWrites(c)
    \/ Shrink
    \/ ReadSidecar \/ ReadStream

Spec == Init /\ [][Next]_vars
-----------------------------------------------------------------------------
\* "A record that does not hold is a refusal: the stream was rewritten before
\* that record's count, or truncated below it."  No other writer, crash, torn
\* record, failed append, expired key or restart makes the verifier refuse a
\* record, though it reads the two files while they are written.
RefusedMeansRewritten == accused # {} => cut

\* "The prefix is hashed from the stream as it stands, never from what this
\* writer believes it wrote": a new record names a line and the very bytes
\* through it, and once again so after a cut the writer has noticed.
RecordsSpeakTheTruth ==
    [][\A w \in Writers :
          pc[w] \in {"resume", "due", "close"} /\ Len(side') > Len(side) /\ ~stale[w]
          => LET r == side'[Len(side')] IN
             /\ r.count \in 1..Lines(file)
             /\ r.prefix = Prefix(file, r.count)
             /\ r.head = HeadAt(file, r.count)]_vars

\* "Then a record is written every Every lines": when Write returns, fewer than
\* Every lines written by anybody since the open are in no record, unless the
\* signer, the sidecar or a read of the stream failed.
FewerThanEvery(w) ==
    \E n \in {base[w]} \cup {side'[i].count : i \in 1..Len(side')} : Lines(file) - n < Every
EveryLinesOfAny ==
    [][\A w \in Writers :
          pc[w] \in {"appended", "due"} /\ pc'[w] = "idle" /\ ~cut /\ ~failed'
          => FewerThanEvery(w)]_vars

\* The same of a stream all of whose events JCS takes.
EveryLines ==
    [][\A w \in Writers :
          /\ pc[w] \in {"appended", "due"} /\ pc'[w] = "idle" /\ ~cut /\ ~failed'
          /\ \A n \in 1..Lines(file) : ~Unhashable(file[n])
          => FewerThanEvery(w)]_vars

\* "A stream whose last line is not an event (a crash left a fragment, say)
\* gets a resume record naming the last well-formed event before it, because
\* the next line will start a fresh chain there."
ResumeNamed ==
    [][\A w \in Writers :
          /\ pc[w] \in {"down", "resume"} /\ pc'[w] = "idle"
          /\ TailHash(file) = None /\ LastGood(file) > 0
          => \E i \in 1..Len(side') :
                side'[i].kind = "resume" /\ side'[i].count = LastGood(file)]_vars
===============================================================================
