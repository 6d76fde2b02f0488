------------------------------ MODULE ChainVerify ------------------------------
(***************************************************************************)
(* verifyChain of event/chain.go: one pass over a stream with one line of   *)
(* memory, while the writers of the stream go on appending to it.           *)
(*                                                                          *)
(* The reader decides about a line from four locals.  What it should have   *)
(* decided is stated over the whole stream in ChainLog (IsBreak) and here.  *)
(* The stream is any stream, forged ones included: a forger is whoever      *)
(* chose the first file.  A line is read once it is terminated; the last    *)
(* one, at end of file, also when it is not.                                *)
(***************************************************************************)
EXTENDS ChainLog

CONSTANTS
    Streams,     \* the streams a reader may be pointed at
    MaxGrown     \* bound: lines a stream grows to

ASSUME StreamsAssumption ==
    /\ \A f \in Streams : WellFormed(f)
    /\ MaxGrown \in Nat

VARIABLES
    pos,        \* lineNo
    prevHash, prevSeen, prevKnown, lastEvent,
    report,     \* the ChainReport, its counts as sets of line numbers
    restarts,   \* [line, after]
    done        \* "no", "eof" or "error"

locals == <<prevHash, prevSeen, prevKnown, lastEvent>>
verifyVars == <<file, pos, locals, report, restarts, done>>

Empty == [lines |-> {}, malformed |-> {}, chained |-> {}, heads |-> {},
          unverifiable |-> {}, breaks |-> {}]

VerifyInit ==
    /\ file \in Streams
    /\ pos = 0
    /\ prevHash = None /\ prevSeen = FALSE /\ prevKnown = TRUE /\ lastEvent = 0
    /\ report = Empty /\ restarts = {}
    /\ done = "no"

-----------------------------------------------------------------------------
(* The body of the loop, for line n holding l. *)

\* Seeded fault: a forgotten hash is judged by the one before it.
ChecksNothingForgotten(l) == prevSeen
Checks(l) == prevSeen /\ prevKnown

Class(l) ==
    IF l.prev = None THEN "heads"
    ELSE IF ~Checks(l) THEN "unverifiable"
    ELSE IF l.prev = prevHash THEN "chained" ELSE "breaks"

Judge(n, l) ==
    report' = [c \in DOMAIN report |->
                 IF c = "lines" \/ c = Class(l) THEN report[c] \cup {n} ELSE report[c]]

\* Seeded fault: the first head is a restart too.
RestartAtFirst(n, l) ==
    IF l.prev = None THEN {[line |-> n, after |-> lastEvent]} ELSE {}
\* Seeded fault: the line before the restart, event or not.
RestartAfterLine(n, l) ==
    IF l.prev = None /\ report.heads # {} THEN {[line |-> n, after |-> n - 1]} ELSE {}
Restart(n, l) ==
    IF l.prev = None /\ report.heads # {} THEN {[line |-> n, after |-> lastEvent]} ELSE {}

ReadEvent(n, l) ==
    /\ l.kind = "event"
    /\ Judge(n, l)
    /\ restarts' = restarts \cup Restart(n, l)
    /\ lastEvent' = n
    /\ prevSeen' = TRUE
    /\ prevKnown' = Chainable(l)
    /\ prevHash' = IF Chainable(l) THEN l.body ELSE prevHash

\* Seeded fault: the event after a malformed line is judged by the one before it.
ReadMalformedKnown(n, l) ==
    /\ l.kind = "junk"
    /\ report' = [report EXCEPT !.lines = @ \cup {n}, !.malformed = @ \cup {n}]
    /\ UNCHANGED <<restarts, locals>>

ReadMalformed(n, l) ==
    /\ l.kind = "junk"
    /\ report' = [report EXCEPT !.lines = @ \cup {n}, !.malformed = @ \cup {n}]
    /\ prevKnown' = FALSE
    /\ UNCHANGED <<restarts, lastEvent, prevSeen, prevHash>>

ReadBlank(n, l) ==
    /\ l.kind = "blank"
    /\ UNCHANGED <<report, restarts, locals>>

ReadLine(n, l) == ReadEvent(n, l) \/ ReadMalformed(n, l) \/ ReadBlank(n, l)

Scan ==
    /\ done = "no" /\ pos < Len(file) /\ file[pos + 1].nl
    /\ ReadLine(pos + 1, file[pos + 1])
    /\ pos' = pos + 1
    /\ UNCHANGED <<file, done>>

\* End of file inside a line: the scanner hands over what there is.
ScanLast ==
    /\ done = "no" /\ pos < Len(file) /\ ~file[pos + 1].nl
    /\ ReadLine(pos + 1, file[pos + 1])
    /\ pos' = pos + 1
    /\ done' = "eof"
    /\ UNCHANGED file

ScanEnds ==
    /\ done = "no" /\ pos = Len(file)
    /\ done' = "eof"
    /\ UNCHANGED <<file, pos, locals, report, restarts>>

\* A line over the scanner's limit, or a read that failed: what was found so
\* far is returned with the error.
ScanFails ==
    /\ done = "no"
    /\ done' = "error"
    /\ UNCHANGED <<file, pos, locals, report, restarts>>

\* The writers, while the reader is at work.
Grow ==
    /\ done = "no" /\ Len(file) < MaxGrown
    /\ \E c \in Content : \/ ChainedAppend(c) \/ ChainedAppendFails(c)
                          \/ PlainAppend(c) \/ PlainAppendFails(c)
    /\ UNCHANGED <<pos, locals, report, restarts, done>>

VerifyNext == Scan \/ ScanLast \/ ScanEnds \/ ScanFails \/ Grow

VerifySpec == VerifyInit /\ [][VerifyNext]_verifyVars
-----------------------------------------------------------------------------
(* What the report should say of the first n lines of f. *)

Events(f, n) == {i \in 1..n : f[i].kind = "event"}
Heads(f, n)  == {i \in Events(f, n) : f[i].prev = None}

\* The last line before i that is not blank holds an event with a digest.
Checkable(f, i) == \E j \in 1..(i - 1) : LastSolid(f, i - 1, j) /\ Chainable(f[j])

\* Line i carries the digest of that event.
Follows(f, i) ==
    \E j \in 1..(i - 1) : LastSolid(f, i - 1, j) /\ Chainable(f[j]) /\ f[i].prev = f[j].body

TypeOK ==
    /\ WellFormed(file)
    /\ pos \in 0..Len(file) /\ lastEvent \in 0..pos
    /\ prevHash \in Hash /\ prevSeen \in BOOLEAN /\ prevKnown \in BOOLEAN
    /\ report \in [{"lines", "malformed", "chained", "heads", "unverifiable", "breaks"}
                     -> SUBSET (1..pos)]
    /\ restarts \subseteq [line : 1..pos, after : 1..pos]
    /\ done \in {"no", "eof", "error"}

\* The one-pass reader accuses exactly the lines whose prev_hash contradicts
\* the event on the line before: "only genuine mismatches are breaks", none is
\* missed, and no append made while it reads changes that.
BreaksAreGenuine == report.breaks = {i \in 1..pos : IsBreak(file, i)}

\* Every event is in exactly one of the four lists, and in the right one.
EveryEventJudged ==
    /\ report.heads = Heads(file, pos)
    /\ report.chained = {i \in Events(file, pos) : file[i].prev # None /\ Follows(file, i)}
    /\ report.unverifiable =
          {i \in Events(file, pos) : file[i].prev # None /\ ~Checkable(file, i)}

\* e is the last event of the first n lines of f, 0 for none.
LastRead(f, n, e) ==
    /\ e \in 0..n
    /\ \A k \in Events(f, n) : k <= e
    /\ e # 0 => e \in Events(f, n)

\* A restart is "one chain head after the first line of a stream", After the
\* last well-formed event line before it, "0 when there is none".
LaterHeads(f, n) ==
    {r \in [line : 1..n, after : 0..n] :
        r.line \in Heads(f, n) \ {1} /\ LastRead(f, r.line - 1, r.after)}

\* What VerifyChainRestarts names is a restart as Restart's own comment has it,
\* with the very event a resume checkpoint would name; and of a stream whose
\* first line is the expected head it leaves none out.  (Of a stream that opens
\* mid-chain, or with a line that is no event, it leaves out the first head.)
RestartsNamed ==
    /\ restarts \subseteq LaterHeads(file, pos)
    /\ 1 \in Heads(file, pos) => restarts = LaterHeads(file, pos)
===============================================================================
