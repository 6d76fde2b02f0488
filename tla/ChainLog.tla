------------------------------- MODULE ChainLog -------------------------------
(***************************************************************************)
(* The NDJSON stream of event/chain.go as data, and what its writers        *)
(* promise about it.                                                        *)
(*                                                                          *)
(* A stream is a sequence of physical lines.  A line is an event, junk      *)
(* (anything Unmarshal refuses: a fragment, two lines glued into one) or    *)
(* blank, and only the last line may lack its newline.  The digest of a     *)
(* line is its body: ChainHashRaw drops prev_hash and SHA-256 is taken to   *)
(* be injective, so two lines hash alike exactly when their bodies agree.   *)
(* A body outside Hashable is an event that parses and that JCS refuses.    *)
(*                                                                          *)
(* The specification at the end is the abstract one: one operation is one   *)
(* step.  ChainedStream implements it with locks, handles and crashes.      *)
(***************************************************************************)
EXTENDS Naturals, Sequences

CONSTANTS
    Content,    \* bodies of events, prev_hash left out
    Hashable,   \* the bodies ChainHashRaw can canonicalize
    None,       \* no prev_hash, no body, nobody
    InitFiles   \* the streams that may be on disk before the first writer

Hash == Content \cup {None}

\* What one physical line holds: Unmarshal and TrimSpace tell the kinds apart.
Line == [kind : {"event", "junk", "blank"}, body : Hash, prev : Hash, nl : BOOLEAN]

Event(c, p)  == [kind |-> "event", body |-> c, prev |-> p, nl |-> TRUE]
Fragment     == [kind |-> "junk", body |-> None, prev |-> None, nl |-> FALSE]
BlankLine    == [kind |-> "blank", body |-> None, prev |-> None, nl |-> TRUE]

\* A line ChainHashRaw succeeds on: the next event can be chained from it.
Chainable(l) == l.kind = "event" /\ l.body \in Hashable

\* j is the last non-blank line among the first n lines of f.
LastSolid(f, n, j) ==
    /\ j \in 1..n
    /\ f[j].kind # "blank"
    /\ \A k \in (j + 1)..n : f[k].kind = "blank"

-----------------------------------------------------------------------------
(* What readTail finds. *)

\* tail.endsNewline.
EndsNewline(f) == Len(f) = 0 \/ f[Len(f)].nl

\* The prev_hash an append takes from the end of f: the digest of the last
\* non-blank line, or none when there is no such line or it cannot be hashed.
TailHash(f) ==
    IF \E j \in 1..Len(f) : LastSolid(f, Len(f), j) /\ Chainable(f[j])
    THEN f[CHOOSE j \in 1..Len(f) : LastSolid(f, Len(f), j)].body
    ELSE None

-----------------------------------------------------------------------------
(* What write(2) in append mode does to the last line. *)

NewLine(f) ==
    IF EndsNewline(f) THEN Append(f, BlankLine)
                      ELSE [f EXCEPT ![Len(f)].nl = TRUE]

\* Bytes that follow an unterminated line become part of it: white space in
\* front of an event is trimmed away, anything else spoils it.
Put(f, w) ==
    IF EndsNewline(f) THEN Append(f, w)
    ELSE [f EXCEPT ![Len(f)] =
            IF f[Len(f)].kind = "blank" THEN w ELSE [Fragment EXCEPT !.nl = w.nl]]

\* The write of a line, a newline first when lead is set.
PutLine(f, lead, w) == Put(IF lead THEN NewLine(f) ELSE f, w)

\* What a write that fails midway can leave: nothing, the leading newline, a
\* fragment, or the whole object without its newline.
ShortWrites(f, lead, w) ==
    {f, IF lead THEN NewLine(f) ELSE f,
     PutLine(f, lead, Fragment), PutLine(f, lead, [w EXCEPT !.nl = FALSE])}

\* What the loss of the host's power can leave: no write is synced, so any
\* prefix of the bytes.
PowerCuts(f) ==
    {SubSeq(f, 1, k) : k \in 0..Len(f)}
      \cup {Append(SubSeq(f, 1, k - 1), [f[k] EXCEPT !.nl = FALSE]) : k \in 1..Len(f)}
      \cup {Append(SubSeq(f, 1, k - 1), Fragment) : k \in {i \in 1..Len(f) : f[i].kind # "blank"}}

-----------------------------------------------------------------------------
(* What VerifyChain accuses. *)

\* Line i carries a prev_hash, the event before it can be hashed, and the two
\* differ.
IsBreak(f, i) ==
    /\ f[i].kind = "event"
    /\ f[i].prev # None
    /\ \E j \in 1..(i - 1) :
          LastSolid(f, i - 1, j) /\ Chainable(f[j]) /\ f[j].body # f[i].prev

Unbroken(f) == \A i \in 1..Len(f) : ~IsBreak(f, i)

\* Only the last line may be unterminated, and only events have a body.
WellFormed(f) ==
    /\ f \in Seq(Line)
    /\ \A i \in 1..(Len(f) - 1) : f[i].nl
    /\ \A i \in 1..Len(f) : f[i].kind = "event" => f[i].body \in Content

ASSUME ConstantsAssumption ==
    /\ None \notin Content
    /\ Hashable \subseteq Content
    /\ \A f \in InitFiles : WellFormed(f) /\ Unbroken(f)

-----------------------------------------------------------------------------
(***************************************************************************)
(* The abstract stream: every write is one step that chains from what is    *)
(* last on disk at that very step.                                          *)
(***************************************************************************)
VARIABLE file

LogInit == file \in InitFiles

\* A ChainedWriter's line, stamped from the line it lands behind.
ChainedAppend(c) ==
    /\ c \in Hashable
    /\ file' = PutLine(file, ~EndsNewline(file), Event(c, TailHash(file)))

ChainedAppendFails(c) ==
    /\ c \in Hashable
    /\ file' \in ShortWrites(file, ~EndsNewline(file), Event(c, TailHash(file)))

\* A plain Writer's line: no look at the tail, no prev_hash.
PlainAppend(c) == file' = PutLine(file, FALSE, Event(c, None))

PlainAppendFails(c) == file' \in ShortWrites(file, FALSE, Event(c, None))

LosePower == file' \in PowerCuts(file)

LogNext ==
    \/ \E c \in Content : \/ ChainedAppend(c) \/ ChainedAppendFails(c)
                          \/ PlainAppend(c)   \/ PlainAppendFails(c)
    \/ LosePower

LogSpec == LogInit /\ [][LogNext]_file

\* Writers never make a stream that VerifyChain calls broken: whatever was
\* torn, glued or lost, an honest stream stays free of chain breaks.
NoBreaks == Unbroken(file)
===============================================================================
