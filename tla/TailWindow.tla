------------------------------ MODULE TailWindow ------------------------------
(***************************************************************************)
(* readTail of event/chain.go, over bytes: the last line of a file, looked  *)
(* for backwards from the end in reads that double up to a window.          *)
(*                                                                          *)
(* ChainLog takes the last line of a stream for granted (TailHash).  Here   *)
(* is how a writer finds it, as a function of the bytes, for comparison     *)
(* with that and with what a reader knows who comes from the other end.     *)
(* A byte is the first of an event, which tells its body, the last of one,  *)
(* other white space or a newline: enough to tell a whole event from the    *)
(* end of one, and blank lines from both.                                   *)
(***************************************************************************)
EXTENDS ChainVerify, Integers, FiniteSetsExt

CONSTANTS
    Chunk,       \* tailChunk
    Window       \* resumeWindow, and the line cap of VerifyChain

ASSUME WindowAssumption ==
    Chunk \in Nat \ {0} /\ Window \in Nat /\ Chunk <= Window

White == {"space", "nl"}

\* The first byte of an event tells its body and is no other byte.
Byte == Content \cup {"last"} \cup White

ASSUME ByteAssumption == Content \cap ({"last"} \cup White) = {}

LastOf(S) == Max(S \cup {0})

Solid(b) == {i \in DOMAIN b : b[i] \notin White}

\* bytes.TrimSpace.
Trim(b) == IF Solid(b) = {} THEN <<>> ELSE SubSeq(b, Min(Solid(b)), LastOf(Solid(b)))

\* What Unmarshal takes: one object, whole.
IsObject(b) == Len(b) > 1 /\ Solid(b) = {1, Len(b)} /\ b[1] \in Content /\ b[Len(b)] = "last"

\* The body of the event on a line, if there is one that ChainHashRaw takes.
HashOf(line) ==
    IF IsObject(Trim(line)) /\ Trim(line)[1] \in Hashable THEN Trim(line)[1] ELSE None

-----------------------------------------------------------------------------
(* readTail. *)

\* buf after reads that reach n bytes back.
Held(f, n) == SubSeq(f, Len(f) - n + 1, Len(f))

\* Where the last line of buf begins, less one; 0 when buf may hold only its end.
Start(buf) == LastOf({i \in 1..LastOf(Solid(buf)) : buf[i] = "nl"})

\* How far back each read reaches: twice as far as the one before, up to limit.
Looks(f) ==
    LET limit == Min({Len(f), Window})
    IN {limit} \cup ({Chunk * 2^i : i \in 0..Window} \cap 1..limit)

\* Seeded fault: the line is taken for whole wherever buf begins.
FoundAnything(f, n) == n = Len(f) \/ Solid(Held(f, n)) # {}
Found(f, n) == n = Len(f) \/ Start(Held(f, n)) > 0
LastLook(f, n) == Found(f, n) \/ n = Window

\* What appendLocked takes from it: the digest to chain from, and endsNewline.
ReadTail(f) ==
    LET n   == Min({i \in Looks(f) : LastLook(f, i)})
        buf == Held(f, n)
    IN [hash |-> IF Found(f, n) THEN HashOf(SubSeq(buf, Start(buf) + 1, Len(buf))) ELSE None,
        nl   |-> f = <<>> \/ f[Len(f)] = "nl"]

-----------------------------------------------------------------------------
(* The bytes of a stream. *)

\* What is between two newlines: an event, and white space before or after it;
\* the beginning or the end of one, or two glued together; nothing, or white
\* space.
Text(l) ==
    CASE l.kind = "event" -> {<<l.body, "last">>, <<"space", l.body, "last">>, <<l.body, "last", "space">>}
      [] l.kind = "junk"  -> {<<"last">>} \cup {<<c>> : c \in Hashable}
                               \cup {<<c, "last", c, "last">> : c \in Hashable}
      [] l.kind = "blank" -> {<<"space">>} \cup (IF l.nl THEN {<<>>} ELSE {})

Spellings(l) == {t \o (IF l.nl THEN <<"nl">> ELSE <<>>) : t \in Text(l)}
\* The first n lines of f, for each n.
Glued(f) ==
    LET upTo[n \in 0..Len(f)] ==
          IF n = 0 THEN {<<>>} ELSE {b \o t : b \in upTo[n - 1], t \in Spellings(f[n])}
    IN upTo
Bytes(f) == Glued(f)[Len(f)]

\* The newline before the last solid line lies in the window, or all of b does.
InWindow(b) ==
    \/ Len(b) <= Window
    \/ \E i, j \in (Len(b) - Window + 1)..Len(b) : b[i] = "nl" /\ i < j /\ j \in Solid(b)

\* What the reader would judge the next line by.
Remembered == IF Checks(None) THEN prevHash ELSE None

-----------------------------------------------------------------------------
\* Two readings of one stream meet at its end: verifyChain came from its first
\* byte with one line of memory, readTail goes back from its last one.  The
\* next event is chained from the line that it will be judged by or from
\* nothing, never from the end of a line nor from an older one; and from nothing
\* only when there is no such line, or when the window does not hold it and the
\* newline before it ("until it holds the whole last non-blank line").  Whether
\* a newline has to go first is what the file says.
TailIsExact ==
    done = "eof" =>
        /\ Remembered = TailHash(file)
        /\ \A b \in Bytes(file) :
              LET tail == ReadTail(b)
              IN /\ tail.hash = Remembered \/ (tail.hash = None /\ ~InWindow(b))
                 /\ tail.nl = EndsNewline(file)
===============================================================================
