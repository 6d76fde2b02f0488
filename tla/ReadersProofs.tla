----------------------------- MODULE ReadersProofs -----------------------------
(***************************************************************************)
(* Whoever reads the stream: VerifyChain from its first byte, readTail from *)
(* its last one, the writer of the sidecar and VerifyCheckpoints beside it. *)
(*                                                                          *)
(* VerifyChain accuses exactly the genuine breaks, whatever stream it reads *)
(* and whatever is appended to it meanwhile.  The invariant is what the     *)
(* reader's memory means: it can check the next event exactly when the last *)
(* line read that is not blank has a digest, and then prevHash is that      *)
(* digest.  Lines read while the stream still grows are terminated, so no   *)
(* append touches them.                                                     *)
(*                                                                          *)
(* readTail finds the line that this memory is about.  Its argument has no  *)
(* steps: it is about the bytes of a file, and about the file as lines for  *)
(* which these bytes stand, one line after the other.                       *)
(*                                                                          *)
(* A writer of the sidecar remembers the lines it counted, the event on the *)
(* last of them and the hash of them all, unless somebody cut the stream    *)
(* and it has not looked since.  With one writer the sidecar ends where it  *)
(* believes it does, every record in it holds, and no more lines than it    *)
(* has pending are in none.                                                 *)
(***************************************************************************)
EXTENDS Checkpoints, TailWindow, ChainLogProofs

\* What the writers do while the reader reads.
LEMMA Growth ==
    ASSUME WellFormed(file), Grow
    PROVE  WellFormed(file') /\ Keeps(file, file')
BY AppendKeeps DEF Grow

-----------------------------------------------------------------------------
(* What is said of the first n lines is a matter of these lines. *)

LEMMA Local ==
    ASSUME NEW f, NEW g, NEW n \in Nat, \A k \in 1..n : f[k] = g[k], NEW i \in 1..n
    PROVE  /\ IsBreak(f, i) <=> IsBreak(g, i)
           /\ Checkable(f, i) <=> Checkable(g, i)
           /\ Follows(f, i) <=> Follows(g, i)
<1>1. \A k \in 1..(i - 1) : f[k] = g[k]
  OBVIOUS
<1>2. f[i] = g[i]
  OBVIOUS
<1>3. \A j \in 1..(i - 1) : LastSolid(f, i - 1, j) <=> LastSolid(g, i - 1, j)
  <2>1. \A j \in 1..(i - 1) : \A k \in (j + 1)..(i - 1) : f[k] = g[k]
    BY <1>1
  <2> QED BY <1>1, <2>1 DEF LastSolid
<1>4. \A j \in 1..(i - 1) : Chainable(f[j]) <=> Chainable(g[j])
  BY <1>1
<1> QED BY <1>1, <1>2, <1>3, <1>4 DEF IsBreak, Checkable, Follows

LEMMA SolidLocal ==
    ASSUME NEW f, NEW g, NEW n \in Nat, \A k \in 1..n : f[k] = g[k], NEW j \in 1..n
    PROVE  LastSolid(f, n, j) <=> LastSolid(g, n, j)
<1>1. \A k \in (j + 1)..n : f[k] = g[k]
  OBVIOUS
<1> QED BY <1>1 DEF LastSolid

\* The last line that is not blank moves with every line that is not.
LEMMA SolidNext ==
    ASSUME NEW f, NEW n \in Nat, NEW j \in 1..(n + 1)
    PROVE  LastSolid(f, n + 1, j) <=>
             \/ f[n + 1].kind = "blank" /\ j \in 1..n /\ LastSolid(f, n, j)
             \/ f[n + 1].kind # "blank" /\ j = n + 1
<1>1. CASE j = n + 1
  BY <1>1 DEF LastSolid
<1>2. CASE j # n + 1
  <2>1. j \in 1..n /\ n + 1 \in (j + 1)..(n + 1)
    BY <1>2
  <2>2. \A k \in (j + 1)..(n + 1) : k = n + 1 \/ k \in (j + 1)..n
    OBVIOUS
  <2>3. \A k \in (j + 1)..n : k \in (j + 1)..(n + 1)
    OBVIOUS
  <2> QED BY <1>2, <2>1, <2>2, <2>3 DEF LastSolid
<1> QED BY <1>1, <1>2

LEMMA SolidUnique ==
    ASSUME NEW f, NEW n \in Nat, NEW i \in 1..n, NEW j \in 1..n,
           LastSolid(f, n, i), LastSolid(f, n, j)
    PROVE  i = j
<1>1. CASE i < j
  <2>1. j \in (i + 1)..n
    BY <1>1
  <2> QED BY <2>1 DEF LastSolid
<1>2. CASE j < i
  <2>1. i \in (j + 1)..n
    BY <1>2
  <2> QED BY <2>1 DEF LastSolid
<1> QED BY <1>1, <1>2
-----------------------------------------------------------------------------
(* The invariant. *)

Digest(f, n, j) == j \in 1..n /\ LastSolid(f, n, j) /\ Chainable(f[j])

\* What the reader remembers of the first n lines of f.
Memory(f, n, seen, known, hash) ==
    /\ seen \in BOOLEAN /\ known \in BOOLEAN
    /\ (seen /\ known) <=> \E j \in 1..n : Digest(f, n, j)
    /\ \A j \in 1..n : Digest(f, n, j) => hash = f[j].body

\* The list of the report line i belongs to.
List(f, i) ==
    IF f[i].prev = None THEN "heads"
    ELSE IF ~Checkable(f, i) THEN "unverifiable"
    ELSE IF Follows(f, i) THEN "chained" ELSE "breaks"

Lists == {"heads", "unverifiable", "chained", "breaks"}

Judged(f, n, r) ==
    /\ DOMAIN r = DOMAIN Empty
    /\ \A c \in Lists : r[c] = {i \in 1..n : f[i].kind = "event" /\ List(f, i) = c}

IInv ==
    /\ WellFormed(file)
    /\ pos \in 0..Len(file)
    /\ done = "no" => \A i \in 1..pos : file[i].nl
    /\ Memory(file, pos, prevSeen, prevKnown, prevHash)
    /\ Judged(file, pos, report)

\* Line n + 1 is put on the list it belongs to.
LEMMA Right ==
    ASSUME NEW f, NEW n \in Nat, Memory(f, n, prevSeen, prevKnown, prevHash)
    PROVE  Class(f[n + 1]) = List(f, n + 1)
<1>0. (n + 1) - 1 = n
  OBVIOUS
<1>1. Checkable(f, n + 1) <=> prevSeen /\ prevKnown
  BY <1>0 DEF Memory, Digest, Checkable
<1>2. ASSUME Checkable(f, n + 1)
      PROVE  Follows(f, n + 1) <=> f[n + 1].prev = prevHash
  <2>1. PICK j \in 1..n : LastSolid(f, n, j) /\ Chainable(f[j])
    BY <1>0, <1>2 DEF Checkable
  <2>2. prevHash = f[j].body
    BY <2>1 DEF Memory, Digest
  <2>3. \A k \in 1..n : LastSolid(f, n, k) => k = j
    BY <2>1, SolidUnique
  <2> QED BY <1>0, <2>1, <2>2, <2>3 DEF Follows
<1> QED BY <1>1, <1>2 DEF Class, Checks, List

LEMMA JudgedOn ==
    ASSUME NEW n \in Nat, NEW f, Judged(f, n, report), Memory(f, n, prevSeen, prevKnown, prevHash),
           f[n + 1].kind = "event", Judge(n + 1, f[n + 1])
    PROVE  /\ DOMAIN report' = DOMAIN Empty
           /\ \A c \in Lists : report'[c] = {i \in 1..(n + 1) : f[i].kind = "event" /\ List(f, i) = c}
<1>1. Class(f[n + 1]) = List(f, n + 1)
  BY Right
<1>2. DOMAIN report' = DOMAIN Empty
  BY DEF Judge, Judged
<1>3. ASSUME NEW c \in Lists
      PROVE  report'[c] = {i \in 1..(n + 1) : f[i].kind = "event" /\ List(f, i) = c}
  <2>1. c \in DOMAIN report /\ c # "lines"
    BY DEF Judged, Empty, Lists
  <2>2. report'[c] = IF c = List(f, n + 1) THEN report[c] \cup {n + 1} ELSE report[c]
    BY <1>1, <2>1 DEF Judge
  <2>3. \A i : i \in 1..(n + 1) <=> i \in 1..n \/ i = n + 1
    OBVIOUS
  <2> QED BY <2>2, <2>3 DEF Judged
<1> QED BY <1>2, <1>3

LEMMA JudgedSame ==
    ASSUME NEW n \in Nat, NEW f, Judged(f, n, report), f[n + 1].kind # "event"
    PROVE  \A c \in Lists : report[c] = {i \in 1..(n + 1) : f[i].kind = "event" /\ List(f, i) = c}
<1>1. \A i : i \in 1..(n + 1) <=> i \in 1..n \/ i = n + 1
  OBVIOUS
<1> QED BY <1>1 DEF Judged

\* Reading a line keeps the memory and the report right.
LEMMA ReadKeeps ==
    ASSUME IInv, pos < Len(file), ReadLine(pos + 1, file[pos + 1]),
           pos' = pos + 1, file' = file
    PROVE  Memory(file, pos, prevSeen, prevKnown, prevHash)' /\ Judged(file, pos, report)'
<1> DEFINE l == file[pos + 1]
<1>0. pos \in Nat /\ Len(file) \in Nat /\ pos + 1 \in 1..Len(file) /\ l \in Line
      /\ Memory(file, pos, prevSeen, prevKnown, prevHash) /\ Judged(file, pos, report)
  <2>1. Len(file) \in Nat /\ file \in Seq(Line)
    BY LenProperties DEF IInv, WellFormed
  <2>2. pos \in Nat /\ pos + 1 \in 1..Len(file)
    BY <2>1 DEF IInv
  <2> QED BY <2>1, <2>2, ElementOfSeq DEF IInv
<1>1. CASE ReadEvent(pos + 1, l)
  <2>1. l.kind = "event" /\ Judge(pos + 1, l) /\ prevSeen' = TRUE /\ prevKnown' = Chainable(l)
        /\ prevHash' = IF Chainable(l) THEN l.body ELSE prevHash
    BY <1>1 DEF ReadEvent
  <2>2. \A j \in 1..(pos + 1) : Digest(file, pos + 1, j) <=> j = pos + 1 /\ Chainable(l)
    BY <1>0, <2>1, SolidNext DEF Digest
  <2>3. Chainable(l) \in BOOLEAN
    BY DEF Chainable
  <2>4. Memory(file, pos, prevSeen, prevKnown, prevHash)'
    BY <1>0, <2>1, <2>2, <2>3 DEF Memory
  <2>5. Judged(file, pos, report)'
    <3>1. /\ DOMAIN report' = DOMAIN Empty
          /\ \A c \in Lists : report'[c] = {i \in 1..(pos + 1) : file[i].kind = "event" /\ List(file, i) = c}
      BY <1>0, <2>1, JudgedOn
    <3> QED BY <3>1 DEF Judged
  <2> QED BY <2>4, <2>5
<1>2. CASE ReadMalformed(pos + 1, l)
  <2>1. l.kind = "junk" /\ prevKnown' = FALSE /\ prevSeen' = prevSeen /\ prevHash' = prevHash
        /\ report' = [report EXCEPT !.lines = @ \cup {pos + 1}, !.malformed = @ \cup {pos + 1}]
    BY <1>2 DEF ReadMalformed
  <2>2. \A j \in 1..(pos + 1) : ~Digest(file, pos + 1, j)
    BY <1>0, <2>1, SolidNext DEF Digest, Chainable
  <2>3. Memory(file, pos, prevSeen, prevKnown, prevHash)'
    BY <1>0, <2>1, <2>2 DEF Memory
  <2>4. DOMAIN report' = DOMAIN Empty /\ \A c \in Lists : report'[c] = report[c]
    BY <1>0, <2>1 DEF Judged, Empty, Lists
  <2>5. \A c \in Lists : report[c] = {i \in 1..(pos + 1) : file[i].kind = "event" /\ List(file, i) = c}
    BY <1>0, <2>1, JudgedSame
  <2>6. Judged(file, pos, report)'
    BY <2>4, <2>5 DEF Judged
  <2> QED BY <2>3, <2>6
<1>3. CASE ReadBlank(pos + 1, l)
  <2>1. l.kind = "blank" /\ prevKnown' = prevKnown /\ prevSeen' = prevSeen
        /\ prevHash' = prevHash /\ report' = report
    BY <1>3 DEF ReadBlank, locals
  <2>2. \A j \in 1..(pos + 1) : Digest(file, pos + 1, j) <=> j \in 1..pos /\ Digest(file, pos, j)
    <3>1. ASSUME NEW j \in 1..(pos + 1)
          PROVE  LastSolid(file, pos + 1, j) <=> j \in 1..pos /\ LastSolid(file, pos, j)
      <4>1. LastSolid(file, pos + 1, j) <=>
              \/ file[pos + 1].kind = "blank" /\ j \in 1..pos /\ LastSolid(file, pos, j)
              \/ file[pos + 1].kind # "blank" /\ j = pos + 1
        BY <1>0, SolidNext
      <4> QED BY <2>1, <4>1
    <3> QED BY <3>1 DEF Digest
  <2>3. Memory(file, pos, prevSeen, prevKnown, prevHash)'
    <3>1. (\E j \in 1..(pos + 1) : Digest(file, pos + 1, j)) <=> \E j \in 1..pos : Digest(file, pos, j)
      BY <1>0, <2>2
    <3> QED BY <1>0, <2>1, <2>2, <3>1 DEF Memory
  <2>4. \A c \in Lists : report[c] = {i \in 1..(pos + 1) : file[i].kind = "event" /\ List(file, i) = c}
    BY <1>0, <2>1, JudgedSame
  <2>5. Judged(file, pos, report)'
    BY <1>0, <2>1, <2>4 DEF Judged
  <2> QED BY <2>3, <2>5
<1> QED BY <1>1, <1>2, <1>3 DEF ReadLine

\* An append does not touch what was read.
LEMMA GrowKeeps ==
    ASSUME IInv, Grow
    PROVE  IInv'
<1> DEFINE n == pos
<1>0. WellFormed(file) /\ n \in 0..Len(file) /\ Memory(file, n, prevSeen, prevKnown, prevHash) /\ Judged(file, n, report)
      /\ \A i \in 1..n : file[i].nl
  BY DEF IInv, Grow
<1>1. WellFormed(file') /\ Keeps(file, file')
  BY <1>0, Growth
<1>2. Len(file) \in Nat /\ Len(file') \in Nat /\ n \in Nat
  BY <1>0, <1>1, LenProperties DEF WellFormed
<1>3. \A i \in 1..n : i \in 1..Len(file') /\ file'[i] = file[i]
  BY <1>0, <1>1, <1>2 DEF Keeps
<1>4. n \in 0..Len(file')
  <2>1. CASE n = 0
    BY <1>2, <2>1
  <2>2. CASE n # 0
    BY <1>2, <1>3, <2>2
  <2> QED BY <2>1, <2>2
<1>5. /\ pos' = pos /\ prevHash' = prevHash /\ prevSeen' = prevSeen /\ prevKnown' = prevKnown
      /\ report' = report /\ done' = done
  BY DEF Grow, locals
<1>6. \A j \in 1..n : Digest(file', n, j) <=> Digest(file, n, j)
  BY <1>2, <1>3, SolidLocal DEF Digest
<1>7. \A i \in 1..n : List(file', i) = List(file, i) /\ file'[i].kind = file[i].kind
  BY <1>2, <1>3, Local DEF List
<1>8. Memory(file, pos, prevSeen, prevKnown, prevHash)'
  BY <1>0, <1>3, <1>5, <1>6 DEF Memory
<1>9. Judged(file, pos, report)'
  BY <1>0, <1>5, <1>7 DEF Judged
<1> QED BY <1>0, <1>1, <1>3, <1>4, <1>5, <1>8, <1>9 DEF IInv

LEMMA Inductive == VerifySpec => []IInv
<1>1. VerifyInit => IInv
  <2> SUFFICES ASSUME VerifyInit PROVE IInv
    OBVIOUS
  <2>1. WellFormed(file) /\ Len(file) \in Nat
    BY StreamsAssumption, LenProperties DEF VerifyInit, WellFormed
  <2>4. pos = 0 /\ \A j : j \notin 1..pos
    BY DEF VerifyInit
  <2>2. Memory(file, pos, prevSeen, prevKnown, prevHash)
    BY <2>4, Zenon DEF VerifyInit, Memory
  <2>3. Judged(file, pos, report)
    BY DEF VerifyInit, Judged, Empty, Lists
  <2>5. pos \in 0..Len(file)
    BY <2>1, <2>4
  <2> QED BY <2>1, <2>2, <2>3, <2>4, <2>5 DEF IInv
<1>2. IInv /\ [VerifyNext]_verifyVars => IInv'
  <2> SUFFICES ASSUME IInv, [VerifyNext]_verifyVars PROVE IInv'
    OBVIOUS
  <2>0. pos \in Nat /\ Len(file) \in Nat /\ pos \in 0..Len(file)
    BY LenProperties DEF IInv, WellFormed
  <2>1. CASE Scan
    <3>1. /\ pos < Len(file) /\ file[pos + 1].nl /\ ReadLine(pos + 1, file[pos + 1])
          /\ pos' = pos + 1 /\ file' = file /\ done' = done /\ done = "no"
      BY <2>1 DEF Scan
    <3>2. \A i \in 1..(pos + 1) : file[i].nl
      BY <2>0, <3>1 DEF IInv
    <3> QED BY <2>0, <3>1, <3>2, ReadKeeps DEF IInv, WellFormed
  <2>2. CASE ScanLast
    <3>1. /\ pos < Len(file) /\ ReadLine(pos + 1, file[pos + 1])
          /\ pos' = pos + 1 /\ file' = file /\ done' = "eof"
      BY <2>2 DEF ScanLast
    <3> QED BY <2>0, <3>1, ReadKeeps DEF IInv, WellFormed
  <2>3. CASE ScanEnds \/ ScanFails
    BY <2>3 DEF ScanEnds, ScanFails, locals, IInv
  <2>4. CASE Grow
    BY <2>4, GrowKeeps
  <2>5. CASE UNCHANGED verifyVars
    BY <2>5 DEF verifyVars, locals, IInv
  <2> QED BY <2>1, <2>2, <2>3, <2>4, <2>5 DEF VerifyNext
<1> QED BY <1>1, <1>2, PTL DEF VerifySpec

\* Only genuine mismatches are breaks, and every one of them is reported.
THEOREM BreaksExact == VerifySpec => []BreaksAreGenuine
<1>1. IInv => BreaksAreGenuine
  <2> SUFFICES ASSUME IInv PROVE BreaksAreGenuine
    OBVIOUS
  <2>0. pos \in Nat
    BY LenProperties DEF IInv, WellFormed
  <2>1. ASSUME NEW i \in 1..pos
        PROVE  IsBreak(file, i) <=> file[i].kind = "event" /\ List(file, i) = "breaks"
    <3>1. i - 1 \in Nat
      BY <2>0
    <3>2. \A j \in 1..(i - 1), k \in 1..(i - 1) :
             LastSolid(file, i - 1, j) /\ LastSolid(file, i - 1, k) => j = k
      BY <3>1, SolidUnique
    <3> QED BY <3>2 DEF IsBreak, List, Checkable, Follows
  <2>2. report["breaks"] = {i \in 1..pos : file[i].kind = "event" /\ List(file, i) = "breaks"}
    BY DEF IInv, Judged, Lists
  <2> QED BY <2>1, <2>2 DEF BreaksAreGenuine
<1> QED BY <1>1, Inductive, PTL

\* Every event is on the list it belongs to.
THEOREM JudgedRight == VerifySpec => []EveryEventJudged
<1>1. IInv => EveryEventJudged
  <2> SUFFICES ASSUME IInv PROVE EveryEventJudged
    OBVIOUS
  <2>1. \A i : Follows(file, i) => Checkable(file, i)
    BY DEF Follows, Checkable
  <2>2. \A c \in Lists : report[c] = {i \in 1..pos : file[i].kind = "event" /\ List(file, i) = c}
    BY DEF IInv, Judged
  <2>3. report.heads = Heads(file, pos)
    BY <2>2 DEF Heads, Events, List, Lists
  <2>4. report.chained = {i \in Events(file, pos) : file[i].prev # None /\ Follows(file, i)}
    BY <2>1, <2>2 DEF Events, List, Lists
  <2>5. report.unverifiable =
          {i \in Events(file, pos) : file[i].prev # None /\ ~Checkable(file, i)}
    BY <2>2 DEF Events, List, Lists
  <2> QED BY <2>3, <2>4, <2>5 DEF EveryEventJudged
<1> QED BY <1>1, Inductive, PTL
-----------------------------------------------------------------------------
(* Restarts, and the types of the report. *)

\* The restarts of the first n lines of f.
Restarted(f, n) ==
    {r \in [line : 1..n, after : 1..n] :
        /\ r.line \in Heads(f, n) /\ r.after \in Events(f, r.line - 1)
        /\ \A k \in Events(f, r.line - 1) : k <= r.after
        /\ Heads(f, r.line - 1) # {}}

Reported(r, n) == r \in [DOMAIN Empty -> SUBSET (1..n)]

RInv ==
    /\ LastRead(file, pos, lastEvent)
    /\ restarts = Restarted(file, pos)
    /\ Reported(report, pos)
    /\ prevHash \in Hash
    /\ done \in {"no", "eof", "error"}

LEMMA HeadsReported ==
    ASSUME IInv PROVE report.heads = Heads(file, pos)
<1>1. \A c \in Lists : report[c] = {i \in 1..pos : file[i].kind = "event" /\ List(file, i) = c}
  BY DEF IInv, Judged
<1> QED BY <1>1 DEF Heads, Events, List, Lists

\* What is said of n lines is a matter of these lines.
LEMMA RestartedLocal ==
    ASSUME NEW f, NEW g, NEW n \in Nat, \A k \in 1..n : f[k] = g[k]
    PROVE  /\ Restarted(f, n) = Restarted(g, n)
           /\ \A e : LastRead(f, n, e) <=> LastRead(g, n, e)
<1>1. \A m \in 0..n : Events(f, m) = Events(g, m) /\ Heads(f, m) = Heads(g, m)
  BY DEF Events, Heads
<1>2. \A r \in [line : 1..n, after : 1..n] : r.line - 1 \in 0..n
  OBVIOUS
<1>3. n \in 0..n
  OBVIOUS
<1> QED BY <1>1, <1>2, <1>3 DEF Restarted, LastRead

\* One more line: a head after a head is a restart, named with the last event.
LEMMA RestartedNext ==
    ASSUME NEW f, NEW n \in Nat, NEW e, LastRead(f, n, e)
    PROVE  Restarted(f, n + 1) =
             Restarted(f, n) \cup
               (IF f[n + 1].kind = "event" /\ f[n + 1].prev = None /\ Heads(f, n) # {}
                THEN {[line |-> n + 1, after |-> e]} ELSE {})
<1> DEFINE new == f[n + 1].kind = "event" /\ f[n + 1].prev = None /\ Heads(f, n) # {}
           Is(r, m) == /\ r.line \in Heads(f, m) /\ r.after \in Events(f, r.line - 1)
                       /\ \A k \in Events(f, r.line - 1) : k <= r.after
                       /\ Heads(f, r.line - 1) # {}
<1>1. \A i : i \in 1..(n + 1) <=> i \in 1..n \/ i = n + 1
  OBVIOUS
<1>2. /\ \A i \in 1..n : i \in Heads(f, n + 1) <=> i \in Heads(f, n)
      /\ n + 1 \in Heads(f, n + 1) <=> f[n + 1].kind = "event" /\ f[n + 1].prev = None
  BY <1>1 DEF Heads, Events
<1>3. (n + 1) - 1 = n /\ n + 1 \notin 1..n
  OBVIOUS
<1>4. ASSUME NEW r \in [line : 1..(n + 1), after : 1..(n + 1)], r.line = n + 1
      PROVE  Is(r, n + 1) <=> new /\ r.after = e
  <2>1. Is(r, n + 1) <=> /\ f[n + 1].kind = "event" /\ f[n + 1].prev = None
                         /\ r.after \in Events(f, n)
                         /\ \A k \in Events(f, n) : k <= r.after
                         /\ Heads(f, n) # {}
    BY <1>2, <1>3, <1>4
  <2>2. Heads(f, n) # {} => Events(f, n) # {}
    BY DEF Heads
  <2>3. Events(f, n) # {} => e \in Events(f, n)
    <3> SUFFICES ASSUME NEW k \in Events(f, n) PROVE e \in Events(f, n)
      OBVIOUS
    <3>1. k \in 1..n /\ k <= e
      BY DEF Events, LastRead
    <3> QED BY <3>1 DEF LastRead
  <2>4. \A k \in Events(f, n) : k <= e /\ k \in 1..n
    BY DEF Events, LastRead
  <2>5. \A a \in Events(f, n) : (\A k \in Events(f, n) : k <= a) <=> a = e
    <3> SUFFICES ASSUME NEW a \in Events(f, n)
                 PROVE  (\A k \in Events(f, n) : k <= a) <=> a = e
      OBVIOUS
    <3>1. e \in Events(f, n) /\ a <= e /\ a \in 1..n /\ e \in 1..n
      BY <2>3, <2>4
    <3> QED BY <2>4, <3>1
  <2> QED BY <2>1, <2>2, <2>3, <2>5
<1>5. ASSUME NEW r \in [line : 1..(n + 1), after : 1..(n + 1)], r.line # n + 1
      PROVE  Is(r, n + 1) <=> r \in [line : 1..n, after : 1..n] /\ Is(r, n)
  <2>1. r.line \in 1..n
    BY <1>1, <1>5
  <2>2. Is(r, n + 1) <=> Is(r, n)
    BY <1>2, <2>1
  <2>3. Is(r, n) => r.after \in 1..n
    BY <2>1 DEF Events
  <2>4. r.after \in 1..n => r \in [line : 1..n, after : 1..n]
    BY <2>1
  <2> QED BY <2>2, <2>3, <2>4
<1>6. new => [line |-> n + 1, after |-> e] \in [line : 1..(n + 1), after : 1..(n + 1)]
  <2> SUFFICES ASSUME new PROVE e \in 1..(n + 1)
    OBVIOUS
  <2>1. PICK h : h \in Heads(f, n)
    OBVIOUS
  <2>2. h \in 1..n /\ h <= e
    BY <2>1 DEF Heads, Events, LastRead
  <2> QED BY <2>2 DEF LastRead
<1>7. \A r \in [line : 1..n, after : 1..n] :
         r \in [line : 1..(n + 1), after : 1..(n + 1)] /\ r.line # n + 1
  OBVIOUS
<1>8. \A r \in [line : 1..(n + 1), after : 1..(n + 1)] :
         r.line = n + 1 /\ r.after = e <=> r = [line |-> n + 1, after |-> e]
  OBVIOUS
<1>9. \A m : \A r : r \in Restarted(f, m) <=> r \in [line : 1..m, after : 1..m] /\ Is(r, m)
  BY DEF Restarted
<1> HIDE DEF new, Is
<1>10. \A r : r \in Restarted(f, n + 1) <=>
           r \in Restarted(f, n) \/ (new /\ r = [line |-> n + 1, after |-> e])
  BY <1>4, <1>5, <1>6, <1>7, <1>8, <1>9
<1> QED BY <1>10 DEF new

LEMMA LastReadNext ==
    ASSUME NEW f, NEW n \in Nat, NEW e, LastRead(f, n, e)
    PROVE  LastRead(f, n + 1, IF f[n + 1].kind = "event" THEN n + 1 ELSE e)
<1>1. \A i : i \in 1..(n + 1) <=> i \in 1..n \/ i = n + 1
  OBVIOUS
<1>2. \A k \in Events(f, n + 1) : k \in Events(f, n) \/ (k = n + 1 /\ f[n + 1].kind = "event")
  BY <1>1 DEF Events
<1>3. \A k \in Events(f, n) : k \in 1..n /\ k \in Events(f, n + 1)
  BY <1>1 DEF Events
<1>4. f[n + 1].kind = "event" => n + 1 \in Events(f, n + 1)
  BY <1>1 DEF Events
<1>5. e \in 0..n
  BY DEF LastRead
<1>6. CASE f[n + 1].kind = "event"
  <2>1. n + 1 \in 0..(n + 1) /\ n + 1 \in Events(f, n + 1)
    BY <1>4, <1>6
  <2>2. \A k \in Events(f, n + 1) : k <= n + 1
    BY <1>2, <1>3
  <2> QED BY <1>6, <2>1, <2>2 DEF LastRead
<1>7. CASE f[n + 1].kind # "event"
  <2>1. e \in 0..(n + 1)
    BY <1>5
  <2>2. \A k \in Events(f, n + 1) : k \in Events(f, n)
    BY <1>2, <1>7
  <2> QED BY <1>3, <1>7, <2>1, <2>2 DEF LastRead
<1> QED BY <1>6, <1>7

LEMMA ReadNames ==
    ASSUME IInv, RInv, pos < Len(file), ReadLine(pos + 1, file[pos + 1]),
           pos' = pos + 1, file' = file, done' \in {"no", "eof", "error"}
    PROVE  RInv'
<1> DEFINE l == file[pos + 1]
           n == pos + 1
<1>0. pos \in Nat /\ l \in Line
  <2>1. Len(file) \in Nat /\ file \in Seq(Line)
    BY LenProperties DEF IInv, WellFormed
  <2>2. pos \in Nat /\ pos + 1 \in 1..Len(file)
    BY <2>1 DEF IInv
  <2> QED BY <2>1, <2>2, ElementOfSeq
<1>1. LastRead(file, n, IF l.kind = "event" THEN n ELSE lastEvent)
  BY <1>0, LastReadNext DEF RInv
<1>2. Restarted(file, n) = Restarted(file, pos) \cup
        (IF l.kind = "event" /\ l.prev = None /\ Heads(file, pos) # {}
         THEN {[line |-> n, after |-> lastEvent]} ELSE {})
  BY <1>0, RestartedNext DEF RInv
<1>3. report.heads = Heads(file, pos)
  BY HeadsReported
<1>4. n \in 1..n /\ \A s : s \subseteq 1..pos => s \subseteq 1..n
  BY <1>0
<1>5. report \in [DOMAIN Empty -> SUBSET (1..n)]
  BY <1>4 DEF RInv, Reported
<1> HIDE DEF n, l
<1>6. CASE ReadEvent(n, l)
  <2>1. /\ l.kind = "event" /\ lastEvent' = n /\ restarts' = restarts \cup Restart(n, l)
        /\ Judge(n, l) /\ prevHash' \in {l.body, prevHash}
    BY <1>6 DEF ReadEvent
  <2>2. Reported(report', n)
    BY <1>4, <1>5, <2>1 DEF Judge, Reported
  <2>3. restarts' = Restarted(file, n)
    BY <1>2, <1>3, <2>1 DEF Restart, RInv
  <2>4. prevHash' \in Hash
    BY <1>0, <2>1 DEF RInv, Line
  <2> QED BY <1>1, <2>1, <2>2, <2>3, <2>4 DEF RInv, n
<1>7. CASE ReadMalformed(n, l)
  <2>1. /\ l.kind = "junk" /\ lastEvent' = lastEvent /\ restarts' = restarts
        /\ prevHash' = prevHash
        /\ report' = [report EXCEPT !.lines = @ \cup {n}, !.malformed = @ \cup {n}]
    BY <1>7 DEF ReadMalformed
  <2>2. Reported(report', n)
    BY <1>4, <1>5, <2>1 DEF Reported, Empty
  <2> QED BY <1>1, <1>2, <2>1, <2>2 DEF RInv, n
<1>8. CASE ReadBlank(n, l)
  <2>1. /\ l.kind = "blank" /\ lastEvent' = lastEvent /\ restarts' = restarts
        /\ prevHash' = prevHash /\ report' = report
    BY <1>8 DEF ReadBlank, locals
  <2> QED BY <1>1, <1>2, <1>5, <2>1 DEF RInv, Reported, n
<1> QED BY <1>6, <1>7, <1>8 DEF ReadLine, n, l

LEMMA GrowNames ==
    ASSUME IInv, RInv, Grow
    PROVE  RInv'
<1>1. WellFormed(file') /\ Keeps(file, file')
  BY Growth DEF IInv
<1>2. pos \in Nat /\ Len(file) \in Nat /\ pos \in 0..Len(file) /\ \A i \in 1..pos : file[i].nl
  BY LenProperties DEF IInv, WellFormed, Grow
<1>3. \A i \in 1..pos : file'[i] = file[i]
  BY <1>1, <1>2 DEF Keeps
<1>4. /\ pos' = pos /\ lastEvent' = lastEvent /\ restarts' = restarts /\ report' = report
      /\ prevHash' = prevHash /\ done' = done
  BY DEF Grow, locals
<1>5. Restarted(file', pos) = Restarted(file, pos) /\ LastRead(file', pos, lastEvent)
  BY <1>2, <1>3, RestartedLocal DEF RInv
<1> QED BY <1>4, <1>5 DEF RInv

LEMMA Naming == VerifySpec => []RInv
<1>1. VerifyInit => RInv
  <2> SUFFICES ASSUME VerifyInit PROVE RInv
    OBVIOUS
  <2>1. pos = 0 /\ lastEvent = 0 /\ restarts = {} /\ report = Empty /\ prevHash = None /\ done = "no"
    BY DEF VerifyInit
  <2>2. LastRead(file, 0, 0) /\ Restarted(file, 0) = {}
    BY DEF LastRead, Restarted, Events
  <2>3. Reported(Empty, 0)
    BY DEF Reported, Empty
  <2> QED BY <2>1, <2>2, <2>3 DEF RInv, Hash
<1>2. IInv /\ RInv /\ [VerifyNext]_verifyVars => RInv'
  <2> SUFFICES ASSUME IInv, RInv, [VerifyNext]_verifyVars PROVE RInv'
    OBVIOUS
  <2>1. CASE Scan
    BY <2>1, ReadNames DEF Scan, RInv
  <2>2. CASE ScanLast
    BY <2>2, ReadNames DEF ScanLast
  <2>3. CASE ScanEnds \/ ScanFails
    BY <2>3 DEF ScanEnds, ScanFails, locals, RInv
  <2>4. CASE Grow
    BY <2>4, GrowNames
  <2>5. CASE UNCHANGED verifyVars
    BY <2>5 DEF verifyVars, locals, RInv
  <2> QED BY <2>1, <2>2, <2>3, <2>4, <2>5 DEF VerifyNext
<1> QED BY <1>1, <1>2, Inductive, PTL DEF VerifySpec

\* The reader's variables keep their types: no list names a line that was not
\* read, and a restart is always named with a line.
THEOREM ReportTyped == VerifySpec => []TypeOK
<1>1. IInv /\ RInv => TypeOK
  <2> SUFFICES ASSUME IInv, RInv PROVE TypeOK
    OBVIOUS
  <2>1. restarts \subseteq [line : 1..pos, after : 1..pos]
    BY DEF RInv, Restarted
  <2>2. DOMAIN Empty = {"lines", "malformed", "chained", "heads", "unverifiable", "breaks"}
    BY DEF Empty
  <2> QED BY <2>1, <2>2 DEF TypeOK, IInv, RInv, Memory, LastRead, Reported
<1> QED BY <1>1, Inductive, Naming, PTL

\* Whatever the reader names is a head after the first line, with the last event
\* before it; of a stream that opens with a head it names every such head.
THEOREM RestartsRight == VerifySpec => []RestartsNamed
<1>1. IInv /\ RInv => RestartsNamed
  <2> SUFFICES ASSUME IInv, RInv PROVE RestartsNamed
    OBVIOUS
  <2>0. pos \in Nat
    BY LenProperties DEF IInv, WellFormed
  <2>1. ASSUME NEW r \in Restarted(file, pos) PROVE r \in LaterHeads(file, pos)
    <3>1. /\ r \in [line : 1..pos, after : 1..pos]
          /\ r.line \in Heads(file, pos) /\ r.after \in Events(file, r.line - 1)
          /\ \A k \in Events(file, r.line - 1) : k <= r.after
          /\ Heads(file, r.line - 1) # {}
      BY DEF Restarted
    <3>2. r.line # 1
      BY <3>1 DEF Heads, Events
    <3>3. LastRead(file, r.line - 1, r.after)
      BY <2>0, <3>1 DEF LastRead, Events
    <3>4. r \in [line : 1..pos, after : 0..pos]
      BY <2>0, <3>1
    <3> QED BY <3>1, <3>2, <3>3, <3>4 DEF LaterHeads
  <2>2. ASSUME 1 \in Heads(file, pos), NEW r \in LaterHeads(file, pos)
        PROVE  r \in Restarted(file, pos)
    <3>1. /\ r \in [line : 1..pos, after : 0..pos]
          /\ r.line \in Heads(file, pos) /\ r.line # 1
          /\ LastRead(file, r.line - 1, r.after)
      BY DEF LaterHeads
    <3>2. 1 \in Heads(file, r.line - 1) /\ 1 \in Events(file, r.line - 1)
      BY <2>0, <2>2, <3>1 DEF Heads, Events
    <3>3. r.after \in Events(file, r.line - 1) /\ \A k \in Events(file, r.line - 1) : k <= r.after
      BY <3>1, <3>2 DEF LastRead
    <3>4. r \in [line : 1..pos, after : 1..pos]
      BY <2>0, <3>1, <3>3 DEF Events
    <3> QED BY <3>1, <3>2, <3>3, <3>4 DEF Restarted
  <2> QED BY <2>1, <2>2 DEF RestartsNamed, RInv
<1> QED BY <1>1, Inductive, Naming, PTL

\* VerifyChain accuses nobody of a stream that nobody forged: pointed at one
\* without a break, it reports none, though writers of both kinds append to the
\* stream, tear and glue its last line while it reads.
THEOREM HonestNeverAccused ==
    ASSUME \A f \in Streams : Unbroken(f)
    PROVE  VerifySpec => [](report.breaks = {})
<1>1. VerifyInit => Sound(file)
  BY StreamsAssumption DEF VerifyInit, Sound
<1>2. Sound(file) /\ [VerifyNext]_verifyVars => Sound(file)'
  <2> SUFFICES ASSUME Sound(file), [VerifyNext]_verifyVars PROVE Sound(file')
    BY DEF Sound, WellFormed, Unbroken, IsBreak, LastSolid
  <2>1. [LogNext]_file
    BY DEF VerifyNext, Scan, ScanLast, ScanEnds, ScanFails, Grow, verifyVars, LogNext
  <2> QED BY <2>1, LogStep
<1>3. Sound(file) /\ IInv /\ BreaksAreGenuine => report.breaks = {}
  <2> SUFFICES ASSUME Sound(file), IInv, BreaksAreGenuine, NEW i \in report.breaks PROVE FALSE
    OBVIOUS
  <2>1. i \in 1..pos /\ IsBreak(file, i)
    BY DEF BreaksAreGenuine
  <2>2. pos \in 0..Len(file) /\ Len(file) \in Nat
    BY LenProperties DEF IInv, WellFormed
  <2>3. i \in 1..Len(file)
    BY <2>1, <2>2
  <2> QED BY <2>1, <2>3 DEF Sound, Unbroken
<1> QED BY <1>1, <1>2, <1>3, Inductive, BreaksExact, PTL DEF VerifySpec
-----------------------------------------------------------------------------
(* readTail, over bytes. *)

LEMMA MaxIs ==
    ASSUME NEW N \in Nat, NEW S, S \subseteq 0..N, S # {}
    PROVE  Max(S) \in S /\ \A y \in S : y <= Max(S)
<1> DEFINE T == {N - x : x \in S}
<1>1. T \subseteq Nat /\ T # {}
  <2>1. \A x \in S : x \in 0..N /\ N - x \in Nat
    OBVIOUS
  <2> QED BY <2>1
<1>2. PICK t \in T : \A u \in T : t <= u
  BY <1>1, Least
<1>3. PICK x \in S : t = N - x
  BY <1>2
<1>4. \A y \in S : N - x <= N - y
  BY <1>2, <1>3
<1>5. \A y \in S : x >= y
  BY <1>4
<1> QED BY <1>5 DEF Max

LEMMA MinIs ==
    ASSUME NEW S, S \subseteq Nat, S # {}
    PROVE  Min(S) \in S /\ \A y \in S : Min(S) <= y
<1>1. \E x \in S : \A y \in S : x =< y
  BY Least
<1> QED BY <1>1 DEF Min

LEMMA LastOfIs ==
    ASSUME NEW N \in Nat, NEW S, S \subseteq 1..N
    PROVE  /\ LastOf(S) \in 0..N /\ \A y \in S : y <= LastOf(S)
           /\ LastOf(S) > 0 => LastOf(S) \in S
           /\ S # {} => LastOf(S) \in S
<1>1. S \cup {0} \subseteq 0..N /\ S \cup {0} # {}
  OBVIOUS
<1>2. LastOf(S) \in S \cup {0} /\ \A y \in S \cup {0} : y <= LastOf(S)
  BY <1>1, MaxIs DEF LastOf
<1>3. LastOf(S) \in 0..N /\ (LastOf(S) > 0 => LastOf(S) \in S) /\ \A y \in S : y <= LastOf(S)
  <2>1. LastOf(S) \in 0..N
    BY <1>1, <1>2
  <2>2. LastOf(S) = 0 \/ LastOf(S) \in S
    BY <1>2
  <2>3. \A y \in S : y <= LastOf(S)
    BY <1>2
  <2> QED BY <2>1, <2>2, <2>3
<1>4. ASSUME NEW y \in S PROVE LastOf(S) \in S
  <2>1. y > 0 /\ y \in 1..N
    OBVIOUS
  <2> QED BY <1>3, <2>1
<1> QED BY <1>3, <1>4

\* Only one number is the last of a set.
LEMMA LastOfThat ==
    ASSUME NEW N \in Nat, NEW S, S \subseteq 1..N, NEW x \in 0..N,
           x > 0 => x \in S, \A y \in S : y <= x
    PROVE  LastOf(S) = x
<1>1. /\ LastOf(S) \in 0..N /\ \A y \in S : y <= LastOf(S)
      /\ LastOf(S) > 0 => LastOf(S) \in S
  BY LastOfIs
<1> QED BY <1>1

\* What is solid in b, and where its last line begins.
LEMMA StartIs ==
    ASSUME NEW b \in Seq(Byte)
    PROVE  /\ Len(b) \in Nat /\ DOMAIN b = 1..Len(b) /\ Solid(b) \subseteq 1..Len(b)
           /\ LastOf(Solid(b)) \in 0..Len(b) /\ Start(b) \in 0..LastOf(Solid(b))
           /\ Start(b) > 0 => b[Start(b)] = "nl"
           /\ \A i \in 1..LastOf(Solid(b)) : b[i] = "nl" => i <= Start(b)
<1>1. Len(b) \in Nat /\ DOMAIN b = 1..Len(b) /\ Solid(b) \subseteq 1..Len(b)
  BY LenProperties DEF Solid
<1>2. LastOf(Solid(b)) \in 0..Len(b)
  BY <1>1, LastOfIs
<1> DEFINE e == LastOf(Solid(b))
           M == {i \in 1..e : b[i] = "nl"}
<1>3. e \in Nat /\ M \subseteq 1..e
  BY <1>2
<1>4. Start(b) = LastOf(M)
  BY DEF Start
<1> HIDE DEF e
<1>5. /\ LastOf(M) \in 0..e /\ \A i \in M : i <= LastOf(M)
      /\ LastOf(M) > 0 => LastOf(M) \in M
  BY <1>3, LastOfIs
<1> QED BY <1>1, <1>2, <1>4, <1>5 DEF e

LEMMA HeldIs ==
    ASSUME NEW b \in Seq(Byte), NEW n \in 0..Len(b)
    PROVE  /\ Held(b, n) \in Seq(Byte) /\ Len(Held(b, n)) = n
           /\ \A i \in 1..n : Held(b, n)[i] = b[Len(b) - n + i]
<1>1. Len(b) \in Nat /\ n \in Nat /\ \A i \in 1..Len(b) : b[i] \in Byte
  BY LenProperties, ElementOfSeq
<1>2. /\ Held(b, n) \in Seq(Byte)
      /\ Len(Held(b, n)) = IF Len(b) - n + 1 <= Len(b) THEN Len(b) - (Len(b) - n + 1) + 1 ELSE 0
      /\ \A i \in 1..(Len(b) - (Len(b) - n + 1) + 1) : Held(b, n)[i] = b[(Len(b) - n + 1) + i - 1]
  BY <1>1, SubSeqProperties DEF Held
<1>3. Len(Held(b, n)) = n
  BY <1>1, <1>2
<1>4. \A i \in 1..n : /\ i \in 1..(Len(b) - (Len(b) - n + 1) + 1)
                      /\ (Len(b) - n + 1) + i - 1 = Len(b) - n + i
  BY <1>1
<1> QED BY <1>2, <1>3, <1>4

\* A suffix that holds a newline before something solid holds the last line whole.
LEMMA HeldWhole ==
    ASSUME NEW b \in Seq(Byte), NEW n \in 0..Len(b), Start(Held(b, n)) > 0
    PROVE  /\ Start(b) = Len(b) - n + Start(Held(b, n))
           /\ SubSeq(Held(b, n), Start(Held(b, n)) + 1, n) = SubSeq(b, Start(b) + 1, Len(b))
<1> DEFINE h == Held(b, n)
           d == Len(b) - n
           s == Start(h)
           e == LastOf(Solid(h))
<1>1. /\ h \in Seq(Byte) /\ Len(h) = n /\ \A i \in 1..n : h[i] = b[d + i]
      /\ Len(b) \in Nat /\ n \in Nat /\ d \in Nat /\ d + n = Len(b)
  <2>1. Len(b) \in Nat
    BY LenProperties
  <2>2. n \in Nat /\ d \in Nat /\ d + n = Len(b)
    BY <2>1
  <2> QED BY <2>1, <2>2, HeldIs
<1> HIDE DEF h, d
<1>2. /\ Solid(h) \subseteq 1..n /\ e \in 0..n /\ s \in 0..e /\ h[s] = "nl" /\ s > 0
      /\ \A i \in 1..e : h[i] = "nl" => i <= s
      /\ DOMAIN h = 1..n /\ DOMAIN b = 1..Len(b)
  BY <1>1, StartIs DEF h
<1>3. e \in Solid(h) /\ \A j \in Solid(h) : j <= e
  BY <1>1, <1>2, LastOfIs
<1> HIDE DEF e, s
<1>4. LastOf(Solid(b)) = d + e
  <2>1. d + e \in 0..Len(b) /\ d + e \in Solid(b)
    BY <1>1, <1>2, <1>3 DEF Solid
  <2>2. ASSUME NEW j \in Solid(b) PROVE j <= d + e
    <3>1. j \in 1..Len(b) /\ b[j] \notin White
      BY <1>2 DEF Solid
    <3>2. CASE j <= d
      BY <1>1, <1>2, <3>1, <3>2
    <3>3. CASE j > d
      <4>0. j - d \in 1..n /\ d + (j - d) = j
        BY <1>1, <3>1, <3>3
      <4>1. j - d \in 1..n /\ h[j - d] = b[j]
        BY <1>1, <4>0
      <4>2. j - d \in Solid(h)
        BY <1>2, <3>1, <4>1 DEF Solid
      <4> QED BY <1>1, <1>2, <1>3, <3>1, <4>2
    <3> QED BY <1>1, <3>1, <3>2, <3>3
  <2>3. Solid(b) \subseteq 1..Len(b)
    BY StartIs
  <2> QED BY <1>1, <2>1, <2>2, <2>3, LastOfThat
<1>5. Start(b) = d + s
  <2>1. d + s \in 1..(d + e) /\ b[d + s] = "nl"
    BY <1>1, <1>2
  <2>2. ASSUME NEW i \in 1..(d + e), b[i] = "nl" PROVE i <= d + s
    <3>1. CASE i <= d
      BY <1>1, <1>2, <3>1
    <3>2. CASE i > d
      <4>1. i - d \in 1..e /\ i - d \in 1..n /\ h[i - d] = b[i]
        BY <1>1, <1>2, <3>2
      <4> QED BY <1>1, <1>2, <2>2, <4>1
    <3> QED BY <1>1, <1>2, <3>1, <3>2
  <2>3. Start(b) \in 0..(d + e) /\ (Start(b) > 0 => b[Start(b)] = "nl")
        /\ \A i \in 1..(d + e) : b[i] = "nl" => i <= Start(b)
    BY <1>4, StartIs
  <2> QED BY <1>1, <1>2, <2>1, <2>2, <2>3
<1>6. SubSeq(h, s + 1, n) = SubSeq(b, d + s + 1, Len(b))
  <2>1. \A i \in 1..n : h[i] \in Byte
    BY <1>1, ElementOfSeq
  <2>2. /\ SubSeq(h, s + 1, n) \in Seq(Byte) /\ Len(SubSeq(h, s + 1, n)) = n - s
        /\ \A i \in 1..(n - s) : SubSeq(h, s + 1, n)[i] = h[s + i]
    <3>1. /\ SubSeq(h, s + 1, n) \in Seq(Byte)
          /\ Len(SubSeq(h, s + 1, n)) = IF s + 1 <= n THEN n - (s + 1) + 1 ELSE 0
          /\ \A i \in 1..(n - (s + 1) + 1) : SubSeq(h, s + 1, n)[i] = h[(s + 1) + i - 1]
      BY <1>1, <1>2, <2>1, SubSeqProperties
    <3>2. \A i \in 1..(n - s) : i \in 1..(n - (s + 1) + 1) /\ (s + 1) + i - 1 = s + i
      BY <1>1, <1>2
    <3> QED BY <1>1, <1>2, <3>1, <3>2
  <2>3. \A i \in 1..Len(b) : b[i] \in Byte
    BY ElementOfSeq
  <2>4. /\ SubSeq(b, d + s + 1, Len(b)) \in Seq(Byte) /\ Len(SubSeq(b, d + s + 1, Len(b))) = n - s
        /\ \A i \in 1..(n - s) : SubSeq(b, d + s + 1, Len(b))[i] = b[d + s + i]
    <3>1. /\ SubSeq(b, d + s + 1, Len(b)) \in Seq(Byte)
          /\ Len(SubSeq(b, d + s + 1, Len(b)))
               = IF d + s + 1 <= Len(b) THEN Len(b) - (d + s + 1) + 1 ELSE 0
          /\ \A i \in 1..(Len(b) - (d + s + 1) + 1) :
                SubSeq(b, d + s + 1, Len(b))[i] = b[(d + s + 1) + i - 1]
      BY <1>1, <1>2, <2>3, SubSeqProperties
    <3>2. \A i \in 1..(n - s) : i \in 1..(Len(b) - (d + s + 1) + 1) /\ (d + s + 1) + i - 1 = d + s + i
      BY <1>1, <1>2
    <3> QED BY <1>1, <1>2, <3>1, <3>2
  <2>5. \A i \in 1..(n - s) : h[s + i] = b[d + s + i]
    <3>1. \A i \in 1..(n - s) : s + i \in 1..n /\ d + (s + i) = d + s + i
      BY <1>1, <1>2
    <3> QED BY <1>1, <3>1
  <2> QED BY <2>2, <2>4, <2>5, SeqEqual
<1> QED BY <1>5, <1>6 DEF h, d, s

\* For every content, chunk and window: what readTail hashes is the last line
\* that is not blank, or nothing when the window does not hold it.
LEMMA TailFound ==
    ASSUME NEW b \in Seq(Byte)
    PROVE  \/ ReadTail(b).hash = HashOf(SubSeq(b, Start(b) + 1, Len(b)))
           \/ ReadTail(b).hash = None /\ ~InWindow(b)
<1> DEFINE N == Len(b)
           limit == Min({N, Window})
           Last == {i \in Looks(b) : LastLook(b, i)}
           n == Min(Last)
           h == Held(b, n)
<1>1. N \in Nat /\ Window \in Nat
  BY LenProperties, WindowAssumption
<1>2. limit \in {N, Window} /\ limit <= N /\ limit <= Window
  BY <1>1, MinIs
<1>3. Looks(b) \subseteq 0..limit /\ limit \in Looks(b)
  BY <1>1, <1>2 DEF Looks
<1>4. LastLook(b, limit)
  BY <1>2 DEF LastLook, Found
<1> HIDE DEF limit
<1>5. n \in Looks(b) /\ LastLook(b, n) /\ n \in 0..N /\ n <= Window
  <2>1. Last \subseteq Nat /\ Last # {}
    BY <1>1, <1>2, <1>3, <1>4
  <2>2. n \in Last
    BY <2>1, MinIs
  <2> QED BY <1>1, <1>2, <1>3, <2>2
<1>6. ReadTail(b).hash = IF Found(b, n) THEN HashOf(SubSeq(h, Start(h) + 1, Len(h))) ELSE None
  BY DEF ReadTail
<1> HIDE DEF n, h
<1>7. h \in Seq(Byte) /\ Len(h) = n /\ \A i \in 1..n : h[i] = b[N - n + i]
  BY <1>5, HeldIs DEF h
<1>8. CASE Found(b, n) /\ n = N
  <2>1. h = b
    <3>1. \A i \in 1..n : h[i] = b[i]
      BY <1>1, <1>7, <1>8
    <3> QED BY <1>7, <1>8, <3>1, SeqEqual
  <2> QED BY <1>6, <1>8, <2>1
<1>9. CASE Found(b, n) /\ n # N
  <2>1. Start(h) > 0
    BY <1>9 DEF Found, h
  <2>2. SubSeq(h, Start(h) + 1, n) = SubSeq(b, Start(b) + 1, N)
    BY <1>5, <2>1, HeldWhole DEF h
  <2> QED BY <1>6, <1>7, <1>9, <2>2
<1>10. CASE ~Found(b, n)
  <2>1. n = Window /\ n # N /\ ~(Start(h) > 0)
    BY <1>5, <1>10 DEF LastLook, Found, h
  <2>2. ASSUME InWindow(b) PROVE FALSE
    <3>1. PICK i \in (N - n + 1)..N, j \in (N - n + 1)..N : b[i] = "nl" /\ i < j /\ j \in Solid(b)
      BY <1>1, <1>5, <2>1, <2>2 DEF InWindow
    <3> DEFINE d == N - n
    <3>2. d \in Nat /\ i - d \in 1..n /\ j - d \in 1..n /\ i - d < j - d /\ d + (i - d) = i /\ d + (j - d) = j
      BY <1>1, <1>5, <3>1
    <3>3. h[i - d] = "nl" /\ h[j - d] = b[j]
      BY <1>7, <3>1, <3>2
    <3>4. DOMAIN h = 1..n /\ Solid(h) \subseteq 1..n /\ n \in Nat
      BY <1>5, <1>7, StartIs
    <3>5. j - d \in Solid(h)
      BY <3>1, <3>2, <3>3, <3>4 DEF Solid
    <3>6. j - d <= LastOf(Solid(h)) /\ LastOf(Solid(h)) \in 0..n
      BY <3>4, <3>5, LastOfIs
    <3>7. i - d \in 1..LastOf(Solid(h))
      BY <3>2, <3>6
    <3>8. i - d <= Start(h) /\ Start(h) \in 0..LastOf(Solid(h))
      BY <1>7, <3>3, <3>7, StartIs
    <3> QED BY <2>1, <3>6, <3>7, <3>8
  <2> QED BY <1>6, <1>10, <2>2
<1> QED BY <1>8, <1>9, <1>10

\* What is hashed of a line whose first and last solid bytes are at m and k.
LEMMA HashIs ==
    ASSUME NEW b \in Seq(Byte), NEW m \in 1..Len(b), NEW k \in m..Len(b),
           m \in Solid(b), k \in Solid(b), \A i \in Solid(b) : m <= i /\ i <= k
    PROVE  HashOf(b) = IF /\ m < k /\ b[m] \in Hashable /\ b[k] = "last"
                          /\ \A i \in (m + 1)..(k - 1) : b[i] \in White
                       THEN b[m] ELSE None
<1> DEFINE z == SubSeq(b, m, k)
<1>1. Len(b) \in Nat /\ Solid(b) \subseteq 1..Len(b) /\ \A i \in 1..Len(b) : b[i] \in Byte
  BY StartIs, ElementOfSeq
<1>2. m \in Nat /\ k \in Nat /\ m <= k /\ k <= Len(b) /\ m >= 1
  BY <1>1
<1>3. Min(Solid(b)) = m
  <2>1. Solid(b) \subseteq Nat /\ Solid(b) # {}
    BY <1>1
  <2>2. Min(Solid(b)) \in Solid(b) /\ \A i \in Solid(b) : Min(Solid(b)) <= i
    BY <2>1, MinIs
  <2>3. Min(Solid(b)) <= m /\ m <= Min(Solid(b)) /\ Min(Solid(b)) \in Nat
    BY <2>1, <2>2
  <2> QED BY <1>2, <2>3
<1>4. LastOf(Solid(b)) = k
  BY <1>1, <1>2, LastOfThat
<1>5. Trim(b) = z
  BY <1>3, <1>4 DEF Trim
<1>6. z \in Seq(Byte) /\ Len(z) = k - m + 1 /\ \A i \in 1..(k - m + 1) : z[i] = b[m + i - 1]
  BY <1>1, <1>2, SubSeqProperties
<1> HIDE DEF z
<1>7. DOMAIN z = 1..(k - m + 1) /\ z[1] = b[m] /\ z[k - m + 1] = b[k]
  <2>1. 1 \in 1..(k - m + 1) /\ k - m + 1 \in 1..(k - m + 1) /\ m + 1 - 1 = m
        /\ m + (k - m + 1) - 1 = k
    BY <1>2
  <2> QED BY <1>6, <2>1, LenProperties
<1>8. m < k => (Solid(z) = {1, k - m + 1} <=> \A i \in (m + 1)..(k - 1) : b[i] \in White)
  <2> SUFFICES ASSUME m < k
               PROVE  Solid(z) = {1, k - m + 1} <=> \A i \in (m + 1)..(k - 1) : b[i] \in White
    OBVIOUS
  <2>1. \A i \in 1..(k - m + 1) : i \in Solid(z) <=> b[m + i - 1] \notin White
    BY <1>6, <1>7 DEF Solid
  <2>2. Solid(z) \subseteq 1..(k - m + 1) /\ 1 \in Solid(z) /\ k - m + 1 \in Solid(z)
    <3>1. b[m] \notin White /\ b[k] \notin White
      BY DEF Solid
    <3> QED BY <1>2, <1>7, <3>1 DEF Solid
  <2>3. ASSUME Solid(z) = {1, k - m + 1}, NEW i \in (m + 1)..(k - 1) PROVE b[i] \in White
    <3>1. i - m + 1 \in 1..(k - m + 1) /\ m + (i - m + 1) - 1 = i /\ i - m + 1 \notin {1, k - m + 1}
      BY <1>2
    <3> QED BY <2>1, <2>3, <3>1
  <2>4. ASSUME \A i \in (m + 1)..(k - 1) : b[i] \in White, NEW i \in Solid(z)
        PROVE  i \in {1, k - m + 1}
    <3>1. i \in 1..(k - m + 1) /\ b[m + i - 1] \notin White
      BY <2>1, <2>2
    <3>2. m + i - 1 \notin (m + 1)..(k - 1)
      BY <2>4, <3>1
    <3> QED BY <1>2, <3>1, <3>2
  <2> QED BY <2>2, <2>3, <2>4
<1>9. Hashable \subseteq Content
  BY ConstantsAssumption
<1> QED BY <1>2, <1>5, <1>6, <1>7, <1>8, <1>9 DEF HashOf, IsObject

\* White space has no hash.
LEMMA WhiteHash ==
    ASSUME NEW b \in Seq(Byte), Solid(b) = {}
    PROVE  HashOf(b) = None
BY EmptySeq DEF HashOf, Trim, IsObject

LEMMA ConcatParts ==
    ASSUME NEW S, NEW p \in Seq(S), NEW q \in Seq(S)
    PROVE  /\ p \o q \in Seq(S) /\ Len(p \o q) = Len(p) + Len(q)
           /\ Len(p) \in Nat /\ Len(q) \in Nat
           /\ \A i \in 1..Len(p) : (p \o q)[i] = p[i]
           /\ \A i \in 1..Len(q) : (p \o q)[Len(p) + i] = q[i]
<1>1. /\ p \o q \in Seq(S) /\ Len(p \o q) = Len(p) + Len(q)
      /\ \A i \in 1..(Len(p) + Len(q)) : (p \o q)[i] = IF i <= Len(p) THEN p[i] ELSE q[i - Len(p)]
  BY ConcatProperties
<1>2. Len(p) \in Nat /\ Len(q) \in Nat
  BY LenProperties
<1>3. ASSUME NEW i \in 1..Len(p) PROVE (p \o q)[i] = p[i]
  <2>1. i \in 1..(Len(p) + Len(q)) /\ i <= Len(p)
    BY <1>2
  <2> QED BY <1>1, <2>1
<1>4. ASSUME NEW i \in 1..Len(q) PROVE (p \o q)[Len(p) + i] = q[i]
  <2>1. /\ Len(p) + i \in 1..(Len(p) + Len(q)) /\ ~(Len(p) + i <= Len(p))
        /\ Len(p) + i - Len(p) = i
    BY <1>2
  <2> QED BY <1>1, <2>1
<1> QED BY <1>1, <1>2, <1>3, <1>4

LEMMA Tuples ==
    ASSUME NEW S, NEW a \in S, NEW b \in S, NEW c \in S, NEW d \in S
    PROVE  /\ <<>> \in Seq(S) /\ Len(<<>>) = 0
           /\ <<a>> \in Seq(S) /\ Len(<<a>>) = 1 /\ <<a>>[1] = a
           /\ <<a, b>> \in Seq(S) /\ Len(<<a, b>>) = 2 /\ <<a, b>>[1] = a /\ <<a, b>>[2] = b
           /\ <<a, b, c>> \in Seq(S) /\ Len(<<a, b, c>>) = 3
           /\ <<a, b, c>>[1] = a /\ <<a, b, c>>[2] = b /\ <<a, b, c>>[3] = c
           /\ <<a, b, c, d>> \in Seq(S) /\ Len(<<a, b, c, d>>) = 4
           /\ <<a, b, c, d>>[1] = a /\ <<a, b, c, d>>[2] = b
           /\ <<a, b, c, d>>[3] = c /\ <<a, b, c, d>>[4] = d
OBVIOUS

\* The bytes of a line but for its newline, where its solid ones are.
LEMMA TextIs ==
    ASSUME NEW l \in Line, l.kind = "event" => l.body \in Content, NEW t \in Text(l)
    PROVE  /\ t \in Seq(Byte) /\ \A i \in 1..Len(t) : t[i] # "nl"
           /\ l.kind = "blank" => Solid(t) = {}
           /\ l.kind # "blank" => Solid(t) # {}
           /\ Len(t) = 0 => l.nl
           /\ l.kind # "blank" => HashOf(t) = IF Chainable(l) THEN l.body ELSE None
<1> DEFINE hash == IF Chainable(l) THEN l.body ELSE None
<1>1. \A c \in Content : c \in Byte /\ c \notin White /\ c # "last" /\ c # "nl" /\ c # "space"
  BY ByteAssumption DEF Byte, White
<1>2. /\ "last" \in Byte /\ "space" \in Byte /\ "last" \notin White /\ "space" \in White
      /\ "last" # "nl" /\ "space" # "nl" /\ "last" # "space"
  BY DEF Byte, White
<1>3. Hashable \subseteq Content /\ "last" \notin Hashable
  <2>1. Hashable \subseteq Content
    BY ConstantsAssumption
  <2> QED BY <1>1, <2>1
<1>4. l.kind \in {"event", "junk", "blank"}
  BY DEF Line
<1>5. CASE l.kind = "event"
  <2> DEFINE c == l.body
  <2>1. c \in Content /\ hash = IF c \in Hashable THEN c ELSE None
    BY <1>5 DEF Chainable
  <2> HIDE DEF c, hash
  <2>2. t \in {<<c, "last">>, <<"space", c, "last">>, <<c, "last", "space">>}
    BY <1>5 DEF Text, c
  <2>3. SUFFICES t \in Seq(Byte) /\ (\A i \in 1..Len(t) : t[i] # "nl") /\ Solid(t) # {}
                 /\ Len(t) # 0 /\ HashOf(t) = hash
    BY <1>5 DEF hash
  <2>4. CASE t = <<c, "last">>
    <3>1. t \in Seq(Byte) /\ Len(t) = 2 /\ t[1] = c /\ t[2] = "last"
      BY <1>1, <1>2, <2>1, <2>4, Tuples
    <3>2. 1..Len(t) = {1, 2} /\ DOMAIN t = {1, 2}
      BY <3>1, LenProperties
    <3>3. Solid(t) = {1, 2}
      BY <1>1, <1>2, <2>1, <3>1, <3>2 DEF Solid
    <3>4. /\ 1 \in 1..Len(t) /\ 2 \in 1..Len(t) /\ 1 \in Solid(t) /\ 2 \in Solid(t)
          /\ \A i \in Solid(t) : 1 <= i /\ i <= 2
      BY <3>1, <3>3
    <3>6. HashOf(t) = IF /\ 1 < 2 /\ t[1] \in Hashable /\ t[2] = "last"
                         /\ \A i \in (1 + 1)..(2 - 1) : t[i] \in White
                      THEN t[1] ELSE None
      BY <3>1, <3>4, HashIs, Zenon
    <3>7. \A i \in (1 + 1)..(2 - 1) : t[i] \in White
      OBVIOUS
    <3>5. HashOf(t) = hash
      BY <2>1, <3>1, <3>6, <3>7
    <3> QED BY <1>1, <1>2, <2>1, <3>1, <3>2, <3>3, <3>5
  <2>5. CASE t = <<"space", c, "last">>
    <3>1. t \in Seq(Byte) /\ Len(t) = 3 /\ t[1] = "space" /\ t[2] = c /\ t[3] = "last"
      BY <1>1, <1>2, <2>1, <2>5, Tuples
    <3>2. 1..Len(t) = {1, 2, 3} /\ DOMAIN t = {1, 2, 3}
      BY <3>1, LenProperties
    <3>3. Solid(t) = {2, 3}
      BY <1>1, <1>2, <2>1, <3>1, <3>2 DEF Solid
    <3>4. /\ 2 \in 1..Len(t) /\ 3 \in 2..Len(t) /\ 2 \in Solid(t) /\ 3 \in Solid(t)
          /\ \A i \in Solid(t) : 2 <= i /\ i <= 3
      BY <3>1, <3>3
    <3>6. HashOf(t) = IF /\ 2 < 3 /\ t[2] \in Hashable /\ t[3] = "last"
                         /\ \A i \in (2 + 1)..(3 - 1) : t[i] \in White
                      THEN t[2] ELSE None
      BY <3>1, <3>4, HashIs, Zenon
    <3>7. \A i \in (2 + 1)..(3 - 1) : t[i] \in White
      OBVIOUS
    <3>5. HashOf(t) = hash
      BY <2>1, <3>1, <3>6, <3>7
    <3> QED BY <1>1, <1>2, <2>1, <3>1, <3>2, <3>3, <3>5
  <2>6. CASE t = <<c, "last", "space">>
    <3>1. t \in Seq(Byte) /\ Len(t) = 3 /\ t[1] = c /\ t[2] = "last" /\ t[3] = "space"
      BY <1>1, <1>2, <2>1, <2>6, Tuples
    <3>2. 1..Len(t) = {1, 2, 3} /\ DOMAIN t = {1, 2, 3}
      BY <3>1, LenProperties
    <3>3. Solid(t) = {1, 2}
      BY <1>1, <1>2, <2>1, <3>1, <3>2 DEF Solid
    <3>4. /\ 1 \in 1..Len(t) /\ 2 \in 1..Len(t) /\ 1 \in Solid(t) /\ 2 \in Solid(t)
          /\ \A i \in Solid(t) : 1 <= i /\ i <= 2
      BY <3>1, <3>3
    <3>6. HashOf(t) = IF /\ 1 < 2 /\ t[1] \in Hashable /\ t[2] = "last"
                         /\ \A i \in (1 + 1)..(2 - 1) : t[i] \in White
                      THEN t[1] ELSE None
      BY <3>1, <3>4, HashIs, Zenon
    <3>7. \A i \in (1 + 1)..(2 - 1) : t[i] \in White
      OBVIOUS
    <3>5. HashOf(t) = hash
      BY <2>1, <3>1, <3>6, <3>7
    <3> QED BY <1>1, <1>2, <2>1, <3>1, <3>2, <3>3, <3>5
  <2> QED BY <2>2, <2>4, <2>5, <2>6
<1>6. CASE l.kind = "junk"
  <2>1. hash = None
    BY <1>6 DEF Chainable
  <2>2. \/ t = <<"last">>
        \/ \E c \in Content : t = <<c>> \/ t = <<c, "last", c, "last">>
    BY <1>3, <1>6 DEF Text
  <2> HIDE DEF hash
  <2>3. SUFFICES t \in Seq(Byte) /\ (\A i \in 1..Len(t) : t[i] # "nl") /\ Solid(t) # {}
                 /\ Len(t) # 0 /\ HashOf(t) = None
    BY <1>6, <2>1 DEF hash
  <2>4. ASSUME NEW d \in Byte, d \notin White, d # "nl", t = <<d>>
        PROVE  t \in Seq(Byte) /\ (\A i \in 1..Len(t) : t[i] # "nl") /\ Solid(t) # {}
               /\ Len(t) # 0 /\ HashOf(t) = None
    <3>1. t \in Seq(Byte) /\ Len(t) = 1 /\ t[1] = d
      BY <2>4, Tuples
    <3>2. 1..Len(t) = {1} /\ DOMAIN t = {1}
      BY <3>1, LenProperties
    <3>3. Solid(t) = {1}
      BY <2>4, <3>1, <3>2 DEF Solid
    <3>4. HashOf(t) = None
      BY <3>1, <3>3, HashIs
    <3> QED BY <2>4, <3>1, <3>2, <3>3, <3>4
  <2>5. ASSUME NEW c \in Content, t = <<c, "last", c, "last">>
        PROVE  t \in Seq(Byte) /\ (\A i \in 1..Len(t) : t[i] # "nl") /\ Solid(t) # {}
               /\ Len(t) # 0 /\ HashOf(t) = None
    <3>1. t \in Seq(Byte) /\ Len(t) = 4 /\ t[1] = c /\ t[2] = "last" /\ t[3] = c /\ t[4] = "last"
      BY <1>1, <1>2, <2>5, Tuples
    <3>2. 1..Len(t) = {1, 2, 3, 4} /\ DOMAIN t = {1, 2, 3, 4}
      BY <3>1, LenProperties
    <3>3. Solid(t) = {1, 2, 3, 4}
      BY <1>1, <1>2, <3>1, <3>2 DEF Solid
    <3>4. 2 \in (1 + 1)..(4 - 1) /\ t[2] \notin White
      BY <1>2, <3>1
    <3>6. /\ 1 \in 1..Len(t) /\ 4 \in 1..Len(t) /\ 1 \in Solid(t) /\ 4 \in Solid(t)
          /\ \A i \in Solid(t) : 1 <= i /\ i <= 4
      BY <3>1, <3>3
    <3>7. HashOf(t) = IF /\ 1 < 4 /\ t[1] \in Hashable /\ t[4] = "last"
                         /\ \A i \in (1 + 1)..(4 - 1) : t[i] \in White
                      THEN t[1] ELSE None
      BY <3>1, <3>6, HashIs
    <3>5. HashOf(t) = None
      BY <3>4, <3>7
    <3> QED BY <1>1, <1>2, <3>1, <3>2, <3>3, <3>5
  <2> QED BY <1>1, <1>2, <2>2, <2>4, <2>5
<1>7. CASE l.kind = "blank"
  <2>1. t = <<"space">> \/ (t = <<>> /\ l.nl)
    BY <1>7 DEF Text
  <2>2. t \in Seq(Byte) /\ \A i \in 1..Len(t) : t[i] = "space"
    <3>1. CASE t = <<"space">>
      <4>1. t \in Seq(Byte) /\ Len(t) = 1 /\ t[1] = "space"
        BY <1>2, <3>1, Tuples
      <4> QED BY <4>1
    <3>2. CASE t = <<>>
      BY <3>2
    <3> QED BY <2>1, <3>1, <3>2
  <2>3. DOMAIN t = 1..Len(t)
    BY <2>2, LenProperties
  <2>4. Solid(t) = {}
    BY <1>2, <2>2, <2>3 DEF Solid
  <2>5. Len(t) = 0 => l.nl
    BY <2>1
  <2> QED BY <1>2, <1>7, <2>2, <2>4, <2>5
<1> QED BY <1>4, <1>5, <1>6, <1>7

LEMMA SolidConcat ==
    ASSUME NEW t \in Seq(Byte), NEW q \in Seq(Byte)
    PROVE  /\ \A i \in Solid(t) : i \in Solid(t \o q)
           /\ \A i \in Solid(t \o q) : i \in Solid(t) \/ (i > Len(t) /\ i - Len(t) \in Solid(q))
           /\ \A i \in Solid(q) : Len(t) + i \in Solid(t \o q)
<1>1. /\ t \o q \in Seq(Byte) /\ Len(t \o q) = Len(t) + Len(q)
      /\ \A i \in 1..Len(t) : (t \o q)[i] = t[i]
      /\ \A i \in 1..Len(q) : (t \o q)[Len(t) + i] = q[i]
  BY ConcatProperties
<1>2. /\ DOMAIN t = 1..Len(t) /\ DOMAIN q = 1..Len(q) /\ DOMAIN (t \o q) = 1..(Len(t) + Len(q))
      /\ Len(t) \in Nat /\ Len(q) \in Nat
  BY <1>1, LenProperties
<1> HIDE DEF Byte
<1>3. \A i \in Solid(t) : i \in Solid(t \o q)
  BY <1>1, <1>2 DEF Solid
<1>4. ASSUME NEW i \in Solid(t \o q)
      PROVE  i \in Solid(t) \/ (i > Len(t) /\ i - Len(t) \in Solid(q))
  <2>1. i \in 1..(Len(t) + Len(q)) /\ (t \o q)[i] \notin White
    BY <1>2 DEF Solid
  <2>2. CASE i \in 1..Len(t)
    BY <1>1, <1>2, <2>1, <2>2 DEF Solid
  <2>3. CASE i > Len(t)
    <3> DEFINE j == i - Len(t)
    <3>1. j \in 1..Len(q) /\ i = Len(t) + j
      BY <1>2, <2>1, <2>3
    <3> HIDE DEF j
    <3>2. q[j] \notin White
      BY <1>1, <2>1, <3>1
    <3>3. j \in Solid(q)
      BY <1>2, <3>1, <3>2 DEF Solid
    <3> QED BY <2>3, <3>3 DEF j
  <2> QED BY <1>2, <2>1, <2>2, <2>3
<1>5. ASSUME NEW i \in Solid(q) PROVE Len(t) + i \in Solid(t \o q)
  <2>1. i \in 1..Len(q) /\ q[i] \notin White
    BY <1>2 DEF Solid
  <2>2. Len(t) + i \in 1..(Len(t) + Len(q))
    BY <1>2, <2>1
  <2>3. (t \o q)[Len(t) + i] = q[i]
    BY <1>1, <2>1
  <2> QED BY <1>2, <2>1, <2>2, <2>3 DEF Solid
<1> QED BY <1>3, <1>4, <1>5

\* White space after a line is no matter.
LEMMA Padded ==
    ASSUME NEW t \in Seq(Byte), NEW q \in Seq(Byte), Solid(q) = {}
    PROVE  t \o q \in Seq(Byte) /\ Solid(t \o q) = Solid(t) /\ HashOf(t \o q) = HashOf(t)
<1> DEFINE r == t \o q
<1> SUFFICES r \in Seq(Byte) /\ Solid(r) = Solid(t) /\ HashOf(r) = HashOf(t)
  OBVIOUS
<1>1. /\ r \in Seq(Byte) /\ Len(r) = Len(t) + Len(q)
      /\ \A i \in 1..Len(t) : r[i] = t[i]
      /\ Len(t) \in Nat /\ Len(q) \in Nat
  BY ConcatProperties, LenProperties
<1>2. Solid(r) = Solid(t)
  <2>1. \A i \in Solid(t) : i \in Solid(r)
    BY SolidConcat
  <2>2. \A i \in Solid(r) : i \in Solid(t)
    BY SolidConcat
  <2> HIDE DEF r
  <2> QED BY <2>1, <2>2
<1>3. Solid(t) \subseteq 1..Len(t)
  BY StartIs
<1> HIDE DEF r
<1>4. CASE Solid(t) = {}
  BY <1>1, <1>2, <1>4, WhiteHash
<1>5. CASE Solid(t) # {}
  <2> DEFINE m == Min(Solid(t))
             k == LastOf(Solid(t))
  <2>1. m \in Solid(t) /\ \A i \in Solid(t) : m <= i
    <3>1. Solid(t) \subseteq Nat
      BY <1>3
    <3> QED BY <1>5, <3>1, MinIs
  <2>2. k \in Solid(t) /\ \A i \in Solid(t) : i <= k
    BY <1>1, <1>3, <1>5, LastOfIs
  <2> HIDE DEF m, k
  <2>3. /\ m \in 1..Len(t) /\ k \in m..Len(t) /\ \A i \in Solid(t) : m <= i /\ i <= k
        /\ m \in 1..Len(r) /\ k \in m..Len(r)
    BY <1>1, <1>3, <2>1, <2>2
  <2>4. HashOf(t) = IF /\ m < k /\ t[m] \in Hashable /\ t[k] = "last"
                       /\ \A i \in (m + 1)..(k - 1) : t[i] \in White
                    THEN t[m] ELSE None
    BY <2>1, <2>2, <2>3, HashIs, Zenon
  <2>5. HashOf(r) = IF /\ m < k /\ r[m] \in Hashable /\ r[k] = "last"
                       /\ \A i \in (m + 1)..(k - 1) : r[i] \in White
                    THEN r[m] ELSE None
    BY <1>1, <1>2, <2>1, <2>2, <2>3, HashIs, Zenon
  <2>6. r[m] = t[m] /\ r[k] = t[k] /\ \A i \in (m + 1)..(k - 1) : r[i] = t[i]
    <3>1. k \in 1..Len(t) /\ \A i \in (m + 1)..(k - 1) : i \in 1..Len(t)
      BY <1>1, <2>3
    <3> QED BY <1>1, <2>3, <3>1
  <2> QED BY <1>1, <1>2, <2>4, <2>5, <2>6
<1> QED BY <1>1, <1>2, <1>4, <1>5

\* The last line of b that is not blank is t, before white space.
Ends(b, t) ==
    \E p \in Seq(Byte), q \in Seq(Byte) :
        b = p \o (t \o q) /\ Solid(q) = {} /\ (Len(p) > 0 => p[Len(p)] = "nl")

LEMMA EndsHash ==
    ASSUME NEW b \in Seq(Byte), NEW t \in Seq(Byte), Solid(t) # {},
           \A i \in 1..Len(t) : t[i] # "nl", Ends(b, t)
    PROVE  HashOf(SubSeq(b, Start(b) + 1, Len(b))) = HashOf(t)
<1>1. PICK p \in Seq(Byte), q \in Seq(Byte) :
         b = p \o (t \o q) /\ Solid(q) = {} /\ (Len(p) > 0 => p[Len(p)] = "nl")
  BY DEF Ends
<1> DEFINE r == t \o q
<1>2. r \in Seq(Byte) /\ Solid(r) = Solid(t) /\ HashOf(r) = HashOf(t)
  BY <1>1, Padded
<1>3. /\ Len(r) = Len(t) + Len(q) /\ \A i \in 1..Len(t) : r[i] = t[i]
      /\ Len(t) \in Nat /\ Len(q) \in Nat /\ Len(p) \in Nat /\ Len(r) \in Nat
  BY <1>2, ConcatProperties, LenProperties
<1>4. Solid(t) \subseteq 1..Len(t)
  BY StartIs
<1> HIDE DEF r
<1>5. b = p \o r
  BY <1>1 DEF r
<1>6. /\ Len(b) = Len(p) + Len(r)
      /\ \A i \in 1..Len(p) : b[i] = p[i]
      /\ \A i \in 1..Len(r) : b[Len(p) + i] = r[i]
  BY <1>2, <1>5, ConcatProperties
<1>7. /\ \A i \in Solid(b) : i \in Solid(p) \/ (i > Len(p) /\ i - Len(p) \in Solid(r))
      /\ \A i \in Solid(r) : Len(p) + i \in Solid(b)
  BY <1>2, <1>5, SolidConcat
<1>8. Solid(p) \subseteq 1..Len(p) /\ Solid(b) \subseteq 1..Len(b) /\ Len(b) \in Nat
  BY StartIs
<1> DEFINE e == LastOf(Solid(b))
<1>9. e \in (Len(p) + 1)..(Len(p) + Len(t))
  <2>1. PICK i \in Solid(t) : TRUE
    OBVIOUS
  <2>2. Len(p) + i \in Solid(b) /\ i >= 1
    BY <1>2, <1>4, <1>7, <2>1
  <2>3. e \in Solid(b) /\ Len(p) + i <= e /\ e \in Nat
    BY <1>8, <2>2, LastOfIs
  <2>4. ~(e \in Solid(p))
    BY <1>3, <1>4, <1>8, <2>1, <2>2, <2>3
  <2>5. e - Len(p) \in 1..Len(t)
    BY <1>2, <1>4, <1>7, <2>3, <2>4
  <2> QED BY <1>3, <2>3, <2>5
<1> DEFINE M == {i \in 1..e : b[i] = "nl"}
<1>10. LastOf(M) = Len(p)
  <2>1. e \in Nat /\ M \subseteq 1..e /\ Len(p) \in 0..e
    BY <1>3, <1>9
  <2>2. Len(p) > 0 => Len(p) \in M
    BY <1>1, <1>3, <1>6, <2>1
  <2>3. ASSUME NEW i \in M PROVE i <= Len(p)
    <3> SUFFICES ASSUME i > Len(p) PROVE FALSE
      BY <1>3, <2>1
    <3> DEFINE j == i - Len(p)
    <3>1. j \in 1..Len(t) /\ i = Len(p) + j /\ j \in 1..Len(r)
      BY <1>3, <1>9, <2>1
    <3> HIDE DEF j
    <3>2. b[i] = t[j] /\ b[i] = "nl"
      BY <1>3, <1>6, <3>1
    <3> QED BY <3>1, <3>2
  <2> HIDE DEF e, M
  <2> QED BY <2>1, <2>2, <2>3, LastOfThat
<1>11. Start(b) = Len(p)
  BY <1>10 DEF Start
<1>12. SubSeq(b, Len(p) + 1, Len(b)) = r
  <2>1. Len(r) > 0
    BY <1>3, <1>9
  <2>2. SubSeq(b, Len(p) + 1, Len(p) + Len(r)) = SubSeq(r, Len(p) + 1 - Len(p), Len(p) + Len(r) - Len(p))
    <3>1. Len(p) + 1 \in (Len(p) + 1)..(Len(p) + Len(r))
          /\ Len(p) + Len(r) \in (Len(p) + 1)..(Len(p) + Len(r))
      BY <1>3, <2>1
    <3> QED BY <1>2, <1>5, <3>1, SubSeqOfConcat2
  <2>3. Len(p) + 1 - Len(p) = 1 /\ Len(p) + Len(r) - Len(p) = Len(r)
    BY <1>3
  <2>4. SubSeq(r, 1, Len(r)) = r
    BY <1>2, SubSeqFull
  <2> QED BY <1>6, <2>2, <2>3, <2>4
<1> QED BY <1>2, <1>11, <1>12

\* What is appended to a file without solid bytes, or after a line of its own.
LEMMA EndsMore ==
    ASSUME NEW b \in Seq(Byte), NEW t \in Seq(Byte), NEW s \in Seq(Byte), Solid(s) = {}, Ends(b, t)
    PROVE  Ends(b \o s, t)
<1>1. PICK p \in Seq(Byte), q \in Seq(Byte) :
         b = p \o (t \o q) /\ Solid(q) = {} /\ (Len(p) > 0 => p[Len(p)] = "nl")
  BY DEF Ends
<1>2. q \o s \in Seq(Byte) /\ Solid(q \o s) = {}
  BY <1>1, Padded
<1>3. b \o s = p \o (t \o (q \o s))
  <2>1. t \o q \in Seq(Byte)
    BY ConcatProperties
  <2>2. b \o s = p \o ((t \o q) \o s)
    <3> DEFINE r == t \o q
    <3>1. r \in Seq(Byte) /\ b = p \o r
      BY <1>1, <2>1
    <3> HIDE DEF r
    <3>2. (p \o r) \o s = p \o (r \o s)
      BY <3>1, ConcatAssociative
    <3> QED BY <3>1, <3>2 DEF r
  <2>3. (t \o q) \o s = t \o (q \o s)
    BY ConcatAssociative
  <2> QED BY <2>2, <2>3
<1> QED BY <1>1, <1>2, <1>3 DEF Ends

LEMMA EndsHere ==
    ASSUME NEW b \in Seq(Byte), NEW t \in Seq(Byte), NEW s \in Seq(Byte), Solid(s) = {},
           Len(b) > 0 => b[Len(b)] = "nl"
    PROVE  Ends(b \o (t \o s), t)
BY DEF Ends

\* The bytes B of what precedes line n of f, and then that line.
More(f, B, n) == {b \o t : b \in B, t \in Spellings(f[n])}

LEMMA MoreIs ==
    ASSUME NEW f, NEW B, NEW n, NEW c \in More(f, B, n)
    PROVE  \E b \in B, t \in Spellings(f[n]) : c = b \o t
BY DEF More

\* Glued is the function its recursion says.
LEMMA GluedIs ==
    ASSUME NEW f, Len(f) \in Nat
    PROVE  \A n \in 0..Len(f) :
              Glued(f)[n] = IF n = 0 THEN {<<>>} ELSE More(f, Glued(f)[n - 1], n)
<1> DEFINE Made(g, m) == g = [n \in 0..m |-> IF n = 0 THEN {<<>>} ELSE More(f, g[n - 1], n)]
           Bad == {m \in 0..Len(f) : ~ \E g : Made(g, m)}
<1>1. Bad = {}
  <2> SUFFICES ASSUME Bad # {} PROVE FALSE
    OBVIOUS
  <2>1. PICK m \in Bad : \A k \in Bad : m <= k
    <3>1. Bad \subseteq Nat
      OBVIOUS
    <3> HIDE DEF Bad
    <3> QED BY <3>1, Least
  <2>2. m \in 0..Len(f) /\ ~ \E g : Made(g, m)
    BY <2>1
  <2>3. CASE m = 0
    <3> DEFINE g == [n \in 0..0 |-> {<<>>}]
    <3>1. g = [n \in 0..0 |-> IF n = 0 THEN {<<>>} ELSE More(f, g[n - 1], n)]
      OBVIOUS
    <3>2. Made(g, 0)
      BY <3>1
    <3> HIDE DEF Made
    <3> QED BY <2>2, <2>3, <3>2
  <2>4. CASE m # 0
    <3>1. m - 1 \in 0..Len(f) /\ m - 1 \notin Bad /\ m \in Nat /\ m - 1 \in Nat
      <4>1. m \in 1..Len(f) /\ m - 1 \in 0..Len(f) /\ m - 1 \in Nat /\ ~(m <= m - 1)
        BY <2>2, <2>4
      <4> HIDE DEF Bad
      <4> QED BY <2>1, <4>1
    <3>2. PICK g : Made(g, m - 1)
      BY <3>1
    <3> DEFINE h == [n \in 0..m |-> IF n = m THEN More(f, g[m - 1], m) ELSE g[n]]
    <3>3. \A n \in 0..(m - 1) : g[n] = IF n = 0 THEN {<<>>} ELSE More(f, g[n - 1], n)
      BY <3>2
    <3>4. ASSUME NEW n \in 0..m
          PROVE  h[n] = IF n = 0 THEN {<<>>} ELSE More(f, h[n - 1], n)
      <4>1. CASE n = m
        <5>1. n # 0 /\ n - 1 \in 0..m /\ n - 1 # m /\ h[n - 1] = g[m - 1]
          BY <2>4, <3>1, <4>1
        <5> QED BY <4>1, <5>1
      <4>2. CASE n # m
        <5>1. n \in 0..(m - 1) /\ h[n] = g[n]
          BY <3>1, <4>2
        <5>2. CASE n = 0
          BY <3>3, <5>1, <5>2
        <5>3. CASE n # 0
          <6>1. n - 1 \in 0..m /\ n - 1 # m
            BY <3>1, <4>2, <5>3
          <6>2. h[n - 1] = g[n - 1]
            BY <6>1
          <6> QED BY <3>3, <5>1, <5>3, <6>2
        <5> QED BY <5>2, <5>3
      <4> QED BY <4>1, <4>2
    <3>5. h = [n \in 0..m |-> h[n]]
      OBVIOUS
    <3> HIDE DEF h
    <3>6. [n \in 0..m |-> h[n]] = [n \in 0..m |-> IF n = 0 THEN {<<>>} ELSE More(f, h[n - 1], n)]
      BY <3>4
    <3>7. Made(h, m)
      BY <3>5, <3>6
    <3> HIDE DEF Made
    <3> QED BY <2>2, <3>7
  <2> QED BY <2>3, <2>4
<1>2. \E g : Made(g, Len(f))
  <2>1. Len(f) \in 0..Len(f)
    OBVIOUS
  <2> HIDE DEF Made
  <2> QED BY <1>1, <2>1
<1>3. Glued(f) = CHOOSE g : Made(g, Len(f))
  BY DEF Glued, More
<1>4. Made(Glued(f), Len(f))
  <2> HIDE DEF Made
  <2> QED BY <1>2, <1>3
<1> QED BY <1>4

\* What the bytes of the first n lines of f are like.
Spelt(b, f, n) ==
    /\ b \in Seq(Byte)
    /\ n = 0 <=> Len(b) = 0
    /\ n > 0 => (b[Len(b)] = "nl" <=> f[n].nl)
    /\ (\A i \in 1..n : f[i].kind = "blank") => Solid(b) = {}
    /\ \A j \in 1..n : LastSolid(f, n, j) => \E t \in Text(f[j]) : Ends(b, t)

LEMMA SpeltOn ==
    ASSUME NEW f, WellFormed(f), NEW n \in Nat, n < Len(f), NEW b, Spelt(b, f, n),
           NEW s \in Spellings(f[n + 1])
    PROVE  Spelt(b \o s, f, n + 1)
<1> DEFINE l == f[n + 1]
           e == IF l.nl THEN <<"nl">> ELSE <<>>
<1>1. /\ l \in Line /\ l.nl \in BOOLEAN /\ (l.kind = "event" => l.body \in Content)
      /\ n > 0 => f[n].nl
  <2>1. f \in Seq(Line) /\ Len(f) \in Nat
    BY LenProperties DEF WellFormed
  <2>2. n + 1 \in 1..Len(f) /\ (n > 0 => n \in 1..(Len(f) - 1))
    BY <2>1
  <2>3. l \in Line
    BY <2>1, <2>2, ElementOfSeq
  <2> QED BY <2>2, <2>3 DEF WellFormed, Line
<1>2. PICK t \in Text(l) : s = t \o e
  BY DEF Spellings
<1> HIDE DEF l
<1>3. /\ t \in Seq(Byte) /\ (\A i \in 1..Len(t) : t[i] # "nl")
      /\ (l.kind = "blank" => Solid(t) = {}) /\ (Len(t) = 0 => l.nl)
  BY <1>1, TextIs
<1>4. e \in Seq(Byte) /\ Solid(e) = {} /\ (l.nl => Len(e) = 1 /\ e[1] = "nl") /\ (~l.nl => Len(e) = 0)
  <2>1. "nl" \in Byte /\ "nl" \in White
    BY DEF Byte, White
  <2>2. CASE l.nl
    <3>1. e \in Seq(Byte) /\ Len(e) = 1 /\ e[1] = "nl"
      BY <2>1, <2>2, Tuples
    <3>2. DOMAIN e = {1}
      BY <3>1, LenProperties
    <3> QED BY <2>1, <2>2, <3>1, <3>2 DEF Solid
  <2>3. CASE ~l.nl
    BY <2>3 DEF Solid
  <2> QED BY <2>2, <2>3
<1> HIDE DEF e
<1>5. s \in Seq(Byte) /\ Solid(s) = Solid(t) /\ Len(s) = Len(t) + Len(e)
      /\ Len(t) \in Nat /\ Len(e) \in Nat
  BY <1>2, <1>3, <1>4, Padded, ConcatProperties, LenProperties
<1>6. b \in Seq(Byte) /\ (Len(b) > 0 => b[Len(b)] = "nl") /\ Len(b) \in Nat
  <2>1. b \in Seq(Byte) /\ Len(b) \in Nat
    BY LenProperties DEF Spelt
  <2> QED BY <1>1, <2>1 DEF Spelt
<1>7. b \o s \in Seq(Byte) /\ Len(b \o s) = Len(b) + Len(s)
      /\ \A i \in 1..Len(s) : (b \o s)[Len(b) + i] = s[i]
  <2>1. b \in Seq(Byte) /\ s \in Seq(Byte)
    BY <1>5, <1>6
  <2> QED BY <2>1, ConcatParts
<1>8. Len(s) > 0 /\ (s[Len(s)] = "nl" <=> l.nl)
  <2>1. CASE l.nl
    <3>0. Len(e) = 1 /\ e[1] = "nl"
      BY <1>4, <2>1
    <3>1. Len(s) = Len(t) + 1 /\ e[1] = "nl" /\ 1 \in 1..Len(e)
      BY <1>5, <3>0
    <3>2. \A i \in 1..Len(e) : (t \o e)[Len(t) + i] = e[i]
      BY <1>3, <1>4, ConcatProperties
    <3> QED BY <1>2, <1>5, <2>1, <3>1, <3>2
  <2>2. CASE ~l.nl
    <3>1. Len(s) = Len(t) /\ Len(t) > 0
      BY <1>3, <1>4, <1>5, <2>2
    <3>2. \A i \in 1..Len(t) : (t \o e)[i] = t[i]
      BY <1>3, <1>4, ConcatProperties
    <3> QED BY <1>2, <1>3, <1>5, <2>2, <3>1, <3>2
  <2> QED BY <2>1, <2>2
<1>9. Len(b \o s) > 0 /\ ((b \o s)[Len(b \o s)] = "nl" <=> l.nl)
  <2>1. Len(s) \in 1..Len(s) /\ Len(b) + Len(s) > 0
    BY <1>5, <1>6, <1>8
  <2> QED BY <1>7, <1>8, <2>1
<1>10. CASE l.kind = "blank"
  <2>1. Solid(s) = {} /\ Solid(b \o s) = Solid(b)
    BY <1>3, <1>5, <1>6, <1>10, Padded
  <2>2. (\A i \in 1..(n + 1) : f[i].kind = "blank") => Solid(b \o s) = {}
    <3>1. \A i \in 1..n : i \in 1..(n + 1)
      OBVIOUS
    <3> QED BY <2>1, <3>1 DEF Spelt
  <2>3. ASSUME NEW j \in 1..(n + 1), LastSolid(f, n + 1, j)
        PROVE  \E u \in Text(f[j]) : Ends(b \o s, u)
    <3>1. j \in 1..n /\ LastSolid(f, n, j)
      <4>1. l.kind = f[n + 1].kind
        BY DEF l
      <4> QED BY <1>10, <2>3, <4>1, SolidNext
    <3>2. PICK u \in Text(f[j]) : Ends(b, u)
      BY <3>1 DEF Spelt
    <3>3. u \in Seq(Byte)
      <4>1. f \in Seq(Line) /\ Len(f) \in Nat /\ j \in 1..Len(f)
        BY <3>1, LenProperties DEF WellFormed
      <4>2. f[j] \in Line /\ (f[j].kind = "event" => f[j].body \in Content)
        BY <4>1, ElementOfSeq DEF WellFormed
      <4> QED BY <3>2, <4>2, TextIs
    <3> QED BY <1>5, <1>6, <2>1, <3>2, <3>3, EndsMore
  <2>4. n + 1 # 0 /\ n + 1 > 0 /\ Len(b \o s) # 0 /\ f[n + 1].nl = l.nl
    BY <1>9 DEF l
  <2> QED BY <1>7, <1>9, <2>2, <2>3, <2>4 DEF Spelt
<1>11. CASE l.kind # "blank"
  <2>1. ~(\A i \in 1..(n + 1) : f[i].kind = "blank")
    <3>1. n + 1 \in 1..(n + 1)
      OBVIOUS
    <3> QED BY <1>11, <3>1 DEF l
  <2>2. ASSUME NEW j \in 1..(n + 1), LastSolid(f, n + 1, j)
        PROVE  \E u \in Text(f[j]) : Ends(b \o s, u)
    <3>1. f[j] = l
      <4>1. j = n + 1
        <5>1. l.kind = f[n + 1].kind
          BY DEF l
        <5> QED BY <1>11, <2>2, <5>1, SolidNext
      <4> QED BY <4>1 DEF l
    <3>2. Ends(b \o (t \o e), t)
      BY <1>3, <1>4, <1>6, EndsHere
    <3> QED BY <1>2, <3>1, <3>2
  <2>3. n + 1 # 0 /\ n + 1 > 0 /\ Len(b \o s) # 0 /\ f[n + 1].nl = l.nl
    BY <1>9 DEF l
  <2> QED BY <1>7, <1>9, <2>1, <2>2, <2>3 DEF Spelt
<1> QED BY <1>10, <1>11

LEMMA BytesSpelt ==
    ASSUME NEW f, WellFormed(f)
    PROVE  \A b \in Bytes(f) : Spelt(b, f, Len(f))
<1>1. Len(f) \in Nat
  BY LenProperties DEF WellFormed
<1>2. \A n \in 0..Len(f) : Glued(f)[n] = IF n = 0 THEN {<<>>} ELSE More(f, Glued(f)[n - 1], n)
  BY <1>1, GluedIs
<1> DEFINE Bad == {m \in 0..Len(f) : ~ \A b \in Glued(f)[m] : Spelt(b, f, m)}
<1>3. Bad = {}
  <2> SUFFICES ASSUME Bad # {} PROVE FALSE
    OBVIOUS
  <2>1. PICK m \in Bad : \A k \in Bad : m <= k
    <3>1. Bad \subseteq Nat
      OBVIOUS
    <3> HIDE DEF Bad
    <3> QED BY <3>1, Least
  <2>2. m \in 0..Len(f) /\ ~ \A b \in Glued(f)[m] : Spelt(b, f, m)
    BY <2>1
  <2>3. CASE m = 0
    <3>1. Glued(f)[m] = {<<>>}
      BY <1>2, <2>2, <2>3
    <3>2. <<>> \in Seq(Byte) /\ Len(<<>>) = 0 /\ Solid(<<>>) = {}
      BY DEF Solid
    <3>3. Spelt(<<>>, f, 0)
      BY <3>2 DEF Spelt
    <3> QED BY <2>2, <2>3, <3>1, <3>3
  <2>4. CASE m # 0
    <3>1. PICK n \in Nat : n \in 0..Len(f) /\ n < Len(f) /\ n + 1 = m /\ n = m - 1 /\ ~(m <= n)
      <4>1. /\ m - 1 \in Nat /\ m - 1 \in 0..Len(f) /\ m - 1 < Len(f) /\ (m - 1) + 1 = m
            /\ ~(m <= m - 1)
        BY <1>1, <2>2, <2>4
      <4> QED BY <4>1
    <3>2. n \notin Bad
      <4> HIDE DEF Bad
      <4> QED BY <2>1, <3>1
    <3>3. \A b \in Glued(f)[n] : Spelt(b, f, n)
      BY <3>1, <3>2
    <3>4. Glued(f)[m] = More(f, Glued(f)[n], m)
      BY <1>2, <2>2, <2>4, <3>1
    <3>5. PICK c \in Glued(f)[m] : ~Spelt(c, f, m)
      BY <2>2
    <3>6. PICK b \in Glued(f)[n], s \in Spellings(f[m]) : c = b \o s
      <4> DEFINE B == Glued(f)[n]
      <4>1. c \in More(f, B, m)
        BY <3>4, <3>5
      <4> HIDE DEF B
      <4>2. \E b \in B, s \in Spellings(f[m]) : c = b \o s
        BY <4>1, MoreIs
      <4> QED BY <4>2 DEF B
    <3>7. Spelt(b \o s, f, n + 1)
      BY <3>1, <3>3, <3>6, SpeltOn
    <3> QED BY <3>1, <3>5, <3>6, <3>7
  <2> QED BY <2>3, <2>4
<1>4. Len(f) \in 0..Len(f)
  BY <1>1
<1> QED BY <1>3, <1>4 DEF Bytes

\* A stream that is not all blank lines has a last line that is not blank.
LEMMA SolidExists ==
    ASSUME NEW f, NEW n \in Nat, NEW i \in 1..n, f[i].kind # "blank"
    PROVE  \E j \in 1..n : LastSolid(f, n, j)
<1> DEFINE S == {j \in 1..n : f[j].kind # "blank"}
<1>1. S \subseteq 0..n /\ S # {}
  OBVIOUS
<1>2. PICK j \in S : \A k \in S : k <= j
  <2> HIDE DEF S
  <2> QED BY <1>1, MaxIs
<1>3. j \in 1..n /\ f[j].kind # "blank"
  BY <1>2
<1>4. \A k \in (j + 1)..n : f[k].kind = "blank"
  BY <1>2, <1>3
<1> QED BY <1>3, <1>4 DEF LastSolid

\* What is hashed of the bytes of a stream is what its lines say.
LEMMA BytesHash ==
    ASSUME NEW f, WellFormed(f), NEW b \in Bytes(f)
    PROVE  HashOf(SubSeq(b, Start(b) + 1, Len(b))) = TailHash(f)
<1> DEFINE n == Len(f)
<1>1. n \in Nat /\ f \in Seq(Line) /\ Spelt(b, f, n) /\ b \in Seq(Byte)
  BY LenProperties, BytesSpelt DEF WellFormed, Spelt
<1>2. CASE \E j \in 1..n : LastSolid(f, n, j)
  <2>1. PICK j \in 1..n : LastSolid(f, n, j)
    BY <1>2
  <2>2. PICK t \in Text(f[j]) : Ends(b, t)
    BY <1>1, <2>1 DEF Spelt
  <2>3. f[j] \in Line /\ (f[j].kind = "event" => f[j].body \in Content) /\ f[j].kind # "blank"
    BY <1>1, <2>1, ElementOfSeq DEF WellFormed, LastSolid
  <2>4. /\ t \in Seq(Byte) /\ (\A i \in 1..Len(t) : t[i] # "nl") /\ Solid(t) # {}
        /\ HashOf(t) = IF Chainable(f[j]) THEN f[j].body ELSE None
    BY <2>3, TextIs
  <2>5. HashOf(SubSeq(b, Start(b) + 1, Len(b))) = HashOf(t)
    BY <1>1, <2>2, <2>4, EndsHash
  <2>6. TailHash(f) = IF Chainable(f[j]) THEN f[j].body ELSE None
    <3>1. CASE Chainable(f[j])
      BY <2>1, <3>1, TailHashOf
    <3>2. CASE ~Chainable(f[j])
      <4>1. ~ \E i \in 1..n : LastSolid(f, n, i) /\ Chainable(f[i])
        BY <1>1, <2>1, <3>2, SolidUnique
      <4> QED BY <3>2, <4>1 DEF TailHash
    <3> QED BY <3>1, <3>2
  <2> QED BY <2>4, <2>5, <2>6
<1>3. CASE ~ \E j \in 1..n : LastSolid(f, n, j)
  <2>1. \A i \in 1..n : f[i].kind = "blank"
    BY <1>1, <1>3, SolidExists
  <2>2. Solid(b) = {}
    BY <1>1, <2>1 DEF Spelt
  <2>3. LastOf(Solid(b)) = 0
    <3>1. Len(b) \in Nat
      BY <1>1, LenProperties
    <3> QED BY <2>2, <3>1, LastOfThat
  <2>4. Start(b) = 0
    <3>1. Start(b) \in 0..LastOf(Solid(b))
      BY <1>1, StartIs
    <3> QED BY <2>3, <3>1
  <2>5. SubSeq(b, Start(b) + 1, Len(b)) = b
    <3>1. SubSeq(b, 1, Len(b)) = b
      BY <1>1, SubSeqFull
    <3> QED BY <2>4, <3>1
  <2>6. HashOf(b) = None
    BY <1>1, <2>2, WhiteHash
  <2>7. TailHash(f) = None
    BY <1>3 DEF TailHash
  <2> QED BY <2>5, <2>6, <2>7
<1> QED BY <1>2, <1>3

\* So is what is said of its last byte.
LEMMA BytesEnd ==
    ASSUME NEW f, WellFormed(f), NEW b \in Bytes(f)
    PROVE  ReadTail(b).nl = EndsNewline(f)
<1>1. Len(f) \in Nat /\ f \in Seq(Line) /\ Spelt(b, f, Len(f)) /\ b \in Seq(Byte) /\ Len(b) \in Nat
  BY LenProperties, BytesSpelt DEF WellFormed, Spelt
<1>2. ReadTail(b).nl = (b = <<>> \/ b[Len(b)] = "nl")
  BY DEF ReadTail
<1>3. CASE Len(f) = 0
  <2>1. b = <<>>
    BY <1>1, <1>3, EmptySeq DEF Spelt
  <2> QED BY <1>2, <1>3, <2>1 DEF EndsNewline
<1>4. CASE Len(f) # 0
  <2>1. Len(f) \in 1..Len(f) /\ Len(f) > 0
    BY <1>1, <1>4
  <2>2. f[Len(f)].nl \in BOOLEAN
    <3>1. f[Len(f)] \in Line
      BY <1>1, <2>1, ElementOfSeq
    <3> QED BY <3>1 DEF Line
  <2>3. b # <<>> /\ (b[Len(b)] = "nl" <=> f[Len(f)].nl)
    <3>1. Len(b) # 0 /\ (b[Len(b)] = "nl" <=> f[Len(f)].nl)
      BY <1>1, <1>4, <2>1 DEF Spelt
    <3> QED BY <3>1
  <2> QED BY <1>2, <1>4, <2>2, <2>3 DEF EndsNewline
<1> QED BY <1>3, <1>4

\* What ChainLog takes for granted of readTail, it does: of any stream that its
\* window does not cut short it returns the digest of the last line that is not
\* blank, and whether the last line is terminated, whatever its reads.
THEOREM TailImplemented ==
    ASSUME NEW f, WellFormed(f), NEW b \in Bytes(f), InWindow(b)
    PROVE  ReadTail(b).hash = TailHash(f) /\ ReadTail(b).nl = EndsNewline(f)
<1>1. b \in Seq(Byte)
  BY BytesSpelt DEF Spelt
<1> QED BY <1>1, TailFound, BytesHash, BytesEnd

-----------------------------------------------------------------------------
\* The reader has read all there is when it says so.
AtEnd == done = "eof" => pos = Len(file)

LEMMA ReadsAll == VerifySpec => []AtEnd
<1>1. VerifyInit => AtEnd
  BY DEF VerifyInit, AtEnd
<1>2. IInv /\ AtEnd /\ [VerifyNext]_verifyVars => AtEnd'
  <2> SUFFICES ASSUME IInv, AtEnd, [VerifyNext]_verifyVars PROVE AtEnd'
    OBVIOUS
  <2>0. pos \in Nat /\ Len(file) \in Nat /\ pos \in 0..Len(file)
    BY LenProperties DEF IInv, WellFormed
  <2>1. CASE Scan
    BY <2>1 DEF Scan, AtEnd
  <2>2. CASE ScanLast
    <3>1. pos < Len(file) /\ ~file[pos + 1].nl /\ pos' = pos + 1 /\ file' = file
      BY <2>2 DEF ScanLast
    <3>2. ~(pos + 1 \in 1..(Len(file) - 1))
      BY <3>1 DEF IInv, WellFormed
    <3>3. pos + 1 = Len(file)
      BY <2>0, <3>1, <3>2
    <3> QED BY <3>1, <3>3 DEF AtEnd
  <2>3. CASE ScanEnds \/ ScanFails
    BY <2>3 DEF ScanEnds, ScanFails, AtEnd
  <2>4. CASE Grow
    BY <2>4 DEF Grow, AtEnd
  <2>5. CASE UNCHANGED verifyVars
    BY <2>5 DEF verifyVars, AtEnd
  <2> QED BY <2>1, <2>2, <2>3, <2>4, <2>5 DEF VerifyNext
<1> QED BY <1>1, <1>2, Inductive, PTL DEF VerifySpec

\* Whatever stream is read, its bytes spelt and cut up for reading in whatever
\* way and whatever the window: the next event is chained from the line that the
\* reader will judge it by, or from nothing, and from nothing only when the
\* window does not hold that line (readTail and verifyChain).
THEOREM TailExact == VerifySpec => []TailIsExact
<1>1. IInv /\ AtEnd => TailIsExact
  <2> SUFFICES ASSUME IInv, AtEnd, done = "eof" PROVE TailIsExact
    BY DEF TailIsExact
  <2>1. WellFormed(file) /\ pos = Len(file) /\ Len(file) \in Nat
        /\ Memory(file, Len(file), prevSeen, prevKnown, prevHash)
    BY LenProperties DEF IInv, AtEnd, WellFormed
  <2>2. Remembered = TailHash(file)
    <3>1. CASE \E j \in 1..Len(file) : Digest(file, Len(file), j)
      <4>1. PICK j \in 1..Len(file) : Digest(file, Len(file), j)
        BY <3>1
      <4>2. TailHash(file) = file[j].body
        BY <2>1, <4>1, TailHashOf DEF Digest
      <4> QED BY <2>1, <3>1, <4>1, <4>2 DEF Memory, Remembered, Checks
    <3>2. CASE ~ \E j \in 1..Len(file) : Digest(file, Len(file), j)
      <4>1. TailHash(file) = None
        BY <3>2 DEF TailHash, Digest
      <4> QED BY <2>1, <3>2, <4>1 DEF Memory, Remembered, Checks
    <3> QED BY <3>1, <3>2
  <2>3. ASSUME NEW b \in Bytes(file)
        PROVE  /\ ReadTail(b).hash = Remembered \/ (ReadTail(b).hash = None /\ ~InWindow(b))
               /\ ReadTail(b).nl = EndsNewline(file)
    <3>1. b \in Seq(Byte)
      BY <2>1, BytesSpelt DEF Spelt
    <3> QED BY <2>1, <2>2, <3>1, TailFound, BytesHash, BytesEnd
  <2> QED BY <2>2, <2>3 DEF TailIsExact
<1> QED BY <1>1, Inductive, ReadsAll, PTL

-----------------------------------------------------------------------------
(* Lines that a scan counts. *)

LEMMA LinesOf ==
    ASSUME NEW f, WellFormed(f)
    PROVE  /\ f \in Seq(Line) /\ Len(f) \in Nat /\ Lines(f) \in 0..Len(f)
           /\ EndsNewline(f) => Lines(f) = Len(f)
           /\ ~EndsNewline(f) => Lines(f) + 1 = Len(f)
           /\ \A n \in 1..Lines(f) : f[n].nl /\ f[n] \in Line
           /\ \A n : HeadAt(f, n) # None => n \in 1..Lines(f)
           /\ \A n : HeadAt(f, n) \in Hash
<1>1. f \in Seq(Line) /\ Len(f) \in Nat /\ \A n \in 1..Len(f) : f[n] \in Line
  BY LenProperties, ElementOfSeq DEF WellFormed
<1>2. ~EndsNewline(f) => Len(f) # 0
  BY DEF EndsNewline
<1>3. /\ Lines(f) \in 0..Len(f)
      /\ EndsNewline(f) => Lines(f) = Len(f)
      /\ ~EndsNewline(f) => Lines(f) + 1 = Len(f)
  BY <1>1, <1>2 DEF Lines
<1>4. \A n \in 1..Lines(f) : f[n].nl
  <2>1. CASE EndsNewline(f)
    BY <1>1, <1>3, <2>1 DEF EndsNewline, WellFormed
  <2>2. CASE ~EndsNewline(f)
    BY <1>1, <1>3, <2>2 DEF WellFormed
  <2> QED BY <2>1, <2>2
<1>5. \A n : HeadAt(f, n) # None => n \in 1..Lines(f)
  BY DEF HeadAt
<1>6. ASSUME NEW n PROVE HeadAt(f, n) \in Hash
  <2>1. CASE n \in 1..Lines(f) /\ Chainable(f[n])
    <3>1. f[n].body \in Hash
      BY <2>1, ConstantsAssumption DEF Chainable, Hash
    <3> QED BY <2>1, <3>1 DEF HeadAt
  <2>2. CASE ~(n \in 1..Lines(f) /\ Chainable(f[n]))
    BY <2>2 DEF HeadAt, Hash
  <2> QED BY <2>1, <2>2
<1> QED BY <1>1, <1>3, <1>4, <1>5, <1>6

\* Two streams that agree on the first n lines have one prefix of n lines.
LEMMA SamePrefix ==
    ASSUME NEW f \in Seq(Line), NEW g \in Seq(Line), NEW n \in Nat, n <= Len(f), n <= Len(g),
           \A i \in 1..n : g[i] = f[i]
    PROVE  Prefix(g, n) = Prefix(f, n)
<1>1. Len(f) \in Nat /\ Len(g) \in Nat /\ \A i \in 1..n : f[i] \in Line /\ g[i] \in Line
  BY LenProperties, ElementOfSeq
<1>2. /\ SubSeq(f, 1, n) \in Seq(Line) /\ Len(SubSeq(f, 1, n)) = n
      /\ \A i \in 1..n : SubSeq(f, 1, n)[i] = f[i]
  BY <1>1, SubSeqProperties
<1>3. /\ SubSeq(g, 1, n) \in Seq(Line) /\ Len(SubSeq(g, 1, n)) = n
      /\ \A i \in 1..n : SubSeq(g, 1, n)[i] = g[i]
  BY <1>1, SubSeqProperties
<1> QED BY <1>2, <1>3, SeqEqual DEF Prefix

\* What has been counted stays as it was while others write.
LEMMA Counted ==
    ASSUME NEW f, WellFormed(f), NEW g, WellFormed(g), Keeps(f, g)
    PROVE  /\ Lines(f) <= Lines(g)
           /\ \A n \in 1..Lines(f) : g[n] = f[n]
           /\ \A n \in 0..Lines(f) : Prefix(g, n) = Prefix(f, n) /\ HeadAt(g, n) = HeadAt(f, n)
<1>1. /\ f \in Seq(Line) /\ Len(f) \in Nat /\ Lines(f) \in 0..Len(f)
      /\ g \in Seq(Line) /\ Len(g) \in Nat /\ Lines(g) \in 0..Len(g)
      /\ \A n \in 1..Lines(f) : f[n].nl
      /\ ~EndsNewline(g) => Lines(g) + 1 = Len(g)
      /\ EndsNewline(g) => Lines(g) = Len(g)
  BY LinesOf
<1>2. \A n \in 1..Lines(f) : n \in 1..Len(g) /\ g[n] = f[n]
  BY <1>1 DEF Keeps
<1>3. Lines(f) <= Lines(g)
  <2> SUFFICES ASSUME Lines(g) < Lines(f) PROVE FALSE
    BY <1>1
  <2>1. Lines(f) \in 1..Lines(f) /\ Lines(f) <= Len(g)
    BY <1>1, <1>2
  <2>2. ~EndsNewline(g) /\ Lines(f) = Len(g)
    BY <1>1, <2>1
  <2> QED BY <1>1, <1>2, <2>1, <2>2 DEF EndsNewline
<1>4. ASSUME NEW n \in 0..Lines(f)
      PROVE  Prefix(g, n) = Prefix(f, n) /\ HeadAt(g, n) = HeadAt(f, n)
  <2>1. Prefix(g, n) = Prefix(f, n)
    BY <1>1, <1>2, <1>3, SamePrefix
  <2>2. n \in 1..Lines(f) <=> n \in 1..Lines(g)
    BY <1>1, <1>3
  <2>3. HeadAt(g, n) = HeadAt(f, n)
    BY <1>2, <2>2 DEF HeadAt
  <2> QED BY <2>1, <2>3
<1> QED BY <1>2, <1>3, <1>4

\* Hashing on from line m gives what hashing from byte zero would.
LEMMA HashedOn ==
    ASSUME NEW f \in Seq(Line), NEW n \in 0..Len(f), NEW m \in 0..n
    PROVE  /\ Prefix(f, m) \o SubSeq(f, m + 1, n) = Prefix(f, n)
           /\ SubSeq(f, m + 1, n) = <<>> <=> m = n
           /\ Prefix(f, n) \in Seq(Line) /\ SubSeq(f, m + 1, n) \in Seq(Line)
<1>1. Len(f) \in Nat /\ n \in Nat /\ m \in Nat /\ m <= n /\ n <= Len(f)
      /\ \A i \in 1..n : f[i] \in Line
  BY LenProperties, ElementOfSeq
<1>2. SubSeq(f, m + 1, n) \in Seq(Line) /\ Len(SubSeq(f, m + 1, n)) = n - m
  <2>1. CASE m + 1 <= n + 1
    BY <1>1, <2>1, SubSeqProperties
  <2> QED BY <1>1, <2>1
<1>3. Prefix(f, n) \in Seq(Line)
  BY <1>1, SubSeqProperties DEF Prefix
<1>4. Prefix(f, m) \o SubSeq(f, m + 1, n) = Prefix(f, n)
  BY <1>1, ConcatAdjacentSubSeq DEF Prefix
<1>5. SubSeq(f, m + 1, n) = <<>> <=> m = n
  BY <1>1, <1>2, EmptySeq
<1> QED BY <1>2, <1>3, <1>4, <1>5

\* The last event among the lines, when there is one.
LEMMA LastGoodIs ==
    ASSUME NEW f, WellFormed(f)
    PROVE  /\ LastGood(f) \in 0..Lines(f)
           /\ LastGood(f) > 0 => HeadAt(f, LastGood(f)) # None
           /\ (\E n \in 1..Lines(f) : HeadAt(f, n) # None) => LastGood(f) > 0
<1> DEFINE N == Lines(f)
           Good == {n \in 1..N : HeadAt(f, n) # None}
           Is(n) == HeadAt(f, n) # None /\ \A k \in (n + 1)..N : HeadAt(f, k) = None
<1>0. N \in Nat
  BY LinesOf
<1>1. CASE ~ \E n \in 1..N : HeadAt(f, n) # None
  <2>1. LastGood(f) = 0
    BY <1>1 DEF LastGood
  <2> QED BY <1>0, <1>1, <2>1
<1>2. CASE \E n \in 1..N : HeadAt(f, n) # None
  <2>1. \E n \in 1..N : Is(n)
    <3> DEFINE T == {N - n : n \in Good}
    <3>1. T \subseteq Nat /\ T # {}
      BY <1>0, <1>2
    <3>2. PICK x \in T : \A y \in T : x <= y
      BY <3>1, Least
    <3>3. PICK n \in Good : x = N - n
      BY <3>2
    <3>4. \A k \in Good : N - n <= N - k
      BY <3>2, <3>3
    <3>5. Is(n)
      BY <1>0, <3>4
    <3> QED BY <3>5
  <2>2. LastGood(f) = CHOOSE n \in 1..N : Is(n)
    BY <1>2 DEF LastGood
  <2> HIDE DEF Is, N
  <2>3. LastGood(f) \in 1..N /\ Is(LastGood(f))
    BY <2>1, <2>2
  <2> QED BY <1>0, <2>3 DEF Is, N
<1> QED BY <1>1, <1>2

-----------------------------------------------------------------------------
(* Types. *)

Typed ==
    /\ WellFormed(file)
    /\ side \in Seq(Record) /\ torn \in BOOLEAN /\ ids \in Nat
    /\ pc \in [Writers -> {"down", "idle"} \cup InLock]
    /\ sum \in [Writers -> Seq(Line)] /\ last \in [Writers -> Seq(Line)]
    /\ count \in [Writers -> Nat] /\ head \in [Writers -> Hash]
    /\ prev \in [Writers -> Nat] /\ size \in [Writers -> Nat] /\ pending \in [Writers -> Nat]
    /\ stale \in [Writers -> BOOLEAN] /\ base \in [Writers -> Nat]

\* Where a look at the stream starts, and what it has then.
LEMMA Starts ==
    ASSUME Typed, NEW w \in Writers
    PROVE  /\ From(w) \in 0..Lines(file) /\ Added(w) \in Nat
           /\ Before(w) \in Seq(Line) /\ Settled(w) \in Seq(Line) /\ New(w) \in Seq(Line)
           /\ New(w) = <<>> <=> From(w) = Lines(file)
           /\ Shrank(w) \in BOOLEAN
<1>1. Lines(file) \in 0..Len(file) /\ Len(file) \in Nat /\ file \in Seq(Line)
  BY LinesOf DEF Typed
<1>2. count[w] \in Nat /\ sum[w] \in Seq(Line) /\ last[w] \in Seq(Line)
  BY DEF Typed
<1>3. From(w) \in 0..Lines(file)
  BY <1>1, <1>2 DEF From, Shrank
<1>4. New(w) \in Seq(Line) /\ (New(w) = <<>> <=> From(w) = Lines(file))
  BY <1>1, <1>3, HashedOn DEF New
<1>5. Before(w) \in Seq(Line) /\ Settled(w) \in Seq(Line)
  BY <1>2, EmptySeq DEF Before, Settled
<1> QED BY <1>1, <1>3, <1>4, <1>5 DEF Added, Shrank

LEMMA AdvancedTyped ==
    ASSUME Typed, NEW w \in Writers, Advanced(w)
    PROVE  /\ sum' \in [Writers -> Seq(Line)] /\ last' \in [Writers -> Seq(Line)]
           /\ count' \in [Writers -> Nat] /\ head' \in [Writers -> Hash]
           /\ stale' \in [Writers -> BOOLEAN]
<1>1. /\ Before(w) \o New(w) \in Seq(Line) /\ Settled(w) \in Seq(Line) /\ Shrank(w) \in BOOLEAN
  BY Starts, ConcatProperties
<1>2. sum' \in [Writers -> Seq(Line)]
  BY <1>1 DEF Advanced, Typed
<1>3. last' \in [Writers -> Seq(Line)]
  BY <1>1, <1>2 DEF Advanced, Typed
<1>4. Lines(file) \in Nat /\ HeadAt(file, Lines(file)) \in Hash /\ None \in Hash
  BY LinesOf DEF Typed, Hash
<1>5. count' \in [Writers -> Nat] /\ head' \in [Writers -> Hash]
  BY <1>4 DEF Advanced, Typed
<1>6. stale' \in [Writers -> BOOLEAN]
  BY <1>1 DEF Advanced, Typed
<1> QED BY <1>2, <1>3, <1>5, <1>6

LEMMA StopsTyped ==
    ASSUME Typed, NEW w \in Writers, AdvanceStops(w)
    PROVE  /\ sum' \in [Writers -> Seq(Line)] /\ last' \in [Writers -> Seq(Line)]
           /\ count' \in [Writers -> Nat] /\ head' \in [Writers -> Hash]
           /\ stale' \in [Writers -> BOOLEAN]
<1>1. /\ Before(w) \in Seq(Line) /\ Settled(w) \in Seq(Line) /\ Shrank(w) \in BOOLEAN
      /\ From(w) \in 0..Lines(file)
  BY Starts
<1>2. Lines(file) \in 0..Len(file) /\ Len(file) \in Nat /\ file \in Seq(Line) /\ None \in Hash
  BY LinesOf DEF Typed, Hash
<1>3. PICK k \in From(w)..Len(file) :
          sum' = [sum EXCEPT ![w] = Before(w) \o SubSeq(file, From(w) + 1, k)]
  BY DEF AdvanceStops
<1>4. SubSeq(file, From(w) + 1, k) \in Seq(Line)
  BY <1>1, <1>2, HashedOn
<1>5. Before(w) \o SubSeq(file, From(w) + 1, k) \in Seq(Line)
  BY <1>1, <1>4, ConcatProperties
<1>6. sum' \in [Writers -> Seq(Line)]
  BY <1>3, <1>5 DEF Typed
<1>7. last' \in [Writers -> Seq(Line)]
  BY <1>1 DEF AdvanceStops, Typed
<1>8. count' \in [Writers -> Nat] /\ head' \in [Writers -> Hash] /\ stale' \in [Writers -> BOOLEAN]
  <2>1. /\ count' = [count EXCEPT ![w] = From(w)]
        /\ head' = [head EXCEPT ![w] = IF Shrank(w) THEN None ELSE @]
        /\ stale' = [stale EXCEPT ![w] = @ /\ ~Shrank(w)]
    BY DEF AdvanceStops
  <2>2. From(w) \in Nat
    BY <1>1, <1>2
  <2>3. stale[w] \in BOOLEAN /\ stale \in [Writers -> BOOLEAN]
    BY DEF Typed
  <2>4. stale' \in [Writers -> BOOLEAN]
    BY <1>1, <2>1, <2>3
  <2> QED BY <1>2, <2>1, <2>2, <2>4 DEF Typed
<1> QED BY <1>6, <1>7, <1>8

\* A record goes to the end of the sidecar.
LEMMA RecordAppended ==
    ASSUME Typed, NEW w \in Writers, NEW kind \in Kinds, NEW n \in Nat, NEW h \in Hash,
           NEW p \in Seq(Line), Recorded(w, kind, n, h, p)
    PROVE  LET r == Encoded(w, kind, n, h, p) IN
           /\ r \in Record /\ r.id = ids + 1
           /\ side' \in Seq(Record) /\ Len(side') = Len(side) + 1 /\ Len(side) \in Nat
           /\ side'[Len(side) + 1] = r
           /\ \A i \in 1..Len(side) : side'[i] = side[i]
           /\ ids' = ids + 1 /\ ids' \in Nat /\ torn' = FALSE /\ failed' = FALSE
<1> DEFINE r == Encoded(w, kind, n, h, p)
<1>1. r \in Record /\ r.id = ids + 1
  <2>1. ids \in Nat /\ prev[w] \in Nat
    BY DEF Typed
  <2> QED BY <2>1 DEF Encoded, Record, Kinds
<1>2. side' = Append(side, r) /\ ids' = ids + 1 /\ torn' = FALSE /\ failed' = FALSE
  BY DEF Recorded
<1> HIDE DEF r
<1>3. side \in Seq(Record) /\ ids \in Nat
  BY DEF Typed
<1>4. Len(side) \in Nat
  BY <1>3, LenProperties
<1>5. /\ side' \in Seq(Record) /\ Len(side') = Len(side) + 1
      /\ side'[Len(side) + 1] = r /\ \A i \in 1..Len(side) : side'[i] = side[i]
  BY <1>1, <1>2, <1>3, AppendProperties
<1> QED BY <1>1, <1>2, <1>3, <1>4, <1>5 DEF r

\* A record that fails takes nothing away from a writer that knows the length
\* of the sidecar.
LEMMA RecordLost ==
    ASSUME Typed, NEW w \in Writers, RecordFails(w)
    PROVE  /\ side' \in Seq(Record) /\ Len(side') <= Len(side) /\ Len(side) \in Nat
           /\ size[w] = Len(side) => side' = side
           /\ ids' = ids /\ torn' \in {torn, FALSE} /\ failed' = TRUE
<1>1. side \in Seq(Record) /\ Len(side) \in Nat /\ size[w] \in Nat
  BY LenProperties DEF Typed
<1>2. CASE UNCHANGED log
  <2>1. ids' = ids /\ torn' = torn /\ side' = side
    BY <1>2 DEF log
  <2> QED BY <1>1, <2>1 DEF RecordFails
<1>3. CASE size[w] <= Len(side) /\ side' = SubSeq(side, 1, size[w]) /\ torn' = FALSE /\ UNCHANGED ids
  <2>1. \A i \in 1..size[w] : side[i] \in Record
    BY <1>1, <1>3, ElementOfSeq
  <2>2. side' \in Seq(Record) /\ Len(side') = size[w]
    BY <1>1, <1>3, <2>1, SubSeqProperties
  <2>3. size[w] = Len(side) => side' = side
    BY <1>1, <1>3, SubSeqFull
  <2> QED BY <1>1, <1>3, <2>2, <2>3 DEF RecordFails
<1> QED BY <1>2, <1>3 DEF RecordFails

LEMMA PrefixFormed ==
    ASSUME NEW f, WellFormed(f), NEW n \in 0..Len(f)
    PROVE  WellFormed(Prefix(f, n))
<1>1. f \in Seq(Line) /\ Len(f) \in Nat /\ \A i \in 1..n : f[i] \in Line
  BY LenProperties, ElementOfSeq DEF WellFormed
<1>2. Prefix(f, n) \in Seq(Line) /\ Len(Prefix(f, n)) = n /\ \A i \in 1..n : Prefix(f, n)[i] = f[i]
  BY <1>1, SubSeqProperties DEF Prefix
<1> QED BY <1>1, <1>2 DEF WellFormed

LEMMA GoneTyped ==
    ASSUME Typed, NEW w \in Writers, Gone(w)
    PROVE  /\ sum' \in [Writers -> Seq(Line)] /\ last' \in [Writers -> Seq(Line)]
           /\ count' \in [Writers -> Nat] /\ head' \in [Writers -> Hash]
           /\ prev' \in [Writers -> Nat] /\ size' \in [Writers -> Nat]
           /\ pending' \in [Writers -> Nat]
           /\ stale' \in [Writers -> BOOLEAN] /\ base' \in [Writers -> Nat]
<1>1. <<>> \in Seq(Line) /\ None \in Hash
  BY EmptySeq DEF Hash
<1> QED BY <1>1 DEF Gone, Typed

\* The record of each of the three kinds, and what the writer is then.
LEMMA Written ==
    ASSUME Typed, NEW w \in Writers, NEW kind \in Kinds, NEW n \in Nat, NEW h \in Hash,
           NEW p \in Seq(Line), WriteRecord(w, kind, n, h, p)
    PROVE  /\ Recorded(w, kind, n, h, p)
           /\ side' \in Seq(Record) /\ torn' \in BOOLEAN /\ ids' \in Nat
           /\ prev' \in [Writers -> Nat] /\ size' \in [Writers -> Nat]
           /\ pending' \in [Writers -> Nat]
           /\ sum' = sum /\ last' = last /\ count' = count /\ head' = head
<1>1. Recorded(w, kind, n, h, p)
  BY DEF WriteRecord
<1>2. side' \in Seq(Record) /\ torn' \in BOOLEAN /\ ids' \in Nat
  BY <1>1, RecordAppended
<1>3. ids + 1 \in Nat /\ size[w] + 1 \in Nat
  BY DEF Typed
<1> QED BY <1>1, <1>2, <1>3 DEF WriteRecord, Typed

LEMMA TypedStep ==
    ASSUME Typed, [Next]_vars
    PROVE  Typed'
<1>0. /\ Lines(file) \in 0..Len(file) /\ Len(file) \in Nat /\ file \in Seq(Line)
      /\ \A n : HeadAt(file, n) \in Hash
      /\ Prefix(file, Lines(file)) \in Seq(Line)
  <2>1. Lines(file) \in 0..Len(file) /\ Len(file) \in Nat /\ file \in Seq(Line)
    BY LinesOf DEF Typed
  <2>2. Prefix(file, Lines(file)) \in Seq(Line)
    BY <2>1, HashedOn
  <2> QED BY <2>1, <2>2, LinesOf DEF Typed
<1>1. ASSUME NEW w \in Writers, Open(w) PROVE Typed'
  <2>1. LastId \in Nat /\ Len(side) \in Nat
    <3>1. side = <<>> \/ side[Len(side)] \in Record
      BY EmptySeq, LenProperties, ElementOfSeq DEF Typed
    <3> QED BY <3>1, LenProperties DEF LastId, Typed, Record
  <2>2. /\ file' = file /\ side' = side /\ ids' = ids /\ torn' \in BOOLEAN
    BY <1>1 DEF Open, CutTorn
  <2>3. prev' \in [Writers -> Nat] /\ size' \in [Writers -> Nat] /\ pending' \in [Writers -> Nat]
        /\ base' \in [Writers -> Nat] /\ count' \in [Writers -> Nat]
    BY <1>1, <1>0, <2>1 DEF Open, Typed
  <2>4. sum' \in [Writers -> Seq(Line)] /\ last' \in [Writers -> Seq(Line)]
    BY <1>1, <1>0 DEF Open, Typed
  <2>5. head' \in [Writers -> Hash] /\ stale' \in [Writers -> BOOLEAN]
    BY <1>1, <1>0 DEF Open, Typed
  <2>6. pc' \in [Writers -> {"down", "idle"} \cup InLock]
    BY <1>1 DEF Open, Typed, InLock
  <2> QED BY <2>2, <2>3, <2>4, <2>5, <2>6 DEF Typed
<1>2. ASSUME NEW w \in Writers, OpenFails(w) PROVE Typed'
  BY <1>2 DEF OpenFails, Typed, CutTorn, mine
<1>3. ASSUME NEW w \in Writers, Resume(w) PROVE Typed'
  <2>1. LastGood(file) \in 0..Lines(file)
    BY LastGoodIs DEF Typed
  <2>2. LastGood(file) \in Nat /\ LastGood(file) \in 0..Len(file) /\ 0 \in 0..LastGood(file)
    BY <1>0, <2>1
  <2>3. Prefix(file, LastGood(file)) \in Seq(Line)
    BY <1>0, <2>2, HashedOn
  <2>4. WriteRecord(w, "resume", LastGood(file), HeadAt(file, LastGood(file)), Prefix(file, LastGood(file)))
    BY <1>3 DEF Resume
  <2>5. "resume" \in Kinds
    BY DEF Kinds
  <2>6. /\ side' \in Seq(Record) /\ torn' \in BOOLEAN /\ ids' \in Nat
        /\ prev' \in [Writers -> Nat] /\ size' \in [Writers -> Nat]
        /\ pending' \in [Writers -> Nat]
        /\ sum' = sum /\ last' = last /\ count' = count /\ head' = head
    BY <1>0, <2>2, <2>3, <2>4, <2>5, Written
  <2>7. /\ pc' = [pc EXCEPT ![w] = "idle"] /\ file' = file /\ base' = base /\ stale' = stale
    BY <1>3 DEF Resume
  <2> QED BY <2>6, <2>7 DEF Typed
<1>4. ASSUME NEW w \in Writers, ResumeFails(w) \/ CloseFails(w) PROVE Typed'
  <2>1. Gone(w) /\ pc' = [pc EXCEPT ![w] = "down"] /\ file' = file
    BY <1>4 DEF ResumeFails, CloseFails
  <2>2. RecordFails(w) \/ UNCHANGED log
    BY <1>4 DEF ResumeFails, CloseFails
  <2>3. side' \in Seq(Record) /\ torn' \in BOOLEAN /\ ids' \in Nat
    BY <2>2, RecordLost DEF Typed, log
  <2> QED BY <2>1, <2>3, GoneTyped DEF Typed
<1>5. ASSUME NEW w \in Writers, Advance(w) PROVE Typed'
  <2>1. Advanced(w) /\ UNCHANGED <<file, log, base>>
    BY <1>5 DEF Advance
  <2>2. prev' = prev /\ size' = size
    BY <2>1 DEF Advanced
  <2>3. pending' \in [Writers -> Nat]
    <3>1. pending[w] \in Nat /\ Added(w) \in Nat
      BY Starts DEF Typed
    <3>2. pending' = [pending EXCEPT ![w] = @ + Added(w)]
      BY <1>5 DEF Advance
    <3> QED BY <3>1, <3>2 DEF Typed
  <2>4. pc' \in [Writers -> {"down", "idle"} \cup InLock]
    <3>1. PICK p \in {"due", "idle"} : pc' = [pc EXCEPT ![w] = p]
      BY <1>5 DEF Advance
    <3> QED BY <3>1 DEF Typed, InLock
  <2> QED BY <2>1, <2>2, <2>3, <2>4, AdvancedTyped DEF Typed, log
<1>6. ASSUME NEW w \in Writers, AdvanceFails(w) PROVE Typed'
  <2>1. AdvanceStops(w) /\ UNCHANGED <<file, log, base>> /\ pc' = [pc EXCEPT ![w] = "idle"]
    BY <1>6 DEF AdvanceFails
  <2>2. prev' = prev /\ size' = size /\ pending' = pending
    BY <2>1 DEF AdvanceStops
  <2> QED BY <2>1, <2>2, StopsTyped DEF Typed, log
<1>7. ASSUME NEW w \in Writers, Checkpoint(w) PROVE Typed'
  <2>1. /\ WriteRecord(w, "checkpoint", count[w], head[w], sum[w])
        /\ pc' = [pc EXCEPT ![w] = "idle"] /\ file' = file /\ base' = base /\ stale' = stale
    BY <1>7 DEF Checkpoint
  <2>2. "checkpoint" \in Kinds /\ count[w] \in Nat /\ head[w] \in Hash /\ sum[w] \in Seq(Line)
    BY DEF Kinds, Typed
  <2>3. /\ side' \in Seq(Record) /\ torn' \in BOOLEAN /\ ids' \in Nat
        /\ prev' \in [Writers -> Nat] /\ size' \in [Writers -> Nat]
        /\ pending' \in [Writers -> Nat]
        /\ sum' = sum /\ last' = last /\ count' = count /\ head' = head
    BY <2>1, <2>2, Written
  <2> QED BY <2>1, <2>3 DEF Typed
<1>8. ASSUME NEW w \in Writers, CheckpointFails(w) PROVE Typed'
  <2>1. /\ RecordFails(w) /\ pc' = [pc EXCEPT ![w] = "idle"]
        /\ UNCHANGED <<file, mine, check, cut, base, stale>>
    BY <1>8 DEF CheckpointFails
  <2>2. side' \in Seq(Record) /\ torn' \in BOOLEAN /\ ids' \in Nat
    BY <2>1, RecordLost DEF Typed
  <2> QED BY <2>1, <2>2 DEF Typed, mine
<1>9. ASSUME NEW w \in Writers, Close(w) PROVE Typed'
  <2>1. Advanced(w) /\ UNCHANGED <<file, log, pending, base>>
    BY <1>9 DEF Close
  <2>2. prev' = prev /\ size' = size
    BY <2>1 DEF Advanced
  <2>3. pc' \in [Writers -> {"down", "idle"} \cup InLock]
    <3>1. PICK p \in {"down", "close"} : pc' = [pc EXCEPT ![w] = p]
      BY <1>9 DEF Close
    <3> QED BY <3>1 DEF Typed, InLock
  <2> QED BY <2>1, <2>2, <2>3, AdvancedTyped DEF Typed, log
<1>10. ASSUME NEW w \in Writers, CloseRecord(w) PROVE Typed'
  <2>1. /\ Recorded(w, "close", count[w], head[w], sum[w]) /\ Gone(w)
        /\ pc' = [pc EXCEPT ![w] = "down"] /\ file' = file
    BY <1>10 DEF CloseRecord
  <2>2. "close" \in Kinds /\ count[w] \in Nat /\ head[w] \in Hash /\ sum[w] \in Seq(Line)
    BY DEF Kinds, Typed
  <2>3. side' \in Seq(Record) /\ torn' \in BOOLEAN /\ ids' \in Nat
    BY <2>1, <2>2, RecordAppended
  <2> QED BY <2>1, <2>3, GoneTyped DEF Typed
<1>11. ASSUME NEW w \in Writers, Crash(w) PROVE Typed'
  BY <1>11, GoneTyped DEF Crash, Typed
<1>12. ASSUME NEW w \in Writers, NEW c \in Content, Write(w, c) PROVE Typed'
  <2>1. WellFormed(file')
    BY <1>12, AppendKeeps DEF Write, Typed
  <2> QED BY <1>12, <2>1 DEF Write, Typed, log, mine, InLock
<1>13. ASSUME NEW w \in Writers, NEW c \in Content, WriteFails(w, c) PROVE Typed'
  <2>1. WellFormed(file')
    BY <1>13, AppendKeeps DEF WriteFails, Typed
  <2> QED BY <1>13, <2>1 DEF WriteFails, Typed, log, mine
<1>14. ASSUME NEW w \in Writers, NEW c \in Content, CrashWriting(w, c) PROVE Typed'
  <2>1. WellFormed(file')
    BY <1>14, AppendKeeps DEF CrashWriting, Typed
  <2> QED BY <1>14, <2>1, GoneTyped DEF CrashWriting, Typed, log
<1>15. ASSUME NEW c \in Content, OtherWrites(c) PROVE Typed'
  <2>1. WellFormed(file')
    BY <1>15, AppendKeeps DEF OtherWrites, Typed
  <2> QED BY <1>15, <2>1 DEF OtherWrites, Typed, log, mine
<1>16. CASE Shrink
  <2>1. PICK n \in 0..(Len(file) - 1) : file' = Prefix(file, n)
    BY <1>16 DEF Shrink
  <2>2. WellFormed(file')
    BY <1>0, <2>1, PrefixFormed DEF Typed
  <2> QED BY <1>16, <2>2 DEF Shrink, Typed, log, mine
<1>17. CASE ReadSidecar \/ ReadStream
  BY <1>17 DEF ReadSidecar, ReadStream, Typed, log, mine
<1>18. CASE UNCHANGED vars
  BY <1>18 DEF vars, Typed, log, mine
<1> QED BY <1>1, <1>2, <1>3, <1>4, <1>5, <1>6, <1>7, <1>8, <1>9, <1>10, <1>11, <1>12, <1>13,
           <1>14, <1>15, <1>16, <1>17, <1>18 DEF Next, Step

-----------------------------------------------------------------------------
(* What a writer remembers of the stream, for any number of writers. *)

\* A writer at p that hashed the stream f from zero, of which it has counted c
\* lines: h is the event on the last of them.
Sees(f, p, s, c, h) ==
    p # "down" /\ ~s =>
        /\ c <= Lines(f)
        /\ h = HeadAt(f, c)
        /\ p \in {"due", "close"} => c = Lines(f) /\ h # None
        /\ p = "resume" => LastGood(f) > 0

\* The hash is of these very lines; one that a scan spoiled stands before an
\* event that no scan gets past.
Hashes(f, p, s, c, m, l) ==
    p # "down" /\ ~s =>
        /\ l = Prefix(f, c)
        /\ \/ m = Prefix(f, c)
           \/ p \in {"idle", "appended"} /\ \E n \in (c + 1)..Lines(f) : Unhashable(f[n])

Remembers(w) == Sees(file, pc[w], stale[w], count[w], head[w])
Hashed(w) == Hashes(file, pc[w], stale[w], count[w], sum[w], last[w])
OneInLock == \A u, v \in Writers : pc[u] \in InLock /\ pc[v] \in InLock => u = v
Marked == \A w \in Writers : stale[w] => cut

\* Others write while the writer holds no lock: it remembers what it did.
LEMMA SeenLater ==
    ASSUME NEW f, WellFormed(f), NEW g, WellFormed(g), Keeps(f, g),
           NEW p, p \notin InLock \/ p = "appended", NEW s, NEW c \in Nat, NEW h, NEW m, NEW l
    PROVE  /\ Sees(f, p, s, c, h) => Sees(g, p, s, c, h)
           /\ Sees(f, p, s, c, h) /\ Hashes(f, p, s, c, m, l) => Hashes(g, p, s, c, m, l)
<1>1. /\ Lines(f) \in Nat /\ Lines(g) \in Nat /\ Lines(f) <= Lines(g)
      /\ \A n \in 1..Lines(f) : g[n] = f[n]
      /\ \A n \in 0..Lines(f) : Prefix(g, n) = Prefix(f, n) /\ HeadAt(g, n) = HeadAt(f, n)
  BY Counted, LinesOf
<1>2. p \notin {"due", "close", "resume"}
  BY DEF InLock
<1>3. ASSUME Sees(f, p, s, c, h), p # "down", ~s
      PROVE  c \in 0..Lines(f)
  BY <1>1, <1>3 DEF Sees
<1>4. ASSUME Sees(f, p, s, c, h)
      PROVE  Sees(g, p, s, c, h)
  BY <1>1, <1>2, <1>3, <1>4 DEF Sees
<1>5. ASSUME Sees(f, p, s, c, h), Hashes(f, p, s, c, m, l), p # "down", ~s
      PROVE  /\ l = Prefix(g, c)
             /\ \/ m = Prefix(g, c)
                \/ p \in {"idle", "appended"} /\ \E n \in (c + 1)..Lines(g) : Unhashable(g[n])
  <2>1. c \in 0..Lines(f) /\ Prefix(g, c) = Prefix(f, c)
    BY <1>1, <1>3, <1>5
  <2>2. l = Prefix(g, c)
    BY <1>5, <2>1 DEF Hashes
  <2>3. CASE m = Prefix(f, c)
    BY <2>1, <2>2, <2>3
  <2>4. CASE p \in {"idle", "appended"} /\ \E n \in (c + 1)..Lines(f) : Unhashable(f[n])
    <3>1. PICK n \in (c + 1)..Lines(f) : Unhashable(f[n])
      BY <2>4
    <3>2. n \in (c + 1)..Lines(g) /\ n \in 1..Lines(f)
      BY <1>1, <2>1
    <3> QED BY <1>1, <2>2, <2>4, <3>1, <3>2
  <2> QED BY <1>5, <2>3, <2>4 DEF Hashes
<1> QED BY <1>4, <1>5 DEF Hashes

\* A look at the stream that comes to its end: all its lines are counted, and
\* hashed when what was hashed before was right.
LEMMA LookEnds ==
    ASSUME Typed, NEW w \in Writers, Advanced(w)
    PROVE  /\ stale'[w] = (stale[w] /\ ~Shrank(w)) /\ count'[w] = Lines(file)
           /\ pc[w] # "down" /\ Remembers(w) /\ ~stale'[w] => head'[w] = HeadAt(file, Lines(file))
           /\ pc[w] # "down" /\ Remembers(w) /\ Hashed(w) /\ ~stale'[w]
              => /\ last'[w] = Prefix(file, Lines(file))
                 /\ sum'[w] = Prefix(file, Lines(file))
<1> DEFINE N == Lines(file)
<1>0. /\ N \in 0..Len(file) /\ N \in Nat /\ file \in Seq(Line) /\ WellFormed(file)
      /\ Len(file) \in Nat /\ 0 \in 0..N
  BY LinesOf DEF Typed
<1>1. /\ count[w] \in Nat /\ sum[w] \in Seq(Line) /\ last[w] \in Seq(Line)
      /\ stale[w] \in BOOLEAN /\ Shrank(w) \in BOOLEAN
      /\ (New(w) = <<>> <=> From(w) = N)
  BY Starts DEF Typed
<1>2. /\ \A n \in (From(w) + 1)..N : ~Unhashable(file[n])
      /\ sum'[w] = IF New(w) # <<>> \/ Len(file) = From(w) THEN Before(w) \o New(w)
                   ELSE Settled(w)
      /\ last'[w] = IF New(w) # <<>> THEN sum'[w] ELSE Settled(w)
      /\ stale'[w] = (stale[w] /\ ~Shrank(w))
      /\ count'[w] = N
      /\ head'[w] = IF New(w) # <<>> THEN HeadAt(file, N)
                    ELSE IF Shrank(w) THEN None ELSE head[w]
  <2>1. /\ sum' = [sum EXCEPT ![w] =
                     IF New(w) # <<>> \/ Len(file) = From(w) THEN Before(w) \o New(w)
                     ELSE Settled(w)]
        /\ last' = [last EXCEPT ![w] = IF New(w) # <<>> THEN sum'[w] ELSE Settled(w)]
        /\ count' = [count EXCEPT ![w] = N]
        /\ head' = [head EXCEPT ![w] = IF New(w) # <<>> THEN HeadAt(file, N)
                                       ELSE IF Shrank(w) THEN None ELSE head[w]]
        /\ stale' = [stale EXCEPT ![w] = stale[w] /\ ~Shrank(w)]
        /\ \A n \in (From(w) + 1)..N : ~Unhashable(file[n])
    BY DEF Advanced
  <2>2. /\ sum'[w] = IF New(w) # <<>> \/ Len(file) = From(w) THEN Before(w) \o New(w)
                    ELSE Settled(w)
        /\ last'[w] = IF New(w) # <<>> THEN sum'[w] ELSE Settled(w)
    BY <2>1, Zenon DEF Typed
  <2>3. stale'[w] = (stale[w] /\ ~Shrank(w))
    BY <2>1 DEF Typed
  <2>4. count'[w] = N /\ head'[w] = IF New(w) # <<>> THEN HeadAt(file, N)
                                   ELSE IF Shrank(w) THEN None ELSE head[w]
    BY <2>1 DEF Typed
  <2> QED BY <2>1, <2>2, <2>3, <2>4
<1>3. HeadAt(file, 0) = None /\ Prefix(file, 0) = <<>>
  <2>1. Prefix(file, 0) \in Seq(Line) /\ Len(Prefix(file, 0)) = 0
    BY <1>0, SubSeqProperties DEF Prefix
  <2> QED BY <2>1, EmptySeq DEF HeadAt
<1>4. CASE Shrank(w)
  <2>1. From(w) = 0 /\ Before(w) = <<>> /\ Settled(w) = <<>> /\ New(w) = SubSeq(file, 1, N)
    <3>1. From(w) = 0 /\ From(w) + 1 = 1
      BY <1>4 DEF From
    <3>2. New(w) = SubSeq(file, 1, N)
      BY <3>1 DEF New
    <3> QED BY <1>4, <3>1, <3>2 DEF Before, Settled
  <2>2. New(w) = Prefix(file, N) /\ New(w) \in Seq(Line)
    BY <1>0, <2>1, HashedOn DEF Prefix
  <2>3. Before(w) \o New(w) = Prefix(file, N)
    BY <2>1, <2>2, ConcatEmptySeq
  <2>4. head'[w] = HeadAt(file, N)
    BY <1>1, <1>2, <1>3, <1>4, <2>1
  <2>5. sum'[w] = Prefix(file, N) /\ last'[w] = Prefix(file, N)
    BY <1>1, <1>2, <1>3, <2>1, <2>2, <2>3
  <2> QED BY <1>2, <2>4, <2>5
<1>5. CASE ~Shrank(w)
  <2>1. From(w) = count[w] /\ Before(w) = sum[w] /\ Settled(w) = last[w]
        /\ New(w) = SubSeq(file, count[w] + 1, N)
    BY <1>5 DEF From, Before, Settled, New
  <2>2. ASSUME pc[w] # "down", Remembers(w), ~stale'[w]
        PROVE  /\ count[w] \in 0..N /\ ~stale[w] /\ head[w] = HeadAt(file, count[w])
               /\ head'[w] = HeadAt(file, N)
    <3>1. ~stale[w]
      BY <1>1, <1>2, <1>5, <2>2
    <3>2. count[w] <= N /\ head[w] = HeadAt(file, count[w])
      BY <2>2, <3>1 DEF Remembers, Sees
    <3> QED BY <1>0, <1>1, <1>2, <1>5, <2>1, <3>1, <3>2
  <2>3. ASSUME pc[w] # "down", Remembers(w), Hashed(w), ~stale'[w]
        PROVE  last'[w] = Prefix(file, N) /\ sum'[w] = Prefix(file, N)
    <3>1. count[w] \in 0..N /\ ~stale[w]
      BY <2>2, <2>3
    <3>2. last[w] = Prefix(file, count[w]) /\ sum[w] = Prefix(file, count[w])
      BY <1>2, <2>1, <2>3, <3>1 DEF Hashed, Hashes
    <3>3. Prefix(file, count[w]) \o SubSeq(file, count[w] + 1, N) = Prefix(file, N)
      BY <1>0, <3>1, HashedOn, Zenon
    <3>4. Before(w) \o New(w) = Prefix(file, N)
      BY <2>1, <3>2, <3>3
    <3> QED BY <1>1, <1>2, <2>1, <3>1, <3>2, <3>4
  <2> QED BY <1>2, <2>2, <2>3
<1> QED BY <1>1, <1>4, <1>5

\* One that stops early: what was counted stays counted, and the hash is spoiled
\* only in front of an event that cannot be hashed.
LEMMA LookStops ==
    ASSUME Typed, NEW w \in Writers, AdvanceStops(w), pc[w] # "down", Remembers(w)
    PROVE  /\ stale'[w] = (stale[w] /\ ~Shrank(w)) /\ count'[w] = From(w)
           /\ ~stale'[w] => count'[w] <= Lines(file) /\ head'[w] = HeadAt(file, count'[w])
           /\ Hashed(w) /\ ~stale'[w] => last'[w] = Prefix(file, count'[w])
           /\ ~ScanMayFail => \E n \in (count'[w] + 1)..Lines(file) : Unhashable(file[n])
<1>0. /\ Lines(file) \in 0..Len(file) /\ Lines(file) \in Nat /\ file \in Seq(Line)
      /\ Len(file) \in Nat
  BY LinesOf DEF Typed
<1>1. count[w] \in Nat /\ stale[w] \in BOOLEAN /\ Shrank(w) \in BOOLEAN /\ From(w) \in 0..Lines(file)
  BY Starts DEF Typed
<1>2. /\ count' = [count EXCEPT ![w] = From(w)]
      /\ head' = [head EXCEPT ![w] = IF Shrank(w) THEN None ELSE @]
      /\ last' = [last EXCEPT ![w] = Settled(w)]
      /\ stale' = [stale EXCEPT ![w] = @ /\ ~Shrank(w)]
  BY DEF AdvanceStops
<1>3. /\ count'[w] = From(w) /\ head'[w] = IF Shrank(w) THEN None ELSE head[w]
      /\ last'[w] = Settled(w) /\ stale'[w] = (stale[w] /\ ~Shrank(w))
  BY <1>2 DEF Typed
<1>4. ~ScanMayFail => \E n \in (From(w) + 1)..Lines(file) : Unhashable(file[n])
  BY DEF AdvanceStops
<1>5. HeadAt(file, 0) = None /\ Prefix(file, 0) = <<>>
  <2>1. Prefix(file, 0) \in Seq(Line) /\ Len(Prefix(file, 0)) = 0
    BY <1>0, SubSeqProperties DEF Prefix
  <2> QED BY <2>1, EmptySeq DEF HeadAt
<1>6. CASE Shrank(w)
  BY <1>1, <1>3, <1>4, <1>5, <1>6 DEF From, Settled
<1>7. CASE ~Shrank(w)
  <2>1. From(w) = count[w] /\ Settled(w) = last[w]
    BY <1>7 DEF From, Settled
  <2>2. ~stale'[w] => ~stale[w]
    BY <1>1, <1>3, <1>7
  <2> QED BY <1>1, <1>3, <1>4, <1>7, <2>1, <2>2 DEF Remembers, Sees, Hashed, Hashes
<1> QED BY <1>1, <1>6, <1>7

\* One writer's steps are nothing to the memory of another.
LEMMA Apart ==
    ASSUME Typed, NEW w \in Writers, NEW v \in Writers, v # w,
           \/ Step(w)
           \/ \E c \in Content : Write(w, c) \/ WriteFails(w, c) \/ CrashWriting(w, c)
    PROVE  /\ pc'[v] = pc[v] /\ stale'[v] = stale[v] /\ count'[v] = count[v]
           /\ head'[v] = head[v] /\ sum'[v] = sum[v] /\ last'[v] = last[v]
<1> USE DEF Typed
<1>1. CASE Open(w)
  BY <1>1 DEF Open
<1>2. CASE OpenFails(w)
  BY <1>2 DEF OpenFails, mine
<1>3. CASE Resume(w)
  BY <1>3 DEF Resume, WriteRecord
<1>4. CASE ResumeFails(w)
  BY <1>4 DEF ResumeFails, Gone
<1>5. CASE Advance(w)
  BY <1>5 DEF Advance, Advanced
<1>6. CASE AdvanceFails(w)
  <2>1. PICK m : sum' = [sum EXCEPT ![w] = m]
    BY <1>6 DEF AdvanceFails, AdvanceStops
  <2> QED BY <1>6, <2>1 DEF AdvanceFails, AdvanceStops
<1>7. CASE Checkpoint(w)
  BY <1>7 DEF Checkpoint, WriteRecord
<1>8. CASE CheckpointFails(w)
  BY <1>8 DEF CheckpointFails, mine
<1>9. CASE Close(w)
  BY <1>9 DEF Close, Advanced
<1>10. CASE CloseRecord(w)
  BY <1>10 DEF CloseRecord, Gone
<1>11. CASE CloseFails(w)
  BY <1>11 DEF CloseFails, Gone
<1>12. CASE Crash(w)
  BY <1>12 DEF Crash, Gone
<1>13. CASE \E c \in Content : Write(w, c) \/ WriteFails(w, c)
  BY <1>13 DEF Write, WriteFails, mine
<1>14. CASE \E c \in Content : CrashWriting(w, c)
  BY <1>14 DEF CrashWriting, Gone
<1> QED BY <1>1, <1>2, <1>3, <1>4, <1>5, <1>6, <1>7, <1>8, <1>9, <1>10, <1>11, <1>12, <1>13,
           <1>14 DEF Step

\* A writer that is no more remembers nothing.
LEMMA Down ==
    ASSUME NEW f, NEW p, p = "down", NEW s, NEW c, NEW h, NEW m, NEW l
    PROVE  Sees(f, p, s, c, h) /\ Hashes(f, p, s, c, m, l)
BY DEF Sees, Hashes

\* What a writer does under the lock, or that takes no lock.
LEMMA OwnStep ==
    ASSUME Typed, NEW w \in Writers, Remembers(w), Step(w)
    PROVE  /\ file' = file
           /\ Sees(file, pc'[w], stale'[w], count'[w], head'[w])
           /\ ~ScanMayFail /\ Hashed(w)
              => Hashes(file, pc'[w], stale'[w], count'[w], sum'[w], last'[w])
<1>0. /\ Lines(file) \in 0..Len(file) /\ Len(file) \in Nat /\ Lines(file) \in Nat
      /\ WellFormed(file) /\ file \in Seq(Line)
  BY LinesOf DEF Typed
<1>1. CASE Open(w)
  <2>1. /\ sum'[w] = Prefix(file, Lines(file)) /\ last'[w] = Prefix(file, Lines(file))
        /\ count'[w] = Lines(file) /\ head'[w] = HeadAt(file, Lines(file))
        /\ pc'[w] = IF Lines(file) > 0 /\ HeadAt(file, Lines(file)) = None /\ LastGood(file) > 0
                    THEN "resume" ELSE "idle"
        /\ file' = file
    BY <1>1 DEF Open, Typed
  <2> QED BY <1>0, <2>1 DEF Sees, Hashes
<1>2. CASE OpenFails(w)
  BY <1>2 DEF OpenFails, mine, Remembers, Hashed
<1>3. CASE Resume(w)
  <2>1. /\ pc[w] = "resume" /\ pc'[w] = "idle" /\ stale' = stale /\ file' = file
        /\ sum' = sum /\ last' = last /\ count' = count /\ head' = head
    BY <1>3 DEF Resume, WriteRecord, Typed
  <2> QED BY <2>1 DEF Remembers, Hashed, Sees, Hashes
<1>4. CASE ResumeFails(w) \/ CloseRecord(w) \/ CloseFails(w) \/ Crash(w)
  <2>1. pc'[w] = "down" /\ file' = file
    BY <1>4 DEF ResumeFails, CloseRecord, CloseFails, Crash, Typed
  <2> QED BY <2>1, Down
<1>5. CASE Advance(w)
  <2>1. Advanced(w) /\ pc[w] = "appended" /\ file' = file
    BY <1>5 DEF Advance
  <2>2. pc'[w] = "idle" \/ (pc'[w] = "due" /\ head'[w] # None)
    <3>1. \/ pc' = [pc EXCEPT ![w] = "idle"]
          \/ pc' = [pc EXCEPT ![w] = "due"] /\ head'[w] # None
      BY <1>5 DEF Advance
    <3> QED BY <3>1 DEF Typed
  <2>3. /\ count'[w] = Lines(file)
        /\ ~stale'[w] => head'[w] = HeadAt(file, Lines(file))
        /\ Hashed(w) /\ ~stale'[w] => /\ last'[w] = Prefix(file, Lines(file))
                                      /\ sum'[w] = Prefix(file, Lines(file))
    BY <2>1, LookEnds
  <2> QED BY <1>0, <2>1, <2>2, <2>3 DEF Sees, Hashes
<1>6. CASE AdvanceFails(w)
  <2>1. AdvanceStops(w) /\ pc[w] = "appended" /\ file' = file /\ pc'[w] = "idle"
    BY <1>6 DEF AdvanceFails, Typed
  <2>2. /\ ~stale'[w] => count'[w] <= Lines(file) /\ head'[w] = HeadAt(file, count'[w])
        /\ Hashed(w) /\ ~stale'[w] => last'[w] = Prefix(file, count'[w])
        /\ ~ScanMayFail => \E n \in (count'[w] + 1)..Lines(file) : Unhashable(file[n])
    BY <2>1, LookStops
  <2> QED BY <2>1, <2>2 DEF Sees, Hashes
<1>7. CASE Checkpoint(w)
  <2>1. /\ pc[w] = "due" /\ pc'[w] = "idle" /\ stale' = stale /\ file' = file
        /\ sum' = sum /\ last' = last /\ count' = count /\ head' = head
    BY <1>7 DEF Checkpoint, WriteRecord, Typed
  <2> QED BY <2>1 DEF Remembers, Hashed, Sees, Hashes
<1>8. CASE CheckpointFails(w)
  <2>1. /\ pc[w] = "due" /\ pc'[w] = "idle" /\ stale' = stale /\ file' = file
        /\ sum' = sum /\ last' = last /\ count' = count /\ head' = head
    BY <1>8 DEF CheckpointFails, mine, Typed
  <2> QED BY <2>1 DEF Remembers, Hashed, Sees, Hashes
<1>9. CASE Close(w)
  <2>1. Advanced(w) /\ pc[w] = "idle" /\ file' = file
    BY <1>9 DEF Close
  <2>2. pc'[w] = "down" \/ (pc'[w] = "close" /\ head'[w] # None)
    <3>1. \/ pc' = [pc EXCEPT ![w] = "down"]
          \/ pc' = [pc EXCEPT ![w] = "close"] /\ head'[w] # None
      BY <1>9 DEF Close
    <3> QED BY <3>1 DEF Typed
  <2>3. /\ count'[w] = Lines(file)
        /\ ~stale'[w] => head'[w] = HeadAt(file, Lines(file))
        /\ Hashed(w) /\ ~stale'[w] => /\ last'[w] = Prefix(file, Lines(file))
                                      /\ sum'[w] = Prefix(file, Lines(file))
    BY <2>1, LookEnds
  <2> QED BY <1>0, <2>1, <2>2, <2>3 DEF Sees, Hashes
<1> QED BY <1>1, <1>2, <1>3, <1>4, <1>5, <1>6, <1>7, <1>8, <1>9 DEF Step

\* A write, which begins and ends while nobody is under the lock.
LEMMA OwnWrite ==
    ASSUME Typed, NEW w \in Writers, Remembers(w), NEW c \in Content,
           Write(w, c) \/ WriteFails(w, c) \/ CrashWriting(w, c)
    PROVE  /\ WellFormed(file') /\ Keeps(file, file') /\ LockFree
           /\ Sees(file', pc'[w], stale'[w], count'[w], head'[w])
           /\ Hashed(w) => Hashes(file', pc'[w], stale'[w], count'[w], sum'[w], last'[w])
<1>1. WellFormed(file') /\ Keeps(file, file') /\ LockFree /\ pc[w] = "idle" /\ WellFormed(file)
  BY AppendKeeps DEF Write, WriteFails, CrashWriting, Typed
<1>2. CASE Write(w, c) \/ WriteFails(w, c)
  <2>1. /\ pc'[w] \in {"idle", "appended"} /\ stale' = stale
        /\ sum' = sum /\ last' = last /\ count' = count /\ head' = head
    BY <1>2, <1>1 DEF Write, WriteFails, mine, Typed
  <2>2. pc[w] \notin InLock /\ count[w] \in Nat
    BY <1>1 DEF InLock, Typed
  <2>3. /\ Sees(file', pc[w], stale[w], count[w], head[w])
        /\ Hashed(w) => Hashes(file', pc[w], stale[w], count[w], sum[w], last[w])
    BY <1>1, <2>2, SeenLater, Zenon DEF Remembers, Hashed
  <2> QED BY <1>1, <2>1, <2>3 DEF Sees, Hashes
<1>3. CASE CrashWriting(w, c)
  <2>1. pc'[w] = "down"
    BY <1>3 DEF CrashWriting, Typed
  <2> QED BY <1>1, <2>1, Down
<1> QED BY <1>1, <1>2, <1>3

Core ==
    /\ Typed /\ OneInLock /\ Marked
    /\ \A w \in Writers : Remembers(w)
Hashings == \A w \in Writers : Hashed(w)

\* Under the lock is whoever was, or one that found it free.
LEMMA LockTaken ==
    ASSUME Typed, NEW w \in Writers,
           \/ Step(w)
           \/ \E c \in Content : Write(w, c) \/ WriteFails(w, c) \/ CrashWriting(w, c)
    PROVE  /\ pc'[w] \in InLock => pc[w] \in InLock \/ LockFree
           /\ stale'[w] => stale[w]
           /\ cut' = cut
<1> USE DEF Typed, InLock
<1>1. CASE Open(w)
  BY <1>1 DEF Open
<1>2. CASE OpenFails(w)
  BY <1>2 DEF OpenFails
<1>3. CASE Resume(w) \/ Checkpoint(w) \/ CheckpointFails(w)
  BY <1>3 DEF Resume, Checkpoint, CheckpointFails
<1>4. CASE ResumeFails(w) \/ CloseRecord(w) \/ CloseFails(w) \/ Crash(w)
  BY <1>4 DEF ResumeFails, CloseRecord, CloseFails, Crash, Gone
<1>5. CASE Advance(w)
  BY <1>5, LookEnds DEF Advance
<1>6. CASE AdvanceFails(w)
  <2>1. AdvanceStops(w) /\ pc[w] = "appended" /\ cut' = cut
    BY <1>6 DEF AdvanceFails
  <2>2. stale'[w] = (stale[w] /\ ~Shrank(w))
    BY <2>1, Starts DEF AdvanceStops
  <2> QED BY <2>1, <2>2
<1>7. CASE Close(w)
  BY <1>7, LookEnds DEF Close
<1>8. CASE \E c \in Content : Write(w, c) \/ WriteFails(w, c)
  BY <1>8 DEF Write, WriteFails
<1>9. CASE \E c \in Content : CrashWriting(w, c)
  BY <1>9 DEF CrashWriting, Gone
<1> QED BY <1>1, <1>2, <1>3, <1>4, <1>5, <1>6, <1>7, <1>8, <1>9 DEF Step

LEMMA CoreInit == Init => Core /\ Hashings
<1> SUFFICES ASSUME Init PROVE Core /\ Hashings
  OBVIOUS
<1>1. WellFormed(file)
  BY ConstantsAssumption DEF Init, LogInit
<1>2. <<>> \in Seq(Line) /\ <<>> \in Seq(Record)
  BY EmptySeq
<1>3. Typed
  BY <1>1, <1>2 DEF Init, Typed, Hash
<1>4. \A w \in Writers : pc[w] = "down"
  BY DEF Init
<1>5. OneInLock /\ Marked
  BY <1>4 DEF OneInLock, InLock, Marked, Init
<1>6. ASSUME NEW w \in Writers PROVE Remembers(w) /\ Hashed(w)
  BY <1>4, Down DEF Remembers, Hashed
<1> QED BY <1>3, <1>5, <1>6 DEF Core, Hashings

\* What one writer does keeps what all of them know.
LEMMA CoreStepOf ==
    ASSUME Core, NEW w \in Writers,
           \/ Step(w)
           \/ \E c \in Content : Write(w, c) \/ WriteFails(w, c) \/ CrashWriting(w, c)
    PROVE  /\ OneInLock' /\ Marked'
           /\ \A v \in Writers : Remembers(v)'
           /\ ~ScanMayFail /\ Hashings => Hashings'
<1>1. Typed /\ WellFormed(file) /\ \A v \in Writers : count[v] \in Nat
  BY DEF Core, Typed
<1>2. /\ pc'[w] \in InLock => pc[w] \in InLock \/ LockFree
      /\ stale'[w] => stale[w]
      /\ cut' = cut
  BY <1>1, LockTaken
<1>3. \A v \in Writers : v # w =>
         /\ pc'[v] = pc[v] /\ stale'[v] = stale[v] /\ count'[v] = count[v]
         /\ head'[v] = head[v] /\ sum'[v] = sum[v] /\ last'[v] = last[v]
  BY <1>1, Apart
<1>4. OneInLock'
  <2> SUFFICES ASSUME NEW u \in Writers, NEW v \in Writers, pc'[u] \in InLock, pc'[v] \in InLock
               PROVE  u = v
    BY DEF OneInLock, InLock
  <2>1. \A x \in Writers : pc'[x] \in InLock => pc[x] \in InLock \/ (x = w /\ LockFree)
    BY <1>2, <1>3
  <2> QED BY <2>1 DEF Core, OneInLock, LockFree
<1>5. Marked'
  BY <1>2, <1>3 DEF Core, Marked
<1>6. \A v \in Writers : /\ Remembers(v)'
                         /\ ~ScanMayFail /\ Hashed(v) => Hashed(v)'
  <2>1. CASE Step(w)
    <3>1. /\ file' = file
          /\ Sees(file, pc'[w], stale'[w], count'[w], head'[w])
          /\ ~ScanMayFail /\ Hashed(w)
              => Hashes(file, pc'[w], stale'[w], count'[w], sum'[w], last'[w])
      BY <1>1, <2>1, OwnStep DEF Core
    <3> QED BY <1>3, <3>1 DEF Core, Remembers, Hashed
  <2>2. CASE \E c \in Content : Write(w, c) \/ WriteFails(w, c) \/ CrashWriting(w, c)
    <3>1. /\ WellFormed(file') /\ Keeps(file, file') /\ LockFree
          /\ Sees(file', pc'[w], stale'[w], count'[w], head'[w])
          /\ Hashed(w) => Hashes(file', pc'[w], stale'[w], count'[w], sum'[w], last'[w])
      BY <1>1, <2>2, OwnWrite DEF Core
    <3>2. ASSUME NEW v \in Writers, v # w
          PROVE  /\ Sees(file', pc[v], stale[v], count[v], head[v])
                 /\ Hashed(v) => Hashes(file', pc[v], stale[v], count[v], sum[v], last[v])
      <4>1. pc[v] \notin InLock /\ Sees(file, pc[v], stale[v], count[v], head[v])
        BY <3>1 DEF LockFree, Core, Remembers
      <4> QED BY <1>1, <3>1, <4>1, SeenLater, Zenon DEF Hashed
    <3> QED BY <1>3, <3>1, <3>2 DEF Remembers, Hashed
  <2> QED BY <2>1, <2>2
<1> QED BY <1>4, <1>5, <1>6 DEF Hashings

LEMMA CoreStep ==
    ASSUME Core, [Next]_vars
    PROVE  Core' /\ (~ScanMayFail /\ Hashings => Hashings')
<1>0. Typed'
  BY TypedStep DEF Core
<1>1. ASSUME NEW w \in Writers,
             \/ Step(w)
             \/ \E c \in Content : Write(w, c) \/ WriteFails(w, c) \/ CrashWriting(w, c)
      PROVE  Core' /\ (~ScanMayFail /\ Hashings => Hashings')
  BY <1>0, <1>1, CoreStepOf DEF Core
<1>2. ASSUME NEW c \in Content, OtherWrites(c)
      PROVE  Core' /\ (~ScanMayFail /\ Hashings => Hashings')
  <2>1. /\ LockFree /\ WellFormed(file) /\ \A v \in Writers : count[v] \in Nat
        /\ UNCHANGED <<pc, sum, last, count, head, cut, stale>>
    BY <1>2 DEF OtherWrites, mine, Core, Typed
  <2>2. WellFormed(file') /\ Keeps(file, file')
    BY <1>2, <2>1, AppendKeeps DEF OtherWrites
  <2>3. ASSUME NEW v \in Writers
        PROVE  /\ Sees(file', pc[v], stale[v], count[v], head[v])
               /\ Hashed(v) => Hashes(file', pc[v], stale[v], count[v], sum[v], last[v])
    <3>1. pc[v] \notin InLock /\ Sees(file, pc[v], stale[v], count[v], head[v])
      BY <2>1 DEF LockFree, Core, Remembers
    <3> QED BY <2>1, <2>2, <3>1, SeenLater, Zenon DEF Hashed
  <2>4. \A v \in Writers : Remembers(v)' /\ (Hashed(v) => Hashed(v)')
    BY <2>1, <2>3 DEF Remembers, Hashed
  <2>5. OneInLock' /\ Marked'
    BY <2>1 DEF Core, OneInLock, Marked
  <2> QED BY <1>0, <2>4, <2>5 DEF Core, Hashings
<1>3. CASE Shrink
  <2>1. pc' = pc /\ stale' = [w \in Writers |-> TRUE] /\ cut' = TRUE
    BY <1>3 DEF Shrink
  <2>2. \A v \in Writers : Remembers(v)' /\ Hashed(v)'
    BY <2>1 DEF Remembers, Hashed, Sees, Hashes
  <2>3. OneInLock' /\ Marked'
    BY <2>1 DEF Core, OneInLock, Marked
  <2> QED BY <1>0, <2>2, <2>3 DEF Core, Hashings
<1>4. CASE ReadSidecar \/ ReadStream \/ UNCHANGED vars
  <2>1. UNCHANGED <<file, pc, sum, last, count, head, cut, stale>>
    BY <1>4 DEF ReadSidecar, ReadStream, vars, mine
  <2>2. \A v \in Writers : Remembers(v)' /\ (Hashed(v) => Hashed(v)')
    BY <2>1 DEF Core, Remembers, Hashed
  <2>3. OneInLock' /\ Marked'
    BY <2>1 DEF Core, OneInLock, Marked
  <2> QED BY <1>0, <2>2, <2>3 DEF Core, Hashings
<1> QED BY <1>1, <1>2, <1>3, <1>4 DEF Next

-----------------------------------------------------------------------------
(* Records. *)

\* The record somebody writes, if any, is a true one.
LEMMA RecordTrue ==
    ASSUME Core, NEW w \in Writers,
           Resume(w) \/ Checkpoint(w) \/ CloseRecord(w)
    PROVE  \E kind \in Kinds \ {"junk"}, n \in Nat, h \in Hash, p \in Seq(Line) :
              /\ Recorded(w, kind, n, h, p)
              /\ file' = file /\ pc[w] \in {"resume", "due", "close"}
              /\ ~stale[w] => /\ n \in 1..Lines(file) /\ h = HeadAt(file, n) /\ h # None
                              /\ Hashings => p = Prefix(file, n)
<1>0. /\ Lines(file) \in 0..Len(file) /\ Len(file) \in Nat /\ Lines(file) \in Nat
      /\ WellFormed(file) /\ file \in Seq(Line)
      /\ \A n : HeadAt(file, n) \in Hash
      /\ \A n : HeadAt(file, n) # None => n \in 1..Lines(file)
  BY LinesOf DEF Core, Typed
<1>1. CASE Resume(w)
  <2> DEFINE n == LastGood(file)
  <2>1. n \in 0..Lines(file) /\ (n > 0 => HeadAt(file, n) # None)
    BY <1>0, LastGoodIs
  <2>2. n \in Nat /\ n \in 0..Len(file) /\ 0 \in 0..n
    BY <1>0, <2>1
  <2>3. Prefix(file, n) \in Seq(Line)
    BY <1>0, <2>2, HashedOn
  <2>4. /\ Recorded(w, "resume", n, HeadAt(file, n), Prefix(file, n))
        /\ file' = file /\ pc[w] = "resume"
    BY <1>1 DEF Resume, WriteRecord
  <2>5. ~stale[w] => n \in 1..Lines(file) /\ HeadAt(file, n) # None
    <3>1. ~stale[w] => n > 0
      BY <2>4 DEF Core, Remembers, Sees
    <3> QED BY <1>0, <2>1, <2>2, <3>1
  <2>6. "resume" \in Kinds \ {"junk"}
    BY DEF Kinds
  <2> HIDE DEF n
  <2> QED BY <1>0, <2>2, <2>3, <2>4, <2>5, <2>6
<1>2. CASE Checkpoint(w) \/ CloseRecord(w)
  <2>1. PICK kind \in Kinds \ {"junk"} : Recorded(w, kind, count[w], head[w], sum[w])
    BY <1>2 DEF Checkpoint, CloseRecord, WriteRecord, Kinds
  <2>2. count[w] \in Nat /\ head[w] \in Hash /\ sum[w] \in Seq(Line)
    BY DEF Core, Typed
  <2>3. file' = file /\ pc[w] \in {"due", "close"}
    BY <1>2 DEF Checkpoint, CloseRecord
  <2>4. ~stale[w] => /\ count[w] \in 1..Lines(file)
                     /\ head[w] = HeadAt(file, count[w]) /\ head[w] # None
                     /\ Hashings => sum[w] = Prefix(file, count[w])
    <3>1. ~stale[w] => head[w] = HeadAt(file, count[w]) /\ head[w] # None
      BY <2>3 DEF Core, Remembers, Sees
    <3>2. ~stale[w] /\ Hashings => sum[w] = Prefix(file, count[w])
      BY <2>3 DEF Hashings, Hashed, Hashes
    <3> QED BY <1>0, <3>1, <3>2
  <2> QED BY <2>1, <2>2, <2>3, <2>4
<1> QED BY <1>1, <1>2

\* Nothing else makes the sidecar longer.
LEMMA Longer ==
    ASSUME Typed, [Next]_vars, Len(side') > Len(side)
    PROVE  \E w \in Writers : Resume(w) \/ Checkpoint(w) \/ CloseRecord(w)
<1>0. Len(side) \in Nat
  BY LenProperties DEF Typed
<1>1. side' # side
  BY <1>0
<1>2. ASSUME NEW w \in Writers, Step(w)
      PROVE  Resume(w) \/ Checkpoint(w) \/ CloseRecord(w)
  <2>1. ~RecordFails(w)
    <3>1. RecordFails(w) => Len(side') <= Len(side) /\ Len(side') \in Nat
      BY RecordLost, LenProperties
    <3> QED BY <1>0, <3>1
  <2> QED BY <1>1, <1>2, <2>1 DEF Step, Open, OpenFails, ResumeFails, Advance, AdvanceFails,
             CheckpointFails, Close, CloseFails, Crash, log
<1>3. ASSUME NEW w \in Writers, NEW c \in Content,
             Write(w, c) \/ WriteFails(w, c) \/ CrashWriting(w, c)
      PROVE  FALSE
  BY <1>1, <1>3 DEF Write, WriteFails, CrashWriting, log
<1>4. ASSUME NEW c \in Content, OtherWrites(c) PROVE FALSE
  BY <1>1, <1>4 DEF OtherWrites, log
<1>5. ~Shrink /\ ~ReadSidecar /\ ~ReadStream /\ ~UNCHANGED vars
  BY <1>1 DEF Shrink, ReadSidecar, ReadStream, vars, log
<1> QED BY <1>2, <1>3, <1>4, <1>5 DEF Next

\* Of a new record: the line it names, and the bytes through it.
NamesItsLine(r) == r.count \in 1..Lines(file) /\ r.head = HeadAt(file, r.count)
NamesItsBytes(r) == r.prefix = Prefix(file, r.count)

LEMMA NewRecord ==
    ASSUME Core, [Next]_vars, NEW w \in Writers, pc[w] \in {"resume", "due", "close"},
           Len(side') > Len(side), ~stale[w]
    PROVE  NamesItsLine(side'[Len(side')]) /\ (Hashings => NamesItsBytes(side'[Len(side')]))
<1>1. PICK u \in Writers : Resume(u) \/ Checkpoint(u) \/ CloseRecord(u)
  BY Longer DEF Core
<1>2. PICK kind \in Kinds \ {"junk"}, n \in Nat, h \in Hash, p \in Seq(Line) :
          /\ Recorded(u, kind, n, h, p)
          /\ pc[u] \in {"resume", "due", "close"}
          /\ ~stale[u] => /\ n \in 1..Lines(file) /\ h = HeadAt(file, n)
                          /\ Hashings => p = Prefix(file, n)
  BY <1>1, RecordTrue
<1>3. u = w
  BY <1>2 DEF Core, OneInLock, InLock
<1>4. side'[Len(side')] = Encoded(u, kind, n, h, p)
  BY <1>2, RecordAppended DEF Core
<1> QED BY <1>2, <1>3, <1>4 DEF Encoded, NamesItsLine, NamesItsBytes

\* However many writers keep the sidecar, whatever else is written, cut or torn,
\* and though reads of the stream fail midway: a record names a line of the
\* stream and the event on it.
RecordsNameTheLine ==
    [][\A w \in Writers :
          pc[w] \in {"resume", "due", "close"} /\ Len(side') > Len(side) /\ ~stale[w]
          => NamesItsLine(side'[Len(side')])]_vars

THEOREM LineNamed == Spec => RecordsNameTheLine
<1> DEFINE A == \A w \in Writers :
          pc[w] \in {"resume", "due", "close"} /\ Len(side') > Len(side) /\ ~stale[w]
          => NamesItsLine(side'[Len(side')])
<1>1. Init => Core
  BY CoreInit
<1>2. Core /\ [Next]_vars => Core'
  BY CoreStep
<1>3. Core /\ [Next]_vars => A
  BY NewRecord
<1> QED BY <1>1, <1>2, <1>3, PTL DEF Spec, RecordsNameTheLine

\* And, when no read fails midway, the very bytes of the stream through it.
THEOREM RecordsTrue ==
    ASSUME ~ScanMayFail
    PROVE  Spec => RecordsSpeakTheTruth
<1> DEFINE A == \A w \in Writers :
          pc[w] \in {"resume", "due", "close"} /\ Len(side') > Len(side) /\ ~stale[w]
          => LET r == side'[Len(side')] IN
             /\ r.count \in 1..Lines(file)
             /\ r.prefix = Prefix(file, r.count)
             /\ r.head = HeadAt(file, r.count)
<1>1. Init => Core /\ Hashings
  BY CoreInit
<1>2. Core /\ Hashings /\ [Next]_vars => (Core /\ Hashings)'
  BY CoreStep
<1>3. Core /\ Hashings /\ [Next]_vars => A
  BY NewRecord DEF NamesItsLine, NamesItsBytes
<1> QED BY <1>1, <1>2, <1>3, PTL DEF Spec, RecordsSpeakTheTruth

-----------------------------------------------------------------------------
(* One writer and its sidecar. *)

AllHold(recs, f) == \A i \in 1..Len(recs) : Holds(recs, i, f)

\* The writer knows where the sidecar ends, and nothing torn follows.
Position ==
    \A w \in Writers : pc[w] # "down" => ~torn /\ size[w] = Len(side) /\ prev[w] = LastId

LEMMA HeldLater ==
    ASSUME NEW f, WellFormed(f), NEW g, WellFormed(g), Keeps(f, g), NEW recs, AllHold(recs, f)
    PROVE  AllHold(recs, g)
<1> SUFFICES ASSUME NEW i \in 1..Len(recs) PROVE Holds(recs, i, g)
  BY DEF AllHold
<1>1. /\ Lines(f) \in Nat /\ Lines(g) \in Nat /\ Lines(f) <= Lines(g)
      /\ \A n \in 0..Lines(f) : Prefix(g, n) = Prefix(f, n) /\ HeadAt(g, n) = HeadAt(f, n)
  BY Counted, LinesOf
<1>2. Holds(recs, i, f)
  BY DEF AllHold
<1>3. recs[i].count \in 1..Lines(g) /\ recs[i].count \in 0..Lines(f)
  BY <1>1, <1>2 DEF Holds
<1> QED BY <1>1, <1>2, <1>3 DEF Holds

\* A record it writes goes where the sidecar ends, and the next one chains from it.
LEMMA PositionRecorded ==
    ASSUME Typed, Position, NEW w \in Writers, Writers = {w}, pc[w] # "down",
           NEW kind \in Kinds, NEW n \in Nat, NEW h \in Hash, NEW p \in Seq(Line),
           Recorded(w, kind, n, h, p)
    PROVE  /\ ~torn' /\ Len(side') = size[w] + 1 /\ LastId' = ids + 1
           /\ Encoded(w, kind, n, h, p).kind = kind
           /\ Encoded(w, kind, n, h, p).prev = LastId
<1>1. ~torn /\ size[w] = Len(side) /\ prev[w] = LastId
  BY DEF Position
<1>2. /\ side' \in Seq(Record) /\ Len(side') = Len(side) + 1 /\ Len(side) \in Nat
      /\ side'[Len(side) + 1] = Encoded(w, kind, n, h, p) /\ torn' = FALSE
      /\ Encoded(w, kind, n, h, p).id = ids + 1
  BY RecordAppended
<1>3. side' # <<>>
  BY <1>2, EmptySeq
<1>4. LastId' = ids + 1
  BY <1>2, <1>3 DEF LastId
<1> QED BY <1>1, <1>2, <1>4 DEF Encoded

LEMMA PositionStep ==
    ASSUME Typed, Position, NEW w0, Writers = {w0}, [Next]_vars
    PROVE  Position'
<1> DEFINE w == w0
<1>0. /\ Len(side) \in Nat /\ w \in Writers /\ pc[w] \in {"down", "idle"} \cup InLock
      /\ pc[w] # "down" => ~torn /\ size[w] = Len(side) /\ prev[w] = LastId
  BY LenProperties DEF Typed, Position
<1>1. CASE Open(w)
  <2>1. torn' = FALSE /\ side' = side /\ size'[w] = Len(side) /\ prev'[w] = LastId
    BY <1>0, <1>1 DEF Open, CutTorn, Typed
  <2> QED BY <2>1 DEF Position, LastId
<1>2. CASE OpenFails(w)
  BY <1>2 DEF OpenFails, Position, LastId, mine
<1>3. CASE Resume(w) \/ Checkpoint(w)
  <2>1. PICK kind \in Kinds, n \in Nat, h \in Hash, p \in Seq(Line) : WriteRecord(w, kind, n, h, p)
    <3>1. CASE Resume(w)
      <4>1. WriteRecord(w, "resume", LastGood(file), HeadAt(file, LastGood(file)),
                        Prefix(file, LastGood(file)))
        BY <3>1 DEF Resume
      <4>2. /\ LastGood(file) \in 0..Lines(file) /\ Lines(file) \in 0..Len(file) /\ Len(file) \in Nat
            /\ HeadAt(file, LastGood(file)) \in Hash /\ file \in Seq(Line)
        BY LastGoodIs, LinesOf DEF Typed
      <4>3. LastGood(file) \in Nat /\ LastGood(file) \in 0..Len(file) /\ 0 \in 0..LastGood(file)
        BY <4>2
      <4>4. Prefix(file, LastGood(file)) \in Seq(Line)
        BY <4>2, <4>3, HashedOn
      <4> QED BY <4>1, <4>2, <4>3, <4>4 DEF Kinds
    <3>2. CASE Checkpoint(w)
      BY <1>0, <3>2 DEF Checkpoint, Typed, Kinds
    <3> QED BY <1>3, <3>1, <3>2
  <2>2. pc[w] # "down"
    BY <1>3 DEF Resume, Checkpoint
  <2>3. /\ Recorded(w, kind, n, h, p) /\ size' = [size EXCEPT ![w] = @ + 1]
        /\ prev' = [prev EXCEPT ![w] = ids + 1]
    BY <2>1 DEF WriteRecord
  <2>4. ~torn' /\ Len(side') = size[w] + 1 /\ LastId' = ids + 1
    BY <1>0, <2>2, <2>3, PositionRecorded
  <2>5. size'[w] = size[w] + 1 /\ prev'[w] = ids + 1
    BY <1>0, <2>3 DEF Typed
  <2> QED BY <2>4, <2>5 DEF Position
<1>4. CASE ResumeFails(w) \/ CloseRecord(w) \/ CloseFails(w) \/ Crash(w)
  <2>1. pc'[w] = "down"
    BY <1>0, <1>4 DEF ResumeFails, CloseRecord, CloseFails, Crash, Typed
  <2> QED BY <2>1 DEF Position
<1>5. CASE Advance(w) \/ AdvanceFails(w) \/ Close(w)
  <2>1. pc[w] # "down" /\ side' = side /\ torn' = torn /\ prev' = prev /\ size' = size
    BY <1>5 DEF Advance, AdvanceFails, Close, Advanced, AdvanceStops, log
  <2> QED BY <1>0, <2>1 DEF Position, LastId
<1>6. CASE CheckpointFails(w)
  <2>1. pc[w] = "due" /\ RecordFails(w) /\ size' = size /\ prev' = prev
    BY <1>6 DEF CheckpointFails, mine
  <2>2. side' = side /\ torn' \in {torn, FALSE}
    BY <1>0, <2>1, RecordLost
  <2> QED BY <1>0, <2>1, <2>2 DEF Position, LastId
<1>7. CASE \E c \in Content : Write(w, c)
  <2>1. pc[w] # "down" /\ side' = side /\ torn' = torn /\ prev' = prev /\ size' = size
    BY <1>7 DEF Write, log, mine
  <2> QED BY <1>0, <2>1 DEF Position, LastId
<1>8. CASE \E c \in Content : CrashWriting(w, c)
  <2>1. pc'[w] = "down"
    BY <1>0, <1>8 DEF CrashWriting, Typed
  <2> QED BY <2>1 DEF Position
<1>9. CASE \/ \E c \in Content : WriteFails(w, c) \/ OtherWrites(c)
           \/ Shrink \/ ReadSidecar \/ ReadStream \/ UNCHANGED vars
  <2>1. side' = side /\ torn' = torn /\ prev' = prev /\ size' = size /\ pc' = pc
    BY <1>9 DEF WriteFails, OtherWrites, Shrink, ReadSidecar, ReadStream, vars, log, mine
  <2> QED BY <2>1 DEF Position, LastId
<1> QED BY <1>0, <1>1, <1>2, <1>3, <1>4, <1>5, <1>6, <1>7, <1>8, <1>9 DEF Next, Step

\* Every record holds, those a verifier has read and has not yet judged too.
SideTrue ==
    /\ ~cut => AllHold(side, file) /\ (read # None => AllHold(read, file))
    /\ accused # {} => cut

\* Only a hand takes back what is on disk.
LEMMA FileMoves ==
    ASSUME Typed, [Next]_vars
    PROVE  /\ cut => cut'
           /\ ~cut' => Keeps(file, file')
<1>1. Keeps(file, file)
  BY DEF Keeps
<1>2. CASE \E w \in Writers : Step(w)
  <2>1. PICK w \in Writers : Step(w)
    BY <1>2
  <2>2. file' = file /\ cut' = cut
    BY <2>1 DEF Step, Open, OpenFails, Resume, ResumeFails, Advance, AdvanceFails, Checkpoint,
             CheckpointFails, Close, CloseRecord, CloseFails, Crash
  <2> QED BY <1>1, <2>2
<1>3. ASSUME NEW w \in Writers, NEW c \in Content, Write(w, c) \/ WriteFails(w, c) \/ CrashWriting(w, c)
      PROVE  Keeps(file, file') /\ cut' = cut
  BY <1>3, AppendKeeps DEF Write, WriteFails, CrashWriting, Typed
<1>4. ASSUME NEW c \in Content, OtherWrites(c)
      PROVE  Keeps(file, file') /\ cut' = cut
  BY <1>4, AppendKeeps DEF OtherWrites, Typed
<1>5. CASE Shrink
  BY <1>5 DEF Shrink
<1>6. CASE ReadSidecar \/ ReadStream \/ UNCHANGED vars
  BY <1>1, <1>6 DEF ReadSidecar, ReadStream, vars
<1> QED BY <1>2, <1>3, <1>4, <1>5, <1>6 DEF Next

\* The sidecar changes by whole records, while the stream stays.
LEMMA SideMoves ==
    ASSUME Typed, Position, NEW w, Writers = {w}, [Next]_vars
    PROVE  \/ side' = side
           \/ /\ Resume(w) \/ Checkpoint(w) \/ CloseRecord(w)
              /\ file' = file /\ cut' = cut /\ read' = read /\ accused' = accused
<1>0. w \in Writers
  OBVIOUS
<1>1. CASE Step(w)
  <2>1. CASE ResumeFails(w) \/ CheckpointFails(w) \/ CloseFails(w)
    <3>1. UNCHANGED log \/ (RecordFails(w) /\ pc[w] # "down")
      BY <2>1 DEF ResumeFails, CheckpointFails, CloseFails
    <3> QED BY <1>0, <3>1, RecordLost DEF log, Position
  <2>2. CASE Resume(w) \/ Checkpoint(w) \/ CloseRecord(w)
    BY <2>2 DEF Resume, Checkpoint, CloseRecord, check
  <2>3. CASE Open(w) \/ OpenFails(w) \/ Advance(w) \/ AdvanceFails(w) \/ Close(w) \/ Crash(w)
    BY <2>3 DEF Open, OpenFails, Advance, AdvanceFails, Close, Crash, log
  <2> QED BY <1>1, <2>1, <2>2, <2>3 DEF Step
<1>2. ASSUME NEW c \in Content, Write(w, c) \/ WriteFails(w, c) \/ CrashWriting(w, c) \/ OtherWrites(c)
      PROVE  side' = side
  BY <1>2 DEF Write, WriteFails, CrashWriting, OtherWrites, log
<1>3. CASE Shrink \/ ReadSidecar \/ ReadStream \/ UNCHANGED vars
  BY <1>3 DEF Shrink, ReadSidecar, ReadStream, vars, log
<1> QED BY <1>1, <1>2, <1>3 DEF Next

\* A true record behind true ones, that chains from the last of them.
LEMMA OneMoreHolds ==
    ASSUME Core, Hashings, Position, ~cut, AllHold(side, file), NEW w, Writers = {w},
           Resume(w) \/ Checkpoint(w) \/ CloseRecord(w)
    PROVE  AllHold(side', file)
<1>0. w \in Writers /\ ~stale[w] /\ Typed
  BY DEF Core, Marked
<1>1. PICK kind \in Kinds \ {"junk"}, n \in Nat, h \in Hash, p \in Seq(Line) :
          /\ Recorded(w, kind, n, h, p)
          /\ pc[w] \in {"resume", "due", "close"}
          /\ n \in 1..Lines(file) /\ h = HeadAt(file, n) /\ h # None /\ p = Prefix(file, n)
  BY <1>0, RecordTrue
<1> DEFINE r == Encoded(w, kind, n, h, p)
<1>2. /\ Len(side') = Len(side) + 1 /\ Len(side) \in Nat /\ side'[Len(side) + 1] = r
      /\ \A i \in 1..Len(side) : side'[i] = side[i]
  BY <1>0, <1>1, RecordAppended
<1>3. r.kind # "junk" /\ r.prev = LastId
  BY <1>0, <1>1, PositionRecorded
<1>4. r.count = n /\ r.head = h /\ r.prefix = p
  BY DEF Encoded
<1> HIDE DEF r
<1>5. LastId = IF Len(side) = 0 THEN 0 ELSE side[Len(side)].id
  BY <1>0, EmptySeq DEF LastId, Typed
<1> SUFFICES ASSUME NEW i \in 1..Len(side') PROVE Holds(side', i, file)
  BY DEF AllHold
<1>6. CASE i \in 1..Len(side)
  <2>1. Holds(side, i, file) /\ side'[i] = side[i] /\ (i # 1 => side'[i - 1] = side[i - 1])
    BY <1>2, <1>6 DEF AllHold
  <2> QED BY <2>1 DEF Holds
<1>7. CASE i = Len(side) + 1
  <2>1. side'[i] = r
    BY <1>2, <1>7
  <2>2. LastId = IF i = 1 THEN 0 ELSE side'[i - 1].id
    BY <1>2, <1>5, <1>7
  <2> QED BY <1>1, <1>3, <1>4, <2>1, <2>2 DEF Holds
<1> QED BY <1>2, <1>6, <1>7

LEMMA SideTrueStep ==
    ASSUME Core, Hashings, Position, SideTrue, NEW w, Writers = {w}, [Next]_vars
    PROVE  SideTrue'
<1>0. Typed /\ Typed' /\ WellFormed(file) /\ WellFormed(file')
  BY TypedStep DEF Core, Typed
<1>1. (cut => cut') /\ (~cut' => Keeps(file, file'))
  BY <1>0, FileMoves
<1>2. ASSUME ~cut' PROVE AllHold(side', file')
  <2>1. ~cut /\ AllHold(side, file)
    BY <1>1, <1>2 DEF SideTrue
  <2>2. CASE side' = side
    BY <1>0, <1>1, <1>2, <2>1, <2>2, HeldLater
  <2>3. CASE file' = file /\ (Resume(w) \/ Checkpoint(w) \/ CloseRecord(w))
    BY <2>1, <2>3, OneMoreHolds
  <2> QED BY <1>0, <2>2, <2>3, SideMoves
<1>3. CASE ReadSidecar
  <2>1. file' = file /\ read' = side /\ cut' = cut /\ accused' = accused
    BY <1>3 DEF ReadSidecar
  <2>2. ~cut => AllHold(side, file)
    BY DEF SideTrue
  <2> QED BY <1>2, <2>1, <2>2 DEF SideTrue
<1>4. CASE ReadStream
  <2>1. read # None /\ read' = None /\ cut' = cut /\ (accused' = accused \/ accused' = Refused(read, file))
    BY <1>4 DEF ReadStream
  <2>2. ~cut => Refused(read, file) = {}
    BY <2>1 DEF SideTrue, AllHold, Refused
  <2> QED BY <1>2, <2>1, <2>2 DEF SideTrue
<1>5. CASE read' = read /\ accused' = accused
  <2>1. ASSUME ~cut', read' # None PROVE AllHold(read', file')
    BY <1>0, <1>1, <1>5, <2>1, HeldLater DEF SideTrue
  <2> QED BY <1>1, <1>2, <1>5, <2>1 DEF SideTrue
<1>6. ReadSidecar \/ ReadStream \/ (read' = read /\ accused' = accused)
  <2>1. ASSUME NEW u \in Writers, Step(u) PROVE read' = read /\ accused' = accused
    BY <2>1 DEF Step, Open, OpenFails, Resume, ResumeFails, Advance, AdvanceFails, Checkpoint,
             CheckpointFails, Close, CloseRecord, CloseFails, Crash, check
  <2>2. ASSUME NEW u \in Writers, NEW c \in Content,
               Write(u, c) \/ WriteFails(u, c) \/ CrashWriting(u, c)
        PROVE  read' = read /\ accused' = accused
    BY <2>2 DEF Write, WriteFails, CrashWriting, check
  <2>3. ASSUME NEW c \in Content, OtherWrites(c) PROVE read' = read /\ accused' = accused
    BY <2>3 DEF OtherWrites, check
  <2>4. Shrink \/ UNCHANGED vars => read' = read /\ accused' = accused
    BY DEF Shrink, vars, check
  <2> QED BY <2>1, <2>2, <2>3, <2>4 DEF Next
<1> QED BY <1>3, <1>4, <1>5, <1>6

\* One writer, whatever crashes, fails or writes beside it: whoever reads the
\* sidecar and then the stream refuses a record of a stream somebody cut, and of
\* no other.
THEOREM RefusalsGenuine ==
    ASSUME ~ScanMayFail, NEW w, Writers = {w}
    PROVE  Spec => []RefusedMeansRewritten
<1> DEFINE I == Core /\ Hashings /\ Position /\ SideTrue
<1>1. Init => I
  <2> SUFFICES ASSUME Init PROVE Position /\ SideTrue
    BY CoreInit
  <2>1. Len(side) = 0
    BY EmptySeq DEF Init
  <2> QED BY <2>1 DEF Init, Position, SideTrue, AllHold
<1>2. I /\ [Next]_vars => I'
  BY CoreStep, PositionStep, SideTrueStep DEF Core
<1>3. I => RefusedMeansRewritten
  BY DEF SideTrue, RefusedMeansRewritten
<1> QED BY <1>1, <1>2, <1>3, PTL DEF Spec

-----------------------------------------------------------------------------
(* The lines in no record. *)

Named(s) == {s[i].count : i \in 1..Len(s)}

\* No more lines than the writer has pending follow the open or some record; it
\* has just written an event when it looks; a resume record comes first.
Uncounted ==
    \A w \in Writers :
       /\ pc[w] \notin {"down", "close"} /\ ~cut
          => \E n \in {base[w]} \cup Named(side) : count[w] <= n + pending[w]
       /\ pc[w] = "appended" /\ ~cut => HeadAt(file, Lines(file)) # None
       /\ pc[w] = "resume" => count[w] = base[w] /\ pending[w] = 0

\* An event written whole is the last line.
LEMMA EventLands ==
    ASSUME WellFormed(file), NEW c \in Content, ChainedAppend(c)
    PROVE  HeadAt(file', Lines(file')) # None
<1> DEFINE e == Event(c, TailHash(file))
<1>1. c \in Hashable /\ file' = PutLine(file, ~EndsNewline(file), e)
  BY DEF ChainedAppend
<1>2. e \in Line /\ e.kind = "event" /\ e.body = c /\ e.nl = TRUE
  BY TailHashOf DEF Event, Line, Hash
<1> HIDE DEF e
<1>3. Len(file') \in 1..Len(file') /\ file'[Len(file')] = e
  BY <1>1, <1>2, PutLineLands
<1>4. Lines(file') = Len(file')
  BY <1>2, <1>3 DEF Lines, EndsNewline
<1>5. HeadAt(file', Lines(file')) = c
  BY <1>1, <1>2, <1>3, <1>4 DEF HeadAt, Chainable
<1> QED BY <1>5, ConstantsAssumption

\* A look that comes to its end counts what it puts into pending.
LEMMA LookCounts ==
    ASSUME Core, ~cut, NEW w \in Writers, pc[w] # "down"
    PROVE  /\ ~stale[w] /\ ~Shrank(w) /\ From(w) = count[w] /\ count[w] \in 0..Lines(file)
           /\ Added(w) = Lines(file) - count[w] /\ Lines(file) \in Nat
<1>1. ~stale[w] /\ count[w] \in Nat /\ WellFormed(file)
  BY DEF Core, Marked, Typed
<1>2. count[w] <= Lines(file) /\ Lines(file) \in Nat
  BY <1>1, LinesOf DEF Core, Remembers, Sees
<1> QED BY <1>1, <1>2 DEF Shrank, From, Added

LEMMA NamedNat ==
    ASSUME Typed
    PROVE  \A n \in Named(side) : n \in Nat
<1>1. \A i \in 1..Len(side) : side[i] \in Record
  BY ElementOfSeq DEF Typed
<1> QED BY <1>1 DEF Named, Record

LEMMA NamedRecorded ==
    ASSUME Typed, NEW w \in Writers, Recorded(w, "checkpoint", count[w], head[w], sum[w])
    PROVE  count[w] \in Named(side')
<1>1. count[w] \in Nat /\ head[w] \in Hash /\ sum[w] \in Seq(Line) /\ "checkpoint" \in Kinds
  BY DEF Typed, Kinds
<1>2. /\ Len(side') = Len(side) + 1 /\ Len(side) \in Nat
      /\ side'[Len(side) + 1] = Encoded(w, "checkpoint", count[w], head[w], sum[w])
  BY <1>1, RecordAppended
<1>3. Len(side) + 1 \in 1..Len(side') /\ side'[Len(side) + 1].count = count[w]
  BY <1>2 DEF Encoded
<1> QED BY <1>3 DEF Named

LEMMA UncountedStep ==
    ASSUME Core, Position, Uncounted, NEW w0, Writers = {w0}, [Next]_vars
    PROVE  Uncounted'
<1> DEFINE w == w0
<1>0. /\ w \in Writers /\ Typed
      /\ count[w] \in Nat /\ pending[w] \in Nat /\ base[w] \in Nat
      /\ pc[w] \in {"down", "idle"} \cup InLock
  BY DEF Core, Typed
<1>1. /\ pc[w] \notin {"down", "close"} /\ ~cut
         => \E n \in {base[w]} \cup Named(side) : count[w] <= n + pending[w]
      /\ pc[w] = "appended" /\ ~cut => HeadAt(file, Lines(file)) # None
      /\ pc[w] = "resume" => count[w] = base[w] /\ pending[w] = 0
  BY <1>0 DEF Uncounted
<1>2. CASE Open(w)
  <2>1. /\ count'[w] = Lines(file) /\ base'[w] = Lines(file) /\ pending'[w] = 0
        /\ pc'[w] \in {"resume", "idle"}
    BY <1>0, <1>2 DEF Open, Typed
  <2>2. Lines(file) \in Nat
    BY LinesOf DEF Core, Typed
  <2>3. count'[w] <= base'[w] + pending'[w]
    BY <2>1, <2>2
  <2> QED BY <2>1, <2>3 DEF Uncounted
<1>3. CASE Resume(w)
  <2>1. /\ pc[w] = "resume" /\ pc'[w] = "idle" /\ count' = count /\ base' = base /\ pending'[w] = 0
    BY <1>0, <1>3 DEF Resume, WriteRecord, Typed
  <2>2. count'[w] <= base'[w] + pending'[w]
    BY <1>0, <1>1, <2>1
  <2> QED BY <2>1, <2>2 DEF Uncounted
<1>4. CASE ResumeFails(w) \/ CloseRecord(w) \/ CloseFails(w) \/ Crash(w) \/ Close(w)
           \/ \E c \in Content : CrashWriting(w, c)
  <2>1. pc'[w] \in {"down", "close"}
    BY <1>0, <1>4 DEF ResumeFails, CloseRecord, CloseFails, Crash, Close, CrashWriting, Typed
  <2> QED BY <2>1 DEF Uncounted
<1>5. CASE Advance(w)
  <2>1. /\ pc[w] = "appended" /\ side' = side /\ base' = base /\ cut' = cut
        /\ pc'[w] \in {"due", "idle"} /\ pending'[w] = pending[w] + Added(w)
    <3>1. pc'[w] \in {"due", "idle"}
      BY <1>0, <1>5 DEF Advance, Typed
    <3>2. pending'[w] = pending[w] + Added(w)
      BY <1>0, <1>5 DEF Advance, Typed
    <3> QED BY <1>5, <3>1, <3>2 DEF Advance, log
  <2>2. count'[w] = Lines(file)
    BY <1>0, <1>5, LookEnds DEF Advance
  <2>3. ASSUME ~cut
        PROVE  \E n \in {base[w]} \cup Named(side) : count'[w] <= n + pending'[w]
    <3>1. PICK n \in {base[w]} \cup Named(side) : count[w] <= n + pending[w]
      BY <1>1, <2>1, <2>3
    <3>2. n \in Nat
      BY <1>0, NamedNat
    <3>3. Added(w) = Lines(file) - count[w] /\ Lines(file) \in Nat /\ count[w] \in 0..Lines(file)
      BY <1>0, <2>1, <2>3, LookCounts
    <3>4. count'[w] <= n + pending'[w]
      BY <1>0, <2>1, <2>2, <3>1, <3>2, <3>3
    <3> QED BY <3>4
  <2> QED BY <2>1, <2>3 DEF Uncounted
<1>6. CASE AdvanceFails(w)
  <2>1. /\ pc[w] = "appended" /\ side' = side /\ base' = base /\ cut' = cut
        /\ pc'[w] = "idle" /\ pending' = pending /\ AdvanceStops(w)
    BY <1>0, <1>6 DEF AdvanceFails, AdvanceStops, log, Typed
  <2>2. ~cut => count'[w] = count[w]
    BY <1>0, <2>1, LookCounts, LookStops DEF Core
  <2> QED BY <1>1, <2>1, <2>2 DEF Uncounted
<1>7. CASE Checkpoint(w)
  <2>1. /\ pc[w] = "due" /\ pc'[w] = "idle" /\ count' = count /\ pending'[w] = 0
        /\ Recorded(w, "checkpoint", count[w], head[w], sum[w])
    BY <1>0, <1>7 DEF Checkpoint, WriteRecord, Typed
  <2>2. count[w] \in Named(side')
    BY <1>0, <2>1, NamedRecorded
  <2>3. count'[w] <= count[w] + pending'[w]
    BY <1>0, <2>1
  <2> QED BY <2>1, <2>2, <2>3 DEF Uncounted
<1>8. CASE CheckpointFails(w)
  <2>1. /\ pc[w] = "due" /\ pc'[w] = "idle" /\ RecordFails(w) /\ cut' = cut
        /\ count' = count /\ pending' = pending /\ base' = base
    BY <1>0, <1>8 DEF CheckpointFails, mine, Typed
  <2>2. side' = side
    BY <1>0, <2>1, RecordLost DEF Position
  <2> QED BY <1>1, <2>1, <2>2 DEF Uncounted
<1>9. CASE \E c \in Content : Write(w, c)
  <2>1. /\ pc[w] = "idle" /\ pc'[w] = "appended" /\ side' = side /\ cut' = cut
        /\ count' = count /\ pending' = pending /\ base' = base
    BY <1>0, <1>9 DEF Write, log, mine, Typed
  <2>2. HeadAt(file', Lines(file')) # None
    BY <1>9, EventLands DEF Write, Core, Typed
  <2> QED BY <1>1, <2>1, <2>2 DEF Uncounted
<1>10. CASE \E c \in Content : WriteFails(w, c) \/ OtherWrites(c)
  <2>1. /\ pc[w] \notin InLock /\ pc' = pc /\ side' = side /\ cut' = cut
        /\ count' = count /\ pending' = pending /\ base' = base
    BY <1>0, <1>10 DEF WriteFails, OtherWrites, LockFree, log, mine, InLock
  <2> QED BY <1>1, <2>1 DEF Uncounted, InLock
<1>11. CASE Shrink
  <2>1. /\ cut' /\ pc' = pc /\ count' = count /\ pending' = pending /\ base' = base
    BY <1>11 DEF Shrink, mine
  <2> QED BY <1>1, <2>1 DEF Uncounted
<1>12. CASE OpenFails(w) \/ ReadSidecar \/ ReadStream \/ UNCHANGED vars
  <2>1. /\ file' = file /\ pc' = pc /\ side' = side /\ cut' = cut
        /\ count' = count /\ pending' = pending /\ base' = base
    BY <1>12 DEF OpenFails, ReadSidecar, ReadStream, vars, log, mine
  <2> QED BY <2>1 DEF Uncounted
<1> QED BY <1>2, <1>3, <1>4, <1>5, <1>6, <1>7, <1>8, <1>9, <1>10, <1>11, <1>12 DEF Next, Step

\* With one writer of the sidecar and events that JCS takes, fewer than Every
\* lines are in no record when a Write returns, whoever wrote the lines, unless
\* the signer, the sidecar or a read of the stream failed since the last record,
\* or the stream was cut ("a record is written every Every lines").
THEOREM EveryCounted ==
    ASSUME NEW w0, Writers = {w0}
    PROVE  Spec => EveryLines
<1> DEFINE I == Core /\ Position /\ Uncounted
           A == \A w \in Writers :
                  /\ pc[w] \in {"appended", "due"} /\ pc'[w] = "idle" /\ ~cut /\ ~failed'
                  /\ \A n \in 1..Lines(file) : ~Unhashable(file[n])
                  => FewerThanEvery(w)
<1>1. Init => I
  <2> SUFFICES ASSUME Init PROVE Position /\ Uncounted
    BY CoreInit
  <2> QED BY DEF Init, Position, Uncounted
<1>2. I /\ [Next]_vars => I'
  BY CoreStep, PositionStep, UncountedStep DEF Core
<1>3. I /\ [Next]_vars => A
  <2> SUFFICES ASSUME I, [Next]_vars, NEW w \in Writers,
                      pc[w] \in {"appended", "due"}, pc'[w] = "idle", ~cut, ~failed',
                      \A n \in 1..Lines(file) : ~Unhashable(file[n])
               PROVE  FewerThanEvery(w)
    OBVIOUS
  <2>0. /\ Typed /\ w = w0 /\ count[w] \in Nat /\ pending[w] \in Nat /\ base[w] \in Nat
        /\ Every \in Nat \ {0} /\ Lines(file) \in Nat /\ ~stale[w] /\ Added(w) = Lines(file) - count[w]
    BY LookCounts, CheckpointAssumption DEF Core, Typed
  <2>1. Advance(w) \/ AdvanceFails(w) \/ Checkpoint(w) \/ CheckpointFails(w)
    <3>1. pc'[w] # pc[w]
      OBVIOUS
    <3>2. ASSUME NEW c \in Content PROVE ~Write(w, c) /\ ~WriteFails(w, c) /\ ~CrashWriting(w, c) /\ ~OtherWrites(c)
      BY <3>1 DEF Write, WriteFails, CrashWriting, OtherWrites
    <3>3. ~Shrink /\ ~ReadSidecar /\ ~ReadStream /\ ~UNCHANGED vars
      BY <3>1 DEF Shrink, ReadSidecar, ReadStream, vars
    <3>4. Step(w)
      BY <2>0, <3>2, <3>3 DEF Next
    <3>5. ~Open(w) /\ ~OpenFails(w) /\ ~Resume(w) /\ ~ResumeFails(w) /\ ~Close(w) /\ ~CloseRecord(w) /\ ~CloseFails(w)
      BY <3>1 DEF Open, OpenFails, Resume, ResumeFails, Close, CloseRecord, CloseFails
    <3>6. ~Crash(w)
      BY <2>0 DEF Crash, Typed
    <3> QED BY <3>4, <3>5, <3>6 DEF Step
  <2>2. ~CheckpointFails(w)
    BY DEF CheckpointFails, RecordFails
  <2>3. ~AdvanceFails(w)
    BY DEF AdvanceFails, AdvanceStops
  <2>4. CASE Checkpoint(w)
    <3>1. pc[w] = "due" /\ Recorded(w, "checkpoint", count[w], head[w], sum[w])
      BY <2>4 DEF Checkpoint, WriteRecord
    <3>2. count[w] = Lines(file)
      BY <2>0, <3>1 DEF Core, Remembers, Sees
    <3>3. count[w] \in Named(side')
      BY <2>0, <3>1, NamedRecorded
    <3>4. Lines(file) - count[w] < Every
      BY <2>0, <3>2
    <3> QED BY <3>3, <3>4 DEF FewerThanEvery, Named
  <2>5. CASE Advance(w)
    <3>1. Advanced(w) /\ pc[w] = "appended" /\ side' = side /\ pending'[w] = pending[w] + Added(w)
      BY <2>0, <2>5 DEF Advance, log, Typed
    <3>2. head'[w] # None
      <4>1. head'[w] = HeadAt(file, Lines(file))
        BY <2>0, <3>1, LookEnds DEF Core
      <4> QED BY <3>1, <4>1 DEF Uncounted
    <3>3. pending'[w] < Every
      <4>1. PICK elapsed \in BOOLEAN :
               pc' = [pc EXCEPT ![w] =
                   IF pending'[w] # 0 /\ (pending'[w] >= Every \/ elapsed) /\ head'[w] # None
                   THEN "due" ELSE "idle"]
        BY <2>5 DEF Advance
      <4>2. ~(pending'[w] # 0 /\ pending'[w] >= Every)
        BY <2>0, <3>2, <4>1 DEF Typed
      <4>3. pending'[w] \in Nat
        BY TypedStep, <2>0 DEF Typed
      <4> QED BY <2>0, <4>2, <4>3
    <3>4. PICK n \in {base[w]} \cup Named(side) : count[w] <= n + pending[w]
      BY <3>1 DEF Uncounted
    <3>5. n \in Nat
      BY <2>0, NamedNat, <3>4
    <3>6. Lines(file) - n < Every
      BY <2>0, <3>1, <3>3, <3>4, <3>5
    <3> QED BY <3>1, <3>4, <3>6 DEF FewerThanEvery, Named
  <2> QED BY <2>1, <2>2, <2>3, <2>4, <2>5
<1> QED BY <1>1, <1>2, <1>3, PTL DEF Spec, EveryLines
-----------------------------------------------------------------------------
(* The stream below the sidecar. *)

\* Whatever a checkpointed writer, the writers beside it and a hand that cuts
\* the stream do in one step is a step of the abstract stream, or leaves it alone:
\* keeping a sidecar costs the stream nothing ChainLog promises.
THEOREM CheckpointedRefines == Spec => LogSpec
<1>1. Init => LogInit
  BY DEF Init
<1>2. [Next]_vars => [LogNext]_file
  <2> SUFFICES ASSUME [Next]_vars PROVE [LogNext]_file
    OBVIOUS
  <2>1. ASSUME NEW w \in Writers, Step(w) PROVE file' = file
    BY <2>1 DEF Step, Open, OpenFails, Resume, ResumeFails, Advance, AdvanceFails, Checkpoint,
                CheckpointFails, Close, CloseRecord, CloseFails, Crash
  <2>2. ASSUME NEW w \in Writers, NEW c \in Content,
               Write(w, c) \/ WriteFails(w, c) \/ CrashWriting(w, c)
        PROVE  LogNext
    BY <2>2 DEF Write, WriteFails, CrashWriting, LogNext
  <2>3. ASSUME NEW c \in Content, OtherWrites(c) PROVE LogNext
    BY <2>3 DEF OtherWrites, LogNext
  <2>4. CASE Shrink
    <3>1. PICK n \in 0..(Len(file) - 1) : file' = SubSeq(file, 1, n)
      BY <2>4 DEF Shrink, Prefix
    <3>2. file' \in {SubSeq(file, 1, k) : k \in 0..Len(file)}
      <4>1. n \in 0..Len(file)
        BY <3>1
      <4> QED BY <3>1, <4>1
    <3> QED BY <3>2 DEF LogNext, LosePower, PowerCuts
  <2>5. CASE ReadSidecar \/ ReadStream \/ UNCHANGED vars
    BY <2>5 DEF ReadSidecar, ReadStream, vars
  <2> QED BY <2>1, <2>2, <2>3, <2>4, <2>5 DEF Next
<1> QED BY <1>1, <1>2, PTL DEF Spec, LogSpec

\* So a stream with a sidecar gets no chain break either.
COROLLARY CheckpointedNeverBreaks == Spec => []NoBreaks
BY CheckpointedRefines, LogNeverBreaks, PTL
===============================================================================
