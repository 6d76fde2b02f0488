---------------------------- MODULE ChainLogProofs ----------------------------
(***************************************************************************)
(* The abstract stream of ChainLog never breaks.  Every operation keeps a   *)
(* prefix of the lines and puts at most one line behind it, so everything   *)
(* rests on Extended: a prefix with one more line is unbroken when that     *)
(* line agrees with the last event of the prefix.                           *)
(***************************************************************************)
EXTENDS ChainLog, SequenceTheorems, WellFoundedInduction, TLAPS

\* A line that carries a prev_hash carries the digest of the last event among
\* the first m lines of f, if that can be hashed.
Fits(f, m, w) ==
    (w.kind = "event" /\ w.prev # None) =>
        \A j \in 1..m : LastSolid(f, m, j) /\ Chainable(f[j]) => f[j].body = w.prev

Sound(f) == WellFormed(f) /\ Unbroken(f)
SoundLine(w) == w \in Line /\ (w.kind = "event" => w.body \in Content)

\* A break at line i is a matter of the lines up to i only.
LEMMA BreakLocal ==
    ASSUME NEW f, NEW g, NEW i \in Nat,
           \A k \in 1..(i - 1) : f[k] = g[k],
           f[i].kind = g[i].kind, f[i].prev = g[i].prev,
           IsBreak(g, i)
    PROVE  IsBreak(f, i)
<1>1. PICK j \in 1..(i - 1) :
          LastSolid(g, i - 1, j) /\ Chainable(g[j]) /\ g[j].body # g[i].prev
  BY DEF IsBreak
<1>2. f[j] = g[j]
  BY <1>1
<1>3. LastSolid(f, i - 1, j)
  <2>1. \A k \in (j + 1)..(i - 1) : f[k] = g[k]
    BY <1>1
  <2> QED BY <1>1, <1>2, <2>1 DEF LastSolid
<1> QED BY <1>1, <1>2, <1>3 DEF IsBreak

\* One line more behind the first m lines of f.
LEMMA Extended ==
    ASSUME NEW f, Sound(f), NEW m \in 0..Len(f), \A k \in 1..m : f[k].nl,
           NEW g \in Seq(Line), Len(g) = m + 1, \A k \in 1..m : g[k] = f[k],
           SoundLine(g[m + 1]), Fits(f, m, g[m + 1])
    PROVE  Sound(g)
<1>0. Len(f) \in Nat /\ m \in Nat /\ m <= Len(f)
  BY LenProperties DEF Sound, WellFormed
<1>1. WellFormed(g)
  BY <1>0 DEF Sound, WellFormed, SoundLine
<1>2. ASSUME NEW i \in 1..Len(g), IsBreak(g, i)
      PROVE  FALSE
  <2>1. CASE i <= m
    <3>1. i \in Nat /\ i \in 1..Len(f) /\ i \in 1..m
      BY <2>1, <1>0
    <3>2. f[i] = g[i] /\ \A k \in 1..(i - 1) : f[k] = g[k]
      BY <3>1, <1>0, <2>1
    <3>3. IsBreak(f, i)
      BY <3>1, <3>2, <1>2, BreakLocal
    <3> QED BY <3>1, <3>3 DEF Sound, Unbroken
  <2>2. CASE i = m + 1
    <3>1. PICK j \in 1..m :
              LastSolid(g, m, j) /\ Chainable(g[j]) /\ g[j].body # g[m + 1].prev
      BY <2>2, <1>2, <1>0 DEF IsBreak
    <3>2. f[j] = g[j] /\ \A k \in (j + 1)..m : f[k] = g[k]
      BY <3>1, <1>0
    <3>3. LastSolid(f, m, j)
      BY <3>1, <3>2 DEF LastSolid
    <3>4. g[m + 1].kind = "event" /\ g[m + 1].prev # None
      BY <2>2, <1>2 DEF IsBreak
    <3> QED BY <3>1, <3>2, <3>3, <3>4 DEF Fits
  <2> QED BY <1>2, <1>0, <2>1, <2>2
<1> QED BY <1>1, <1>2 DEF Sound, Unbroken

\* A prefix of a sound stream is sound.
LEMMA Shortened ==
    ASSUME NEW f, Sound(f), NEW m \in 0..Len(f)
    PROVE  Sound(SubSeq(f, 1, m))
<1> DEFINE g == SubSeq(f, 1, m)
<1>0. Len(f) \in Nat /\ m \in Nat /\ m <= Len(f) /\ f \in Seq(Line)
  BY LenProperties DEF Sound, WellFormed
<1>1. \A i \in 1..m : f[i] \in Line
  BY <1>0, ElementOfSeq
<1>2. g \in Seq(Line) /\ Len(g) = m /\ \A i \in 1..m : g[i] = f[i]
  BY <1>0, <1>1, SubSeqProperties
<1> HIDE DEF g
<1>3. WellFormed(g)
  BY <1>0, <1>2 DEF Sound, WellFormed
<1>4. ASSUME NEW i \in 1..Len(g), IsBreak(g, i)
      PROVE  FALSE
  <2>1. i \in Nat /\ i \in 1..Len(f) /\ f[i] = g[i] /\ \A k \in 1..(i - 1) : f[k] = g[k]
    BY <1>0, <1>2
  <2>2. IsBreak(f, i)
    BY <2>1, <1>4, BreakLocal
  <2> QED BY <2>1, <2>2 DEF Sound, Unbroken
<1>5. Sound(g)
  BY <1>3, <1>4 DEF Sound, Unbroken
<1> QED BY <1>5 DEF g

\* The digest an append takes from the tail is that of the last event.
LEMMA TailHashOf ==
    ASSUME NEW f, WellFormed(f)
    PROVE  /\ TailHash(f) \in Hash
           /\ \A j \in 1..Len(f) :
                 LastSolid(f, Len(f), j) /\ Chainable(f[j]) => TailHash(f) = f[j].body
<1> DEFINE n == Len(f)
           j0 == CHOOSE j \in 1..n : LastSolid(f, n, j)
<1>0. n \in Nat
  BY LenProperties DEF WellFormed
<1>1. ASSUME NEW i \in 1..n, NEW j \in 1..n, LastSolid(f, n, i), LastSolid(f, n, j)
      PROVE  i = j
  BY <1>0, <1>1 DEF LastSolid
<1>2. ASSUME NEW j \in 1..n, LastSolid(f, n, j)
      PROVE  j0 = j
  <2>1. j0 \in 1..n /\ LastSolid(f, n, j0)
    BY <1>2
  <2> QED BY <1>1, <1>2, <2>1
<1>3. ASSUME NEW j \in 1..n, LastSolid(f, n, j), Chainable(f[j])
      PROVE  TailHash(f) = f[j].body
  BY <1>2, <1>3 DEF TailHash
<1>4. TailHash(f) \in Hash
  <2>1. CASE \E j \in 1..n : LastSolid(f, n, j) /\ Chainable(f[j])
    <3>1. PICK j \in 1..n : LastSolid(f, n, j) /\ Chainable(f[j])
      BY <2>1
    <3>2. f[j].body \in Content
      BY <3>1, ConstantsAssumption DEF Chainable
    <3> QED BY <3>1, <3>2, <1>3 DEF Hash
  <2>2. CASE ~ \E j \in 1..n : LastSolid(f, n, j) /\ Chainable(f[j])
    BY <2>2 DEF TailHash, Hash
  <2> QED BY <2>1, <2>2
<1> QED BY <1>3, <1>4

\* Putting a line on the end that fits the whole stream.
LEMMA PutSound ==
    ASSUME NEW f, Sound(f), NEW w, SoundLine(w), Fits(f, Len(f), w)
    PROVE  Sound(Put(f, w))
<1> DEFINE n == Len(f)
<1>0. n \in Nat /\ f \in Seq(Line) /\ w \in Line
  BY LenProperties DEF Sound, WellFormed, SoundLine
<1>1. CASE EndsNewline(f)
  <2> DEFINE g == Append(f, w)
  <2>1. g \in Seq(Line) /\ Len(g) = n + 1 /\ g[n + 1] = w /\ \A k \in 1..n : g[k] = f[k]
    BY <1>0, AppendProperties
  <2>2. \A k \in 1..n : f[k].nl
    BY <1>0, <1>1 DEF EndsNewline, Sound, WellFormed
  <2>3. Put(f, w) = g
    BY <1>1 DEF Put
  <2> HIDE DEF g
  <2>4. n \in 0..Len(f)
    BY <1>0
  <2>5. Sound(g)
    BY <2>1, <2>2, <2>4, Extended, Zenon
  <2> QED BY <2>3, <2>5
<1>2. CASE ~EndsNewline(f)
  <2>1. n \in 1..Len(f) /\ n - 1 \in 0..Len(f) /\ n - 1 + 1 = n
    BY <1>0, <1>2 DEF EndsNewline
  <2> DEFINE v == IF f[n].kind = "blank" THEN w ELSE [Fragment EXCEPT !.nl = w.nl]
             g == [f EXCEPT ![n] = v]
  <2>2. SoundLine(v)
    BY <1>0 DEF SoundLine, Line, Fragment, Hash
  <2>3. /\ g \in Seq(Line) /\ Len(g) = (n - 1) + 1 /\ g[(n - 1) + 1] = v
        /\ \A k \in 1..(n - 1) : g[k] = f[k]
    <3>1. v \in Line
      BY <2>2 DEF SoundLine
    <3> HIDE DEF v
    <3>2. /\ g \in Seq(Line) /\ Len(g) = n
          /\ \A k \in 1..n : g[k] = IF k = n THEN v ELSE f[k]
      BY <1>0, <2>1, <3>1, ExceptSeq
    <3> HIDE DEF g
    <3>3. Len(g) = (n - 1) + 1 /\ g[(n - 1) + 1] = v
      BY <1>0, <2>1, <3>2
    <3>4. ASSUME NEW k \in 1..(n - 1)
          PROVE  g[k] = f[k]
      BY <1>0, <3>2
    <3> QED BY <3>2, <3>3, <3>4
  <2>4. Fits(f, n - 1, v)
    <3>1. CASE f[n].kind = "blank"
      <4>1. v = w
        BY <3>1
      <4>2. ASSUME NEW j \in 1..(n - 1), LastSolid(f, n - 1, j)
            PROVE  LastSolid(f, n, j)
        BY <1>0, <3>1, <4>2 DEF LastSolid
      <4> HIDE DEF v
      <4> QED BY <1>0, <4>1, <4>2 DEF Fits
    <3>2. CASE f[n].kind # "blank"
      BY <3>2 DEF Fits, Fragment
    <3> QED BY <3>1, <3>2
  <2>5. Put(f, w) = g
    BY <1>2 DEF Put
  <2>6. \A k \in 1..(n - 1) : f[k].nl
    BY DEF Sound, WellFormed
  <2> HIDE DEF g, v
  <2>7. SoundLine(g[(n - 1) + 1]) /\ Fits(f, n - 1, g[(n - 1) + 1])
    BY <2>2, <2>3, <2>4
  <2>8. Sound(g)
    BY <2>1, <2>3, <2>6, <2>7, Extended, Zenon
  <2> QED BY <2>5, <2>8
<1> QED BY <1>1, <1>2

\* A line with no prev_hash fits anywhere.
LEMMA HeadFits ==
    ASSUME NEW f, NEW m, NEW w, w.kind # "event" \/ w.prev = None
    PROVE  Fits(f, m, w)
BY DEF Fits

\* Ending the last line changes neither the chain nor what is chained from.
LEMMA NewLineSound ==
    ASSUME NEW f, Sound(f), ~EndsNewline(f)
    PROVE  /\ Sound(NewLine(f))
           /\ \A w : Fits(f, Len(f), w) => Fits(NewLine(f), Len(NewLine(f)), w)
<1> DEFINE n == Len(f)
           v == [f[n] EXCEPT !.nl = TRUE]
           g == [f EXCEPT ![n] = v]
<1>0. n \in Nat /\ f \in Seq(Line) /\ n \in 1..Len(f) /\ n - 1 \in 0..Len(f)
  BY LenProperties DEF Sound, WellFormed, EndsNewline
<1>1. f[n] \in Line
  BY <1>0, ElementOfSeq
<1>2. v \in Line /\ v.kind = f[n].kind /\ v.body = f[n].body /\ v.prev = f[n].prev
  BY <1>1 DEF Line
<1>3. NewLine(f) = g
  BY <1>0 DEF NewLine, EndsNewline
<1> HIDE DEF v
<1>4. /\ g \in Seq(Line) /\ Len(g) = n
      /\ \A k \in 1..n : g[k] = IF k = n THEN v ELSE f[k]
  BY <1>0, <1>2, ExceptSeq
<1> HIDE DEF g
<1>5. WellFormed(g)
  BY <1>0, <1>2, <1>4 DEF Sound, WellFormed
<1>6. ASSUME NEW i \in 1..Len(g), IsBreak(g, i)
      PROVE  FALSE
  <2>1. i \in Nat /\ i \in 1..n /\ \A k \in 1..(i - 1) : f[k] = g[k]
    BY <1>0, <1>4
  <2>2. f[i].kind = g[i].kind /\ f[i].prev = g[i].prev
    BY <1>2, <1>4, <2>1
  <2>3. IsBreak(f, i)
    BY <2>1, <2>2, <1>6, BreakLocal
  <2> QED BY <2>1, <2>3 DEF Sound, Unbroken
<1>7. ASSUME NEW w, Fits(f, n, w)
      PROVE  Fits(g, n, w)
  <2>1. \A j \in 1..n : /\ g[j].kind = f[j].kind /\ g[j].body = f[j].body
    BY <1>0, <1>2, <1>4
  <2>2. ASSUME NEW j \in 1..n, LastSolid(g, n, j)
        PROVE  LastSolid(f, n, j)
    BY <1>0, <2>1, <2>2 DEF LastSolid
  <2> QED BY <1>7, <2>1, <2>2 DEF Fits, Chainable
<1> QED BY <1>3, <1>4, <1>5, <1>6, <1>7 DEF Sound, Unbroken

\* A writer's line, preceded by a newline only where the last line lacks one.
LEMMA PutLineSound ==
    ASSUME NEW f, Sound(f), NEW lead \in BOOLEAN, lead => ~EndsNewline(f),
           NEW w, SoundLine(w), Fits(f, Len(f), w)
    PROVE  Sound(PutLine(f, lead, w))
<1>1. CASE lead
  BY <1>1, NewLineSound, PutSound DEF PutLine
<1>2. CASE ~lead
  BY <1>2, PutSound DEF PutLine
<1> QED BY <1>1, <1>2

\* The same of whatever a failed write leaves.
LEMMA ShortWriteSound ==
    ASSUME NEW f, Sound(f), NEW lead \in BOOLEAN, lead => ~EndsNewline(f),
           NEW w, SoundLine(w), Fits(f, Len(f), w),
           NEW g \in ShortWrites(f, lead, w)
    PROVE  Sound(g)
<1> DEFINE v == [w EXCEPT !.nl = FALSE]
<1>1. SoundLine(Fragment) /\ Fits(f, Len(f), Fragment)
  BY DEF SoundLine, Fits, Fragment, Line, Hash
<1>2. SoundLine(v) /\ Fits(f, Len(f), v)
  BY DEF SoundLine, Fits, Line
<1> HIDE DEF v
<1>3. g \in {f, IF lead THEN NewLine(f) ELSE f, PutLine(f, lead, Fragment), PutLine(f, lead, v)}
  BY DEF ShortWrites, v
<1> QED BY <1>1, <1>2, <1>3, NewLineSound, PutLineSound

\* A host that loses power leaves a sound stream.
LEMMA PowerCutSound ==
    ASSUME NEW f, Sound(f), NEW g \in PowerCuts(f)
    PROVE  Sound(g)
<1>0. Len(f) \in Nat /\ f \in Seq(Line)
  BY LenProperties DEF Sound, WellFormed
<1>1. CASE \E k \in 0..Len(f) : g = SubSeq(f, 1, k)
  BY <1>1, Shortened
<1>2. ASSUME NEW k \in 1..Len(f), NEW w, w \in Line,
             w.kind = "event" => w.kind = f[k].kind /\ w.prev = f[k].prev /\ w.body = f[k].body,
             g = Append(SubSeq(f, 1, k - 1), w)
      PROVE  Sound(g)
  <2> DEFINE m == k - 1
             p == SubSeq(f, 1, m)
  <2>1. m \in 0..Len(f) /\ m + 1 = k
    BY <1>0
  <2>2. \A i \in 1..m : f[i] \in Line
    BY <1>0, <2>1, ElementOfSeq
  <2>3. p \in Seq(Line) /\ Len(p) = m /\ \A i \in 1..m : p[i] = f[i]
    BY <2>1, <2>2, SubSeqProperties
  <2>4. g = Append(p, w)
    BY <1>2
  <2> HIDE DEF p
  <2>5. g \in Seq(Line) /\ Len(g) = m + 1 /\ g[m + 1] = w /\ \A i \in 1..m : g[i] = f[i]
    BY <2>3, <2>4, <1>2, <2>1, AppendProperties
  <2>6. SoundLine(w)
    BY <1>2, <1>0 DEF SoundLine, Sound, WellFormed
  <2>7. Fits(f, m, w)
    BY <1>2, <2>1 DEF Fits, Sound, Unbroken, IsBreak
  <2>8. \A i \in 1..m : f[i].nl
    BY <1>0, <2>1 DEF Sound, WellFormed
  <2> HIDE DEF m
  <2> QED BY <2>1, <2>5, <2>6, <2>7, <2>8, Extended, Zenon
<1>3. CASE \E k \in 1..Len(f) : g = Append(SubSeq(f, 1, k - 1), [f[k] EXCEPT !.nl = FALSE])
  <2>1. PICK k \in 1..Len(f) : g = Append(SubSeq(f, 1, k - 1), [f[k] EXCEPT !.nl = FALSE])
    BY <1>3
  <2>2. f[k] \in Line
    BY <1>0, ElementOfSeq
  <2> DEFINE w == [f[k] EXCEPT !.nl = FALSE]
  <2>3. w \in Line /\ w.kind = f[k].kind /\ w.prev = f[k].prev /\ w.body = f[k].body
    BY <2>2 DEF Line
  <2> HIDE DEF w
  <2>4. g = Append(SubSeq(f, 1, k - 1), w)
    BY <2>1 DEF w
  <2> QED BY <2>3, <2>4, <1>2
<1>4. CASE \E k \in 1..Len(f) : g = Append(SubSeq(f, 1, k - 1), Fragment)
  <2>1. Fragment \in Line /\ Fragment.kind # "event"
    BY DEF Fragment, Line, Hash
  <2> QED BY <1>4, <2>1, <1>2
<1> QED BY <1>1, <1>3, <1>4 DEF PowerCuts

-----------------------------------------------------------------------------
\* What a writer is about to put on an unbroken stream.
LEMMA EventSound ==
    ASSUME NEW f, Sound(f), NEW c \in Content
    PROVE  /\ SoundLine(Event(c, TailHash(f))) /\ Fits(f, Len(f), Event(c, TailHash(f)))
           /\ SoundLine(Event(c, None)) /\ Fits(f, Len(f), Event(c, None))
<1>1. /\ TailHash(f) \in Hash
      /\ \A j \in 1..Len(f) :
            LastSolid(f, Len(f), j) /\ Chainable(f[j]) => TailHash(f) = f[j].body
  BY TailHashOf DEF Sound
<1>2. c \in Hash /\ None \in Hash
  BY DEF Hash
<1> QED BY <1>1, <1>2 DEF SoundLine, Fits, Event, Line

\* No operation of the abstract stream breaks it.
LEMMA LogStep ==
    ASSUME Sound(file), [LogNext]_file
    PROVE  Sound(file')
<1>0. EndsNewline(file) \in BOOLEAN
  <2>1. file \in Seq(Line) /\ Len(file) \in Nat
    BY LenProperties DEF Sound, WellFormed
  <2>2. CASE Len(file) = 0
    BY <2>2 DEF EndsNewline
  <2>3. CASE Len(file) # 0
    <3>1. file[Len(file)] \in Line
      BY <2>1, <2>3, ElementOfSeq
    <3> QED BY <3>1 DEF EndsNewline, Line
  <2> QED BY <2>2, <2>3
<1>1. ASSUME NEW c \in Content, ChainedAppend(c)
      PROVE  Sound(file')
  BY <1>0, <1>1, EventSound, PutLineSound DEF ChainedAppend
<1>2. ASSUME NEW c \in Content, ChainedAppendFails(c)
      PROVE  Sound(file')
  BY <1>0, <1>2, EventSound, ShortWriteSound DEF ChainedAppendFails
<1>3. ASSUME NEW c \in Content, PlainAppend(c)
      PROVE  Sound(file')
  BY <1>3, EventSound, PutLineSound DEF PlainAppend
<1>4. ASSUME NEW c \in Content, PlainAppendFails(c)
      PROVE  Sound(file')
  BY <1>4, EventSound, ShortWriteSound DEF PlainAppendFails
<1>5. CASE LosePower
  BY <1>5, PowerCutSound DEF LosePower
<1>6. CASE UNCHANGED file
  BY <1>6
<1> QED BY <1>1, <1>2, <1>3, <1>4, <1>5, <1>6 DEF LogNext

\* A stream written by one-step appends alone, torn, glued and cut short as it
\* may be, never gets a line that VerifyChain calls a break.
THEOREM LogNeverBreaks == LogSpec => []NoBreaks
<1>1. LogInit => Sound(file)
  BY ConstantsAssumption DEF LogInit, Sound
<1>2. Sound(file) /\ [LogNext]_file => Sound(file)'
  BY LogStep DEF Sound, WellFormed, Unbroken, IsBreak, LastSolid
<1>3. Sound(file) => NoBreaks
  BY DEF Sound, NoBreaks
<1> QED BY <1>1, <1>2, <1>3, PTL DEF LogSpec
-----------------------------------------------------------------------------
(* What is on disk, newline and all, is never rewritten. *)

\* The terminated lines of f are lines of g.
Keeps(f, g) == \A i \in 1..Len(f) : f[i].nl => i \in 1..Len(g) /\ g[i] = f[i]

LEMMA PutKeeps ==
    ASSUME NEW f, WellFormed(f), NEW w \in Line
    PROVE  Keeps(f, Put(f, w))
<1> DEFINE n == Len(f)
<1>0. n \in Nat /\ f \in Seq(Line)
  BY LenProperties DEF WellFormed
<1>1. CASE EndsNewline(f)
  <2>1. /\ Append(f, w) \in Seq(Line) /\ Len(Append(f, w)) = n + 1
        /\ \A k \in 1..n : Append(f, w)[k] = f[k]
    BY <1>0, AppendProperties
  <2> QED BY <1>0, <1>1, <2>1 DEF Put, Keeps
<1>2. CASE ~EndsNewline(f)
  <2>1. n \in 1..Len(f) /\ ~f[n].nl
    BY <1>0, <1>2 DEF EndsNewline
  <2> DEFINE v == IF f[n].kind = "blank" THEN w ELSE [Fragment EXCEPT !.nl = w.nl]
             g == [f EXCEPT ![n] = v]
  <2>2. v \in Line
    BY DEF Line, Fragment, Hash
  <2> HIDE DEF v
  <2>3. Len(g) = n /\ \A k \in 1..n : g[k] = IF k = n THEN v ELSE f[k]
    BY <1>0, <2>1, <2>2, ExceptSeq
  <2>4. Put(f, w) = g
    BY <1>2 DEF Put, v
  <2> HIDE DEF g
  <2> QED BY <1>0, <2>1, <2>3, <2>4 DEF Keeps
<1> QED BY <1>1, <1>2

LEMMA NewLineKeeps ==
    ASSUME NEW f, WellFormed(f), ~EndsNewline(f)
    PROVE  Keeps(f, NewLine(f)) /\ WellFormed(NewLine(f)) /\ EndsNewline(NewLine(f))
           /\ Len(NewLine(f)) = Len(f)
<1> DEFINE n == Len(f)
           v == [f[n] EXCEPT !.nl = TRUE]
           g == [f EXCEPT ![n] = v]
<1>0. n \in Nat /\ f \in Seq(Line) /\ n \in 1..Len(f) /\ ~f[n].nl
  BY LenProperties DEF WellFormed, EndsNewline
<1>1. v \in Line /\ v.nl /\ v.kind = f[n].kind /\ v.body = f[n].body
  <2>1. f[n] \in Line
    BY <1>0, ElementOfSeq
  <2> QED BY <2>1 DEF Line
<1>2. NewLine(f) = g
  BY <1>0 DEF NewLine, EndsNewline
<1> HIDE DEF v
<1>3. g \in Seq(Line) /\ Len(g) = n /\ \A k \in 1..n : g[k] = IF k = n THEN v ELSE f[k]
  BY <1>0, <1>1, ExceptSeq
<1> HIDE DEF g
<1>4. WellFormed(g)
  BY <1>0, <1>1, <1>3 DEF WellFormed
<1> QED BY <1>0, <1>1, <1>2, <1>3, <1>4 DEF Keeps, EndsNewline

\* An append keeps the terminated lines, led by a newline or not.
LEMMA PutLineKeeps ==
    ASSUME NEW f, WellFormed(f), NEW lead \in BOOLEAN, lead => ~EndsNewline(f),
           NEW w \in Line
    PROVE  Keeps(f, PutLine(f, lead, w))
<1>1. CASE lead
  <2>1. /\ Keeps(f, NewLine(f)) /\ WellFormed(NewLine(f)) /\ Len(NewLine(f)) = Len(f)
        /\ EndsNewline(NewLine(f))
    BY <1>1, NewLineKeeps
  <2>2. Keeps(NewLine(f), Put(NewLine(f), w))
    BY <2>1, PutKeeps
  <2>3. Len(f) \in Nat
    BY LenProperties DEF WellFormed
  <2>4. ASSUME NEW i \in 1..Len(f), f[i].nl
        PROVE  i \in 1..Len(Put(NewLine(f), w)) /\ Put(NewLine(f), w)[i] = f[i]
    <3>1. NewLine(f)[i] = f[i] /\ i \in 1..Len(NewLine(f))
      BY <2>1, <2>4 DEF Keeps
    <3> QED BY <3>1, <2>2, <2>4 DEF Keeps
  <2> QED BY <1>1, <2>4 DEF Keeps, PutLine
<1>2. CASE ~lead
  BY <1>2, PutKeeps DEF PutLine
<1> QED BY <1>1, <1>2

LEMMA ShortWriteKeeps ==
    ASSUME NEW f, WellFormed(f), NEW lead \in BOOLEAN, lead => ~EndsNewline(f),
           NEW w \in Line, NEW g \in ShortWrites(f, lead, w)
    PROVE  Keeps(f, g)
<1>1. Keeps(f, f)
  BY DEF Keeps
<1>2. Fragment \in Line /\ [w EXCEPT !.nl = FALSE] \in Line
  BY DEF Fragment, Line, Hash
<1>3. CASE g = PutLine(f, lead, Fragment)
  BY <1>2, <1>3, PutLineKeeps
<1>4. CASE g = PutLine(f, lead, [w EXCEPT !.nl = FALSE])
  BY <1>2, <1>4, PutLineKeeps
<1>5. CASE g = f \/ g = IF lead THEN NewLine(f) ELSE f
  BY <1>1, <1>5, NewLineKeeps
<1> QED BY <1>3, <1>4, <1>5 DEF ShortWrites

\* A write led by a newline exactly where one is missing lands on a line of
\* its own, the last one.
LEMMA PutLineLands ==
    ASSUME NEW f, WellFormed(f), NEW lead, lead = ~EndsNewline(f), NEW w \in Line
    PROVE  LET g == PutLine(f, lead, w) IN Len(g) \in 1..Len(g) /\ g[Len(g)] = w
<1>1. PICK e : e = (IF lead THEN NewLine(f) ELSE f)
  OBVIOUS
<1>2. WellFormed(e) /\ EndsNewline(e)
  BY <1>1, NewLineKeeps
<1>3. PutLine(f, lead, w) = Append(e, w)
  BY <1>1, <1>2 DEF PutLine, Put
<1>4. e \in Seq(Line) /\ Len(e) \in Nat
  BY <1>2, LenProperties DEF WellFormed
<1>5. Len(Append(e, w)) = Len(e) + 1 /\ Append(e, w)[Len(e) + 1] = w
  BY <1>4, AppendProperties
<1> QED BY <1>3, <1>4, <1>5

\* A writer leaves a well-formed stream, be the chain in it broken or not.
LEMMA PutFormed ==
    ASSUME NEW f, WellFormed(f), NEW w, SoundLine(w)
    PROVE  WellFormed(Put(f, w))
<1> DEFINE n == Len(f)
<1>0. n \in Nat /\ f \in Seq(Line) /\ w \in Line
  BY LenProperties DEF WellFormed, SoundLine
<1>1. CASE EndsNewline(f)
  <2> DEFINE g == Append(f, w)
  <2>1. g \in Seq(Line) /\ Len(g) = n + 1 /\ g[n + 1] = w /\ \A k \in 1..n : g[k] = f[k]
    BY <1>0, AppendProperties
  <2>2. \A k \in 1..n : f[k].nl
    BY <1>0, <1>1 DEF EndsNewline, WellFormed
  <2>3. Put(f, w) = g
    BY <1>1 DEF Put
  <2> HIDE DEF g
  <2>4. \A k \in 1..(n + 1) : k = n + 1 \/ k \in 1..n
    BY <1>0
  <2>5. Len(g) - 1 = n
    BY <1>0, <2>1
  <2> QED BY <2>1, <2>2, <2>3, <2>4, <2>5 DEF WellFormed, SoundLine
<1>2. CASE ~EndsNewline(f)
  <2> DEFINE v == IF f[n].kind = "blank" THEN w ELSE [Fragment EXCEPT !.nl = w.nl]
             g == [f EXCEPT ![n] = v]
  <2>1. n \in 1..Len(f)
    BY <1>0, <1>2 DEF EndsNewline
  <2>2. v \in Line /\ (v.kind = "event" => v.body \in Content)
    BY <1>0 DEF SoundLine, Line, Fragment, Hash
  <2> HIDE DEF v
  <2>3. g \in Seq(Line) /\ Len(g) = n /\ \A k \in 1..n : g[k] = IF k = n THEN v ELSE f[k]
    BY <1>0, <2>1, <2>2, ExceptSeq
  <2>4. Put(f, w) = g
    BY <1>2 DEF Put, v
  <2> HIDE DEF g
  <2> QED BY <1>0, <2>2, <2>3, <2>4 DEF WellFormed
<1> QED BY <1>1, <1>2

LEMMA PutLineFormed ==
    ASSUME NEW f, WellFormed(f), NEW lead \in BOOLEAN, lead => ~EndsNewline(f),
           NEW w, SoundLine(w)
    PROVE  WellFormed(PutLine(f, lead, w))
BY PutFormed, NewLineKeeps DEF PutLine

LEMMA ShortWriteFormed ==
    ASSUME NEW f, WellFormed(f), NEW lead \in BOOLEAN, lead => ~EndsNewline(f),
           NEW w, SoundLine(w), NEW g \in ShortWrites(f, lead, w)
    PROVE  WellFormed(g)
<1>1. SoundLine(Fragment) /\ SoundLine([w EXCEPT !.nl = FALSE])
  BY DEF SoundLine, Fragment, Line, Hash
<1>2. CASE g = PutLine(f, lead, Fragment) \/ g = PutLine(f, lead, [w EXCEPT !.nl = FALSE])
  BY <1>1, <1>2, PutLineFormed
<1>3. CASE g = f \/ g = IF lead THEN NewLine(f) ELSE f
  BY <1>3, NewLineKeeps
<1> QED BY <1>2, <1>3 DEF ShortWrites

\* A write, whole or not, only adds to the stream.
LEMMA AppendKeeps ==
    ASSUME WellFormed(file), NEW c \in Content,
           \/ ChainedAppend(c) \/ ChainedAppendFails(c) \/ PlainAppend(c) \/ PlainAppendFails(c)
    PROVE  WellFormed(file') /\ Keeps(file, file')
<1> DEFINE lead == ~EndsNewline(file)
           e == Event(c, TailHash(file))
           p == Event(c, None)
<1>2. SoundLine(e) /\ SoundLine(p) /\ e \in Line /\ p \in Line
  <2>1. TailHash(file) \in Hash
    BY TailHashOf
  <2> QED BY <2>1 DEF SoundLine, Event, Line, Hash
<1>3. lead \in BOOLEAN /\ (lead => ~EndsNewline(file))
  <2>1. Len(file) = 0 \/ file[Len(file)] \in Line
    BY LenProperties, ElementOfSeq DEF WellFormed
  <2> QED BY <2>1 DEF EndsNewline, Line
<1> HIDE DEF lead, e, p
<1>4. CASE ChainedAppend(c)
  <2>1. file' = PutLine(file, lead, e)
    BY <1>4 DEF ChainedAppend, lead, e
  <2> QED BY <1>2, <1>3, <2>1, PutLineFormed, PutLineKeeps
<1>5. CASE ChainedAppendFails(c)
  <2>1. file' \in ShortWrites(file, lead, e)
    BY <1>5 DEF ChainedAppendFails, lead, e
  <2> QED BY <1>2, <1>3, <2>1, ShortWriteFormed, ShortWriteKeeps
<1>6. CASE PlainAppend(c)
  <2>1. file' = PutLine(file, FALSE, p)
    BY <1>6 DEF PlainAppend, p
  <2> QED BY <1>2, <2>1, PutLineFormed, PutLineKeeps
<1>7. CASE PlainAppendFails(c)
  <2>1. file' \in ShortWrites(file, FALSE, p)
    BY <1>7 DEF PlainAppendFails, p
  <2> QED BY <1>2, <2>1, ShortWriteFormed, ShortWriteKeeps
<1> QED BY <1>4, <1>5, <1>6, <1>7
-----------------------------------------------------------------------------
(* Natural numbers. *)

\* Every set of natural numbers has a least one.
LEMMA Least ==
    ASSUME NEW T, T \subseteq Nat, T # {}
    PROVE  \E x \in T : \A y \in T : x <= y
<1> DEFINE R == {p \in Nat \X Nat : p[1] < p[2]}
<1>1. IsWellFoundedOn(R, Nat)
  BY NatLessThanWellFounded DEF OpToRel
<1> HIDE DEF R
<1>2. PICK x \in T : \A y \in T : ~(<<y, x>> \in R)
  BY <1>1, WFMin, Zenon
<1>3. \A y \in T : ~(y < x)
  BY <1>2 DEF R
<1> QED BY <1>3
===============================================================================
