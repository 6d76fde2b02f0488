---------------------------- MODULE WatchDirProofs ----------------------------
(***************************************************************************)
(* For any number of passes at once, with crashes, failing writes and saves *)
(* anywhere: nothing is remembered as reported whose alert is not on the    *)
(* bus, and no restart is called unexplained while the record that names    *)
(* the line before it stands in a sidecar that can be read.                 *)
(*                                                                          *)
(* For one pass after another: no alert is written twice but for a crash, a *)
(* save that failed or a Write that failed with the line on the bus, the    *)
(* state file is never half of one, and a pass that exits 0 or 1 saved all  *)
(* it found.                                                                *)
(***************************************************************************)
EXTENDS WatchDir, TLAPS, FiniteSetTheorems, SequenceTheorems

-----------------------------------------------------------------------------
(* Recorded is on the bus.  The invariant follows the keys through every     *)
(* place they are kept: the state file, its sibling and the memory of each   *)
(* pass, where only Alert adds a key that is an alert's, and adds it to the  *)
(* bus too.                                                                  *)

\* ks are refusals and keys of alerts on b.
Kept(ks, b) == \A k \in ks : k[2] # "checkpoint_refused" => k \in b

IInv ==
    /\ DOMAIN mem = Watchers /\ DOMAIN refused = Watchers
    /\ Kept(state.keys, onBus) /\ Kept(tmp.keys, onBus)
    /\ \A w \in Watchers : Kept(mem[w], onBus)
    /\ \A w \in Watchers : \A k \in refused[w] : k[2] = "checkpoint_refused"

LEMMA Forgetting ==
    ASSUME IInv, NEW w \in Watchers, Leave(w), UNCHANGED <<state, tmp, onBus>>
    PROVE  IInv'
BY DEF IInv, Kept, Leave

LEMMA Walking ==
    ASSUME IInv, NEW w \in Watchers, Load(w) \/ CheckStream(w) \/ Refuse(w)
    PROVE  IInv'
<1>1. CASE Load(w)
  BY <1>1 DEF IInv, Kept, Load, disk, alerts
<1>2. CASE CheckStream(w)
  <2>1. PICK named, wrong : Collect(w, named, wrong)
    BY <1>2 DEF CheckStream
  <2> DEFINE ref == {Key(cur[w], "checkpoint_refused", i) : i \in wrong}
  <2>2. /\ refused' = [refused EXCEPT ![w] = refused[w] \cup {k \in ref : New(w, k)}]
        /\ \A k \in ref : k[2] = "checkpoint_refused"
    <3>1. \A i : Key(cur[w], "checkpoint_refused", i)[2] = "checkpoint_refused"
      BY DEF Key
    <3>2. \A k \in ref : k[2] = "checkpoint_refused"
      BY <3>1
    <3> QED BY <2>1, <3>2 DEF Collect
  <2> HIDE DEF ref
  <2>3. mem' = mem /\ state' = state /\ tmp' = tmp /\ onBus' = onBus
    BY <1>2 DEF CheckStream, disk, alerts
  <2>4. DOMAIN refused' = Watchers
        /\ \A v \in Watchers : \A k \in refused'[v] : k \in refused[v] \/ k \in ref
    BY <2>2 DEF IInv
  <2>5. \A v \in Watchers : \A k \in refused'[v] : k[2] = "checkpoint_refused"
    BY <2>2, <2>4 DEF IInv
  <2> QED BY <2>3, <2>4, <2>5 DEF IInv, Kept
<1>3. CASE Refuse(w)
  BY <1>3 DEF IInv, Kept, Refuse, disk, alerts, walk
<1> QED BY <1>1, <1>2, <1>3

LEMMA Saving ==
    ASSUME IInv, NEW w \in Watchers,
           SaveOpen(w) \/ SaveWrite(w) \/ SaveRename(w) \/ SaveFails(w)
    PROVE  IInv'
<1>1. mem' = mem /\ refused' = refused /\ onBus' = onBus
  BY DEF SaveOpen, SaveWrite, SaveRename, SaveFails, alerts, walk
<1>2. Torn.keys = {} /\ Absent.keys = {} /\ Whole(mem[w]).keys = mem[w]
  BY DEF Torn, Absent, Whole
<1>3. state' \in {state, tmp, Whole(mem[w])} /\ tmp' \in {tmp, Torn, Absent, Whole(mem[w])}
  BY DEF SaveOpen, SaveWrite, SaveRename, SaveFails
<1>4. Kept(state.keys, onBus)' /\ Kept(tmp.keys, onBus)'
  BY <1>1, <1>2, <1>3 DEF IInv, Kept
<1> QED BY <1>1, <1>4 DEF IInv

LEMMA Alerting ==
    ASSUME IInv, NEW w \in Watchers, NEW f \in found[w], Alert(w, f) \/ AlertFails(w, f)
    PROVE  IInv'
<1>1. CASE Alert(w, f)
  <2>1. /\ onBus' = onBus \cup {f.key}
        /\ mem' = [mem EXCEPT ![w] = @ \cup {f.key}]
        /\ state' = state /\ tmp' = tmp /\ refused' = refused
    BY <1>1 DEF Alert, Written, disk
  <2> QED BY <2>1 DEF IInv, Kept
<1>2. CASE AlertFails(w, f)
  <2>1. onBus \subseteq onBus' /\ UNCHANGED <<mem, state, tmp, refused>>
    BY <1>2 DEF AlertFails, Written, disk, alerts
  <2> QED BY <2>1 DEF IInv, Kept
<1> QED BY <1>1, <1>2

LEMMA Inductive == Spec => []IInv
<1>1. Init => IInv
  BY DEF Init, IInv, Kept, Absent
<1>2. IInv /\ [Next]_vars => IInv'
  <2> SUFFICES ASSUME IInv, [Next]_vars PROVE IInv'
    OBVIOUS
  <2>1. ASSUME NEW w \in Watchers, Proceed(w)
        PROVE  IInv'
    <3>1. CASE Load(w) \/ CheckStream(w) \/ Refuse(w)
      BY <3>1, Walking
    <3>2. CASE SaveOpen(w) \/ SaveWrite(w) \/ SaveRename(w)
      BY <3>2, Saving
    <3>3. CASE \E f \in found[w] : Alert(w, f)
      BY <3>3, Alerting
    <3>4. CASE Exit(w)
      BY <3>4, Forgetting DEF Exit, disk, alerts
    <3>5. CASE (\E s \in Streams : VerifyStream(w, s)) \/ OpenOutput(w) \/ CloseOutput(w)
      BY <3>5 DEF VerifyStream, OpenOutput, CloseOutput, disk, alerts, walk, IInv, Kept
    <3> QED BY <2>1, <3>1, <3>2, <3>3, <3>4, <3>5 DEF Proceed
  <2>2. ASSUME NEW w \in Watchers, Fail(w)
        PROVE  IInv'
    <3>1. CASE SaveFails(w)
      BY <3>1, Saving
    <3>2. CASE \E f \in found[w] : AlertFails(w, f)
      BY <3>2, Alerting
    <3>3. CASE OpenOutputFails(w) \/ Crash(w)
      BY <3>3, Forgetting DEF OpenOutputFails, Crash, disk, alerts
    <3>4. CASE LoadFails(w)
      BY <3>4 DEF LoadFails, disk, alerts, walk, IInv, Kept
    <3> QED BY <2>2, <3>1, <3>2, <3>3, <3>4 DEF Fail
  <2>3. CASE UNCHANGED <<disk, alerts, pc, mem, walk, code, bad, last, exit, faults, told, losses, blind>>
    BY <2>3 DEF disk, alerts, walk, IInv, Kept
  <2>4. CASE UNCHANGED vars
    BY <2>4 DEF vars, disk, alerts, walk, IInv, Kept
  <2> QED BY <2>1, <2>2, <2>3, <2>4 DEF Next
<1> QED BY <1>1, <1>2, PTL DEF Spec

\* What is remembered as reported is on the bus, whatever fails or crashes and
\* however many passes run at once.
THEOREM NothingLost == Spec => []RecordedIsOnTheBus
<1>1. IInv => RecordedIsOnTheBus
  <2> SUFFICES ASSUME IInv,
                      NEW k \in UNION ({state.keys, tmp.keys} \cup {mem[w] : w \in Watchers}),
                      k[2] # "checkpoint_refused"
               PROVE  k \in onBus
    BY DEF RecordedIsOnTheBus
  <2> QED BY DEF IInv, Kept
<1> QED BY <1>1, Inductive, PTL
-----------------------------------------------------------------------------
(* Types, for any number of passes. *)

Finding == [key : Keys, explained : BOOLEAN]
PCs == {"out", "walk", "sidecar", "open", "alert", "refuse", "save", "write", "rename", "exit"}

TypedBus ==
    /\ bus \in [Streams -> Content]
    /\ resumes \in [Streams -> SUBSET Nat]
    /\ refuted \in [Streams -> SUBSET Records]

TypedDisk ==
    /\ state \in File /\ tmp \in File
    /\ fd \in [Watchers -> {"none", "tmp", "state", "gone"}]
    /\ onBus \subseteq Keys /\ high \subseteq onBus /\ IsFiniteSet(onBus)
    /\ again \in Nat /\ losses \in Nat /\ faults \in 0..MaxFaults

TypedPass ==
    /\ pc \in [Watchers -> PCs]
    /\ mem \in [Watchers -> SUBSET Keys]
    /\ left \in [Watchers -> SUBSET Streams]
    /\ DOMAIN cur = Watchers
    /\ \A w \in Watchers : pc[w] = "sidecar" => cur[w] \in left[w]
    /\ verdict \in [Watchers -> Content]
    /\ found \in [Watchers -> SUBSET Finding]
    /\ refused \in [Watchers -> SUBSET Keys]
    /\ seen \in [Watchers -> SUBSET Keys]
    /\ code \in [Watchers -> {0, 2}]
    /\ bad \in [Watchers -> BOOLEAN]
    /\ last \in [Watchers -> BOOLEAN]
    /\ exit \in [Watchers -> {0, 1, 2, Killed}]

Typed == TypedBus /\ TypedDisk /\ TypedPass

\* What a read of the first n lines sees of c.
LEMMA PartFacts ==
    ASSUME NEW c \in Content, NEW n \in 0..Len(c)
    PROVE  /\ Part(c, n) \in Content
           /\ Len(Part(c, n)) = n
           /\ \A i \in 1..n : Part(c, n)[i] = c[i]
<1>1. Len(c) \in Nat /\ \A i \in 1..Len(c) : c[i] \in Kinds
  BY LenProperties, ElementOfSeq DEF Content
<1>2. \A i \in 1..n : c[i] \in Kinds
  BY <1>1
<1>3. /\ SubSeq(c, 1, n) \in Seq(Kinds)
      /\ Len(SubSeq(c, 1, n)) = IF 1 <= n THEN n - 1 + 1 ELSE 0
      /\ \A i \in 1..(n - 1 + 1) : SubSeq(c, 1, n)[i] = c[1 + i - 1]
  BY <1>1, <1>2, SubSeqProperties
<1> QED BY <1>1, <1>3 DEF Part, Content

LEMMA ContentFacts ==
    /\ << >> \in Content
    /\ \A c \in Content, k \in Kinds : Append(c, k) \in Content
    /\ \A c \in Contents : c \in Content
    /\ \A c \in Content : Len(c) \in Nat
BY WatchAssumption, AppendProperties, LenProperties, EmptySeq DEF Content

\* The lines Findings speaks of are lines.
LEMMA LineFacts ==
    ASSUME NEW c \in Content
    PROVE  /\ FirstBreak(c) \subseteq Nat /\ RestartLines(c) \subseteq Nat
           /\ \A b, k \in FirstBreak(c) : b = k
           /\ \A l \in Nat : \A a : LastBefore(c, l, a) => a \in 1..l /\ a < l
<1>1. Len(c) \in Nat /\ Events(c) \subseteq 1..Len(c)
  BY ContentFacts DEF Events
<1> QED BY <1>1 DEF FirstBreak, RestartLines, Breaks, Heads, LastBefore

LEMMA FindingKinds ==
    ASSUME NEW s, NEW v, NEW named, NEW f \in Findings(s, v, named)
    PROVE  \/ \E b \in FirstBreak(v) : f = [key |-> Key(s, "chain_broken", b), explained |-> FALSE]
           \/ f = [key |-> Key(s, "chain_unchained", 0), explained |-> FALSE]
           \/ \E l \in RestartLines(v) :
                 f = [key |-> Key(s, "chain_restarted", l), explained |-> Explained(v, l, named)]
BY DEF Findings

LEMMA FindingsFacts ==
    ASSUME NEW s \in Streams, NEW v \in Content, NEW named \in SUBSET Nat
    PROVE  /\ Findings(s, v, named) \subseteq Finding
           /\ \A f \in Findings(s, v, named) : f.key[1] = s
<1>1. \A l \in Nat, typ \in Types : Key(s, typ, l) \in Keys /\ Key(s, typ, l)[1] = s
  BY DEF Key, Keys
<1>2. FirstBreak(v) \subseteq Nat /\ RestartLines(v) \subseteq Nat
  BY LineFacts
<1>3. \A l \in RestartLines(v) : Explained(v, l, named) \in BOOLEAN
  BY DEF Explained
<1> DEFINE Of(typ, l, e) == [key |-> Key(s, typ, l), explained |-> e]
<1>4. \A typ \in Types, l \in Nat, e \in BOOLEAN : Of(typ, l, e) \in Finding /\ Of(typ, l, e).key[1] = s
  BY <1>1 DEF Finding
<1>5. ASSUME NEW f \in Findings(s, v, named)
      PROVE  \E typ \in Types, l \in Nat, e \in BOOLEAN : f = Of(typ, l, e)
  <2>1. \/ \E b \in FirstBreak(v) : f = Of("chain_broken", b, FALSE)
        \/ f = Of("chain_unchained", 0, FALSE)
        \/ \E l \in RestartLines(v) : f = Of("chain_restarted", l, Explained(v, l, named))
    BY FindingKinds
  <2>2. "chain_broken" \in Types /\ "chain_unchained" \in Types /\ "chain_restarted" \in Types
    BY DEF Types
  <2>3. FALSE \in BOOLEAN /\ 0 \in Nat
    OBVIOUS
  <2> QED BY <1>2, <1>3, <2>1, <2>2, <2>3
<1> HIDE DEF Of
<1> QED BY <1>4, <1>5

LEMMA TypedInit == Init => Typed
<1> SUFFICES ASSUME Init PROVE Typed
  OBVIOUS
<1>1. TypedBus
  BY ContentFacts DEF Init, TypedBus
<1>2. TypedDisk
  BY FS_EmptySet, WatchAssumption DEF Init, TypedDisk, File, Absent
<1>3. TypedPass
  BY ContentFacts DEF Init, TypedPass, PCs, Killed
<1> QED BY <1>1, <1>2, <1>3 DEF Typed

LEMMA TypedLeave ==
    ASSUME Typed, NEW w \in Watchers, Leave(w), exit' \in [Watchers -> {0, 1, 2, Killed}]
    PROVE  TypedPass'
<1>1. << >> \in Content
  BY ContentFacts
<1> QED BY <1>1 DEF Typed, TypedPass, Leave, PCs

LEMMA TypedWalk ==
    ASSUME Typed, NEW w \in Watchers, Load(w) \/ LoadFails(w) \/ \E s \in Streams : VerifyStream(w, s)
    PROVE  Typed'
<1>1. CASE Load(w)
  <2>1. TypedBus' /\ TypedDisk'
    BY <1>1 DEF Load, world, disk, alerts, Typed, TypedBus, TypedDisk
  <2>2. state.keys \in SUBSET Keys
    BY DEF Typed, TypedDisk, File
  <2>3. TypedPass'
    BY <1>1, <2>2 DEF Load, Typed, TypedPass, PCs
  <2> QED BY <2>1, <2>3 DEF Typed
<1>2. CASE LoadFails(w)
  <2>1. TypedBus' /\ TypedDisk'
    BY <1>2, WatchAssumption DEF LoadFails, Fault, world, disk, alerts, Typed, TypedBus, TypedDisk
  <2>2. TypedPass'
    BY <1>2 DEF LoadFails, walk, Typed, TypedPass
  <2> QED BY <2>1, <2>2 DEF Typed
<1>3. ASSUME NEW s \in Streams, VerifyStream(w, s) PROVE Typed'
  <2>1. TypedBus' /\ TypedDisk'
    BY <1>3, WatchAssumption DEF VerifyStream, Fault, world, disk, alerts, Typed, TypedBus, TypedDisk
  <2>2. bus[s] \in Content
    BY DEF Typed, TypedBus
  <2>3. verdict' \in [Watchers -> Content]
    <3>1. \E c \in Content : verdict' = [verdict EXCEPT ![w] = c]
      BY <1>3, <2>2, PartFacts DEF VerifyStream
    <3> QED BY <3>1 DEF Typed, TypedPass
  <2>4. code' \in [Watchers -> {0, 2}]
    BY <1>3 DEF VerifyStream, Typed, TypedPass
  <2>5. TypedPass'
    BY <1>3, <2>3, <2>4 DEF VerifyStream, Typed, TypedPass, PCs
  <2> QED BY <2>1, <2>5 DEF Typed
<1> QED BY <1>1, <1>2, <1>3

LEMMA TypedCheck ==
    ASSUME Typed, NEW w \in Watchers, CheckStream(w)
    PROVE  Typed'
<1>1. TypedBus' /\ TypedDisk'
  BY WatchAssumption DEF CheckStream, Fault, world, disk, alerts, Typed, TypedBus, TypedDisk
<1>2. PICK named \in SUBSET Nat, wrong \in SUBSET Records : Collect(w, named, wrong)
  <2>1. cur[w] \in Streams
    BY DEF CheckStream, Typed, TypedPass
  <2> QED BY <2>1 DEF CheckStream, Typed, TypedBus
<1>3. cur[w] \in Streams /\ verdict[w] \in Content
  BY DEF CheckStream, Typed, TypedPass
<1> DEFINE all == Findings(cur[w], verdict[w], named)
           ref == {Key(cur[w], "checkpoint_refused", i) : i \in wrong}
<1>4. all \subseteq Finding /\ {f.key : f \in all} \subseteq Keys
  BY <1>3, FindingsFacts DEF Finding
<1>5. ref \subseteq Keys
  <2>1. \A i \in wrong : i \in Nat
    BY WatchAssumption
  <2> QED BY <1>3, <2>1 DEF Key, Keys, Types
<1>6. /\ found' = [found EXCEPT ![w] = @ \cup {f \in all : New(w, f.key)}]
      /\ refused' = [refused EXCEPT ![w] = @ \cup {k \in ref : New(w, k)}]
      /\ seen' = [seen EXCEPT ![w] = @ \cup ref \cup {f.key : f \in all}]
  BY <1>2 DEF Collect
<1> HIDE DEF all, ref
<1>7. /\ found' \in [Watchers -> SUBSET Finding] /\ refused' \in [Watchers -> SUBSET Keys]
      /\ seen' \in [Watchers -> SUBSET Keys]
  BY <1>4, <1>5, <1>6 DEF Typed, TypedPass
<1>8. code' \in [Watchers -> {0, 2}]
  BY DEF CheckStream, Typed, TypedPass
<1>9. TypedPass'
  BY <1>7, <1>8, ContentFacts DEF CheckStream, Typed, TypedPass, PCs
<1> QED BY <1>1, <1>9 DEF Typed

LEMMA TypedAlert ==
    ASSUME Typed, NEW w \in Watchers, NEW f \in found[w], Alert(w, f) \/ AlertFails(w, f)
    PROVE  Typed'
<1>1. TypedBus'
  BY DEF Alert, AlertFails, world, Typed, TypedBus
<1>2. f \in Finding
  BY DEF Typed, TypedPass
<1>3. f.key \in Keys
  BY <1>2 DEF Finding
<1>4. CASE Alert(w, f)
  <2>1. TypedDisk'
    BY <1>3, <1>4, FS_AddElement DEF Alert, Written, disk, Typed, TypedDisk
  <2>2. TypedPass'
    BY <1>3, <1>4 DEF Alert, AfterAlert, Typed, TypedPass, PCs
  <2> QED BY <1>1, <2>1, <2>2 DEF Typed
<1>5. CASE AlertFails(w, f)
  <2>1. TypedDisk'
    <3>1. /\ UNCHANGED disk /\ faults' \in 0..MaxFaults
          /\ UNCHANGED <<alerts, losses>> \/ (Written(f) /\ losses' = losses + 1)
      BY <1>5, WatchAssumption DEF AlertFails, Fault, Typed, TypedDisk
    <3>2. CASE UNCHANGED <<alerts, losses>>
      BY <3>1, <3>2 DEF disk, alerts, Typed, TypedDisk
    <3>3. CASE Written(f) /\ losses' = losses + 1
      BY <1>3, <3>1, <3>3, FS_AddElement DEF Written, disk, Typed, TypedDisk
    <3> QED BY <3>1, <3>2, <3>3
  <2>2. TypedPass'
    BY <1>5 DEF AlertFails, Typed, TypedPass
  <2> QED BY <1>1, <2>1, <2>2 DEF Typed
<1> QED BY <1>4, <1>5

LEMMA TypedEnd ==
    ASSUME Typed, NEW w \in Watchers,
           OpenOutput(w) \/ OpenOutputFails(w) \/ CloseOutput(w) \/ Refuse(w) \/ Exit(w) \/ Crash(w)
    PROVE  Typed'
<1>1. TypedBus'
  BY DEF OpenOutput, OpenOutputFails, CloseOutput, Refuse, Exit, Crash, world, Typed, TypedBus
<1>2. TypedDisk'
  <2>1. CASE OpenOutput(w) \/ Refuse(w) \/ Exit(w)
    BY <2>1 DEF OpenOutput, Refuse, Exit, disk, alerts, Typed, TypedDisk
  <2>2. CASE OpenOutputFails(w) \/ CloseOutput(w)
    BY <2>2, WatchAssumption DEF OpenOutputFails, CloseOutput, Fault, disk, alerts, Typed, TypedDisk
  <2>3. CASE Crash(w)
    BY <2>3, WatchAssumption DEF Crash, Fault, alerts, Typed, TypedDisk
  <2> QED BY <2>1, <2>2, <2>3
<1>3. TypedPass'
  <2>1. CASE OpenOutput(w)
    BY <2>1 DEF OpenOutput, walk, Typed, TypedPass, PCs
  <2>2. CASE CloseOutput(w)
    BY <2>2 DEF CloseOutput, walk, Typed, TypedPass, PCs
  <2>3. CASE Refuse(w)
    BY <2>3 DEF Refuse, walk, Typed, TypedPass, PCs
  <2>4. CASE OpenOutputFails(w) \/ Crash(w) \/ Exit(w)
    <3>1. Leave(w)
      BY <2>4 DEF OpenOutputFails, Crash, Exit
    <3>2. exit' \in [Watchers -> {0, 1, 2, Killed}]
      BY <2>4 DEF OpenOutputFails, Crash, Exit, Typed, TypedPass
    <3> QED BY <3>1, <3>2, TypedLeave
  <2> QED BY <2>1, <2>2, <2>3, <2>4
<1> QED BY <1>1, <1>2, <1>3 DEF Typed

LEMMA TypedSave ==
    ASSUME Typed, NEW w \in Watchers, SaveOpen(w) \/ SaveWrite(w) \/ SaveRename(w) \/ SaveFails(w)
    PROVE  Typed'
<1>1. TypedBus'
  BY DEF SaveOpen, SaveWrite, SaveRename, SaveFails, world, Typed, TypedBus
<1>2. Torn \in File /\ Absent \in File /\ Whole(mem[w]) \in File
  BY DEF Torn, Absent, Whole, File, Typed, TypedPass
<1>3. TypedDisk'
  <2>1. CASE SaveOpen(w)
    BY <1>2, <2>1 DEF SaveOpen, alerts, Typed, TypedDisk
  <2>2. CASE SaveWrite(w)
    BY <1>2, <2>2 DEF SaveWrite, alerts, Typed, TypedDisk
  <2>3. CASE SaveRename(w)
    <3>1. \A v \in Watchers : Renamed(v) \in {"none", "tmp", "state", "gone"}
      BY DEF Renamed, Typed, TypedDisk
    <3> QED BY <1>2, <2>3, <3>1 DEF SaveRename, alerts, Typed, TypedDisk
  <2>4. CASE SaveFails(w)
    BY <1>2, <2>4, WatchAssumption DEF SaveFails, Fault, alerts, Typed, TypedDisk
  <2> QED BY <2>1, <2>2, <2>3, <2>4
<1>4. TypedPass'
  <2>1. CASE SaveOpen(w) \/ SaveWrite(w)
    BY <2>1 DEF SaveOpen, SaveWrite, walk, Typed, TypedPass, PCs
  <2>2. CASE SaveRename(w)
    BY <2>2 DEF SaveRename, Saved, walk, Typed, TypedPass, PCs
  <2>3. CASE SaveFails(w)
    BY <2>3 DEF SaveFails, Saved, walk, Typed, TypedPass, PCs
  <2> QED BY <2>1, <2>2, <2>3
<1> QED BY <1>1, <1>3, <1>4 DEF Typed

LEMMA TypedWorld ==
    ASSUME Typed, World,
           UNCHANGED <<disk, alerts, pc, mem, walk, code, bad, last, exit, faults, told, losses, blind>>
    PROVE  Typed'
<1>1. TypedDisk' /\ TypedPass'
  BY DEF disk, alerts, walk, Typed, TypedDisk, TypedPass
<1>2. ASSUME NEW s \in Streams, NEW c \in Content, NEW ns \in SUBSET Nat, Becomes(s, c, ns),
             refuted' \in [Streams -> SUBSET Records]
      PROVE  TypedBus'
  BY <1>2 DEF Becomes, Typed, TypedBus
<1>3. \A s \in Streams : bus[s] \in Content /\ resumes[s] \in SUBSET Nat
  BY DEF Typed, TypedBus
<1>4. ASSUME NEW s \in Streams, Grow(s) PROVE TypedBus'
  <2>1. PICK k \in Kinds : Becomes(s, Append(bus[s], k), resumes[s])
    BY <1>4 DEF Grow, Kinds
  <2>2. Append(bus[s], k) \in Content
    BY <1>3, ContentFacts
  <2> QED BY <1>2, <1>3, <1>4, <2>1, <2>2 DEF Grow, Typed, TypedBus
<1>5. ASSUME NEW s \in Streams, ResumeRecord(s) PROVE TypedBus'
  <2>1. PICK a \in 1..Len(bus[s]) : Becomes(s, bus[s], resumes[s] \cup {a})
    BY <1>5 DEF ResumeRecord
  <2>2. resumes[s] \cup {a} \in SUBSET Nat
    BY <1>3, ContentFacts
  <2> QED BY <1>2, <1>3, <1>5, <2>1, <2>2 DEF ResumeRecord, Typed, TypedBus
<1>6. ASSUME NEW s \in Streams, Tamper(s) PROVE TypedBus'
  <2>1. PICK c \in Contents, wrong \in SUBSET Records, kept \in SUBSET resumes[s] :
           Becomes(s, c, kept) /\ refuted' = [refuted EXCEPT ![s] = wrong]
    BY <1>6 DEF Tamper
  <2>2. c \in Content /\ kept \in SUBSET Nat
    BY <1>3, ContentFacts
  <2> QED BY <1>2, <2>1, <2>2 DEF Typed, TypedBus
<1> QED BY <1>1, <1>4, <1>5, <1>6 DEF World, Typed

LEMMA TypedNext == Typed /\ [Next]_vars => Typed'
<1> SUFFICES ASSUME Typed, [Next]_vars PROVE Typed'
  OBVIOUS
<1>1. ASSUME NEW w \in Watchers, Proceed(w) \/ Fail(w) PROVE Typed'
  BY <1>1, TypedWalk, TypedCheck, TypedAlert, TypedEnd, TypedSave DEF Proceed, Fail
<1>2. CASE UNCHANGED vars
  BY <1>2 DEF vars, world, disk, alerts, walk, Typed, TypedBus, TypedDisk, TypedPass
<1> QED BY <1>1, <1>2, TypedWorld DEF Next

-----------------------------------------------------------------------------
(* Restarts, for any number of passes. *)

(* A restart of a stream that is not in unnamed has the record that names   *)
(* the line before it, and a pass between its two reads of a stream still   *)
(* finds that record unless it stopped holding.                             *)

Excused(s, l) ==
    s \in blind \/ <<s, l>> \in unnamed \/ \E a \in 1..l : a < l /\ <<s, a>> \in lost

NamedOnBus ==
    \A s \in Streams : \A l \in RestartLines(bus[s]) :
        <<s, l>> \in unnamed \/ \E a \in resumes[s] : LastBefore(bus[s], l, a)

NamedWhenRead(w) ==
    \A l \in RestartLines(verdict[w]) :
        \/ <<cur[w], l>> \in unnamed
        \/ \E a : /\ LastBefore(verdict[w], l, a)
                  /\ a \in resumes[cur[w]] \/ <<cur[w], a>> \in lost

FoundExcused(w) ==
    \A f \in found[w] : \A s \in Streams, l \in Nat :
        f.key = Key(s, "chain_restarted", l) /\ ~f.explained => Excused(s, l)

HighExcused ==
    \A s \in Streams, l \in Nat : Key(s, "chain_restarted", l) \in high => Excused(s, l)

RInv ==
    /\ NamedOnBus /\ HighExcused
    /\ \A w \in Watchers : FoundExcused(w) /\ (pc[w] = "sidecar" => NamedWhenRead(w))

LEMMA PartRestarts ==
    ASSUME NEW c \in Content, NEW n \in 0..Len(c), NEW l \in RestartLines(Part(c, n))
    PROVE  /\ l \in RestartLines(c)
           /\ \A a : LastBefore(c, l, a) => LastBefore(Part(c, n), l, a)
<1> DEFINE p == Part(c, n)
<1>1. Len(p) = n /\ Len(c) \in Nat /\ \A i \in 1..n : p[i] = c[i]
  BY PartFacts, ContentFacts
<1> HIDE DEF p
<1>2. Events(p) = Events(c) \cap 1..n
  BY <1>1 DEF Events
<1>3. Heads(p) = Heads(c) \cap 1..n
  BY <1>1, <1>2 DEF Heads
<1>4. l \in Heads(c) /\ l \in 1..n /\ \E k \in Heads(c) : k < l
  BY <1>3 DEF RestartLines, p
<1>5. l \in RestartLines(c)
  BY <1>4 DEF RestartLines
<1>6. ASSUME NEW a, LastBefore(c, l, a) PROVE LastBefore(p, l, a)
  <2>1. a \in 1..n
    BY <1>1, <1>4, <1>6 DEF LastBefore, Events
  <2> QED BY <1>2, <1>6, <2>1 DEF LastBefore
<1> QED BY <1>5, <1>6 DEF p

\* A step that finds nothing and changes no stream.
LEMMA RestartsKept ==
    ASSUME RInv, UNCHANGED <<bus, resumes, unnamed, lost, high>>, blind \subseteq blind',
           \A w \in Watchers : found'[w] \subseteq found[w],
           \A w \in Watchers : pc'[w] = "sidecar" =>
              pc[w] = "sidecar" /\ cur'[w] = cur[w] /\ verdict'[w] = verdict[w]
    PROVE  RInv'
<1>1. NamedOnBus'
  BY DEF RInv, NamedOnBus
<1>2. \A s, l : Excused(s, l) => Excused(s, l)'
  BY DEF Excused
<1>3. HighExcused' /\ \A w \in Watchers : FoundExcused(w)'
  BY <1>2 DEF RInv, HighExcused, FoundExcused
<1>4. ASSUME NEW w \in Watchers, pc'[w] = "sidecar" PROVE NamedWhenRead(w)'
  BY <1>4 DEF RInv, NamedWhenRead
<1> QED BY <1>1, <1>3, <1>4 DEF RInv

LEMMA RestartVerify ==
    ASSUME Typed, RInv, NEW w \in Watchers, NEW s \in Streams, VerifyStream(w, s)
    PROVE  RInv'
<1>1. /\ cur' = [cur EXCEPT ![w] = s] /\ pc' = [pc EXCEPT ![w] = "sidecar"]
      /\ UNCHANGED <<bus, resumes, unnamed, lost, high, found, blind>>
  BY DEF VerifyStream, world, alerts
<1>2. bus[s] \in Content /\ cur'[w] = s
  BY <1>1 DEF Typed, TypedBus, TypedPass
<1>3. /\ verdict'[w] = bus[s] \/ \E n \in 0..Len(bus[s]) : verdict'[w] = Part(bus[s], n)
      /\ \A v \in Watchers \ {w} : verdict'[v] = verdict[v]
  BY DEF VerifyStream, Typed, TypedPass
<1>4. ASSUME NEW l \in RestartLines(verdict'[w])
      PROVE  /\ l \in RestartLines(bus[s])
             /\ \A a : LastBefore(bus[s], l, a) => LastBefore(verdict'[w], l, a)
  <2>1. CASE verdict'[w] = bus[s]
    BY <2>1
  <2>2. ASSUME NEW n \in 0..Len(bus[s]), verdict'[w] = Part(bus[s], n)
        PROVE  /\ l \in RestartLines(bus[s])
               /\ \A a : LastBefore(bus[s], l, a) => LastBefore(verdict'[w], l, a)
    <3>1. l \in RestartLines(Part(bus[s], n))
      BY <2>2
    <3> QED BY <1>2, <2>2, <3>1, PartRestarts
  <2> QED BY <1>3, <2>1, <2>2
<1>5. NamedWhenRead(w)'
  <2> SUFFICES ASSUME NEW l \in RestartLines(verdict'[w]), <<s, l>> \notin unnamed
               PROVE  \E a : LastBefore(verdict'[w], l, a) /\ a \in resumes[s]
    BY <1>1, <1>2 DEF NamedWhenRead
  <2>1. PICK a \in resumes[s] : LastBefore(bus[s], l, a)
    BY <1>4 DEF RInv, NamedOnBus
  <2> QED BY <1>4, <2>1
<1>6. ASSUME NEW v \in Watchers \ {w}, pc'[v] = "sidecar" PROVE NamedWhenRead(v)'
  <2>1. pc[v] = "sidecar" /\ cur'[v] = cur[v] /\ verdict'[v] = verdict[v]
    BY <1>1, <1>3, <1>6 DEF Typed, TypedPass
  <2> QED BY <1>1, <2>1 DEF RInv, NamedWhenRead
<1>7. NamedOnBus' /\ HighExcused' /\ \A v \in Watchers : FoundExcused(v)'
  BY <1>1 DEF RInv, NamedOnBus, HighExcused, FoundExcused, Excused
<1> QED BY <1>5, <1>6, <1>7 DEF RInv

LEMMA RestartCheck ==
    ASSUME Typed, RInv, NEW w \in Watchers, CheckStream(w)
    PROVE  RInv'
<1> DEFINE s0 == cur[w]
           v0 == verdict[w]
<1>1. PICK named, wrong : Collect(w, named, wrong) /\ (named = resumes[s0] \/ s0 \in blind')
  BY DEF CheckStream
<1>2. UNCHANGED <<bus, resumes, unnamed, lost, high, cur>> /\ blind \subseteq blind'
  BY DEF CheckStream, world, alerts
<1>3. s0 \in Streams /\ v0 \in Content /\ NamedWhenRead(w)
  BY DEF CheckStream, RInv, Typed, TypedPass
<1>4. ASSUME NEW f \in Findings(s0, v0, named), NEW t \in Streams, NEW l \in Nat,
             f.key = Key(t, "chain_restarted", l), ~f.explained
      PROVE  Excused(t, l)'
  <2>1. \A k \in RestartLines(v0) :
           \/ <<s0, k>> \in unnamed
           \/ \E a : /\ LastBefore(v0, k, a)
                     /\ a \in resumes[s0] \/ <<s0, a>> \in lost
    BY <1>3 DEF NamedWhenRead
  <2> HIDE DEF s0, v0
  <2>2. PICK k \in RestartLines(v0) :
          f = [key |-> Key(s0, "chain_restarted", k), explained |-> Explained(v0, k, named)]
    BY <1>4, FindingKinds DEF Key
  <2>3. t = s0 /\ k = l /\ ~Explained(v0, l, named)
    BY <1>4, <2>2 DEF Key
  <2>4. CASE s0 \in blind' \/ <<s0, l>> \in unnamed
    BY <1>2, <2>3, <2>4 DEF Excused
  <2>5. ASSUME named = resumes[s0], NEW a, LastBefore(v0, l, a),
               a \in resumes[s0] \/ <<s0, a>> \in lost
        PROVE  Excused(t, l)'
    <3>1. a \notin resumes[s0]
      BY <2>3, <2>5 DEF Explained
    <3>2. a \in 1..l /\ a < l
      BY <1>3, <2>5, LineFacts
    <3> QED BY <1>2, <2>3, <2>5, <3>1, <3>2 DEF Excused
  <2> QED BY <1>1, <2>1, <2>2, <2>3, <2>4, <2>5
<1>5. NamedOnBus' /\ HighExcused'
  BY <1>2 DEF RInv, NamedOnBus, HighExcused, Excused
<1>6. ASSUME NEW v \in Watchers, pc'[v] = "sidecar" PROVE NamedWhenRead(v)'
  <2>1. v # w
    BY <1>6 DEF CheckStream, Typed, TypedPass
  <2>2. pc[v] = "sidecar" /\ verdict'[v] = verdict[v]
    BY <1>6, <2>1 DEF CheckStream, Typed, TypedPass
  <2> QED BY <1>2, <2>2 DEF RInv, NamedWhenRead
<1>7. ASSUME NEW v \in Watchers PROVE FoundExcused(v)'
  <2> SUFFICES ASSUME NEW f \in found'[v], NEW t \in Streams, NEW l \in Nat,
                      f.key = Key(t, "chain_restarted", l), ~f.explained
               PROVE  Excused(t, l)'
    BY DEF FoundExcused
  <2>1. CASE f \in found[v]
    <3>1. Excused(t, l)
      BY <2>1 DEF RInv, FoundExcused
    <3> QED BY <1>2, <3>1 DEF Excused
  <2>2. CASE f \notin found[v]
    <3>1. f \in Findings(s0, v0, named)
      BY <1>1, <2>2 DEF Collect, Typed, TypedPass
    <3> HIDE DEF s0, v0
    <3> QED BY <1>4, <3>1
  <2> QED BY <2>1, <2>2
<1> QED BY <1>5, <1>6, <1>7 DEF RInv

LEMMA RestartAlert ==
    ASSUME Typed, RInv, NEW w \in Watchers, NEW f \in found[w], Alert(w, f) \/ AlertFails(w, f)
    PROVE  RInv'
<1>1. /\ UNCHANGED <<bus, resumes, unnamed, lost, cur, verdict, blind>>
      /\ found' = [found EXCEPT ![w] = @ \ {f}]
      /\ pc' = [pc EXCEPT ![w] = "save"] \/ pc' = pc
  BY DEF Alert, AlertFails, AfterAlert, world
<1>2. \A k \in high' : k \in high \/ (k = f.key /\ ~f.explained)
  BY DEF Alert, AlertFails, Written, alerts
<1>3. NamedOnBus'
  BY <1>1 DEF RInv, NamedOnBus
<1>4. ASSUME NEW v \in Watchers, pc'[v] = "sidecar" PROVE NamedWhenRead(v)'
  <2>1. pc[v] = "sidecar"
    BY <1>1, <1>4 DEF Typed, TypedPass
  <2> QED BY <1>1, <2>1 DEF RInv, NamedWhenRead
<1>5. \A v \in Watchers : found'[v] \subseteq found[v]
  BY <1>1 DEF Typed, TypedPass
<1>6. \A v \in Watchers : FoundExcused(v)'
  BY <1>1, <1>5 DEF RInv, FoundExcused, Excused
<1>7. HighExcused'
  BY <1>1, <1>2 DEF RInv, HighExcused, FoundExcused, Excused
<1> QED BY <1>3, <1>4, <1>6, <1>7 DEF RInv

\* No line of a stream becomes a restart that no record names but it is noted,
\* and no record stops holding but it is noted.
LEMMA RestartBecomes ==
    ASSUME Typed, RInv, NEW s \in Streams, NEW c, NEW ns, Becomes(s, c, ns),
           UNCHANGED <<high, pc, cur, verdict, found, blind>>
    PROVE  RInv'
<1>1. /\ bus' = [bus EXCEPT ![s] = c] /\ resumes' = [resumes EXCEPT ![s] = ns]
      /\ \A t \in Streams : t # s => bus'[t] = bus[t] /\ resumes'[t] = resumes[t]
      /\ bus'[s] = c /\ resumes'[s] = ns
  BY DEF Becomes, Typed, TypedBus
<1>2. unnamed \subseteq unnamed' /\ lost \subseteq lost'
  BY DEF Becomes
<1>3. ASSUME NEW t \in Streams, NEW l \in RestartLines(bus'[t])
      PROVE  <<t, l>> \in unnamed' \/ \E a \in resumes'[t] : LastBefore(bus'[t], l, a)
  <2>1. CASE t # s
    BY <1>1, <1>2, <2>1 DEF RInv, NamedOnBus
  <2>2. CASE t = s /\ l \in Unnamed(c, ns)
    BY <2>2 DEF Becomes
  <2>3. CASE t = s /\ l \notin Unnamed(c, ns)
    BY <1>1, <2>3 DEF Unnamed
  <2> QED BY <2>1, <2>2, <2>3
<1>4. NamedOnBus'
  BY <1>3 DEF NamedOnBus
<1>5. ASSUME NEW w \in Watchers, pc'[w] = "sidecar" PROVE NamedWhenRead(w)'
  <2>1. cur[w] \in Streams /\ NamedWhenRead(w)
    BY <1>5 DEF RInv, Typed, TypedPass
  <2>2. \A a : a \in resumes[cur[w]] => a \in resumes'[cur[w]] \/ <<cur[w], a>> \in lost'
    BY <1>1, <2>1 DEF Becomes
  <2> QED BY <1>2, <2>1, <2>2 DEF NamedWhenRead
<1>6. HighExcused' /\ \A w \in Watchers : FoundExcused(w)'
  BY <1>2 DEF RInv, HighExcused, FoundExcused, Excused
<1> QED BY <1>4, <1>5, <1>6 DEF RInv

LEMMA RestartWorld ==
    ASSUME Typed, RInv, World,
           UNCHANGED <<disk, alerts, pc, mem, walk, code, bad, last, exit, faults, told, losses, blind>>
    PROVE  RInv'
<1>1. UNCHANGED <<high, pc, cur, verdict, found, blind>>
  BY DEF alerts, walk
<1>2. \E s \in Streams : \E c, ns : Becomes(s, c, ns)
  BY DEF World, Grow, ResumeRecord, Tamper
<1> QED BY <1>1, <1>2, RestartBecomes

LEMMA RestartRest ==
    ASSUME Typed, RInv, NEW w \in Watchers,
           \/ Load(w) \/ LoadFails(w) \/ OpenOutput(w) \/ OpenOutputFails(w) \/ CloseOutput(w)
           \/ Refuse(w) \/ Exit(w) \/ Crash(w)
           \/ SaveOpen(w) \/ SaveWrite(w) \/ SaveRename(w) \/ SaveFails(w)
    PROVE  RInv'
<1>1. CASE Load(w) \/ LoadFails(w) \/ OpenOutput(w) \/ CloseOutput(w) \/ Refuse(w)
  <2>1. UNCHANGED <<bus, resumes, unnamed, lost, high, cur, verdict, blind>>
    BY <1>1 DEF Load, LoadFails, OpenOutput, CloseOutput, Refuse, world, alerts, walk
  <2>2. \A v \in Watchers : found'[v] \subseteq found[v] /\ (pc'[v] = "sidecar" => pc[v] = "sidecar")
    BY <1>1 DEF Load, LoadFails, OpenOutput, CloseOutput, Refuse, walk, Typed, TypedPass
  <2> QED BY <2>1, <2>2, RestartsKept
<1>2. CASE OpenOutputFails(w) \/ Exit(w) \/ Crash(w)
  <2>1. Leave(w) /\ UNCHANGED <<bus, resumes, unnamed, lost, high, blind>>
    BY <1>2 DEF OpenOutputFails, Exit, Crash, world, alerts
  <2>2. \A v \in Watchers : found'[v] \subseteq found[v]
    BY <2>1 DEF Leave, Typed, TypedPass
  <2>3. \A v \in Watchers : pc'[v] = "sidecar" =>
          pc[v] = "sidecar" /\ cur'[v] = cur[v] /\ verdict'[v] = verdict[v]
    BY <2>1 DEF Leave, Typed, TypedPass
  <2> QED BY <2>1, <2>2, <2>3, RestartsKept
<1>3. CASE SaveOpen(w) \/ SaveWrite(w) \/ SaveRename(w) \/ SaveFails(w)
  <2>1. UNCHANGED <<bus, resumes, unnamed, lost, high, cur, verdict, blind, found>>
    BY <1>3 DEF SaveOpen, SaveWrite, SaveRename, SaveFails, world, alerts, walk
  <2>2. \A v \in Watchers : pc'[v] = "sidecar" => pc[v] = "sidecar"
    BY <1>3 DEF SaveOpen, SaveWrite, SaveRename, SaveFails, Saved, Typed, TypedPass
  <2> QED BY <2>1, <2>2, RestartsKept
<1> QED BY <1>1, <1>2, <1>3

LEMMA RestartInit == Init => RInv
<1> SUFFICES ASSUME Init PROVE RInv
  OBVIOUS
<1>1. NamedOnBus
  BY DEF Init, NamedOnBus, Unnamed
<1>2. HighExcused /\ \A w \in Watchers : FoundExcused(w) /\ pc[w] # "sidecar"
  BY DEF Init, HighExcused, FoundExcused
<1> QED BY <1>1, <1>2 DEF RInv

LEMMA RestartNext == Typed /\ RInv /\ [Next]_vars => RInv'
<1> SUFFICES ASSUME Typed, RInv, [Next]_vars PROVE RInv'
  OBVIOUS
<1>1. ASSUME NEW w \in Watchers, Proceed(w) \/ Fail(w) PROVE RInv'
  BY <1>1, RestartVerify, RestartCheck, RestartAlert, RestartRest DEF Proceed, Fail
<1>2. CASE UNCHANGED vars
  BY <1>2, RestartsKept DEF vars, world, alerts, walk
<1> QED BY <1>1, <1>2, RestartWorld DEF Next

\* A restart is called unexplained only if it stood on the bus at some time with
\* no valid record naming the line before it, or a record of a line before it
\* stopped holding, or some pass could not read the sidecar: for any number of
\* streams, lines and passes, with streams that grow and change at any time.
THEOREM RestartsExplained == Spec => []UnexplainedOnlyIfUnnamed
<1>1. RInv => UnexplainedOnlyIfUnnamed
  BY DEF RInv, HighExcused, Excused, UnexplainedOnlyIfUnnamed
<1> QED BY <1>1, RestartInit, TypedInit, TypedNext, RestartNext, PTL DEF Spec

-----------------------------------------------------------------------------
(* One pass at a time. *)

OneAtATime == \E w : Watchers = {w}

\* The three files a pass works with.
Files(w) ==
    /\ fd[w] = IF pc[w] = "write" THEN "tmp" ELSE "none"
    /\ pc[w] = "rename" => tmp = Whole(mem[w])
    /\ state.kind # "torn"
    /\ pc[w] # "out" => state.keys \subseteq mem[w]
    /\ pc[w] \in {"walk", "sidecar", "open"} => mem[w] = state.keys
    /\ pc[w] \in {"alert", "refuse", "exit"} /\ code[w] # 2 => mem[w] = state.keys

\* Where a pass is, and what it still has to write.
Place(w) ==
    /\ pc[w] = "out" => seen[w] = {} /\ refused[w] = {} /\ code[w] = 0
    /\ pc[w] \in {"out", "refuse", "exit"} \/ last[w] => found[w] = {}
    /\ pc[w] = "exit" => last[w]
    /\ last[w] => pc[w] \in {"save", "write", "rename", "exit"} /\ refused[w] \subseteq mem[w]

\* Its findings: each new, once, of a stream it is done with, and none dropped.
Pending(w) ==
    /\ \A f \in found[w] : f.key \notin mem[w] /\ f.key[1] \notin left[w]
    /\ \A f, g \in found[w] : f.key = g.key => f = g
    /\ code[w] # 2 => \A k \in seen[w] :
          k \in mem[w] \/ k \in refused[w] \/ \E f \in found[w] : f.key = k

Unsaved(w) == pc[w] \in {"save", "write", "rename"} /\ ~last[w]
Owed(w) == IF Unsaved(w) THEN 1 ELSE 0

\* Each alert the state file does not know of was paid for by a loss, but for
\* the one that is being saved.
Paid(w) ==
    /\ again + Cardinality(onBus \ state.keys) <= losses + Owed(w)
    /\ Unsaved(w) => \E k \in onBus : k \in mem[w] /\ k \notin state.keys
    /\ losses <= faults

Lone == \A w \in Watchers : Files(w) /\ Place(w) /\ Pending(w) /\ Paid(w)
Alone(w) == Files(w) /\ Place(w) /\ Pending(w) /\ Paid(w)

LEMMA OnlyOne ==
    ASSUME OneAtATime, NEW w \in Watchers, Alone(w)' PROVE Lone'
BY DEF OneAtATime, Lone, Alone

LEMMA Unknown ==
    ASSUME NEW b, IsFiniteSet(b), NEW ks
    PROVE  /\ Cardinality(b \ ks) \in Nat
           /\ \A k : Cardinality((b \cup {k}) \ ks) <= Cardinality(b \ ks) + 1
           /\ \A ls : ks \subseteq ls => Cardinality(b \ ls) <= Cardinality(b \ ks)
           /\ \A ls, k : ks \subseteq ls /\ k \in b /\ k \in ls /\ k \notin ks =>
                 Cardinality(b \ ls) + 1 <= Cardinality(b \ ks)
<1>1. IsFiniteSet(b \ ks) /\ Cardinality(b \ ks) \in Nat
  BY FS_Subset, FS_CardinalityType, b \ ks \subseteq b
<1>2. ASSUME NEW k PROVE Cardinality((b \cup {k}) \ ks) <= Cardinality(b \ ks) + 1
  <2>1. (b \cup {k}) \ ks = b \ ks \/ (b \cup {k}) \ ks = (b \ ks) \cup {k}
    OBVIOUS
  <2>2. Cardinality((b \ ks) \cup {k}) <= Cardinality(b \ ks) + 1
    <3>1. \/ Cardinality((b \ ks) \cup {k}) = Cardinality(b \ ks)
          \/ Cardinality((b \ ks) \cup {k}) = Cardinality(b \ ks) + 1
      BY <1>1, FS_AddElement
    <3> QED BY <1>1, <3>1
  <2>3. CASE (b \cup {k}) \ ks = b \ ks
    BY <1>1, <2>3
  <2>4. CASE (b \cup {k}) \ ks = (b \ ks) \cup {k}
    BY <2>2, <2>4
  <2> QED BY <2>1, <2>3, <2>4
<1>3. ASSUME NEW ls, ks \subseteq ls PROVE Cardinality(b \ ls) <= Cardinality(b \ ks)
  BY <1>1, <1>3, FS_Subset, b \ ls \subseteq b \ ks
<1>4. ASSUME NEW ls, NEW k, ks \subseteq ls, k \in b, k \in ls, k \notin ks
      PROVE  Cardinality(b \ ls) + 1 <= Cardinality(b \ ks)
  <2>1. b \ ls \subseteq (b \ ks) \ {k}
    BY <1>4
  <2>2. IsFiniteSet((b \ ks) \ {k}) /\ Cardinality((b \ ks) \ {k}) = Cardinality(b \ ks) - 1
    BY <1>1, <1>4, FS_RemoveElement
  <2>3. Cardinality(b \ ls) <= Cardinality(b \ ks) - 1 /\ Cardinality(b \ ls) \in Nat
    BY <2>1, <2>2, FS_Subset, FS_CardinalityType
  <2> QED BY <1>1, <2>3
<1> QED BY <1>1, <1>2, <1>3, <1>4

\* A step that leaves the files, the bus and the count alone, and is not a save.
LEMMA PaidKept ==
    ASSUME Typed, Typed', NEW w \in Watchers, Paid(w), UNCHANGED <<state, onBus, again>>,
           \/ UNCHANGED losses /\ ~Unsaved(w) /\ ~Unsaved(w)' /\ faults <= faults'
           \/ losses' = losses + 1 /\ faults' = faults + 1 /\ ~Unsaved(w)'
    PROVE  Paid(w)'
<1>1. Cardinality(onBus \ state.keys) \in Nat
  BY Unknown DEF Typed, TypedDisk
<1>2. again \in Nat /\ losses \in Nat /\ faults \in Nat
  BY WatchAssumption DEF Typed, TypedDisk
<1>3. (onBus \ state.keys)' = onBus \ state.keys
  OBVIOUS
<1>4. again + Cardinality(onBus \ state.keys) <= losses + Owed(w) /\ losses <= faults
      /\ (Unsaved(w) \/ Owed(w) = 0) /\ Owed(w) \in {0, 1}
  BY DEF Paid, Owed
<1>5. ~Unsaved(w)' /\ Owed(w)' = 0
  BY DEF Owed
<1>6. again' + Cardinality(onBus \ state.keys) <= losses' /\ losses' <= faults'
  <2> DEFINE n == Cardinality(onBus \ state.keys)
  <2>1. n \in Nat /\ again' = again /\ again + n <= losses + Owed(w) /\ faults' \in Nat
    BY <1>1, <1>4, WatchAssumption DEF Typed, TypedDisk
  <2> HIDE DEF n
  <2>2. CASE UNCHANGED losses /\ ~Unsaved(w) /\ faults <= faults'
    <3>1. Owed(w) = 0 /\ losses' = losses
      BY <1>4, <2>2
    <3> QED BY <1>2, <1>4, <2>1, <2>2, <3>1 DEF n
  <2>3. CASE losses' = losses + 1 /\ faults' = faults + 1
    BY <1>2, <1>4, <2>1, <2>3 DEF n
  <2> QED BY <2>2, <2>3
<1>7. again' + Cardinality((onBus \ state.keys)') <= losses' + Owed(w)'
  BY <1>3, <1>5, <1>6, <1>2
<1> QED BY <1>5, <1>6, <1>7 DEF Paid

LEMMA AloneLeaves ==
    ASSUME Typed, Typed', NEW w \in Watchers, Alone(w), OpenOutputFails(w) \/ Exit(w) \/ Crash(w)
    PROVE  Alone(w)'
<1>1. Leave(w) /\ UNCHANGED <<state, onBus, again>>
  BY DEF OpenOutputFails, Exit, Crash, disk, alerts
<1>2. /\ pc'[w] = "out" /\ mem'[w] = {} /\ left'[w] = {} /\ found'[w] = {}
      /\ refused'[w] = {} /\ seen'[w] = {} /\ code'[w] = 0 /\ last'[w] = FALSE
  BY <1>1 DEF Leave, Typed, TypedPass
<1>3. fd'[w] = "none"
  BY DEF OpenOutputFails, Exit, Crash, disk, Alone, Files, Typed, TypedDisk
<1>4. Paid(w)'
  <2>1. CASE OpenOutputFails(w) \/ Exit(w)
    <3>1. UNCHANGED losses /\ pc[w] \in {"open", "exit"} /\ faults <= faults'
      BY <2>1, WatchAssumption DEF OpenOutputFails, Exit, Fault, Typed, TypedDisk
    <3> QED BY <1>1, <1>2, <3>1, PaidKept DEF Unsaved, Alone
  <2>2. CASE Crash(w)
    BY <1>1, <1>2, <2>2, PaidKept DEF Crash, Fault, Unsaved, Alone
  <2> QED BY <2>1, <2>2
<1> QED BY <1>1, <1>2, <1>3, <1>4 DEF Alone, Files, Place, Pending

LEMMA AloneWalks ==
    ASSUME Typed, Typed', NEW w \in Watchers, Alone(w),
           Load(w) \/ LoadFails(w) \/ \E s \in Streams : VerifyStream(w, s)
    PROVE  Alone(w)'
<1>1. UNCHANGED <<state, tmp, fd, onBus, again, losses, found, refused, seen, last>>
  BY DEF Load, LoadFails, VerifyStream, disk, alerts, walk
<1>2. faults <= faults'
  BY WatchAssumption DEF Load, LoadFails, VerifyStream, Fault, Typed, TypedDisk
<1>3. pc[w] \in {"out", "walk"} /\ pc'[w] \in {"out", "walk", "sidecar"}
  BY DEF Load, LoadFails, VerifyStream, Typed, TypedPass
<1>4. Paid(w)'
  BY <1>1, <1>2, <1>3, PaidKept DEF Unsaved, Alone
<1>5. CASE Load(w)
  <2>1. pc'[w] = "walk" /\ mem'[w] = state.keys /\ UNCHANGED code
    BY <1>5 DEF Load, Typed, TypedPass
  <2> QED BY <1>1, <1>4, <1>5, <2>1 DEF Load, Alone, Files, Place, Pending
<1>6. CASE LoadFails(w)
  BY <1>1, <1>4, <1>6 DEF LoadFails, walk, Alone, Files, Place, Pending
<1>7. ASSUME NEW s \in Streams, VerifyStream(w, s) PROVE Alone(w)'
  <2>1. /\ pc[w] = "walk" /\ pc'[w] = "sidecar" /\ UNCHANGED <<mem, left>>
        /\ code'[w] = code[w] \/ code'[w] = 2
    BY <1>7 DEF VerifyStream, Typed, TypedPass
  <2> QED BY <1>1, <1>4, <2>1 DEF Alone, Files, Place, Pending
<1> QED BY <1>5, <1>6, <1>7

LEMMA AloneChecks ==
    ASSUME Typed, Typed', NEW w \in Watchers, Alone(w), CheckStream(w)
    PROVE  Alone(w)'
<1> DEFINE s0 == cur[w]
           v0 == verdict[w]
<1>1. PICK named \in SUBSET Nat, wrong \in SUBSET Records :
         Collect(w, named, wrong) /\ (code'[w] = code[w] \/ code'[w] = 2)
  <2>1. cur[w] \in Streams /\ w \in DOMAIN code
    BY DEF CheckStream, Typed, TypedPass
  <2>2. resumes[cur[w]] \in SUBSET Nat /\ refuted[cur[w]] \in SUBSET Records
    BY <2>1 DEF Typed, TypedBus
  <2>3. CASE Collect(w, resumes[cur[w]], refuted[cur[w]]) /\ UNCHANGED code
    BY <2>2, <2>3
  <2>4. CASE Collect(w, {}, {}) /\ code' = [code EXCEPT ![w] = 2]
    <3>1. code'[w] = 2
      BY <2>1, <2>4
    <3> QED BY <2>4, <3>1
  <2> QED BY <2>3, <2>4 DEF CheckStream
<1> DEFINE all == Findings(s0, v0, named)
           ref == {Key(s0, "checkpoint_refused", i) : i \in wrong}
<1>2. s0 \in left[w] /\ s0 \in Streams /\ v0 \in Content
  BY DEF CheckStream, Typed, TypedPass
<1>3. UNCHANGED <<state, tmp, fd, onBus, again, losses, mem, last>> /\ faults <= faults'
  BY WatchAssumption DEF CheckStream, Fault, disk, alerts, Typed, TypedDisk
<1>4. left'[w] = left[w] \ {s0}
  BY DEF CheckStream, Typed, TypedPass
<1>5. /\ found'[w] = found[w] \cup {f \in all : New(w, f.key)}
      /\ refused'[w] = refused[w] \cup {k \in ref : New(w, k)}
      /\ seen'[w] = seen[w] \cup ref \cup {f.key : f \in all}
  BY <1>1 DEF Collect, Typed, TypedPass
<1>6. \A f \in all : f.key[1] = s0
  BY <1>2, FindingsFacts
<1>7. \A f, g \in all : f.key = g.key => f = g
  <2> SUFFICES ASSUME NEW f \in all, NEW g \in all, f.key = g.key PROVE f = g
    OBVIOUS
  <2>1. \A b, k \in FirstBreak(v0) : b = k
    BY <1>2, LineFacts
  <2> DEFINE Broken(b)  == [key |-> Key(s0, "chain_broken", b), explained |-> FALSE]
             Alien      == [key |-> Key(s0, "chain_unchained", 0), explained |-> FALSE]
             Restart(l) == [key |-> Key(s0, "chain_restarted", l), explained |-> Explained(v0, l, named)]
  <2> HIDE DEF s0, v0
  <2>2. ASSUME NEW h \in Findings(s0, v0, named)
        PROVE  \/ \E b \in FirstBreak(v0) : h = Broken(b)
               \/ h = Alien
               \/ \E l \in RestartLines(v0) : h = Restart(l)
    BY FindingKinds
  <2>3. f \in Findings(s0, v0, named) /\ g \in Findings(s0, v0, named)
    OBVIOUS
  <2>4. f.key[2] = g.key[2] /\ f.key[3] = g.key[3]
    OBVIOUS
  <2>5. \A b, l : /\ Broken(b).key[2] = "chain_broken" /\ Alien.key[2] = "chain_unchained"
                  /\ Restart(l).key[2] = "chain_restarted" /\ Restart(l).key[3] = l
    BY DEF Key
  <2> HIDE DEF Broken, Alien, Restart, all
  <2>6. CASE \E l \in RestartLines(v0) : f = Restart(l)
    BY <2>2, <2>3, <2>4, <2>5, <2>6
  <2>7. CASE \E b \in FirstBreak(v0) : f = Broken(b)
    BY <2>1, <2>2, <2>3, <2>4, <2>5, <2>7
  <2>8. CASE f = Alien
    BY <2>2, <2>3, <2>4, <2>5, <2>8
  <2> QED BY <2>2, <2>3, <2>6, <2>7, <2>8
<1>8. pc[w] = "sidecar" /\ pc'[w] = IF left'[w] # {} THEN "walk" ELSE IF found'[w] # {} THEN "open" ELSE "refuse"
  BY DEF CheckStream, Typed, TypedPass
<1> HIDE DEF s0, v0, all, ref
<1>9. Paid(w)'
  BY <1>3, <1>8, PaidKept DEF Unsaved, Alone
<1>10. Files(w)'
  BY <1>1, <1>3, <1>8 DEF Alone, Files
<1>11. Place(w)'
  BY <1>3, <1>8 DEF Alone, Place
<1>12. Pending(w)'
  <2>1. \A f \in found'[w] : f.key \notin mem'[w] /\ f.key[1] \notin left'[w]
    BY <1>3, <1>4, <1>5, <1>6 DEF Alone, Pending, New
  <2>2. \A f, g \in found'[w] : f.key = g.key => f = g
    BY <1>2, <1>5, <1>6, <1>7 DEF Alone, Pending
  <2>3. code'[w] # 2 => \A k \in seen'[w] :
           k \in mem'[w] \/ k \in refused'[w] \/ \E f \in found'[w] : f.key = k
    <3> SUFFICES ASSUME code'[w] # 2, NEW k \in seen'[w], k \notin mem'[w], k \notin refused'[w]
                 PROVE  \E f \in found'[w] : f.key = k
      OBVIOUS
    <3>1. CASE k \in seen[w]
      BY <1>1, <1>3, <1>5, <3>1 DEF Alone, Pending
    <3>2. CASE k \in ref
      BY <1>3, <1>5, <3>2 DEF New
    <3>3. CASE \E f \in all : k = f.key
      BY <1>3, <1>5, <3>3 DEF New
    <3> QED BY <1>5, <3>1, <3>2, <3>3
  <2> QED BY <2>1, <2>2, <2>3 DEF Pending
<1> QED BY <1>9, <1>10, <1>11, <1>12 DEF Alone

LEMMA AloneTurns ==
    ASSUME Typed, Typed', NEW w \in Watchers, Alone(w), OpenOutput(w) \/ CloseOutput(w) \/ Refuse(w)
    PROVE  Alone(w)'
<1>1. UNCHANGED <<state, tmp, fd, onBus, again, losses, left, found, refused, seen>> /\ faults <= faults'
  BY WatchAssumption DEF OpenOutput, CloseOutput, Refuse, Fault, disk, alerts, walk, Typed, TypedDisk
<1>2. CASE OpenOutput(w)
  <2>1. pc[w] = "open" /\ pc'[w] = "alert" /\ UNCHANGED <<mem, code, last>>
    BY <1>2 DEF OpenOutput, Typed, TypedPass
  <2>2. Paid(w)'
    BY <1>1, <2>1, PaidKept DEF Unsaved, Alone
  <2> QED BY <1>1, <2>1, <2>2 DEF Alone, Files, Place, Pending
<1>3. CASE CloseOutput(w)
  <2>1. /\ pc[w] = "alert" /\ pc'[w] = "refuse" /\ UNCHANGED <<mem, last>> /\ found[w] = {}
        /\ code'[w] = code[w] \/ code'[w] = 2
    BY <1>3 DEF CloseOutput, Typed, TypedPass
  <2>2. Paid(w)'
    BY <1>1, <2>1, PaidKept DEF Unsaved, Alone
  <2> QED BY <1>1, <2>1, <2>2 DEF Alone, Files, Place, Pending
<1>4. CASE Refuse(w)
  <2>1. /\ pc[w] = "refuse" /\ pc'[w] = IF refused[w] # {} THEN "save" ELSE "exit"
        /\ mem'[w] = mem[w] \cup refused[w] /\ last'[w] = TRUE /\ UNCHANGED code
    BY <1>4 DEF Refuse, Typed, TypedPass
  <2>2. Paid(w)'
    BY <1>1, <2>1, PaidKept DEF Unsaved, Alone
  <2> QED BY <1>1, <2>1, <2>2 DEF Alone, Files, Place, Pending
<1> QED BY <1>2, <1>3, <1>4

\* One more alert on the bus is one more that was written twice, or one more
\* that the state file does not know of.
LEMMA WrittenCosts ==
    ASSUME IsFiniteSet(onBus), again \in Nat, losses \in Nat, NEW f, Written(f),
           again + Cardinality(onBus \ state.keys) <= losses
    PROVE  again' + Cardinality(onBus' \ state.keys) <= losses + 1
<1>1. /\ Cardinality(onBus \ state.keys) \in Nat /\ Cardinality(onBus' \ state.keys) \in Nat
      /\ Cardinality(onBus' \ state.keys) <= Cardinality(onBus \ state.keys) + 1
  <2>1. onBus' = onBus \cup {f.key} /\ IsFiniteSet(onBus \cup {f.key})
    BY FS_AddElement DEF Written
  <2> QED BY <2>1, Unknown
<1>2. CASE f.key \in onBus
  <2>1. onBus' = onBus /\ again' = again + 1
    BY <1>2 DEF Written
  <2>2. Cardinality(onBus' \ state.keys) = Cardinality(onBus \ state.keys)
    BY <2>1
  <2> QED BY <1>1, <2>1, <2>2
<1>3. CASE f.key \notin onBus
  BY <1>1, <1>3 DEF Written
<1> QED BY <1>2, <1>3

LEMMA AloneAlerts ==
    ASSUME Typed, Typed', NEW w \in Watchers, Alone(w), NEW f \in found[w], Alert(w, f) \/ AlertFails(w, f)
    PROVE  Alone(w)'
<1>1. /\ pc[w] = "alert" /\ found'[w] = found[w] \ {f} /\ ~last[w]
      /\ UNCHANGED <<state, tmp, fd, left, refused, seen, last>>
  BY DEF Alert, AlertFails, disk, Typed, TypedPass, Alone, Place
<1>2. f.key \notin mem[w] /\ f.key \notin state.keys
  BY <1>1 DEF Alone, Pending, Files
<1>3. again + Cardinality(onBus \ state.keys) <= losses /\ losses <= faults
  <2>1. Owed(w) = 0
    BY <1>1 DEF Owed, Unsaved
  <2>2. Cardinality(onBus \ state.keys) \in Nat /\ again \in Nat /\ losses \in Nat
    BY Unknown DEF Typed, TypedDisk
  <2> QED BY <2>1, <2>2 DEF Alone, Paid
<1>4. CASE Alert(w, f)
  <2>1. /\ pc'[w] = "save" /\ mem'[w] = mem[w] \cup {f.key} /\ onBus' = onBus \cup {f.key}
        /\ UNCHANGED <<code, faults, losses>> /\ Written(f)
    BY <1>4 DEF Alert, AfterAlert, Written, Typed, TypedPass
  <2>2. again' + Cardinality(onBus' \ state.keys) <= losses + 1
    BY <1>3, <2>1, WrittenCosts DEF Typed, TypedDisk
  <2>3. Paid(w)'
    BY <1>1, <1>2, <1>3, <2>1, <2>2 DEF Paid, Owed, Unsaved
  <2> QED BY <1>1, <1>2, <2>1, <2>3 DEF Alone, Files, Place, Pending
<1>5. CASE AlertFails(w, f)
  <2>1. UNCHANGED <<mem, pc>> /\ code'[w] = 2 /\ faults' = faults + 1
    BY <1>5 DEF AlertFails, Fault, Typed, TypedPass
  <2>2. CASE UNCHANGED <<alerts, losses>>
    <3>1. Paid(w)'
      BY <1>1, <2>1, <2>2, PaidKept, WatchAssumption DEF alerts, Unsaved, Alone, Typed, TypedDisk
    <3> QED BY <1>1, <2>1, <3>1 DEF Alone, Files, Place, Pending
  <2>3. CASE Written(f) /\ losses' = losses + 1
    <3>1. again' + Cardinality(onBus' \ state.keys) <= losses'
      BY <1>3, <2>3, WrittenCosts DEF Typed, TypedDisk
    <3>2. again' + Cardinality(onBus' \ state.keys) <= losses' + 0
      BY <3>1 DEF Typed, TypedDisk
    <3>3. losses' <= faults'
      BY <1>3, <2>1, <2>3, WatchAssumption DEF Typed, TypedDisk
    <3>4. ~Unsaved(w)' /\ Owed(w)' = 0
      BY <1>1, <2>1 DEF Owed, Unsaved
    <3>5. Paid(w)'
      BY <1>1, <3>2, <3>3, <3>4 DEF Paid
    <3> QED BY <1>1, <2>1, <3>5 DEF Alone, Files, Place, Pending
  <2> QED BY <1>5, <2>2, <2>3 DEF AlertFails
<1> QED BY <1>4, <1>5

LEMMA AloneSaves ==
    ASSUME Typed, Typed', NEW w \in Watchers, Alone(w),
           SaveOpen(w) \/ SaveWrite(w) \/ SaveRename(w) \/ SaveFails(w)
    PROVE  Alone(w)'
<1>1. UNCHANGED <<mem, left, found, refused, seen, last, onBus, again>>
  BY DEF SaveOpen, SaveWrite, SaveRename, SaveFails, alerts, walk
<1>2. pc[w] \in {"save", "write", "rename"}
  BY DEF SaveOpen, SaveWrite, SaveRename, SaveFails
<1>3. CASE SaveOpen(w) \/ SaveWrite(w)
  <2>1. /\ pc'[w] \in {"write", "rename"} /\ UNCHANGED <<state, losses, faults, code>>
        /\ fd'[w] = IF pc'[w] = "write" THEN "tmp" ELSE "none"
        /\ pc'[w] = "rename" => tmp' = Whole(mem[w])
    BY <1>3 DEF SaveOpen, SaveWrite, Alone, Files, Typed, TypedPass, TypedDisk
  <2>2. Paid(w)'
    BY <1>1, <1>2, <2>1 DEF Alone, Paid, Owed, Unsaved
  <2> QED BY <1>1, <1>2, <2>1, <2>2 DEF Alone, Files, Place, Pending
<1>4. CASE SaveRename(w)
  <2>1. /\ pc[w] = "rename" /\ pc'[w] = IF last[w] THEN "exit" ELSE "alert"
        /\ state' = Whole(mem[w]) /\ UNCHANGED <<losses, faults, code>>
    BY <1>4 DEF SaveRename, Saved, Alone, Files, Typed, TypedPass
  <2>2. state'.keys = mem[w] /\ state'.kind # "torn"
    BY <2>1 DEF Whole
  <2>3. fd'[w] = "none"
    BY <1>4, <2>1 DEF SaveRename, Renamed, Alone, Files
  <2>4. Paid(w)'
    <3>1. state.keys \subseteq mem[w]
      BY <2>1 DEF Alone, Files
    <3>2. /\ Cardinality(onBus \ state.keys) \in Nat /\ Cardinality(onBus \ mem[w]) \in Nat
          /\ Cardinality(onBus \ mem[w]) <= Cardinality(onBus \ state.keys)
      BY <3>1, Unknown DEF Typed, TypedDisk
    <3>3. ~last[w] => Cardinality(onBus \ mem[w]) + 1 <= Cardinality(onBus \ state.keys)
      BY <2>1, <3>1, Unknown DEF Alone, Paid, Unsaved, Typed, TypedDisk
    <3> QED BY <1>1, <2>1, <2>2, <3>2, <3>3 DEF Alone, Paid, Owed, Unsaved, Typed, TypedDisk
  <2> QED BY <1>1, <2>1, <2>2, <2>3, <2>4 DEF Alone, Files, Place, Pending
<1>5. CASE SaveFails(w)
  <2>1. /\ pc'[w] = IF last[w] THEN "exit" ELSE "alert"
        /\ fd'[w] = "none" /\ code'[w] = 2 /\ losses' = losses + 1 /\ UNCHANGED state
    BY <1>5 DEF SaveFails, Saved, Typed, TypedPass, TypedDisk
  <2>2. faults' = faults + 1
    <3>1. ~(pc[w] = "rename" /\ tmp = Absent)
      BY DEF Alone, Files, Whole, Absent
    <3> QED BY <1>5, <3>1 DEF SaveFails, Fault
  <2>3. Paid(w)'
    BY <1>1, <2>1, <2>2, PaidKept DEF Unsaved, Alone
  <2> QED BY <1>1, <1>2, <2>1, <2>3 DEF Alone, Files, Place, Pending
<1> QED BY <1>3, <1>4, <1>5

LEMMA LoneNext ==
    ASSUME OneAtATime, Typed, Lone, [Next]_vars
    PROVE  Lone'
<1>1. Typed'
  BY TypedNext
<1>2. ASSUME NEW w \in Watchers, Proceed(w) \/ Fail(w) PROVE Lone'
  <2>1. Alone(w)
    BY DEF Lone, Alone
  <2>2. Alone(w)'
    BY <1>1, <1>2, <2>1, AloneLeaves, AloneWalks, AloneChecks, AloneTurns, AloneAlerts, AloneSaves
       DEF Proceed, Fail
  <2> QED BY <2>2, OnlyOne
<1>3. CASE UNCHANGED <<disk, alerts, pc, mem, walk, code, bad, last, exit, faults, told, losses, blind>>
  <2>1. UNCHANGED <<state, tmp, fd, onBus, again, pc, mem, left, found, refused, seen, code, last,
                    faults, losses>>
    BY <1>3 DEF disk, alerts, walk
  <2>2. ASSUME NEW w \in Watchers PROVE Files(w)' /\ Place(w)'
    BY <2>1 DEF Lone, Files, Place
  <2>3. ASSUME NEW w \in Watchers PROVE Pending(w)'
    BY <2>1 DEF Lone, Pending
  <2>4. ASSUME NEW w \in Watchers PROVE Paid(w)'
    BY <2>1 DEF Lone, Paid, Owed, Unsaved
  <2> QED BY <2>2, <2>3, <2>4 DEF Lone
<1>4. CASE UNCHANGED vars
  BY <1>3, <1>4 DEF vars
<1> QED BY <1>2, <1>3, <1>4 DEF Next

LEMMA LoneInductive ==
    ASSUME OneAtATime PROVE Spec => [](Typed /\ Lone)
<1>1. Init => Lone
  <2> SUFFICES ASSUME Init, NEW w \in Watchers PROVE Alone(w)
    BY DEF Lone, Alone
  <2>1. Cardinality(onBus \ state.keys) = 0
    BY FS_EmptySet, onBus \ state.keys = {} DEF Init
  <2>2. pc[w] = "out" /\ found[w] = {} /\ seen[w] = {} /\ refused[w] = {} /\ code[w] = 0
        /\ last[w] = FALSE /\ fd[w] = "none" /\ again = 0 /\ losses = 0 /\ faults = 0 /\ state = Absent
    BY DEF Init
  <2> QED BY <2>1, <2>2 DEF Alone, Files, Place, Pending, Paid, Owed, Unsaved, Absent
<1>2. Typed /\ Lone /\ [Next]_vars => (Typed /\ Lone)'
  BY LoneNext, TypedNext
<1> QED BY <1>1, <1>2, TypedInit, PTL DEF Spec

\* The types, and that a pass is never over with a finding it did not put out.
THEOREM Typing == ASSUME OneAtATime PROVE Spec => []TypeOK
<1>1. ASSUME Typed, Lone PROVE TypeOK
  <2>1. \A w \in Watchers : \A f \in found[w] :
          f.key \in Keys /\ f.key \notin mem[w] /\ pc[w] \notin {"out", "refuse", "exit"}
    BY <1>1 DEF Lone, Place, Pending, Typed, TypedPass, Finding
  <2>2. losses \in 0..MaxFaults
    <3>1. losses <= faults
      BY <1>1 DEF OneAtATime, Lone, Paid
    <3> QED BY <1>1, <3>1, WatchAssumption DEF Typed, TypedDisk
  <2> QED BY <1>1, <2>1, <2>2 DEF TypeOK, Typed, TypedBus, TypedDisk, TypedPass, PCs
<1> QED BY <1>1, LoneInductive, PTL

\* A reader of the state file, or a pass that starts after a crash, sees the
\* whole of one save.
THEOREM StateIsWhole == ASSUME OneAtATime PROVE Spec => []NeverHalf
<1>1. ASSUME Lone PROVE NeverHalf
  <2>1. state.kind # "torn"
    BY <1>1 DEF OneAtATime, Lone, Files
  <2> QED BY <2>1 DEF NeverHalf, Torn
<1> QED BY <1>1, LoneInductive, PTL

\* Each crash, each save that failed and each alert whose Write failed with the
\* line on the bus costs one duplicate at worst.
THEOREM DuplicatesBounded == ASSUME OneAtATime PROVE Spec => []OneDuplicateAtWorst
<1>1. ASSUME Typed, Lone PROVE OneDuplicateAtWorst
  <2>1. PICK w \in Watchers : Paid(w)
    BY <1>1 DEF OneAtATime, Lone
  <2>2. Cardinality(onBus \ state.keys) \in Nat
    BY <1>1, Unknown DEF Typed, TypedDisk
  <2>3. again \in Nat /\ losses \in Nat
    BY <1>1 DEF Typed, TypedDisk
  <2>4. CASE Unsaved(w)
    <3>1. Cardinality(onBus \ state.keys) # 0
      <4>1. onBus \ state.keys # {}
        BY <2>1, <2>4 DEF Paid
      <4>2. IsFiniteSet(onBus \ state.keys)
        BY <1>1, FS_Subset, onBus \ state.keys \subseteq onBus DEF Typed, TypedDisk
      <4> QED BY <4>1, <4>2, FS_EmptySet
    <3>2. again + Cardinality(onBus \ state.keys) <= losses + 1
      BY <2>1, <2>4 DEF Paid, Owed
    <3> QED BY <2>2, <2>3, <3>1, <3>2 DEF OneDuplicateAtWorst
  <2>5. CASE ~Unsaved(w)
    <3>1. again + Cardinality(onBus \ state.keys) <= losses + 0
      BY <2>1, <2>5 DEF Paid, Owed
    <3> QED BY <2>2, <2>3, <3>1 DEF OneDuplicateAtWorst
  <2> QED BY <2>4, <2>5
<1> QED BY <1>1, LoneInductive, PTL

\* A pass that exits 0 or 1 leaves all it found in the state file.
THEOREM CleanExits == ASSUME OneAtATime PROVE Spec => CleanExitIsComplete
<1> DEFINE Exits(w) == pc[w] = "exit" /\ pc'[w] = "out" /\ exit'[w] \in {0, 1}
<1>1. ASSUME Typed, Lone, [Next]_vars
      PROVE  [\A w \in Watchers : Exits(w) => seen[w] \subseteq state'.keys]_vars
  <2> SUFFICES ASSUME Next, NEW w \in Watchers, Exits(w)
               PROVE  seen[w] \subseteq state'.keys
    BY <1>1
  <2>1. \A v \in Watchers : v = w
    BY DEF OneAtATime
  <2>2. Exit(w) \/ Crash(w)
    <3>1. PICK v \in Watchers : Proceed(v) \/ Fail(v)
      BY DEF Next
    <3>2. v = w
      BY <2>1
    <3>3. Proceed(w) \/ Fail(w)
      BY <3>1, <3>2
    <3> QED BY <3>3
        DEF Proceed, Fail, Load, LoadFails, VerifyStream, CheckStream, OpenOutput, OpenOutputFails,
            Alert, AlertFails, CloseOutput, Refuse, SaveOpen, SaveWrite, SaveRename, SaveFails
  <2>3. CASE Crash(w)
    BY <1>1, <2>3 DEF Crash, Killed, Typed, TypedPass
  <2>4. CASE Exit(w)
    <3>1. code[w] # 2 /\ state' = state
      BY <1>1, <2>4 DEF Exit, disk, Typed, TypedPass
    <3>2. mem[w] = state.keys /\ refused[w] \subseteq mem[w] /\ found[w] = {}
      BY <1>1, <2>4, <3>1 DEF Exit, Lone, Files, Place
    <3> QED BY <1>1, <3>1, <3>2 DEF Lone, Pending
  <2> QED BY <2>2, <2>3, <2>4
<1> QED BY <1>1, LoneInductive, PTL DEF Spec, CleanExitIsComplete
===============================================================================
