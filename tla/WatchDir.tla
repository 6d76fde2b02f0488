------------------------------- MODULE WatchDir -------------------------------
(***************************************************************************)
(* cmd/agent-conform/watchdir.go: passes over a bus of streams, each new    *)
(* finding put on the bus as an alert and remembered in a state file.       *)
(*                                                                          *)
(* A stream is the sequence of what ChainVerify tells of its lines, and a   *)
(* sidecar what Checkpoints tells of it: the records refused and the lines  *)
(* named by valid resume records.  Both change while a pass runs.  A pass   *)
(* is one step per call that touches a file, so a crash, and another pass,  *)
(* may come between any two.                                                *)
(***************************************************************************)
EXTENDS Naturals, Sequences, FiniteSets

CONSTANTS
    Watchers,      \* passes that may run at once (a job, a loop)
    Streams,
    Contents,      \* what anybody else may turn a stream into
    Records,       \* positions of checkpoint records
    MaxLines,      \* bound: lines writers let a stream grow to
    MaxTampers,    \* bound: changes of the bus by anybody else
    MaxFaults      \* bound: calls that fail and crashes

\* A line is an event with no prev_hash, one that nothing contradicts, one that
\* the event before it contradicts, or no event.
Kinds   == {"head", "linked", "break", "malformed"}
Content == Seq(Kinds)

ASSUME WatchAssumption ==
    /\ Contents \subseteq Content
    /\ \A c \in Contents : \A i \in 1..Len(c) :
          c[i] = "break" => i > 1 /\ c[i - 1] # "malformed"
    /\ Records \subseteq Nat \ {0}
    /\ MaxLines \in Nat /\ MaxTampers \in Nat /\ MaxFaults \in Nat

Types == {"chain_broken", "chain_unchained", "chain_restarted", "checkpoint_refused"}
Keys  == Streams \X Types \X Nat

\* A state file, or its sibling.
File   == [kind : {"absent", "torn", "whole"}, keys : SUBSET Keys]
Absent == [kind |-> "absent", keys |-> {}]
Torn   == [kind |-> "torn", keys |-> {}]
Whole(ks) == [kind |-> "whole", keys |-> ks]

VARIABLES
    bus,       \* what the streams hold
    resumes,   \* lines named by valid resume records
    refuted,   \* records that do not hold
    state,     \* the state file
    tmp,       \* its temporary sibling
    onBus,     \* keys of the alerts written
    high,      \* those of restarts that were called unexplained
    pc, mem,   \* where a pass is; state.Reported
    left,      \* streams not read yet
    cur, verdict,
    found,     \* findings, [key, explained]
    refused,   \* keys of new refusals
    code, bad, \* code; newBroken + newRefused > 0
    fd,        \* which file a pass has open for writing
    last,      \* whether the save is the last one
    exit,      \* exit code of the last pass
    tampers, faults,
    seen,      \* history: keys a pass found, new or not
    told,      \* history: refusals of passes that exited 1
    again,     \* history: alerts written twice
    blind,     \* history: streams whose sidecar some pass failed to read
    losses,    \* history: crashes, saves that failed, and alerts whose Write
               \* failed with the line on the bus
    unnamed,   \* history: restarts that stood there and no record named
    lost       \* history: lines whose resume record stopped holding

world  == <<bus, resumes, refuted, tampers, unnamed, lost>>
disk   == <<state, tmp, fd>>
alerts == <<onBus, high, again>>
walk   == <<left, cur, verdict, found, refused, seen>>
vars   == <<world, disk, alerts, pc, mem, walk, code, bad, last, exit, faults, told, losses, blind>>

Killed == 137      \* no exit code of the program's own
Key(s, typ, line) == <<s, typ, line>>

-----------------------------------------------------------------------------
(* What a pass says of the lines it read. *)

Events(c) == {i \in 1..Len(c) : c[i] # "malformed"}
Heads(c)  == {i \in Events(c) : c[i] = "head"}
Breaks(c) == {i \in Events(c) : c[i] = "break"}
FirstBreak(c)   == {b \in Breaks(c) : \A k \in Breaks(c) : b <= k}
RestartLines(c) == {i \in Heads(c) : \E k \in Heads(c) : k < i}

\* A single event is never judged: the first of every chain is a head.
IsUnchained(c) == Heads(c) = Events(c) /\ \E i, k \in Events(c) : i # k

\* a is the last event before line l.
LastBefore(c, l, a) ==
    /\ a \in Events(c) /\ a < l
    /\ \A k \in Events(c) : k < l => k <= a

\* Seeded fault: the line of the restart where the line before it is meant.
ExplainedByLine(c, l, named) == l \in named
Explained(c, l, named) == \E a \in named : LastBefore(c, l, a)

\* All that is to say of a stream: at most one of broken and unchained, and
\* the restarts of one that is chained.
Findings(s, c, named) ==
    IF IsUnchained(c)
    THEN {[key |-> Key(s, "chain_unchained", 0), explained |-> FALSE]}
    ELSE {[key |-> Key(s, "chain_broken", b), explained |-> FALSE] : b \in FirstBreak(c)}
           \cup {[key |-> Key(s, "chain_restarted", l), explained |-> Explained(c, l, named)]
                   : l \in RestartLines(c)}

-----------------------------------------------------------------------------
\* Restarts of c that none of the records names the line before of.
Unnamed(c, named) == {l \in RestartLines(c) : \A a \in named : ~LastBefore(c, l, a)}

Init ==
    /\ bus \in [Streams -> Contents]
    /\ resumes = [s \in Streams |-> {}] /\ refuted = [s \in Streams |-> {}]
    /\ state = Absent /\ tmp = Absent /\ fd = [w \in Watchers |-> "none"]
    /\ unnamed = UNION {{s} \X Unnamed(bus[s], {}) : s \in Streams}
    /\ lost = {}
    /\ onBus = {} /\ high = {} /\ again = 0
    /\ pc = [w \in Watchers |-> "out"]
    /\ mem = [w \in Watchers |-> {}]
    /\ left = [w \in Watchers |-> {}]
    /\ cur \in [Watchers -> {CHOOSE s \in Streams : TRUE}]
    /\ verdict = [w \in Watchers |-> << >>]
    /\ found = [w \in Watchers |-> {}]
    /\ refused = [w \in Watchers |-> {}] /\ seen = [w \in Watchers |-> {}]
    /\ code = [w \in Watchers |-> 0] /\ bad = [w \in Watchers |-> FALSE]
    /\ last = [w \in Watchers |-> FALSE]
    /\ exit = [w \in Watchers |-> 0]
    /\ tampers = 0 /\ faults = 0 /\ told = {} /\ losses = 0 /\ blind = {}

Fault == faults < MaxFaults /\ faults' = faults + 1

\* The pass is over, and what it had in memory is gone.
Leave(w) ==
    /\ pc' = [pc EXCEPT ![w] = "out"]
    /\ mem' = [mem EXCEPT ![w] = {}]
    /\ left' = [left EXCEPT ![w] = {}]
    /\ verdict' = [verdict EXCEPT ![w] = << >>]
    /\ found' = [found EXCEPT ![w] = {}]
    /\ refused' = [refused EXCEPT ![w] = {}] /\ seen' = [seen EXCEPT ![w] = {}]
    /\ code' = [code EXCEPT ![w] = 0] /\ bad' = [bad EXCEPT ![w] = FALSE]
    /\ last' = [last EXCEPT ![w] = FALSE]
    /\ UNCHANGED cur

-----------------------------------------------------------------------------
(* The walk: loadWatchState, then every stream and its sidecar. *)

Load(w) ==
    /\ pc[w] = "out" /\ state # Torn
    /\ mem' = [mem EXCEPT ![w] = state.keys]
    /\ left' = [left EXCEPT ![w] = Streams]
    /\ pc' = [pc EXCEPT ![w] = "walk"]
    /\ UNCHANGED <<world, disk, alerts, cur, verdict, found, refused, seen, code, bad, last,
                   exit, faults, told, losses, blind>>

\* No directory, no stream in it, or a state that does not parse.
LoadFails(w) ==
    /\ pc[w] = "out"
    /\ IF state = Torn THEN UNCHANGED faults ELSE Fault
    /\ exit' = [exit EXCEPT ![w] = 2]
    /\ UNCHANGED <<world, disk, alerts, pc, mem, walk, code, bad, last, told, losses, blind>>

\* The first n lines: all that was read.
Part(c, n) == SubSeq(c, 1, n)

VerifyStream(w, s) ==
    /\ pc[w] = "walk" /\ s \in left[w]
    /\ cur' = [cur EXCEPT ![w] = s]
    /\ \/ verdict' = [verdict EXCEPT ![w] = bus[s]] /\ UNCHANGED <<code, faults>>
       \/ \* not read to its end: a cap, an oversize line
          /\ Fault
          /\ \E n \in 0..Len(bus[s]) :
                verdict' = [verdict EXCEPT ![w] = Part(bus[s], n)]
          /\ code' = [code EXCEPT ![w] = 2]
    /\ pc' = [pc EXCEPT ![w] = "sidecar"]
    /\ UNCHANGED <<world, disk, alerts, mem, left, found, refused, seen, bad, last, exit, told, losses, blind>>

\* Seeded fault: restarts are not looked up.
NewOrRestart(w, k) == k \notin mem[w] \/ k[2] = "chain_restarted"
New(w, k) == k \notin mem[w]

Collect(w, named, wrong) ==
    LET all == Findings(cur[w], verdict[w], named)
        ref == {Key(cur[w], "checkpoint_refused", i) : i \in wrong}
    IN /\ found' = [found EXCEPT ![w] = @ \cup {f \in all : New(w, f.key)}]
       /\ refused' = [refused EXCEPT ![w] = @ \cup {k \in ref : New(w, k)}]
       /\ seen' = [seen EXCEPT ![w] = @ \cup ref \cup {f.key : f \in all}]

CheckStream(w) ==
    /\ pc[w] = "sidecar"
    /\ \/ Collect(w, resumes[cur[w]], refuted[cur[w]]) /\ UNCHANGED <<code, faults, blind>>
       \/ /\ Fault
          /\ Collect(w, {}, {})
          /\ blind' = blind \cup {cur[w]}
          /\ code' = [code EXCEPT ![w] = 2]
    /\ left' = [left EXCEPT ![w] = @ \ {cur[w]}]
    /\ verdict' = [verdict EXCEPT ![w] = << >>]
    /\ pc' = [pc EXCEPT ![w] = IF left'[w] # {} THEN "walk"
                               ELSE IF found'[w] # {} THEN "open" ELSE "refuse"]
    /\ UNCHANGED <<world, disk, alerts, mem, cur, bad, last, exit, told, losses>>

-----------------------------------------------------------------------------
(* The alerts, each one saved before the next is written. *)

OpenOutput(w) ==
    /\ pc[w] = "open"
    /\ pc' = [pc EXCEPT ![w] = "alert"]
    /\ UNCHANGED <<world, disk, alerts, mem, walk, code, bad, last, exit, faults, told, losses, blind>>

OpenOutputFails(w) ==
    /\ pc[w] = "open" /\ Fault
    /\ Leave(w)
    /\ exit' = [exit EXCEPT ![w] = 2]
    /\ UNCHANGED <<world, disk, alerts, told, losses, blind>>

AfterAlert == "save"

\* The alert is a line of the bus.
Written(f) ==
    /\ again' = IF f.key \in onBus THEN again + 1 ELSE again
    /\ onBus' = onBus \cup {f.key}
    /\ high' = IF f.key[2] = "chain_restarted" /\ ~f.explained THEN high \cup {f.key} ELSE high

Alert(w, f) ==
    /\ pc[w] = "alert" /\ f \in found[w]
    /\ Written(f)
    /\ mem' = [mem EXCEPT ![w] = @ \cup {f.key}]
    /\ bad' = [bad EXCEPT ![w] = @ \/ f.key[2] = "chain_broken"]
    /\ found' = [found EXCEPT ![w] = @ \ {f}]
    /\ pc' = [pc EXCEPT ![w] = AfterAlert]
    /\ UNCHANGED <<world, disk, left, cur, verdict, refused, seen, code, last, exit, faults, told, losses, blind>>

\* Seeded fault: an alert is remembered whether it was written or not.
AlertFailsRecorded(w, f) ==
    /\ pc[w] = "alert" /\ f \in found[w] /\ Fault
    /\ mem' = [mem EXCEPT ![w] = @ \cup {f.key}]
    /\ code' = [code EXCEPT ![w] = 2]
    /\ found' = [found EXCEPT ![w] = @ \ {f}]
    /\ UNCHANGED <<world, disk, alerts, pc, left, cur, verdict, refused, seen, bad, last, exit,
                   told, losses, blind>>

\* Seeded fault: the first alert that fails ends the writing.
AlertFailsAndStops(w, f) ==
    /\ pc[w] = "alert" /\ f \in found[w] /\ Fault
    /\ code' = [code EXCEPT ![w] = 2]
    /\ pc' = [pc EXCEPT ![w] = "refuse"]
    /\ UNCHANGED <<world, disk, alerts, mem, walk, bad, last, exit, told, losses, blind>>

\* Write returned an error and the alert is not remembered: nothing was written,
\* or all of it was and the lock could not be let go of.
AlertFails(w, f) ==
    /\ pc[w] = "alert" /\ f \in found[w] /\ Fault
    /\ \/ UNCHANGED <<alerts, losses>>
       \/ Written(f) /\ losses' = losses + 1
    /\ code' = [code EXCEPT ![w] = 2]
    /\ found' = [found EXCEPT ![w] = @ \ {f}]
    /\ UNCHANGED <<world, disk, pc, mem, left, cur, verdict, refused, seen, bad, last, exit,
                   told, blind>>

CloseOutput(w) ==
    /\ pc[w] = "alert" /\ found[w] = {}
    /\ \/ UNCHANGED <<code, faults>>
       \/ Fault /\ code' = [code EXCEPT ![w] = 2]
    /\ pc' = [pc EXCEPT ![w] = "refuse"]
    /\ UNCHANGED <<world, disk, alerts, mem, walk, bad, last, exit, told, losses, blind>>

Refuse(w) ==
    /\ pc[w] = "refuse"
    /\ mem' = [mem EXCEPT ![w] = @ \cup refused[w]]
    /\ bad' = [bad EXCEPT ![w] = @ \/ refused[w] # {}]
    /\ last' = [last EXCEPT ![w] = TRUE]
    /\ pc' = [pc EXCEPT ![w] = IF refused[w] # {} THEN "save" ELSE "exit"]
    /\ UNCHANGED <<world, disk, alerts, walk, code, exit, faults, told, losses, blind>>

Exit(w) ==
    /\ pc[w] = "exit"
    /\ exit' = [exit EXCEPT ![w] = IF code[w] = 2 THEN 2 ELSE IF bad[w] THEN 1 ELSE 0]
    /\ told' = IF exit'[w] = 1 THEN told \cup refused[w] ELSE told
    /\ Leave(w)
    /\ UNCHANGED <<world, disk, alerts, faults, losses, blind>>

-----------------------------------------------------------------------------
(* saveWatchState: os.WriteFile truncates, then writes; then the rename. *)

Saved(w) == pc' = [pc EXCEPT ![w] = IF last[w] THEN "exit" ELSE "alert"]

\* Seeded fault: the bytes go straight to the state file.
SaveOpenInPlace(w) ==
    /\ pc[w] = "save"
    /\ state' = Torn
    /\ tmp' = Whole(mem[w])
    /\ fd' = [fd EXCEPT ![w] = "state"]
    /\ pc' = [pc EXCEPT ![w] = "write"]
    /\ UNCHANGED <<world, alerts, mem, walk, code, bad, last, exit, faults, told, losses, blind>>

SaveOpen(w) ==
    /\ pc[w] = "save"
    /\ tmp' = Torn
    /\ fd' = [fd EXCEPT ![w] = "tmp"]
    /\ pc' = [pc EXCEPT ![w] = "write"]
    /\ UNCHANGED <<world, state, alerts, mem, walk, code, bad, last, exit, faults, told, losses, blind>>

\* The bytes go to the file that was opened, whatever it is called by now.
SaveWrite(w) ==
    /\ pc[w] = "write"
    /\ tmp'   = IF fd[w] = "tmp"   THEN Whole(mem[w]) ELSE tmp
    /\ state' = IF fd[w] = "state" THEN Whole(mem[w]) ELSE state
    /\ fd' = [fd EXCEPT ![w] = "none"]
    /\ pc' = [pc EXCEPT ![w] = "rename"]
    /\ UNCHANGED <<world, alerts, mem, walk, code, bad, last, exit, faults, told, losses, blind>>

Renamed(v) == CASE fd[v] = "tmp" -> "state" [] fd[v] = "state" -> "gone" [] OTHER -> fd[v]

SaveRename(w) ==
    /\ pc[w] = "rename" /\ tmp # Absent
    /\ state' = tmp /\ tmp' = Absent
    /\ fd' = [v \in Watchers |-> Renamed(v)]
    /\ Saved(w)
    /\ UNCHANGED <<world, alerts, mem, walk, code, bad, last, exit, faults, told, losses, blind>>

\* Seeded fault: a save that failed is not held against the pass.
SaveFailsQuietly(w) ==
    /\ pc[w] \in {"save", "write", "rename"} /\ Fault
    /\ tmp' \in {tmp, IF pc[w] = "rename" THEN Absent ELSE Torn}
    /\ fd' = [fd EXCEPT ![w] = "none"]
    /\ losses' = losses + 1
    /\ Saved(w)
    /\ UNCHANGED <<world, state, alerts, mem, walk, code, bad, last, exit, told, blind>>

SaveFails(w) ==
    /\ pc[w] \in {"save", "write", "rename"}
    /\ IF pc[w] = "rename" /\ tmp = Absent THEN UNCHANGED faults ELSE Fault
    /\ tmp' = IF pc[w] = "rename" THEN Absent ELSE IF fd[w] = "tmp" THEN Torn ELSE tmp
    /\ fd' = [fd EXCEPT ![w] = "none"]
    /\ code' = [code EXCEPT ![w] = 2]
    /\ losses' = losses + 1
    /\ Saved(w)
    /\ UNCHANGED <<world, state, alerts, mem, walk, bad, last, exit, told, blind>>

Crash(w) ==
    /\ pc[w] # "out" /\ Fault
    /\ Leave(w)
    /\ fd' = [fd EXCEPT ![w] = "none"]
    /\ losses' = losses + 1
    /\ exit' = [exit EXCEPT ![w] = Killed]
    /\ UNCHANGED <<world, state, tmp, alerts, told, blind>>

-----------------------------------------------------------------------------
(* The bus. *)

\* Stream s is c now, and ns are the lines that valid resume records name.
Becomes(s, c, ns) ==
    /\ bus' = [bus EXCEPT ![s] = c]
    /\ resumes' = [resumes EXCEPT ![s] = ns]
    /\ unnamed' = unnamed \cup ({s} \X Unnamed(c, ns))
    /\ lost' = lost \cup ({s} \X (resumes[s] \ ns))

Ends(s, k) == Len(bus[s]) > 0 /\ bus[s][Len(bus[s])] = k

\* A writer appends: an event chained to the one before it or one of its own,
\* or, when it dies, something that is no event.
Grow(s) ==
    /\ Len(bus[s]) < MaxLines
    /\ \E k \in {"head", "malformed"}
                  \cup (IF bus[s] = << >> \/ Ends(s, "malformed") THEN {} ELSE {"linked"}) :
          Becomes(s, Append(bus[s], k), resumes[s])
    /\ UNCHANGED <<refuted, tampers>>

\* A CheckpointedWriter is opened on a stream that does not end in an event.  It
\* writes no such record when what is at the end has no newline, so this step is
\* not owed before a head.
ResumeRecord(s) ==
    /\ Ends(s, "malformed")
    /\ \E a \in 1..Len(bus[s]) :
          LastBefore(bus[s], Len(bus[s]), a) /\ Becomes(s, bus[s], resumes[s] \cup {a})
    /\ UNCHANGED <<refuted, tampers>>

\* Anybody else, on the stream and its sidecar.  A resume record whose bytes of
\* the stream were touched does not hold any more; nobody can sign a new one.
Tamper(s) ==
    /\ tampers < MaxTampers /\ tampers' = tampers + 1
    /\ \E c \in Contents, wrong \in SUBSET Records :
          /\ \E kept \in SUBSET {a \in resumes[s] : a <= Len(c) /\ Part(c, a) = Part(bus[s], a)} :
                Becomes(s, c, kept)
          /\ refuted' = [refuted EXCEPT ![s] = wrong]

World == \E s \in Streams : Grow(s) \/ ResumeRecord(s) \/ Tamper(s)

-----------------------------------------------------------------------------
Proceed(w) ==
    \/ Load(w) \/ \E s \in Streams : VerifyStream(w, s)
    \/ CheckStream(w) \/ OpenOutput(w)
    \/ \E f \in found[w] : Alert(w, f)
    \/ CloseOutput(w) \/ Refuse(w) \/ Exit(w)
    \/ SaveOpen(w) \/ SaveWrite(w) \/ SaveRename(w)

Fail(w) ==
    \/ LoadFails(w) \/ OpenOutputFails(w) \/ SaveFails(w) \/ Crash(w)
    \/ \E f \in found[w] : AlertFails(w, f)

Next ==
    \/ \E w \in Watchers : Proceed(w) \/ Fail(w)
    \/ World /\ UNCHANGED <<disk, alerts, pc, mem, walk, code, bad, last, exit, faults, told, losses, blind>>

Spec == Init /\ [][Next]_vars

\* A job or a loop starts the next pass, and what can be done is done.
FairSpec == Spec /\ \A w \in Watchers : WF_vars(Proceed(w))
-----------------------------------------------------------------------------
TypeOK ==
    /\ bus \in [Streams -> Content]
    /\ resumes \in [Streams -> SUBSET Nat] /\ refuted \in [Streams -> SUBSET Records]
    /\ state \in File /\ tmp \in File
    /\ fd \in [Watchers -> {"none", "tmp", "state", "gone"}]
    /\ onBus \subseteq Keys /\ high \subseteq onBus
    /\ pc \in [Watchers -> {"out", "walk", "sidecar", "open", "alert", "refuse", "save",
                            "write", "rename", "exit"}]
    /\ mem \in [Watchers -> SUBSET Keys] /\ refused \in [Watchers -> SUBSET Keys]
    /\ \A w \in Watchers : \A f \in found[w] :
          f.key \in Keys /\ f.key \notin mem[w] /\ pc[w] \notin {"out", "refuse", "exit"}
    /\ code \in [Watchers -> {0, 2}] /\ exit \in [Watchers -> {0, 1, 2, Killed}]
    /\ again \in Nat /\ losses \in 0..MaxFaults

\* "A failed delivery" never becomes "a silent loss": what the state file, its
\* sibling or a running pass remembers as reported is on the bus.
RecordedIsOnTheBus ==
    \A k \in UNION ({state.keys, tmp.keys} \cup {mem[w] : w \in Watchers}) :
        k[2] # "checkpoint_refused" => k \in onBus

\* "A crash between two alerts must cost one duplicate at worst, never a loss",
\* and so must a save that failed or an alert whose Write failed with the line on
\* the bus: nothing else makes a finding be written twice.
OneDuplicateAtWorst == again <= losses

\* "A run that could not finish its job must not look like one that could":
\* after an exit of 0 or 1 all that the pass found is in the state file.
CleanExitIsComplete ==
    [][\A w \in Watchers :
          pc[w] = "exit" /\ pc'[w] = "out" /\ exit'[w] \in {0, 1} => seen[w] \subseteq state'.keys]_vars

\* "So a reader (or a crash) never sees half of it."
NeverHalf == state # Torn

\* A restart "is medium when a valid resume checkpoint names the last
\* well-formed line before it, and high when none does": one called high stood
\* on the bus at some time with no record naming that line, or a record of a
\* line before it stopped holding, or a pass could not read the sidecar.  So no
\* writer that puts its record before the line is called high for being at work.
UnexplainedOnlyIfUnnamed ==
    \A s \in Streams, l \in 1..MaxLines :
        Key(s, "chain_restarted", l) \in high =>
            s \in blind \/ <<s, l>> \in unnamed \/ \E a \in 1..l : a < l /\ <<s, a>> \in lost

\* A refusal "makes the run exit 1 the first time it is seen": one that is
\* remembered made some run exit 1, or a run that is not over will.
RefusalExitsOne ==
    losses = 0 =>
    \A k \in state.keys :
        k[2] = "checkpoint_refused" /\ (\A w \in Watchers : pc[w] = "out") => k \in told

\* A break that stays is put on the bus.
BreakIsReported ==
    \A s \in Streams, b \in 1..MaxLines :
        (<>[](b \in FirstBreak(bus[s])) => <>(Key(s, "chain_broken", b) \in onBus))
===============================================================================
