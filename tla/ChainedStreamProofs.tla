-------------------------- MODULE ChainedStreamProofs --------------------------
(***************************************************************************)
(* The writers implement the abstract stream, for any number of threads,    *)
(* handles and calls, and so never break a chain.                           *)
(*                                                                          *)
(* The argument: Discipline says that whoever is past the file lock is      *)
(* there alone, hence nobody changes the stream between the read of its     *)
(* tail and the append (TailCurrent), hence an append is the append of      *)
(* ChainLog, one step that chains from what is last on disk, hence          *)
(* ChainLogProofs applies.                                                  *)
(***************************************************************************)
EXTENDS ChainedStream, ChainLogProofs

Inv == TypeOK /\ Unbroken(file) /\ Discipline /\ TailCurrent

\* Past the file lock there is one thread: two would be on one handle, and
\* either both hold its mutex or one is still opening it.
LEMMA Alone ==
    ASSUME Discipline
    PROVE  OneInside
<1> SUFFICES ASSUME NEW t \in Threads, NEW u \in Threads, Holds(t), Holds(u)
             PROVE  t = u
  BY DEF OneInside
<1>1. on[t] = on[u]
  BY DEF Discipline
<1>2. CASE pc[t] \in Opening \/ pc[u] \in Opening
  BY <1>1, <1>2 DEF Discipline, Holds, Inside, Shut, Writing, Opening, Locked
<1>3. CASE pc[t] \in Locked /\ pc[u] \in Locked
  BY <1>1, <1>3 DEF Discipline
<1> QED BY <1>2, <1>3 DEF Holds, Inside, Shut, Writing, Opening

\* The event a thread is about to write is one, and so is the line it acks.
LEMMA StampedLine ==
    ASSUME TypeOK, NEW t \in Threads
    PROVE  Stamped(t) \in Line
<1>1. body[t] \in Hash /\ tail[t].hash \in Hash /\ None \in Hash
  BY DEF TypeOK, Hash
<1> QED BY <1>1 DEF Stamped, Event, Line

\* A step of the writers is a step of the abstract stream, or none of it.
LEMMA StepRefines ==
    ASSUME Inv, [Next]_vars
    PROVE  [LogNext]_file
<1>1. ASSUME NEW t \in Threads, pc[t] = "append", ~Shut(t),
             on[t] \in Chained => body[t] \in Hashable
      PROVE  /\ body[t] \in Content
             /\ on[t] \in Chained => /\ Stamped(t) = Event(body[t], TailHash(file))
                                     /\ Leads(t) = ~EndsNewline(file)
             /\ on[t] \notin Chained => /\ Stamped(t) = Event(body[t], None)
                                        /\ Leads(t) = FALSE
  BY <1>1 DEF Inv, Discipline, TailCurrent, Stamped, Leads, NoTail, Locked, Writing
<1>2. ASSUME NEW t \in Threads, AppendLine(t)
      PROVE  LogNext
  <2>1. pc[t] = "append" /\ ~Shut(t) /\ (on[t] \in Chained => body[t] \in Hashable)
        /\ file' = PutLine(file, Leads(t), Stamped(t))
    BY <1>2 DEF AppendLine
  <2>2. CASE on[t] \in Chained
    <3>1. ChainedAppend(body[t]) /\ body[t] \in Content
      BY <2>1, <2>2, <1>1 DEF ChainedAppend
    <3> QED BY <3>1 DEF LogNext
  <2>3. CASE on[t] \notin Chained
    <3>1. PlainAppend(body[t]) /\ body[t] \in Content
      BY <2>1, <2>3, <1>1 DEF PlainAppend
    <3> QED BY <3>1 DEF LogNext
  <2> QED BY <2>2, <2>3
<1>3. ASSUME NEW t \in Threads, AppendFails(t)
      PROVE  [LogNext]_file
  <2>0. CASE Shut(t)
    BY <1>3, <2>0 DEF AppendFails
  <2> SUFFICES ASSUME ~Shut(t) PROVE LogNext
    BY <2>0
  <2>1. pc[t] = "append" /\ (on[t] \in Chained => body[t] \in Hashable)
        /\ file' \in ShortWrites(file, Leads(t), Stamped(t))
    BY <1>3 DEF AppendFails
  <2>2. CASE on[t] \in Chained
    <3>1. ChainedAppendFails(body[t]) /\ body[t] \in Content
      BY <2>1, <2>2, <1>1 DEF ChainedAppendFails
    <3> QED BY <3>1 DEF LogNext
  <2>3. CASE on[t] \notin Chained
    <3>1. PlainAppendFails(body[t]) /\ body[t] \in Content
      BY <2>1, <2>3, <1>1 DEF PlainAppendFails
    <3> QED BY <3>1 DEF LogNext
  <2> QED BY <2>2, <2>3
<1>4. CASE PowerLoss
  BY <1>4 DEF PowerLoss, LogNext, LosePower
<1>5. ASSUME NEW t \in Threads, Step(t), ~AppendLine(t), ~AppendFails(t)
      PROVE  UNCHANGED file
  BY <1>5 DEF Step, OpenLock, OpenLockFails, OpenTail, OpenUnlock, OpenUnlockFails,
     TakeMu, TakeLock, LockFails, ReadTail, ReadTailFails, Refuse, Finish, FinishFails, Panic
<1>6. ASSUME NEW h \in Handles, OpenPlain(h) \/ Close(h) \/ Crash(h)
      PROVE  UNCHANGED file
  BY <1>6 DEF OpenPlain, Close, Crash
<1>7. ASSUME NEW t \in Threads, NEW h \in Handles, OpenChained(t, h)
      PROVE  UNCHANGED file
  BY <1>7 DEF OpenChained
<1>8. ASSUME NEW t \in Threads, NEW h \in Handles, NEW c \in Content, Begin(t, h, c)
      PROVE  UNCHANGED file
  BY <1>8 DEF Begin
<1> QED BY <1>2, <1>3, <1>4, <1>5, <1>6, <1>7, <1>8 DEF Next, vars

LEMMA EndsNewlineBoolean ==
    ASSUME NEW f, WellFormed(f)
    PROVE  EndsNewline(f) \in BOOLEAN
<1>1. f \in Seq(Line) /\ Len(f) \in Nat
  BY LenProperties DEF WellFormed
<1>2. CASE Len(f) = 0
  BY <1>2 DEF EndsNewline
<1>3. CASE Len(f) # 0
  <2>1. f[Len(f)] \in Line
    BY <1>1, <1>3, ElementOfSeq
  <2> QED BY <2>1 DEF EndsNewline, Line
<1> QED BY <1>2, <1>3

\* Every action keeps the types; the stream's own are LogStep's business.
LEMMA StepTypes ==
    ASSUME TypeOK, Discipline, [Next]_vars, WellFormed(file')
    PROVE  TypeOK'
<1>1. ASSUME NEW t \in Threads, OpenLock(t)
      PROVE  TypeOK'
  BY <1>1, TypeOK, WellFormed(file'), Discipline, StreamAssumption DEF OpenLock, Grantable, TypeOK, PCs, Locked, Opening, NoTail, Hash, call, Discipline, Holds, Inside, Shut, Writing
<1>2. ASSUME NEW t \in Threads, OpenLockFails(t)
      PROVE  TypeOK'
  BY <1>2, TypeOK, WellFormed(file'), Discipline, StreamAssumption DEF OpenLockFails, Return, TypeOK, PCs, Locked, Opening, NoTail, Hash, call, Discipline, Holds, Inside, Shut, Writing
<1>3. ASSUME NEW t \in Threads, OpenTail(t)
      PROVE  TypeOK'
  BY <1>3, TypeOK, WellFormed(file'), Discipline, StreamAssumption, TailHashOf, EndsNewlineBoolean DEF OpenTail, TypeOK, PCs, Locked, Opening, NoTail, Hash, call, Discipline, Holds, Inside, Shut, Writing
<1>4. ASSUME NEW t \in Threads, OpenUnlock(t)
      PROVE  TypeOK'
  BY <1>4, TypeOK, WellFormed(file'), Discipline, StreamAssumption DEF OpenUnlock, Unlock, Return, Discipline, Holds, Inside, Shut, Writing, TypeOK, PCs, Locked, Opening, NoTail, Hash, call
<1>5. ASSUME NEW t \in Threads, OpenUnlockFails(t)
      PROVE  TypeOK'
  BY <1>5, TypeOK, WellFormed(file'), Discipline, StreamAssumption DEF OpenUnlockFails, Return, TypeOK, PCs, Locked, Opening, NoTail, Hash, call, Discipline, Holds, Inside, Shut, Writing
<1>6. ASSUME NEW t \in Threads, TakeMu(t)
      PROVE  TypeOK'
  BY <1>6, TypeOK, WellFormed(file'), Discipline, StreamAssumption DEF TakeMu, TypeOK, PCs, Locked, Opening, NoTail, Hash, call, Discipline, Holds, Inside, Shut, Writing
<1>7. ASSUME NEW t \in Threads, TakeLock(t)
      PROVE  TypeOK'
  BY <1>7, TypeOK, WellFormed(file'), Discipline, StreamAssumption DEF TakeLock, Grantable, TypeOK, PCs, Locked, Opening, NoTail, Hash, call, Discipline, Holds, Inside, Shut, Writing
<1>8. ASSUME NEW t \in Threads, LockFails(t)
      PROVE  TypeOK'
  BY <1>8, TypeOK, WellFormed(file'), Discipline, StreamAssumption DEF LockFails, LeaveMu, Return, TypeOK, PCs, Locked, Opening, NoTail, Hash, call, Discipline, Holds, Inside, Shut, Writing
<1>9. ASSUME NEW t \in Threads, ReadTail(t)
      PROVE  TypeOK'
  BY <1>9, TypeOK, WellFormed(file'), Discipline, StreamAssumption, TailHashOf, EndsNewlineBoolean DEF ReadTail, TypeOK, PCs, Locked, Opening, NoTail, Hash, call, Discipline, Holds, Inside, Shut, Writing
<1>10. ASSUME NEW t \in Threads, ReadTailFails(t)
      PROVE  TypeOK'
  BY <1>10, TypeOK, WellFormed(file'), Discipline, StreamAssumption DEF ReadTailFails, TypeOK, PCs, Locked, Opening, NoTail, Hash, call, Discipline, Holds, Inside, Shut, Writing
<1>11. ASSUME NEW t \in Threads, Refuse(t)
      PROVE  TypeOK'
  BY <1>11, TypeOK, WellFormed(file'), Discipline, StreamAssumption DEF Refuse, TypeOK, PCs, Locked, Opening, NoTail, Hash, call, Discipline, Holds, Inside, Shut, Writing
<1>12. ASSUME NEW t \in Threads, AppendLine(t)
      PROVE  TypeOK'
  BY <1>12, TypeOK, WellFormed(file'), Discipline, StreamAssumption, LenProperties DEF AppendLine, TypeOK, PCs, Locked, Opening, NoTail, Hash, WellFormed, call, Discipline, Holds, Inside, Shut, Writing
<1>13. ASSUME NEW t \in Threads, AppendFails(t)
      PROVE  TypeOK'
  BY <1>13, TypeOK, WellFormed(file'), Discipline, StreamAssumption DEF AppendFails, TypeOK, PCs, Locked, Opening, NoTail, Hash, call, Discipline, Holds, Inside, Shut, Writing
<1>14. ASSUME NEW t \in Threads, Finish(t)
      PROVE  TypeOK'
  BY <1>14, TypeOK, WellFormed(file'), Discipline, StreamAssumption, StampedLine DEF Finish, Unlock, LeaveMu, Return, Ack, Discipline, Holds, Inside, Shut, Writing, TypeOK, PCs, Locked, Opening, NoTail, Hash, call
<1>15. ASSUME NEW t \in Threads, FinishFails(t)
      PROVE  TypeOK'
  BY <1>15, TypeOK, WellFormed(file'), Discipline, StreamAssumption DEF FinishFails, LetGo, Unlock, LeaveMu, Return, TypeOK, PCs, Locked, Opening, NoTail, Hash, call, Discipline, Holds, Inside, Shut, Writing
<1>16. ASSUME NEW t \in Threads, Panic(t)
      PROVE  TypeOK'
  BY <1>16, TypeOK, WellFormed(file'), Discipline, StreamAssumption DEF Panic, LetGo, Unlock, LeaveMu, Return, TypeOK, PCs, Locked, Opening, NoTail, Hash, call, Discipline, Holds, Inside, Shut, Writing
<1>17. ASSUME NEW t \in Threads, NEW h \in Handles, OpenChained(t, h)
      PROVE  TypeOK'
  BY <1>17, TypeOK, WellFormed(file'), Discipline, StreamAssumption DEF OpenChained, Users, TypeOK, PCs, Locked, Opening, NoTail, Hash, call, Discipline, Holds, Inside, Shut, Writing
<1>18. ASSUME NEW t \in Threads, NEW h \in Handles, NEW c \in Content, Begin(t, h, c)
      PROVE  TypeOK'
  BY <1>18, TypeOK, WellFormed(file'), Discipline, StreamAssumption DEF Begin, Discipline, Holds, Inside, Shut, Writing, TypeOK, PCs, Locked, Opening, NoTail, Hash, call
<1>19. ASSUME NEW h \in Handles, OpenPlain(h)
      PROVE  TypeOK'
  BY <1>19, TypeOK, WellFormed(file'), Discipline, StreamAssumption DEF OpenPlain, TypeOK, PCs, Locked, Opening, NoTail, Hash, call, Discipline, Holds, Inside, Shut, Writing
<1>20. ASSUME NEW h \in Handles, Close(h)
      PROVE  TypeOK'
  BY <1>20, TypeOK, WellFormed(file'), Discipline, StreamAssumption DEF Close, Users, TypeOK, PCs, Locked, Opening, NoTail, Hash, call, Discipline, Holds, Inside, Shut, Writing
<1>21. ASSUME NEW h \in Handles, Crash(h)
      PROVE  TypeOK'
  BY <1>21, TypeOK, WellFormed(file'), Discipline, StreamAssumption DEF Crash, Gone, Users, TypeOK, PCs, Locked, Opening, NoTail, Hash, call, Discipline, Holds, Inside, Shut, Writing
<1>22. CASE PowerLoss
  BY <1>22, TypeOK, WellFormed(file'), Discipline, StreamAssumption DEF PowerLoss, Gone, TypeOK, PCs, Locked, Opening, NoTail, Hash, call, Discipline, Holds, Inside, Shut, Writing
<1>23. CASE UNCHANGED vars
  BY <1>23, TypeOK, WellFormed(file'), Discipline, StreamAssumption DEF vars, TypeOK, PCs, Locked, Opening, NoTail, Hash, call, Discipline, Holds, Inside, Shut, Writing
<1> QED BY <1>1, <1>2, <1>3, <1>4, <1>5, <1>6, <1>7, <1>8, <1>9, <1>10, <1>11, <1>12, <1>13, <1>14, <1>15, <1>16, <1>17, <1>18, <1>19, <1>20, <1>21, <1>22, <1>23 DEF Next, Step

\* Every action keeps the discipline of the locks.
LEMMA StepDiscipline ==
    ASSUME TypeOK, Discipline, [Next]_vars
    PROVE  Discipline'
<1>1. ASSUME NEW t \in Threads, OpenLock(t)
      PROVE  Discipline'
  BY <1>1, TypeOK, Discipline, Alone, StreamAssumption DEF OpenLock, Grantable, TypeOK, Discipline, OneInside, Holds, Inside, Shut, Writing, Locked, Opening, PCs, call
<1>2. ASSUME NEW t \in Threads, OpenLockFails(t)
      PROVE  Discipline'
  BY <1>2, TypeOK, Discipline, Alone, StreamAssumption DEF OpenLockFails, Return, TypeOK, Discipline, OneInside, Holds, Inside, Shut, Writing, Locked, Opening, PCs, call
<1>3. ASSUME NEW t \in Threads, OpenTail(t)
      PROVE  Discipline'
  BY <1>3, TypeOK, Discipline, Alone, StreamAssumption DEF OpenTail, TypeOK, Discipline, OneInside, Holds, Inside, Shut, Writing, Locked, Opening, PCs, call
<1>4. ASSUME NEW t \in Threads, OpenUnlock(t)
      PROVE  Discipline'
  BY <1>4, TypeOK, Discipline, Alone, StreamAssumption DEF OpenUnlock, Unlock, Return, TypeOK, Discipline, OneInside, Holds, Inside, Shut, Writing, Locked, Opening, PCs, call
<1>5. ASSUME NEW t \in Threads, OpenUnlockFails(t)
      PROVE  Discipline'
  BY <1>5, TypeOK, Discipline, Alone, StreamAssumption DEF OpenUnlockFails, Return, TypeOK, Discipline, OneInside, Holds, Inside, Shut, Writing, Locked, Opening, PCs, call
<1>6. ASSUME NEW t \in Threads, TakeMu(t)
      PROVE  Discipline'
  BY <1>6, TypeOK, Discipline, Alone, StreamAssumption DEF TakeMu, TypeOK, Discipline, OneInside, Holds, Inside, Shut, Writing, Locked, Opening, PCs, call
<1>7. ASSUME NEW t \in Threads, TakeLock(t)
      PROVE  Discipline'
  BY <1>7, TypeOK, Discipline, Alone, StreamAssumption DEF TakeLock, Grantable, TypeOK, Discipline, OneInside, Holds, Inside, Shut, Writing, Locked, Opening, PCs, call
<1>8. ASSUME NEW t \in Threads, LockFails(t)
      PROVE  Discipline'
  BY <1>8, TypeOK, Discipline, Alone, StreamAssumption DEF LockFails, LeaveMu, Return, TypeOK, Discipline, OneInside, Holds, Inside, Shut, Writing, Locked, Opening, PCs, call
<1>9. ASSUME NEW t \in Threads, ReadTail(t)
      PROVE  Discipline'
  BY <1>9, TypeOK, Discipline, Alone, StreamAssumption DEF ReadTail, TypeOK, Discipline, OneInside, Holds, Inside, Shut, Writing, Locked, Opening, PCs, call
<1>10. ASSUME NEW t \in Threads, ReadTailFails(t)
      PROVE  Discipline'
  BY <1>10, TypeOK, Discipline, Alone, StreamAssumption DEF ReadTailFails, TypeOK, Discipline, OneInside, Holds, Inside, Shut, Writing, Locked, Opening, PCs, call
<1>11. ASSUME NEW t \in Threads, Refuse(t)
      PROVE  Discipline'
  BY <1>11, TypeOK, Discipline, Alone, StreamAssumption DEF Refuse, TypeOK, Discipline, OneInside, Holds, Inside, Shut, Writing, Locked, Opening, PCs, call
<1>12. ASSUME NEW t \in Threads, AppendLine(t)
      PROVE  Discipline'
  BY <1>12, TypeOK, Discipline, Alone, StreamAssumption DEF AppendLine, TypeOK, Discipline, OneInside, Holds, Inside, Shut, Writing, Locked, Opening, PCs, call
<1>13. ASSUME NEW t \in Threads, AppendFails(t)
      PROVE  Discipline'
  BY <1>13, TypeOK, Discipline, Alone, StreamAssumption DEF AppendFails, TypeOK, Discipline, OneInside, Holds, Inside, Shut, Writing, Locked, Opening, PCs, call
<1>14. ASSUME NEW t \in Threads, Finish(t)
      PROVE  Discipline'
  BY <1>14, TypeOK, Discipline, Alone, StreamAssumption DEF Finish, Unlock, LeaveMu, Return, Ack, TypeOK, Discipline, OneInside, Holds, Inside, Shut, Writing, Locked, Opening, PCs, call
<1>15. ASSUME NEW t \in Threads, FinishFails(t)
      PROVE  Discipline'
  BY <1>15, TypeOK, Discipline, Alone, StreamAssumption DEF FinishFails, LetGo, Unlock, LeaveMu, Return, TypeOK, Discipline, OneInside, Holds, Inside, Shut, Writing, Locked, Opening, PCs, call
<1>16. ASSUME NEW t \in Threads, Panic(t)
      PROVE  Discipline'
  BY <1>16, TypeOK, Discipline, Alone, StreamAssumption DEF Panic, LetGo, Unlock, LeaveMu, Return, TypeOK, Discipline, OneInside, Holds, Inside, Shut, Writing, Locked, Opening, PCs, call
<1>17. ASSUME NEW t \in Threads, NEW h \in Handles, OpenChained(t, h)
      PROVE  Discipline'
  BY <1>17, TypeOK, Discipline, Alone, StreamAssumption DEF OpenChained, Users, TypeOK, Discipline, OneInside, Holds, Inside, Shut, Writing, Locked, Opening, PCs, call
<1>18. ASSUME NEW t \in Threads, NEW h \in Handles, NEW c \in Content, Begin(t, h, c)
      PROVE  Discipline'
  BY <1>18, TypeOK, Discipline, Alone, StreamAssumption DEF Begin, TypeOK, Discipline, OneInside, Holds, Inside, Shut, Writing, Locked, Opening, PCs, call
<1>19. ASSUME NEW h \in Handles, OpenPlain(h)
      PROVE  Discipline'
  BY <1>19, TypeOK, Discipline, Alone, StreamAssumption DEF OpenPlain, Users, TypeOK, Discipline, OneInside, Holds, Inside, Shut, Writing, Locked, Opening, PCs, call
<1>20. ASSUME NEW h \in Handles, Close(h)
      PROVE  Discipline'
  BY <1>20, TypeOK, Discipline, Alone, StreamAssumption DEF Close, Users, TypeOK, Discipline, OneInside, Holds, Inside, Shut, Writing, Locked, Opening, PCs, call
<1>21. ASSUME NEW h \in Handles, Crash(h)
      PROVE  Discipline'
  BY <1>21, TypeOK, Discipline, Alone, StreamAssumption DEF Crash, Gone, Users, TypeOK, Discipline, OneInside, Holds, Inside, Shut, Writing, Locked, Opening, PCs, call
<1>22. CASE PowerLoss
  BY <1>22, TypeOK, Discipline, Alone, StreamAssumption DEF PowerLoss, Gone, TypeOK, Discipline, OneInside, Holds, Inside, Shut, Writing, Locked, Opening, PCs, call
<1>23. CASE UNCHANGED vars
  BY <1>23, TypeOK, Discipline, Alone, StreamAssumption DEF vars, TypeOK, Discipline, OneInside, Holds, Inside, Shut, Writing, Locked, Opening, PCs, call
<1> QED BY <1>1, <1>2, <1>3, <1>4, <1>5, <1>6, <1>7, <1>8, <1>9, <1>10, <1>11, <1>12, <1>13, <1>14, <1>15, <1>16, <1>17, <1>18, <1>19, <1>20, <1>21, <1>22, <1>23 DEF Next, Step

\* Between the read of the tail and the append nobody else touches the stream.
LEMMA StepTailCurrent ==
    ASSUME TypeOK, Discipline, TailCurrent, [Next]_vars
    PROVE  TailCurrent'
<1>1. ASSUME NEW t \in Threads, OpenLock(t)
      PROVE  TailCurrent'
  BY <1>1, TypeOK, Discipline, TailCurrent, Alone, StreamAssumption DEF OpenLock, Grantable, TypeOK, Discipline, TailCurrent, OneInside, Holds, Inside, Shut, Writing, Locked, Opening, call, PCs
<1>2. ASSUME NEW t \in Threads, OpenLockFails(t)
      PROVE  TailCurrent'
  BY <1>2, TypeOK, Discipline, TailCurrent, Alone, StreamAssumption DEF OpenLockFails, Return, TypeOK, Discipline, TailCurrent, OneInside, Holds, Inside, Shut, Writing, Locked, Opening, call, PCs
<1>3. ASSUME NEW t \in Threads, OpenTail(t)
      PROVE  TailCurrent'
  BY <1>3, TypeOK, Discipline, TailCurrent, Alone, StreamAssumption DEF OpenTail, TypeOK, Discipline, TailCurrent, OneInside, Holds, Inside, Shut, Writing, Locked, Opening, call, PCs
<1>4. ASSUME NEW t \in Threads, OpenUnlock(t)
      PROVE  TailCurrent'
  BY <1>4, TypeOK, Discipline, TailCurrent, Alone, StreamAssumption DEF OpenUnlock, Unlock, Return, TypeOK, Discipline, TailCurrent, OneInside, Holds, Inside, Shut, Writing, Locked, Opening, call, PCs
<1>5. ASSUME NEW t \in Threads, OpenUnlockFails(t)
      PROVE  TailCurrent'
  BY <1>5, TypeOK, Discipline, TailCurrent, Alone, StreamAssumption DEF OpenUnlockFails, Return, TypeOK, Discipline, TailCurrent, OneInside, Holds, Inside, Shut, Writing, Locked, Opening, call, PCs
<1>6. ASSUME NEW t \in Threads, TakeMu(t)
      PROVE  TailCurrent'
  BY <1>6, TypeOK, Discipline, TailCurrent, Alone, StreamAssumption DEF TakeMu, TypeOK, Discipline, TailCurrent, OneInside, Holds, Inside, Shut, Writing, Locked, Opening, call, PCs
<1>7. ASSUME NEW t \in Threads, TakeLock(t)
      PROVE  TailCurrent'
  BY <1>7, TypeOK, Discipline, TailCurrent, Alone, StreamAssumption DEF TakeLock, Grantable, TypeOK, Discipline, TailCurrent, OneInside, Holds, Inside, Shut, Writing, Locked, Opening, call, PCs
<1>8. ASSUME NEW t \in Threads, LockFails(t)
      PROVE  TailCurrent'
  BY <1>8, TypeOK, Discipline, TailCurrent, Alone, StreamAssumption DEF LockFails, LeaveMu, Return, TypeOK, Discipline, TailCurrent, OneInside, Holds, Inside, Shut, Writing, Locked, Opening, call, PCs
<1>9. ASSUME NEW t \in Threads, ReadTail(t)
      PROVE  TailCurrent'
  BY <1>9, TypeOK, Discipline, TailCurrent, Alone, StreamAssumption DEF ReadTail, TypeOK, Discipline, TailCurrent, OneInside, Holds, Inside, Shut, Writing, Locked, Opening, call, PCs
<1>10. ASSUME NEW t \in Threads, ReadTailFails(t)
      PROVE  TailCurrent'
  BY <1>10, TypeOK, Discipline, TailCurrent, Alone, StreamAssumption DEF ReadTailFails, TypeOK, Discipline, TailCurrent, OneInside, Holds, Inside, Shut, Writing, Locked, Opening, call, PCs
<1>11. ASSUME NEW t \in Threads, Refuse(t)
      PROVE  TailCurrent'
  BY <1>11, TypeOK, Discipline, TailCurrent, Alone, StreamAssumption DEF Refuse, TypeOK, Discipline, TailCurrent, OneInside, Holds, Inside, Shut, Writing, Locked, Opening, call, PCs
<1>12. ASSUME NEW t \in Threads, AppendLine(t)
      PROVE  TailCurrent'
  BY <1>12, TypeOK, Discipline, TailCurrent, Alone, StreamAssumption DEF AppendLine, TypeOK, Discipline, TailCurrent, OneInside, Holds, Inside, Shut, Writing, Locked, Opening, call, PCs
<1>13. ASSUME NEW t \in Threads, AppendFails(t)
      PROVE  TailCurrent'
  BY <1>13, TypeOK, Discipline, TailCurrent, Alone, StreamAssumption DEF AppendFails, TypeOK, Discipline, TailCurrent, OneInside, Holds, Inside, Shut, Writing, Locked, Opening, call, PCs
<1>14. ASSUME NEW t \in Threads, Finish(t)
      PROVE  TailCurrent'
  BY <1>14, TypeOK, Discipline, TailCurrent, Alone, StreamAssumption DEF Finish, Unlock, LeaveMu, Return, Ack, TypeOK, Discipline, TailCurrent, OneInside, Holds, Inside, Shut, Writing, Locked, Opening, call, PCs
<1>15. ASSUME NEW t \in Threads, FinishFails(t)
      PROVE  TailCurrent'
  BY <1>15, TypeOK, Discipline, TailCurrent, Alone, StreamAssumption DEF FinishFails, LetGo, Unlock, LeaveMu, Return, TypeOK, Discipline, TailCurrent, OneInside, Holds, Inside, Shut, Writing, Locked, Opening, call, PCs
<1>16. ASSUME NEW t \in Threads, Panic(t)
      PROVE  TailCurrent'
  BY <1>16, TypeOK, Discipline, TailCurrent, Alone, StreamAssumption DEF Panic, LetGo, Unlock, LeaveMu, Return, TypeOK, Discipline, TailCurrent, OneInside, Holds, Inside, Shut, Writing, Locked, Opening, call, PCs
<1>17. ASSUME NEW t \in Threads, NEW h \in Handles, OpenChained(t, h)
      PROVE  TailCurrent'
  BY <1>17, TypeOK, Discipline, TailCurrent, Alone, StreamAssumption DEF OpenChained, Users, TypeOK, Discipline, TailCurrent, OneInside, Holds, Inside, Shut, Writing, Locked, Opening, call, PCs
<1>18. ASSUME NEW t \in Threads, NEW h \in Handles, NEW c \in Content, Begin(t, h, c)
      PROVE  TailCurrent'
  BY <1>18, TypeOK, Discipline, TailCurrent, Alone, StreamAssumption DEF Begin, TypeOK, Discipline, TailCurrent, OneInside, Holds, Inside, Shut, Writing, Locked, Opening, call, PCs
<1>19. ASSUME NEW h \in Handles, OpenPlain(h)
      PROVE  TailCurrent'
  BY <1>19, TypeOK, Discipline, TailCurrent, Alone, StreamAssumption DEF OpenPlain, Users, TypeOK, Discipline, TailCurrent, OneInside, Holds, Inside, Shut, Writing, Locked, Opening, call, PCs
<1>20. ASSUME NEW h \in Handles, Close(h)
      PROVE  TailCurrent'
  BY <1>20, TypeOK, Discipline, TailCurrent, Alone, StreamAssumption DEF Close, Users, TypeOK, Discipline, TailCurrent, OneInside, Holds, Inside, Shut, Writing, Locked, Opening, call, PCs
<1>21. ASSUME NEW h \in Handles, Crash(h)
      PROVE  TailCurrent'
  BY <1>21, TypeOK, Discipline, TailCurrent, Alone, StreamAssumption DEF Crash, Gone, Users, TypeOK, Discipline, TailCurrent, OneInside, Holds, Inside, Shut, Writing, Locked, Opening, call, PCs
<1>22. CASE PowerLoss
  BY <1>22, TypeOK, Discipline, TailCurrent, Alone, StreamAssumption DEF PowerLoss, Gone, TypeOK, Discipline, TailCurrent, OneInside, Holds, Inside, Shut, Writing, Locked, Opening, call, PCs
<1>23. CASE UNCHANGED vars
  BY <1>23, TypeOK, Discipline, TailCurrent, Alone, StreamAssumption DEF vars, TypeOK, Discipline, TailCurrent, OneInside, Holds, Inside, Shut, Writing, Locked, Opening, call, PCs
<1> QED BY <1>1, <1>2, <1>3, <1>4, <1>5, <1>6, <1>7, <1>8, <1>9, <1>10, <1>11, <1>12, <1>13, <1>14, <1>15, <1>16, <1>17, <1>18, <1>19, <1>20, <1>21, <1>22, <1>23 DEF Next, Step

-----------------------------------------------------------------------------
LEMMA InitInv == Init => Inv
<1> SUFFICES ASSUME Init PROVE Inv
  OBVIOUS
<1>1. WellFormed(file) /\ Unbroken(file)
  BY ConstantsAssumption DEF Init, LogInit
<1>2. TypeOK
  BY <1>1, StreamAssumption DEF Init, TypeOK, PCs, NoTail, Hash
<1>3. Discipline /\ TailCurrent
  BY DEF Init, Discipline, TailCurrent, Holds, Inside, Shut, Writing, Locked, Opening
<1> QED BY <1>1, <1>2, <1>3 DEF Inv

LEMMA InvStep == Inv /\ [Next]_vars => Inv' /\ [LogNext]_file
<1> SUFFICES ASSUME Inv, [Next]_vars PROVE Inv' /\ [LogNext]_file
  OBVIOUS
<1>1. [LogNext]_file
  BY StepRefines
<1>2. WellFormed(file') /\ Unbroken(file')
  BY <1>1, LogStep DEF Inv, TypeOK, Sound
<1>3. TypeOK'
  BY <1>2, StepTypes DEF Inv
<1>4. Discipline'
  BY StepDiscipline DEF Inv
<1>5. TailCurrent'
  BY StepTailCurrent DEF Inv
<1> QED BY <1>1, <1>2, <1>3, <1>4, <1>5 DEF Inv, Unbroken, IsBreak, LastSolid

THEOREM SpecInv == Spec => []Inv
<1> QED BY InitInv, InvStep, PTL DEF Spec

\* Types, for any number of writers.
THEOREM TypesCorrect == Spec => []TypeOK
<1>1. Inv => TypeOK
  BY DEF Inv
<1> QED BY SpecInv, <1>1, PTL

\* However many goroutines, handles and processes write one stream, and
\* whatever locks and unlocks fail or are left behind, one thread at a time is
\* past the file lock (ChainedWriter.write, Writer.appendLocked).
THEOREM MutualExclusion == Spec => []OneInside
<1>1. Inv => OneInside
  BY Alone DEF Inv
<1> QED BY SpecInv, <1>1, PTL

\* A write, for all its steps, is one append that chains from what is last on
\* disk at that moment: ChainedStream implements the stream of ChainLog.
THEOREM Refinement == Spec => LogRefined
<1>1. Init => LogInit
  BY DEF Init
<1> QED BY <1>1, SpecInv, InvStep, PTL DEF Spec, LogRefined

\* No interleaving of writers, failed write, panic, crash or power cut puts a
\* line on an honest stream that VerifyChain would call a break.
THEOREM NeverBreaks == Spec => []NoBreaks
<1>1. Inv => NoBreaks
  BY DEF Inv, NoBreaks
<1> QED BY SpecInv, <1>1, PTL
-----------------------------------------------------------------------------
\* The line a thread has written and not yet acknowledged is untouched: while
\* it is past the lock nobody else writes.
LEMMA StepDoneKept ==
    ASSUME Inv, DoneKept, [Next]_vars
    PROVE  DoneKept'
<1>1. ASSUME NEW t \in Threads, OpenLock(t)
      PROVE  DoneKept'
  BY <1>1, Alone, StreamAssumption DEF OpenLock, Grantable, Inv, TypeOK, DoneKept, Discipline, OneInside, Holds, Inside, Shut, Writing, Locked, Opening, call, PCs, Stamped
<1>2. ASSUME NEW t \in Threads, OpenLockFails(t)
      PROVE  DoneKept'
  BY <1>2, Alone, StreamAssumption DEF OpenLockFails, Return, Inv, TypeOK, DoneKept, Discipline, OneInside, Holds, Inside, Shut, Writing, Locked, Opening, call, PCs, Stamped
<1>3. ASSUME NEW t \in Threads, OpenTail(t)
      PROVE  DoneKept'
  BY <1>3, Alone, StreamAssumption DEF OpenTail, Inv, TypeOK, DoneKept, Discipline, OneInside, Holds, Inside, Shut, Writing, Locked, Opening, call, PCs, Stamped
<1>4. ASSUME NEW t \in Threads, OpenUnlock(t)
      PROVE  DoneKept'
  BY <1>4, Alone, StreamAssumption DEF OpenUnlock, Unlock, Return, Inv, TypeOK, DoneKept, Discipline, OneInside, Holds, Inside, Shut, Writing, Locked, Opening, call, PCs, Stamped
<1>5. ASSUME NEW t \in Threads, OpenUnlockFails(t)
      PROVE  DoneKept'
  BY <1>5, Alone, StreamAssumption DEF OpenUnlockFails, Return, Inv, TypeOK, DoneKept, Discipline, OneInside, Holds, Inside, Shut, Writing, Locked, Opening, call, PCs, Stamped
<1>6. ASSUME NEW t \in Threads, TakeMu(t)
      PROVE  DoneKept'
  BY <1>6, Alone, StreamAssumption DEF TakeMu, Inv, TypeOK, DoneKept, Discipline, OneInside, Holds, Inside, Shut, Writing, Locked, Opening, call, PCs, Stamped
<1>7. ASSUME NEW t \in Threads, TakeLock(t)
      PROVE  DoneKept'
  BY <1>7, Alone, StreamAssumption DEF TakeLock, Grantable, Inv, TypeOK, DoneKept, Discipline, OneInside, Holds, Inside, Shut, Writing, Locked, Opening, call, PCs, Stamped
<1>8. ASSUME NEW t \in Threads, LockFails(t)
      PROVE  DoneKept'
  BY <1>8, Alone, StreamAssumption DEF LockFails, LeaveMu, Return, Inv, TypeOK, DoneKept, Discipline, OneInside, Holds, Inside, Shut, Writing, Locked, Opening, call, PCs, Stamped
<1>9. ASSUME NEW t \in Threads, ReadTail(t)
      PROVE  DoneKept'
  BY <1>9, Alone, StreamAssumption DEF ReadTail, Inv, TypeOK, DoneKept, Discipline, OneInside, Holds, Inside, Shut, Writing, Locked, Opening, call, PCs, Stamped
<1>10. ASSUME NEW t \in Threads, ReadTailFails(t)
      PROVE  DoneKept'
  BY <1>10, Alone, StreamAssumption DEF ReadTailFails, Inv, TypeOK, DoneKept, Discipline, OneInside, Holds, Inside, Shut, Writing, Locked, Opening, call, PCs, Stamped
<1>11. ASSUME NEW t \in Threads, Refuse(t)
      PROVE  DoneKept'
  BY <1>11, Alone, StreamAssumption DEF Refuse, Inv, TypeOK, DoneKept, Discipline, OneInside, Holds, Inside, Shut, Writing, Locked, Opening, call, PCs, Stamped
<1>12. ASSUME NEW t \in Threads, AppendLine(t)
      PROVE  DoneKept'
  BY <1>12, Alone, PutLineLands, StampedLine, EndsNewlineBoolean, StreamAssumption DEF AppendLine, Inv, TypeOK, DoneKept, Discipline, OneInside, Holds, Inside, Shut, Writing, Locked, Opening, call, PCs, TailCurrent, Leads, Stamped
<1>13. ASSUME NEW t \in Threads, AppendFails(t)
      PROVE  DoneKept'
  BY <1>13, Alone, StreamAssumption DEF AppendFails, Inv, TypeOK, DoneKept, Discipline, OneInside, Holds, Inside, Shut, Writing, Locked, Opening, call, PCs, Stamped
<1>14. ASSUME NEW t \in Threads, Finish(t)
      PROVE  DoneKept'
  BY <1>14, Alone, StreamAssumption DEF Finish, Unlock, LeaveMu, Return, Ack, Inv, TypeOK, DoneKept, Discipline, OneInside, Holds, Inside, Shut, Writing, Locked, Opening, call, PCs, Stamped
<1>15. ASSUME NEW t \in Threads, FinishFails(t)
      PROVE  DoneKept'
  BY <1>15, Alone, StreamAssumption DEF FinishFails, LetGo, Unlock, LeaveMu, Return, Inv, TypeOK, DoneKept, Discipline, OneInside, Holds, Inside, Shut, Writing, Locked, Opening, call, PCs, Stamped
<1>16. ASSUME NEW t \in Threads, Panic(t)
      PROVE  DoneKept'
  BY <1>16, Alone, StreamAssumption DEF Panic, LetGo, Unlock, LeaveMu, Return, Inv, TypeOK, DoneKept, Discipline, OneInside, Holds, Inside, Shut, Writing, Locked, Opening, call, PCs, Stamped
<1>17. ASSUME NEW t \in Threads, NEW h \in Handles, OpenChained(t, h)
      PROVE  DoneKept'
  BY <1>17, Alone, StreamAssumption DEF OpenChained, Users, Inv, TypeOK, DoneKept, Discipline, OneInside, Holds, Inside, Shut, Writing, Locked, Opening, call, PCs, Stamped
<1>18. ASSUME NEW t \in Threads, NEW h \in Handles, NEW c \in Content, Begin(t, h, c)
      PROVE  DoneKept'
  BY <1>18, Alone, StreamAssumption DEF Begin, Inv, TypeOK, DoneKept, Discipline, OneInside, Holds, Inside, Shut, Writing, Locked, Opening, call, PCs, Stamped
<1>19. ASSUME NEW h \in Handles, OpenPlain(h)
      PROVE  DoneKept'
  BY <1>19, Alone, StreamAssumption DEF OpenPlain, Users, Inv, TypeOK, DoneKept, Discipline, OneInside, Holds, Inside, Shut, Writing, Locked, Opening, call, PCs, Stamped
<1>20. ASSUME NEW h \in Handles, Close(h)
      PROVE  DoneKept'
  BY <1>20, Alone, StreamAssumption DEF Close, Users, Inv, TypeOK, DoneKept, Discipline, OneInside, Holds, Inside, Shut, Writing, Locked, Opening, call, PCs, Stamped
<1>21. ASSUME NEW h \in Handles, Crash(h)
      PROVE  DoneKept'
  BY <1>21, Alone, StreamAssumption DEF Crash, Gone, Users, Inv, TypeOK, DoneKept, Discipline, OneInside, Holds, Inside, Shut, Writing, Locked, Opening, call, PCs, Stamped
<1>22. CASE PowerLoss
  BY <1>22, Alone, StreamAssumption DEF PowerLoss, Gone, Inv, TypeOK, DoneKept, Discipline, OneInside, Holds, Inside, Shut, Writing, Locked, Opening, call, PCs, Stamped
<1>23. CASE UNCHANGED vars
  BY <1>23, Alone, StreamAssumption DEF vars, Inv, TypeOK, DoneKept, Discipline, OneInside, Holds, Inside, Shut, Writing, Locked, Opening, call, PCs, Stamped
<1> QED BY <1>1, <1>2, <1>3, <1>4, <1>5, <1>6, <1>7, <1>8, <1>9, <1>10, <1>11, <1>12, <1>13, <1>14, <1>15, <1>16, <1>17, <1>18, <1>19, <1>20, <1>21, <1>22, <1>23 DEF Next, Step

\* A step that is no loss of power keeps every terminated line.
LEMMA StepKeeps ==
    ASSUME Inv, [Next]_vars, ~PowerLoss
    PROVE  Keeps(file, file')
<1>1. WellFormed(file) /\ EndsNewline(file) \in BOOLEAN
  BY EndsNewlineBoolean DEF Inv, TypeOK
<1>2. ASSUME NEW t \in Threads, pc[t] = "append", ~Shut(t)
      PROVE  Leads(t) \in BOOLEAN /\ (Leads(t) => ~EndsNewline(file)) /\ Stamped(t) \in Line
  BY <1>1, <1>2, StampedLine DEF Inv, TailCurrent, Leads, NoTail
<1>3. ASSUME NEW t \in Threads, AppendLine(t)
      PROVE  Keeps(file, file')
  BY <1>1, <1>2, <1>3, PutLineKeeps DEF AppendLine
<1>4. ASSUME NEW t \in Threads, AppendFails(t)
      PROVE  Keeps(file, file')
  <2>1. CASE Shut(t)
    BY <1>4, <2>1 DEF AppendFails, Keeps
  <2>2. CASE ~Shut(t)
    BY <1>1, <1>2, <1>4, <2>2, ShortWriteKeeps DEF AppendFails
  <2> QED BY <2>1, <2>2
<1>5. CASE UNCHANGED file
  BY <1>5 DEF Keeps
<1>6. ASSUME NEW t \in Threads, Step(t), ~AppendLine(t), ~AppendFails(t)
      PROVE  UNCHANGED file
  BY <1>6 DEF Step, OpenLock, OpenLockFails, OpenTail, OpenUnlock, OpenUnlockFails,
     TakeMu, TakeLock, LockFails, ReadTail, ReadTailFails, Refuse, Finish, FinishFails, Panic
<1>7. ASSUME NEW h \in Handles, OpenPlain(h) \/ Close(h) \/ Crash(h)
      PROVE  UNCHANGED file
  BY <1>7 DEF OpenPlain, Close, Crash
<1>8. ASSUME NEW t \in Threads, NEW h \in Handles, OpenChained(t, h)
      PROVE  UNCHANGED file
  BY <1>8 DEF OpenChained
<1>9. ASSUME NEW t \in Threads, NEW h \in Handles, NEW c \in Content, Begin(t, h, c)
      PROVE  UNCHANGED file
  BY <1>9 DEF Begin
<1> QED BY <1>3, <1>4, <1>5, <1>6, <1>7, <1>8, <1>9 DEF Next, vars

\* Acknowledged lines are terminated ones, and are there.
AcksHold == \A a \in acked : a.by \in Chained => a.line.nl /\ Kept(a)

LEMMA StepAcksHold ==
    ASSUME Inv, DoneKept, AcksHold, [Next]_vars
    PROVE  AcksHold'
<1>1. CASE PowerLoss
  BY <1>1 DEF PowerLoss, AcksHold
<1>2. ASSUME ~PowerLoss, NEW a \in acked, a.by \in Chained
      PROVE  a.line.nl /\ Kept(a)'
  BY <1>2, StepKeeps DEF AcksHold, Kept, Keeps
<1>3. ASSUME NEW t \in Threads, Finish(t)
      PROVE  AcksHold'
  <2>2. CASE ~PowerLoss
    <3>1. SUFFICES ASSUME NEW a \in acked', a.by \in Chained
                   PROVE  a.line.nl /\ Kept(a)'
      BY DEF AcksHold
    <3>2. CASE a \in acked
      BY <2>2, <3>1, <3>2, <1>2
    <3>3. CASE a \notin acked
      <4>1. done[t] # 0 /\ a = [by |-> on[t], at |-> done[t], line |-> Stamped(t)]
        BY <1>3, <3>3 DEF Finish, Ack
      <4>2. done[t] \in 1..Len(file) /\ file[done[t]] = Stamped(t)
        BY <1>3, <3>1, <4>1 DEF DoneKept, Finish
      <4>3. file' = file
        BY <1>3 DEF Finish
      <4> QED BY <4>1, <4>2, <4>3 DEF Kept, Stamped, Event
    <3> QED BY <3>2, <3>3
  <2> QED BY <1>1, <2>2
<1>4. ASSUME ~PowerLoss, acked' = acked
      PROVE  AcksHold'
  BY <1>2, <1>4 DEF AcksHold
<1>5. ASSUME NEW t \in Threads, Step(t), ~Finish(t)
      PROVE  acked' = acked
  BY <1>5 DEF Step, OpenLock, OpenLockFails, OpenTail, OpenUnlock, OpenUnlockFails, TakeMu,
     TakeLock, LockFails, ReadTail, ReadTailFails, Refuse, AppendLine, AppendFails, FinishFails, Panic
<1>6. ASSUME NEW h \in Handles, OpenPlain(h) \/ Close(h) \/ Crash(h)
      PROVE  acked' = acked
  BY <1>6 DEF OpenPlain, Close, Crash
<1>7. ASSUME NEW t \in Threads, NEW h \in Handles, OpenChained(t, h)
      PROVE  acked' = acked
  BY <1>7 DEF OpenChained
<1>8. ASSUME NEW t \in Threads, NEW h \in Handles, NEW c \in Content, Begin(t, h, c)
      PROVE  acked' = acked
  BY <1>8 DEF Begin
<1> QED BY <1>1, <1>3, <1>4, <1>5, <1>6, <1>7, <1>8 DEF Next, vars

\* A line a ChainedWriter acknowledged is in the stream, whole and where it
\* was, until the host loses power: no later write, failed or torn, by any
\* writer, no crash and no restart reaches it.
THEOREM AcksAreKept == Spec => []ChainedAcksKept
<1>1. Init => DoneKept /\ AcksHold
  BY DEF Init, DoneKept, AcksHold
<1>2. Inv /\ DoneKept /\ AcksHold /\ [Next]_vars => DoneKept' /\ AcksHold'
  BY StepDoneKept, StepAcksHold
<1>3. AcksHold => ChainedAcksKept
  BY DEF AcksHold, ChainedAcksKept
<1> QED BY SpecInv, <1>1, <1>2, <1>3, PTL DEF Spec

-----------------------------------------------------------------------------
(* What a constructor tells its caller. *)

\* The tail an opening thread has read is still the stream's while it holds the
\* lock, and a handle that is not open has resumed from nothing.
OpenerCurrent ==
    /\ \A h \in Handles \ open : resumed[h] = None
    /\ \A t \in Threads : pc[t] = "openUnlock" => tail[t].hash \in {None, TailHash(file)}

LEMMA StepOpenerCurrent ==
    ASSUME TypeOK, Discipline, OpenerCurrent, [Next]_vars
    PROVE  OpenerCurrent'
<1>1. ASSUME NEW t \in Threads, OpenLock(t)
      PROVE  OpenerCurrent'
  BY <1>1 DEF OpenLock, Grantable, TypeOK, Discipline, OpenerCurrent, Holds, Inside, Shut, Writing, Locked, Opening, call, PCs
<1>2. ASSUME NEW t \in Threads, OpenLockFails(t)
      PROVE  OpenerCurrent'
  BY <1>2 DEF OpenLockFails, Return, TypeOK, Discipline, OpenerCurrent, Holds, Inside, Shut, Writing, Locked, Opening, call, PCs
<1>3. ASSUME NEW t \in Threads, OpenTail(t)
      PROVE  OpenerCurrent'
  BY <1>3 DEF OpenTail, TypeOK, Discipline, OpenerCurrent, Holds, Inside, Shut, Writing, Locked, Opening, call, PCs
<1>4. ASSUME NEW t \in Threads, OpenUnlock(t)
      PROVE  OpenerCurrent'
  BY <1>4 DEF OpenUnlock, Unlock, Return, TypeOK, Discipline, OpenerCurrent, Holds, Inside, Shut, Writing, Locked, Opening, call, PCs
<1>5. ASSUME NEW t \in Threads, OpenUnlockFails(t)
      PROVE  OpenerCurrent'
  BY <1>5 DEF OpenUnlockFails, Return, TypeOK, Discipline, OpenerCurrent, Holds, Inside, Shut, Writing, Locked, Opening, call, PCs
<1>6. ASSUME NEW t \in Threads, TakeMu(t)
      PROVE  OpenerCurrent'
  BY <1>6 DEF TakeMu, TypeOK, Discipline, OpenerCurrent, Holds, Inside, Shut, Writing, Locked, Opening, call, PCs
<1>7. ASSUME NEW t \in Threads, TakeLock(t)
      PROVE  OpenerCurrent'
  BY <1>7 DEF TakeLock, Grantable, TypeOK, Discipline, OpenerCurrent, Holds, Inside, Shut, Writing, Locked, Opening, call, PCs
<1>8. ASSUME NEW t \in Threads, LockFails(t)
      PROVE  OpenerCurrent'
  BY <1>8 DEF LockFails, LeaveMu, Return, TypeOK, Discipline, OpenerCurrent, Holds, Inside, Shut, Writing, Locked, Opening, call, PCs
<1>9. ASSUME NEW t \in Threads, ReadTail(t)
      PROVE  OpenerCurrent'
  BY <1>9 DEF ReadTail, TypeOK, Discipline, OpenerCurrent, Holds, Inside, Shut, Writing, Locked, Opening, call, PCs
<1>10. ASSUME NEW t \in Threads, ReadTailFails(t)
      PROVE  OpenerCurrent'
  BY <1>10 DEF ReadTailFails, TypeOK, Discipline, OpenerCurrent, Holds, Inside, Shut, Writing, Locked, Opening, call, PCs
<1>11. ASSUME NEW t \in Threads, Refuse(t)
      PROVE  OpenerCurrent'
  BY <1>11 DEF Refuse, TypeOK, Discipline, OpenerCurrent, Holds, Inside, Shut, Writing, Locked, Opening, call, PCs
<1>12. ASSUME NEW t \in Threads, AppendLine(t)
      PROVE  OpenerCurrent'
  <2>1. Holds(t) /\ pc[t] = "append"
    BY <1>12 DEF AppendLine, Holds, Inside, Locked
  <2>2. ASSUME NEW u \in Threads, pc[u] = "openUnlock"
        PROVE  FALSE
    <3>1. Holds(u)
      BY <2>2 DEF Holds, Inside, Shut, Writing, Locked
    <3> QED BY <2>1, <2>2, <3>1, Alone DEF OneInside
  <2> QED BY <1>12, <2>2 DEF AppendLine, TypeOK, OpenerCurrent, PCs, Locked, Opening
<1>13. ASSUME NEW t \in Threads, AppendFails(t)
      PROVE  OpenerCurrent'
  BY <1>13, Alone DEF AppendFails, TypeOK, Discipline, OpenerCurrent, OneInside, Holds, Inside, Shut, Writing, Locked, Opening, call, PCs
<1>14. ASSUME NEW t \in Threads, Finish(t)
      PROVE  OpenerCurrent'
  BY <1>14 DEF Finish, Unlock, LeaveMu, Return, TypeOK, Discipline, OpenerCurrent, Holds, Inside, Shut, Writing, Locked, Opening, call, PCs
<1>15. ASSUME NEW t \in Threads, FinishFails(t)
      PROVE  OpenerCurrent'
  BY <1>15 DEF FinishFails, LetGo, Unlock, LeaveMu, Return, TypeOK, Discipline, OpenerCurrent, Holds, Inside, Shut, Writing, Locked, Opening, call, PCs
<1>16. ASSUME NEW t \in Threads, Panic(t)
      PROVE  OpenerCurrent'
  BY <1>16 DEF Panic, LetGo, Unlock, LeaveMu, Return, TypeOK, Discipline, OpenerCurrent, Holds, Inside, Shut, Writing, Locked, Opening, call, PCs
<1>17. ASSUME NEW t \in Threads, NEW h \in Handles, OpenChained(t, h)
      PROVE  OpenerCurrent'
  BY <1>17 DEF OpenChained, Users, TypeOK, Discipline, OpenerCurrent, Holds, Inside, Shut, Writing, Locked, Opening, call, PCs
<1>18. ASSUME NEW t \in Threads, NEW h \in Handles, NEW c \in Content, Begin(t, h, c)
      PROVE  OpenerCurrent'
  BY <1>18 DEF Begin, TypeOK, Discipline, OpenerCurrent, Holds, Inside, Shut, Writing, Locked, Opening, call, PCs
<1>19. ASSUME NEW h \in Handles, OpenPlain(h)
      PROVE  OpenerCurrent'
  BY <1>19 DEF OpenPlain, Users, TypeOK, Discipline, OpenerCurrent, Holds, Inside, Shut, Writing, Locked, Opening, call, PCs
<1>20. ASSUME NEW h \in Handles, Close(h)
      PROVE  OpenerCurrent'
  BY <1>20 DEF Close, Users, TypeOK, Discipline, OpenerCurrent, Holds, Inside, Shut, Writing, Locked, Opening, call, PCs
<1>21. ASSUME NEW h \in Handles, Crash(h)
      PROVE  OpenerCurrent'
  BY <1>21 DEF Crash, Gone, Users, TypeOK, Discipline, OpenerCurrent, Holds, Inside, Shut, Writing, Locked, Opening, call, PCs
<1>22. CASE PowerLoss
  BY <1>22 DEF PowerLoss, Gone, TypeOK, Discipline, OpenerCurrent, Holds, Inside, Shut, Writing, Locked, Opening, call, PCs
<1>23. CASE UNCHANGED vars
  BY <1>23 DEF vars, TypeOK, Discipline, OpenerCurrent, Holds, Inside, Shut, Writing, Locked, Opening, call, PCs
<1> QED BY <1>1, <1>2, <1>3, <1>4, <1>5, <1>6, <1>7, <1>8, <1>9, <1>10, <1>11, <1>12, <1>13, <1>14, <1>15, <1>16, <1>17, <1>18, <1>19, <1>20, <1>21, <1>22, <1>23 DEF Next, Step

\* A constructor returns what the file holds, or nothing: no writer got in
\* between its read and its return (NewChainedWriter, ResumedFrom).
THEOREM ResumesTrue == Spec => ResumesFromDisk
<1>1. Init => OpenerCurrent
  BY DEF Init, OpenerCurrent
<1>2. Inv /\ OpenerCurrent /\ [Next]_vars => OpenerCurrent'
  BY StepOpenerCurrent DEF Inv
<1>3. Inv /\ OpenerCurrent /\ [Next]_vars =>
         [\A h \in open' \ open : resumed'[h] \in {None, TailHash(file')}]_vars
  <2> SUFFICES ASSUME Inv, OpenerCurrent, Next, NEW h \in open' \ open
               PROVE  resumed'[h] \in {None, TailHash(file')}
    OBVIOUS
  <2>1. TypeOK /\ Discipline
    BY DEF Inv
  <2>2. ASSUME NEW t \in Threads, OpenUnlock(t)
        PROVE  resumed'[h] \in {None, TailHash(file')}
    <3>1. /\ pc[t] = "openUnlock" /\ open' = open \cup {on[t]} /\ file' = file
          /\ resumed' = [resumed EXCEPT ![on[t]] = tail[t].hash]
      BY <2>2 DEF OpenUnlock, Return
    <3>2. h = on[t] /\ h \in Handles
      BY <2>1, <3>1, StreamAssumption DEF TypeOK, Discipline, Opening
    <3>3. resumed'[h] = tail[t].hash
      BY <2>1, <3>1, <3>2 DEF TypeOK
    <3> QED BY <3>1, <3>3 DEF OpenerCurrent
  <2>3. ASSUME NEW g \in Handles, OpenPlain(g)
        PROVE  resumed'[h] \in {None, TailHash(file')}
    BY <2>1, <2>3 DEF OpenPlain, OpenerCurrent, TypeOK
  <2>4. ASSUME NEW t \in Threads, Step(t), ~OpenUnlock(t)
        PROVE  open' = open
    BY <2>4 DEF Step, OpenLock, OpenLockFails, OpenTail, OpenUnlockFails, TakeMu, TakeLock,
       LockFails, ReadTail, ReadTailFails, Refuse, AppendLine, AppendFails, Finish, FinishFails, Panic
  <2>5. ASSUME NEW t \in Threads, NEW g \in Handles, OpenChained(t, g)
        PROVE  open' = open
    BY <2>5 DEF OpenChained
  <2>6. ASSUME NEW t \in Threads, NEW g \in Handles, NEW c \in Content, Begin(t, g, c)
        PROVE  open' = open
    BY <2>6 DEF Begin
  <2>7. ASSUME NEW g \in Handles, Close(g) \/ Crash(g)
        PROVE  open' \subseteq open
    BY <2>7 DEF Close, Crash
  <2>8. CASE PowerLoss
    BY <2>8 DEF PowerLoss
  <2> QED BY <2>2, <2>3, <2>4, <2>5, <2>6, <2>7, <2>8 DEF Next
<1> QED BY <1>1, <1>2, <1>3, SpecInv, PTL DEF Spec, ResumesFromDisk
===============================================================================
