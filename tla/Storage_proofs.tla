---------------------------- MODULE Storage_proofs ----------------------------
(***************************************************************************)
(* The storage layer.  The writer lock excludes for every set of callers,  *)
(* every assignment of callers to processes, and every choice of crash and *)
(* stall points that respects SafeWindows; the room store, whose writes run *)
(* under that lock, keeps its log for every number of requests, keys and    *)
(* messages, and for every interruption.                                   *)
(***************************************************************************)
EXTENDS RoomStore, WriterLock, TLAPS

-------------------------------------------------------------------------------
\* The writer lock


\* A caller that created the lock file and has not released it owns the file at
\* the path, stamped once the second call is done; and the file at the path is
\* owned so, or is the stamped record of a dead holder.
LockOwned ==
  /\ \A c \in Callers : stage[c] \in Holding =>
        lock # NoFile /\ lock.owner = c /\ (stage[c] # "stamp" => lock.stamped)
  /\ lock # NoFile =>
        \/ stage[lock.owner] \in Holding
        \/ stage[lock.owner] = "dead" /\ lock.stamped
  /\ lock # NoFile /\ ~lock.stamped => stage[lock.owner] = "stamp"

\* The same for the reclaim lock, whose owners do not die.
ReclaimOwned ==
  /\ \A c \in Callers : stage[c] \in Reclaiming => reclaim # NoFile /\ reclaim.owner = c
  /\ reclaim # NoFile => stage[reclaim.owner] \in Reclaiming
  /\ reclaim # NoFile /\ ~reclaim.stamped => stage[reclaim.owner] = "reclaimStamp"

\* process.kill(pid, 0) tells the callers that died from those that run.
PidsTell ==
  \A c \in Callers : /\ stage[c] = "dead" => PidOf[c] \notin alive
                     /\ stage[c] \notin Ended => PidOf[c] \in alive

\* Whoever is about to reclaim judged the record of a dead process, and the file
\* it is about to remove still holds that record.
JudgedDead ==
  /\ \A c \in Callers : stage[c] \in {"reclaimOpen", "reclaimStamp", "reclaimRead", "reclaimRm"} =>
        raw[c] \in Callers /\ PidOf[raw[c]] \notin alive
  /\ \A c \in Callers : stage[c] = "reclaimRm" =>
        lock # NoFile /\ lock.stamped /\ lock.owner = raw[c]

\* An unstamped file, and any file found by a caller that read an unstamped one,
\* is younger than the stale window.
EmptyIsYoung ==
  /\ lock # NoFile /\ ~lock.stamped => ~lock.old
  /\ reclaim # NoFile /\ ~reclaim.stamped => ~reclaim.old
  /\ \A c \in Callers : stage[c] = "judge" /\ raw[c] = Empty => lock = NoFile \/ ~lock.old
  /\ \A c \in Callers : stage[c] = "cleanJudge" /\ raw[c] = Empty => reclaim = NoFile \/ ~reclaim.old

\* No reclaim lock is ever judged abandoned: the pid a cleaner read is alive.
NoTakeOver ==
  /\ \A c \in Callers : stage[c] = "cleanJudge" /\ raw[c] # Empty => PidOf[raw[c]] \in alive
  /\ \A c \in Callers : stage[c] \notin {"takeRename", "takeCheck", "takeLink"}

LockInv == /\ LockTypeOK /\ LockOwned /\ ReclaimOwned /\ PidsTell
        /\ JudgedDead /\ EmptyIsYoung /\ NoTakeOver

------------------------------------------------------------------------------
USE LockAssumption

LEMMA LockStarts == LockInit => LockInv
  BY DEF LockInit, LockInv, LockTypeOK, LockOwned, ReclaimOwned, PidsTell, JudgedDead,
         EmptyIsYoung, NoTakeOver, LockPoints, Waiting, Holding, Reclaiming, Ended

LEMMA FileTypes ==
  ASSUME NEW file \in File \cup {NoFile}
  PROVE  /\ \A c \in Callers : Fresh(c) \in File
         /\ \A c \in Callers : Stamp(file, c) \in File \cup {NoFile}
         /\ Aged(file) \in File \cup {NoFile}
         /\ file # NoFile => Content(file) \in Callers \cup {Empty}
  BY DEF File, Fresh, Stamp, Aged, Content

\* What creating, stamping and ageing do to the fields of a file.
LEMMA FileFields ==
  ASSUME NEW c \in Callers
  PROVE  /\ Fresh(c) # NoFile
         /\ Fresh(c).owner = c /\ ~Fresh(c).stamped /\ ~Fresh(c).old
         /\ Stamp(NoFile, c) = NoFile
         /\ \A file \in File :
              /\ Stamp(file, c) # NoFile
              /\ Stamp(file, c).owner = file.owner
              /\ Stamp(file, c).stamped <=> file.stamped \/ file.owner = c
              /\ Stamp(file, c).old => file.old
<1>1. Fresh(c) \in File /\ Stamp(NoFile, c) = NoFile
  BY DEF Fresh, File, Stamp
<1>2. ASSUME NEW file \in File
      PROVE  /\ Stamp(file, c) # NoFile
             /\ Stamp(file, c).owner = file.owner
             /\ Stamp(file, c).stamped <=> file.stamped \/ file.owner = c
             /\ Stamp(file, c).old => file.old
  <2>1. CASE file.owner = c /\ ~file.stamped
    <3>1. Stamp(file, c) = [file EXCEPT !.stamped = TRUE, !.old = FALSE]
      BY <2>1 DEF Stamp
    <3>2. [file EXCEPT !.stamped = TRUE, !.old = FALSE] \in File
      BY DEF File
    <3> QED
      BY <2>1, <3>1, <3>2 DEF File
  <2>2. CASE ~(file.owner = c /\ ~file.stamped)
    BY <2>2 DEF Stamp
  <2> QED
    BY <2>1, <2>2
<1> QED
  BY <1>1, <1>2 DEF Fresh

LEMMA AgedFields ==
  ASSUME NEW file \in File
  PROVE  Aged(file) # NoFile /\ Aged(file).owner = file.owner
         /\ (Aged(file).stamped <=> file.stamped)
<1>1. Aged(file) = [file EXCEPT !.old = TRUE]
  BY DEF Aged
<1> QED
  BY <1>1 DEF File

\* Type correctness needs no assumption on crashes and stalls.
LEMMA LockTypeStep == LockTypeOK /\ [LockNext]_lockVars => LockTypeOK'
<1> SUFFICES ASSUME LockTypeOK, [LockNext]_lockVars PROVE LockTypeOK'
  OBVIOUS
<1> USE FileTypes DEF LockTypeOK, MoveTo, LockPoints, Waiting, Holding, Reclaiming, Ended
<1>1. ASSUME NEW c \in Callers, Start(c) \/ TimeOut(c) \/ WriteRecordFails(c) PROVE LockTypeOK'
  BY <1>1 DEF Start, TimeOut, WriteRecordFails
<1>2. ASSUME NEW c \in Callers, Create(c) PROVE LockTypeOK'
  BY <1>2 DEF Create
<1>3. ASSUME NEW c \in Callers, WriteRecord(c) PROVE LockTypeOK'
  BY <1>3 DEF WriteRecord
<1>4. ASSUME NEW c \in Callers, Chmod(c) \/ Release(c) \/ Contend(c) PROVE LockTypeOK'
  BY <1>4 DEF Chmod, Release, Contend
<1>5. ASSUME NEW c \in Callers, ReadLock(c) PROVE LockTypeOK'
  BY <1>5 DEF ReadLock
<1>6. ASSUME NEW c \in Callers, JudgeLock(c) \/ JudgeReclaim(c) PROVE LockTypeOK'
  BY <1>6 DEF JudgeLock, JudgeReclaim
<1>7. ASSUME NEW c \in Callers, ReclaimCreate(c) PROVE LockTypeOK'
  BY <1>7 DEF ReclaimCreate
<1>8. ASSUME NEW c \in Callers, ReclaimWriteRecord(c) PROVE LockTypeOK'
  BY <1>8 DEF ReclaimWriteRecord
<1>9. ASSUME NEW c \in Callers, ReclaimReread(c) \/ ReclaimRemove(c) \/ ReclaimRelease(c)
      PROVE LockTypeOK'
  BY <1>9 DEF ReclaimReread, ReclaimRemove, ReclaimRelease
<1>10. ASSUME NEW c \in Callers, ReadReclaim(c) PROVE LockTypeOK'
  BY <1>10 DEF ReadReclaim
<1>11. ASSUME NEW c \in Callers, TakeOverRename(c) PROVE LockTypeOK'
  BY <1>11 DEF TakeOverRename
<1>12. ASSUME NEW c \in Callers, TakeOverCheck(c) PROVE LockTypeOK'
  BY <1>12 DEF TakeOverCheck
<1>13. ASSUME NEW c \in Callers, TakeOverLink(c) PROVE LockTypeOK'
  BY <1>13 DEF TakeOverLink
<1>14. ASSUME NEW p \in Pids, Crash(p) PROVE LockTypeOK'
  BY <1>14 DEF Crash
<1>15. CASE Age
  BY <1>15 DEF Age
<1>16. CASE UNCHANGED lockVars
  BY <1>16 DEF lockVars
<1> QED
  BY <1>1, <1>2, <1>3, <1>4, <1>5, <1>6, <1>7, <1>8, <1>9, <1>10, <1>11, <1>12,
     <1>13, <1>14, <1>15, <1>16 DEF LockNext, Step

\* Every state of every execution, with any crash and any stall, is well typed.
THEOREM LockTypeCorrect == LockSpec => []LockTypeOK
<1>1. LockInit => LockTypeOK
  BY LockStarts DEF LockInv
<1> QED
  BY <1>1, LockTypeStep, PTL DEF LockSpec

------------------------------------------------------------------------------
\* One step preserves the inductive invariant, action by action.
LEMMA LockKeeps == SafeWindows /\ LockInv /\ [LockNext]_lockVars => LockInv'
<1> SUFFICES ASSUME SafeWindows, LockInv, [LockNext]_lockVars PROVE LockInv'
  OBVIOUS
<1> LockTypeOK /\ LockTypeOK'
  BY LockTypeStep DEF LockInv
<1> DEFINE Rest == LockOwned /\ ReclaimOwned /\ PidsTell /\ JudgedDead /\ EmptyIsYoung /\ NoTakeOver
<1> SUFFICES Rest'
  BY DEF LockInv
<1> Rest
  BY DEF LockInv
<1> USE DEF LockTypeOK, MoveTo, LockOwned, ReclaimOwned, PidsTell, JudgedDead, EmptyIsYoung,
            NoTakeOver, LockPoints, Waiting, Holding, Reclaiming, Ended
<1>1. ASSUME NEW c \in Callers, Start(c) PROVE Rest'
  BY <1>1 DEF Start
<1>2. ASSUME NEW c \in Callers, Create(c) PROVE Rest'
  BY <1>2, FileFields DEF Create
<1>3. ASSUME NEW c \in Callers, WriteRecord(c) PROVE Rest'
  BY <1>3, FileFields DEF WriteRecord
<1>4. ASSUME NEW c \in Callers, WriteRecordFails(c) PROVE Rest'
  BY <1>4 DEF WriteRecordFails, SafeWindows
<1>5. ASSUME NEW c \in Callers, Chmod(c) PROVE Rest'
  BY <1>5 DEF Chmod
<1>6. ASSUME NEW c \in Callers, Release(c) PROVE Rest'
  BY <1>6 DEF Release
<1>7. ASSUME NEW c \in Callers, TimeOut(c) PROVE Rest'
  BY <1>7 DEF TimeOut
<1>8. ASSUME NEW c \in Callers, Contend(c) PROVE Rest'
  BY <1>8 DEF Contend
<1>9. ASSUME NEW c \in Callers, ReadLock(c) PROVE Rest'
  BY <1>9 DEF ReadLock, Content, File
<1>10. ASSUME NEW c \in Callers, JudgeLock(c) PROVE Rest'
  BY <1>10 DEF JudgeLock, IsStale
<1>11. ASSUME NEW c \in Callers, ReclaimCreate(c) PROVE Rest'
  <2>1. CASE reclaim = NoFile
    <3>1. /\ reclaim' = Fresh(c) /\ stage' = [stage EXCEPT ![c] = "reclaimStamp"]
          /\ UNCHANGED <<lock, moved, raw, alive>>
      BY <1>11, <2>1 DEF ReclaimCreate
    <3>2. /\ reclaim' # NoFile /\ reclaim'.owner = c
          /\ ~reclaim'.stamped /\ ~reclaim'.old
      BY <3>1, FileFields
    <3>3. LockOwned' /\ PidsTell' /\ JudgedDead'
      BY <1>11, <3>1 DEF ReclaimCreate, File
    <3>4. ReclaimOwned'
      BY <2>1, <3>1, <3>2
    <3>5. EmptyIsYoung' /\ NoTakeOver'
      BY <3>1, <3>2
    <3> QED
      BY <3>3, <3>4, <3>5
  <2>2. CASE reclaim # NoFile
    BY <1>11, <2>2 DEF ReclaimCreate, File
  <2> QED
    BY <2>1, <2>2
<1>12. ASSUME NEW c \in Callers, ReclaimWriteRecord(c) PROVE Rest'
  BY <1>12, FileFields DEF ReclaimWriteRecord
<1>13. ASSUME NEW c \in Callers, ReclaimReread(c) PROVE Rest'
  BY <1>13 DEF ReclaimReread, Unchanged, Content
<1>14. ASSUME NEW c \in Callers, ReclaimRemove(c) PROVE Rest'
  BY <1>14 DEF ReclaimRemove
<1>15. ASSUME NEW c \in Callers, ReclaimRelease(c) PROVE Rest'
  BY <1>15 DEF ReclaimRelease
<1>16. ASSUME NEW c \in Callers, ReadReclaim(c) PROVE Rest'
  BY <1>16 DEF ReadReclaim, Content, File
<1>17. ASSUME NEW c \in Callers, JudgeReclaim(c) PROVE Rest'
  BY <1>17 DEF JudgeReclaim, IsStale
<1>18. ASSUME NEW c \in Callers, TakeOverRename(c) \/ TakeOverCheck(c) \/ TakeOverLink(c) PROVE Rest'
  BY <1>18 DEF TakeOverRename, TakeOverCheck, TakeOverLink
<1>19. ASSUME NEW p \in Pids, Crash(p) PROVE Rest'
  BY <1>19 DEF Crash, SafeWindows, File
<1>20. CASE Age
  <2>1. /\ \A c \in Callers : stage[c] \notin {"stamp", "judge", "reclaimStamp", "cleanJudge"}
        /\ UNCHANGED <<stage, raw, alive>>
        /\ lock' = Aged(lock) /\ reclaim' = Aged(reclaim)
    BY <1>20 DEF Age, SafeWindows
  <2>2. /\ lock = NoFile <=> lock' = NoFile
        /\ lock # NoFile => lock.owner \in Callers /\ lock'.owner = lock.owner
                            /\ (lock'.stamped <=> lock.stamped)
    BY <2>1, AgedFields DEF Aged, File
  <2>3. /\ reclaim = NoFile <=> reclaim' = NoFile
        /\ reclaim # NoFile => reclaim.owner \in Callers /\ reclaim'.owner = reclaim.owner
                               /\ (reclaim'.stamped <=> reclaim.stamped)
    BY <2>1, AgedFields DEF Aged, File
  <2> QED
    BY <2>1, <2>2, <2>3
<1>21. CASE UNCHANGED lockVars
  BY <1>21 DEF lockVars
<1> QED
  BY <1>1, <1>2, <1>3, <1>4, <1>5, <1>6, <1>7, <1>8, <1>9, <1>10, <1>11, <1>12, <1>13, <1>14, <1>15, <1>16, <1>17, <1>18, <1>19, <1>20, <1>21 DEF LockNext, Step

LEMMA LockAlways == ASSUME SafeWindows PROVE LockSpec => []LockInv
<1>1. LockInv /\ [LockNext]_lockVars => LockInv'
  BY LockKeeps
<1> QED
  BY <1>1, LockStarts, PTL DEF LockSpec

LEMMA LockExcludes == LockInv => MutualExclusion /\ ReclaimExclusive
  BY DEF LockInv, LockOwned, ReclaimOwned, MutualExclusion, ReclaimExclusive, Holding

\* Two callers never run their protected functions at once, for any number of
\* callers and processes and with holders dying at any moment, as long as nobody
\* dies or stalls in the windows.
THEOREM LockIsExclusive == ASSUME SafeWindows PROVE LockSpec => []MutualExclusion
  BY LockAlways, LockExcludes, PTL

\* Under the same windows reclaimStaleRecord runs for one caller at a time, which
\* is what keeps its check-then-remove of the primary lock sound.
THEOREM ReclaimIsSerialized == ASSUME SafeWindows PROVE LockSpec => []ReclaimExclusive
  BY LockAlways, LockExcludes, PTL

\* Under the same windows no step but its own release removes the lock file of a
\* caller that is acquiring or holding ("a live successor lock is never removed").
THEOREM LiveLockIsKept == ASSUME SafeWindows PROVE LockSpec => LiveLockKept
<1> DEFINE Kept == lock # NoFile /\ lock' = NoFile /\ stage[lock.owner] \in Holding
                     => stage'[lock.owner] = "done"
<1>1. LockInv /\ [LockNext]_lockVars => [Kept]_lockVars
  <2> SUFFICES ASSUME LockInv, LockNext, lock # NoFile, lock' = NoFile, stage[lock.owner] \in Holding
               PROVE  stage'[lock.owner] = "done"
    BY DEF lockVars
  <2>1. LockTypeOK /\ lock \in File /\ lock.owner \in Callers
    BY DEF LockInv, LockTypeOK, File
  <2>2. ASSUME NEW c \in Callers, Release(c) PROVE stage'[lock.owner] = "done"
    BY <2>1, <2>2 DEF Release, MoveTo, LockInv, LockOwned, Holding, LockTypeOK
  <2>3. ASSUME NEW c \in Callers, ReclaimRemove(c) PROVE FALSE
    BY <2>1, <2>3 DEF ReclaimRemove, LockInv, JudgedDead, PidsTell, Holding, Ended
  <2>4. ASSUME NEW c \in Callers, Create(c) \/ WriteRecord(c) PROVE FALSE
    BY <2>1, <2>4, FileFields DEF Create, WriteRecord
  <2>5. CASE Age
    BY <2>1, <2>5, AgedFields DEF Age
  <2> QED
    BY <2>2, <2>3, <2>4, <2>5
       DEF LockNext, Step, Start, WriteRecordFails, Chmod, TimeOut, Contend, ReadLock, JudgeLock,
           ReclaimCreate, ReclaimWriteRecord, ReclaimReread, ReclaimRelease, ReadReclaim,
           JudgeReclaim, TakeOverRename, TakeOverCheck, TakeOverLink, Crash
<1> QED
  BY <1>1, LockAlways, PTL DEF LockSpec, LiveLockKept

\* Under the same windows the lock refines the abstract mutex: a caller enters
\* only when nobody is inside.
THEOREM LockRefinesMutex == ASSUME SafeWindows PROVE LockSpec => ImplementsMutex
<1> DEFINE inside == {c \in Callers : stage[c] = "critical"}
<1>1. LockInit => MX!MInit
  BY DEF LockInit, MX!MInit
<1>2. LockInv /\ [LockNext]_lockVars => [MX!MNext]_inside
  <2> SUFFICES ASSUME LockInv, LockNext PROVE MX!MNext \/ inside' = inside
    BY DEF lockVars
  <2> USE DEF MoveTo
  <2>1. LockTypeOK /\ MutualExclusion
    BY LockExcludes DEF LockInv
  <2>2. ASSUME NEW c \in Callers, Chmod(c) PROVE MX!MNext \/ inside' = inside
    <3>1. lock # NoFile /\ lock.owner = c
      BY <2>2 DEF Chmod, LockInv, LockOwned, Holding
    <3>2. inside = {}
      BY <2>2, <3>1 DEF Chmod, LockInv, LockOwned, Holding
    <3>3. inside' = {c}
      BY <2>1, <2>2, <3>1, <3>2 DEF Chmod, LockTypeOK
    <3> QED
      BY <3>2, <3>3 DEF MX!MNext, MX!MEnter
  <2>3. ASSUME NEW c \in Callers, Release(c) PROVE MX!MNext \/ inside' = inside
    <3>1. c \in inside /\ inside' = inside \ {c}
      BY <2>1, <2>3 DEF Release, LockTypeOK
    <3> QED
      BY <3>1 DEF MX!MNext, MX!MLeave
  <2>4. ASSUME NEW p \in Pids, Crash(p) PROVE MX!MNext \/ inside' = inside
    <3>1. CASE \E c \in inside : PidOf[c] = p
      <4>1. PICK c \in inside : PidOf[c] = p
        BY <3>1
      <4>2. inside = {c}
        BY <2>1, <4>1 DEF MutualExclusion
      <4>3. inside' = {}
        BY <2>4, <4>1, <4>2 DEF Crash, Ended
      <4> QED
        BY <4>1, <4>2, <4>3 DEF MX!MNext, MX!MLeave
    <3>2. CASE \A c \in inside : PidOf[c] # p
      BY <2>4, <3>2 DEF Crash
    <3> QED
      BY <3>1, <3>2
  <2>5. ASSUME NEW c \in Callers,
               \/ Start(c) \/ Create(c) \/ WriteRecord(c) \/ WriteRecordFails(c)
               \/ TimeOut(c) \/ Contend(c) \/ ReadLock(c) \/ JudgeLock(c)
        PROVE  inside' = inside
    BY <2>1, <2>5 DEF Start, Create, WriteRecord, WriteRecordFails, TimeOut, Contend,
                      ReadLock, JudgeLock, LockTypeOK
  <2>6. ASSUME NEW c \in Callers,
               \/ ReclaimCreate(c) \/ ReclaimWriteRecord(c) \/ ReclaimReread(c)
               \/ ReclaimRemove(c) \/ ReclaimRelease(c)
        PROVE  inside' = inside
    BY <2>1, <2>6 DEF ReclaimCreate, ReclaimWriteRecord, ReclaimReread, ReclaimRemove,
                      ReclaimRelease, LockTypeOK
  <2>7. ASSUME NEW c \in Callers,
               \/ ReadReclaim(c) \/ JudgeReclaim(c)
               \/ TakeOverRename(c) \/ TakeOverCheck(c) \/ TakeOverLink(c)
        PROVE  inside' = inside
    BY <2>1, <2>7 DEF ReadReclaim, JudgeReclaim, TakeOverRename, TakeOverCheck,
                      TakeOverLink, LockTypeOK
  <2>8. CASE Age
    BY <2>8 DEF Age
  <2> QED
    BY <2>2, <2>3, <2>4, <2>5, <2>6, <2>7, <2>8 DEF LockNext, Step
<1> QED
  BY <1>1, <1>2, LockAlways, PTL DEF LockSpec, ImplementsMutex, MX!MSpec

HIDE LockAssumption

-------------------------------------------------------------------------------
\* The room store


USE StoreAssumption

\* While a request is between its two writes nobody else wrote the state.
HolderInv == holder # Nobody => seen = room

\* The id to be handed out next counts the log, except between an append and
\* its state write, where it still names the line just appended.
NextInv ==
  /\ holder = Nobody /\ ~dirty => room.next = Len(log) + 1
  /\ holder # Nobody => ~dirty /\ seen.next = Len(log)
  /\ dirty => Interrupts /\ room.next <= Len(log) + 1

\* Recovery is performed wherever an append can be interrupted.
Recovered == Interrupts => Recovery

LEMMA LogEntries ==
  ASSUME TypeOK
  PROVE  /\ DOMAIN log = 1 .. Len(log)
         /\ Len(log) \in Nat
         /\ Ids \subseteq Nat
         /\ \A i \in DOMAIN log : log[i] \in Message /\ log[i].id \in Nat
<1>1. DOMAIN log = 1 .. Len(log) /\ Len(log) \in Nat /\ \A i \in DOMAIN log : log[i] \in Message
  BY DEF TypeOK
<1>2. \A m \in Message : m.id \in Nat
  BY DEF Message
<1> QED
  BY <1>1, <1>2 DEF Ids

LEMMA NextIdUpdate ==
  ASSUME NEW state \in State, NEW n \in Nat
  PROVE  /\ [state EXCEPT !.next = n] \in State
         /\ [state EXCEPT !.next = n].next = n
  BY DEF State

LEMMA TypeStep == TypeOK /\ [Next]_vars => TypeOK'
<1> SUFFICES ASSUME TypeOK, [Next]_vars PROVE TypeOK'
  OBVIOUS
<1> USE DEF TypeOK, Goto, State, Points, Kinds, Policies, Lines, perRequest
<1>1. ASSUME NEW r \in Requests, Arrive(r) PROVE TypeOK'
  BY <1>1 DEF Arrive, Guarded
<1>2. ASSUME NEW r \in Requests, CheckRoom(r) PROVE TypeOK'
  BY <1>2 DEF CheckRoom, Refused
<1>3. ASSUME NEW r \in Requests, CloseExpired(r) \/ Close(r) PROVE TypeOK'
  <2>1. room' \in State
    BY <1>3 DEF CloseExpired, Close, Closed
  <2>2. pc' \in [Requests -> Points]
    <3>1. \E point \in Points : pc' = [pc EXCEPT ![r] = point]
      BY <1>3 DEF CloseExpired, Close
    <3> QED
      BY <3>1
  <2>3. UNCHANGED <<log, expired, holder, seen, dirty, perRequest, told>>
    BY <1>3 DEF CloseExpired, Close
  <2> QED
    BY <2>1, <2>2, <2>3
<1>4. ASSUME NEW r \in Requests, StartSession(r) \/ EndSession(r) PROVE TypeOK'
  <2>1. room' \in State
    BY <1>4 DEF StartSession, EndSession
  <2>2. pc' \in [Requests -> Points]
    BY <1>4 DEF StartSession, EndSession
  <2>3. UNCHANGED <<log, expired, holder, seen, dirty, perRequest, told>>
    BY <1>4 DEF StartSession, EndSession
  <2> QED
    BY <2>1, <2>2, <2>3
<1>5. ASSUME NEW r \in Requests, SetPolicy(r) PROVE TypeOK'
  BY <1>5 DEF SetPolicy
<1>6. ASSUME NEW r \in Requests, PostAgain(r) PROVE TypeOK'
  BY <1>6, LogEntries DEF PostAgain
<1>7. ASSUME NEW r \in Requests, PostFull(r) \/ LockTimeout(r) PROVE TypeOK'
  BY <1>7 DEF PostFull, LockTimeout
<1>8. ASSUME NEW r \in Requests, NEW line \in Lines, NEW m \in Keys \cup {NoKey},
             NEW point \in Points, AppendLine(r, line, m, point)
      PROVE  TypeOK'
  <2>1. [id |-> room.next, line |-> line, key |-> m] \in Message
    BY DEF Message
  <2> QED
    BY <1>8, <2>1 DEF AppendLine
<1>9. ASSUME NEW r \in Requests, Post(r) \/ AppendNote(r) \/ AppendTtlNote(r) PROVE TypeOK'
  <2>1. Refused(r) \in Points
    BY DEF Refused
  <2> QED
    BY <1>8, <1>9, <2>1 DEF Post, AppendNote, AppendTtlNote
<1>10. ASSUME NEW r \in Requests, SaveNextId(r) PROVE TypeOK'
  <2>1. seen.next + 1 \in Nat /\ seen.next \in Nat /\ resume[r] \in Points
    OBVIOUS
  <2>2. room' \in State
    BY <1>10, <2>1, NextIdUpdate DEF SaveNextId
  <2> QED
    BY <1>10, <2>1, <2>2 DEF SaveNextId
<1>11. ASSUME NEW r \in Requests, InterruptSave(r) PROVE TypeOK'
  BY <1>11 DEF InterruptSave
<1>12. CASE Expire
  BY <1>12 DEF Expire
<1>13. CASE RecoverState
  <2>1. PICK highest \in Ids \cup {0} :
          room' = [room EXCEPT !.next = IF room.next > highest THEN @ ELSE highest + 1]
    BY <1>13 DEF RecoverState
  <2>2. highest \in Nat
    BY LogEntries
  <2>3. (IF room.next > highest THEN room.next ELSE highest + 1) \in Nat
    BY <2>2
  <2>4. room' \in State
    BY <2>1, <2>3, NextIdUpdate
  <2> QED
    BY <1>13, <2>4 DEF RecoverState
<1>14. CASE UNCHANGED vars
  BY <1>14 DEF vars
<1> QED
  BY <1>1, <1>2, <1>3, <1>4, <1>5, <1>6, <1>7, <1>9, <1>10, <1>11, <1>12, <1>13, <1>14
     DEF Next, Serve

\* Every append is one line, with the next id of the state, made while nobody is
\* between two writes; a participant's line is new and within the cap.
AppendsOneLine ==
  \E line \in Lines, m \in Keys \cup {NoKey} :
    /\ LockFree /\ holder' \in Requests
    /\ ~(Recovery /\ dirty) /\ dirty' = dirty
    /\ UNCHANGED <<room, told, key>> /\ seen' = room
    /\ log' = Append(log, [id |-> room.next, line |-> line, key |-> m])
    /\ m # NoKey => ~Known(m) /\ line = "post"
    /\ line = "post" => Len(log) < MaxMessages

LEMMA AppendStep ==
  ASSUME TypeOK, NEW r \in Requests, Post(r) \/ AppendNote(r) \/ AppendTtlNote(r)
  PROVE  AppendsOneLine
<1>1. CASE Post(r)
  BY <1>1 DEF Post, AppendLine, AppendsOneLine, Lines, TypeOK
<1>2. CASE AppendNote(r)
  BY <1>2 DEF AppendNote, AppendLine, AppendsOneLine, Lines
<1>3. CASE AppendTtlNote(r)
  BY <1>3 DEF AppendTtlNote, AppendLine, AppendsOneLine, Lines
<1> QED
  BY <1>1, <1>2, <1>3

\* Every other step leaves the log alone.
LEMMA LogStep ==
  ASSUME TypeOK, [Next]_vars
  PROVE  log' = log \/ AppendsOneLine
<1>1. ASSUME NEW r \in Requests, Arrive(r) \/ Serve(r) \/ LockTimeout(r) \/ InterruptSave(r)
      PROVE  log' = log \/ AppendsOneLine
  BY <1>1, AppendStep
     DEF Serve, Arrive, CheckRoom, CloseExpired, Close, StartSession, EndSession, SetPolicy,
         PostAgain, PostFull, SaveNextId, InterruptSave, LockTimeout
<1> QED
  BY <1>1 DEF Next, Expire, RecoverState, vars

\* The holder's copy of the state is the state: everybody else waits for the lock.
LEMMA HolderStep == TypeOK /\ HolderInv /\ [Next]_vars => HolderInv'
<1> SUFFICES ASSUME TypeOK, HolderInv, [Next]_vars PROVE HolderInv'
  OBVIOUS
<1> USE DEF HolderInv, LockFree
<1>1. ASSUME NEW r \in Requests, Arrive(r) \/ CheckRoom(r) \/ LockTimeout(r) PROVE HolderInv'
  BY <1>1 DEF Arrive, CheckRoom, LockTimeout
<1>2. ASSUME NEW r \in Requests,
             \/ CloseExpired(r) \/ Close(r) \/ StartSession(r) \/ EndSession(r) \/ SetPolicy(r)
             \/ PostAgain(r) \/ PostFull(r)
      PROVE  HolderInv'
  BY <1>2 DEF CloseExpired, Close, StartSession, EndSession, SetPolicy, PostAgain, PostFull
<1>3. ASSUME AppendsOneLine PROVE HolderInv'
  BY <1>3 DEF AppendsOneLine
<1>4. ASSUME NEW r \in Requests, SaveNextId(r) \/ InterruptSave(r) PROVE HolderInv'
  BY <1>4 DEF SaveNextId, InterruptSave
<1> QED
  BY <1>1, <1>2, <1>3, <1>4, AppendStep DEF Next, Serve, Expire, RecoverState, vars

\* What a step that neither appends nor ends an append does to the next id.
LEMMA NextIdStep ==
  ASSUME TypeOK, [Next]_vars
  PROVE  \/ AppendsOneLine
         \/ \E r \in Requests : SaveNextId(r) \/ InterruptSave(r)
         \/ RecoverState
         \/ UNCHANGED <<log, holder, dirty, seen>> /\ room'.next = room.next
<1>1. ASSUME NEW r \in Requests, Arrive(r) \/ CheckRoom(r) \/ LockTimeout(r) \/ PostAgain(r) \/ PostFull(r)
      PROVE  UNCHANGED <<log, holder, dirty, seen>> /\ room' = room
  BY <1>1 DEF Arrive, CheckRoom, LockTimeout, PostAgain, PostFull
<1>2. ASSUME NEW r \in Requests, CloseExpired(r) \/ Close(r) \/ StartSession(r) \/ EndSession(r) \/ SetPolicy(r)
      PROVE  UNCHANGED <<log, holder, dirty, seen>> /\ room'.next = room.next
  BY <1>2 DEF CloseExpired, Close, Closed, StartSession, EndSession, SetPolicy, TypeOK, State
<1> QED
  BY <1>1, <1>2, AppendStep DEF Next, Serve, Expire, vars

GapIInv == TypeOK /\ HolderInv /\ NextInv /\ GaplessIds

LEMMA GapInit == Init => GapIInv
<1> SUFFICES ASSUME Init PROVE GapIInv
  OBVIOUS
<1>1. log \in Seq(Message) /\ Len(log) = 0 /\ DOMAIN log = {}
  BY DEF Init
<1>2. room \in State /\ room.next = 1
  BY DEF Init, State, Policies
<1>3. TypeOK
  BY <1>1, <1>2 DEF Init, TypeOK, Points, Kinds
<1> QED
  BY <1>1, <1>2, <1>3 DEF Init, GapIInv, HolderInv, NextInv, GaplessIds

LEMMA GapStep ==
  ASSUME Recovered, GapIInv, [Next]_vars
  PROVE  NextInv' /\ GaplessIds'
<1> USE DEF GapIInv
<1>1. CASE AppendsOneLine
  <2>1. PICK line \in Lines, m \in Keys \cup {NoKey} :
          log' = Append(log, [id |-> room.next, line |-> line, key |-> m])
    BY <1>1 DEF AppendsOneLine
  <2>2. holder = Nobody /\ ~dirty /\ ~dirty' /\ holder' # Nobody /\ seen' = room
    BY <1>1 DEF AppendsOneLine, LockFree, NextInv, Recovered
  <2>3. room.next = Len(log) + 1
    BY <2>2 DEF NextInv
  <2>4. /\ Len(log) \in Nat
        /\ Len(log') = Len(log) + 1
        /\ \A i \in 1 .. Len(log) : log'[i] = log[i]
        /\ log'[Len(log) + 1].id = room.next
        /\ DOMAIN log = 1 .. Len(log) /\ DOMAIN log' = 1 .. Len(log) + 1
    BY <2>1 DEF TypeOK
  <2> QED
    BY <2>2, <2>3, <2>4 DEF NextInv, GaplessIds
<1>2. ASSUME NEW r \in Requests, SaveNextId(r) PROVE NextInv' /\ GaplessIds'
  <2>1. seen \in State /\ seen.next \in Nat
    BY DEF TypeOK, State
  <2>2. room'.next = seen.next + 1
    BY <1>2, <2>1, NextIdUpdate DEF SaveNextId
  <2> QED
    BY <1>2, <2>1, <2>2 DEF SaveNextId, NextInv, GaplessIds
<1>3. ASSUME NEW r \in Requests, InterruptSave(r) PROVE NextInv' /\ GaplessIds'
  <2>1. Len(log) \in Nat
    BY LogEntries
  <2> QED
    BY <1>3, <2>1 DEF InterruptSave, NextInv, GaplessIds, HolderInv
<1>4. CASE RecoverState
  <2>1. PICK highest \in Ids \cup {0} :
          /\ \A id \in Ids : id <= highest
          /\ room' = [room EXCEPT !.next = IF room.next > highest THEN @ ELSE highest + 1]
    BY <1>4 DEF RecoverState
  <2>2. Ids = 1 .. Len(log) /\ Len(log) \in Nat
    BY LogEntries DEF GaplessIds, Ids
  <2>3. highest = Len(log)
    <3>1. CASE Len(log) = 0
      BY <2>1, <2>2, <3>1
    <3>2. CASE Len(log) > 0
      <4>1. Len(log) \in Ids
        BY <2>2, <3>2
      <4>2. Len(log) <= highest
        BY <2>1, <4>1
      <4> QED
        BY <2>1, <2>2, <4>2
    <3> QED
      BY <2>2, <3>1, <3>2
  <2>4. room \in State /\ room.next \in Nat /\ room.next <= Len(log) + 1
    BY <1>4 DEF RecoverState, NextInv, TypeOK, State
  <2>5. room'.next = Len(log) + 1
    BY <2>1, <2>2, <2>3, <2>4, NextIdUpdate
  <2> QED
    BY <1>4, <2>5 DEF RecoverState, NextInv, GaplessIds, LockFree
<1>5. CASE UNCHANGED <<log, holder, dirty, seen>> /\ room'.next = room.next
  BY <1>5 DEF NextInv, GaplessIds
<1> QED
  BY <1>1, <1>2, <1>3, <1>4, <1>5, NextIdStep

------------------------------------------------------------------------------
\* What AnswersNameMessages needs of the states in between: a request is told an
\* id once, when it has the lock; the line its holder appended is the last one and
\* nobody was told its id before.
IdleUntold == \A r \in Requests : pc[r] = "idle" => told[r] = 0
NotesAreNoPosts == \A r \in Requests : pc[r] = "line" => kind[r] # "post"
HolderSaves == holder # Nobody => pc[holder] = "save"
AppendsEnd == \A r \in Requests : resume[r] \in {"done", "failed"}
KeysArePosts == \A i \in DOMAIN log : log[i].key # NoKey => log[i].line = "post"
AppendedLast ==
  holder # Nobody =>
    /\ Len(log) > 0
    /\ \A r \in Requests : told[r] < seen.next
    /\ kind[holder] = "post" /\ resume[holder] = "done" =>
         log[Len(log)].line = "post" /\ log[Len(log)].key = key[holder]
ToldNames ==
  \A r \in Requests : told[r] # 0 =>
    \E i \in DOMAIN log : log[i].id = told[r] /\ log[i].line = "post" /\ log[i].key = key[r]
KeylessToldOnce ==
  \A r, s \in Requests : r # s /\ told[r] # 0 /\ told[r] = told[s] => key[r] # NoKey

AnswerInv ==
  /\ IdleUntold /\ NotesAreNoPosts /\ HolderSaves /\ AppendsEnd /\ KeysArePosts
  /\ AppendedLast /\ ToldNames /\ KeylessToldOnce

\* A step of a request that neither arrives nor writes to the log
QuietStep(r) ==
  /\ UNCHANGED <<log, told, kind, key, holder, seen, resume>>
  /\ pc[r] \notin {"idle", "save"}
  /\ \E point \in Points \ {"idle"} :
       /\ pc' = [pc EXCEPT ![r] = point]
       /\ point = "line" => kind[r] # "post"

LEMMA QuietSteps ==
  ASSUME TypeOK, NEW r \in Requests,
         \/ CheckRoom(r) \/ LockTimeout(r) \/ CloseExpired(r) \/ Close(r) \/ StartSession(r)
         \/ EndSession(r) \/ SetPolicy(r) \/ PostFull(r)
  PROVE  QuietStep(r)
<1> USE DEF QuietStep, Goto, Points, perRequest
<1>1. CASE CheckRoom(r)
  <2> DEFINE point == CASE room.status = "closed" -> Refused(r)
                        [] room.status = "open" /\ expired -> "ttlClose"
                        [] OTHER -> IF kind[r] = "status" THEN "done" ELSE "act"
  <2>1. point \in {"ttlClose", "act", "done", "failed"}
    BY DEF Refused, TypeOK, State
  <2>2. /\ pc[r] = "check" /\ pc' = [pc EXCEPT ![r] = point]
        /\ UNCHANGED <<log, told, kind, key, holder, seen, resume>>
    BY <1>1 DEF CheckRoom
  <2> HIDE DEF point
  <2> QED
    BY <2>1, <2>2
<1>2. CASE LockTimeout(r) \/ PostFull(r)
  BY <1>2 DEF LockTimeout, PostFull
<1>3. CASE CloseExpired(r) \/ Close(r) \/ SetPolicy(r)
  BY <1>3 DEF CloseExpired, Close, SetPolicy
<1>4. CASE StartSession(r) \/ EndSession(r)
  BY <1>4 DEF StartSession, EndSession
<1> QED
  BY <1>1, <1>2, <1>3, <1>4

LEMMA QuietAnswers ==
  ASSUME TypeOK, AnswerInv, NEW r \in Requests, QuietStep(r)
  PROVE  AnswerInv'
<1>1. /\ UNCHANGED <<log, told, kind, key, holder, seen, resume>>
      /\ pc[r] # "idle" /\ pc[r] # "save"
  BY DEF QuietStep
<1>2. PICK point \in Points \ {"idle"} :
        pc' = [pc EXCEPT ![r] = point] /\ (point = "line" => kind[r] # "post")
  BY DEF QuietStep
<1>3. /\ pc'[r] = point
      /\ \A s \in Requests \ {r} : pc'[s] = pc[s]
  BY <1>2 DEF TypeOK
<1>4. IdleUntold' /\ NotesAreNoPosts'
  BY <1>1, <1>2, <1>3 DEF AnswerInv, IdleUntold, NotesAreNoPosts
<1>5. HolderSaves'
  BY <1>1, <1>3 DEF AnswerInv, HolderSaves, TypeOK
<1>6. AppendsEnd' /\ KeysArePosts' /\ AppendedLast' /\ ToldNames' /\ KeylessToldOnce'
  BY <1>1 DEF AnswerInv, AppendsEnd, KeysArePosts, AppendedLast, ToldNames, KeylessToldOnce
<1> QED
  BY <1>4, <1>5, <1>6 DEF AnswerInv

LEMMA ArriveAnswers ==
  ASSUME TypeOK, AnswerInv, NEW r \in Requests, Arrive(r)
  PROVE  AnswerInv'
<1>1. /\ UNCHANGED <<room, log, holder, seen, resume, told>>
      /\ pc[r] = "idle" /\ told[r] = 0
      /\ pc'[r] \in {"check", "act"}
      /\ \A s \in Requests \ {r} : pc'[s] = pc[s] /\ kind'[s] = kind[s] /\ key'[s] = key[s]
  BY DEF Arrive, Goto, TypeOK, AnswerInv, IdleUntold
<1>2. IdleUntold' /\ NotesAreNoPosts' /\ AppendsEnd' /\ KeysArePosts'
  BY <1>1 DEF AnswerInv, IdleUntold, NotesAreNoPosts, AppendsEnd, KeysArePosts
<1>3. holder # r
  BY <1>1 DEF AnswerInv, HolderSaves
<1>4. HolderSaves' /\ AppendedLast'
  BY <1>1, <1>3 DEF AnswerInv, HolderSaves, AppendedLast, TypeOK
<1>5. ToldNames' /\ KeylessToldOnce'
  BY <1>1 DEF AnswerInv, ToldNames, KeylessToldOnce
<1> QED
  BY <1>2, <1>4, <1>5 DEF AnswerInv

\* The retry is answered with an id that some request with its key may have been
\* told before, and nobody else.
LEMMA AgainAnswers ==
  ASSUME GapIInv, AnswerInv, NEW r \in Requests, PostAgain(r)
  PROVE  AnswerInv'
<1>1. /\ UNCHANGED <<room, log, holder, seen, kind, key, resume>>
      /\ holder = Nobody /\ key[r] # NoKey /\ pc' = [pc EXCEPT ![r] = "done"]
  BY DEF PostAgain, LockFree, Goto, perRequest, Known
<1>2. PICK i \in DOMAIN log : log[i].key = key[r] /\ told' = [told EXCEPT ![r] = log[i].id]
  BY DEF PostAgain
<1>3. /\ told'[r] = log[i].id /\ log[i].line = "post"
      /\ \A s \in Requests \ {r} : told'[s] = told[s] /\ pc'[s] = pc[s]
      /\ pc'[r] = "done"
  BY <1>1, <1>2 DEF GapIInv, TypeOK, AnswerInv, KeysArePosts
<1>4. /\ IdleUntold' /\ NotesAreNoPosts' /\ HolderSaves' /\ AppendsEnd' /\ KeysArePosts'
      /\ AppendedLast'
  BY <1>1, <1>3
     DEF AnswerInv, IdleUntold, NotesAreNoPosts, HolderSaves, AppendsEnd, KeysArePosts,
         AppendedLast
<1>5. ToldNames'
  BY <1>1, <1>2, <1>3 DEF AnswerInv, ToldNames
<1>6. ASSUME NEW s \in Requests \ {r}, told'[s] = log[i].id, told'[s] # 0
      PROVE  key[s] # NoKey
  <2>1. PICK j \in DOMAIN log : log[j].id = told[s] /\ log[j].key = key[s]
    BY <1>3, <1>6 DEF AnswerInv, ToldNames
  <2>2. j = i
    BY <1>2, <1>3, <1>6, <2>1 DEF GapIInv, GaplessIds
  <2> QED
    BY <1>1, <1>2, <2>1, <2>2
<1>7. KeylessToldOnce'
  BY <1>1, <1>3, <1>6 DEF AnswerInv, KeylessToldOnce
<1> QED
  BY <1>4, <1>5, <1>7 DEF AnswerInv

\* What an append tells about its own line, before anybody is told its id
LEMMA AppendAnswers ==
  ASSUME GapIInv, AnswerInv, GaplessIds', ~dirty,
         NEW r \in Requests, Post(r) \/ AppendNote(r) \/ AppendTtlNote(r)
  PROVE  AnswerInv'
<1> DEFINE n == Len(log)
<1>0. TypeOK
  BY DEF GapIInv
<1>1. PICK line \in Lines, m \in Keys \cup {NoKey}, point \in {"done", "failed"} :
        /\ AppendLine(r, line, m, point)
        /\ m # NoKey => line = "post"
        /\ kind[r] = "post" /\ point = "done" => line = "post" /\ m = key[r]
  <2>1. CASE Post(r)
    BY <1>0, <2>1 DEF Post, Lines, TypeOK
  <2>2. CASE AppendNote(r)
    <3>1. kind[r] # "post"
      BY <2>2 DEF AppendNote, AnswerInv, NotesAreNoPosts
    <3> QED
      BY <2>2, <3>1 DEF AppendNote, Lines
  <2>3. CASE AppendTtlNote(r)
    <3>1. Refused(r) \in {"done", "failed"} /\ (kind[r] = "post" => Refused(r) # "done")
      BY DEF Refused
    <3> QED
      BY <2>3, <3>1 DEF AppendTtlNote, Lines
  <2> QED
    BY <2>1, <2>2, <2>3
<1>2. /\ holder = Nobody /\ holder' = r /\ seen' = room /\ UNCHANGED <<told, kind, key>>
      /\ resume'[r] = point /\ \A s \in Requests \ {r} : resume'[s] = resume[s]
      /\ pc'[r] = "save" /\ \A s \in Requests \ {r} : pc'[s] = pc[s]
  BY <1>0, <1>1 DEF AppendLine, LockFree, Goto, TypeOK
<1>3. /\ n \in Nat /\ Len(log') = n + 1
      /\ DOMAIN log = 1 .. n /\ DOMAIN log' = 1 .. n + 1
      /\ \A i \in 1 .. n : log'[i] = log[i]
      /\ log'[n + 1].line = line /\ log'[n + 1].key = m
  BY <1>0, <1>1 DEF AppendLine, TypeOK
<1>4. seen'.next = n + 1
  BY <1>2 DEF GapIInv, NextInv
<1>5. \A s \in Requests : told[s] < n + 1
  <2> SUFFICES ASSUME NEW s \in Requests, told[s] # 0 PROVE told[s] < n + 1
    BY <1>0, <1>3 DEF TypeOK
  <2>1. PICK i \in DOMAIN log : log[i].id = told[s]
    BY DEF AnswerInv, ToldNames
  <2> QED
    BY <1>3, <2>1 DEF GapIInv, GaplessIds
<1>6. IdleUntold' /\ NotesAreNoPosts' /\ HolderSaves' /\ AppendsEnd'
  BY <1>2 DEF AnswerInv, IdleUntold, NotesAreNoPosts, HolderSaves, AppendsEnd
<1>7. KeysArePosts'
  BY <1>1, <1>3 DEF AnswerInv, KeysArePosts
<1>8. AppendedLast'
  BY <1>1, <1>2, <1>3, <1>4, <1>5 DEF AppendedLast
<1>9. ToldNames'
  BY <1>2, <1>3 DEF AnswerInv, ToldNames
<1>10. KeylessToldOnce'
  BY <1>2 DEF AnswerInv, KeylessToldOnce
<1> QED
  BY <1>6, <1>7, <1>8, <1>9, <1>10 DEF AnswerInv

\* The holder is told the id of its line, which is new to everybody
LEMMA SaveAnswers ==
  ASSUME GapIInv, AnswerInv, NEW r \in Requests, SaveNextId(r)
  PROVE  AnswerInv'
<1> DEFINE mine == kind[r] = "post" /\ resume[r] = "done"
<1>0. TypeOK /\ seen.next \in Nat /\ holder = r /\ r # Nobody /\ seen.next = Len(log)
  BY DEF GapIInv, TypeOK, State, SaveNextId, NextInv
<1>1. /\ UNCHANGED <<log, seen, kind, key, resume>> /\ holder' = Nobody
      /\ told'[r] = IF mine THEN seen.next ELSE 0
      /\ pc'[r] = resume[r]
      /\ \A s \in Requests \ {r} : told'[s] = told[s] /\ pc'[s] = pc[s]
  BY <1>0 DEF SaveNextId, Goto, perRequest, TypeOK
<1>2. mine => /\ told'[r] = Len(log) /\ Len(log) > 0
              /\ Len(log) \in DOMAIN log /\ log[Len(log)].id = Len(log)
              /\ log[Len(log)].line = "post" /\ log[Len(log)].key = key[r]
  BY <1>0, <1>1 DEF AnswerInv, AppendedLast, GapIInv, GaplessIds, TypeOK
<1>3. \A s \in Requests : told[s] < seen.next
  BY <1>0 DEF AnswerInv, AppendedLast
<1>4. HolderSaves' /\ AppendsEnd' /\ KeysArePosts' /\ AppendedLast'
  BY <1>1 DEF AnswerInv, HolderSaves, AppendsEnd, KeysArePosts, AppendedLast
<1>5. ToldNames'
  BY <1>1, <1>2 DEF AnswerInv, ToldNames
<1>6. KeylessToldOnce'
  BY <1>0, <1>1, <1>3 DEF AnswerInv, KeylessToldOnce, TypeOK
<1>7. IdleUntold' /\ NotesAreNoPosts'
  BY <1>0, <1>1 DEF AnswerInv, IdleUntold, NotesAreNoPosts, AppendsEnd
<1> QED
  BY <1>4, <1>5, <1>6, <1>7 DEF AnswerInv

LEMMA AnswerStep ==
  ASSUME Recovered, GapIInv, GaplessIds', AnswerInv, [Next]_vars
  PROVE  AnswerInv'
<1>0. TypeOK
  BY DEF GapIInv
<1>1. ASSUME NEW r \in Requests, Post(r) \/ AppendNote(r) \/ AppendTtlNote(r)
      PROVE  AnswerInv'
  <2>1. ~dirty
    BY <1>1 DEF Post, AppendNote, AppendTtlNote, AppendLine, GapIInv, NextInv, Recovered
  <2> QED
    BY <1>1, <2>1, AppendAnswers
<1>2. ASSUME NEW r \in Requests, InterruptSave(r) PROVE AnswerInv'
  <2>1. /\ UNCHANGED <<log, seen, kind, key, resume, told>> /\ holder' = Nobody
        /\ pc'[r] \in {"failed", "dead"} /\ \A s \in Requests \ {r} : pc'[s] = pc[s]
    BY <1>0, <1>2 DEF InterruptSave, Goto, perRequest, TypeOK
  <2> QED
    BY <2>1 DEF AnswerInv, IdleUntold, NotesAreNoPosts, HolderSaves, AppendsEnd, KeysArePosts,
                AppendedLast, ToldNames, KeylessToldOnce
<1>3. ASSUME UNCHANGED <<log, holder, seen, pc, kind, key, resume, told>> PROVE AnswerInv'
  BY <1>3 DEF AnswerInv, IdleUntold, NotesAreNoPosts, HolderSaves, AppendsEnd, KeysArePosts,
              AppendedLast, ToldNames, KeylessToldOnce
<1>4. CASE Expire \/ RecoverState \/ UNCHANGED vars
  BY <1>3, <1>4 DEF Expire, RecoverState, perRequest, vars
<1>5. ASSUME NEW r \in Requests, Arrive(r) \/ Serve(r) \/ LockTimeout(r) PROVE AnswerInv'
  BY <1>0, <1>1, <1>5, ArriveAnswers, QuietSteps, QuietAnswers, AgainAnswers, SaveAnswers
     DEF Serve
<1> QED
  BY <1>2, <1>4, <1>5 DEF Next

------------------------------------------------------------------------------
\* Every state file, log line and request of the store has its type, whatever
\* the requests and wherever they are interrupted.
THEOREM TypeCorrect == Spec => []TypeOK
<1>1. Init => TypeOK
  BY GapInit DEF GapIInv
<1> QED
  BY <1>1, TypeStep, PTL DEF Spec

LEMMA HolderAlways == Spec => [](TypeOK /\ HolderInv)
<1>1. Init => TypeOK /\ HolderInv
  BY GapInit DEF GapIInv
<1> QED
  BY <1>1, TypeStep, HolderStep, PTL DEF Spec

\* appendMessageResult and appendServerMessage never hand out an id twice nor skip
\* one, for every number of concurrent and interrupted requests, provided that
\* recoverRoomState runs after an interrupted append.
THEOREM IdsAreGapless ==
  ASSUME Recovered
  PROVE  Spec => []GaplessIds
<1>1. GapIInv /\ [Next]_vars => GapIInv'
  BY TypeStep, HolderStep, GapStep DEF GapIInv
<1>2. GapIInv => GaplessIds
  BY DEF GapIInv
<1> QED
  BY GapInit, <1>1, <1>2, PTL DEF Spec

\* Whoever is answered with an id finds the own message under it, and only retries of
\* one message share an id, for every number of concurrent and interrupted requests,
\* provided that recoverRoomState runs after an interrupted append.
THEOREM AnswersAreTrue ==
  ASSUME Recovered
  PROVE  Spec => []AnswersNameMessages
<1>1. Init => GapIInv /\ AnswerInv
  <2>1. Init => AnswerInv
    BY DEF Init, AnswerInv, IdleUntold, NotesAreNoPosts, HolderSaves, AppendsEnd, KeysArePosts,
           AppendedLast, ToldNames, KeylessToldOnce
  <2> QED
    BY <2>1, GapInit
<1>2. GapIInv /\ AnswerInv /\ [Next]_vars => GapIInv' /\ AnswerInv'
  BY TypeStep, HolderStep, GapStep, AnswerStep DEF GapIInv
<1>3. GapIInv /\ AnswerInv => AnswersNameMessages
  <2> SUFFICES ASSUME GapIInv, AnswerInv, NEW r \in Requests, told[r] # 0
               PROVE  /\ \E i \in DOMAIN log :
                           log[i].id = told[r] /\ log[i].line = "post" /\ log[i].key = key[r]
                      /\ \A s \in Requests \ {r} :
                           told[s] = told[r] => key[s] = key[r] /\ key[r] # NoKey
    BY DEF AnswersNameMessages
  <2>1. PICK i \in DOMAIN log :
          log[i].id = told[r] /\ log[i].line = "post" /\ log[i].key = key[r]
    BY DEF AnswerInv, ToldNames
  <2>2. ASSUME NEW s \in Requests \ {r}, told[s] = told[r]
        PROVE  key[s] = key[r] /\ key[r] # NoKey
    <3>1. PICK j \in DOMAIN log : log[j].id = told[s] /\ log[j].key = key[s]
      BY <2>2 DEF AnswerInv, ToldNames
    <3>2. i = j
      BY <2>1, <2>2, <3>1 DEF GapIInv, GaplessIds
    <3> QED
      BY <2>1, <2>2, <3>1, <3>2 DEF AnswerInv, KeylessToldOnce
  <2> QED
    BY <2>1, <2>2
<1> QED
  BY <1>1, <1>2, <1>3, PTL DEF Spec

\* A retried (from, client_msg_id) never adds a second message, whether or not
\* appends are interrupted and recovered.
THEOREM RetriesAppendOnce == Spec => []PostedOnce
<1>1. Init => PostedOnce
  BY DEF Init, PostedOnce
<1>2. TypeOK /\ PostedOnce /\ [Next]_vars => PostedOnce'
  <2> SUFFICES ASSUME TypeOK, PostedOnce, [Next]_vars PROVE PostedOnce'
    OBVIOUS
  <2>1. CASE log' = log
    BY <2>1 DEF PostedOnce
  <2>2. CASE AppendsOneLine
    <3>1. PICK line \in Lines, m \in Keys \cup {NoKey} :
            /\ log' = Append(log, [id |-> room.next, line |-> line, key |-> m])
            /\ m # NoKey => ~Known(m)
      BY <2>2 DEF AppendsOneLine
    <3>2. /\ Len(log) \in Nat
          /\ DOMAIN log = 1 .. Len(log) /\ DOMAIN log' = 1 .. Len(log) + 1
          /\ \A i \in 1 .. Len(log) : log'[i] = log[i]
          /\ log'[Len(log) + 1].key = m
      BY <3>1 DEF TypeOK
    <3>3. m # NoKey => \A i \in 1 .. Len(log) : log[i].key # m
      BY <3>1, <3>2 DEF Known
    <3> QED
      BY <3>2, <3>3 DEF PostedOnce
  <2> QED
    BY <2>1, <2>2, LogStep
<1> QED
  BY <1>1, <1>2, TypeCorrect, PTL DEF Spec

\* No participant's message lies beyond the room-log cap.
THEOREM CapIsKept == Spec => []CapHolds
<1>1. Init => CapHolds
  BY DEF Init, CapHolds
<1>2. TypeOK /\ CapHolds /\ [Next]_vars => CapHolds'
  <2> SUFFICES ASSUME TypeOK, CapHolds, [Next]_vars PROVE CapHolds'
    OBVIOUS
  <2>1. CASE log' = log
    BY <2>1 DEF CapHolds
  <2>2. CASE AppendsOneLine
    <3>1. PICK line \in Lines, m \in Keys \cup {NoKey} :
            /\ log' = Append(log, [id |-> room.next, line |-> line, key |-> m])
            /\ line = "post" => Len(log) < MaxMessages
      BY <2>2 DEF AppendsOneLine
    <3>2. /\ Len(log) \in Nat
          /\ DOMAIN log = 1 .. Len(log) /\ DOMAIN log' = 1 .. Len(log) + 1
          /\ \A i \in 1 .. Len(log) : log'[i] = log[i]
          /\ log'[Len(log) + 1].line = line
      BY <3>1 DEF TypeOK
    <3> QED
      BY <3>1, <3>2 DEF CapHolds
  <2> QED
    BY <2>1, <2>2, LogStep
<1> QED
  BY <1>1, <1>2, TypeCorrect, PTL DEF Spec

\* No write of state.json that was prepared before a close undoes it.
THEOREM CloseIsFinal == Spec => ClosedStays
<1>1. TypeOK /\ HolderInv /\ [Next]_vars => [room.status = "closed" => room'.status = "closed"]_vars
  <2> SUFFICES ASSUME TypeOK, HolderInv, Next, room.status = "closed"
               PROVE  room'.status = "closed"
    BY DEF vars
  <2>0. /\ \A n : [room EXCEPT !.next = n].status = "closed"
        /\ \A b : [room EXCEPT !.session = b].status = "closed"
        /\ \A p : [room EXCEPT !.policy = p].status = "closed"
        /\ Closed(room).status = "closed"
    BY DEF TypeOK, State, Closed
  <2>1. ASSUME NEW r \in Requests, SaveNextId(r) PROVE room'.status = "closed"
    <3>1. seen = room
      BY <2>1 DEF SaveNextId, HolderInv
    <3> QED
      BY <2>1, <2>0, <3>1 DEF SaveNextId
  <2>2. ASSUME NEW r \in Requests,
               CloseExpired(r) \/ Close(r) \/ StartSession(r) \/ EndSession(r) \/ SetPolicy(r)
        PROVE  room'.status = "closed"
    <3>1. ASSUME CloseExpired(r) PROVE room'.status = "closed"
      BY <3>1, <2>0 DEF CloseExpired
    <3>2. ASSUME Close(r) PROVE room'.status = "closed"
      BY <3>2, <2>0 DEF Close
    <3>3. ASSUME StartSession(r) PROVE room'.status = "closed"
      <4>1. room' = room \/ room' = [room EXCEPT !.session = TRUE]
        BY <3>3 DEF StartSession
      <4> QED
        BY <4>1, <2>0
    <3>4. ASSUME EndSession(r) PROVE room'.status = "closed"
      <4>1. room' = room \/ room' = [room EXCEPT !.session = FALSE]
        BY <3>4 DEF EndSession
      <4> QED
        BY <4>1, <2>0
    <3>5. ASSUME SetPolicy(r) PROVE room'.status = "closed"
      BY <3>5, <2>0 DEF SetPolicy
    <3> QED
      BY <2>2, <3>1, <3>2, <3>3, <3>4, <3>5
  <2>3. ASSUME NEW r \in Requests,
               \/ Arrive(r) \/ CheckRoom(r) \/ LockTimeout(r) \/ PostAgain(r) \/ PostFull(r)
               \/ InterruptSave(r)
        PROVE  room' = room
    BY <2>3 DEF Arrive, CheckRoom, LockTimeout, PostAgain, PostFull, InterruptSave
  <2>4. CASE RecoverState
    BY <2>0, <2>4 DEF RecoverState
  <2>5. CASE AppendsOneLine
    BY <2>5 DEF AppendsOneLine
  <2> QED
    BY <2>1, <2>2, <2>3, <2>4, <2>5, AppendStep DEF Next, Serve, Expire
<1> QED
  BY <1>1, HolderAlways, PTL DEF Spec, ClosedStays

------------------------------------------------------------------------------
\* The store is a RoomLog.

\* A request is answered when it is done.
ToldDone == \A r \in Requests : told[r] # 0 => pc[r] = "done"

LEMMA ToldStep == TypeOK /\ AnswerInv /\ ToldDone /\ [Next]_vars => ToldDone'
<1> SUFFICES ASSUME TypeOK, AnswerInv, ToldDone, [Next]_vars PROVE ToldDone'
  OBVIOUS
<1> USE DEF ToldDone, Goto
<1>1. ASSUME NEW r \in Requests,
             \/ CheckRoom(r) \/ LockTimeout(r) \/ CloseExpired(r) \/ Close(r) \/ StartSession(r)
             \/ EndSession(r) \/ SetPolicy(r) \/ PostFull(r) \/ Arrive(r)
      PROVE  ToldDone'
  <2>1. told' = told /\ pc[r] # "done" /\ \A s \in Requests \ {r} : pc'[s] = pc[s]
    BY <1>1 DEF CheckRoom, LockTimeout, CloseExpired, Close, StartSession, EndSession, SetPolicy,
                PostFull, Arrive, TypeOK
  <2> QED
    BY <2>1
<1>2. ASSUME NEW r \in Requests, Post(r) \/ AppendNote(r) \/ AppendTtlNote(r) PROVE ToldDone'
  <2>1. told' = told /\ pc[r] # "done" /\ \A s \in Requests \ {r} : pc'[s] = pc[s]
    BY <1>2 DEF Post, AppendNote, AppendTtlNote, AppendLine, TypeOK
  <2> QED
    BY <2>1
<1>3. ASSUME NEW r \in Requests, PostAgain(r) PROVE ToldDone'
  <2>1. /\ pc'[r] = "done"
        /\ \A s \in Requests \ {r} : pc'[s] = pc[s] /\ told'[s] = told[s]
    BY <1>3 DEF PostAgain, TypeOK
  <2> QED
    BY <2>1
<1>4. ASSUME NEW r \in Requests, SaveNextId(r) PROVE ToldDone'
  <2>1. /\ pc'[r] = resume[r]
        /\ told'[r] = IF kind[r] = "post" /\ resume[r] = "done" THEN seen.next ELSE 0
        /\ \A s \in Requests \ {r} : pc'[s] = pc[s] /\ told'[s] = told[s]
    BY <1>4 DEF SaveNextId, TypeOK
  <2> QED
    BY <2>1
<1>5. ASSUME NEW r \in Requests, InterruptSave(r) PROVE ToldDone'
  <2>1. told' = told /\ pc[r] = "save" /\ \A s \in Requests \ {r} : pc'[s] = pc[s]
    BY <1>5 DEF InterruptSave, AnswerInv, HolderSaves, TypeOK
  <2> QED
    BY <2>1
<1> QED
  BY <1>1, <1>2, <1>3, <1>4, <1>5 DEF Next, Serve, Expire, RecoverState, vars

\* A step that no participant sees
LEMMA UnseenStep ==
  ASSUME log' = log, room'.status = room.status, told' = told,
         \A r \in Requests : told[r] # 0 => key'[r] = key[r]
  PROVE  UNCHANGED <<log, open, answered>>
<1>1. open' = open
  BY DEF open
<1>2. answered' = answered
  BY DEF answered
<1> QED BY <1>1, <1>2

\* An answer to request r with the number of line i, which has the request's key
LEMMA AnswerSeen ==
  ASSUME TypeOK, NEW r \in Requests, NEW i \in 1 .. Len(log), told[r] = 0,
         log' = log, room'.status = room.status, key' = key,
         told' = [told EXCEPT ![r] = i], log[i].line = "post", log[i].key = key[r],
         key[r] = NoKey => \A s \in Requests : told[s] # i
  PROVE  RL!LAnswer(r, i)
<1>1. open' = open
  BY DEF open
<1>2. i # 0
  BY DEF TypeOK
<1>3. answered' = [answered EXCEPT ![r] = [id |-> i, key |-> log[i].key]]
  <2>1. ASSUME NEW s \in Requests
        PROVE  answered'[s] = [answered EXCEPT ![r] = [id |-> i, key |-> log[i].key]][s]
    <3>1. CASE s = r
      BY <1>2, <3>1 DEF answered, TypeOK
    <3>2. CASE s # r
      BY <3>2 DEF answered, TypeOK
    <3> QED BY <3>1, <3>2
  <2> QED BY <2>1 DEF answered
<1>4. \A s \in Requests : answered[s].id = told[s]
  BY DEF answered
<1> QED
  BY <1>1, <1>3, <1>4 DEF RL!LAnswer

LEMMA RoomLogStep ==
  ASSUME Recovered, GapIInv, AnswerInv, ToldDone, [Next]_vars
  PROVE  [RL!LNext]_<<log, open, answered>>
<1>0. TypeOK /\ Len(log) \in Nat /\ DOMAIN log = 1 .. Len(log)
  BY DEF GapIInv, TypeOK
<1>1. ASSUME NEW r \in Requests, CloseExpired(r) \/ Close(r)
      PROVE  RL!LClose \/ UNCHANGED <<log, open, answered>>
  <2>1. UNCHANGED <<log, told, key>> /\ room'.status = "closed"
    BY <1>0, <1>1 DEF CloseExpired, Close, Closed, perRequest, TypeOK, State
  <2>2. CASE room.status = "closed"
    BY <2>1, <2>2, UnseenStep
  <2>3. CASE room.status # "closed"
    <3>1. open /\ ~open'
      BY <1>0, <2>1, <2>3 DEF open, TypeOK, State
    <3>2. answered' = answered
      BY <2>1 DEF answered
    <3> QED BY <2>1, <3>1, <3>2 DEF RL!LClose, open
  <2> QED BY <2>2, <2>3
<1>2. ASSUME NEW r \in Requests, StartSession(r) \/ EndSession(r) \/ SetPolicy(r)
      PROVE  UNCHANGED <<log, open, answered>>
  <2>1. UNCHANGED <<log, told, key>> /\ room'.status = room.status
    BY <1>0, <1>2 DEF StartSession, EndSession, SetPolicy, perRequest, TypeOK, State
  <2> QED BY <2>1, UnseenStep
<1>3. ASSUME NEW r \in Requests, CheckRoom(r) \/ LockTimeout(r) \/ PostFull(r) \/ InterruptSave(r)
      PROVE  UNCHANGED <<log, open, answered>>
  <2>1. UNCHANGED <<log, told, key>> /\ room'.status = room.status
    BY <1>3 DEF CheckRoom, LockTimeout, PostFull, InterruptSave, perRequest
  <2> QED BY <2>1, UnseenStep
<1>4. ASSUME NEW r \in Requests, Arrive(r)
      PROVE  UNCHANGED <<log, open, answered>>
  <2>1. /\ UNCHANGED <<log, told, room>> /\ told[r] = 0
        /\ \A s \in Requests \ {r} : key'[s] = key[s]
    BY <1>0, <1>4 DEF Arrive, TypeOK, AnswerInv, IdleUntold
  <2> QED BY <2>1, UnseenStep
<1>5. ASSUME AppendsOneLine
      PROVE  RL!LNext
  <2>1. PICK line \in Lines, m \in Keys \cup {NoKey} :
          /\ UNCHANGED <<room, told, key>>
          /\ log' = Append(log, [id |-> room.next, line |-> line, key |-> m])
          /\ m # NoKey => ~Known(m) /\ line = "post"
    BY <1>5 DEF AppendsOneLine
  <2>2. room.next = Len(log) + 1
    BY <1>5 DEF AppendsOneLine, LockFree, GapIInv, NextInv, Recovered
  <2>3. UNCHANGED <<open, answered>>
    BY <2>1 DEF open, answered
  <2>4. RL!LRecord(line, m)
    BY <1>0, <2>1, <2>2, <2>3 DEF RL!LRecord, Known
  <2> QED BY <2>1, <2>4 DEF RL!LNext, Lines
<1>6. ASSUME NEW r \in Requests, PostAgain(r)
      PROVE  RL!LNext
  <2>1. PICK i \in DOMAIN log : log[i].key = key[r] /\ told' = [told EXCEPT ![r] = log[i].id]
    BY <1>6 DEF PostAgain
  <2>2. log[i].id = i /\ key[r] # NoKey /\ log[i].line = "post"
    BY <1>6, <2>1 DEF GapIInv, GaplessIds, PostAgain, Known, AnswerInv, KeysArePosts
  <2>3. UNCHANGED <<log, room, key>> /\ told[r] = 0
    BY <1>6 DEF PostAgain, perRequest, ToldDone
  <2>4. RL!LAnswer(r, i)
    BY <1>0, <2>1, <2>2, <2>3, AnswerSeen
  <2> QED BY <1>0, <2>4 DEF RL!LNext
<1>7. ASSUME NEW r \in Requests, SaveNextId(r)
      PROVE  RL!LNext \/ UNCHANGED <<log, open, answered>>
  <2>1. /\ holder = r /\ r # Nobody /\ seen = room /\ seen.next = Len(log) /\ pc[r] = "save"
        /\ UNCHANGED <<log, key>>
    BY <1>7 DEF SaveNextId, perRequest, GapIInv, HolderInv, NextInv, AnswerInv, HolderSaves
  <2>2. room'.status = room.status
    BY <1>0, <1>7, <2>1 DEF SaveNextId, TypeOK, State
  <2>3. told[r] = 0
    BY <2>1 DEF ToldDone
  <2>4. CASE kind[r] = "post" /\ resume[r] = "done"
    <3>1. /\ Len(log) \in 1 .. Len(log) /\ told' = [told EXCEPT ![r] = Len(log)]
          /\ log[Len(log)].line = "post" /\ log[Len(log)].key = key[r]
          /\ \A s \in Requests : told[s] < Len(log)
      BY <1>0, <1>7, <2>1, <2>4 DEF SaveNextId, AnswerInv, AppendedLast
    <3>2. \A s \in Requests : told[s] # Len(log)
      BY <1>0, <3>1 DEF TypeOK
    <3>3. RL!LAnswer(r, Len(log))
      BY <1>0, <2>1, <2>2, <2>3, <3>1, <3>2, AnswerSeen
    <3> QED BY <3>1, <3>3 DEF RL!LNext
  <2>5. CASE ~(kind[r] = "post" /\ resume[r] = "done")
    <3>1. told' = told
      BY <1>0, <1>7, <2>3, <2>5 DEF SaveNextId, TypeOK
    <3> QED BY <2>1, <2>2, <3>1, UnseenStep
  <2> QED BY <2>4, <2>5
<1>8. CASE RecoverState
  <2>1. UNCHANGED <<log, told, key>> /\ room'.status = room.status
    BY <1>0, <1>8 DEF RecoverState, perRequest, TypeOK, State
  <2> QED BY <2>1, UnseenStep
<1>9. CASE Expire \/ UNCHANGED vars
  <2>1. UNCHANGED <<log, told, key, room>>
    BY <1>9 DEF Expire, perRequest, vars
  <2> QED BY <2>1, UnseenStep
<1> QED
  BY <1>0, <1>1, <1>2, <1>3, <1>4, <1>5, <1>6, <1>7, <1>8, <1>9, AppendStep DEF Next, Serve, RL!LNext

\* For every number of requests and keys, and wherever they are interrupted, what the
\* participants see of state.json, messages.jsonl and their answers is a RoomLog, provided that
\* recoverRoomState runs after an interrupted append.
THEOREM StoreIsRoomLog ==
  ASSUME Recovered
  PROVE  Spec => ImplementsRoomLog
<1>1. Init => GapIInv /\ AnswerInv /\ ToldDone
  <2>1. Init => AnswerInv /\ ToldDone
    BY DEF Init, AnswerInv, IdleUntold, NotesAreNoPosts, HolderSaves, AppendsEnd, KeysArePosts,
           AppendedLast, ToldNames, KeylessToldOnce, ToldDone
  <2> QED
    BY <2>1, GapInit
<1>2. GapIInv /\ AnswerInv /\ ToldDone /\ [Next]_vars => GapIInv' /\ AnswerInv' /\ ToldDone'
  BY TypeStep, HolderStep, GapStep, AnswerStep, ToldStep DEF GapIInv
<1>3. Init => RL!LInit
  BY DEF Init, RL!LInit, open, answered
<1>4. GapIInv /\ AnswerInv /\ ToldDone /\ [Next]_vars => [RL!LNext]_<<log, open, answered>>
  BY RoomLogStep
<1> QED
  BY <1>1, <1>2, <1>3, <1>4, PTL DEF Spec, ImplementsRoomLog, RL!LSpec
===============================================================================
