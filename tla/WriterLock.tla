----------------------------- MODULE WriterLock -----------------------------
(***************************************************************************)
(* src/src/storage/lock.ts: the file lock every write to a room, a token   *)
(* store or a joined-room store goes through.                              *)
(*                                                                         *)
(* A caller is one call of withWriterLock; several callers may belong to   *)
(* one process.  Every await of the code is a step boundary, so callers    *)
(* interleave between the file-system calls.  A lock file is created empty *)
(* and stamped with its creator's pid by a second call; writes through the *)
(* open handle follow the file when it is renamed or removed.              *)
(*                                                                         *)
(* A record (pid, createdAt) is identified with the caller that wrote it.  *)
(* Pids are not reused.                                                    *)
(***************************************************************************)
EXTENDS Integers, FiniteSets

CONSTANTS
  Callers,   \* calls of withWriterLock on one lock path
  Pids,      \* operating-system processes
  PidOf,     \* the process a caller runs in
  CrashAt,   \* the program points at which a process may die, or its write fail
  StallAt,   \* the program points a live caller may stay at for staleAfterMs
  LateVerdict, \* may a process die after a cleaner read its reclaim record and
               \* before that cleaner checks its pid?
  Empty,     \* the content of a lock file that was never stamped
  NoFile     \* the path does not exist

Reclaiming == {"reclaimStamp", "reclaimRead", "reclaimRm", "reclaimEnd"}
Waiting == {"open", "inspect", "judge", "reclaimOpen", "cleanRead", "cleanJudge",
            "takeRename", "takeCheck", "takeLink"} \cup Reclaiming
Holding == {"stamp", "chmod", "critical"}
Ended == {"done", "timedOut", "failed", "dead"}
LockPoints == {"idle"} \cup Waiting \cup Holding \cup Ended

File == [owner : Callers, stamped : BOOLEAN, old : BOOLEAN]

ASSUME LockAssumption ==
  /\ PidOf \in [Callers -> Pids]
  /\ CrashAt \subseteq LockPoints \ Ended
  /\ StallAt \subseteq LockPoints
  /\ LateVerdict \in BOOLEAN
  /\ Empty \notin Callers
  /\ NoFile \notin File

VARIABLES
  stage,       \* where each caller is
  lock,     \* the file at lockPath
  reclaim,  \* the file at lockPath.reclaim
  moved,    \* the file each caller renamed away in takeOverAbandonedFile
  raw,      \* the record each caller read and judges (expectedRaw)
  alive     \* the processes that run

lockVars == <<stage, lock, reclaim, moved, raw, alive>>

LockTypeOK ==
  /\ stage \in [Callers -> LockPoints]
  /\ lock \in File \cup {NoFile}
  /\ reclaim \in File \cup {NoFile}
  /\ moved \in [Callers -> File \cup {NoFile}]
  /\ raw \in [Callers -> Callers \cup {Empty}]
  /\ alive \subseteq Pids

LockInit ==
  /\ stage = [c \in Callers |-> "idle"]
  /\ lock = NoFile
  /\ reclaim = NoFile
  /\ moved = [c \in Callers |-> NoFile]
  /\ raw = [c \in Callers |-> Empty]
  /\ alive = Pids

MoveTo(c, point) == stage' = [stage EXCEPT ![c] = point]
Fresh(c) == [owner |-> c, stamped |-> FALSE, old |-> FALSE]
Content(file) == IF file.stamped THEN file.owner ELSE Empty

\* handle.writeFile: stamps the file c created, wherever it is by now, and
\* renews its mtime.
Stamp(file, c) ==
  IF file # NoFile /\ file.owner = c /\ ~file.stamped
  THEN [file EXCEPT !.stamped = TRUE, !.old = FALSE]
  ELSE file

\* Slip: a file that is not stamped yet counts as malformed at any age
StaleAtAnyAge(record, file) == record \in Callers => PidOf[record] \notin alive

\* The record names a dead process, or is malformed and the file now at the
\* path is older than the stale window.
IsStale(record, file) ==
  IF record \in Callers
  THEN PidOf[record] \notin alive
  ELSE file # NoFile /\ file.old

----------------------------------------------------------------------------
\* acquireWriterLock

Start(c) ==
  /\ stage[c] = "idle"
  /\ PidOf[c] \in alive
  /\ MoveTo(c, "open")
  /\ UNCHANGED <<lock, reclaim, moved, raw, alive>>

\* open(lockPath, "wx") succeeds
Create(c) ==
  /\ stage[c] = "open"
  /\ lock = NoFile
  /\ lock' = Fresh(c)
  /\ MoveTo(c, "stamp")
  /\ UNCHANGED <<reclaim, moved, raw, alive>>

WriteRecord(c) ==
  /\ stage[c] = "stamp"
  /\ lock' = Stamp(lock, c)
  /\ MoveTo(c, "chmod")
  /\ UNCHANGED <<reclaim, moved, raw, alive>>

\* handle.writeFile rejects: the error leaves the acquire, the empty file stays
WriteRecordFails(c) ==
  /\ stage[c] = "stamp"
  /\ "stamp" \in CrashAt
  /\ MoveTo(c, "failed")
  /\ UNCHANGED <<lock, reclaim, moved, raw, alive>>

\* chmod goes by path: it fails when the file was removed meanwhile, and
\* succeeds on whatever file is there otherwise
Chmod(c) ==
  /\ stage[c] = "chmod"
  /\ MoveTo(c, IF lock = NoFile THEN "failed" ELSE "critical")
  /\ UNCHANGED <<lock, reclaim, moved, raw, alive>>

\* rm(lockPath, force) in the finally of withWriterLock
Release(c) ==
  /\ stage[c] = "critical"
  /\ lock' = NoFile
  /\ MoveTo(c, "done")
  /\ UNCHANGED <<reclaim, moved, raw, alive>>

\* open(lockPath, "wx") fails with EEXIST after timeoutMs
TimeOut(c) ==
  /\ stage[c] = "open"
  /\ lock # NoFile
  /\ MoveTo(c, "timedOut")
  /\ UNCHANGED <<lock, reclaim, moved, raw, alive>>

\* open(lockPath, "wx") fails with EEXIST before timeoutMs
Contend(c) ==
  /\ stage[c] = "open"
  /\ lock # NoFile
  /\ MoveTo(c, "inspect")
  /\ UNCHANGED <<lock, reclaim, moved, raw, alive>>

----------------------------------------------------------------------------
\* removeStaleLock

ReadLock(c) ==
  /\ stage[c] = "inspect"
  /\ \/ /\ lock = NoFile
        /\ MoveTo(c, "open")
        /\ UNCHANGED raw
     \/ /\ lock # NoFile
        /\ raw' = [raw EXCEPT ![c] = Content(lock)]
        /\ MoveTo(c, "judge")
  /\ UNCHANGED <<lock, reclaim, moved, alive>>

JudgeLock(c) ==
  /\ stage[c] = "judge"
  /\ MoveTo(c, IF IsStale(raw[c], lock) THEN "reclaimOpen" ELSE "open")
  /\ UNCHANGED <<lock, reclaim, moved, raw, alive>>

----------------------------------------------------------------------------
\* reclaimStaleRecord

ReclaimCreate(c) ==
  /\ stage[c] = "reclaimOpen"
  /\ \/ /\ reclaim = NoFile
        /\ reclaim' = Fresh(c)
        /\ MoveTo(c, "reclaimStamp")
     \/ /\ reclaim # NoFile
        /\ MoveTo(c, "cleanRead")
        /\ UNCHANGED reclaim
  /\ UNCHANGED <<lock, moved, raw, alive>>

ReclaimWriteRecord(c) ==
  /\ stage[c] = "reclaimStamp"
  /\ reclaim' = Stamp(reclaim, c)
  /\ moved' = [d \in Callers |-> Stamp(moved[d], c)]
  /\ MoveTo(c, "reclaimRead")
  /\ UNCHANGED <<lock, raw, alive>>

\* Slip: the record is not compared again
StillThere(c) == lock # NoFile

\* The primary is re-read under the reclaim lock and compared with expectedRaw
Unchanged(c) == lock # NoFile /\ Content(lock) = raw[c]

ReclaimReread(c) ==
  /\ stage[c] = "reclaimRead"
  /\ MoveTo(c, IF Unchanged(c) THEN "reclaimRm" ELSE "reclaimEnd")
  /\ UNCHANGED <<lock, reclaim, moved, raw, alive>>

ReclaimRemove(c) ==
  /\ stage[c] = "reclaimRm"
  /\ lock' = NoFile
  /\ MoveTo(c, "reclaimEnd")
  /\ UNCHANGED <<reclaim, moved, raw, alive>>

\* The finally of reclaimStaleRecord, after which the acquire loop retries
ReclaimRelease(c) ==
  /\ stage[c] = "reclaimEnd"
  /\ reclaim' = NoFile
  /\ MoveTo(c, "open")
  /\ UNCHANGED <<lock, moved, raw, alive>>

----------------------------------------------------------------------------
\* clearAbandonedReclaimLock

ReadReclaim(c) ==
  /\ stage[c] = "cleanRead"
  /\ \/ /\ reclaim = NoFile
        /\ MoveTo(c, "open")
        /\ UNCHANGED raw
     \/ /\ reclaim # NoFile
        /\ raw' = [raw EXCEPT ![c] = Content(reclaim)]
        /\ MoveTo(c, "cleanJudge")
  /\ UNCHANGED <<lock, reclaim, moved, alive>>

\* Slip: a reclaim lock is never taken for abandoned
NeverAbandoned(c) ==
  /\ stage[c] = "cleanJudge"
  /\ MoveTo(c, "open")
  /\ UNCHANGED <<lock, reclaim, moved, raw, alive>>

JudgeReclaim(c) ==
  /\ stage[c] = "cleanJudge"
  /\ MoveTo(c, IF IsStale(raw[c], reclaim) THEN "takeRename" ELSE "open")
  /\ UNCHANGED <<lock, reclaim, moved, raw, alive>>

----------------------------------------------------------------------------
\* takeOverAbandonedFile

TakeOverRename(c) ==
  /\ stage[c] = "takeRename"
  /\ \/ /\ reclaim = NoFile
        /\ MoveTo(c, "open")
        /\ UNCHANGED <<reclaim, moved>>
     \/ /\ reclaim # NoFile
        /\ moved' = [moved EXCEPT ![c] = reclaim]
        /\ reclaim' = NoFile
        /\ MoveTo(c, "takeCheck")
  /\ UNCHANGED <<lock, raw, alive>>

TakeOverCheck(c) ==
  /\ stage[c] = "takeCheck"
  /\ \/ /\ Content(moved[c]) = raw[c]
        /\ moved' = [moved EXCEPT ![c] = NoFile]
        /\ MoveTo(c, "open")
     \/ /\ Content(moved[c]) # raw[c]
        /\ MoveTo(c, "takeLink")
        /\ UNCHANGED moved
  /\ UNCHANGED <<lock, reclaim, raw, alive>>

\* link back without clobbering, then drop the moved name
TakeOverLink(c) ==
  /\ stage[c] = "takeLink"
  /\ reclaim' = IF reclaim = NoFile THEN moved[c] ELSE reclaim
  /\ moved' = [moved EXCEPT ![c] = NoFile]
  /\ MoveTo(c, "open")
  /\ UNCHANGED <<lock, raw, alive>>

----------------------------------------------------------------------------
\* The environment

\* A process dies, and its callers with it.
Crash(p) ==
  /\ p \in alive
  /\ \A c \in Callers : PidOf[c] = p => stage[c] \in CrashAt \cup Ended
  /\ \/ LateVerdict
     \/ \A c \in Callers : stage[c] = "cleanJudge" /\ raw[c] # Empty => PidOf[raw[c]] # p
  /\ alive' = alive \ {p}
  /\ stage' = [c \in Callers |->
              IF PidOf[c] = p /\ stage[c] \notin Ended THEN "dead" ELSE stage[c]]
  /\ UNCHANGED <<lock, reclaim, moved, raw>>

Aged(file) == IF file = NoFile THEN file ELSE [file EXCEPT !.old = TRUE]

\* staleAfterMs pass while every live caller stays where it is.
Age ==
  /\ \A c \in Callers : stage[c] \in StallAt
  /\ lock' = Aged(lock)
  /\ reclaim' = Aged(reclaim)
  /\ moved' = [c \in Callers |-> Aged(moved[c])]
  /\ UNCHANGED <<stage, raw, alive>>

Step(c) ==
  \/ Create(c) \/ WriteRecord(c) \/ Chmod(c) \/ Release(c)
  \/ Contend(c) \/ ReadLock(c) \/ JudgeLock(c)
  \/ ReclaimCreate(c) \/ ReclaimWriteRecord(c) \/ ReclaimReread(c)
  \/ ReclaimRemove(c) \/ ReclaimRelease(c)
  \/ ReadReclaim(c) \/ JudgeReclaim(c)
  \/ TakeOverRename(c) \/ TakeOverCheck(c) \/ TakeOverLink(c)

LockNext ==
  \/ \E c \in Callers : Start(c) \/ Step(c) \/ WriteRecordFails(c) \/ TimeOut(c)
  \/ \E p \in Pids : Crash(p)
  \/ Age

LockSpec == LockInit /\ [][LockNext]_lockVars

\* Callers are not suspended forever and their protected functions end; time
\* passes.  Nothing forces a caller to start, to give up or to die.
FairLockSpec ==
  /\ LockSpec
  /\ \A c \in Callers : WF_lockVars(Step(c))
  /\ WF_lockVars(Age)

----------------------------------------------------------------------------
\* The windows the algorithm relies on: no caller dies between creating a lock
\* file and stamping it, nor while it holds the reclaim lock, nor between a
\* peer's reading its reclaim record and checking its pid; and none is held up
\* for staleAfterMs between creating and stamping a file, or between reading a
\* record and judging it.
SafeWindows ==
  /\ ~LateVerdict
  /\ CrashAt \cap ({"stamp"} \cup Reclaiming) = {}
  /\ StallAt \cap {"stamp", "judge", "reclaimStamp", "cleanJudge"} = {}

\* A caller that neither ended nor died.
Live(c) == stage[c] \notin Ended

\* withWriterLock never runs two protected functions at once, however the
\* callers' file-system calls interleave and whichever holders die.
MutualExclusion ==
  \A c, d \in Callers : stage[c] = "critical" /\ stage[d] = "critical" => c = d

\* reclaimStaleRecord, "a live successor lock is never removed": a lock file
\* whose creator is still acquiring or holding disappears only by its release.
LiveLockKept ==
  [][ lock # NoFile /\ lock' = NoFile /\ stage[lock.owner] \in Holding
        => stage'[lock.owner] = "done" ]_lockVars

\* Reclamation is serialized by the reclaim lock: two live callers are never
\* both between taking it and removing it.
ReclaimExclusive ==
  \A c, d \in Callers : stage[c] \in Reclaiming /\ stage[d] \in Reclaiming => c = d

\* While callers keep trying, the lock of a caller that died, or that ended and
\* left it, is eventually taken away, also when reclaimers die on the way.  The
\* one way out is a reclaim lock put back by takeOverAbandonedFile after its live
\* owner was done with it.
ZombieReclaim ==
  reclaim # NoFile /\ PidOf[reclaim.owner] \in alive /\ stage[reclaim.owner] \notin Reclaiming

DeadHolderReclaimed ==
  \A d \in Callers :
    (lock # NoFile /\ lock.owner = d /\ stage[d] \in Ended)
      ~> \/ lock = NoFile \/ lock.owner # d
         \/ \A c \in Callers : stage[c] \notin Waiting
         \/ ZombieReclaim

\* The lock implements the abstract mutex, its holders being the callers that
\* run their protected function.
MX == INSTANCE Mutex WITH holders <- {c \in Callers : stage[c] = "critical"}

ImplementsMutex == MX!MSpec
============================================================================
