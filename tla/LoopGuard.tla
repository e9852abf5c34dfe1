------------------------------ MODULE LoopGuard ------------------------------
(***************************************************************************)
(* The loop guard and its automatic continue, src/src/server/http.ts: agents *)
(* that post too much are stopped; where the host opted in, a timer re-arms  *)
(* the guard later and appends an approval to the room log.                  *)
(*                                                                         *)
(* The server runs one handler at a time and switches at every await.  A file *)
(* read is one step and the code that continues with what it read another.   *)
(* A write under the writer lock is one step (modules WriterLock and         *)
(* RoomStore), which may come any time after it was asked for.               *)
(***************************************************************************)
EXTENDS Integers, FiniteSets

CONSTANTS
  Agents,    \* participants counted by the guard
  Human,     \* a participant of kind "human"
  Slots,     \* requests served at the same time; a slot serves one after another
  Timers,    \* Node timers alive at the same time; reused once they are over
  None,      \* no pending continuation
  Limit,     \* loopGuardLimit
  MaxCount   \* bound: an agent is not counted further than this

ASSUME GuardAssumption ==
  /\ Human \notin Agents
  /\ None \notin Timers
  /\ Limit \in Nat
  /\ MaxCount \in Nat /\ MaxCount > Limit
  /\ IsFiniteSet(Slots)

Authors == Agents \cup {Human}
Phases == {"free", "armed", "reading", "readOpen", "readClosed", "appending"}
Points == {"idle", "guard", "pref", "schedule", "append", "uncancelled", "closing"}

VARIABLES
  open,      \* state.json: status is "open"
  expired,   \* expires_at has passed
  enabled,   \* state.json: auto_continue_enabled
  counts,    \* loopCounts of the room
  pending,   \* pendingAutoContinue of the room: its timer
  timer,     \* per timer: waiting, or how far completeAutoContinue is
  pc, author,\* per slot: where the request is, and who posts
  budget,    \* per agent: messages it may still add before the next reset (history)
  up         \* the server accepts requests

room == <<open, expired, enabled>>
request == <<pc, author>>
history == <<budget>>
vars == <<open, expired, enabled, counts, pending, timer, pc, author,
          budget, up>>

TypeOK ==
  /\ open \in BOOLEAN /\ expired \in BOOLEAN /\ enabled \in BOOLEAN
  /\ counts \in [Agents -> 0 .. MaxCount]
  /\ pending \in Timers \cup {None}
  /\ timer \in [Timers -> Phases]
  /\ pc \in [Slots -> Points]
  /\ author \in [Slots -> Authors]
  /\ budget \in [Agents -> Int]
  /\ up \in BOOLEAN

Init ==
  /\ open = TRUE /\ expired = FALSE /\ enabled = FALSE
  /\ counts = [a \in Agents |-> 0]
  /\ pending = None
  /\ timer = [t \in Timers |-> "free"]
  /\ pc = [s \in Slots |-> "idle"]
  /\ author = [s \in Slots |-> Human]
  /\ budget = [a \in Agents |-> Limit]
  /\ up = TRUE

Goto(s, point) ==
  /\ pc' = [pc EXCEPT ![s] = point]
  /\ UNCHANGED author

\* The request is answered and its locals are gone
Answer(s) ==
  /\ pc' = [pc EXCEPT ![s] = "idle"]
  /\ author' = [author EXCEPT ![s] = Human]

\* cancelPendingAutoContinue: clearTimeout stops a timer that has not fired, and
\* nothing else
Cleared == IF pending # None /\ timer[pending] = "armed"
           THEN [timer EXCEPT ![pending] = "free"]
           ELSE timer

\* Slip: the entry is not deleted
ClearTimerOnly == pending' = pending /\ timer' = Cleared

CancelPending == pending' = None /\ timer' = Cleared

\* Posts of an agent that passed the guard and are not appended yet
OnTheirWay(a) == {s \in Slots : pc[s] = "append" /\ author[s] = a}

\* clearRoomLoopCounts
ClearCounts ==
  /\ counts' = [a \in Agents |-> 0]
  /\ budget' = [a \in Agents |-> Limit + Cardinality(OnTheirWay(a))]

----------------------------------------------------------------------------
\* postMessage

\* requireRoomOpen reads the state of an open room; a closed one refuses the
\* post, which changes nothing
PostArrives(s) ==
  /\ up /\ pc[s] = "idle"
  /\ open
  /\ pc' = [pc EXCEPT ![s] = "guard"]
  /\ \E w \in Authors : author' = [author EXCEPT ![s] = w]
  /\ UNCHANGED <<room, counts, pending, timer, history, up>>

\* closeExpiredRoomIfNeeded cancels before it closes
RefuseExpired(s) ==
  /\ pc[s] = "guard" /\ expired
  /\ CancelPending
  /\ Goto(s, "closing")
  /\ UNCHANGED <<room, counts, history, up>>

PassesCheck(s) == pc[s] = "guard" /\ ~expired

HumanPosts(s) ==
  /\ PassesCheck(s) /\ author[s] = Human
  /\ ClearCounts
  /\ CancelPending
  /\ Goto(s, "append")
  /\ UNCHANGED <<room, up>>

\* 429: a continuation is pending
AgentPaused(s) ==
  /\ PassesCheck(s) /\ author[s] \in Agents
  /\ pending # None
  /\ Answer(s)
  /\ UNCHANGED <<room, counts, pending, timer, history, up>>

AgentCounted(s) ==
  /\ PassesCheck(s) /\ author[s] \in Agents
  /\ pending = None
  /\ LET next == counts[author[s]] + 1
     IN /\ next <= MaxCount
        /\ counts' = [counts EXCEPT ![author[s]] = next]
        /\ Goto(s, IF next <= Limit THEN "append" ELSE "pref")
  /\ UNCHANGED <<room, pending, timer, history, up>>

\* Slip: without the opt-in the post is let through
AllowWithoutOptIn(s) ==
  /\ pc[s] = "pref"
  /\ Goto(s, IF enabled THEN "schedule" ELSE "append")
  /\ UNCHANGED <<room, counts, pending, timer, history, up>>

\* Over the limit, the preference is read: 429 without the opt-in
ReadPreference(s) ==
  /\ pc[s] = "pref"
  /\ IF enabled THEN Goto(s, "schedule") ELSE Answer(s)
  /\ UNCHANGED <<room, counts, pending, timer, history, up>>

\* 429: another request's continuation became pending meanwhile
AlreadyPending(s) ==
  /\ pc[s] = "schedule"
  /\ pending # None
  /\ Answer(s)
  /\ UNCHANGED <<room, counts, pending, timer, history, up>>

\* schedulePendingAutoContinue, then 429
Schedule(s) ==
  /\ pc[s] = "schedule"
  /\ pending = None
  /\ \E t \in Timers :
       /\ timer[t] = "free"
       /\ timer' = [timer EXCEPT ![t] = "armed"]
       /\ pending' = t
  /\ Answer(s)
  /\ UNCHANGED <<room, counts, history, up>>

\* appendMessageResult: appends, or refuses the message
AppendPost(s) ==
  /\ pc[s] = "append"
  /\ \/ /\ author[s] \in Agents
        /\ budget' = [budget EXCEPT ![author[s]] = @ - 1]
     \/ UNCHANGED budget
  /\ Answer(s)
  /\ UNCHANGED <<room, counts, pending, timer, up>>

----------------------------------------------------------------------------
\* The host

\* The locked write; other changes of the state do not touch the preference
UpdateLoopGuardPreference == enabled' \in BOOLEAN

\* postLoopGuard up to its write
WritePreference(s) ==
  /\ up /\ pc[s] = "idle"
  /\ UpdateLoopGuardPreference
  /\ Goto(s, IF enabled' THEN "idle" ELSE "uncancelled")
  /\ UNCHANGED <<open, expired, counts, pending, timer, history, up>>

\* "Turning the preference off must not leave a scheduled continuation behind."
CancelDisabled(s) ==
  /\ pc[s] = "uncancelled"
  /\ CancelPending
  /\ Answer(s)
  /\ UNCHANGED <<room, counts, history, up>>

\* postClose cancels before it closes
CloseArrives(s) ==
  /\ up /\ pc[s] = "idle"
  /\ CancelPending
  /\ Goto(s, "closing")
  /\ UNCHANGED <<room, counts, history, up>>

CloseRoom(s) ==
  /\ pc[s] = "closing"
  /\ open' = FALSE
  /\ Answer(s)
  /\ UNCHANGED <<expired, enabled, counts, pending, timer, history, up>>

\* server.on("close"): no request is left
Shutdown ==
  /\ up /\ \A s \in Slots : pc[s] = "idle"
  /\ up' = FALSE
  /\ CancelPending
  /\ UNCHANGED <<room, counts, request, history>>

----------------------------------------------------------------------------
\* completeAutoContinue

Expire ==
  /\ ~expired
  /\ expired' = TRUE
  /\ UNCHANGED <<open, enabled, counts, pending, timer, request, history, up>>

\* The callback starts, and returns when nothing is pending
Fire(t) ==
  /\ timer[t] = "armed"
  /\ timer' = [timer EXCEPT ![t] = IF pending = None THEN "free" ELSE "reading"]
  /\ UNCHANGED <<room, counts, pending, request, history, up>>

ReadRoom(t) ==
  /\ timer[t] = "reading"
  /\ timer' = [timer EXCEPT ![t] = IF open THEN "readOpen" ELSE "readClosed"]
  /\ UNCHANGED <<room, counts, pending, request, history, up>>

ReadRoomFails(t) ==
  /\ timer[t] = "reading"
  /\ pending' = None
  /\ timer' = [Cleared EXCEPT ![t] = "free"]
  /\ UNCHANGED <<room, counts, request, history, up>>

\* Cancelled while the read was in flight
GiveUp(t) ==
  /\ timer[t] \in {"readOpen", "readClosed"}
  /\ pending = None
  /\ timer' = [timer EXCEPT ![t] = "free"]
  /\ UNCHANGED <<room, counts, pending, request, history, up>>

\* Slip: the entry of a closed room is kept
KeepPending(t) ==
  /\ timer[t] = "readClosed" \/ (timer[t] = "readOpen" /\ expired)
  /\ timer' = [timer EXCEPT ![t] = "free"]
  /\ UNCHANGED <<room, counts, pending, request, history, up>>

\* "let closure win"
DropClosed(t) ==
  /\ timer[t] = "readClosed" \/ (timer[t] = "readOpen" /\ expired)
  /\ pending # None
  /\ pending' = None
  /\ timer' = [Cleared EXCEPT ![t] = "free"]
  /\ UNCHANGED <<room, counts, request, history, up>>

\* The entry is deleted, whichever timer it belongs to, and no timer is cleared
Approve(t) ==
  /\ timer[t] = "readOpen" /\ ~expired
  /\ pending # None
  /\ pending' = None
  /\ timer' = [timer EXCEPT ![t] = "appending"]
  /\ ClearCounts
  /\ UNCHANGED <<room, request, up>>

\* appendServerMessage: the line, or the failure, which is swallowed, changes nothing here
AppendApproval(t) ==
  /\ timer[t] = "appending"
  /\ timer' = [timer EXCEPT ![t] = "free"]
  /\ UNCHANGED <<room, counts, pending, request, history, up>>

----------------------------------------------------------------------------
Post(s) ==
  \/ PostArrives(s) \/ RefuseExpired(s) \/ HumanPosts(s)
  \/ AgentPaused(s) \/ AgentCounted(s) \/ ReadPreference(s) \/ AlreadyPending(s)
  \/ Schedule(s) \/ AppendPost(s)

Host(s) == WritePreference(s) \/ CancelDisabled(s) \/ CloseArrives(s) \/ CloseRoom(s)

Complete(t) ==
  \/ Fire(t) \/ ReadRoom(t) \/ ReadRoomFails(t) \/ GiveUp(t) \/ DropClosed(t)
  \/ Approve(t) \/ AppendApproval(t)

Next ==
  \/ \E s \in Slots : Post(s) \/ Host(s)
  \/ \E t \in Timers : Complete(t)
  \/ Expire
  \/ Shutdown

Spec == Init /\ [][Next]_vars

\* A timer fires once its delay is over, and its callback ends.  Nothing is
\* assumed of requests.
FairSpec == Spec /\ \A t \in Timers : WF_vars(Complete(t))

----------------------------------------------------------------------------
\* A pause is never left without what ends it: the timer of the pending entry
\* is armed, or its callback has started and will delete the entry.  Otherwise
\* every agent would be refused until a human posts.
PendingHasTimer == pending # None => timer[pending] \in {"armed", "reading", "readOpen", "readClosed"}

\* The guard's promise: between two resets (a human post or an approval) an
\* agent adds at most Limit messages beyond those that had passed the guard
\* before, however many requests it sends at once.
RunBounded == \A a \in Agents : budget[a] >= Cardinality(OnTheirWay(a))

\* "must not leave the room wedged": every pause ends, also when the room is
\* closed, expires, cannot be read, or a callback of an earlier cycle is running.
PauseEnds == pending # None ~> pending = None
==============================================================================
