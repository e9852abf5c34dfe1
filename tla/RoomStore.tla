------------------------------ MODULE RoomStore ------------------------------
(***************************************************************************)
(* src/src/storage/room-store.ts under the requests of                     *)
(* src/src/server/http.ts: one room's state file and its append-only       *)
(* message log.                                                            *)
(*                                                                         *)
(* The writer lock (module WriterLock) makes the locked functions of the   *)
(* store exclude each other; holder is the request inside one that writes  *)
(* two files, the log line first and the state second.  A function that    *)
(* writes the state file alone is one step, since a secure file is replaced *)
(* by a rename.  The HTTP guards read the state file without the lock,     *)
(* steps before the locked function runs.                                  *)
(*                                                                         *)
(* A message line is appended whole or not at all.                         *)
(***************************************************************************)
EXTENDS Integers, Sequences, FiniteSets

CONSTANTS
  Requests,     \* the requests of a run, each served once
  Keys,         \* pairs (from, client_msg_id)
  NoKey,        \* a message sent without client_msg_id
  Nobody,       \* no request is inside a two-file write
  MaxMessages,  \* the room-log cap of appendMessageResult
  Interrupts,   \* may a request die, or its state write fail, after its append?
  Recovery      \* does recoverRoomState run before the log is next appended to?
                \* The documents say so; no module of src/src calls it.

ASSUME StoreAssumption ==
  /\ NoKey \notin Keys
  /\ Nobody \notin Requests
  /\ MaxMessages \in Nat
  /\ Interrupts \in BOOLEAN
  /\ Recovery \in BOOLEAN

\* What a request asks for; "status" is any request that only reads the room.
Kinds == {"post", "start", "end", "close", "policy", "status"}
Guarded == {"post", "start", "end", "status"}   \* closeExpiredRoomIfNeeded comes first

\* The author and purpose of a line
Lines == {"post", "closed", "ttl", "note"}
Message == [id : Nat, line : Lines, key : Keys \cup {NoKey}]

Points == {"idle", "check", "ttlClose", "ttlLine", "act", "line", "save",
           "done", "failed", "dead"}

Policies == {"manual-ok", "agents-foreground"}
State == [status : {"open", "closed"}, next : Nat, session : BOOLEAN, policy : Policies]

VARIABLES
  room,      \* state.json
  log,       \* messages.jsonl
  expired,   \* expires_at has passed
  holder,    \* the request that appended and has not written the state
  seen,      \* the state the holder read when it took the lock
  dirty,     \* an append was left without its state write
  pc, kind, key,   \* per request: where it is, what it asks, its message's key
  resume,    \* per request: where it goes once its append is saved
  told       \* per request: the id its client was answered with, 0 for none

vars == <<room, log, expired, holder, seen, dirty, pc, kind, key, resume, told>>
perRequest == <<kind, key, resume>>

TypeOK ==
  /\ room \in State
  /\ log \in Seq(Message)
  /\ expired \in BOOLEAN
  /\ holder \in Requests \cup {Nobody}
  /\ seen \in State
  /\ dirty \in BOOLEAN
  /\ pc \in [Requests -> Points]
  /\ kind \in [Requests -> Kinds]
  /\ key \in [Requests -> Keys \cup {NoKey}]
  /\ resume \in [Requests -> Points]
  /\ told \in [Requests -> Nat]

\* createRoom
Init ==
  /\ room = [status |-> "open", next |-> 1, session |-> FALSE, policy |-> "manual-ok"]
  /\ log = <<>>
  /\ expired = FALSE
  /\ holder = Nobody
  /\ seen = room
  /\ dirty = FALSE
  /\ pc = [r \in Requests |-> "idle"]
  /\ kind = [r \in Requests |-> "status"]
  /\ key = [r \in Requests |-> NoKey]
  /\ resume = [r \in Requests |-> "done"]
  /\ told = [r \in Requests |-> 0]

Goto(r, point) == pc' = [pc EXCEPT ![r] = point]

----------------------------------------------------------------------------
\* The HTTP side, without the lock

Arrive(r) ==
  /\ pc[r] = "idle"
  /\ \E k \in Kinds, m \in Keys \cup {NoKey} :
       /\ k # "post" => m = NoKey
       /\ kind' = [kind EXCEPT ![r] = k]
       /\ key' = [key EXCEPT ![r] = m]
       /\ Goto(r, IF k \in Guarded THEN "check" ELSE "act")
  /\ UNCHANGED <<room, log, expired, holder, seen, dirty, resume, told>>

\* requireRoomOpen refuses a closed room; a request that only reads goes on
Refused(r) == IF kind[r] = "status" THEN "done" ELSE "failed"

\* closeExpiredRoomIfNeeded, up to its first write
CheckRoom(r) ==
  /\ pc[r] = "check"
  /\ Goto(r, CASE room.status = "closed" -> Refused(r)
               [] room.status = "open" /\ expired -> "ttlClose"
               [] OTHER -> IF kind[r] = "status" THEN "done" ELSE "act")
  /\ UNCHANGED <<room, log, expired, holder, seen, dirty, perRequest, told>>

\* expires_at passes
Expire ==
  /\ ~expired
  /\ expired' = TRUE
  /\ UNCHANGED <<room, log, holder, seen, dirty, pc, perRequest, told>>

----------------------------------------------------------------------------
\* Locked functions that write the state file alone

\* Slip: a function runs outside withWriterLock
NoLock == TRUE

LockFree == holder = Nobody

\* acquireWriterLock gives up after timeoutMs: the request fails where it is
LockTimeout(r) ==
  /\ pc[r] \in {"ttlClose", "ttlLine", "act", "line"}
  /\ ~LockFree
  /\ Goto(r, "failed")
  /\ UNCHANGED <<room, log, expired, holder, seen, dirty, perRequest, told>>

\* closeRoom: closes whatever it finds and clears the active session
Closed(state) == [state EXCEPT !.status = "closed", !.session = FALSE]

CloseExpired(r) ==
  /\ pc[r] = "ttlClose"
  /\ LockFree
  /\ room' = Closed(room)
  /\ Goto(r, "ttlLine")
  /\ UNCHANGED <<log, expired, holder, seen, dirty, perRequest, told>>

Close(r) ==
  /\ pc[r] = "act" /\ kind[r] = "close"
  /\ LockFree
  /\ room' = Closed(room)
  /\ Goto(r, "line")
  /\ UNCHANGED <<log, expired, holder, seen, dirty, perRequest, told>>

\* startActiveSession: 409 when a session runs; the status is not read again
StartSession(r) ==
  /\ pc[r] = "act" /\ kind[r] = "start"
  /\ LockFree
  /\ \/ /\ room.session
        /\ Goto(r, "failed")
        /\ UNCHANGED room
     \/ /\ ~room.session
        /\ room' = [room EXCEPT !.session = TRUE]
        /\ Goto(r, "line")
  /\ UNCHANGED <<log, expired, holder, seen, dirty, perRequest, told>>

\* endActiveSession
EndSession(r) ==
  /\ pc[r] = "act" /\ kind[r] = "end"
  /\ LockFree
  /\ \/ /\ ~room.session
        /\ Goto(r, "failed")
        /\ UNCHANGED room
     \/ /\ room.session
        /\ room' = [room EXCEPT !.session = FALSE]
        /\ Goto(r, "line")
  /\ UNCHANGED <<log, expired, holder, seen, dirty, perRequest, told>>

\* updateAttendancePolicy
SetPolicy(r) ==
  /\ pc[r] = "act" /\ kind[r] = "policy"
  /\ LockFree
  /\ \E p \in Policies : room' = [room EXCEPT !.policy = p]
  /\ Goto(r, "line")
  /\ UNCHANGED <<log, expired, holder, seen, dirty, perRequest, told>>

----------------------------------------------------------------------------
\* appendMessageResult and appendServerMessage

Ids == {log[i].id : i \in DOMAIN log}

\* Slips: messages without client_msg_id are compared too, or the last line is not
KnownOrKeyless(m) == \E i \in DOMAIN log : log[i].key = m
KnownButLast(m) == m # NoKey /\ \E i \in 1 .. Len(log) - 1 : log[i].key = m

\* A message with this key is in the log already.
Known(m) == m # NoKey /\ \E i \in DOMAIN log : log[i].key = m

\* Takes the lock, reads the state, and appends one line with its next id; the
\* request goes on at point once the state is written.
AppendLine(r, line, m, point) ==
  /\ LockFree
  /\ ~(Recovery /\ dirty)
  /\ holder' = r
  /\ seen' = room
  /\ log' = Append(log, [id |-> room.next, line |-> line, key |-> m])
  /\ resume' = [resume EXCEPT ![r] = point]
  /\ Goto(r, "save")
  /\ UNCHANGED <<room, expired, dirty, kind, key, told>>

\* A retried post is answered with the original message
PostAgain(r) ==
  /\ pc[r] = "act" /\ kind[r] = "post"
  /\ LockFree
  /\ Known(key[r])
  /\ \E i \in DOMAIN log :
       /\ log[i].key = key[r]
       /\ \A j \in 1 .. i - 1 : log[j].key # key[r]
       /\ told' = [told EXCEPT ![r] = log[i].id]
  /\ Goto(r, "done")
  /\ UNCHANGED <<room, log, expired, holder, seen, dirty, perRequest>>

\* RoomLogFullError
PostFull(r) ==
  /\ pc[r] = "act" /\ kind[r] = "post"
  /\ LockFree
  /\ ~Known(key[r])
  /\ Len(log) >= MaxMessages
  /\ Goto(r, "failed")
  /\ UNCHANGED <<room, log, expired, holder, seen, dirty, perRequest, told>>

Post(r) ==
  /\ pc[r] = "act" /\ kind[r] = "post"
  /\ ~Known(key[r])
  /\ Len(log) < MaxMessages
  /\ AppendLine(r, "post", key[r], "done")

\* The lifecycle line of a close, a session or a policy change
AppendNote(r) ==
  /\ pc[r] = "line"
  /\ AppendLine(r, IF kind[r] = "close" THEN "closed" ELSE "note", NoKey, "done")

\* "room closed by ttl", by the request that ran into the expiry
AppendTtlNote(r) ==
  /\ pc[r] = "ttlLine"
  /\ AppendLine(r, "ttl", NoKey, Refused(r))

\* The second file: next_message_id becomes the appended id plus one, on top of
\* the state read under the lock
SaveNextId(r) ==
  /\ holder = r
  /\ room' = [seen EXCEPT !.next = seen.next + 1]
  /\ holder' = Nobody
  /\ told' = [told EXCEPT ![r] = IF kind[r] = "post" /\ resume[r] = "done"
                                 THEN seen.next ELSE 0]
  /\ Goto(r, resume[r])
  /\ UNCHANGED <<log, expired, seen, dirty, perRequest>>

\* The process dies, or the state write rejects, after the append: the line
\* stays, the state does not, and the lock is given up or reclaimed.
InterruptSave(r) ==
  /\ Interrupts
  /\ holder = r
  /\ holder' = Nobody
  /\ dirty' = TRUE
  /\ \E end \in {"failed", "dead"} : Goto(r, end)
  /\ UNCHANGED <<room, log, expired, seen, perRequest, told>>

\* recoverRoomState: the highest id in the log decides, if it is ahead
RecoverState ==
  /\ Recovery /\ dirty
  /\ LockFree
  /\ \E highest \in Ids \cup {0} :
       /\ \A id \in Ids : id <= highest
       /\ room' = [room EXCEPT !.next = IF room.next > highest THEN @ ELSE highest + 1]
  /\ dirty' = FALSE
  /\ UNCHANGED <<log, expired, holder, seen, pc, perRequest, told>>

----------------------------------------------------------------------------
Serve(r) ==
  \/ CheckRoom(r) \/ CloseExpired(r) \/ Close(r) \/ StartSession(r)
  \/ EndSession(r) \/ SetPolicy(r) \/ PostAgain(r) \/ PostFull(r) \/ Post(r)
  \/ AppendNote(r) \/ AppendTtlNote(r) \/ SaveNextId(r)

Next ==
  \/ \E r \in Requests : Arrive(r) \/ Serve(r) \/ LockTimeout(r) \/ InterruptSave(r)
  \/ Expire
  \/ RecoverState

Spec == Init /\ [][Next]_vars

----------------------------------------------------------------------------
\* The ids of a room count its log lines, so a reader's exclusive since_id
\* cursor neither skips nor repeats a message: next_message_id is never used
\* twice, across concurrent appends, interrupted ones and closes.
GaplessIds == \A i \in DOMAIN log : log[i].id = i

\* appendMessageResult's idempotency: however often a client retries, and
\* whatever died in between, the log has one message per (from, client_msg_id).
PostedOnce ==
  \A i, j \in DOMAIN log : log[i].key = log[j].key /\ log[i].key # NoKey => i = j

\* A client told an id finds its own message under it, and no other client was
\* told the same id for another message.
AnswersNameMessages ==
  \A r \in Requests : told[r] # 0 =>
    /\ \E i \in DOMAIN log : log[i].id = told[r] /\ log[i].line = "post" /\ log[i].key = key[r]
    /\ \A s \in Requests \ {r} : told[s] = told[r] => key[s] = key[r] /\ key[r] # NoKey

\* A participant's message is never appended beyond the room-log cap.
CapHolds == \A i \in DOMAIN log : log[i].line = "post" => i <= MaxMessages

\* closeRoom is final: no write of the state by a request that read it earlier
\* brings a closed room back.
ClosedStays == [][room.status = "closed" => room'.status = "closed"]_vars

\* Lines, status and answers of the room as its participants know them
answered == [r \in Requests |-> [id |-> told[r], key |-> IF told[r] = 0 THEN NoKey ELSE key[r]]]
open == room.status = "open"
RL == INSTANCE RoomLog WITH lines <- log

\* What participants see of the store is a RoomLog: numbered lines that stay, one for each
\* message however often it is retried, answers that name the own line, a close that
\* is final, through interrupted writes and requests that overlap (room-store.ts:240-297, 443).
ImplementsRoomLog == RL!LSpec
==============================================================================
