----------------------------- MODULE Attendance -----------------------------
(***************************************************************************)
(* Attending a room: the /wait long-poll of src/src/server/http.ts and       *)
(* src/src/server/wait.ts, and the clients that loop on it with a cursor     *)
(* kept on disk, src/src/cli/commands/message/transport.ts, attend and       *)
(* wake-adapter.                                                           *)
(*                                                                         *)
(* A line of the log is its id.  A file read is one step and the code that   *)
(* continues with what it read another, so lines may arrive in between.      *)
(***************************************************************************)
EXTENDS Integers

CONSTANTS
  Clients,    \* participants that attend, each with one cursor file
  Posters,    \* requests that write to the room
  MaxLines,   \* bound: the length of the log
  Losses,     \* may a response be lost on its way?
  Direct      \* may a command append to the log itself, the server being
              \* unreachable for it?

ASSUME AttendanceAssumption ==
  /\ MaxLines \in Nat
  /\ Losses \in BOOLEAN /\ Direct \in BOOLEAN

Serving == {"state", "lines", "register", "held", "respond"}
Running == {"ask", "save", "take"} \cup Serving
Points == {"down", "ended"} \cup Running
Verdicts == {"messages", "heartbeat", "closed"}

VARIABLES
  kind,      \* per client: the command it runs, "attend" or "wake-adapter"
  open,      \* state.json: status is "open"
  lines,     \* the number of lines of messages.jsonl
  writer,    \* per poster: what it has still to do
  pc,        \* per client: where its turn is, in the client or the server
  again,     \* per client: the server takes its second snapshot
  since,     \* per client: its cursor in memory, the since_id of the request
  upto,      \* per client: next_since_id of the response
  verdict,   \* per client: what the response says
  stored,    \* per client: the cursor file
  taken,     \* per client: the highest line printed or acted upon (history)
  missed     \* per client: it died with a batch saved and not taken (history)

room == <<kind, open, lines, writer>>
response == <<upto, verdict>>
history == <<taken, missed>>
vars == <<kind, open, lines, writer, pc, again, since, upto, verdict, stored,
          taken, missed>>

Kinds == {"attend", "wake-adapter"}

TypeOK ==
  /\ kind \in [Clients -> Kinds]
  /\ open \in BOOLEAN
  /\ lines \in 0 .. MaxLines
  /\ writer \in [Posters -> {"idle", "append", "notify"}]
  /\ pc \in [Clients -> Points]
  /\ again \in [Clients -> BOOLEAN]
  /\ verdict \in [Clients -> Verdicts]
  /\ since \in [Clients -> 0 .. MaxLines]
  /\ upto \in [Clients -> 0 .. MaxLines]
  /\ stored \in [Clients -> 0 .. MaxLines]
  /\ taken \in [Clients -> 0 .. MaxLines]
  /\ missed \in [Clients -> BOOLEAN]

Init ==
  /\ kind \in [Clients -> Kinds]
  /\ open = TRUE
  /\ lines = 0
  /\ writer = [p \in Posters |-> "idle"]
  /\ pc = [c \in Clients |-> "down"]
  /\ again = [c \in Clients |-> FALSE]
  /\ verdict = [c \in Clients |-> "heartbeat"]
  /\ since = [c \in Clients |-> 0]
  /\ upto = [c \in Clients |-> 0]
  /\ stored = [c \in Clients |-> 0]
  /\ taken = [c \in Clients |-> 0]
  /\ missed = [c \in Clients |-> FALSE]

Goto(c, point) == pc' = [pc EXCEPT ![c] = point]

----------------------------------------------------------------------------
\* The room

\* postMessage and every lifecycle request pass the room check before the append
Admit(p) ==
  /\ writer[p] = "idle" /\ open
  /\ writer' = [writer EXCEPT ![p] = "append"]
  /\ UNCHANGED <<kind, open, lines, pc, again, since, response, stored, history>>

\* postClose: closeRoom, then the "room closed" line
Close(p) ==
  /\ writer[p] = "idle"
  /\ open' = FALSE
  /\ writer' = [writer EXCEPT ![p] = "append"]
  /\ UNCHANGED <<kind, lines, pc, again, since, response, stored, history>>

Append(p) ==
  /\ writer[p] = "append"
  /\ lines < MaxLines
  /\ lines' = lines + 1
  /\ writer' = [writer EXCEPT ![p] = "notify"]
  /\ UNCHANGED <<kind, open, pc, again, since, response, stored, history>>

\* The append is refused or fails: nobody is woken
AppendFails(p) ==
  /\ writer[p] = "append"
  /\ writer' = [writer EXCEPT ![p] = "idle"]
  /\ UNCHANGED <<kind, open, lines, pc, again, since, response, stored, history>>

\* WaitHub.notify
Notify(p) ==
  /\ writer[p] = "notify"
  /\ writer' = [writer EXCEPT ![p] = "idle"]
  /\ pc' = [c \in Clients |-> IF pc[c] = "held" THEN "state" ELSE pc[c]]
  /\ again' = [c \in Clients |-> again[c] \/ pc[c] = "held"]
  /\ UNCHANGED <<kind, open, lines, since, response, stored, history>>

\* sendMessage of the command line, when the server does not answer it
DirectAppend ==
  /\ Direct
  /\ lines < MaxLines
  /\ lines' = lines + 1
  /\ UNCHANGED <<kind, open, writer, pc, again, since, response, stored, history>>

----------------------------------------------------------------------------
\* getWait, the server's side of a client's turn

\* waitSnapshot, its first read
ReadState(c) ==
  /\ pc[c] = "state"
  /\ \/ /\ open
        /\ Goto(c, "lines")
        /\ UNCHANGED response
     \/ /\ ~open
        /\ Goto(c, "respond")
        /\ upto' = [upto EXCEPT ![c] = since[c]]
        /\ verdict' = [verdict EXCEPT ![c] = "closed"]
  /\ UNCHANGED <<room, again, since, stored, history>>

\* Its second read: messages with id > since_id; none on the first snapshot
\* means holding the request, none on the second a heartbeat
ReadLines(c) ==
  /\ pc[c] = "lines"
  /\ \/ /\ lines <= since[c] /\ ~again[c]
        /\ Goto(c, "register")
        /\ UNCHANGED response
     \/ /\ lines > since[c] \/ again[c]
        /\ Goto(c, "respond")
        /\ upto' = [upto EXCEPT ![c] = IF lines > since[c] THEN lines ELSE since[c]]
        /\ verdict' = [verdict EXCEPT ![c] = IF lines > since[c] THEN "messages" ELSE "heartbeat"]
  /\ UNCHANGED <<room, again, since, stored, history>>

\* WaitHub.wait
Register(c) ==
  /\ pc[c] = "register"
  /\ Goto(c, "held")
  /\ UNCHANGED <<room, again, since, response, stored, history>>

\* Slip: no timer ends the hold
HoldForever(c) == FALSE

\* waitHoldMs is over
HoldEnds(c) ==
  /\ pc[c] = "held"
  /\ Goto(c, "state")
  /\ again' = [again EXCEPT ![c] = TRUE]
  /\ UNCHANGED <<room, since, response, stored, history>>

----------------------------------------------------------------------------
\* The client

\* Slip: the cursor file is not read
StartFromZero(c) ==
  /\ pc[c] = "down"
  /\ since' = [since EXCEPT ![c] = 0]
  /\ Goto(c, "ask")
  /\ UNCHANGED <<room, again, response, stored, history>>

\* attend and wake-adapter start with the cursor on disk
Start(c) ==
  /\ pc[c] = "down"
  /\ since' = [since EXCEPT ![c] = stored[c]]
  /\ Goto(c, "ask")
  /\ UNCHANGED <<room, again, response, stored, history>>

\* The fetch of waitOnce
Ask(c) ==
  /\ pc[c] = "ask"
  /\ again' = [again EXCEPT ![c] = FALSE]
  /\ Goto(c, "state")
  /\ UNCHANGED <<room, since, response, stored, history>>

Receive(c) ==
  /\ pc[c] = "respond"
  /\ Goto(c, "save")
  /\ UNCHANGED <<room, again, since, response, stored, history>>

\* Slip: the cursor moves although the response is lost
LoseAndAdvance(c) ==
  /\ Losses
  /\ pc[c] = "respond"
  /\ since' = [since EXCEPT ![c] = upto[c]]
  /\ Goto(c, "ask")
  /\ UNCHANGED <<room, again, response, stored, history>>

\* The fetch fails, the server having served it: the adapter backs off and asks
\* again, attend throws
Lose(c) ==
  /\ Losses
  /\ pc[c] = "respond"
  /\ Goto(c, IF kind[c] = "wake-adapter" THEN "ask" ELSE "down")
  /\ UNCHANGED <<room, again, since, response, stored, history>>

\* writeCursor, before the caller sees the response
Save(c) ==
  /\ pc[c] = "save"
  /\ stored' = [stored EXCEPT ![c] = upto[c]]
  /\ Goto(c, "take")
  /\ UNCHANGED <<room, again, since, response, history>>

\* Slip: a closed room does not end the loop
NeverStops(c) == FALSE

\* attend loops while keep_waiting is set, which only a heartbeat sets; the
\* adapter loops until the room is closed
Stops(c) ==
  IF kind[c] = "attend" THEN verdict[c] # "heartbeat" ELSE verdict[c] = "closed"

\* The batch is printed, or the adapter's command runs
Take(c) ==
  /\ pc[c] = "take"
  /\ since' = [since EXCEPT ![c] = upto[c]]
  /\ taken' = [taken EXCEPT ![c] = IF upto[c] > since[c] THEN upto[c] ELSE taken[c]]
  /\ Goto(c, IF Stops(c) THEN "ended" ELSE "ask")
  /\ UNCHANGED <<room, again, response, stored, missed>>

Crash(c) ==
  /\ pc[c] \in Running
  /\ missed' = [missed EXCEPT ![c] = @ \/ (pc[c] = "take" /\ upto[c] > since[c])]
  /\ Goto(c, "down")
  /\ UNCHANGED <<room, again, since, response, stored, taken>>

----------------------------------------------------------------------------
Write(p) == Admit(p) \/ Close(p) \/ Append(p) \/ AppendFails(p) \/ Notify(p)
Serve(c) == ReadState(c) \/ ReadLines(c) \/ Register(c) \/ HoldEnds(c)
Attend(c) == Ask(c) \/ Save(c) \/ Take(c)

Next ==
  \/ \E p \in Posters : Write(p)
  \/ DirectAppend
  \/ \E c \in Clients :
       Serve(c) \/ Attend(c) \/ Start(c) \/ Receive(c) \/ Lose(c) \/ Crash(c)

Spec == Init /\ [][Next]_vars

\* The server finishes what it reads and its hold timer fires; a client goes on
\* with its turn; a network that keeps being tried delivers some response.
\* Nobody has to post, to wake the held requests, or to be started again.
FairSpec ==
  /\ Spec
  /\ \A c \in Clients : WF_vars(Serve(c)) /\ WF_vars(Attend(c)) /\ SF_vars(Receive(c))

----------------------------------------------------------------------------
\* "survives restart -> no duplicate delivery": the batch a client is about to
\* take holds no line it took before, whatever died or got lost in between.
AtMostOnce == \A c \in Clients : pc[c] = "take" => taken[c] <= since[c]

\* A client skips nothing but the batch it died over: otherwise it has taken every
\* line below its cursor, whatever else died, got lost or came after the close.
NothingSkipped ==
  \A c \in Clients : pc[c] \in Running /\ ~missed[c] => taken[c] = since[c]

\* A line reaches every adapter that keeps running in an open room, even when it
\* was appended by another process or announced before the request was held.
LineArrives ==
  \A c \in Clients, k \in 1 .. MaxLines :
    pc[c] \in Running /\ lines >= k ~> stored[c] >= k \/ pc[c] \in {"down", "ended"}

\* Closing the room ends every attendance that is not restarted.
CloseReleases == \A c \in Clients : ~open /\ pc[c] \in Running ~> pc[c] \in {"down", "ended"}
=============================================================================
