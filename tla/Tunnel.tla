-------------------------------- MODULE Tunnel --------------------------------
(***************************************************************************)
(* The managed tunnel, src/src/tunnel: one slug of the broker (broker.ts,    *)
(* relay.ts, limits.ts) and the host sessions that attend it                 *)
(* (host-session.ts, client.ts, the tunnel run command), with the quota of   *)
(* src/src/platform/metering.ts.                                           *)
(*                                                                         *)
(* A participant's request is queued at the broker; a session claims it by a *)
(* poll, has the local room server run it, and posts the response back.  The *)
(* broker runs one handler at a time and switches at every await; every      *)
(* message between a session and the broker may be lost, which the session   *)
(* sees as a transport failure.                                            *)
(*                                                                         *)
(* Not modelled: rate windows, body sizes, routes with a local target, and   *)
(* the roll-over of the quota window.                                      *)
(***************************************************************************)
EXTENDS Integers, Sequences, FiniteSets

CONSTANTS
  Requests,     \* participants' requests, each sent once
  Waits,        \* those that are long-polls
  Sessions,     \* runs of "tunnel run", each registering once
  Nobody,       \* no session, no request
  Lost,         \* a poll's answer: the route is gone
  Limit,        \* concurrentRequestsPerRoute
  WaitLimit,    \* concurrentWaitsPerRoute
  Concurrency,  \* handlers of one session
  Quota,        \* relay requests of the window
  Restarts      \* may the broker process be restarted?

ASSUME TunnelAssumption ==
  /\ IsFiniteSet(Requests) /\ Waits \subseteq Requests
  /\ Nobody \notin Sessions /\ Nobody \notin Requests
  /\ Lost \notin Requests /\ Lost # Nobody
  /\ Limit \in Nat /\ WaitLimit \in Nat /\ Quota \in Nat
  /\ Concurrency \in Nat \ {0, 1}
  /\ Restarts \in BOOLEAN

Passed == {"route", "body", "queued", "claimed", "record"}
Inside == Passed \cup {"quota"}
Points == {"idle", "done"} \cup Inside
Answers == {"none", "refused", "answered", "unattended", "unanswered",
            "closed", "displaced", "cut"}
Route == [host : Sessions \cup {Nobody}, status : {"none", "active", "expired", "closed"}]

VARIABLES
  route,     \* the slug's RouteMetadata; its host is the session whose ids it has
  attended,  \* the last heartbeat or poll is within hostGraceMs
  queue,     \* RelayHub.pending
  total, waits,  \* BrokerGuards.inflight
  used,      \* the recorded relay requests
  pc,        \* per request: where it is in the broker
  told,      \* per request: what its client was told
  stage,     \* per session: "off", "up", "stopping" or "gone"
  loop,      \* per session: where its poll loop is
  got,       \* per session: the answer of its poll
  handler,   \* per session and request: "none", "fetch" or "respond"
  runs,      \* per request: how often the room server ran it (history)
  dropped    \* the requests whose response was lost on its way (history)

broker == <<route, attended>>
guards == <<total, waits>>
session == <<stage, loop, got, handler>>
history == <<runs, dropped>>
vars == <<route, attended, queue, total, waits, used, pc, told, stage, loop,
          got, handler, runs, dropped>>

TypeOK ==
  /\ route \in Route
  /\ attended \in BOOLEAN
  /\ queue \in Seq(Requests)
  /\ total \in Nat /\ waits \in Nat /\ used \in Nat
  /\ pc \in [Requests -> Points]
  /\ told \in [Requests -> Answers]
  /\ stage \in [Sessions -> {"off", "up", "stopping", "gone"}]
  /\ loop \in [Sessions -> {"top", "polling", "reply", "over"}]
  /\ got \in [Sessions -> Requests \cup {Nobody, Lost}]
  /\ handler \in [Sessions -> [Requests -> {"none", "fetch", "respond"}]]
  /\ runs \in [Requests -> Nat]
  /\ dropped \subseteq Requests

Init ==
  /\ route = [host |-> Nobody, status |-> "none"]
  /\ attended = FALSE
  /\ queue = <<>>
  /\ total = 0 /\ waits = 0 /\ used = 0
  /\ pc = [r \in Requests |-> "idle"]
  /\ told = [r \in Requests |-> "none"]
  /\ stage = [s \in Sessions |-> "off"]
  /\ loop = [s \in Sessions |-> "over"]
  /\ got = [s \in Sessions |-> Nobody]
  /\ handler = [s \in Sessions |-> [r \in Requests |-> "none"]]
  /\ runs = [r \in Requests |-> 0]
  /\ dropped = {}

\* resolve and refresh: an active route, and one whose host attends
Active == route.status = "active"
HostConnected == Active /\ attended

\* findByConnection with the ids s was given
Mine(s) == route.host = s

Goto(r, point) == pc' = [pc EXCEPT ![r] = point]

\* k times Math.max(0, n - 1)
Less(n, k) == IF n > k THEN n - k ELSE 0

\* Slip: a wait is released as an ordinary request
ReleaseTotalOnly(r) == total' = Less(total, 1) /\ UNCHANGED waits

\* The handle BrokerGuards.enter returned, called in forward's finally
Release(r) ==
  /\ total' = Less(total, 1)
  /\ waits' = IF r \in Waits THEN Less(waits, 1) ELSE waits

\* forward ends and its client is told so
Leave(r, answer) ==
  /\ Goto(r, "done")
  /\ told' = [told EXCEPT ![r] = answer]
  /\ Release(r)

\* RelayHub.remove
Unqueue(r) ==
  \E i \in DOMAIN queue :
    /\ queue[i] = r
    /\ queue' = SubSeq(queue, 1, i - 1) \o SubSeq(queue, i + 1, Len(queue))

InFlight == {r \in Requests : pc[r] \in {"queued", "claimed"}}

\* All of R leave at once
LeaveAll(R, answer) ==
  /\ pc' = [r \in Requests |-> IF r \in R THEN "done" ELSE pc[r]]
  /\ told' = [r \in Requests |-> IF r \in R THEN answer ELSE told[r]]
  /\ total' = Less(total, Cardinality(R))
  /\ waits' = Less(waits, Cardinality(R \cap Waits))

\* RelayHub.closeRoute
FailAll(answer) == LeaveAll(InFlight, answer) /\ queue' = <<>>

----------------------------------------------------------------------------
\* A participant's request: handleParticipantRequest, forward, forwardViaRelay

Full(r) == total >= Limit \/ (r \in Waits /\ waits >= WaitLimit)

\* No active route, or BrokerGuards.enter throws
Refuse(r) ==
  /\ pc[r] = "idle"
  /\ ~Active \/ Full(r)
  /\ Goto(r, "done")
  /\ told' = [told EXCEPT ![r] = "refused"]
  /\ UNCHANGED <<broker, queue, guards, used, session, history>>

Enter(r) ==
  /\ pc[r] = "idle"
  /\ Active /\ ~Full(r)
  /\ total' = total + 1
  /\ waits' = IF r \in Waits THEN waits + 1 ELSE waits
  /\ Goto(r, "quota")
  /\ UNCHANGED <<broker, queue, used, told, session, history>>

\* assertWithinQuota reads the record; the quotas of the other dimensions may be
\* exceeded too, or the read fail
CheckQuota(r) ==
  /\ pc[r] = "quota"
  /\ \/ Leave(r, "refused")
     \/ /\ used <= Quota
        /\ Goto(r, "route")
        /\ UNCHANGED <<guards, told>>
  /\ UNCHANGED <<broker, queue, used, session, history>>

\* forwardViaRelay's fast failure
CheckRoute(r) ==
  /\ pc[r] = "route"
  /\ \/ /\ ~HostConnected
        /\ Leave(r, "refused")
     \/ /\ HostConnected
        /\ Goto(r, "body")
        /\ UNCHANGED <<guards, told>>
  /\ UNCHANGED <<broker, queue, used, session, history>>

BodyFails(r) ==
  /\ pc[r] = "body"
  /\ Leave(r, "refused")
  /\ UNCHANGED <<broker, queue, used, session, history>>

\* enqueue, whatever became of the route while the body was read
Enqueue(r) ==
  /\ pc[r] = "body"
  /\ queue' = Append(queue, r)
  /\ Goto(r, "queued")
  /\ UNCHANGED <<broker, guards, used, told, session, history>>

\* Slip: the claim does not clear the timer
ClaimTimeoutAnyway(r) ==
  /\ pc[r] \in {"queued", "claimed"}
  /\ IF pc[r] = "queued" THEN Unqueue(r) ELSE UNCHANGED queue
  /\ Leave(r, "unattended")
  /\ UNCHANGED <<broker, used, session, history>>

\* claimTimeoutMs are over
ClaimTimeout(r) ==
  /\ pc[r] = "queued"
  /\ Unqueue(r)
  /\ Leave(r, "unattended")
  /\ UNCHANGED <<broker, used, session, history>>

\* Slip: a claimed request has no timer
NoResponseTimeout(r) == FALSE

\* responseTimeoutMs after the claim are over
ResponseTimeout(r) ==
  /\ pc[r] = "claimed"
  /\ Leave(r, "unanswered")
  /\ UNCHANGED <<broker, queue, used, session, history>>

\* onPublicForward, after the response was written; it may fail
Record(r) ==
  /\ pc[r] = "record"
  /\ used' \in {used, used + 1}
  /\ Goto(r, "done")
  /\ Release(r)
  /\ UNCHANGED <<broker, queue, told, session, history>>

----------------------------------------------------------------------------
\* The route

\* register: a stale, expired or closed route is replaced, and what it held
\* fails.  The new session runs, or never learns that it has the route.
Register(s) ==
  /\ stage[s] = "off"
  /\ ~HostConnected
  /\ route' = [host |-> s, status |-> "active"]
  /\ attended' = TRUE
  /\ FailAll("displaced")
  /\ \E ran \in BOOLEAN :
       /\ stage' = [stage EXCEPT ![s] = IF ran THEN "up" ELSE "gone"]
       /\ loop' = [loop EXCEPT ![s] = IF ran THEN "top" ELSE "over"]
  /\ UNCHANGED <<used, got, handler, history>>

\* hostGraceMs without a heartbeat or a poll
Lapse ==
  /\ attended
  /\ attended' = FALSE
  /\ UNCHANGED <<route, queue, guards, used, pc, told, session, history>>

\* The idle time or the lifetime of the route is over
Expire ==
  /\ Active
  /\ route' = [route EXCEPT !.status = "expired"]
  /\ UNCHANGED <<attended, queue, guards, used, pc, told, session, history>>

\* The broker process ends and a new one starts: every connection is cut
Restart ==
  /\ Restarts
  /\ route' = [host |-> Nobody, status |-> "none"]
  /\ attended' = FALSE
  /\ queue' = <<>>
  /\ pc' = [r \in Requests |-> IF pc[r] \in Inside THEN "done" ELSE pc[r]]
  /\ told' = [r \in Requests |-> IF pc[r] \in Inside \ {"record"} THEN "cut" ELSE told[r]]
  /\ total' = 0 /\ waits' = 0
  /\ UNCHANGED <<used, session, history>>

----------------------------------------------------------------------------
\* A session: runPollLoop, handle, beat, stop

Busy(s) == {r \in Requests : handler[s][r] # "none"}

\* The head of the loop: aborted, or a free handler
LoopTop(s) ==
  /\ loop[s] = "top"
  /\ \/ /\ stage[s] # "up"
        /\ loop' = [loop EXCEPT ![s] = "over"]
     \/ /\ stage[s] = "up"
        /\ Cardinality(Busy(s)) < Concurrency
        /\ loop' = [loop EXCEPT ![s] = "polling"]
  /\ UNCHANGED <<broker, queue, guards, used, pc, told, stage, got, handler, history>>

Answer(s, what) ==
  /\ got' = [got EXCEPT ![s] = what]
  /\ loop' = [loop EXCEPT ![s] = "reply"]

\* claimRelay on a route that is not the session's any more, or not active
ClaimRefused(s) ==
  /\ loop[s] = "polling"
  /\ ~(Mine(s) /\ Active)
  /\ Answer(s, Lost)
  /\ UNCHANGED <<broker, queue, guards, used, pc, told, stage, handler, history>>

\* Slip: the queue keeps what is claimed, and a claim is not remembered
ClaimWithoutMark(s) ==
  /\ loop[s] = "polling"
  /\ Mine(s) /\ Active
  /\ attended' = TRUE
  /\ \E r \in InFlight : Answer(s, r) /\ Goto(r, "claimed")
  /\ UNCHANGED <<route, queue, guards, used, told, stage, handler, history>>

\* claimRelay: the first request in the queue that is in flight and unclaimed
Claim(s) ==
  /\ loop[s] = "polling"
  /\ Mine(s) /\ Active
  /\ attended' = TRUE
  /\ \E i \in DOMAIN queue :
       /\ pc[queue[i]] = "queued"
       /\ \A j \in 1 .. i - 1 : pc[queue[j]] # "queued"
       /\ queue' = SubSeq(queue, i + 1, Len(queue))
       /\ Goto(queue[i], "claimed")
       /\ Answer(s, queue[i])
  /\ UNCHANGED <<route, guards, used, told, stage, handler, history>>

ClaimNothing(s) ==
  /\ loop[s] = "polling"
  /\ Mine(s) /\ Active
  /\ \A i \in DOMAIN queue : pc[queue[i]] # "queued"
  /\ attended' = TRUE
  /\ queue' = <<>>
  /\ Answer(s, Nobody)
  /\ UNCHANGED <<route, guards, used, pc, told, stage, handler, history>>

\* The poll or its answer is lost: broker_unreachable, tried again
PollFails(s) ==
  /\ loop[s] \in {"polling", "reply"}
  /\ loop' = [loop EXCEPT ![s] = "top"]
  /\ got' = [got EXCEPT ![s] = Nobody]
  /\ UNCHANGED <<broker, queue, guards, used, pc, told, stage, handler, history>>

\* fail: abort, and onError makes the command stop the session
Fail(s) == stage' = [stage EXCEPT ![s] = IF @ = "up" THEN "stopping" ELSE @]

\* Slip: a lost route counts as a transport failure
RetryLost(s) ==
  /\ loop[s] = "reply"
  /\ loop' = [loop EXCEPT ![s] = "top"]
  /\ \/ /\ got[s] \in Requests
        /\ handler' = [handler EXCEPT ![s][got[s]] = "fetch"]
     \/ got[s] \notin Requests /\ UNCHANGED handler
  /\ got' = [got EXCEPT ![s] = Nobody]
  /\ UNCHANGED <<broker, queue, guards, used, pc, told, stage, history>>

Dispatch(s) ==
  /\ loop[s] = "reply"
  /\ \/ /\ got[s] = Lost
        /\ loop' = [loop EXCEPT ![s] = "over"]
        /\ Fail(s)
        /\ UNCHANGED handler
     \/ /\ got[s] = Nobody
        /\ loop' = [loop EXCEPT ![s] = "top"]
        /\ UNCHANGED <<stage, handler>>
     \/ /\ got[s] \in Requests
        /\ loop' = [loop EXCEPT ![s] = "top"]
        /\ handler' = [handler EXCEPT ![s][got[s]] = "fetch"]
        /\ UNCHANGED stage
  /\ got' = [got EXCEPT ![s] = Nobody]
  /\ UNCHANGED <<broker, queue, guards, used, pc, told, history>>

\* relayToLocalServer: the room server runs the request, or cannot be reached;
\* either gives a response
Fetch(s, r) ==
  /\ handler[s][r] = "fetch"
  /\ handler' = [handler EXCEPT ![s][r] = "respond"]
  /\ \/ runs' = [runs EXCEPT ![r] = @ + 1]
     \/ UNCHANGED runs
  /\ UNCHANGED <<broker, queue, guards, used, pc, told, stage, loop, got, dropped>>

\* respondRelay: the route must have the session's ids, in whatever status, and
\* the request must be in flight; otherwise nobody waits for the response
Respond(s, r) ==
  /\ handler[s][r] = "respond"
  /\ handler' = [handler EXCEPT ![s][r] = "none"]
  /\ \/ /\ Mine(s) /\ r \in InFlight
        /\ Goto(r, "record")
        /\ told' = [told EXCEPT ![r] = "answered"]
     \/ /\ ~(Mine(s) /\ r \in InFlight)
        /\ UNCHANGED <<pc, told>>
  /\ UNCHANGED <<broker, queue, guards, used, stage, loop, got, history>>

RespondFails(s, r) ==
  /\ handler[s][r] = "respond"
  /\ handler' = [handler EXCEPT ![s][r] = "none"]
  /\ dropped' = IF r \in InFlight THEN dropped \cup {r} ELSE dropped
  /\ UNCHANGED <<broker, queue, guards, used, pc, told, stage, loop, got, runs>>

\* beat, of an interval that stop clears; the last one may arrive after that
Beat(s) ==
  /\ stage[s] \in {"up", "stopping"}
  /\ \/ /\ Mine(s) /\ Active
        /\ attended' = TRUE
        /\ UNCHANGED stage
     \/ /\ ~(Mine(s) /\ Active)
        /\ Fail(s)
        /\ UNCHANGED attended
  /\ UNCHANGED <<route, queue, guards, used, pc, told, loop, got, handler, history>>

\* SIGINT or SIGTERM
Interrupt(s) ==
  /\ stage[s] = "up"
  /\ Fail(s)
  /\ UNCHANGED <<broker, queue, guards, used, pc, told, loop, got, handler, history>>

\* Slip: stop does not wait for the handlers
LoopEnded(s) == loop[s] = "over"

\* The poll loop and then the handlers have ended
Drained(s) == loop[s] = "over" /\ Busy(s) = {}

\* stop's close, which fails where the route is not the session's any more
CloseRoute(s) ==
  /\ stage[s] = "stopping"
  /\ Drained(s)
  /\ stage' = [stage EXCEPT ![s] = "gone"]
  /\ \/ /\ Mine(s)
        /\ route' = [route EXCEPT !.status = "closed"]
        /\ FailAll("closed")
     \/ /\ ~Mine(s)
        /\ UNCHANGED <<route, queue, guards, pc, told>>
  /\ UNCHANGED <<attended, used, loop, got, handler, history>>

CloseFails(s) ==
  /\ stage[s] = "stopping"
  /\ Drained(s)
  /\ stage' = [stage EXCEPT ![s] = "gone"]
  /\ UNCHANGED <<broker, queue, guards, used, pc, told, loop, got, handler, history>>

\* The session's process dies
Crash(s) ==
  /\ stage[s] \in {"up", "stopping"}
  /\ stage' = [stage EXCEPT ![s] = "gone"]
  /\ loop' = [loop EXCEPT ![s] = "over"]
  /\ got' = [got EXCEPT ![s] = Nobody]
  /\ handler' = [handler EXCEPT ![s] = [r \in Requests |-> "none"]]
  /\ UNCHANGED <<broker, queue, guards, used, pc, told, history>>

----------------------------------------------------------------------------
Forward(r) ==
  \/ CheckQuota(r) \/ CheckRoute(r) \/ BodyFails(r) \/ Enqueue(r)
  \/ ClaimTimeout(r) \/ ResponseTimeout(r) \/ Record(r)

Handle(s, r) == Fetch(s, r) \/ Respond(s, r) \/ RespondFails(s, r)

Poll(s) ==
  LoopTop(s) \/ ClaimRefused(s) \/ Claim(s) \/ ClaimNothing(s) \/ PollFails(s)

Stop(s) == CloseRoute(s) \/ CloseFails(s)

Next ==
  \/ \E r \in Requests : Refuse(r) \/ Enter(r) \/ Forward(r)
  \/ \E s \in Sessions :
       \/ Register(s) \/ Poll(s) \/ Dispatch(s) \/ Beat(s) \/ Interrupt(s)
       \/ Stop(s) \/ Crash(s)
       \/ \E r \in Requests : Handle(s, r)
  \/ Lapse \/ Expire \/ Restart

Spec == Init /\ [][Next]_vars

\* Bodies end or fail, timers fire, the meter answers; a session's loop, handlers
\* and stop go on; of polls that are made again and again some are answered.
\* Nothing is assumed of heartbeats, participants and hosts.
FairSpec ==
  /\ Spec
  /\ \A r \in Requests : WF_vars(Forward(r))
  /\ \A s \in Sessions :
       /\ WF_vars(Poll(s)) /\ SF_vars(ClaimRefused(s)) /\ SF_vars(Dispatch(s)) /\ WF_vars(Stop(s))
       /\ \A r \in Requests : WF_vars(Handle(s, r))

----------------------------------------------------------------------------
\* A request the broker hands out is run by the host at most once, whatever is
\* claimed, lost, timed out, restarted or taken over.
RunAtMostOnce == \A r \in Requests : runs[r] <= 1

\* The request was turned away before any host had it.
NotRun(r) == told[r] \in {"refused", "unattended"} \/ (told[r] = "closed" /\ r \notin dropped)

\* "host tunnel did not attend the request" (relay.ts) is true: the host did not
\* run it and will not; the same of a refusal, and, as stop drains, of what is
\* failed by a session's own close, unless a response was lost.
TurnedAwayNeverRan ==
  \A r \in Requests : NotRun(r) =>
    runs[r] = 0 /\ \A s \in Sessions : handler[s][r] = "none" /\ got[s] # r

\* What every forward took from the guards is given back exactly once, on every
\* way out, and the limits hold.
GuardsBalanced ==
  /\ total = Cardinality({r \in Requests : pc[r] \in Inside})
  /\ waits = Cardinality({r \in Waits : pc[r] \in Inside})
  /\ total <= Limit /\ waits <= WaitLimit

\* The quota is checked before and recorded after a forward: concurrent forwards
\* overshoot it, by no more than the broker lets run at once.
QuotaNearlyKept == used <= Quota + Limit

\* What is settled about a request
verdict == [r \in Requests |->
  CASE told[r] = "none" -> "open"
    [] told[r] = "answered" -> "answered"
    [] NotRun(r) -> "notRun"
    [] OTHER -> "unknown"]

RC == INSTANCE RelayCall

\* The relay is a call that is run at most once and whose refusals are final.
ImplementsRelayCall == RC!RSpec

\* No participant hangs: every request that entered the broker leaves it.
EveryRequestEnds == \A r \in Requests : pc[r] \in Inside ~> pc[r] = "done"

\* A session whose route is gone, or that was interrupted, ends.
LostSessionEnds ==
  \A s \in Sessions : stage[s] = "stopping" \/ (stage[s] = "up" /\ ~(Mine(s) /\ Active)) ~> stage[s] = "gone"
===============================================================================
