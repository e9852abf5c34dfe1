---------------------------- MODULE Tunnel_proofs ----------------------------
(***************************************************************************)
(* What the tunnel keeps for every number of requests and sessions and for   *)
(* every limit.                                                            *)
(***************************************************************************)
EXTENDS Tunnel, FiniteSetTheorems, SequenceTheorems, TLAPS

LEMMA LessType ==
  ASSUME NEW n \in Nat, NEW k \in Nat
  PROVE  Less(n, k) \in Nat
BY DEF Less

LEMMA SomeFinite ==
  ASSUME NEW R \in SUBSET Requests
  PROVE  IsFiniteSet(R) /\ Cardinality(R) \in Nat
BY TunnelAssumption, FS_Subset, FS_CardinalityType

\* What Claim and a timer leave of the queue
LEMMA QueueParts ==
  ASSUME TypeOK, NEW i \in DOMAIN queue
  PROVE  /\ queue[i] \in Requests
         /\ SubSeq(queue, i + 1, Len(queue)) \in Seq(Requests)
         /\ SubSeq(queue, 1, i - 1) \o SubSeq(queue, i + 1, Len(queue)) \in Seq(Requests)
<1>1. queue \in Seq(Requests)
  BY DEF TypeOK
<1>2. Len(queue) \in Nat /\ DOMAIN queue = 1 .. Len(queue) /\ i \in 1 .. Len(queue)
  BY <1>1, LenProperties
<1>3. \A j \in 1 .. Len(queue) : queue[j] \in Requests
  BY <1>1, ElementOfSeq
<1>4. SubSeq(queue, i + 1, Len(queue)) \in Seq(Requests)
  <2>1. i + 1 \in Int /\ Len(queue) \in Int /\ \A j \in i + 1 .. Len(queue) : queue[j] \in Requests
    BY <1>2, <1>3
  <2> QED
    BY <2>1, SubSeqProperties
<1>5. SubSeq(queue, 1, i - 1) \in Seq(Requests)
  <2>1. 1 \in Int /\ i - 1 \in Int /\ \A j \in 1 .. i - 1 : queue[j] \in Requests
    BY <1>2, <1>3
  <2> QED
    BY <2>1, SubSeqProperties
<1> QED
  BY <1>2, <1>3, <1>4, <1>5, ConcatProperties

LEMMA UnqueueType ==
  ASSUME TypeOK, NEW r, Unqueue(r)
  PROVE  queue' \in Seq(Requests)
BY QueueParts DEF Unqueue

LEMMA LeaveType ==
  ASSUME TypeOK, NEW r \in Requests, NEW answer \in Answers, Leave(r, answer)
  PROVE  /\ pc' \in [Requests -> Points] /\ told' \in [Requests -> Answers]
         /\ total' \in Nat /\ waits' \in Nat
BY LessType DEF TypeOK, Leave, Goto, Release, Points

LEMMA FailAllType ==
  ASSUME TypeOK, NEW answer \in Answers, FailAll(answer)
  PROVE  /\ pc' \in [Requests -> Points] /\ told' \in [Requests -> Answers]
         /\ total' \in Nat /\ waits' \in Nat /\ queue' \in Seq(Requests)
<1>1. Cardinality(InFlight) \in Nat /\ Cardinality(InFlight \cap Waits) \in Nat
  BY SomeFinite DEF InFlight
<1>2. total' \in Nat /\ waits' \in Nat
  BY <1>1, LessType DEF TypeOK, FailAll, LeaveAll
<1>3. pc' \in [Requests -> Points] /\ told' \in [Requests -> Answers]
  BY DEF TypeOK, FailAll, LeaveAll, Points
<1>4. queue' \in Seq(Requests)
  BY EmptySeq DEF FailAll
<1> QED
  BY <1>2, <1>3, <1>4

LEMMA ForwardType ==
  ASSUME TypeOK, NEW r \in Requests, Refuse(r) \/ Enter(r) \/ Forward(r)
  PROVE  TypeOK'
<1> USE DEF TypeOK, Goto, Points, Inside, Passed, broker, guards, session, history
<1>a. {"refused", "unattended", "unanswered"} \subseteq Answers
  BY DEF Answers
<1>1. CASE Refuse(r)
  BY <1>1, <1>a DEF Refuse
<1>2. CASE Enter(r)
  BY <1>2 DEF Enter
<1>3. CASE CheckQuota(r)
  BY <1>3, <1>a, LeaveType DEF CheckQuota
<1>4. CASE CheckRoute(r)
  BY <1>4, <1>a, LeaveType DEF CheckRoute
<1>5. CASE BodyFails(r)
  BY <1>5, <1>a, LeaveType DEF BodyFails
<1>6. CASE Enqueue(r)
  BY <1>6 DEF Enqueue
<1>7. CASE ClaimTimeout(r)
  BY <1>7, <1>a, LeaveType, UnqueueType DEF ClaimTimeout
<1>8. CASE ResponseTimeout(r)
  BY <1>8, <1>a, LeaveType DEF ResponseTimeout
<1>9. CASE Record(r)
  <2>1. total' \in Nat /\ waits' \in Nat
    BY <1>9, LessType DEF Record, Release
  <2>2. used' \in Nat
    BY <1>9 DEF Record
  <2> QED
    BY <1>9, <2>1, <2>2 DEF Record
<1> QED
  BY <1>1, <1>2, <1>3, <1>4, <1>5, <1>6, <1>7, <1>8, <1>9 DEF Forward

LEMMA RouteType ==
  ASSUME TypeOK, Lapse \/ Expire \/ Restart \/ \E s \in Sessions : Register(s) \/ Stop(s)
  PROVE  TypeOK'
<1> USE DEF TypeOK, broker, guards, session, history
<1>1. CASE Lapse
  BY <1>1 DEF Lapse
<1>2. CASE Expire
  BY <1>2 DEF Expire, Route
<1>3. CASE Restart
  <2>1. queue' \in Seq(Requests)
    BY <1>3, EmptySeq DEF Restart
  <2>2. pc' \in [Requests -> Points] /\ told' \in [Requests -> Answers]
    BY <1>3 DEF Restart, Points, Answers
  <2> QED
    BY <1>3, <2>1, <2>2 DEF Restart, Route
<1>4. ASSUME NEW s \in Sessions, Register(s) PROVE TypeOK'
  <2>1. "displaced" \in Answers
    BY DEF Answers
  <2>2. FailAll("displaced")
    BY <1>4 DEF Register
  <2> HIDE DEF Answers
  <2> QED
    BY <1>4, <2>1, <2>2, FailAllType DEF Register, Route
<1>5. ASSUME NEW s \in Sessions, CloseRoute(s) PROVE TypeOK'
  <2>1. "closed" \in Answers
    BY DEF Answers
  <2>2. CASE Mine(s) /\ FailAll("closed") /\ route' = [route EXCEPT !.status = "closed"]
    BY <1>5, <2>1, <2>2, FailAllType DEF CloseRoute, Route
  <2>3. CASE UNCHANGED <<route, queue, guards, pc, told>>
    BY <1>5, <2>3 DEF CloseRoute
  <2> QED
    BY <1>5, <2>2, <2>3 DEF CloseRoute
<1>6. ASSUME NEW s \in Sessions, CloseFails(s) PROVE TypeOK'
  BY <1>6 DEF CloseFails
<1> QED
  BY <1>1, <1>2, <1>3, <1>4, <1>5, <1>6 DEF Stop

LEMMA SessionType ==
  ASSUME TypeOK, NEW s \in Sessions,
         \/ Poll(s) \/ Dispatch(s) \/ Beat(s) \/ Interrupt(s) \/ Crash(s)
         \/ \E r \in Requests : Handle(s, r)
  PROVE  TypeOK'
<1> USE DEF TypeOK, Answer, Fail, broker, guards, session, history
<1>1. CASE LoopTop(s)
  BY <1>1 DEF LoopTop
<1>2. CASE ClaimRefused(s)
  BY <1>2 DEF ClaimRefused
<1>3. CASE Claim(s)
  BY <1>3, QueueParts DEF Claim, Goto, Points, Inside, Passed
<1>4. CASE ClaimNothing(s)
  BY <1>4, EmptySeq DEF ClaimNothing
<1>5. CASE PollFails(s)
  BY <1>5 DEF PollFails
<1>6. CASE Dispatch(s)
  <2>1. handler' \in [Sessions -> [Requests -> {"none", "fetch", "respond"}]]
    <3>1. handler' = handler \/ \E r \in Requests : handler' = [handler EXCEPT ![s][r] = "fetch"]
      BY <1>6 DEF Dispatch
    <3>2. handler \in [Sessions -> [Requests -> {"none", "fetch", "respond"}]]
      OBVIOUS
    <3>3. ASSUME NEW r \in Requests
          PROVE  [handler EXCEPT ![s][r] = "fetch"] \in [Sessions -> [Requests -> {"none", "fetch", "respond"}]]
      BY <3>2
    <3> HIDE DEF TypeOK
    <3> QED
      BY <3>1, <3>2, <3>3
  <2>2. stage' \in [Sessions -> {"off", "up", "stopping", "gone"}]
    BY <1>6 DEF Dispatch
  <2> QED
    BY <1>6, <2>1, <2>2 DEF Dispatch
<1>7. CASE Beat(s)
  BY <1>7 DEF Beat
<1>8. CASE Interrupt(s)
  BY <1>8 DEF Interrupt
<1>9. CASE Crash(s)
  BY <1>9 DEF Crash
<1>10. ASSUME NEW r \in Requests, Fetch(s, r) PROVE TypeOK'
  <2>1. handler' \in [Sessions -> [Requests -> {"none", "fetch", "respond"}]]
    BY <1>10 DEF Fetch
  <2>2. runs' \in [Requests -> Nat]
    <3>1. runs' = [runs EXCEPT ![r] = runs[r] + 1] \/ runs' = runs
      BY <1>10 DEF Fetch
    <3>2. runs \in [Requests -> Nat]
      OBVIOUS
    <3> HIDE DEF TypeOK
    <3> QED
      BY <3>1, <3>2
  <2> QED
    BY <1>10, <2>1, <2>2 DEF Fetch
<1>11. ASSUME NEW r \in Requests, Respond(s, r) PROVE TypeOK'
  BY <1>11 DEF Respond, Goto, Points, Inside, Passed, Answers
<1>12. ASSUME NEW r \in Requests, RespondFails(s, r) PROVE TypeOK'
  BY <1>12 DEF RespondFails
<1> QED
  BY <1>1, <1>2, <1>3, <1>4, <1>5, <1>6, <1>7, <1>8, <1>9, <1>10, <1>11, <1>12 DEF Poll, Handle

LEMMA InitType == Init => TypeOK
<1> SUFFICES ASSUME Init PROVE TypeOK
  OBVIOUS
<1>1. route \in Route /\ attended \in BOOLEAN
  BY DEF Init, Route
<1>2. queue \in Seq(Requests) /\ total \in Nat /\ waits \in Nat /\ used \in Nat
  BY EmptySeq DEF Init
<1>3. pc \in [Requests -> Points] /\ told \in [Requests -> Answers]
  BY DEF Init, Points, Answers
<1>4. runs \in [Requests -> Nat] /\ dropped \subseteq Requests
  BY DEF Init
<1>5. /\ stage \in [Sessions -> {"off", "up", "stopping", "gone"}]
      /\ loop \in [Sessions -> {"top", "polling", "reply", "over"}]
      /\ got \in [Sessions -> Requests \cup {Nobody, Lost}]
      /\ handler \in [Sessions -> [Requests -> {"none", "fetch", "respond"}]]
  BY DEF Init
<1> QED
  BY <1>1, <1>2, <1>3, <1>4, <1>5 DEF TypeOK

LEMMA TypeStep == TypeOK /\ [Next]_vars => TypeOK'
<1>1. TypeOK /\ Next => TypeOK'
  BY ForwardType, RouteType, SessionType DEF Next
<1>2. TypeOK /\ UNCHANGED vars => TypeOK'
  BY DEF TypeOK, vars
<1> QED
  BY <1>1, <1>2

\* The values of all variables stay in their types, whatever is lost, timed out,
\* taken over or restarted.
THEOREM TypeCorrect == Spec => []TypeOK
BY InitType, TypeStep, PTL DEF Spec

----------------------------------------------------------------------------
\* Who has a request: the answer of a poll or a handler carries it
Has(s, r) == got[s] = r \/ handler[s][r] # "none"

Before == {"idle", "quota", "route", "body", "queued"}

\* An answer is there only while the loop looks at it, and nothing handles it yet.
GotInv ==
  \A s \in Sessions :
    /\ stage[s] = "off" => loop[s] = "over"
    /\ loop[s] # "reply" => got[s] = Nobody
    /\ \A r \in Requests : got[s] = r => handler[s][r] = "none"

OneHas ==
  \A r \in Requests : \A s, t \in Sessions : Has(s, r) /\ Has(t, r) => s = t

FetchesFirst ==
  \A r \in Requests : \A s \in Sessions :
    got[s] = r \/ handler[s][r] = "fetch" => runs[r] = 0

\* Nobody has what is not claimed.
BeforeInv ==
  \A r \in Requests : pc[r] \in Before =>
    told[r] = "none" /\ runs[r] = 0 /\ \A s \in Sessions : ~Has(s, r)

\* What is claimed, was run and whose response was not lost is with the host, or
\* the host is dead.
ClaimedInv ==
  \A r \in Requests : pc[r] = "claimed" =>
    /\ told[r] = "none"
    /\ \A s \in Sessions : Has(s, r) => Mine(s)
    /\ \/ r \in dropped \/ runs[r] = 0
       \/ \E s \in Sessions : Mine(s) /\ (Has(s, r) \/ stage[s] = "gone")

EndedInv ==
  \A r \in Requests :
    /\ pc[r] = "record" => told[r] = "answered"
    /\ pc[r] = "done" => told[r] # "none"
    /\ told[r] = "answered" => \A s \in Sessions : ~Has(s, r)

CallInv ==
  /\ GotInv /\ OneHas /\ FetchesFirst /\ BeforeInv /\ ClaimedInv /\ EndedInv
  /\ RunAtMostOnce /\ TurnedAwayNeverRan

LEMMA InitCall == Init => CallInv
BY TunnelAssumption
   DEF Init, CallInv, GotInv, OneHas, FetchesFirst, BeforeInv, ClaimedInv, EndedInv,
       RunAtMostOnce, TurnedAwayNeverRan, NotRun, Has, Before

\* A request that nobody has, before it is claimed, moves on or is refused.
LEMMA EarlyCall ==
  ASSUME TypeOK, CallInv, NEW r \in Requests, pc[r] \in Before,
         UNCHANGED <<route, session, history>>,
         \/ \E point \in Before : Goto(r, point) /\ UNCHANGED told
         \/ \E answer \in {"refused", "unattended"} :
              Goto(r, "done") /\ told' = [told EXCEPT ![r] = answer]
  PROVE  CallInv'
<1> USE DEF TypeOK, CallInv, Goto, Before, session, history, Has, Mine
<1>1. (GotInv /\ OneHas /\ FetchesFirst /\ RunAtMostOnce)'
  BY DEF GotInv, OneHas, FetchesFirst, RunAtMostOnce
<1>2. BeforeInv'
  BY DEF BeforeInv
<1>3. ClaimedInv'
  BY DEF ClaimedInv
<1>4. EndedInv'
  BY DEF EndedInv, BeforeInv
<1>5. TurnedAwayNeverRan'
  BY DEF TurnedAwayNeverRan, NotRun, BeforeInv
<1> QED
  BY <1>1, <1>2, <1>3, <1>4, <1>5

\* All that is in flight, or more, ends with the route that held it.
LEMMA LeaveCall ==
  ASSUME TypeOK, CallInv, NEW R \in SUBSET Requests, InFlight \subseteq R,
         \A r \in R : pc[r] \in Inside,
         NEW answer \in {"displaced", "cut"},
         pc' = [r \in Requests |-> IF r \in R THEN "done" ELSE pc[r]],
         told' = [r \in Requests |-> IF r \in R /\ pc[r] # "record" THEN answer ELSE told[r]],
         GotInv', UNCHANGED <<got, handler, history>>
  PROVE  CallInv'
<1> USE DEF TypeOK, CallInv, Before, Inside, Passed, Points, InFlight, history, Has
<1>1. (OneHas /\ FetchesFirst /\ RunAtMostOnce)'
  BY DEF OneHas, FetchesFirst, RunAtMostOnce
<1>2. BeforeInv'
  BY DEF BeforeInv
<1>3. ClaimedInv'
  BY DEF ClaimedInv
<1>4. EndedInv'
  BY DEF EndedInv, BeforeInv
<1>5. TurnedAwayNeverRan'
  BY DEF TurnedAwayNeverRan, NotRun, BeforeInv
<1> QED
  BY <1>1, <1>2, <1>3, <1>4, <1>5

LEMMA ForwardCall ==
  ASSUME TypeOK, CallInv, NEW r \in Requests, Refuse(r) \/ Enter(r) \/ Forward(r)
  PROVE  CallInv'
<1> USE DEF broker, guards
<1>1. CASE Refuse(r) \/ Enter(r)
  BY <1>1, EarlyCall DEF Refuse, Enter, Before, Goto
<1>2. CASE CheckQuota(r) \/ CheckRoute(r) \/ BodyFails(r)
  BY <1>2, EarlyCall DEF CheckQuota, CheckRoute, BodyFails, Leave, Before
<1>3. CASE Enqueue(r) \/ ClaimTimeout(r)
  BY <1>3, EarlyCall DEF Enqueue, ClaimTimeout, Leave, Before
<1>4. CASE ResponseTimeout(r)
  <2> USE <1>4 DEF ResponseTimeout, Leave, Goto, TypeOK, CallInv, Before, session, history, Has, Mine
  <2>1. (GotInv /\ OneHas /\ FetchesFirst /\ RunAtMostOnce)'
    BY DEF GotInv, OneHas, FetchesFirst, RunAtMostOnce
  <2>2. (BeforeInv /\ ClaimedInv /\ EndedInv)'
    BY DEF BeforeInv, ClaimedInv, EndedInv
  <2>3. TurnedAwayNeverRan'
    BY DEF TurnedAwayNeverRan, NotRun
  <2> QED
    BY <2>1, <2>2, <2>3
<1>5. CASE Record(r)
  <2> USE <1>5 DEF Record, Goto, TypeOK, CallInv, Before, session, history, Has, Mine
  <2>1. (GotInv /\ OneHas /\ FetchesFirst /\ RunAtMostOnce)'
    BY DEF GotInv, OneHas, FetchesFirst, RunAtMostOnce
  <2>2. (BeforeInv /\ ClaimedInv /\ EndedInv)'
    BY DEF BeforeInv, ClaimedInv, EndedInv
  <2>3. TurnedAwayNeverRan'
    BY DEF TurnedAwayNeverRan, NotRun
  <2> QED
    BY <2>1, <2>2, <2>3
<1> QED
  BY <1>1, <1>2, <1>3, <1>4, <1>5 DEF Forward

\* Steps that leave the calls alone
LEMMA QuietCall ==
  ASSUME TypeOK, CallInv, GotInv',
         UNCHANGED <<pc, told, got, handler, history>>, route'.host = route.host,
         \A s \in Sessions : stage[s] = "gone" => stage'[s] = "gone"
  PROVE  CallInv'
<1> USE DEF CallInv, history, Has, Mine
<1>1. (OneHas /\ FetchesFirst /\ RunAtMostOnce)'
  BY DEF OneHas, FetchesFirst, RunAtMostOnce
<1>2. (BeforeInv /\ EndedInv)'
  BY DEF BeforeInv, EndedInv
<1>3. ClaimedInv'
  BY DEF ClaimedInv
<1>4. TurnedAwayNeverRan'
  BY DEF TurnedAwayNeverRan, NotRun
<1> QED
  BY <1>1, <1>2, <1>3, <1>4

LEMMA RouteCall ==
  ASSUME TypeOK, CallInv, Lapse \/ Expire \/ Restart \/ \E s \in Sessions : Register(s) \/ Stop(s)
  PROVE  CallInv'
<1> USE DEF session, history
<1>1. CASE Lapse \/ Expire
  <2>1. route'.host = route.host
    BY <1>1 DEF Lapse, Expire, TypeOK, Route
  <2>2. GotInv'
    BY <1>1 DEF Lapse, Expire, CallInv, GotInv
  <2> QED
    BY <1>1, <2>1, <2>2, QuietCall DEF Lapse, Expire
<1>2. CASE Restart
  <2>1. GotInv'
    BY <1>2 DEF Restart, CallInv, GotInv
  <2> DEFINE R == {r \in Requests : pc[r] \in Inside}
  <2>2. R \in SUBSET Requests /\ InFlight \subseteq R /\ \A r \in R : pc[r] \in Inside
    BY DEF InFlight, Inside, Passed
  <2>3. pc' = [r \in Requests |-> IF r \in R THEN "done" ELSE pc[r]]
    BY <1>2 DEF Restart
  <2>4. told' = [r \in Requests |-> IF r \in R /\ pc[r] # "record" THEN "cut" ELSE told[r]]
    BY <1>2 DEF Restart
  <2>5. UNCHANGED <<got, handler, history>>
    BY <1>2 DEF Restart
  <2> HIDE DEF R
  <2> QED
    BY <2>1, <2>2, <2>3, <2>4, <2>5, LeaveCall
<1>3. ASSUME NEW s \in Sessions, Register(s) PROVE CallInv'
  <2>1. GotInv'
    BY <1>3 DEF Register, CallInv, GotInv, TypeOK
  <2>2. InFlight \in SUBSET Requests /\ \A r \in InFlight : pc[r] \in Inside /\ pc[r] # "record"
    BY DEF InFlight, Inside, Passed
  <2>3. /\ pc' = [r \in Requests |-> IF r \in InFlight THEN "done" ELSE pc[r]]
        /\ told' = [r \in Requests |-> IF r \in InFlight THEN "displaced" ELSE told[r]]
    BY <1>3 DEF Register, FailAll, LeaveAll
  <2>4. told' = [r \in Requests |-> IF r \in InFlight /\ pc[r] # "record" THEN "displaced" ELSE told[r]]
    BY <2>2, <2>3
  <2>5. UNCHANGED <<got, handler, history>>
    BY <1>3 DEF Register
  <2> QED
    BY <2>1, <2>2, <2>3, <2>4, <2>5, LeaveCall
<1>4. ASSUME NEW s \in Sessions, CloseFails(s) \/ (CloseRoute(s) /\ ~Mine(s)) PROVE CallInv'
  <2>1. GotInv'
    BY <1>4 DEF CloseFails, CloseRoute, CallInv, GotInv, TypeOK
  <2> QED
    BY <1>4, <2>1, QuietCall DEF broker, CloseFails, CloseRoute, TypeOK
<1>5. ASSUME NEW s \in Sessions, CloseRoute(s), Mine(s) PROVE CallInv'
  <2>1. /\ pc' = [r \in Requests |-> IF r \in InFlight THEN "done" ELSE pc[r]]
        /\ told' = [r \in Requests |-> IF r \in InFlight THEN "closed" ELSE told[r]]
        /\ UNCHANGED <<loop, got, handler, history>>
        /\ stage[s] = "stopping" /\ Drained(s)
        /\ stage' = [stage EXCEPT ![s] = "gone"]
    BY <1>5 DEF CloseRoute, FailAll, LeaveAll
  <2> USE <2>1 DEF TypeOK, CallInv, Before, InFlight, Has
  <2>2. (GotInv /\ OneHas /\ FetchesFirst /\ RunAtMostOnce)'
    BY DEF GotInv, OneHas, FetchesFirst, RunAtMostOnce
  <2>3. \A r \in Requests : ~Has(s, r)
    BY TunnelAssumption DEF Drained, Busy, GotInv
  <2>4. \A r \in InFlight \ dropped : runs[r] = 0 /\ \A t \in Sessions : ~Has(t, r)
    BY <1>5, <2>3 DEF ClaimedInv, BeforeInv, Mine
  <2>5. (BeforeInv /\ ClaimedInv)'
    BY DEF BeforeInv, ClaimedInv
  <2>6. EndedInv'
    BY DEF EndedInv, ClaimedInv, BeforeInv
  <2>7. TurnedAwayNeverRan'
    BY <2>4 DEF TurnedAwayNeverRan, NotRun
  <2> QED
    BY <2>2, <2>5, <2>6, <2>7
<1> QED
  BY <1>1, <1>2, <1>3, <1>4, <1>5 DEF Stop

LEMMA ClaimCall ==
  ASSUME TypeOK, CallInv, NEW s \in Sessions, Claim(s)
  PROVE  CallInv'
<1>1. PICK r \in Requests : /\ pc[r] = "queued" /\ loop[s] = "polling" /\ Mine(s)
                           /\ pc' = [pc EXCEPT ![r] = "claimed"]
                           /\ got' = [got EXCEPT ![s] = r]
                           /\ loop' = [loop EXCEPT ![s] = "reply"]
                           /\ UNCHANGED <<route, told, stage, handler, history>>
  BY QueueParts DEF Claim, Goto, Answer
<1> USE <1>1, TunnelAssumption DEF TypeOK, CallInv, Has, Mine, history, Before
<1>2. got[s] = Nobody /\ told[r] = "none" /\ runs[r] = 0 /\ \A t \in Sessions : ~Has(t, r)
  BY DEF GotInv, BeforeInv
<1>3. GotInv'
  BY <1>2 DEF GotInv
<1>4. (OneHas /\ FetchesFirst /\ RunAtMostOnce)'
  BY <1>2 DEF OneHas, FetchesFirst, RunAtMostOnce
<1>5. (BeforeInv /\ ClaimedInv)'
  BY <1>2 DEF BeforeInv, ClaimedInv
<1>6. EndedInv'
  BY <1>2 DEF EndedInv
<1>7. TurnedAwayNeverRan'
  BY <1>2 DEF TurnedAwayNeverRan, NotRun
<1> QED
  BY <1>3, <1>4, <1>5, <1>6, <1>7

\* What was claimed is lost on its way.
LEMMA PollFailsCall ==
  ASSUME TypeOK, CallInv, NEW s \in Sessions, PollFails(s)
  PROVE  CallInv'
<1> USE TunnelAssumption DEF PollFails, TypeOK, CallInv, Has, Mine, history, broker
<1>1. GotInv'
  BY DEF GotInv
<1>2. (OneHas /\ FetchesFirst /\ RunAtMostOnce)'
  BY DEF OneHas, FetchesFirst, RunAtMostOnce
<1>3. BeforeInv'
  BY DEF BeforeInv
<1>4. ClaimedInv'
  BY DEF ClaimedInv, FetchesFirst
<1>5. (EndedInv /\ TurnedAwayNeverRan)'
  BY DEF EndedInv, TurnedAwayNeverRan, NotRun
<1> QED
  BY <1>1, <1>2, <1>3, <1>4, <1>5

LEMMA DispatchCall ==
  ASSUME TypeOK, CallInv, NEW s \in Sessions, Dispatch(s)
  PROVE  CallInv'
<1>1. UNCHANGED <<route, pc, told, history>> /\ got' = [got EXCEPT ![s] = Nobody]
  BY DEF Dispatch, broker
<1>2. /\ loop' \in {[loop EXCEPT ![s] = "top"], [loop EXCEPT ![s] = "over"]}
      /\ stage' \in {stage, [stage EXCEPT ![s] = IF @ = "up" THEN "stopping" ELSE @]}
      /\ loop[s] = "reply"
  BY DEF Dispatch, Fail
<1> USE <1>1, <1>2, TunnelAssumption DEF TypeOK, CallInv, Has, Mine, history
<1>3. CASE handler' = handler /\ got[s] \notin Requests
  <2>1. GotInv'
    BY <1>3 DEF GotInv
  <2>2. (OneHas /\ FetchesFirst /\ RunAtMostOnce)'
    BY <1>3 DEF OneHas, FetchesFirst, RunAtMostOnce
  <2>3. (BeforeInv /\ ClaimedInv)'
    BY <1>3 DEF BeforeInv, ClaimedInv
  <2>4. (EndedInv /\ TurnedAwayNeverRan)'
    BY <1>3 DEF EndedInv, TurnedAwayNeverRan, NotRun
  <2> QED
    BY <2>1, <2>2, <2>3, <2>4
<1>4. CASE got[s] \in Requests /\ handler' = [handler EXCEPT ![s][got[s]] = "fetch"]
  <2>1. GotInv'
    BY <1>4 DEF GotInv, OneHas
  <2>2. (OneHas /\ FetchesFirst /\ RunAtMostOnce)'
    BY <1>4 DEF OneHas, FetchesFirst, RunAtMostOnce
  <2>3. (BeforeInv /\ ClaimedInv)'
    BY <1>4 DEF BeforeInv, ClaimedInv
  <2>4. (EndedInv /\ TurnedAwayNeverRan)'
    BY <1>4 DEF EndedInv, TurnedAwayNeverRan, NotRun
  <2> QED
    BY <2>1, <2>2, <2>3, <2>4
<1> QED
  BY <1>3, <1>4 DEF Dispatch

LEMMA HandleCall ==
  ASSUME TypeOK, CallInv, NEW s \in Sessions, NEW r \in Requests, Handle(s, r)
  PROVE  CallInv'
<1> USE DEF TypeOK, CallInv, Has, Mine, history, broker, Before, InFlight
<1>1. CASE Fetch(s, r)
  <2>1. /\ handler[s][r] = "fetch" /\ handler' = [handler EXCEPT ![s][r] = "respond"]
        /\ runs' \in {runs, [runs EXCEPT ![r] = runs[r] + 1]}
        /\ UNCHANGED <<route, pc, told, stage, loop, got, dropped>>
    BY <1>1 DEF Fetch
  <2> USE <2>1
  <2>2. runs[r] = 0 /\ Has(s, r)
    BY DEF FetchesFirst
  <2>3. (GotInv /\ OneHas)'
    BY <2>2 DEF GotInv, OneHas
  <2>6. FetchesFirst'
    BY <2>2 DEF FetchesFirst, OneHas, GotInv
  <2>7. RunAtMostOnce'
    <3>1. runs' = [runs EXCEPT ![r] = 1] \/ runs' = runs
      BY <2>2
    <3>2. \A q \in Requests : runs[q] <= 1
      BY DEF RunAtMostOnce
    <3>3. runs \in [Requests -> Nat]
      OBVIOUS
    <3> HIDE DEF TypeOK, CallInv
    <3> QED
      BY <3>1, <3>2, <3>3 DEF RunAtMostOnce
  <2>4. (BeforeInv /\ ClaimedInv)'
    BY <2>2 DEF BeforeInv, ClaimedInv
  <2>5. (EndedInv /\ TurnedAwayNeverRan)'
    BY <2>2 DEF EndedInv, TurnedAwayNeverRan, NotRun
  <2> QED
    BY <2>3, <2>4, <2>5, <2>6, <2>7
<1>2. CASE RespondFails(s, r) \/ Respond(s, r)
  <2>1. /\ handler[s][r] = "respond" /\ handler' = [handler EXCEPT ![s][r] = "none"]
        /\ UNCHANGED <<route, stage, loop, got, runs>>
    BY <1>2 DEF Respond, RespondFails
  <2>2. /\ dropped \subseteq dropped'
        /\ \/ UNCHANGED <<pc, told>> /\ (r \in InFlight /\ Mine(s) => r \in dropped')
           \/ /\ r \in InFlight /\ Mine(s) /\ dropped' = dropped
              /\ pc' = [pc EXCEPT ![r] = "record"] /\ told' = [told EXCEPT ![r] = "answered"]
    BY <1>2 DEF Respond, RespondFails, Goto
  <2> USE <2>1, <2>2
  <2>3. Has(s, r)
    OBVIOUS
  <2>4. (GotInv /\ OneHas /\ FetchesFirst /\ RunAtMostOnce)'
    BY DEF GotInv, OneHas, FetchesFirst, RunAtMostOnce
  <2>5. BeforeInv'
    BY <2>3 DEF BeforeInv
  <2>6. ClaimedInv'
    BY <2>3 DEF ClaimedInv
  <2>7. EndedInv'
    BY <2>3 DEF EndedInv, OneHas, GotInv
  <2>8. TurnedAwayNeverRan'
    BY <2>3 DEF TurnedAwayNeverRan, NotRun
  <2> QED
    BY <2>4, <2>5, <2>6, <2>7, <2>8
<1> QED
  BY <1>1, <1>2 DEF Handle

LEMMA CrashCall ==
  ASSUME TypeOK, CallInv, NEW s \in Sessions, Crash(s)
  PROVE  CallInv'
<1> USE TunnelAssumption DEF Crash, TypeOK, CallInv, Has, Mine, history, broker
<1>1. GotInv'
  BY DEF GotInv
<1>2. (OneHas /\ FetchesFirst /\ RunAtMostOnce)'
  BY DEF OneHas, FetchesFirst, RunAtMostOnce
<1>3. (BeforeInv /\ ClaimedInv)'
  BY DEF BeforeInv, ClaimedInv
<1>4. (EndedInv /\ TurnedAwayNeverRan)'
  BY DEF EndedInv, TurnedAwayNeverRan, NotRun
<1> QED
  BY <1>1, <1>2, <1>3, <1>4

LEMMA SessionCall ==
  ASSUME TypeOK, CallInv, NEW s \in Sessions,
         \/ Poll(s) \/ Dispatch(s) \/ Beat(s) \/ Interrupt(s) \/ Crash(s)
         \/ \E r \in Requests : Handle(s, r)
  PROVE  CallInv'
<1>1. CASE LoopTop(s) \/ Beat(s) \/ Interrupt(s)
  <2>1. GotInv'
    BY <1>1 DEF LoopTop, Beat, Interrupt, Fail, CallInv, GotInv, TypeOK, session
  <2> QED
    BY <1>1, <2>1, QuietCall
       DEF LoopTop, Beat, Interrupt, Fail, TypeOK, broker, session, history
<1>2. CASE ClaimRefused(s) \/ ClaimNothing(s)
  <2>1. PICK what \in {Nobody, Lost} :
          /\ loop[s] = "polling"
          /\ got' = [got EXCEPT ![s] = what] /\ loop' = [loop EXCEPT ![s] = "reply"]
          /\ UNCHANGED <<route, pc, told, stage, handler, history>>
    BY <1>2 DEF ClaimRefused, ClaimNothing, Answer, broker
  <2> USE <2>1, TunnelAssumption DEF TypeOK, CallInv, Has, Mine, history
  <2>2. GotInv'
    BY DEF GotInv
  <2>3. (OneHas /\ FetchesFirst /\ RunAtMostOnce)'
    BY DEF OneHas, FetchesFirst, RunAtMostOnce
  <2>4. (BeforeInv /\ ClaimedInv)'
    BY DEF BeforeInv, ClaimedInv, GotInv
  <2>5. (EndedInv /\ TurnedAwayNeverRan)'
    BY DEF EndedInv, TurnedAwayNeverRan, NotRun
  <2> QED
    BY <2>2, <2>3, <2>4, <2>5
<1> QED
  BY <1>1, <1>2, ClaimCall, PollFailsCall, DispatchCall, HandleCall, CrashCall DEF Poll

LEMMA CallStep == TypeOK /\ CallInv /\ [Next]_vars => CallInv'
<1>1. TypeOK /\ CallInv /\ Next => CallInv'
  BY ForwardCall, RouteCall, SessionCall DEF Next
<1>2. TypeOK /\ CallInv /\ UNCHANGED vars => CallInv'
  BY QuietCall DEF CallInv, GotInv, vars, history
<1> QED
  BY <1>1, <1>2

LEMMA CallCorrect == Spec => []CallInv
BY InitCall, CallStep, TypeCorrect, PTL DEF Spec

\* No request is run twice by the host, however its poll, its response or its
\* route are lost.
THEOREM RunOnce == Spec => []RunAtMostOnce
<1>1. CallInv => RunAtMostOnce
  BY DEF CallInv
<1> QED
  BY <1>1, CallCorrect, PTL

\* A request whose client was told that it was not run was not and will not be.
THEOREM TurnedAway == Spec => []TurnedAwayNeverRan
<1>1. CallInv => TurnedAwayNeverRan
  BY DEF CallInv
<1> QED
  BY <1>1, CallCorrect, PTL

----------------------------------------------------------------------------
\* A client is told once, and of what it was told nothing is lost later.
ToldOnce ==
  \A q \in Requests : told[q] # "none" =>
    told'[q] = told[q] /\ (q \in dropped' <=> q \in dropped)

\* The requests that are not told anything yet
LEMMA Untold ==
  ASSUME TypeOK, CallInv, NEW q \in Requests, pc[q] \in (Inside \ {"record"}) \cup {"idle"}
  PROVE  told[q] = "none"
BY DEF CallInv, BeforeInv, ClaimedInv, Before, Inside, Passed

LEMMA TellStep ==
  ASSUME TypeOK, CallInv, Next
  PROVE  ToldOnce
<1> USE Untold DEF TypeOK, ToldOnce, Inside, Passed, history
<1>1. ASSUME NEW r \in Requests, Refuse(r) \/ Enter(r) \/ Forward(r) PROVE ToldOnce
  <2>1. /\ dropped' = dropped
        /\ \/ told' = told
           \/ /\ pc[r] \in (Inside \ {"record"}) \cup {"idle"}
              /\ \E answer \in Answers : told' = [told EXCEPT ![r] = answer]
    BY <1>1 DEF Refuse, Enter, Forward, CheckQuota, CheckRoute, BodyFails, Enqueue, ClaimTimeout,
                ResponseTimeout, Record, Leave, Answers
  <2> QED
    BY <2>1
<1>2. ASSUME NEW s \in Sessions, Register(s) \/ Stop(s) PROVE ToldOnce
  <2>1. CASE Register(s)
    BY <2>1 DEF Register, FailAll, LeaveAll, InFlight
  <2>2. CASE Stop(s)
    BY <2>2 DEF Stop, CloseRoute, CloseFails, FailAll, LeaveAll, InFlight
  <2> QED
    BY <1>2, <2>1, <2>2
<1>3. ASSUME NEW s \in Sessions, Poll(s) \/ Dispatch(s) \/ Beat(s) \/ Interrupt(s) \/ Crash(s)
      PROVE  ToldOnce
  BY <1>3 DEF Poll, LoopTop, ClaimRefused, Claim, ClaimNothing, PollFails, Dispatch, Beat,
              Interrupt, Crash
<1>4. ASSUME NEW s \in Sessions, NEW r \in Requests, Handle(s, r) PROVE ToldOnce
  <2>1. \/ UNCHANGED <<told, dropped>>
        \/ /\ r \in InFlight
           /\ \/ told' = [told EXCEPT ![r] = "answered"] /\ dropped' = dropped
              \/ told' = told /\ dropped' \in {dropped, dropped \cup {r}}
    BY <1>4 DEF Handle, Fetch, Respond, RespondFails
  <2>2. r \in InFlight => told[r] = "none"
    BY DEF InFlight
  <2> QED
    BY <2>1, <2>2
<1>5. CASE Lapse \/ Expire \/ Restart
  BY <1>5 DEF Lapse, Expire, Restart
<1> QED
  BY <1>1, <1>2, <1>3, <1>4, <1>5 DEF Next

LEMMA RunStep ==
  ASSUME TypeOK, CallInv, Next
  PROVE  \/ runs' = runs
         \/ \E r \in Requests : /\ runs' = [runs EXCEPT ![r] = 1]
                              /\ runs[r] = 0 /\ ~NotRun(r) /\ told[r] # "answered"
                              /\ UNCHANGED <<told, dropped>>
<1> USE DEF history
<1>1. ASSUME NEW r \in Requests, Refuse(r) \/ Enter(r) \/ Forward(r) PROVE runs' = runs
  BY <1>1 DEF Refuse, Enter, Forward, CheckQuota, CheckRoute, BodyFails, Enqueue, ClaimTimeout,
              ResponseTimeout, Record
<1>2. ASSUME NEW s \in Sessions, Register(s) \/ Stop(s) PROVE runs' = runs
  BY <1>2 DEF Register, Stop, CloseRoute, CloseFails
<1>3. ASSUME NEW s \in Sessions, Poll(s) \/ Dispatch(s) \/ Beat(s) \/ Interrupt(s) \/ Crash(s)
      PROVE  runs' = runs
  BY <1>3 DEF Poll, LoopTop, ClaimRefused, Claim, ClaimNothing, PollFails, Dispatch, Beat,
              Interrupt, Crash
<1>4. CASE Lapse \/ Expire \/ Restart
  BY <1>4 DEF Lapse, Expire, Restart
<1>5. ASSUME NEW s \in Sessions, NEW r \in Requests, Respond(s, r) \/ RespondFails(s, r)
      PROVE  runs' = runs
  BY <1>5 DEF Respond, RespondFails
<1>6. ASSUME NEW s \in Sessions, NEW r \in Requests, Fetch(s, r)
      PROVE  \/ runs' = runs
             \/ /\ runs' = [runs EXCEPT ![r] = 1]
                /\ runs[r] = 0 /\ ~NotRun(r) /\ told[r] # "answered"
                /\ UNCHANGED <<told, dropped>>
  <2>1. handler[s][r] = "fetch" /\ UNCHANGED <<told, dropped>>
    BY <1>6 DEF Fetch
  <2>2. runs[r] = 0
    BY <2>1 DEF CallInv, FetchesFirst
  <2>3. runs' = runs \/ runs' = [runs EXCEPT ![r] = runs[r] + 1]
    BY <1>6 DEF Fetch
  <2>4. ~NotRun(r) /\ told[r] # "answered"
    BY <2>1 DEF CallInv, TurnedAwayNeverRan, EndedInv, Has
  <2> QED
    BY <2>1, <2>2, <2>3, <2>4
<1> QED
  BY <1>1, <1>2, <1>3, <1>4, <1>5, <1>6 DEF Next, Handle

LEMMA RelayStep ==
  ASSUME TypeOK, CallInv, CallInv', [Next]_vars
  PROVE  [RC!RNext]_<<runs, verdict>>
<1>1. CASE UNCHANGED vars
  BY <1>1 DEF vars, verdict, NotRun
<1>2. ASSUME Next, runs' = runs PROVE [RC!RNext]_<<runs, verdict>>
  <2> DEFINE S == {q \in Requests : told[q] = "none"}
  <2>1. ToldOnce
    BY <1>2, TellStep
  <2>2. \A q \in Requests \ S : verdict'[q] = verdict[q]
    BY <2>1 DEF ToldOnce, verdict, NotRun
  <2>3. \A q \in S : verdict[q] = "open"
    BY DEF verdict, NotRun
  <2>4. verdict' \in [Requests -> {"open", "answered", "notRun", "unknown"}]
    <3>1. \A q \in Requests : verdict[q]' \in {"open", "answered", "notRun", "unknown"}
      BY Zenon DEF verdict
    <3>2. verdict' = [q \in Requests |-> verdict[q]']
      BY DEF verdict
    <3> QED
      BY <3>1, <3>2
  <2>5. \A q \in S : verdict'[q] = "notRun" => runs[q] = 0
    BY <1>2 DEF verdict, CallInv, TurnedAwayNeverRan
  <2>6. RC!Tell(S)
    BY <1>2, <2>2, <2>3, <2>4, <2>5 DEF RC!Tell
  <2> QED
    BY <2>6 DEF RC!RNext
<1>3. ASSUME NEW r \in Requests, runs' = [runs EXCEPT ![r] = 1], UNCHANGED <<told, dropped>>,
             runs[r] = 0, ~NotRun(r), told[r] # "answered"
      PROVE  RC!Run(r)
  <2>1. verdict' = verdict
    BY <1>3 DEF verdict, NotRun
  <2>2. verdict[r] \in {"open", "unknown"}
    BY <1>3 DEF verdict
  <2> QED
    BY <1>3, <2>1, <2>2 DEF RC!Run
<1> QED
  BY <1>1, <1>2, <1>3, RunStep DEF RC!RNext

\* The tunnel implements a call that is run at most once and whose refusals are
\* final: each of its steps is a run, a verdict, or nothing to a client.
THEOREM RelayCallImplemented == Spec => ImplementsRelayCall
<1>1. ASSUME Init PROVE RC!RInit
  <2>1. \A r \in Requests : told[r] = "none"
    BY <1>1 DEF Init
  <2>2. \A r \in Requests : verdict[r] = "open"
    BY <2>1 DEF verdict, NotRun
  <2>3. verdict = [r \in Requests |-> verdict[r]]
    BY DEF verdict
  <2> QED
    BY <1>1, <2>2, <2>3 DEF Init, RC!RInit
<1>2. TypeOK /\ CallInv /\ CallInv' /\ [Next]_vars => [RC!RNext]_<<runs, verdict>>
  BY RelayStep
<1> QED
  BY <1>1, <1>2, TypeCorrect, CallCorrect, PTL DEF Spec, ImplementsRelayCall, RC!RSpec

----------------------------------------------------------------------------
\* The forwards the guards count, and those the quota let pass
Forwards == {r \in Requests : pc[r] \in Inside}
WaitForwards == {r \in Waits : pc[r] \in Inside}
Admitted == {r \in Requests : pc[r] \in Passed}

\* What passed the quota's check may still be recorded.
AdmittedInv == used + Cardinality(Admitted) <= Quota + Limit

GuardInv == GuardsBalanced /\ AdmittedInv

LEMMA Counted ==
  /\ IsFiniteSet(Forwards) /\ IsFiniteSet(WaitForwards) /\ IsFiniteSet(Admitted)
  /\ Cardinality(Forwards) \in Nat /\ Cardinality(WaitForwards) \in Nat
  /\ Cardinality(Admitted) \in Nat
  /\ Cardinality(Admitted) <= Cardinality(Forwards)
<1>1. Forwards \in SUBSET Requests /\ WaitForwards \in SUBSET Requests /\ Admitted \in SUBSET Forwards
  BY TunnelAssumption DEF Forwards, WaitForwards, Admitted, Inside
<1>2. Admitted \in SUBSET Requests
  BY <1>1
<1> QED
  BY <1>1, <1>2, SomeFinite, FS_Subset

LEMMA InitGuards == Init => GuardInv
<1> SUFFICES ASSUME Init PROVE GuardInv
  OBVIOUS
<1>1. Forwards = {} /\ WaitForwards = {} /\ Admitted = {}
  BY TunnelAssumption DEF Init, Forwards, WaitForwards, Admitted, Inside, Passed
<1>2. Cardinality(Forwards) = 0 /\ Cardinality(WaitForwards) = 0 /\ Cardinality(Admitted) = 0
  BY <1>1, FS_EmptySet
<1>3. total = 0 /\ waits = 0 /\ used = 0
  BY DEF Init
<1> QED
  BY <1>2, <1>3, TunnelAssumption DEF GuardInv, GuardsBalanced, AdmittedInv, Forwards, WaitForwards

\* Steps that let nobody in or out
LEMMA StayGuards ==
  ASSUME TypeOK, GuardInv, UNCHANGED <<guards, used>>,
         Forwards' = Forwards, WaitForwards' = WaitForwards, Admitted' = Admitted
  PROVE  GuardInv'
BY DEF GuardInv, GuardsBalanced, AdmittedInv, Forwards, WaitForwards, guards

\* The forwards of R leave, and one of them may be recorded.
LEMMA LeaveGuards ==
  ASSUME TypeOK, GuardInv, NEW R \in SUBSET Forwards,
         pc' = [r \in Requests |-> IF r \in R THEN "done" ELSE pc[r]],
         total' = Less(total, Cardinality(R)),
         waits' = Less(waits, Cardinality(R \cap Waits)),
         used' = used \/ (used' = used + 1 /\ R \cap Admitted # {})
  PROVE  GuardInv'
<1> USE DEF TypeOK
<1>1. /\ Forwards' = Forwards \ R /\ WaitForwards' = WaitForwards \ (R \cap Waits)
      /\ Admitted' = Admitted \ R
  BY TunnelAssumption DEF Forwards, WaitForwards, Admitted, Inside, Passed
<1>2. /\ Cardinality(Forwards') = Cardinality(Forwards) - Cardinality(Forwards \cap R)
      /\ Cardinality(WaitForwards') = Cardinality(WaitForwards) - Cardinality(WaitForwards \cap (R \cap Waits))
      /\ Cardinality(Admitted') = Cardinality(Admitted) - Cardinality(Admitted \cap R)
  BY <1>1, Counted, FS_Difference
<1>3. Forwards \cap R = R /\ WaitForwards \cap (R \cap Waits) = R \cap Waits
  BY DEF Forwards, WaitForwards
<1>4. /\ R \in SUBSET Requests /\ R \cap Waits \in SUBSET Requests
      /\ Admitted \cap R \in SUBSET Requests
  BY DEF Forwards
<1>5. /\ Cardinality(R) \in Nat /\ Cardinality(R \cap Waits) \in Nat
      /\ Cardinality(Admitted \cap R) \in Nat /\ IsFiniteSet(Admitted \cap R)
  BY <1>4, SomeFinite
<1>6. R \cap Admitted # {} => Cardinality(Admitted \cap R) >= 1
  <2>1. ASSUME R \cap Admitted # {} PROVE Cardinality(Admitted \cap R) # 0
    <3>1. Admitted \cap R # {}
      BY <2>1
    <3> QED
      BY <3>1, <1>5, FS_EmptySet
  <2> QED
    BY <2>1, <1>5
<1>7. Cardinality(Forwards') \in Nat /\ Cardinality(WaitForwards') \in Nat
  BY <1>1, Counted, FS_Difference, FS_CardinalityType
<1>8. total' = Cardinality(Forwards') /\ waits' = Cardinality(WaitForwards')
  <2>1. total = Cardinality(Forwards) /\ waits = Cardinality(WaitForwards)
    BY DEF GuardInv, GuardsBalanced, Forwards, WaitForwards
  <2> QED
    <3>1. ASSUME NEW n \in Nat, NEW k \in Nat, n - k \in Nat PROVE Less(n, k) = n - k
      BY <3>1 DEF Less
    <3>4. total \in Nat /\ waits \in Nat
      OBVIOUS
    <3>5. total - Cardinality(R) \in Nat /\ waits - Cardinality(R \cap Waits) \in Nat
      BY <2>1, <1>2, <1>3, <1>7
    <3> HIDE DEF TypeOK
    <3>2. total' = total - Cardinality(R)
      BY <3>1, <3>4, <3>5, <1>5
    <3>3. waits' = waits - Cardinality(R \cap Waits)
      BY <3>1, <3>4, <3>5, <1>5
    <3> QED
      BY <3>2, <3>3, <2>1, <1>2, <1>3
<1>9. GuardsBalanced'
  <2>1. total' <= total /\ waits' <= waits
    BY <1>5 DEF Less
  <2> QED
    BY <2>1, <1>8, TunnelAssumption DEF GuardInv, GuardsBalanced, Forwards, WaitForwards
<1>10. AdmittedInv'
  BY <1>2, <1>5, <1>6, Counted, TunnelAssumption DEF GuardInv, AdmittedInv
<1> QED
  BY <1>9, <1>10 DEF GuardInv

LEMMA OneLeaves ==
  ASSUME TypeOK, GuardInv, NEW r \in Forwards, Goto(r, "done"), Release(r),
         used' = used \/ (used' = used + 1 /\ r \in Admitted)
  PROVE  GuardInv'
<1>1. {r} \in SUBSET Forwards /\ r \in Requests
  BY DEF Forwards
<1>2. pc' = [q \in Requests |-> IF q \in {r} THEN "done" ELSE pc[q]]
  BY <1>1 DEF Goto, TypeOK
<1>3. total' = Less(total, Cardinality({r}))
  BY FS_Singleton DEF Release
<1>4. waits' = Less(waits, Cardinality({r} \cap Waits))
  <2>3. Less(waits, 0) = waits
    BY DEF Less, TypeOK
  <2>1. CASE r \in Waits
    <3>1. {r} \cap Waits = {r}
      BY <2>1
    <3> QED
      BY <2>1, <3>1, FS_Singleton DEF Release
  <2>2. CASE r \notin Waits
    <3>1. {r} \cap Waits = {}
      BY <2>2
    <3> QED
      BY <2>2, <3>1, <2>3, FS_EmptySet DEF Release
  <2> QED
    BY <2>1, <2>2
<1>5. used' = used \/ (used' = used + 1 /\ {r} \cap Admitted # {})
  OBVIOUS
<1> QED
  BY <1>1, <1>2, <1>3, <1>4, <1>5, LeaveGuards

LEMMA AllLeave ==
  ASSUME TypeOK, GuardInv, NEW answer, FailAll(answer), used' = used
  PROVE  GuardInv'
<1>1. InFlight \in SUBSET Forwards
  BY DEF InFlight, Forwards, Inside, Passed
<1> QED
  BY <1>1, LeaveGuards DEF FailAll, LeaveAll

\* A request that stays where the guards count it as they did
LEMMA MoveGuards ==
  ASSUME TypeOK, GuardInv, NEW r \in Requests, NEW point, Goto(r, point),
         pc[r] \in Inside <=> point \in Inside, pc[r] \in Passed <=> point \in Passed,
         UNCHANGED <<guards, used>>
  PROVE  GuardInv'
<1>1. \A q \in Requests :
        /\ (pc'[q] \in Inside) = (pc[q] \in Inside)
        /\ (pc'[q] \in Passed) = (pc[q] \in Passed)
  BY DEF Goto, TypeOK
<1>2. Forwards' = Forwards
  <2>1. \A q \in Requests : q \in Forwards' <=> q \in Forwards
    BY <1>1 DEF Forwards
  <2>2. Forwards \subseteq Requests /\ Forwards' \subseteq Requests
    BY DEF Forwards
  <2> QED
    BY <2>1, <2>2
<1>3. WaitForwards' = WaitForwards
  <2>1. WaitForwards = Waits \cap Forwards /\ WaitForwards' = Waits \cap Forwards'
    BY TunnelAssumption DEF WaitForwards, Forwards
  <2> QED
    BY <1>2, <2>1
<1>4. Admitted' = Admitted
  <2>1. \A q \in Requests : q \in Admitted' <=> q \in Admitted
    BY <1>1 DEF Admitted
  <2>2. Admitted \subseteq Requests /\ Admitted' \subseteq Requests
    BY DEF Admitted
  <2> QED
    BY <2>1, <2>2
<1> QED
  BY <1>2, <1>3, <1>4, StayGuards

LEMMA EnterGuards ==
  ASSUME TypeOK, GuardInv, NEW r \in Requests, Enter(r)
  PROVE  GuardInv'
<1>1. pc[r] = "idle" /\ pc' = [pc EXCEPT ![r] = "quota"] /\ used' = used
  BY DEF Enter, Goto
<1>2. Forwards' = Forwards \cup {r} /\ r \notin Forwards
  BY <1>1 DEF Forwards, Inside, Passed, TypeOK
<1>3. /\ WaitForwards' = IF r \in Waits THEN WaitForwards \cup {r} ELSE WaitForwards
      /\ r \notin WaitForwards
  BY <1>1, TunnelAssumption DEF WaitForwards, Inside, Passed, TypeOK
<1>4. Admitted' = Admitted
  BY <1>1 DEF Admitted, Passed, TypeOK
<1>5. /\ Cardinality(Forwards') = Cardinality(Forwards) + 1
      /\ Cardinality(WaitForwards') = IF r \in Waits THEN Cardinality(WaitForwards) + 1
                                                    ELSE Cardinality(WaitForwards)
  BY <1>2, <1>3, Counted, FS_AddElement
<1>6. /\ total' = total + 1 /\ total < Limit
      /\ waits' = IF r \in Waits THEN waits + 1 ELSE waits
      /\ r \in Waits => waits < WaitLimit
  BY TunnelAssumption DEF Enter, Full, TypeOK
<1>7. GuardsBalanced'
  BY <1>5, <1>6, TunnelAssumption DEF GuardInv, GuardsBalanced, Forwards, WaitForwards, TypeOK
<1>8. AdmittedInv'
  BY <1>1, <1>4 DEF GuardInv, AdmittedInv
<1> QED
  BY <1>7, <1>8 DEF GuardInv

\* The quota is checked: what it lets pass is within the guards.
LEMMA PassGuards ==
  ASSUME TypeOK, GuardInv, NEW r \in Requests, pc[r] = "quota", used <= Quota, Goto(r, "route"),
         UNCHANGED <<guards, used>>
  PROVE  GuardInv'
<1>1. pc' = [pc EXCEPT ![r] = "route"]
  BY DEF Goto
<1>2. Forwards' = Forwards /\ WaitForwards' = WaitForwards
  BY <1>1, TunnelAssumption DEF Forwards, WaitForwards, Inside, Passed, TypeOK
<1>3. GuardsBalanced'
  BY <1>2 DEF GuardInv, GuardsBalanced, Forwards, WaitForwards, guards
<1>4. Cardinality(Admitted') <= Cardinality(Forwards')
  BY <1>2, Counted, FS_Subset DEF Admitted, Forwards, Inside
<1>5. Cardinality(Forwards') <= Limit
  BY <1>3 DEF GuardsBalanced, Forwards
<1>6. IsFiniteSet(Admitted') /\ Cardinality(Admitted') \in Nat
  <2>1. Admitted' \in SUBSET Requests
    BY DEF Admitted
  <2> QED
    BY <2>1, SomeFinite
<1>7. AdmittedInv'
  BY <1>2, <1>4, <1>5, <1>6, Counted, TunnelAssumption DEF AdmittedInv, TypeOK
<1> QED
  BY <1>3, <1>7 DEF GuardInv

LEMMA ForwardGuards ==
  ASSUME TypeOK, GuardInv, NEW r \in Requests, Refuse(r) \/ Enter(r) \/ Forward(r)
  PROVE  GuardInv'
<1> USE DEF Inside, Passed
<1>a. pc[r] \in Inside => r \in Forwards
  BY DEF Forwards
<1>1. CASE Refuse(r)
  BY <1>1, MoveGuards DEF Refuse
<1>2. CASE Enter(r)
  BY <1>2, EnterGuards
<1>3. CASE CheckQuota(r)
  BY <1>3, <1>a, PassGuards, OneLeaves DEF CheckQuota, Leave
<1>4. CASE CheckRoute(r)
  BY <1>4, <1>a, MoveGuards, OneLeaves DEF CheckRoute, Leave
<1>5. CASE BodyFails(r)
  BY <1>5, <1>a, OneLeaves DEF BodyFails, Leave
<1>6. CASE Enqueue(r)
  BY <1>6, MoveGuards DEF Enqueue
<1>7. CASE ClaimTimeout(r)
  BY <1>7, <1>a, OneLeaves DEF ClaimTimeout, Leave
<1>8. CASE ResponseTimeout(r)
  BY <1>8, <1>a, OneLeaves DEF ResponseTimeout, Leave
<1>9. CASE Record(r)
  <2>1. r \in Admitted
    BY <1>9 DEF Record, Admitted
  <2> QED
    BY <1>9, <1>a, <2>1, OneLeaves DEF Record
<1> QED
  BY <1>1, <1>2, <1>3, <1>4, <1>5, <1>6, <1>7, <1>8, <1>9 DEF Forward

LEMMA RouteGuards ==
  ASSUME TypeOK, GuardInv, Lapse \/ Expire \/ Restart \/ \E s \in Sessions : Register(s) \/ Stop(s)
  PROVE  GuardInv'
<1>a. UNCHANGED <<pc, guards, used>> => GuardInv'
  BY StayGuards DEF Forwards, WaitForwards, Admitted
<1>1. CASE Lapse \/ Expire
  BY <1>1, <1>a DEF Lapse, Expire
<1>2. CASE Restart
  <2>1. \A r \in Requests : pc'[r] \notin Inside
    BY <1>2 DEF Restart, Inside, Passed
  <2>2. Forwards' = {} /\ WaitForwards' = {} /\ Admitted' = {}
    BY <2>1, TunnelAssumption DEF Forwards, WaitForwards, Admitted, Inside
  <2>3. /\ Cardinality(Forwards') = 0 /\ Cardinality(WaitForwards') = 0
        /\ Cardinality(Admitted') = 0
    BY <2>2, FS_EmptySet
  <2>4. total' = 0 /\ waits' = 0 /\ used' = used
    BY <1>2 DEF Restart
  <2>5. GuardsBalanced'
    BY <2>3, <2>4, TunnelAssumption DEF GuardsBalanced, Forwards, WaitForwards
  <2>6. AdmittedInv'
    BY <2>3, <2>4, Counted, TunnelAssumption DEF GuardInv, AdmittedInv, TypeOK
  <2> QED
    BY <2>5, <2>6 DEF GuardInv
<1>3. ASSUME NEW s \in Sessions, Register(s) PROVE GuardInv'
  BY <1>3, AllLeave DEF Register
<1>4. ASSUME NEW s \in Sessions, Stop(s) PROVE GuardInv'
  BY <1>4, <1>a, AllLeave DEF Stop, CloseRoute, CloseFails
<1> QED
  BY <1>1, <1>2, <1>3, <1>4

LEMMA SessionGuards ==
  ASSUME TypeOK, GuardInv, NEW s \in Sessions,
         \/ Poll(s) \/ Dispatch(s) \/ Beat(s) \/ Interrupt(s) \/ Crash(s)
         \/ \E r \in Requests : Handle(s, r)
  PROVE  GuardInv'
<1>a. UNCHANGED <<pc, guards, used>> => GuardInv'
  BY StayGuards DEF Forwards, WaitForwards, Admitted
<1>1. CASE LoopTop(s) \/ ClaimRefused(s) \/ ClaimNothing(s) \/ PollFails(s)
  BY <1>1, <1>a DEF LoopTop, ClaimRefused, ClaimNothing, PollFails
<1>2. CASE Claim(s)
  <2>1. PICK r \in Requests : pc[r] = "queued" /\ Goto(r, "claimed") /\ UNCHANGED <<guards, used>>
    BY <1>2, QueueParts DEF Claim
  <2> QED
    BY <2>1, MoveGuards DEF Inside, Passed
<1>3. CASE Dispatch(s) \/ Beat(s) \/ Interrupt(s) \/ Crash(s)
  BY <1>3, <1>a DEF Dispatch, Beat, Interrupt, Crash
<1>4. ASSUME NEW r \in Requests, Fetch(s, r) \/ RespondFails(s, r) PROVE GuardInv'
  BY <1>4, <1>a DEF Fetch, RespondFails
<1>5. ASSUME NEW r \in Requests, Respond(s, r) PROVE GuardInv'
  BY <1>5, <1>a, MoveGuards DEF Respond, InFlight, Inside, Passed
<1> QED
  BY <1>1, <1>2, <1>3, <1>4, <1>5 DEF Poll, Handle

LEMMA GuardsCorrect == Spec => []GuardInv
<1>1. TypeOK /\ GuardInv /\ Next => GuardInv'
  BY ForwardGuards, RouteGuards, SessionGuards DEF Next
<1>2. TypeOK /\ GuardInv /\ UNCHANGED vars => GuardInv'
  BY StayGuards DEF vars, guards, Forwards, WaitForwards, Admitted
<1> QED
  BY <1>1, <1>2, InitGuards, TypeCorrect, PTL DEF Spec

\* The guards count the forwards that are in the broker, whichever way each of
\* them leaves, and keep to their limits.
THEOREM Balanced == Spec => []GuardsBalanced
<1>1. GuardInv => GuardsBalanced
  BY DEF GuardInv
<1> QED
  BY <1>1, GuardsCorrect, PTL

\* The quota is overshot by no more than the guards let run at once.
THEOREM QuotaOvershoot == Spec => []QuotaNearlyKept
<1>1. TypeOK /\ GuardInv => QuotaNearlyKept
  BY Counted, TunnelAssumption DEF GuardInv, AdmittedInv, QuotaNearlyKept, TypeOK
<1> QED
  BY <1>1, TypeCorrect, GuardsCorrect, PTL
==============================================================================
