--------------------------- MODULE LoopGuard_proofs ---------------------------
(***************************************************************************)
(* What the loop guard keeps for every number of agents, of concurrent     *)
(* requests and of timers, and for every limit.                            *)
(***************************************************************************)
EXTENDS LoopGuard, FiniteSetTheorems, TLAPS

USE GuardAssumption

LEMMA SlotCount ==
  ASSUME NEW S \in SUBSET Slots
  PROVE  IsFiniteSet(S) /\ Cardinality(S) \in Nat
  BY FS_Subset, FS_CardinalityType

LEMMA ClearedType == TypeOK => Cleared \in [Timers -> Phases]
  BY DEF TypeOK, Cleared, Phases

LEMMA ClearType ==
  ASSUME TypeOK, ClearCounts
  PROVE  counts' \in [Agents -> 0 .. MaxCount] /\ budget' \in [Agents -> Int]
<1>1. \A a \in Agents : Limit + Cardinality(OnTheirWay(a)) \in Int
  BY SlotCount DEF OnTheirWay
<1> QED
  BY <1>1 DEF ClearCounts

LEMMA TypeStep == TypeOK /\ [Next]_vars => TypeOK'
<1> SUFFICES ASSUME TypeOK, [Next]_vars PROVE TypeOK'
  OBVIOUS
<1> USE DEF TypeOK, Goto, Answer, Points, Phases, Authors, room, request, history
<1>1. ASSUME NEW s \in Slots, Post(s) PROVE TypeOK'
  <2>1. CASE PostArrives(s) \/ AgentPaused(s) \/ ReadPreference(s) \/ AlreadyPending(s)
    BY <2>1 DEF PostArrives, AgentPaused, ReadPreference, AlreadyPending
  <2>2. CASE RefuseExpired(s)
    BY <2>2, ClearedType DEF RefuseExpired, CancelPending
  <2>3. CASE HumanPosts(s)
    BY <2>3, ClearedType, ClearType DEF HumanPosts, PassesCheck, CancelPending
  <2>4. CASE AgentCounted(s)
    BY <2>4 DEF AgentCounted, PassesCheck
  <2>5. CASE Schedule(s)
    BY <2>5 DEF Schedule
  <2>6. CASE AppendPost(s)
    BY <2>6 DEF AppendPost
  <2> QED
    BY <1>1, <2>1, <2>2, <2>3, <2>4, <2>5, <2>6 DEF Post
<1>2. ASSUME NEW s \in Slots, Host(s) PROVE TypeOK'
  BY <1>2, ClearedType
     DEF Host, WritePreference, UpdateLoopGuardPreference, CancelDisabled, CloseArrives,
         CloseRoom, CancelPending
<1>3. ASSUME NEW t \in Timers, Complete(t) PROVE TypeOK'
  <2>1. CASE Fire(t) \/ ReadRoom(t) \/ GiveUp(t) \/ AppendApproval(t)
    BY <2>1 DEF Fire, ReadRoom, GiveUp, AppendApproval
  <2>2. CASE ReadRoomFails(t) \/ DropClosed(t)
    BY <2>2, ClearedType DEF ReadRoomFails, DropClosed
  <2>3. CASE Approve(t)
    BY <2>3, ClearType DEF Approve
  <2> QED
    BY <1>3, <2>1, <2>2, <2>3 DEF Complete
<1>4. CASE Expire \/ Shutdown
  BY <1>4, ClearedType DEF Expire, Shutdown, CancelPending
<1>5. CASE UNCHANGED vars
  BY <1>5 DEF vars
<1> QED
  BY <1>1, <1>2, <1>3, <1>4, <1>5 DEF Next

\* Every variable of the guard keeps its type; counts stay within their bound.
THEOREM TypeCorrect == Spec => []TypeOK
<1>1. Init => TypeOK
  <2> SUFFICES ASSUME Init PROVE TypeOK
    OBVIOUS
  <2>1. counts \in [Agents -> 0 .. MaxCount] /\ budget \in [Agents -> Int]
    BY DEF Init

   <2>2. timer \in [Timers -> Phases] /\ pc \in [Slots -> Points] /\ author \in [Slots -> Authors]
    BY DEF Init, Phases, Points, Authors
  <2> QED
    BY <2>1, <2>2 DEF Init, TypeOK
<1> QED
  BY <1>1, TypeStep, PTL DEF Spec

------------------------------------------------------------------------------
LEMMA PendingStep == TypeOK /\ PendingHasTimer /\ [Next]_vars => PendingHasTimer'
<1> SUFFICES ASSUME TypeOK, PendingHasTimer, [Next]_vars PROVE PendingHasTimer'
  OBVIOUS
<1> USE DEF PendingHasTimer, TypeOK
<1>1. ASSUME NEW s \in Slots, Post(s) \/ Host(s) PROVE PendingHasTimer'
  BY <1>1 DEF Post, PostArrives, RefuseExpired, HumanPosts, AgentPaused, AgentCounted,
              ReadPreference, AlreadyPending, Schedule, AppendPost, Host, WritePreference,
              UpdateLoopGuardPreference,
              CancelDisabled, CloseArrives, CloseRoom, CancelPending
<1>2. ASSUME NEW t \in Timers, Complete(t) PROVE PendingHasTimer'
  BY <1>2 DEF Complete, Fire, ReadRoom, ReadRoomFails, GiveUp, DropClosed, Approve,
              AppendApproval
<1> QED
  BY <1>1, <1>2 DEF Next, Expire, Shutdown, CancelPending, vars

\* A pause always has its timer, or the callback that ends it: what the liveness
\* of the guard rests on.
THEOREM PauseHasTimer == Spec => []PendingHasTimer
<1>1. Init => PendingHasTimer
  BY DEF Init, PendingHasTimer
<1> QED
  BY <1>1, PendingStep, TypeCorrect, PTL DEF Spec

------------------------------------------------------------------------------
\* How many more posts of the agent the guard would let pass before a reset
Left(a) == IF counts[a] <= Limit THEN Limit - counts[a] ELSE 0

\* What an agent may still add covers its posts on their way and those the guard
\* would still let pass.
BudgetInv == \A a \in Agents : budget[a] >= Cardinality(OnTheirWay(a)) + Left(a)

\* A reset leaves exactly that much.
LEMMA ClearBudget ==
  ASSUME TypeOK, ClearCounts,
         \A a \in Agents : OnTheirWay(a)' = OnTheirWay(a)
  PROVE  BudgetInv'
<1> SUFFICES ASSUME NEW a \in Agents
             PROVE  budget'[a] >= Cardinality(OnTheirWay(a)') + Left(a)'
  BY DEF BudgetInv
<1>1. Cardinality(OnTheirWay(a)) \in Nat
  BY SlotCount DEF OnTheirWay
<1>2. budget'[a] = Limit + Cardinality(OnTheirWay(a)) /\ counts'[a] = 0
  BY DEF ClearCounts
<1> QED
  BY <1>1, <1>2 DEF Left

LEMMA BudgetStep == TypeOK /\ BudgetInv /\ [Next]_vars => BudgetInv'
<1> SUFFICES ASSUME TypeOK, BudgetInv, [Next]_vars PROVE BudgetInv'
  OBVIOUS
<1>0. \A a \in Agents : /\ budget[a] \in Int /\ counts[a] \in Nat
                        /\ IsFiniteSet(OnTheirWay(a)) /\ Cardinality(OnTheirWay(a)) \in Nat
                        /\ Left(a) \in Nat
  BY SlotCount DEF OnTheirWay, TypeOK, Left
<1>1. ASSUME UNCHANGED <<budget, counts>>,
             \A a \in Agents : OnTheirWay(a)' = OnTheirWay(a)
      PROVE  BudgetInv'
  BY <1>1 DEF BudgetInv, Left
<1>2. ASSUME NEW s \in Slots, HumanPosts(s) PROVE BudgetInv'
  <2>1. \A a \in Agents : OnTheirWay(a)' = OnTheirWay(a)
    BY <1>2 DEF HumanPosts, PassesCheck, Goto, OnTheirWay, TypeOK
  <2> QED
    BY <1>2, <2>1, ClearBudget DEF HumanPosts
<1>3. ASSUME NEW t \in Timers, Approve(t) PROVE BudgetInv'
  <2>1. \A a \in Agents : OnTheirWay(a)' = OnTheirWay(a)
    BY <1>3 DEF Approve, OnTheirWay, request
  <2> QED
    BY <1>3, <2>1, ClearBudget DEF Approve
<1>4. ASSUME NEW s \in Slots, AgentCounted(s) PROVE BudgetInv'
  <2>0. PICK b \in Agents : b = author[s]
    BY <1>4 DEF AgentCounted, PassesCheck
  <2>1. /\ author[s] = b /\ pc[s] = "guard" /\ author' = author /\ budget' = budget
        /\ counts' = [counts EXCEPT ![b] = counts[b] + 1]
        /\ pc' = [pc EXCEPT ![s] = IF counts[b] + 1 <= Limit THEN "append" ELSE "pref"]
    BY <1>4, <2>0 DEF AgentCounted, PassesCheck, Goto, history
  <2>2. ASSUME NEW a \in Agents, a # b
        PROVE  budget'[a] >= Cardinality(OnTheirWay(a)') + Left(a)'
    <3>1. OnTheirWay(a)' = OnTheirWay(a) /\ counts'[a] = counts[a]
      BY <2>1, <2>2 DEF OnTheirWay, TypeOK
    <3> QED
      BY <2>1, <3>1 DEF BudgetInv, Left
  <2>3. CASE counts[b] + 1 <= Limit
    <3>1. OnTheirWay(b)' = OnTheirWay(b) \cup {s} /\ s \notin OnTheirWay(b)
      BY <2>1, <2>3 DEF OnTheirWay, TypeOK
    <3>2. Cardinality(OnTheirWay(b)') = Cardinality(OnTheirWay(b)) + 1
      BY <1>0, <2>1, <3>1, FS_AddElement
    <3>3. counts'[b] = counts[b] + 1 /\ budget[b] >= Cardinality(OnTheirWay(b)) + Left(b)
      BY <2>1 DEF TypeOK, BudgetInv
    <3>4. Left(b) = Limit - counts[b] /\ Left(b)' = Limit - (counts[b] + 1)
      BY <1>0, <2>1, <2>3, <3>3 DEF Left
    <3>5. budget'[b] >= Cardinality(OnTheirWay(b)') + Left(b)'
      BY <1>0, <2>1, <3>2, <3>3, <3>4
    <3> QED
      BY <2>2, <3>5 DEF BudgetInv
  <2>4. CASE ~(counts[b] + 1 <= Limit)
    <3>1. OnTheirWay(b)' = OnTheirWay(b)
      BY <2>1, <2>4 DEF OnTheirWay, TypeOK
    <3>2. counts'[b] = counts[b] + 1 /\ budget[b] >= Cardinality(OnTheirWay(b)) + Left(b)
      BY <2>1 DEF TypeOK, BudgetInv
    <3>3. Left(b)' = 0
      BY <1>0, <2>1, <2>4, <3>2 DEF Left
    <3>4. budget'[b] >= Cardinality(OnTheirWay(b)') + Left(b)'
      BY <1>0, <2>1, <3>1, <3>2, <3>3
    <3> QED
      BY <2>2, <3>4 DEF BudgetInv
  <2> QED
    BY <2>3, <2>4
<1>5. ASSUME NEW s \in Slots, AppendPost(s) PROVE BudgetInv'
  <2> DEFINE b == author[s]
  <2>1. /\ pc[s] = "append" /\ counts' = counts
        /\ pc' = [pc EXCEPT ![s] = "idle"] /\ author' = [author EXCEPT ![s] = Human]
        /\ \/ b \in Agents /\ budget' = [budget EXCEPT ![b] = budget[b] - 1]
           \/ budget' = budget
    BY <1>5 DEF AppendPost, Answer
  <2> SUFFICES ASSUME NEW a \in Agents
               PROVE  budget'[a] >= Cardinality(OnTheirWay(a)') + Left(a)'
    BY DEF BudgetInv
  <2>2. budget[a] >= Cardinality(OnTheirWay(a)) + Left(a) /\ Left(a)' = Left(a)
    BY <2>1 DEF BudgetInv, Left
  <2>3. CASE a = b
    <3>1. OnTheirWay(a)' = OnTheirWay(a) \ {s} /\ s \in OnTheirWay(a)
      BY <2>1, <2>3 DEF OnTheirWay, TypeOK
    <3>2. Cardinality(OnTheirWay(a)') = Cardinality(OnTheirWay(a)) - 1
      BY <1>0, <3>1, FS_RemoveElement
    <3>3. budget'[a] >= budget[a] - 1
      BY <1>0, <2>1, <2>3 DEF TypeOK
    <3>4. budget'[a] \in Int
      BY TypeStep DEF TypeOK
    <3> QED
      BY <1>0, <2>2, <3>2, <3>3, <3>4
  <2>4. CASE a # b
    <3>1. OnTheirWay(a)' = OnTheirWay(a) /\ budget'[a] = budget[a]
      BY <2>1, <2>4 DEF OnTheirWay, TypeOK
    <3> QED
      BY <2>2, <3>1
  <2> QED
    BY <2>3, <2>4
<1>6. ASSUME NEW s \in Slots,
             \/ PostArrives(s) \/ RefuseExpired(s) \/ AgentPaused(s) \/ ReadPreference(s)
             \/ AlreadyPending(s) \/ Schedule(s) \/ Host(s)
      PROVE  BudgetInv'
  <2>1. UNCHANGED <<budget, counts>>
    BY <1>6 DEF PostArrives, RefuseExpired, AgentPaused, ReadPreference, AlreadyPending,
                Schedule,
                Host, WritePreference, UpdateLoopGuardPreference, CancelDisabled,
                CloseArrives, CloseRoom, history
  <2>2. /\ pc[s] # "append" /\ pc'[s] # "append"
        /\ \A r \in Slots \ {s} : pc'[r] = pc[r] /\ author'[r] = author[r]
    BY <1>6 DEF PostArrives, RefuseExpired, AgentPaused, PassesCheck, ReadPreference,
                AlreadyPending,
                Schedule, Host, WritePreference, UpdateLoopGuardPreference, CancelDisabled,
                CloseArrives, CloseRoom,
                Goto, Answer, TypeOK
  <2>3. \A a \in Agents : OnTheirWay(a)' = OnTheirWay(a)
    BY <2>2 DEF OnTheirWay
  <2> QED
    BY <1>1, <2>1, <2>3
<1>7. ASSUME UNCHANGED <<budget, counts, pc, author>> PROVE BudgetInv'
  BY <1>1, <1>7 DEF OnTheirWay
<1>8. ASSUME NEW t \in Timers,
             \/ Fire(t) \/ ReadRoom(t) \/ ReadRoomFails(t) \/ GiveUp(t) \/ DropClosed(t)
             \/ AppendApproval(t)
      PROVE  BudgetInv'
  BY <1>7, <1>8 DEF Fire, ReadRoom, ReadRoomFails, GiveUp, DropClosed, AppendApproval,
                    request, history
<1> QED
  BY <1>2, <1>3, <1>4, <1>5, <1>6, <1>7, <1>8
     DEF Next, Post, Complete, Expire, Shutdown, request, history, vars

\* enforceLoopGuard bounds what an agent adds between two resets, however many
\* posts it has in flight.
THEOREM RunIsBounded == Spec => []RunBounded
<1>1. Init => BudgetInv
  <2>1. Init => \A a \in Agents : OnTheirWay(a) = {}
    BY DEF Init, OnTheirWay
  <2> QED
    BY <2>1, FS_EmptySet DEF Init, BudgetInv, Left
<1>2. TypeOK /\ BudgetInv => RunBounded
  <2> SUFFICES ASSUME TypeOK, BudgetInv, NEW a \in Agents
               PROVE  budget[a] >= Cardinality(OnTheirWay(a))
    BY DEF RunBounded
  <2>1. budget[a] \in Int /\ Cardinality(OnTheirWay(a)) \in Nat /\ Left(a) \in Nat
    BY SlotCount DEF OnTheirWay, TypeOK, Left
  <2> QED
    BY <2>1 DEF BudgetInv
<1> QED
  BY <1>1, <1>2, BudgetStep, TypeCorrect, PTL DEF Spec
===============================================================================
