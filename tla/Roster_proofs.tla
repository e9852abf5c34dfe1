----------------------------- MODULE Roster_proofs -----------------------------
(***************************************************************************)
(* What the writer lock gives the roster and the brief for any number of     *)
(* participants, sessions and concurrent requests and commands.             *)
(***************************************************************************)
EXTENDS Roster, FiniteSetTheorems, TLAPS

USE RosterAssumption

Writing == {"write", "file", "meta"}

\* What a request does fits the place it is at.
KindInv ==
  \A r \in Requests :
    /\ req[r].at = "lock" => req[r].kind # "none"
    /\ req[r].at = "check" => req[r].kind = "profile"
    /\ req[r].at = "write" => req[r].kind \notin {"none", "brief"}

\* The lock's owner is the request that is past TakeLock.
LockInv == \A r \in Requests : req[r].at \in Writing <=> lock = r

\* What the owner read is still what is there.
HeldInv == lock # None => held = [roster |-> roster, version |-> brief.version]

\* Between the two writes of a brief its text is the request's.
BodyInv == \A r \in Requests : req[r].at = "meta" => brief.file = req[r].text

\* As long as a session attends unwarned, the record attends and bears the marker
\* of a session that attends.
SessionInv ==
  \A a \in Aliases : quiet[a] # {} =>
    /\ roster[a].attention = "attending" /\ a \in recent
    /\ roster[a].session \in quiet[a] \cup warned[a]

\* At most one session attends unwarned.
OneQuiet == \A a \in Aliases : \A s, t \in quiet[a] : s = t

IInv ==
  /\ TypeOK /\ KindInv /\ LockInv /\ HeldInv /\ BodyInv
  /\ SessionInv /\ OneQuiet /\ InviteKept /\ BriefSettled

----------------------------------------------------------------------------
\* Pure parts

LEMMA MinOfModes ==
  ASSUME NEW S \in SUBSET Modes, S # {}
  PROVE  Min(S) \in S
<1>1. \E x \in S : \A y \in S : x =< y
  <2>1. CASE 0 \in S
    BY <2>1 DEF Modes
  <2>2. CASE 0 \notin S /\ 1 \in S
    BY <2>2 DEF Modes
  <2>3. CASE 0 \notin S /\ 1 \notin S /\ 2 \in S
    BY <2>3 DEF Modes
  <2>4. CASE 0 \notin S /\ 1 \notin S /\ 2 \notin S
    <3>1. S \subseteq {3}
      BY <2>4 DEF Modes
    <3>2. 3 \in S
      <4>1. PICK x : x \in S
        OBVIOUS
      <4> QED
        BY <3>1, <4>1
    <3>3. \A y \in S : y = 3
      BY <3>1
    <3> QED
      BY <3>2, <3>3
  <2> QED
    BY <2>1, <2>2, <2>3, <2>4 DEF Modes
<1> QED
  BY <1>1 DEF Min

\* negotiateEffectiveMode finds a mode that was declared and is no more than what
\* was asked for, or the manual floor.
LEMMA NegotiateWithin ==
  ASSUME NEW S \in SUBSET Modes, NEW m \in Modes
  PROVE  /\ Negotiate(S, m) \in S \cup {Manual} /\ Negotiate(S, m) \in Modes
         /\ Negotiate(S, m) >= m
<1>1. CASE {x \in S : x >= m} = {}
  BY <1>1 DEF Negotiate, Manual, Modes
<1>2. CASE {x \in S : x >= m} # {}
  <2>1. Min({x \in S : x >= m}) \in {x \in S : x >= m}
    BY <1>2, MinOfModes
  <2> QED
    BY <1>2, <2>1 DEF Negotiate
<1> QED
  BY <1>1, <1>2

LEMMA NewType ==
  ASSUME NEW a \in Aliases, NEW t \in 0 .. MaxInvites, NEW c \in Modes
  PROVE  NewRecord(a, t, c) \in Records
  BY DEF NewRecord, Records, Names

LEMMA NoRequestType == NoRequest \in RequestSet
  BY NewType DEF NoRequest, RequestSet, Modes, Names

\* What a declaration leaves of a record
LEMMA DeclaredType ==
  ASSUME NEW rec \in Records, NEW o \in Offers \cup {None}
  PROVE  /\ Declared(rec, o) \in Records
         /\ Declared(rec, o).token = rec.token /\ Declared(rec, o).session = rec.session
         /\ Declared(rec, o).attention = rec.attention
<1> DEFINE S == IF o = None THEN rec.supported ELSE o
<1>1. S \in SUBSET Modes /\ rec.requested \in Modes
  BY DEF Records, Modes
<1>2. Negotiate(S, rec.requested) \in Modes
  BY <1>1, NegotiateWithin
<1>3. Declared(rec, o) = [rec EXCEPT !.supported = S,
                                     !.effective = Negotiate(S, rec.requested)]
  BY DEF Declared
<1> HIDE DEF S
<1> DEFINE m == Negotiate(S, rec.requested)
<1>4. m \in Modes
  BY <1>2
<1>5. Declared(rec, o) = [rec EXCEPT !.supported = S, !.effective = m]
  BY <1>3
<1> HIDE DEF m
<1>6. Declared(rec, o) \in Records
  <2> DEFINE half == [rec EXCEPT !.supported = S]
  <2>1. half \in Records
    BY <1>1 DEF Records, Modes
  <2>2. Declared(rec, o) = [half EXCEPT !.effective = m]
    BY <1>5
  <2> HIDE DEF half
  <2> QED
    BY <1>4, <2>1, <2>2 DEF Records
<1> QED
  BY <1>5, <1>6 DEF Records

\* What a request makes of a record keeps the token, and but for a join the marker.
LEMMA ChangedType ==
  ASSUME NEW q \in RequestSet, q.kind \notin {"none", "brief"}
  PROVE  /\ Changed(q) \in Records
         /\ Changed(q).token = q.copy.token
         /\ q.kind # "join" \/ q.session = None => Changed(q).session = q.copy.session
         /\ q.kind = "join" /\ q.session # None => Changed(q).session = q.session
<1>0. q.copy \in Records /\ q.offer \in Offers \cup {None} /\ q.name \in Names
  BY DEF RequestSet
<1>1. CASE q.kind \in {"read", "wait", "leave"}
  BY <1>0, <1>1 DEF Changed, Touched, Records
<1>2. CASE q.kind = "profile"
  <2>1. [q.copy EXCEPT !.name = q.name] \in Records
    BY <1>0 DEF Records
  <2>2. Changed(q) = Declared([q.copy EXCEPT !.name = q.name], q.offer)
    BY <1>2 DEF Changed, Profiled
  <2> QED
    BY <1>0, <1>2, <2>1, <2>2, DeclaredType DEF Records
<1>3. CASE q.kind = "join"
  <2> DEFINE rec == [q.copy EXCEPT !.attention = "attending",
                                   !.session = IF q.session = None THEN @ ELSE q.session]
  <2>1. /\ rec \in Records /\ rec.token = q.copy.token
        /\ rec.session = IF q.session = None THEN q.copy.session ELSE q.session
    BY <1>0 DEF Records, RequestSet
  <2>2. Changed(q) = Declared(rec, q.offer)
    BY <1>3 DEF Changed, JoinedAs
  <2> HIDE DEF rec
  <2> QED
    BY <1>0, <1>3, <2>1, <2>2, DeclaredType
<1>4. CASE q.kind = "invite"
  BY <1>0, <1>4 DEF Changed
<1> QED
  BY <1>1, <1>2, <1>3, <1>4 DEF RequestSet

----------------------------------------------------------------------------
\* Types

LEMMA InitType == Init => TypeOK
<1> SUFFICES ASSUME Init PROVE TypeOK
  OBVIOUS
<1>1. roster \in [Aliases -> Records]
  BY NewType DEF Init, Modes
<1>2. \A a \in Aliases : roster[a].token \in 0 .. MaxInvites
  BY <1>1 DEF Records
<1>3. req \in [Requests -> RequestSet]
  BY NoRequestType DEF Init
<1>4. held \in [roster : [Aliases -> Records], version : Nat]
  BY <1>1 DEF Init
<1>5. issued \in [Aliases -> 0 .. MaxInvites]
  BY <1>2 DEF Init
<1>6. /\ recent \subseteq Aliases /\ lock \in Requests \cup {None}
      /\ brief \in [file : Nat, version : Nat, stamp : Nat]
  BY DEF Init
<1>7. served \in 0 .. MaxServed /\ updates \in Nat
  BY DEF Init
<1>9. lost \subseteq Aliases /\ torn \in BOOLEAN
  BY DEF Init
<1>8. quiet \in [Aliases -> SUBSET Sessions] /\ warned \in [Aliases -> SUBSET Sessions]
  BY DEF Init
<1> QED
  BY <1>1, <1>3, <1>4, <1>5, <1>6, <1>7, <1>8, <1>9 DEF TypeOK

LEMMA AuthenticatedType ==
  ASSUME TypeOK, NEW a \in Aliases,
         NEW kind \in {"read", "wait", "leave", "profile", "join", "invite", "brief"},
         NEW at \in {"check", "lock"}
  PROVE  Authenticated(a, kind, at) \in RequestSet
<1>1. roster[a] \in Records
  BY DEF TypeOK
<1>2. Authenticated(a, kind, at) =
        [NoRequest EXCEPT !.at = at, !.kind = kind, !.who = a, !.copy = roster[a]]
  BY DEF Authenticated
<1> DEFINE half == [NoRequest EXCEPT !.at = at, !.kind = kind]
<1>3. half \in RequestSet
  BY NoRequestType DEF RequestSet
<1>4. Authenticated(a, kind, at) = [half EXCEPT !.who = a, !.copy = roster[a]]
  BY <1>2
<1> HIDE DEF half
<1> QED
  BY <1>1, <1>3, <1>4 DEF RequestSet

\* What a request may start from
Copies == {roster[a] : a \in Aliases}
          \cup {NewRecord(a, t, c) : a \in Aliases, t \in 0 .. MaxInvites, c \in Modes}

\* The requests that begin
Begins(r) ==
  \/ Read(r) \/ Wait(r) \/ Leave(r) \/ LeaveAtHost(r) \/ PostProfile(r) \/ PostJoin(r)
  \/ PostBrief(r) \/ UpdateBriefDirect(r) \/ Invite(r)

LEMMA Begun ==
  ASSUME TypeOK, NEW r \in Requests, Begins(r)
  PROVE  \E q \in RequestSet :
           /\ Begin(r, q) /\ q.at \in {"check", "lock"} /\ q.kind # "none"
           /\ q.at = "check" => q.kind = "profile"
           /\ q.copy \in Copies
<1>0. Known \subseteq Aliases /\ served + 1 \in Nat /\ brief.stamp \in Nat
  BY DEF Known, TypeOK
<1>1. CASE Read(r) \/ Wait(r) \/ Leave(r) \/ LeaveAtHost(r)
  <2>1. PICK a \in Aliases, kind \in {"read", "wait", "leave"} :
          Begin(r, Authenticated(a, kind, "lock"))
    BY <1>0, <1>1 DEF Read, Wait, Leave, LeaveAtHost
  <2>2. /\ Authenticated(a, kind, "lock").at = "lock" /\ Authenticated(a, kind, "lock").kind = kind
        /\ Authenticated(a, kind, "lock").copy \in Copies
    BY DEF Authenticated, NoRequest, Copies
  <2> QED
    BY <2>1, <2>2, AuthenticatedType
<1>2. CASE PostProfile(r)
  <2>1. PICK a \in Aliases, n \in Names, o \in Offers \cup {None} :
          Begin(r, [Authenticated(a, "profile", "check") EXCEPT !.name = n, !.offer = o])
    BY <1>0, <1>2 DEF PostProfile
  <2>0. Authenticated(a, "profile", "check") \in RequestSet
    BY AuthenticatedType
  <2> DEFINE q == [Authenticated(a, "profile", "check") EXCEPT !.name = n, !.offer = o]
  <2>2. q \in RequestSet
    BY <2>0 DEF RequestSet
  <2>3. q.at = "check" /\ q.kind = "profile" /\ q.copy \in Copies
    BY DEF Authenticated, NoRequest, Copies
  <2> HIDE DEF q
  <2> QED
    BY <2>1, <2>2, <2>3 DEF q
<1>3. CASE PostJoin(r)
  <2>1. PICK a \in Aliases, o \in Offers \cup {None}, s \in Sessions \cup {None} :
          Begin(r, [Authenticated(a, "join", "lock") EXCEPT !.offer = o, !.session = s])
    BY <1>0, <1>3 DEF PostJoin
  <2>0. Authenticated(a, "join", "lock") \in RequestSet
    BY AuthenticatedType
  <2> DEFINE q == [Authenticated(a, "join", "lock") EXCEPT !.offer = o, !.session = s]
  <2>2. q \in RequestSet
    BY <2>0 DEF RequestSet
  <2>3. q.at = "lock" /\ q.kind = "join" /\ q.copy \in Copies
    BY DEF Authenticated, NoRequest, Copies
  <2> HIDE DEF q
  <2> QED
    BY <2>1, <2>2, <2>3 DEF q
<1>4. CASE PostBrief(r) \/ UpdateBriefDirect(r)
  <2>1. PICK t \in Nat : Begin(r, [Authenticated(Host, "brief", "lock") EXCEPT !.text = t])
    BY <1>0, <1>4 DEF PostBrief, UpdateBriefDirect
  <2> DEFINE q == [Authenticated(Host, "brief", "lock") EXCEPT !.text = t]
  <2>2. q \in RequestSet
    BY AuthenticatedType DEF RequestSet
  <2>3. q.at = "lock" /\ q.kind = "brief" /\ q.copy \in Copies
    BY DEF Authenticated, NoRequest, Copies
  <2> HIDE DEF q
  <2> QED
    BY <2>1, <2>2, <2>3 DEF q
<1>5. CASE Invite(r)
  <2>1. PICK a \in Aliases, c \in Ceilings :
          /\ issued[a] < MaxInvites
          /\ Begin(r, [Authenticated(a, "invite", "lock") EXCEPT
                         !.copy = NewRecord(a, issued[a] + 1, c)])
    BY <1>5 DEF Invite
  <2> DEFINE q == [Authenticated(a, "invite", "lock") EXCEPT
                     !.copy = NewRecord(a, issued[a] + 1, c)]
  <2>2. NewRecord(a, issued[a] + 1, c) \in Records
    BY <2>1, NewType DEF TypeOK, Modes
  <2>3. q \in RequestSet
    BY <2>2, AuthenticatedType DEF RequestSet
  <2>4. q.at = "lock" /\ q.kind = "invite" /\ q.copy \in Copies
    BY <2>1 DEF Authenticated, NoRequest, Copies, TypeOK, Modes
  <2> HIDE DEF q
  <2> QED
    BY <2>1, <2>3, <2>4 DEF q
<1> QED
  BY <1>1, <1>2, <1>3, <1>4, <1>5 DEF Begins

\* What a request that ends does to the lock and to the slots
LEMMA UnlockType ==
  ASSUME TypeOK, NEW r \in Requests, Unlock(r), roster' \in [Aliases -> Records]
  PROVE  /\ lock' \in Requests \cup {None} /\ req' \in [Requests -> RequestSet]
         /\ held' \in [roster : [Aliases -> Records], version : Nat]
  BY NoRequestType DEF Unlock, TypeOK

LEMMA TypeStep == TypeOK /\ KindInv /\ [Next]_vars => TypeOK'
<1> SUFFICES ASSUME TypeOK, KindInv, [Next]_vars PROVE TypeOK'
  OBVIOUS
<1>1. CASE UNCHANGED vars
  BY <1>1 DEF TypeOK, vars, history
<1>2. ASSUME NEW r \in Requests, Begins(r) PROVE TypeOK'
  <2>1. PICK q \in RequestSet : Begin(r, q)
    BY <1>2, Begun
  <2>2. req' \in [Requests -> RequestSet] /\ served' \in 0 .. MaxServed
    BY <2>1 DEF Begin, TypeOK
  <2>3. UNCHANGED <<roster, recent, lock, held, brief, history>>
    BY <2>1 DEF Begin
  <2> QED
    BY <2>2, <2>3 DEF TypeOK, history
<1>3. ASSUME NEW r \in Requests, CheckName(r) PROVE TypeOK'
  <2>0. [req[r] EXCEPT !.at = "lock"] \in RequestSet
    BY DEF TypeOK, RequestSet
  <2>1. req' \in [Requests -> RequestSet]
    BY <1>3, <2>0, NoRequestType DEF CheckName, TypeOK
  <2> QED
    BY <1>3, <2>1 DEF CheckName, TypeOK, history
<1>4. ASSUME NEW r \in Requests, TakeLock(r) PROVE TypeOK'
  <2> DEFINE at == IF req[r].kind = "brief" THEN "file" ELSE "write"
  <2>0. [req[r] EXCEPT !.at = at] \in RequestSet
    BY DEF TypeOK, RequestSet
  <2>1. req' \in [Requests -> RequestSet]
    BY <1>4, <2>0 DEF TakeLock, TypeOK
  <2>2. held' \in [roster : [Aliases -> Records], version : Nat] /\ lock' \in Requests
    BY <1>4 DEF TakeLock, TypeOK
  <2> QED
    BY <1>4, <2>1, <2>2 DEF TakeLock, TypeOK, history
<1>5. ASSUME NEW r \in Requests, WriteBack(r) PROVE TypeOK'
  <2> DEFINE q == req[r]
  <2>1. q \in RequestSet /\ q.who \in Aliases /\ q.session \in Sessions \cup {None}
    BY DEF TypeOK, RequestSet
  <2>2. Changed(q) \in Records
    BY <1>5, <2>1, ChangedType DEF WriteBack, KindInv
  <2>3. roster' \in [Aliases -> Records]
    BY <1>5, <2>2 DEF WriteBack, TypeOK
  <2>4. recent' \subseteq Aliases
    BY <1>5, <2>1 DEF WriteBack, TypeOK
  <2>5. quiet' \in [Aliases -> SUBSET Sessions] /\ warned' \in [Aliases -> SUBSET Sessions]
    BY <1>5, <2>1 DEF WriteBack, Sessioned, TypeOK
  <2>6. issued' \in [Aliases -> 0 .. MaxInvites] /\ lost' \subseteq Aliases
    BY <1>5, <2>1 DEF WriteBack, TypeOK, RequestSet, Records
  <2>7. Unlock(r) /\ UNCHANGED <<brief, served, torn, updates>>
    BY <1>5 DEF WriteBack
  <2> QED
    BY <2>3, <2>4, <2>5, <2>6, <2>7, UnlockType DEF TypeOK
<1>6. ASSUME NEW r \in Requests, WriteBody(r) PROVE TypeOK'
  <2>1. req[r].text \in Nat
    BY DEF TypeOK, RequestSet
  <2>2. req' \in [Requests -> RequestSet] /\ brief' \in [file : Nat, version : Nat, stamp : Nat]
    BY <1>6, <2>1 DEF WriteBody, TypeOK, RequestSet
  <2> QED
    BY <1>6, <2>2 DEF WriteBody, TypeOK, history
<1>7. ASSUME NEW r \in Requests, WriteMeta(r) PROVE TypeOK'
  <2>1. req[r].text \in Nat /\ held.version + 1 \in Nat /\ updates + 1 \in Nat
    BY DEF TypeOK, RequestSet
  <2>2. brief' \in [file : Nat, version : Nat, stamp : Nat]
    BY <1>7, <2>1 DEF WriteMeta, TypeOK
  <2> QED
    BY <1>7, <2>1, <2>2, UnlockType DEF WriteMeta, TypeOK
<1>8. ASSUME NEW r \in Requests, Fail(r) PROVE TypeOK'
  <2>1. torn' \in BOOLEAN
    BY <1>8 DEF Fail
  <2> QED
    BY <1>8, <2>1, UnlockType DEF Fail, TypeOK
<1>9. ASSUME NEW a \in Aliases, GoStale(a) PROVE TypeOK'
  BY <1>9 DEF GoStale, TypeOK
<1> QED
  BY <1>1, <1>2, <1>3, <1>4, <1>5, <1>6, <1>7, <1>8, <1>9 DEF Next, Begins

----------------------------------------------------------------------------
\* Steps up to the lock

LEMMA InvInit == Init => IInv
<1> SUFFICES ASSUME Init PROVE IInv
  OBVIOUS
<1>1. \A r \in Requests : req[r].at = "idle" /\ r # None
  BY DEF Init, NoRequest
<1>2. KindInv /\ LockInv /\ HeldInv /\ BodyInv
  BY <1>1 DEF Init, KindInv, LockInv, HeldInv, BodyInv, Writing
<1>3. SessionInv /\ OneQuiet /\ InviteKept /\ BriefSettled
  BY DEF Init, SessionInv, OneQuiet, InviteKept, BriefSettled
<1> QED
  BY <1>2, <1>3, InitType DEF IInv

\* A request or a check of a name leaves the files and the lock alone.
LEMMA EarlyStep ==
  ASSUME IInv, TypeOK', NEW r \in Requests, Begins(r) \/ CheckName(r)
  PROVE  IInv'
<1>1. PICK q \in RequestSet :
        /\ req' = [req EXCEPT ![r] = q] /\ q.at \notin Writing
        /\ q.at = "lock" => q.kind # "none"
        /\ q.at = "check" => q.kind = "profile"
  <2>1. CASE Begins(r)
    BY <2>1, Begun DEF IInv, Begin, Writing
  <2>2. CASE CheckName(r)
    <3>1. req[r] \in RequestSet /\ req[r].kind = "profile"
      BY <2>2 DEF CheckName, IInv, TypeOK, KindInv
    <3> DEFINE q == IF Conflict(req[r].who, req[r].name) THEN NoRequest
                    ELSE [req[r] EXCEPT !.at = "lock"]
    <3>2. /\ q \in RequestSet /\ q.at \in {"idle", "lock"}
          /\ q.at = "lock" => q.kind = "profile"
      BY <3>1, NoRequestType DEF RequestSet, NoRequest
    <3>3. req' = [req EXCEPT ![r] = q]
      BY <2>2 DEF CheckName
    <3> HIDE DEF q
    <3> QED
      BY <3>2, <3>3 DEF Writing
  <2> QED
    BY <2>1, <2>2
<1>2. /\ req[r].at \notin Writing /\ req \in [Requests -> RequestSet]
      /\ UNCHANGED <<roster, recent, lock, held, brief, history>>
  <2>1. CASE Begins(r)
    BY <2>1, Begun DEF IInv, TypeOK, Begin, Writing
  <2>2. CASE CheckName(r)
    BY <2>2 DEF CheckName, IInv, TypeOK, Writing
  <2> QED
    BY <2>1, <2>2
<1>3. KindInv'
  BY <1>1, <1>2 DEF IInv, KindInv, Writing
<1>4. LockInv'
  BY <1>1, <1>2 DEF IInv, LockInv
<1>5. BodyInv'
  BY <1>1, <1>2 DEF IInv, BodyInv, Writing
<1>6. HeldInv' /\ SessionInv' /\ OneQuiet' /\ InviteKept'
  BY <1>2 DEF IInv, HeldInv, SessionInv, OneQuiet, InviteKept, history
<1>7. BriefSettled'
  BY <1>1, <1>2 DEF IInv, BriefSettled, history, Writing
<1> QED
  BY <1>3, <1>4, <1>5, <1>6, <1>7 DEF IInv

LEMMA LockTaken ==
  ASSUME IInv, TypeOK', NEW r \in Requests, TakeLock(r)
  PROVE  IInv'
<1> DEFINE at == IF req[r].kind = "brief" THEN "file" ELSE "write"
<1>1. /\ req' = [req EXCEPT ![r] = [@ EXCEPT !.at = at]] /\ req \in [Requests -> RequestSet]
      /\ req[r].at = "lock" /\ lock = None /\ lock' = r /\ r # None
      /\ held' = [roster |-> roster, version |-> brief.version]
      /\ UNCHANGED <<roster, recent, brief, history>>
  BY DEF TakeLock, LockFree, IInv, TypeOK
<1>2. /\ req'[r].at = at /\ req'[r].kind = req[r].kind
      /\ \A s \in Requests \ {r} : req'[s] = req[s]
  BY <1>1 DEF RequestSet
<1>3. at \in {"file", "write"} /\ (at = "write" => req[r].kind # "brief")
  OBVIOUS
<1> HIDE DEF at
<1>4. KindInv'
  BY <1>1, <1>2, <1>3 DEF IInv, KindInv
<1>5. \A s \in Requests : req[s].at \notin Writing
  BY <1>1 DEF IInv, LockInv
<1>6. LockInv'
  BY <1>1, <1>2, <1>3, <1>5 DEF LockInv, Writing
<1>7. BodyInv'
  BY <1>2, <1>3, <1>5 DEF BodyInv, Writing
<1>8. HeldInv' /\ SessionInv' /\ OneQuiet' /\ InviteKept'
  BY <1>1 DEF IInv, HeldInv, SessionInv, OneQuiet, InviteKept, history
<1>9. BriefSettled'
  BY <1>1, <1>5 DEF IInv, BriefSettled, history, Writing
<1> QED
  BY <1>4, <1>6, <1>7, <1>8, <1>9 DEF IInv

----------------------------------------------------------------------------
\* Steps under the lock

\* Where a request ends
LEMMA UnlockKeeps ==
  ASSUME IInv, NEW r \in Requests, Unlock(r)
  PROVE  /\ KindInv' /\ LockInv'
         /\ lock = r \/ (HeldInv /\ UNCHANGED <<roster, brief, held, lock>>) => HeldInv'
         /\ BodyInv /\ (UNCHANGED brief \/ lock = r) => BodyInv'
<1>1. /\ req \in [Requests -> RequestSet] /\ req' = [req EXCEPT ![r] = NoRequest]
      /\ lock \in Requests \cup {None} /\ NoRequest.at = "idle" /\ r # None
  BY DEF Unlock, IInv, TypeOK, NoRequest
<1>2. KindInv'
  BY <1>1 DEF IInv, KindInv
<1>3. LockInv'
  BY <1>1 DEF IInv, LockInv, Unlock, Writing
<1>4. lock = r \/ (HeldInv /\ UNCHANGED <<roster, brief, held, lock>>) => HeldInv'
  BY <1>1 DEF Unlock, HeldInv
<1>5. BodyInv /\ (UNCHANGED brief \/ lock = r) => BodyInv'
  BY <1>1 DEF IInv, LockInv, BodyInv, Writing
<1> QED
  BY <1>2, <1>3, <1>4, <1>5

\* What a request that writes a record back does to the sessions that attend
LEMMA SessionsKept ==
  ASSUME IInv, TypeOK', NEW r \in Requests, WriteBack(r)
  PROVE  SessionInv' /\ OneQuiet'
<1> DEFINE q == req[r]  a == q.who  rec == Changed(q)
           joins == q.kind = "join" /\ q.session # None
<1>1. /\ q \in RequestSet /\ a \in Aliases /\ q.at = "write" /\ q.session \in Sessions \cup {None}
      /\ q.kind \notin {"none", "brief"} /\ lock = r
  BY DEF WriteBack, IInv, TypeOK, RequestSet, KindInv, LockInv, Writing
<1>2. held.roster = roster
  BY <1>1 DEF IInv, HeldInv
<1>3. /\ rec \in Records
      /\ joins => rec.session = q.session
  BY <1>1, ChangedType
<1>4. roster' = [roster EXCEPT ![a] = rec] /\ recent' = recent \cup {a}
  BY <1>2 DEF WriteBack
<1>5. /\ roster \in [Aliases -> Records]
      /\ quiet \in [Aliases -> SUBSET Sessions] /\ warned \in [Aliases -> SUBSET Sessions]
  BY DEF IInv, TypeOK
<1> DEFINE over == \/ q.kind = "invite" \/ rec.attention # "attending"
                   \/ ~joins /\ rec.session # roster[a].session
<1>6. /\ quiet' = [quiet EXCEPT ![a] =
                     IF over THEN {}
                     ELSE IF joins /\ ~Warn(q) /\ q.session \notin warned[a]
                          THEN @ \cup {q.session} ELSE @]
      /\ warned' = [warned EXCEPT ![a] =
                      IF over THEN {} ELSE IF joins /\ Warn(q) THEN @ \cup {q.session} ELSE @]
  BY <1>2 DEF WriteBack, Sessioned
<1>7. Warn(q) <=> /\ roster[a].attention = "attending" /\ a \in recent
                  /\ q.session = None \/ roster[a].session # q.session
  BY <1>2 DEF Warn
<1> HIDE DEF q, rec, over, joins
<1>8. ASSUME NEW b \in Aliases \ {a}
      PROVE  /\ quiet'[b] # {} => /\ roster'[b].attention = "attending" /\ b \in recent'
                                  /\ roster'[b].session \in quiet'[b] \cup warned'[b]
             /\ \A s, t \in quiet'[b] : s = t
  <2>1. /\ roster'[b] = roster[b] /\ quiet'[b] = quiet[b] /\ warned'[b] = warned[b]
        /\ b \in recent => b \in recent'
    BY <1>4, <1>5, <1>6
  <2> QED
    BY <2>1 DEF IInv, SessionInv, OneQuiet
<1>9. roster'[a] = rec /\ a \in recent'
  BY <1>1, <1>4, <1>5
<1>10. /\ quiet'[a] # {} => /\ rec.attention = "attending"
                            /\ rec.session \in quiet'[a] \cup warned'[a]
       /\ \A s, t \in quiet'[a] : s = t
  <2>1. CASE over
    <3>1. quiet'[a] = {}
      BY <1>1, <1>5, <1>6, <2>1
    <3> QED
      BY <3>1
  <2>2. CASE ~over /\ ~(joins /\ ~Warn(q) /\ q.session \notin warned[a])
    <3>1. quiet'[a] = quiet[a] /\ warned[a] \subseteq warned'[a] /\ rec.attention = "attending"
      BY <1>1, <1>5, <1>6, <2>2 DEF over
    <3>2. ASSUME quiet[a] # {} PROVE rec.session \in quiet[a] \cup warned'[a]
      <4>1. CASE ~joins
        BY <1>1, <2>2, <3>1, <3>2, <4>1 DEF over, IInv, SessionInv
      <4>2. CASE joins /\ Warn(q)
        BY <1>1, <1>3, <1>5, <1>6, <2>2, <4>2
      <4>3. CASE joins /\ q.session \in warned[a]
        BY <1>3, <3>1, <4>3
      <4> QED
        BY <2>2, <4>1, <4>2, <4>3
    <3> QED
      BY <1>1, <3>1, <3>2 DEF IInv, OneQuiet
  <2>3. CASE ~over /\ joins /\ ~Warn(q) /\ q.session \notin warned[a]
    <3>1. /\ quiet'[a] = quiet[a] \cup {q.session} /\ rec.attention = "attending"
          /\ rec.session = q.session
      BY <1>1, <1>3, <1>5, <1>6, <2>3 DEF over
    <3>2. ASSUME NEW s \in quiet[a] PROVE s = q.session
      <4>1. roster[a].session = q.session
        BY <1>1, <1>7, <2>3, <3>2 DEF IInv, SessionInv
      <4>2. q.session \in quiet[a]
        BY <1>1, <2>3, <3>2, <4>1 DEF IInv, SessionInv
      <4> QED
        BY <1>1, <3>2, <4>2 DEF IInv, OneQuiet
    <3> QED
      BY <3>1, <3>2
  <2> QED
    BY <2>1, <2>2, <2>3
<1> HIDE DEF a
<1> QED
  BY <1>1, <1>8, <1>9, <1>10 DEF SessionInv, OneQuiet

LEMMA WrittenBack ==
  ASSUME IInv, TypeOK', NEW r \in Requests, WriteBack(r)
  PROVE  IInv'
<1> DEFINE q == req[r]
<1>1. /\ q \in RequestSet /\ q.who \in Aliases /\ q.at = "write"
      /\ q.kind \notin {"none", "brief"} /\ lock = r /\ r # None
  BY DEF WriteBack, IInv, TypeOK, RequestSet, KindInv, LockInv, Writing
<1>2. held.roster = roster /\ Unlock(r) /\ UNCHANGED <<brief, torn, updates>>
  BY <1>1 DEF IInv, HeldInv, WriteBack
<1>3. KindInv' /\ LockInv' /\ HeldInv' /\ BodyInv'
  <2>1. BodyInv /\ UNCHANGED brief
    BY <1>2 DEF IInv
  <2> QED
    BY <1>1, <1>2, <2>1, UnlockKeeps
<1>4. InviteKept'
  <2>1. Changed(q).token = q.copy.token
    BY <1>1, ChangedType
  <2>2. roster' = [roster EXCEPT ![q.who] = Changed(q)] /\ roster \in [Aliases -> Records]
    BY <1>2 DEF WriteBack, IInv, TypeOK
  <2>3. CASE q.kind = "invite"
    <3>1. /\ issued' = [issued EXCEPT ![q.who] = q.copy.token] /\ lost' = lost \ {q.who}
          /\ issued \in [Aliases -> 0 .. MaxInvites]
      BY <2>3 DEF WriteBack, IInv, TypeOK
    <3> QED
      BY <1>1, <2>1, <2>2, <3>1 DEF IInv, InviteKept
  <2>4. CASE q.kind # "invite"
    <3>1. /\ issued' = issued
          /\ lost' = IF q.copy # roster[q.who] THEN lost \cup {q.who} ELSE lost
      BY <1>2, <2>4 DEF WriteBack
    <3> QED
      BY <1>1, <2>1, <2>2, <3>1 DEF IInv, InviteKept
  <2> QED
    BY <2>3, <2>4
<1>5. BriefSettled'
  <2>1. \A s \in Requests : req[s].at # "meta"
    BY <1>1 DEF IInv, LockInv, Writing
  <2> QED
    BY <1>2, <2>1 DEF IInv, BriefSettled
<1> QED
  BY <1>3, <1>4, <1>5, SessionsKept DEF IInv

LEMMA BodyWritten ==
  ASSUME IInv, TypeOK', NEW r \in Requests, WriteBody(r)
  PROVE  IInv'
<1>1. /\ req[r].at = "file" /\ req' = [req EXCEPT ![r] = [@ EXCEPT !.at = "meta"]]
      /\ brief' = [brief EXCEPT !.file = req[r].text]
      /\ req \in [Requests -> RequestSet] /\ lock = r /\ r # None
      /\ brief \in [file : Nat, version : Nat, stamp : Nat]
      /\ UNCHANGED <<roster, recent, lock, held, history>>
  BY DEF WriteBody, IInv, TypeOK, LockInv, Writing
<1>2. /\ req'[r].at = "meta" /\ req'[r].text = req[r].text
      /\ \A s \in Requests \ {r} : req'[s] = req[s]
  BY <1>1 DEF RequestSet
<1>3. /\ brief'.file = req[r].text /\ brief'.version = brief.version
  BY <1>1
<1>4. KindInv'
  BY <1>2 DEF IInv, KindInv
<1>5. LockInv'
  BY <1>1, <1>2 DEF IInv, LockInv, Writing
<1>6. BodyInv'
  <2>1. \A s \in Requests \ {r} : req[s].at # "meta"
    BY <1>1 DEF IInv, LockInv, Writing
  <2> QED
    BY <1>2, <1>3, <2>1 DEF BodyInv
<1>7. HeldInv' /\ SessionInv' /\ OneQuiet' /\ InviteKept'
  BY <1>1, <1>3 DEF IInv, HeldInv, SessionInv, OneQuiet, InviteKept, history
<1>8. BriefSettled'
  BY <1>1, <1>2, <1>3 DEF IInv, BriefSettled, history
<1> QED
  BY <1>4, <1>5, <1>6, <1>7, <1>8 DEF IInv

LEMMA MetaWritten ==
  ASSUME IInv, TypeOK', NEW r \in Requests, WriteMeta(r)
  PROVE  IInv'
<1>1. /\ req[r].at = "meta" /\ lock = r /\ r # None /\ Unlock(r)
      /\ brief' = [brief EXCEPT !.version = held.version + 1, !.stamp = req[r].text]
      /\ brief \in [file : Nat, version : Nat, stamp : Nat]
      /\ updates' = updates + 1
      /\ UNCHANGED <<roster, recent, issued, lost, quiet, warned>>
  BY DEF WriteMeta, IInv, TypeOK, LockInv, Writing
<1>2. held.version = updates /\ brief.file = req[r].text
  BY <1>1 DEF IInv, HeldInv, BodyInv, BriefSettled
<1>3. brief'.version = updates' /\ brief'.file = brief'.stamp
  BY <1>1, <1>2
<1>4. KindInv' /\ LockInv' /\ HeldInv' /\ BodyInv'
  <2>1. BodyInv
    BY DEF IInv
  <2> QED
    BY <1>1, <2>1, UnlockKeeps
<1>5. SessionInv' /\ OneQuiet' /\ InviteKept'
  BY <1>1 DEF IInv, SessionInv, OneQuiet, InviteKept
<1>6. BriefSettled'
  BY <1>3 DEF BriefSettled
<1> QED
  BY <1>4, <1>5, <1>6 DEF IInv

LEMMA Failed ==
  ASSUME IInv, TypeOK', NEW r \in Requests, Fail(r)
  PROVE  IInv'
<1>1. /\ Unlock(r) /\ torn' = (torn \/ req[r].at = "meta")
      /\ UNCHANGED <<roster, recent, brief, issued, lost, quiet, warned, updates>>
      /\ r # None
  BY DEF Fail
<1>2. lock # r => UNCHANGED <<lock, held>>
  BY <1>1 DEF Unlock
<1>3. KindInv' /\ LockInv' /\ HeldInv' /\ BodyInv'
  <2>1. BodyInv /\ HeldInv
    BY DEF IInv
  <2> QED
    BY <1>1, <1>2, <2>1, UnlockKeeps
<1>4. SessionInv' /\ OneQuiet' /\ InviteKept'
  BY <1>1 DEF IInv, SessionInv, OneQuiet, InviteKept
<1>5. BriefSettled'
  <2>1. req' = [req EXCEPT ![r] = NoRequest] /\ req \in [Requests -> RequestSet]
    BY <1>1 DEF Unlock, IInv, TypeOK
  <2>2. \A s \in Requests \ {r} : req'[s] = req[s]
    BY <2>1
  <2>3. CASE req[r].at = "meta"
    BY <1>1, <2>3 DEF IInv, BriefSettled
  <2>4. CASE req[r].at # "meta"
    BY <1>1, <2>2, <2>4 DEF IInv, BriefSettled
  <2> QED
    BY <2>3, <2>4
<1> QED
  BY <1>3, <1>4, <1>5 DEF IInv

LEMMA GoneStale ==
  ASSUME IInv, TypeOK', NEW a \in Aliases, GoStale(a)
  PROVE  IInv'
<1>1. /\ recent' = recent \ {a} /\ quiet' = [quiet EXCEPT ![a] = {}]
      /\ warned' = [warned EXCEPT ![a] = {}]
      /\ quiet \in [Aliases -> SUBSET Sessions] /\ warned \in [Aliases -> SUBSET Sessions]
      /\ UNCHANGED <<roster, lock, held, req, brief, issued, lost, torn, updates>>
  BY DEF GoStale, IInv, TypeOK
<1>2. SessionInv' /\ OneQuiet'
  BY <1>1 DEF IInv, SessionInv, OneQuiet
<1>3. KindInv' /\ LockInv' /\ HeldInv' /\ BodyInv' /\ InviteKept' /\ BriefSettled'
  BY <1>1 DEF IInv, KindInv, LockInv, HeldInv, BodyInv, InviteKept, BriefSettled
<1> QED
  BY <1>2, <1>3 DEF IInv

LEMMA InvStep == IInv /\ [Next]_vars => IInv'
<1> SUFFICES ASSUME IInv, [Next]_vars PROVE IInv'
  OBVIOUS
<1>1. TypeOK'
  BY TypeStep DEF IInv
<1>2. CASE UNCHANGED vars
  BY <1>1, <1>2 DEF IInv, vars, history, KindInv, LockInv, HeldInv, BodyInv, SessionInv,
     OneQuiet, InviteKept, BriefSettled
<1>3. ASSUME NEW r \in Requests,
             \/ Begins(r) \/ CheckName(r) \/ TakeLock(r) \/ WriteBack(r) \/ WriteBody(r)
             \/ WriteMeta(r) \/ Fail(r)
      PROVE  IInv'
  BY <1>1, <1>3, EarlyStep, LockTaken, WrittenBack, BodyWritten, MetaWritten, Failed
<1>4. ASSUME NEW a \in Aliases, GoStale(a) PROVE IInv'
  BY <1>1, <1>4, GoneStale
<1> QED
  BY <1>2, <1>3, <1>4 DEF Next, Begins

----------------------------------------------------------------------------
\* For any participants, sessions, requests and bounds the state has its type.
THEOREM TypeCorrect == Spec => []TypeOK
<1>1. IInv => TypeOK
  BY DEF IInv
<1> QED
  BY InvInit, InvStep, <1>1, PTL DEF Spec

\* room invite is not undone: upsertParticipant reads the roster anew under the
\* lock, so that only a request of the same alias can bring its old token back.
THEOREM InvitesAreKept == Spec => []InviteKept
<1>1. IInv => InviteKept
  BY DEF IInv
<1> QED
  BY InvInit, InvStep, <1>1, PTL DEF Spec

\* joinParticipant judges and writes under one lock: of any number of sessions that
\* attend as one alias all but one were warned.
THEOREM DuplicatesAreWarned == Spec => []NoDuplicateMissed
<1>1. IInv => NoDuplicateMissed
  <2> SUFFICES ASSUME IInv, NEW a \in Aliases PROVE Cardinality(quiet[a]) <= 1
    BY DEF NoDuplicateMissed
  <2>1. CASE quiet[a] = {}
    BY <2>1, FS_EmptySet
  <2>2. CASE quiet[a] # {}
    <3>1. PICK s \in quiet[a] : quiet[a] = {s}
      BY <2>2 DEF IInv, OneQuiet
    <3>2. Cardinality({s}) = 1
      BY FS_Singleton
    <3> QED
      BY <3>1, <3>2
  <2> QED
    BY <2>1, <2>2
<1> QED
  BY InvInit, InvStep, <1>1, PTL DEF Spec

\* updateBrief gives every successful update a version of its own, and no text of
\* one is left beside the version of another.
THEOREM BriefIsSettled == Spec => []BriefSettled
<1>1. IInv => BriefSettled
  BY DEF IInv
<1> QED
  BY InvInit, InvStep, <1>1, PTL DEF Spec

----------------------------------------------------------------------------
\* The mode that a record shows

Honest(rec) ==
  rec.effective # None => /\ rec.effective \in rec.supported \cup {Manual}
                          /\ rec.effective >= rec.requested

\* So is every record that is, or may still be, written.
HonestInv ==
  /\ \A a \in Aliases : Honest(roster[a]) /\ Honest(held.roster[a])
  /\ \A r \in Requests : Honest(req[r].copy)

LEMMA NewIsHonest ==
  ASSUME NEW a, NEW t, NEW c
  PROVE  Honest(NewRecord(a, t, c))
  BY DEF Honest, NewRecord

LEMMA DeclaredIsHonest ==
  ASSUME NEW rec \in Records, NEW o \in Offers \cup {None}
  PROVE  Honest(Declared(rec, o))
<1> DEFINE S == IF o = None THEN rec.supported ELSE o
<1>1. S \in SUBSET Modes /\ rec.requested \in Modes
  BY DEF Records, Modes
<1>2. /\ Negotiate(S, rec.requested) \in S \cup {Manual}
      /\ Negotiate(S, rec.requested) >= rec.requested
  BY <1>1, NegotiateWithin
<1>3. Declared(rec, o) = [rec EXCEPT !.supported = S,
                                     !.effective = Negotiate(S, rec.requested)]
  BY DEF Declared
<1> HIDE DEF S
<1> QED
  BY <1>2, <1>3 DEF Records, Honest

LEMMA ChangedIsHonest ==
  ASSUME NEW q \in RequestSet, q.kind \notin {"none", "brief"}, Honest(q.copy)
  PROVE  Honest(Changed(q))
<1>0. q.copy \in Records /\ q.offer \in Offers \cup {None} /\ q.name \in Names
      /\ q.session \in Sessions \cup {None}
  BY DEF RequestSet
<1>1. CASE q.kind \in {"read", "wait", "leave", "invite"}
  BY <1>0, <1>1 DEF Changed, Touched, Honest, Records
<1>2. CASE q.kind = "profile"
  <2>1. [q.copy EXCEPT !.name = q.name] \in Records
    BY <1>0 DEF Records
  <2> QED
    BY <1>0, <1>2, <2>1, DeclaredIsHonest DEF Changed, Profiled
<1>3. CASE q.kind = "join"
  <2> DEFINE rec == [q.copy EXCEPT !.attention = "attending",
                                   !.session = IF q.session = None THEN @ ELSE q.session]
  <2>1. rec \in Records
    BY <1>0 DEF Records
  <2>2. Changed(q) = Declared(rec, q.offer)
    BY <1>3 DEF Changed, JoinedAs
  <2> HIDE DEF rec
  <2> QED
    BY <1>0, <2>1, <2>2, DeclaredIsHonest
<1> QED
  BY <1>1, <1>2, <1>3 DEF RequestSet

LEMMA HonestStep == IInv /\ HonestInv /\ [Next]_vars => HonestInv'
<1> SUFFICES ASSUME IInv, HonestInv, [Next]_vars PROVE HonestInv'
  OBVIOUS
<1>0. req \in [Requests -> RequestSet] /\ roster \in [Aliases -> Records]
  BY DEF IInv, TypeOK
<1>1. CASE UNCHANGED vars
  BY <1>1 DEF HonestInv, vars, history
<1>2. ASSUME NEW r \in Requests, Begins(r) PROVE HonestInv'
  <2>1. PICK q \in RequestSet : Begin(r, q) /\ q.copy \in Copies
    BY <1>2, Begun DEF IInv
  <2>2. Honest(q.copy)
    BY <2>1, NewIsHonest DEF Copies, HonestInv
  <2> QED
    BY <1>0, <2>1, <2>2 DEF HonestInv, Begin, history
<1>3. ASSUME NEW r \in Requests, CheckName(r) \/ TakeLock(r) \/ WriteBody(r)
      PROVE  HonestInv'
  <2>1. Honest(req'[r].copy)
    BY <1>0, <1>3, NewIsHonest DEF HonestInv, CheckName, TakeLock, WriteBody, NoRequest, RequestSet
  <2>2. \A s \in Requests \ {r} : req'[s] = req[s]
    BY <1>0, <1>3 DEF CheckName, TakeLock, WriteBody
  <2>3. roster' = roster /\ held'.roster \in {held.roster, roster}
    BY <1>3 DEF CheckName, TakeLock, WriteBody
  <2> QED
    BY <2>1, <2>2, <2>3 DEF HonestInv
<1>4. ASSUME NEW r \in Requests, WriteBack(r) \/ WriteMeta(r) \/ Fail(r)
      PROVE  HonestInv'
  <2>1. \A a \in Aliases : Honest(roster'[a])
    <3>1. CASE WriteBack(r)
      <4>1. req[r] \in RequestSet /\ req[r].kind \notin {"none", "brief"} /\ Honest(req[r].copy)
        BY <1>0, <3>1 DEF WriteBack, IInv, KindInv, HonestInv
      <4>2. Honest(Changed(req[r]))
        BY <4>1, ChangedIsHonest
      <4>3. /\ roster' = [held.roster EXCEPT ![req[r].who] = Changed(req[r])]
            /\ held.roster \in [Aliases -> Records]
        BY <3>1 DEF WriteBack, IInv, TypeOK
      <4> QED
        BY <4>2, <4>3 DEF HonestInv
    <3>2. CASE WriteMeta(r) \/ Fail(r)
      BY <3>2 DEF WriteMeta, Fail, HonestInv
    <3> QED
      BY <1>4, <3>1, <3>2
  <2>2. Unlock(r)
    BY <1>4 DEF WriteBack, WriteMeta, Fail
  <2>3. held'.roster \in {roster', held.roster} /\ req' = [req EXCEPT ![r] = NoRequest]
    BY <2>2 DEF Unlock
  <2>4. \A s \in Requests : Honest(req'[s].copy)
    BY <1>0, <2>3, NewIsHonest DEF HonestInv, NoRequest
  <2> QED
    BY <2>1, <2>3, <2>4 DEF HonestInv
<1>5. ASSUME NEW a \in Aliases, GoStale(a) PROVE HonestInv'
  BY <1>5 DEF GoStale, HonestInv
<1> QED
  BY <1>1, <1>2, <1>3, <1>4, <1>5 DEF Next, Begins

\* publicParticipant never shows a mode that the participant did not declare, nor
\* one that asks for less attention than the host did: what touchParticipant writes
\* back late was negotiated from a declaration, too.
THEOREM RowsAreHonest == Spec => []NeverOverclaims
<1>1. Init => HonestInv
  BY NewIsHonest DEF Init, HonestInv, NoRequest
<1>2. HonestInv => NeverOverclaims
  BY DEF HonestInv, NeverOverclaims, Honest, Row, Known
<1> QED
  BY InvInit, InvStep, HonestStep, <1>1, <1>2, PTL DEF Spec
===============================================================================
