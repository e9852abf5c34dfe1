------------------------------- MODULE Roster -------------------------------
(***************************************************************************)
(* The participants of a room and its brief, kept in two files of the room    *)
(* directory and changed by requests of the room server and by commands in     *)
(* the host's home, under the writer lock.                                  *)
(*                                                                         *)
(* Every request authenticates by reading the roster without the lock, awaits  *)
(* its body, and later writes its participant's record back as it was read,   *)
(* changed by the request.  Under the lock the roster is read anew, so that    *)
(* only the own record can be out of date.  Names are compared without regard  *)
(* to case: a name here stands for all its spellings.  Nothing in the program  *)
(* sets removed_at.  The lines joined and left, and the rate limits, are not   *)
(* modelled.                                                               *)
(***************************************************************************)
EXTENDS Integers, FiniteSets, FiniteSetsExt

CONSTANTS
  Aliases, Host,   \* participants, one of them the host
  Nicknames,       \* display names beside the aliases
  Sessions,        \* session markers that a join may carry
  Offers,          \* sets of modes that a participant may declare
  Ceilings,        \* modes that an invitation may ask for
  Requests,        \* slots of concurrent requests and commands
  None,
  MaxServed,       \* bound: requests begun
  MaxInvites       \* bound: tokens of one alias

ASSUME RosterAssumption ==
  /\ Host \in Aliases
  /\ Offers \subseteq SUBSET (0 .. 3) /\ Ceilings \subseteq 0 .. 3
  /\ None \notin Requests \cup Sessions \cup Aliases \cup Nicknames
  /\ None \notin Offers /\ None \notin 0 .. 3
  /\ MaxServed \in Nat /\ MaxInvites \in Nat \ {0}

Modes == 0 .. 3          \* ATTENTION_MODES by attentionRank
Manual == 3
Names == Aliases \cup Nicknames

VARIABLES
  roster,   \* participants.json: per alias its record; token 0 says not invited
  recent,   \* the participants whose lastSeenAt is within the stale window
  lock,     \* the request that holds the writer lock
  held,     \* what the holder read under the lock
  req,      \* per slot: where the request is and what it works with
  brief,    \* the brief's file, and version and stamp of it in state.json
  served,   \* requests begun
  issued,   \* (history) tokens made per alias
  lost,     \* (history) aliases of whose record a change was overwritten
  quiet,    \* (history) sessions attending an alias that were never warned
  warned,   \* (history) sessions attending an alias that were warned
  torn,     \* (history) an update of the brief ended between its two files
  updates   \* (history) updates of the brief that succeeded

history == <<issued, lost, quiet, warned, torn, updates>>
vars == <<roster, recent, lock, held, req, brief, served, history>>

Records ==
  [token : 0 .. MaxInvites, name : Names, attention : {"manual", "attending", "away"},
   supported : SUBSET Modes, requested : Modes, effective : Modes \cup {None},
   session : Sessions \cup {None}]

\* participant: as an invitation makes it
NewRecord(a, t, ceiling) ==
  [token |-> t, name |-> a, attention |-> IF a = Host THEN "attending" ELSE "manual",
   supported |-> {}, requested |-> ceiling, effective |-> None, session |-> None]

NoRequest ==
  [at |-> "idle", kind |-> "none", who |-> Host, copy |-> NewRecord(Host, 0, 0),
   name |-> Host, offer |-> None, session |-> None, text |-> 0]

RequestSet ==
  [at : {"idle", "check", "lock", "write", "file", "meta"},
   kind : {"none", "read", "wait", "leave", "profile", "join", "invite", "brief"},
   who : Aliases, copy : Records, name : Names, offer : Offers \cup {None},
   session : Sessions \cup {None}, text : Nat]

TypeOK ==
  /\ roster \in [Aliases -> Records]
  /\ recent \subseteq Aliases
  /\ lock \in Requests \cup {None}
  /\ held \in [roster : [Aliases -> Records], version : Nat]
  /\ req \in [Requests -> RequestSet]
  /\ brief \in [file : Nat, version : Nat, stamp : Nat]
  /\ served \in 0 .. MaxServed /\ updates \in Nat
  /\ issued \in [Aliases -> 0 .. MaxInvites]
  /\ lost \subseteq Aliases /\ torn \in BOOLEAN
  /\ quiet \in [Aliases -> SUBSET Sessions] /\ warned \in [Aliases -> SUBSET Sessions]

\* createRoom: the host is there, attending.
Init ==
  /\ roster = [a \in Aliases |-> NewRecord(a, IF a = Host THEN 1 ELSE 0, 0)]
  /\ recent = {Host}
  /\ lock = None /\ held = [roster |-> roster, version |-> 0]
  /\ req = [r \in Requests |-> NoRequest]
  /\ brief = [file |-> 0, version |-> 0, stamp |-> 0]
  /\ served = 0
  /\ issued = [a \in Aliases |-> roster[a].token]
  /\ lost = {} /\ torn = FALSE /\ updates = 0
  /\ quiet = [a \in Aliases |-> {}] /\ warned = [a \in Aliases |-> {}]

----------------------------------------------------------------------------
\* Pure parts

\* negotiateEffectiveMode: the most capable declared mode within the request
Negotiate(supported, requested) ==
  LET within == {m \in supported : m >= requested}
  IN IF within = {} THEN Manual ELSE Min(within)

\* withNegotiatedAttention on what parseAttentionDeclaration accepted
Declared(rec, offer) ==
  LET supported == IF offer = None THEN rec.supported ELSE offer
  IN [rec EXCEPT !.supported = supported, !.effective = Negotiate(supported, rec.requested)]

Touched(rec, attention) == [rec EXCEPT !.attention = attention]

Profiled(rec, n, offer) == Declared([rec EXCEPT !.name = n], offer)

\* A join without a marker keeps the one that the record has.
JoinedAs(rec, offer, s) ==
  Declared([rec EXCEPT !.attention = "attending", !.session = IF s = None THEN @ ELSE s], offer)

\* What a request makes of the record it read
Changed(q) ==
  CASE q.kind = "read"    -> Touched(q.copy, q.copy.attention)
    [] q.kind = "wait"    -> Touched(q.copy, "attending")
    [] q.kind = "leave"   -> Touched(q.copy, "away")
    [] q.kind = "profile" -> Profiled(q.copy, q.name, q.offer)
    [] q.kind = "join"    -> JoinedAs(q.copy, q.offer, q.session)
    [] q.kind = "invite"  -> q.copy

\* findNameOwnerConflict: a token belongs to one alias, so any other owner conflicts
Conflict(a, n) == \E b \in Aliases \ {a} : roster[b].token > 0 /\ roster[b].name = n

\* Slip: judged by the record read at authentication
WarnFromCopy(q) ==
  q.copy.attention = "attending" /\ q.who \in recent /\ (q.session = None \/ q.copy.session # q.session)

\* isActivelyAttendedByOtherSession
Warn(q) ==
  LET there == held.roster[q.who]
  IN /\ there.attention = "attending" /\ q.who \in recent
     /\ q.session = None \/ there.session # q.session

\* publicParticipant, and the row that the room page makes of it
Row(a, policy) ==
  [name |-> roster[a].name, mode |-> roster[a].effective,
   state |-> CASE roster[a].attention = "attending" ->
                    IF a \in recent THEN "attending" ELSE "stale"
               [] policy = "all-foreground" -> "not_attending"
               [] OTHER -> roster[a].attention]

----------------------------------------------------------------------------
\* Requests up to the lock

Begin(r, q) ==
  /\ req[r].at = "idle" /\ served < MaxServed
  /\ req' = [req EXCEPT ![r] = q]
  /\ served' = served + 1
  /\ UNCHANGED <<roster, recent, lock, held, brief, history>>

\* requireParticipant: the record of the token's owner, read without the lock
Authenticated(a, kind, at) ==
  [NoRequest EXCEPT !.at = at, !.kind = kind, !.who = a, !.copy = roster[a]]

Known == {a \in Aliases : roster[a].token > 0}

\* GET and POST /messages: touchParticipant with the attention it read
Read(r) == \E a \in Known : Begin(r, Authenticated(a, "read", "lock"))

\* GET /wait
Wait(r) == \E a \in Known : Begin(r, Authenticated(a, "wait", "lock"))

\* POST /leave
Leave(r) == \E a \in Known : Begin(r, Authenticated(a, "leave", "lock"))

\* room leave in the host's home reads the roster itself.
LeaveAtHost(r) == Begin(r, Authenticated(Host, "leave", "lock"))

PostProfile(r) ==
  \E a \in Known, n \in Names, o \in Offers \cup {None} :
    Begin(r, [Authenticated(a, "profile", "check") EXCEPT !.name = n, !.offer = o])

PostJoin(r) ==
  \E a \in Known, o \in Offers \cup {None}, s \in Sessions \cup {None} :
    Begin(r, [Authenticated(a, "join", "lock") EXCEPT !.offer = o, !.session = s])

\* POST /brief by the host
PostBrief(r) ==
  Begin(r, [Authenticated(Host, "brief", "lock") EXCEPT !.text = served + 1])

\* room brief without an answer from a server updates the brief itself, be it
\* that the server has done so.
UpdateBriefDirect(r) ==
  \E t \in {served + 1, brief.stamp} :
    Begin(r, [Authenticated(Host, "brief", "lock") EXCEPT !.text = t])

\* room invite: a new token and a new record, whatever the alias had before.  The
\* host runs one such command for an alias at a time.
Invite(r) ==
  \E a \in Aliases \ {Host}, c \in Ceilings :
    /\ issued[a] < MaxInvites
    /\ ~\E q \in Requests : req[q].kind = "invite" /\ req[q].who = a
    /\ Begin(r, [Authenticated(a, "invite", "lock") EXCEPT
                   !.copy = NewRecord(a, issued[a] + 1, c)])

\* postProfile: the name is checked against the roster, still without the lock
CheckName(r) ==
  /\ req[r].at = "check"
  /\ req' = [req EXCEPT ![r] = IF Conflict(@.who, @.name) THEN NoRequest
                               ELSE [@ EXCEPT !.at = "lock"]]
  /\ UNCHANGED <<roster, recent, lock, held, brief, served, history>>

----------------------------------------------------------------------------
\* Under the lock

\* Slip: the lock is not waited for
NoLock == TRUE

\* withWriterLock, as the model of the lock shows it
LockFree == lock = None

\* upsertParticipant, joinParticipant and updateBrief read what they will write back.
TakeLock(r) ==
  /\ req[r].at = "lock" /\ LockFree
  /\ lock' = r
  /\ held' = [roster |-> roster, version |-> brief.version]
  /\ req' = [req EXCEPT ![r].at = IF req[r].kind = "brief" THEN "file" ELSE "write"]
  /\ UNCHANGED <<roster, recent, brief, served, history>>

Unlock(r) ==
  /\ lock' = IF lock = r THEN None ELSE lock
  /\ held' = IF lock = r THEN [roster |-> roster', version |-> 0] ELSE held
  /\ req' = [req EXCEPT ![r] = NoRequest]

\* The attendance that the sessions know of ends with a record that does not attend
\* and with one that brings an old marker back.
Sessioned(q) ==
  LET a == q.who
      joins == q.kind = "join" /\ q.session # None
      over == \/ q.kind = "invite" \/ Changed(q).attention # "attending"
              \/ ~joins /\ Changed(q).session # held.roster[a].session
  IN /\ quiet' = [quiet EXCEPT ![a] =
                    IF over THEN {}
                    ELSE IF joins /\ ~Warn(q) /\ q.session \notin warned[a] THEN @ \cup {q.session}
                    ELSE @]
     /\ warned' = [warned EXCEPT ![a] =
                     IF over THEN {} ELSE IF joins /\ Warn(q) THEN @ \cup {q.session} ELSE @]

\* The write and the release of the lock.  The answer of a join says whether to warn.
WriteBack(r) ==
  LET q == req[r]
      behind == q.kind # "invite" /\ q.copy # held.roster[q.who]
  IN /\ q.at = "write"
     /\ roster' = [held.roster EXCEPT ![q.who] = Changed(q)]
     /\ recent' = recent \cup {q.who}
     /\ Unlock(r)
     /\ Sessioned(q)
     /\ issued' = IF q.kind = "invite" THEN [issued EXCEPT ![q.who] = q.copy.token] ELSE issued
     /\ lost' = IF q.kind = "invite" THEN lost \ {q.who}
                ELSE IF behind THEN lost \cup {q.who} ELSE lost
     /\ UNCHANGED <<brief, served, torn, updates>>

\* updateBrief writes the text, ...
WriteBody(r) ==
  /\ req[r].at = "file"
  /\ brief' = [brief EXCEPT !.file = req[r].text]
  /\ req' = [req EXCEPT ![r].at = "meta"]
  /\ UNCHANGED <<roster, recent, lock, held, served, history>>

\* ... then the state that names it.
WriteMeta(r) ==
  /\ req[r].at = "meta"
  /\ brief' = [brief EXCEPT !.version = held.version + 1, !.stamp = req[r].text]
  /\ torn' = FALSE /\ updates' = updates + 1
  /\ UNCHANGED <<roster, recent, served, issued, lost, quiet, warned>>
  /\ Unlock(r)

\* A write fails, the lock is not had in time, or the process ends.
Fail(r) ==
  /\ req[r].at # "idle"
  /\ torn' = (torn \/ req[r].at = "meta")
  /\ UNCHANGED <<roster, recent, brief, served, issued, lost, quiet, warned, updates>>
  /\ Unlock(r)

\* ATTENDANCE_STALE_AFTER_MS pass since the participant was seen.
GoStale(a) ==
  /\ a \in recent
  /\ recent' = recent \ {a}
  /\ quiet' = [quiet EXCEPT ![a] = {}] /\ warned' = [warned EXCEPT ![a] = {}]
  /\ UNCHANGED <<roster, lock, held, req, brief, served, issued, lost, torn, updates>>

Next ==
  \/ \E r \in Requests :
       \/ Read(r) \/ Wait(r) \/ Leave(r) \/ LeaveAtHost(r)
       \/ PostProfile(r) \/ PostJoin(r) \/ PostBrief(r) \/ UpdateBriefDirect(r)
       \/ Invite(r) \/ CheckName(r) \/ TakeLock(r) \/ WriteBack(r)
       \/ WriteBody(r) \/ WriteMeta(r) \/ Fail(r)
  \/ \E a \in Aliases : GoStale(a)

Spec == Init /\ [][Next]_vars

----------------------------------------------------------------------------
\* Properties

\* The last token given out for an alias is the one that opens the room, unless
\* a request of that alias, authenticated before, has written its old record
\* back: requests of others never bring an old record back.
InviteKept == \A a \in Aliases \ lost : roster[a].token = issued[a]

\* Of the sessions that attend one alias at most one was never told of another:
\* two joins at once cannot both find the alias free.
NoDuplicateMissed == \A a \in Aliases : Cardinality(quiet[a]) <= 1

\* Updates of the brief neither share a version nor mix: but for an update that
\* ended between the two files, the text is the one the state speaks of.
BriefSettled ==
  /\ brief.version = updates
  /\ (\A r \in Requests : req[r].at # "meta") => torn \/ brief.file = brief.stamp

\* Under no policy does the roster show a mode of a participant that is neither
\* declared nor the manual floor, or more than the host asked for.
NeverOverclaims ==
  \A a \in Known, policy \in {"manual-ok", "all-foreground"} :
    LET mode == Row(a, policy).mode
    IN mode # None => /\ mode \in roster[a].supported \cup {Manual}
                      /\ mode >= roster[a].requested
=============================================================================
