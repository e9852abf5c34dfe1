------------------------------ MODULE RoomPage ------------------------------
(***************************************************************************)
(* The page of one room, browser/room.js: entry with a token, the timeline   *)
(* restored from the copy this device keeps and completed by polls, the      *)
(* backward read of older lines, the composer, and the state of the room and  *)
(* of the route to its host.                                               *)
(*                                                                         *)
(* A handler runs alone up to an await; the answer of a request is an action  *)
(* of its own.  What the host answers is fixed when it serves the request,   *)
(* which is earlier than the arrival.  The stored lines of the type system,   *)
(* which a restore leaves out, and the texts are not modelled.              *)
(***************************************************************************)
EXTENDS Integers, Sequences, FiniteSets, FiniteSetsExt, SequencesExt, Ordered

CONSTANTS
  Drafts,      \* what the user means to say, each once
  None,        \* no draft
  PageSize,    \* EARLIER_PAGE_SIZE
  BackupSize,  \* BACKUP_MAX_MESSAGES
  MaxId,       \* bound: the length of the room's log
  MaxKeys,     \* bound: client_msg_ids made by this device
  MaxLoads     \* bound: loads of the page

ASSUME PageAssumption ==
  /\ None \notin Drafts
  /\ PageSize \in Nat \ {0} /\ BackupSize \in Nat \ {0}
  /\ MaxId \in Nat /\ MaxKeys \in Nat /\ MaxLoads \in Nat \ {0}

Ids == 1 .. MaxId
Errors == {"degraded", "quota", "closed"}   \* what handlePollError makes of one
Stages == {"idle", "list", "verify", "confirm"}
Unserved == -1

VARIABLES
  log,        \* the host's lines: who sent it (a key of this device, or 0) and its draft
  shut,       \* the host has closed the room
  page,       \* the page's state
  entry,      \* the request that the entry waits for
  poll,       \* the poll under way: pollInFlight, and its request
  back,       \* the before_id of the backward read under way, or 0
  asked,      \* GET /status under way, and the status it carries once served
  post,       \* POST /messages under way: its key and, once served, its answer
  backup,     \* localStorage: per id no copy, a copy of a line of this room, or
              \* of a room that had its name before
  used,       \* drafts composed, over all loads
  keys,       \* number of client_msg_ids made
  loads,      \* number of loads
  skipped,    \* (history) lines that the cursor passed in an own post or that a
              \* restore found missing
  unproven    \* (history) a failed request ended the check of a restored copy, or
              \* a backward read was answered before that check

host == <<log, shut>>
calls == <<entry, poll, back, asked, post>>
counts == <<used, keys, loads>>
history == <<skipped, unproven>>
vars == <<host, page, calls, backup, counts, history>>

Fresh ==
  [phase |-> "unstarted", status |-> "open", connection |-> "live",
   cursor |-> 0, rows |-> <<>>, loaded |-> FALSE, final |-> FALSE, timers |-> 0,
   newest |-> 0, unverified |-> FALSE, seeded |-> {}, confirmed |-> FALSE,
   oldest |-> 0, more |-> FALSE, control |-> FALSE, busy |-> FALSE,
   armed |-> FALSE, composer |-> TRUE, draft |-> None, pending |-> 0, sending |-> FALSE]
Idle == [at |-> "idle", since |-> 0, upto |-> Unserved, cold |-> FALSE]
NoPost == [key |-> 0, draft |-> None, answer |-> "none", id |-> 0]

TypeOK ==
  /\ log \in Seq([key : 0 .. MaxKeys, draft : Drafts \cup {None}]) /\ Len(log) <= MaxId
  /\ shut \in BOOLEAN
  /\ page \in
       [phase : {"unstarted", "starting", "joining", "entering", "entered"},
        status : {"open", "closed"}, connection : {"live", "degraded", "quota"},
        cursor : 0 .. MaxId, rows : Seq([id : Ids, as : {"copy", "confirmed", "live"}]),
        loaded : BOOLEAN, final : BOOLEAN, timers : {0, 1},
        newest : 0 .. MaxId, unverified : BOOLEAN, seeded : SUBSET Ids, confirmed : BOOLEAN,
        oldest : 0 .. MaxId, more : BOOLEAN, control : BOOLEAN, busy : BOOLEAN,
        armed : BOOLEAN, composer : BOOLEAN, draft : Drafts \cup {None},
        pending : 0 .. MaxKeys, sending : BOOLEAN]
  /\ entry \in {"none", "profile", "claim", "status", "poll"}
  /\ poll \in [at : Stages, since : 0 .. MaxId, upto : {Unserved} \cup 0 .. MaxId, cold : BOOLEAN]
  /\ back \in 0 .. MaxId
  /\ asked \in {"none", "sent", "open", "closed"}
  /\ post \in [key : 0 .. MaxKeys, draft : Drafts \cup {None},
               answer : {"none", "sent", "stored", "refused"}, id : 0 .. MaxId]
  /\ backup \in [Ids -> {"none", "ours", "other"}]
  /\ used \subseteq Drafts /\ keys \in 0 .. MaxKeys /\ loads \in 1 .. MaxLoads
  /\ skipped \subseteq Ids /\ unproven \in BOOLEAN

\* The device may hold the newest lines of a room that had the same name.
Init ==
  /\ log = <<>> /\ shut = FALSE
  /\ page = Fresh
  /\ entry = "none" /\ poll = Idle /\ back = 0 /\ asked = "none" /\ post = NoPost
  /\ \E last \in 0 .. MaxId :
       backup = [i \in Ids |-> IF i <= last /\ i > last - BackupSize THEN "other" ELSE "none"]
  /\ used = {} /\ keys = 0 /\ loads = 1
  /\ skipped = {} /\ unproven = FALSE

----------------------------------------------------------------------------
\* Helpers on the page

Shown(p) == {row.id : row \in ToSet(p.rows)}
RowsOf(ids, as) == [i \in 1 .. Cardinality(ids) |-> [id |-> Ascending(ids)[i], as |-> as]]

\* applyRoomState
Applied(p) == [p EXCEPT !.composer = p.status # "closed" /\ ~p.sending
                                     /\ p.connection # "degraded"]

\* handlePollError
Failed(p, e) ==
  Applied(IF e = "closed" THEN [p EXCEPT !.status = "closed"] ELSE [p EXCEPT !.connection = e])

\* markConnectionLive
Live(p) == IF p.connection = "live" THEN p ELSE Applied([p EXCEPT !.connection = "live"])

\* finalizeClosedRoom, with stopPolling
Finalized(p) == Applied([p EXCEPT !.final = TRUE, !.timers = 0])

\* advanceCursorTo
AdvanceCursor(p, id) == IF id > p.cursor THEN [p EXCEPT !.cursor = id] ELSE p

\* discardRestoredHistory
Discarded(p) ==
  [p EXCEPT !.rows = <<>>, !.cursor = 0, !.newest = 0, !.oldest = 0, !.more = FALSE,
            !.control = FALSE, !.busy = FALSE]

\* recordBackupBatch: the newest BackupSize lines stay
Recorded(ids) ==
  LET held == ids \cup {i \in Ids : backup[i] # "none"}
  IN [i \in Ids |->
        IF i \notin held \/ Cardinality({j \in held : j > i}) >= BackupSize THEN "none"
        ELSE IF i \in ids THEN "ours" ELSE backup[i]]

\* The host's page of the newest lines before b
Before(b) == {i \in 1 .. Len(log) : i < b /\ i >= Min({b, Len(log) + 1}) - PageSize}

\* pollMessages up to its request
Ask(p) == [at |-> "list", since |-> p.cursor, upto |-> Unserved,
           cold |-> ~p.loaded /\ p.cursor = 0 /\ p.rows = <<>>]

\* Slip: every poll that ends starts the intervals
EndPollStarting(p) ==
  LET ended == IF p.status = "closed" THEN Finalized(p) ELSE p
  IN /\ poll' = Idle
     /\ page' = [ended EXCEPT !.armed = TRUE, !.timers = IF ended.final THEN @ ELSE @ + 1]
     /\ entry' = IF entry = "poll" THEN "none" ELSE entry

\* The end of pollMessages, and of enterRoom when it waited for this poll
EndPoll(p) ==
  LET ended == IF p.status = "closed" THEN Finalized(p) ELSE p
  IN /\ poll' = Idle
     /\ page' = IF entry # "poll" THEN ended
                ELSE [ended EXCEPT !.armed = TRUE,
                                   !.timers = IF ended.final THEN @ ELSE @ + 1]
     /\ entry' = IF entry = "poll" THEN "none" ELSE entry

----------------------------------------------------------------------------
\* Entry

\* startWithToken up to GET /profile.  A second token changes nothing.
Start ==
  /\ page.phase = "unstarted"
  /\ page' = [page EXCEPT !.phase = "starting"]
  /\ entry' = "profile"
  /\ UNCHANGED <<host, poll, back, asked, post, backup, counts, history>>

\* enterRoom up to its first requests; only once
Enter(p) ==
  /\ page' = [p EXCEPT !.phase = "entered"]
  /\ entry' = "status" /\ asked' = "sent"

\* The answer to GET /profile: the token is refused, the host fails, the
\* participant has a name, the host has none, or a human has none.
ProfileArrives ==
  /\ entry = "profile"
  /\ \/ /\ page' = [page EXCEPT !.phase = "unstarted"]
        /\ entry' = "none" /\ UNCHANGED asked
     \/ \E e \in Errors : Enter(Failed(page, e))
     \/ Enter(page)
     \/ entry' = "claim" /\ UNCHANGED <<page, asked>>
     \/ /\ page' = [page EXCEPT !.phase = "joining"]
        /\ entry' = "none" /\ UNCHANGED asked
  /\ UNCHANGED <<host, poll, back, post, backup, counts, history>>

\* submitProfile up to its request
SubmitProfile ==
  /\ page.phase = "joining"
  /\ page' = [page EXCEPT !.phase = "entering"]
  /\ entry' = "claim"
  /\ UNCHANGED <<host, poll, back, asked, post, backup, counts, history>>

\* The answer to claimDisplayName.  A failure reopens the form or the entry.
ClaimArrives ==
  /\ entry = "claim"
  /\ \/ Enter(page)
     \/ /\ page' = [page EXCEPT !.phase = IF @ = "entering" THEN "joining" ELSE "unstarted"]
        /\ entry' = "none" /\ UNCHANGED asked
  /\ UNCHANGED <<host, poll, back, post, backup, counts, history>>

\* loadBrief fails while the entry waits for it
BriefFails ==
  /\ entry = "status"
  /\ \E e \in Errors : page' = Failed(page, e)
  /\ UNCHANGED <<host, calls, backup, counts, history>>

\* seedEntryFromBackup and the first poll, once brief and status are settled
Seed ==
  /\ entry = "status" /\ asked = "none"
  /\ LET held == {i \in Ids : backup[i] # "none"}
         lowest == Min(held)
         highest == Max(held)
         seeded ==
           IF held = {} THEN page
           ELSE [page EXCEPT !.rows = RowsOf(held, "copy"),
                             !.cursor = highest, !.newest = highest, !.oldest = lowest,
                             !.more = lowest > 1, !.control = lowest > 1,
                             !.seeded = held, !.unverified = TRUE]
     IN /\ page' = seeded
        /\ poll' = Ask(seeded)
        /\ skipped' = IF held = {} THEN skipped
                      ELSE skipped \cup ((lowest .. highest) \ held)
  /\ entry' = "poll"
  /\ UNCHANGED <<host, back, asked, post, backup, counts, unproven>>

\* The page is loaded again: every request is dropped, the token and the copy stay
Load ==
  /\ loads < MaxLoads
  /\ page.phase # "unstarted"
  /\ loads' = loads + 1
  /\ page' = Fresh
  /\ entry' = "none" /\ poll' = Idle /\ back' = 0 /\ asked' = "none" /\ post' = NoPost
  /\ skipped' = {} /\ unproven' = FALSE
  /\ UNCHANGED <<host, backup, used, keys>>

----------------------------------------------------------------------------
\* Polls

\* The interval of pollMessages fires
PollTick ==
  /\ page.timers > 0
  /\ ~(page.status = "closed" /\ page.final)
  /\ poll.at = "idle"
  /\ poll' = Ask(page)
  /\ UNCHANGED <<host, page, entry, back, asked, post, backup, counts, history>>

\* The host reads its log for the request under way
HostServes ==
  /\ poll.at # "idle" /\ poll.upto = Unserved
  /\ poll' = [poll EXCEPT !.upto = Len(log)]
  /\ UNCHANGED <<host, page, entry, back, asked, post, backup, counts, history>>

\* confirmSeededAuthors up to its request, or the end of the poll
Confirm(p) ==
  IF p.confirmed \/ p.seeded = {} THEN EndPoll(p)
  ELSE /\ page' = [p EXCEPT !.confirmed = TRUE]
       /\ poll' = [Idle EXCEPT !.at = "confirm"]
       /\ UNCHANGED entry

\* Slip: an empty first poll is taken as a confirmation of the restored copy
TrustSeed(p, empty) ==
  IF ~p.unverified THEN EndPoll(p) ELSE Confirm([p EXCEPT !.unverified = FALSE])

\* A restored copy is checked after the first poll that was answered: verifyRestoredHead up
\* to its request when that poll was empty
CheckSeed(p, empty) ==
  IF ~p.unverified THEN EndPoll(p)
  ELSE IF empty /\ p.newest > 0
       THEN /\ page' = [p EXCEPT !.unverified = FALSE]
            /\ poll' = [Idle EXCEPT !.at = "verify"]
            /\ UNCHANGED entry
       ELSE Confirm([p EXCEPT !.unverified = FALSE])

\* The batch of lines that the poll under way was served
Batch ==
  LET served == 1 .. poll.upto
  IN IF poll.cold THEN {i \in served : i > poll.upto - PageSize}
     ELSE {i \in served : i > poll.since}

\* The page with the lines of a batch that it did not show
Rendered(p, ids) == [p EXCEPT !.rows = @ \o RowsOf(ids \ Shown(p), "live"), !.loaded = TRUE]

\* Slip: the control for the lines before the page is not put on the timeline
OpenedUnmounted(p, ids) ==
  IF ids = {} THEN [p EXCEPT !.more = FALSE]
  ELSE [AdvanceCursor(p, Max(ids)) EXCEPT !.oldest = Min(ids), !.more = Min(ids) > 1]

\* What a cold poll does to the cursor and to the backward read
Opened(p, ids) ==
  IF ids = {} THEN [p EXCEPT !.more = FALSE]
  ELSE [AdvanceCursor(p, Max(ids)) EXCEPT
          !.oldest = Min(ids), !.more = Min(ids) > 1, !.control = Min(ids) > 1]

\* pollMessages after its request
PollArrives ==
  /\ poll.at = "list" /\ poll.upto # Unserved
  /\ LET fresh == Batch \ Shown(page)
         rendered == Rendered(Live(page), Batch)
         kept == [rendered EXCEPT !.newest = Max(fresh \cup {@})]
     IN /\ CheckSeed(IF poll.cold THEN Opened(kept, Batch)
                     ELSE AdvanceCursor(kept, Max(Batch \cup {poll.since})), Batch = {})
        /\ backup' = IF fresh = {} THEN backup ELSE Recorded(fresh)
  /\ UNCHANGED <<host, back, asked, post, counts, history>>

\* The request for lines fails
PollFails ==
  /\ poll.at = "list"
  /\ \E e \in Errors : EndPoll(Failed(page, e))
  /\ UNCHANGED <<host, back, asked, post, backup, counts, history>>

\* verifyRestoredHead after its request: the host holds the head of the copy, or
\* the copy is dropped and the lines are asked for from the beginning.
VerifyArrives ==
  /\ poll.at = "verify" /\ poll.upto # Unserved
  /\ IF page.newest <= poll.upto
     THEN Confirm(page) /\ UNCHANGED backup
     ELSE /\ page' = Discarded(page)
          /\ poll' = Ask(Discarded(page))
          /\ backup' = [i \in Ids |-> "none"]
          /\ UNCHANGED entry
  /\ unproven' = (unproven /\ page.newest <= poll.upto)
  /\ UNCHANGED <<host, back, asked, post, counts, skipped>>

\* A failure of that request leaves the copy; no later poll asks again.
VerifyFails ==
  /\ poll.at = "verify"
  /\ Confirm(page)
  /\ unproven' = TRUE
  /\ UNCHANGED <<host, back, asked, post, backup, counts, skipped>>

\* confirmSeededAuthors after its request: restored rows become the host's lines
ConfirmArrives ==
  /\ poll.at = "confirm" /\ poll.upto # Unserved
  /\ EndPoll([page EXCEPT !.rows =
       [i \in DOMAIN @ |-> IF @[i].as = "copy" /\ @[i].id \in page.seeded /\ @[i].id <= poll.upto
                           THEN [@[i] EXCEPT !.as = "confirmed"] ELSE @[i]]])
  /\ UNCHANGED <<host, back, asked, post, backup, counts, history>>

ConfirmFails ==
  /\ poll.at = "confirm"
  /\ EndPoll(page)
  /\ UNCHANGED <<host, back, asked, post, backup, counts, history>>

----------------------------------------------------------------------------
\* The backward read

\* loadEarlierMessages up to its request
LoadEarlier ==
  /\ page.control /\ page.more /\ ~page.busy
  /\ page.connection # "degraded"
  /\ page.oldest > 1 /\ back = 0
  /\ page' = [page EXCEPT !.busy = TRUE]
  /\ back' = page.oldest
  /\ UNCHANGED <<host, entry, poll, asked, post, backup, counts, history>>

\* loadEarlierMessages after its request.  A page that lost its control drops it.
EarlierArrives ==
  /\ back > 0
  /\ LET older == Before(back)
         rows == RowsOf(older \ Shown(page), "live") \o page.rows
     IN page' = IF ~page.control THEN [page EXCEPT !.busy = FALSE]
                ELSE [page EXCEPT !.rows = rows, !.busy = FALSE,
                                  !.oldest = IF older = {} THEN @ ELSE Min(older),
                                  !.more = older # {} /\ Min(older) > 1]
  /\ back' = 0
  /\ unproven' = (unproven \/ (page.control /\ (page.unverified \/ poll.at = "verify")))
  /\ UNCHANGED <<host, entry, poll, asked, post, backup, counts, skipped>>

EarlierFails ==
  /\ back > 0
  /\ page' = [page EXCEPT !.busy = FALSE]
  /\ back' = 0
  /\ UNCHANGED <<host, entry, poll, asked, post, backup, counts, history>>

----------------------------------------------------------------------------
\* Status

\* The interval of loadStatus fires
StatusTick ==
  /\ page.timers > 0 /\ asked = "none"
  /\ asked' = "sent"
  /\ UNCHANGED <<host, page, entry, poll, back, post, backup, counts, history>>

HostReports ==
  /\ asked = "sent"
  /\ asked' = IF shut THEN "closed" ELSE "open"
  /\ UNCHANGED <<host, page, entry, poll, back, post, backup, counts, history>>

\* loadStatus after its request
StatusArrives ==
  /\ asked \in {"open", "closed"}
  /\ page' = Applied([Live(page) EXCEPT !.status = asked])
  /\ asked' = "none"
  /\ UNCHANGED <<host, entry, poll, back, post, backup, counts, history>>

StatusFails ==
  /\ asked # "none"
  /\ \E e \in Errors : page' = Failed(page, e)
  /\ asked' = "none"
  /\ UNCHANGED <<host, entry, poll, back, post, backup, counts, history>>

\* closeRoom: the page of the host closes the room and asks for its status
CloseRoom ==
  /\ page.armed /\ asked = "none"
  /\ shut' = TRUE
  /\ page' = [page EXCEPT !.status = "closed"]
  /\ asked' = "sent"
  /\ UNCHANGED <<log, entry, poll, back, post, backup, counts, history>>

----------------------------------------------------------------------------
\* The composer

\* The text changes: clearPendingSendIfTextChanged drops the key of the old one
Compose ==
  /\ page.armed /\ page.composer
  /\ \E d \in Drafts \ used :
       /\ page' = [page EXCEPT !.draft = d, !.pending = 0]
       /\ used' = used \cup {d}
  /\ UNCHANGED <<host, calls, backup, keys, loads, history>>

\* Slip: every attempt to send gets a new key
NewKey == keys + 1

\* ensurePendingSend: the key of the draft, made when it has none
PendingKey == IF page.pending = 0 THEN keys + 1 ELSE page.pending

\* submitMessage up to its request
Submit ==
  /\ page.armed /\ page.composer /\ ~page.sending
  /\ page.draft # None
  /\ PendingKey <= MaxKeys
  /\ keys' = Max({keys, PendingKey})
  /\ page' = [page EXCEPT !.pending = PendingKey, !.sending = TRUE, !.composer = FALSE]
  /\ post' = [key |-> PendingKey, draft |-> page.draft, answer |-> "sent", id |-> 0]
  /\ UNCHANGED <<host, entry, poll, back, asked, backup, used, loads, history>>

\* The host stores the message, or finds it stored under its key, or refuses it
HostStores ==
  /\ post.answer = "sent"
  /\ \/ /\ ~shut
        /\ LET stored == {i \in 1 .. Len(log) : log[i].key = post.key}
           IN IF stored # {}
              THEN /\ post' = [post EXCEPT !.answer = "stored", !.id = Max(stored)]
                   /\ UNCHANGED log
              ELSE /\ Len(log) < MaxId
                   /\ log' = Append(log, [key |-> post.key, draft |-> post.draft])
                   /\ post' = [post EXCEPT !.answer = "stored", !.id = Len(log) + 1]
     \/ post' = [post EXCEPT !.answer = "refused"] /\ UNCHANGED log
  /\ UNCHANGED <<shut, page, entry, poll, back, asked, backup, counts, history>>

\* What both ends of submitMessage do to the composer
Resumed(p) == [p EXCEPT !.sending = FALSE, !.composer = p.status # "closed"]

\* Slip: the answer is rendered although a poll has shown the line
RenderPost(p, id) ==
  AdvanceCursor([p EXCEPT !.rows = Append(@, [id |-> id, as |-> "live"])], id)

\* A stored line that is not shown yet is rendered and moves the cursor
ShowPost(p, id) ==
  IF id \in Shown(p) THEN p
  ELSE AdvanceCursor([p EXCEPT !.rows = Append(@, [id |-> id, as |-> "live"])], id)

\* submitMessage after its request
PostArrives ==
  /\ post.answer = "stored"
  /\ page' = ShowPost([Resumed(page) EXCEPT !.draft = None, !.pending = 0], post.id)
  /\ skipped' = skipped \cup {i \in Ids : page.cursor < i /\ i < post.id /\ i \notin Shown(page)}
  /\ post' = NoPost
  /\ UNCHANGED <<host, entry, poll, back, asked, backup, counts, unproven>>

\* The request was refused, or its answer is lost: text and key stay for a retry
PostFails ==
  /\ post.answer # "none"
  /\ \/ post.answer = "refused" /\ page' = Resumed(page)
     \/ \E e \in Errors : page' = Failed(Resumed(page), e)
  /\ post' = NoPost
  /\ UNCHANGED <<host, entry, poll, back, asked, backup, counts, history>>

----------------------------------------------------------------------------
\* The host's side, external to the page

OtherPosts ==
  /\ ~shut /\ Len(log) < MaxId
  /\ log' = Append(log, [key |-> 0, draft |-> None])
  /\ UNCHANGED <<shut, page, calls, backup, counts, history>>

HostCloses ==
  /\ ~shut /\ shut' = TRUE
  /\ UNCHANGED <<log, page, calls, backup, counts, history>>

Entering == Start \/ ProfileArrives \/ SubmitProfile \/ ClaimArrives \/ BriefFails \/ Seed \/ Load
Polling ==
  \/ PollTick \/ HostServes \/ PollArrives \/ PollFails \/ VerifyArrives \/ VerifyFails
  \/ ConfirmArrives \/ ConfirmFails
Reading == LoadEarlier \/ EarlierArrives \/ EarlierFails
Lifecycle == StatusTick \/ HostReports \/ StatusArrives \/ StatusFails \/ CloseRoom
Sending == Compose \/ Submit \/ HostStores \/ PostArrives \/ PostFails

Next == Entering \/ Polling \/ Reading \/ Lifecycle \/ Sending \/ OtherPosts \/ HostCloses

Spec == Init /\ [][Next]_vars

----------------------------------------------------------------------------
\* Properties

\* A line is on the timeline once, whichever of the restore, the polls, the
\* backward reads and the answer to an own post, which run at the same time,
\* brings it (room.js:1288-1290, 1013, 1692).
RowsOnce == \A i, j \in DOMAIN page.rows : page.rows[i].id = page.rows[j].id => i = j

\* What the user sends once stands once in the log, however often the request is
\* repeated after a lost answer: the retry carries the key of the first attempt
\* (ensurePendingSend, room.js:2141-2151).
SentOnce ==
  \A d \in Drafts : Cardinality({i \in 1 .. Len(log) : log[i].draft = d}) <= 1

\* The entry is over and no request for lines is under way
Settled == page.armed /\ poll.at = "idle" /\ page.loaded

\* Lines that the next poll will not bring, that the backward read does not reach, and
\* that are not shown
Missing ==
  {i \in 1 .. Len(log) : /\ i <= page.cursor
                         /\ page.control /\ page.more => i >= page.oldest
                         /\ i \notin Shown(page)}

\* After an entry the lines of the room up to the cursor are all shown or within
\* reach of the control for earlier ones, whether the copy was restored, confirmed or
\* dropped, and whatever arrives between; only an own post, which moves the
\* cursor (room.js:1695) and leaves no copy, makes gaps.
OnlyPostsSkip == Settled /\ ~unproven => Missing \subseteq skipped

\* A restored cursor never sits ahead of the room (room.js:1109-1116), as long as the request
\* that checks it is answered.
CursorWithinRoom == Settled /\ ~unproven => page.cursor <= Len(log)
=============================================================================
