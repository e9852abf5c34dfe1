# agentgather: a TLA+ model

agentgather runs *rooms* in which agents and humans exchange messages. A host
keeps a room as files and serves it over HTTP; participants post, and attend by
long-polling. A tunnel relays requests of remote participants to the host, and
a dashboard ("platform") keeps the rooms a device has joined.

The modules here model the parts of `src/src` whose correctness rests on
interleaving, failure and time; TLC checks them on small instances, and TLAPS
proves the safety properties for every value of the constants. Paths below are
relative to the repository, whose implementation is `src/src`.

## 1. Inventory

| Component | State | Operations | Hard behaviour | What makes it correct |
|---|---|---|---|---|
| Writer lock `storage/lock.ts` | lock file, reclaim lock file, files moved aside | acquire, release, remove a stale lock, clear an abandoned reclaim lock | file-system calls of several processes interleave; holders die; a record is read before it is written | mutual exclusion, no live lock removed, dead holders' locks reclaimed |
| Room store `storage/room-store.ts` | `state.json`, `messages.jsonl`, `participants.json`, `brief.md`, cursors | create, append (two files), close, session, policy, brief, roster, recover | a crash between two files; decisions taken before the lock | gapless ids, idempotent retries, cap, final close |
| Room server `server/http.ts`, `runtime.ts` | loop counts, pending automatic continue, rate windows; the store | every endpoint | state read before an `await` and used after it; timers | every pause has a timer and ends, bounded runs |
| Participants and brief `server/http.ts`, `storage/room-store.ts`, `protocol/{attention,attendance}.ts` | `participants.json`, `brief.md` and its version | join, leave, profile, touch, invite, update the brief | a record read at authentication is written back later; joins that race; two files | invitations are not undone, duplicates are warned, brief and version agree |
| Wait hub `server/wait.ts` | held requests of each room | wait, notify | a message between snapshot and registration; close | no lost or repeated line, close releases |
| Attendance `cli/commands/{attend,wake-adapter,watch,message}` | cursor on disk and in memory | one turn, loop, restart | crash between saving and acting, lost responses | at most once, nothing skipped, arrival |
| Tunnel broker `tunnel/{broker,relay,limits}.ts` | routes, queue, in-flight requests, counters | register, heartbeat, poll, respond, close, forward | timeouts against late answers, routes that go away under a request | every request answered once, no request run twice, limits hold |
| Host session `tunnel/{host-session,client}.ts` | poll loop, handlers, heartbeat | start, poll, handle, stop | stop while handlers run, transient against fatal failures | stop drains, a lost route ends the session |
| Metering `platform/metering.ts` | usage record of each owner | check, record | check and record apart | bounded overshoot, no lost update |
| Joined rooms and history `storage/joined-*.ts`, `cli/state.ts` | rows, seats, tokens, snapshots | join, refresh, archive, delete, record, open | two stores under two locks; a page that works with an old list | a snapshot never outlives its row, the newest message stays, a room opens as shown |
| Boardroom and forum `storage/{boardroom,forum}-store.ts` | channels, posts, comment logs | create, comment, set status, add and rename a channel | ids that count a log; whole files written back; writers that die half-way | ids count the log, no update of the board is lost |
| Platform `platform/{registry,accounts,http,api,status}.ts` | room metadata | create, read, list, dashboard requests | stale metadata | status follows its inputs |
| Room page `browser/room.js` | timeline, cursor, composer, the copy in `localStorage` | enter, restore, poll, read backwards, send | answers out of order, lost answers, a copy of another room | no line twice, no message sent twice, no gaps but those of own posts |
| Dashboard page `browser/shell.js` | selection, transcript, cache, intervals, lists, manage view | select, poll, delete and archive in bulk | late answers, two stores that fail apart | each line once, what was confirmed is what is deleted, no silent partial result |
| Forum page `browser/forum.js` | feed, thread, address | select, comment, post | threads that arrive late | loading comes to an end |
| Protocol rules `protocol/*.ts` | none | mentions, wake tier, validation | priorities among rules | agreement with a reference definition |
| Rest of the CLI, tokens | settings | one-shot commands | none of their own | |

How they interact: every write of a room, of the joined rooms and of the metering
records runs in `withWriterLock`. The server's handlers read the state without the lock, decide, and
call a locked store function, which may find a different state. The server
announces its appends to the wait hub; a waiting client then reads the
log again. A command line that cannot reach the server appends to the log
itself, under the same lock, and announces nothing. The broker queues a
participant's request, the host session claims it, runs it against the room
server and posts the response back. Room tabs post the history they have loaded to the
dashboard server of their device, which keeps it for the time when the host is gone.

`PROJECT.json` lists every hazard found, with the line where it bites and the
properties aimed at it, or the reason none is.

## 2. The modules

Each component has a module with its state and one action per step and an `MC...`
module with the definitions its configurations need. Its proofs are in a `..._proofs`
module: `Storage_proofs` for `WriterLock` and `RoomStore`, `Browser_proofs` for `RoomPage` and `Dashboard`,
one of its own for each other. Where two modules share proofs, the definitions of one say what they belong to (`LockInit`, `DashboardSpec`). A step ends where the code awaits. A secure file is replaced by a
rename, so writing one file is one step; writing two is two. Operators marked
"Slip" are mutated forms of the operator after them, each a plausible mistake in
that code; no specification uses one.

### Mutex, WriterLock

`Mutex` is what a lock promises: at most one holder at a time, entering and leaving one by one.
`WriterLock` is `lock.ts` call by call. `lock` and `reclaim` are the two paths;
`moved[c]` is the file that caller `c` renamed aside; `raw[c]` the record it
read and judges; `stage[c]` its place. A file records its creator, whether the
creator's pid has been written, and whether it is older than `staleAfterMs`.

| Code | Actions |
|---|---|
| `acquireWriterLock` | `Create`, `WriteRecord`, `WriteRecordFails`, `Chmod`, `Contend`, `TimeOut` |
| `withWriterLock`, finally | `Release` |
| `removeStaleLock` | `ReadLock`, `JudgeLock` |
| `reclaimStaleRecord` | `ReclaimCreate`, `ReclaimWriteRecord`, `ReclaimReread`, `ReclaimRemove`, `ReclaimRelease` |
| `clearAbandonedReclaimLock` | `ReadReclaim`, `JudgeReclaim` |
| `takeOverAbandonedFile` | `TakeOverRename`, `TakeOverCheck`, `TakeOverLink` |
| the machine | `Crash`, `Age` |

`CrashAt` and `StallAt` say where a process may die and where a live one may be
held up for the stale window. The algorithm is safe only in some of them:
`SafeWindows` names the rest. A caller that dies after the create and before the
record, or stalls there for the stale window, leaves a file that others judge by age alone; a holder of the reclaim
lock that dies lets two take-overs overlap. `lock.ts` documents the choice to judge
malformed records by age (lines 79-90). Recovery is checked with every
crash and stall allowed, safety within `SafeWindows`.

### RoomLog, RoomStore

`RoomLog` is what participants can rely on: numbered lines that stay, one line for a message however often it is sent, an answer
that names the own line, and a close that is final. Its `LAnswer` and `LRecord` are apart because the store answers after its second write.
`RoomStore` is one room's state file and log, and the requests that use them. `holder` is the request between
its two writes, `seen` the state it read; `dirty` says that an
append was left without its state. `Arrive` and `CheckRoom` are the server's
side (`requireRoomOpen`, `closeExpiredRoomIfNeeded`), outside the lock. `Close`,
`CloseExpired`, `StartSession`, `EndSession`, `SetPolicy` are the locked
functions that write the state alone; each is followed by a lifecycle line.
`Post`, `PostAgain`, `PostFull` are the outcomes of `appendMessageResult`,
`AppendNote` and `AppendTtlNote` those of `appendServerMessage`;
`SaveNextId` is the second write of both, `InterruptSave` its loss, and
`RecoverState` `recoverRoomState`. `Recovery` says whether that scan runs; the
documents say so, the program never calls it. `told` records what clients were answered.

### LoopGuard

The guard of `postMessage` and the automatic continue. A slot is a request
under way, a timer is one `setTimeout` with its callback. `pc` and `timer` are at the
awaits: after reading the preference (`schedule`), before the append, after
reading the room (`readOpen`, `readClosed`), before the approval (`appending`).
`CancelPending`, `ClearCounts`, `Schedule`, `Fire` ... `AppendApproval` are the
functions and segments of `http.ts` 1052-1193. `budget` records
history for `RunBounded`.

### Attendance

`lines` is the log's length and `since`, `stored`, `upto` are a client's cursors: in
memory, on disk, and in the response it is getting. The server's half of a turn
is `ReadState`, `ReadLines`, `Register`, `HoldEnds`; the client's half `Ask`,
`Receive` or `Lose`, `Save`, `Take`. `Notify` releases the requests
held at that moment and no other. `kind` is the command a client runs; `attend`
ends at the first batch, the wake adapter goes on. `Crash` and `Start`
are the death and the restart of a client.

### RelayCall, Tunnel

`RelayCall` is what a relay promises of each request: it is run at most once, and once
it is settled as not run it stays so. `Tunnel` is one slug of the broker with the sessions
that attend it. `pc[r]` is a request's place in `forward`: before the meter
(`quota`), before the route check (`route`), awaiting its body (`body`), in the relay's queue
(`queued`), handed out (`claimed`), awaiting the meter again (`record`). `route` is the
slug's metadata, its host the session whose ids it has; `attended` stands for the
heartbeat's age. `stage`, `loop`, `got`, `handler` are a session: running or
stopping, its poll loop, the answer it got, its handlers. `told` separates what the
code answers alike: `unattended` and `unanswered` are the two messages of `host_unavailable`,
`closed` and `displaced` the two callers of `RelayHub.closeRoute`.

| Code | Actions |
|---|---|
| `resolve`, `BrokerGuards.enter` | `Refuse`, `Enter` |
| `forward`, `forwardViaRelay`, `BrokerMeter` | `CheckQuota`, `CheckRoute`, `BodyFails`, `Enqueue`, `Record` |
| `RelayHub` timers | `ClaimTimeout`, `ResponseTimeout` |
| `register`, `refresh`, `closeRoute` | `Register`, `Lapse`, `Expire`, `CloseRoute` |
| `claimRelay`, `RelayHub.claim` | `ClaimRefused`, `Claim`, `ClaimNothing` |
| `respondRelay`, `RelayHub.respond` | `Respond` |
| `runPollLoop` | `LoopTop`, `PollFails`, `Dispatch` |
| `handle`, `handleClaim`, `relayToLocalServer` | `Fetch`, `RespondFails` |
| `beat`, `stop`, `tunnelRun` | `Beat`, `CloseFails`, `Interrupt` |
| the machines | `Crash`, `Restart` |

A message of a session and the broker's handling of it are one step, and so are the answer
and the session's use of it, except the poll's, whose answer is on its way in between.
What a session sent before it died is delivered before that or not at all. A broker is given a meter by
`createBrokerMeter`; the command line starts one without, which is the same with a quota that is never reached.

### Roster

The participants and the brief of a room. A request is at `check` (its name is compared,
without the lock), at `lock`, and past `TakeLock` at `write`, or for the brief at `file` and
`meta`. `copy` is the record it read when it authenticated, `held` what it read under the lock: `WriteBack`
puts the changed copy into the roster held, which is what `upsertParticipant` does.

| Code | Actions |
|---|---|
| `requireParticipant`, then the endpoint | `Read`, `Wait`, `Leave`, `PostProfile`, `PostJoin`, `PostBrief` |
| `findNameOwnerConflict` | `CheckName` |
| commands in the host's home | `LeaveAtHost`, `UpdateBriefDirect`, `Invite` |
| `withWriterLock` | `TakeLock`, `Fail` |
| `upsertParticipant`, `joinParticipant` | `WriteBack` |
| `updateBrief` | `WriteBody`, `WriteMeta` |
| time | `GoStale` |

`quiet` and `warned` are the sessions that attend and were or were not told of another; `lost` says
whose record a late write-back has undone, `torn` that an update ended between its two files.

### Forum

`board`, `post`, `log` are the files, `held` what the owner of the lock has read. A call is a request of the page or a
command, at `sent`, `lock`, `held` or `done`; the page handles answers in any order. A writer that
dies leaves a directory without a post, or half a line (`torn`).

| Code | Actions |
|---|---|
| commands of the host | `AddChannel`, `RenameChannel`, `PostByCommand`, `CommentByCommand`, `SetStatus`, `CommandEnds` |
| `getForumPosts`, `getForumPost`, `forumGuard` | `ServeList`, `ServeThread`, `Admit` |
| the two stores | `TakeLock`, `WriteBoard`, `WritePost`, `WriteComment`, `WriteStatus`, `Die` |
| `forum.js` up to a request | `Select`, `BackToFeed`, `SubmitComment`, `SubmitPost` |
| `forum.js` after it | `ListArrives`, `ThreadArrives`, `ThreadFails`, `CommentArrives`, `PostArrives` |
| room and network | `CloseRoom`, `Lose` |

### JoinedRooms

`rows`, `tokens`, `state` and `ids` are the device's files. A change of rows is one step under one lock; a history post is three
(`ReceiveHistory` passes the first check, `TakeSnapshotLock` repeats it, `Write` merges and bounds), a delete is one for the
rows and one for each snapshot (`DeleteRow` or `DeleteSelection`, `ClearSnapshot` or `ClearFails`). `Remember` is an import or a join,
`RefreshFromBridge` what a room tab reports. `ListRooms`, `ChooseSeat` and `OpenRoom` are the dashboard's choice of a seat, made
from the list it read last. `newest` and `stranded` are history. There is no abstract specification of a store that would say more
than the four properties.

### RoomPage, Dashboard

The two larger pages. `Ordered` holds what both use: the members of a set of line numbers in ascending order. A handler runs alone up to its `await`; what comes after it is an action that finds the page as later
handlers left it. In `RoomPage` a request has two further steps: the host serves it (`HostServes`, `HostReports`, `HostStores`), which fixes the
answer, and the answer arrives or fails. `entry` is what entering waits for, `poll` the one poll under way, `back` the backward read,
`post` the message being sent. `Load` is a new load of the page, which keeps the token and the copy in `localStorage`.

| Code in `room.js` | Actions |
|---|---|
| `startWithToken`, `submitProfile`, `claimDisplayName`, `enterRoom` | `Start`, `ProfileArrives`, `SubmitProfile`, `ClaimArrives`, `BriefFails`, `Seed` |
| `pollMessages` | `PollTick`, `PollArrives`, `PollFails` |
| `verifyRestoredHead`, `confirmSeededAuthors` | `VerifyArrives`, `VerifyFails`, `ConfirmArrives`, `ConfirmFails` |
| `loadEarlierMessages` | `LoadEarlier`, `EarlierArrives`, `EarlierFails` |
| `loadStatus`, `closeRoom` | `StatusTick`, `StatusArrives`, `StatusFails`, `CloseRoom` |
| `submitMessage` | `Compose`, `Submit`, `PostArrives`, `PostFails` |

| Code in `shell.js` | Actions |
|---|---|
| `selectRoom`, `loadChat`, `goHome`, `clearActiveCache` | `SelectRoom`, `Poll`, `ShowLive`, `ShowOffline`, `GoHome`, `ClearActiveCache` |
| `loadRooms`, `loadJoinedRooms` | `LoadRooms`, `AskJoinedRooms`, `LoadJoinedRooms` |
| `showJoinedSnapshot`, `renderJoinedSnapshot` | `ShowSnapshot`, `RenderSnapshot` |
| the row's buttons | `ToggleArchive`, `DeleteEntry`, `AddFromInput` |
| the manage view | `OpenManage`, `LeaveManage`, `Tick`, `TickAll`, `Filter`, `ShowDeleteConfirm`, `HideConfirm`, `StartRun`, `PlatformAnswers`, `EndRun` |

## 3. The runs

| Run | Instance | Shows |
|---|---|---|
| `lock_safe` | 4 callers in 4 processes, crashes and stalls in the safe windows | mutual exclusion, live locks kept, refinement of `Mutex` |
| `lock_recovery` | 3 callers, crashes and stalls anywhere | the lock of a caller that has ended, in whatever way, is reclaimed |
| `room_store` | 3 requests of every kind, one key, cap 2, interrupts and recovery | ids, retries, answers, final close; refinement of `RoomLog` |
| `loop_guard` | 2 agents and a human, 2 slots, 2 timers, limit 1 | a pause has a timer and ends; runs are bounded |
| `wait_attendance` | 1 client of either kind, 2 posters, 3 lines, crashes, losses, direct appends | at most once, nothing skipped, arrival, release |
| `tunnel_safe` | 3 requests, 1 of them a wait, 1 session with 2 handlers, limits 2 and 1, quota 0 | nothing runs twice, refusals are true, guards balance |
| `tunnel_live` | 1 request, 2 sessions, limit 1 | refinement of `RelayCall`; requests and sessions end |
| `room_roster` | the host and 1 participant, 2 sessions, 2 requests at a time, 4 in all | invitations kept, duplicates warned, brief settled |
| `forum_page` | 2 channels, 2 posts, 2 calls at a time, 3 beside the page's own follow-ups | comments numbered, board kept, threads settle |
| `joined_rooms` | 2 rooms, one with 2 participants, 2 requests, 2 ids, cap 1 | the stores' and the seats' four properties |
| `roompage_page` | 3 lines, 1 draft, 2 keys, 2 loads, pages of 1, a copy of 2 | the page's four properties and its type |
| `dashboard_views` | 2 rooms, 2 lines, 2 requests, 2 joined rooms, one in each store | the page's three properties |

Bounds. *Lock*: three callers are the least for "a live successor is removed"
(the stale holder's reclaimer, the successor, the late judge), a fourth lets two
late judges meet. *Store*: three requests are the least for a retry to overlap
with a close; the cap 2 is reached by posts and by system lines.
*Guard*: two slots let a human post, a close or a second agent overlap with
any request, two timers let a callback run beside the next
cycle's. `MaxCount` only stops counting: past
the limit every count is treated alike. *Attendance*: two posters
let a line be announced while another is being read, three lines give a batch,
a batch after a crash and a line after that.

*Tunnel*: three requests are the least that overshoot a quota past a concurrency
limit of 2, fill both handlers and still leave one in the queue; two sessions on one request
give every take-over of a slug, with the old session's poll, handler, response and close
against the new one's. The two questions are apart because liveness admits no symmetry. The
theorems hold for any number of both.

*Roster*: two requests at a time give every write-back of an old record and every race of two joins; four in all
are an invitation, a second one and two requests between them. *Forum*: two calls let two comments, a comment and its writer's death,
two threads or a thread and the way back to the feed overlap; the calls that an answer leads to (a list after a post, a thread
after a comment) are not counted. *Joined rooms*: two requests are two posts of history, or a post and a delete; with cap 1
every merge drops a message. The room without participants is one a tab reports without a name. The constraint `OneConcern` lets an
instance have history under way or seats being listed and opened, which meet only in the rows; the theorems need no such constraint.
*Room page*: three lines are one restored, one that an own post skips and the post; two loads are a first visit and a restore; a copy
may be of a room with the same name before. *Dashboard*: `about` in `MCDashboard` gives a behaviour to the transcript, the saved
transcript or the manage view, which share hardly any state; a paused room is left out there, its requests end like those of an
active room whose host does not answer. Where the modules allow symmetry it is in the configuration, over requests, sessions, rooms or drafts
that the properties do not tell apart.

`CHECK_DEADLOCK FALSE` stands where the bounds, or callers that have all ended, stop the system.

Fairness. *Lock*: each caller goes on with its file-system calls and its protected
function ends, and time passes; nobody has to start, time out or die.
*Guard*: a timer fires and its callback ends; nothing is assumed of requests.
*Attendance*: the server finishes its reads and its hold timer fires (`setTimeout` of
`waitHoldMs`), a client goes on with its turn, and a response arrives if requests
keep being made (strong fairness of `Receive`: the adapter retries for
ever); nobody has to post or announce. *Tunnel*: bodies end or fail, timers fire, the meter
answers; a session's loop and handlers go on; of polls that are made again and again
one is answered (strong fairness of `ClaimRefused` and `Dispatch`: the loop retries
transport failures for ever). Heartbeats, registrations, participants and hosts need not do anything.
*Forum*: the server answers or the request fails, a writer gets the lock or dies, and the page handles what arrives; nobody
needs to click. The other modules state no fairness and have no liveness property.

## 4. The proofs

| Module | Theorem | Property | Assumes |
|---|---|---|---|
| `Storage_proofs`: lock | `LockTypeCorrect` | `LockTypeOK` | |
| | `LockIsExclusive` | `MutualExclusion` | `SafeWindows` |
| | `ReclaimIsSerialized` | `ReclaimExclusive` (proved only) | `SafeWindows` |
| | `LiveLockIsKept` | `LiveLockKept` | `SafeWindows` |
| | `LockRefinesMutex` | `ImplementsMutex` | `SafeWindows` |
| `Storage_proofs`: store | `TypeCorrect` | `TypeOK` | |
| | `IdsAreGapless` | `GaplessIds` | `Interrupts => Recovery` |
| | `AnswersAreTrue` | `AnswersNameMessages` | `Interrupts => Recovery` |
| | `StoreIsRoomLog` | `ImplementsRoomLog` | `Interrupts => Recovery` |
| | `RetriesAppendOnce` | `PostedOnce` | |
| | `CapIsKept` | `CapHolds` (proved only) | |
| | `CloseIsFinal` | `ClosedStays` | |
| `LoopGuard_proofs` | `TypeCorrect` | `TypeOK` | |
| | `PauseHasTimer` | `PendingHasTimer` | |
| | `RunIsBounded` | `RunBounded` | |
| `Attendance_proofs` | `TypeCorrect` | `TypeOK` | |
| | `NoLineTakenTwice` | `AtMostOnce` | |
| | `NoLineSkipped` | `NothingSkipped` | |
| `Tunnel_proofs` | `TypeCorrect` | `TypeOK` | |
| | `RunOnce` | `RunAtMostOnce` | |
| | `TurnedAway` | `TurnedAwayNeverRan` | |
| | `RelayCallImplemented` | `ImplementsRelayCall` | |
| | `Balanced` | `GuardsBalanced` | |
| | `QuotaOvershoot` | `QuotaNearlyKept` (proved only) | |
| `Roster_proofs` | `TypeCorrect` | `TypeOK` | |
| | `InvitesAreKept` | `InviteKept` | |
| | `DuplicatesAreWarned` | `NoDuplicateMissed` | |
| | `BriefIsSettled` | `BriefSettled` | |
| | `RowsAreHonest` | `NeverOverclaims` (proved only) | |
| `Forum_proofs` | `TypeCorrect` | `TypeOK` | |
| | `CommentsAreNumbered` | `CommentsNumbered` | |
| | `BoardIsKept` | `BoardKept` | |
| `JoinedRooms_proofs` | `TypeCorrect` | `TypeOK` | |
| | `NoSnapshotIsOrphaned` | `NoOrphanSnapshot` | |
| | `NewestIsKept` | `NewestKept` | |
| | `KindsAreTruthful` | `KindsTruthful` (proved only) | |
| | `RoomsOpenAsShown` | `OpensAsShown` | |
| | `NothingIsForgotten` | `NothingForgotten` | |
| `Browser_proofs`: room page | `RoomPageTypeCorrect` | `TypeOK` | |
| | `RowsShownOnce` | `RowsOnce` | |
| | `SentMessagesOnce` | `SentOnce` | |
| | `CursorStaysWithinRoom` | `CursorWithinRoom` | |
| | `OnlyOwnPostsSkip` | `OnlyPostsSkip` | |
| `Browser_proofs`: dashboard | `DashboardTypeCorrect` | `DashboardTypeOK` | |
| | `LinesShownOnce` | `EachLineOnce` | |
| | `ConfirmedDeletes` | `DeleteAsConfirmed` | |
| | `PartialRunsAreShown` | `PartialNeverSilent` | |

All hold for any constants that satisfy the named assumptions of the modules. Type correctness is proved
for all ten and checked by a run only where it says more than a type (the room page's intervals); where it says "proved only", the property held in TLC before it was proved
and the runs are left to the rest.

*Lock.* Mutual exclusion is not inductive: what protects a holder is that nobody
else is about to remove its file. The invariant says who owns the file at each path
(`LockOwned`, `ReclaimOwned`): a caller that holds it, or, for the lock, a dead one that had
stamped it; that pids tell the dead from the living (`PidsTell`); that whoever is about to reclaim judged
the record of a dead process and, at the removal, still finds that record (`JudgedDead`); that
unstamped files are young (`EmptyIsYoung`); and that therefore no reclaim lock is ever taken over (`NoTakeOver`).
From it the removal in `ReclaimRemove` can only hit a dead holder's file. Refinement follows: entering the
critical point is a step of `Mutex` because nobody else is there.

*Store.* While somebody holds the lock, the log is one line ahead of the state
and the state on disk is `seen`; when nobody does and nothing is dirty, the next
id is the length of the log plus one. Every locked function needs
`holder = Nobody`, so neither half can be disturbed in between. What a client was told is harder: `AnswerInv` follows an
answer from the line it names (`ToldNames`) and says of lines without a key that they answer one request (`KeylessToldOnce`). It needs
gapless ids, since it is by its id that a line is known. `StoreIsRoomLog` puts these together: an append is an `LRecord` because the next id counts
the log and the key is new; the second write and the answer to a retry are an `LAnswer`, since a request is told an id only when it is
done (`ToldDone`) and a line without a key is told by its own request alone; every other step is a stutter or the close.

*Guard.* `PendingHasTimer` is inductive. For the bound, `budget[a]` (what `a` may still append) covers
its posts on their way and those the guard would still let pass before a pause (`BudgetInv`); a
human post and an approval reset both sides in one step.

*Attendance.* A response's `upto` is at least the `since` of its request, the disk
is one of the two, and `taken` is `since` except over a batch that died between
`Save` and `Take`.

*Tunnel.* A request is with at most one session, in the answer of a poll or in a handler
(`OneHas`), and has not been run until its handler ran it (`FetchesFirst`); nobody has one
that is not claimed (`BeforeInv`). The part that carries the drained close is `ClaimedInv`: a claimed
request that was run is still with the route's host, unless its response was lost or the host is dead. So a
session that has drained and holds the route knows that what it fails was not run. The guards
equal the cardinality of the forwards inside; what the quota let pass is among them, which bounds
`used` plus what may still be recorded (`AdmittedInv`).

*Roster.* The lock's owner is the one request past `TakeLock` (`LockInv`), and what it read is still there (`HeldInv`), so writing the
whole roster back changes one record. `InviteKept` then needs nothing else. For the warning: a session that
attends unwarned keeps the record attending and marked by a session that attends (`SessionInv`), so the second one's join, judged under the same lock, warns.
For the brief, `BodyInv` says that between the two files the text is the request's own. `RowsAreHonest` has an invariant of its own
(`HonestInv`): what a record shows was negotiated from its declaration, also in the copies that requests carry.

*Forum.* `LockInv` and `HeldInv` again: the count that a comment read is the length of the log it appends to, the board that a command read is the board.

*Joined rooms.* `NoOrphanSnapshot` is not inductive: a post that is let in before a delete may still write after the rows are gone. What makes it harmless is that it
holds the snapshot's lock, for which the delete waits (`OrphanInv`). `NewestKept` rests on `BaseInv`: what a post read under the lock is what
is there, unless it was damaged since. The lemma that a finite set of numbers bounded to its newest `n` members keeps its maximum is proved by
the well-founded order on the numbers. `OpensAsShown` rests on tokens never being removed (`ListedInv`).

*Room page.* The rows, the cursor and the log are written by requests that overlap, so nothing about them is inductive alone. `FlowInv` says which
may overlap: at most one entry, polls only after it or as its last step, and that what an answer carries is in the log. With the
types and `RowsOnce` it is the first invariant (`Flowing`); that no line comes twice rests on every path taking only lines that are not shown.
`SentOnce` needs `LogInv`: lines with one draft have one key, and the composer holds that key as long as it holds the draft, so that
a retry after a lost answer finds its line; and `SendInv`, that the draft does not change while it is being sent. `CursorWithinRoom` and `OnlyPostsSkip` need `Reached`.
A copy of another room may put the cursor ahead of the log, and `CopyInv` says that this is then still to be checked and that the poll
which checks it finds nothing (it asks from a cursor that no line is beyond). `GapInv` is the claim without `Settled`: a line the cursor has passed is shown, skipped, or
below the control for earlier lines, whose position is `ControlInv`; an opening poll may forget its lines because it finds neither rows nor control (`RestoreInv`).

*Dashboard.* `EachLineOnce` is inductive with the types: what is taken in is compared with `seen`, and both are cleared together. `DeleteAsConfirmed` is not:
a delete removes the ticked rows that are in the list when it starts, and the list may have changed since the question. The invariant counts the ticks themselves (`ConfirmNames`):
while a confirmation is open there are no more of them than it named, so each tick, filter and redrawing must withdraw the confirmation or only remove ticks. `PartialNeverSilent` needs `AnsweredInFull`: the platform's
success names every row it was asked for.

The lemmas on `Ascending` (that it is a sequence of all members, each once and in order) are proved from the rank of a member in a finite set of numbers,
which is a bijection with an interval; so neither page needs an induction.

Only model-checked: liveness (`DeadHolderReclaimed`, `PauseEnds`, `LineArrives`,
`CloseReleases`, `EveryRequestEnds`, `LostSessionEnds`, `ThreadSettles`), since TLAPS cannot handle fairness. TLAPS cannot instantiate the induction theorems with an operator, so nothing is proved by induction over data.

## 5. What the models leave out

Texts, names as strings, urls and validation; reuse of pids; clocks other than "the deadline has passed". A line of the room log
is appended whole; a comment's may be torn. In the store: the rename and the export of a room.
In the server: rate limits. In the tunnel: rate windows, body limits, routes
with a local target, other quota dimensions and the roll-over of their window. In the joined rooms: the forum part of a snapshot and the
capabilities of history posts. In the pages: rendering, search, filters, accounts, the creation of rooms, settings.

Not modelled at all, because they keep no state of their own: `protocol/{mentions,wake-tier,messages,validation,urls,instructions}.ts` and
`auth/tokens.ts` (functions of one text or record, which unit tests reach), the platform's registry and accounts (lookups of one record),
`browser/markdown.js`, and the commands that parse, print and read once.

## 6. Disagreements met while modelling

The models do what the code does. These are places where that is not what a comment, document or test says, or where the code lets
two things go wrong together. No property states them; several properties name them as the exception.

*Store and server.*
- `docs/PROPOSAL.md:871` says that the server recovers the next message id at startup. `recoverRoomState` does, but nothing under `src/src` calls it: after an
  append whose state write was lost the next append uses the id again. `GaplessIds` is checked with `Recovery` true; with `Interrupts` true and `Recovery`
  false it is violated.
- `room-store.ts:447` says that closing clears any session. `startActiveSession` does not look at the status: a session that passed the check before the
  close leaves the closed room with an active session.
- `http.ts:1135` calls the automatic continue's timer single. `completeAutoContinue` deletes whatever entry is pending after its `await`, also the next cycle's, whose timer stays
  armed; a third cycle then waits beside it.
- `http.ts:1154` says that a closed room never receives an approval. The check and the append are apart, and `appendServerMessage` does not look at the status.
- Two requests that find a room expired both append the TTL line (`server-wait.test.ts:169` expects one). A post that passed the check is appended after a close. A
  continuation is scheduled on counts that a human post has cleared meanwhile.
- A line announced between a snapshot and its registration is answered only when the hold ends; lines appended just before a close are not in the closed answer.
- `http.ts:328` compares a display name with the roster before the lock: two participants may take one name at once.
- `README.md:310` of the repository says that `attend` stays until the room closes; it ends at the first batch of messages.

*Forum.*
- The page renders a thread that arrives although another is selected, or none (`forum.js:380`), so that view and address differ, which `forum.js:397-399` excludes on the first load.
  An older list may replace a newer one (491), and a comment whose answer is lost, or that is submitted twice, is there twice (522).
- A comment torn by a dying writer makes its post unreadable and, with it, the whole list (`forum-store.ts:152`, `http.ts:415`); nothing repairs the line.

*Room page.*
- `room.js:789` promises that nothing between the restored lines and the cursor is skipped. The answer to an own post moves the cursor past lines that no poll has
  brought (1695); they are gone until the next load, and a copy written meanwhile has the gap too.
- `room.js:1113` leaves it to a later poll to check the restored copy when the request fails. The mark has been cleared before (1310): no later poll asks, and
  a copy of another room may keep its cursor for good.

*Dashboard and joined rooms.*
- A late answer of `loadChat` is shown under, and cached for, the room selected meanwhile (`shell.js:1135`), which lines 44 and 2507 call scoped to this room.
- `snapshotMessagesFrom` keeps the oldest 250 of a batch (`platform/http.ts:658`), the sender (`room.js:1055`) and the store (`joined-history-store.ts:299`) the newest.
- `joinedOpenUrl` omits a seat equal to that of the listed row (`shell.js:2358`): if the row has been repointed since, another seat is opened than the one shown.
- A room is imported as a row first and a token after it (`platform/http.ts:915`): in between the row opens the help page.

## 7. Plan

Done: the lock, the store, the guard, attendance and the tunnel with their proofs; then the roster, the forum, the joined rooms and
the pages; every safety property of the runs is proved. Next, in this order:

1. A reader of a `RoomLog`, which takes its lines in order and at most once, implemented by `Attendance`.
2. The forum part of a snapshot and the capabilities of history posts in `JoinedRooms`.
3. The roll-over of a quota's window and the broker's rate windows in `Tunnel`.
