----------------------------- MODULE Dashboard -----------------------------
(***************************************************************************)
(* The dashboard page, browser/shell.js: the transcript of one hosted room   *)
(* polled from the platform and cached in localStorage, the saved transcript *)
(* of a joined room whose host is gone, and the manage view that archives or *)
(* deletes joined rooms in bulk.                                            *)
(*                                                                         *)
(* A handler runs alone up to an await; what follows the await is an action  *)
(* of its own, which finds the page as later handlers left it.               *)
(***************************************************************************)
EXTENDS Integers, Sequences, FiniteSets, SequencesExt, Ordered

CONSTANTS
  Rooms,     \* rooms of the owner
  Saved,     \* joined rooms
  Local,     \* those of them that only this browser remembers (localStorage)
  Nothing,   \* no room
  Calls,     \* requests of the page in flight at the same time
  MaxLine,   \* bound: the length of a room's log
  MaxTimers  \* bound: intervals alive at the same time

ASSUME DashboardAssumption ==
  /\ IsFiniteSet(Saved) /\ Local \subseteq Saved
  /\ Nothing \notin Rooms \cup Saved
  /\ MaxLine \in Nat /\ MaxTimers \in Nat \ {0}

Lines == 1 .. MaxLine
Statuses == {"active", "paused", "closed"}
Copies == {"absent", "ok", "system only", "unreadable"}
RowStates == {"gone", "kept", "archived"}
Claims == {"", "unknown", "unreadable", "nothing saved", "nothing readable", "transcript"}

VARIABLES
  served,    \* per room: the lines its host serves
  status,    \* per room: its status in the list the page has
  view,      \* the selection and the transcript shown
  cache,     \* localStorage: per room the rooms whose lines are cached for it
  timers,    \* intervals that poll
  held,      \* state.pollTimer is one of them
  call,      \* per request of the page: what it asked and where it is
  copy,      \* per joined room: the snapshot the device has
  band,      \* the room and the claim of the band over a snapshot
  store,     \* per joined room: its row in the platform's store or localStorage
  listed,    \* per joined room: its row in the list the page has
  live,      \* per joined room: its host answered the probe of that list
  reply,     \* the platform's rows on their way to the page, or Nothing
  manage,    \* the manage view
  run        \* the bulk action under way, with the rows it has changed so far

chat == <<served, status, view, cache, timers, held, call, copy, band>>
lists == <<store, listed, live, reply>>
bulk == <<manage, run>>
dashboardVars == <<chat, lists, bulk>>

Free == [what |-> "none", of |-> Nothing, since |-> 0, live |-> FALSE, first |-> FALSE]
Home == [active |-> Nothing, joined |-> Nothing, cursor |-> 0, messages |-> <<>>,
         seen |-> {}, cached |-> FALSE]
Closed == [open |-> FALSE, selected |-> {}, reach |-> "all", archived |-> "all",
           confirm |-> 0, error |-> FALSE]
NoRun == [at |-> "none", wanted |-> "gone", entries |-> {}, done |-> {}, ok |-> TRUE]

DashboardTypeOK ==
  /\ served \in [Rooms -> 0 .. MaxLine]
  /\ status \in [Rooms -> Statuses]
  /\ view \in [active : Rooms \cup {Nothing}, joined : Saved \cup {Nothing},
               cursor : 0 .. MaxLine, messages : Seq(Rooms \X Lines),
               seen : SUBSET Lines, cached : BOOLEAN]
  /\ cache \in [Rooms \cup {Nothing} -> SUBSET Rooms]
  /\ timers \in 0 .. MaxTimers /\ held \in BOOLEAN
  /\ call \in [Calls -> [what : {"none", "chat", "snapshot"}, of : Rooms \cup Saved \cup {Nothing},
                         since : 0 .. MaxLine, live : BOOLEAN, first : BOOLEAN]]
  /\ copy \in [Saved -> Copies]
  /\ band \in [of : Saved \cup {Nothing}, claim : Claims]
  /\ store \in [Saved -> RowStates] /\ listed \in [Saved -> RowStates]
  /\ live \in [Saved -> BOOLEAN]
  /\ reply \in [Saved \ Local -> RowStates] \cup {Nothing}
  /\ manage \in [open : BOOLEAN, selected : SUBSET Saved,
                 reach : {"all", "reachable", "unreachable"},
                 archived : {"all", "archived", "active"},
                 confirm : 0 .. Cardinality(Saved), error : BOOLEAN]
  /\ run \in [at : {"none", "sent", "answered"}, wanted : RowStates,
              entries : SUBSET Saved, done : SUBSET Saved, ok : BOOLEAN]

DashboardInit ==
  /\ served = [r \in Rooms |-> 0]
  /\ status = [r \in Rooms |-> "active"]
  /\ view = Home
  /\ cache = [r \in Rooms \cup {Nothing} |-> {}]
  /\ timers = 0 /\ held = FALSE
  /\ call = [c \in Calls |-> Free]
  /\ copy = [e \in Saved |-> "absent"]
  /\ band = [of |-> Nothing, claim |-> ""]
  /\ store = [e \in Saved |-> "kept"] /\ listed = store
  /\ live = [e \in Saved |-> FALSE] /\ reply = Nothing
  /\ manage = Closed /\ run = NoRun

----------------------------------------------------------------------------
\* The transcript of a hosted room

\* loadRooms.  A closed room is not opened again.
LoadRooms ==
  /\ \E s \in [Rooms -> Statuses] :
       /\ \A r \in Rooms : status[r] = "closed" => s[r] = "closed"
       /\ status' = s
  /\ UNCHANGED <<served, view, cache, timers, held, call, copy, band,
                 lists, bulk>>

Emptied(p) == [p EXCEPT !.messages = <<>>, !.seen = {}, !.cached = FALSE]

\* writeCache and clearCache: the room's entry of localStorage
WriteCache(r, lines) == [cache EXCEPT ![r] = {line[1] : line \in ToSet(lines)}]
ClearCache(r) == [cache EXCEPT ![r] = {}]

\* loadChat up to its request; p is the page it finds.  A closed room loses its
\* local copy and asks nothing.
LoadChat(c, p, first) ==
  IF status[p.active] = "closed"
  THEN /\ view' = Emptied(p)
       /\ cache' = ClearCache(p.active)
       /\ UNCHANGED call
  ELSE /\ view' = p
       /\ call' = [call EXCEPT ![c] =
            [what |-> "chat", of |-> p.active, since |-> p.cursor,
             live |-> status[p.active] = "active", first |-> first]]
       /\ UNCHANGED cache

\* clearInterval(state.pollTimer)
Stopped == IF held THEN timers - 1 ELSE timers

\* closeManage
CloseManage == manage' = [manage EXCEPT !.open = FALSE, !.selected = {}, !.confirm = 0,
                                        !.error = FALSE]

\* selectRoom up to its await; where loadChat asks nothing, its end too
SelectRoom(c, r) ==
  /\ call[c].what = "none"
  /\ IF manage.open THEN CloseManage ELSE UNCHANGED manage
  /\ LoadChat(c, [Home EXCEPT !.active = r, !.cached = cache[r] # {}], TRUE)
  /\ timers' = IF status[r] = "closed" THEN Stopped + 1 ELSE Stopped
  /\ timers' <= MaxTimers
  /\ held' = (status[r] = "closed")
  /\ UNCHANGED <<served, status, copy, band, lists, run>>

\* An interval fires
Poll(c) ==
  /\ timers > 0 /\ call[c].what = "none"
  /\ view.active # Nothing
  /\ LoadChat(c, view, FALSE)
  /\ UNCHANGED <<served, status, timers, held, copy, band, lists, bulk>>

\* sendRoomMessages: the lines of the host's log after the cursor asked from
HostLines(r, since) == since + 1 .. served[r]

\* Slip: lines after the cursor asked for are taken to be new
EveryLine(r, since, seen) == [i \in 1 .. served[r] - since |-> <<r, since + i>>]

\* The lines of an answer that are not shown yet, oldest first
NewLines(r, since, seen) ==
  LET fresh == Ascending(HostLines(r, since) \ seen)
  IN [i \in 1 .. Len(fresh) |-> <<r, fresh[i]>>]

\* The first load of a selection ends with a new interval
EndLoad(c) ==
  /\ call' = [call EXCEPT ![c] = Free]
  /\ held' = (call[c].first \/ held)
  /\ timers' = IF call[c].first THEN timers + 1 ELSE timers
  /\ timers' <= MaxTimers

\* loadChat goes on with the host's lines; the page may have changed meanwhile
ShowLive(c) ==
  /\ call[c].what = "chat" /\ call[c].live
  /\ LET base == IF view.cached THEN Emptied(view) ELSE view
         new == NewLines(call[c].of, call[c].since, base.seen)
     IN /\ view' = [base EXCEPT !.messages = @ \o new, !.cursor = served[call[c].of],
                                !.seen = @ \cup {new[i][2] : i \in 1 .. Len(new)}]
        /\ cache' = WriteCache(view.active, base.messages \o new)
  /\ EndLoad(c)
  /\ UNCHANGED <<served, status, copy, band, lists, bulk>>

\* No answer, no log or a room that is not served: what is shown stays
ShowOffline(c) ==
  /\ call[c].what = "chat"
  /\ EndLoad(c)
  /\ UNCHANGED <<served, status, view, cache, copy, band, lists, bulk>>

GoHome ==
  /\ IF manage.open THEN CloseManage ELSE UNCHANGED manage
  /\ view' = [Home EXCEPT !.cursor = view.cursor]
  /\ timers' = Stopped /\ held' = FALSE
  /\ UNCHANGED <<served, status, cache, call, copy, band, lists, run>>

ClearActiveCache ==
  /\ view.active # Nothing
  /\ cache' = ClearCache(view.active)
  /\ view' = [Emptied(view) EXCEPT !.cursor = 0]
  /\ UNCHANGED <<served, status, timers, held, call, copy, band, lists, bulk>>

\* The room's participants write on
HostAppends(r) ==
  /\ served[r] < MaxLine
  /\ served' = [served EXCEPT ![r] = @ + 1]
  /\ UNCHANGED <<status, view, cache, timers, held, call, copy, band,
                 lists, bulk>>

----------------------------------------------------------------------------
\* The saved transcript of a joined room

\* showJoinedSnapshot up to its await, from a row that is not reachable
ShowSnapshot(c, e) ==
  /\ listed[e] # "gone" /\ ~live[e]
  /\ call[c].what = "none"
  /\ IF manage.open THEN CloseManage ELSE UNCHANGED manage
  /\ view' = [Home EXCEPT !.joined = e, !.cursor = view.cursor]
  /\ timers' = Stopped /\ held' = FALSE
  /\ call' = [call EXCEPT ![c] = [Free EXCEPT !.what = "snapshot", !.of = e]]
  /\ UNCHANGED <<served, status, cache, copy, band, lists, run>>

\* What the band says: of the rows that were rendered, not of the file
Claim(read) ==
  CASE read = "failed"      -> "unknown"
    [] read = "unreadable"  -> "unreadable"
    [] read = "absent"      -> "nothing saved"
    [] read = "system only" -> "nothing readable"
    [] read = "ok"          -> "transcript"

\* sendJoinedHistory: the platform answers for the rows it tracks, and a copy that
\* cannot be read is an answer
HistoryAnswer(e) == IF e \in Local \/ store[e] = "gone" THEN "failed" ELSE copy[e]

\* renderJoinedSnapshot, over whatever the page shows now
RenderSnapshot(c) ==
  /\ call[c].what = "snapshot"
  /\ LET e == call[c].of IN
       \E read \in {"failed", HistoryAnswer(e)} : band' = [of |-> e, claim |-> Claim(read)]
  /\ call' = [call EXCEPT ![c] = Free]
  /\ UNCHANGED <<served, status, view, cache, timers, held, copy, lists, bulk>>

\* A room tab's history post, a delete, or damage to the file
CopyChanges(e) ==
  /\ \E c \in Copies \ {copy[e]} : copy' = [copy EXCEPT ![e] = c]
  /\ UNCHANGED <<served, status, view, cache, timers, held, call, band,
                 lists, bulk>>

----------------------------------------------------------------------------
\* The list of joined rooms and the manage view

Busy == run.at # "none"

\* manageRows
ShownRows(m, l, v) == {e \in Saved :
  /\ l[e] # "gone"
  /\ m.reach = "reachable" => v[e]
  /\ m.reach = "unreachable" => ~v[e]
  /\ m.archived = "archived" => l[e] = "archived"
  /\ m.archived = "active" => l[e] # "archived"}

\* renderManage drops selections that are not shown
Pruned(m, l, v) == IF m.open THEN [m EXCEPT !.selected = @ \cap ShownRows(m, l, v)] ELSE m

\* readJoinedLocal: this browser's own rows
ReadJoinedLocal == [e \in Local |-> store[e]]

\* The platform reads its rows
AskJoinedRooms ==
  /\ reply = Nothing
  /\ reply' = [e \in Saved \ Local |-> store[e]]
  /\ UNCHANGED <<chat, store, listed, live, bulk>>

\* loadJoinedRooms goes on: a failed request counts as no rows; this browser's own
\* rows are read now and never probed
LoadJoinedRooms ==
  /\ reply # Nothing
  /\ \E ok \in BOOLEAN : listed' =
       [e \in Saved |-> IF e \in Local THEN ReadJoinedLocal[e] ELSE IF ok THEN reply[e] ELSE "gone"]
  /\ live' \in {v \in [Saved -> BOOLEAN] : \A e \in Saved : v[e] => e \notin Local /\ listed'[e] # "gone"}
  /\ reply' = Nothing
  /\ manage' = Pruned(manage, listed', live')
  /\ UNCHANGED <<chat, store, run>>

\* The rows that carry an archive and a delete button
Controls == {e \in Saved : listed[e] # "gone"}

\* toggleArchiveJoined: what the row shows is turned round.  It fails silently, and
\* a row that is gone stays so; the list is loaded again after it.
ToggleArchive(e) ==
  /\ e \in Controls /\ store[e] # "gone"
  /\ store' = [store EXCEPT ![e] = IF listed[e] = "archived" THEN "kept" ELSE "archived"]
  /\ UNCHANGED <<chat, listed, live, reply, bulk>>

\* deleteJoinedEntry, confirmed in the row
DeleteEntry(e) ==
  /\ e \in Controls
  /\ store' = [store EXCEPT ![e] = "gone"]
  /\ UNCHANGED <<chat, listed, live, reply, bulk>>

\* addJoinedFromInput without a token: the room is stored as a new row of this browser
AddFromInput(e) ==
  /\ e \in Local
  /\ store' = [store EXCEPT ![e] = "kept"]
  /\ UNCHANGED <<chat, listed, live, reply, bulk>>

\* Another surface of this device, or one of its room tabs
ChangedElsewhere(e) ==
  /\ \E s \in RowStates \ {store[e]} : store' = [store EXCEPT ![e] = s]
  /\ UNCHANGED <<chat, listed, live, reply, bulk>>

ChangeRow(e) == ToggleArchive(e) \/ DeleteEntry(e) \/ AddFromInput(e) \/ ChangedElsewhere(e)

OpenManage ==
  /\ manage' = [manage EXCEPT !.open = TRUE, !.selected = {}, !.confirm = 0]
  /\ UNCHANGED <<chat, lists, run>>

LeaveManage ==
  /\ manage.open /\ CloseManage
  /\ UNCHANGED <<chat, lists, run>>

OnScreen == ShownRows(manage, listed, live)

\* Slip: the confirmation stays
TickUnderConfirm(e) ==
  /\ manage.open /\ e \in OnScreen
  /\ manage' = [manage EXCEPT !.selected = IF e \in @ THEN @ \ {e} ELSE @ \cup {e}]
  /\ UNCHANGED <<chat, lists, run>>

Tick(e) ==
  /\ manage.open /\ e \in OnScreen
  /\ manage' = [manage EXCEPT !.confirm = 0,
       !.selected = IF e \in @ THEN @ \ {e} ELSE @ \cup {e}]
  /\ UNCHANGED <<chat, lists, run>>

TickAll ==
  /\ manage.open /\ OnScreen # {}
  /\ manage' = [manage EXCEPT !.confirm = 0, !.selected = IF @ = OnScreen THEN {} ELSE OnScreen]
  /\ UNCHANGED <<chat, lists, run>>

Filter ==
  /\ manage.open
  /\ \E reach \in {"all", "reachable", "unreachable"},
        archived \in {"all", "archived", "active"} :
       manage' = Pruned([manage EXCEPT !.reach = reach, !.archived = archived,
                                       !.confirm = 0], listed, live)
  /\ UNCHANGED <<chat, lists, run>>

ShowDeleteConfirm ==
  /\ manage.open /\ ~Busy /\ manage.selected # {}
  /\ manage' = [manage EXCEPT !.confirm = Cardinality(manage.selected)]
  /\ UNCHANGED <<chat, lists, run>>

HideConfirm ==
  /\ manage.confirm > 0
  /\ manage' = [manage EXCEPT !.confirm = 0]
  /\ UNCHANGED <<chat, lists, run>>

\* manageSelectedEntries
SelectedEntries == {e \in manage.selected : listed[e] # "gone"}

\* runManageArchive and runManageDelete up to the platform's answer
StartRun(wanted) ==
  /\ manage.open /\ ~Busy /\ SelectedEntries # {}
  /\ wanted = "gone" => manage.confirm > 0
  /\ run' = [at |-> IF SelectedEntries \subseteq Local THEN "answered" ELSE "sent",
             wanted |-> wanted, entries |-> SelectedEntries, done |-> {}, ok |-> TRUE]
  /\ manage' = [manage EXCEPT !.confirm = 0, !.error = FALSE]
  /\ UNCHANGED <<chat, lists>>

\* A row that is gone is not brought back by an archive
Apply(rows) == [e \in Saved |-> IF e \in rows /\ store[e] # "gone" THEN run.wanted ELSE store[e]]

\* The platform changes all its rows or none; it may report a failure for rows it
\* did remove (a snapshot that stayed), and its answer may be lost
PlatformAnswers ==
  /\ run.at = "sent"
  /\ \/ /\ store' = Apply(run.entries \ Local)
        /\ \E ok \in BOOLEAN :
             run' = [run EXCEPT !.at = "answered", !.done = run.entries \ Local, !.ok = ok]
     \/ /\ run' = [run EXCEPT !.at = "answered", !.ok = FALSE]
        /\ UNCHANGED store
  /\ UNCHANGED <<chat, listed, live, reply, manage>>

\* Slip: localStorage is written with writeJoinedLocal, which ignores a failure
EndRunForgiving ==
  /\ run.at = "answered"
  /\ \E stored \in BOOLEAN :
       /\ store' = IF stored THEN Apply(run.entries \cap Local) ELSE store
       /\ manage' = [manage EXCEPT !.selected = {}, !.error = ~run.ok \/ @]
  /\ run' = NoRun
  /\ UNCHANGED <<chat, listed, live, reply>>

\* This browser's rows are changed whatever the platform said; a failure of either
\* store is shown
EndRun ==
  /\ run.at = "answered"
  /\ \E stored \in BOOLEAN :
       /\ stored \/ run.entries \cap Local # {}
       /\ store' = IF stored THEN Apply(run.entries \cap Local) ELSE store
       /\ manage' = [manage EXCEPT !.selected = {}, !.error = ~run.ok \/ ~stored \/ @]
  /\ run' = NoRun
  /\ UNCHANGED <<chat, listed, live, reply>>

DashboardNext ==
  \/ LoadRooms \/ GoHome \/ ClearActiveCache
  \/ \E r \in Rooms : HostAppends(r)
  \/ \E c \in Calls :
       \/ \E r \in Rooms : SelectRoom(c, r)
       \/ \E e \in Saved : ShowSnapshot(c, e)
       \/ Poll(c) \/ ShowLive(c) \/ ShowOffline(c) \/ RenderSnapshot(c)
  \/ \E e \in Saved : CopyChanges(e) \/ ChangeRow(e) \/ Tick(e)
  \/ AskJoinedRooms \/ LoadJoinedRooms
  \/ OpenManage \/ LeaveManage \/ TickAll \/ Filter
  \/ ShowDeleteConfirm \/ HideConfirm
  \/ \E wanted \in RowStates : StartRun(wanted)
  \/ PlatformAnswers \/ EndRun

DashboardSpec == DashboardInit /\ [][DashboardNext]_dashboardVars

----------------------------------------------------------------------------
\* Properties

\* shell.js:1128: polls overlap, answers come late or twice, the cache is cleared and
\* rooms are switched, and still no line of a room is shown twice.
EachLineOnce ==
  /\ \A i, j \in 1 .. Len(view.messages) : i # j => view.messages[i] # view.messages[j]
  /\ view.seen = {view.messages[i][2] : i \in 1 .. Len(view.messages)}

\* shell.js:242, 1840 and 1931: what a bulk action would touch is on the screen, and a
\* delete removes no more rows than its confirmation named, whatever the list does
\* between the question and the answer.
DeleteAsConfirmed ==
  /\ manage.open => manage.selected \subseteq OnScreen
  /\ manage.confirm > 0 => Cardinality(SelectedEntries) <= manage.confirm

\* shell.js:1960: a bulk action over the two stores that did not change every row it
\* was asked to change ends with a message.
PartialNeverSilent ==
  [][Busy /\ ~Busy' =>
       \/ manage'.error
       \/ \A e \in run.entries : IF e \in Local THEN store'[e] \in {run.wanted, "gone"}
                                                ELSE e \in run.done]_dashboardVars
============================================================================
