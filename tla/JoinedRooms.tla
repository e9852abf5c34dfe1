---------------------------- MODULE JoinedRooms ----------------------------
(***************************************************************************)
(* What a device keeps about the rooms its user has joined:                  *)
(* joined-rooms.json (storage/joined-rooms-store.ts), the token store        *)
(* (cli/state.ts) and one history snapshot per room                          *)
(* (storage/joined-history-store.ts), with the requests of the dashboard     *)
(* server that change them (platform/http.ts) and the dashboard's choice of  *)
(* the seat that a room is opened as (browser/shell.js).                     *)
(*                                                                         *)
(* The row file is read and replaced under one writer lock, so a row change  *)
(* is one step.  A snapshot has a lock of its own, held by a history post    *)
(* from its guard to its write; rows may change in between.  The dashboard   *)
(* works with the list it has read last.  The capabilities of history posts  *)
(* and the forum part of a snapshot are not modelled.                        *)
(***************************************************************************)
EXTENDS Integers, FiniteSets, FiniteSetsExt

CONSTANTS
  Keys,      \* (roomId, baseUrl) pairs
  Aliases,   \* participants of the rooms
  Members,   \* per key: those of them this device may meet
  KindOf,    \* the kind the host has for each of them
  NoAlias,   \* the empty alias: a row that opens nothing yet
  NoRow,     \* a room this device does not track
  Tasks,     \* requests served at the same time
  MaxId,     \* bound: message ids go from 1 to MaxId
  Cap        \* SNAPSHOT_MAX_MESSAGES

ASSUME DeviceAssumption ==
  /\ KindOf \in [Aliases -> {"human", "agent"}]
  /\ NoAlias \notin Aliases
  /\ Members \in [Keys -> SUBSET Aliases]
  /\ MaxId \in Nat
  /\ Cap \in Nat \ {0}

Ids == 1 .. MaxId
Learned == {"unknown", "human", "agent"}
Row == [alias : Aliases \cup {NoAlias}, kind : Learned,
        seats : [Aliases -> Learned \cup {"none"}], archived : BOOLEAN]

ASSUME NoRowAssumption == NoRow \notin Row

Task == [at : {"idle", "checked", "locked", "clearing"}, keys : SUBSET Keys,
         batch : SUBSET Ids, base : SUBSET Ids]
Idle == [at |-> "idle", keys |-> {}, batch |-> {}, base |-> {}]

VARIABLES
  rows,      \* per key: its record in joined-rooms.json
  tokens,    \* per key: the participants whose token is in tokens.json
  state,     \* per key: what a read of its snapshot finds
  ids,       \* per key: the messages of its snapshot
  task,      \* per request in flight: how far it is, its targets, its batch, what it read
  newest,    \* per key: the highest id stored since the snapshot was started (history)
  stranded,  \* keys whose snapshot a failed or interrupted delete left (history)
  listed,    \* per key: the dashboard's copy of its row and the seats held then
  choice,    \* per key: the seat that the user has picked
  opened     \* what opening a room came to

snapshot == <<state, ids, newest>>
dashboard == <<tokens, listed, choice, opened>>
vars == <<rows, state, ids, task, newest, stranded, dashboard>>

Seat == Aliases \cup {NoAlias}
Opening == [shown : Seat, seat : Seat \cup {"help"}, held : BOOLEAN, moved : BOOLEAN]
NotOpened == [shown |-> NoAlias, seat |-> "help", held |-> FALSE, moved |-> FALSE]

TypeOK ==
  /\ rows \in [Keys -> Row \cup {NoRow}]
  /\ state \in [Keys -> {"absent", "ok", "unreadable"}]
  /\ ids \in [Keys -> SUBSET Ids]
  /\ task \in [Tasks -> Task]
  /\ newest \in [Keys -> 0 .. MaxId]
  /\ stranded \subseteq Keys
  /\ tokens \in [Keys -> SUBSET Aliases]
  /\ listed \in [Keys -> [row : Row, held : SUBSET Aliases] \cup {NoRow}]
  /\ choice \in [Keys -> Seat]
  /\ opened \in Opening

NoSeats == [a \in Aliases |-> "none"]

\* A row written before kinds were recorded names its alias and nothing else
LegacyRow(a) == [alias |-> a, kind |-> "unknown", seats |-> NoSeats,
                 archived |-> FALSE]

Init ==
  /\ rows \in [Keys -> {NoRow} \cup {LegacyRow(a) : a \in Aliases}]
  /\ \A k \in Keys : rows[k] # NoRow => rows[k].alias \in Members[k]
  /\ state = [k \in Keys |-> "absent"]
  /\ ids = [k \in Keys |-> {}]
  /\ task = [t \in Tasks |-> Idle]
  /\ newest = [k \in Keys |-> 0]
  /\ stranded = {}
  /\ tokens \in [Keys -> SUBSET Aliases] /\ \A k \in Keys : tokens[k] \subseteq Members[k]
  /\ listed = [k \in Keys |-> NoRow]
  /\ choice = [k \in Keys |-> NoAlias]
  /\ opened = NotOpened

----------------------------------------------------------------------------
\* The row store

\* Slip: the record's kind replaces what was known
OverwriteSeats(seats, alias, kind) ==
  IF alias = NoAlias THEN seats ELSE [seats EXCEPT ![alias] = kind]

\* mergeSeats: a seat keeps its kind unless this record brings one
MergeSeats(seats, alias, kind) ==
  IF alias = NoAlias THEN seats
  ELSE [seats EXCEPT ![alias] = IF kind # "unknown" THEN kind
                                ELSE IF @ = "none" THEN "unknown" ELSE @]

\* The row before a first record
Blank == LegacyRow(NoAlias)

\* A stored kind stays while the row keeps its alias
KindFor(old, alias, kind) ==
  IF kind = "unknown" /\ old.alias = alias THEN old.kind ELSE kind

\* upsertJoinedRoomLocked, its title and dates left out
Upsert(k, alias, kind, keepSelectedAlias) ==
  LET old == IF rows[k] = NoRow THEN Blank ELSE rows[k]
      chosen == IF keepSelectedAlias /\ old.alias # NoAlias THEN old.alias ELSE alias
      known == KindFor(old, chosen, kind)
  IN rows' = [rows EXCEPT ![k] =
       [alias |-> chosen, kind |-> known,
        seats |-> MergeSeats(old.seats, chosen, known),
        archived |-> old.archived]]

\* Import of an invite, or room join: the alias and its kind are what the host
\* says; the roster may not say the kind
Remember(k, a) ==
  /\ \E kind \in {"unknown", KindOf[a]} : Upsert(k, a, kind, FALSE)
  /\ UNCHANGED <<snapshot, task, stranded, dashboard>>

\* A room tab refreshes the row and names its participant, if it knows it; it
\* knows no kind
RefreshFromBridge(k, a) ==
  /\ Upsert(k, a, "unknown", TRUE)
  /\ UNCHANGED <<snapshot, task, stranded, dashboard>>

\* setJoinedRoomsArchived: all targets in one write
SetArchived(targets, archived) ==
  /\ rows' = [k \in Keys |-> IF k \in targets /\ rows[k] # NoRow
                             THEN [rows[k] EXCEPT !.archived = archived]
                             ELSE rows[k]]
  /\ UNCHANGED <<snapshot, task, stranded, dashboard>>

\* deleteJoinedRooms: the rows go first; the snapshots are left to clear
DeleteRows(t, targets) ==
  /\ task[t].at = "idle"
  /\ rows' = [k \in Keys |-> IF k \in targets THEN NoRow ELSE rows[k]]
  /\ task' = [task EXCEPT ![t] = [Idle EXCEPT !.at = "clearing", !.keys = targets]]
  /\ UNCHANGED <<snapshot, stranded, dashboard>>

\* The requests of one row and of a selection; one bad target refuses a selection
ArchiveRow(k, archived) == SetArchived({k}, archived)
DeleteRow(t, k) == DeleteRows(t, {k})

ArchiveSelection(targets, archived) ==
  Cardinality(targets) > 1 /\ SetArchived(targets, archived)
DeleteSelection(t, targets) == Cardinality(targets) > 1 /\ DeleteRows(t, targets)

----------------------------------------------------------------------------
\* The snapshot store

Locked(k) == \E t \in Tasks : task[t].at = "locked" /\ k \in task[t].keys

\* isStillTracked
Tracked(k) == rows[k] # NoRow /\ ~rows[k].archived

OldestOf(S, n) == {i \in S : Cardinality({j \in S : j < i}) < n}

\* snapshotMessagesFrom takes the head of a batch that is too long.
Taken(batch) == OldestOf(batch, Cap)

\* A batch of loaded history passes the first check
ReceiveHistory(t, k) ==
  /\ task[t].at = "idle" /\ Tracked(k)
  /\ \E batch \in (SUBSET Ids) \ {{}} :
       task' = [task EXCEPT ![t] = [Idle EXCEPT !.at = "checked", !.keys = {k},
                                                !.batch = Taken(batch)]]
  /\ UNCHANGED <<rows, snapshot, stranded, dashboard>>

\* Slip: the first check is trusted
PassFirstCheck(t, k) ==
  /\ task[t].at = "checked" /\ task[t].keys = {k} /\ ~Locked(k)
  /\ task' = [task EXCEPT ![t].at = "locked", ![t].base = ids[k]]
  /\ UNCHANGED <<rows, snapshot, stranded, dashboard>>

\* The check is repeated with the snapshot's lock held, then the file is read: an
\* unreadable one counts as empty
TakeSnapshotLock(t, k) ==
  /\ task[t].at = "checked" /\ task[t].keys = {k} /\ ~Locked(k)
  /\ task' = [task EXCEPT ![t] = IF Tracked(k)
                                     THEN [@ EXCEPT !.at = "locked", !.base = ids[k]]
                                     ELSE Idle]
  /\ UNCHANGED <<rows, snapshot, stranded, dashboard>>

\* The newest n members of a set of ids
NewestOf(S, n) == {i \in S : Cardinality({j \in S : j > i}) < n}

\* recordJoinedHistory: merge, bound, write.  The byte cap may keep fewer than Cap.
Write(t, k) ==
  /\ task[t].at = "locked" /\ task[t].keys = {k}
  /\ \E n \in 1 .. Cap :
       ids' = [ids EXCEPT ![k] = NewestOf(task[t].base \cup task[t].batch, n)]
  /\ state' = [state EXCEPT ![k] = "ok"]
  /\ newest' = [newest EXCEPT ![k] = Max({@} \cup task[t].base \cup task[t].batch)]
  /\ task' = [task EXCEPT ![t] = Idle]
  /\ UNCHANGED <<rows, stranded, dashboard>>

\* The delete of t when the target k is done with
WithoutTarget(t, k) ==
  IF task[t].keys = {k} THEN Idle ELSE [task[t] EXCEPT !.keys = @ \ {k}]

\* deleteJoinedHistory waits for the lock; the last target ends the request
ClearSnapshot(t, k) ==
  /\ task[t].at = "clearing" /\ k \in task[t].keys /\ ~Locked(k)
  /\ state' = [state EXCEPT ![k] = "absent"]
  /\ ids' = [ids EXCEPT ![k] = {}]
  /\ newest' = [newest EXCEPT ![k] = 0]
  /\ stranded' = stranded \ {k}
  /\ task' = [task EXCEPT ![t] = WithoutTarget(t, k)]
  /\ UNCHANGED <<rows, dashboard>>

\* The removal fails: the other targets are still cleared, the batch is an error
ClearFails(t, k) ==
  /\ task[t].at = "clearing" /\ k \in task[t].keys /\ ~Locked(k)
  /\ state[k] # "absent"
  /\ stranded' = stranded \cup {k}
  /\ task' = [task EXCEPT ![t] = WithoutTarget(t, k)]
  /\ UNCHANGED <<rows, snapshot, dashboard>>

\* A file is truncated or edited by hand
Damage(k) ==
  /\ state[k] = "ok"
  /\ state' = [state EXCEPT ![k] = "unreadable"]
  /\ ids' = [ids EXCEPT ![k] = {}]
  /\ newest' = [newest EXCEPT ![k] = 0]
  /\ UNCHANGED <<rows, task, stranded, dashboard>>

\* The dashboard process dies with its requests; their locks are reclaimed
Crash ==
  /\ stranded' = stranded \cup {k \in Keys : \E t \in Tasks :
                                  task[t].at = "clearing" /\ k \in task[t].keys}
  /\ task' = [t \in Tasks |-> Idle]
  /\ UNCHANGED <<rows, snapshot, dashboard>>

----------------------------------------------------------------------------
\* Opening a room from the dashboard

\* writeToken, of an import after the row, of room join before it, and of the
\* commands that create a room or invite; no command removes a token
StoreToken(k, a) ==
  /\ tokens' = [tokens EXCEPT ![k] = @ \cup {a}]
  /\ UNCHANGED <<rows, snapshot, task, stranded, listed, choice, opened>>

\* Slip: every recorded seat is offered
RecordedSeats(k) == {a \in Aliases : rows[k].seats[a] # "none" \/ rows[k].alias = a}

\* heldSeatsFor: a recorded seat is offered if its token is there
HeldSeats(k) == {a \in tokens[k] : rows[k].seats[a] # "none" \/ rows[k].alias = a}

\* sendJoinedRooms, and the page that renders it
ListRooms ==
  /\ listed' = [k \in Keys |-> IF rows[k] = NoRow THEN NoRow
                              ELSE [row |-> rows[k], held |-> HeldSeats(k)]]
  /\ opened' = NotOpened
  /\ UNCHANGED <<rows, snapshot, task, stranded, tokens, choice>>

\* heldSeats of the page: the row's alias where the server names none
PageSeats(k) ==
  IF listed[k].held # {} THEN listed[k].held ELSE {listed[k].row.alias} \ {NoAlias}

\* The kind that a seat's badge and name disclose
ShownKind(k, a) ==
  LET row == listed[k].row
  IN IF listed[k].held # {} /\ row.seats[a] # "none" THEN row.seats[a] ELSE row.kind

\* A human seat, or the row's, or any; the first of several in the order of the row
DefaultSeats(k) ==
  LET humans == {a \in PageSeats(k) : ShownKind(k, a) = "human"}
      own == PageSeats(k) \cap {listed[k].row.alias}
  IN IF humans # {} THEN humans ELSE IF own # {} THEN own ELSE PageSeats(k)

\* activeSeat: a choice holds while its seat is listed
ActiveSeats(k) ==
  IF choice[k] \in PageSeats(k) THEN {choice[k]}
  ELSE IF PageSeats(k) = {} THEN {NoAlias} ELSE DefaultSeats(k)

\* The control Join as
ChooseSeat(k, a) ==
  /\ listed[k] # NoRow
  /\ a \in PageSeats(k) /\ Cardinality(PageSeats(k)) > 1
  /\ choice' = [choice EXCEPT ![k] = a]
  /\ UNCHANGED <<rows, snapshot, task, stranded, tokens, listed, opened>>

\* joinedOpenUrl names the seat only if it is not the one that the page's row has.
Asked(k, seat) == IF seat # listed[k].row.alias THEN seat ELSE NoAlias

\* openJoinedRoom: the seat whose token opens the room, or a page that helps
Resolve(k, asked) ==
  IF rows[k] = NoRow THEN "help"
  ELSE LET seat == IF asked = NoAlias THEN rows[k].alias ELSE asked
       IN IF seat \in tokens[k] THEN seat ELSE "help"

\* A click on a row whose room is reachable.  The page is left.
OpenRoom(k) ==
  /\ listed[k] # NoRow
  /\ \E seat \in ActiveSeats(k) :
       opened' = [shown |-> seat, seat |-> Resolve(k, Asked(k, seat)),
                  held |-> listed[k].held # {},
                  moved |-> rows[k] = NoRow \/ rows[k].alias # listed[k].row.alias]
  /\ listed' = [j \in Keys |-> NoRow] /\ choice' = [j \in Keys |-> NoAlias]
  /\ UNCHANGED <<rows, snapshot, task, stranded, tokens>>

----------------------------------------------------------------------------

Next ==
  \/ \E k \in Keys :
       \/ \E a \in Members[k] : Remember(k, a) \/ StoreToken(k, a)
       \/ \E a \in Members[k] \cup {NoAlias} : RefreshFromBridge(k, a)
       \/ \E archived \in BOOLEAN : ArchiveRow(k, archived)
       \/ \E t \in Tasks : DeleteRow(t, k)
       \/ \E a \in Aliases : ChooseSeat(k, a)
       \/ OpenRoom(k)
  \/ \E targets \in SUBSET Keys :
       \/ \E archived \in BOOLEAN : ArchiveSelection(targets, archived)
       \/ \E t \in Tasks : DeleteSelection(t, targets)
  \/ ListRooms
  \/ \E t \in Tasks, k \in Keys :
       \/ ReceiveHistory(t, k) \/ TakeSnapshotLock(t, k) \/ Write(t, k)
       \/ ClearSnapshot(t, k) \/ ClearFails(t, k)
  \/ \E k \in Keys : Damage(k)
  \/ Crash

Spec == Init /\ [][Next]_vars

----------------------------------------------------------------------------
\* Properties

\* "A snapshot must never outlive its row" (joined-rooms-store.ts:310, 347): where
\* the row is gone, a snapshot is about to be cleared, unless a delete failed over
\* it or died.  A post that was let in before the delete must not write after it.
NoOrphanSnapshot ==
  \A k \in Keys : rows[k] = NoRow /\ state[k] # "absent" =>
    \/ k \in stranded
    \/ \E t \in Tasks : task[t].at = "clearing" /\ k \in task[t].keys

\* joined-history-store.ts:206: posts of two tabs, in whatever order they come, and
\* the caps together never cost the newest message that the device took in, the head
\* of a batch that is too long: the offline view's cursor is the highest id stored.
NewestKept ==
  \A k \in Keys : state[k] = "ok" => newest[k] \in ids[k] /\ \A i \in ids[k] : i <= newest[k]

\* joined-rooms-store.ts:133: a kind only travels with the alias it was observed
\* for.  What a row and its seats say is what the host says, or unknown.
KindsTruthful ==
  \A k \in Keys : rows[k] # NoRow =>
    /\ rows[k].alias # NoAlias => rows[k].kind \in {"unknown", KindOf[rows[k].alias]}
    /\ \A a \in Aliases : rows[k].seats[a] \in {"none", "unknown", KindOf[a]}

\* joined-rooms-store.ts:159 and 184: while a row exists, no record, refresh or
\* archive loses a seat or a kind it has learned, the device still holding its token.
NothingForgotten ==
  [][\A k \in Keys : rows[k] # NoRow /\ rows'[k] # NoRow =>
       \A a \in Aliases :
         /\ rows[k].seats[a] # "none" => rows'[k].seats[a] # "none"
         /\ rows[k].seats[a] \in {"human", "agent"} => rows'[k].seats[a] = rows[k].seats[a]]_vars

\* #311: while the row is not repointed or deleted behind the page and the page lists
\* a held seat, the room opens, and as the seat that was shown or chosen before, whatever
\* was imported, refreshed or stored since.
OpensAsShown ==
  opened.held /\ ~opened.moved => opened.seat = opened.shown
============================================================================
