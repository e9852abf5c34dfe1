-------------------------- MODULE JoinedRooms_proofs --------------------------
(***************************************************************************)
(* What the device's files keep of its rooms, for any number of rooms,       *)
(* participants, concurrent requests and messages.                          *)
(***************************************************************************)
EXTENDS JoinedRooms, FiniteSetTheorems, WellFoundedInduction, TLAPS

USE DeviceAssumption, NoRowAssumption

\* A request that posts history has one target and something to store.
TaskInv ==
  \A t \in Tasks : task[t].at \in {"checked", "locked"} =>
    task[t].batch # {} /\ \E k \in Keys : task[t].keys = {k}

\* A snapshot's lock has one owner.
LockInv ==
  \A t, u \in Tasks, k \in Keys :
    /\ task[t].at = "locked" /\ k \in task[t].keys
    /\ task[u].at = "locked" /\ k \in task[u].keys
    => t = u

Clearing(k) == \E t \in Tasks : task[t].at = "clearing" /\ k \in task[t].keys

\* A post that may still write where the row is gone is followed by the delete.
OrphanInv ==
  \A k \in Keys : rows[k] = NoRow /\ Locked(k) => k \in stranded \/ Clearing(k)

\* A snapshot that is not there, or cannot be read, holds nothing.
EmptyInv == \A k \in Keys : state[k] # "ok" => newest[k] = 0 /\ ids[k] = {}

\* What a post read is what is there, unless it was damaged since.
BaseInv ==
  \A t \in Tasks, k \in Keys : task[t].at = "locked" /\ k \in task[t].keys =>
    task[t].base = ids[k] \/ newest[k] = 0

\* The seats that the page lists can be opened.
ListedInv == \A k \in Keys : listed[k] # NoRow => listed[k].held \subseteq tokens[k]

IInv ==
  /\ TypeOK /\ TaskInv /\ LockInv /\ OrphanInv /\ EmptyInv /\ BaseInv /\ ListedInv
  /\ NoOrphanSnapshot /\ NewestKept /\ KindsTruthful /\ OpensAsShown

----------------------------------------------------------------------------
\* Sets of numbers

LEMMA LeastExists ==
  ASSUME NEW S, S \subseteq Nat, S # {}
  PROVE  \E x \in S : \A y \in S : x <= y
<1> DEFINE R == OpToRel(<, Nat)
<1>1. \A x, y \in Nat : <<y, x>> \in R <=> y < x
  BY DEF OpToRel
<1>2. IsWellFoundedOn(R, Nat)
  BY NatLessThanWellFounded
<1> HIDE DEF R
<1>3. PICK x \in S : \A y \in S : ~ (<<y, x>> \in R)
  BY <1>2, WFMin
<1>4. \A y \in S : ~ (y < x)
  BY <1>1, <1>3
<1> QED
  BY <1>4

LEMMA GreatestIsMax ==
  ASSUME NEW n \in Nat, NEW S \in SUBSET (0 .. n), S # {}
  PROVE  Max(S) \in S /\ \A y \in S : y <= Max(S)
<1> DEFINE below == {n - x : x \in S}
<1>1. below \subseteq Nat /\ below # {}
  <2>1. \A x \in S : n - x \in Nat
    OBVIOUS
  <2>2. PICK x \in S : TRUE
    OBVIOUS
  <2>3. n - x \in below
    BY <2>2
  <2> QED
    BY <2>1, <2>3
<1>2. PICK d \in below : \A e \in below : d <= e
  <2> HIDE DEF below
  <2> QED
    BY <1>1, LeastExists
<1>3. PICK x \in S : d = n - x
  BY <1>2
<1>4. \A y \in S : n - x <= n - y
  BY <1>2, <1>3
<1>5. \A y \in S : x >= y
  BY <1>4
<1> QED
  BY <1>3, <1>5 DEF Max

\* snapshotMessagesFrom takes something of every batch.
LEMMA TakenSome ==
  ASSUME NEW B \in SUBSET Ids, B # {}
  PROVE  Taken(B) \in SUBSET Ids /\ Taken(B) # {}
<1>0. B \subseteq Nat
  BY DEF Ids
<1>1. PICK x \in B : \A y \in B : x <= y
  BY <1>0, LeastExists
<1>a. \A j \in B : ~ (j < x)
  BY <1>0, <1>1
<1>2. {j \in B : j < x} = {}
  BY <1>a
<1>3. Cardinality({j \in B : j < x}) = 0
  BY <1>2, FS_EmptySet
<1>4. x \in Taken(B)
  BY <1>1, <1>3 DEF Taken, OldestOf
<1> QED
  BY <1>4 DEF Taken, OldestOf

\* However few are kept, the newest is.
LEMMA NewestStays ==
  ASSUME NEW S \in SUBSET Ids, S # {}, NEW n \in Nat \ {0}
  PROVE  Max(S) \in NewestOf(S, n) /\ \A i \in NewestOf(S, n) : i <= Max(S)
<1>0. S \in SUBSET (0 .. MaxId)
  BY DEF Ids
<1> DEFINE m == Max(S)
<1>1. m \in S /\ \A y \in S : y <= m
  BY <1>0, GreatestIsMax
<1> HIDE DEF m
<1>2. \A j \in S : ~ (j > m)
  BY <1>0, <1>1
<1>3. {j \in S : j > m} = {}
  BY <1>2
<1>4. Cardinality({j \in S : j > m}) = 0
  BY <1>3, FS_EmptySet
<1>5. m \in NewestOf(S, n) /\ \A i \in NewestOf(S, n) : i <= m
  BY <1>1, <1>4 DEF NewestOf
<1> QED
  BY <1>5 DEF m

----------------------------------------------------------------------------
\* Types

\* What a record makes of a row: a seat keeps what is known of it.
LEMMA UpsertType ==
  ASSUME TypeOK, KindsTruthful, NEW k \in Keys, NEW a \in Aliases \cup {NoAlias},
         NEW kind \in Learned, kind = "unknown" \/ (a \in Aliases /\ kind = KindOf[a]),
         NEW keep \in BOOLEAN, keep => kind = "unknown",
         Upsert(k, a, kind, keep)
  PROVE  /\ \E row \in Row :
              /\ rows' = [rows EXCEPT ![k] = row]
              /\ row.alias # NoAlias => row.kind \in {"unknown", KindOf[row.alias]}
              /\ \A b \in Aliases : row.seats[b] \in {"none", "unknown", KindOf[b]}
              /\ rows[k] # NoRow => \A b \in Aliases :
                   /\ rows[k].seats[b] # "none" => row.seats[b] # "none"
                   /\ rows[k].seats[b] \in {"human", "agent"} => row.seats[b] = rows[k].seats[b]
<1> DEFINE old == IF rows[k] = NoRow THEN Blank ELSE rows[k]
           chosen == IF keep /\ old.alias # NoAlias THEN old.alias ELSE a
           known == KindFor(old, chosen, kind)
           seats == MergeSeats(old.seats, chosen, known)
           row == [alias |-> chosen, kind |-> known, seats |-> seats, archived |-> old.archived]
<1>1. /\ old \in Row
      /\ old.alias # NoAlias => old.kind \in {"unknown", KindOf[old.alias]}
      /\ \A b \in Aliases : old.seats[b] \in {"none", "unknown", KindOf[b]}
      /\ rows[k] # NoRow => old = rows[k]
  <2>1. CASE rows[k] = NoRow
    <3>1. Blank \in Row /\ Blank.alias = NoAlias /\ \A b \in Aliases : Blank.seats[b] = "none"
      BY DEF Blank, LegacyRow, Row, NoSeats, Learned
    <3> QED
      BY <2>1, <3>1
  <2>2. CASE rows[k] # NoRow
    BY <2>2 DEF TypeOK, KindsTruthful
  <2> QED
    BY <2>1, <2>2
<1> HIDE DEF old
<1>2. chosen \in Aliases \cup {NoAlias} /\ (kind = "unknown" \/ chosen = a)
  BY <1>1 DEF Row
<1> HIDE DEF chosen
<1>3. known \in Learned /\ (chosen # NoAlias => known \in {"unknown", KindOf[chosen]})
  BY <1>1, <1>2 DEF KindFor, Row, Learned
<1> HIDE DEF known
<1>4. seats \in [Aliases -> Learned \cup {"none"}]
  BY <1>1, <1>2, <1>3 DEF MergeSeats, Row, Learned
<1>5. ASSUME NEW b \in Aliases
      PROVE  /\ seats[b] \in {"none", "unknown", KindOf[b]}
             /\ old.seats[b] # "none" => seats[b] # "none"
             /\ old.seats[b] \in {"human", "agent"} => seats[b] = old.seats[b]
  BY <1>1, <1>2, <1>3 DEF MergeSeats, Row, Learned
<1> HIDE DEF seats
<1>6. row \in Row /\ row.alias = chosen /\ row.kind = known /\ row.seats = seats
  BY <1>1, <1>2, <1>3, <1>4 DEF Row
<1>7. rows' = [rows EXCEPT ![k] = row]
  BY DEF Upsert, old, chosen, known, seats
<1> HIDE DEF row
<1>8. row.alias # NoAlias => row.kind \in {"unknown", KindOf[row.alias]}
  BY <1>3, <1>6
<1>9. \A b \in Aliases : row.seats[b] \in {"none", "unknown", KindOf[b]}
  BY <1>5, <1>6
<1>10. rows[k] # NoRow => \A b \in Aliases :
         /\ rows[k].seats[b] # "none" => row.seats[b] # "none"
         /\ rows[k].seats[b] \in {"human", "agent"} => row.seats[b] = rows[k].seats[b]
  BY <1>1, <1>5, <1>6
<1> QED
  BY <1>6, <1>7, <1>8, <1>9, <1>10

----------------------------------------------------------------------------
\* Steps of the row file

LEMMA InvInit == Init => IInv
<1> SUFFICES ASSUME Init PROVE IInv
  OBVIOUS
<1>1. \A a \in Aliases : LegacyRow(a) \in Row /\ LegacyRow(a).kind = "unknown"
                         /\ \A b \in Aliases : LegacyRow(a).seats[b] = "none"
  BY DEF LegacyRow, Row, NoSeats, Learned
<1>2. rows \in [Keys -> Row \cup {NoRow}] /\ KindsTruthful
  <2>1. \A k \in Keys : rows[k] = NoRow \/ \E a \in Aliases : rows[k] = LegacyRow(a)
    BY DEF Init
  <2> QED
    BY <1>1, <2>1 DEF Init, KindsTruthful
<1>3. Idle \in Task /\ Idle.at = "idle"
  BY DEF Idle, Task
<1>4. \A t \in Tasks : task[t] = Idle
  BY DEF Init
<1>5. NotOpened \in Opening /\ ~NotOpened.held
  BY DEF NotOpened, Opening, Seat
<1>6. TypeOK
  <2>1. task \in [Tasks -> Task] /\ opened \in Opening
    BY <1>3, <1>5 DEF Init
  <2>2. /\ state \in [Keys -> {"absent", "ok", "unreadable"}] /\ ids \in [Keys -> SUBSET Ids]
        /\ newest \in [Keys -> 0 .. MaxId] /\ stranded \subseteq Keys
    BY DEF Init
  <2>3. /\ tokens \in [Keys -> SUBSET Aliases] /\ choice \in [Keys -> Seat]
        /\ listed \in [Keys -> [row : Row, held : SUBSET Aliases] \cup {NoRow}]
    BY DEF Init, Seat
  <2> QED
    BY <1>2, <2>1, <2>2, <2>3 DEF TypeOK
<1>7. TaskInv /\ LockInv /\ OrphanInv /\ BaseInv
  BY <1>3, <1>4 DEF TaskInv, LockInv, OrphanInv, Locked, BaseInv
<1>8. EmptyInv /\ ListedInv /\ NoOrphanSnapshot /\ NewestKept
  BY DEF Init, EmptyInv, ListedInv, NoOrphanSnapshot, NewestKept
<1>9. OpensAsShown
  BY <1>5 DEF Init, OpensAsShown
<1> QED
  BY <1>2, <1>6, <1>7, <1>8, <1>9 DEF IInv

\* Where no row goes, the rest stays as it is.
LEMMA RowsChanged ==
  ASSUME IInv, UNCHANGED <<snapshot, task, stranded, dashboard>>,
         rows' \in [Keys -> Row \cup {NoRow}], KindsTruthful',
         \A k \in Keys : rows'[k] = NoRow => rows[k] = NoRow
  PROVE  IInv'
<1>1. TypeOK'
  BY DEF IInv, TypeOK, snapshot, dashboard
<1>2. TaskInv' /\ LockInv' /\ EmptyInv' /\ BaseInv' /\ ListedInv'
  BY DEF IInv, TaskInv, LockInv, EmptyInv, BaseInv, ListedInv, snapshot, dashboard
<1>3. OrphanInv' /\ NoOrphanSnapshot'
  BY DEF IInv, OrphanInv, NoOrphanSnapshot, Locked, Clearing, snapshot
<1>4. NewestKept' /\ OpensAsShown'
  BY DEF IInv, NewestKept, OpensAsShown, snapshot, dashboard
<1> QED
  BY <1>1, <1>2, <1>3, <1>4 DEF IInv

\* A record of a room
Recorded(k) ==
  \/ \E a \in Members[k] : Remember(k, a)
  \/ \E a \in Members[k] \cup {NoAlias} : RefreshFromBridge(k, a)

LEMMA RecordKeeps ==
  ASSUME IInv, NEW k \in Keys, Recorded(k)
  PROVE  /\ IInv'
         /\ \A j \in Keys : rows[j] # NoRow =>
              \A b \in Aliases :
                /\ rows[j].seats[b] # "none" => rows'[j].seats[b] # "none"
                /\ rows[j].seats[b] \in {"human", "agent"} => rows'[j].seats[b] = rows[j].seats[b]
<1>0. TypeOK /\ KindsTruthful /\ rows \in [Keys -> Row \cup {NoRow}]
  BY DEF IInv, TypeOK
<1>1. PICK row \in Row :
        /\ rows' = [rows EXCEPT ![k] = row]
        /\ row.alias # NoAlias => row.kind \in {"unknown", KindOf[row.alias]}
        /\ \A b \in Aliases : row.seats[b] \in {"none", "unknown", KindOf[b]}
        /\ rows[k] # NoRow => \A b \in Aliases :
             /\ rows[k].seats[b] # "none" => row.seats[b] # "none"
             /\ rows[k].seats[b] \in {"human", "agent"} => row.seats[b] = rows[k].seats[b]
  <2>1. CASE \E a \in Members[k] : Remember(k, a)
    <3>1. PICK a \in Aliases : \E kind \in {"unknown", KindOf[a]} : Upsert(k, a, kind, FALSE)
      BY <2>1 DEF Remember
    <3>a. PICK kind \in {"unknown", KindOf[a]} : Upsert(k, a, kind, FALSE)
      BY <3>1
    <3>2. kind \in Learned
      BY <3>1 DEF Learned
    <3> QED
      BY <1>0, <3>a, <3>2, UpsertType
  <2>2. CASE \E a \in Members[k] \cup {NoAlias} : RefreshFromBridge(k, a)
    <3>1. PICK a \in Aliases \cup {NoAlias} : Upsert(k, a, "unknown", TRUE)
      BY <2>2 DEF RefreshFromBridge
    <3>2. "unknown" \in Learned
      BY DEF Learned
    <3> QED
      BY <1>0, <3>1, <3>2, UpsertType
  <2> QED
    BY <2>1, <2>2 DEF Recorded
<1>2. /\ rows' \in [Keys -> Row \cup {NoRow}] /\ rows'[k] = row
      /\ \A j \in Keys \ {k} : rows'[j] = rows[j]
  BY <1>0, <1>1
<1>3. KindsTruthful'
  BY <1>0, <1>1, <1>2 DEF KindsTruthful
<1>4. UNCHANGED <<snapshot, task, stranded, dashboard>>
  BY DEF Recorded, Remember, RefreshFromBridge
<1>5. IInv'
  BY <1>2, <1>3, <1>4, RowsChanged
<1> QED
  BY <1>1, <1>2, <1>5

LEMMA ArchiveKeeps ==
  ASSUME IInv, NEW targets \in SUBSET Keys, NEW archived \in BOOLEAN,
         SetArchived(targets, archived)
  PROVE  /\ IInv'
         /\ \A j \in Keys : rows[j] # NoRow => rows'[j].seats = rows[j].seats
<1>1. rows \in [Keys -> Row \cup {NoRow}] /\ KindsTruthful
  BY DEF IInv, TypeOK
<1>2. ASSUME NEW j \in Keys
      PROVE  /\ rows'[j] \in Row \cup {NoRow} /\ (rows'[j] = NoRow <=> rows[j] = NoRow)
             /\ rows[j] # NoRow => /\ rows'[j].seats = rows[j].seats
                                   /\ rows'[j].kind = rows[j].kind
                                   /\ rows'[j].alias = rows[j].alias
  <2>1. rows'[j] = IF j \in targets /\ rows[j] # NoRow
                   THEN [rows[j] EXCEPT !.archived = archived] ELSE rows[j]
    BY DEF SetArchived
  <2>2. \A row \in Row : /\ [row EXCEPT !.archived = archived] \in Row
                          /\ [row EXCEPT !.archived = archived].seats = row.seats
                          /\ [row EXCEPT !.archived = archived].kind = row.kind
                          /\ [row EXCEPT !.archived = archived].alias = row.alias
    BY DEF Row
  <2> QED
    BY <1>1, <2>1, <2>2
<1>3. rows' \in [Keys -> Row \cup {NoRow}]
  BY <1>2 DEF SetArchived
<1>4. KindsTruthful'
  BY <1>1, <1>2 DEF KindsTruthful
<1>5. UNCHANGED <<snapshot, task, stranded, dashboard>>
  BY DEF SetArchived
<1> QED
  BY <1>2, <1>3, <1>4, <1>5, RowsChanged

\* The rows go, and a delete is under way for each of them.
LEMMA DeleteKeeps ==
  ASSUME IInv, NEW t \in Tasks, NEW targets \in SUBSET Keys, DeleteRows(t, targets)
  PROVE  IInv'
<1> DEFINE new == [Idle EXCEPT !.at = "clearing", !.keys = targets]
<1>1. /\ new \in Task /\ new.at = "clearing" /\ new.keys = targets
  BY DEF Idle, Task
<1>2. /\ task \in [Tasks -> Task] /\ task' = [task EXCEPT ![t] = new] /\ task[t].at = "idle"
      /\ rows' = [k \in Keys |-> IF k \in targets THEN NoRow ELSE rows[k]]
      /\ UNCHANGED <<snapshot, stranded, dashboard>>
  BY DEF DeleteRows, IInv, TypeOK
<1> HIDE DEF new
<1>3. task'[t] = new /\ \A u \in Tasks \ {t} : task'[u] = task[u]
  BY <1>2
<1>4. TypeOK'
  BY <1>1, <1>2 DEF IInv, TypeOK, snapshot, dashboard
<1>5. TaskInv' /\ LockInv' /\ BaseInv'
  BY <1>1, <1>2, <1>3 DEF IInv, TaskInv, LockInv, BaseInv, snapshot
<1>6. OrphanInv' /\ NoOrphanSnapshot'
  <2>1. ASSUME NEW k \in Keys, rows'[k] = NoRow
        PROVE  rows[k] = NoRow \/ Clearing(k)'
    BY <1>1, <1>2, <1>3, <2>1 DEF Clearing
  <2>2. ASSUME NEW k \in Keys PROVE (Locked(k)' => Locked(k)) /\ (Clearing(k) => Clearing(k)')
    BY <1>1, <1>2, <1>3 DEF Locked, Clearing
  <2> QED
    BY <1>2, <2>1, <2>2 DEF IInv, OrphanInv, NoOrphanSnapshot, Clearing, snapshot
<1>7. EmptyInv' /\ ListedInv' /\ NewestKept' /\ OpensAsShown'
  BY <1>2 DEF IInv, EmptyInv, ListedInv, NewestKept, OpensAsShown, snapshot, dashboard
<1>8. KindsTruthful'
  BY <1>2 DEF IInv, KindsTruthful
<1> QED
  BY <1>4, <1>5, <1>6, <1>7, <1>8 DEF IInv

----------------------------------------------------------------------------
\* Steps of a post of history

\* A task that holds no lock goes on with one that holds none, or takes a free one.
LEMMA TaskGoesOn ==
  ASSUME IInv, NEW t \in Tasks, NEW new \in Task, task' = [task EXCEPT ![t] = new],
         task[t].at \in {"idle", "checked"}, UNCHANGED <<rows, snapshot, stranded, dashboard>>,
         new.at \in {"idle", "checked", "locked"},
         new.at # "idle" => new.batch # {} /\ \E k \in Keys : new.keys = {k},
         new.at = "locked" => \A k \in new.keys : /\ ~Locked(k) /\ rows[k] # NoRow
                                                  /\ new.base = ids[k]
  PROVE  IInv'
<1>1. task \in [Tasks -> Task]
  BY DEF IInv, TypeOK
<1>2. task'[t] = new /\ \A u \in Tasks \ {t} : task'[u] = task[u]
  BY <1>1
<1>3. TypeOK'
  BY <1>1 DEF IInv, TypeOK, snapshot, dashboard
<1>4. TaskInv'
  BY <1>1, <1>2 DEF IInv, TaskInv
<1>5. LockInv'
  BY <1>1, <1>2 DEF IInv, LockInv, Locked
<1>6. BaseInv'
  BY <1>1, <1>2 DEF IInv, BaseInv, snapshot
<1>7. OrphanInv' /\ NoOrphanSnapshot'
  <2>1. ASSUME NEW k \in Keys, Clearing(k) PROVE Clearing(k)'
    BY <1>1, <1>2, <2>1 DEF Clearing
  <2>2. ASSUME NEW k \in Keys, Locked(k)', rows[k] = NoRow PROVE Locked(k)
    BY <1>1, <1>2, <2>2 DEF Locked
  <2> QED
    BY <2>1, <2>2 DEF IInv, OrphanInv, NoOrphanSnapshot, Clearing, snapshot
<1>8. /\ EmptyInv' /\ ListedInv' /\ NewestKept' /\ OpensAsShown' /\ KindsTruthful'
  BY DEF IInv, EmptyInv, ListedInv, NewestKept, OpensAsShown, KindsTruthful, snapshot, dashboard
<1> QED
  BY <1>3, <1>4, <1>5, <1>6, <1>7, <1>8 DEF IInv

LEMMA ReceiveKeeps ==
  ASSUME IInv, NEW t \in Tasks, NEW k \in Keys, ReceiveHistory(t, k)
  PROVE  IInv'
<1>1. PICK batch \in (SUBSET Ids) \ {{}} :
        task' = [task EXCEPT ![t] = [Idle EXCEPT !.at = "checked", !.keys = {k},
                                                 !.batch = Taken(batch)]]
  BY DEF ReceiveHistory
<1>2. Taken(batch) \in SUBSET Ids /\ Taken(batch) # {}
  BY TakenSome
<1> DEFINE new == [Idle EXCEPT !.at = "checked", !.keys = {k}, !.batch = Taken(batch)]
<1>3. new \in Task /\ new.at = "checked" /\ new.keys = {k} /\ new.batch # {}
  BY <1>2 DEF Idle, Task
<1>4. task' = [task EXCEPT ![t] = new]
  BY <1>1
<1> HIDE DEF new
<1> QED
  BY <1>3, <1>4, TaskGoesOn DEF ReceiveHistory

LEMMA TakeKeeps ==
  ASSUME IInv, NEW t \in Tasks, NEW k \in Keys, TakeSnapshotLock(t, k)
  PROVE  IInv'
<1> DEFINE new == IF Tracked(k) THEN [task[t] EXCEPT !.at = "locked", !.base = ids[k]] ELSE Idle
<1>1. /\ task[t] \in Task /\ ids[k] \in SUBSET Ids /\ task[t].at = "checked"
      /\ task[t].keys = {k} /\ task[t].batch # {} /\ ~Locked(k)
  BY DEF TakeSnapshotLock, IInv, TypeOK, TaskInv
<1>2. task' = [task EXCEPT ![t] = new] /\ UNCHANGED <<rows, snapshot, stranded, dashboard>>
  BY DEF TakeSnapshotLock
<1>3. CASE ~Tracked(k)
  <2>1. new \in Task /\ new.at = "idle"
    BY <1>3 DEF Idle, Task
  <2> HIDE DEF new
  <2> QED
    BY <1>1, <1>2, <2>1, TaskGoesOn
<1>4. CASE Tracked(k)
  <2>1. /\ new \in Task /\ new.at = "locked" /\ new.base = ids[k] /\ new.keys = {k}
        /\ new.batch # {}
    BY <1>1, <1>4 DEF Task
  <2> HIDE DEF new
  <2> QED
    BY <1>1, <1>2, <1>4, <2>1, TaskGoesOn DEF Tracked
<1> QED
  BY <1>3, <1>4

\* The newest of what was there and what came is kept.
LEMMA WriteNewest ==
  ASSUME IInv, NEW t \in Tasks, NEW k \in Keys, Write(t, k)
  PROVE  /\ ids' \in [Keys -> SUBSET Ids] /\ newest' \in [Keys -> 0 .. MaxId]
         /\ newest'[k] \in ids'[k] /\ \A i \in ids'[k] : i <= newest'[k]
         /\ \A j \in Keys \ {k} : ids'[j] = ids[j] /\ newest'[j] = newest[j]
<1> DEFINE S == task[t].base \cup task[t].batch
<1>1. S \in SUBSET Ids /\ S # {}
  BY DEF Write, IInv, TypeOK, Task, TaskInv
<1>2. task[t].at = "locked" /\ k \in task[t].keys
  BY DEF Write
<1>3. /\ ids \in [Keys -> SUBSET Ids] /\ newest \in [Keys -> 0 .. MaxId]
      /\ state \in [Keys -> {"absent", "ok", "unreadable"}]
  BY DEF IInv, TypeOK
<1>4. newest[k] \in S \cup {0}
  BY <1>2, <1>3 DEF IInv, BaseInv, EmptyInv, NewestKept
<1>5. {newest[k]} \cup S \in SUBSET (0 .. MaxId) /\ S \in SUBSET (0 .. MaxId)
  BY <1>1, <1>3 DEF Ids
<1>6. /\ newest' = [newest EXCEPT ![k] = Max({newest[k]} \cup S)]
      /\ \E n \in 1 .. Cap : ids' = [ids EXCEPT ![k] = NewestOf(S, n)]
  <2>1. {newest[k]} \cup task[t].base \cup task[t].batch = {newest[k]} \cup S
    OBVIOUS
  <2> QED
    BY <2>1 DEF Write
<1> HIDE DEF S
<1>7. Max({newest[k]} \cup S) = Max(S)
  <2> DEFINE m == Max(S)  both == {newest[k]} \cup S  b == Max(both)
  <2>1. m \in S /\ \A y \in S : y <= m
    BY <1>1, <1>5, GreatestIsMax
  <2>2. b \in both /\ \A y \in both : y <= b
    <3>1. both \in SUBSET (0 .. MaxId) /\ both # {}
      BY <1>5
    <3> HIDE DEF both
    <3> QED
      BY <3>1, GreatestIsMax
  <2> HIDE DEF m, b
  <2>3. m \in 1 .. MaxId /\ b \in 0 .. MaxId /\ m <= b
    BY <1>1, <1>5, <2>1, <2>2 DEF Ids
  <2>4. b <= m
    BY <1>4, <2>1, <2>2, <2>3
  <2> QED
    BY <2>3, <2>4 DEF m, b
<1>8. PICK n \in 1 .. Cap : ids' = [ids EXCEPT ![k] = NewestOf(S, n)]
  BY <1>6
<1>9. Max(S) \in NewestOf(S, n) /\ \A i \in NewestOf(S, n) : i <= Max(S)
  BY <1>1, NewestStays
<1>10. NewestOf(S, n) \in SUBSET Ids /\ Max(S) \in 0 .. MaxId
  BY <1>1, <1>5, GreatestIsMax DEF NewestOf
<1> QED
  BY <1>3, <1>6, <1>7, <1>8, <1>9, <1>10

LEMMA WriteKeeps ==
  ASSUME IInv, NEW t \in Tasks, NEW k \in Keys, Write(t, k)
  PROVE  IInv'
<1>1. /\ task[t].at = "locked" /\ task[t].keys = {k} /\ task \in [Tasks -> Task]
      /\ task' = [task EXCEPT ![t] = Idle] /\ Idle \in Task /\ Idle.at = "idle"
      /\ state' = [state EXCEPT ![k] = "ok"]
      /\ state \in [Keys -> {"absent", "ok", "unreadable"}]
      /\ UNCHANGED <<rows, stranded, dashboard>>
  BY DEF Write, IInv, TypeOK, Idle, Task
<1>2. task'[t] = Idle /\ \A u \in Tasks \ {t} : task'[u] = task[u]
  BY <1>1
<1>3. state'[k] = "ok" /\ \A j \in Keys \ {k} : state'[j] = state[j]
  BY <1>1
<1>4. TypeOK'
  BY <1>1, WriteNewest DEF IInv, TypeOK, dashboard
<1>5. TaskInv' /\ LockInv'
  BY <1>1, <1>2 DEF IInv, TaskInv, LockInv
<1>6. BaseInv'
  <2>1. \A u \in Tasks \ {t} : task[u].at = "locked" => k \notin task[u].keys
    BY <1>1 DEF IInv, LockInv
  <2> QED
    BY <1>1, <1>2, <2>1, WriteNewest DEF IInv, BaseInv
<1>7. OrphanInv' /\ NoOrphanSnapshot'
  <2>1. ASSUME NEW j \in Keys
        PROVE  (Clearing(j) => Clearing(j)') /\ (Locked(j)' => Locked(j))
    BY <1>1, <1>2 DEF Clearing, Locked
  <2>2. Locked(k)
    BY <1>1 DEF Locked
  <2> QED
    BY <1>1, <1>3, <2>1, <2>2 DEF IInv, OrphanInv, NoOrphanSnapshot, Clearing
<1>8. EmptyInv' /\ NewestKept'
  BY <1>3, WriteNewest DEF IInv, EmptyInv, NewestKept
<1>9. ListedInv' /\ OpensAsShown' /\ KindsTruthful'
  BY <1>1 DEF IInv, ListedInv, OpensAsShown, KindsTruthful, dashboard
<1> QED
  BY <1>4, <1>5, <1>6, <1>7, <1>8, <1>9 DEF IInv

----------------------------------------------------------------------------
\* Steps of a delete, and what goes wrong

LEMMA TargetDone ==
  ASSUME IInv, NEW t \in Tasks, NEW k \in Keys, task[t].at = "clearing",
         task' = [task EXCEPT ![t] = WithoutTarget(t, k)]
  PROVE  /\ task' \in [Tasks -> Task] /\ TaskInv' /\ LockInv'
         /\ \A j \in Keys : Locked(j)' => Locked(j)
         /\ \A j \in Keys \ {k} : Clearing(j) => Clearing(j)'
         /\ \A u \in Tasks : task'[u].at = "locked" => task'[u] = task[u]
<1>1. task \in [Tasks -> Task]
  BY DEF IInv, TypeOK
<1> DEFINE new == WithoutTarget(t, k)
<1>2. /\ new \in Task /\ new.at \in {"idle", "clearing"}
      /\ \A j \in task[t].keys \ {k} : new.at = "clearing" /\ j \in new.keys
  BY <1>1 DEF WithoutTarget, Task, Idle
<1>3. task' = [task EXCEPT ![t] = new]
  OBVIOUS
<1> HIDE DEF new
<1>4. task'[t] = new /\ \A u \in Tasks \ {t} : task'[u] = task[u]
  BY <1>1, <1>3
<1>5. task' \in [Tasks -> Task] /\ TaskInv' /\ LockInv'
  BY <1>1, <1>2, <1>3, <1>4 DEF IInv, TaskInv, LockInv
<1>6. \A j \in Keys : Locked(j)' => Locked(j)
  BY <1>2, <1>4 DEF Locked
<1>7. \A j \in Keys \ {k} : Clearing(j) => Clearing(j)'
  BY <1>2, <1>4 DEF Clearing
<1>8. \A u \in Tasks : task'[u].at = "locked" => task'[u] = task[u]
  BY <1>2, <1>4
<1> QED
  BY <1>5, <1>6, <1>7, <1>8

LEMMA ClearKeeps ==
  ASSUME IInv, NEW t \in Tasks, NEW k \in Keys, ClearSnapshot(t, k)
  PROVE  IInv'
<1>1. /\ task[t].at = "clearing" /\ ~Locked(k) /\ task' = [task EXCEPT ![t] = WithoutTarget(t, k)]
      /\ state' = [state EXCEPT ![k] = "absent"] /\ ids' = [ids EXCEPT ![k] = {}]
      /\ newest' = [newest EXCEPT ![k] = 0] /\ stranded' = stranded \ {k}
      /\ state \in [Keys -> {"absent", "ok", "unreadable"}] /\ ids \in [Keys -> SUBSET Ids]
      /\ newest \in [Keys -> 0 .. MaxId]
      /\ UNCHANGED <<rows, dashboard>>
  <2>1. task' = [task EXCEPT ![t] = WithoutTarget(t, k)]
    BY DEF ClearSnapshot
  <2> QED
    BY <2>1 DEF ClearSnapshot, IInv, TypeOK
<1>2. TypeOK'
  <2>1. task' \in [Tasks -> Task]
    BY <1>1, TargetDone
  <2> QED
    BY <1>1, <2>1 DEF IInv, TypeOK, dashboard
<1>3. TaskInv' /\ LockInv'
  BY <1>1, TargetDone
<1>4. OrphanInv' /\ NoOrphanSnapshot'
  <2>1. state'[k] = "absent" /\ ~Locked(k)'
    BY <1>1, TargetDone
  <2>2. \A j \in Keys \ {k} : state'[j] = state[j] /\ (j \in stranded => j \in stranded')
    BY <1>1
  <2>3. \A j \in Keys \ {k} : (Locked(j)' => Locked(j)) /\ (Clearing(j) => Clearing(j)')
    BY <1>1, TargetDone
  <2> QED
    BY <1>1, <2>1, <2>2, <2>3 DEF IInv, OrphanInv, NoOrphanSnapshot, Clearing
<1>5. BaseInv'
  <2>1. \A u \in Tasks : task'[u].at = "locked" => task'[u] = task[u]
    BY <1>1, TargetDone
  <2> QED
    BY <1>1, <2>1 DEF IInv, BaseInv
<1>6. EmptyInv' /\ NewestKept'
  BY <1>1 DEF IInv, EmptyInv, NewestKept
<1>7. ListedInv' /\ OpensAsShown' /\ KindsTruthful'
  BY <1>1 DEF IInv, ListedInv, OpensAsShown, KindsTruthful, dashboard
<1> QED
  BY <1>2, <1>3, <1>4, <1>5, <1>6, <1>7 DEF IInv

LEMMA FailKeeps ==
  ASSUME IInv, NEW t \in Tasks, NEW k \in Keys, ClearFails(t, k)
  PROVE  IInv'
<1>1. /\ task[t].at = "clearing" /\ task' = [task EXCEPT ![t] = WithoutTarget(t, k)]
      /\ stranded' = stranded \cup {k} /\ UNCHANGED <<rows, snapshot, dashboard>>
  <2>1. task' = [task EXCEPT ![t] = WithoutTarget(t, k)]
    BY DEF ClearFails
  <2> QED
    BY <2>1 DEF ClearFails
<1>2. TypeOK'
  BY <1>1, TargetDone DEF IInv, TypeOK, snapshot, dashboard
<1>3. TaskInv' /\ LockInv'
  BY <1>1, TargetDone
<1>4. OrphanInv' /\ NoOrphanSnapshot'
  <2>1. \A j \in Keys : (Locked(j)' => Locked(j))
                       /\ (j \in stranded \/ Clearing(j) => j \in stranded' \/ Clearing(j)')
    BY <1>1, TargetDone
  <2> QED
    BY <1>1, <2>1 DEF IInv, OrphanInv, NoOrphanSnapshot, Clearing, snapshot
<1>5. BaseInv'
  <2>1. \A u \in Tasks : task'[u].at = "locked" => task'[u] = task[u]
    BY <1>1, TargetDone
  <2> QED
    BY <1>1, <2>1 DEF IInv, BaseInv, snapshot
<1>6. EmptyInv' /\ NewestKept' /\ ListedInv' /\ OpensAsShown' /\ KindsTruthful'
  BY <1>1 DEF IInv, EmptyInv, NewestKept, ListedInv, OpensAsShown, KindsTruthful, snapshot,
     dashboard
<1> QED
  BY <1>2, <1>3, <1>4, <1>5, <1>6 DEF IInv

LEMMA DamageKeeps ==
  ASSUME IInv, NEW k \in Keys, Damage(k)
  PROVE  IInv'
<1>1. /\ state[k] = "ok" /\ state' = [state EXCEPT ![k] = "unreadable"]
      /\ ids' = [ids EXCEPT ![k] = {}] /\ newest' = [newest EXCEPT ![k] = 0]
      /\ state \in [Keys -> {"absent", "ok", "unreadable"}] /\ ids \in [Keys -> SUBSET Ids]
      /\ newest \in [Keys -> 0 .. MaxId]
      /\ UNCHANGED <<rows, task, stranded, dashboard>>
  BY DEF Damage, IInv, TypeOK
<1>2. TypeOK'
  BY <1>1 DEF IInv, TypeOK, dashboard
<1>3. TaskInv' /\ LockInv' /\ BaseInv'
  BY <1>1 DEF IInv, TaskInv, LockInv, BaseInv
<1>4. OrphanInv' /\ NoOrphanSnapshot'
  BY <1>1 DEF IInv, OrphanInv, NoOrphanSnapshot, Locked, Clearing
<1>5. EmptyInv' /\ NewestKept' /\ ListedInv' /\ OpensAsShown' /\ KindsTruthful'
  BY <1>1 DEF IInv, EmptyInv, NewestKept, ListedInv, OpensAsShown, KindsTruthful, dashboard
<1> QED
  BY <1>2, <1>3, <1>4, <1>5 DEF IInv

LEMMA CrashKeeps ==
  ASSUME IInv, Crash
  PROVE  IInv'
<1>1. /\ task' = [t \in Tasks |-> Idle] /\ Idle \in Task /\ Idle.at = "idle"
      /\ UNCHANGED <<rows, snapshot, dashboard>>
      /\ stranded' \subseteq Keys
      /\ \A k \in Keys : k \in stranded \/ Clearing(k) => k \in stranded'
  BY DEF Crash, Idle, Task, Clearing, IInv, TypeOK
<1>2. TypeOK'
  BY <1>1 DEF IInv, TypeOK, snapshot, dashboard
<1>3. TaskInv' /\ LockInv' /\ BaseInv'
  BY <1>1 DEF TaskInv, LockInv, BaseInv
<1>4. OrphanInv' /\ NoOrphanSnapshot'
  BY <1>1 DEF IInv, OrphanInv, NoOrphanSnapshot, Locked, Clearing, snapshot
<1>5. EmptyInv' /\ NewestKept' /\ ListedInv' /\ OpensAsShown' /\ KindsTruthful'
  BY <1>1 DEF IInv, EmptyInv, NewestKept, ListedInv, OpensAsShown, KindsTruthful, snapshot,
     dashboard
<1> QED
  BY <1>2, <1>3, <1>4, <1>5 DEF IInv

----------------------------------------------------------------------------
\* Steps of the dashboard

LEMMA DashboardKeeps ==
  ASSUME IInv, UNCHANGED <<rows, snapshot, task, stranded>>, TypeOK', ListedInv', OpensAsShown'
  PROVE  IInv'
<1>1. TaskInv' /\ LockInv' /\ BaseInv' /\ EmptyInv'
  BY DEF IInv, TaskInv, LockInv, BaseInv, EmptyInv, snapshot
<1>2. OrphanInv' /\ NoOrphanSnapshot'
  BY DEF IInv, OrphanInv, NoOrphanSnapshot, Locked, Clearing, snapshot
<1>3. NewestKept' /\ KindsTruthful'
  BY DEF IInv, NewestKept, KindsTruthful, snapshot
<1> QED
  BY <1>1, <1>2, <1>3 DEF IInv

LEMMA TokenKeeps ==
  ASSUME IInv, NEW k \in Keys, NEW a \in Aliases, StoreToken(k, a)
  PROVE  IInv'
<1>1. /\ tokens' = [tokens EXCEPT ![k] = @ \cup {a}] /\ tokens \in [Keys -> SUBSET Aliases]
      /\ UNCHANGED <<rows, snapshot, task, stranded, listed, choice, opened>>
  BY DEF StoreToken, IInv, TypeOK
<1>2. TypeOK'
  BY <1>1 DEF IInv, TypeOK, snapshot
<1>3. ListedInv'
  BY <1>1 DEF IInv, ListedInv, TypeOK
<1>4. OpensAsShown'
  BY <1>1 DEF IInv, OpensAsShown
<1> QED
  BY <1>1, <1>2, <1>3, <1>4, DashboardKeeps

LEMMA ListKeeps ==
  ASSUME IInv, ListRooms
  PROVE  IInv'
<1>1. /\ listed' = [k \in Keys |-> IF rows[k] = NoRow THEN NoRow
                                    ELSE [row |-> rows[k], held |-> HeldSeats(k)]]
      /\ opened' = NotOpened /\ NotOpened \in Opening /\ ~NotOpened.held
      /\ UNCHANGED <<rows, snapshot, task, stranded, tokens, choice>>
  BY DEF ListRooms, NotOpened, Opening, Seat
<1>2. \A k \in Keys : HeldSeats(k) \subseteq tokens[k] /\ HeldSeats(k) \in SUBSET Aliases
  BY DEF HeldSeats, IInv, TypeOK
<1>3. listed' \in [Keys -> [row : Row, held : SUBSET Aliases] \cup {NoRow}]
  BY <1>1, <1>2 DEF IInv, TypeOK
<1>4. TypeOK'
  BY <1>1, <1>3 DEF IInv, TypeOK, snapshot
<1>5. ListedInv'
  BY <1>1, <1>2 DEF ListedInv
<1>6. OpensAsShown'
  BY <1>1 DEF OpensAsShown
<1> QED
  BY <1>1, <1>4, <1>5, <1>6, DashboardKeeps

LEMMA ChooseKeeps ==
  ASSUME IInv, NEW k \in Keys, NEW a \in Aliases, ChooseSeat(k, a)
  PROVE  IInv'
<1>1. /\ choice' = [choice EXCEPT ![k] = a] /\ choice \in [Keys -> Seat]
      /\ UNCHANGED <<rows, snapshot, task, stranded, tokens, listed, opened>>
  BY DEF ChooseSeat, IInv, TypeOK
<1>2. TypeOK'
  BY <1>1 DEF IInv, TypeOK, snapshot, Seat
<1>3. ListedInv' /\ OpensAsShown'
  BY <1>1 DEF IInv, ListedInv, OpensAsShown
<1> QED
  BY <1>1, <1>2, <1>3, DashboardKeeps

LEMMA OpenKeeps ==
  ASSUME IInv, NEW k \in Keys, OpenRoom(k)
  PROVE  IInv'
<1>1. PICK seat \in ActiveSeats(k) :
        opened' = [shown |-> seat, seat |-> Resolve(k, Asked(k, seat)),
                   held |-> listed[k].held # {},
                   moved |-> rows[k] = NoRow \/ rows[k].alias # listed[k].row.alias]
  BY DEF OpenRoom
<1>2. /\ listed[k] # NoRow /\ listed' = [j \in Keys |-> NoRow]
      /\ choice' = [j \in Keys |-> NoAlias]
      /\ UNCHANGED <<rows, snapshot, task, stranded, tokens>>
  BY DEF OpenRoom
<1>3. /\ listed[k].row \in Row /\ listed[k].held \in SUBSET Aliases
      /\ listed[k].held \subseteq tokens[k] /\ tokens[k] \subseteq Aliases
      /\ rows[k] \in Row \cup {NoRow}
  BY <1>2 DEF IInv, TypeOK, ListedInv
<1>4. PageSeats(k) \subseteq Aliases /\ (listed[k].held # {} => PageSeats(k) = listed[k].held)
  BY <1>3 DEF PageSeats, Row
<1>5. DefaultSeats(k) \subseteq PageSeats(k)
  BY DEF DefaultSeats
<1>6. /\ seat \in Seat
      /\ listed[k].held # {} => seat \in listed[k].held
  BY <1>1, <1>4, <1>5 DEF ActiveSeats, Seat
<1>7. Resolve(k, Asked(k, seat)) \in Seat \cup {"help"}
  BY <1>3 DEF Resolve, Seat
<1>8. opened'.seat = Resolve(k, Asked(k, seat)) /\ opened'.shown = seat
  BY <1>1
<1>9. OpensAsShown'
  <2>1. SUFFICES ASSUME listed[k].held # {}, rows[k] # NoRow,
                        rows[k].alias = listed[k].row.alias
                 PROVE  Resolve(k, Asked(k, seat)) = seat
    BY <1>1, <1>8 DEF OpensAsShown
  <2>2. seat \in tokens[k] /\ seat # NoAlias
    BY <1>3, <1>6, <2>1
  <2>3. CASE seat = listed[k].row.alias
    BY <2>1, <2>2, <2>3 DEF Asked, Resolve
  <2>4. CASE seat # listed[k].row.alias
    BY <2>1, <2>2, <2>4 DEF Asked, Resolve
  <2> QED
    BY <2>3, <2>4
<1>10. opened' \in Opening
  BY <1>1, <1>6, <1>7 DEF Opening
<1>11. TypeOK'
  BY <1>2, <1>10 DEF IInv, TypeOK, snapshot, Seat
<1>12. ListedInv'
  BY <1>2 DEF ListedInv
<1> QED
  BY <1>2, <1>9, <1>11, <1>12, DashboardKeeps

LEMMA InvStep == IInv /\ [Next]_vars => IInv'
<1> SUFFICES ASSUME IInv, [Next]_vars PROVE IInv'
  OBVIOUS
<1>1. CASE UNCHANGED vars
  BY <1>1, RowsChanged DEF IInv, TypeOK, KindsTruthful, vars, snapshot, dashboard
<1>2. ASSUME NEW k \in Keys, Recorded(k) PROVE IInv'
  BY <1>2, RecordKeeps
<1>3. ASSUME NEW targets \in SUBSET Keys, NEW archived \in BOOLEAN, SetArchived(targets, archived)
      PROVE  IInv'
  BY <1>3, ArchiveKeeps
<1>4. ASSUME NEW t \in Tasks, NEW targets \in SUBSET Keys, DeleteRows(t, targets)
      PROVE  IInv'
  BY <1>4, DeleteKeeps
<1>5. ASSUME NEW t \in Tasks, NEW k \in Keys,
             \/ ReceiveHistory(t, k) \/ TakeSnapshotLock(t, k) \/ Write(t, k)
             \/ ClearSnapshot(t, k) \/ ClearFails(t, k)
      PROVE  IInv'
  BY <1>5, ReceiveKeeps, TakeKeeps, WriteKeeps, ClearKeeps, FailKeeps
<1>6. ASSUME NEW k \in Keys, NEW a \in Aliases, StoreToken(k, a) \/ ChooseSeat(k, a)
      PROVE  IInv'
  BY <1>6, TokenKeeps, ChooseKeeps
<1>7. ASSUME NEW k \in Keys, Damage(k) \/ OpenRoom(k) PROVE IInv'
  BY <1>7, DamageKeeps, OpenKeeps
<1>8. CASE Crash \/ ListRooms
  BY <1>8, CrashKeeps, ListKeeps
<1>9. CASE \E k \in Keys :
             \/ \E a \in Members[k] : Remember(k, a) \/ StoreToken(k, a)
             \/ \E a \in Members[k] \cup {NoAlias} : RefreshFromBridge(k, a)
             \/ \E archived \in BOOLEAN : ArchiveRow(k, archived)
             \/ \E t \in Tasks : DeleteRow(t, k)
             \/ \E a \in Aliases : ChooseSeat(k, a)
             \/ OpenRoom(k)
  BY <1>2, <1>3, <1>4, <1>6, <1>7, <1>9 DEF Recorded, ArchiveRow, DeleteRow
<1>10. CASE \E targets \in SUBSET Keys :
              \/ \E archived \in BOOLEAN : ArchiveSelection(targets, archived)
              \/ \E t \in Tasks : DeleteSelection(t, targets)
  BY <1>3, <1>4, <1>10 DEF ArchiveSelection, DeleteSelection
<1> QED
  BY <1>1, <1>5, <1>7, <1>8, <1>9, <1>10 DEF Next

----------------------------------------------------------------------------
\* For any rooms, participants, requests and bounds the state has its type.
THEOREM TypeCorrect == Spec => []TypeOK
<1>1. IInv => TypeOK
  BY DEF IInv
<1> QED
  BY InvInit, InvStep, <1>1, PTL DEF Spec

\* deleteJoinedRooms leaves no snapshot behind that nobody will clear, whichever
\* posts of history were let in before: they repeat isStillTracked under the lock.
THEOREM NoSnapshotIsOrphaned == Spec => []NoOrphanSnapshot
<1>1. IInv => NoOrphanSnapshot
  BY DEF IInv
<1> QED
  BY InvInit, InvStep, <1>1, PTL DEF Spec

\* recordJoinedHistory keeps the newest message for every size of the caps, whatever
\* posts, damage and deletes came before.
THEOREM NewestIsKept == Spec => []NewestKept
<1>1. IInv => NewestKept
  BY DEF IInv
<1> QED
  BY InvInit, InvStep, <1>1, PTL DEF Spec

\* kindFor lets a kind travel only with the alias it was observed for.
THEOREM KindsAreTruthful == Spec => []KindsTruthful
<1>1. IInv => KindsTruthful
  BY DEF IInv
<1> QED
  BY InvInit, InvStep, <1>1, PTL DEF Spec

\* openJoinedRoom opens a room as the seat the page has shown, if it holds one.
THEOREM RoomsOpenAsShown == Spec => []OpensAsShown
<1>1. IInv => OpensAsShown
  BY DEF IInv
<1> QED
  BY InvInit, InvStep, <1>1, PTL DEF Spec

\* mergeSeats loses no seat and no kind, in any order of records and refreshes.
THEOREM NothingIsForgotten == Spec => NothingForgotten
<1> DEFINE Kept == \A k \in Keys : rows[k] # NoRow /\ rows'[k] # NoRow =>
         \A a \in Aliases :
           /\ rows[k].seats[a] # "none" => rows'[k].seats[a] # "none"
           /\ rows[k].seats[a] \in {"human", "agent"} => rows'[k].seats[a] = rows[k].seats[a]
<1>1. IInv /\ [Next]_vars => [Kept]_vars
  <2> SUFFICES ASSUME IInv, Next PROVE Kept
    BY DEF vars
  <2>1. CASE UNCHANGED rows
    BY <2>1
  <2>2. ASSUME NEW k \in Keys, Recorded(k) PROVE Kept
    BY <2>2, RecordKeeps
  <2>3. ASSUME NEW targets \in SUBSET Keys, NEW archived \in BOOLEAN,
               SetArchived(targets, archived)
        PROVE  Kept
    BY <2>3, ArchiveKeeps
  <2>4. ASSUME NEW t \in Tasks, NEW targets \in SUBSET Keys, DeleteRows(t, targets)
        PROVE  Kept
    BY <2>4 DEF DeleteRows
  <2>5. ASSUME NEW t \in Tasks, NEW k \in Keys,
               \/ ReceiveHistory(t, k) \/ TakeSnapshotLock(t, k) \/ Write(t, k)
               \/ ClearSnapshot(t, k) \/ ClearFails(t, k)
        PROVE  UNCHANGED rows
    BY <2>5 DEF ReceiveHistory, TakeSnapshotLock, Write, ClearSnapshot, ClearFails
  <2>6. ASSUME NEW k \in Keys, NEW a \in Aliases, StoreToken(k, a) \/ ChooseSeat(k, a)
        PROVE  UNCHANGED rows
    BY <2>6 DEF StoreToken, ChooseSeat
  <2>7. ASSUME NEW k \in Keys, Damage(k) \/ OpenRoom(k) PROVE UNCHANGED rows
    BY <2>7 DEF Damage, OpenRoom
  <2>8. CASE Crash \/ ListRooms
    BY <2>8 DEF Crash, ListRooms
  <2> HIDE DEF Kept
  <2>9. CASE \E k \in Keys :
               \/ \E a \in Members[k] : Remember(k, a) \/ StoreToken(k, a)
               \/ \E a \in Members[k] \cup {NoAlias} : RefreshFromBridge(k, a)
               \/ \E archived \in BOOLEAN : ArchiveRow(k, archived)
               \/ \E t \in Tasks : DeleteRow(t, k)
               \/ \E a \in Aliases : ChooseSeat(k, a)
               \/ OpenRoom(k)
    BY <2>1, <2>2, <2>3, <2>4, <2>6, <2>7, <2>9 DEF Recorded, ArchiveRow, DeleteRow
  <2>10. CASE \E targets \in SUBSET Keys :
                \/ \E archived \in BOOLEAN : ArchiveSelection(targets, archived)
                \/ \E t \in Tasks : DeleteSelection(t, targets)
    BY <2>3, <2>4, <2>10 DEF ArchiveSelection, DeleteSelection
  <2> QED
    BY <2>1, <2>5, <2>7, <2>8, <2>9, <2>10 DEF Next
<1> QED
  BY InvInit, InvStep, <1>1, PTL DEF Spec, NothingForgotten
===============================================================================
