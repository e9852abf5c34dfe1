---------------------------- MODULE Browser_proofs ----------------------------
(***************************************************************************)
(* The two pages that show a room's lines, the room page and the           *)
(* dashboard, for every number of rooms, lines, drafts, keys and requests, *)
(* and every size of a page of lines and of the copy on the device.        *)
(***************************************************************************)
EXTENDS RoomPage, Dashboard, FiniteSetTheorems, SequenceTheorems, TLAPS

-------------------------------------------------------------------------------
\* Sets of line numbers

\* How many members of S come before x
Rank(S, x) == Cardinality({y \in S : y < x})

\* The rank numbers the members of a finite set from 0 upwards.
LEMMA RankNumbers ==
  ASSUME NEW S, S \subseteq Int, IsFiniteSet(S)
  PROVE  /\ Cardinality(S) \in Nat
         /\ \A x \in S : Rank(S, x) \in 0 .. Cardinality(S) - 1
         /\ \A x, y \in S : x < y => Rank(S, x) < Rank(S, y)
         /\ \A n \in 0 .. Cardinality(S) - 1 : \E x \in S : Rank(S, x) = n
<1>1. Cardinality(S) \in Nat
  BY FS_CardinalityType
<1>2. ASSUME NEW x \in S
      PROVE  IsFiniteSet({y \in S : y < x}) /\ Rank(S, x) \in 0 .. Cardinality(S) - 1
  <2>1. {y \in S : y < x} \in SUBSET S /\ x \notin {y \in S : y < x}
    OBVIOUS
  <2>2. IsFiniteSet({y \in S : y < x}) /\ Rank(S, x) \in Nat
    BY <2>1, FS_Subset, FS_CardinalityType DEF Rank
  <2>3. Rank(S, x) <= Cardinality(S) /\ Cardinality(S) # Rank(S, x)
    BY <2>1, FS_Subset DEF Rank
  <2> QED BY <1>1, <2>2, <2>3
<1>3. \A x \in S : Rank(S, x) \in 0 .. Cardinality(S) - 1
  BY <1>2
<1>4. ASSUME NEW x \in S, NEW y \in S, x < y
      PROVE  Rank(S, x) < Rank(S, y)
  <2> DEFINE B(z) == {w \in S : w < z}
  <2>1. x \in Int /\ y \in Int /\ \A w \in S : w \in Int
    OBVIOUS
  <2>2. \A w \in S : w < x => w < y
    BY <1>4, <2>1
  <2>3. ~(x < x)
    BY <2>1
  <2>4. B(x) \in SUBSET B(y) /\ x \in B(y) /\ x \notin B(x)
    BY <1>4, <2>2, <2>3, Zenon
  <2>5. IsFiniteSet(B(y))
    BY <1>2
  <2>6. Cardinality(B(x)) <= Cardinality(B(y)) /\ Cardinality(B(y)) # Cardinality(B(x))
    BY <2>4, <2>5, FS_Subset
  <2> QED BY <1>2, <2>6 DEF Rank
<1> DEFINE f == [x \in S |-> Rank(S, x)]
           T == 0 .. Cardinality(S) - 1
<1>5. IsFiniteSet(T) /\ Cardinality(T) = Cardinality(S)
  BY <1>1, FS_Interval
<1>6. f \in Injection(S, T)
  <2>1. f \in [S -> T]
    BY <1>2
  <2>2. \A x, y \in S : f[x] = f[y] => x = y
    <3> TAKE x, y \in S
    <3>1. x \in Int /\ y \in Int
      OBVIOUS
    <3>2. x = y \/ x < y \/ y < x
      BY <3>1
    <3>3. f[x] \in Int /\ f[x] = Rank(S, x) /\ f[y] = Rank(S, y)
      BY <1>1, <1>3
    <3>4. /\ x < y => Rank(S, x) < Rank(S, y)
          /\ y < x => Rank(S, y) < Rank(S, x)
      BY <1>4
    <3>5. Rank(S, x) \in Int /\ Rank(S, y) \in Int
      BY <1>1, <1>3
    <3> QED BY <3>2, <3>3, <3>4, <3>5
  <2> QED BY <2>1, <2>2 DEF Injection, IsInjective
<1>7. f \in Surjection(S, T)
  BY <1>5, <1>6, FS_Injection
<1>8. \A n \in T : \E x \in S : f[x] = n
  BY <1>7 DEF Surjection
<1> QED BY <1>1, <1>2, <1>4, <1>8

\* Ascending lists every member of a finite set once.
LEMMA AscendingLists ==
  ASSUME NEW S, S \subseteq Int, IsFiniteSet(S)
  PROVE  /\ Cardinality(S) \in Nat
         /\ Ascending(S) \in Seq(S)
         /\ Len(Ascending(S)) = Cardinality(S)
         /\ \A i \in 1 .. Cardinality(S) : Ascending(S)[i] \in S
         /\ \A i, j \in 1 .. Cardinality(S) : Ascending(S)[i] = Ascending(S)[j] => i = j
         /\ \A x \in S : \E i \in 1 .. Cardinality(S) : Ascending(S)[i] = x
<1> DEFINE n == Cardinality(S)
<1>1. n \in Nat
  BY FS_CardinalityType
<1>2. ASSUME NEW i \in 1 .. n
      PROVE  Nth(S, i) \in S /\ Rank(S, Nth(S, i)) = i - 1
  <2>1. i - 1 \in 0 .. n - 1
    BY <1>1
  <2>2. \E x \in S : Rank(S, x) = i - 1
    BY <2>1, RankNumbers
  <2> QED BY <2>2 DEF Nth, Rank
<1>3. \A i \in 1 .. n : Ascending(S)[i] = Nth(S, i)
  BY DEF Ascending
<1>4. \A i, j \in 1 .. n : Nth(S, i) = Nth(S, j) => i = j
  BY <1>1, <1>2
<1>5. ASSUME NEW x \in S
      PROVE  \E i \in 1 .. n : Nth(S, i) = x
  <2>1. Rank(S, x) \in 0 .. n - 1
    BY RankNumbers
  <2>2. Rank(S, x) + 1 \in 1 .. n /\ Rank(S, x) + 1 - 1 = Rank(S, x)
    BY <1>1, <2>1
  <2>3. PICK i \in 1 .. n : i = Rank(S, x) + 1
    BY <2>2
  <2> DEFINE z == Nth(S, i)
  <2>4. z \in S /\ Rank(S, z) = Rank(S, x)
    BY <1>2, <2>1, <2>3
  <2> HIDE DEF z
  <2>5. x \in Int /\ z \in Int /\ (x = z \/ x < z \/ z < x)
    BY <2>4
  <2>6. /\ x < z => Rank(S, x) < Rank(S, z)
        /\ z < x => Rank(S, z) < Rank(S, x)
    BY <2>4, RankNumbers
  <2>7. x = z
    BY <1>1, <2>1, <2>4, <2>5, <2>6
  <2> QED BY <2>7 DEF z
<1>6. Ascending(S) \in Seq(S) /\ Len(Ascending(S)) = n
  BY <1>1, <1>2 DEF Ascending
<1> QED BY <1>1, <1>2, <1>3, <1>4, <1>5, <1>6

\* A finite set of numbers that is not empty has a smallest and a largest member.
LEMMA MinMax ==
  ASSUME NEW S, S \subseteq Int, IsFiniteSet(S), S # {}
  PROVE  /\ Min(S) \in S /\ \A y \in S : Min(S) <= y
         /\ Max(S) \in S /\ \A y \in S : y <= Max(S)
<1>1. Cardinality(S) \in Nat /\ Cardinality(S) # 0
  BY FS_CardinalityType, FS_EmptySet
<1>2. 0 \in 0 .. Cardinality(S) - 1 /\ Cardinality(S) - 1 \in 0 .. Cardinality(S) - 1
  BY <1>1
<1>3. PICK x \in S : Rank(S, x) = 0
  BY <1>2, RankNumbers
<1>4. PICK z \in S : Rank(S, z) = Cardinality(S) - 1
  BY <1>2, RankNumbers
<1>5. \A y \in S : ~(y < x) /\ ~(z < y)
  <2> TAKE y \in S
  <2>1. Rank(S, y) \in 0 .. Cardinality(S) - 1
    BY RankNumbers
  <2>2. /\ y < x => Rank(S, y) < Rank(S, x)
        /\ z < y => Rank(S, z) < Rank(S, y)
    BY RankNumbers
  <2> QED BY <1>1, <1>3, <1>4, <2>1, <2>2
<1>6. \A y \in S : y \in Int
  OBVIOUS
<1>7. \A y \in S : x <= y /\ z >= y
  BY <1>5, <1>6
<1>8. Min(S) \in S /\ \A y \in S : Min(S) <= y
  BY <1>7, Zenon DEF Min
<1>9. Max(S) \in S /\ \A y \in S : Max(S) >= y
  BY <1>7, Zenon DEF Max
<1> QED BY <1>6, <1>8, <1>9

LEMMA FiniteLines ==
  ASSUME NEW n \in Nat, NEW S \in SUBSET (1 .. n)
  PROVE  S \subseteq Int /\ IsFiniteSet(S) /\ Cardinality(S) \in Nat
<1>1. IsFiniteSet(1 .. n)
  BY FS_Interval
<1>2. IsFiniteSet(S)
  BY <1>1, FS_Subset
<1> QED BY <1>2, FS_CardinalityType

-------------------------------------------------------------------------------
\* The dashboard

\* The interval that state.pollTimer names runs.
HeldRuns == held => timers > 0

\* A request for lines names a room, and one for a snapshot a joined room.
CallsNameRooms ==
  \A c \in Calls : /\ call[c].what = "chat" => call[c].of \in Rooms
                   /\ call[c].what = "snapshot" => call[c].of \in Saved

DashboardTypes == DashboardTypeOK /\ HeldRuns /\ CallsNameRooms

\* The lines of an answer that the page does not show, each once.
LEMMA NewLinesOnce ==
  ASSUME DashboardTypeOK, NEW r \in Rooms, NEW since \in 0 .. MaxLine, NEW seen
  PROVE  LET new == NewLines(r, since, seen)
         IN  /\ new \in Seq(Rooms \X Lines) /\ Len(new) \in Nat
             /\ \A i \in 1 .. Len(new) : new[i][1] = r /\ new[i][2] \in Lines \ seen
             /\ \A i, j \in 1 .. Len(new) : new[i] = new[j] => i = j
<1> USE DashboardAssumption
<1> DEFINE S == HostLines(r, since) \ seen
           new == NewLines(r, since, seen)
<1>1. S \in SUBSET Lines /\ S \in SUBSET (1 .. MaxLine)
  <2>1. served[r] \in 0 .. MaxLine
    BY DEF DashboardTypeOK
  <2> QED BY <2>1 DEF HostLines, Lines
<1>2. S \subseteq Int /\ IsFiniteSet(S)
  BY <1>1, FiniteLines
<1> HIDE DEF S
<1>3. /\ Len(Ascending(S)) \in Nat
      /\ \A i \in 1 .. Len(Ascending(S)) : Ascending(S)[i] \in S
      /\ \A i, j \in 1 .. Len(Ascending(S)) : Ascending(S)[i] = Ascending(S)[j] => i = j
  <2> HIDE DEF new
  <2>1. Cardinality(S) \in Nat /\ Len(Ascending(S)) = Cardinality(S)
    BY <1>2, AscendingLists
  <2>2. /\ \A i \in 1 .. Cardinality(S) : Ascending(S)[i] \in S
        /\ \A i, j \in 1 .. Cardinality(S) : Ascending(S)[i] = Ascending(S)[j] => i = j
    BY <1>2, AscendingLists
  <2> QED BY <2>1, <2>2
<1>4. new = [i \in 1 .. Len(Ascending(S)) |-> <<r, Ascending(S)[i]>>]
  BY DEF NewLines, S
<1> DEFINE n == Len(Ascending(S))
<1>5. S \subseteq Lines \ seen
  BY <1>1 DEF S
<1>6. \A i \in 1 .. n : <<r, Ascending(S)[i]>> \in Rooms \X Lines
  BY <1>3, <1>5
<1>7. new \in Seq(Rooms \X Lines) /\ Len(new) = n
  <2> HIDE DEF n, new
  <2> QED BY <1>3, <1>4, <1>6 DEF n
<1>8. \A i \in 1 .. Len(new) : new[i][1] = r /\ new[i][2] = Ascending(S)[i]
  BY <1>3, <1>4, <1>7
<1>9. \A i \in 1 .. Len(new) : new[i][2] \in Lines \ seen
  BY <1>3, <1>7, <1>8, <1>5
<1> HIDE DEF new
<1>10. \A i, j \in 1 .. Len(new) : new[i] = new[j] => i = j
  BY <1>3, <1>7, <1>8
<1> QED BY <1>3, <1>7, <1>8, <1>9, <1>10 DEF new

\* What a sequence that is appended adds
LEMMA JoinedMembers ==
  ASSUME NEW T, NEW s \in Seq(T), NEW t \in Seq(T), NEW w, w = s \o t
  PROVE  /\ \A i \in 1 .. Len(s) : i \in 1 .. Len(w) /\ w[i] = s[i]
         /\ \A i \in 1 .. Len(t) : Len(s) + i \in 1 .. Len(w) /\ w[Len(s) + i] = t[i]
         /\ \A k \in 1 .. Len(w) : \/ \E i \in 1 .. Len(s) : w[k] = s[i]
                                   \/ \E i \in 1 .. Len(t) : w[k] = t[i]
<1> DEFINE m == Len(s)  n == Len(t)
<1>1. /\ m \in Nat /\ n \in Nat /\ Len(w) = m + n
      /\ \A i \in 1 .. m + n : w[i] = IF i <= m THEN s[i] ELSE t[i - m]
  BY ConcatProperties, LenProperties
<1> HIDE DEF m, n
<1>2. \A i \in 1 .. m : i \in 1 .. Len(w) /\ w[i] = s[i]
  BY <1>1
<1>3. \A i \in 1 .. n : m + i \in 1 .. m + n /\ ~(m + i <= m) /\ (m + i) - m = i
  BY <1>1
<1>4. \A i \in 1 .. n : m + i \in 1 .. Len(w) /\ w[m + i] = t[i]
  BY <1>1, <1>3
<1>5. ASSUME NEW k \in 1 .. Len(w)
      PROVE  (\E i \in 1 .. m : w[k] = s[i]) \/ \E i \in 1 .. n : w[k] = t[i]
  <2>1. CASE k <= m
    <3>1. k \in 1 .. m /\ w[k] = s[k]
      BY <1>1, <2>1
    <3> QED BY <3>1
  <2>2. CASE ~(k <= m)
    <3>1. k - m \in 1 .. n /\ w[k] = t[k - m]
      BY <1>1, <2>2
    <3> QED BY <3>1
  <2> QED BY <2>1, <2>2
<1>6. \A k \in 1 .. Len(w) : (\E i \in 1 .. m : w[k] = s[i]) \/ \E i \in 1 .. n : w[k] = t[i]
  BY <1>5
<1> QED BY <1>2, <1>4, <1>6 DEF m, n

\* Adding them keeps the lines of a transcript apart.
LEMMA JoinedOnce ==
  ASSUME NEW T, NEW s \in Seq(T), NEW t \in Seq(T),
         \A i, j \in 1 .. Len(s) : s[i] = s[j] => i = j,
         \A i, j \in 1 .. Len(t) : t[i] = t[j] => i = j,
         \A i \in 1 .. Len(s), j \in 1 .. Len(t) : s[i] # t[j]
  PROVE  \A i, j \in 1 .. Len(s \o t) : (s \o t)[i] = (s \o t)[j] => i = j
<1>1. /\ Len(s) \in Nat /\ Len(t) \in Nat
      /\ Len(s \o t) = Len(s) + Len(t)
      /\ \A i \in 1 .. Len(s) + Len(t) :
           (s \o t)[i] = IF i <= Len(s) THEN s[i] ELSE t[i - Len(s)]
  BY ConcatProperties, LenProperties
<1> DEFINE m == Len(s)  n == Len(t)  u(i) == (s \o t)[i]
<1>2. /\ m \in Nat /\ n \in Nat
      /\ \A i \in 1 .. m : u(i) = s[i]
      /\ \A i \in m + 1 .. m + n : u(i) = t[i - m] /\ i - m \in 1 .. n
  BY <1>1
<1>3. \A i \in 1 .. m + n : i \in 1 .. m \/ i \in m + 1 .. m + n
  BY <1>1
<1>4. \A i, j \in 1 .. m : s[i] = s[j] => i = j
  OBVIOUS
<1>5. \A i, j \in 1 .. n : t[i] = t[j] => i = j
  OBVIOUS
<1>6. \A i \in 1 .. m, j \in 1 .. n : s[i] # t[j]
  OBVIOUS
<1>7. ASSUME NEW i \in 1 .. m + n, NEW j \in 1 .. m + n, u(i) = u(j)
      PROVE  i = j
  <2> HIDE DEF m, n, u
  <2>1. CASE i \in 1 .. m /\ j \in 1 .. m
    BY <1>2, <1>4, <1>7, <2>1
  <2>2. CASE i \in 1 .. m /\ j \in m + 1 .. m + n
    BY <1>2, <1>6, <1>7, <2>2
  <2>3. CASE i \in m + 1 .. m + n /\ j \in 1 .. m
    BY <1>2, <1>6, <1>7, <2>3
  <2>4. CASE i \in m + 1 .. m + n /\ j \in m + 1 .. m + n
    <3>1. i - m = j - m
      BY <1>2, <1>5, <1>7, <2>4
    <3> QED BY <1>2, <3>1
  <2> QED BY <1>3, <2>1, <2>2, <2>3, <2>4
<1> QED BY <1>1, <1>7

Views == [active : Rooms \cup {Nothing}, joined : Saved \cup {Nothing},
          cursor : 0 .. MaxLine, messages : Seq(Rooms \X Lines),
          seen : SUBSET Lines, cached : BOOLEAN]
CallsOf == [what : {"none", "chat", "snapshot"}, of : Rooms \cup Saved \cup {Nothing},
            since : 0 .. MaxLine, live : BOOLEAN, first : BOOLEAN]
Manages == [open : BOOLEAN, selected : SUBSET Saved,
            reach : {"all", "reachable", "unreachable"},
            archived : {"all", "archived", "active"},
            confirm : 0 .. Cardinality(Saved), error : BOOLEAN]

LEMMA Zeros ==
  0 \in 0 .. MaxLine /\ 0 \in 0 .. MaxTimers /\ 0 \in 0 .. Cardinality(Saved)
<1>1. MaxLine \in Nat /\ MaxTimers \in Nat /\ Cardinality(Saved) \in Nat
  BY DashboardAssumption, FS_CardinalityType
<1> QED BY <1>1

LEMMA PageTypes ==
  /\ MaxLine \in Nat /\ Cardinality(Saved) \in Nat
  /\ Free \in CallsOf /\ Closed \in Manages /\ Home \in Views
  /\ \A r \in Rooms \cup {Nothing}, k \in BOOLEAN : [Home EXCEPT !.active = r, !.cached = k] \in Views
  /\ \A p \in Views : Emptied(p) \in Views /\ Emptied(p).active = p.active /\ Emptied(p).seen = {}
                      /\ Emptied(p).messages = <<>>
<1>1. <<>> \in Seq(Rooms \X Lines)
  OBVIOUS
<1>2. MaxLine \in Nat /\ Cardinality(Saved) \in Nat
  BY DashboardAssumption, FS_CardinalityType
<1>3. Free \in CallsOf
  BY <1>2 DEF Free, CallsOf
<1>4. Closed \in Manages
  BY <1>2 DEF Closed, Manages
<1>5. Home \in Views
  <2>1. 0 \in 0 .. MaxLine
    BY <1>2
  <2> QED BY <2>1, <1>1 DEF Home, Views
<1>6. ASSUME NEW r \in Rooms \cup {Nothing}, NEW k \in BOOLEAN
      PROVE  [Home EXCEPT !.active = r, !.cached = k] \in Views
  <2>1. 0 \in 0 .. MaxLine
    BY <1>2
  <2> QED BY <2>1, <1>1 DEF Home, Views
<1>7. ASSUME NEW p \in Views
      PROVE  Emptied(p) \in Views /\ Emptied(p).active = p.active /\ Emptied(p).seen = {}
             /\ Emptied(p).messages = <<>>
  <2> DEFINE q == [p EXCEPT !.messages = <<>>]
             w == [q EXCEPT !.seen = {}]
  <2>1. q \in Views /\ q.active = p.active /\ q.messages = <<>>
    BY <1>1 DEF Views
  <2> HIDE DEF q
  <2>2. w \in Views /\ w.active = p.active /\ w.messages = <<>> /\ w.seen = {}
    BY <2>1 DEF Views
  <2> HIDE DEF w
  <2>3. [w EXCEPT !.cached = FALSE] \in Views /\ [w EXCEPT !.cached = FALSE].active = p.active
        /\ [w EXCEPT !.cached = FALSE].messages = <<>> /\ [w EXCEPT !.cached = FALSE].seen = {}
    BY <2>2 DEF Views
  <2>4. Emptied(p) = [w EXCEPT !.cached = FALSE]
    BY DEF Emptied, w, q
  <2> QED BY <2>3, <2>4
<1> QED BY <1>2, <1>3, <1>4, <1>6, <1>7, <1>5

\* loadChat, over a page that shows a room
LEMMA LoadChatTypes ==
  ASSUME DashboardTypes, NEW c \in Calls, NEW p \in Views, p.active \in Rooms,
         NEW first \in BOOLEAN, LoadChat(c, p, first)
  PROVE  /\ view' \in Views
         /\ cache' \in [Rooms \cup {Nothing} -> SUBSET Rooms]
         /\ call' \in [Calls -> CallsOf] /\ CallsNameRooms'
<1>1. CASE status[p.active] = "closed"
  <2>1. /\ view' = Emptied(p) /\ call' = call
        /\ cache' = [cache EXCEPT ![p.active] = {}]
    BY <1>1 DEF LoadChat, ClearCache
  <2>2. view' \in Views
    BY <2>1, PageTypes
  <2>3. cache' \in [Rooms \cup {Nothing} -> SUBSET Rooms]
    BY <2>1 DEF DashboardTypes, DashboardTypeOK
  <2>4. call' \in [Calls -> CallsOf] /\ CallsNameRooms'
    BY <2>1 DEF DashboardTypes, DashboardTypeOK, CallsNameRooms, CallsOf
  <2> QED BY <2>2, <2>3, <2>4
<1>2. CASE status[p.active] # "closed"
  <2> DEFINE asks == [what |-> "chat", of |-> p.active, since |-> p.cursor,
                      live |-> status[p.active] = "active", first |-> first]
  <2>1. asks \in CallsOf /\ asks.what = "chat" /\ asks.of \in Rooms
    BY DEF CallsOf, Views
  <2> HIDE DEF asks
  <2>2. view' = p /\ cache' = cache /\ call' = [call EXCEPT ![c] = asks]
    BY <1>2 DEF LoadChat, asks
  <2>3. call \in [Calls -> CallsOf] /\ cache \in [Rooms \cup {Nothing} -> SUBSET Rooms]
    BY DEF DashboardTypes, DashboardTypeOK, CallsOf
  <2>4. call' \in [Calls -> CallsOf] /\ call'[c] = asks /\ \A d \in Calls \ {c} : call'[d] = call[d]
    BY <2>1, <2>2, <2>3
  <2> QED BY <2>1, <2>2, <2>3, <2>4 DEF DashboardTypes, CallsNameRooms
<1> QED BY <1>1, <1>2

Runs == [at : {"none", "sent", "answered"}, wanted : RowStates,
         entries : SUBSET Saved, done : SUBSET Saved, ok : BOOLEAN]

\* The types of the transcript, of the lists and of the manage view
ChatTypes ==
  /\ served \in [Rooms -> 0 .. MaxLine] /\ status \in [Rooms -> Statuses]
  /\ view \in Views /\ cache \in [Rooms \cup {Nothing} -> SUBSET Rooms]
  /\ timers \in 0 .. MaxTimers /\ held \in BOOLEAN /\ HeldRuns
  /\ call \in [Calls -> CallsOf] /\ CallsNameRooms
  /\ copy \in [Saved -> Copies]
  /\ band \in [of : Saved \cup {Nothing}, claim : Claims]
ListTypes ==
  /\ store \in [Saved -> RowStates] /\ listed \in [Saved -> RowStates]
  /\ live \in [Saved -> BOOLEAN]
  /\ reply \in [Saved \ Local -> RowStates] \cup {Nothing}
BulkTypes == manage \in Manages /\ run \in Runs

LEMMA TypesInParts == DashboardTypes <=> ChatTypes /\ ListTypes /\ BulkTypes
BY DEF DashboardTypes, DashboardTypeOK, ChatTypes, ListTypes, BulkTypes, Views, CallsOf, Manages, Runs

LEMMA QuietChat == ChatTypes /\ UNCHANGED chat => ChatTypes'
BY DEF ChatTypes, chat, HeldRuns, CallsNameRooms
LEMMA QuietLists == ListTypes /\ UNCHANGED lists => ListTypes'
BY DEF ListTypes, lists
LEMMA QuietBulk == BulkTypes /\ UNCHANGED bulk => BulkTypes'
BY DEF BulkTypes, bulk

LEMMA DashboardStarts == DashboardInit => DashboardTypes
<1> SUFFICES ASSUME DashboardInit PROVE ChatTypes /\ ListTypes /\ BulkTypes
  BY TypesInParts
<1>1. /\ view \in Views /\ timers \in 0 .. MaxTimers /\ held = FALSE
      /\ call \in [Calls -> CallsOf] /\ \A c \in Calls : call[c].what = "none"
  <2>1. view = Home /\ timers = 0 /\ held = FALSE /\ call = [c \in Calls |-> Free]
    BY DEF DashboardInit
  <2>2. Free \in CallsOf /\ Home \in Views /\ Free.what = "none"
    BY PageTypes DEF Free
  <2>3. 0 \in 0 .. MaxTimers
    BY DashboardAssumption
  <2> QED BY <2>1, <2>2, <2>3
<1>2. /\ served \in [Rooms -> 0 .. MaxLine] /\ status \in [Rooms -> Statuses]
      /\ cache \in [Rooms \cup {Nothing} -> SUBSET Rooms] /\ copy \in [Saved -> Copies]
      /\ band \in [of : Saved \cup {Nothing}, claim : Claims]
  <2>1. 0 \in 0 .. MaxLine
    BY Zeros
  <2>2. [of |-> Nothing, claim |-> ""] \in [of : Saved \cup {Nothing}, claim : Claims]
    BY DEF Claims
  <2>3. /\ served = [r \in Rooms |-> 0] /\ status = [r \in Rooms |-> "active"]
        /\ cache = [r \in Rooms \cup {Nothing} |-> {}] /\ copy = [e \in Saved |-> "absent"]
        /\ band = [of |-> Nothing, claim |-> ""]
    BY DEF DashboardInit
  <2>4. served \in [Rooms -> 0 .. MaxLine] /\ cache \in [Rooms \cup {Nothing} -> SUBSET Rooms]
    BY <2>1, <2>3
  <2>5. status \in [Rooms -> Statuses] /\ copy \in [Saved -> Copies]
    BY <2>3 DEF Statuses, Copies
  <2> QED BY <2>2, <2>3, <2>4, <2>5
<1>3. ChatTypes
  BY <1>1, <1>2 DEF ChatTypes, HeldRuns, CallsNameRooms
<1>4. ListTypes
  BY DEF DashboardInit, ListTypes, RowStates
<1>5. BulkTypes
  BY PageTypes DEF DashboardInit, BulkTypes, NoRun, Runs, RowStates
<1> QED BY <1>3, <1>4, <1>5

\* A request ends, and a first load starts an interval.
LEMMA EndLoadTypes ==
  ASSUME ChatTypes, NEW c \in Calls, EndLoad(c)
  PROVE  /\ timers' \in 0 .. MaxTimers /\ held' \in BOOLEAN /\ HeldRuns'
         /\ call' \in [Calls -> CallsOf] /\ CallsNameRooms'
<1>1. call' = [call EXCEPT ![c] = Free] /\ Free \in CallsOf /\ Free.what = "none"
  BY PageTypes DEF EndLoad, Free
<1>2. call' \in [Calls -> CallsOf] /\ call'[c] = Free /\ \A d \in Calls \ {c} : call'[d] = call[d]
  BY <1>1 DEF ChatTypes
<1>3. CallsNameRooms'
  BY <1>1, <1>2 DEF ChatTypes, CallsNameRooms
<1>4. call[c].first \in BOOLEAN
  BY DEF ChatTypes, CallsOf
<1>5. timers' \in 0 .. MaxTimers /\ held' \in BOOLEAN /\ HeldRuns'
  BY <1>4, DashboardAssumption DEF EndLoad, ChatTypes, HeldRuns
<1> QED BY <1>2, <1>3, <1>5

\* clearInterval
LEMMA StoppedTypes ==
  ASSUME ChatTypes
  PROVE  Stopped \in 0 .. MaxTimers
BY DashboardAssumption DEF ChatTypes, HeldRuns, Stopped

LEMMA CloseManageTypes ==
  ASSUME BulkTypes, IF manage.open THEN CloseManage ELSE UNCHANGED manage, UNCHANGED run
  PROVE  BulkTypes'
<1> DEFINE q == [manage EXCEPT !.open = FALSE, !.selected = {}]
           w == [q EXCEPT !.confirm = 0, !.error = FALSE]
<1>1. 0 \in 0 .. Cardinality(Saved)
  BY Zeros
<1>2. q \in Manages /\ q.open = FALSE
  BY DEF BulkTypes, Manages
<1>3. w \in Manages /\ w.confirm = 0 /\ w.open = FALSE
  <2> HIDE DEF q
  <2> QED BY <1>1, <1>2 DEF Manages
<1>4. manage.open => manage' = w
  <2>1. manage.open => CloseManage
    OBVIOUS
  <2> QED BY <2>1 DEF CloseManage
<1>5. manage.open \in BOOLEAN
  BY DEF BulkTypes, Manages
<1> HIDE DEF w
<1> QED BY <1>3, <1>4, <1>5 DEF BulkTypes

\* The transcript's own actions
LEMMA SelectTypes ==
  ASSUME DashboardTypes, ChatTypes, NEW c \in Calls, NEW r \in Rooms, SelectRoom(c, r)
  PROVE  ChatTypes'
<1> DEFINE p == [Home EXCEPT !.active = r, !.cached = cache[r] # {}]
<1>1. p \in Views /\ p.active = r
  BY PageTypes DEF Home
<1> HIDE DEF p
<1>2. LoadChat(c, p, TRUE)
  BY DEF SelectRoom, p
<1>3. /\ view' \in Views
      /\ cache' \in [Rooms \cup {Nothing} -> SUBSET Rooms]
      /\ call' \in [Calls -> CallsOf] /\ CallsNameRooms'
  BY <1>1, <1>2, LoadChatTypes
<1>4. /\ timers' = IF status[r] = "closed" THEN Stopped + 1 ELSE Stopped
      /\ timers' <= MaxTimers /\ held' = (status[r] = "closed")
      /\ UNCHANGED <<served, status, copy, band>>
  BY DEF SelectRoom
<1>5. timers' \in 0 .. MaxTimers /\ held' \in BOOLEAN /\ HeldRuns'
  <2>1. Stopped \in 0 .. MaxTimers /\ MaxTimers \in Nat
    BY StoppedTypes, DashboardAssumption
  <2>2. CASE status[r] = "closed"
    BY <1>4, <2>1, <2>2 DEF HeldRuns
  <2>3. CASE status[r] # "closed"
    BY <1>4, <2>1, <2>3 DEF HeldRuns
  <2> QED BY <2>2, <2>3
<1> QED BY <1>3, <1>4, <1>5 DEF ChatTypes

LEMMA PollTypes ==
  ASSUME DashboardTypes, ChatTypes, NEW c \in Calls, Poll(c)
  PROVE  ChatTypes'
<1>1. view \in Views /\ view.active \in Rooms
  BY DEF ChatTypes, Views, Poll
<1>2. LoadChat(c, view, FALSE) /\ UNCHANGED <<served, status, timers, held, copy, band>>
  BY DEF Poll
<1>3. /\ view' \in Views
      /\ cache' \in [Rooms \cup {Nothing} -> SUBSET Rooms]
      /\ call' \in [Calls -> CallsOf] /\ CallsNameRooms'
  BY <1>1, <1>2, LoadChatTypes
<1> QED BY <1>2, <1>3 DEF ChatTypes, HeldRuns

\* What an answer with lines does to the page
LEMMA ShowLiveParts ==
  ASSUME DashboardTypes, ChatTypes, NEW c \in Calls, ShowLive(c)
  PROVE  \E base \in Views, new \in Seq(Rooms \X Lines) :
           /\ base = view \/ (base.messages = <<>> /\ base.seen = {})
           /\ base.active = view.active
           /\ \A i \in 1 .. Len(new) : new[i][2] \in Lines \ base.seen
           /\ \A i, j \in 1 .. Len(new) : new[i] = new[j] => i = j
           /\ view' \in Views
           /\ view'.messages = base.messages \o new
           /\ view'.seen = base.seen \cup {new[i][2] : i \in 1 .. Len(new)}
           /\ cache' = [cache EXCEPT ![view.active] = {line[1] : line \in ToSet(base.messages \o new)}]
<1> DEFINE base == IF view.cached THEN Emptied(view) ELSE view
           r == call[c].of
           new == NewLines(r, call[c].since, base.seen)
<1>1. base \in Views /\ (base = view \/ (base.messages = <<>> /\ base.seen = {}))
      /\ base.active = view.active
  BY PageTypes DEF ChatTypes
<1>2. r \in Rooms /\ call[c].since \in 0 .. MaxLine
  BY DEF ChatTypes, CallsNameRooms, ShowLive, CallsOf
<1>3. served[r] \in 0 .. MaxLine
  BY <1>2 DEF ChatTypes
<1> HIDE DEF base, r
<1>4. /\ new \in Seq(Rooms \X Lines) /\ Len(new) \in Nat
      /\ \A i \in 1 .. Len(new) : new[i][2] \in Lines \ base.seen
      /\ \A i, j \in 1 .. Len(new) : new[i] = new[j] => i = j
  <2>1. DashboardTypeOK
    BY DEF DashboardTypes
  <2> QED BY <1>2, <2>1, NewLinesOnce
<1>5. /\ view' = [base EXCEPT !.messages = @ \o new, !.cursor = served[r],
                              !.seen = @ \cup {new[i][2] : i \in 1 .. Len(new)}]
      /\ cache' = WriteCache(view.active, base.messages \o new)
  BY DEF ShowLive, base, r
<1> HIDE DEF new
<1> DEFINE shown == {new[i][2] : i \in 1 .. Len(new)}
           v1 == [base EXCEPT !.messages = base.messages \o new]
           v2 == [v1 EXCEPT !.cursor = served[r]]
           v3 == [v2 EXCEPT !.seen = base.seen \cup shown]
<1>6. base.messages \o new \in Seq(Rooms \X Lines)
  BY <1>1, <1>4, ConcatProperties DEF Views
<1>7. v1 \in Views /\ v1.messages = base.messages \o new /\ v1.seen = base.seen
  BY <1>1, <1>6 DEF Views
<1>8. v2 \in Views /\ v2.messages = base.messages \o new /\ v2.seen = base.seen
  <2> HIDE DEF v1
  <2> QED BY <1>3, <1>7 DEF Views
<1>9. base.seen \cup shown \in SUBSET Lines
  BY <1>1, <1>4 DEF Views
<1>10. v3 \in Views /\ v3.messages = base.messages \o new /\ v3.seen = base.seen \cup shown
  <2> HIDE DEF v2, shown
  <2> QED BY <1>8, <1>9 DEF Views
<1>11. view' = v3
  BY <1>5, <1>7, <1>8
<1> HIDE DEF v3
<1>12. cache' = [cache EXCEPT ![view.active] = {line[1] : line \in ToSet(base.messages \o new)}]
  BY <1>5 DEF WriteCache
<1>13. view' \in Views /\ view'.messages = base.messages \o new /\ view'.seen = base.seen \cup shown
  BY <1>10, <1>11
<1> QED BY <1>1, <1>4, <1>12, <1>13

LEMMA AnswerTypes ==
  ASSUME DashboardTypes, ChatTypes, NEW c \in Calls, ShowLive(c) \/ ShowOffline(c)
  PROVE  ChatTypes'
<1>1. EndLoad(c) /\ UNCHANGED <<served, status, copy, band>>
  BY DEF ShowLive, ShowOffline
<1>2. /\ timers' \in 0 .. MaxTimers /\ held' \in BOOLEAN /\ HeldRuns'
      /\ call' \in [Calls -> CallsOf] /\ CallsNameRooms'
  BY <1>1, EndLoadTypes
<1>3. CASE ShowLive(c)
  <2>1. PICK base \in Views, new \in Seq(Rooms \X Lines) :
          /\ view' \in Views
          /\ cache' = [cache EXCEPT ![view.active] = {line[1] : line \in ToSet(base.messages \o new)}]
    BY <1>3, ShowLiveParts
  <2>2. base.messages \o new \in Seq(Rooms \X Lines)
    BY ConcatProperties DEF Views
  <2> DEFINE s == base.messages \o new
  <2> HIDE DEF s
  <2>3. \A i \in DOMAIN s : s[i] \in Rooms \X Lines
    BY <2>2 DEF s
  <2>4. {line[1] : line \in ToSet(s)} \in SUBSET Rooms
    BY <2>3 DEF ToSet
  <2>5. cache' \in [Rooms \cup {Nothing} -> SUBSET Rooms]
    BY <2>1, <2>4 DEF ChatTypes, s
  <2> QED BY <1>1, <1>2, <2>1, <2>5 DEF ChatTypes
<1>4. CASE ShowOffline(c)
  BY <1>1, <1>2, <1>4 DEF ChatTypes, ShowOffline
<1> QED BY <1>3, <1>4

\* The page that a snapshot or the home view starts from
LEMMA HomeTypes ==
  ASSUME ChatTypes
  PROVE  /\ [Home EXCEPT !.cursor = view.cursor] \in Views
         /\ \A e \in Saved : [Home EXCEPT !.joined = e, !.cursor = view.cursor] \in Views
         /\ [Emptied(view) EXCEPT !.cursor = 0] \in Views
<1>1. view.cursor \in 0 .. MaxLine /\ view \in Views
  BY DEF ChatTypes, Views
<1>2. Home \in Views /\ Emptied(view) \in Views
  BY <1>1, PageTypes
<1>3. ASSUME NEW e \in Saved PROVE [Home EXCEPT !.joined = e, !.cursor = view.cursor] \in Views
  BY <1>1, <1>2 DEF Views
<1>4. [Home EXCEPT !.cursor = view.cursor] \in Views
  BY <1>1, <1>2 DEF Views
<1>5. [Emptied(view) EXCEPT !.cursor = 0] \in Views
  BY <1>2, Zeros DEF Views
<1> QED BY <1>3, <1>4, <1>5

LEMMA LeaveTypes ==
  ASSUME ChatTypes, GoHome \/ ClearActiveCache \/ \E c \in Calls, e \in Saved : ShowSnapshot(c, e)
  PROVE  ChatTypes'
<1>1. CASE GoHome
  BY <1>1, HomeTypes, StoppedTypes DEF GoHome, ChatTypes, HeldRuns, CallsNameRooms
<1>2. CASE ClearActiveCache
  BY <1>2, HomeTypes DEF ClearActiveCache, ClearCache, ChatTypes, HeldRuns, CallsNameRooms
<1>3. CASE \E c \in Calls, e \in Saved : ShowSnapshot(c, e)
  <2>1. PICK c \in Calls, e \in Saved : ShowSnapshot(c, e)
    BY <1>3
  <2> DEFINE asks == [Free EXCEPT !.what = "snapshot", !.of = e]
  <2>2. asks \in CallsOf /\ asks.what = "snapshot" /\ asks.of = e
    BY PageTypes DEF CallsOf
  <2> HIDE DEF asks
  <2>3. /\ view' = [Home EXCEPT !.joined = e, !.cursor = view.cursor]
        /\ timers' = Stopped /\ held' = FALSE /\ call' = [call EXCEPT ![c] = asks]
        /\ UNCHANGED <<served, status, cache, copy, band>>
    BY <2>1 DEF ShowSnapshot, asks
  <2>4. call' \in [Calls -> CallsOf] /\ call'[c] = asks /\ \A d \in Calls \ {c} : call'[d] = call[d]
    BY <2>2, <2>3 DEF ChatTypes
  <2>5. CallsNameRooms'
    BY <2>2, <2>4 DEF ChatTypes, CallsNameRooms
  <2>6. view' \in Views /\ timers' \in 0 .. MaxTimers /\ held' \in BOOLEAN /\ HeldRuns'
    BY <2>3, HomeTypes, StoppedTypes DEF HeldRuns
  <2> QED BY <2>3, <2>4, <2>5, <2>6 DEF ChatTypes
<1> QED BY <1>1, <1>2, <1>3

LEMMA RenderTypes ==
  ASSUME ChatTypes, ListTypes, NEW c \in Calls, RenderSnapshot(c)
  PROVE  ChatTypes'
<1>1. call[c].of \in Saved
  BY DEF ChatTypes, CallsNameRooms, RenderSnapshot
<1>2. PICK read \in {"failed", HistoryAnswer(call[c].of)} :
        band' = [of |-> call[c].of, claim |-> Claim(read)]
  BY DEF RenderSnapshot
<1>3. read \in {"failed"} \cup Copies
  BY <1>1 DEF HistoryAnswer, ChatTypes
<1>4. Claim(read) \in Claims
  BY <1>3 DEF Claim, Claims, Copies
<1>5. band' \in [of : Saved \cup {Nothing}, claim : Claims]
  BY <1>1, <1>2, <1>4
<1>6. call' = [call EXCEPT ![c] = Free] /\ Free \in CallsOf /\ Free.what = "none"
  BY PageTypes DEF RenderSnapshot, Free
<1>7. call' \in [Calls -> CallsOf] /\ CallsNameRooms'
  BY <1>6 DEF ChatTypes, CallsNameRooms
<1> QED BY <1>5, <1>7 DEF RenderSnapshot, ChatTypes, HeldRuns

LEMMA HostTypes ==
  ASSUME ChatTypes, \/ LoadRooms \/ \E r \in Rooms : HostAppends(r)
                    \/ \E e \in Saved : CopyChanges(e)
  PROVE  ChatTypes'
<1>1. CASE LoadRooms
  BY <1>1 DEF LoadRooms, ChatTypes, HeldRuns, CallsNameRooms
<1>2. CASE \E r \in Rooms : HostAppends(r)
  <2>1. PICK r \in Rooms : HostAppends(r)
    BY <1>2
  <2>2. served[r] + 1 \in 0 .. MaxLine
    BY <2>1, DashboardAssumption DEF HostAppends, ChatTypes
  <2>3. served' \in [Rooms -> 0 .. MaxLine]
    BY <2>1, <2>2 DEF HostAppends, ChatTypes
  <2> QED BY <2>1, <2>3 DEF HostAppends, ChatTypes, HeldRuns, CallsNameRooms
<1>3. CASE \E e \in Saved : CopyChanges(e)
  BY <1>3 DEF CopyChanges, ChatTypes, HeldRuns, CallsNameRooms
<1> QED BY <1>1, <1>2, <1>3

\* The rows of joined rooms
LEMMA RowTypes ==
  ASSUME ListTypes, BulkTypes,
         \/ \E e \in Saved : ChangeRow(e)
         \/ AskJoinedRooms \/ LoadJoinedRooms
         \/ PlatformAnswers \/ EndRun
  PROVE  ListTypes'
<1> USE DashboardAssumption
<1>1. run.wanted \in RowStates
  BY DEF BulkTypes, Runs
<1>2. CASE \E e \in Saved : ChangeRow(e)
  <2>1. PICK e \in Saved : ChangeRow(e)
    BY <1>2
  <2>2. \E s \in RowStates : store' = [store EXCEPT ![e] = s]
    BY <2>1 DEF ChangeRow, ToggleArchive, DeleteEntry, AddFromInput, ChangedElsewhere, RowStates
  <2>3. UNCHANGED <<listed, live, reply>>
    BY <2>1 DEF ChangeRow, ToggleArchive, DeleteEntry, AddFromInput, ChangedElsewhere
  <2> QED BY <2>2, <2>3 DEF ListTypes
<1>3. CASE AskJoinedRooms
  BY <1>3 DEF AskJoinedRooms, ListTypes
<1>4. CASE LoadJoinedRooms
  <2>1. reply \in [Saved \ Local -> RowStates]
    BY <1>4 DEF LoadJoinedRooms, ListTypes
  <2>2. \A e \in Local : ReadJoinedLocal[e] \in RowStates
    BY DEF ListTypes, ReadJoinedLocal
  <2>3. "gone" \in RowStates
    BY DEF RowStates
  <2>4. PICK ok \in BOOLEAN :
          listed' = [e \in Saved |-> IF e \in Local THEN ReadJoinedLocal[e]
                                     ELSE IF ok THEN reply[e] ELSE "gone"]
    BY <1>4 DEF LoadJoinedRooms
  <2>5. listed' \in [Saved -> RowStates]
    BY <2>1, <2>2, <2>3, <2>4
  <2>6. live' \in [Saved -> BOOLEAN] /\ reply' = Nothing /\ store' = store
    BY <1>4 DEF LoadJoinedRooms
  <2> QED BY <2>5, <2>6 DEF ListTypes
<1>5. \A rows : Apply(rows) \in [Saved -> RowStates]
  BY <1>1 DEF ListTypes, Apply
<1>6. CASE PlatformAnswers
  <2>1. store' = store \/ store' = Apply(run.entries \ Local)
    BY <1>6 DEF PlatformAnswers
  <2>2. UNCHANGED <<listed, live, reply>>
    BY <1>6 DEF PlatformAnswers
  <2>3. store' \in [Saved -> RowStates]
    BY <1>5, <2>1 DEF ListTypes
  <2> QED BY <2>2, <2>3 DEF ListTypes
<1>7. CASE EndRun
  <2>1. store' = store \/ store' = Apply(run.entries \cap Local)
    BY <1>7 DEF EndRun
  <2>2. UNCHANGED <<listed, live, reply>>
    BY <1>7 DEF EndRun
  <2>3. store' \in [Saved -> RowStates]
    BY <1>5, <2>1 DEF ListTypes
  <2> QED BY <2>2, <2>3 DEF ListTypes
<1> QED BY <1>2, <1>3, <1>4, <1>6, <1>7

\* What is selected, and how many rows a pending confirmation names
SelectionOnScreen == manage.open => manage.selected \subseteq OnScreen
ConfirmNames ==
  manage.confirm > 0 => manage.open /\ Cardinality(manage.selected) <= manage.confirm

\* A set of joined rooms is finite.
LEMMA SavedFinite ==
  \A T \in SUBSET Saved : IsFiniteSet(T) /\ Cardinality(T) \in 0 .. Cardinality(Saved)
<1> TAKE T \in SUBSET Saved
<1>1. IsFiniteSet(T) /\ Cardinality(T) <= Cardinality(Saved)
  BY DashboardAssumption, FS_Subset
<1>2. Cardinality(T) \in Nat /\ Cardinality(Saved) \in Nat
  BY <1>1, DashboardAssumption, FS_CardinalityType
<1> QED BY <1>1, <1>2

\* The rows that a manage view shows are its own choice of the rows in the list.
LEMMA PrunedView ==
  ASSUME NEW m \in Manages, NEW l, NEW v
  PROVE  /\ Pruned(m, l, v) \in Manages
         /\ Pruned(m, l, v).open = m.open /\ Pruned(m, l, v).confirm = m.confirm
         /\ Pruned(m, l, v).reach = m.reach /\ Pruned(m, l, v).archived = m.archived
         /\ Pruned(m, l, v).selected \in SUBSET m.selected
         /\ m.open => Pruned(m, l, v).selected \subseteq ShownRows(m, l, v)
         /\ ShownRows(Pruned(m, l, v), l, v) = ShownRows(m, l, v)
<1> DEFINE n == Pruned(m, l, v)
           s == ShownRows(m, l, v)
<1>1. m.open \in BOOLEAN /\ m.selected \in SUBSET Saved
  BY DEF Manages
<1>2. CASE m.open
  <2>1. n = [m EXCEPT !.selected = m.selected \cap s]
    BY <1>2 DEF Pruned
  <2> HIDE DEF n, s
  <2>2. /\ n \in Manages /\ n.open = m.open /\ n.confirm = m.confirm
        /\ n.reach = m.reach /\ n.archived = m.archived /\ n.selected = m.selected \cap s
    BY <1>1, <2>1 DEF Manages
  <2>3. ShownRows(n, l, v) = ShownRows(m, l, v)
    BY <2>2 DEF ShownRows
  <2> QED BY <2>2, <2>3 DEF n, s
<1>3. CASE ~m.open
  BY <1>3 DEF Pruned
<1> QED BY <1>1, <1>2, <1>3

\* Opening, leaving and replacing the manage view
LEMMA OpenSelection ==
  ASSUME BulkTypes, SelectionOnScreen, ConfirmNames,
         \/ OpenManage \/ LeaveManage
         \/ (IF manage.open THEN CloseManage ELSE UNCHANGED manage) /\ UNCHANGED <<run, listed, live>>
  PROVE  BulkTypes' /\ SelectionOnScreen' /\ ConfirmNames'
<1>1. manage \in Manages /\ run \in Runs
  BY DEF BulkTypes
<1>2. CASE OpenManage
  <2> DEFINE q == [manage EXCEPT !.open = TRUE, !.selected = {}]
             w == [q EXCEPT !.confirm = 0]
  <2>1. q \in Manages /\ q.selected = {}
    BY <1>1 DEF Manages
  <2>2. w \in Manages /\ w.selected = {} /\ w.confirm = 0
    <3> HIDE DEF q
    <3> QED BY <2>1, Zeros DEF Manages
  <2>3. manage' = w /\ run' = run
    BY <1>2 DEF OpenManage, lists
  <2> HIDE DEF w
  <2> QED BY <1>1, <2>2, <2>3 DEF BulkTypes, SelectionOnScreen, ConfirmNames
<1>3. ASSUME manage.open, CloseManage, UNCHANGED run
      PROVE  BulkTypes' /\ SelectionOnScreen' /\ ConfirmNames'
  <2> DEFINE q == [manage EXCEPT !.open = FALSE, !.selected = {}]
             w == [q EXCEPT !.confirm = 0, !.error = FALSE]
  <2>1. q \in Manages /\ q.open = FALSE
    BY <1>1 DEF Manages
  <2>2. w \in Manages /\ w.open = FALSE /\ w.confirm = 0
    <3> HIDE DEF q
    <3> QED BY <2>1, Zeros DEF Manages
  <2>3. manage' = w
    BY <1>3 DEF CloseManage
  <2> HIDE DEF w
  <2> QED BY <1>1, <1>3, <2>2, <2>3 DEF BulkTypes, SelectionOnScreen, ConfirmNames
<1>4. CASE LeaveManage
  BY <1>3, <1>4 DEF LeaveManage
<1>5. ASSUME UNCHANGED <<manage, run, listed, live>>
      PROVE  BulkTypes' /\ SelectionOnScreen' /\ ConfirmNames'
  BY <1>5 DEF BulkTypes, SelectionOnScreen, ConfirmNames, OnScreen
<1>6. manage.open \in BOOLEAN
  BY <1>1 DEF Manages
<1> QED BY <1>2, <1>3, <1>4, <1>5, <1>6

\* A tick ends a pending confirmation and leaves the selection on the screen.
LEMMA TickSelection ==
  ASSUME BulkTypes, SelectionOnScreen, UNCHANGED <<run, listed, live>>,
         (\E e \in Saved : Tick(e)) \/ TickAll
  PROVE  BulkTypes' /\ SelectionOnScreen' /\ ConfirmNames'
<1>1. manage \in Manages /\ run \in Runs /\ manage.open
  BY DEF BulkTypes, Tick, TickAll
<1>2. OnScreen \in SUBSET Saved /\ manage.selected \in SUBSET Saved
  BY <1>1 DEF OnScreen, ShownRows, Manages
<1>3. manage.selected \subseteq OnScreen
  BY <1>1 DEF SelectionOnScreen
<1>4. PICK s \in SUBSET OnScreen : manage' = [manage EXCEPT !.confirm = 0, !.selected = s]
  <2>1. CASE TickAll
    BY <2>1 DEF TickAll
  <2>2. CASE \E e \in Saved : Tick(e)
    <3>1. PICK e \in OnScreen :
            manage' = [manage EXCEPT !.confirm = 0,
              !.selected = IF e \in manage.selected THEN manage.selected \ {e}
                                                    ELSE manage.selected \cup {e}]
      BY <2>2 DEF Tick
    <3> QED BY <1>3, <3>1
  <2> QED BY <2>1, <2>2
<1>5. /\ manage' \in Manages /\ manage'.confirm = 0 /\ manage'.selected = s
      /\ manage'.reach = manage.reach /\ manage'.archived = manage.archived
  BY <1>1, <1>2, <1>4, Zeros DEF Manages
<1>6. OnScreen' = OnScreen
  BY <1>5 DEF OnScreen, ShownRows
<1> QED BY <1>1, <1>4, <1>5, <1>6 DEF BulkTypes, SelectionOnScreen, ConfirmNames

\* A filter and a new list drop what is no longer on the screen.
LEMMA PrunedSelection ==
  ASSUME BulkTypes, ConfirmNames, Filter \/ LoadJoinedRooms
  PROVE  BulkTypes' /\ SelectionOnScreen' /\ ConfirmNames'
<1>1. manage \in Manages /\ run \in Runs /\ run' = run
  BY DEF BulkTypes, Filter, LoadJoinedRooms
<1>2. CASE Filter
  <2>1. PICK reach \in {"all", "reachable", "unreachable"},
             archived \in {"all", "archived", "active"} :
          manage' = Pruned([manage EXCEPT !.reach = reach, !.archived = archived,
                                          !.confirm = 0], listed, live)
    BY <1>2 DEF Filter
  <2> DEFINE q == [manage EXCEPT !.reach = reach, !.archived = archived]
             w == [q EXCEPT !.confirm = 0]
  <2>2. q \in Manages /\ q.open = manage.open
    BY <1>1 DEF Manages
  <2>3. w \in Manages /\ w.confirm = 0 /\ w.open = manage.open
    <3> HIDE DEF q
    <3> QED BY <2>2, Zeros DEF Manages
  <2>4. manage' = Pruned(w, listed, live) /\ listed' = listed /\ live' = live
    BY <1>2, <2>1 DEF Filter, lists
  <2> HIDE DEF w
  <2>5. /\ manage' \in Manages /\ manage'.confirm = 0 /\ manage'.open = w.open
        /\ manage'.open => manage'.selected \subseteq ShownRows(manage', listed', live')
    <3> DEFINE n == Pruned(w, listed, live)
    <3>1. /\ n \in Manages /\ n.open = w.open /\ n.confirm = w.confirm
          /\ w.open => n.selected \subseteq ShownRows(w, listed, live)
          /\ ShownRows(n, listed, live) = ShownRows(w, listed, live)
      BY <2>3, PrunedView, Zenon
    <3> HIDE DEF n
    <3> QED BY <2>3, <2>4, <3>1 DEF n
  <2> QED BY <1>1, <2>5 DEF BulkTypes, SelectionOnScreen, ConfirmNames, OnScreen
<1>3. CASE LoadJoinedRooms
  <2>1. manage' = Pruned(manage, listed', live')
    BY <1>3 DEF LoadJoinedRooms
  <2>2. /\ manage' \in Manages /\ manage'.open = manage.open /\ manage'.confirm = manage.confirm
        /\ manage'.selected \in SUBSET manage.selected
        /\ manage'.open => manage'.selected \subseteq ShownRows(manage', listed', live')
    <3> DEFINE n == Pruned(manage, listed', live')
    <3>1. /\ n \in Manages /\ n.open = manage.open /\ n.confirm = manage.confirm
          /\ n.selected \in SUBSET manage.selected
          /\ manage.open => n.selected \subseteq ShownRows(manage, listed', live')
          /\ ShownRows(n, listed', live') = ShownRows(manage, listed', live')
      BY <1>1, PrunedView, Zenon
    <3> HIDE DEF n
    <3> QED BY <2>1, <3>1 DEF n
  <2>3. manage.selected \in SUBSET Saved /\ manage.confirm \in 0 .. Cardinality(Saved)
    BY <1>1 DEF Manages
  <2>4. /\ IsFiniteSet(manage.selected)
        /\ Cardinality(manage.selected) \in Nat /\ Cardinality(manage'.selected) \in Nat
    BY <2>2, <2>3, SavedFinite
  <2>5. Cardinality(manage'.selected) <= Cardinality(manage.selected)
    BY <2>2, <2>4, FS_Subset
  <2>6. ConfirmNames'
    BY <2>2, <2>3, <2>4, <2>5 DEF ConfirmNames
  <2> QED BY <1>1, <2>2, <2>6 DEF BulkTypes, SelectionOnScreen, OnScreen
<1> QED BY <1>2, <1>3

\* Asking for a confirmation names the rows that are selected; it is taken back, or
\* used up by the action it allows.
LEMMA ConfirmSelection ==
  ASSUME BulkTypes, SelectionOnScreen, ConfirmNames,
         ShowDeleteConfirm \/ HideConfirm \/ \E wanted \in RowStates : StartRun(wanted)
  PROVE  manage' \in Manages /\ SelectionOnScreen' /\ ConfirmNames'
<1>1. manage \in Manages /\ manage.selected \in SUBSET Saved /\ UNCHANGED <<listed, live>>
  BY DEF BulkTypes, Manages, ShowDeleteConfirm, HideConfirm, StartRun, lists
<1>2. CASE ShowDeleteConfirm
  <2>1. Cardinality(manage.selected) \in 0 .. Cardinality(Saved)
    BY <1>1, SavedFinite
  <2>2. /\ manage' = [manage EXCEPT !.confirm = Cardinality(manage.selected)] /\ manage.open
    BY <1>2 DEF ShowDeleteConfirm
  <2>3. /\ manage' \in Manages /\ manage'.open = manage.open /\ manage'.selected = manage.selected
        /\ manage'.reach = manage.reach /\ manage'.archived = manage.archived
        /\ manage'.confirm = Cardinality(manage.selected)
    BY <1>1, <2>1, <2>2 DEF Manages
  <2>4. Cardinality(manage'.selected) <= manage'.confirm
    BY <2>1, <2>3
  <2> QED BY <1>1, <2>2, <2>3, <2>4 DEF SelectionOnScreen, ConfirmNames, OnScreen, ShownRows
<1>3. CASE HideConfirm \/ \E wanted \in RowStates : StartRun(wanted)
  <2>1. \/ manage' = [manage EXCEPT !.confirm = 0]
        \/ manage' = [manage EXCEPT !.confirm = 0, !.error = FALSE]
    BY <1>3 DEF HideConfirm, StartRun
  <2>2. /\ manage' \in Manages /\ manage'.open = manage.open /\ manage'.selected = manage.selected
        /\ manage'.reach = manage.reach /\ manage'.archived = manage.archived
        /\ manage'.confirm = 0
    BY <1>1, <2>1, Zeros DEF Manages
  <2> QED BY <1>1, <2>2 DEF SelectionOnScreen, ConfirmNames, OnScreen, ShownRows
<1> QED BY <1>2, <1>3

\* What the platform is known to have changed, once it has answered that it did
AnsweredInFull == run.at = "answered" /\ run.ok => run.entries \ Local \subseteq run.done

LEMMA RunSteps ==
  ASSUME BulkTypes, SelectionOnScreen, ConfirmNames, AnsweredInFull,
         \/ ShowDeleteConfirm \/ HideConfirm \/ \E wanted \in RowStates : StartRun(wanted)
         \/ PlatformAnswers \/ EndRun
  PROVE  BulkTypes' /\ SelectionOnScreen' /\ ConfirmNames' /\ AnsweredInFull'
<1>1. manage \in Manages /\ run \in Runs
  BY DEF BulkTypes
<1>2. CASE ShowDeleteConfirm \/ HideConfirm
  BY <1>1, <1>2, ConfirmSelection DEF BulkTypes, AnsweredInFull, ShowDeleteConfirm, HideConfirm
<1>3. CASE \E wanted \in RowStates : StartRun(wanted)
  <2>1. PICK wanted \in RowStates :
          run' = [at |-> IF SelectedEntries \subseteq Local THEN "answered" ELSE "sent",
                  wanted |-> wanted, entries |-> SelectedEntries, done |-> {}, ok |-> TRUE]
    BY <1>3 DEF StartRun
  <2>2. SelectedEntries \in SUBSET Saved
    BY <1>1 DEF SelectedEntries, Manages
  <2>3. run' \in Runs
    BY <2>1, <2>2 DEF Runs
  <2>4. AnsweredInFull'
    BY <2>1 DEF AnsweredInFull
  <2> QED BY <1>3, <2>3, <2>4, ConfirmSelection DEF BulkTypes
<1>4. CASE PlatformAnswers
  <2>1. UNCHANGED <<manage, listed, live>>
    BY <1>4 DEF PlatformAnswers
  <2>2. SelectionOnScreen' /\ ConfirmNames' /\ manage' \in Manages
    BY <1>1, <2>1 DEF SelectionOnScreen, ConfirmNames, OnScreen, ShownRows
  <2>3. \/ \E ok \in BOOLEAN : run' = [run EXCEPT !.at = "answered", !.done = run.entries \ Local, !.ok = ok]
        \/ run' = [run EXCEPT !.at = "answered", !.ok = FALSE]
    BY <1>4 DEF PlatformAnswers
  <2>4. CASE run' = [run EXCEPT !.at = "answered", !.ok = FALSE]
    BY <1>1, <2>2, <2>4 DEF BulkTypes, Runs, AnsweredInFull
  <2>5. CASE \E ok \in BOOLEAN : run' = [run EXCEPT !.at = "answered", !.done = run.entries \ Local, !.ok = ok]
    <3>1. PICK ok \in BOOLEAN : run' = [run EXCEPT !.at = "answered", !.done = run.entries \ Local, !.ok = ok]
      BY <2>5
    <3> DEFINE q == [run EXCEPT !.at = "answered", !.done = run.entries \ Local]
    <3>2. q \in Runs /\ q.entries = run.entries /\ q.done = run.entries \ Local
      BY <1>1 DEF Runs
    <3>3. run' = [q EXCEPT !.ok = ok]
      BY <3>1
    <3> HIDE DEF q
    <3>4. run' \in Runs /\ run'.entries = run.entries /\ run'.done = run.entries \ Local
      BY <3>2, <3>3 DEF Runs
    <3> QED BY <2>2, <3>4 DEF BulkTypes, AnsweredInFull
  <2> QED BY <2>3, <2>4, <2>5
<1>5. CASE EndRun
  <2>1. UNCHANGED <<listed, live>> /\ run' = NoRun
    BY <1>5 DEF EndRun
  <2>2. PICK failed \in BOOLEAN : manage' = [manage EXCEPT !.selected = {}, !.error = failed]
    <3>1. PICK stored \in BOOLEAN :
            manage' = [manage EXCEPT !.selected = {}, !.error = ~run.ok \/ ~stored \/ manage.error]
      BY <1>5 DEF EndRun
    <3>2. (~run.ok \/ ~stored \/ manage.error) \in BOOLEAN
      OBVIOUS
    <3> QED BY <3>1, <3>2
  <2>3. /\ manage' \in Manages /\ manage'.open = manage.open /\ manage'.selected = {}
        /\ manage'.confirm = manage.confirm
    BY <1>1, <2>2 DEF Manages
  <2>4. Cardinality({}) = 0 /\ manage.confirm \in Nat
    BY <1>1, FS_EmptySet, FS_CardinalityType, DashboardAssumption DEF Manages
  <2>5. ConfirmNames'
    BY <2>3, <2>4 DEF ConfirmNames
  <2>6. NoRun \in Runs /\ AnsweredInFull'
    BY <2>1 DEF NoRun, Runs, RowStates, AnsweredInFull
  <2> QED BY <2>1, <2>3, <2>5, <2>6 DEF BulkTypes, SelectionOnScreen
<1> QED BY <1>2, <1>3, <1>4, <1>5

-------------------------------------------------------------------------------
\* The inductive invariant of the dashboard

DashboardInv ==
  DashboardTypes /\ EachLineOnce /\ SelectionOnScreen /\ ConfirmNames /\ AnsweredInFull

LEMMA DashboardTypeStep ==
  DashboardInv /\ [DashboardNext]_dashboardVars
    => DashboardTypes' /\ SelectionOnScreen' /\ ConfirmNames' /\ AnsweredInFull'
<1> SUFFICES ASSUME DashboardInv, [DashboardNext]_dashboardVars
             PROVE  /\ ChatTypes' /\ ListTypes' /\ BulkTypes'
                    /\ SelectionOnScreen' /\ ConfirmNames' /\ AnsweredInFull'
  <2>1. DashboardTypes' <=> ChatTypes' /\ ListTypes' /\ BulkTypes'
    BY TypesInParts, PTL
  <2> QED BY <2>1
<1>1. /\ DashboardTypes /\ ChatTypes /\ ListTypes /\ BulkTypes
      /\ SelectionOnScreen /\ ConfirmNames /\ AnsweredInFull
  BY TypesInParts DEF DashboardInv
<1> DEFINE Selection == SelectionOnScreen' /\ ConfirmNames' /\ AnsweredInFull'
<1>2. ASSUME UNCHANGED <<manage, run, listed, live>>
      PROVE  BulkTypes' /\ Selection
  BY <1>1, <1>2 DEF BulkTypes, SelectionOnScreen, ConfirmNames, AnsweredInFull, OnScreen, ShownRows
<1>3. ASSUME UNCHANGED run PROVE AnsweredInFull'
  BY <1>1, <1>3 DEF AnsweredInFull
<1>4. ASSUME UNCHANGED lists PROVE ListTypes' /\ UNCHANGED <<listed, live>>
  BY <1>1, <1>4, QuietLists DEF lists
<1>5. ASSUME UNCHANGED chat PROVE ChatTypes'
  BY <1>1, <1>5, QuietChat
<1>6. ASSUME UNCHANGED bulk PROVE UNCHANGED <<manage, run>>
  BY <1>6 DEF bulk
<1>7. CASE LoadRooms \/ ClearActiveCache \/ (\E r \in Rooms : HostAppends(r)) \/ \E e \in Saved : CopyChanges(e)
  <2>1. UNCHANGED lists /\ UNCHANGED bulk
    BY <1>7 DEF LoadRooms, ClearActiveCache, HostAppends, CopyChanges
  <2>2. ChatTypes'
    BY <1>1, <1>7, LeaveTypes, HostTypes
  <2> QED BY <1>2, <1>4, <1>6, <2>1, <2>2
<1>8. ASSUME NEW c \in Calls, Poll(c) \/ ShowLive(c) \/ ShowOffline(c) \/ RenderSnapshot(c)
      PROVE  ChatTypes' /\ ListTypes' /\ BulkTypes' /\ Selection
  <2>1. UNCHANGED lists /\ UNCHANGED bulk
    BY <1>8 DEF Poll, ShowLive, ShowOffline, RenderSnapshot
  <2>2. ChatTypes'
    BY <1>1, <1>8, PollTypes, AnswerTypes, RenderTypes
  <2> QED BY <1>2, <1>4, <1>6, <2>1, <2>2
<1>9. CASE \/ GoHome
           \/ \E c \in Calls : (\E r \in Rooms : SelectRoom(c, r)) \/ \E e \in Saved : ShowSnapshot(c, e)
  <2>1. UNCHANGED lists /\ UNCHANGED run /\ IF manage.open THEN CloseManage ELSE UNCHANGED manage
    BY <1>9 DEF GoHome, SelectRoom, ShowSnapshot
  <2>2. ChatTypes'
    BY <1>1, <1>9, LeaveTypes, SelectTypes
  <2>3. BulkTypes' /\ SelectionOnScreen' /\ ConfirmNames'
    BY <1>1, <1>4, <2>1, OpenSelection
  <2> QED BY <1>3, <1>4, <2>1, <2>2, <2>3
<1>10. CASE (\E e \in Saved : ChangeRow(e)) \/ AskJoinedRooms
  <2>1. UNCHANGED chat /\ UNCHANGED bulk /\ UNCHANGED <<listed, live>>
    BY <1>10 DEF ChangeRow, ToggleArchive, DeleteEntry, AddFromInput, ChangedElsewhere, AskJoinedRooms
  <2>2. ListTypes'
    BY <1>1, <1>10, RowTypes
  <2> QED BY <1>2, <1>5, <1>6, <2>1, <2>2
<1>11. CASE LoadJoinedRooms
  <2>1. UNCHANGED chat /\ UNCHANGED run
    BY <1>11 DEF LoadJoinedRooms
  <2> QED BY <1>1, <1>3, <1>5, <1>11, <2>1, RowTypes, PrunedSelection
<1>12. CASE OpenManage \/ LeaveManage
  <2>1. UNCHANGED chat /\ UNCHANGED lists /\ UNCHANGED run
    BY <1>12 DEF OpenManage, LeaveManage
  <2> QED BY <1>1, <1>3, <1>4, <1>5, <1>12, <2>1, OpenSelection
<1>13. CASE (\E e \in Saved : Tick(e)) \/ TickAll \/ Filter
  <2>1. UNCHANGED chat /\ UNCHANGED lists /\ UNCHANGED run
    BY <1>13 DEF Tick, TickAll, Filter
  <2>2. UNCHANGED <<run, listed, live>>
    BY <1>4, <2>1
  <2> QED BY <1>1, <1>3, <1>4, <1>5, <1>13, <2>1, <2>2, TickSelection, PrunedSelection
<1>14. CASE \/ ShowDeleteConfirm \/ HideConfirm \/ \E wanted \in RowStates : StartRun(wanted)
            \/ PlatformAnswers \/ EndRun
  <2>1. UNCHANGED chat
    BY <1>14 DEF ShowDeleteConfirm, HideConfirm, StartRun, PlatformAnswers, EndRun
  <2>2. ListTypes'
    <3>1. CASE PlatformAnswers \/ EndRun
      BY <1>1, <3>1, RowTypes
    <3>2. CASE ShowDeleteConfirm \/ HideConfirm \/ \E wanted \in RowStates : StartRun(wanted)
      BY <1>4, <3>2 DEF ShowDeleteConfirm, HideConfirm, StartRun
    <3> QED BY <1>14, <3>1, <3>2
  <2> QED BY <1>1, <1>5, <1>14, <2>1, <2>2, RunSteps
<1>15. CASE UNCHANGED dashboardVars
  <2>1. UNCHANGED chat /\ UNCHANGED lists /\ UNCHANGED bulk
    BY <1>15 DEF dashboardVars
  <2> QED BY <1>2, <1>4, <1>5, <1>6, <2>1
<1> QED BY <1>7, <1>8, <1>9, <1>10, <1>11, <1>12, <1>13, <1>14, <1>15 DEF DashboardNext

\* A page that shows nothing shows each line once.
LEMMA NothingTwice ==
  ASSUME view'.messages = <<>>, view'.seen = {}
  PROVE  EachLineOnce'
BY DEF EachLineOnce

LEMMA EachLineOnceStep ==
  DashboardInv /\ [DashboardNext]_dashboardVars => EachLineOnce'
<1> SUFFICES ASSUME DashboardInv, [DashboardNext]_dashboardVars
             PROVE  EachLineOnce'
  OBVIOUS
<1>1. DashboardTypes /\ ChatTypes /\ EachLineOnce /\ view \in Views
  BY TypesInParts DEF DashboardInv, ChatTypes
<1>2. ASSUME UNCHANGED view PROVE EachLineOnce'
  BY <1>1, <1>2 DEF EachLineOnce
<1>3. ASSUME NEW c \in Calls, NEW p \in Views, NEW first \in BOOLEAN, LoadChat(c, p, first)
      PROVE  view' = p \/ (view'.messages = <<>> /\ view'.seen = {})
  BY <1>3, PageTypes DEF LoadChat
<1>4. ASSUME NEW c \in Calls, NEW r \in Rooms, SelectRoom(c, r)
      PROVE  EachLineOnce'
  <2> DEFINE p == [Home EXCEPT !.active = r, !.cached = cache[r] # {}]
  <2>1. p \in Views /\ p.messages = <<>> /\ p.seen = {}
    BY PageTypes DEF Home
  <2>2. LoadChat(c, p, TRUE)
    BY <1>4 DEF SelectRoom
  <2> HIDE DEF p
  <2> QED BY <1>3, <2>1, <2>2, NothingTwice
<1>5. ASSUME NEW c \in Calls, Poll(c)
      PROVE  EachLineOnce'
  <2>1. LoadChat(c, view, FALSE)
    BY <1>5 DEF Poll
  <2> QED BY <1>1, <1>2, <1>3, <2>1, NothingTwice
<1>6. CASE GoHome \/ ClearActiveCache \/ \E c \in Calls, e \in Saved : ShowSnapshot(c, e)
  <2>1. Home.messages = <<>> /\ Home.seen = {} /\ Home \in Views
        /\ Emptied(view) \in Views /\ Emptied(view).messages = <<>> /\ Emptied(view).seen = {}
    BY <1>1, PageTypes DEF Home
  <2>2. \/ view' = [Home EXCEPT !.cursor = view.cursor]
        \/ view' = [Emptied(view) EXCEPT !.cursor = 0]
        \/ \E e \in Saved : view' = [Home EXCEPT !.joined = e, !.cursor = view.cursor]
    BY <1>6 DEF GoHome, ClearActiveCache, ShowSnapshot
  <2>3. view'.messages = <<>> /\ view'.seen = {}
    BY <2>1, <2>2 DEF Views
  <2> QED BY <2>3, NothingTwice
<1>7. ASSUME NEW c \in Calls, ShowLive(c)
      PROVE  EachLineOnce'
  <2>1. PICK base \in Views, new \in Seq(Rooms \X Lines) :
           /\ base = view \/ (base.messages = <<>> /\ base.seen = {})
           /\ \A i \in 1 .. Len(new) : new[i][2] \in Lines \ base.seen
           /\ \A i, j \in 1 .. Len(new) : new[i] = new[j] => i = j
           /\ view'.messages = base.messages \o new
           /\ view'.seen = base.seen \cup {new[i][2] : i \in 1 .. Len(new)}
    BY <1>1, <1>7, ShowLiveParts
  <2> DEFINE s == base.messages
             u == view'.messages
  <2>2. s \in Seq(Rooms \X Lines)
    BY DEF Views
  <2>3. /\ \A i, j \in 1 .. Len(s) : s[i] = s[j] => i = j
        /\ base.seen = {s[i][2] : i \in 1 .. Len(s)}
    <3>1. CASE base = view
      BY <1>1, <3>1 DEF EachLineOnce
    <3>2. CASE s = <<>> /\ base.seen = {}
      <4>1. 1 .. Len(s) = {}
        BY <3>2
      <4> QED BY <3>2, <4>1
    <3> QED BY <2>1, <3>1, <3>2
  <2>4. \A i \in 1 .. Len(s), j \in 1 .. Len(new) : s[i] # new[j]
    BY <2>1, <2>3
  <2> HIDE DEF s
  <2>5. u = s \o new
    BY <2>1 DEF s
  <2>6. \A i, j \in 1 .. Len(s \o new) : (s \o new)[i] = (s \o new)[j] => i = j
    BY <2>1, <2>2, <2>3, <2>4, JoinedOnce
  <2>7. /\ \A i \in 1 .. Len(s) : i \in 1 .. Len(u) /\ u[i] = s[i]
        /\ \A i \in 1 .. Len(new) : Len(s) + i \in 1 .. Len(u) /\ u[Len(s) + i] = new[i]
        /\ \A k \in 1 .. Len(u) : \/ \E i \in 1 .. Len(s) : u[k] = s[i]
                                  \/ \E i \in 1 .. Len(new) : u[k] = new[i]
    <3> HIDE DEF u
    <3> QED BY <2>2, <2>5, JoinedMembers, SMTT(60)
  <2>8. {u[i][2] : i \in 1 .. Len(u)}
          = {s[i][2] : i \in 1 .. Len(s)} \cup {new[i][2] : i \in 1 .. Len(new)}
    <3> HIDE DEF u
    <3>1. ASSUME NEW x \in {u[i][2] : i \in 1 .. Len(u)}
          PROVE  x \in {s[i][2] : i \in 1 .. Len(s)} \cup {new[i][2] : i \in 1 .. Len(new)}
      <4>1. PICK k \in 1 .. Len(u) : x = u[k][2]
        OBVIOUS
      <4> QED BY <2>7, <4>1
    <3>2. \A i \in 1 .. Len(s) : s[i][2] \in {u[k][2] : k \in 1 .. Len(u)}
      BY <2>7
    <3>3. \A i \in 1 .. Len(new) : new[i][2] \in {u[k][2] : k \in 1 .. Len(u)}
      BY <2>7
    <3> QED BY <3>1, <3>2, <3>3
  <2>9. view'.seen = {u[i][2] : i \in 1 .. Len(u)}
    <3>1. view'.seen = {s[i][2] : i \in 1 .. Len(s)} \cup {new[i][2] : i \in 1 .. Len(new)}
      BY <2>1, <2>3
    <3> QED BY <2>8, <3>1
  <2> QED BY <2>5, <2>6, <2>9 DEF EachLineOnce
<1>8. CASE \/ LoadRooms \/ (\E r \in Rooms : HostAppends(r))
           \/ \E c \in Calls : ShowOffline(c) \/ RenderSnapshot(c)
           \/ \E e \in Saved : CopyChanges(e)
  BY <1>2, <1>8 DEF LoadRooms, HostAppends, ShowOffline, RenderSnapshot, CopyChanges
<1>9. CASE \/ \E e \in Saved : ChangeRow(e) \/ Tick(e)
           \/ AskJoinedRooms \/ LoadJoinedRooms \/ OpenManage \/ LeaveManage \/ TickAll \/ Filter
  <2>1. UNCHANGED chat
    BY <1>9 DEF ChangeRow, ToggleArchive, DeleteEntry, AddFromInput, ChangedElsewhere, Tick,
                AskJoinedRooms, LoadJoinedRooms, OpenManage, LeaveManage, TickAll, Filter
  <2> QED BY <1>2, <2>1 DEF chat
<1>10. CASE \/ ShowDeleteConfirm \/ HideConfirm \/ (\E wanted \in RowStates : StartRun(wanted))
           \/ PlatformAnswers \/ EndRun
  <2>1. UNCHANGED chat
    BY <1>10 DEF ShowDeleteConfirm, HideConfirm, StartRun, PlatformAnswers, EndRun
  <2> QED BY <1>2, <2>1 DEF chat
<1>11. CASE UNCHANGED dashboardVars
  BY <1>2, <1>11 DEF dashboardVars, chat
<1> QED BY <1>4, <1>5, <1>6, <1>7, <1>8, <1>9, <1>10, <1>11 DEF DashboardNext

LEMMA DashboardAlways == DashboardSpec => []DashboardInv
<1>1. DashboardInit => DashboardInv
  <2> SUFFICES ASSUME DashboardInit PROVE DashboardInv
    OBVIOUS
  <2>1. view = Home /\ Home.messages = <<>> /\ Home.seen = {} /\ manage = Closed /\ run = NoRun
    BY DEF DashboardInit, Home
  <2>2. EachLineOnce
    BY <2>1 DEF EachLineOnce
  <2>3. SelectionOnScreen /\ ConfirmNames /\ AnsweredInFull
    BY <2>1 DEF SelectionOnScreen, ConfirmNames, AnsweredInFull, Closed, NoRun
  <2> QED BY <2>2, <2>3, DashboardStarts DEF DashboardInv
<1>2. DashboardInv /\ [DashboardNext]_dashboardVars => DashboardInv'
  BY DashboardTypeStep, EachLineOnceStep DEF DashboardInv
<1> QED BY <1>1, <1>2, PTL DEF DashboardSpec

\* Every variable of the dashboard keeps its type.
THEOREM DashboardTypeCorrect == DashboardSpec => []DashboardTypeOK
<1>1. DashboardInv => DashboardTypeOK
  BY DEF DashboardInv, DashboardTypes
<1> QED BY <1>1, DashboardAlways, PTL

\* shell.js:1128: no line of a room is shown twice, however polls overlap.
THEOREM LinesShownOnce == DashboardSpec => []EachLineOnce
<1>1. DashboardInv => EachLineOnce
  BY DEF DashboardInv
<1> QED BY <1>1, DashboardAlways, PTL

\* shell.js:242, 1840 and 1931: a bulk action touches what is on the screen, and a
\* confirmed delete no more rows than the confirmation named.
THEOREM ConfirmedDeletes == DashboardSpec => []DeleteAsConfirmed
<1>1. DashboardInv => DeleteAsConfirmed
  <2> SUFFICES ASSUME DashboardInv PROVE DeleteAsConfirmed
    OBVIOUS
  <2>1. /\ SelectionOnScreen /\ ConfirmNames
        /\ manage.selected \in SUBSET Saved /\ manage.confirm \in 0 .. Cardinality(Saved)
    BY DEF DashboardInv, DashboardTypes, DashboardTypeOK
  <2>2. SelectedEntries \in SUBSET manage.selected
    BY DEF SelectedEntries
  <2>3. /\ IsFiniteSet(manage.selected)
        /\ Cardinality(manage.selected) \in Nat /\ Cardinality(SelectedEntries) \in Nat
    BY <2>1, <2>2, SavedFinite
  <2>4. Cardinality(SelectedEntries) <= Cardinality(manage.selected)
    BY <2>2, <2>3, FS_Subset
  <2> QED BY <2>1, <2>3, <2>4 DEF DeleteAsConfirmed, SelectionOnScreen, ConfirmNames
<1> QED BY <1>1, DashboardAlways, PTL

\* shell.js:1960: a bulk action that did not change every row it was asked to change
\* ends with a message.
THEOREM PartialRunsAreShown == DashboardSpec => PartialNeverSilent
<1>1. DashboardInv /\ [DashboardNext]_dashboardVars =>
        [Busy /\ ~Busy' =>
           \/ manage'.error
           \/ \A e \in run.entries : IF e \in Local THEN store'[e] \in {run.wanted, "gone"}
                                                    ELSE e \in run.done]_dashboardVars
  <2> SUFFICES ASSUME DashboardInv, DashboardNext, Busy, ~Busy', ~manage'.error
               PROVE  \A e \in run.entries : IF e \in Local THEN store'[e] \in {run.wanted, "gone"}
                                                            ELSE e \in run.done
    OBVIOUS
  <2>1. run # run' /\ run.at # "none" /\ run'.at = "none"
    BY DEF Busy
  <2>2. EndRun
    <3>1. ~(\E wanted \in RowStates : StartRun(wanted)) /\ ~PlatformAnswers
      BY <2>1 DEF StartRun, Busy, PlatformAnswers, DashboardInv, DashboardTypes, DashboardTypeOK
    <3>2. CASE \/ LoadRooms \/ GoHome \/ ClearActiveCache \/ (\E r \in Rooms : HostAppends(r))
               \/ \E c \in Calls :
                    \/ \E r \in Rooms : SelectRoom(c, r)
                    \/ \E e \in Saved : ShowSnapshot(c, e)
                    \/ Poll(c) \/ ShowLive(c) \/ ShowOffline(c) \/ RenderSnapshot(c)
      BY <2>1, <3>2 DEF LoadRooms, GoHome, ClearActiveCache, HostAppends, SelectRoom, ShowSnapshot,
                        Poll, ShowLive, ShowOffline, RenderSnapshot, bulk
    <3>3. CASE \/ \E e \in Saved : CopyChanges(e) \/ ChangeRow(e) \/ Tick(e)
               \/ AskJoinedRooms \/ LoadJoinedRooms
               \/ OpenManage \/ LeaveManage \/ TickAll \/ Filter
               \/ ShowDeleteConfirm \/ HideConfirm
      BY <2>1, <3>3 DEF CopyChanges, ChangeRow, ToggleArchive, DeleteEntry, AddFromInput,
                        ChangedElsewhere, Tick, AskJoinedRooms, LoadJoinedRooms, OpenManage,
                        LeaveManage, TickAll, Filter, ShowDeleteConfirm, HideConfirm, bulk
    <3> QED BY <3>1, <3>2, <3>3 DEF DashboardNext
  <2>3. /\ manage \in Manages /\ run \in Runs /\ AnsweredInFull
        /\ store \in [Saved -> RowStates] /\ Local \subseteq Saved
    BY TypesInParts, DashboardAssumption DEF DashboardInv, BulkTypes, ListTypes
  <2>4. PICK stored \in BOOLEAN :
          /\ store' = IF stored THEN Apply(run.entries \cap Local) ELSE store
          /\ manage' = [manage EXCEPT !.selected = {}, !.error = ~run.ok \/ ~stored \/ manage.error]
    BY <2>2 DEF EndRun
  <2>5. manage'.error = (~run.ok \/ ~stored \/ manage.error)
    BY <2>3, <2>4 DEF Manages
  <2>6. run.ok /\ stored /\ run.at = "answered"
    BY <2>2, <2>3, <2>5 DEF EndRun, Runs
  <2>7. ASSUME NEW e \in run.entries, e \in Local
        PROVE  store'[e] \in {run.wanted, "gone"}
    BY <2>3, <2>4, <2>6, <2>7 DEF Apply
  <2>8. run.entries \ Local \subseteq run.done
    BY <2>3, <2>6 DEF AnsweredInFull
  <2> QED BY <2>7, <2>8
<1> QED BY <1>1, DashboardAlways, PTL DEF DashboardSpec, PartialNeverSilent

-------------------------------------------------------------------------------
\* The room page: what its helpers do to the page

Rows == [id : Ids, as : {"copy", "confirmed", "live"}]
Pages ==
  [phase : {"unstarted", "starting", "joining", "entering", "entered"},
   status : {"open", "closed"}, connection : {"live", "degraded", "quota"},
   cursor : 0 .. MaxId, rows : Seq(Rows),
   loaded : BOOLEAN, final : BOOLEAN, timers : {0, 1},
   newest : 0 .. MaxId, unverified : BOOLEAN, seeded : SUBSET Ids, confirmed : BOOLEAN,
   oldest : 0 .. MaxId, more : BOOLEAN, control : BOOLEAN, busy : BOOLEAN,
   armed : BOOLEAN, composer : BOOLEAN, draft : Drafts \cup {None},
   pending : 0 .. MaxKeys, sending : BOOLEAN]
Polls == [at : Stages, since : 0 .. MaxId, upto : {Unserved} \cup 0 .. MaxId, cold : BOOLEAN]

\* Two pages with the same timeline, in the same phase, with the same draft
SameLines(p, q) ==
  /\ q.rows = p.rows /\ q.cursor = p.cursor /\ q.newest = p.newest
  /\ q.unverified = p.unverified /\ q.oldest = p.oldest
  /\ q.more = p.more /\ q.control = p.control /\ q.loaded = p.loaded
SamePhase(p, q) == q.phase = p.phase /\ q.armed = p.armed /\ q.timers = p.timers
SameDraft(p, q) == q.draft = p.draft /\ q.pending = p.pending /\ q.sending = p.sending

\* A page that is sending keeps its composer shut.
ShutWhileSending(p) == p.sending => ~p.composer

LEMMA PageBounds ==
  /\ MaxId \in Nat /\ MaxKeys \in Nat /\ 0 \in 0 .. MaxId /\ 0 \in 0 .. MaxKeys
  /\ \A S \in SUBSET Ids : S \subseteq Int /\ IsFiniteSet(S)
<1>1. MaxId \in Nat /\ MaxKeys \in Nat
  BY PageAssumption
<1>2. \A S \in SUBSET Ids : S \subseteq Int /\ IsFiniteSet(S)
  BY <1>1, FiniteLines DEF Ids
<1> QED BY <1>1, <1>2

LEMMA AppliedPage ==
  ASSUME NEW p \in Pages
  PROVE  /\ Applied(p) \in Pages /\ SameLines(p, Applied(p)) /\ SamePhase(p, Applied(p))
         /\ SameDraft(p, Applied(p)) /\ ShutWhileSending(Applied(p))
         /\ Applied(p).seeded = p.seeded /\ Applied(p).confirmed = p.confirmed
         /\ Applied(p).status = p.status /\ Applied(p).final = p.final
<1>1. Applied(p) \in Pages
  BY DEF Applied, Pages
<1>2. SameLines(p, Applied(p)) /\ SamePhase(p, Applied(p)) /\ SameDraft(p, Applied(p))
      /\ Applied(p).seeded = p.seeded /\ Applied(p).confirmed = p.confirmed
      /\ Applied(p).status = p.status /\ Applied(p).final = p.final
  BY DEF Applied, Pages, SameLines, SamePhase, SameDraft
<1>3. ShutWhileSending(Applied(p))
  BY DEF Applied, Pages, ShutWhileSending
<1> QED BY <1>1, <1>2, <1>3

LEMMA FailedPage ==
  ASSUME NEW p \in Pages, NEW e \in Errors
  PROVE  /\ Failed(p, e) \in Pages /\ SameLines(p, Failed(p, e)) /\ SamePhase(p, Failed(p, e))
         /\ SameDraft(p, Failed(p, e)) /\ ShutWhileSending(Failed(p, e))
<1> DEFINE q == IF e = "closed" THEN [p EXCEPT !.status = "closed"] ELSE [p EXCEPT !.connection = e]
<1>1. q \in Pages /\ SameLines(p, q) /\ SamePhase(p, q) /\ SameDraft(p, q)
  BY DEF Pages, Errors, SameLines, SamePhase, SameDraft
<1>2. Failed(p, e) = Applied(q)
  BY DEF Failed
<1> HIDE DEF q
<1> QED BY <1>1, <1>2, AppliedPage DEF SameLines, SamePhase, SameDraft

LEMMA LivePage ==
  ASSUME NEW p \in Pages, ShutWhileSending(p)
  PROVE  /\ Live(p) \in Pages /\ SameLines(p, Live(p)) /\ SamePhase(p, Live(p))
         /\ SameDraft(p, Live(p)) /\ ShutWhileSending(Live(p))
         /\ Live(p).seeded = p.seeded /\ Live(p).confirmed = p.confirmed
<1> DEFINE q == [p EXCEPT !.connection = "live"]
<1>1. /\ q \in Pages /\ SameLines(p, q) /\ SamePhase(p, q) /\ SameDraft(p, q)
      /\ q.seeded = p.seeded /\ q.confirmed = p.confirmed
  BY DEF Pages, SameLines, SamePhase, SameDraft
<1>2. Live(p) = p \/ Live(p) = Applied(q)
  BY DEF Live
<1> HIDE DEF q
<1> QED BY <1>1, <1>2, AppliedPage DEF SameLines, SamePhase, SameDraft

LEMMA FinalizedPage ==
  ASSUME NEW p \in Pages
  PROVE  /\ Finalized(p) \in Pages /\ SameLines(p, Finalized(p)) /\ SameDraft(p, Finalized(p))
         /\ Finalized(p).phase = p.phase /\ Finalized(p).armed = p.armed
         /\ Finalized(p).timers = 0 /\ ShutWhileSending(Finalized(p))
<1> DEFINE q == [p EXCEPT !.final = TRUE, !.timers = 0]
<1>1. /\ q \in Pages /\ SameLines(p, q) /\ SameDraft(p, q)
      /\ q.phase = p.phase /\ q.armed = p.armed /\ q.timers = 0
  BY DEF Pages, SameLines, SamePhase, SameDraft
<1>2. Finalized(p) = Applied(q)
  BY DEF Finalized
<1> HIDE DEF q
<1> QED BY <1>1, <1>2, AppliedPage DEF SameLines, SamePhase, SameDraft

LEMMA ResumedPage ==
  ASSUME NEW p \in Pages
  PROVE  /\ Resumed(p) \in Pages /\ SameLines(p, Resumed(p)) /\ SamePhase(p, Resumed(p))
         /\ Resumed(p).draft = p.draft /\ Resumed(p).pending = p.pending
         /\ Resumed(p).sending = FALSE /\ ShutWhileSending(Resumed(p))
BY DEF Resumed, Pages, SameLines, SamePhase, ShutWhileSending

\* The ids of a timeline, and that they are all different
IdsOf(rows) == {row.id : row \in ToSet(rows)}
Once(rows) == \A i, j \in DOMAIN rows : rows[i].id = rows[j].id => i = j

LEMMA RowIds ==
  ASSUME NEW s \in Seq(Rows)
  PROVE  /\ Len(s) \in Nat /\ DOMAIN s = 1 .. Len(s)
         /\ \A i \in 1 .. Len(s) : s[i] \in Rows /\ s[i].id \in Ids
         /\ IdsOf(s) = {s[i].id : i \in 1 .. Len(s)} /\ IdsOf(s) \subseteq Ids
<1>1. Len(s) \in Nat /\ DOMAIN s = 1 .. Len(s) /\ \A i \in 1 .. Len(s) : s[i] \in Rows
  BY LenProperties
<1>2. \A i \in 1 .. Len(s) : s[i].id \in Ids
  BY <1>1 DEF Rows
<1>3. IdsOf(s) = {s[i].id : i \in 1 .. Len(s)}
  BY <1>1 DEF IdsOf, ToSet
<1> QED BY <1>1, <1>2, <1>3

LEMMA RowsOfIds ==
  ASSUME NEW ids \in SUBSET Ids, NEW as \in {"copy", "confirmed", "live"}
  PROVE  /\ RowsOf(ids, as) \in Seq(Rows) /\ Once(RowsOf(ids, as))
         /\ IdsOf(RowsOf(ids, as)) = ids
<1> DEFINE a == Ascending(ids)
           n == Cardinality(ids)
           s == RowsOf(ids, as)
<1>1. ids \subseteq Int /\ IsFiniteSet(ids)
  BY PageBounds
<1>2. /\ n \in Nat /\ \A i \in 1 .. n : a[i] \in ids
      /\ \A i, j \in 1 .. n : a[i] = a[j] => i = j
      /\ \A x \in ids : \E i \in 1 .. n : a[i] = x
  BY <1>1, AscendingLists
<1> DEFINE row(i) == [id |-> a[i], as |-> as]
<1>3. s = [i \in 1 .. n |-> row(i)]
  BY DEF RowsOf
<1> HIDE DEF a, n, s
<1>4. \A i \in 1 .. n : row(i) \in Rows /\ row(i).id = a[i]
  BY <1>2 DEF Rows
<1> HIDE DEF row
<1>5. s \in Seq(Rows) /\ Len(s) = n
  BY <1>2, <1>3, <1>4
<1>6. \A i \in 1 .. n : s[i].id = a[i]
  BY <1>2, <1>3, <1>4
<1>7. DOMAIN s = 1 .. n
  BY <1>3
<1>8. Once(s)
  BY <1>2, <1>6, <1>7 DEF Once
<1>9. IdsOf(s) = {s[i].id : i \in 1 .. n}
  BY <1>5, RowIds
<1>10. {s[i].id : i \in 1 .. n} = ids
  BY <1>2, <1>6
<1> QED BY <1>5, <1>8, <1>9, <1>10 DEF s

LEMMA JoinedRows ==
  ASSUME NEW s \in Seq(Rows), NEW t \in Seq(Rows)
  PROVE  /\ s \o t \in Seq(Rows)
         /\ IdsOf(s \o t) = IdsOf(s) \cup IdsOf(t)
         /\ Once(s) /\ Once(t) /\ IdsOf(s) \cap IdsOf(t) = {} => Once(s \o t)
<1> DEFINE w == s \o t  m == Len(s)  n == Len(t)
<1>1. w \in Seq(Rows) /\ m \in Nat /\ n \in Nat /\ Len(w) = m + n
  BY ConcatProperties, LenProperties
<1>2. \A i \in 1 .. m + n : w[i] = IF i <= m THEN s[i] ELSE t[i - m]
  BY ConcatProperties
<1>3. /\ IdsOf(w) = {w[i].id : i \in 1 .. Len(w)} /\ DOMAIN w = 1 .. Len(w)
      /\ IdsOf(s) = {s[i].id : i \in 1 .. m} /\ DOMAIN s = 1 .. m
      /\ IdsOf(t) = {t[i].id : i \in 1 .. n} /\ DOMAIN t = 1 .. n
  <2> HIDE DEF w
  <2> QED BY <1>1, RowIds
<1>4. /\ \A i \in 1 .. m : i \in 1 .. Len(w) /\ w[i] = s[i]
      /\ \A i \in 1 .. n : m + i \in 1 .. Len(w) /\ w[m + i] = t[i]
      /\ \A k \in 1 .. Len(w) : \/ \E i \in 1 .. m : w[k] = s[i]
                                \/ \E i \in 1 .. n : w[k] = t[i]
  <2> HIDE DEF w
  <2>1. w = s \o t
    BY DEF w
  <2>2. /\ \A i \in 1 .. Len(s) : i \in 1 .. Len(w) /\ w[i] = s[i]
        /\ \A i \in 1 .. Len(t) : Len(s) + i \in 1 .. Len(w) /\ w[Len(s) + i] = t[i]
        /\ \A k \in 1 .. Len(w) : \/ \E i \in 1 .. Len(s) : w[k] = s[i]
                                  \/ \E i \in 1 .. Len(t) : w[k] = t[i]
    BY <2>1, JoinedMembers
  <2> QED BY <2>2
<1> HIDE DEF w, m, n
<1>5. IdsOf(w) = IdsOf(s) \cup IdsOf(t)
  <2>1. \A k \in 1 .. Len(w) : w[k].id \in IdsOf(s) \cup IdsOf(t)
    BY <1>3, <1>4
  <2>2. \A i \in 1 .. m : s[i].id \in IdsOf(w)
    BY <1>3, <1>4
  <2>3. \A i \in 1 .. n : t[i].id \in IdsOf(w)
    BY <1>3, <1>4
  <2> QED BY <1>3, <2>1, <2>2, <2>3
<1>6. ASSUME Once(s), Once(t), IdsOf(s) \cap IdsOf(t) = {},
             NEW i \in 1 .. m + n, NEW j \in 1 .. m + n, w[i].id = w[j].id
      PROVE  i = j
  <2>1. \A k \in 1 .. m + n : \/ k \in 1 .. m /\ w[k] = s[k]
                              \/ ~(k <= m) /\ k - m \in 1 .. n /\ w[k] = t[k - m]
    BY <1>1, <1>2
  <2>2. \A k \in 1 .. m, l \in 1 .. n : s[k].id # t[l].id
    BY <1>3, <1>6
  <2>3. CASE i \in 1 .. m /\ w[i] = s[i] /\ j \in 1 .. m /\ w[j] = s[j]
    BY <1>3, <1>6, <2>3 DEF Once
  <2>4. CASE i - m \in 1 .. n /\ w[i] = t[i - m] /\ j - m \in 1 .. n /\ w[j] = t[j - m]
    <3>1. i - m = j - m
      BY <1>3, <1>6, <2>4 DEF Once
    <3> QED BY <1>1, <3>1
  <2>5. CASE i \in 1 .. m /\ w[i] = s[i] /\ j - m \in 1 .. n /\ w[j] = t[j - m]
    BY <1>6, <2>2, <2>5
  <2>6. CASE j \in 1 .. m /\ w[j] = s[j] /\ i - m \in 1 .. n /\ w[i] = t[i - m]
    BY <1>6, <2>2, <2>6
  <2> QED BY <2>1, <2>3, <2>4, <2>5, <2>6
<1>7. Once(s) /\ Once(t) /\ IdsOf(s) \cap IdsOf(t) = {} => Once(w)
  BY <1>1, <1>3, <1>6 DEF Once
<1> QED BY <1>1, <1>5, <1>7 DEF w

LEMMA AddedRow ==
  ASSUME NEW s \in Seq(Rows), NEW id \in Ids
  PROVE  LET t == Append(s, [id |-> id, as |-> "live"])
         IN  /\ t \in Seq(Rows)
             /\ IdsOf(t) = IdsOf(s) \cup {id}
             /\ Once(s) /\ id \notin IdsOf(s) => Once(t)
<1> DEFINE row == [id |-> id, as |-> "live"]
           t == <<row>>
<1>1. row \in Rows /\ row.id = id
  BY DEF Rows
<1> HIDE DEF row
<1>2. t \in Seq(Rows) /\ Len(t) = 1 /\ t[1] = row /\ DOMAIN t = 1 .. 1
  BY <1>1
<1>3. Append(s, row) = s \o t
  BY <1>1, AppendIsConcat
<1> HIDE DEF t
<1>4. IdsOf(t) = {id} /\ Once(t)
  <2>1. IdsOf(t) = {t[i].id : i \in 1 .. 1}
    BY <1>2, RowIds
  <2>2. \A i \in 1 .. 1 : i = 1
    OBVIOUS
  <2> QED BY <1>1, <1>2, <2>1, <2>2 DEF Once
<1> DEFINE u == Append(s, row)
<1>5. u \in Seq(Rows) /\ IdsOf(u) = IdsOf(s) \cup {id}
      /\ (Once(s) /\ id \notin IdsOf(s) => Once(u))
  BY <1>2, <1>3, <1>4, JoinedRows
<1> HIDE DEF u
<1> QED BY <1>5 DEF u, row

LEMMA NoRows == <<>> \in Seq(Rows) /\ Once(<<>>) /\ IdsOf(<<>>) = {}
BY DEF Once, IdsOf, ToSet


-------------------------------------------------------------------------------
\* The room page: the steps that end a poll, and what a poll brings

LogLines == [key : 0 .. MaxKeys, draft : Drafts \cup {None}]
Posts == [key : 0 .. MaxKeys, draft : Drafts \cup {None},
          answer : {"none", "sent", "stored", "refused"}, id : 0 .. MaxId]
Entries == {"none", "profile", "claim", "status", "poll"}

\* Where the poll and the entry stand after a step of a poll on page p: at another
\* request, or at their end
Flow(p) ==
  /\ page'.phase = p.phase
  /\ \/ poll'.at # "idle" /\ entry' = entry /\ SamePhase(p, page')
     \/ /\ poll' = Idle
        /\ entry' = IF entry = "poll" THEN "none" ELSE entry
        /\ page'.armed <=> p.armed \/ entry = "poll"
        /\ page'.timers # 0 => p.timers # 0 \/ entry = "poll"

LEMMA IdlePoll ==
  /\ Idle \in Polls /\ Idle.at = "idle" /\ Idle.upto = Unserved
  /\ \A stage \in Stages :
       [Idle EXCEPT !.at = stage] \in Polls /\ [Idle EXCEPT !.at = stage].at = stage
       /\ [Idle EXCEPT !.at = stage].upto = Unserved
BY PageBounds DEF Idle, Polls, Stages

LEMMA EndPollPage ==
  ASSUME NEW p \in Pages, entry = "poll" => p.timers = 0, EndPoll(p)
  PROVE  /\ page' \in Pages /\ SameLines(p, page') /\ SameDraft(p, page')
         /\ (ShutWhileSending(p) => ShutWhileSending(page'))
         /\ poll' = Idle /\ Flow(p)
<1> DEFINE ended == IF p.status = "closed" THEN Finalized(p) ELSE p
<1>1. /\ ended \in Pages /\ SameLines(p, ended) /\ SameDraft(p, ended)
      /\ (ShutWhileSending(p) => ShutWhileSending(ended))
      /\ ended.phase = p.phase /\ ended.armed = p.armed
      /\ (ended.timers # 0 => ended.timers = p.timers)
  BY FinalizedPage DEF SameLines, SameDraft
<1>2. /\ poll' = Idle
      /\ page' = IF entry # "poll" THEN ended
                 ELSE [ended EXCEPT !.armed = TRUE,
                                    !.timers = IF ended.final THEN @ ELSE @ + 1]
      /\ entry' = IF entry = "poll" THEN "none" ELSE entry
  BY DEF EndPoll
<1> HIDE DEF ended
<1>3. CASE entry # "poll"
  BY <1>1, <1>2, <1>3 DEF Flow
<1>4. CASE entry = "poll"
  <2>1. ended.timers = 0
    BY <1>1, <1>4
  <2> DEFINE q == [ended EXCEPT !.armed = TRUE, !.timers = IF ended.final THEN 0 ELSE 1]
  <2>2. page' = q
    BY <1>2, <1>4, <2>1
  <2>3. /\ q \in Pages /\ SameLines(ended, q) /\ SameDraft(ended, q)
        /\ q.composer = ended.composer /\ q.phase = ended.phase /\ q.armed = TRUE
    BY <1>1 DEF Pages, SameLines, SameDraft
  <2> HIDE DEF q
  <2>4. /\ SameLines(p, q) /\ SameDraft(p, q)
        /\ (ShutWhileSending(p) => ShutWhileSending(q))
    BY <1>1, <2>3 DEF SameLines, SameDraft, ShutWhileSending
  <2> QED BY <1>1, <1>2, <1>4, <2>2, <2>3, <2>4 DEF Flow
<1> QED BY <1>3, <1>4

LEMMA ConfirmPage ==
  ASSUME NEW p \in Pages, entry = "poll" => p.timers = 0, Confirm(p)
  PROVE  /\ page' \in Pages /\ SameLines(p, page') /\ SameDraft(p, page')
         /\ (ShutWhileSending(p) => ShutWhileSending(page'))
         /\ poll' \in Polls /\ poll'.at \in {"idle", "confirm"} /\ poll'.upto = Unserved
         /\ Flow(p)
<1>1. CASE p.confirmed \/ p.seeded = {}
  BY <1>1, EndPollPage, IdlePoll DEF Confirm
<1>2. CASE ~(p.confirmed \/ p.seeded = {})
  <2> DEFINE q == [p EXCEPT !.confirmed = TRUE]
  <2>1. page' = q /\ poll' = [Idle EXCEPT !.at = "confirm"] /\ entry' = entry
    BY <1>2 DEF Confirm
  <2>2. /\ q \in Pages /\ SameLines(p, q) /\ SameDraft(p, q) /\ SamePhase(p, q)
        /\ q.composer = p.composer
    BY DEF Pages, SameLines, SameDraft, SamePhase
  <2> HIDE DEF q
  <2>3. ShutWhileSending(p) => ShutWhileSending(q)
    BY <2>2 DEF SameDraft, ShutWhileSending
  <2>4. poll' \in Polls /\ poll'.at = "confirm" /\ poll'.upto = Unserved
    BY <2>1, IdlePoll DEF Stages
  <2>5. Flow(p)
    BY <2>1, <2>2, <2>4 DEF Flow, SamePhase
  <2> QED BY <2>1, <2>2, <2>3, <2>4, <2>5
<1> QED BY <1>1, <1>2

LEMMA CheckSeedPage ==
  ASSUME NEW p \in Pages, NEW empty \in BOOLEAN, entry = "poll" => p.timers = 0,
         CheckSeed(p, empty)
  PROVE  /\ page' \in Pages /\ SameLines([p EXCEPT !.unverified = FALSE], page')
         /\ SameDraft(p, page') /\ (ShutWhileSending(p) => ShutWhileSending(page'))
         /\ poll' \in Polls /\ poll'.at \in {"idle", "verify", "confirm"}
         /\ poll'.upto = Unserved
         /\ (poll'.at = "verify" => p.unverified /\ empty)
         /\ (p.unverified /\ empty /\ p.newest > 0 => poll'.at = "verify")
         /\ Flow(p)
<1> DEFINE q == [p EXCEPT !.unverified = FALSE]
<1>1. /\ q \in Pages /\ SameDraft(p, q) /\ SamePhase(p, q) /\ q.composer = p.composer
      /\ (~p.unverified => q = p)
  BY DEF Pages, SameDraft, SamePhase
<1>2. /\ (ShutWhileSending(p) => ShutWhileSending(q))
      /\ (entry = "poll" => q.timers = 0)
      /\ (Flow(q) => Flow(p))
  BY <1>1 DEF SameDraft, SamePhase, ShutWhileSending, Flow
<1>3. CASE ~p.unverified
  <2>1. EndPoll(q) /\ q = p
    BY <1>1, <1>3 DEF CheckSeed
  <2> HIDE DEF q
  <2> QED BY <1>2, <1>3, <2>1, EndPollPage, IdlePoll DEF q
<1>4. CASE p.unverified /\ empty /\ p.newest > 0
  <2>1. page' = q /\ poll' = [Idle EXCEPT !.at = "verify"] /\ entry' = entry
    BY <1>4 DEF CheckSeed
  <2>2. poll' \in Polls /\ poll'.at = "verify" /\ poll'.upto = Unserved
    BY <2>1, IdlePoll DEF Stages
  <2> HIDE DEF q
  <2>3. SameLines(q, page') /\ SameDraft(p, page') /\ SamePhase(q, page')
    BY <1>1, <2>1 DEF SameLines, SamePhase
  <2>4. Flow(q)
    BY <2>1, <2>2, <2>3 DEF Flow, SamePhase
  <2> QED BY <1>1, <1>2, <1>4, <2>1, <2>2, <2>3, <2>4 DEF q
<1>5. CASE p.unverified /\ ~(empty /\ p.newest > 0)
  <2>1. Confirm(q)
    BY <1>5 DEF CheckSeed
  <2> HIDE DEF q
  <2>2. /\ page' \in Pages /\ SameLines(q, page') /\ SameDraft(q, page')
        /\ (ShutWhileSending(q) => ShutWhileSending(page'))
        /\ poll' \in Polls /\ poll'.at \in {"idle", "confirm"} /\ poll'.upto = Unserved
        /\ Flow(q)
    BY <1>1, <1>2, <2>1, ConfirmPage
  <2>3. SameDraft(p, page')
    BY <1>1, <2>2 DEF SameDraft
  <2> QED BY <1>2, <1>5, <2>2, <2>3 DEF q
<1> QED BY <1>3, <1>4, <1>5

LEMMA AskedPoll ==
  ASSUME NEW p \in Pages
  PROVE  /\ Ask(p) \in Polls /\ Ask(p).at = "list" /\ Ask(p).upto = Unserved
         /\ Ask(p).since = p.cursor
         /\ Ask(p).cold \in BOOLEAN
         /\ (Ask(p).cold <=> ~p.loaded /\ p.cursor = 0 /\ p.rows = <<>>)
<1>1. p.cursor \in 0 .. MaxId /\ p.loaded \in BOOLEAN
  BY DEF Pages
<1>2. (~p.loaded /\ p.cursor = 0 /\ p.rows = <<>>) \in BOOLEAN
  OBVIOUS
<1> QED BY <1>1, <1>2 DEF Ask, Polls, Stages

LEMMA AdvancedPage ==
  ASSUME NEW p \in Pages, NEW id \in 0 .. MaxId
  PROVE  LET q == AdvanceCursor(p, id)
         IN  /\ q \in Pages /\ SamePhase(p, q) /\ SameDraft(p, q)
             /\ q.composer = p.composer /\ q.rows = p.rows /\ q.newest = p.newest
             /\ q.unverified = p.unverified /\ q.oldest = p.oldest /\ q.more = p.more
             /\ q.control = p.control /\ q.loaded = p.loaded
             /\ q.cursor = IF id > p.cursor THEN id ELSE p.cursor
BY DEF AdvanceCursor, Pages, SamePhase, SameDraft

LEMMA RenderedPage ==
  ASSUME NEW p \in Pages, NEW ids \in SUBSET Ids
  PROVE  LET q == Rendered(p, ids)
         IN  /\ q \in Pages /\ SamePhase(p, q) /\ SameDraft(p, q)
             /\ q.composer = p.composer /\ q.cursor = p.cursor /\ q.newest = p.newest
             /\ q.unverified = p.unverified /\ q.oldest = p.oldest /\ q.more = p.more
             /\ q.control = p.control /\ q.loaded = TRUE
             /\ Shown(q) = Shown(p) \cup ids
             /\ (Once(p.rows) => Once(q.rows))
<1> DEFINE new == RowsOf(ids \ Shown(p), "live")
           rows == p.rows \o new
           q == [p EXCEPT !.rows = rows, !.loaded = TRUE]
<1>1. p.rows \in Seq(Rows) /\ Shown(p) = IdsOf(p.rows)
  BY DEF Pages, Shown, IdsOf
<1>2. new \in Seq(Rows) /\ Once(new) /\ IdsOf(new) = ids \ Shown(p)
  <2>1. ids \ Shown(p) \in SUBSET Ids
    OBVIOUS
  <2> QED BY <2>1, RowsOfIds
<1> HIDE DEF new
<1>3. /\ rows \in Seq(Rows) /\ IdsOf(rows) = Shown(p) \cup ids
      /\ (Once(p.rows) => Once(rows))
  <2>1. IdsOf(p.rows) \cap IdsOf(new) = {} /\ IdsOf(p.rows) \cup IdsOf(new) = Shown(p) \cup ids
    BY <1>1, <1>2
  <2> QED BY <1>1, <1>2, <2>1, JoinedRows
<1>4. Rendered(p, ids) = q
  BY DEF Rendered, new
<1> HIDE DEF rows
<1>5. /\ q \in Pages /\ SamePhase(p, q) /\ SameDraft(p, q)
      /\ q.composer = p.composer /\ q.cursor = p.cursor /\ q.newest = p.newest
      /\ q.unverified = p.unverified /\ q.oldest = p.oldest /\ q.more = p.more
      /\ q.control = p.control /\ q.loaded = TRUE /\ q.rows = rows
  BY <1>3 DEF Pages, SamePhase, SameDraft
<1> HIDE DEF q
<1>6. Shown(q) = IdsOf(rows)
  BY <1>5 DEF Shown, IdsOf
<1> QED BY <1>3, <1>4, <1>5, <1>6

\* The smallest and the largest of a set of lines
LEMMA LineBounds ==
  ASSUME NEW ids \in SUBSET Ids, ids # {}
  PROVE  /\ Min(ids) \in ids /\ Min(ids) \in Ids /\ \A i \in ids : Min(ids) <= i
         /\ Max(ids) \in ids /\ Max(ids) \in Ids /\ \A i \in ids : i <= Max(ids)
<1>1. ids \subseteq Int /\ IsFiniteSet(ids)
  BY PageBounds
<1>2. /\ Min(ids) \in ids /\ \A i \in ids : Min(ids) <= i
      /\ Max(ids) \in ids /\ \A i \in ids : i <= Max(ids)
  BY <1>1, MinMax
<1> QED BY <1>2

LEMMA LineOrMore ==
  ASSUME NEW ids \in SUBSET Ids, NEW n \in 0 .. MaxId
  PROVE  /\ Max(ids \cup {n}) \in 0 .. MaxId
         /\ Max(ids \cup {n}) >= n /\ \A i \in ids : i <= Max(ids \cup {n})
         /\ Max(ids \cup {n}) \in ids \cup {n}
<1> DEFINE S == ids \cup {n}
<1>1. S \in SUBSET (0 .. MaxId) /\ S # {} /\ n \in S
  BY PageBounds DEF Ids
<1>2. IsFiniteSet(S)
  BY PageBounds, FS_AddElement
<1>3. S \subseteq Int
  BY <1>1
<1> HIDE DEF S
<1>4. Max(S) \in S /\ \A y \in S : y <= Max(S)
  BY <1>1, <1>2, <1>3, MinMax
<1>5. Max(S) \in 0 .. MaxId /\ n <= Max(S)
  BY <1>1, <1>4
<1> QED BY <1>1, <1>4, <1>5 DEF S

LEMMA OpenedPage ==
  ASSUME NEW p \in Pages, NEW ids \in SUBSET Ids
  PROVE  LET q == Opened(p, ids)
         IN  /\ q \in Pages /\ SamePhase(p, q) /\ SameDraft(p, q)
             /\ q.composer = p.composer /\ q.rows = p.rows /\ q.newest = p.newest
             /\ q.unverified = p.unverified /\ q.loaded = p.loaded
             /\ (ids = {} => /\ q.cursor = p.cursor /\ q.oldest = p.oldest
                             /\ q.more = FALSE /\ q.control = p.control)
             /\ (ids # {} => /\ q.cursor = IF Max(ids) > p.cursor THEN Max(ids) ELSE p.cursor
                             /\ q.oldest = Min(ids) /\ q.more = (Min(ids) > 1)
                             /\ q.control = (Min(ids) > 1))
<1>1. CASE ids = {}
  <2> DEFINE q == [p EXCEPT !.more = FALSE]
  <2>1. Opened(p, ids) = q
    BY <1>1 DEF Opened
  <2>2. /\ q \in Pages /\ SamePhase(p, q) /\ SameDraft(p, q)
        /\ q.composer = p.composer /\ q.rows = p.rows /\ q.newest = p.newest
        /\ q.unverified = p.unverified /\ q.loaded = p.loaded
        /\ q.cursor = p.cursor /\ q.oldest = p.oldest
        /\ q.more = FALSE /\ q.control = p.control
    BY DEF Pages, SamePhase, SameDraft
  <2> HIDE DEF q
  <2> QED BY <1>1, <2>1, <2>2
<1>2. CASE ids # {}
  <2> DEFINE low == Min(ids)
             far == low > 1
             a == AdvanceCursor(p, Max(ids))
             q == [a EXCEPT !.oldest = low, !.more = far, !.control = far]
  <2>1. low \in Ids /\ Max(ids) \in Ids /\ low \in 0 .. MaxId /\ Max(ids) \in 0 .. MaxId
    BY <1>2, LineBounds, PageBounds DEF Ids
  <2>2. /\ a \in Pages /\ SamePhase(p, a) /\ SameDraft(p, a)
        /\ a.composer = p.composer /\ a.rows = p.rows /\ a.newest = p.newest
        /\ a.unverified = p.unverified /\ a.loaded = p.loaded
        /\ a.cursor = IF Max(ids) > p.cursor THEN Max(ids) ELSE p.cursor
    BY <2>1, AdvancedPage
  <2>3. Opened(p, ids) = q
    BY <1>2 DEF Opened
  <2>4. far \in BOOLEAN
    OBVIOUS
  <2> HIDE DEF a, low, far
  <2>5. /\ q \in Pages /\ SamePhase(a, q) /\ SameDraft(a, q)
        /\ q.composer = a.composer /\ q.rows = a.rows /\ q.newest = a.newest
        /\ q.unverified = a.unverified /\ q.loaded = a.loaded /\ q.cursor = a.cursor
        /\ q.oldest = low /\ q.more = far /\ q.control = far
    BY <2>1, <2>2, <2>4 DEF Pages, SamePhase, SameDraft
  <2> HIDE DEF q
  <2>6. SamePhase(p, q) /\ SameDraft(p, q)
    BY <2>2, <2>5 DEF SamePhase, SameDraft
  <2> QED BY <1>2, <2>2, <2>3, <2>5, <2>6 DEF low, far
<1> QED BY <1>1, <1>2

LEMMA BatchLines ==
  ASSUME poll \in Polls, poll.upto # Unserved
  PROVE  /\ poll.upto \in 0 .. MaxId /\ Batch \in SUBSET Ids /\ IsFiniteSet(Batch)
         /\ \A i \in Batch : i \in 1 .. poll.upto
         /\ \A i \in 1 .. poll.upto : ~poll.cold /\ i > poll.since => i \in Batch
<1>1. poll.upto \in 0 .. MaxId /\ poll.since \in 0 .. MaxId
  BY DEF Polls
<1>2. Batch \subseteq 1 .. poll.upto
  BY DEF Batch
<1>3. \A i \in 1 .. poll.upto : ~poll.cold /\ i > poll.since => i \in Batch
  BY DEF Batch
<1>4. 1 .. poll.upto \subseteq Ids
  BY <1>1, PageBounds DEF Ids
<1> QED BY <1>1, <1>2, <1>3, <1>4, PageBounds

\* A cold batch is the newest part of what the host had.
LEMMA ColdBatch ==
  ASSUME poll \in Polls, poll.upto # Unserved, poll.cold
  PROVE  /\ (Batch = {} => poll.upto = 0)
         /\ (Batch # {} => Max(Batch) = poll.upto)
         /\ (Batch # {} => \A i \in 1 .. poll.upto : i >= Min(Batch) => i \in Batch)
<1>1. poll.upto \in 0 .. MaxId /\ PageSize \in Nat \ {0} /\ MaxId \in Nat
  BY BatchLines, PageAssumption
<1>2. \A i \in 1 .. poll.upto : i \in Batch <=> i > poll.upto - PageSize
  BY DEF Batch
<1>3. poll.upto # 0 => poll.upto \in Batch
  BY <1>1, <1>2
<1>4. \A i \in Batch : i \in 1 .. poll.upto
  BY BatchLines
<1>5. ASSUME Batch # {}
      PROVE  Max(Batch) = poll.upto /\ \A i \in 1 .. poll.upto : i >= Min(Batch) => i \in Batch
  <2>1. /\ Min(Batch) \in Batch /\ Min(Batch) \in 1 .. poll.upto
        /\ Max(Batch) \in 1 .. poll.upto /\ \A i \in Batch : i <= Max(Batch)
    BY <1>4, <1>5, BatchLines, LineBounds
  <2>2. Max(Batch) = poll.upto
    BY <1>1, <1>3, <2>1
  <2>3. Min(Batch) > poll.upto - PageSize
    BY <1>2, <2>1
  <2> HIDE DEF Batch
  <2> QED BY <1>1, <1>2, <2>1, <2>2, <2>3
<1> QED BY <1>1, <1>3, <1>5

LEMMA RecordedCopies ==
  ASSUME NEW ids, backup \in [Ids -> {"none", "ours", "other"}]
  PROVE  Recorded(ids) \in [Ids -> {"none", "ours", "other"}]
<1> DEFINE heldIds == ids \cup {i \in Ids : backup[i] # "none"}
           out(i) == i \notin heldIds \/ Cardinality({j \in heldIds : j > i}) >= BackupSize
<1>1. Recorded(ids) = [i \in Ids |-> IF out(i) THEN "none"
                                     ELSE IF i \in ids THEN "ours" ELSE backup[i]]
  BY DEF Recorded
<1> HIDE DEF out
<1> QED BY <1>1

LEMMA EarlierLines ==
  ASSUME NEW n \in 0 .. MaxId, Len(log) = n, NEW b \in Ids
  PROVE  /\ Before(b) \in SUBSET Ids
         /\ \A i \in Before(b) : i < b /\ i <= n
         /\ (Before(b) # {} => \A i \in 1 .. n : Min(Before(b)) <= i /\ i < b => i \in Before(b))
         /\ (Before(b) = {} => \A i \in 1 .. n : ~(i < b))
<1> DEFINE S == {b, n + 1}
           low == Min(S) - PageSize
<1>1. /\ n \in Nat /\ b \in Int /\ MaxId \in Nat /\ PageSize \in Nat \ {0}
      /\ n <= MaxId /\ b >= 1
  BY PageBounds, PageAssumption DEF Ids
<1>2. Min(S) \in {b, n + 1} /\ Min(S) <= b /\ Min(S) <= n + 1
  <2>1. S \subseteq Int /\ S # {} /\ b \in S /\ n + 1 \in S
    BY <1>1
  <2>2. IsFiniteSet(S)
    <3>1. IsFiniteSet({b}) /\ S = {b} \cup {n + 1}
      BY FS_Singleton
    <3> QED BY <3>1, FS_AddElement
  <2>3. Min(S) \in S /\ \A y \in S : Min(S) <= y
    BY <2>1, <2>2, MinMax
  <2> QED BY <2>1, <2>3
<1>3. Min(S) \in Int /\ low = Min(S) - PageSize
  BY <1>1, <1>2
<1>4. Before(b) = {i \in 1 .. n : i < b /\ i >= low}
  BY DEF Before
<1> HIDE DEF low, S
<1>5. /\ \A i \in 1 .. n : i \in Before(b) <=> i < b /\ i >= low
      /\ \A i \in Before(b) : i \in 1 .. n
  BY <1>4
<1>6. Before(b) \in SUBSET Ids
  BY <1>1, <1>5 DEF Ids
<1>7. ASSUME Before(b) # {}, NEW i \in 1 .. n, Min(Before(b)) <= i, i < b
      PROVE  i \in Before(b)
  <2>1. Min(Before(b)) \in Before(b)
    BY <1>6, <1>7, LineBounds
  <2>2. Min(Before(b)) >= low /\ Min(Before(b)) \in Int
    BY <1>5, <2>1
  <2>3. i >= low
    BY <1>1, <1>3, <1>7, <2>2
  <2> QED BY <1>5, <1>7, <2>3
<1>8. ASSUME Before(b) = {}, NEW i \in 1 .. n, i < b
      PROVE  FALSE
  <2> DEFINE last == Min(S) - 1
  <2>1. last \in 1 .. n /\ last < b /\ last >= low
    BY <1>1, <1>2, <1>3, <1>8
  <2> QED BY <1>5, <1>8, <2>1
<1> QED BY <1>5, <1>6, <1>7, <1>8

\* The page with what a poll brought, before the check of the restored copy
Kept == [Rendered(Live(page), Batch) EXCEPT !.newest = Max((Batch \ Shown(page)) \cup {@})]
Brought == IF poll.cold THEN Opened(Kept, Batch)
           ELSE AdvanceCursor(Kept, Max(Batch \cup {poll.since}))

LEMMA KeptPage ==
  ASSUME page \in Pages, ShutWhileSending(page), poll \in Polls, poll.upto # Unserved
  PROVE  /\ Kept \in Pages /\ SamePhase(page, Kept) /\ SameDraft(page, Kept)
         /\ ShutWhileSending(Kept) /\ Kept.cursor = page.cursor /\ Kept.newest >= page.newest
         /\ Kept.unverified = page.unverified /\ Kept.oldest = page.oldest
         /\ Kept.more = page.more /\ Kept.control = page.control /\ Kept.loaded = TRUE
         /\ Shown(Kept) = Shown(page) \cup Batch
         /\ (Once(page.rows) => Once(Kept.rows))
         /\ (Batch = {} => Kept.newest = page.newest)
         /\ Kept.newest \in Batch \cup {page.newest}
<1> DEFINE l == Live(page)
           r == Rendered(l, Batch)
           ids == Batch \ Shown(page)
           m == Max(ids \cup {page.newest})
           q == [r EXCEPT !.newest = m]
<1>1. /\ l \in Pages /\ SameLines(page, l) /\ SamePhase(page, l) /\ SameDraft(page, l)
      /\ ShutWhileSending(l)
  BY LivePage
<1>2. Shown(l) = Shown(page)
  BY <1>1 DEF SameLines, Shown
<1>3. Batch \in SUBSET Ids /\ ids \in SUBSET Ids
  BY BatchLines
<1> HIDE DEF l
<1>4. /\ r \in Pages /\ SamePhase(l, r) /\ SameDraft(l, r)
      /\ r.composer = l.composer /\ r.cursor = l.cursor /\ r.newest = l.newest
      /\ r.unverified = l.unverified /\ r.oldest = l.oldest /\ r.more = l.more
      /\ r.control = l.control /\ r.loaded = TRUE
      /\ Shown(r) = Shown(l) \cup Batch
      /\ (Once(l.rows) => Once(r.rows))
  BY <1>1, <1>3, RenderedPage
<1>5. r.newest = page.newest /\ page.newest \in 0 .. MaxId
  BY <1>1, <1>4 DEF SameLines, Pages
<1>6. Kept = q
  BY <1>5 DEF Kept, l
<1>7. m \in 0 .. MaxId /\ m >= page.newest /\ m \in ids \cup {page.newest}
  BY <1>3, <1>5, LineOrMore
<1> HIDE DEF r, m
<1>8. /\ q \in Pages /\ SamePhase(r, q) /\ SameDraft(r, q) /\ q.rows = r.rows
      /\ q.composer = r.composer /\ q.cursor = r.cursor /\ q.newest = m
      /\ q.unverified = r.unverified /\ q.oldest = r.oldest /\ q.more = r.more
      /\ q.control = r.control /\ q.loaded = r.loaded
  BY <1>4, <1>7 DEF Pages, SamePhase, SameDraft
<1> HIDE DEF q
<1>9. SamePhase(page, q) /\ SameDraft(page, q) /\ ShutWhileSending(q)
  BY <1>1, <1>4, <1>8 DEF SamePhase, SameDraft, ShutWhileSending
<1>10. Shown(q) = Shown(page) \cup Batch /\ (Once(page.rows) => Once(q.rows))
  BY <1>1, <1>2, <1>4, <1>8 DEF Shown, SameLines
<1>11. m \in Batch \cup {page.newest} /\ (Batch = {} => m = page.newest)
  BY <1>7
<1> QED BY <1>1, <1>4, <1>6, <1>7, <1>8, <1>9, <1>10, <1>11 DEF SameLines

LEMMA BroughtPage ==
  ASSUME page \in Pages, ShutWhileSending(page), poll \in Polls, poll.upto # Unserved
  PROVE  /\ Brought \in Pages /\ SamePhase(page, Brought) /\ SameDraft(page, Brought)
         /\ ShutWhileSending(Brought) /\ Brought.newest = Kept.newest
         /\ Brought.unverified = page.unverified /\ Brought.loaded = TRUE
         /\ Shown(Brought) = Shown(page) \cup Batch
         /\ (Once(page.rows) => Once(Brought.rows))
         /\ (~poll.cold => /\ Brought.oldest = page.oldest /\ Brought.more = page.more
                           /\ Brought.control = page.control
                           /\ LET last == Max(Batch \cup {poll.since})
                              IN  Brought.cursor = IF last > page.cursor THEN last ELSE page.cursor)
         /\ (poll.cold /\ Batch = {} =>
               /\ Brought.cursor = page.cursor /\ Brought.oldest = page.oldest
               /\ Brought.more = FALSE /\ Brought.control = page.control)
         /\ (poll.cold /\ Batch # {} =>
               /\ Brought.cursor = IF Max(Batch) > page.cursor THEN Max(Batch) ELSE page.cursor
               /\ Brought.oldest = Min(Batch)
               /\ Brought.more = (Min(Batch) > 1) /\ Brought.control = (Min(Batch) > 1))
<1>1. /\ Kept \in Pages /\ SamePhase(page, Kept) /\ SameDraft(page, Kept)
      /\ ShutWhileSending(Kept) /\ Kept.cursor = page.cursor
      /\ Kept.unverified = page.unverified /\ Kept.oldest = page.oldest
      /\ Kept.more = page.more /\ Kept.control = page.control /\ Kept.loaded = TRUE
      /\ Shown(Kept) = Shown(page) \cup Batch
      /\ (Once(page.rows) => Once(Kept.rows))
  BY KeptPage
<1>2. ASSUME NEW q \in Pages, q.rows = Kept.rows, SamePhase(Kept, q), SameDraft(Kept, q),
             q.composer = Kept.composer
      PROVE  /\ SamePhase(page, q) /\ SameDraft(page, q) /\ ShutWhileSending(q)
             /\ Shown(q) = Shown(page) \cup Batch /\ (Once(page.rows) => Once(q.rows))
  BY <1>1, <1>2 DEF SamePhase, SameDraft, ShutWhileSending, Shown
<1>3. CASE poll.cold
  <2> DEFINE q == Opened(Kept, Batch)
  <2>1. Brought = q
    BY <1>3 DEF Brought
  <2>2. Batch \in SUBSET Ids
    BY BatchLines
  <2>3. /\ q \in Pages /\ SamePhase(Kept, q) /\ SameDraft(Kept, q)
        /\ q.composer = Kept.composer /\ q.rows = Kept.rows /\ q.newest = Kept.newest
        /\ q.unverified = Kept.unverified /\ q.loaded = Kept.loaded
        /\ (Batch = {} => /\ q.cursor = Kept.cursor /\ q.oldest = Kept.oldest
                          /\ q.more = FALSE /\ q.control = Kept.control)
        /\ (Batch # {} => /\ q.cursor = IF Max(Batch) > Kept.cursor THEN Max(Batch) ELSE Kept.cursor
                          /\ q.oldest = Min(Batch) /\ q.more = (Min(Batch) > 1)
                          /\ q.control = (Min(Batch) > 1))
    BY <1>1, <2>2, OpenedPage
  <2> HIDE DEF q
  <2>4. /\ SamePhase(page, q) /\ SameDraft(page, q) /\ ShutWhileSending(q)
        /\ Shown(q) = Shown(page) \cup Batch /\ (Once(page.rows) => Once(q.rows))
    BY <1>2, <2>3
  <2> QED BY <1>1, <1>3, <2>1, <2>3, <2>4
<1>4. CASE ~poll.cold
  <2> DEFINE last == Max(Batch \cup {poll.since})
             q == AdvanceCursor(Kept, last)
  <2>1. Brought = q
    BY <1>4 DEF Brought
  <2>2. last \in 0 .. MaxId
    <3>1. Batch \in SUBSET Ids /\ poll.since \in 0 .. MaxId
      BY BatchLines DEF Polls
    <3> QED BY <3>1, LineOrMore
  <2> HIDE DEF last
  <2>3. /\ q \in Pages /\ SamePhase(Kept, q) /\ SameDraft(Kept, q)
        /\ q.composer = Kept.composer /\ q.rows = Kept.rows /\ q.newest = Kept.newest
        /\ q.unverified = Kept.unverified /\ q.loaded = Kept.loaded
        /\ q.oldest = Kept.oldest /\ q.more = Kept.more /\ q.control = Kept.control
        /\ q.cursor = IF last > Kept.cursor THEN last ELSE Kept.cursor
    BY <1>1, <2>2, AdvancedPage
  <2> HIDE DEF q
  <2>4. /\ SamePhase(page, q) /\ SameDraft(page, q) /\ ShutWhileSending(q)
        /\ Shown(q) = Shown(page) \cup Batch /\ (Once(page.rows) => Once(q.rows))
    BY <1>2, <2>3
  <2> QED BY <1>1, <1>4, <2>1, <2>3, <2>4 DEF last
<1> QED BY <1>3, <1>4

LEMMA DiscardedPage ==
  ASSUME NEW p \in Pages
  PROVE  LET q == Discarded(p)
         IN  /\ q \in Pages /\ SamePhase(p, q) /\ SameDraft(p, q) /\ q.composer = p.composer
             /\ q.rows = <<>> /\ q.cursor = 0 /\ q.newest = 0 /\ q.oldest = 0
             /\ q.more = FALSE /\ q.control = FALSE /\ q.loaded = p.loaded
             /\ q.unverified = p.unverified
<1> DEFINE a == [p EXCEPT !.rows = <<>>, !.cursor = 0, !.newest = 0, !.oldest = 0]
           q == [a EXCEPT !.more = FALSE, !.control = FALSE, !.busy = FALSE]
<1>1. Discarded(p) = q
  BY DEF Discarded
<1>2. <<>> \in Seq(Rows) /\ 0 \in 0 .. MaxId
  BY NoRows, PageBounds
<1>3. /\ a \in Pages /\ SamePhase(p, a) /\ SameDraft(p, a) /\ a.composer = p.composer
      /\ a.rows = <<>> /\ a.cursor = 0 /\ a.newest = 0 /\ a.oldest = 0
      /\ a.loaded = p.loaded /\ a.unverified = p.unverified
  BY <1>2 DEF Pages, SamePhase, SameDraft
<1> HIDE DEF a
<1>4. /\ q \in Pages /\ SamePhase(a, q) /\ SameDraft(a, q) /\ q.composer = a.composer
      /\ q.rows = a.rows /\ q.cursor = a.cursor /\ q.newest = a.newest /\ q.oldest = a.oldest
      /\ q.loaded = a.loaded /\ q.unverified = a.unverified
      /\ q.more = FALSE /\ q.control = FALSE
  BY <1>3 DEF Pages, SamePhase, SameDraft
<1> HIDE DEF q
<1>5. SamePhase(p, q) /\ SameDraft(p, q)
  BY <1>3, <1>4 DEF SamePhase, SameDraft
<1> QED BY <1>1, <1>3, <1>4, <1>5

\* The rows after confirmSeededAuthors: restored ones become confirmed, in place
Confirmed(p, upto) ==
  [p EXCEPT !.rows =
     [i \in DOMAIN @ |-> IF @[i].as = "copy" /\ @[i].id \in p.seeded /\ @[i].id <= upto
                         THEN [@[i] EXCEPT !.as = "confirmed"] ELSE @[i]]]

LEMMA ConfirmedPage ==
  ASSUME NEW p \in Pages, NEW upto \in Int
  PROVE  LET q == Confirmed(p, upto)
         IN  /\ q \in Pages /\ SamePhase(p, q) /\ SameDraft(p, q) /\ q.composer = p.composer
             /\ q.cursor = p.cursor /\ q.newest = p.newest /\ q.unverified = p.unverified
             /\ q.oldest = p.oldest /\ q.more = p.more /\ q.control = p.control
             /\ q.loaded = p.loaded
             /\ Shown(q) = Shown(p) /\ (Once(p.rows) => Once(q.rows))
<1> DEFINE s == p.rows
           t == [i \in DOMAIN s |-> IF s[i].as = "copy" /\ s[i].id \in p.seeded /\ s[i].id <= upto
                                    THEN [s[i] EXCEPT !.as = "confirmed"] ELSE s[i]]
           q == [p EXCEPT !.rows = t]
<1>1. /\ s \in Seq(Rows) /\ Len(s) \in Nat /\ DOMAIN s = 1 .. Len(s)
      /\ \A i \in 1 .. Len(s) : s[i] \in Rows
      /\ IdsOf(s) = {s[i].id : i \in 1 .. Len(s)}
  <2>1. s \in Seq(Rows)
    BY DEF Pages
  <2> HIDE DEF s
  <2> QED BY <2>1, RowIds
<1>2. Confirmed(p, upto) = q
  BY DEF Confirmed
<1> HIDE DEF s
<1>3. \A row \in Rows : [row EXCEPT !.as = "confirmed"] \in Rows
                        /\ [row EXCEPT !.as = "confirmed"].id = row.id
  BY DEF Rows
<1>4. \A i \in 1 .. Len(s) : t[i] \in Rows /\ t[i].id = s[i].id
  BY <1>1, <1>3
<1>5. DOMAIN t = 1 .. Len(s)
  BY <1>1
<1>6. t \in Seq(Rows) /\ Len(t) = Len(s)
  BY <1>1, <1>4
<1> HIDE DEF t
<1>7. IdsOf(t) = {t[i].id : i \in 1 .. Len(s)}
  BY <1>6, RowIds
<1>8. IdsOf(t) = IdsOf(s) /\ (Once(s) => Once(t))
  BY <1>1, <1>4, <1>5, <1>7 DEF Once
<1>9. /\ q \in Pages /\ SamePhase(p, q) /\ SameDraft(p, q) /\ q.composer = p.composer
      /\ q.cursor = p.cursor /\ q.newest = p.newest /\ q.unverified = p.unverified
      /\ q.oldest = p.oldest /\ q.more = p.more /\ q.control = p.control
      /\ q.loaded = p.loaded /\ q.rows = t
  BY <1>6 DEF Pages, SamePhase, SameDraft
<1> HIDE DEF q
<1>10. Shown(q) = IdsOf(t) /\ Shown(p) = IdsOf(s)
  BY <1>9 DEF Shown, IdsOf, s
<1> QED BY <1>2, <1>8, <1>9, <1>10 DEF s

\* The page after a restore of the copies of the lines heldIds
Restored(p, heldIds) ==
  [p EXCEPT !.rows = RowsOf(heldIds, "copy"),
            !.cursor = Max(heldIds), !.newest = Max(heldIds), !.oldest = Min(heldIds),
            !.more = Min(heldIds) > 1, !.control = Min(heldIds) > 1,
            !.seeded = heldIds, !.unverified = TRUE]

LEMMA RestoredPage ==
  ASSUME NEW p \in Pages, NEW heldIds \in SUBSET Ids, heldIds # {}
  PROVE  LET q == Restored(p, heldIds)
         IN  /\ q \in Pages /\ SamePhase(p, q) /\ SameDraft(p, q) /\ q.composer = p.composer
             /\ q.cursor = Max(heldIds) /\ q.newest = Max(heldIds) /\ q.oldest = Min(heldIds)
             /\ q.more = (Min(heldIds) > 1) /\ q.control = (Min(heldIds) > 1)
             /\ q.unverified = TRUE /\ q.loaded = p.loaded
             /\ Shown(q) = heldIds /\ Once(q.rows)
<1> DEFINE rows == RowsOf(heldIds, "copy")  high == Max(heldIds)  low == Min(heldIds)  far == low > 1
           a == [p EXCEPT !.rows = rows, !.cursor = high, !.newest = high, !.oldest = low]
           q == [a EXCEPT !.more = far, !.control = far, !.seeded = heldIds, !.unverified = TRUE]
<1>1. /\ rows \in Seq(Rows) /\ IdsOf(rows) = heldIds /\ Once(rows)
      /\ high \in 0 .. MaxId /\ low \in 0 .. MaxId /\ far \in BOOLEAN
  BY RowsOfIds, LineBounds, PageBounds DEF Ids
<1>2. Restored(p, heldIds) = q
  BY DEF Restored
<1> HIDE DEF rows, high, low, far
<1>3. /\ a \in Pages /\ SamePhase(p, a) /\ SameDraft(p, a) /\ a.composer = p.composer
      /\ a.rows = rows /\ a.cursor = high /\ a.newest = high /\ a.oldest = low
      /\ a.loaded = p.loaded
  BY <1>1 DEF Pages, SamePhase, SameDraft
<1> HIDE DEF a
<1>4. /\ q \in Pages /\ SamePhase(a, q) /\ SameDraft(a, q) /\ q.composer = a.composer
      /\ q.rows = a.rows /\ q.cursor = a.cursor /\ q.newest = a.newest /\ q.oldest = a.oldest
      /\ q.loaded = a.loaded /\ q.more = far /\ q.control = far /\ q.unverified = TRUE
  BY <1>1, <1>3 DEF Pages, SamePhase, SameDraft
<1> HIDE DEF q
<1>5. SamePhase(p, q) /\ SameDraft(p, q) /\ Shown(q) = IdsOf(rows)
  BY <1>3, <1>4 DEF SamePhase, SameDraft, Shown, IdsOf
<1> QED BY <1>1, <1>2, <1>3, <1>4, <1>5 DEF rows, high, low, far

\* The page after a backward read brought the lines older
Extended(p, older) ==
  [p EXCEPT !.rows = RowsOf(older \ Shown(p), "live") \o p.rows, !.busy = FALSE,
            !.oldest = IF older = {} THEN @ ELSE Min(older),
            !.more = older # {} /\ Min(older) > 1]

LEMMA ExtendedPage ==
  ASSUME NEW p \in Pages, NEW older \in SUBSET Ids
  PROVE  LET q == Extended(p, older)
         IN  /\ q \in Pages /\ SamePhase(p, q) /\ SameDraft(p, q) /\ q.composer = p.composer
             /\ q.cursor = p.cursor /\ q.newest = p.newest /\ q.unverified = p.unverified
             /\ q.control = p.control /\ q.loaded = p.loaded
             /\ q.oldest = (IF older = {} THEN p.oldest ELSE Min(older))
             /\ q.more = (older # {} /\ Min(older) > 1)
             /\ Shown(q) = Shown(p) \cup older /\ (Once(p.rows) => Once(q.rows))
<1> DEFINE new == RowsOf(older \ Shown(p), "live")
           rows == new \o p.rows
           low == IF older = {} THEN p.oldest ELSE Min(older)
           far == older # {} /\ Min(older) > 1
           q == [p EXCEPT !.rows = rows, !.busy = FALSE, !.oldest = low, !.more = far]
<1>1. p.rows \in Seq(Rows) /\ Shown(p) = IdsOf(p.rows) /\ p.oldest \in 0 .. MaxId
  BY DEF Pages, Shown, IdsOf
<1>2. new \in Seq(Rows) /\ Once(new) /\ IdsOf(new) = older \ Shown(p)
  <2>1. older \ Shown(p) \in SUBSET Ids
    OBVIOUS
  <2> QED BY <2>1, RowsOfIds
<1>3. low \in 0 .. MaxId /\ far \in BOOLEAN
  <2>1. older # {} => Min(older) \in Ids
    BY LineBounds
  <2> QED BY <1>1, <2>1, PageBounds DEF Ids
<1>4. Extended(p, older) = q
  BY DEF Extended
<1> HIDE DEF new
<1>5. /\ rows \in Seq(Rows) /\ IdsOf(rows) = Shown(p) \cup older
      /\ (Once(p.rows) => Once(rows))
  <2>1. /\ IdsOf(new) \cap IdsOf(p.rows) = {}
        /\ IdsOf(new) \cup IdsOf(p.rows) = Shown(p) \cup older
    BY <1>1, <1>2
  <2> QED BY <1>1, <1>2, <2>1, JoinedRows
<1> HIDE DEF rows, low, far
<1>6. /\ q \in Pages /\ SamePhase(p, q) /\ SameDraft(p, q) /\ q.composer = p.composer
      /\ q.cursor = p.cursor /\ q.newest = p.newest /\ q.unverified = p.unverified
      /\ q.control = p.control /\ q.loaded = p.loaded /\ q.rows = rows
      /\ q.oldest = low /\ q.more = far
  BY <1>3, <1>5 DEF Pages, SamePhase, SameDraft
<1> HIDE DEF q
<1>7. Shown(q) = IdsOf(rows)
  BY <1>6 DEF Shown, IdsOf
<1> QED BY <1>4, <1>5, <1>6, <1>7 DEF low, far

LEMMA ShownPost ==
  ASSUME NEW p \in Pages, NEW id \in Ids
  PROVE  LET q == ShowPost(p, id)
         IN  /\ q \in Pages /\ SamePhase(p, q) /\ SameDraft(p, q) /\ q.composer = p.composer
             /\ q.newest = p.newest /\ q.unverified = p.unverified /\ q.oldest = p.oldest
             /\ q.more = p.more /\ q.control = p.control /\ q.loaded = p.loaded
             /\ Shown(q) = Shown(p) \cup {id} /\ (Once(p.rows) => Once(q.rows))
             /\ \/ id \in Shown(p) /\ q = p
                \/ id \notin Shown(p) /\ q.cursor = IF id > p.cursor THEN id ELSE p.cursor
<1>1. CASE id \in Shown(p)
  <2>1. ShowPost(p, id) = p
    BY <1>1 DEF ShowPost
  <2> QED BY <1>1, <2>1 DEF SamePhase, SameDraft
<1>2. CASE id \notin Shown(p)
  <2> DEFINE rows == Append(p.rows, [id |-> id, as |-> "live"])
             a == [p EXCEPT !.rows = rows]
             q == AdvanceCursor(a, id)
  <2>1. ShowPost(p, id) = q
    BY <1>2 DEF ShowPost
  <2>2. p.rows \in Seq(Rows) /\ Shown(p) = IdsOf(p.rows)
    BY DEF Pages, Shown, IdsOf
  <2>3. /\ rows \in Seq(Rows) /\ IdsOf(rows) = Shown(p) \cup {id}
        /\ (Once(p.rows) => Once(rows))
    BY <1>2, <2>2, AddedRow
  <2> HIDE DEF rows
  <2>4. /\ a \in Pages /\ SamePhase(p, a) /\ SameDraft(p, a) /\ a.composer = p.composer
        /\ a.newest = p.newest /\ a.unverified = p.unverified /\ a.oldest = p.oldest
        /\ a.more = p.more /\ a.control = p.control /\ a.loaded = p.loaded
        /\ a.rows = rows /\ a.cursor = p.cursor
    BY <2>3 DEF Pages, SamePhase, SameDraft
  <2> HIDE DEF a
  <2>5. id \in 0 .. MaxId
    BY PageBounds DEF Ids
  <2>6. /\ q \in Pages /\ SamePhase(a, q) /\ SameDraft(a, q)
        /\ q.composer = a.composer /\ q.rows = a.rows /\ q.newest = a.newest
        /\ q.unverified = a.unverified /\ q.oldest = a.oldest /\ q.more = a.more
        /\ q.control = a.control /\ q.loaded = a.loaded
        /\ q.cursor = IF id > a.cursor THEN id ELSE a.cursor
    BY <2>4, <2>5, AdvancedPage
  <2> HIDE DEF q
  <2>7. SamePhase(p, q) /\ SameDraft(p, q) /\ Shown(q) = IdsOf(rows)
    BY <2>4, <2>6 DEF SamePhase, SameDraft, Shown, IdsOf
  <2> QED BY <1>2, <2>1, <2>3, <2>4, <2>6, <2>7
<1> QED BY <1>1, <1>2

-------------------------------------------------------------------------------
\* The room page: types, the course of an entry, and rows that differ

Typed ==
  /\ log \in Seq(LogLines) /\ Len(log) \in 0 .. MaxId /\ shut \in BOOLEAN
  /\ page \in Pages /\ entry \in Entries /\ poll \in Polls /\ back \in 0 .. MaxId
  /\ asked \in {"none", "sent", "open", "closed"} /\ post \in Posts
  /\ backup \in [Ids -> {"none", "ours", "other"}]
  /\ used \in SUBSET Drafts /\ keys \in 0 .. MaxKeys /\ loads \in 1 .. MaxLoads
  /\ skipped \in SUBSET Ids /\ unproven \in BOOLEAN

LEMMA TypedIsTypeOK == Typed => TypeOK
BY PageBounds DEF Typed, TypeOK, LogLines, Pages, Rows, Polls, Entries, Posts

\* An entry is over when the intervals are armed; a poll runs after the entry or as
\* its last step; what a poll was served and what a send was answered is in the log.
FlowInv ==
  /\ page.armed => entry = "none" /\ page.phase = "entered"
  /\ ~page.armed => page.timers = 0
  /\ poll.at # "idle" => page.armed \/ entry = "poll"
  /\ entry \in {"status", "poll"} => page.phase = "entered"
  /\ poll.upto <= Len(log)
  /\ post.answer = "stored" => post.id \in 1 .. Len(log)
  /\ ShutWhileSending(page)

Flowing == Typed /\ FlowInv /\ Once(page.rows)

LEMMA PhasePage ==
  ASSUME NEW p \in Pages,
         NEW phase \in {"unstarted", "starting", "joining", "entering", "entered"}
  PROVE  LET q == [p EXCEPT !.phase = phase]
         IN  /\ q \in Pages /\ SameLines(p, q) /\ SameDraft(p, q) /\ q.composer = p.composer
             /\ q.phase = phase /\ q.armed = p.armed /\ q.timers = p.timers
BY DEF Pages, SameLines, SameDraft

LEMMA FreshPage ==
  /\ Fresh \in Pages /\ ~Fresh.armed /\ Fresh.timers = 0 /\ Fresh.phase = "unstarted"
  /\ ShutWhileSending(Fresh) /\ Fresh.rows = <<>> /\ Fresh.cursor = 0 /\ Fresh.newest = 0
  /\ ~Fresh.loaded /\ ~Fresh.unverified /\ ~Fresh.control /\ ~Fresh.more
  /\ Fresh.draft = None /\ Fresh.pending = 0 /\ ~Fresh.sending
BY PageBounds, NoRows DEF Fresh, Pages, ShutWhileSending

LEMMA NoPostTyped == NoPost \in Posts /\ NoPost.answer = "none" /\ NoPost.draft = None
BY PageBounds DEF NoPost, Posts

LEMMA StartFlows == Flowing /\ Start => Flowing'
<1> SUFFICES ASSUME Flowing, Start PROVE Flowing'
  OBVIOUS
<1> USE DEF Flowing
<1>1. page.phase = "unstarted" /\ page' = [page EXCEPT !.phase = "starting"] /\ entry' = "profile"
      /\ UNCHANGED <<log, shut, poll, back, asked, post, backup, used, keys, loads, skipped, unproven>>
  BY DEF Start, host, counts, history
<1>2. /\ page' \in Pages /\ SameLines(page, page') /\ SameDraft(page, page')
      /\ page'.composer = page.composer /\ page'.phase = "starting" /\ page'.armed = page.armed
      /\ page'.timers = page.timers
  BY <1>1, PhasePage DEF Typed
<1>3. Typed'
  BY <1>1, <1>2 DEF Typed, Entries
<1>4. FlowInv'
  BY <1>1, <1>2 DEF FlowInv, ShutWhileSending, SameDraft
<1> QED BY <1>2, <1>3, <1>4 DEF SameLines

LEMMA EnterFlows ==
  ASSUME Flowing, NEW p \in Pages, SameLines(page, p), SamePhase(page, p),
         ShutWhileSending(p), entry \in {"profile", "claim"}, Enter(p),
         UNCHANGED <<log, shut, poll, back, post, backup, used, keys, loads, skipped, unproven>>
  PROVE  Flowing'
<1> USE DEF Flowing
<1>1. page' = [p EXCEPT !.phase = "entered"] /\ entry' = "status" /\ asked' = "sent"
  BY DEF Enter
<1>2. /\ page' \in Pages /\ SameLines(p, page') /\ SameDraft(p, page')
      /\ page'.composer = p.composer /\ page'.phase = "entered" /\ page'.armed = p.armed
      /\ page'.timers = p.timers
  BY <1>1, PhasePage
<1>3. Typed'
  BY <1>1, <1>2 DEF Typed, Entries
<1>4. FlowInv'
  BY <1>1, <1>2 DEF FlowInv, ShutWhileSending, SameDraft, SamePhase
<1> QED BY <1>2, <1>3, <1>4 DEF SameLines

LEMMA ProfileArrivesFlows == Flowing /\ ProfileArrives => Flowing'
<1> SUFFICES ASSUME Flowing, ProfileArrives PROVE Flowing'
  OBVIOUS
<1> USE DEF Flowing
<1>1. /\ entry = "profile"
      /\ UNCHANGED <<log, shut, poll, back, post, backup, used, keys, loads, skipped, unproven>>
  BY DEF ProfileArrives, host, counts, history
<1>2. page \in Pages /\ SameLines(page, page) /\ SamePhase(page, page) /\ ShutWhileSending(page)
  BY DEF Typed, FlowInv, SameLines, SamePhase
<1>3. ASSUME NEW phase \in {"unstarted", "joining"}, page' = [page EXCEPT !.phase = phase],
             entry' = "none", asked' = asked
      PROVE  Flowing'
  <2>1. /\ page' \in Pages /\ SameLines(page, page') /\ SameDraft(page, page')
        /\ page'.composer = page.composer /\ page'.armed = page.armed
        /\ page'.timers = page.timers
    <3>1. phase \in {"unstarted", "starting", "joining", "entering", "entered"}
      OBVIOUS
    <3> QED BY <1>2, <1>3, <3>1, PhasePage
  <2>2. Typed'
    BY <1>1, <1>3, <2>1 DEF Typed, Entries
  <2>3. FlowInv'
    BY <1>1, <1>3, <2>1 DEF FlowInv, ShutWhileSending, SameDraft
  <2> QED BY <2>1, <2>2, <2>3 DEF SameLines
<1>4. CASE \E e \in Errors : Enter(Failed(page, e))
  BY <1>1, <1>2, <1>4, FailedPage, EnterFlows
<1>5. CASE Enter(page)
  BY <1>1, <1>2, <1>5, EnterFlows
<1>6. CASE entry' = "claim" /\ UNCHANGED <<page, asked>>
  <2>1. Typed'
    BY <1>1, <1>6 DEF Typed, Entries
  <2>2. FlowInv'
    BY <1>1, <1>6 DEF FlowInv, ShutWhileSending
  <2> QED BY <1>6, <2>1, <2>2
<1> QED BY <1>3, <1>4, <1>5, <1>6 DEF ProfileArrives

LEMMA SubmitProfileFlows == Flowing /\ SubmitProfile => Flowing'
<1> SUFFICES ASSUME Flowing, SubmitProfile PROVE Flowing'
  OBVIOUS
<1> USE DEF Flowing
<1>1. page.phase = "joining" /\ page' = [page EXCEPT !.phase = "entering"] /\ entry' = "claim"
      /\ UNCHANGED <<log, shut, poll, back, asked, post, backup, used, keys, loads, skipped, unproven>>
  BY DEF SubmitProfile, host, counts, history
<1>2. /\ page' \in Pages /\ SameLines(page, page') /\ SameDraft(page, page')
      /\ page'.composer = page.composer /\ page'.phase = "entering" /\ page'.armed = page.armed
      /\ page'.timers = page.timers
  BY <1>1, PhasePage DEF Typed
<1>3. Typed'
  BY <1>1, <1>2 DEF Typed, Entries
<1>4. FlowInv'
  BY <1>1, <1>2 DEF FlowInv, ShutWhileSending, SameDraft
<1> QED BY <1>2, <1>3, <1>4 DEF SameLines

LEMMA ClaimArrivesFlows == Flowing /\ ClaimArrives => Flowing'
<1> SUFFICES ASSUME Flowing, ClaimArrives PROVE Flowing'
  OBVIOUS
<1> USE DEF Flowing
<1>1. /\ entry = "claim"
      /\ UNCHANGED <<log, shut, poll, back, post, backup, used, keys, loads, skipped, unproven>>
  BY DEF ClaimArrives, host, counts, history
<1>2. page \in Pages /\ SameLines(page, page) /\ SamePhase(page, page) /\ ShutWhileSending(page)
  BY DEF Typed, FlowInv, SameLines, SamePhase
<1>3. CASE Enter(page)
  BY <1>1, <1>2, <1>3, EnterFlows
<1>4. CASE page' = [page EXCEPT !.phase = IF @ = "entering" THEN "joining" ELSE "unstarted"]
           /\ entry' = "none" /\ UNCHANGED asked
  <2> DEFINE phase == IF page.phase = "entering" THEN "joining" ELSE "unstarted"
  <2>1. page' = [page EXCEPT !.phase = phase]
    BY <1>4
  <2>2. phase \in {"unstarted", "starting", "joining", "entering", "entered"}
    OBVIOUS
  <2> HIDE DEF phase
  <2>3. /\ page' \in Pages /\ SameLines(page, page') /\ SameDraft(page, page')
        /\ page'.composer = page.composer /\ page'.armed = page.armed
        /\ page'.timers = page.timers
    BY <1>2, <2>1, <2>2, PhasePage
  <2>4. Typed'
    BY <1>1, <1>4, <2>3 DEF Typed, Entries
  <2>5. FlowInv'
    BY <1>1, <1>4, <2>3 DEF FlowInv, ShutWhileSending, SameDraft
  <2> QED BY <2>3, <2>4, <2>5 DEF SameLines
<1> QED BY <1>3, <1>4 DEF ClaimArrives

\* A step that leaves the entry, the polls and the log alone
LEMMA QuietFlows ==
  ASSUME Flowing, page' \in Pages, SamePhase(page, page'), ShutWhileSending(page'),
         page'.rows = page.rows,
         shut' \in BOOLEAN, back' \in 0 .. MaxId, asked' \in {"none", "sent", "open", "closed"},
         post' \in Posts, post'.answer = "stored" => post' = post,
         used' \in SUBSET Drafts, keys' \in 0 .. MaxKeys,
         UNCHANGED <<log, entry, poll, backup, loads, skipped, unproven>>
  PROVE  Flowing'
<1> USE DEF Flowing
<1>1. Typed'
  BY DEF Typed
<1>2. FlowInv'
  BY DEF FlowInv, SamePhase
<1> QED BY <1>1, <1>2

LEMMA BriefFailsFlows == Flowing /\ BriefFails => Flowing'
<1> SUFFICES ASSUME Flowing, NEW e \in Errors, page' = Failed(page, e),
                    UNCHANGED <<host, calls, backup, counts, history>>
             PROVE  Flowing'
  BY DEF BriefFails
<1>1. /\ page' \in Pages /\ SamePhase(page, page') /\ ShutWhileSending(page')
      /\ page'.rows = page.rows
  BY FailedPage DEF Flowing, Typed, SameLines
<1>2. UNCHANGED <<log, shut, entry, poll, back, asked, post, backup, used, keys, loads, skipped, unproven>>
  BY DEF host, calls, counts, history
<1>3. /\ shut' \in BOOLEAN /\ back' \in 0 .. MaxId /\ asked' \in {"none", "sent", "open", "closed"}
      /\ post' \in Posts /\ used' \in SUBSET Drafts /\ keys' \in 0 .. MaxKeys
  BY <1>2 DEF Flowing, Typed
<1> QED BY <1>1, <1>2, <1>3, QuietFlows

LEMMA SeedFlows == Flowing /\ Seed => Flowing'
<1> DEFINE heldIds == {i \in Ids : backup[i] # "none"}
           seeded == IF heldIds = {} THEN page ELSE Restored(page, heldIds)
<1> SUFFICES ASSUME Flowing, Seed PROVE Flowing'
  OBVIOUS
<1> USE DEF Flowing
<1>1. /\ entry = "status" /\ asked = "none" /\ page' = seeded /\ poll' = Ask(seeded)
      /\ entry' = "poll"
      /\ skipped' = IF heldIds = {} THEN skipped
                    ELSE skipped \cup ((Min(heldIds) .. Max(heldIds)) \ heldIds)
      /\ UNCHANGED <<log, shut, back, asked, post, backup, used, keys, loads, unproven>>
  BY DEF Seed, Restored, host, counts
<1>2. heldIds \in SUBSET Ids
  OBVIOUS
<1> HIDE DEF heldIds
<1>3. /\ seeded \in Pages /\ SamePhase(page, seeded) /\ ShutWhileSending(seeded)
      /\ Once(seeded.rows)
  <2>1. CASE heldIds = {}
    BY <2>1 DEF Typed, FlowInv, SamePhase
  <2>2. CASE heldIds # {}
    <3>1. seeded = Restored(page, heldIds) /\ page \in Pages
      BY <2>2 DEF Typed
    <3> HIDE DEF seeded
    <3>2. /\ seeded \in Pages /\ SamePhase(page, seeded) /\ SameDraft(page, seeded)
          /\ seeded.composer = page.composer /\ Once(seeded.rows)
      BY <1>2, <2>2, <3>1, RestoredPage
    <3> QED BY <3>2 DEF ShutWhileSending, FlowInv, SameDraft
  <2> QED BY <2>1, <2>2
<1> HIDE DEF seeded
<1>4. poll' \in Polls /\ poll'.upto = Unserved
  BY <1>1, <1>3, AskedPoll
<1>5. skipped' \in SUBSET Ids
  <2>1. heldIds # {} => Min(heldIds) .. Max(heldIds) \subseteq Ids
    BY <1>2, LineBounds, PageBounds DEF Ids
  <2> QED BY <1>1, <2>1 DEF Typed
<1>6. Typed'
  BY <1>1, <1>3, <1>4, <1>5 DEF Typed, Entries
<1>7. FlowInv'
  BY <1>1, <1>3, <1>4 DEF FlowInv, SamePhase, Typed, Unserved
<1> QED BY <1>1, <1>3, <1>6, <1>7

LEMMA LoadFlows == Flowing /\ Load => Flowing'
<1> SUFFICES ASSUME Flowing, Load PROVE Flowing'
  OBVIOUS
<1> USE DEF Flowing
<1>1. /\ loads' = loads + 1 /\ loads < MaxLoads /\ page' = Fresh /\ entry' = "none" /\ poll' = Idle /\ back' = 0
      /\ asked' = "none" /\ post' = NoPost /\ skipped' = {} /\ unproven' = FALSE
      /\ UNCHANGED <<log, shut, backup, used, keys>>
  BY DEF Load, host
<1>2. Once(page'.rows)
  BY <1>1, FreshPage, NoRows
<1>3. MaxLoads \in Nat /\ loads \in 1 .. MaxLoads
  BY PageAssumption DEF Typed
<1>4. loads' \in 1 .. MaxLoads
  BY <1>1, <1>3
<1>5. Typed'
  BY <1>1, <1>4, FreshPage, IdlePoll, NoPostTyped, PageBounds DEF Typed, Entries
<1>6. FlowInv'
  BY <1>1, FreshPage, IdlePoll, NoPostTyped DEF FlowInv, Typed, Unserved
<1> QED BY <1>2, <1>5, <1>6

LEMMA PollTickFlows == Flowing /\ PollTick => Flowing'
<1> SUFFICES ASSUME Flowing, PollTick PROVE Flowing'
  OBVIOUS
<1> USE DEF Flowing
<1>1. /\ page.timers > 0 /\ poll.at = "idle" /\ poll' = Ask(page)
      /\ UNCHANGED <<log, shut, page, entry, back, asked, post, backup, used, keys, loads,
                     skipped, unproven>>
  BY DEF PollTick, host, counts, history
<1>2. poll' \in Polls /\ poll'.upto = Unserved
  BY <1>1, AskedPoll DEF Typed
<1>3. Typed'
  BY <1>1, <1>2 DEF Typed
<1>4. page.armed
  BY <1>1 DEF FlowInv
<1>5. FlowInv'
  BY <1>1, <1>2, <1>4 DEF FlowInv, Typed, Unserved, ShutWhileSending
<1> QED BY <1>1, <1>3, <1>5

LEMMA HostServesFlows == Flowing /\ HostServes => Flowing'
<1> SUFFICES ASSUME Flowing, HostServes PROVE Flowing'
  OBVIOUS
<1> USE DEF Flowing
<1>1. /\ poll.at # "idle" /\ poll' = [poll EXCEPT !.upto = Len(log)]
      /\ UNCHANGED <<log, shut, page, entry, back, asked, post, backup, used, keys, loads,
                     skipped, unproven>>
  BY DEF HostServes, host, counts, history
<1>2. poll' \in Polls /\ poll'.upto = Len(log) /\ poll'.at = poll.at
  BY <1>1 DEF Typed, Polls
<1>3. Typed'
  BY <1>1, <1>2 DEF Typed
<1>4. FlowInv'
  BY <1>1, <1>2 DEF FlowInv, Typed, ShutWhileSending
<1> QED BY <1>1, <1>3, <1>4

\* The end of every step of a poll: the page p that it worked on, and its flow
LEMMA PollFlows ==
  ASSUME Flowing, NEW p \in Pages, SamePhase(page, p), Flow(p), poll.at # "idle",
         page' \in Pages, ShutWhileSending(page'), Once(page'.rows),
         poll' \in Polls, poll'.upto = Unserved,
         backup' \in [Ids -> {"none", "ours", "other"}], unproven' \in BOOLEAN,
         UNCHANGED <<log, shut, back, asked, post, used, keys, loads, skipped>>
  PROVE  Flowing'
<1> USE DEF Flowing
<1>1. page'.phase = page.phase /\ p.armed = page.armed /\ p.timers = page.timers
  BY DEF Flow, SamePhase
<1>2. \/ /\ poll'.at # "idle" /\ entry' = entry
         /\ page'.armed = page.armed /\ page'.timers = page.timers
      \/ /\ poll' = Idle /\ entry' = (IF entry = "poll" THEN "none" ELSE entry)
         /\ page'.armed <=> page.armed \/ entry = "poll"
         /\ page'.timers # 0 => page.timers # 0 \/ entry = "poll"
  BY <1>1 DEF Flow, SamePhase
<1>3. entry' \in Entries
  BY <1>2 DEF Typed, Entries
<1>4. Typed'
  BY <1>3 DEF Typed
<1>5. poll'.upto <= Len(log)
  BY DEF Unserved, Typed
<1>6. FlowInv'
  BY <1>1, <1>2, <1>5, IdlePoll DEF FlowInv
<1> QED BY <1>4, <1>6

LEMMA PollArrivesFlows == Flowing /\ PollArrives => Flowing'
<1> SUFFICES ASSUME Flowing, PollArrives PROVE Flowing'
  OBVIOUS
<1> USE DEF Flowing
<1>1. /\ poll.at = "list" /\ poll.upto # Unserved
      /\ CheckSeed(Brought, Batch = {})
      /\ backup' = IF Batch \ Shown(page) = {} THEN backup ELSE Recorded(Batch \ Shown(page))
      /\ UNCHANGED <<log, shut, back, asked, post, used, keys, loads, skipped, unproven>>
  BY DEF PollArrives, Brought, Kept, host, counts, history
<1>2. /\ Brought \in Pages /\ SamePhase(page, Brought) /\ ShutWhileSending(Brought)
      /\ Once(Brought.rows)
  BY <1>1, BroughtPage DEF Typed, FlowInv
<1>3. entry = "poll" => Brought.timers = 0
  BY <1>2 DEF FlowInv, SamePhase
<1>4. /\ page' \in Pages /\ SameLines([Brought EXCEPT !.unverified = FALSE], page')
      /\ ShutWhileSending(page') /\ poll' \in Polls /\ poll'.upto = Unserved /\ Flow(Brought)
  <2>1. (Batch = {}) \in BOOLEAN
    OBVIOUS
  <2> QED BY <1>1, <1>2, <1>3, <2>1, CheckSeedPage
<1>5. page'.rows = Brought.rows
  BY <1>2, <1>4 DEF SameLines, Pages
<1>6. backup' \in [Ids -> {"none", "ours", "other"}]
  BY <1>1, RecordedCopies DEF Typed
<1>7. unproven' \in BOOLEAN
  BY <1>1 DEF Typed
<1> QED BY <1>1, <1>2, <1>4, <1>5, <1>6, <1>7, PollFlows

LEMMA PollFailsFlows == Flowing /\ PollFails => Flowing'
<1> SUFFICES ASSUME Flowing, PollFails PROVE Flowing'
  OBVIOUS
<1> USE DEF Flowing
<1>1. PICK e \in Errors : EndPoll(Failed(page, e))
  BY DEF PollFails
<1>2. /\ poll.at # "idle"
      /\ UNCHANGED <<log, shut, back, asked, post, backup, used, keys, loads, skipped, unproven>>
  BY DEF PollFails, host, counts, history
<1> DEFINE p == Failed(page, e)
<1>3. p \in Pages /\ SameLines(page, p) /\ SamePhase(page, p) /\ ShutWhileSending(p)
  BY FailedPage DEF Typed
<1> HIDE DEF p
<1>4. entry = "poll" => p.timers = 0
  BY <1>3 DEF FlowInv, SamePhase
<1>5. /\ page' \in Pages /\ SameLines(p, page') /\ ShutWhileSending(page') /\ poll' = Idle
      /\ Flow(p)
  BY <1>1, <1>3, <1>4, EndPollPage DEF p
<1>6. Once(page'.rows)
  BY <1>3, <1>5 DEF SameLines
<1>7. backup' \in [Ids -> {"none", "ours", "other"}] /\ unproven' \in BOOLEAN
  BY <1>2 DEF Typed
<1> QED BY <1>2, <1>3, <1>5, <1>6, <1>7, IdlePoll, PollFlows

LEMMA ConfirmFlows ==
  ASSUME Flowing, Confirm(page), poll.at # "idle", unproven' \in BOOLEAN,
         UNCHANGED <<log, shut, back, asked, post, backup, used, keys, loads, skipped>>
  PROVE  Flowing'
<1>1. page \in Pages /\ SamePhase(page, page) /\ ShutWhileSending(page) /\ Once(page.rows)
  BY DEF Flowing, Typed, FlowInv, SamePhase
<1>2. entry = "poll" => page.timers = 0
  BY DEF Flowing, FlowInv
<1>3. /\ page' \in Pages /\ SameLines(page, page') /\ ShutWhileSending(page')
      /\ poll' \in Polls /\ poll'.upto = Unserved /\ Flow(page)
  BY <1>1, <1>2, ConfirmPage
<1>4. Once(page'.rows) /\ backup' \in [Ids -> {"none", "ours", "other"}]
  BY <1>1, <1>3 DEF SameLines, Flowing, Typed
<1> QED BY <1>1, <1>3, <1>4, PollFlows

LEMMA VerifyArrivesFlows == Flowing /\ VerifyArrives => Flowing'
<1> SUFFICES ASSUME Flowing, VerifyArrives PROVE Flowing'
  OBVIOUS
<1>1. /\ poll.at = "verify" /\ poll.upto # Unserved
      /\ unproven' = (unproven /\ page.newest <= poll.upto)
      /\ UNCHANGED <<log, shut, back, asked, post, used, keys, loads, skipped>>
  BY DEF VerifyArrives, host, counts
<1>2. unproven' \in BOOLEAN /\ page \in Pages
  BY <1>1 DEF Flowing, Typed
<1>3. CASE page.newest <= poll.upto
  BY <1>1, <1>2, <1>3, ConfirmFlows DEF VerifyArrives
<1>4. CASE ~(page.newest <= poll.upto)
  <2> DEFINE p == Discarded(page)
  <2>1. /\ page' = p /\ poll' = Ask(p) /\ backup' = [i \in Ids |-> "none"]
        /\ entry' = entry
    BY <1>4 DEF VerifyArrives
  <2>2. /\ p \in Pages /\ SamePhase(page, p) /\ SameDraft(page, p)
        /\ p.composer = page.composer /\ p.rows = <<>>
    BY <1>2, DiscardedPage
  <2> HIDE DEF p
  <2>3. /\ poll' \in Polls /\ poll'.upto = Unserved /\ poll'.at = "list"
    BY <2>1, <2>2, AskedPoll
  <2>4. ShutWhileSending(page') /\ Once(page'.rows) /\ Flow(p)
    BY <2>1, <2>2, <2>3, NoRows DEF ShutWhileSending, SameDraft, Flowing, FlowInv, Flow, SamePhase
  <2>5. backup' \in [Ids -> {"none", "ours", "other"}]
    BY <2>1
  <2> QED BY <1>1, <1>2, <2>1, <2>2, <2>3, <2>4, <2>5, PollFlows
<1> QED BY <1>3, <1>4

LEMMA VerifyFailsFlows == Flowing /\ VerifyFails => Flowing'
<1> SUFFICES ASSUME Flowing, VerifyFails PROVE Flowing'
  OBVIOUS
<1>1. /\ poll.at # "idle" /\ Confirm(page) /\ unproven' \in BOOLEAN
      /\ UNCHANGED <<log, shut, back, asked, post, backup, used, keys, loads, skipped>>
  BY DEF VerifyFails, host, counts
<1> QED BY <1>1, ConfirmFlows

LEMMA EndPollFlows ==
  ASSUME Flowing, NEW p \in Pages, SamePhase(page, p), ShutWhileSending(p), Once(p.rows),
         EndPoll(p), poll.at # "idle",
         UNCHANGED <<log, shut, back, asked, post, backup, used, keys, loads, skipped, unproven>>
  PROVE  Flowing'
<1>1. entry = "poll" => p.timers = 0
  BY DEF Flowing, FlowInv, SamePhase
<1>2. /\ page' \in Pages /\ SameLines(p, page') /\ ShutWhileSending(page') /\ poll' = Idle
      /\ Flow(p)
  BY <1>1, EndPollPage
<1>3. Once(page'.rows) /\ backup' \in [Ids -> {"none", "ours", "other"}] /\ unproven' \in BOOLEAN
  BY <1>2 DEF SameLines, Flowing, Typed
<1> QED BY <1>2, <1>3, IdlePoll, PollFlows

LEMMA ConfirmArrivesFlows == Flowing /\ ConfirmArrives => Flowing'
<1> SUFFICES ASSUME Flowing, ConfirmArrives PROVE Flowing'
  OBVIOUS
<1> DEFINE p == Confirmed(page, poll.upto)
<1>1. /\ poll.at # "idle" /\ poll.upto # Unserved /\ EndPoll(p)
      /\ UNCHANGED <<log, shut, back, asked, post, backup, used, keys, loads, skipped, unproven>>
  BY DEF ConfirmArrives, Confirmed, host, counts, history
<1>2. page \in Pages /\ poll.upto \in Int /\ ShutWhileSending(page) /\ Once(page.rows)
  BY <1>1, BatchLines DEF Flowing, Typed, FlowInv
<1>3. /\ p \in Pages /\ SamePhase(page, p) /\ SameDraft(page, p) /\ p.composer = page.composer
      /\ Once(p.rows)
  BY <1>2, ConfirmedPage
<1> HIDE DEF p
<1>4. ShutWhileSending(p)
  BY <1>2, <1>3 DEF ShutWhileSending, SameDraft
<1> QED BY <1>1, <1>3, <1>4, EndPollFlows

LEMMA ConfirmFailsFlows == Flowing /\ ConfirmFails => Flowing'
<1> SUFFICES ASSUME Flowing, ConfirmFails PROVE Flowing'
  OBVIOUS
<1>1. /\ poll.at # "idle" /\ EndPoll(page)
      /\ UNCHANGED <<log, shut, back, asked, post, backup, used, keys, loads, skipped, unproven>>
  BY DEF ConfirmFails, host, counts, history
<1>2. page \in Pages /\ SamePhase(page, page) /\ ShutWhileSending(page) /\ Once(page.rows)
  BY DEF Flowing, Typed, FlowInv, SamePhase
<1> QED BY <1>1, <1>2, EndPollFlows

LEMMA BusyPage ==
  ASSUME NEW p \in Pages, NEW busy \in BOOLEAN
  PROVE  LET q == [p EXCEPT !.busy = busy]
         IN  /\ q \in Pages /\ SameLines(p, q) /\ SamePhase(p, q) /\ SameDraft(p, q)
             /\ q.composer = p.composer
BY DEF Pages, SameLines, SamePhase, SameDraft

\* A step of the backward read
LEMMA BackFlows ==
  ASSUME Flowing, page' \in Pages, SamePhase(page, page'), SameDraft(page, page'),
         page'.composer = page.composer, Once(page'.rows),
         back' \in 0 .. MaxId, unproven' \in BOOLEAN,
         UNCHANGED <<log, shut, entry, poll, asked, post, backup, used, keys, loads, skipped>>
  PROVE  Flowing'
<1> USE DEF Flowing
<1>1. Typed'
  BY DEF Typed
<1>2. FlowInv'
  BY DEF FlowInv, SamePhase, SameDraft, ShutWhileSending
<1> QED BY <1>1, <1>2

LEMMA LoadEarlierFlows == Flowing /\ LoadEarlier => Flowing'
<1> SUFFICES ASSUME Flowing, LoadEarlier PROVE Flowing'
  OBVIOUS
<1>1. /\ page' = [page EXCEPT !.busy = TRUE] /\ back' = page.oldest
      /\ UNCHANGED <<log, shut, entry, poll, asked, post, backup, used, keys, loads, skipped,
                     unproven>>
  BY DEF LoadEarlier, host, counts, history
<1>2. page \in Pages /\ page.oldest \in 0 .. MaxId /\ unproven \in BOOLEAN /\ Once(page.rows)
  BY DEF Flowing, Typed, Pages
<1>3. /\ page' \in Pages /\ SameLines(page, page') /\ SamePhase(page, page')
      /\ SameDraft(page, page') /\ page'.composer = page.composer
  BY <1>1, <1>2, BusyPage
<1> QED BY <1>1, <1>2, <1>3, BackFlows DEF SameLines

LEMMA EarlierArrivesFlows == Flowing /\ EarlierArrives => Flowing'
<1> SUFFICES ASSUME Flowing, EarlierArrives PROVE Flowing'
  OBVIOUS
<1>1. /\ back > 0 /\ back' = 0
      /\ page' = IF ~page.control THEN [page EXCEPT !.busy = FALSE]
                 ELSE Extended(page, Before(back))
      /\ UNCHANGED <<log, shut, entry, poll, asked, post, backup, used, keys, loads, skipped>>
  BY DEF EarlierArrives, Extended, host, counts
<1>2. page \in Pages /\ back \in Ids /\ Len(log) \in 0 .. MaxId /\ Once(page.rows)
  BY <1>1, PageBounds DEF Flowing, Typed, Ids
<1>3. unproven' \in BOOLEAN
  BY DEF EarlierArrives
<1>4. CASE ~page.control
  <2>1. /\ page' \in Pages /\ SameLines(page, page') /\ SamePhase(page, page')
        /\ SameDraft(page, page') /\ page'.composer = page.composer
    BY <1>1, <1>2, <1>4, BusyPage
  <2> QED BY <1>1, <1>2, <1>3, <2>1, PageBounds, BackFlows DEF SameLines
<1>5. CASE page.control
  <2>1. Before(back) \in SUBSET Ids
    BY <1>2, EarlierLines
  <2>2. /\ page' \in Pages /\ SamePhase(page, page') /\ SameDraft(page, page')
        /\ page'.composer = page.composer /\ Once(page'.rows)
    BY <1>1, <1>2, <1>5, <2>1, ExtendedPage
  <2> QED BY <1>1, <1>3, <2>2, PageBounds, BackFlows
<1> QED BY <1>4, <1>5

LEMMA EarlierFailsFlows == Flowing /\ EarlierFails => Flowing'
<1> SUFFICES ASSUME Flowing, EarlierFails PROVE Flowing'
  OBVIOUS
<1>1. /\ page' = [page EXCEPT !.busy = FALSE] /\ back' = 0
      /\ UNCHANGED <<log, shut, entry, poll, asked, post, backup, used, keys, loads, skipped,
                     unproven>>
  BY DEF EarlierFails, host, counts, history
<1>2. page \in Pages /\ unproven \in BOOLEAN /\ Once(page.rows)
  BY DEF Flowing, Typed
<1>3. /\ page' \in Pages /\ SameLines(page, page') /\ SamePhase(page, page')
      /\ SameDraft(page, page') /\ page'.composer = page.composer
  BY <1>1, <1>2, BusyPage
<1> QED BY <1>1, <1>2, <1>3, PageBounds, BackFlows DEF SameLines

LEMMA StatusTickFlows == Flowing /\ (StatusTick \/ HostReports) => Flowing'
<1> SUFFICES ASSUME Flowing, StatusTick \/ HostReports PROVE Flowing'
  OBVIOUS
<1>1. /\ asked' \in {"none", "sent", "open", "closed"}
      /\ UNCHANGED <<log, shut, page, entry, poll, back, post, backup, used, keys, loads,
                     skipped, unproven>>
  BY DEF StatusTick, HostReports, host, counts, history
<1>2. /\ page \in Pages /\ SamePhase(page, page') /\ ShutWhileSending(page')
      /\ shut' \in BOOLEAN /\ back' \in 0 .. MaxId /\ post' \in Posts
      /\ used' \in SUBSET Drafts /\ keys' \in 0 .. MaxKeys
  BY <1>1 DEF Flowing, Typed, FlowInv, SamePhase, ShutWhileSending
<1> QED BY <1>1, <1>2, QuietFlows

\* The page with an answer to GET /status
Reported(p, told) == Applied([Live(p) EXCEPT !.status = told])

LEMMA ReportedPage ==
  ASSUME NEW p \in Pages, NEW told \in {"open", "closed"}, ShutWhileSending(p)
  PROVE  LET q == Reported(p, told)
         IN  /\ q \in Pages /\ SameLines(p, q) /\ SamePhase(p, q) /\ SameDraft(p, q)
             /\ ShutWhileSending(q)
<1> DEFINE l == Live(p)
           q == [l EXCEPT !.status = told]
<1>1. l \in Pages /\ SameLines(p, l) /\ SamePhase(p, l) /\ SameDraft(p, l)
  BY LivePage
<1>2. Reported(p, told) = Applied(q)
  BY DEF Reported
<1> HIDE DEF l
<1>3. q \in Pages /\ SameLines(l, q) /\ SamePhase(l, q) /\ SameDraft(l, q)
  BY <1>1 DEF Pages, SameLines, SamePhase, SameDraft
<1> HIDE DEF q
<1>4. SameLines(p, q) /\ SamePhase(p, q) /\ SameDraft(p, q)
  BY <1>1, <1>3 DEF SameLines, SamePhase, SameDraft
<1> DEFINE r == Applied(q)
<1>5. /\ r \in Pages /\ SameLines(q, r) /\ SamePhase(q, r) /\ SameDraft(q, r)
      /\ ShutWhileSending(r)
  BY <1>3, AppliedPage
<1> HIDE DEF r
<1> QED BY <1>2, <1>4, <1>5 DEF SameLines, SamePhase, SameDraft, r

LEMMA ClosedPage ==
  ASSUME NEW p \in Pages
  PROVE  LET q == [p EXCEPT !.status = "closed"]
         IN  /\ q \in Pages /\ SameLines(p, q) /\ SamePhase(p, q) /\ SameDraft(p, q)
             /\ q.composer = p.composer
BY DEF Pages, SameLines, SamePhase, SameDraft

\* The steps of GET /status that change the page
LEMMA StatusFlows ==
  Flowing /\ (StatusArrives \/ StatusFails \/ CloseRoom) => Flowing'
<1> SUFFICES ASSUME Flowing, StatusArrives \/ StatusFails \/ CloseRoom PROVE Flowing'
  OBVIOUS
<1>1. /\ asked' \in {"none", "sent", "open", "closed"} /\ shut' \in {shut, TRUE}
      /\ UNCHANGED <<log, entry, poll, back, post, backup, used, keys, loads, skipped, unproven>>
  BY DEF StatusArrives, StatusFails, CloseRoom, host, counts, history
<1>2. page \in Pages /\ ShutWhileSending(page) /\ shut \in BOOLEAN
  BY DEF Flowing, Typed, FlowInv
<1>3. /\ page' \in Pages /\ SamePhase(page, page') /\ page'.rows = page.rows
      /\ ShutWhileSending(page')
  <2>1. CASE StatusArrives
    <3>1. page' = Reported(page, asked) /\ asked \in {"open", "closed"}
      BY <2>1 DEF StatusArrives, Reported
    <3> QED BY <1>2, <3>1, ReportedPage DEF SameLines
  <2>2. CASE StatusFails
    BY <1>2, <2>2, FailedPage DEF StatusFails, SameLines
  <2>3. CASE CloseRoom
    <3>1. page' = [page EXCEPT !.status = "closed"]
      BY <2>3 DEF CloseRoom
    <3>2. /\ page' \in Pages /\ SameLines(page, page') /\ SamePhase(page, page')
          /\ SameDraft(page, page') /\ page'.composer = page.composer
      BY <1>2, <3>1, ClosedPage
    <3> QED BY <1>2, <3>2 DEF SameLines, SameDraft, ShutWhileSending
  <2> QED BY <2>1, <2>2, <2>3
<1>4. /\ shut' \in BOOLEAN /\ back' \in 0 .. MaxId /\ post' \in Posts
      /\ used' \in SUBSET Drafts /\ keys' \in 0 .. MaxKeys
  BY <1>1, <1>2 DEF Flowing, Typed
<1> QED BY <1>1, <1>3, <1>4, QuietFlows

LEMMA SendingPage ==
  ASSUME NEW p \in Pages, NEW key \in 0 .. MaxKeys
  PROVE  LET q == [p EXCEPT !.pending = key, !.sending = TRUE, !.composer = FALSE]
         IN  /\ q \in Pages /\ SameLines(p, q) /\ SamePhase(p, q)
             /\ q.composer = FALSE /\ q.sending = TRUE
             /\ q.draft = p.draft /\ q.pending = key
BY DEF Pages, SameLines, SamePhase

LEMMA ComposeFlows == Flowing /\ Compose => Flowing'
<1> SUFFICES ASSUME Flowing, Compose PROVE Flowing'
  OBVIOUS
<1>1. PICK d \in Drafts \ used : /\ page' = [page EXCEPT !.draft = d, !.pending = 0]
                                 /\ used' = used \cup {d}
  BY DEF Compose
<1>2. UNCHANGED <<log, shut, entry, poll, back, asked, post, backup, keys, loads, skipped, unproven>>
  BY DEF Compose, host, calls, history
<1>3. page \in Pages /\ ShutWhileSending(page)
  BY DEF Flowing, Typed, FlowInv
<1>4. /\ page' \in Pages /\ SameLines(page, page') /\ SamePhase(page, page')
      /\ ShutWhileSending(page')
  <2>1. d \in Drafts
    OBVIOUS
  <2>2. /\ page' \in Pages /\ SameLines(page, page') /\ SamePhase(page, page')
        /\ page'.composer = page.composer /\ page'.sending = page.sending
    BY <1>1, <1>3, <2>1, PageBounds DEF Pages, SameLines, SamePhase
  <2> QED BY <1>3, <2>2 DEF ShutWhileSending
<1>5. /\ shut' \in BOOLEAN /\ back' \in 0 .. MaxId /\ asked' \in {"none", "sent", "open", "closed"}
      /\ post' \in Posts /\ used' \in SUBSET Drafts /\ keys' \in 0 .. MaxKeys
  BY <1>1, <1>2 DEF Flowing, Typed
<1> QED BY <1>2, <1>4, <1>5, QuietFlows DEF SameLines

\* What a send records of its key
LEMMA SubmitStep ==
  ASSUME Typed, Submit
  PROVE  /\ PendingKey \in 1 .. MaxKeys /\ keys' \in 0 .. MaxKeys
         /\ keys' >= keys /\ keys' >= PendingKey
         /\ post'.key = PendingKey /\ post'.draft = page.draft /\ post'.answer = "sent"
         /\ post' \in Posts
         /\ page' \in Pages /\ SameLines(page, page') /\ SamePhase(page, page')
         /\ page'.composer = FALSE /\ page'.sending = TRUE
         /\ page'.draft = page.draft /\ page'.pending = PendingKey
         /\ page.draft # None /\ page.sending = FALSE
         /\ UNCHANGED <<log, shut, entry, poll, back, asked, backup, used, loads, skipped, unproven>>
<1>1. /\ page \in Pages /\ page.draft \in Drafts \cup {None} /\ keys \in 0 .. MaxKeys
      /\ page.pending \in 0 .. MaxKeys /\ page.sending \in BOOLEAN
  BY DEF Typed, Pages
<1>2. /\ page.draft # None /\ ~page.sending /\ PendingKey <= MaxKeys
      /\ keys' = Max({keys, PendingKey})
      /\ page' = [page EXCEPT !.pending = PendingKey, !.sending = TRUE, !.composer = FALSE]
      /\ post' = [key |-> PendingKey, draft |-> page.draft, answer |-> "sent", id |-> 0]
      /\ UNCHANGED <<log, shut, entry, poll, back, asked, backup, used, loads, skipped, unproven>>
  BY DEF Submit, host, history
<1>3. PendingKey \in 1 .. MaxKeys
  BY <1>1, <1>2 DEF PendingKey
<1> HIDE DEF PendingKey
<1>4. keys' \in 0 .. MaxKeys /\ keys' >= keys /\ keys' >= PendingKey
  <2> DEFINE S == {keys, PendingKey}
  <2>1. S \subseteq Int /\ S # {} /\ S \subseteq 0 .. MaxKeys /\ keys \in S /\ PendingKey \in S
    BY <1>1, <1>3
  <2>2. IsFiniteSet(S)
    <3>1. IsFiniteSet({keys}) /\ S = {keys} \cup {PendingKey}
      BY FS_Singleton
    <3> QED BY <3>1, FS_AddElement
  <2> HIDE DEF S
  <2>3. Max(S) \in S /\ \A y \in S : y <= Max(S)
    BY <2>1, <2>2, MinMax
  <2>4. keys' = Max(S)
    BY <1>2 DEF S
  <2> QED BY <2>1, <2>3, <2>4
<1>5. /\ page' \in Pages /\ SameLines(page, page') /\ SamePhase(page, page')
      /\ page'.composer = FALSE /\ page'.sending = TRUE
      /\ page'.draft = page.draft /\ page'.pending = PendingKey
  <2>1. PendingKey \in 0 .. MaxKeys
    BY <1>3
  <2> QED BY <1>1, <1>2, <2>1, SendingPage
<1>6. post' \in Posts
  BY <1>1, <1>2, <1>3, PageBounds DEF Posts
<1> QED BY <1>1, <1>2, <1>3, <1>4, <1>5, <1>6

LEMMA SubmitFlows == Flowing /\ Submit => Flowing'
<1> SUFFICES ASSUME Flowing, Submit PROVE Flowing'
  OBVIOUS
<1>1. /\ keys' \in 0 .. MaxKeys /\ post' \in Posts /\ post'.answer = "sent"
      /\ page' \in Pages /\ SameLines(page, page') /\ SamePhase(page, page')
      /\ page'.composer = FALSE
      /\ UNCHANGED <<log, shut, entry, poll, back, asked, backup, used, loads, skipped, unproven>>
  BY SubmitStep DEF Flowing
<1>2. /\ shut' \in BOOLEAN /\ back' \in 0 .. MaxId /\ asked' \in {"none", "sent", "open", "closed"}
      /\ used' \in SUBSET Drafts
  BY <1>1 DEF Flowing, Typed
<1>3. ShutWhileSending(page')
  BY <1>1 DEF ShutWhileSending
<1> QED BY <1>1, <1>2, <1>3, QuietFlows DEF SameLines

\* What the host does with a message: it knows its key, or takes it, or refuses it.
LEMMA HostStoresStep ==
  ASSUME Typed, HostStores
  PROVE  /\ post.answer = "sent" /\ post' \in Posts
         /\ post'.key = post.key /\ post'.draft = post.draft
         /\ UNCHANGED <<shut, page, entry, poll, back, asked, backup, used, keys, loads,
                        skipped, unproven>>
         /\ \/ /\ post'.answer = "stored" /\ log' = log
               /\ post'.id \in 1 .. Len(log) /\ log[post'.id].key = post.key
            \/ /\ post'.answer = "stored" /\ \A i \in 1 .. Len(log) : log[i].key # post.key
               /\ Len(log) < MaxId /\ post'.id = Len(log) + 1
               /\ log' = Append(log, [key |-> post.key, draft |-> post.draft])
            \/ post'.answer = "refused" /\ log' = log
<1> DEFINE stored == {i \in 1 .. Len(log) : log[i].key = post.key}
<1>1. /\ post.answer = "sent"
      /\ UNCHANGED <<shut, page, entry, poll, back, asked, backup, used, keys, loads,
                     skipped, unproven>>
      /\ \/ /\ stored # {} /\ post' = [post EXCEPT !.answer = "stored", !.id = Max(stored)]
            /\ log' = log
         \/ /\ stored = {} /\ Len(log) < MaxId
            /\ log' = Append(log, [key |-> post.key, draft |-> post.draft])
            /\ post' = [post EXCEPT !.answer = "stored", !.id = Len(log) + 1]
         \/ post' = [post EXCEPT !.answer = "refused"] /\ log' = log
  BY DEF HostStores, counts, history
<1>2. post \in Posts /\ Len(log) \in 0 .. MaxId /\ MaxId \in Nat
  BY PageBounds DEF Typed
<1>3. ASSUME stored # {}
      PROVE  Max(stored) \in stored /\ Max(stored) \in 0 .. MaxId
  <2>1. stored \in SUBSET Ids
    BY <1>2 DEF Ids
  <2> HIDE DEF stored
  <2> QED BY <1>2, <1>3, <2>1, LineBounds DEF Ids
<1>4. ASSUME NEW id \in 0 .. MaxId, NEW answer \in {"stored", "refused"}
      PROVE  LET q == [post EXCEPT !.answer = answer, !.id = id]
             IN  q \in Posts /\ q.key = post.key /\ q.draft = post.draft
                 /\ q.answer = answer /\ q.id = id
  BY <1>2 DEF Posts
<1>5. LET q == [post EXCEPT !.answer = "refused"]
      IN  q \in Posts /\ q.key = post.key /\ q.draft = post.draft /\ q.answer = "refused"
  BY <1>2 DEF Posts
<1>6. CASE stored # {} /\ post' = [post EXCEPT !.answer = "stored", !.id = Max(stored)]
           /\ log' = log
  <2> DEFINE id == Max(stored)
  <2>1. id \in 0 .. MaxId /\ id \in 1 .. Len(log) /\ log[id].key = post.key
    BY <1>3, <1>6
  <2> HIDE DEF id
  <2>2. post' = [post EXCEPT !.answer = "stored", !.id = id]
    BY <1>6 DEF id
  <2>3. /\ post' \in Posts /\ post'.key = post.key /\ post'.draft = post.draft
        /\ post'.answer = "stored" /\ post'.id = id
    BY <1>4, <2>1, <2>2
  <2> QED BY <1>1, <1>6, <2>1, <2>3
<1>7. CASE /\ stored = {} /\ Len(log) < MaxId
           /\ log' = Append(log, [key |-> post.key, draft |-> post.draft])
           /\ post' = [post EXCEPT !.answer = "stored", !.id = Len(log) + 1]
  <2>1. Len(log) + 1 \in 0 .. MaxId
    BY <1>2, <1>7
  <2> QED BY <1>1, <1>4, <1>7, <2>1
<1>8. CASE post' = [post EXCEPT !.answer = "refused"] /\ log' = log
  BY <1>1, <1>5, <1>8
<1> QED BY <1>1, <1>6, <1>7, <1>8

LEMMA AppendedLine ==
  ASSUME log \in Seq(LogLines), NEW line \in LogLines
  PROVE  /\ Append(log, line) \in Seq(LogLines) /\ Len(Append(log, line)) = Len(log) + 1
         /\ Append(log, line)[Len(log) + 1] = line
         /\ \A i \in 1 .. Len(log) : Append(log, line)[i] = log[i]
BY AppendProperties

LEMMA HostStoresFlows == Flowing /\ HostStores => Flowing'
<1> SUFFICES ASSUME Flowing, HostStores PROVE Flowing'
  OBVIOUS
<1> USE DEF Flowing
<1>1. /\ post.answer = "sent" /\ post' \in Posts
      /\ UNCHANGED <<shut, page, entry, poll, back, asked, backup, used, keys, loads,
                     skipped, unproven>>
      /\ \/ post'.answer = "stored" /\ log' = log /\ post'.id \in 1 .. Len(log)
         \/ /\ post'.answer = "stored" /\ Len(log) < MaxId /\ post'.id = Len(log) + 1
            /\ log' = Append(log, [key |-> post.key, draft |-> post.draft])
         \/ post'.answer = "refused" /\ log' = log
  BY HostStoresStep
<1>2. [key |-> post.key, draft |-> post.draft] \in LogLines
  BY DEF Typed, Posts, LogLines
<1>3. /\ log' \in Seq(LogLines) /\ Len(log') \in 0 .. MaxId /\ Len(log') >= Len(log)
      /\ (post'.answer = "stored" => post'.id \in 1 .. Len(log'))
  <2> DEFINE line == [key |-> post.key, draft |-> post.draft]
             longer == Append(log, line)
  <2>1. longer \in Seq(LogLines) /\ Len(longer) = Len(log) + 1
    BY <1>2, AppendedLine DEF Typed
  <2>2. \/ log' = log /\ (post'.answer = "stored" => post'.id \in 1 .. Len(log))
        \/ log' = longer /\ Len(log) < MaxId /\ post'.id = Len(log) + 1
    BY <1>1
  <2>3. log \in Seq(LogLines) /\ Len(log) \in 0 .. MaxId /\ MaxId \in Nat
    BY PageBounds DEF Typed
  <2> HIDE DEF longer
  <2> QED BY <2>1, <2>2, <2>3
<1>4. Typed'
  BY <1>1, <1>3 DEF Typed
<1>5. poll.upto \in Int
  BY PageBounds DEF Typed, Polls, Unserved
<1>6. FlowInv'
  BY <1>1, <1>3, <1>5 DEF FlowInv, ShutWhileSending, Typed
<1> QED BY <1>1, <1>4, <1>6

\* The composer after a send that was stored
DraftEmptied(p) == [Resumed(p) EXCEPT !.draft = None, !.pending = 0]

LEMMA EmptiedPage ==
  ASSUME NEW p \in Pages
  PROVE  LET q == DraftEmptied(p)
         IN  /\ q \in Pages /\ SameLines(p, q) /\ SamePhase(p, q) /\ ShutWhileSending(q)
             /\ q.draft = None /\ q.pending = 0 /\ q.sending = FALSE
<1> DEFINE r == Resumed(p)
           q == [r EXCEPT !.draft = None, !.pending = 0]
<1>1. /\ r \in Pages /\ SameLines(p, r) /\ SamePhase(p, r) /\ r.sending = FALSE
  BY ResumedPage
<1>2. DraftEmptied(p) = q
  BY DEF DraftEmptied
<1> HIDE DEF r
<1>3. /\ q \in Pages /\ SameLines(r, q) /\ SamePhase(r, q) /\ q.sending = r.sending
      /\ q.draft = None /\ q.pending = 0
  <2>1. q = [r EXCEPT !.draft = None, !.pending = 0]
    OBVIOUS
  <2> HIDE DEF q
  <2> QED BY <1>1, <2>1, PageBounds DEF Pages, SameLines, SamePhase
<1> HIDE DEF q
<1> QED BY <1>1, <1>2, <1>3 DEF SameLines, SamePhase, ShutWhileSending

LEMMA PostArrivesStep ==
  ASSUME Typed, FlowInv, PostArrives
  PROVE  /\ post.answer = "stored" /\ post.id \in Ids /\ post.id <= Len(log)
         /\ post' = NoPost
         /\ skipped' = skipped \cup {i \in Ids : page.cursor < i /\ i < post.id /\ i \notin Shown(page)}
         /\ UNCHANGED <<log, shut, entry, poll, back, asked, backup, used, keys, loads, unproven>>
         /\ page' \in Pages /\ SamePhase(page, page') /\ ShutWhileSending(page')
         /\ page'.draft = None /\ page'.pending = 0 /\ page'.sending = FALSE
         /\ page'.newest = page.newest /\ page'.unverified = page.unverified
         /\ page'.oldest = page.oldest /\ page'.more = page.more
         /\ page'.control = page.control /\ page'.loaded = page.loaded
         /\ Shown(page') = Shown(page) \cup {post.id}
         /\ (Once(page.rows) => Once(page'.rows))
         /\ \/ post.id \in Shown(page) /\ page'.cursor = page.cursor
            \/ /\ post.id \notin Shown(page)
               /\ page'.cursor = IF post.id > page.cursor THEN post.id ELSE page.cursor
<1> DEFINE p == DraftEmptied(page)
           q == ShowPost(p, post.id)
<1>1. /\ post.answer = "stored" /\ page' = q /\ post' = NoPost
      /\ skipped' = skipped \cup {i \in Ids : page.cursor < i /\ i < post.id /\ i \notin Shown(page)}
      /\ UNCHANGED <<log, shut, entry, poll, back, asked, backup, used, keys, loads, unproven>>
  BY DEF PostArrives, DraftEmptied, host, counts
<1>2. post.id \in Ids /\ post.id <= Len(log)
  BY <1>1, PageBounds DEF Typed, FlowInv, Ids
<1>3. /\ p \in Pages /\ SameLines(page, p) /\ SamePhase(page, p) /\ ShutWhileSending(p)
      /\ p.draft = None /\ p.pending = 0 /\ p.sending = FALSE
  BY EmptiedPage DEF Typed
<1> HIDE DEF p
<1>4. /\ q \in Pages /\ SamePhase(p, q) /\ SameDraft(p, q) /\ q.composer = p.composer
      /\ q.newest = p.newest /\ q.unverified = p.unverified /\ q.oldest = p.oldest
      /\ q.more = p.more /\ q.control = p.control /\ q.loaded = p.loaded
      /\ Shown(q) = Shown(p) \cup {post.id} /\ (Once(p.rows) => Once(q.rows))
      /\ \/ post.id \in Shown(p) /\ q = p
         \/ post.id \notin Shown(p) /\ q.cursor = IF post.id > p.cursor THEN post.id ELSE p.cursor
  BY <1>2, <1>3, ShownPost
<1> HIDE DEF q
<1>5. Shown(p) = Shown(page) /\ (Once(page.rows) => Once(p.rows))
  BY <1>3 DEF Shown, SameLines
<1>6. SamePhase(page, q) /\ ShutWhileSending(q) /\ q.draft = None /\ q.pending = 0 /\ q.sending = FALSE
  BY <1>3, <1>4 DEF SamePhase, SameDraft, ShutWhileSending
<1>7. /\ p.newest = page.newest /\ p.unverified = page.unverified /\ p.oldest = page.oldest
      /\ p.more = page.more /\ p.control = page.control /\ p.loaded = page.loaded
      /\ p.cursor = page.cursor
  BY <1>3 DEF SameLines
<1> HIDE DEF PostArrives
<1> QED BY <1>1, <1>2, <1>4, <1>5, <1>6, <1>7

LEMMA PostArrivesFlows == Flowing /\ PostArrives => Flowing'
<1> SUFFICES ASSUME Flowing, PostArrives PROVE Flowing'
  OBVIOUS
<1> USE DEF Flowing
<1>1. /\ post' = NoPost
      /\ skipped' \in SUBSET Ids
      /\ UNCHANGED <<log, shut, entry, poll, back, asked, backup, used, keys, loads, unproven>>
      /\ page' \in Pages /\ SamePhase(page, page') /\ ShutWhileSending(page') /\ Once(page'.rows)
  BY PostArrivesStep DEF Typed
<1>2. Typed'
  BY <1>1, NoPostTyped DEF Typed
<1>3. FlowInv'
  BY <1>1, NoPostTyped DEF FlowInv, SamePhase
<1> QED BY <1>1, <1>2, <1>3

LEMMA PostFailsStep ==
  ASSUME Typed, PostFails
  PROVE  /\ page' \in Pages /\ SameLines(page, page') /\ SamePhase(page, page')
         /\ ShutWhileSending(page') /\ page'.draft = page.draft
         /\ page'.pending = page.pending /\ page'.sending = FALSE
         /\ post' = NoPost
         /\ UNCHANGED <<log, shut, entry, poll, back, asked, backup, used, keys, loads, skipped, unproven>>
<1> DEFINE r == Resumed(page)
<1>1. /\ r \in Pages /\ SameLines(page, r) /\ SamePhase(page, r) /\ r.draft = page.draft
      /\ r.pending = page.pending /\ r.sending = FALSE /\ ShutWhileSending(r)
  BY ResumedPage DEF Typed
<1>2. /\ page' = r \/ \E e \in Errors : page' = Failed(r, e)
      /\ post' = NoPost
      /\ UNCHANGED <<log, shut, entry, poll, back, asked, backup, used, keys, loads, skipped, unproven>>
  BY DEF PostFails, host, counts, history
<1> HIDE DEF r
<1>3. CASE page' = r
  BY <1>1, <1>2, <1>3
<1>4. ASSUME NEW e \in Errors, page' = Failed(r, e)
      PROVE  /\ page' \in Pages /\ SameLines(page, page') /\ SamePhase(page, page')
             /\ ShutWhileSending(page') /\ page'.draft = page.draft
             /\ page'.pending = page.pending /\ page'.sending = FALSE
  BY <1>1, <1>4, FailedPage DEF SameLines, SamePhase, SameDraft
<1> QED BY <1>2, <1>3, <1>4

LEMMA PostFailsFlows == Flowing /\ PostFails => Flowing'
<1> SUFFICES ASSUME Flowing, PostFails PROVE Flowing'
  OBVIOUS
<1>1. /\ page' \in Pages /\ SameLines(page, page') /\ SamePhase(page, page')
      /\ ShutWhileSending(page') /\ post' = NoPost
      /\ UNCHANGED <<log, shut, entry, poll, back, asked, backup, used, keys, loads, skipped, unproven>>
  BY PostFailsStep DEF Flowing
<1>2. /\ shut' \in BOOLEAN /\ back' \in 0 .. MaxId /\ asked' \in {"none", "sent", "open", "closed"}
      /\ used' \in SUBSET Drafts /\ keys' \in 0 .. MaxKeys
  BY <1>1 DEF Flowing, Typed
<1> QED BY <1>1, <1>2, NoPostTyped, QuietFlows DEF SameLines

LEMMA HostFlows == Flowing /\ (OtherPosts \/ HostCloses) => Flowing'
<1> SUFFICES ASSUME Flowing, OtherPosts \/ HostCloses PROVE Flowing'
  OBVIOUS
<1> USE DEF Flowing
<1>1. /\ UNCHANGED <<page, entry, poll, back, asked, post, backup, used, keys, loads, skipped, unproven>>
      /\ shut' \in {shut, TRUE}
      /\ \/ log' = log
         \/ log' = Append(log, [key |-> 0, draft |-> None]) /\ Len(log) < MaxId
  BY DEF OtherPosts, HostCloses, calls, counts, history
<1>2. [key |-> 0, draft |-> None] \in LogLines
  BY PageBounds DEF LogLines
<1>3. log' \in Seq(LogLines) /\ Len(log') \in 0 .. MaxId /\ Len(log') >= Len(log)
  <2> DEFINE line == [key |-> 0, draft |-> None]
             longer == Append(log, line)
  <2>1. longer \in Seq(LogLines) /\ Len(longer) = Len(log) + 1
    BY <1>2, AppendedLine DEF Typed
  <2>2. \/ log' = log
        \/ log' = longer /\ Len(log) < MaxId
    BY <1>1
  <2>3. log \in Seq(LogLines) /\ Len(log) \in 0 .. MaxId /\ MaxId \in Nat
    BY PageBounds DEF Typed
  <2> HIDE DEF longer
  <2> QED BY <2>1, <2>2, <2>3
<1>4. Typed'
  BY <1>1, <1>3 DEF Typed
<1>5. poll.upto \in Int
  BY PageBounds DEF Typed, Polls, Unserved
<1>6. FlowInv'
  BY <1>1, <1>3, <1>5 DEF FlowInv, ShutWhileSending, Typed
<1> QED BY <1>1, <1>4, <1>6

LEMMA InitFlows == Init => Flowing
<1> SUFFICES ASSUME Init PROVE Flowing
  OBVIOUS
<1>1. /\ log = <<>> /\ shut = FALSE /\ page = Fresh /\ entry = "none" /\ poll = Idle /\ back = 0
      /\ asked = "none" /\ post = NoPost /\ used = {} /\ keys = 0 /\ loads = 1
      /\ skipped = {} /\ unproven = FALSE
      /\ backup \in [Ids -> {"none", "ours", "other"}]
  BY DEF Init
<1>2. log \in Seq(LogLines) /\ Len(log) = 0 /\ 1 \in 1 .. MaxLoads
  BY <1>1, PageAssumption
<1>3. Once(page.rows)
  BY <1>1, FreshPage, NoRows
<1>4. Typed
  BY <1>1, <1>2, FreshPage, IdlePoll, NoPostTyped, PageBounds DEF Typed, Entries
<1>5. FlowInv
  BY <1>1, <1>2, FreshPage, IdlePoll, NoPostTyped DEF FlowInv, Unserved
<1> QED BY <1>3, <1>4, <1>5 DEF Flowing

LEMMA NextFlows == Flowing /\ [Next]_vars => Flowing'
<1> SUFFICES ASSUME Flowing, [Next]_vars PROVE Flowing'
  OBVIOUS
<1>1. CASE Entering
  BY <1>1, StartFlows, ProfileArrivesFlows, SubmitProfileFlows, ClaimArrivesFlows,
     BriefFailsFlows, SeedFlows, LoadFlows DEF Entering
<1>2. CASE Polling
  BY <1>2, PollTickFlows, HostServesFlows, PollArrivesFlows, PollFailsFlows, VerifyArrivesFlows,
     VerifyFailsFlows, ConfirmArrivesFlows, ConfirmFailsFlows DEF Polling
<1>3. CASE Reading
  BY <1>3, LoadEarlierFlows, EarlierArrivesFlows, EarlierFailsFlows DEF Reading
<1>4. CASE Lifecycle
  BY <1>4, StatusTickFlows, StatusFlows DEF Lifecycle
<1>5. CASE Sending
  BY <1>5, ComposeFlows, SubmitFlows, HostStoresFlows, PostArrivesFlows, PostFailsFlows
     DEF Sending
<1>6. CASE OtherPosts \/ HostCloses
  BY <1>6, HostFlows
<1>7. CASE UNCHANGED vars
  BY <1>7 DEF Flowing, Typed, FlowInv, ShutWhileSending, vars, host, calls, counts, history
<1> QED BY <1>1, <1>2, <1>3, <1>4, <1>5, <1>6, <1>7 DEF Next

LEMMA RoomPageFlows == Spec => []Flowing
BY InitFlows, NextFlows, PTL DEF Spec

\* Every variable of the room page keeps its type, through every entry, poll, backward
\* read, send and reload (room.js); in particular its intervals start once a load.
THEOREM RoomPageTypeCorrect == Spec => []TypeOK
<1>1. Flowing => TypeOK
  BY TypedIsTypeOK DEF Flowing
<1> QED BY <1>1, RoomPageFlows, PTL

\* A line stands on the timeline once, although the restore, the polls, the backward
\* reads and the answer to an own post bring lines at the same time
\* (room.js:1288-1290, 1013, 1692).
THEOREM RowsShownOnce == Spec => []RowsOnce
<1>1. Flowing => RowsOnce
  BY DEF Flowing, Once, RowsOnce
<1> QED BY <1>1, RoomPageFlows, PTL

-------------------------------------------------------------------------------
\* The room page: a message that is sent again is stored once

\* A send under way carries the draft of the composer and its key.
SendInv ==
  post.answer # "none" =>
    /\ page.sending /\ post.key = page.pending /\ post.draft = page.draft
    /\ post.key # 0 /\ post.draft # None

\* The lines of this device have keys, one each; lines with one draft have one key,
\* and the composer holds that key as long as it holds the draft.
LogInv ==
  /\ \A i \in 1 .. Len(log) : log[i].draft # None => log[i].key # 0 /\ log[i].draft \in used
  /\ \A i, j \in 1 .. Len(log) : log[i].key = log[j].key /\ log[i].key # 0 => i = j
  /\ \A i, j \in 1 .. Len(log) :
       log[i].draft = log[j].draft /\ log[i].draft # None => log[i].key = log[j].key
  /\ page.draft # None =>
       /\ page.draft \in used
       /\ \A i \in 1 .. Len(log) : log[i].draft = page.draft => log[i].key = page.pending

Posting == SendInv /\ LogInv

\* A step that leaves the timeline and the draft of the page
Untouched(p, q) == SameLines(p, q) /\ SameDraft(p, q) /\ q.armed = p.armed

LEMMA EntryLeavesPage ==
  ASSUME Flowing,
         Start \/ ProfileArrives \/ SubmitProfile \/ ClaimArrives \/ BriefFails
  PROVE  /\ Untouched(page, page') /\ entry # "poll" /\ entry' # "poll"
         /\ UNCHANGED <<log, poll, back, post, used, skipped, unproven>>
<1>1. page \in Pages
  BY DEF Flowing, Typed
<1>2. UNCHANGED <<log, poll, back, post, used, skipped, unproven>>
  BY DEF Start, ProfileArrives, SubmitProfile, ClaimArrives, BriefFails, host, calls, counts, history
<1>3. entry # "poll" /\ entry' # "poll"
  BY DEF Start, ProfileArrives, SubmitProfile, ClaimArrives, BriefFails, calls, Enter, Flowing, FlowInv
<1> SUFFICES Untouched(page, page')
  BY <1>2, <1>3
<1>4. ASSUME NEW phase \in {"unstarted", "starting", "joining", "entering", "entered"},
             NEW p \in Pages, Untouched(page, p), page' = [p EXCEPT !.phase = phase]
      PROVE  Untouched(page, page')
  <2>1. Untouched(p, page')
    BY <1>4, PhasePage DEF Untouched
  <2> QED BY <1>4, <2>1 DEF Untouched, SameLines, SameDraft
<1>5. Untouched(page, page)
  BY DEF Untouched, SameLines, SameDraft
<1>6. \A e \in Errors : Failed(page, e) \in Pages /\ Untouched(page, Failed(page, e))
  BY <1>1, FailedPage DEF Untouched, SamePhase
<1>7. ASSUME NEW p \in Pages, Untouched(page, p), Enter(p)
      PROVE  Untouched(page, page')
  <2>1. page' = [p EXCEPT !.phase = "entered"]
    BY <1>7 DEF Enter
  <2> QED BY <1>4, <1>7, <2>1
<1>8. CASE Start
  BY <1>1, <1>4, <1>5, <1>8 DEF Start
<1>9. CASE ProfileArrives
  <2>1. CASE page' = page
    BY <1>5, <2>1
  <2>2. CASE \E phase \in {"unstarted", "joining"} : page' = [page EXCEPT !.phase = phase]
    BY <1>1, <1>4, <1>5, <2>2
  <2>3. CASE \E e \in Errors : Enter(Failed(page, e))
    BY <1>6, <1>7, <2>3
  <2>4. CASE Enter(page)
    BY <1>1, <1>5, <1>7, <2>4
  <2> QED BY <1>9, <2>1, <2>2, <2>3, <2>4 DEF ProfileArrives
<1>10. CASE SubmitProfile
  BY <1>1, <1>4, <1>5, <1>10 DEF SubmitProfile
<1>11. CASE ClaimArrives
  <2> DEFINE phase == IF page.phase = "entering" THEN "joining" ELSE "unstarted"
  <2>1. CASE Enter(page)
    BY <1>1, <1>5, <1>7, <2>1
  <2>2. CASE page' = [page EXCEPT !.phase = phase]
    <3>1. phase \in {"unstarted", "starting", "joining", "entering", "entered"}
      OBVIOUS
    <3> HIDE DEF phase
    <3> QED BY <1>1, <1>4, <1>5, <2>2, <3>1
  <2> QED BY <1>11, <2>1, <2>2 DEF ClaimArrives
<1>12. CASE BriefFails
  BY <1>6, <1>12 DEF BriefFails
<1> QED BY <1>8, <1>9, <1>10, <1>11, <1>12

LEMMA SeedLeavesDraft ==
  ASSUME Flowing, Seed
  PROVE  SameDraft(page, page') /\ UNCHANGED <<log, post, used>>
<1> DEFINE heldIds == {i \in Ids : backup[i] # "none"}
<1>1. page' = IF heldIds = {} THEN page ELSE Restored(page, heldIds)
  BY DEF Seed, Restored
<1>2. heldIds \in SUBSET Ids /\ page \in Pages
  BY DEF Flowing, Typed
<1>3. UNCHANGED <<log, post, used>>
  BY DEF Seed, host, counts
<1> HIDE DEF heldIds
<1>4. heldIds # {} => SameDraft(page, Restored(page, heldIds))
  BY <1>2, RestoredPage
<1> QED BY <1>1, <1>3, <1>4 DEF SameDraft

LEMMA PollLeavesDraft ==
  ASSUME Flowing, Polling
  PROVE  SameDraft(page, page') /\ UNCHANGED <<log, post, used>>
<1>1. page \in Pages /\ poll \in Polls /\ ShutWhileSending(page)
  BY DEF Flowing, Typed, FlowInv
<1>2. UNCHANGED <<log, post, used>>
  BY DEF Polling, PollTick, HostServes, PollArrives, PollFails, VerifyArrives, VerifyFails,
         ConfirmArrives, ConfirmFails, host, counts
<1> SUFFICES SameDraft(page, page')
  BY <1>2
<1>3. SameDraft(page, page)
  BY DEF SameDraft
<1>4. entry = "poll" => page.timers = 0
  BY DEF Flowing, FlowInv
<1>5. ASSUME NEW p \in Pages, SameDraft(page, p), p.timers = page.timers, EndPoll(p)
      PROVE  SameDraft(page, page')
  <2>1. SameDraft(p, page')
    BY <1>4, <1>5, EndPollPage
  <2> QED BY <1>5, <2>1 DEF SameDraft
<1>6. ASSUME Confirm(page)
      PROVE  SameDraft(page, page')
  BY <1>1, <1>4, <1>6, ConfirmPage
<1>7. CASE PollTick \/ HostServes
  BY <1>3, <1>7 DEF PollTick, HostServes
<1>8. CASE PollArrives
  <2>1. CheckSeed(Brought, Batch = {}) /\ poll.upto # Unserved
    BY <1>8 DEF PollArrives, Brought, Kept
  <2>2. Brought \in Pages /\ SameDraft(page, Brought) /\ SamePhase(page, Brought)
    BY <1>1, <2>1, BroughtPage
  <2>3. (Batch = {}) \in BOOLEAN /\ (entry = "poll" => Brought.timers = 0)
    BY <1>4, <2>2 DEF SamePhase
  <2>4. SameDraft(Brought, page')
    BY <2>1, <2>2, <2>3, CheckSeedPage
  <2> QED BY <2>2, <2>4 DEF SameDraft
<1>9. CASE PollFails
  <2>1. PICK e \in Errors : EndPoll(Failed(page, e))
    BY <1>9 DEF PollFails
  <2>2. /\ Failed(page, e) \in Pages /\ SameDraft(page, Failed(page, e))
        /\ Failed(page, e).timers = page.timers
    BY <1>1, FailedPage DEF SamePhase
  <2> QED BY <1>5, <2>1, <2>2
<1>10. CASE VerifyArrives
  <2>1. Confirm(page) \/ page' = Discarded(page)
    BY <1>10 DEF VerifyArrives
  <2>2. SameDraft(page, Discarded(page))
    BY <1>1, DiscardedPage
  <2> QED BY <1>6, <2>1, <2>2
<1>11. CASE VerifyFails
  BY <1>6, <1>11 DEF VerifyFails
<1>12. CASE ConfirmArrives
  <2> DEFINE p == Confirmed(page, poll.upto)
  <2>1. EndPoll(p) /\ poll.upto # Unserved
    BY <1>12 DEF ConfirmArrives, Confirmed
  <2>2. poll.upto \in Int
    BY <1>1, <2>1, BatchLines
  <2>3. p \in Pages /\ SameDraft(page, p) /\ p.timers = page.timers
    BY <1>1, <2>2, ConfirmedPage DEF SamePhase
  <2> HIDE DEF p
  <2> QED BY <1>5, <2>1, <2>3
<1>13. CASE ConfirmFails
  BY <1>1, <1>3, <1>5, <1>13 DEF ConfirmFails
<1> QED BY <1>7, <1>8, <1>9, <1>10, <1>11, <1>12, <1>13 DEF Polling

LEMMA ReadLeavesPage ==
  ASSUME Flowing,
         \/ LoadEarlier \/ EarlierFails \/ Lifecycle
         \/ EarlierArrives /\ ~page.control
  PROVE  /\ Untouched(page, page')
         /\ UNCHANGED <<log, entry, poll, post, used, skipped, unproven>>
<1>1. page \in Pages /\ ShutWhileSending(page) /\ unproven \in BOOLEAN
  BY DEF Flowing, Typed, FlowInv
<1>2. UNCHANGED <<log, entry, poll, post, used, skipped, unproven>>
  BY <1>1 DEF LoadEarlier, EarlierArrives, EarlierFails, Lifecycle, StatusTick, HostReports,
         StatusArrives, StatusFails, CloseRoom, host, counts, history
<1> SUFFICES Untouched(page, page')
  BY <1>2
<1>3. CASE LoadEarlier \/ EarlierFails \/ (EarlierArrives /\ ~page.control)
  <2>1. \E busy \in BOOLEAN : page' = [page EXCEPT !.busy = busy]
    BY <1>3 DEF LoadEarlier, EarlierFails, EarlierArrives
  <2> QED BY <1>1, <2>1, BusyPage DEF Untouched, SamePhase
<1>4. CASE StatusTick \/ HostReports
  BY <1>4 DEF StatusTick, HostReports, Untouched, SameLines, SameDraft
<1>5. CASE StatusArrives
  <2>1. page' = Reported(page, asked) /\ asked \in {"open", "closed"}
    BY <1>5 DEF StatusArrives, Reported
  <2> QED BY <1>1, <2>1, ReportedPage DEF Untouched, SamePhase
<1>6. CASE StatusFails
  BY <1>1, <1>6, FailedPage DEF StatusFails, Untouched, SamePhase
<1>7. CASE CloseRoom
  <2>1. page' = [page EXCEPT !.status = "closed"]
    BY <1>7 DEF CloseRoom
  <2> QED BY <1>1, <2>1, ClosedPage DEF Untouched, SamePhase
<1> QED BY <1>3, <1>4, <1>5, <1>6, <1>7 DEF Lifecycle

LEMMA ExtensionStep ==
  ASSUME Flowing, EarlierArrives, page.control
  PROVE  /\ back \in Ids /\ back' = 0 /\ Before(back) \in SUBSET Ids
         /\ page' = Extended(page, Before(back))
         /\ unproven' = (unproven \/ page.unverified \/ poll.at = "verify")
         /\ SameDraft(page, page') /\ SamePhase(page, page')
         /\ UNCHANGED <<log, entry, poll, post, used, skipped>>
<1>1. /\ page \in Pages /\ back \in 0 .. MaxId /\ Len(log) \in 0 .. MaxId
      /\ unproven \in BOOLEAN /\ page.unverified \in BOOLEAN
  BY DEF Flowing, Typed, Pages
<1>2. /\ back \in Ids /\ back' = 0 /\ page' = Extended(page, Before(back))
      /\ UNCHANGED <<log, entry, poll, post, used, skipped>>
  BY <1>1, PageBounds DEF EarlierArrives, Extended, Ids, host, counts
<1>3. unproven' = (unproven \/ page.unverified \/ poll.at = "verify")
  BY <1>1 DEF EarlierArrives
<1>4. Before(back) \in SUBSET Ids
  BY <1>1, <1>2, EarlierLines
<1>5. SameDraft(page, page') /\ SamePhase(page, page')
  BY <1>1, <1>2, <1>4, ExtendedPage
<1> QED BY <1>2, <1>3, <1>4, <1>5

LEMMA QuietPosts ==
  ASSUME Posting, SameDraft(page, page'), UNCHANGED <<log, post, used>>
  PROVE  Posting'
BY DEF Posting, SendInv, LogInv, SameDraft

LEMMA LoadPosts == Posting /\ Load => Posting'
<1> SUFFICES ASSUME Posting, Load PROVE Posting'
  OBVIOUS
<1>1. page' = Fresh /\ post' = NoPost /\ UNCHANGED <<log, used>>
  BY DEF Load, host
<1> QED BY <1>1, FreshPage, NoPostTyped DEF Posting, SendInv, LogInv

LEMMA ComposePosts == Flowing /\ Posting /\ Compose => Posting'
<1> SUFFICES ASSUME Flowing, Posting, Compose PROVE Posting'
  OBVIOUS
<1>1. PICK d \in Drafts \ used : /\ page' = [page EXCEPT !.draft = d, !.pending = 0]
                                 /\ used' = used \cup {d}
  BY DEF Compose
<1>2. page \in Pages /\ page.composer /\ UNCHANGED <<log, post>>
  BY DEF Compose, Flowing, Typed, host, calls
<1>3. page'.draft = d /\ page'.pending = 0
  BY <1>1, <1>2 DEF Pages
<1>4. ~page.sending
  BY <1>2 DEF Flowing, FlowInv, ShutWhileSending
<1>5. SendInv'
  BY <1>2, <1>4 DEF Posting, SendInv
<1>6. d # None
  BY PageAssumption
<1>7. \A i \in 1 .. Len(log) : log[i].draft # d
  BY <1>6 DEF Posting, LogInv
<1>8. LogInv'
  BY <1>1, <1>2, <1>3, <1>7 DEF Posting, LogInv
<1> QED BY <1>5, <1>8 DEF Posting

LEMMA SubmitPosts == Flowing /\ Posting /\ Submit => Posting'
<1> SUFFICES ASSUME Flowing, Posting, Submit PROVE Posting'
  OBVIOUS
<1>1. /\ PendingKey \in 1 .. MaxKeys
      /\ post'.key = PendingKey /\ post'.draft = page.draft
      /\ page'.sending = TRUE /\ page'.draft = page.draft /\ page'.pending = PendingKey
      /\ page.draft # None /\ UNCHANGED <<log, used>>
  BY SubmitStep DEF Flowing
<1>2. SendInv'
  BY <1>1 DEF SendInv
<1>3. PendingKey = page.pending \/ page.pending = 0
  BY DEF PendingKey
<1>4. \A i \in 1 .. Len(log) : log[i].draft = page.draft => log[i].key = PendingKey
  BY <1>1, <1>3 DEF Posting, LogInv
<1>5. LogInv'
  BY <1>1, <1>4 DEF Posting, LogInv
<1> QED BY <1>2, <1>5 DEF Posting

LEMMA HostStoresPosts == Flowing /\ Posting /\ HostStores => Posting'
<1> SUFFICES ASSUME Flowing, Posting, HostStores PROVE Posting'
  OBVIOUS
<1>1. /\ post.answer = "sent" /\ post'.key = post.key /\ post'.draft = post.draft
      /\ UNCHANGED <<page, used>>
      /\ \/ log' = log
         \/ /\ \A i \in 1 .. Len(log) : log[i].key # post.key
            /\ log' = Append(log, [key |-> post.key, draft |-> post.draft])
  BY HostStoresStep DEF Flowing
<1>2. /\ post.key = page.pending /\ post.draft = page.draft /\ page.sending
      /\ post.key # 0 /\ post.draft # None
  BY <1>1 DEF Posting, SendInv
<1>3. SendInv'
  BY <1>1, <1>2 DEF SendInv
<1>4. CASE log' = log
  BY <1>1, <1>3, <1>4 DEF Posting, LogInv
<1>5. CASE /\ \A i \in 1 .. Len(log) : log[i].key # post.key
           /\ log' = Append(log, [key |-> post.key, draft |-> post.draft])
  <2> DEFINE line == [key |-> post.key, draft |-> post.draft]
  <2>1. log \in Seq(LogLines) /\ line \in LogLines
    BY DEF Flowing, Typed, Posts, LogLines
  <2>2. line.key = post.key /\ line.draft = post.draft
    OBVIOUS
  <2>3. log' = Append(log, line)
    BY <1>5
  <2> HIDE DEF line
  <2>4. /\ Len(log) \in Nat /\ Len(log') = Len(log) + 1 /\ log'[Len(log) + 1] = line
        /\ \A i \in 1 .. Len(log) : log'[i] = log[i]
    BY <2>1, <2>3, AppendedLine, LenProperties
  <2>5. \A i \in 1 .. Len(log) : log[i].draft # post.draft
    BY <1>2, <1>5 DEF Posting, LogInv
  <2>6. \A i \in 1 .. Len(log') : i \in 1 .. Len(log) \/ i = Len(log) + 1
    BY <2>4
  <2>7. page.draft \in used
    BY <1>2 DEF Posting, LogInv
  <2>8. \A i \in 1 .. Len(log') : log'[i].draft # None => log'[i].key # 0 /\ log'[i].draft \in used'
    BY <1>1, <1>2, <2>2, <2>4, <2>6, <2>7 DEF Posting, LogInv
  <2>9. \A i, j \in 1 .. Len(log') : log'[i].key = log'[j].key /\ log'[i].key # 0 => i = j
    BY <1>5, <2>2, <2>4, <2>6 DEF Posting, LogInv
  <2>10. \A i, j \in 1 .. Len(log') :
           log'[i].draft = log'[j].draft /\ log'[i].draft # None => log'[i].key = log'[j].key
    BY <2>2, <2>4, <2>5, <2>6 DEF Posting, LogInv
  <2>11. /\ page'.draft \in used'
         /\ \A i \in 1 .. Len(log') : log'[i].draft = page'.draft => log'[i].key = page'.pending
    BY <1>1, <1>2, <2>2, <2>4, <2>5, <2>6, <2>7
  <2>12. LogInv'
    BY <2>8, <2>9, <2>10, <2>11 DEF LogInv
  <2> QED BY <1>3, <2>12 DEF Posting
<1> QED BY <1>1, <1>4, <1>5

LEMMA OtherPostsPosts == Flowing /\ Posting /\ (OtherPosts \/ HostCloses) => Posting'
<1> SUFFICES ASSUME Flowing, Posting, OtherPosts \/ HostCloses PROVE Posting'
  OBVIOUS
<1>1. /\ UNCHANGED <<page, post, used>>
      /\ \/ log' = log
         \/ log' = Append(log, [key |-> 0, draft |-> None])
  BY DEF OtherPosts, HostCloses, calls, counts
<1>2. CASE log' = log
  BY <1>1, <1>2 DEF Posting, SendInv, LogInv
<1>3. CASE log' = Append(log, [key |-> 0, draft |-> None])
  <2> DEFINE line == [key |-> 0, draft |-> None]
  <2>1. log \in Seq(LogLines) /\ line \in LogLines
    BY PageBounds DEF Flowing, Typed, LogLines
  <2>2. line.key = 0 /\ line.draft = None
    OBVIOUS
  <2>3. log' = Append(log, line)
    BY <1>3
  <2> HIDE DEF line
  <2>4. /\ Len(log) \in Nat /\ Len(log') = Len(log) + 1 /\ log'[Len(log) + 1] = line
        /\ \A i \in 1 .. Len(log) : log'[i] = log[i]
    BY <2>1, <2>3, AppendedLine, LenProperties
  <2>5. \A i \in 1 .. Len(log') : i \in 1 .. Len(log) \/ i = Len(log) + 1
    BY <2>4
  <2>6. LogInv'
    BY <1>1, <2>2, <2>4, <2>5 DEF Posting, LogInv
  <2> QED BY <1>1, <2>6 DEF Posting, SendInv
<1> QED BY <1>1, <1>2, <1>3

LEMMA AnswerPosts == Flowing /\ Posting /\ (PostArrives \/ PostFails) => Posting'
<1> SUFFICES ASSUME Flowing, Posting, PostArrives \/ PostFails PROVE Posting'
  OBVIOUS
<1>1. CASE PostArrives
  <2>1. post' = NoPost /\ page'.draft = None /\ UNCHANGED <<log, used>>
    BY <1>1, PostArrivesStep DEF Flowing
  <2> QED BY <2>1, NoPostTyped DEF Posting, SendInv, LogInv
<1>2. CASE PostFails
  <2>1. /\ post' = NoPost /\ page'.draft = page.draft /\ page'.pending = page.pending
        /\ UNCHANGED <<log, used>>
    BY <1>2, PostFailsStep DEF Flowing
  <2> QED BY <2>1, NoPostTyped DEF Posting, SendInv, LogInv
<1> QED BY <1>1, <1>2

LEMMA InitPosts == Init => Posting
<1> SUFFICES ASSUME Init PROVE Posting
  OBVIOUS
<1>1. log = <<>> /\ page = Fresh /\ post = NoPost
  BY DEF Init
<1>2. 1 .. Len(log) = {}
  BY <1>1
<1> QED BY <1>1, <1>2, FreshPage, NoPostTyped DEF Posting, SendInv, LogInv

LEMMA NextPosts == Flowing /\ Posting /\ [Next]_vars => Posting'
<1> SUFFICES ASSUME Flowing, Posting, [Next]_vars PROVE Posting'
  OBVIOUS
<1>1. CASE Entering
  BY <1>1, EntryLeavesPage, SeedLeavesDraft, QuietPosts, LoadPosts DEF Entering, Untouched
<1>2. CASE Polling
  BY <1>2, PollLeavesDraft, QuietPosts
<1>3. CASE Reading \/ Lifecycle
  <2>1. SameDraft(page, page') /\ UNCHANGED <<log, post, used>>
    BY <1>3, ReadLeavesPage, ExtensionStep DEF Reading, Untouched
  <2> QED BY <2>1, QuietPosts
<1>4. CASE Sending
  BY <1>4, ComposePosts, SubmitPosts, HostStoresPosts, AnswerPosts DEF Sending
<1>5. CASE OtherPosts \/ HostCloses
  BY <1>5, OtherPostsPosts
<1>6. CASE UNCHANGED vars
  BY <1>6 DEF Posting, SendInv, LogInv, vars, host, calls, counts
<1> QED BY <1>1, <1>2, <1>3, <1>4, <1>5, <1>6 DEF Next

\* What the user sends once stands once in the log, however often the request is repeated
\* after a lost answer, in whatever order (ensurePendingSend, room.js:2141-2151).
THEOREM SentMessagesOnce == Spec => []SentOnce
<1>1. Posting /\ Typed => SentOnce
  <2> SUFFICES ASSUME Posting, Typed, NEW d \in Drafts
               PROVE  Cardinality({i \in 1 .. Len(log) : log[i].draft = d}) <= 1
    BY DEF SentOnce
  <2> DEFINE S == {i \in 1 .. Len(log) : log[i].draft = d}
  <2>1. d # None
    BY PageAssumption
  <2>2. \A i, j \in S : i = j
    BY <2>1 DEF Posting, LogInv
  <2>3. S = {} \/ \E i \in S : S = {i}
    BY <2>2
  <2> HIDE DEF S
  <2>4. Cardinality(S) = 0 \/ Cardinality(S) = 1
    BY <2>3, FS_EmptySet, FS_Singleton
  <2>5. Cardinality(S) <= 1
    BY <2>4
  <2> QED BY <2>5 DEF S
<1>2. Flowing => Typed
  BY DEF Flowing
<1>3. Posting /\ Flowing => SentOnce
  BY <1>1, <1>2
<1> QED BY <1>3, RoomPageFlows, InitPosts, NextPosts, PTL DEF Spec

-------------------------------------------------------------------------------
\* The room page: the restored copy, the cursor and the lines that are not shown

SameView(p, q) ==
  /\ Shown(q) = Shown(p) /\ q.cursor = p.cursor /\ q.newest = p.newest
  /\ q.unverified = p.unverified /\ q.oldest = p.oldest
  /\ q.more = p.more /\ q.control = p.control /\ q.loaded = p.loaded

Ahead == page.cursor > Len(log)
Unchecked == page.unverified \/ poll.at = "verify"

\* Before its first poll the page has no lines; a page that was answered has checked its
\* copy, or is about to.
RestoreInv ==
  /\ poll.at \in {"verify", "confirm"} => page.loaded
  /\ page.loaded => ~page.unverified
  /\ ~page.armed => post.answer = "none"
  /\ ~page.armed /\ entry # "poll" =>
       page.cursor = 0 /\ ~page.loaded /\ ~page.unverified /\ ~page.control /\ back = 0

\* A cursor ahead of the room comes from a copy that is not checked yet, and the poll
\* that is under way, or the next one, will be empty.
CopyInv ==
  /\ Ahead /\ ~unproven => Unchecked
  /\ Ahead /\ Unchecked => page.cursor <= page.newest
  /\ page.unverified => page.cursor > 0 /\ page.newest > 0
  /\ page.unverified /\ poll.at = "list" => ~poll.cold /\ (Ahead => poll.since = page.cursor)
  /\ poll.at = "list" => poll.since <= page.cursor

\* Where the backward read stands
ControlInv ==
  /\ page.control \/ back > 0 => page.loaded \/ page.cursor > 0
  /\ poll.at = "list" /\ poll.cold => ~page.control /\ back = 0
  /\ back # 1
  /\ back > 0 /\ page.control => back = page.oldest
  /\ page.control => page.oldest <= page.cursor

\* A line that the cursor passed is shown, or skipped, or before the control.
GapInv ==
  ~unproven =>
    \A i \in 1 .. page.cursor :
      i \in Shown(page) \/ i \in skipped \/ (page.control /\ page.more /\ i < page.oldest)

Reached == RestoreInv /\ CopyInv /\ ControlInv /\ GapInv

LEMMA PageNumbers ==
  ASSUME Typed
  PROVE  /\ page.cursor \in Nat /\ page.newest \in Nat /\ page.oldest \in Nat
         /\ Len(log) \in Nat /\ back \in Nat /\ poll.since \in Nat /\ poll.upto \in Int
         /\ page.loaded \in BOOLEAN /\ page.unverified \in BOOLEAN /\ page.control \in BOOLEAN
         /\ page.more \in BOOLEAN /\ page.armed \in BOOLEAN /\ poll.cold \in BOOLEAN
         /\ unproven \in BOOLEAN
BY PageBounds DEF Typed, Pages, Polls, Unserved

\* A step that leaves the timeline as it is and starts no request for lines
LEMMA ViewStep ==
  ASSUME Flowing, Reached, SameView(page, page'), Len(log') \in Nat, Len(log) <= Len(log'),
         \/ poll'.at = poll.at /\ poll'.since = poll.since /\ poll'.cold = poll.cold
         \/ poll'.at = "idle"
         \/ poll'.at = "confirm" /\ page.loaded,
         poll.at = "verify" /\ poll'.at # "verify" => unproven' \/ page.newest <= Len(log),
         back' \in {back, 0}, skipped' = skipped, unproven' \in {unproven, TRUE},
         ~page'.armed /\ entry' # "poll" => ~page.armed /\ entry # "poll",
         ~page'.armed => post'.answer = "none"
  PROVE  Reached'
<1>1. Typed
  BY DEF Flowing
<1>2. RestoreInv'
  BY <1>1, PageNumbers DEF Reached, RestoreInv, SameView
<1>3. /\ page'.cursor = page.cursor /\ page'.newest = page.newest
      /\ page'.unverified = page.unverified /\ page'.loaded = page.loaded
      /\ page.cursor \in Nat /\ page.newest \in Nat /\ Len(log) \in Nat
  BY <1>1, PageNumbers DEF SameView
<1>4. (Ahead)' => Ahead
  BY <1>3 DEF Ahead
<1>5. Ahead /\ poll.at = "verify" /\ poll'.at # "verify" => unproven'
  BY <1>3 DEF Ahead, Unchecked, Reached, CopyInv
<1>6. poll'.at = "verify" => poll.at = "verify"
  OBVIOUS
<1>7. poll'.at = "list" => poll.at = "list" /\ poll'.since = poll.since /\ poll'.cold = poll.cold
  OBVIOUS
<1>8. CopyInv'
  <2>1. (Ahead)' /\ ~unproven' => (Unchecked)'
    BY <1>3, <1>4, <1>5 DEF Reached, CopyInv, Unchecked
  <2>2. (Ahead)' /\ (Unchecked)' => page'.cursor <= page'.newest
    BY <1>3, <1>4, <1>6 DEF Reached, CopyInv, Unchecked
  <2>3. page'.unverified => page'.cursor > 0 /\ page'.newest > 0
    BY <1>3 DEF Reached, CopyInv
  <2>4. /\ page'.unverified /\ poll'.at = "list" =>
             ~poll'.cold /\ ((Ahead)' => poll'.since = page'.cursor)
        /\ poll'.at = "list" => poll'.since <= page'.cursor
    BY <1>3, <1>4, <1>7 DEF Reached, CopyInv
  <2> QED BY <2>1, <2>2, <2>3, <2>4 DEF CopyInv
<1>9. ControlInv'
  BY <1>1, <1>7, PageNumbers DEF Reached, ControlInv, SameView
<1>10. GapInv'
  BY DEF Reached, GapInv, SameView
<1> QED BY <1>2, <1>8, <1>9, <1>10 DEF Reached

LEMMA UntouchedView == \A p, q : SameLines(p, q) => SameView(p, q)
BY DEF SameLines, SameView, Shown

LEMMA EntryReaches ==
  ASSUME Flowing, Reached, Start \/ ProfileArrives \/ SubmitProfile \/ ClaimArrives \/ BriefFails
  PROVE  Reached'
<1>1. /\ SameLines(page, page') /\ page'.armed = page.armed /\ entry # "poll"
      /\ UNCHANGED <<log, poll, back, post, skipped, unproven>>
  BY EntryLeavesPage DEF Untouched
<1>2. SameView(page, page') /\ Len(log) \in Nat
  BY <1>1, UntouchedView, PageNumbers DEF Flowing
<1>3. ~page.armed => post.answer = "none"
  BY DEF Reached, RestoreInv
<1> QED BY <1>1, <1>2, <1>3, ViewStep

LEMMA SeedReaches == Flowing /\ Reached /\ Seed => Reached'
<1> DEFINE heldIds == {i \in Ids : backup[i] # "none"}
           seeded == IF heldIds = {} THEN page ELSE Restored(page, heldIds)
<1> SUFFICES ASSUME Flowing, Reached, Seed PROVE Reached'
  OBVIOUS
<1>1. /\ entry = "status" /\ page' = seeded /\ poll' = Ask(seeded) /\ entry' = "poll"
      /\ skipped' = IF heldIds = {} THEN skipped
                    ELSE skipped \cup ((Min(heldIds) .. Max(heldIds)) \ heldIds)
      /\ UNCHANGED <<log, back, post, unproven>>
  BY DEF Seed, Restored, host
<1>2. heldIds \in SUBSET Ids /\ page \in Pages
  BY DEF Flowing, Typed
<1> HIDE DEF heldIds
<1>3. /\ page.armed = FALSE /\ page.cursor = 0 /\ page.loaded = FALSE /\ page.unverified = FALSE
      /\ page.control = FALSE /\ back = 0 /\ post.answer = "none"
  BY <1>1, PageNumbers DEF Flowing, FlowInv, Reached, RestoreInv
<1>4. CASE heldIds = {}
  <2>1. page' = page /\ poll' = Ask(page)
    BY <1>1, <1>4
  <2>2. poll'.at = "list" /\ poll'.since = 0
    BY <1>2, <1>3, <2>1, AskedPoll
  <2>3. Len(log) \in Nat
    BY PageNumbers DEF Flowing
  <2>4. RestoreInv'
    BY <1>1, <1>3, <2>1, <2>2 DEF RestoreInv
  <2>5. CopyInv'
    BY <1>1, <1>3, <2>1, <2>2, <2>3 DEF CopyInv, Ahead, Unchecked
  <2>6. ControlInv'
    BY <1>1, <1>3, <2>1, <2>2 DEF ControlInv
  <2>7. GapInv'
    BY <1>3, <2>1 DEF GapInv
  <2> QED BY <2>4, <2>5, <2>6, <2>7 DEF Reached
<1>5. CASE heldIds # {}
  <2> DEFINE low == Min(heldIds)  high == Max(heldIds)
  <2>1. page' = Restored(page, heldIds) /\ poll' = Ask(Restored(page, heldIds))
    BY <1>1, <1>5
  <2>2. /\ page' \in Pages /\ SamePhase(page, page') /\ page'.cursor = high
        /\ page'.newest = high /\ page'.oldest = low
        /\ page'.more = (low > 1) /\ page'.control = (low > 1)
        /\ page'.unverified = TRUE /\ page'.loaded = FALSE /\ Shown(page') = heldIds
    BY <1>2, <1>3, <1>5, <2>1, RestoredPage
  <2>3. /\ low \in heldIds /\ \A i \in heldIds : low <= i
        /\ high \in heldIds /\ \A i \in heldIds : i <= high
        /\ low \in Ids /\ high \in Ids
    BY <1>2, <1>5, LineBounds
  <2>4. skipped' = skipped \cup ((low .. high) \ heldIds)
    BY <1>1, <1>5
  <2> HIDE DEF low, high
  <2>5. low \in Nat /\ high \in Nat /\ low >= 1 /\ low <= high
    BY <2>3, PageBounds DEF Ids
  <2>6. poll'.at = "list" /\ poll'.since = high /\ poll'.cold = FALSE
    <3>1. /\ poll'.at = "list" /\ poll'.since = page'.cursor
          /\ poll'.cold \in BOOLEAN
          /\ (poll'.cold <=> ~page'.loaded /\ page'.cursor = 0 /\ page'.rows = <<>>)
      BY <2>1, <2>2, AskedPoll
    <3> QED BY <2>2, <2>5, <3>1
  <2>7. RestoreInv'
    BY <1>1, <1>3, <2>2, <2>6 DEF RestoreInv
  <2>8. CopyInv'
    BY <1>1, <2>2, <2>5, <2>6 DEF CopyInv, Ahead, Unchecked
  <2>9. ControlInv'
    BY <1>1, <1>3, <2>2, <2>5, <2>6 DEF ControlInv
  <2>10. \A i \in 1 .. high : i \in heldIds \/ i \in skipped' \/ i < low
    BY <2>4, <2>5
  <2>11. \A i \in 1 .. high : i < low => page'.control /\ page'.more
    <3>1. page'.more \in BOOLEAN /\ page'.control \in BOOLEAN
      BY <2>2 DEF Pages
    <3>2. low > 1 => page'.more = TRUE /\ page'.control = TRUE
      BY <2>2, <3>1
    <3> QED BY <2>5, <3>2
  <2>12. GapInv'
    BY <2>2, <2>10, <2>11 DEF GapInv
  <2> QED BY <2>7, <2>8, <2>9, <2>12 DEF Reached
<1> QED BY <1>4, <1>5

LEMMA LoadReaches == Flowing /\ Reached /\ Load => Reached'
<1> SUFFICES ASSUME Flowing, Reached, Load PROVE Reached'
  OBVIOUS
<1>1. /\ page' = Fresh /\ entry' = "none" /\ poll' = Idle /\ back' = 0 /\ post' = NoPost
      /\ log' = log
  BY DEF Load, host
<1>2. Len(log) \in Nat
  BY PageNumbers DEF Flowing
<1>3. RestoreInv'
  BY <1>1, FreshPage, IdlePoll, NoPostTyped DEF RestoreInv
<1>4. CopyInv'
  BY <1>1, <1>2, FreshPage, IdlePoll DEF CopyInv, Ahead, Unchecked
<1>5. ControlInv'
  BY <1>1, FreshPage, IdlePoll DEF ControlInv
<1>6. GapInv'
  BY <1>1, FreshPage DEF GapInv
<1> QED BY <1>3, <1>4, <1>5, <1>6 DEF Reached

LEMMA PollTickReaches == Flowing /\ Reached /\ (PollTick \/ HostServes) => Reached'
<1> SUFFICES ASSUME Flowing, Reached, PollTick \/ HostServes PROVE Reached'
  OBVIOUS
<1>1. UNCHANGED <<log, page, entry, back, post, skipped, unproven>>
  BY DEF PollTick, HostServes, host, history
<1>2. page \in Pages /\ poll \in Polls /\ Typed
  BY DEF Flowing, Typed
<1>3. CASE PollTick
  <2>1. poll' = Ask(page) /\ page.timers > 0
    BY <1>3 DEF PollTick
  <2>2. /\ poll'.at = "list" /\ poll'.since = page.cursor
        /\ poll'.cold \in BOOLEAN
        /\ (poll'.cold <=> ~page.loaded /\ page.cursor = 0 /\ page.rows = <<>>)
    BY <1>2, <2>1, AskedPoll
  <2>3. page.armed
    BY <2>1 DEF Flowing, FlowInv
  <2>4. RestoreInv'
    BY <1>1, <2>2, <2>3 DEF Reached, RestoreInv
  <2>5. poll.at # "verify"
    BY <1>3 DEF PollTick
  <2>6. CopyInv'
    BY <1>1, <1>2, <2>2, <2>5, PageNumbers DEF Reached, CopyInv, Ahead, Unchecked
  <2>7. ControlInv'
    BY <1>1, <1>2, <2>2, PageNumbers DEF Reached, ControlInv
  <2>8. GapInv'
    BY <1>1 DEF Reached, GapInv
  <2> QED BY <2>4, <2>6, <2>7, <2>8 DEF Reached
<1>4. CASE HostServes
  <2>1. poll' = [poll EXCEPT !.upto = Len(log)]
    BY <1>4 DEF HostServes
  <2>2. poll'.at = poll.at /\ poll'.since = poll.since /\ poll'.cold = poll.cold
    BY <1>2, <2>1 DEF Polls
  <2>3. SameView(page, page') /\ Len(log) \in Nat
    BY <1>1, <1>2, PageNumbers DEF SameView, Shown
  <2>4. ~page.armed => post.answer = "none"
    BY DEF Reached, RestoreInv
  <2> QED BY <1>1, <2>2, <2>3, <2>4, ViewStep
<1> QED BY <1>3, <1>4

LEMMA PollArrivesReaches == Flowing /\ Reached /\ PollArrives => Reached'
<1> SUFFICES ASSUME Flowing, Reached, PollArrives PROVE Reached'
  OBVIOUS
<1>1. /\ poll.at = "list" /\ poll.upto # Unserved /\ CheckSeed(Brought, Batch = {})
      /\ UNCHANGED <<log, back, post, skipped, unproven>>
  BY DEF PollArrives, Brought, Kept, host, history
<1>2. page \in Pages /\ poll \in Polls /\ ShutWhileSending(page)
  BY DEF Flowing, Typed, FlowInv
<1>3. /\ Brought \in Pages /\ SamePhase(page, Brought) /\ Brought.newest = Kept.newest
      /\ Brought.unverified = page.unverified /\ Brought.loaded = TRUE
      /\ Shown(Brought) = Shown(page) \cup Batch
  BY <1>1, <1>2, BroughtPage
<1>4. /\ page' \in Pages /\ SameLines([Brought EXCEPT !.unverified = FALSE], page')
      /\ poll'.at \in {"idle", "verify", "confirm"}
      /\ (poll'.at = "verify" => page.unverified /\ Batch = {})
      /\ (page.unverified /\ Batch = {} /\ Brought.newest > 0 => poll'.at = "verify")
      /\ Flow(Brought)
  <2>1. (Batch = {}) \in BOOLEAN
    OBVIOUS
  <2>2. entry = "poll" => Brought.timers = 0
    BY <1>3 DEF SamePhase, Flowing, FlowInv
  <2> QED BY <1>1, <1>3, <2>1, <2>2, CheckSeedPage
<1>5. /\ page'.rows = Brought.rows /\ page'.cursor = Brought.cursor
      /\ page'.newest = Brought.newest /\ page'.unverified = FALSE
      /\ page'.oldest = Brought.oldest /\ page'.more = Brought.more
      /\ page'.control = Brought.control /\ page'.loaded = TRUE
  BY <1>3, <1>4 DEF SameLines, Pages
<1>6. Shown(page') = Shown(page) \cup Batch
  BY <1>3, <1>5 DEF Shown
<1>7. page'.armed <=> page.armed \/ (entry = "poll" /\ poll'.at = "idle")
  BY <1>3, <1>4, IdlePoll DEF Flow, SamePhase, Pages, Flowing, FlowInv
<1>8. /\ page.cursor \in Nat /\ page.newest \in Nat /\ page.oldest \in Nat /\ Len(log) \in Nat
      /\ poll.upto \in Nat /\ poll.since \in Nat /\ poll.upto <= Len(log)
      /\ page'.cursor \in Nat /\ page'.oldest \in Nat
      /\ page'.control \in BOOLEAN /\ page'.more \in BOOLEAN
  BY <1>1, <1>2, <1>4, BatchLines, PageNumbers, PageBounds DEF Pages, Flowing, FlowInv
<1>9. /\ Batch \in SUBSET Ids /\ \A i \in Batch : i \in 1 .. poll.upto
      /\ \A i \in 1 .. poll.upto : ~poll.cold /\ i > poll.since => i \in Batch
  BY <1>1, <1>2, BatchLines
<1>10. poll.since <= page.cursor
  BY <1>1 DEF Reached, CopyInv
<1>11. poll.cold => page.control = FALSE /\ back = 0 /\ page.unverified = FALSE
  BY <1>1, PageNumbers DEF Reached, ControlInv, CopyInv, Flowing
<1>12. RestoreInv'
  <2>1. page.armed \/ entry = "poll"
    BY <1>1 DEF Flowing, FlowInv
  <2>2. page'.armed \/ entry' = "poll"
    BY <1>3, <1>4, <2>1, IdlePoll DEF Flow, SamePhase
  <2>3. ~page'.armed => post'.answer = "none"
    BY <1>1, <1>7 DEF Reached, RestoreInv
  <2> QED BY <1>5, <2>2, <2>3 DEF RestoreInv
\* A poll that is not cold moves the cursor to the end of what it was served.
<1>13. CASE ~poll.cold
  <2> DEFINE last == Max(Batch \cup {poll.since})
  <2>1. /\ page'.oldest = page.oldest /\ page'.more = page.more /\ page'.control = page.control
        /\ page'.cursor = IF last > page.cursor THEN last ELSE page.cursor
    BY <1>1, <1>2, <1>5, <1>13, BroughtPage
  <2>2. last \in Batch \cup {poll.since}
    BY <1>2, <1>9, LineOrMore DEF Polls
  <2> HIDE DEF last
  <2>3. /\ page.cursor <= page'.cursor
        /\ \/ page'.cursor = page.cursor
           \/ page'.cursor > page.cursor /\ page'.cursor \in Batch
    BY <1>8, <1>10, <2>1, <2>2
  <2>4. \A i \in 1 .. page'.cursor : i \in 1 .. page.cursor \/ i \in Batch
    BY <1>8, <1>9, <1>10, <1>13, <2>3
  <2>5. (Ahead)' => Ahead /\ page'.cursor = page.cursor
    BY <1>1, <1>8, <1>9, <2>3 DEF Ahead
  <2>6. Ahead /\ page.unverified => Batch = {} /\ page.newest > 0
    <3> SUFFICES ASSUME Ahead, page.unverified PROVE Batch = {} /\ page.newest > 0
      OBVIOUS
    <3>1. poll.since = page.cursor /\ page.newest > 0
      BY <1>1 DEF Reached, CopyInv
    <3>2. \A i \in Batch : i > poll.since
      BY <1>13 DEF Batch
    <3> QED BY <1>8, <1>9, <3>1, <3>2 DEF Ahead
  <2>7. Batch = {} => Brought.newest = page.newest
    BY <1>1, <1>2, <1>3, KeptPage
  <2>8. CopyInv'
    <3>1. (Ahead)' /\ ~unproven' => (Unchecked)'
      BY <1>1, <1>4, <2>5, <2>6, <2>7 DEF Reached, CopyInv, Unchecked
    <3>2. (Ahead)' /\ (Unchecked)' => page'.cursor <= page'.newest
      BY <1>4, <1>5, <1>8, <2>5, <2>7 DEF Reached, CopyInv, Unchecked
    <3> QED BY <1>4, <1>5, <3>1, <3>2 DEF CopyInv
  <2>9. ControlInv'
    BY <1>1, <1>4, <1>5, <1>8, <2>1, <2>3 DEF Reached, ControlInv
  <2>10. GapInv'
    BY <1>1, <1>6, <2>1, <2>4 DEF Reached, GapInv
  <2> QED BY <1>12, <2>8, <2>9, <2>10 DEF Reached
<1>14. CASE poll.cold
  <2>1. (Ahead)' => Ahead /\ page'.cursor = page.cursor
    <3>1. CASE Batch = {}
      BY <1>1, <1>2, <1>5, <1>14, <3>1, BroughtPage DEF Ahead
    <3>2. CASE Batch # {}
      <4> DEFINE high == Max(Batch)
      <4>1. page'.cursor = IF high > page.cursor THEN high ELSE page.cursor
        BY <1>1, <1>2, <1>5, <1>14, <3>2, BroughtPage
      <4>2. high \in Nat /\ high <= Len(log)
        BY <1>1, <1>2, <1>8, <1>14, <3>2, ColdBatch
      <4> HIDE DEF high
      <4> QED BY <1>1, <1>8, <4>1, <4>2 DEF Ahead
    <3> QED BY <3>1, <3>2
  <2>2. Ahead => unproven
    BY <1>1, <1>11, <1>14 DEF Reached, CopyInv, Unchecked
  <2>3. poll'.at # "verify"
    BY <1>4, <1>11, <1>14
  <2>4. CopyInv'
    BY <1>1, <1>4, <1>5, <2>1, <2>2, <2>3 DEF CopyInv, Unchecked
  <2>5. CASE Batch = {}
    <3>1. page'.cursor = page.cursor /\ page'.control = FALSE
      BY <1>1, <1>2, <1>5, <1>11, <1>14, <2>5, BroughtPage
    <3>2. ControlInv'
      BY <1>1, <1>4, <1>5, <1>11, <1>14, <3>1 DEF ControlInv
    <3>3. GapInv'
      BY <1>1, <1>6, <1>11, <1>14, <3>1 DEF Reached, GapInv
    <3> QED BY <1>12, <2>4, <3>2, <3>3 DEF Reached
  <2>6. CASE Batch # {}
    <3> DEFINE low == Min(Batch)  high == Max(Batch)
    <3>1. /\ page'.cursor = IF high > page.cursor THEN high ELSE page.cursor
          /\ page'.oldest = low /\ page'.more = (low > 1) /\ page'.control = (low > 1)
      BY <1>1, <1>2, <1>5, <1>14, <2>6, BroughtPage
    <3>2. /\ high = poll.upto /\ low \in 1 .. poll.upto
          /\ \A i \in 1 .. poll.upto : i >= low => i \in Batch
      BY <1>1, <1>2, <1>9, <1>14, <2>6, ColdBatch, LineBounds
    <3> HIDE DEF low, high
    <3>3. low \in Nat /\ high \in Nat /\ low >= 1 /\ low <= high
      BY <1>8, <3>2
    <3>4. ControlInv'
      BY <1>1, <1>4, <1>5, <1>8, <1>11, <1>14, <3>1, <3>3 DEF ControlInv
    <3>5. low > 1 => page'.more /\ page'.control
      <4>1. low > 1 => page'.more = TRUE /\ page'.control = TRUE
        BY <1>8, <3>1
      <4> QED BY <4>1
    <3>6. \A i \in 1 .. page'.cursor : \/ i \in 1 .. page.cursor
                                       \/ i \in Batch
                                       \/ i < low /\ low > 1
      BY <1>8, <3>1, <3>2, <3>3
    <3>7. GapInv'
      BY <1>1, <1>6, <1>11, <1>14, <3>1, <3>5, <3>6 DEF Reached, GapInv
    <3> QED BY <1>12, <2>4, <3>4, <3>7 DEF Reached
  <2> QED BY <2>5, <2>6
<1> QED BY <1>13, <1>14

\* The end of a poll that was not asked for lines, or that failed
LEMMA PollEndsReaches ==
  ASSUME Flowing, Reached, poll.at # "idle",
         NEW p \in Pages, SameView(page, p), SamePhase(page, p), SameLines(p, page'),
         poll'.at = "idle" \/ (poll'.at = "confirm" /\ poll.at # "list"), Flow(p),
         poll.at = "verify" => unproven' \/ page.newest <= Len(log),
         unproven' \in {unproven, TRUE}, UNCHANGED <<log, back, post, skipped>>
  PROVE  Reached'
<1>1. SameView(page, page') /\ Len(log) \in Nat
  BY UntouchedView, PageNumbers DEF SameView, Flowing
<1>2. page.armed \/ entry = "poll"
  BY DEF Flowing, FlowInv
<1>3. page'.armed \/ (entry' = "poll" /\ (page'.armed <=> page.armed))
  BY <1>2, IdlePoll DEF Flow, SamePhase
<1>4. ~page'.armed => post'.answer = "none"
  BY <1>2, <1>3, IdlePoll DEF Reached, RestoreInv
<1>5. poll'.at = "confirm" => page.loaded
  <2>1. poll.at \in {"idle", "list", "verify", "confirm"}
    BY DEF Flowing, Typed, Polls, Stages
  <2>2. poll'.at = "confirm" => poll.at \in {"verify", "confirm"}
    BY <2>1
  <2>3. poll.at \in {"verify", "confirm"} => page.loaded
    BY DEF Reached, RestoreInv
  <2> QED BY <2>2, <2>3
<1>6. poll'.at = "idle" \/ (poll'.at = "confirm" /\ page.loaded)
  BY <1>5
<1>7. ~page'.armed /\ entry' # "poll" => ~page.armed /\ entry # "poll"
  BY <1>3
<1>8. /\ Len(log') \in Nat /\ Len(log) <= Len(log') /\ back' \in {back, 0} /\ skipped' = skipped
  BY <1>1
<1> QED BY <1>1, <1>4, <1>6, <1>7, <1>8, ViewStep

LEMMA ConfirmReaches ==
  ASSUME Flowing, Reached, Confirm(page), poll.at = "verify",
         unproven' \/ page.newest <= Len(log), unproven' \in {unproven, TRUE},
         UNCHANGED <<log, back, post, skipped>>
  PROVE  Reached'
<1>1. /\ page \in Pages /\ SameView(page, page) /\ SamePhase(page, page)
      /\ (entry = "poll" => page.timers = 0)
  BY DEF Flowing, Typed, FlowInv, SameView, SamePhase
<1>2. /\ SameLines(page, page') /\ poll'.at \in {"idle", "confirm"} /\ Flow(page)
  BY <1>1, ConfirmPage
<1> QED BY <1>1, <1>2, PollEndsReaches

LEMMA EndPollReaches ==
  ASSUME Flowing, Reached, poll.at \notin {"idle", "verify"},
         NEW p \in Pages, SameView(page, p), SamePhase(page, p), EndPoll(p),
         UNCHANGED <<log, back, post, skipped, unproven>>
  PROVE  Reached'
<1>1. entry = "poll" => p.timers = 0
  BY DEF Flowing, FlowInv, SamePhase
<1>2. SameLines(p, page') /\ poll'.at = "idle" /\ Flow(p)
  BY <1>1, EndPollPage, IdlePoll
<1> QED BY <1>2, PollEndsReaches

LEMMA PollFailsReaches == Flowing /\ Reached /\ PollFails => Reached'
<1> SUFFICES ASSUME Flowing, Reached, PollFails PROVE Reached'
  OBVIOUS
<1>1. PICK e \in Errors : EndPoll(Failed(page, e))
  BY DEF PollFails
<1>2. poll.at = "list" /\ UNCHANGED <<log, back, post, skipped, unproven>>
  BY DEF PollFails, host, history
<1> DEFINE p == Failed(page, e)
<1>3. p \in Pages /\ SameLines(page, p) /\ SamePhase(page, p) /\ EndPoll(p)
  BY <1>1, FailedPage DEF Flowing, Typed
<1> HIDE DEF p
<1>4. SameView(page, p)
  BY <1>3, UntouchedView
<1> QED BY <1>2, <1>3, <1>4, EndPollReaches

LEMMA VerifyReaches == Flowing /\ Reached /\ (VerifyArrives \/ VerifyFails) => Reached'
<1> SUFFICES ASSUME Flowing, Reached, VerifyArrives \/ VerifyFails PROVE Reached'
  OBVIOUS
<1>1. /\ poll.at = "verify" /\ UNCHANGED <<log, back, post, skipped>>
  BY DEF VerifyArrives, VerifyFails, host
<1>2. /\ page \in Pages /\ poll.upto \in Int /\ poll.upto <= Len(log) /\ Len(log) \in Nat
      /\ page.newest \in Nat /\ unproven \in BOOLEAN
  BY PageNumbers DEF Flowing, Typed, FlowInv
<1>3. CASE VerifyFails
  <2>1. Confirm(page) /\ unproven' = TRUE
    BY <1>3 DEF VerifyFails
  <2> QED BY <1>1, <2>1, ConfirmReaches
<1>4. CASE VerifyArrives /\ page.newest <= poll.upto
  <2>1. Confirm(page) /\ unproven' = unproven /\ page.newest <= Len(log)
    BY <1>2, <1>4 DEF VerifyArrives
  <2> QED BY <1>1, <2>1, ConfirmReaches
<1>5. CASE VerifyArrives /\ ~(page.newest <= poll.upto)
  <2> DEFINE p == Discarded(page)
  <2>1. page' = p /\ poll' = Ask(p) /\ entry' = entry
    BY <1>5 DEF VerifyArrives
  <2>2. /\ p \in Pages /\ SamePhase(page, p) /\ p.rows = <<>> /\ p.cursor = 0
        /\ p.newest = 0 /\ p.control = FALSE /\ p.more = FALSE
        /\ p.loaded = page.loaded /\ p.unverified = page.unverified
    BY <1>2, DiscardedPage
  <2> HIDE DEF p
  <2>3. page.loaded /\ ~page.unverified
    BY <1>1 DEF Reached, RestoreInv
  <2>4. poll'.at = "list" /\ poll'.since = 0 /\ ~poll'.cold
    BY <2>1, <2>2, <2>3, AskedPoll
  <2>5. page.armed \/ entry = "poll"
    BY <1>1 DEF Flowing, FlowInv
  <2>6. RestoreInv'
    BY <1>1, <2>1, <2>2, <2>3, <2>4, <2>5 DEF Reached, RestoreInv, SamePhase
  <2>7. CopyInv'
    BY <1>1, <1>2, <2>1, <2>2, <2>3, <2>4 DEF CopyInv, Ahead, Unchecked
  <2>8. ControlInv'
    BY <1>1, <2>1, <2>2, <2>3, <2>4 DEF Reached, ControlInv
  <2>9. GapInv'
    BY <2>1, <2>2 DEF GapInv
  <2> QED BY <2>6, <2>7, <2>8, <2>9 DEF Reached
<1> QED BY <1>3, <1>4, <1>5

LEMMA ConfirmEndsReaches ==
  Flowing /\ Reached /\ (ConfirmArrives \/ ConfirmFails) => Reached'
<1> SUFFICES ASSUME Flowing, Reached, ConfirmArrives \/ ConfirmFails PROVE Reached'
  OBVIOUS
<1>1. poll.at = "confirm" /\ UNCHANGED <<log, back, post, skipped, unproven>>
  BY DEF ConfirmArrives, ConfirmFails, host, history
<1>2. page \in Pages /\ poll \in Polls /\ SameView(page, page) /\ SamePhase(page, page)
  BY DEF Flowing, Typed, SameView, SamePhase
<1>3. CASE ConfirmFails
  BY <1>1, <1>2, <1>3, EndPollReaches DEF ConfirmFails
<1>4. CASE ConfirmArrives
  <2> DEFINE p == Confirmed(page, poll.upto)
  <2>1. EndPoll(p) /\ poll.upto # Unserved
    BY <1>4 DEF ConfirmArrives, Confirmed
  <2>2. poll.upto \in Int
    BY <1>2, <2>1, BatchLines
  <2>3. p \in Pages /\ SameView(page, p) /\ SamePhase(page, p)
    BY <1>2, <2>2, ConfirmedPage DEF SameView
  <2> HIDE DEF p
  <2> QED BY <1>1, <2>1, <2>3, EndPollReaches
<1> QED BY <1>3, <1>4

\* A step that leaves the page's timeline, its polls and its entry
LEMMA StillReaches ==
  ASSUME Flowing, Reached, SameLines(page, page'), page'.armed = page.armed,
         Len(log') \in Nat, Len(log) <= Len(log'), back' \in {back, 0},
         ~page.armed => post'.answer = "none",
         UNCHANGED <<entry, poll, skipped, unproven>>
  PROVE  Reached'
<1>1. SameView(page, page')
  BY UntouchedView
<1> QED BY <1>1, ViewStep

LEMMA ReadReaches == Flowing /\ Reached /\ (Reading \/ Lifecycle) => Reached'
<1> SUFFICES ASSUME Flowing, Reached, Reading \/ Lifecycle PROVE Reached'
  OBVIOUS
<1>1. /\ page \in Pages /\ back \in Nat /\ page.oldest \in Nat /\ page.cursor \in Nat
      /\ Len(log) \in 0 .. MaxId /\ page.control \in BOOLEAN /\ Len(log) \in Nat
      /\ unproven \in BOOLEAN
  BY PageNumbers DEF Flowing, Typed
<1>2. ~page.armed => post.answer = "none"
  BY DEF Reached, RestoreInv
<1>3. CASE EarlierFails \/ Lifecycle \/ (EarlierArrives /\ ~page.control)
  <2>1. Untouched(page, page') /\ UNCHANGED <<log, entry, poll, post, skipped, unproven>>
    BY <1>3, ReadLeavesPage
  <2>2. back' \in {back, 0}
    BY <1>3 DEF EarlierFails, EarlierArrives, Lifecycle, StatusTick, HostReports,
           StatusArrives, StatusFails, CloseRoom
  <2> QED BY <1>1, <1>2, <2>1, <2>2, StillReaches DEF Untouched
<1>4. CASE LoadEarlier
  <2>1. Untouched(page, page') /\ UNCHANGED <<log, entry, poll, post, skipped, unproven>>
    BY <1>4, ReadLeavesPage
  <2>2. back' = page.oldest /\ page.control /\ page.oldest > 1
    BY <1>4 DEF LoadEarlier
  <2>3. /\ page'.cursor = page.cursor /\ page'.newest = page.newest
        /\ page'.unverified = page.unverified /\ page'.oldest = page.oldest
        /\ page'.more = page.more /\ page'.control = page.control
        /\ page'.loaded = page.loaded /\ page'.armed = page.armed /\ Shown(page') = Shown(page)
    BY <2>1 DEF Untouched, SameLines, Shown
  <2>4. RestoreInv'
    BY <2>1, <2>2, <2>3 DEF Reached, RestoreInv
  <2>5. CopyInv'
    BY <2>1, <2>3 DEF Reached, CopyInv, Ahead, Unchecked
  <2>6. ControlInv'
    BY <1>1, <2>1, <2>2, <2>3 DEF Reached, ControlInv
  <2>7. GapInv'
    BY <2>1, <2>3 DEF Reached, GapInv
  <2> QED BY <2>4, <2>5, <2>6, <2>7 DEF Reached
<1>5. CASE EarlierArrives /\ page.control
  <2> DEFINE older == Before(back)
  <2>1. /\ back \in Ids /\ back' = 0 /\ older \in SUBSET Ids
        /\ page' = Extended(page, older)
        /\ unproven' = (unproven \/ page.unverified \/ poll.at = "verify")
        /\ SamePhase(page, page')
        /\ UNCHANGED <<log, entry, poll, post, skipped>>
    BY <1>5, ExtensionStep
  <2>2. /\ \A i \in older : i < back /\ i <= Len(log)
        /\ (older # {} => \A i \in 1 .. Len(log) : Min(older) <= i /\ i < back => i \in older)
        /\ (older = {} => \A i \in 1 .. Len(log) : ~(i < back))
    BY <1>1, <2>1, EarlierLines
  <2>3. older # {} => Min(older) \in older
    BY <2>1, LineBounds
  <2> HIDE DEF older
  <2>4. older # {} => Min(older) \in Nat /\ Min(older) < back
    <3>1. \A i \in older : i \in Nat /\ i < back
      BY <2>1, <2>2, PageBounds DEF Ids
    <3> QED BY <2>3, <3>1
  <2>5. older = {} => \A i \in 1 .. Len(log) : ~(i < back)
    BY <2>2
  <2>6. /\ page'.cursor = page.cursor /\ page'.newest = page.newest
        /\ page'.unverified = page.unverified /\ page'.control = page.control
        /\ page'.loaded = page.loaded
        /\ page'.oldest = (IF older = {} THEN page.oldest ELSE Min(older))
        /\ page'.more = (older # {} /\ Min(older) > 1)
        /\ Shown(page') = Shown(page) \cup older
    BY <1>1, <2>1, ExtendedPage
  <2>7. back = page.oldest /\ page.oldest <= page.cursor
    BY <1>5, <2>1 DEF Reached, ControlInv, Ids
  <2>8. unproven' \in BOOLEAN /\ (~unproven' => ~unproven /\ ~(Unchecked))
    BY <2>1 DEF Unchecked
  <2>9. RestoreInv'
    BY <1>5, <2>1, <2>6 DEF Reached, RestoreInv, SamePhase
  <2>10. CopyInv'
    BY <2>1, <2>6, <2>8 DEF Reached, CopyInv, Ahead, Unchecked
  <2>11. ControlInv'
    <3>1. page'.oldest <= page'.cursor
      BY <1>1, <2>6, <2>7, <2>4
    <3> QED BY <1>5, <2>1, <2>6, <3>1 DEF Reached, ControlInv
  <2>12. ASSUME ~unproven', NEW i \in 1 .. page'.cursor, i \notin Shown(page'), i \notin skipped
         PROVE  page'.control /\ page'.more /\ i < page'.oldest
    <3>1. page.cursor <= Len(log)
      BY <1>1, <2>8, <2>12 DEF Reached, CopyInv, Ahead
    <3>2. i \in 1 .. Len(log) /\ i < back
      <4>1. i < page.oldest
        BY <2>6, <2>8, <2>12 DEF Reached, GapInv
      <4> QED BY <1>1, <2>6, <2>7, <3>1, <4>1
    <3>3. older # {} /\ i \notin older
      BY <2>6, <2>12, <2>5, <3>2
    <3>4. Min(older) \in Int /\ i < Min(older)
      <4>1. ~(Min(older) <= i)
        BY <2>2, <3>2, <3>3
      <4> QED BY <1>1, <2>4, <3>2, <3>3, <4>1
    <3>5. Min(older) > 1
      BY <3>2, <3>4
    <3> QED BY <1>5, <2>6, <3>3, <3>4, <3>5
  <2>13. GapInv'
    BY <2>1, <2>12 DEF GapInv
  <2> QED BY <2>9, <2>10, <2>11, <2>13 DEF Reached
<1> QED BY <1>3, <1>4, <1>5 DEF Reading

LEMMA SendReaches ==
  Flowing /\ Reached /\ (Compose \/ Submit \/ HostStores \/ PostFails) => Reached'
<1> SUFFICES ASSUME Flowing, Reached, Compose \/ Submit \/ HostStores \/ PostFails
             PROVE  Reached'
  OBVIOUS
<1>1. page \in Pages /\ Len(log) \in Nat /\ log \in Seq(LogLines)
  BY PageNumbers DEF Flowing, Typed
<1>2. ~page.armed => post.answer = "none"
  BY DEF Reached, RestoreInv
<1>3. CASE Compose
  <2>1. PICK d \in Drafts : page' = [page EXCEPT !.draft = d, !.pending = 0]
    BY <1>3 DEF Compose
  <2>2. SameLines(page, page') /\ page'.armed = page.armed
    BY <1>1, <2>1 DEF Pages, SameLines
  <2>3. UNCHANGED <<log, entry, poll, back, post, skipped, unproven>>
    BY <1>3 DEF Compose, host, calls, history
  <2> QED BY <1>1, <1>2, <2>2, <2>3, StillReaches
<1>4. CASE Submit
  <2>1. /\ SameLines(page, page') /\ SamePhase(page, page')
        /\ UNCHANGED <<log, entry, poll, back, skipped, unproven>>
    BY <1>4, SubmitStep DEF Flowing
  <2>2. page.armed
    BY <1>4 DEF Submit
  <2> QED BY <1>1, <2>1, <2>2, StillReaches DEF SamePhase
<1>5. CASE HostStores
  <2>1. /\ post.answer = "sent" /\ UNCHANGED <<page, entry, poll, back, skipped, unproven>>
        /\ \/ log' = log
           \/ log' = Append(log, [key |-> post.key, draft |-> post.draft])
    BY <1>5, HostStoresStep DEF Flowing
  <2>2. [key |-> post.key, draft |-> post.draft] \in LogLines
    BY DEF Flowing, Typed, Posts, LogLines
  <2>3. Len(log') \in Nat /\ Len(log) <= Len(log')
    <3> DEFINE line == [key |-> post.key, draft |-> post.draft]
               longer == Append(log, line)
    <3>1. Len(longer) = Len(log) + 1
      BY <1>1, <2>2, AppendedLine
    <3>2. log' = log \/ log' = longer
      BY <2>1
    <3> HIDE DEF longer
    <3> QED BY <1>1, <3>1, <3>2
  <2>4. SameLines(page, page') /\ page.armed
    BY <1>2, <2>1 DEF SameLines
  <2> QED BY <2>1, <2>3, <2>4, StillReaches
<1>6. CASE PostFails
  <2>1. /\ SameLines(page, page') /\ SamePhase(page, page') /\ post' = NoPost
        /\ UNCHANGED <<log, entry, poll, back, skipped, unproven>>
    BY <1>6, PostFailsStep DEF Flowing
  <2> QED BY <1>1, <2>1, NoPostTyped, StillReaches DEF SamePhase
<1> QED BY <1>3, <1>4, <1>5, <1>6

LEMMA PostArrivesReaches == Flowing /\ Reached /\ PostArrives => Reached'
<1> SUFFICES ASSUME Flowing, Reached, PostArrives PROVE Reached'
  OBVIOUS
<1>1. /\ post.id \in Ids /\ post.id <= Len(log) /\ post' = NoPost
      /\ skipped' = skipped \cup {i \in Ids : page.cursor < i /\ i < post.id /\ i \notin Shown(page)}
      /\ UNCHANGED <<log, entry, poll, back, unproven>>
      /\ SamePhase(page, page') /\ page' \in Pages
      /\ page'.newest = page.newest /\ page'.unverified = page.unverified
      /\ page'.oldest = page.oldest /\ page'.more = page.more
      /\ page'.control = page.control /\ page'.loaded = page.loaded
      /\ Shown(page') = Shown(page) \cup {post.id}
      /\ \/ post.id \in Shown(page) /\ page'.cursor = page.cursor
         \/ /\ post.id \notin Shown(page)
            /\ page'.cursor = IF post.id > page.cursor THEN post.id ELSE page.cursor
      /\ post.answer = "stored"
  BY PostArrivesStep DEF Flowing
<1>2. /\ page.cursor \in Nat /\ page.newest \in Nat /\ page.oldest \in Nat /\ Len(log) \in Nat
      /\ poll.since \in Nat /\ post.id \in Nat /\ MaxId \in Nat /\ Len(log) \in 0 .. MaxId
  BY <1>1, PageNumbers, PageBounds DEF Flowing, Typed, Ids
<1>3. /\ page'.cursor \in Nat /\ page.cursor <= page'.cursor
      /\ (page'.cursor # page.cursor => page'.cursor = post.id)
  BY <1>1, <1>2
<1>4. (Ahead)' => Ahead /\ page'.cursor = page.cursor
  BY <1>1, <1>2, <1>3 DEF Ahead
<1>5. page.armed
  BY <1>1 DEF Reached, RestoreInv
<1>6. RestoreInv'
  BY <1>1, <1>5, NoPostTyped DEF Reached, RestoreInv, SamePhase
<1>7. CopyInv'
  <2>1. /\ (Ahead)' /\ ~unproven' => (Unchecked)'
        /\ (Ahead)' /\ (Unchecked)' => page'.cursor <= page'.newest
    BY <1>1, <1>4 DEF Reached, CopyInv, Unchecked
  <2>2. /\ page'.unverified => page'.cursor > 0 /\ page'.newest > 0
        /\ poll'.at = "list" => poll'.since <= page'.cursor
    BY <1>1, <1>2, <1>3 DEF Reached, CopyInv
  <2>3. page'.unverified /\ poll'.at = "list" =>
          ~poll'.cold /\ ((Ahead)' => poll'.since = page'.cursor)
    BY <1>1, <1>4 DEF Reached, CopyInv
  <2> QED BY <2>1, <2>2, <2>3 DEF CopyInv
<1>8. ControlInv'
  BY <1>1, <1>2, <1>3 DEF Reached, ControlInv
<1>9. \A i \in 1 .. page'.cursor : \/ i \in 1 .. page.cursor
                                   \/ i = post.id
                                   \/ i \in Shown(page)
                                   \/ i \in skipped'
  <2> TAKE i \in 1 .. page'.cursor
  <2>1. CASE i <= page.cursor
    BY <1>2, <1>3, <2>1
  <2>2. CASE ~(i <= page.cursor)
    <3>1. page'.cursor = post.id /\ page.cursor < i /\ i <= post.id
      BY <1>2, <1>3, <2>2
    <3>2. i \in Ids
      BY <1>1, <1>2, <3>1 DEF Ids
    <3>3. i = post.id \/ i < post.id
      BY <1>2, <3>1
    <3> QED BY <1>1, <3>1, <3>2, <3>3
  <2> QED BY <2>1, <2>2
<1>10. GapInv'
  BY <1>1, <1>9 DEF Reached, GapInv
<1> QED BY <1>6, <1>7, <1>8, <1>10 DEF Reached

LEMMA HostReaches == Flowing /\ Reached /\ (OtherPosts \/ HostCloses) => Reached'
<1> SUFFICES ASSUME Flowing, Reached, OtherPosts \/ HostCloses PROVE Reached'
  OBVIOUS
<1>1. /\ UNCHANGED <<page, entry, poll, back, post, skipped, unproven>>
      /\ \/ log' = log
         \/ log' = Append(log, [key |-> 0, draft |-> None])
  BY DEF OtherPosts, HostCloses, calls, history
<1>2. [key |-> 0, draft |-> None] \in LogLines /\ log \in Seq(LogLines) /\ Len(log) \in Nat
  BY PageBounds, PageNumbers DEF LogLines, Flowing, Typed
<1>3. Len(log') \in Nat /\ Len(log) <= Len(log')
  <2> DEFINE line == [key |-> 0, draft |-> None]
             longer == Append(log, line)
  <2>1. Len(longer) = Len(log) + 1
    BY <1>2, AppendedLine
  <2>2. log' = log \/ log' = longer
    BY <1>1
  <2> HIDE DEF longer
  <2> QED BY <1>2, <2>1, <2>2
<1>4. SameLines(page, page') /\ (~page.armed => post.answer = "none")
  BY <1>1 DEF SameLines, Reached, RestoreInv
<1> QED BY <1>1, <1>3, <1>4, StillReaches

LEMMA InitReaches == Init => Reached
<1> SUFFICES ASSUME Init PROVE Reached
  OBVIOUS
<1>1. log = <<>> /\ page = Fresh /\ entry = "none" /\ poll = Idle /\ back = 0 /\ post = NoPost
  BY DEF Init
<1>2. Len(log) = 0
  BY <1>1
<1> QED BY <1>1, <1>2, FreshPage, IdlePoll, NoPostTyped
    DEF Reached, RestoreInv, CopyInv, ControlInv, GapInv, Ahead, Unchecked

LEMMA NextReaches == Flowing /\ Reached /\ [Next]_vars => Reached'
<1> SUFFICES ASSUME Flowing, Reached, [Next]_vars PROVE Reached'
  OBVIOUS
<1>1. CASE Entering
  BY <1>1, EntryReaches, SeedReaches, LoadReaches DEF Entering
<1>2. CASE Polling
  BY <1>2, PollTickReaches, PollArrivesReaches, PollFailsReaches, VerifyReaches,
     ConfirmEndsReaches DEF Polling
<1>3. CASE Reading \/ Lifecycle
  BY <1>3, ReadReaches
<1>4. CASE Sending
  BY <1>4, SendReaches, PostArrivesReaches DEF Sending
<1>5. CASE OtherPosts \/ HostCloses
  BY <1>5, HostReaches
<1>6. CASE UNCHANGED vars
  BY <1>6 DEF Reached, RestoreInv, CopyInv, ControlInv, GapInv, Ahead, Unchecked, Shown,
     vars, host, calls, history
<1> QED BY <1>1, <1>2, <1>3, <1>4, <1>5, <1>6 DEF Next

LEMMA RoomPageReaches == Spec => []Reached
BY RoomPageFlows, InitReaches, NextReaches, PTL DEF Spec

\* A cursor restored from the copy of another room never stays ahead of this one, as long
\* as the request that checks it is answered (room.js:1109-1116).
THEOREM CursorStaysWithinRoom == Spec => []CursorWithinRoom
<1>1. Reached /\ Flowing => CursorWithinRoom
  <2> SUFFICES ASSUME Reached, Flowing, Settled, ~unproven PROVE page.cursor <= Len(log)
    BY DEF CursorWithinRoom
  <2>1. ~(Unchecked)
    BY DEF Settled, Unchecked, Reached, RestoreInv
  <2>2. ~(Ahead)
    BY <2>1 DEF Reached, CopyInv
  <2>3. page.cursor \in Nat /\ Len(log) \in Nat
    BY PageNumbers DEF Flowing
  <2> QED BY <2>2, <2>3 DEF Ahead
<1> QED BY <1>1, RoomPageReaches, RoomPageFlows, PTL

\* Whatever the restore, the polls, the backward reads and the reloads bring in whatever
\* order, only the answer to an own post makes a line unreachable (room.js:1695).
THEOREM OnlyOwnPostsSkip == Spec => []OnlyPostsSkip
<1>1. Reached /\ Flowing => OnlyPostsSkip
  <2> SUFFICES ASSUME Reached, Flowing, Settled, ~unproven, NEW i \in Missing
               PROVE  i \in skipped
    BY DEF OnlyPostsSkip
  <2>1. /\ i \in 1 .. Len(log) /\ i <= page.cursor /\ i \notin Shown(page)
        /\ (page.control /\ page.more => i >= page.oldest)
    BY DEF Missing
  <2>2. page.cursor \in Nat /\ page.oldest \in Nat /\ i \in 1 .. page.cursor
    BY <2>1, PageNumbers DEF Flowing
  <2> QED BY <2>1, <2>2 DEF Reached, GapInv
<1> QED BY <1>1, RoomPageReaches, RoomPageFlows, PTL

===============================================================================
