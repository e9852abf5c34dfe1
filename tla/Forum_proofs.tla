----------------------------- MODULE Forum_proofs -----------------------------
(***************************************************************************)
(* What the writer lock gives the forum and the board for any number of     *)
(* channels, posts and concurrent requests and commands.                   *)
(***************************************************************************)
EXTENDS Forum, TLAPS

USE ForumAssumption

\* A call that writes to a post names one.
OpsInv == \A k \in Calls : calls[k].op \in {"comment", "create", "status"} => calls[k].post \in Posts

\* The lock's owner is the call that is past TakeLock.
LockInv == \A k \in Calls : calls[k].at = "held" <=> lock = k

\* What the owner read is still what is there.
HeldInv ==
  \A k \in Calls : calls[k].at = "held" =>
    /\ held.board = board
    /\ calls[k].op = "comment" => held.count = Len(log[calls[k].post])

IInv == TypeOK /\ OpsInv /\ LockInv /\ HeldInv /\ CommentsNumbered

----------------------------------------------------------------------------
LEMMA IdleType == Idle \in CallSet
  BY DEF Idle, CallSet, Types, Absent, Failed

LEMMA BoardsType ==
  /\ LegacyBoard \in Boards /\ MadeBoards \subseteq Boards
  BY DEF LegacyBoard, MadeBoards, Boards, Types

LEMMA InitType == Init => TypeOK
<1> SUFFICES ASSUME Init PROVE TypeOK
  OBVIOUS
<1>1. board \in Boards /\ held \in [board : Boards, count : Nat]
  BY BoardsType DEF Init
<1>2. calls \in [Calls -> CallSet] /\ page \in PageSet
  <2>1. PICK link \in Posts \cup {None} :
          /\ calls = [c \in Calls |-> IF c = 1 THEN [Idle EXCEPT !.op = "list", !.at = "sent",
                                                                 !.then = "entry"] ELSE Idle]
          /\ page = [view |-> "feed", selected |-> None, url |-> link, detail |-> "empty",
                     shown |-> None, posts |-> [p \in Posts |-> Absent], offline |-> FALSE]
    BY DEF Init, Started
  <2>2. [Idle EXCEPT !.op = "list", !.at = "sent", !.then = "entry"] \in CallSet
    BY IdleType DEF Idle, CallSet
  <2>3. page \in PageSet
    BY <2>1 DEF PageSet
  <2> QED
    BY <2>1, <2>2, <2>3, IdleType
<1>3. /\ post \in [Posts -> {"no", "dir", "open", "answered"}]
      /\ log \in [Posts -> Seq(Nat)] /\ torn \subseteq Posts
      /\ lock \in Calls \cup {None} /\ open \in BOOLEAN /\ begun \in 0 .. MaxCalls
  BY DEF Init
<1> QED
  BY <1>1, <1>2, <1>3 DEF TypeOK

\* What a new call is
LEMMA BeginType ==
  ASSUME TypeOK, NEW k \in Calls, NEW c \in CallSet, Counted, Begin(k, c)
  PROVE  calls' \in [Calls -> CallSet] /\ begun' \in 0 .. MaxCalls
  BY DEF TypeOK, Counted, Begin

\* What selectPost does to the page
LEMMA SelectedType ==
  ASSUME NEW pg \in PageSet, NEW p \in Posts \cup {None}
  PROVE  [pg EXCEPT !.selected = p, !.view = "thread", !.url = p, !.detail = "loading",
                    !.shown = IF p # None /\ pg.posts[p] # Absent THEN p ELSE @] \in PageSet
  BY DEF PageSet

LEMMA BegunType ==
  ASSUME TypeOK, NEW k \in Calls,
         \/ AddChannel(k) \/ RenameChannel(k) \/ PostByCommand(k) \/ CommentByCommand(k)
         \/ SetStatus(k) \/ Select(k) \/ SubmitComment(k) \/ SubmitPost(k)
  PROVE  TypeOK'
<1> USE DEF TypeOK, host
<1>1. ASSUME NEW op \in {"comment", "create", "thread"}, NEW by \in {"page", "command"},
             NEW p \in Posts \cup {None}
      PROVE  [Sent(op, by) EXCEPT !.post = p] \in CallSet
  BY DEF Sent, Idle, CallSet, Types, Absent, Failed
<1>a. ASSUME NEW p \in Posts
      PROVE  [Sent("status", "command") EXCEPT !.at = "lock", !.post = p] \in CallSet
  BY DEF Sent, Idle, CallSet, Types, Absent, Failed
<1>b. ASSUME NEW c \in Channels, NEW t \in Types
      PROVE  [Sent("add", "command") EXCEPT !.at = "lock", !.channel = c, !.type = t] \in CallSet
  BY DEF Sent, Idle, CallSet, Types, Absent, Failed
<1>c. ASSUME NEW c \in Channels
      PROVE  [Sent("rename", "command") EXCEPT !.at = "lock", !.channel = c] \in CallSet
  BY DEF Sent, Idle, CallSet, Types, Absent, Failed
<1>2. CASE AddChannel(k)
  BY <1>b, <1>2, BeginType DEF AddChannel
<1>3. CASE RenameChannel(k)
  BY <1>c, <1>3, BeginType DEF RenameChannel, Types
<1>4. CASE PostByCommand(k)
  BY <1>1, <1>4, BeginType DEF PostByCommand
<1>5. CASE CommentByCommand(k)
  BY <1>1, <1>5, BeginType DEF CommentByCommand
<1>6. CASE SetStatus(k)
  BY <1>a, <1>6, BeginType DEF SetStatus
<1>7. CASE Select(k)
  <2>1. PICK p \in Posts : page' = Selected(p) /\ Begin(k, Thread(p)) /\ Counted /\ UNCHANGED host
    BY <1>7 DEF Select, Cards, RailPosts
  <2>2. page' \in PageSet
    BY <2>1, SelectedType DEF Selected
  <2> QED
    BY <1>1, <2>1, <2>2, BeginType DEF Thread
<1>8. CASE SubmitComment(k)
  BY <1>1, <1>8, BeginType DEF SubmitComment, PageSet
<1>9. CASE SubmitPost(k)
  BY <1>1, <1>9, BeginType DEF SubmitPost
<1> QED
  BY <1>2, <1>3, <1>4, <1>5, <1>6, <1>7, <1>8, <1>9

\* How a call goes on
LEMMA CallType ==
  ASSUME NEW c \in CallSet, NEW at \in {"lock", "held", "done"}
  PROVE  /\ [c EXCEPT !.at = at] \in CallSet
         /\ \A n \in Nat \cup {Failed} : [c EXCEPT !.at = at, !.n = n] \in CallSet
  BY DEF CallSet

LEMMA ListType ==
  ASSUME NEW c \in CallSet, NEW n \in Nat \cup {Failed}, NEW list \in [Posts -> Nat \cup {Absent}]
  PROVE  [c EXCEPT !.at = "done", !.n = n, !.list = list] \in CallSet
  BY DEF CallSet

LEMMA DoneType ==
  ASSUME TypeOK, NEW k \in Calls, NEW n \in Nat \cup {Failed}, Done(k, n)
  PROVE  calls' \in [Calls -> CallSet]
<1>1. calls' = [calls EXCEPT ![k] = [calls[k] EXCEPT !.at = "done", !.n = n]]
  BY DEF TypeOK, Done
<1>2. [calls[k] EXCEPT !.at = "done", !.n = n] \in CallSet
  BY CallType DEF TypeOK
<1> QED
  BY <1>1, <1>2 DEF TypeOK

LEMMA UnlockType ==
  ASSUME TypeOK, board' \in Boards, NEW k \in Calls, Unlock(k)
  PROVE  lock' \in Calls \cup {None} /\ held' \in [board : Boards, count : Nat]
  BY DEF TypeOK, Unlock

LEMMA ServedType ==
  ASSUME TypeOK, OpsInv, NEW k \in Calls, Served(k) \/ Die(k) \/ Lose(k)
  PROVE  TypeOK'
<1> USE DEF TypeOK, host
<1>0. Failed \in Nat \cup {Failed} /\ 0 \in Nat \cup {Failed}
  OBVIOUS
<1>1. CASE ServeList(k)
  <2> DEFINE list == [p \in Posts |-> IF p \in Present THEN Len(log[p]) ELSE Absent]
             n == IF IsForum /\ \A p \in Present : Readable(p) THEN 0 ELSE Failed
  <2>1. list \in [Posts -> Nat \cup {Absent}] /\ n \in Nat \cup {Failed}
    OBVIOUS
  <2>2. calls' = [calls EXCEPT ![k] = [calls[k] EXCEPT !.at = "done", !.n = n, !.list = list]]
    BY <1>1 DEF ServeList
  <2>3. [calls[k] EXCEPT !.at = "done", !.n = n, !.list = list] \in CallSet
    BY <2>1, ListType
  <2>4. calls' \in [Calls -> CallSet]
    BY <2>2, <2>3
  <2> QED
    BY <1>1, <2>4 DEF ServeList
<1>2. CASE ServeThread(k)
  <2>1. (IF Readable(calls[k].post) THEN Len(log[calls[k].post]) ELSE Failed) \in Nat \cup {Failed}
    BY DEF Readable, There, CallSet
  <2> QED
    BY <1>2, <2>1, DoneType DEF ServeThread
<1>3. CASE Admit(k)
  <2>1. calls' \in [Calls -> CallSet]
    <3>1. [calls[k] EXCEPT !.at = "lock"] \in CallSet
      BY CallType
    <3> QED
      BY <1>0, <1>3, <3>1, DoneType DEF Admit
  <2> QED
    BY <1>3, <2>1 DEF Admit
<1>4. CASE TakeLock(k)
  <2>1. held' \in [board : Boards, count : Nat]
    BY <1>4 DEF TakeLock, OpsInv
  <2>2. [calls[k] EXCEPT !.at = "held"] \in CallSet
    BY CallType
  <2> QED
    BY <1>4, <2>1, <2>2 DEF TakeLock
<1>5. CASE WriteBoard(k)
  <2>1. board' \in Boards
    BY <1>5 DEF WriteBoard, ChannelAdded, ChannelRenamed, Boards, CallSet
  <2> QED
    BY <1>5, <2>1, IdleType, UnlockType DEF WriteBoard
<1>6. CASE WritePost(k)
  BY <1>0, <1>6, DoneType, UnlockType DEF WritePost
<1>7. CASE WriteComment(k)
  <2>1. log' \in [Posts -> Seq(Nat)]
    <3>1. held.count + 1 \in Nat /\ calls[k].post \in Posts
      BY <1>7 DEF WriteComment, OpsInv
    <3>2. Append(log[calls[k].post], held.count + 1) \in Seq(Nat)
      BY <3>1
    <3> QED
      BY <1>7, <3>1, <3>2 DEF WriteComment
  <2>2. calls' \in [Calls -> CallSet]
    BY <1>0, <1>7, DoneType DEF WriteComment
  <2> QED
    BY <1>7, <2>1, <2>2, UnlockType DEF WriteComment
<1>8. CASE WriteStatus(k)
  BY <1>8, IdleType, UnlockType DEF WriteStatus
<1>9. CASE Die(k)
  <2>1. calls[k].post \in Posts \cup {None} /\ (There(calls[k].post) => calls[k].post \in Posts)
    BY DEF CallSet, There
  <2>2. calls' \in [Calls -> CallSet]
    BY <1>0, <1>9, DoneType DEF Die
  <2> QED
    BY <1>9, <2>1, <2>2, UnlockType DEF Die
<1>10. CASE Lose(k)
  BY <1>0, <1>10, DoneType DEF Lose
<1> QED
  BY <1>1, <1>2, <1>3, <1>4, <1>5, <1>6, <1>7, <1>8, <1>9, <1>10 DEF Served

LEMMA PageType ==
  ASSUME TypeOK, NEW k \in Calls, Arrives(k) \/ BackToFeed \/ CloseRoom
  PROVE  TypeOK'
<1> USE DEF TypeOK, host
<1>0. \A p \in Posts \cup {None} :
        /\ Thread(p) \in CallSet
        /\ [Sent("list", "page") EXCEPT !.then = p] \in CallSet
  BY DEF Thread, Sent, Idle, CallSet, Types, Absent, Failed
<1>1. CASE ThreadArrives(k)
  <2>1. calls[k].n \in Nat /\ calls[k].post \in Posts \cup {None}
    BY <1>1 DEF ThreadArrives, CallSet
  <2>2. page' \in PageSet
    BY <1>1, <2>1 DEF ThreadArrives, PageSet
  <2> QED
    BY <1>1, <2>2, IdleType DEF ThreadArrives
<1>2. CASE ThreadFails(k)
  BY <1>2, IdleType DEF ThreadFails, PageSet
<1>3. CASE ListArrives(k)
  <2> DEFINE c == calls[k]
             p == IF c.then = "entry" THEN page.url ELSE c.then
  <2>1. c \in CallSet /\ Listed(c) \in PageSet /\ p \in Posts \cup {None}
    BY DEF CallSet, Listed, Offline, PageSet
  <2> DEFINE pg == Listed(c)
             opened == [pg EXCEPT !.selected = p, !.view = "thread", !.url = p, !.detail = "loading",
                          !.shown = IF p # None /\ pg.posts[p] # Absent THEN p ELSE @]
             stayed == [pg EXCEPT !.url = IF c.then = "entry" THEN None ELSE @]
  <2>2. opened \in PageSet /\ stayed \in PageSet
    <3>1. opened \in PageSet
      BY <2>1, SelectedType
    <3>2. stayed \in PageSet
      BY <2>1 DEF PageSet
    <3> QED
      BY <3>1, <3>2
  <2>3. /\ \/ page' = opened /\ calls' = [calls EXCEPT ![k] = Thread(p)]
           \/ page' = stayed /\ calls' = [calls EXCEPT ![k] = Idle]
        /\ UNCHANGED <<host, begun>>
    BY <1>3 DEF ListArrives
  <2>4. page' \in PageSet
    BY <2>2, <2>3
  <2>5. calls' \in [Calls -> CallSet]
    <3>1. Thread(p) \in CallSet
      BY <1>0, <2>1
    <3> HIDE DEF c, p, pg, opened, stayed
    <3> QED
      BY <2>3, <3>1, IdleType
  <2> QED
    BY <2>3, <2>4, <2>5
<1>4. CASE CommentArrives(k)
  <2>1. page.selected \in Posts \cup {None}
    BY DEF PageSet
  <2>2. page' \in PageSet
    <3>1. Selected(page.selected) \in PageSet
      BY <2>1, SelectedType DEF Selected
    <3> QED
      BY <1>4, <3>1 DEF CommentArrives
  <2>3. /\ UNCHANGED <<host, begun>>
        /\ \/ calls' = [calls EXCEPT ![k] = Idle]
           \/ calls' = [calls EXCEPT ![k] = Thread(page.selected)]
    BY <1>4 DEF CommentArrives
  <2>4. Thread(page.selected) \in CallSet
    BY <1>0, <2>1
  <2>5. calls' \in [Calls -> CallSet]
    BY <2>3, <2>4, IdleType
  <2> QED
    BY <2>2, <2>3, <2>5
<1>5. CASE PostArrives(k)
  <2>1. calls[k].post \in Posts \cup {None}
    BY DEF CallSet
  <2> DEFINE next == [Sent("list", "page") EXCEPT !.then = calls[k].post]
  <2>2. /\ UNCHANGED <<host, page, begun>>
        /\ calls' = [calls EXCEPT ![k] = Idle] \/ calls' = [calls EXCEPT ![k] = next]
    BY <1>5 DEF PostArrives
  <2>3. next \in CallSet
    BY <1>0, <2>1
  <2> HIDE DEF next
  <2>4. calls' \in [Calls -> CallSet]
    BY <2>2, <2>3, IdleType
  <2> QED
    BY <2>2, <2>4
<1>6. CASE CommandEnds(k)
  BY <1>6, IdleType DEF CommandEnds
<1>7. CASE BackToFeed
  BY <1>7 DEF BackToFeed, PageSet
<1>8. CASE CloseRoom
  BY <1>8 DEF CloseRoom
<1> QED
  BY <1>1, <1>2, <1>3, <1>4, <1>5, <1>6, <1>7, <1>8 DEF Arrives

LEMMA TypeStep == TypeOK /\ OpsInv /\ [Next]_vars => TypeOK'
<1> SUFFICES ASSUME TypeOK, OpsInv, [Next]_vars PROVE TypeOK'
  OBVIOUS
<1>1. CASE UNCHANGED vars
  BY <1>1 DEF TypeOK, vars, host
<1>2. 1 \in Calls
  BY DEF Calls
<1> QED
  BY <1>1, <1>2, BegunType, ServedType, PageType DEF Next

----------------------------------------------------------------------------
\* A step that begins, admits or ends calls leaves the lock, what its owner read,
\* the board and the logs alone, and the owner's call.
QuietStep ==
  /\ UNCHANGED <<board, log, lock, held>>
  /\ \A k \in Calls :
       /\ calls'[k].at = "held" <=> calls[k].at = "held"
       /\ calls[k].at = "held" => calls'[k] = calls[k]
       /\ calls'[k].op \in {"comment", "create", "status"} => calls'[k].post \in Posts

LEMMA QuietKeeps ==
  ASSUME IInv, TypeOK', QuietStep
  PROVE  IInv'
<1>1. OpsInv' /\ LockInv'
  BY DEF IInv, QuietStep, OpsInv, LockInv
<1>2. HeldInv'
  BY DEF IInv, QuietStep, HeldInv
<1>3. CommentsNumbered'
  BY DEF IInv, QuietStep, CommentsNumbered
<1> QED
  BY <1>1, <1>2, <1>3 DEF IInv

LEMMA BeginQuiet ==
  ASSUME TypeOK, OpsInv, NEW k \in Calls, NEW c, Begin(k, c), UNCHANGED host,
         c.at # "held", c.op \in {"comment", "create", "status"} => c.post \in Posts
  PROVE  QuietStep
  BY DEF TypeOK, OpsInv, Begin, QuietStep, host

LEMMA BegunQuiet ==
  ASSUME TypeOK, OpsInv, NEW k \in Calls,
         \/ AddChannel(k) \/ RenameChannel(k) \/ PostByCommand(k) \/ CommentByCommand(k)
         \/ SetStatus(k) \/ Select(k) \/ SubmitComment(k) \/ SubmitPost(k)
  PROVE  QuietStep
<1> USE DEF Sent, Idle
<1>1. CASE AddChannel(k) \/ RenameChannel(k)
  BY <1>1, BeginQuiet DEF AddChannel, RenameChannel
<1>2. CASE PostByCommand(k) \/ CommentByCommand(k) \/ SetStatus(k)
  BY <1>2, BeginQuiet DEF PostByCommand, CommentByCommand, SetStatus
<1>3. CASE Select(k)
  BY <1>3, BeginQuiet DEF Select, Thread
<1>4. CASE SubmitComment(k)
  BY <1>4, BeginQuiet DEF SubmitComment, TypeOK, PageSet
<1>5. CASE SubmitPost(k)
  BY <1>5, BeginQuiet DEF SubmitPost
<1> QED
  BY <1>1, <1>2, <1>3, <1>4, <1>5

LEMMA OneQuiet ==
  ASSUME TypeOK, OpsInv, NEW k \in Calls, NEW c, calls' = [calls EXCEPT ![k] = c],
         calls[k].at # "held", c.at # "held",
         c.op \in {"comment", "create", "status"} => c.post \in Posts,
         UNCHANGED <<board, log, lock, held>>
  PROVE  QuietStep
  BY DEF TypeOK, OpsInv, QuietStep

LEMMA DoneQuiet ==
  ASSUME TypeOK, OpsInv, NEW k \in Calls, NEW n, Done(k, n), calls[k].at # "held",
         UNCHANGED <<board, log, lock, held>>
  PROVE  QuietStep
<1>1. calls[k] \in CallSet
  BY DEF TypeOK
<1>2. calls' = [calls EXCEPT ![k] = [calls[k] EXCEPT !.at = "done", !.n = n]]
  BY DEF TypeOK, Done
<1>3. /\ [calls[k] EXCEPT !.at = "done", !.n = n].at = "done"
      /\ [calls[k] EXCEPT !.at = "done", !.n = n].op = calls[k].op
      /\ [calls[k] EXCEPT !.at = "done", !.n = n].post = calls[k].post
  BY <1>1 DEF CallSet
<1> QED
  BY <1>2, <1>3, OneQuiet DEF OpsInv

LEMMA ServedQuiet ==
  ASSUME IInv, NEW k \in Calls,
         \/ ServeList(k) \/ ServeThread(k) \/ Admit(k) \/ Lose(k)
         \/ Die(k) /\ calls[k].at = "lock"
         \/ Arrives(k) \/ BackToFeed \/ CloseRoom
  PROVE  QuietStep
<1>0. TypeOK /\ OpsInv /\ calls[k] \in CallSet
  BY DEF IInv, TypeOK
<1>10. /\ Idle.at = "idle" /\ Idle.op = "none"
       /\ \A p : Thread(p).at = "sent" /\ Thread(p).op = "thread"
       /\ \A p : /\ [Sent("list", "page") EXCEPT !.then = p].at = "sent"
                 /\ [Sent("list", "page") EXCEPT !.then = p].op = "list"
  BY DEF Idle, Thread, Sent
<1>1. CASE ServeList(k)
  <2>1. calls' = [calls EXCEPT ![k] = calls'[k]] /\ calls'[k].at = "done" /\ calls'[k].op = "list"
    BY <1>0, <1>1 DEF ServeList, CallSet, TypeOK
  <2> QED
    BY <1>0, <1>1, <2>1, OneQuiet DEF ServeList, host
<1>2. CASE ServeThread(k) \/ Lose(k)
  BY <1>0, <1>2, DoneQuiet DEF ServeThread, Lose, host
<1>3. CASE Admit(k)
  <2>1. CASE calls' = [calls EXCEPT ![k].at = "lock"]
    <3>1. /\ calls' = [calls EXCEPT ![k] = [calls[k] EXCEPT !.at = "lock"]]
          /\ [calls[k] EXCEPT !.at = "lock"].at = "lock"
          /\ [calls[k] EXCEPT !.at = "lock"].op = calls[k].op
          /\ [calls[k] EXCEPT !.at = "lock"].post = calls[k].post
      BY <1>0, <2>1 DEF CallSet, TypeOK
    <3> QED
      BY <1>0, <1>3, <3>1, OneQuiet DEF Admit, OpsInv, host
  <2>2. CASE Done(k, Failed)
    BY <1>0, <1>3, <2>2, DoneQuiet DEF Admit, host
  <2> QED
    BY <1>3, <2>1, <2>2 DEF Admit
<1>4. CASE Die(k) /\ calls[k].at = "lock"
  <2>1. lock # k
    BY <1>4 DEF IInv, LockInv
  <2> QED
    BY <1>0, <1>4, <2>1, DoneQuiet DEF Die, Unlock
<1>5. CASE ThreadArrives(k) \/ ThreadFails(k) \/ CommandEnds(k)
  BY <1>0, <1>5, OneQuiet DEF ThreadArrives, ThreadFails, CommandEnds, Idle, host
<1>6. CASE ListArrives(k)
  <2>1. /\ calls[k].at = "done" /\ UNCHANGED host
        /\ \/ calls' = [calls EXCEPT ![k] = Idle]
           \/ \E p : calls' = [calls EXCEPT ![k] = Thread(p)]
    BY <1>6 DEF ListArrives
  <2> QED
    BY <1>0, <1>10, <2>1, OneQuiet DEF host
<1>7. CASE CommentArrives(k)
  <2>1. /\ calls[k].at = "done" /\ UNCHANGED host
        /\ \/ calls' = [calls EXCEPT ![k] = Idle]
           \/ \E p : calls' = [calls EXCEPT ![k] = Thread(p)]
    BY <1>7 DEF CommentArrives
  <2> QED
    BY <1>0, <1>10, <2>1, OneQuiet DEF host
<1>8. CASE PostArrives(k)
  <2>1. /\ calls[k].at = "done" /\ UNCHANGED host
        /\ \/ calls' = [calls EXCEPT ![k] = Idle]
           \/ \E p : calls' = [calls EXCEPT ![k] = [Sent("list", "page") EXCEPT !.then = p]]
    BY <1>8 DEF PostArrives
  <2> QED
    BY <1>0, <1>10, <2>1, OneQuiet DEF host
<1>9. CASE BackToFeed \/ CloseRoom
  BY <1>0, <1>9 DEF BackToFeed, CloseRoom, QuietStep, OpsInv, host
<1> QED
  BY <1>1, <1>2, <1>3, <1>4, <1>5, <1>6, <1>7, <1>8, <1>9 DEF Arrives

\* The owner gives the lock up: afterwards nobody has it.
GivesUp(k) ==
  /\ lock = k /\ calls[k].at = "held" /\ Unlock(k)
  /\ \A j \in Calls \ {k} : calls'[j] = calls[j]
  /\ calls'[k].at # "held"
  /\ calls'[k].op \in {"comment", "create", "status"} => calls'[k].post \in Posts

LEMMA GivesUpKeeps ==
  ASSUME IInv, TypeOK', NEW k \in Calls, GivesUp(k), CommentsNumbered'
  PROVE  IInv'
<1>1. lock' = None /\ \A j \in Calls : calls'[j].at # "held" /\ j # None
  BY DEF GivesUp, Unlock, IInv, LockInv, Calls
<1> QED
  BY <1>1 DEF IInv, GivesUp, OpsInv, LockInv, HeldInv

LEMMA WritesGiveUp ==
  ASSUME IInv, NEW k \in Calls,
         \/ WriteBoard(k) \/ WritePost(k) \/ WriteComment(k) \/ WriteStatus(k)
         \/ Die(k) /\ calls[k].at = "held"
  PROVE  GivesUp(k)
<1> USE DEF IInv, TypeOK, OpsInv, LockInv, GivesUp
<1>1. CASE WriteBoard(k) \/ WriteStatus(k)
  BY <1>1 DEF WriteBoard, WriteStatus, Idle
<1>2. CASE WritePost(k)
  BY <1>2 DEF WritePost, Done
<1>3. CASE WriteComment(k)
  <2>1. \E n : Done(k, n) /\ Unlock(k) /\ calls[k].at = "held"
    BY <1>3 DEF WriteComment
  <2> QED
    BY <2>1 DEF Done
<1>4. CASE Die(k) /\ calls[k].at = "held"
  BY <1>4 DEF Die, Done
<1> QED
  BY <1>1, <1>2, <1>3, <1>4

LEMMA WritesNumber ==
  ASSUME IInv, NEW k \in Calls,
         \/ WriteBoard(k) \/ WritePost(k) \/ WriteComment(k) \/ WriteStatus(k)
         \/ Die(k) /\ calls[k].at = "held"
  PROVE  CommentsNumbered'
<1>1. CASE UNCHANGED log
  BY <1>1 DEF IInv, CommentsNumbered
<1>2. CASE WriteComment(k) /\ log' # log
  <2> DEFINE p == calls[k].post
  <2>1. p \in Posts /\ held.count = Len(log[p]) /\ log[p] \in Seq(Nat) /\ log \in [Posts -> Seq(Nat)]
    BY <1>2 DEF IInv, TypeOK, OpsInv, HeldInv, WriteComment
  <2>2. log' = [log EXCEPT ![p] = Append(@, Len(log[p]) + 1)]
    BY <1>2, <2>1 DEF WriteComment
  <2>3. \A i \in 1 .. Len(log[p]) : log[p][i] = i
    BY <2>1 DEF IInv, CommentsNumbered
  <2>4. \A i \in 1 .. Len(log'[p]) : log'[p][i] = i
    BY <2>1, <2>2, <2>3
  <2>5. \A q \in Posts \ {p} : log'[q] = log[q]
    BY <2>1, <2>2
  <2> QED
    BY <2>4, <2>5 DEF IInv, CommentsNumbered
<1> QED
  BY <1>1, <1>2 DEF WriteBoard, WritePost, WriteStatus, Die

LEMMA LockTaken ==
  ASSUME IInv, TypeOK', NEW k \in Calls, TakeLock(k)
  PROVE  IInv'
<1>1. /\ lock = None /\ lock' = k /\ k # None
      /\ calls' = [calls EXCEPT ![k].at = "held"] /\ calls \in [Calls -> CallSet]
      /\ UNCHANGED <<board, log>>
  BY DEF TakeLock, LockFree, IInv, TypeOK, Calls
<1>2. \A j \in Calls : calls[j].at # "held" /\ j # None
  BY <1>1 DEF IInv, LockInv, Calls
<1>3. OpsInv' /\ LockInv'
  BY <1>1, <1>2 DEF IInv, OpsInv, LockInv, CallSet
<1>4. HeldInv'
  <2>1. calls'[k].op = calls[k].op /\ calls'[k].post = calls[k].post
    BY <1>1 DEF CallSet
  <2>2. held'.board = board /\ (calls[k].op = "comment" => held'.count = Len(log[calls[k].post]))
    BY DEF TakeLock
  <2> QED
    BY <1>1, <1>2, <2>1, <2>2 DEF HeldInv
<1>5. CommentsNumbered'
  BY <1>1 DEF IInv, CommentsNumbered
<1> QED
  BY <1>3, <1>4, <1>5 DEF IInv

LEMMA InvInit == Init => IInv
<1> SUFFICES ASSUME Init PROVE IInv
  OBVIOUS
<1>1. \A k \in Calls : calls[k].at # "held" /\ calls[k].op \in {"list", "none"} /\ k # None
  BY DEF Init, Started, Idle, Calls
<1>2. CommentsNumbered
  BY DEF Init, CommentsNumbered
<1>3. lock = None
  BY DEF Init
<1> QED
  BY <1>1, <1>2, <1>3, InitType DEF IInv, OpsInv, LockInv, HeldInv

LEMMA InvStep == IInv /\ [Next]_vars => IInv'
<1> SUFFICES ASSUME IInv, [Next]_vars PROVE IInv'
  OBVIOUS
<1>1. TypeOK'
  BY TypeStep DEF IInv
<1>2. CASE UNCHANGED vars
  BY <1>1, <1>2, QuietKeeps DEF IInv, QuietStep, OpsInv, vars, host
<1>3. CASE CloseRoom \/ BackToFeed
  <2>1. 1 \in Calls
    BY DEF Calls
  <2> QED
    BY <1>1, <1>3, <2>1, ServedQuiet, QuietKeeps
<1>4. ASSUME NEW k \in Calls,
             \/ AddChannel(k) \/ RenameChannel(k) \/ PostByCommand(k) \/ CommentByCommand(k)
             \/ SetStatus(k) \/ Select(k) \/ SubmitComment(k) \/ SubmitPost(k)
      PROVE  IInv'
  BY <1>1, <1>4, BegunQuiet, QuietKeeps DEF IInv
<1>5. ASSUME NEW k \in Calls, Served(k) \/ Arrives(k) \/ Die(k) \/ Lose(k)
      PROVE  IInv'
  <2>1. CASE TakeLock(k)
    BY <1>1, <2>1, LockTaken
  <2>2. CASE \/ WriteBoard(k) \/ WritePost(k) \/ WriteComment(k) \/ WriteStatus(k)
             \/ Die(k) /\ calls[k].at = "held"
    BY <1>1, <2>2, WritesGiveUp, WritesNumber, GivesUpKeeps
  <2>3. CASE \/ ServeList(k) \/ ServeThread(k) \/ Admit(k) \/ Lose(k)
             \/ (Die(k) /\ calls[k].at = "lock") \/ Arrives(k)
    BY <1>1, <2>3, ServedQuiet, QuietKeeps
  <2> QED
    BY <1>5, <2>1, <2>2, <2>3 DEF Served, Die
<1> QED
  BY <1>2, <1>3, <1>4, <1>5 DEF Next

----------------------------------------------------------------------------
\* For any number of channels, posts, slots and calls the state has its type.
THEOREM TypeCorrect == Spec => []TypeOK
<1>1. IInv => TypeOK
  BY DEF IInv
<1> QED
  BY InvInit, InvStep, <1>1, PTL DEF Spec

\* addForumComment numbers the comments of a post without a gap or a repetition,
\* whatever the page, commands and dying processes do at once.
THEOREM CommentsAreNumbered == Spec => []CommentsNumbered
<1>1. IInv => CommentsNumbered
  BY DEF IInv
<1> QED
  BY InvInit, InvStep, <1>1, PTL DEF Spec

\* addChannel and renameChannel never undo each other: a channel once on the board
\* keeps its type and its name.
THEOREM BoardIsKept == Spec => BoardKept
<1> DEFINE Kept == \A c \in Channels : board[c].type # "none" =>
                     board'[c].type = board[c].type /\ board'[c].name >= board[c].name
<1>1. IInv /\ [Next]_vars => [Kept]_vars
  <2> SUFFICES ASSUME IInv, Next PROVE Kept
    BY DEF vars, host
  <2>0. board \in Boards
    BY DEF IInv, TypeOK
  <2>1. CASE UNCHANGED board
    BY <2>0, <2>1 DEF Boards
  <2>2. ASSUME NEW k \in Calls, WriteBoard(k) PROVE Kept
    <3>1. held.board = board /\ calls[k] \in CallSet
      BY <2>2 DEF IInv, TypeOK, HeldInv, WriteBoard
    <3>2. \/ board' = ChannelAdded(calls[k].channel, calls[k].type)
          \/ board' = ChannelRenamed(calls[k].channel)
      BY <2>2 DEF WriteBoard
    <3>3. CASE board' = ChannelAdded(calls[k].channel, calls[k].type)
      BY <2>0, <3>1, <3>3 DEF ChannelAdded, Boards
    <3>4. CASE board' = ChannelRenamed(calls[k].channel)
      BY <2>0, <3>1, <3>4 DEF ChannelRenamed, Boards
    <3> QED
      BY <3>2, <3>3, <3>4
  <2>3. ASSUME NEW k \in Calls, Arrives(k) \/ Lose(k) \/ Die(k) \/ CloseRoom \/ BackToFeed
        PROVE  UNCHANGED board
    BY <2>3 DEF Arrives, ThreadArrives, ThreadFails, ListArrives, CommentArrives, PostArrives,
       CommandEnds, Lose, Die, CloseRoom, BackToFeed, host
  <2>4. ASSUME NEW k \in Calls, Served(k), ~WriteBoard(k)
        PROVE  UNCHANGED board
    BY <2>4 DEF Served, ServeList, ServeThread, Admit, TakeLock, WritePost, WriteComment,
       WriteStatus, host
  <2>5. ASSUME NEW k \in Calls,
               \/ AddChannel(k) \/ RenameChannel(k) \/ PostByCommand(k) \/ CommentByCommand(k)
               \/ SetStatus(k) \/ Select(k) \/ SubmitComment(k) \/ SubmitPost(k)
        PROVE  UNCHANGED board
    BY <2>5 DEF AddChannel, RenameChannel, PostByCommand, CommentByCommand, SetStatus, Select,
       SubmitComment, SubmitPost, host
  <2>6. 1 \in Calls
    BY DEF Calls
  <2> QED
    BY <2>1, <2>2, <2>3, <2>4, <2>5, <2>6 DEF Next
<1> QED
  BY InvInit, InvStep, <1>1, PTL DEF Spec, BoardKept
===============================================================================
