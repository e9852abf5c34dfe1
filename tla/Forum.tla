-------------------------------- MODULE Forum --------------------------------
(***************************************************************************)
(* A room's channels and the forum kept in its directory, with the page that   *)
(* shows one forum channel (browser/forum.js).                              *)
(*                                                                         *)
(* Channels, posts and comments are written under the writer lock by requests  *)
(* of the room server and by commands in the host's home; they are read        *)
(* without it.  The page asks for the list of posts and for threads and renders  *)
(* what arrives, in the order in which it arrives.  Texts, tags, dates, the     *)
(* search, the filters and the snapshot sent to the dashboard are not           *)
(* modelled, nor is the page's roster.                                        *)
(***************************************************************************)
EXTENDS Integers, Sequences, FiniteSets

CONSTANTS
  Channels, General,   \* channels, one of them the room's own chat channel
  Channel,             \* the channel that the page shows
  Posts,               \* ids of posts
  Early,               \* posts that are there when the page is opened
  Slots,               \* bound: concurrent requests and commands
  None,
  MaxCalls             \* bound: requests and commands begun

ASSUME ForumAssumption ==
  /\ General \in Channels /\ Channel \in Channels /\ Early \subseteq Posts
  /\ None \notin Posts \cup Channels \cup Nat
  /\ Slots \in Nat \ {0} /\ MaxCalls \in Nat

Calls == 1 .. Slots
Types == {"chat", "forum"}
Absent == -1    \* a post that a list does not have
Failed == -2    \* an answer that is an error, or none

VARIABLES
  board,   \* boardroom.json: per channel none or its type, and its name
  open,    \* the room is open
  post,    \* per post: no, its directory only, or its status
  log,     \* per post: the ids of its comments, as its log has them
  torn,    \* posts whose log ends in half a line
  lock,    \* the call that holds the writer lock
  held,    \* what the holder read under the lock: the board and a log
  calls,   \* requests and commands under way
  page,    \* the page's state
  begun    \* calls begun

host == <<board, open, post, log, torn, lock, held>>
vars == <<host, calls, page, begun>>

Boards == [Channels -> [type : Types \cup {"none"}, name : 0 .. 1]]
Idle == [op |-> "none", by |-> "page", at |-> "idle", post |-> None, then |-> None,
         channel |-> General, type |-> "chat", list |-> [p \in Posts |-> Absent], n |-> Failed]

CallSet ==
  [op : {"none", "list", "thread", "comment", "create", "status", "add", "rename"},
   by : {"page", "command"}, at : {"idle", "sent", "lock", "held", "done"},
   post : Posts \cup {None}, then : Posts \cup {None, "entry"},
   channel : Channels, type : Types,
   list : [Posts -> Nat \cup {Absent}], n : Nat \cup {Failed}]

PageSet ==
  [view : {"feed", "thread"}, selected : Posts \cup {None}, url : Posts \cup {None},
   detail : {"empty", "loading", "thread", "error"}, shown : Posts \cup {None},
   posts : [Posts -> Nat \cup {Absent}], offline : BOOLEAN]

TypeOK ==
  /\ board \in Boards /\ open \in BOOLEAN
  /\ post \in [Posts -> {"no", "dir", "open", "answered"}]
  /\ log \in [Posts -> Seq(Nat)] /\ torn \subseteq Posts
  /\ lock \in Calls \cup {None}
  /\ held \in [board : Boards, count : Nat]
  /\ calls \in [Calls -> CallSet]
  /\ page \in PageSet
  /\ begun \in 0 .. MaxCalls

\* deriveDefaultBoardroom: a room without boardroom.json shows its chat channel
LegacyBoard == [c \in Channels |->
  [type |-> IF c = General THEN "chat" ELSE "none", name |-> 0]]

\* createBoardroom may make others with it
MadeBoards == {b \in Boards : b[General].type = "chat" /\ \A c \in Channels : b[c].name = 0}

\* start: the page is empty, may be opened with a link to a post, and asks for the list
Started ==
  \E link \in Posts \cup {None} :
    /\ calls = [c \in Calls |-> IF c = 1 THEN [Idle EXCEPT !.op = "list", !.at = "sent",
                                                           !.then = "entry"]
                                ELSE Idle]
    /\ page = [view |-> "feed", selected |-> None, url |-> link, detail |-> "empty",
               shown |-> None, posts |-> [p \in Posts |-> Absent], offline |-> FALSE]

\* Posts may be there already.
Init ==
  /\ board \in {LegacyBoard} \cup MadeBoards
  /\ open = TRUE
  /\ post = [p \in Posts |-> IF p \in Early THEN "open" ELSE "no"] /\ log = [p \in Posts |-> <<>>] /\ torn = {}
  /\ lock = None /\ held = [board |-> board, count |-> 0]
  /\ Started
  /\ begun = 0

----------------------------------------------------------------------------
\* Calls

\* The first idle slot takes the call: slots only tell calls apart.
Begin(k, c) ==
  /\ calls[k].at = "idle" /\ \A j \in 1 .. k - 1 : calls[j].at # "idle"
  /\ calls' = [calls EXCEPT ![k] = c]

Sent(op, by) == [Idle EXCEPT !.op = op, !.by = by, !.at = "sent"]

Counted == begun < MaxCalls /\ begun' = begun + 1

\* room channel-create and room channel-rename
AddChannel(k) ==
  \E c \in Channels, t \in Types :
    /\ Counted /\ UNCHANGED <<host, page>>
    /\ Begin(k, [Sent("add", "command") EXCEPT !.at = "lock", !.channel = c, !.type = t])

RenameChannel(k) ==
  \E c \in Channels :
    /\ Counted /\ UNCHANGED <<host, page>>
    /\ Begin(k, [Sent("rename", "command") EXCEPT !.at = "lock", !.channel = c])

\* room forum-post, forum-comment and forum-status in the host's home
PostByCommand(k) ==
  \E p \in Posts :
    /\ Counted /\ UNCHANGED <<host, page>>
    /\ Begin(k, [Sent("create", "command") EXCEPT !.post = p])

CommentByCommand(k) ==
  \E p \in Posts :
    /\ Counted /\ UNCHANGED <<host, page>>
    /\ Begin(k, [Sent("comment", "command") EXCEPT !.post = p])

SetStatus(k) ==
  \E p \in Posts :
    /\ Counted /\ UNCHANGED <<host, page>>
    /\ Begin(k, [Sent("status", "command") EXCEPT !.at = "lock", !.post = p])

CloseRoom ==
  /\ open /\ open' = FALSE
  /\ UNCHANGED <<board, post, log, torn, lock, held, calls, page, begun>>

----------------------------------------------------------------------------
\* What the server and the stores do

\* assertForumChannel
IsForum == board[Channel].type = "forum"

There(p) == p # None /\ post[p] \notin {"no", "dir"}

\* readForumPost and readCommentsLog: half a line cannot be parsed
Readable(p) == IsForum /\ There(p) /\ p \notin torn

Done(k, n) == calls' = [calls EXCEPT ![k].at = "done", ![k].n = n]

\* listForumPosts: a directory without a post is passed over
Present == IF IsForum THEN {p \in Posts : There(p)} ELSE {}

\* getForumPosts: every post with the number of its comments; one that cannot be read
\* fails the whole list
ServeList(k) ==
  /\ calls[k].op = "list" /\ calls[k].at = "sent"
  /\ calls' = [calls EXCEPT
       ![k].at = "done",
       ![k].n = IF IsForum /\ \A p \in Present : Readable(p) THEN 0 ELSE Failed,
       ![k].list = [p \in Posts |-> IF p \in Present THEN Len(log[p]) ELSE Absent]]
  /\ UNCHANGED <<host, page, begun>>

\* getForumPost
ServeThread(k) ==
  /\ calls[k].op = "thread" /\ calls[k].at = "sent"
  /\ LET p == calls[k].post IN Done(k, IF Readable(p) THEN Len(log[p]) ELSE Failed)
  /\ UNCHANGED <<host, page, begun>>

\* postForumPost and postForumComment up to the lock; a command does not ask
\* whether the room is open
Admit(k) ==
  /\ calls[k].op \in {"comment", "create"} /\ calls[k].at = "sent"
  /\ IF IsForum /\ (open \/ calls[k].by = "command")
     THEN calls' = [calls EXCEPT ![k].at = "lock"]
     ELSE Done(k, Failed)
  /\ UNCHANGED <<host, page, begun>>

\* Slip: the lock is not waited for
NoLock == TRUE

LockFree == lock = None

\* Under the lock addChannel and renameChannel read the board, addForumComment the log.
TakeLock(k) ==
  /\ calls[k].at = "lock" /\ LockFree
  /\ lock' = k
  /\ held' = [board |-> board,
              count |-> IF calls[k].op = "comment" THEN Len(log[calls[k].post]) ELSE 0]
  /\ calls' = [calls EXCEPT ![k].at = "held"]
  /\ UNCHANGED <<board, open, post, log, torn, page, begun>>

Unlock(k) ==
  /\ lock' = IF lock = k THEN None ELSE lock
  /\ held' = IF lock = k THEN [board |-> board', count |-> 0] ELSE held

\* Slip: an id may be taken again
ChannelPut(c, t) == [held.board EXCEPT ![c].type = t]

\* addChannel: an id is taken once
ChannelAdded(c, t) ==
  IF held.board[c].type = "none" THEN [held.board EXCEPT ![c].type = t] ELSE board

\* renameChannel: id and type stay
ChannelRenamed(c) ==
  IF held.board[c].type # "none" THEN [held.board EXCEPT ![c].name = 1] ELSE board

WriteBoard(k) ==
  /\ calls[k].at = "held" /\ calls[k].op \in {"add", "rename"}
  /\ board' = IF calls[k].op = "add" THEN ChannelAdded(calls[k].channel, calls[k].type)
              ELSE ChannelRenamed(calls[k].channel)
  /\ calls' = [calls EXCEPT ![k] = Idle]
  /\ UNCHANGED <<open, post, log, torn, page, begun>>
  /\ Unlock(k)

\* createForumPost creates the file and fails if it exists.
WritePost(k) ==
  LET p == calls[k].post IN
  /\ calls[k].at = "held" /\ calls[k].op = "create"
  /\ post' = [post EXCEPT ![p] = IF There(p) THEN @ ELSE "open"]
  /\ Done(k, IF There(p) THEN Failed ELSE 0)
  /\ UNCHANGED <<board, open, log, torn, page, begun>>
  /\ Unlock(k)

\* addForumComment: the post and its log must be readable; the id counts the log.
WriteComment(k) ==
  LET p == calls[k].post IN
  /\ calls[k].at = "held" /\ calls[k].op = "comment"
  /\ IF There(p) /\ p \notin torn
     THEN /\ log' = [log EXCEPT ![p] = Append(@, held.count + 1)] /\ Done(k, 0)
     ELSE UNCHANGED log /\ Done(k, Failed)
  /\ UNCHANGED <<board, open, post, torn, page, begun>>
  /\ Unlock(k)

\* setForumPostStatus
WriteStatus(k) ==
  LET p == calls[k].post IN
  /\ calls[k].at = "held" /\ calls[k].op = "status"
  /\ post' = [post EXCEPT ![p] = IF There(p) THEN "answered" ELSE @]
  /\ calls' = [calls EXCEPT ![k] = Idle]
  /\ UNCHANGED <<board, open, log, torn, page, begun>>
  /\ Unlock(k)

\* The process that writes ends: a post may be left as a directory, a comment as
\* half a line.
Die(k) ==
  LET p == calls[k].post IN
  /\ calls[k].at \in {"lock", "held"}
  /\ post' = IF calls[k].at = "held" /\ calls[k].op = "create" /\ post[p] = "no"
             THEN [post EXCEPT ![p] = "dir"] ELSE post
  /\ \/ UNCHANGED torn
     \/ /\ calls[k].at = "held" /\ calls[k].op = "comment" /\ There(p)
        /\ torn' = torn \cup {p}
  /\ UNCHANGED <<board, open, log, page, begun>>
  /\ Done(k, Failed)
  /\ Unlock(k)

\* A request is lost, or the answer of one that changed something.
Lose(k) ==
  /\ calls[k].by = "page"
  /\ \/ calls[k].at = "sent"
     \/ calls[k].at = "done" /\ calls[k].op \in {"comment", "create"} /\ calls[k].n # Failed
  /\ Done(k, Failed)
  /\ UNCHANGED <<host, page, begun>>

CommandEnds(k) ==
  /\ calls[k].by = "command" /\ calls[k].at = "done"
  /\ calls' = [calls EXCEPT ![k] = Idle]
  /\ UNCHANGED <<host, page, begun>>

----------------------------------------------------------------------------
\* The page

\* selectPost up to its request
Selected(p) ==
  [page EXCEPT !.selected = p, !.view = "thread", !.url = p,
               !.detail = "loading", !.shown = IF p # None /\ page.posts[p] # Absent THEN p ELSE @]

Thread(p) == [Sent("thread", "page") EXCEPT !.post = p]

\* renderFeed's cards, which are there while no thread is
Cards == {p \in Posts : page.view = "feed" /\ page.posts[p] # Absent}

\* renderRailPosts: the channel's posts in the rail, in either view
RailPosts == {p \in Posts : page.posts[p] # Absent}

Select(k) ==
  \E p \in Cards \cup RailPosts :
    /\ Counted
    /\ page' = Selected(p) /\ Begin(k, Thread(p))
    /\ UNCHANGED host

\* renderThread; nothing asks whether the thread is the selected one
ThreadArrives(k) ==
  LET c == calls[k] IN
  /\ c.op = "thread" /\ c.at = "done" /\ c.n # Failed
  /\ page' = [page EXCEPT !.detail = "thread", !.shown = c.post,
                          !.posts[c.post] = IF @ = Absent THEN @ ELSE c.n]
  /\ calls' = [calls EXCEPT ![k] = Idle]
  /\ UNCHANGED <<host, begun>>

\* Slip: only the failure of the selected thread is shown
ThreadFailsIfSelected(k) ==
  /\ calls[k].op = "thread" /\ calls[k].at = "done" /\ calls[k].n = Failed
  /\ page' = [page EXCEPT !.detail =
                 IF calls[k].post # None /\ calls[k].post = page.selected THEN "error" ELSE @]
  /\ calls' = [calls EXCEPT ![k] = Idle]
  /\ UNCHANGED <<host, begun>>

ThreadFails(k) ==
  /\ calls[k].op = "thread" /\ calls[k].at = "done" /\ calls[k].n = Failed
  /\ page' = [page EXCEPT !.detail = "error"]
  /\ calls' = [calls EXCEPT ![k] = Idle]
  /\ UNCHANGED <<host, begun>>

BackToFeed ==
  /\ page.view = "thread"
  /\ page' = [page EXCEPT !.selected = None, !.view = "feed", !.url = None]
  /\ UNCHANGED <<host, calls, begun>>

\* setForumOffline: nothing can be sent
Offline(pg, off) == [pg EXCEPT !.offline = off]

\* loadPosts, once its answer is there
Listed(c) ==
  IF c.n = Failed THEN Offline(page, TRUE) ELSE Offline([page EXCEPT !.posts = c.list], FALSE)

\* After the first list applyInitialSelection opens the linked post; after a new
\* post's list that post is opened.
ListArrives(k) ==
  LET c == calls[k]
      p == IF c.then = "entry" THEN page.url ELSE c.then
      opens == p # None /\ (c.then # "entry" \/ Listed(c).posts[p] # Absent)
  IN /\ c.op = "list" /\ c.at = "done"
     /\ IF opens
        THEN /\ page' = [Listed(c) EXCEPT !.selected = p, !.view = "thread", !.url = p,
                                          !.detail = "loading",
                                          !.shown = IF Listed(c).posts[p] # Absent THEN p ELSE @]
             /\ calls' = [calls EXCEPT ![k] = Thread(p)]
        ELSE /\ page' = [Listed(c) EXCEPT !.url = IF c.then = "entry" THEN None ELSE @]
             /\ calls' = [calls EXCEPT ![k] = Idle]
     /\ UNCHANGED <<host, begun>>

\* submitComment: nothing keeps it from being sent twice
SubmitComment(k) ==
  /\ page.view = "thread" /\ page.selected # None /\ ~page.offline
  /\ Counted
  /\ Begin(k, [Sent("comment", "page") EXCEPT !.post = page.selected])
  /\ UNCHANGED <<host, page>>

\* The thread selected by now is read again, or none.
CommentArrives(k) ==
  LET c == calls[k] IN
  /\ c.op = "comment" /\ c.by = "page" /\ c.at = "done"
  /\ IF c.n = Failed
     THEN UNCHANGED page /\ calls' = [calls EXCEPT ![k] = Idle]
     ELSE page' = Selected(page.selected) /\ calls' = [calls EXCEPT ![k] = Thread(page.selected)]
  /\ UNCHANGED <<host, begun>>

\* submitNewPost: the id is made by the host
SubmitPost(k) ==
  \E p \in Posts :
    /\ ~page.offline /\ post[p] = "no"
    /\ ~\E j \in Calls : calls[j].op = "create" /\ calls[j].post = p
    /\ Counted
    /\ Begin(k, [Sent("create", "page") EXCEPT !.post = p])
    /\ UNCHANGED <<host, page>>

PostArrives(k) ==
  LET c == calls[k] IN
  /\ c.op = "create" /\ c.by = "page" /\ c.at = "done"
  /\ IF c.n = Failed
     THEN UNCHANGED page /\ calls' = [calls EXCEPT ![k] = Idle]
     ELSE /\ UNCHANGED page
          /\ calls' = [calls EXCEPT ![k] = [Sent("list", "page") EXCEPT !.then = c.post]]
  /\ UNCHANGED <<host, begun>>

----------------------------------------------------------------------------

Served(k) ==
  \/ ServeList(k) \/ ServeThread(k) \/ Admit(k) \/ TakeLock(k)
  \/ WriteBoard(k) \/ WritePost(k) \/ WriteComment(k) \/ WriteStatus(k)

Arrives(k) ==
  \/ ThreadArrives(k) \/ ThreadFails(k) \/ ListArrives(k) \/ CommentArrives(k)
  \/ PostArrives(k) \/ CommandEnds(k)

Next ==
  \/ \E k \in Calls :
       \/ AddChannel(k) \/ RenameChannel(k) \/ PostByCommand(k) \/ CommentByCommand(k)
       \/ SetStatus(k) \/ Select(k) \/ SubmitComment(k) \/ SubmitPost(k)
       \/ Served(k) \/ Arrives(k) \/ Die(k) \/ Lose(k)
  \/ CloseRoom \/ BackToFeed

Spec == Init /\ [][Next]_vars

\* A request is answered or fails, and the page handles what arrives.
FairSpec ==
  Spec /\ \A k \in Calls : WF_vars(Served(k)) /\ WF_vars(Arrives(k))

----------------------------------------------------------------------------
\* Properties

\* The ids in a post's log count it, whoever comments at once and whoever dies:
\* addForumComment counts and appends under one lock and never appends to half a line.
CommentsNumbered ==
  \A p \in Posts : \A i \in 1 .. Len(log[p]) : log[p][i] = i

\* A channel once made keeps its type and its new name, whatever commands run at once.
BoardKept ==
  [][\A c \in Channels : board[c].type # "none" =>
       board'[c].type = board[c].type /\ board'[c].name >= board[c].name]_vars

\* selectPost: the page that waits for a thread comes to show one or an error,
\* although threads arrive in any order, for posts no longer selected, or for none.
ThreadSettles == (page.detail = "loading") ~> (page.detail # "loading")
==============================================================================
