------------------------------- MODULE RoomLog -------------------------------
(***************************************************************************)
(* What a room promises those who post to it and read it.  Its lines are   *)
(* numbered from 1 and stay as they are; a client's message is one line,   *)
(* however often it is sent; whoever is answered with a number finds the   *)
(* own message under it; and a closed room stays closed.  A post that was  *)
(* let in before the close may still become a line after it.               *)
(***************************************************************************)
EXTENDS Integers, Sequences

CONSTANTS
  Requests,
  Keys,    \* what makes a client's message the same one when it is sent again
  NoKey    \* a line without such a key

VARIABLES
  lines,     \* the numbered lines
  open,      \* the room is open
  answered   \* per request: the number it was answered with and the key it is for

LInit ==
  /\ lines = <<>>
  /\ open = TRUE
  /\ answered = [r \in Requests |-> [id |-> 0, key |-> NoKey]]

\* A key makes a message unique, and only messages have keys.
LRecord(line, k) ==
  /\ k # NoKey => line = "post" /\ \A i \in 1 .. Len(lines) : lines[i].key # k
  /\ lines' = Append(lines, [id |-> Len(lines) + 1, line |-> line, key |-> k])
  /\ UNCHANGED <<open, answered>>

\* A message without a key is the answer to one request only.
LAnswer(r, i) ==
  /\ answered[r].id = 0
  /\ lines[i].line = "post"
  /\ lines[i].key = NoKey => \A s \in Requests : answered[s].id # i
  /\ answered' = [answered EXCEPT ![r] = [id |-> i, key |-> lines[i].key]]
  /\ UNCHANGED <<lines, open>>

LClose ==
  /\ open
  /\ open' = FALSE
  /\ UNCHANGED <<lines, answered>>

LNext ==
  \/ \E line \in {"post", "closed", "ttl", "note"}, k \in Keys \cup {NoKey} : LRecord(line, k)
  \/ \E r \in Requests, i \in 1 .. Len(lines) : LAnswer(r, i)
  \/ LClose

LSpec == LInit /\ [][LNext]_<<lines, open, answered>>
==============================================================================
