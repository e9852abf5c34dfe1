-------------------------- MODULE Attendance_proofs --------------------------
(***************************************************************************)
(* The cursors of attending clients, for every number of clients, writers   *)
(* and lines: no line is taken twice, and none is skipped but the batch a   *)
(* client died over.                                                       *)
(***************************************************************************)
EXTENDS Attendance, TLAPS

USE AttendanceAssumption

LEMMA TypeStep == TypeOK /\ [Next]_vars => TypeOK'
<1> SUFFICES ASSUME TypeOK, [Next]_vars PROVE TypeOK'
  OBVIOUS
<1> USE DEF TypeOK, Goto, Points, Running, Serving, Verdicts, Kinds, room, response, history
<1>1. ASSUME NEW p \in Posters, Write(p) PROVE TypeOK'
  <2>1. CASE Admit(p) \/ Close(p) \/ AppendFails(p)
    BY <2>1 DEF Admit, Close, AppendFails
  <2>2. CASE Append(p)
    BY <2>2 DEF Append
  <2>3. CASE Notify(p)
    <3>1. pc' \in [Clients -> Points] /\ again' \in [Clients -> BOOLEAN]
      BY <2>3 DEF Notify
    <3> QED
      BY <2>3, <3>1 DEF Notify
  <2> QED
    BY <1>1, <2>1, <2>2, <2>3 DEF Write
<1>2. CASE DirectAppend
  BY <1>2 DEF DirectAppend
<1>3. ASSUME NEW c \in Clients, Serve(c) PROVE TypeOK'
  <2>1. CASE ReadState(c)
    BY <2>1 DEF ReadState
  <2>2. CASE ReadLines(c)
    <3>1. lines \in 0 .. MaxLines /\ since[c] \in 0 .. MaxLines
      OBVIOUS
    <3> QED
      BY <2>2, <3>1 DEF ReadLines
  <2>3. CASE Register(c) \/ HoldEnds(c)
    BY <2>3 DEF Register, HoldEnds
  <2> QED
    BY <1>3, <2>1, <2>2, <2>3 DEF Serve
<1>4. ASSUME NEW c \in Clients, Attend(c) \/ Start(c) PROVE TypeOK'
  <2>1. CASE Ask(c)
    BY <2>1 DEF Ask
  <2>2. CASE Save(c)
    BY <2>2 DEF Save
  <2>3. CASE Take(c)
    BY <2>3 DEF Take, Stops
  <2>4. CASE Start(c)
    BY <2>4 DEF Start
  <2> QED
    BY <1>4, <2>1, <2>2, <2>3, <2>4 DEF Attend
<1>5. ASSUME NEW c \in Clients, Receive(c) \/ Lose(c) \/ Crash(c) PROVE TypeOK'
  BY <1>5 DEF Receive, Lose, Crash
<1>6. CASE UNCHANGED vars
  BY <1>6 DEF vars
<1> QED
  BY <1>1, <1>2, <1>3, <1>4, <1>5, <1>6 DEF Next

LEMMA TypeInit == Init => TypeOK
  BY DEF Init, TypeOK, Points, Verdicts, Kinds

\* Cursors, responses and cursor files stay within the log.
THEOREM TypeCorrect == Spec => []TypeOK
  BY TypeInit, TypeStep, PTL DEF Spec

------------------------------------------------------------------------------
\* The cursor file is the cursor in memory, except while a batch is taken; what
\* was taken never lies beyond the file.
CursorInv ==
  \A c \in Clients :
    /\ taken[c] <= stored[c]
    /\ pc[c] \in Running \ {"take"} => since[c] = stored[c]
    /\ pc[c] \in {"respond", "save", "take"} => since[c] <= upto[c]
    /\ pc[c] = "take" => stored[c] = upto[c] /\ taken[c] <= since[c]

LEMMA CursorInit == Init => CursorInv
<1>1. Init => \A c \in Clients : pc[c] = "down" /\ taken[c] = 0 /\ stored[c] = 0
  BY DEF Init
<1>2. 0 <= 0
  OBVIOUS
<1> QED
  BY <1>1, <1>2 DEF CursorInv, Running, Serving

LEMMA CursorStep == TypeOK /\ CursorInv /\ [Next]_vars => CursorInv'
<1> SUFFICES ASSUME TypeOK, CursorInv, [Next]_vars PROVE CursorInv'
  OBVIOUS
<1> USE DEF CursorInv, TypeOK, Goto, Running, Serving, room, response, history
<1>1. ASSUME NEW p \in Posters, Write(p) PROVE CursorInv'
  BY <1>1 DEF Write, Admit, Close, Append, AppendFails, Notify
<1>2. ASSUME NEW c \in Clients, Serve(c) PROVE CursorInv'
  <2>1. CASE ReadState(c)
    BY <2>1 DEF ReadState
  <2>2. CASE ReadLines(c)
    BY <2>2 DEF ReadLines
  <2>3. CASE Register(c) \/ HoldEnds(c)
    BY <2>3 DEF Register, HoldEnds
  <2> QED
    BY <1>2, <2>1, <2>2, <2>3 DEF Serve
<1>3. ASSUME NEW c \in Clients, Attend(c) PROVE CursorInv'
  <2>1. CASE Ask(c)
    BY <2>1 DEF Ask
  <2>2. CASE Save(c)
    BY <2>2 DEF Save
  <2>3. CASE Take(c)
    BY <2>3 DEF Take
  <2> QED
    BY <1>3, <2>1, <2>2, <2>3 DEF Attend
<1>4. ASSUME NEW c \in Clients, Start(c) \/ Receive(c) \/ Lose(c) \/ Crash(c) PROVE CursorInv'
  <2>1. CASE Start(c)
    BY <2>1 DEF Start
  <2>2. CASE Receive(c) \/ Crash(c)
    BY <2>2 DEF Receive, Crash
  <2>3. CASE Lose(c)
    BY <2>3 DEF Lose
  <2> QED
    BY <1>4, <2>1, <2>2, <2>3
<1> QED
  BY <1>1, <1>2, <1>3, <1>4 DEF Next, DirectAppend, vars

\* The wake adapter's "no duplicate delivery": whatever dies or gets lost, no
\* client takes a line twice.
THEOREM NoLineTakenTwice == Spec => []AtMostOnce
<1>1. CursorInv => AtMostOnce
  BY DEF CursorInv, AtMostOnce
<1> QED
  BY <1>1, CursorInit, CursorStep, TypeCorrect, PTL DEF Spec

------------------------------------------------------------------------------
\* Between two batches a client that missed none has taken everything below its
\* cursor file.
SkipInv ==
  \A c \in Clients :
    ~missed[c] => taken[c] = IF pc[c] = "take" THEN since[c] ELSE stored[c]

LEMMA SkipStep ==
  ASSUME TypeOK, CursorInv, SkipInv, [Next]_vars
  PROVE  SkipInv'
<1> USE DEF SkipInv, CursorInv, TypeOK, Goto, Running, Serving, room, response, history
<1>1. ASSUME NEW p \in Posters, Write(p) PROVE SkipInv'
  BY <1>1 DEF Write, Admit, Close, Append, AppendFails, Notify
<1>2. ASSUME NEW c \in Clients, Serve(c) PROVE SkipInv'
  BY <1>2 DEF Serve, ReadState, ReadLines, Register, HoldEnds
<1>3. ASSUME NEW c \in Clients, Attend(c) PROVE SkipInv'
  <2>1. CASE Ask(c)
    BY <2>1 DEF Ask
  <2>2. CASE Save(c)
    BY <2>2 DEF Save
  <2>3. CASE Take(c)
    BY <2>3 DEF Take
  <2> QED
    BY <1>3, <2>1, <2>2, <2>3 DEF Attend
<1>4. ASSUME NEW c \in Clients, Start(c) \/ Receive(c) \/ Lose(c) PROVE SkipInv'
  BY <1>4 DEF Start, Receive, Lose
<1>5. ASSUME NEW c \in Clients, Crash(c) PROVE SkipInv'
  <2>1. /\ pc[c] \in Running /\ pc' = [pc EXCEPT ![c] = "down"]
        /\ UNCHANGED <<since, stored, taken>>
    BY <1>5 DEF Crash
  <2>2. ~missed'[c] => ~missed[c] /\ ~(pc[c] = "take" /\ upto[c] > since[c])
    BY <1>5 DEF Crash
  <2>3. ~missed'[c] => taken[c] = stored[c]
    BY <2>1, <2>2
  <2>4. \A d \in Clients \ {c} : missed'[d] = missed[d]
    BY <1>5 DEF Crash
  <2> QED
    BY <2>1, <2>3, <2>4
<1> QED
  BY <1>1, <1>2, <1>3, <1>4, <1>5 DEF Next, DirectAppend, vars

\* But for the batch whose taking a crash interrupts, a client takes every line
\* its cursor passes.
THEOREM NoLineSkipped == Spec => []NothingSkipped
<1>1. Init => SkipInv
  BY DEF Init, SkipInv
<1>2. TypeOK /\ CursorInv /\ SkipInv /\ [Next]_vars => CursorInv' /\ SkipInv'
  BY CursorStep, SkipStep
<1>3. CursorInv /\ SkipInv => NothingSkipped
  BY DEF CursorInv, SkipInv, NothingSkipped
<1> QED
  BY <1>1, <1>2, <1>3, CursorInit, TypeCorrect, PTL DEF Spec
==============================================================================
