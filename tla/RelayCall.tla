------------------------------ MODULE RelayCall ------------------------------
(***************************************************************************)
(* What a relay promises of each request: the host runs it at most once, and *)
(* one that is settled as not run is not run later.                        *)
(***************************************************************************)
EXTENDS Integers

CONSTANT Requests

VARIABLES
  runs,     \* how often the host ran each request
  verdict   \* what is settled about it

RTypeOK ==
  /\ runs \in [Requests -> {0, 1}]
  /\ verdict \in [Requests -> {"open", "answered", "notRun", "unknown"}]

RInit ==
  /\ runs = [r \in Requests |-> 0]
  /\ verdict = [r \in Requests |-> "open"]

\* Also after it was given up without knowing whether it was run
Run(r) ==
  /\ runs[r] = 0
  /\ verdict[r] \in {"open", "unknown"}
  /\ runs' = [runs EXCEPT ![r] = 1]
  /\ UNCHANGED verdict

\* Several requests may end together, when their route ends.
Tell(S) ==
  /\ \A r \in S : verdict[r] = "open"
  /\ \A r \in Requests \ S : verdict'[r] = verdict[r]
  /\ verdict' \in [Requests -> {"open", "answered", "notRun", "unknown"}]
  /\ \A r \in S : verdict'[r] = "notRun" => runs[r] = 0
  /\ UNCHANGED runs

RNext == (\E r \in Requests : Run(r)) \/ \E S \in SUBSET Requests : Tell(S)

RSpec == RInit /\ [][RNext]_<<runs, verdict>>
==============================================================================
