----------------------------- MODULE MCDashboard -----------------------------
(* Instances of Dashboard for TLC.  The transcript, the saved transcripts and the *)
(* manage view share the page but hardly any state, so a behaviour is about one  *)
(* of them: what only the others use stays as it was.  A paused room is left out: *)
(* its requests end as those of an active room whose host does not answer.       *)
EXTENDS Dashboard, TLC

VARIABLE about

MCInit == DashboardInit /\ about \in {"transcript", "snapshot", "manage"}

MCNext ==
  /\ DashboardNext
  /\ about' = about
  /\ about # "transcript" => UNCHANGED <<served, status, cache, timers>>
  /\ \A r \in Rooms : status'[r] # "paused"
  /\ about # "snapshot" => UNCHANGED <<copy, band>>
  /\ about # "manage" => UNCHANGED <<store, listed, live, reply, manage, run>>
  /\ about = "manage" => UNCHANGED <<call, view>>

MCSpec == MCInit /\ [][MCNext]_<<dashboardVars, about>>

Symmetric == Permutations(Calls) \cup Permutations(Rooms)
==============================================================================
