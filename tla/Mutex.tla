-------------------------------- MODULE Mutex --------------------------------
(***************************************************************************)
(* What withWriterLock promises its callers: at most one of them runs its  *)
(* protected function at a time.  A caller enters when nobody is inside,   *)
(* and leaves by finishing or by dying with its process.                   *)
(***************************************************************************)
CONSTANT Callers

VARIABLE holders   \* the callers that run their protected function

MInit == holders = {}

MEnter(c) == /\ holders = {}
             /\ holders' = {c}

MLeave(c) == /\ c \in holders
             /\ holders' = holders \ {c}

MNext == \E c \in Callers : MEnter(c) \/ MLeave(c)

MSpec == MInit /\ [][MNext]_holders
==============================================================================
