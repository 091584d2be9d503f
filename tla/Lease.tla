-------------------------------- MODULE Lease --------------------------------
(***************************************************************************)
(* What a coordination lease promises, whatever implements it: at most one *)
(* process is inside its callback, and the lease passes from one process   *)
(* to another only through a moment in which nobody holds it.  A holder    *)
(* that dies gives the lease up like one that returns.                     *)
(***************************************************************************)
CONSTANTS
  Proc,   \* the processes that may ask for the lease
  NoOne   \* the holder of a free lease

VARIABLE holder  \* the process inside its callback, or NoOne

LeaseTypeOK == holder \in Proc \cup {NoOne}

LeaseInit == holder = NoOne

Acquire(p) ==
  /\ holder = NoOne
  /\ holder' = p

Release(p) ==
  /\ holder = p
  /\ holder' = NoOne

LeaseNext == \E p \in Proc : Acquire(p) \/ Release(p)

LeaseSpec == LeaseInit /\ [][LeaseNext]_holder
==============================================================================
