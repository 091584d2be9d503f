----------------------------- MODULE MCPromotion -----------------------------
(***************************************************************************)
(* A promotion, and the operations of two clients and two daemons of a     *)
(* connection: both are checked to come to their end.  (Connection's       *)
(* safety is checked on a larger instance, with a symmetry that liveness   *)
(* does not allow.)  They share no state; a behaviour is one of the part   *)
(* that it begins with.                                                    *)
(***************************************************************************)
EXTENDS Promotion, TLC

CONSTANTS None, c1, c2, d1, d2

VARIABLES part, lease, record, marker, phase, reqs, task, at, seen, stopped, spawner, late

Connection == INSTANCE Connection WITH Clients <- {c1, c2}, Daemons <- {d1, d2}, pc <- at

promotionState == <<current, candidate, next, previous, journal, plan, receipt, pc, edited, crashes>>
connectionState == <<lease, record, marker, phase, reqs, task, at, seen, stopped, spawner, late>>
both == <<part, promotionState, connectionState>>

Promoting == part = "promotion" /\ UNCHANGED <<part, connectionState>>
Connecting == part = "connection" /\ UNCHANGED <<part, promotionState>>

\* The trees that are not promoted are empty.
BothInit ==
  /\ part \in {"promotion", "connection"}
  /\ Init /\ (part = "promotion" \/ (current = Empty /\ candidate = Empty))
  /\ Connection!Init

BothNext == (Promoting /\ Next) \/ (Connecting /\ Connection!Next)

BothSpec ==
  /\ BothInit /\ [][BothNext]_both
  /\ WF_both(Promoting /\ Step)
  /\ Connection!Fairness
------------------------------------------------------------------------------
(* Every operation of a client ends, and no daemon that lives stays "starting". *)
ConnectionProgress == Connection!OperationsEnd /\ Connection!StartupResolves
==============================================================================
