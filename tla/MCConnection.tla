---------------------------- MODULE MCConnection ----------------------------
(***************************************************************************)
(* Three client processes and three daemons: one recovery or maintenance   *)
(* can run against a daemon that another client started while a third      *)
(* daemon, spawned earlier, is still starting.  (MCPromotion checks that   *)
(* the operations end, without the symmetry.)                              *)
(***************************************************************************)
EXTENDS Connection, TLC

Symmetry == Permutations(Clients) \cup Permutations(Daemons)
==============================================================================
