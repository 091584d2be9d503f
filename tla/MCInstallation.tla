--------------------------- MODULE MCInstallation ---------------------------
(***************************************************************************)
(* Two setups of one workspace, one of each mode, and an upgrade.          *)
(***************************************************************************)
EXTENDS Installation, TLC

CONSTANTS s1, s2, u1, w1

MCMode == (s1 :> "initialize") @@ (s2 :> "attach")
MCPlace == (s1 :> w1) @@ (s2 :> w1)
MCFrom == u1 :> "old"
==============================================================================
