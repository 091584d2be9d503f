---------------------------- MODULE MCMaintenance ----------------------------
(***************************************************************************)
(* Two backups to the same destination and a restore from it; one backup   *)
(* for what a crash spoils.  (MCServices checks that requests resume.)     *)
(***************************************************************************)
EXTENDS Maintenance, TLC

CONSTANTS b1, b2, r1

MCBackups == (b1 :> "backup") @@ (b2 :> "backup") @@ (r1 :> "restore")
MCOneBackup == b1 :> "backup"
==============================================================================
