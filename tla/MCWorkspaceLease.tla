-------------------------- MODULE MCWorkspaceLease --------------------------
(***************************************************************************)
(* Three processes, two of one workspace and one that asks for the same    *)
(* coordination root under another subject.                                *)
(***************************************************************************)
EXTENDS WorkspaceLease, TLC

CONSTANTS p1, p2, p3, workspace, moved

MCSubject == (p1 :> workspace) @@ (p2 :> workspace) @@ (p3 :> moved)
==============================================================================
