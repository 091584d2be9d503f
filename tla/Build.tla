-------------------------------- MODULE Build --------------------------------
(***************************************************************************)
(* What a bundle stands on: the lock of each package, the rehearsal of the *)
(* products, and the contract that is copied into them.                    *)
(***************************************************************************)
EXTENDS Dependencies, Artifacts, Contract

(* A lock that is accepted is closed and still resolves once development is left out; a
   package has passed only with the lock it was run with, and a bundle only has such; every
   product has the contract that was compiled from the source its manifest names. *)
BuiltAsRun ==
  /\ LockClosed /\ InstalledResolves /\ DependenciesTypeOK
  /\ PassedAsRun /\ BundledAsPassed /\ ArtifactsTypeOK
  /\ VerifiedIsCompiled
==============================================================================
