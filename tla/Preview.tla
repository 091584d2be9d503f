------------------------------- MODULE Preview -------------------------------
(***************************************************************************)
(* The managed preview installation of scripts/manage-preview.mjs: an      *)
(* install writes the program and an inventory of it under a root, an      *)
(* uninstall checks the inventory twice and removes what it lists.  Both   *)
(* may die between two file operations, run at once, and have a user who   *)
(* edits and adds files.  Stopping the connection is Connection's part.    *)
(***************************************************************************)
EXTENDS Naturals, FiniteSets

CONSTANTS
  Managers,           \* concurrent runs of the script
  Uninstallers,       \* those of them that may uninstall
  App,                \* the files of the bundle
  Managed,            \* the files written after them: manifest, marketplace, config
  Notes,              \* a file that no install ever writes
  MaxManagerDeaths

\* What is assumed of the constants.
ASSUME PreviewAssumption ==
  /\ Uninstallers \subseteq Managers
  /\ Notes \notin App \cup Managed /\ MaxManagerDeaths \in Nat

Program == App \cup Managed
Files == Program \cup {Notes}

VARIABLES
  root,        \* the root directory exists
  tree,        \* what each file holds: "absent", "ours", "torn" or "edited"
  descriptor,  \* managed-install.json: "none", "torn", or "whole" with its inventory
  manager,     \* each run: where it is and what it holds
  listed,      \* every file that some inventory ever listed
  managerDeaths

previewVars == <<root, tree, descriptor, manager, listed, managerDeaths>>

Snapshot == [f \in {g \in Files : tree[g] # "absent"} |-> tree[f]]
\* installed(): the tree is the inventory's, and the application, the manifest and the
\* configuration are the bundle's.
Installed ==
  /\ root /\ descriptor = [is |-> "whole", files |-> Snapshot]
  /\ \A f \in App \cup {"bundle", "config"} : tree[f] = "ours"
Idle == [at |-> "idle"]
------------------------------------------------------------------------------
PreviewInit ==
  /\ root = FALSE
  /\ tree = [f \in Files |-> "absent"]
  /\ descriptor = [is |-> "none"]
  /\ manager = [m \in Managers |-> Idle]
  /\ listed = {}
  /\ managerDeaths = 0

ManagerGoes(m, next) == manager' = [manager EXCEPT ![m] = next]
Holds(f, what) == tree' = [tree EXCEPT ![f] = what]

\* installPreview(): newRoot() and the checks of the bundle.
InstallChecks(m) ==
  /\ manager[m].at = "idle" /\ ~root
  /\ ManagerGoes(m, [at |-> "mkdir"])
  /\ UNCHANGED <<root, tree, descriptor, listed, managerDeaths>>

MakeRoot(m) ==
  /\ manager[m].at = "mkdir"
  /\ ManagerGoes(m, IF root THEN Idle ELSE [at |-> "put", left |-> Program])
  /\ root' = TRUE
  /\ UNCHANGED <<tree, descriptor, listed, managerDeaths>>

\* put(): every file is created exclusively, the application before the rest.  The
\* directories above it are made when they are missing, the root itself included.
PutFile(m) ==
  /\ manager[m].at = "put"
  /\ LET left == manager[m].left IN
     \E f \in IF left \cap App # {} THEN left \cap App ELSE left :
       IF tree[f] # "absent"
       THEN ManagerGoes(m, Idle) /\ UNCHANGED <<root, tree>>
       ELSE /\ root' = TRUE /\ Holds(f, "ours")
            /\ ManagerGoes(m, IF left = {f} THEN [at |-> "inventory"] ELSE [at |-> "put", left |-> left \ {f}])
  /\ UNCHANGED <<descriptor, listed, managerDeaths>>

\* tree(root): whatever is there now goes into the inventory.
Inventory(m) ==
  /\ manager[m].at = "inventory"
  /\ ManagerGoes(m, IF root THEN [at |-> "describe", files |-> Snapshot] ELSE Idle)
  /\ UNCHANGED <<root, tree, descriptor, listed, managerDeaths>>

\* managed-install.json is put() like the others, as the last file; then doctorPreview().
Describe(m) ==
  /\ manager[m].at = "describe"
  /\ IF descriptor.is = "none"
     THEN /\ root' = TRUE /\ descriptor' = [is |-> "whole", files |-> manager[m].files]
          /\ listed' = listed \cup DOMAIN manager[m].files
     ELSE UNCHANGED <<root, descriptor, listed>>
  /\ ManagerGoes(m, Idle)
  /\ UNCHANGED <<tree, managerDeaths>>

\* uninstallPreview(): installed(); then the worker and the connection are stopped.
UninstallChecks(m) ==
  /\ m \in Uninstallers /\ manager[m].at = "idle" /\ Installed
  /\ ManagerGoes(m, [at |-> "recheck"])
  /\ UNCHANGED <<root, tree, descriptor, listed, managerDeaths>>

\* installed() again "immediately before touching program files".
Recheck(m) ==
  /\ manager[m].at = "recheck"
  /\ ManagerGoes(m, IF Installed THEN [at |-> "unlink", left |-> DOMAIN Snapshot] ELSE Idle)
  /\ UNCHANGED <<root, tree, descriptor, listed, managerDeaths>>

\* Mutant of Unlink: whatever is found in the root is removed.
UnlinkTree(m) ==
  /\ manager[m].at = "unlink"
  /\ tree' = [f \in Files |-> "absent"]
  /\ ManagerGoes(m, [at |-> "forget"])
  /\ UNCHANGED <<root, descriptor, listed, managerDeaths>>

\* One listed file after the other is unlinked; one that is missing ends it.
Unlink(m) ==
  /\ manager[m].at = "unlink"
  /\ LET left == manager[m].left IN
     \E f \in left :
       IF tree[f] = "absent" THEN ManagerGoes(m, Idle) /\ UNCHANGED tree
       ELSE /\ Holds(f, "absent")
            /\ ManagerGoes(m, IF left = {f} THEN [at |-> "forget"] ELSE [at |-> "unlink", left |-> left \ {f}])
  /\ UNCHANGED <<root, descriptor, listed, managerDeaths>>

Forget(m) ==
  /\ manager[m].at = "forget"
  /\ ManagerGoes(m, IF descriptor.is = "none" THEN Idle ELSE [at |-> "rmdir"])
  /\ descriptor' = [is |-> "none"]
  /\ UNCHANGED <<root, tree, listed, managerDeaths>>

\* rmdir of the directories and the root: none may hold a file.
RemoveRoot(m) ==
  /\ manager[m].at = "rmdir"
  /\ ManagerGoes(m, Idle)
  /\ root' = (root /\ (descriptor.is # "none" \/ \E f \in Files : tree[f] # "absent"))
  /\ UNCHANGED <<tree, descriptor, listed, managerDeaths>>

\* A run dies, a file or the inventory half written if it was writing one, or the
\* directories above it made.
ManagerDies(m) ==
  /\ manager[m].at # "idle"
  /\ managerDeaths < MaxManagerDeaths /\ managerDeaths' = managerDeaths + 1
  /\ ManagerGoes(m, Idle)
  /\ \/ /\ root' \in {root, root \/ manager[m].at \in {"put", "describe"}}
        /\ UNCHANGED <<tree, descriptor>>
     \/ /\ manager[m].at = "put" /\ root' = TRUE
        /\ \E f \in manager[m].left : tree[f] = "absent" /\ Holds(f, "torn")
        /\ UNCHANGED descriptor
     \/ /\ manager[m].at = "describe" /\ root' = TRUE
        /\ descriptor.is = "none" /\ descriptor' = [is |-> "torn"]
        /\ UNCHANGED tree
  /\ UNCHANGED listed

\* The user edits a program file or keeps a file of their own in the root.
UserEditsPreview ==
  /\ root
  /\ \/ \E f \in Program : tree[f] \in {"ours", "torn"} /\ Holds(f, "edited")
     \/ tree[Notes] = "absent" /\ Holds(Notes, "edited")
  /\ UNCHANGED <<root, descriptor, manager, listed, managerDeaths>>

PreviewNext ==
  \/ \E m \in Managers : \/ InstallChecks(m) \/ MakeRoot(m) \/ PutFile(m) \/ Inventory(m) \/ Describe(m)
                         \/ UninstallChecks(m) \/ Recheck(m) \/ Unlink(m) \/ Forget(m) \/ RemoveRoot(m)
                         \/ ManagerDies(m)
  \/ UserEditsPreview

PreviewSpec == PreviewInit /\ [][PreviewNext]_previewVars
------------------------------------------------------------------------------
PreviewTypeOK ==
  /\ root \in BOOLEAN /\ tree \in [Files -> {"absent", "ours", "torn", "edited"}]
  /\ \A m \in Managers : manager[m].at \in
       {"idle", "mkdir", "put", "inventory", "describe", "recheck", "unlink", "forget", "rmdir"}
  /\ ~root => \A f \in Files : tree[f] = "absent"

\* Nothing keeps two uninstalls apart: one that has forgotten the inventory then removes a
\* root in which the other still unlinks, beside an install that has begun meanwhile.
OneUninstaller == \A m, n \in Uninstallers : m = n

(* Where one uninstall runs at a time, what doctor and uninstall accept as an
   installation is a complete one: no death, concurrent install or edit leaves an accepted
   root that lacks a file or holds half of one. *)
InstalledIsComplete ==
  OneUninstaller /\ Installed => \A f \in Program : tree[f] \in {"ours", "edited"}

(* A file that no inventory ever listed is never removed.  An inventory lists whatever is
   in the root when the install takes it, so a file that the user had put there before is
   the installation's from then on; one that came after is not. *)
UnlistedSurvives ==
  [][\A f \in Files \ listed : tree[f] # "absent" => tree'[f] # "absent"]_previewVars

(* An accepted installation of the preview is complete, and no file is ever removed that
   came after the inventory was taken, or to a root that never had one. *)
PreviewKept == []InstalledIsComplete /\ UnlistedSurvives /\ []PreviewTypeOK
==============================================================================
