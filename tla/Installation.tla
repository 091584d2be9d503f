---------------------------- MODULE Installation ----------------------------
(***************************************************************************)
(* Setting up a workspace and upgrading its project template               *)
(* (integration/workspace/bootstrap.ts and upgrade.ts).  Both run under    *)
(* the installation lease, so one request runs at a time; a process that   *)
(* dies gives it up, and the same request can be made again.  A setup      *)
(* retains its intent in a journal, creates the project file by file, lets *)
(* the products initialize the state and publishes the binding.  Their     *)
(* owner may save or remove project files at any time.                     *)
(* A workspace stands for a project root, a state root and an id; paths    *)
(* and permissions are left out.  An installation that a workspace is      *)
(* bound to may activate its connection (Connection): the activation has   *)
(* the workspace lease, which a setup and an upgrade also take, but the    *)
(* daemon that it spawns writes its record without it, perhaps later.      *)
(***************************************************************************)
EXTENDS Naturals

CONSTANTS
  Setups,      \* setup requests
  Mode,        \* "initialize" or "attach", of each
  Place,       \* the workspace it names
  Upgrades,    \* upgrade requests
  From,        \* the template version each expects
  Workspaces, Templates,
  None,        \* no request, no plan
  MaxMishaps,  \* bound: deaths and failed openings
  MaxEdits     \* bound: files saved or removed by their owner

Valid == {"old", "new"}  \* a marker of template version 0.1.1, 0.2.0

ASSUME InstallationAssumption ==
  /\ Mode \in [Setups -> {"initialize", "attach"}]
  /\ Place \in [Setups -> Workspaces]
  /\ From \in [Upgrades -> Valid]
  /\ Setups \cap Upgrades = {}
  /\ {None, "torn"} \cap (Setups \cup Upgrades \cup Workspaces \cup Templates) = {}
  /\ None \notin Valid \cup {"torn"}
  /\ \A T \in SUBSET Templates : T # None
  /\ MaxMishaps \in Nat /\ MaxEdits \in Nat

VARIABLES
  configured,  \* the workspace of config.json itself, or None
  binding,     \* the setup whose binding is published, or None
  journal,     \* binding.setup.json: a setup, "torn" or None
  marker,      \* workspace-project.json of each project
  file,        \* the template files of each project
  state,       \* the state root of each workspace
  leased,      \* workspaces whose lease an activation has
  booting,     \* workspaces with a daemon that has not written its record yet
  served,      \* workspaces whose connection record exists
  late,        \* auxiliary: those served since their daemon's activation had ended
  saved,       \* the marker each upgrade has backed up, or None
  plan,        \* the files each upgrade has planned to create, or None
  run,         \* the request that has the installation lease, or None
  pc,          \* where it is
  todo,        \* template files it has not looked at
  at,          \* the one it is creating
  touched,     \* auxiliary: files their owner changed since it looked at them
  mishaps, edits  \* bound counters

setting == <<configured, binding, journal, state>>
project == <<marker, file>>
upgrading == <<saved, plan>>
work == <<todo, at, touched>>
daemons == <<leased, booting, served, late>>
rest == <<daemons, mishaps, edits>>
vars == <<setting, project, upgrading, work, rest, run, pc>>

Inside == {"marker", "label", "files", "create", "fill", "owners", "publish", "unlink"}
Places == Inside \cup {"idle", "bound", "journal", "write", "intent", "inside",
                       "plan", "backup", "writeplan", "gaps", "rename", "mark"}

TypeOK ==
  /\ configured \in Workspaces \cup {None}
  /\ binding \in Setups \cup {None}
  /\ journal \in Setups \cup {None, "torn"}
  /\ marker \in [Workspaces -> Valid \cup {"none", "torn"}]
  /\ file \in [Workspaces -> [Templates -> {"none", "torn", "whole", "user"}]]
  /\ state \in [Workspaces -> {"empty", "partial", "identity"}]
  /\ leased \subseteq Workspaces /\ booting \subseteq Workspaces
  /\ served \subseteq Workspaces /\ late \subseteq Workspaces
  /\ saved \in [Upgrades -> Valid \cup {None}]
  /\ plan \in [Upgrades -> {None} \cup SUBSET Templates]
  /\ run \in Setups \cup Upgrades \cup {None}
  /\ pc \in Places
  /\ todo \subseteq Templates /\ touched \subseteq Templates
  /\ at \in Templates \cup {None}
  /\ mishaps \in 0..MaxMishaps /\ edits \in 0..MaxEdits
------------------------------------------------------------------------------
\* Workspaces that are new, or were made by this or an earlier release; one of
\* them may be the workspace an earlier installation put in its configuration.
Init ==
  /\ state \in [Workspaces -> {"empty", "identity"}]
  /\ marker \in [Workspaces -> Valid \cup {"none"}]
  /\ file \in [Workspaces -> [Templates -> {"none", "user"}]]
  /\ \A w \in Workspaces : marker[w] # "none" => state[w] = "identity"
  /\ configured \in {w \in Workspaces : state[w] = "identity"} \cup {None}
  /\ binding = None /\ journal = None
  /\ leased = {} /\ booting = {} /\ served = {} /\ late = {}
  /\ saved = [u \in Upgrades |-> None] /\ plan = saved
  /\ run = None /\ pc = "idle" /\ todo = {} /\ at = None /\ touched = {}
  /\ mishaps = 0 /\ edits = 0

\* The workspace the running request works on.
W == IF run \in Setups THEN Place[run] ELSE Place[binding]

Goto(from, to) == pc = from /\ pc' = to /\ UNCHANGED run

\* The call returns or rejects; the leases are released.
End == pc' = "idle" /\ run' = None

\* The step at `from` goes on to `to` if what it checks holds, else the call rejects.
Check(from, holds, to) ==
  /\ pc = from
  /\ IF holds THEN pc' = to /\ UNCHANGED run ELSE End

\* loadInstallationConfiguration validates the bound project; then the lease.
Acquire(r, to) ==
  /\ run = None
  /\ binding # None => marker[Place[binding]] \in Valid
  /\ run' = r
  /\ pc' = to

BeginSetup(s) ==
  /\ Acquire(s, "bound")
  /\ UNCHANGED <<setting, project, upgrading, work, rest>>

\* Already bound: the same workspace is reused, and a journal of the setup that
\* bound it is removed; WORKSPACE_ALREADY_BOUND or SETUP_CONFLICT otherwise.
Reuse ==
  /\ pc = "bound"
  /\ binding # None
  /\ journal' = IF Place[binding] = W /\ journal = binding THEN None ELSE journal
  /\ End
  /\ UNCHANGED <<configured, binding, state, project, upgrading, work, rest>>

\* Not bound: a workspace of the configuration itself can only be attached.
Unbound ==
  /\ binding = None
  /\ Check("bound", configured # None => configured = W /\ Mode[run] = "attach", "journal")
  /\ UNCHANGED <<setting, project, upgrading, work, rest>>

Occupied(w) == marker[w] # "none" \/ \E f \in Templates : file[w][f] # "none"

\* A new setup: an initialization needs empty roots, an attachment valid ones.
Admissible ==
  /\ Mode[run] = "initialize" => ~Occupied(W) /\ state[W] = "empty"
  /\ Mode[run] = "attach" => (Occupied(W) => marker[W] \in Valid) /\ state[W] = "identity"
  /\ W \notin served

\* Mutant of ReadJournal: any journal that parses is resumed.
ReadAnyJournal ==
  /\ journal # None
  /\ Check("journal", journal # "torn", "intent")
  /\ UNCHANGED <<setting, project, upgrading, work, rest>>

\* Mutant of ReadJournal: an interrupted setup has to be admissible once more.
ReadFreshJournal ==
  /\ journal # None
  /\ Check("journal", journal = run /\ Admissible, "intent")
  /\ UNCHANGED <<setting, project, upgrading, work, rest>>

\* Only the exact intent is resumed.
ReadJournal ==
  /\ journal # None
  /\ Check("journal", journal = run, "intent")
  /\ UNCHANGED <<setting, project, upgrading, work, rest>>

\* exclusive(journal): the file is created ...
CreateJournal ==
  /\ journal = None
  /\ Check("journal", Admissible, "write")
  /\ journal' = IF Admissible THEN "torn" ELSE journal
  /\ UNCHANGED <<configured, binding, state, project, upgrading, work, rest>>

\* ... and written.
WriteJournal ==
  /\ Goto("write", "intent")
  /\ journal' = run
  /\ UNCHANGED <<configured, binding, state, project, upgrading, work, rest>>

Resume ==
  /\ Check("intent", Mode[run] = "attach" => state[W] = "identity", "inside")
  /\ UNCHANGED <<setting, project, upgrading, work, rest>>

\* Mutant of Enter: the connection is not looked for again.
EnterUnchecked ==
  /\ Goto("inside", "marker")
  /\ UNCHANGED <<setting, project, upgrading, work, rest>>

\* WORKSPACE_BUSY; or, with the workspace lease, CONNECTION_MUST_STOP or makeProject.
Enter ==
  /\ Check("inside", W \notin leased \cup served, "marker")
  /\ UNCHANGED <<setting, project, upgrading, work, rest>>

\* Every template file has still to be looked at.
Templated == todo' = Templates /\ touched' = {} /\ UNCHANGED at

\* makeProject validates a marker that exists, or creates it ...
MakeMarker ==
  /\ \/ marker[W] = "none" /\ Goto("marker", "label") /\ marker' = [marker EXCEPT ![W] = "torn"]
     \/ marker[W] # "none" /\ Check("marker", marker[W] \in Valid, "files") /\ UNCHANGED marker
  /\ Templated
  /\ UNCHANGED <<setting, file, upgrading, rest>>

\* ... and writes it.
WriteMarker ==
  /\ Goto("label", "files")
  /\ marker' = [marker EXCEPT ![W] = "new"]
  /\ UNCHANGED <<setting, file, upgrading, work, rest>>

\* A file is there, torn or whole, or it is created next.
LookAt(f) ==
  /\ f \in todo
  /\ todo' = todo \ {f}
  /\ touched' = touched \ {f}
  /\ at' = IF file[W][f] = "none" THEN f ELSE None
  /\ Goto("files", IF file[W][f] = "none" THEN "create" ELSE "files")
  /\ UNCHANGED <<setting, project, upgrading, rest>>

\* exclusive(target): EEXIST, or the file is created ...
Create ==
  /\ Check("create", file[W][at] = "none", "fill")
  /\ file' = IF file[W][at] = "none" THEN [file EXCEPT ![W][at] = "torn"] ELSE file
  /\ UNCHANGED <<setting, marker, upgrading, work, rest>>

\* ... and written, unless its owner has replaced or removed it.
Fill ==
  /\ Goto("fill", "files")
  /\ file' = IF file[W][at] = "torn" THEN [file EXCEPT ![W][at] = "whole"] ELSE file
  /\ UNCHANGED <<setting, marker, upgrading, work, rest>>

ProjectMade ==
  /\ todo = {}
  /\ Goto("files", "owners")
  /\ UNCHANGED <<setting, project, upgrading, work, rest>>

\* Mutant of OpenOwners: the identity that the products write is not compared.
OpenAnyOwners ==
  /\ Goto("owners", "publish")
  /\ \E s \in {"partial", "identity"} :
       state' = [state EXCEPT ![W] = IF @ = "identity" THEN @ ELSE s]
  /\ UNCHANGED <<configured, binding, journal, project, upgrading, work, rest>>

\* The products open the state and write its identity.
OpenOwners ==
  /\ Goto("owners", "publish")
  /\ state' = [state EXCEPT ![W] = "identity"]
  /\ UNCHANGED <<configured, binding, journal, project, upgrading, work, rest>>

\* publishBinding: WORKSPACE_ALREADY_BOUND, or a complete file is renamed.
Publish ==
  /\ Check("publish", binding = None, "unlink")
  /\ binding' = IF binding = None THEN run ELSE binding
  /\ UNCHANGED <<configured, journal, state, project, upgrading, work, rest>>

Unlink ==
  /\ pc = "unlink"
  /\ journal' = None
  /\ End
  /\ UNCHANGED <<configured, binding, state, project, upgrading, work, rest>>
------------------------------------------------------------------------------
\* template.upgrade, of a bound workspace under its lease, its connection stopped.
BeginUpgrade(u) ==
  /\ binding # None
  /\ Place[binding] \notin leased \cup served
  /\ Acquire(u, "plan")
  /\ UNCHANGED <<setting, project, upgrading, work, rest>>

\* A new upgrade needs the version it expects and plans the missing files.
NewPlan ==
  /\ plan[run] = None
  /\ Check("plan", marker[W] = From[run], "backup")
  /\ todo' = {f \in Templates : file[W][f] = "none"}
  /\ UNCHANGED <<setting, project, upgrading, at, touched, rest>>

\* A retained plan: the marker is the backed up one or the upgraded one.
OldPlan ==
  /\ plan[run] # None
  /\ Check("plan", saved[run] = From[run] /\ marker[W] \in {From[run], "new"}, "gaps")
  /\ todo' = plan[run]
  /\ UNCHANGED <<setting, project, upgrading, at, touched, rest>>

\* createFile(backupPath), or it has the same bytes.
Backup ==
  /\ Check("backup", saved[run] \in {None, marker[W]}, "writeplan")
  /\ saved' = [saved EXCEPT ![run] = IF @ = None THEN marker[W] ELSE @]
  /\ UNCHANGED <<setting, project, plan, work, rest>>

\* createFile(planPath): staged and renamed whole.
WritePlan ==
  /\ Goto("writeplan", "gaps")
  /\ plan' = [plan EXCEPT ![run] = todo]
  /\ UNCHANGED <<setting, project, saved, work, rest>>

\* Mutant of LookAtGap: a file that exists meanwhile is replaced.
LookAtNothing(f) ==
  /\ f \in todo
  /\ todo' = todo \ {f}
  /\ touched' = touched \ {f}
  /\ at' = f
  /\ Goto("gaps", "rename")
  /\ UNCHANGED <<setting, project, upgrading, rest>>

\* A planned file exists with the template's bytes, or TEMPLATE_UPGRADE_CONFLICT;
\* or it is still missing and its bytes are staged.
LookAtGap(f) ==
  /\ f \in todo
  /\ todo' = todo \ {f}
  /\ touched' = touched \ {f}
  /\ at' = f
  /\ \/ file[W][f] = "none" /\ Goto("gaps", "rename")
     \/ file[W][f] # "none" /\ Check("gaps", file[W][f] = "whole", "gaps")
  /\ UNCHANGED <<setting, project, upgrading, rest>>

\* renameSync(pending, filename), which replaces what is there by now.
Rename ==
  /\ Goto("rename", "gaps")
  /\ file' = [file EXCEPT ![W][at] = "whole"]
  /\ UNCHANGED <<setting, marker, upgrading, work, rest>>

\* Mutant of GapsFilled: the marker is upgraded first.
GapsIgnored ==
  /\ Goto("gaps", "mark")
  /\ UNCHANGED <<setting, project, upgrading, work, rest>>

GapsFilled ==
  /\ todo = {}
  /\ Goto("gaps", "mark")
  /\ UNCHANGED <<setting, project, upgrading, work, rest>>

\* The original marker is replaced by a rename; an upgraded one is left.
Mark ==
  /\ pc = "mark"
  /\ marker' = [marker EXCEPT ![W] = IF @ = From[run] THEN "new" ELSE @]
  /\ End
  /\ UNCHANGED <<setting, file, upgrading, work, rest>>
------------------------------------------------------------------------------
\* The process dies, or an operation of it fails; half a state may be left.
Crash ==
  /\ run # None
  /\ mishaps < MaxMishaps
  /\ mishaps' = mishaps + 1
  /\ state' \in IF pc = "owners" /\ state[W] = "empty"
                THEN {state, [state EXCEPT ![W] = "partial"]} ELSE {state}
  /\ End
  /\ todo' = {} /\ at' = None /\ touched' = {}
  /\ UNCHANGED <<configured, binding, journal, project, upgrading, daemons, edits>>

\* The running request has the lease of W: a setup inside, or an upgrade.
HasLease == (run \in Setups /\ pc \in Inside) \/ run \in Upgrades

\* activateVerifiedConnection, with the workspace lease: where there is no record a
\* detached daemon is spawned (bound: one at a time that has not written its record).
Activate(w) ==
  /\ w \notin leased \cup booting
  /\ ~(HasLease /\ W = w)
  /\ state[w] = "identity"
  /\ leased' = leased \cup {w}
  /\ booting' = IF w \in served THEN booting ELSE booting \cup {w}
  /\ UNCHANGED <<served, late>>

\* The record is ready or failed, STARTUP_TIMEOUT, or the client dies: its lease is
\* free, and the daemon goes on.
ActivationEnds(w) ==
  /\ w \in leased
  /\ leased' = leased \ {w}
  /\ UNCHANGED <<booting, served, late>>

\* runDaemon: the record is linked, whoever has the lease by now.
Elect(w) ==
  /\ w \in booting \ served
  /\ booting' = booting \ {w}
  /\ served' = served \cup {w}
  /\ late' = IF w \in leased THEN late ELSE late \cup {w}
  /\ UNCHANGED leased

\* EEXIST, RECOVERY_PENDING, or the process dies before.
NotElected(w) ==
  /\ w \in booting
  /\ booting' = booting \ {w}
  /\ UNCHANGED <<leased, served, late>>

\* The record goes: a stop under the lease, or without it the recovery of a dead daemon's.
Unserve(w) ==
  /\ w \in served
  /\ served' = served \ {w}
  /\ late' = late \ {w}
  /\ UNCHANGED <<leased, booting>>

Others(w) ==
  /\ Activate(w) \/ ActivationEnds(w) \/ Elect(w) \/ NotElected(w) \/ Unserve(w)
  /\ UNCHANGED <<setting, project, upgrading, work, mishaps, edits, run, pc>>

\* The owner of a project saves or removes a file of it.
Edit(w, f) ==
  /\ edits < MaxEdits
  /\ edits' = edits + 1
  /\ \E c \in {"none", "user"} \ {file[w][f]} : file' = [file EXCEPT ![w][f] = c]
  /\ touched' = IF run # None /\ W = w THEN touched \cup {f} ELSE touched
  /\ UNCHANGED <<setting, marker, upgrading, todo, at, daemons, mishaps, run, pc>>

SetupStep ==
  /\ run \in Setups
  /\ \/ Reuse \/ Unbound \/ ReadJournal \/ CreateJournal \/ WriteJournal \/ Resume \/ Enter
     \/ MakeMarker \/ WriteMarker \/ (\E f \in Templates : LookAt(f)) \/ Create \/ Fill
     \/ ProjectMade \/ OpenOwners \/ Publish \/ Unlink

UpgradeStep ==
  /\ run \in Upgrades
  /\ \/ NewPlan \/ OldPlan \/ Backup \/ WritePlan \/ (\E f \in Templates : LookAtGap(f))
     \/ Rename \/ GapsFilled \/ Mark

Next ==
  \/ \E s \in Setups : BeginSetup(s)
  \/ \E u \in Upgrades : BeginUpgrade(u)
  \/ SetupStep \/ UpgradeStep \/ Crash
  \/ \E w \in Workspaces : Others(w) \/ \E f \in Templates : Edit(w, f)

Spec == Init /\ [][Next]_vars

\* A request runs on, and a setup is made again until the workspace is bound.
FairSpec ==
  Spec /\ WF_vars(SetupStep \/ UpgradeStep) /\ \A s \in Setups : SF_vars(BeginSetup(s))
------------------------------------------------------------------------------
(* bootstrap.ts: "Retained exact intent permits recovery after interruption, but
   never a different setup": project marker and state are only created by the
   setup whose intent is retained. *)
NeverADifferentSetup ==
  [][\A w \in Workspaces :
       marker'[w] # marker[w] \/ state'[w] # state[w] =>
         run \in Upgrades \/ (journal = run /\ Place[run] = w)]_vars

(* A published binding names a workspace with a readable marker and the state
   identity, in whichever way setups and upgrades were interrupted before. *)
BoundIsWhole ==
  binding # None => marker[Place[binding]] \in Valid /\ state[Place[binding]] = "identity"

(* While a setup or an upgrade works on a workspace, under its lease, the only daemon
   that can have a record of it is one whose activation had ended before the daemon was
   elected: none that was there when they looked, and none of an activation since. *)
OnlyLateBeside == HasLease /\ W \in served => W \in late

(* upgrade.ts: "Templates never replace user bytes": a file that its owner saved
   is only replaced if it was saved after the request looked at it. *)
OnlyHastySavesReplaced ==
  [][\A w \in Workspaces, f \in Templates :
       file[w][f] = "user" /\ file'[w][f] # "user" =>
         edits' # edits \/ (W = w /\ f \in touched)]_vars

(* What is declared done is done: a binding is published, and a marker upgraded,
   only after every file it stands for was there, and an upgraded marker has a
   backup. *)
DeclaredMeansDone ==
  [][/\ binding = None /\ binding' # None =>
          \A f \in Templates \ touched : file[W][f] # "none"
     /\ \A w \in Workspaces :
          marker[w] = "old" /\ marker'[w] = "new" =>
            /\ run \in Upgrades
            /\ saved[run] = "old"
            /\ \A f \in plan[run] \ touched : file[w][f] # "none"]_vars

(* Liveness.  A setup whose intent is retained and that is made again ends with
   a binding, unless a connection is activated or the marker was left torn. *)
SetupResumes ==
  \A s \in Setups :
    journal = s ~> binding # None \/ Place[s] \in leased \cup served \/ marker[Place[s]] = "torn"

(* bootstrap.ts: "Retained exact intent permits recovery after interruption". *)
SetupRecovers ==
  \A s \in Setups : journal = s ~> binding # None \/ Place[s] \in leased \cup served
==============================================================================
