------------------------- MODULE InstallationProofs -------------------------
(***************************************************************************)
(* The safety properties of Installation, for any workspaces, templates,   *)
(* setups and upgrades, and any number of deaths and edits.  The invariant *)
(* says what the running request has found out or done so far and who else *)
(* can still change it: its owner can, and then the file is touched.       *)
(***************************************************************************)
EXTENDS Installation, TLAPS

SetupPlaces == Inside \cup {"bound", "journal", "write", "intent", "inside"}
UpgradePlaces == {"plan", "backup", "writeplan", "gaps", "rename", "mark"}

(* Each request is at one of its own places. *)
Turns ==
  /\ run = None => pc = "idle"
  /\ run \in Setups => pc \in SetupPlaces
  /\ run \in Upgrades => pc \in UpgradePlaces /\ binding # None

(* A setup goes on only with its own journal and without a binding. *)
SetupIsRetained ==
  run \in Setups =>
    /\ pc \notin {"bound", "unlink"} => binding = None
    /\ pc \in Inside \cup {"intent", "inside"} => journal = run

(* Who works on a workspace has its lease, so that no activation has it, and a
   daemon was elected since only if its activation had ended. *)
NoneElected(w) == w \notin leased /\ (w \in served => w \in late)
LeaseIsKept ==
  /\ run \in Setups /\ pc \in Inside => NoneElected(Place[run])
  /\ run \in Upgrades => NoneElected(Place[binding])

(* The project and the state of a running setup, as far as it has come.  A file
   it has looked at exists, unless its owner touched it or it is being created. *)
SetupProgress ==
  run \in Setups =>
    /\ pc = "label" => marker[Place[run]] = "torn"
    /\ pc \in Inside \ {"marker", "label"} => marker[Place[run]] \in Valid
    /\ pc \in {"publish", "unlink"} => state[Place[run]] = "identity"
    /\ pc \in {"create", "fill"} => at \in Templates
    /\ pc \in {"label", "files", "create", "fill", "owners", "publish"} =>
         \A f \in Templates \ (todo \cup touched) :
           file[Place[run]][f] # "none" \/ (pc = "create" /\ f = at)
    /\ pc \in {"owners", "publish"} => todo = {}

(* The same of a running upgrade. *)
UpgradeProgress ==
  run \in Upgrades =>
    /\ pc = "backup" => marker[Place[binding]] = From[run]
    /\ pc \in {"writeplan", "gaps", "rename", "mark"} => saved[run] = From[run]
    /\ pc \in {"gaps", "rename", "mark"} =>
         \A f \in plan[run] \ (todo \cup touched) :
           file[Place[binding]][f] # "none" \/ (pc = "rename" /\ f = at)
    /\ pc = "rename" =>
         at \in Templates /\ (file[Place[binding]][at] = "none" \/ at \in touched)
    /\ pc = "mark" => todo = {}

IInv ==
  /\ TypeOK
  /\ Turns
  /\ SetupIsRetained
  /\ LeaseIsKept
  /\ SetupProgress
  /\ UpgradeProgress
  /\ BoundIsWhole
------------------------------------------------------------------------------
(* The initial state satisfies the invariant. *)
LEMMA InitIInv == Init => IInv
<1> SUFFICES ASSUME Init PROVE IInv
  OBVIOUS
<1> USE InstallationAssumption
<1>1. TypeOK
  <2>1. saved \in [Upgrades -> Valid \cup {None}] /\ plan \in [Upgrades -> {None} \cup SUBSET Templates]
    BY DEF Init
  <2>2. file \in [Workspaces -> [Templates -> {"none", "torn", "whole", "user"}]]
    BY DEF Init
  <2> QED
    BY <2>1, <2>2 DEF Init, TypeOK, Places, Valid
<1> QED
  BY <1>1 DEF Init, IInv, Turns, SetupIsRetained, LeaseIsKept, SetupProgress,
              UpgradeProgress, BoundIsWhole

(* Which workspace the running request works on. *)
LEMMA Where ==
  ASSUME TypeOK, Turns
  PROVE  /\ run \in Setups => W = Place[run] /\ W \in Workspaces
         /\ run \in Upgrades => W = Place[binding] /\ W \in Workspaces
  BY InstallationAssumption DEF TypeOK, Turns, W

(* A step of a setup keeps the invariant. *)
LEMMA SetupKeeps == ASSUME IInv, SetupStep PROVE IInv'
<1> USE InstallationAssumption
<1> run \in Setups /\ run \notin Upgrades /\ W = Place[run] /\ W \in Workspaces
  BY Where DEF IInv, SetupStep
<1> USE DEF IInv, TypeOK, Turns, SetupIsRetained, LeaseIsKept, NoneElected, SetupProgress,
            UpgradeProgress, BoundIsWhole, SetupPlaces, UpgradePlaces, Inside, Places, Valid,
            Goto, Check, End, setting, project, upgrading, work, daemons, rest
<1>1. CASE Reuse
  BY <1>1 DEF Reuse
<1>2. CASE Unbound
  BY <1>2 DEF Unbound
<1>3. CASE ReadJournal
  BY <1>3 DEF ReadJournal
<1>4. CASE CreateJournal
  BY <1>4 DEF CreateJournal
<1>5. CASE WriteJournal
  BY <1>5 DEF WriteJournal
<1>6. CASE Resume
  BY <1>6 DEF Resume
<1>7. CASE Enter
  BY <1>7 DEF Enter
<1>8. CASE MakeMarker
  BY <1>8 DEF MakeMarker, Templated
<1>9. CASE WriteMarker
  BY <1>9 DEF WriteMarker
<1>10. ASSUME NEW f \in Templates, LookAt(f) PROVE IInv'
  BY <1>10 DEF LookAt
<1>11. CASE Create
  BY <1>11 DEF Create
<1>12. CASE Fill
  BY <1>12 DEF Fill
<1>13. CASE ProjectMade
  BY <1>13 DEF ProjectMade
<1>14. CASE OpenOwners
  BY <1>14 DEF OpenOwners
<1>15. CASE Publish
  BY <1>15 DEF Publish
<1>16. CASE Unlink
  BY <1>16 DEF Unlink
<1> QED
  BY <1>1, <1>2, <1>3, <1>4, <1>5, <1>6, <1>7, <1>8, <1>9, <1>10, <1>11, <1>12, <1>13,
     <1>14, <1>15, <1>16
  DEF SetupStep

(* A step of an upgrade keeps the invariant. *)
LEMMA UpgradeKeeps == ASSUME IInv, UpgradeStep PROVE IInv'
<1> USE InstallationAssumption
<1> run \in Upgrades /\ run \notin Setups /\ W = Place[binding] /\ W \in Workspaces
  BY Where DEF IInv, UpgradeStep
<1> USE DEF IInv, TypeOK, Turns, SetupIsRetained, LeaseIsKept, NoneElected, SetupProgress,
            UpgradeProgress, BoundIsWhole, SetupPlaces, UpgradePlaces, Inside, Places, Valid,
            Goto, Check, End, setting, project, upgrading, work, daemons, rest
<1>1. CASE NewPlan
  BY <1>1 DEF NewPlan
<1>2. CASE OldPlan
  BY <1>2 DEF OldPlan
<1>3. CASE Backup
  BY <1>3 DEF Backup
<1>4. CASE WritePlan
  BY <1>4 DEF WritePlan
<1>5. ASSUME NEW f \in Templates, LookAtGap(f) PROVE IInv'
  BY <1>5 DEF LookAtGap
<1>6. CASE Rename
  BY <1>6 DEF Rename
<1>7. CASE GapsFilled
  BY <1>7 DEF GapsFilled
<1>8. CASE Mark
  BY <1>8 DEF Mark
<1> QED
  BY <1>1, <1>2, <1>3, <1>4, <1>5, <1>6, <1>7, <1>8 DEF UpgradeStep

(* So do the beginning and the death of a request and what others do. *)
LEMMA OthersKeep ==
  ASSUME IInv,
         \/ \E s \in Setups : BeginSetup(s)
         \/ \E u \in Upgrades : BeginUpgrade(u)
         \/ Crash
         \/ \E w \in Workspaces : Others(w) \/ \E f \in Templates : Edit(w, f)
         \/ UNCHANGED vars
  PROVE  IInv'
<1> USE InstallationAssumption
<1>w. /\ run \in Setups => W = Place[run] /\ W \in Workspaces
      /\ run \in Upgrades => W = Place[binding] /\ W \in Workspaces
  BY Where DEF IInv
<1> USE DEF IInv, TypeOK, Turns, SetupIsRetained, LeaseIsKept, NoneElected, SetupProgress,
            UpgradeProgress, BoundIsWhole, SetupPlaces, UpgradePlaces, Inside, Places, Valid,
            Goto, Check, End, Acquire, setting, project, upgrading, work, daemons, rest
<1>1. ASSUME NEW s \in Setups, BeginSetup(s) PROVE IInv'
  BY <1>1 DEF BeginSetup
<1>2. ASSUME NEW u \in Upgrades, BeginUpgrade(u) PROVE IInv'
  BY <1>2 DEF BeginUpgrade
<1>3. CASE Crash
  BY <1>3, <1>w DEF Crash
<1>4. ASSUME NEW w \in Workspaces, Others(w) PROVE IInv'
  <2>1. UNCHANGED <<setting, project, upgrading, work, mishaps, edits, run, pc>>
    BY <1>4 DEF Others
  <2>2. CASE Activate(w)
    BY <2>1, <2>2, <1>w DEF Activate, HasLease
  <2>3. CASE ActivationEnds(w)
    BY <2>1, <2>3 DEF ActivationEnds
  <2>4. CASE Elect(w)
    BY <2>1, <2>4 DEF Elect
  <2>5. CASE NotElected(w)
    BY <2>1, <2>5 DEF NotElected
  <2>6. CASE Unserve(w)
    BY <2>1, <2>6 DEF Unserve
  <2> QED
    BY <1>4, <2>2, <2>3, <2>4, <2>5, <2>6 DEF Others
<1>5. ASSUME NEW w \in Workspaces, NEW f \in Templates, Edit(w, f) PROVE IInv'
  BY <1>5, <1>w DEF Edit
<1>6. CASE UNCHANGED vars
  BY <1>6 DEF vars
<1> QED
  BY <1>1, <1>2, <1>3, <1>4, <1>5, <1>6

(* Every step keeps the invariant. *)
LEMMA NextIInv == IInv /\ [Next]_vars => IInv'
  BY SetupKeeps, UpgradeKeeps, OthersKeep DEF Next

(* The invariant holds throughout. *)
LEMMA Invariance == Spec => []IInv
  BY InitIInv, NextIInv, PTL DEF Spec
------------------------------------------------------------------------------
(* Only the retained setup or an upgrade changes a project marker or a state. *)
LEMMA RetainedStep ==
  ASSUME IInv, [Next]_vars, NEW w \in Workspaces,
         marker'[w] # marker[w] \/ state'[w] # state[w]
  PROVE  run \in Upgrades \/ (journal = run /\ Place[run] = w)
<1> USE InstallationAssumption
        DEF IInv, TypeOK, setting, project, upgrading, work, daemons, rest, Goto, Check, End
<1>1. SUFFICES ASSUME run \notin Upgrades
               PROVE  journal = run /\ Place[run] = w
  OBVIOUS
<1>2. run \in Setups => W = Place[run] /\ W \in Workspaces
  BY Where
<1>3. CASE SetupStep
  <2>1. MakeMarker \/ WriteMarker \/ OpenOwners
    BY <1>3 DEF SetupStep, Reuse, Unbound, ReadJournal, CreateJournal, WriteJournal, Resume,
                Enter, LookAt, Create, Fill, ProjectMade, Publish, Unlink
  <2>2. pc \in Inside /\ run \in Setups
    BY <1>3, <2>1 DEF SetupStep, MakeMarker, WriteMarker, OpenOwners, Inside
  <2>3. w = W
    BY <2>1, <2>2, <1>2 DEF MakeMarker, WriteMarker, OpenOwners
  <2> QED
    BY <2>2, <2>3, <1>2 DEF SetupIsRetained
<1>4. CASE Crash
  <2>1. pc = "owners" /\ w = W /\ run # None
    BY <1>4 DEF Crash
  <2>2. run \in Setups
    BY <2>1, <1>1
  <2> QED
    BY <2>1, <2>2, <1>2 DEF SetupIsRetained, Inside
<1>5. CASE UpgradeStep
  BY <1>5, <1>1 DEF UpgradeStep
<1>6. ~SetupStep /\ ~Crash /\ ~UpgradeStep => UNCHANGED <<marker, state>>
  BY DEF Next, BeginSetup, BeginUpgrade, Others, Edit, vars
<1> QED
  BY <1>3, <1>4, <1>5, <1>6

(* A file its owner saved is replaced only by its owner, or by an upgrade that
   had looked at it before. *)
LEMMA ReplacingStep ==
  ASSUME IInv, [Next]_vars, NEW w \in Workspaces, NEW f \in Templates,
         file[w][f] = "user", file'[w][f] # "user"
  PROVE  edits' # edits \/ (W = w /\ f \in touched)
<1> USE InstallationAssumption
        DEF IInv, TypeOK, setting, project, upgrading, work, daemons, rest, Goto, Check, End
<1>1. CASE SetupStep
  <2>1. Create \/ Fill
    BY <1>1 DEF SetupStep, Reuse, Unbound, ReadJournal, CreateJournal, WriteJournal, Resume,
                Enter, MakeMarker, WriteMarker, LookAt, ProjectMade, OpenOwners, Publish, Unlink
  <2> QED
    BY <2>1 DEF Create, Fill
<1>2. CASE UpgradeStep
  <2>1. Rename
    BY <1>2 DEF UpgradeStep, NewPlan, OldPlan, Backup, WritePlan, LookAtGap, GapsFilled, Mark
  <2>2. run \in Upgrades /\ W = Place[binding]
    BY <1>2, Where DEF UpgradeStep
  <2>3. w = W /\ f = at
    BY <2>1 DEF Rename
  <2> QED
    BY <2>1, <2>2, <2>3 DEF Rename, UpgradeProgress
<1>3. ASSUME NEW x \in Workspaces, NEW g \in Templates, Edit(x, g) PROVE edits' # edits
  BY <1>3 DEF Edit
<1>4. \/ SetupStep \/ UpgradeStep \/ (\E x \in Workspaces, g \in Templates : Edit(x, g))
      \/ UNCHANGED file
  BY DEF Next, BeginSetup, BeginUpgrade, Crash, Others, vars
<1> QED
  BY <1>1, <1>2, <1>3, <1>4

(* A binding is published over a project whose files were all there. *)
LEMMA PublishingStep ==
  ASSUME IInv, [Next]_vars, binding = None, binding' # None, NEW f \in Templates \ touched
  PROVE  file[W][f] # "none"
<1> USE InstallationAssumption
        DEF IInv, TypeOK, setting, project, upgrading, work, daemons, rest, Goto, Check, End
<1>1. SetupStep
  BY DEF Next, UpgradeStep, NewPlan, OldPlan, Backup, WritePlan, LookAtGap, Rename, GapsFilled,
         Mark, BeginSetup, BeginUpgrade, Crash, Others, Edit, vars
<1>2. Publish
  BY <1>1 DEF SetupStep, Reuse, Unbound, ReadJournal, CreateJournal, WriteJournal, Resume, Enter,
              MakeMarker, WriteMarker, LookAt, Create, Fill, ProjectMade, OpenOwners, Unlink
<1>3. run \in Setups /\ W = Place[run] /\ pc = "publish"
  BY <1>1, <1>2, Where DEF SetupStep, Publish
<1> QED
  BY <1>3 DEF SetupProgress

(* A marker is upgraded over a backup and the files that were planned. *)
LEMMA MarkingStep ==
  ASSUME IInv, [Next]_vars, NEW w \in Workspaces, marker[w] = "old", marker'[w] = "new"
  PROVE  /\ run \in Upgrades
         /\ saved[run] = "old"
         /\ \A f \in plan[run] \ touched : file[w][f] # "none"
<1> USE InstallationAssumption
        DEF IInv, TypeOK, setting, project, upgrading, work, daemons, rest, Goto, Check, End
<1>1. ~SetupStep
  <2>1. SUFFICES ASSUME SetupStep PROVE FALSE
    OBVIOUS
  <2>2. MakeMarker \/ WriteMarker
    BY <2>1 DEF SetupStep, Reuse, Unbound, ReadJournal, CreateJournal, WriteJournal, Resume,
                Enter, LookAt, Create, Fill, ProjectMade, OpenOwners, Publish, Unlink
  <2>3. run \in Setups /\ W = Place[run]
    BY <2>1, Where DEF SetupStep
  <2> QED
    BY <2>2, <2>3 DEF MakeMarker, WriteMarker, SetupProgress
<1>2. UpgradeStep
  BY <1>1 DEF Next, BeginSetup, BeginUpgrade, Crash, Others, Edit, vars
<1>3. Mark
  BY <1>2 DEF UpgradeStep, NewPlan, OldPlan, Backup, WritePlan, LookAtGap, Rename, GapsFilled
<1>4. run \in Upgrades /\ W = Place[binding]
  BY <1>2, Where DEF UpgradeStep
<1>5. w = W /\ From[run] = "old" /\ pc = "mark"
  BY <1>3 DEF Mark
<1> QED
  BY <1>4, <1>5 DEF UpgradeProgress
------------------------------------------------------------------------------
(* Every variable keeps its type. *)
THEOREM TypeCorrect == Spec => []TypeOK
  BY Invariance, PTL DEF IInv

(* A published binding names a workspace with a readable marker and an identity. *)
THEOREM BindingsAreWhole == Spec => []BoundIsWhole
  BY Invariance, PTL DEF IInv

(* Beside a setup or an upgrade there is no daemon but one that was elected after its
   activation had ended. *)
THEOREM OnlyLateDaemonsBeside == Spec => []OnlyLateBeside
<1>1. IInv => OnlyLateBeside
  BY InstallationAssumption DEF IInv, LeaseIsKept, NoneElected, OnlyLateBeside, HasLease, W
<1> QED
  BY <1>1, Invariance, PTL

(* Markers and states are only created by the setup whose intent is retained. *)
THEOREM OnlyTheRetainedSetup == Spec => NeverADifferentSetup
<1>1. IInv /\ [Next]_vars =>
        [\A w \in Workspaces :
           marker'[w] # marker[w] \/ state'[w] # state[w] =>
             run \in Upgrades \/ (journal = run /\ Place[run] = w)]_vars
  BY RetainedStep
<1> QED
  BY <1>1, Invariance, PTL DEF Spec, NeverADifferentSetup

(* A saved file is replaced only if it was saved after the request looked at it. *)
THEOREM SavedFilesStay == Spec => OnlyHastySavesReplaced
<1>1. IInv /\ [Next]_vars =>
        [\A w \in Workspaces, f \in Templates :
           file[w][f] = "user" /\ file'[w][f] # "user" =>
             edits' # edits \/ (W = w /\ f \in touched)]_vars
  BY ReplacingStep
<1> QED
  BY <1>1, Invariance, PTL DEF Spec, OnlyHastySavesReplaced

(* A binding and an upgraded marker declare only what has been done. *)
THEOREM DeclarationsAreTrue == Spec => DeclaredMeansDone
<1>1. IInv /\ [Next]_vars =>
        [/\ binding = None /\ binding' # None =>
              \A f \in Templates \ touched : file[W][f] # "none"
         /\ \A w \in Workspaces :
              marker[w] = "old" /\ marker'[w] = "new" =>
                /\ run \in Upgrades
                /\ saved[run] = "old"
                /\ \A f \in plan[run] \ touched : file[w][f] # "none"]_vars
  BY PublishingStep, MarkingStep
<1> QED
  BY <1>1, Invariance, PTL DEF Spec, DeclaredMeansDone
==============================================================================
