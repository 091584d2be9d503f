------------------------------ MODULE Candidates ------------------------------
(***************************************************************************)
(* integration/workspace/native-project.ts: from a prepared candidate of a *)
(* project through its freeze, materialization, domain review, Runtime run *)
(* and completion to the start of its promotion (Promotion).  The daemon   *)
(* handles one request after the other: each holds the Workspace's lease   *)
(* from its first check to its answer (connection/daemon.ts), so that the  *)
(* project's lock that it takes for its writes is never contended.  But a  *)
(* call awaits and may die on the way, Runtime's own requests are handled  *)
(* beside it, and the source and the candidate's folder belong to a user   *)
(* who edits them.                                                         *)
(*                                                                         *)
(* A package is the two owner packages of a materialization, kept below    *)
(* the directory of its id.  Edits fall between the steps of the model,    *)
(* never inside one.                                                       *)
(***************************************************************************)
EXTENDS Naturals

CONSTANTS
  Processes,           \* the callers
  Candidates,          \* candidate ids of one scope
  Packages,            \* package contents that pass validateDraft
  Directory,           \* the directory of each package
  Versions,            \* what the source can be
  Missing,             \* no file
  MaxCallerDeaths

DomainReviews == [is : {"ACCEPT", "REJECT"}, of : Packages]

\* What is assumed of the constants: no record is taken for a file that is not there.
ASSUME CandidatesAssumption ==
  /\ MaxCallerDeaths \in Nat
  /\ Missing \notin Packages \cup Versions \cup DomainReviews
  /\ {"torn", "edited"} \cap (Packages \cup Versions) = {}

VARIABLES
  sources,    \* the version of the source
  plan,       \* candidates/ID.json: the source version it inventories
  frozen,     \* frozen/ID.json
  folder,     \* the candidate's folder: the assets below each directory, and the manifest
  materials,  \* materials/ID.json: the package
  review,     \* domain-reviews/ID.json: decision and package
  journal,    \* promotion-ID.json: what it promotes
  admitted,   \* the packages whose authoring was admitted
  completed,  \* the complete projects of Runtime: candidate and package
  caller,     \* what each caller is doing
  callerDeaths

records == <<plan, frozen, materials, review, journal>>
runtime == <<admitted, completed>>
candidateVars == <<sources, records, folder, runtime, caller, callerDeaths>>

Resting == [at |-> "idle"]
\* withWorkspaceLease() around project.request(): a request begins when no other is under
\* way, and a dead caller's lease is freed.
LeaseFree == \A j \in Processes : caller[j] = Resting
Whole(v) == v \notin {Missing, "torn"}
DirectoriesOf == {Directory[p] : p \in Packages}
\* fresh(): the source still is what the frozen inventory lists.
Fresh(c) == frozen[c] = sources
\* layout() with coverage() and checkBindings().
Layout(c, p) == folder[c].asset[Directory[p]] = p /\ folder[c].manifest = p
------------------------------------------------------------------------------
NoCandidate ==
  /\ plan = [c \in Candidates |-> Missing]
  /\ frozen = plan /\ materials = plan /\ review = plan /\ journal = plan
  /\ folder = [c \in Candidates |-> [asset |-> [d \in DirectoriesOf |-> Missing], manifest |-> Missing]]
  /\ admitted = {} /\ completed = {}
  /\ caller = [k \in Processes |-> Resting]
  /\ callerDeaths = 0
CandidatesInit == sources \in Versions /\ NoCandidate

CallerGoes(k, step) == caller' = [caller EXCEPT ![k] = step]
\* writeNew(): what is there must be the same.
Written(there, new) == there \in {Missing, new}
Filed(f, c, new) == [f EXCEPT ![c] = new]

\* buildCandidate(), and under the lock the candidate's file.
PrepareCandidate(k, c) ==
  \/ /\ LeaseFree
     /\ CallerGoes(k, [at |-> "prepare", on |-> c, version |-> sources])
     /\ UNCHANGED <<sources, records, folder, runtime, callerDeaths>>
  \/ /\ caller[k].at = "prepare" /\ caller[k].on = c
     /\ CallerGoes(k, Resting)
     /\ plan' = IF plan[c] = Missing THEN Filed(plan, c, caller[k].version) ELSE plan
     /\ UNCHANGED <<sources, frozen, materials, review, journal, folder, runtime, callerDeaths>>

\* freeze(): validateDraft() of the reviewed plan is awaited, and after it everything is
\* looked at again.
Freeze(k, c) ==
  \/ /\ LeaseFree /\ Whole(plan[c])
     /\ frozen[c] = Missing => plan[c] = sources
     /\ CallerGoes(k, [at |-> "freeze", on |-> c])
     /\ UNCHANGED <<sources, records, folder, runtime, callerDeaths>>
  \/ /\ caller[k].at = "freeze" /\ caller[k].on = c
     /\ CallerGoes(k, Resting)
     /\ frozen' = IF frozen[c] = Missing /\ plan[c] = sources THEN Filed(frozen, c, plan[c]) ELSE frozen
     /\ UNCHANGED <<sources, plan, materials, review, journal, folder, runtime, callerDeaths>>

\* materialize() before the lock: an existing materialization is only checked;
\* otherwise validateDraft() is awaited.
Materialize(k, c, p) ==
  /\ LeaseFree /\ Whole(frozen[c]) /\ Fresh(c) /\ materials[c] = Missing
  /\ CallerGoes(k, [at |-> "material", on |-> c, package |-> p])
  /\ UNCHANGED <<sources, records, folder, runtime, callerDeaths>>

\* After it, one file after the other: the assets as new files,
WriteAsset(k) ==
  LET c == caller[k].on  p == caller[k].package  d == Directory[p] IN
  /\ caller[k].at = "material"
  /\ IF Written(folder[c].asset[d], p)
     THEN /\ folder' = [folder EXCEPT ![c].asset[d] = p]
          /\ CallerGoes(k, [caller[k] EXCEPT !.at = "manifest"])
     ELSE CallerGoes(k, Resting) /\ UNCHANGED folder
  /\ UNCHANGED <<sources, records, runtime, callerDeaths>>

\* the bindings and the manifest, which replace what is there,
WriteManifest(k) ==
  /\ caller[k].at = "manifest"
  /\ folder' = [folder EXCEPT ![caller[k].on].manifest = caller[k].package]
  /\ CallerGoes(k, [caller[k] EXCEPT !.at = "record"])
  /\ UNCHANGED <<sources, records, runtime, callerDeaths>>

\* and, after layout(), the record that makes it a materialization.
WriteMaterial(k) ==
  LET c == caller[k].on  p == caller[k].package IN
  /\ caller[k].at = "record"
  /\ materials' = IF Layout(c, p) /\ Written(materials[c], p) THEN Filed(materials, c, p) ELSE materials
  /\ CallerGoes(k, Resting)
  /\ UNCHANGED <<sources, plan, frozen, review, journal, folder, runtime, callerDeaths>>

\* reviewDomain(): checked first, then the human's decision is written for good.
ReviewDomain(k, c, decision) ==
  \/ /\ LeaseFree /\ Whole(frozen[c]) /\ Whole(materials[c])
     /\ Fresh(c) /\ Layout(c, materials[c])
     /\ CallerGoes(k, [at |-> "review", on |-> c, decision |-> [is |-> decision, of |-> materials[c]]])
     /\ UNCHANGED <<sources, records, folder, runtime, callerDeaths>>
  \/ /\ caller[k].at = "review" /\ caller[k].on = c /\ caller[k].decision.is = decision
     /\ review' = IF Written(review[c], caller[k].decision) THEN Filed(review, c, caller[k].decision) ELSE review
     /\ CallerGoes(k, Resting)
     /\ UNCHANGED <<sources, plan, frozen, materials, journal, folder, runtime, callerDeaths>>

\* The candidates with exactly this package; one unreadable record hides them all.
Having(p) ==
  IF \E c \in Candidates : "torn" \in {frozen[c], materials[c]} THEN {}
  ELSE {c \in Candidates : Whole(frozen[c]) /\ materials[c] = p}

\* resolveNativeAuthoring(): the package belongs to one candidate, which is intact.
AdmitPackage(p) ==
  /\ \E c \in Candidates : Having(p) = {c} /\ Fresh(c) /\ Layout(c, p)
  /\ admitted' = admitted \cup {p}
  /\ UNCHANGED <<sources, records, folder, completed, caller, callerDeaths>>

\* Runtime runs an admitted package: verifyProject() must pass in every criterion
\* before the project is completed and approved.
Verify(p) ==
  /\ p \in admitted
  /\ \E c \in Candidates :
       /\ Having(p) = {c} /\ Fresh(c) /\ Layout(c, p)
       /\ review[c] = [is |-> "ACCEPT", of |-> p]
       /\ completed' = completed \cup {[on |-> c, package |-> p]}
  /\ UNCHANGED <<sources, records, folder, admitted, caller, callerDeaths>>

\* Mutant of Promote: what was completed is not checked again.
PromoteCompleted(k, c) ==
  /\ LeaseFree /\ Whole(frozen[c]) /\ Whole(materials[c])
  /\ [on |-> c, package |-> materials[c]] \in completed
  /\ journal' = IF journal[c] = Missing THEN Filed(journal, c, folder[c]) ELSE journal
  /\ UNCHANGED <<sources, plan, frozen, materials, review, folder, runtime, caller, callerDeaths>>

\* promote(): the records and Runtime's project are read, and under the lock the
\* source and, on the first time, the folder are checked again for the journal.
Promote(k, c) ==
  \/ /\ LeaseFree /\ Whole(frozen[c]) /\ Whole(materials[c])
     /\ [on |-> c, package |-> materials[c]] \in completed
     /\ CallerGoes(k, [at |-> "promote", on |-> c, package |-> materials[c]])
     /\ UNCHANGED <<sources, records, folder, runtime, callerDeaths>>
  \/ /\ caller[k].at = "promote" /\ caller[k].on = c
     /\ CallerGoes(k, Resting)
     /\ journal' = IF journal[c] = Missing /\ Fresh(c) /\ Layout(c, caller[k].package)
                   THEN Filed(journal, c, folder[c]) ELSE journal
     /\ UNCHANGED <<sources, plan, frozen, materials, review, folder, runtime, callerDeaths>>

\* A caller dies, perhaps in the middle of a file that it creates under its name.
CallerDies(k) ==
  LET at == caller[k].at  c == caller[k].on IN
  /\ caller[k] # Resting
  /\ callerDeaths < MaxCallerDeaths /\ callerDeaths' = callerDeaths + 1
  /\ CallerGoes(k, Resting)
  /\ \/ UNCHANGED <<records, folder>>
     \/ /\ at = "freeze" /\ frozen[c] = Missing /\ frozen' = Filed(frozen, c, "torn")
        /\ UNCHANGED <<plan, materials, review, journal, folder>>
     \/ /\ at = "material"
        /\ LET d == Directory[caller[k].package] IN
           folder[c].asset[d] = Missing /\ folder' = [folder EXCEPT ![c].asset[d] = "torn"]
        /\ UNCHANGED records
     \/ /\ at = "record" /\ materials[c] = Missing /\ materials' = Filed(materials, c, "torn")
        /\ UNCHANGED <<plan, frozen, review, journal, folder>>
  /\ UNCHANGED <<sources, runtime>>

\* The user edits the source, or an asset of a candidate.
UserEditsCandidate ==
  /\ \/ sources' \in Versions \ {sources} /\ UNCHANGED folder
     \/ \E c \in Candidates, d \in DirectoriesOf :
        \E to \in {"edited"} \cup {p \in Packages : Directory[p] = d} :
          /\ folder[c].asset[d] \notin {Missing, to}
          /\ folder' = [folder EXCEPT ![c].asset[d] = to]
          /\ UNCHANGED sources
  /\ UNCHANGED <<records, runtime, caller, callerDeaths>>

CandidatesNext ==
  \/ \E k \in Processes :
       \/ \E c \in Candidates :
            \/ PrepareCandidate(k, c) \/ Freeze(k, c) \/ Promote(k, c)
            \/ \E p \in Packages : Materialize(k, c, p)
            \/ \E decision \in {"ACCEPT", "REJECT"} : ReviewDomain(k, c, decision)
       \/ WriteAsset(k) \/ WriteManifest(k) \/ WriteMaterial(k)
       \/ CallerDies(k)
  \/ \E p \in Packages : AdmitPackage(p) \/ Verify(p)
  \/ UserEditsCandidate

CandidatesSpec == CandidatesInit /\ [][CandidatesNext]_candidateVars
------------------------------------------------------------------------------
CandidatesTypeOK ==
  /\ sources \in Versions \cup {Missing}
  /\ \A c \in Candidates :
       /\ {plan[c], frozen[c]} \subseteq Versions \cup {Missing, "torn"}
       /\ materials[c] \in Packages \cup {Missing, "torn"}
       /\ folder[c].manifest \in Packages \cup {Missing}
       /\ \A d \in DirectoriesOf : folder[c].asset[d] \in Packages \cup {Missing, "torn", "edited"}

(* Every variable has its type, and a promotion starts from what a human accepted: at
   that moment the candidate's folder holds exactly the package of the domain review that accepted it, and the
   source is the one that was reviewed for the freeze, whatever was edited, reviewed
   or materialized between Runtime's completion and the journal. *)
PromotedAsReviewed ==
  /\ []CandidatesTypeOK
  /\ [][\A c \in Candidates : journal'[c] # journal[c] =>
          /\ review[c] = [is |-> "ACCEPT", of |-> materials[c]]
          /\ journal'[c] = folder[c] /\ Layout(c, materials[c])
          /\ plan[c] = sources]_candidateVars
==============================================================================
