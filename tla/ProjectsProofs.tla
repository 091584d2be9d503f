---------------------------- MODULE ProjectsProofs ----------------------------
(***************************************************************************)
(* What MCProjects checks of six parts on a small instance, for any        *)
(* processes, requests, contents, versions and number of deaths.  Each     *)
(* part has an inductive invariant of its own: the types of its state and, *)
(* for each process, what it holds between two of its steps that the next  *)
(* one relies upon.                                                        *)
(***************************************************************************)
EXTENDS Release, Toolchain, Project, Feedback, Candidates, Preview, SequenceTheorems, TLAPS

(* Release: what is published is what was decided on.  A run that is past a check
   still has what the check was about: its assets are whole, they were prepared from what
   was asked for, and the tag that it made is moved by nobody. *)
CheckedSteps == {"no release?", "no tag?", "tag", "release"}
PastStart == [at : {"prepared"} \cup CheckedSteps, bytes : Bytes]

ReleaseTypes ==
  /\ input \in [Workflows -> RunInputs]
  /\ artifact \in [Commits -> Bytes]
  /\ workflow = [w \in Workflows |-> workflow[w]]

(* A run at s that was started with i, while the tag is t.  Assets that are whole were
   prepared from what was asked for; past the check they are whole and to be published;
   and a run that goes on to its release has made the tag, which nobody moves. *)
WorkflowSound(i, s, t) ==
  \/ s \in [at : {"start", "stopped"}]
  \/ /\ s \in PastStart
     /\ ValidInputs(i)
     /\ s.bytes = i.commit => i.digest = i.commit
     /\ s.at \in CheckedSteps => i.publish /\ s.bytes = i.commit
     /\ s.at = "release" => t = i.commit

(* A request that may still be carried out.  The one for a release was sent when its tag
   was there. *)
RequestSound(r) ==
  /\ r.by \in Workflows
  /\ r.creates # "tag" => r.bytes \in Bytes /\ AsDecided(r)

ReleaseInv ==
  /\ ReleaseTypes
  /\ ReleaseTypeOK
  /\ \A w \in Workflows : WorkflowSound(input[w], workflow[w], tag)
  /\ \A r \in sent : RequestSound(r)
  /\ ReleasedAsDecided
------------------------------------------------------------------------------
LEMMA ReleaseInitInv == ReleaseInit => ReleaseInv
<1> SUFFICES ASSUME ReleaseInit PROVE ReleaseInv
  OBVIOUS
<1>1. ReleaseTypes /\ ReleaseTypeOK /\ ReleasedAsDecided /\ sent = {}
  BY DEF ReleaseInit, ReleaseTypes, ReleaseTypeOK, ReleasedAsDecided
<1>2. ASSUME NEW w \in Workflows PROVE WorkflowSound(input[w], workflow[w], tag)
  <2>1. workflow[w] = [at |-> "start"]
    BY DEF ReleaseInit
  <2> QED
    BY <2>1 DEF WorkflowSound
<1> QED
  BY <1>1, <1>2 DEF ReleaseInv

(* What a run that is under way holds stays when the run moves on. *)
LEMMA WorkflowMoves ==
  ASSUME NEW s \in PastStart, NEW where
  PROVE  [s EXCEPT !.at = where] = [at |-> where, bytes |-> s.bytes]
  BY DEF PastStart

LEMMA UnderWay ==
  ASSUME NEW i, NEW s, NEW t, WorkflowSound(i, s, t), s.at \in {"prepared"} \cup CheckedSteps
  PROVE  /\ s \in PastStart /\ ValidInputs(i)
         /\ s.bytes = i.commit => i.digest = i.commit
         /\ s.at \in CheckedSteps => i.publish /\ s.bytes = i.commit
         /\ s.at = "release" => t = i.commit
  BY DEF WorkflowSound, CheckedSteps

LEMMA StoppedIsSound == ASSUME NEW i, NEW t PROVE WorkflowSound(i, Stopped, t)
  BY DEF WorkflowSound, Stopped

(* The tag is made once.  So what was decided with it there stays so. *)
LEMMA TagStays ==
  ASSUME ReleaseInv, tag' \in Commits \cup {NoTag}, tag # NoTag => tag' = tag, UNCHANGED input
  PROVE  /\ \A w \in Workflows : input[w].commit \in Commits
         /\ \A r : r.by \in Workflows /\ AsDecided(r) => AsDecided(r)'
         /\ \A w \in Workflows : WorkflowSound(input[w], workflow[w], tag) => WorkflowSound(input[w], workflow[w], tag')
<1>1. \A w \in Workflows : input[w].commit \in Commits
  BY DEF ReleaseInv, ReleaseTypes, RunInputs
<1>2. \A w \in Workflows : tag = input[w].commit => tag' = tag
  BY <1>1, ReleaseAssumption
<1>3. ASSUME NEW r, r.by \in Workflows, AsDecided(r) PROVE AsDecided(r)'
  BY <1>2, <1>3 DEF AsDecided
<1>4. ASSUME NEW w \in Workflows, WorkflowSound(input[w], workflow[w], tag)
      PROVE  WorkflowSound(input[w], workflow[w], tag')
  BY <1>2, <1>4 DEF WorkflowSound
<1> QED
  BY <1>1, <1>3, <1>4

(* A step that is sound for its own run, leaves a tag that is there and sends and publishes
   only what was decided on keeps the invariant. *)
LEMMA OneWorkflowMoves ==
  ASSUME ReleaseInv, NEW w \in Workflows, NEW next, Step(w, next),
         tag' \in Commits \cup {NoTag}, tag # NoTag => tag' = tag,
         WorkflowSound(input[w], next, tag'),
         \A r \in sent' : r \in sent \/ RequestSound(r)',
         \A r \in release' : r \in release \/ (RequestSound(r)' /\ r.creates # "tag")
  PROVE  ReleaseInv'
<1>1. ReleaseTypes' /\ UNCHANGED <<input, artifact>>
  BY DEF ReleaseInv, ReleaseTypes, Step
<1>2. workflow'[w] \in {next, Stopped} /\ \A v \in Workflows \ {w} : workflow'[v] = workflow[v]
  BY DEF ReleaseInv, ReleaseTypes, Step
<1>3. ASSUME NEW v \in Workflows PROVE WorkflowSound(input[v], workflow[v], tag)'
  <2>1. CASE v = w
    BY <1>1, <1>2, <2>1, StoppedIsSound
  <2>2. CASE v # w
    BY <1>1, <1>2, <2>2, TagStays DEF ReleaseInv
  <2> QED
    BY <2>1, <2>2
<1>4. \A r \in release : r.by \in Workflows /\ r.bytes \in Bytes /\ AsDecided(r)
  BY DEF ReleaseInv, ReleaseTypeOK, ReleasedAsDecided
<1>5. \A r \in release' : r.by \in Workflows /\ r.bytes \in Bytes /\ AsDecided(r)'
  BY <1>1, <1>4, TagStays DEF RequestSound
<1>6. ASSUME NEW r \in sent' PROVE RequestSound(r)'
  BY <1>1, TagStays DEF ReleaseInv, RequestSound
<1> QED
  BY <1>1, <1>3, <1>5, <1>6 DEF ReleaseInv, ReleaseTypeOK, ReleasedAsDecided

LEMMA ReleaseStepInv == ReleaseInv /\ [ReleaseNext]_releaseVars => ReleaseInv'
<1> SUFFICES ASSUME ReleaseInv, [ReleaseNext]_releaseVars PROVE ReleaseInv'
  OBVIOUS
<1>0. tag \in Commits \cup {NoTag}
  BY DEF ReleaseInv, ReleaseTypeOK
<1>1. ASSUME NEW w \in Workflows, NEW next, Step(w, next), UNCHANGED <<sent, tag, release>>,
             WorkflowSound(input[w], next, tag)
      PROVE  ReleaseInv'
  BY <1>0, <1>1, OneWorkflowMoves
<1>2. ASSUME NEW w \in Workflows, Prepare(w) PROVE ReleaseInv'
  <2>0. UNCHANGED <<sent, tag, release>>
    BY <1>2 DEF Prepare
  <2>1. CASE ~(ValidInputs(input[w]) /\ ValidSource(input[w]))
    <3>1. Step(w, Stopped)
      BY <1>2, <2>1 DEF Prepare
    <3> QED
      BY <1>1, <2>0, <3>1, StoppedIsSound
  <2>2. CASE ValidInputs(input[w]) /\ ValidSource(input[w])
    <3>1. PICK b \in {artifact[input[w].commit], "damaged"} : Step(w, [at |-> "prepared", bytes |-> b])
      BY <1>2, <2>2 DEF Prepare
    <3>2. input[w].commit \in Commits /\ b \in Bytes
      BY <3>1 DEF ReleaseInv, ReleaseTypes, RunInputs, Bytes
    <3>3. b = input[w].commit => input[w].digest = input[w].commit
      BY <2>2, <3>1, <3>2, ReleaseAssumption DEF ValidSource
    <3>4. WorkflowSound(input[w], [at |-> "prepared", bytes |-> b], tag)
      BY <2>2, <3>2, <3>3 DEF WorkflowSound, PastStart, CheckedSteps
    <3> QED
      BY <1>1, <2>0, <3>1, <3>4
  <2> QED
    BY <2>1, <2>2
<1>3. ASSUME NEW w \in Workflows, workflow[w].at \in {"prepared"} \cup CheckedSteps,
             UNCHANGED <<sent, tag, release>>,
             NEW where \in CheckedSteps \ {"release"}, Step(w, [workflow[w] EXCEPT !.at = where]),
             input[w].publish, workflow[w].bytes = input[w].commit
      PROVE ReleaseInv'
  <2>1. workflow[w] \in PastStart /\ ValidInputs(input[w]) /\ input[w].digest = input[w].commit
    BY <1>3, UnderWay DEF ReleaseInv
  <2>2. [workflow[w] EXCEPT !.at = where] = [at |-> where, bytes |-> workflow[w].bytes]
    BY <2>1, WorkflowMoves
  <2>3. WorkflowSound(input[w], [workflow[w] EXCEPT !.at = where], tag)
    BY <1>3, <2>1, <2>2 DEF WorkflowSound, PastStart, CheckedSteps
  <2> QED
    BY <1>1, <1>3, <2>3
<1>4. ASSUME NEW w \in Workflows, workflow[w].at \in CheckedSteps
      PROVE  /\ workflow[w] \in PastStart /\ ValidInputs(input[w]) /\ input[w].publish
             /\ workflow[w].bytes = input[w].commit /\ input[w].digest = input[w].commit
             /\ workflow[w].at = "release" => tag = input[w].commit
  BY <1>4, UnderWay DEF ReleaseInv
<1>5. ASSUME NEW w \in Workflows, Step(w, Stopped), UNCHANGED <<sent, tag, release>> PROVE ReleaseInv'
  BY <1>1, <1>5, StoppedIsSound
<1>6. ASSUME NEW w \in Workflows, Check(w) PROVE ReleaseInv'
  <2>1. CASE input[w].publish /\ workflow[w].bytes = input[w].commit
    BY <1>3, <1>6, <2>1 DEF Check, CheckedSteps
  <2>2. CASE ~(input[w].publish /\ workflow[w].bytes = input[w].commit)
    BY <1>5, <1>6, <2>2 DEF Check
  <2> QED
    BY <2>1, <2>2
<1>7. ASSUME NEW w \in Workflows, RequireNoRelease(w) PROVE ReleaseInv'
  <2>1. CASE release = {}
    BY <1>3, <1>4, <1>7, <2>1 DEF RequireNoRelease, CheckedSteps
  <2>2. CASE release # {}
    BY <1>5, <1>7, <2>2 DEF RequireNoRelease
  <2> QED
    BY <2>1, <2>2
<1>8. ASSUME NEW w \in Workflows, RequireNoTag(w) PROVE ReleaseInv'
  <2>1. CASE tag = NoTag
    BY <1>3, <1>4, <1>8, <2>1 DEF RequireNoTag, CheckedSteps
  <2>2. CASE tag # NoTag
    BY <1>5, <1>8, <2>2 DEF RequireNoTag
  <2> QED
    BY <2>1, <2>2
<1>9. ASSUME NEW w \in Workflows, NEW r, Unanswered(w, r), RequestSound(r) PROVE ReleaseInv'
  <2>1. UNCHANGED <<input, tag, release>> /\ Step(w, Stopped) /\ sent' \in {sent, sent \cup {r}}
    BY <1>9 DEF Unanswered, Step
  <2>2. RequestSound(r)'
    BY <1>9, <2>1 DEF RequestSound, AsDecided
  <2> QED
    BY <1>0, <2>1, <2>2, StoppedIsSound, OneWorkflowMoves
<1>10. ASSUME NEW w \in Workflows, CreateTag(w) PROVE ReleaseInv'
  <2>1. workflow[w].at \in CheckedSteps /\ input[w].commit \in Commits
    BY <1>10 DEF CreateTag, CheckedSteps, ReleaseInv, ReleaseTypes, RunInputs
  <2>2. CASE /\ tag = NoTag /\ tag' = input[w].commit /\ UNCHANGED <<sent, release>>
             /\ Step(w, [workflow[w] EXCEPT !.at = "release"])
    <3>1. [workflow[w] EXCEPT !.at = "release"] = [at |-> "release", bytes |-> workflow[w].bytes]
      BY <1>4, <2>1, WorkflowMoves
    <3>2. WorkflowSound(input[w], [workflow[w] EXCEPT !.at = "release"], tag')
      BY <1>4, <2>1, <2>2, <3>1 DEF WorkflowSound, PastStart, CheckedSteps
    <3> QED
      BY <2>1, <2>2, <3>2, OneWorkflowMoves
  <2>3. CASE Step(w, Stopped) /\ UNCHANGED <<sent, tag, release>>
    BY <1>5, <2>3
  <2>4. CASE Unanswered(w, TagRequest(w))
    BY <1>9, <2>4 DEF RequestSound, TagRequest
  <2> QED
    BY <1>10, <2>2, <2>3, <2>4 DEF CreateTag
<1>11. ASSUME NEW w \in Workflows, CreateRelease(w) PROVE ReleaseInv'
  <2>0. PICK r : r = ReleaseRequest(w)
    OBVIOUS
  <2>1. workflow[w].at = "release" /\ workflow[w].at \in CheckedSteps
    BY <1>11 DEF CreateRelease, CheckedSteps
  <2>2. /\ r.by = w /\ r.bytes = input[w].commit /\ r.creates = "release" /\ r.bytes \in Bytes
        /\ input[w].decided /\ input[w].digest = input[w].commit /\ tag = input[w].commit
    BY <1>4, <2>0, <2>1 DEF ReleaseRequest, PastStart, ValidInputs
  <2>3. RequestSound(r)
    BY <2>2 DEF RequestSound, AsDecided
  <2>4. CASE Unanswered(w, r)
    BY <1>9, <2>3, <2>4
  <2>5. CASE Published(r) /\ Step(w, Stopped) /\ UNCHANGED <<sent, tag>>
    <3>1. UNCHANGED input /\ release' \in {release, {r}}
      BY <2>5 DEF Step, Published
    <3>2. RequestSound(r)' /\ r.creates # "tag"
      BY <2>2, <2>3, <2>5, <3>1 DEF RequestSound, AsDecided
    <3>3. \A q \in release' : q \in release \/ (RequestSound(q)' /\ q.creates # "tag")
      BY <3>1, <3>2
    <3> QED
      BY <1>0, <2>5, <3>3, StoppedIsSound, OneWorkflowMoves
  <2> QED
    BY <1>11, <2>0, <2>4, <2>5 DEF CreateRelease
<1>12. ASSUME NEW r \in sent, CarryOut(r) PROVE ReleaseInv'
  <2>1. UNCHANGED <<input, artifact, workflow>> /\ sent' = sent \ {r} /\ RequestSound(r)
    BY <1>12 DEF CarryOut, ReleaseInv
  <2>2. tag' \in Commits \cup {NoTag} /\ (tag # NoTag => tag' = tag)
    BY <1>0, <1>12, <2>1 DEF CarryOut, RequestSound, ReleaseInv, ReleaseTypes, RunInputs
  <2>3. ReleaseTypes' /\ \A w \in Workflows : WorkflowSound(input[w], workflow[w], tag)'
    BY <2>1, <2>2, TagStays DEF ReleaseInv, ReleaseTypes
  <2>4. \A q \in sent' : RequestSound(q)'
    BY <2>1, <2>2, TagStays DEF ReleaseInv, RequestSound
  <2>5. release' = release \/ (release' = {r} /\ r.creates # "tag")
    BY <1>12 DEF CarryOut, Published
  <2>6. \A q \in release' : q.by \in Workflows /\ q.bytes \in Bytes /\ AsDecided(q)
    BY <2>1, <2>5 DEF RequestSound, ReleaseInv, ReleaseTypeOK, ReleasedAsDecided
  <2>7. ReleaseTypeOK' /\ ReleasedAsDecided'
    BY <2>1, <2>2, <2>6, TagStays DEF ReleaseTypeOK, ReleasedAsDecided
  <2> QED
    BY <2>3, <2>4, <2>7 DEF ReleaseInv
<1>13. CASE UNCHANGED releaseVars
  BY <1>13 DEF ReleaseInv, releaseVars, ReleaseTypeOK, ReleaseTypes, ReleasedAsDecided, RequestSound, AsDecided
<1> QED
  BY <1>2, <1>6, <1>7, <1>8, <1>10, <1>11, <1>12, <1>13 DEF ReleaseNext

LEMMA ReleaseInvariance == ReleaseSpec => []ReleaseInv
  BY ReleaseInitInv, ReleaseStepInv, PTL DEF ReleaseSpec

(* A release is of the commit its tag points to, whole, and decided on, whatever is started
   again, whichever answers of the forge are lost, and whenever it does what it was asked. *)
THEOREM ReleasesAreDecided == ReleaseSpec => []ReleasedAsDecided
<1>1. ReleaseInv => ReleasedAsDecided
  BY DEF ReleaseInv
<1> QED
  BY <1>1, ReleaseInvariance, PTL
------------------------------------------------------------------------------
(* Toolchain: what the journal says of preparations stands.  Whoever works holds the
   lease, so nobody changes the journal, the cache or the environment under a
   preparation. *)
Statuses == {"RUNNING", "SUCCEEDED", "FAILED"}
Preparing == {"download", "write", "build", "inspect"}
Saving == {"save", "rename"}
Working == Saving \cup Preparing
Tasks(where) == [at : where, id : Preparations, status : Statuses, owns : BOOLEAN]
Admitted == Tasks(Working)
Waiting == {[at |-> "lease", id |-> r, status |-> "RUNNING", owns |-> FALSE] : r \in Preparations}

ToolchainTypes ==
  /\ ledger \in [Preparations -> {"none"} \cup Statuses]
  /\ cached \in 0..Downloads
  /\ task = [p \in Adapters |-> task[p]]
  /\ \A p \in Adapters : task[p].at = "lease" => task[p] \in Waiting

(* Who has been admitted holds the lease. *)
AdmittedHolds == \A p \in Adapters : task[p].at \in Working => holder = p

NoneIs(l, status) == \A r \in Preparations : l[r] # status

(* A preparation at s, by what the journal l, the cache c and the environment e say: it
   works under its own RUNNING record, writes the first one where there is none and its
   last one over it, and makes or removes no environment that a record calls prepared. *)
TaskFits(s, l, c, e) ==
  /\ s \in Admitted
  /\ s.at \in Preparing => l[s.id] = "RUNNING" /\ s.status = "RUNNING"
  /\ s.at \in Saving /\ s.status = "RUNNING" => NoneIs(l, "RUNNING") /\ l[s.id] = "none"
  /\ s.at \in Saving /\ s.status # "RUNNING" => l[s.id] = "RUNNING"
  /\ s.at \in Saving /\ s.status = "SUCCEEDED" => e = "whole" /\ c = Downloads
  /\ s.at = "write" => c < Downloads
  /\ s.at \in {"build", "inspect"} => c = Downloads
  /\ s.at = "build" => s.owns
  /\ s.at \in {"build", "inspect"} /\ s.owns => NoneIs(l, "SUCCEEDED")

OneUncertain == \A r, s \in Preparations : ledger[r] = "RUNNING" /\ ledger[s] = "RUNNING" => r = s

ToolchainInv ==
  /\ ToolchainTypes
  /\ AdmittedHolds
  /\ \A p \in Adapters : task[p].at \in Working => TaskFits(task[p], ledger, cached, environment)
  /\ OneUncertain
  /\ SucceededIsWhole
------------------------------------------------------------------------------
LEMMA ToolchainInitInv == ToolchainInit => ToolchainInv
<1> SUFFICES ASSUME ToolchainInit PROVE ToolchainInv
  OBVIOUS
<1>1. \A p \in Adapters : task[p].at = "idle"
  BY DEF ToolchainInit, Idling
<1>2. ToolchainTypes /\ OneUncertain /\ SucceededIsWhole
  BY <1>1, ToolchainAssumption DEF ToolchainInit, ToolchainTypes, OneUncertain, SucceededIsWhole
<1> QED
  BY <1>1, <1>2 DEF ToolchainInv, AdmittedHolds, Working, Saving, Preparing

(* What stays of a preparation when it moves on. *)
LEMMA TaskMoves ==
  ASSUME NEW from, NEW s \in Tasks(from), NEW where
  PROVE  [s EXCEPT !.at = where] = [at |-> where, id |-> s.id, status |-> s.status, owns |-> s.owns]
  BY DEF Tasks

LEMMA TaskIsOneOfThem ==
  ASSUME ToolchainInv, NEW p \in Adapters, task[p].at \in Working
  PROVE  /\ holder = p /\ TaskFits(task[p], ledger, cached, environment)
         /\ task[p] \in Admitted /\ task[p].id \in Preparations
         /\ task[p].status \in Statuses /\ task[p].owns \in BOOLEAN
  BY DEF ToolchainInv, AdmittedHolds, TaskFits, Tasks, Admitted

(* The holder moves on; nobody else is admitted. *)
LEMMA TaskOfHolderMoves ==
  ASSUME ToolchainInv, NEW p \in Adapters, NEW next, holder = p \/ holder = Free,
         task' = [task EXCEPT ![p] = next], holder' = p,
         next.at \in Working, TaskFits(next, ledger', cached', environment'),
         cached' \in 0..Downloads, ledger' \in [Preparations -> {"none"} \cup Statuses],
         OneUncertain', SucceededIsWhole'
  PROVE  ToolchainInv'
<1>1. task'[p] = next /\ \A q \in Adapters \ {p} : task'[q] = task[q]
  BY DEF ToolchainInv, ToolchainTypes
<1>2. ToolchainTypes'
  BY <1>1 DEF ToolchainInv, ToolchainTypes, Working, Saving, Preparing
<1>3. \A q \in Adapters \ {p} : task'[q].at \notin Working
  BY <1>1, ToolchainAssumption DEF ToolchainInv, AdmittedHolds
<1>4. AdmittedHolds'
  BY <1>3 DEF AdmittedHolds
<1>5. \A q \in Adapters : task'[q].at \in Working => TaskFits(task'[q], ledger', cached', environment')
  BY <1>1, <1>3
<1> QED
  BY <1>2, <1>4, <1>5 DEF ToolchainInv

(* A preparation that is not admitted, or no longer: the others go on as they were. *)
LEMMA OtherTasksStay ==
  ASSUME ToolchainInv, NEW p \in Adapters, NEW next, next = Idling \/ next \in Waiting,
         task' = [task EXCEPT ![p] = next],
         \A q \in Adapters \ {p} : holder = q => holder' = q,
         UNCHANGED <<ledger, cached, environment>>
  PROVE  ToolchainInv'
<1>1. task'[p] = next /\ \A q \in Adapters \ {p} : task'[q] = task[q]
  BY DEF ToolchainInv, ToolchainTypes
<1>2. next.at \notin Working /\ (next.at = "lease" => next \in Waiting)
  <2>1. CASE next = Idling
    BY <2>1 DEF Idling, Working, Saving, Preparing
  <2>2. CASE next \in Waiting
    BY <2>2 DEF Waiting, Working, Saving, Preparing
  <2> QED
    BY <2>1, <2>2
<1>3. ToolchainTypes' /\ OneUncertain' /\ SucceededIsWhole'
  BY <1>1, <1>2 DEF ToolchainInv, ToolchainTypes, OneUncertain, SucceededIsWhole
<1>4. AdmittedHolds'
  BY <1>1, <1>2 DEF ToolchainInv, AdmittedHolds
<1>5. \A q \in Adapters : task'[q].at \in Working => TaskFits(task'[q], ledger', cached', environment')
  BY <1>1, <1>2 DEF ToolchainInv
<1> QED
  BY <1>3, <1>4, <1>5 DEF ToolchainInv

LEMMA ToolchainStepInv == ToolchainInv /\ [ToolchainNext]_toolchainVars => ToolchainInv'
<1> SUFFICES ASSUME ToolchainInv, [ToolchainNext]_toolchainVars PROVE ToolchainInv'
  OBVIOUS
<1>0. /\ cached \in 0..Downloads /\ ledger \in [Preparations -> {"none"} \cup Statuses]
      /\ OneUncertain /\ SucceededIsWhole /\ Downloads \in Nat
  BY ToolchainAssumption DEF ToolchainInv, ToolchainTypes
<1>1. ASSUME NEW p \in Adapters, NEW r \in Preparations, Request(p, r) PROVE ToolchainInv'
  <2> DEFINE next == [at |-> "lease", id |-> r, status |-> "RUNNING", owns |-> FALSE]
  <2>1. next \in Waiting
    BY DEF Waiting
  <2> QED
    BY <1>1, <2>1, OtherTasksStay DEF Request, cache
<1>2. ASSUME NEW p \in Adapters, Admit(p) PROVE ToolchainInv'
  <2>1. CASE ~(Readable /\ ~Uncertain /\ ledger[task[p].id] = "none")
    BY <1>2, <2>1, OtherTasksStay DEF Admit, cache
  <2>2. CASE Readable /\ ~Uncertain /\ ledger[task[p].id] = "none"
    <3> DEFINE next == [at |-> "save", id |-> task[p].id, status |-> "RUNNING", owns |-> FALSE]
    <3>1. task[p] \in Waiting
      BY <1>2 DEF Admit, ToolchainInv, ToolchainTypes
    <3>2. [task[p] EXCEPT !.at = "save"] = next
      <4>1. PICK r \in Preparations :
              task[p] = [at |-> "lease", id |-> r, status |-> "RUNNING", owns |-> FALSE]
        BY <3>1 DEF Waiting
      <4>2. task[p] \in Tasks({"lease"})
        BY <4>1 DEF Tasks, Statuses
      <4>3. task[p].id = r /\ task[p].status = "RUNNING" /\ task[p].owns = FALSE
        BY <4>1
      <4> QED
        BY <4>2, <4>3, TaskMoves
    <3>3. next \in Admitted /\ next.at \in Working
      BY <3>1 DEF Waiting, Tasks, Admitted, Working, Saving, Statuses
    <3>4. /\ task' = [task EXCEPT ![p] = [task[p] EXCEPT !.at = "save"]]
          /\ holder' = p /\ holder = Free /\ UNCHANGED <<ledger, cached, environment>>
      BY <1>2, <2>2 DEF Admit, TaskAt, cache
    <3>5. TaskFits(next, ledger', cached', environment')
      BY <2>2, <3>3, <3>4 DEF TaskFits, Tasks, Admitted, Statuses, Working, Saving, Preparing, Uncertain, NoneIs
    <3>6. OneUncertain' /\ SucceededIsWhole'
      BY <1>0, <3>4 DEF OneUncertain, SucceededIsWhole
    <3> HIDE DEF next
    <3>7. task' = [task EXCEPT ![p] = next]
      BY <3>2, <3>4
    <3> QED
      BY <1>0, <3>3, <3>4, <3>5, <3>6, <3>7, TaskOfHolderMoves
  <2> QED
    BY <2>1, <2>2
<1>3. ASSUME NEW p \in Adapters, task[p].at \in Working,
             NEW where \in Working, NEW st \in Statuses, NEW o \in BOOLEAN,
             task' = [task EXCEPT ![p] = [at |-> where, id |-> task[p].id, status |-> st, owns |-> o]],
             UNCHANGED holder, cached' \in 0..Downloads, UNCHANGED ledger, SucceededIsWhole',
             TaskFits([at |-> where, id |-> task[p].id, status |-> st, owns |-> o], ledger', cached', environment')
      PROVE ToolchainInv'
  <2> DEFINE next == [at |-> where, id |-> task[p].id, status |-> st, owns |-> o]
  <2>1. holder = p /\ next \in Admitted
    BY <1>3, TaskIsOneOfThem DEF Tasks, Admitted
  <2>2. OneUncertain'
    BY <1>0, <1>3 DEF OneUncertain
  <2> HIDE DEF next
  <2> QED
    BY <1>0, <1>3, <2>1, <2>2, TaskOfHolderMoves DEF Admitted, next
<1>4. ASSUME NEW p \in Adapters, SaveTemporary(p) PROVE ToolchainInv'
  <2>1. task[p] \in Admitted /\ holder = p /\ TaskFits(task[p], ledger, cached, environment)
    BY <1>4, TaskIsOneOfThem DEF SaveTemporary, Working, Saving
  <2>2. task' = [task EXCEPT ![p] = [at |-> "rename", id |-> task[p].id, status |-> task[p].status,
                                     owns |-> task[p].owns]]
    BY <1>4, <2>1, TaskMoves DEF Admitted, SaveTemporary, TaskAt
  <2>3. UNCHANGED <<ledger, cached, environment, holder>>
    BY <1>4 DEF SaveTemporary, cache
  <2>4. TaskFits([at |-> "rename", id |-> task[p].id, status |-> task[p].status, owns |-> task[p].owns], ledger', cached', environment')
    BY <1>4, <2>1, <2>3 DEF TaskFits, Tasks, Admitted, Statuses, SaveTemporary, Working, Saving, Preparing, Uncertain, NoneIs
  <2>5. SucceededIsWhole' /\ task[p].status \in Statuses /\ task[p].owns \in BOOLEAN
        /\ task[p].at \in Working /\ "rename" \in Working
    BY <1>0, <2>1, <2>3 DEF SucceededIsWhole, Tasks, Admitted, Working, Saving
  <2> QED
    BY <1>0, <1>3, <2>2, <2>3, <2>4, <2>5
<1>5. ASSUME NEW p \in Adapters, SaveRecord(p) PROVE ToolchainInv'
  <2>1. task[p] \in Admitted /\ holder = p /\ TaskFits(task[p], ledger, cached, environment) /\ task[p].id \in Preparations
    BY <1>5, TaskIsOneOfThem DEF SaveRecord, Working, Saving
  <2>2. ledger' = [ledger EXCEPT ![task[p].id] = task[p].status] /\ UNCHANGED <<cached, environment>>
        /\ task[p].status \in Statuses
    BY <1>5, <2>1 DEF SaveRecord, cache, Tasks, Admitted
  <2>3. ledger' \in [Preparations -> {"none"} \cup Statuses]
        /\ ledger'[task[p].id] = task[p].status
        /\ \A r \in Preparations \ {task[p].id} : ledger'[r] = ledger[r]
    BY <1>0, <2>1, <2>2
  <2>4. CASE task[p].status = "RUNNING"
    <3>1. ~Uncertain /\ ledger[task[p].id] = "none"
      BY <1>5, <2>1, <2>4 DEF Uncertain, NoneIs, TaskFits, Tasks, Admitted, Statuses, SaveRecord, Working, Saving
    <3>2. OneUncertain' /\ SucceededIsWhole'
      BY <1>0, <2>2, <2>3, <2>4, <3>1 DEF OneUncertain, SucceededIsWhole, Uncertain
    <3>3. task' = [task EXCEPT ![p] = [at |-> "download", id |-> task[p].id, status |-> task[p].status,
                                       owns |-> task[p].owns]] /\ UNCHANGED holder
      BY <1>5, <2>1, <2>4, TaskMoves DEF Admitted, SaveRecord, TaskAt
    <3> DEFINE next == [at |-> "download", id |-> task[p].id, status |-> task[p].status, owns |-> task[p].owns]
    <3>4. next \in Admitted /\ next.at \in Working
      BY <2>1 DEF Tasks, Admitted, Working, Preparing
    <3>5. TaskFits(next, ledger', cached', environment')
      BY <2>3, <2>4, <3>4 DEF TaskFits, Saving
    <3>6. task' = [task EXCEPT ![p] = next] /\ holder' = p
      BY <2>1, <3>3
    <3> HIDE DEF next
    <3> QED
      BY <1>0, <2>1, <2>2, <2>3, <3>2, <3>4, <3>5, <3>6, TaskOfHolderMoves
  <2>5. CASE task[p].status # "RUNNING"
    <3>1. ledger[task[p].id] = "RUNNING" /\ (task[p].status = "SUCCEEDED" => environment = "whole" /\ cached = Downloads)
      BY <1>5, <2>1, <2>5 DEF TaskFits, Tasks, Admitted, Statuses, SaveRecord, Working, Saving
    <3>2. OneUncertain' /\ SucceededIsWhole'
      BY <1>0, <2>2, <2>3, <2>5, <3>1 DEF OneUncertain, SucceededIsWhole
    <3>3. task' = [task EXCEPT ![p] = Idling]
      BY <1>5, <2>5 DEF SaveRecord
    <3>4. task'[p].at = "idle" /\ \A q \in Adapters \ {p} : task'[q] = task[q]
      BY <3>3 DEF ToolchainInv, ToolchainTypes, Idling
    <3>5. \A q \in Adapters : task'[q].at \notin Working
      BY <2>1, <3>4 DEF ToolchainInv, AdmittedHolds, Working, Saving, Preparing
    <3>6. ToolchainTypes'
      BY <1>0, <2>2, <2>3, <3>3, <3>4 DEF ToolchainInv, ToolchainTypes
    <3> QED
      BY <3>2, <3>5, <3>6 DEF ToolchainInv, AdmittedHolds
  <2> QED
    BY <2>4, <2>5
<1>6. ASSUME NEW p \in Adapters, task[p].at \in Preparing, TaskEnds(p, "FAILED"),
             cached' \in 0..Downloads, UNCHANGED <<ledger, holder>>, SucceededIsWhole'
      PROVE ToolchainInv'
  <2>1. task[p] \in Admitted /\ TaskFits(task[p], ledger, cached, environment) /\ task[p].owns \in BOOLEAN
    BY <1>6, TaskIsOneOfThem DEF Tasks, Admitted, Working
  <2>2. task' = [task EXCEPT ![p] = [at |-> "save", id |-> task[p].id, status |-> "FAILED", owns |-> task[p].owns]]
    BY <1>6, <2>1, TaskIsOneOfThem DEF TaskEnds
  <2>3. TaskFits([at |-> "save", id |-> task[p].id, status |-> "FAILED", owns |-> task[p].owns], ledger', cached', environment')
    BY <1>6, <2>1 DEF TaskFits, Tasks, Admitted, Statuses, Working, Saving, Preparing
  <2> QED
    BY <1>3, <1>6, <2>1, <2>2, <2>3 DEF Working, Saving, Statuses
<1>7. ASSUME NEW p \in Adapters, task[p].at \in Preparing
      PROVE  /\ task[p] \in Admitted /\ TaskFits(task[p], ledger, cached, environment)
             /\ ledger[task[p].id] = "RUNNING" /\ task[p].status = "RUNNING"
  BY <1>7, TaskIsOneOfThem DEF TaskFits, Working
<1>8. ASSUME NEW p \in Adapters, Fetch(p) PROVE ToolchainInv'
  <2>1. task[p].at = "download" /\ cached < Downloads /\ UNCHANGED <<ledger, cached, environment, holder>>
        /\ task[p].at \in Preparing
    BY <1>8 DEF Fetch, Working, Preparing
  <2>2. SucceededIsWhole' /\ cached' \in 0..Downloads
    BY <1>0, <2>1 DEF SucceededIsWhole
  <2>3. CASE TaskEnds(p, "FAILED")
    BY <1>6, <2>1, <2>2, <2>3
  <2>4. CASE TaskAt(p, "write")
    <3>1. task[p] \in Admitted /\ task[p].owns \in BOOLEAN /\ ledger[task[p].id] = "RUNNING" /\ task[p].status = "RUNNING"
      BY <1>7, <2>1 DEF Tasks, Admitted
    <3>2. task' = [task EXCEPT ![p] = [at |-> "write", id |-> task[p].id, status |-> "RUNNING", owns |-> task[p].owns]]
      BY <2>4, <3>1, TaskMoves DEF Admitted, TaskAt
    <3>3. TaskFits([at |-> "write", id |-> task[p].id, status |-> "RUNNING", owns |-> task[p].owns], ledger', cached', environment')
      BY <2>1, <3>1 DEF TaskFits, Tasks, Admitted, Statuses, Working, Saving, Preparing
    <3> QED
      BY <1>3, <2>1, <2>2, <3>1, <3>2, <3>3 DEF Working, Preparing, Statuses
  <2> QED
    BY <1>8, <2>3, <2>4 DEF Fetch
<1>9. ASSUME NEW p \in Adapters, Write(p) PROVE ToolchainInv'
  <2>1. task[p].at = "write" /\ UNCHANGED <<ledger, environment, holder>> /\ task[p].at \in Preparing
    BY <1>9 DEF Write, Working, Preparing
  <2>2. task[p] \in Admitted /\ task[p].owns \in BOOLEAN /\ ledger[task[p].id] = "RUNNING" /\ task[p].status = "RUNNING"
        /\ cached < Downloads
    BY <1>7, <2>1 DEF Tasks, Admitted, TaskFits
  <2>3. NoneIs(ledger, "SUCCEEDED")
    BY <1>0, <2>2 DEF SucceededIsWhole, NoneIs
  <2>4. cached' \in 0..Downloads /\ SucceededIsWhole'
    BY <1>0, <1>9, <2>1, <2>2, <2>3 DEF Write, cache, SucceededIsWhole, NoneIs
  <2>5. CASE TaskEnds(p, "FAILED")
    BY <1>6, <2>1, <2>4, <2>5
  <2>6. CASE TaskAt(p, "download")
    <3>1. task' = [task EXCEPT ![p] = [at |-> "download", id |-> task[p].id, status |-> "RUNNING", owns |-> task[p].owns]]
      BY <2>2, <2>6, TaskMoves DEF Admitted, TaskAt
    <3>2. TaskFits([at |-> "download", id |-> task[p].id, status |-> "RUNNING", owns |-> task[p].owns], ledger', cached', environment')
      BY <2>1, <2>2 DEF TaskFits, Tasks, Admitted, Statuses, Working, Saving, Preparing
    <3> QED
      BY <1>3, <2>1, <2>2, <2>4, <3>1, <3>2 DEF Working, Preparing, Statuses
  <2> QED
    BY <1>9, <2>5, <2>6 DEF Write
<1>10. ASSUME NEW p \in Adapters, Unpack(p) PROVE ToolchainInv'
  <2>1. task[p].at = "download" /\ UNCHANGED <<ledger, cached, holder>> /\ cached = Downloads
        /\ task[p].at \in Preparing
    BY <1>10 DEF Unpack, cache, Working, Preparing
  <2>2. task[p] \in Admitted /\ task[p].id \in Preparations /\ ledger[task[p].id] = "RUNNING" /\ task[p].status = "RUNNING"
    BY <1>7, <2>1 DEF Tasks, Admitted
  <2>3. CASE environment # "none" /\ UNCHANGED environment /\ TaskOwns(p, "inspect", FALSE)
    <3>1. task' = [task EXCEPT ![p] = [at |-> "inspect", id |-> task[p].id, status |-> "RUNNING", owns |-> FALSE]]
      BY <2>2, <2>3, TaskIsOneOfThem DEF TaskOwns
    <3>2. TaskFits([at |-> "inspect", id |-> task[p].id, status |-> "RUNNING", owns |-> FALSE], ledger', cached', environment')
      BY <2>1, <2>2 DEF TaskFits, Tasks, Admitted, Statuses, Working, Saving, Preparing
    <3>3. SucceededIsWhole'
      BY <1>0, <2>1, <2>3 DEF SucceededIsWhole
    <3> QED
      BY <1>0, <1>3, <2>1, <3>1, <3>2, <3>3 DEF Working, Preparing, Statuses
  <2>4. ASSUME environment = "none" PROVE NoneIs(ledger, "SUCCEEDED")
    BY <1>0, <2>4 DEF SucceededIsWhole, NoneIs
  <2>5. CASE environment = "none" /\ TaskOwns(p, "build", TRUE)
    <3>1. task' = [task EXCEPT ![p] = [at |-> "build", id |-> task[p].id, status |-> "RUNNING", owns |-> TRUE]]
      BY <2>2, <2>5, TaskIsOneOfThem DEF TaskOwns
    <3>2. TaskFits([at |-> "build", id |-> task[p].id, status |-> "RUNNING", owns |-> TRUE], ledger', cached', environment') /\ SucceededIsWhole'
      BY <2>1, <2>2, <2>4, <2>5 DEF TaskFits, Tasks, Admitted, Statuses, Working, Saving, Preparing, SucceededIsWhole, NoneIs
    <3> QED
      BY <1>0, <1>3, <2>1, <3>1, <3>2 DEF Working, Preparing, Statuses
  <2>6. CASE TaskEnds(p, "FAILED") /\ UNCHANGED environment
    <3>1. SucceededIsWhole'
      BY <1>0, <2>1, <2>6 DEF SucceededIsWhole
    <3> QED
      BY <1>0, <1>6, <2>1, <2>6, <3>1
  <2> QED
    BY <1>10, <2>3, <2>5, <2>6 DEF Unpack
<1>11. ASSUME NEW p \in Adapters, Build(p) PROVE ToolchainInv'
  <2>1. task[p].at = "build" /\ UNCHANGED <<ledger, cached, holder>> /\ task[p].at \in Preparing
    BY <1>11 DEF Build, cache, Working, Preparing
  <2>2. task[p] \in Admitted /\ task[p].id \in Preparations /\ ledger[task[p].id] = "RUNNING" /\ task[p].status = "RUNNING"
        /\ task[p].owns = TRUE /\ NoneIs(ledger, "SUCCEEDED") /\ cached = Downloads
    BY <1>7, <2>1 DEF Tasks, Admitted, TaskFits
  <2>3. SucceededIsWhole'
    BY <2>1, <2>2 DEF SucceededIsWhole, NoneIs
  <2>4. CASE TaskEnds(p, "FAILED")
    BY <1>0, <1>6, <2>1, <2>3, <2>4
  <2>5. CASE TaskAt(p, "inspect")
    <3>1. task' = [task EXCEPT ![p] = [at |-> "inspect", id |-> task[p].id, status |-> "RUNNING", owns |-> TRUE]]
      BY <2>2, <2>5, TaskMoves DEF Admitted, TaskAt
    <3>2. TaskFits([at |-> "inspect", id |-> task[p].id, status |-> "RUNNING", owns |-> TRUE], ledger', cached', environment')
      BY <2>1, <2>2 DEF TaskFits, Tasks, Admitted, Statuses, Working, Saving, Preparing, NoneIs
    <3> QED
      BY <1>0, <1>3, <2>1, <2>3, <3>1, <3>2 DEF Working, Preparing, Statuses
  <2> QED
    BY <1>11, <2>4, <2>5 DEF Build
<1>12. ASSUME NEW p \in Adapters, Inspect(p) PROVE ToolchainInv'
  <2>1. task[p].at = "inspect" /\ UNCHANGED <<ledger, cached, holder>> /\ task[p].at \in Preparing
    BY <1>12 DEF Inspect, cache, Working, Preparing
  <2>2. task[p] \in Admitted /\ task[p].owns \in BOOLEAN /\ (task[p].owns => NoneIs(ledger, "SUCCEEDED"))
        /\ ledger[task[p].id] = "RUNNING"
    BY <1>7, <2>1 DEF Tasks, Admitted, TaskFits
  <2>3. CASE Expected /\ environment = "whole"
    <3>1. UNCHANGED environment /\ TaskEnds(p, "SUCCEEDED") /\ cached = Downloads
      BY <1>12, <2>3 DEF Inspect, Expected
    <3>2. task' = [task EXCEPT ![p] = [at |-> "save", id |-> task[p].id, status |-> "SUCCEEDED", owns |-> task[p].owns]]
      BY <2>2, <3>1, TaskIsOneOfThem DEF TaskEnds
    <3>3. TaskFits([at |-> "save", id |-> task[p].id, status |-> "SUCCEEDED", owns |-> task[p].owns], ledger', cached', environment')
      BY <2>1, <2>2, <2>3, <3>1 DEF TaskFits, Tasks, Admitted, Statuses, Working, Saving, Preparing
    <3>4. SucceededIsWhole'
      BY <1>0, <2>1, <3>1 DEF SucceededIsWhole
    <3> QED
      BY <1>0, <1>3, <2>1, <2>2, <3>2, <3>3, <3>4 DEF Working, Saving, Statuses
  <2>4. CASE ~(Expected /\ environment = "whole")
    <3>1. TaskEnds(p, "FAILED") /\ environment' = IF task[p].owns THEN "none" ELSE environment
      BY <1>12, <2>4 DEF Inspect
    <3>2. SucceededIsWhole'
      BY <1>0, <2>1, <2>2, <3>1 DEF SucceededIsWhole, NoneIs
    <3> QED
      BY <1>0, <1>6, <2>1, <3>1, <3>2
  <2> QED
    BY <2>3, <2>4
<1>13. ASSUME NEW p \in Adapters, AdapterDies(p) PROVE ToolchainInv'
  BY <1>13, OtherTasksStay DEF AdapterDies, cache
<1>14. CASE UNCHANGED toolchainVars
  <2>1. UNCHANGED <<ledger, cached, environment, holder, task>>
    BY <1>14 DEF toolchainVars, cache
  <2> QED
    BY <2>1 DEF ToolchainInv, ToolchainTypes, AdmittedHolds, TaskFits, NoneIs, OneUncertain, SucceededIsWhole
<1> QED
  BY <1>1, <1>2, <1>4, <1>5, <1>8, <1>9, <1>10, <1>11, <1>12, <1>13, <1>14 DEF ToolchainNext

LEMMA ToolchainInvariance == ToolchainSpec => []ToolchainInv
  BY ToolchainInitInv, ToolchainStepInv, PTL DEF ToolchainSpec

(* The journal stands for any number of adapters that die at any step: one preparation
   is uncertain at most, nobody else works while it is, and what is called prepared is
   the whole environment from the whole cache. *)
THEOREM JournalStands == ToolchainSpec => []PreparationsStand
<1>1. ToolchainInv => PreparationsStand
  <2> SUFFICES ASSUME ToolchainInv PROVE PreparationsStand
    OBVIOUS
  <2>1. \A p \in Adapters : task[p].at \in Preparing => ledger[task[p].id] = "RUNNING"
    BY TaskIsOneOfThem DEF TaskFits, Working
  <2> QED
    BY <2>1 DEF ToolchainInv, PreparationsStand, UncertainNotRetried, OneUncertain, Working, Preparing
<1> QED
  BY <1>1, ToolchainInvariance, PTL
------------------------------------------------------------------------------
(* Project: the baselines stay one chain.  What the callback has read and prepared is
   still so when it is published, because every process that is past the lock holds it;
   and a chain has an end only as long as nothing is lost of it, which is invariant with
   it.  The sequences are the paths of Project. *)
Links == [from : Digests, to : Digests]
Locked == {"decide", "publish", "commit"}
Calls(where) == [at : where, request : Requests, in : Operations]

ProjectTypes ==
  /\ source \in Digests
  /\ bound \in Digests \cup {None}
  /\ events \in [Requests -> Seq(Links)]
  /\ campaigns = [r \in Requests |-> campaigns[r]]
  /\ call = [p \in Proc |-> call[p]]

(* A history has an end, and a start. *)
HasEnd == Accepted # {} => \E r \in Accepted : \A q \in Accepted : Len(events[q]) <= Len(events[r])
HasStart == bound = None => Accepted = {}

(* What the callback of p prepared is still what is to be written: nobody has moved the
   project on since it was read. *)
Prepared(p) ==
  LET c == call[p] IN
  /\ c.in.op = "bind" => bound = None /\ c.put \in Digests
  /\ c.in.op = "accept" =>
       /\ events[c.request] = <<>> /\ Current = c.in.from
       /\ c.put = Append(Latest, [from |-> c.in.from, to |-> c.in.to])
  /\ c.in.op = "campaign" => c.put = c.in /\ c.in.on = Current

CallFits(p) ==
  LET c == call[p] IN
  /\ \/ c.at = "idle"
     \/ c \in Calls({"lock", "decide", "commit"})
     \/ c.at = "publish" /\ c.request \in Requests /\ c.in \in Operations
  /\ c.at # "idle" /\ c.in.op # "bind" => bound # None
  /\ c.at \in Locked => baselineHolder = p
  /\ c.at = "publish" => Prepared(p)
  /\ c.at = "commit" => Done(c)

ProjectInv ==
  /\ ProjectTypes
  /\ OneChain /\ HasEnd /\ HasStart
  /\ \A p \in Proc : CallFits(p)
------------------------------------------------------------------------------
(* The step that is appended to a path is its last one. *)
LEMMA Appended ==
  ASSUME NEW S, NEW s \in Seq(S), NEW e \in S
  PROVE  /\ Append(s, e) \in Seq(S) /\ Append(s, e) # <<>>
         /\ Len(Append(s, e)) = Len(s) + 1
         /\ Front(Append(s, e)) = s /\ Last(Append(s, e)) = e
<1>1. /\ Append(s, e) \in Seq(S) /\ Len(Append(s, e)) = Len(s) + 1 /\ Len(s) \in Nat
      /\ Append(s, e)[Len(s) + 1] = e
      /\ \A i \in 1 .. Len(s) : Append(s, e)[i] = s[i]
  OBVIOUS
<1>2. Last(Append(s, e)) = e
  BY <1>1 DEF Last
<1>3. SubSeq(Append(s, e), 1, Len(s)) = s
  <2> DEFINE t == SubSeq(Append(s, e), 1, Len(s))
  <2>1. t \in Seq(S) /\ Len(t) = Len(s) /\ \A i \in 1 .. Len(s) : t[i] = s[i]
    BY <1>1
  <2> HIDE DEF t
  <2> QED
    BY <1>1, <2>1
<1>4. Front(Append(s, e)) = s
  BY <1>1, <1>3 DEF Front
<1> QED
  BY <1>1, <1>2, <1>4

(* A path is one step longer than what is before its last one. *)
LEMMA FrontIsShorter ==
  ASSUME NEW S, NEW s \in Seq(S), s # <<>>
  PROVE  Len(s) = Len(Front(s)) + 1
<1> DEFINE n == Len(s) - 1
<1>1. n \in Nat /\ n < Len(s) /\ \A i \in 1 .. n : s[i] \in S
  OBVIOUS
<1>2. Len(SubSeq(s, 1, n)) = n
  <2>1. 1 \in Int /\ n \in Int /\ \A i \in 1 .. n : s[i] \in S
    BY <1>1
  <2> HIDE DEF n
  <2>2. Len(SubSeq(s, 1, n)) = IF 1 <= n THEN n - 1 + 1 ELSE 0
    BY ONLY <2>1, SubSeqProperties
  <2> QED
    BY <1>1, <2>2
<1> QED
  BY <1>1, <1>2 DEF Front

LEMMA LatestIsLast ==
  ASSUME HasEnd
  PROVE  \/ Accepted = {} /\ Latest = <<>>
         \/ \E r \in Accepted : /\ Latest = events[r]
                                /\ \A q \in Accepted : Len(events[q]) <= Len(events[r])
<1>1. CASE Accepted = {}
  BY <1>1 DEF Latest
<1>2. CASE Accepted # {}
  <2> DEFINE r == CHOOSE r \in Accepted : \A q \in Accepted : Len(events[q]) <= Len(events[r])
  <2>1. r \in Accepted /\ \A q \in Accepted : Len(events[q]) <= Len(events[r])
    BY <1>2 DEF HasEnd
  <2>2. Latest = events[r]
    BY <1>2 DEF Latest
  <2> QED
    BY <2>1, <2>2
<1> QED
  BY <1>1, <1>2

LEMMA LatestIsPath ==
  ASSUME ProjectTypes, HasEnd
  PROVE  Latest \in Seq(Links)
<1>1. \A r \in Accepted : events[r] \in Seq(Links)
  BY DEF Accepted, ProjectTypes
<1>2. <<>> \in Seq(Links)
  OBVIOUS
<1> QED
  BY <1>1, <1>2, LatestIsLast

LEMMA FilesStay ==
  ASSUME UNCHANGED projectFiles
  PROVE  /\ Accepted' = Accepted /\ Latest' = Latest /\ Current' = Current
         /\ OneChain' = OneChain /\ HasEnd' = HasEnd /\ HasStart' = HasStart
         /\ UNCHANGED <<bound, events, campaigns>>
<1>1. UNCHANGED <<bound, events, campaigns>>
  BY DEF projectFiles
<1>2. Accepted' = Accepted
  BY <1>1 DEF Accepted
<1>3. Latest' = Latest
  BY <1>1, <1>2 DEF Latest
<1>4. Current' = Current
  BY <1>1, <1>3 DEF Current, DigestAfter
<1>5. OneChain' = OneChain
  BY <1>1, <1>2 DEF OneChain, DigestAfter
<1>6. HasEnd' = HasEnd /\ HasStart' = HasStart
  BY <1>1, <1>2 DEF HasEnd, HasStart
<1> QED
  BY <1>1, <1>2, <1>3, <1>4, <1>5, <1>6

LEMMA ProjectInitInv == ProjectInit => ProjectInv
<1> SUFFICES ASSUME ProjectInit PROVE ProjectInv
  OBVIOUS
<1>1. Accepted = {}
  BY DEF ProjectInit, Unbound, Accepted
<1>2. ProjectTypes
  BY DEF ProjectInit, Unbound, ProjectTypes
<1>3. OneChain /\ HasEnd /\ HasStart
  BY <1>1 DEF OneChain, HasEnd, HasStart
<1>4. \A p \in Proc : CallFits(p)
  BY DEF ProjectInit, Unbound, CallFits, Locked
<1> QED
  BY <1>2, <1>3, <1>4 DEF ProjectInv

(* A call that moves on to what fits, while the files of the project stay. *)
LEMMA CallMoves ==
  ASSUME ProjectInv, NEW p \in Proc, NEW s, Goto(p, s), UNCHANGED projectFiles, source' \in Digests,
         \A q \in Proc \ {p} : baselineHolder = q => baselineHolder' = q, CallFits(p)'
  PROVE  ProjectInv'
<1>1. /\ call' = [q \in Proc |-> call'[q]] /\ \A q \in Proc \ {p} : call'[q] = call[q]
  BY DEF ProjectInv, ProjectTypes, Goto
<1>2. ProjectTypes'
  BY <1>1, FilesStay DEF ProjectInv, ProjectTypes
<1>3. OneChain' /\ HasEnd' /\ HasStart'
  BY FilesStay DEF ProjectInv
<1>4. ASSUME NEW q \in Proc \ {p} PROVE CallFits(q)'
  <2>1. CallFits(q) /\ call'[q] = call[q]
    BY <1>1 DEF ProjectInv
  <2>2. call[q].at = "publish" => Prepared(q)'
    BY <2>1, FilesStay DEF CallFits, Prepared
  <2>3. call[q].at = "commit" => Done(call[q])'
    BY <2>1, FilesStay DEF CallFits, Done
  <2> QED
    BY <2>1, <2>2, <2>3, FilesStay DEF CallFits
<1> QED
  BY <1>2, <1>3, <1>4 DEF ProjectInv

(* A call may end at any step. *)
LEMMA CallEnds ==
  ASSUME ProjectInv, NEW p \in Proc, NEW a, EndCall(p, a), UNCHANGED <<source, projectFiles>>
  PROVE  ProjectInv'
<1>1. call'[p].at = "idle" /\ Goto(p, [at |-> "idle", answer |-> a]) /\ source' \in Digests
  BY DEF ProjectInv, ProjectTypes, EndCall, Goto
<1>2. \A q \in Proc \ {p} : baselineHolder = q => baselineHolder' = q
  BY DEF EndCall
<1>3. CallFits(p)'
  BY <1>1 DEF CallFits, Locked
<1> QED
  BY <1>1, <1>2, <1>3, CallMoves

LEMMA UnderLock ==
  ASSUME ProjectInv, NEW p \in Proc, call[p].at \in Locked
  PROVE  /\ baselineHolder = p /\ call[p].request \in Requests /\ call[p].in \in Operations
         /\ call[p].in.op \in {"bind", "accept", "campaign"}
         /\ call[p].at # "publish" => call[p] \in Calls({"decide", "commit"})
         /\ call[p].in.op # "bind" => bound # None
         /\ call[p].in.op = "accept" => call[p].in.from \in Digests /\ call[p].in.to \in Digests
<1>1. CallFits(p)
  BY DEF ProjectInv
<1>2. call[p].request \in Requests /\ call[p].in \in Operations
  BY <1>1 DEF CallFits, Calls, Locked
<1> QED
  BY <1>1, <1>2 DEF CallFits, Calls, Locked, Operations

(* What the callback decides: an answer ok, or a file that is there already, means that
   the work is done; and a baseline that was accepted is answered with ok. *)
LEMMA Decided ==
  ASSUME ProjectInv, NEW p \in Proc, call[p].at = "decide"
  PROVE  LET c == call[p]  d == Decision(call[p]) IN
         /\ "say" \in DOMAIN d /\ d.say = "ok" => Done(c)
         /\ "put" \in DOMAIN d /\ ~Absent(c) /\ File(c) = d.put => Done(c)
         /\ "put" \in DOMAIN d /\ Absent(c) =>
              /\ c.in.op = "bind" => bound = None /\ d.put \in Digests
              /\ c.in.op = "accept" =>
                   /\ events[c.request] = <<>> /\ Current = c.in.from
                   /\ d.put = Append(Latest, [from |-> c.in.from, to |-> c.in.to])
              /\ c.in.op = "campaign" => d.put = c.in /\ c.in.on = Current
         /\ c.in.op = "accept" /\ Done(c) => d = Say("ok")
         /\ c.in.op = "accept" /\ "put" \in DOMAIN d => Absent(c)
<1> DEFINE c == call[p]
           d == Decision(call[p])
<1>1. source \in Digests /\ c.in.op \in {"bind", "accept", "campaign"}
  BY UnderLock DEF Locked, ProjectInv, ProjectTypes
<1>2. CASE c.in.op = "bind"
  <2>1. d = [put |-> source]
    BY <1>2 DEF Decision, Bind, NewFile
  <2>2. Absent(c) <=> bound = None
    BY <1>2 DEF Absent, File
  <2>3. Done(c) <=> bound # None
    BY <1>2 DEF Done
  <2> QED
    BY <1>1, <1>2, <2>1, <2>2, <2>3
<1>3. CASE c.in.op = "accept"
  <2>1. d = Accept(c.request, c.in)
    BY <1>3 DEF Decision
  <2>2. Absent(c) <=> events[c.request] = <<>>
    BY <1>3 DEF Absent, File
  <2>3. Done(c) <=> events[c.request] # <<>> /\ Last(events[c.request]) = [from |-> c.in.from, to |-> c.in.to]
    BY <1>3 DEF Done
  <2>4. CASE events[c.request] # <<>>
    <3>1. d = Say(IF Last(events[c.request]) = [from |-> c.in.from, to |-> c.in.to] THEN "ok" ELSE "conflict")
      BY <2>1, <2>4 DEF Accept
    <3> QED
      BY <1>3, <2>2, <2>3, <2>4, <3>1 DEF Say
  <2>5. CASE events[c.request] = <<>>
    <3>1. \/ \E a \in {"corrupt", "conflict", "changed"} : d = [say |-> a]
          \/ Current = c.in.from /\ d = [put |-> Append(Latest, [from |-> c.in.from, to |-> c.in.to])]
      BY <2>1, <2>5 DEF Accept, Say, NewFile
    <3> QED
      BY <1>3, <2>2, <2>3, <2>5, <3>1
  <2> QED
    BY <2>4, <2>5
<1>4. CASE c.in.op = "campaign"
  <2>1. d = Campaign(c.request, c.in)
    BY <1>4 DEF Decision
  <2>2. \/ \E a \in {"corrupt", "schema", "changed"} : d = [say |-> a]
        \/ c.in.on = Current /\ d = [put |-> c.in]
    BY <2>1 DEF Campaign, Say, NewFile
  <2>3. File(c) = campaigns[c.request] /\ (Done(c) <=> campaigns[c.request] = c.in)
    BY <1>4 DEF File, Done
  <2> QED
    BY <1>4, <2>2, <2>3
<1> QED
  BY <1>1, <1>2, <1>3, <1>4

LEMMA DecideKeeps == ASSUME ProjectInv, NEW p \in Proc, Decide(p) PROVE ProjectInv'
<1> DEFINE c == call[p]
           d == Decision(call[p])
<1>1. /\ c.at = "decide" /\ UNCHANGED <<source, projectFiles>> /\ c \in Calls({"decide", "commit"})
      /\ baselineHolder = p /\ c.in.op \in {"bind", "accept", "campaign"}
      /\ c.in.op # "bind" => bound # None
  BY UnderLock DEF Decide, Locked
<1>2. source' \in Digests /\ ProjectTypes
  BY <1>1 DEF ProjectInv, ProjectTypes
<1>3. ASSUME Goto(p, [c EXCEPT !.at = "commit"]), UNCHANGED baselineHolder, Done(c) PROVE ProjectInv'
  <2>1. call'[p] = [at |-> "commit", request |-> c.request, in |-> c.in]
    BY <1>1, <1>2, <1>3 DEF Goto, ProjectTypes, Calls
  <2>2. Done(call[p])' = Done(call'[p])
    BY <1>1, FilesStay DEF Done
  <2>3. Done(call'[p])
    <3>1. call'[p].in = c.in /\ call'[p].request = c.request
      BY <2>1
    <3> QED
      BY <1>3, <3>1 DEF Done
  <2>4. CallFits(p)'
    BY <1>1, <2>1, <2>2, <2>3, <1>3, FilesStay DEF CallFits, Calls, Locked
  <2> QED
    BY <1>1, <1>2, <1>3, <2>4, CallMoves
<1>4. ASSUME NEW a, EndCall(p, a) PROVE ProjectInv'
  BY <1>1, <1>4, CallEnds
<1>5. CASE "say" \in DOMAIN d
           /\ IF d.say = "ok" THEN Goto(p, [c EXCEPT !.at = "commit"]) /\ UNCHANGED baselineHolder
                              ELSE EndCall(p, d.say)
  BY <1>1, <1>3, <1>4, <1>5, Decided
<1>6. CASE "put" \in DOMAIN d /\ ~Absent(c)
           /\ IF File(c) = d.put THEN Goto(p, [c EXCEPT !.at = "commit"]) /\ UNCHANGED baselineHolder
                                 ELSE EndCall(p, "conflict")
  BY <1>1, <1>3, <1>4, <1>6, Decided
<1>7. CASE /\ "put" \in DOMAIN d /\ Absent(c) /\ UNCHANGED baselineHolder
           /\ Goto(p, [at |-> "publish", request |-> c.request, in |-> c.in, put |-> d.put])
  <2> DEFINE s == [at |-> "publish", request |-> c.request, in |-> c.in, put |-> d.put]
  <2>1. call'[p] = s
    BY <1>2, <1>7 DEF Goto, ProjectTypes
  <2>2. s.at = "publish" /\ s.request = c.request /\ s.in = c.in /\ s.put = d.put
    OBVIOUS
  <2> HIDE DEF s
  <2>3. Prepared(p)'
    BY <1>1, <1>7, <2>1, <2>2, Decided, FilesStay DEF Prepared
  <2>4. CallFits(p)'
    BY <1>1, <1>7, <2>1, <2>2, <2>3, FilesStay DEF CallFits, Calls, Locked
  <2> QED
    BY <1>1, <1>2, <1>7, <2>4, CallMoves
<1> QED
  BY <1>5, <1>6, <1>7 DEF Decide

LEMMA BeginAndLockKeep ==
  ASSUME ProjectInv, NEW p \in Proc,
         Lock(p) \/ \E r \in Requests, in \in Operations : Begin(p, r, in)
  PROVE  ProjectInv'
<1>0. ProjectTypes /\ CallFits(p)
  BY DEF ProjectInv
<1>1. ASSUME NEW r \in Requests, NEW in \in Operations, Begin(p, r, in) PROVE ProjectInv'
  <2>1. call'[p] = [at |-> "lock", request |-> r, in |-> in] /\ (in.op # "bind" => bound # None)
        /\ UNCHANGED <<source, projectFiles, baselineHolder>>
    BY <1>0, <1>1 DEF Begin, Goto, ProjectTypes
  <2>2. CallFits(p)'
    BY <2>1, FilesStay DEF CallFits, Calls, Locked
  <2> QED
    BY <1>0, <1>1, <2>1, <2>2, CallMoves DEF Begin, ProjectTypes
<1>2. CASE Lock(p)
  <2>1. call[p] \in Calls({"lock", "decide", "commit"}) /\ (call[p].in.op # "bind" => bound # None)
    BY <1>0, <1>2 DEF Lock, CallFits
  <2>2. call'[p] = [at |-> "decide", request |-> call[p].request, in |-> call[p].in]
        /\ UNCHANGED <<source, projectFiles>> /\ baselineHolder = NoOne /\ baselineHolder' = p
    BY <1>0, <1>2, <2>1 DEF Lock, Goto, ProjectTypes, Calls
  <2>3. CallFits(p)'
    BY <2>1, <2>2, FilesStay DEF CallFits, Calls, Locked
  <2> QED
    BY <1>0, <1>2, <2>2, <2>3, CallMoves, ProjectAssumption DEF Lock, ProjectTypes
<1> QED
  BY <1>1, <1>2

(* A path that continues the latest one leaves one chain, of which it is the end. *)
LEMMA ChainGrows ==
  ASSUME ProjectInv, NEW r \in Requests, NEW link \in Links, events[r] = <<>>,
         link.from = Current, UNCHANGED bound, bound # None,
         events' = [events EXCEPT ![r] = Append(Latest, link)]
  PROVE  OneChain' /\ HasEnd' /\ events' \in [Requests -> Seq(Links)]
<1> DEFINE new == Append(Latest, link)
<1>0. ProjectTypes /\ OneChain /\ HasEnd
  BY DEF ProjectInv
<1>1. Latest \in Seq(Links)
  BY <1>0, LatestIsPath
<1>2. /\ new \in Seq(Links) /\ new # <<>> /\ Len(new) = Len(Latest) + 1
      /\ Front(new) = Latest /\ Last(new) = link
  BY <1>1, Appended
<1>3. /\ events'[r] = new /\ \A q \in Requests \ {r} : events'[q] = events[q]
      /\ events' \in [Requests -> Seq(Links)]
  BY <1>0, <1>2 DEF ProjectTypes
<1> HIDE DEF new
<1>4. r \notin Accepted /\ Accepted' = Accepted \cup {r}
  BY <1>2, <1>3 DEF Accepted
<1>5. \A q \in Accepted : events[q] \in Seq(Links) /\ events[q] # <<>> /\ Len(events[q]) \in Nat
  BY <1>0 DEF Accepted, ProjectTypes
<1>6. \A q \in Accepted : Len(events[q]) < Len(new)
  BY <1>1, <1>2, <1>5, LatestIsLast, <1>0
<1>7. \A q \in Accepted : Front(events[q]) # Latest
  BY <1>1, <1>2, <1>5, <1>6, FrontIsShorter
<1>8. HasEnd'
  <2>1. \A q \in Accepted' : Len(events'[q]) <= Len(events'[r])
    BY <1>2, <1>3, <1>4, <1>5, <1>6, <1>1
  <2> QED
    BY <1>4, <2>1 DEF HasEnd
<1>9. ASSUME NEW q \in Accepted'
      PROVE  /\ Len(events'[q]) > 1 => \E o \in Accepted' : events'[o] = Front(events'[q])
             /\ Last(events'[q]).from = DigestAfter(Front(events[q]))'
             /\ \A o \in Accepted' \ {q} : Front(events'[o]) # Front(events'[q])
  <2>1. CASE q = r
    <3>1. Len(new) > 1 => \E o \in Accepted : events[o] = Latest
      BY <1>0, <1>1, <1>2, LatestIsLast
    <3>2. Last(new).from = DigestAfter(Latest)
      BY <1>2 DEF Current
    <3>3. DigestAfter(Front(events[q]))' = DigestAfter(Latest)
      BY <1>2, <1>3, <2>1 DEF DigestAfter
    <3>4. \A o \in Accepted : events'[o] = events[o]
      BY <1>3, <1>4 DEF Accepted
    <3>5. Len(events'[q]) > 1 => \E o \in Accepted' : events'[o] = Front(events'[q])
      BY <1>2, <1>3, <1>4, <2>1, <3>1, <3>4
    <3>6. Last(events'[q]).from = DigestAfter(Front(events[q]))'
      BY <1>3, <2>1, <3>2, <3>3
    <3>7. \A o \in Accepted' \ {q} : Front(events'[o]) # Front(events'[q])
      BY <1>2, <1>3, <1>4, <1>7, <2>1, <3>4
    <3> QED
      BY <3>5, <3>6, <3>7
  <2>2. CASE q # r
    <3>1. q \in Accepted /\ events'[q] = events[q] /\ \A o \in Accepted : events'[o] = events[o]
      BY <1>3, <1>4, <2>2 DEF Accepted
    <3>2. DigestAfter(Front(events[q]))' = DigestAfter(Front(events[q]))
      BY <3>1 DEF DigestAfter
    <3>3. /\ Len(events[q]) > 1 => \E o \in Accepted : events[o] = Front(events[q])
          /\ Last(events[q]).from = DigestAfter(Front(events[q]))
          /\ \A o \in Accepted \ {q} : Front(events[o]) # Front(events[q])
      BY <1>0, <3>1 DEF OneChain
    <3>4. Len(events'[q]) > 1 => \E o \in Accepted' : events'[o] = Front(events'[q])
      BY <1>4, <3>1, <3>3
    <3>5. \A o \in Accepted' \ {q} : Front(events'[o]) # Front(events'[q])
      BY <1>2, <1>3, <1>4, <1>7, <3>1, <3>3
    <3> QED
      BY <3>1, <3>2, <3>3, <3>4, <3>5
  <2> QED
    BY <2>1, <2>2
<1>10. OneChain'
  BY <1>9 DEF OneChain
<1> QED
  BY <1>3, <1>8, <1>10

LEMMA PublishKeeps == ASSUME ProjectInv, NEW p \in Proc, Publish(p) PROVE ProjectInv'
<1> DEFINE c == call[p]
<1>0. ProjectTypes /\ OneChain /\ HasEnd /\ HasStart
  BY DEF ProjectInv
<1>1. /\ c.at = "publish" /\ Prepared(p) /\ baselineHolder = p /\ UNCHANGED <<source, baselineHolder>>
      /\ c.request \in Requests /\ c.in \in Operations /\ c.in.op \in {"bind", "accept", "campaign"}
      /\ c.in.op # "bind" => bound # None
      /\ c.in.op = "accept" => c.in.from \in Digests /\ c.in.to \in Digests
  BY UnderLock DEF Publish, Locked, ProjectInv, CallFits
<1>2. /\ bound' = (IF c.in.op = "bind" THEN c.put ELSE bound)
      /\ events' = (IF c.in.op = "accept" THEN [events EXCEPT ![c.request] = c.put] ELSE events)
      /\ campaigns' = (IF c.in.op = "campaign" THEN [campaigns EXCEPT ![c.request] = c.put] ELSE campaigns)
  BY DEF Publish
<1>3. /\ call'[p] = [at |-> "commit", request |-> c.request, in |-> c.in]
      /\ call' = [q \in Proc |-> call'[q]] /\ \A q \in Proc \ {p} : call'[q] = call[q]
  BY <1>0 DEF Publish, Goto, ProjectTypes
<1>4. bound' \in Digests \cup {None} /\ (bound # None => bound' # None) /\ (c.in.op = "bind" => bound' # None)
  BY <1>0, <1>1, <1>2, ProjectAssumption DEF Prepared, ProjectTypes
<1>5. ProjectTypes' /\ OneChain' /\ HasEnd' /\ HasStart'
  <2>1. CASE c.in.op = "accept"
    <3> DEFINE link == [from |-> c.in.from, to |-> c.in.to]
    <3>1. link \in Links /\ link.from = Current /\ events' = [events EXCEPT ![c.request] = Append(Latest, link)]
      BY <1>1, <1>2, <2>1 DEF Prepared, Links
    <3>2. events[c.request] = <<>> /\ bound # None /\ UNCHANGED bound /\ UNCHANGED campaigns
      BY <1>1, <1>2, <2>1 DEF Prepared
    <3> HIDE DEF link
    <3>3. OneChain' /\ HasEnd' /\ events' \in [Requests -> Seq(Links)]
      BY <1>1, <3>1, <3>2, ChainGrows
    <3> QED
      BY <1>0, <1>1, <1>3, <3>2, <3>3 DEF ProjectTypes, HasStart
  <2>2. CASE c.in.op # "accept"
    <3>1. UNCHANGED events /\ Accepted' = Accepted
      BY <1>2, <2>2 DEF Accepted
    <3>2. Accepted = {} \/ UNCHANGED bound
      BY <1>0, <1>1, <1>2 DEF Prepared, HasStart
    <3>3. OneChain'
      BY <1>0, <3>1, <3>2 DEF OneChain, DigestAfter
    <3>4. HasEnd' /\ HasStart'
      BY <1>0, <1>4, <3>1 DEF HasEnd, HasStart
    <3>5. ProjectTypes'
      BY <1>0, <1>1, <1>2, <1>3, <1>4, <3>1 DEF ProjectTypes
    <3> QED
      BY <3>3, <3>4, <3>5
  <2> QED
    BY <2>1, <2>2
<1>6. ASSUME NEW q \in Proc \ {p} PROVE CallFits(q)'
  <2>1. CallFits(q) /\ call'[q] = call[q] /\ call[q].at \notin Locked
    BY <1>1, <1>3 DEF ProjectInv, CallFits
  <2> QED
    BY <1>1, <1>4, <2>1 DEF CallFits, Locked
<1>7. Done(call[p])'
  <2>1. call'[p].in = c.in /\ call'[p].request = c.request
    BY <1>3
  <2>2. CASE c.in.op = "bind"
    BY <1>4, <2>1, <2>2 DEF Done
  <2>3. CASE c.in.op = "campaign"
    <3>1. campaigns'[c.request] = c.in
      BY <1>0, <1>1, <1>2, <2>3 DEF Prepared, ProjectTypes
    <3> QED
      BY <2>1, <2>3, <3>1 DEF Done
  <2>4. CASE c.in.op = "accept"
    <3> DEFINE link == [from |-> c.in.from, to |-> c.in.to]
    <3>1. events'[c.request] = Append(Latest, link) /\ link \in Links
      BY <1>0, <1>1, <1>2, <2>4 DEF Prepared, ProjectTypes, Links
    <3>2. Latest \in Seq(Links)
      BY <1>0, LatestIsPath
    <3> HIDE DEF link
    <3>3. events'[c.request] # <<>> /\ Last(events'[c.request]) = link
      BY <3>1, <3>2, Appended
    <3> QED
      BY <2>1, <2>4, <3>3 DEF Done, link
  <2> QED
    BY <1>1, <2>2, <2>3, <2>4
<1>8. CallFits(p)'
  BY <1>1, <1>3, <1>4, <1>7 DEF CallFits, Calls, Locked
<1> QED
  BY <1>5, <1>6, <1>8 DEF ProjectInv

LEMMA ProjectStepInv == ProjectInv /\ [ProjectNext]_projectVars => ProjectInv'
<1> SUFFICES ASSUME ProjectInv, [ProjectNext]_projectVars PROVE ProjectInv'
  OBVIOUS
<1>1. ASSUME NEW p \in Proc, Busy(p) \/ Commit(p) \/ CommitFails(p) \/ Crash(p) PROVE ProjectInv'
  BY <1>1, CallEnds DEF Busy, Commit, CommitFails, Crash
<1>2. CASE Edit \/ UNCHANGED projectVars
  <2>1. UNCHANGED <<projectFiles, baselineHolder, call>> /\ source' \in Digests
    BY <1>2 DEF Edit, projectVars, ProjectInv, ProjectTypes
  <2>2. ASSUME NEW p \in Proc PROVE CallFits(p)'
    <3>1. CallFits(p)
      BY DEF ProjectInv
    <3> QED
      BY <2>1, <3>1, FilesStay DEF CallFits, Prepared, Done
  <2> QED
    BY <2>1, <2>2, FilesStay DEF ProjectInv, ProjectTypes
<1> QED
  BY <1>1, <1>2, BeginAndLockKeep, DecideKeeps, PublishKeeps DEF ProjectNext, OwnStep

LEMMA ProjectInvariance == ProjectSpec => []ProjectInv
  BY ProjectInitInv, ProjectStepInv, PTL DEF ProjectSpec

(* A call only ends with an answer that is true. *)
LEMMA AnswersAreTrue ==
  ASSUME ProjectInv, [ProjectNext]_projectVars, NEW p \in Proc, call[p].at # "idle", call'[p].at = "idle"
  PROVE  /\ call'[p].answer = "ok" => Done(call[p])
         /\ call[p].in.op = "accept" /\ Done(call[p])
              => call'[p].answer \in {"ok", "busy", "commit_failed", "died"}
<1>0. ProjectTypes /\ CallFits(p)
  BY DEF ProjectInv
<1>1. ASSUME NEW q \in Proc, NEW s, Goto(q, s), q # p \/ s.at # "idle" PROVE FALSE
  BY <1>0, <1>1 DEF Goto, ProjectTypes
<1>2. ASSUME NEW a, EndCall(p, a) PROVE call'[p].answer = a
  BY <1>0, <1>2 DEF EndCall, Goto, ProjectTypes
<1>3. CASE Busy(p) \/ CommitFails(p) \/ Crash(p)
  BY <1>2, <1>3 DEF Busy, CommitFails, Crash
<1>4. CASE Commit(p)
  BY <1>0, <1>2, <1>4 DEF Commit, CallFits
<1>5. CASE Decide(p)
  <2>1. call[p].at = "decide"
    BY <1>5 DEF Decide
  <2>2. CASE /\ "say" \in DOMAIN Decision(call[p])
             /\ IF Decision(call[p]).say = "ok"
                THEN Goto(p, [call[p] EXCEPT !.at = "commit"]) ELSE EndCall(p, Decision(call[p]).say)
    <3>1. ~Goto(p, [call[p] EXCEPT !.at = "commit"])
      <4>1. call[p] \in Calls({"lock", "decide", "commit"})
        BY <1>0, <2>1 DEF CallFits
      <4> QED
        BY <1>1, <4>1 DEF Calls
    <3>2. EndCall(p, Decision(call[p]).say) /\ Decision(call[p]).say # "ok"
      BY <2>2, <3>1
    <3>3. call'[p].answer # "ok"
      BY <1>2, <3>2
    <3>4. ~(call[p].in.op = "accept" /\ Done(call[p]))
      <4>1. Say("ok").say = "ok"
        BY DEF Say
      <4> QED
        BY <2>1, <3>2, <4>1, Decided
    <3> QED
      BY <3>3, <3>4
  <2>3. CASE /\ "put" \in DOMAIN Decision(call[p]) /\ ~Absent(call[p])
             /\ IF File(call[p]) = Decision(call[p]).put
                THEN Goto(p, [call[p] EXCEPT !.at = "commit"]) ELSE EndCall(p, "conflict")
    <3>1. ~Goto(p, [call[p] EXCEPT !.at = "commit"])
      <4>1. call[p] \in Calls({"lock", "decide", "commit"})
        BY <1>0, <2>1 DEF CallFits
      <4> QED
        BY <1>1, <4>1 DEF Calls
    <3>2. EndCall(p, "conflict") /\ call[p].in.op # "accept"
      BY <2>1, <2>3, <3>1, Decided
    <3> QED
      BY <1>2, <3>2
  <2> QED
    BY <1>1, <1>5, <2>2, <2>3 DEF Decide
<1>6. ASSUME NEW q \in Proc \ {p}, Busy(q) \/ Decide(q) \/ Commit(q) \/ CommitFails(q) \/ Crash(q)
      PROVE  FALSE
  <2>1. call'[p] = call[p]
    BY <1>0, <1>6 DEF Busy, Decide, Commit, CommitFails, Crash, EndCall, Goto, ProjectTypes
  <2> QED
    BY <2>1
<1>7. ASSUME NEW q \in Proc,
             Lock(q) \/ Publish(q) \/ \E r \in Requests, in \in Operations : Begin(q, r, in)
      PROVE  FALSE
  <2>1. q # p => call'[p] = call[p]
    BY <1>0, <1>7 DEF Lock, Publish, Begin, Goto, ProjectTypes
  <2>2. CASE Lock(p)
    <3>1. call[p] \in Calls({"lock", "decide", "commit"})
      BY <1>0, <2>2 DEF Lock, CallFits
    <3> QED
      BY <1>1, <2>2, <3>1 DEF Lock, Calls
  <2>3. CASE Publish(p) \/ \E r \in Requests, in \in Operations : Begin(p, r, in)
    BY <1>1, <2>3 DEF Publish, Begin
  <2> QED
    BY <1>7, <2>1, <2>2, <2>3
<1>8. CASE Edit \/ UNCHANGED projectVars
  BY <1>8 DEF Edit, projectVars
<1> QED
  BY <1>3, <1>4, <1>5, <1>6, <1>7, <1>8 DEF ProjectNext, OwnStep

(* A campaign is only written by the transaction that read the baseline. *)
LEMMA CampaignsOnBaseline ==
  ASSUME ProjectInv, [ProjectNext]_projectVars, NEW r \in Requests, campaigns'[r] # campaigns[r]
  PROVE  campaigns'[r].on = Current
<1>0. campaigns' # campaigns
  OBVIOUS
<1>1. PICK p \in Proc : Publish(p)
  BY <1>0 DEF ProjectNext, OwnStep, projectVars, projectFiles, Begin, Lock, Busy, Decide, Commit, CommitFails,
              Crash, Edit
<1>2. /\ call[p].in.op = "campaign" /\ campaigns' = [campaigns EXCEPT ![call[p].request] = call[p].put]
      /\ Prepared(p)
  BY <1>0, <1>1 DEF Publish, ProjectInv, CallFits
<1>3. campaigns'[r] = call[p].put
  BY <1>2 DEF ProjectInv, ProjectTypes
<1> QED
  BY <1>2, <1>3 DEF Prepared

(* The baselines stay one chain, answers are true and campaigns are written on the
   current baseline, for any processes, requests and digests, however often a writer
   dies or its COMMIT fails. *)
THEOREM ProjectIsKept == ProjectSpec => ProjectKept
<1> DEFINE True ==
      \A p \in Proc :
        call[p].at # "idle" /\ call'[p].at = "idle" =>
          /\ call'[p].answer = "ok" => Done(call[p])
          /\ call[p].in.op = "accept" /\ Done(call[p])
               => call'[p].answer \in {"ok", "busy", "commit_failed", "died"}
           OnBaseline == \A r \in Requests : campaigns'[r] # campaigns[r] => campaigns'[r].on = Current
<1>1. ProjectInv => HistoryReadable
  BY DEF ProjectInv, HistoryReadable
<1>2. ProjectInv /\ [ProjectNext]_projectVars => [True]_projectVars
  BY AnswersAreTrue
<1>3. ProjectInv /\ [ProjectNext]_projectVars => [OnBaseline]_projectVars
  BY CampaignsOnBaseline
<1>4. ProjectSpec => []HistoryReadable /\ [][True]_projectVars /\ [][OnBaseline]_projectVars
  BY <1>1, <1>2, <1>3, ProjectInvariance, PTL DEF ProjectSpec
<1> QED
  BY <1>4 DEF ProjectKept, AnswersTrue, CampaignOnBaseline
------------------------------------------------------------------------------
(* Feedback: a review or disposition is recorded once, against the record that the
   request was read from, and a request id stands for one input. *)
Records == [review : {Nothing} \cup Reviews, disposition : {Nothing} \cup Dispositions]

FeedbackTypes ==
  /\ material \in Materials
  /\ inbox \in [Events -> {Nothing} \cup Records]
  /\ receipts \in [RequestIds -> {Nothing} \cup Inputs]
  /\ revision \in 0..Limit
  /\ asks = [c \in Callers |-> asks[c]]

(* An ask at a, by the inbox box: it keeps what its next step needs, and the record that
   it read the request against has not gone. *)
AskFits(a, box) ==
  /\ a.at \in Steps
  /\ a.at \in {"source", "mutate"} =>
       /\ a.in \in Inputs /\ a.id \in RequestIds
       /\ a.in.op # "ingest" => box[a.in.event] \in Records
  /\ a.at = "mutate" /\ a.in.op = "propose" => a.read \in Materials
  /\ a.at = "answer" => a.answer \in Answers

FeedbackInv ==
  /\ FeedbackTypes
  /\ \A c \in Callers : AskFits(asks[c], inbox)
  /\ DecidedAsReviewed
------------------------------------------------------------------------------
LEMMA FeedbackInitInv == FeedbackInit => FeedbackInv
  BY FeedbackAssumption
  DEF FeedbackInit, Empty, FeedbackInv, FeedbackTypes, AskFits, DecidedAsReviewed, Steps

(* A caller that moves on to a state that fits, while the store stays, keeps the
   invariant. *)
LEMMA AskMoves ==
  ASSUME FeedbackInv, NEW c \in Callers, NEW a, Become(c, a), AskFits(a, inbox),
         UNCHANGED <<material, store>>
  PROVE  FeedbackInv'
<1>1. /\ asks'[c] = a /\ asks' = [d \in Callers |-> asks'[d]]
      /\ \A d \in Callers \ {c} : asks'[d] = asks[d]
      /\ UNCHANGED <<inbox, receipts, revision, material>>
  BY DEF FeedbackInv, FeedbackTypes, Become, store
<1>2. \A d \in Callers : AskFits(asks'[d], inbox')
  BY <1>1 DEF FeedbackInv
<1> QED
  BY <1>1, <1>2 DEF FeedbackInv, FeedbackTypes, DecidedAsReviewed

(* What the transaction makes of the record that it finds. *)
LEMMA AppliedRecord ==
  ASSUME FeedbackInv, NEW c \in Callers, asks[c].at = "mutate"
  PROVE  LET a == asks[c]  e == asks[c].in.event IN
         /\ Apply(a).ok \in BOOLEAN
         /\ ~Apply(a).ok => Apply(a).answer \in {"immutable", "stale"}
         /\ Apply(a).ok =>
              /\ Apply(a).record \in Records
              /\ \/ Apply(a).record.disposition = Nothing
                 \/ inbox[e] # Nothing /\ Apply(a).record = inbox[e]
                 \/ /\ a.in = [op |-> "decide", event |-> e, review |-> Apply(a).record.review,
                               decision |-> Apply(a).record.disposition.decision]
                    /\ Apply(a).record.disposition.review = Apply(a).record.review
<1> DEFINE a == asks[c]
           e == asks[c].in.event
<1>1. /\ a.in \in Inputs /\ e \in Events /\ inbox[e] \in {Nothing} \cup Records
      /\ a.in.op # "ingest" => inbox[e] \in Records
      /\ a.in.op = "propose" => a.read \in Materials
  BY DEF FeedbackInv, FeedbackTypes, AskFits, Inputs
<1>2. CASE a.in.op = "ingest"
  BY <1>1, <1>2 DEF Apply, Applied, Records
<1>3. CASE a.in.op = "propose"
  BY <1>1, <1>3 DEF Apply, Applied, Records, Inputs, Reviews
<1>4. CASE a.in.op = "decide"
  <2>1. a.in = [op |-> "decide", event |-> e, review |-> a.in.review, decision |-> a.in.decision]
        /\ a.in.review \in Reviews /\ a.in.decision \in Decisions
    BY <1>1, <1>4 DEF Inputs
  <2> QED
    BY <1>1, <1>4, <2>1 DEF Apply, Applied, Records, Dispositions
<1> QED
  BY <1>1, <1>2, <1>3, <1>4 DEF Inputs

(* A transaction that commits keeps the invariant: it finds no receipt of its request, so
   that no receipt which another decision stands on is overwritten. *)
LEMMA MutateKeeps == ASSUME FeedbackInv, NEW c \in Callers, Mutate(c) PROVE FeedbackInv'
<1> DEFINE a == asks[c]
           e == asks[c].in.event
           r == Apply(asks[c]).record
<1>1. a.at = "mutate" /\ a.in \in Inputs /\ a.id \in RequestIds /\ e \in Events
  BY DEF Mutate, FeedbackInv, AskFits, Inputs
<1>2. CASE Refusal(a) # "none"
  BY <1>1, <1>2, AskMoves DEF Mutate, Reply, AskFits, Answers, Steps, Refusal, store
<1>3. CASE Refusal(a) = "none" /\ ~Apply(a).ok
  BY <1>1, <1>3, AppliedRecord, AskMoves DEF Mutate, Reply, AskFits, Answers, Steps, store
<1>4. CASE Refusal(a) = "none" /\ Apply(a).ok
  <2>1. /\ inbox' = [inbox EXCEPT ![e] = r] /\ revision' = revision + 1
        /\ receipts' = [receipts EXCEPT ![a.id] = a.in]
        /\ asks' = [asks EXCEPT ![c] = [at |-> "answer", answer |-> "ok"]] /\ UNCHANGED material
    BY <1>4 DEF Mutate, Reply, Become
  <2>2. receipts[a.id] = Nothing /\ revision < Limit
    BY <1>4, FeedbackAssumption DEF Refusal, FeedbackInv, FeedbackTypes
  <2>3. r \in Records
    BY <1>1, <1>4, AppliedRecord
  <2> HIDE DEF r
  <2>4. FeedbackTypes'
    BY <1>1, <2>1, <2>2, <2>3, FeedbackAssumption DEF FeedbackInv, FeedbackTypes
  <2>5. inbox'[e] = r /\ \A f \in Events \ {e} : inbox'[f] = inbox[f]
    BY <1>1, <2>1 DEF FeedbackInv, FeedbackTypes
  <2>6. ASSUME NEW d \in Callers PROVE AskFits(asks[d], inbox)'
    <3>1. CASE d = c
      <4>1. asks'[d] = [at |-> "answer", answer |-> "ok"]
        BY <2>1, <3>1 DEF FeedbackInv, FeedbackTypes
      <4> QED
        BY <4>1 DEF AskFits, Steps, Answers
    <3>2. CASE d # c
      <4>1. asks'[d] = asks[d] /\ AskFits(asks[d], inbox)
        BY <2>1, <3>2 DEF FeedbackInv, FeedbackTypes
      <4>2. asks[d].in \in Inputs => asks[d].in.event \in Events
        BY DEF Inputs
      <4> QED
        BY <2>3, <2>5, <4>1, <4>2 DEF AskFits
    <3> QED
      BY <3>1, <3>2
  <2>7. receipts'[a.id] = a.in /\ \A i \in RequestIds \ {a.id} : receipts'[i] = receipts[i]
    BY <1>1, <2>1 DEF FeedbackInv, FeedbackTypes
  <2>8. ASSUME NEW f \in Events, inbox[f] # Nothing, inbox[f].disposition # Nothing
        PROVE  \E i \in RequestIds :
                 receipts'[i] = [op |-> "decide", event |-> f, review |-> inbox[f].review,
                                 decision |-> inbox[f].disposition.decision]
    <3>1. PICK i \in RequestIds :
            receipts[i] = [op |-> "decide", event |-> f, review |-> inbox[f].review,
                           decision |-> inbox[f].disposition.decision]
      BY <2>8 DEF FeedbackInv, DecidedAsReviewed
    <3>2. inbox[f].review = inbox[f].disposition.review /\ inbox[f].disposition \in Dispositions
      BY <2>8 DEF FeedbackInv, FeedbackTypes, DecidedAsReviewed, Records
    <3>3. receipts[i] \in Inputs
      BY <3>1, <3>2 DEF Inputs, Dispositions
    <3>4. i # a.id
      BY <2>2, <3>3, FeedbackAssumption
    <3> QED
      BY <2>7, <3>1, <3>4
  <2>9. ASSUME NEW f \in Events, inbox'[f] # Nothing, inbox'[f].disposition # Nothing
        PROVE  /\ inbox'[f].disposition.review = inbox'[f].review
               /\ \E i \in RequestIds :
                    receipts'[i] = [op |-> "decide", event |-> f, review |-> inbox'[f].review,
                                    decision |-> inbox'[f].disposition.decision]
    <3>1. CASE inbox'[f] = inbox[f]
      BY <2>8, <2>9, <3>1 DEF FeedbackInv, DecidedAsReviewed
    <3>2. CASE inbox'[f] # inbox[f]
      <4>1. f = e /\ inbox'[f] = r /\ r # inbox[e] /\ r.disposition # Nothing
        BY <2>5, <2>9, <3>2
      <4>2. /\ a.in = [op |-> "decide", event |-> e, review |-> r.review, decision |-> r.disposition.decision]
            /\ r.disposition.review = r.review
        BY <1>1, <1>4, <4>1, AppliedRecord DEF r
      <4> QED
        BY <1>1, <2>7, <4>1, <4>2
    <3> QED
      BY <3>1, <3>2
  <2> QED
    BY <2>4, <2>6, <2>9 DEF FeedbackInv, DecidedAsReviewed
<1> QED
  BY <1>1, <1>2, <1>3, <1>4, AppliedRecord

LEMMA FeedbackStepInv == FeedbackInv /\ [FeedbackNext]_feedbackVars => FeedbackInv'
<1> SUFFICES ASSUME FeedbackInv, [FeedbackNext]_feedbackVars PROVE FeedbackInv'
  OBVIOUS
<1>1. ASSUME NEW c \in Callers, NEW i \in RequestIds, NEW in \in Inputs,
             NEW n \in revision .. revision + 1, Ask(c, i, in, n)
      PROVE  FeedbackInv'
  <2>1. in.event \in Events
    BY DEF Inputs
  <2>2. AskFits([at |-> "source", id |-> i, in |-> in, expected |-> n], inbox)
    BY <1>1, <2>1 DEF Ask, AskFits, Steps, FeedbackInv, FeedbackTypes
  <2> QED
    BY <1>1, <2>2, AskMoves DEF Ask
<1>2. ASSUME NEW c \in Callers, NEW e \in Events, Deliver(c, e) PROVE FeedbackInv'
  <2>1. Delivery[e] \in RequestIds /\ [op |-> "ingest", event |-> e] \in Inputs
    BY FeedbackAssumption DEF Inputs
  <2>2. revision \in revision .. revision + 1
    BY FeedbackAssumption DEF FeedbackInv, FeedbackTypes
  <2> QED
    BY <1>1, <1>2, <2>1, <2>2 DEF Deliver
<1>3. ASSUME NEW c \in Callers, ProviderFails(c) PROVE FeedbackInv'
  BY <1>3, AskMoves DEF ProviderFails, Reply, AskFits, Answers, Steps
<1>4. ASSUME NEW c \in Callers, Review(c) PROVE FeedbackInv'
  <2> DEFINE a == asks[c]
  <2>1. a.at = "source" /\ AskFits(a, inbox) /\ material \in Materials /\ UNCHANGED <<material, store>>
    BY <1>4 DEF Review, FeedbackInv, FeedbackTypes
  <2>2. CASE a.in.op = "ingest"
    <3>1. Become(c, [a EXCEPT !.at = "mutate"])
      BY <1>4, <2>2 DEF Review
    <3>2. AskFits([a EXCEPT !.at = "mutate"], inbox)
      BY <2>1, <2>2 DEF AskFits, Steps
    <3> QED
      BY <2>1, <3>1, <3>2, AskMoves
  <2>3. CASE a.in.op # "ingest" /\ Reply(c, "stale")
    BY <2>1, <2>3, AskMoves DEF Reply, AskFits, Answers, Steps
  <2>4. CASE /\ a.in.op # "ingest"
             /\ Become(c, [at |-> "mutate", id |-> a.id, in |-> a.in, expected |-> a.expected,
                           read |-> material])
    <3>1. AskFits([at |-> "mutate", id |-> a.id, in |-> a.in, expected |-> a.expected,
                   read |-> material], inbox)
      BY <2>1, <2>4 DEF AskFits, Steps
    <3> QED
      BY <2>1, <2>4, <3>1, AskMoves
  <2> QED
    BY <1>4, <2>2, <2>3, <2>4 DEF Review
<1>5. ASSUME NEW c \in Callers, Leave(c) PROVE FeedbackInv'
  BY <1>5, AskMoves DEF Leave, AskFits, Steps
<1>6. CASE Republish
  BY <1>6 DEF Republish, store, FeedbackInv, FeedbackTypes, DecidedAsReviewed
<1>7. CASE UNCHANGED feedbackVars
  BY <1>7 DEF feedbackVars, store, FeedbackInv, FeedbackTypes, DecidedAsReviewed
<1> QED
  BY <1>1, <1>2, <1>3, <1>4, <1>5, <1>6, <1>7, MutateKeeps DEF FeedbackNext

LEMMA FeedbackInvariance == FeedbackSpec => []FeedbackInv
  BY FeedbackInitInv, FeedbackStepInv, PTL DEF FeedbackSpec

\* What a step may answer to a request that waits for its transaction.
Answered ==
  \A c \in Callers :
    asks[c].at = "mutate" /\ asks'[c].at = "answer" =>
      /\ asks'[c].answer = "ok" => receipts'[asks[c].id] = asks[c].in
      /\ receipts[asks[c].id] = asks[c].in =>
           asks'[c].answer = "ok" /\ receipts' = receipts

(* Only the transaction of a caller answers it, from the receipt if there is one. *)
LEMMA StepAnswers == FeedbackInv /\ [FeedbackNext]_feedbackVars => Answered
<1> SUFFICES ASSUME FeedbackInv, [FeedbackNext]_feedbackVars, NEW c \in Callers,
                    asks[c].at = "mutate", asks'[c].at = "answer"
             PROVE  /\ asks'[c].answer = "ok" => receipts'[asks[c].id] = asks[c].in
                    /\ receipts[asks[c].id] = asks[c].in =>
                         asks'[c].answer = "ok" /\ receipts' = receipts
  BY DEF Answered
<1> DEFINE a == asks[c]
<1>1. asks = [d \in Callers |-> asks[d]] /\ a.in \in Inputs /\ a.id \in RequestIds
  BY DEF FeedbackInv, FeedbackTypes, AskFits
<1>2. ASSUME NEW d \in Callers, NEW s, Become(d, s), d # c \/ s.at # "answer" PROVE FALSE
  BY <1>1, <1>2 DEF Become
<1>3. Mutate(c)
  BY <1>1, <1>2 DEF FeedbackNext, feedbackVars, Ask, Deliver, ProviderFails, Review, Reply, Mutate,
                    Leave, Republish
<1>4. ASSUME NEW s, Become(c, s) PROVE asks'[c] = s
  BY <1>1, <1>4 DEF Become
<1>5. CASE Refusal(a) # "none"
  <2>1. asks'[c].answer = Refusal(a) /\ receipts' = receipts
    BY <1>3, <1>4, <1>5 DEF Mutate, Reply, store
  <2> QED
    BY <1>1, <2>1, FeedbackAssumption DEF Refusal
<1>6. CASE Refusal(a) = "none"
  <2>1. receipts[a.id] # a.in
    BY <1>1, <1>6, FeedbackAssumption DEF Refusal
  <2>2. CASE ~Apply(a).ok
    <3>1. Become(c, [at |-> "answer", answer |-> Apply(a).answer])
      BY <1>3, <1>6, <2>2 DEF Mutate, Reply
    <3>2. Apply(a).answer \in {"immutable", "stale"}
      BY <1>3, <2>2, AppliedRecord DEF Mutate
    <3>3. asks'[c].answer = Apply(a).answer
      BY <1>4, <3>1
    <3> QED
      BY <2>1, <3>2, <3>3
  <2>3. CASE Apply(a).ok
    <3>1. receipts'[a.id] = a.in
      BY <1>1, <1>3, <1>6, <2>3 DEF Mutate, FeedbackInv, FeedbackTypes
    <3> QED
      BY <2>1, <3>1
  <2> QED
    BY <2>2, <2>3
<1> QED
  BY <1>5, <1>6

(* A decision stands on the review it named and a lost answer can be asked for again, for
   any callers, proposals and requests, however the providers' answers overtake each
   other. *)
THEOREM FeedbackIsKept == FeedbackSpec => FeedbackKept
<1>1. FeedbackInv => DecidedAsReviewed
  BY DEF FeedbackInv
<1>2. FeedbackInv => FeedbackTypeOK
  BY DEF FeedbackInv, FeedbackTypes, AskFits, FeedbackTypeOK, Records, Steps
<1>3. FeedbackSpec => RetriesAreAnswered
  <2>1. FeedbackInv /\ [FeedbackNext]_feedbackVars => [Answered]_feedbackVars
    BY StepAnswers
  <2>2. FeedbackSpec => [][Answered]_feedbackVars
    BY <2>1, FeedbackInvariance, PTL DEF FeedbackSpec
  <2> QED
    BY <2>2 DEF RetriesAreAnswered, Answered
<1> QED
  BY <1>1, <1>2, <1>3, FeedbackInvariance, PTL DEF FeedbackKept
------------------------------------------------------------------------------
(* Candidates: only what has been reviewed is promoted.  A caller on its way keeps what
   the next step needs, and Runtime's record of a candidate goes ahead of its files. *)
Carrying == {"material", "manifest", "record", "promote"}

(* A caller at s: what it carries to its next step, and of a promotion that Runtime has
   completed what it carries. *)
CallerFits(s, done) ==
  /\ s.at # "idle" => s.on \in Candidates
  /\ s.at = "prepare" => s.version \in Versions
  /\ s.at \in Carrying => s \in [at : Carrying, on : Candidates, package : Packages]
  /\ s.at = "review" => s.decision \in DomainReviews
  /\ s.at = "promote" => [on |-> s.on, package |-> s.package] \in done

StoreTypes ==
  /\ sources \in Versions
  /\ plan \in [Candidates -> Versions \cup {Missing}]
  /\ frozen \in [Candidates -> Versions \cup {Missing, "torn"}]
  /\ materials \in [Candidates -> Packages \cup {Missing, "torn"}]
  /\ review \in [Candidates -> DomainReviews \cup {Missing}]
  /\ journal = [c \in Candidates |-> journal[c]]
  /\ folder \in [Candidates -> [asset : [DirectoriesOf -> Packages \cup {Missing, "torn", "edited"}],
                                manifest : Packages \cup {Missing}]]
  /\ completed \subseteq [on : Candidates, package : Packages]

(* A whole freeze is of the plan, and what Runtime completed is the material, which was
   accepted: none of these records is written twice. *)
FrozenAsPlanned == \A c \in Candidates : frozen[c] \in Versions => plan[c] = frozen[c]
CompletedAsReviewed ==
  \A x \in completed : /\ review[x.on] = [is |-> "ACCEPT", of |-> x.package]
                       /\ materials[x.on] = x.package

CandidatesInv ==
  /\ StoreTypes
  /\ FrozenAsPlanned
  /\ CompletedAsReviewed
  /\ caller = [k \in Processes |-> caller[k]]
  /\ \A k \in Processes : CallerFits(caller[k], completed)
------------------------------------------------------------------------------
LEMMA CandidatesInitInv == CandidatesInit => CandidatesInv
<1> SUFFICES ASSUME CandidatesInit PROVE CandidatesInv
  OBVIOUS
<1>1. StoreTypes
  BY DEF CandidatesInit, NoCandidate, StoreTypes
<1>2. FrozenAsPlanned /\ CompletedAsReviewed
  BY CandidatesAssumption DEF CandidatesInit, NoCandidate, FrozenAsPlanned, CompletedAsReviewed
<1>3. caller = [k \in Processes |-> caller[k]] /\ \A k \in Processes : CallerFits(caller[k], completed)
  BY DEF CandidatesInit, NoCandidate, CallerFits, Resting, Carrying
<1> QED
  BY <1>1, <1>2, <1>3 DEF CandidatesInv

LEMMA RestingFits == \A done : CallerFits(Resting, done)
  BY DEF CallerFits, Resting, Carrying

(* A caller that moves on to what fits disturbs no other. *)
LEMMA CallersFit ==
  ASSUME CandidatesInv, NEW k \in Processes, NEW s, CallerGoes(k, s),
         completed \subseteq completed', CallerFits(s, completed')
  PROVE  /\ caller' = [j \in Processes |-> caller'[j]]
         /\ \A j \in Processes : CallerFits(caller'[j], completed')
<1>1. /\ caller' = [j \in Processes |-> caller'[j]] /\ caller'[k] = s
      /\ \A j \in Processes \ {k} : caller'[j] = caller[j]
  BY DEF CandidatesInv, CallerGoes
<1> QED
  BY <1>1 DEF CandidatesInv, CallerFits

(* A step of a caller that leaves the records alone keeps the invariant. *)
LEMMA OnlyCallerMoves ==
  ASSUME CandidatesInv, NEW k \in Processes, NEW s, CallerGoes(k, s), CallerFits(s, completed),
         UNCHANGED <<sources, records, folder, runtime>>
  PROVE  CandidatesInv'
<1>1. UNCHANGED <<sources, plan, frozen, materials, review, journal, folder, admitted, completed>>
  BY DEF records, runtime
<1>2. StoreTypes' /\ FrozenAsPlanned' /\ CompletedAsReviewed'
  BY <1>1 DEF CandidatesInv, StoreTypes, FrozenAsPlanned, CompletedAsReviewed
<1> QED
  BY <1>1, <1>2, CallersFit DEF CandidatesInv

(* So does a step that writes records and ends, if it keeps what they say. *)
LEMMA RecordsMove ==
  ASSUME CandidatesInv, NEW k \in Processes, CallerGoes(k, Resting), UNCHANGED completed,
         StoreTypes', FrozenAsPlanned', CompletedAsReviewed'
  PROVE  CandidatesInv'
  BY RestingFits, CallersFit DEF CandidatesInv

LEMMA CandidatesStepInv == CandidatesInv /\ [CandidatesNext]_candidateVars => CandidatesInv'
<1> SUFFICES ASSUME CandidatesInv, [CandidatesNext]_candidateVars PROVE CandidatesInv'
  OBVIOUS
<1>0. /\ StoreTypes /\ FrozenAsPlanned /\ CompletedAsReviewed
      /\ \A k \in Processes : CallerFits(caller[k], completed)
  BY DEF CandidatesInv
<1>completed. ASSUME NEW x \in completed
      PROVE  /\ x.on \in Candidates /\ x.package \in Packages
             /\ review[x.on] = [is |-> "ACCEPT", of |-> x.package] /\ review[x.on] \in DomainReviews
             /\ materials[x.on] = x.package
  <2>1. x \in [on : Candidates, package : Packages]
    BY <1>0 DEF StoreTypes
  <2> QED
    BY <1>0, <2>1 DEF CompletedAsReviewed, DomainReviews
<1>1. ASSUME NEW k \in Processes, NEW c \in Candidates, PrepareCandidate(k, c) PROVE CandidatesInv'
  <2>1. CASE CallerGoes(k, [at |-> "prepare", on |-> c, version |-> sources])
             /\ UNCHANGED <<sources, records, folder, runtime>>
    <3>1. CallerFits([at |-> "prepare", on |-> c, version |-> sources], completed)
      BY <1>0 DEF CallerFits, StoreTypes, Carrying
    <3> QED
      BY <1>0, <2>1, <3>1, OnlyCallerMoves DEF StoreTypes
  <2>2. CASE /\ caller[k].at = "prepare" /\ CallerGoes(k, Resting)
             /\ plan' = IF plan[c] = Missing THEN Filed(plan, c, caller[k].version) ELSE plan
             /\ UNCHANGED <<sources, frozen, materials, review, journal, folder, runtime>>
    <3>1. caller[k].version \in Versions /\ UNCHANGED completed
      BY <1>0, <2>2 DEF CallerFits, runtime
    <3>2. StoreTypes'
      BY <1>0, <2>2, <3>1 DEF StoreTypes, Filed, runtime
    <3>3. FrozenAsPlanned'
      BY <1>0, <2>2, CandidatesAssumption DEF FrozenAsPlanned, StoreTypes, Filed
    <3>4. CompletedAsReviewed'
      BY <1>0, <2>2, <3>1 DEF CompletedAsReviewed
    <3> QED
      BY <2>2, <3>1, <3>2, <3>3, <3>4, RecordsMove
  <2> QED
    BY <1>1, <2>1, <2>2 DEF PrepareCandidate
<1>2. ASSUME NEW k \in Processes, NEW c \in Candidates, Freeze(k, c) PROVE CandidatesInv'
  <2>1. CASE CallerGoes(k, [at |-> "freeze", on |-> c]) /\ UNCHANGED <<sources, records, folder, runtime>>
    <3>1. CallerFits([at |-> "freeze", on |-> c], completed)
      BY DEF CallerFits, Carrying
    <3> QED
      BY <1>0, <2>1, <3>1, OnlyCallerMoves DEF StoreTypes
  <2>2. CASE /\ CallerGoes(k, Resting)
             /\ frozen' = IF frozen[c] = Missing /\ plan[c] = sources THEN Filed(frozen, c, plan[c]) ELSE frozen
             /\ UNCHANGED <<sources, plan, materials, review, journal, folder, runtime>>
    <3>1. StoreTypes' /\ UNCHANGED completed
      BY <1>0, <2>2 DEF StoreTypes, Filed, runtime
    <3>2. FrozenAsPlanned'
      BY <1>0, <2>2 DEF FrozenAsPlanned, StoreTypes, Filed
    <3>3. CompletedAsReviewed'
      BY <1>0, <2>2, <3>1 DEF CompletedAsReviewed
    <3> QED
      BY <2>2, <3>1, <3>2, <3>3, RecordsMove
  <2> QED
    BY <1>2, <2>1, <2>2 DEF Freeze
<1>3. ASSUME NEW k \in Processes, NEW c \in Candidates, NEW p \in Packages, Materialize(k, c, p)
      PROVE  CandidatesInv'
  <2>1. CallerFits([at |-> "material", on |-> c, package |-> p], completed)
    BY DEF CallerFits, Carrying
  <2> QED
    BY <1>0, <1>3, <2>1, OnlyCallerMoves DEF Materialize, StoreTypes
<1>4. ASSUME NEW s \in [at : Carrying, on : Candidates, package : Packages], NEW where \in {"manifest", "record"}
      PROVE  CallerFits([s EXCEPT !.at = where], completed)
  BY <1>4 DEF CallerFits, Carrying
<1>5. ASSUME NEW k \in Processes, NEW s, CallerGoes(k, s), CallerFits(s, completed), StoreTypes',
             UNCHANGED <<records, runtime>>
      PROVE  CandidatesInv'
  <2>1. UNCHANGED <<plan, frozen, materials, review, journal, completed>>
    BY <1>5 DEF records, runtime
  <2>2. FrozenAsPlanned' /\ CompletedAsReviewed'
    BY <1>0, <2>1 DEF FrozenAsPlanned, CompletedAsReviewed
  <2> QED
    BY <1>5, <2>1, <2>2, CallersFit DEF CandidatesInv
<1>6. ASSUME NEW k \in Processes, WriteAsset(k) PROVE CandidatesInv'
  <2> DEFINE c == caller[k].on
             p == caller[k].package
  <2>1. /\ caller[k] \in [at : Carrying, on : Candidates, package : Packages]
        /\ UNCHANGED <<sources, records, runtime>>
    BY <1>0, <1>6 DEF WriteAsset, CallerFits, Carrying
  <2>2. CASE /\ folder' = [folder EXCEPT ![c].asset[Directory[p]] = p]
             /\ CallerGoes(k, [caller[k] EXCEPT !.at = "manifest"])
    <3>1. StoreTypes'
      BY <1>0, <2>1, <2>2 DEF StoreTypes, records, runtime
    <3> QED
      BY <1>4, <1>5, <2>1, <2>2, <3>1
  <2>3. CASE CallerGoes(k, Resting) /\ UNCHANGED folder
    BY <2>1, <2>3, RestingFits, OnlyCallerMoves
  <2> QED
    BY <1>6, <2>2, <2>3 DEF WriteAsset
<1>7. ASSUME NEW k \in Processes, WriteManifest(k) PROVE CandidatesInv'
  <2>1. /\ caller[k] \in [at : Carrying, on : Candidates, package : Packages]
        /\ folder' = [folder EXCEPT ![caller[k].on].manifest = caller[k].package]
        /\ CallerGoes(k, [caller[k] EXCEPT !.at = "record"])
        /\ UNCHANGED <<sources, records, runtime>>
    BY <1>0, <1>7 DEF WriteManifest, CallerFits, Carrying
  <2>2. StoreTypes'
    BY <1>0, <2>1 DEF StoreTypes, records, runtime
  <2> QED
    BY <1>4, <1>5, <2>1, <2>2
<1>8. ASSUME NEW k \in Processes, WriteMaterial(k) PROVE CandidatesInv'
  <2> DEFINE c == caller[k].on
             p == caller[k].package
  <2>1. c \in Candidates /\ p \in Packages /\ UNCHANGED <<sources, plan, frozen, review, journal, folder, runtime>>
        /\ CallerGoes(k, Resting)
        /\ materials' = IF Layout(c, p) /\ Written(materials[c], p) THEN Filed(materials, c, p) ELSE materials
    BY <1>0, <1>8 DEF WriteMaterial, CallerFits, Carrying
  <2>2. StoreTypes' /\ FrozenAsPlanned' /\ UNCHANGED completed
    BY <1>0, <2>1 DEF StoreTypes, FrozenAsPlanned, Filed, runtime
  <2>3. ASSUME NEW x \in completed PROVE materials'[x.on] = materials[x.on]
    <3>1. x.on \in Candidates /\ materials[x.on] # Missing
      BY <1>completed, CandidatesAssumption
    <3>2. Written(materials[c], p) => materials[c] = Missing \/ materials[c] = p
      BY DEF Written
    <3> HIDE DEF c, p
    <3> QED
      BY <1>0, <2>1, <3>1, <3>2 DEF StoreTypes, Filed
  <2>4. CompletedAsReviewed'
    BY <1>0, <2>1, <2>2, <2>3 DEF CompletedAsReviewed
  <2> QED
    BY <2>1, <2>2, <2>4, RecordsMove
<1>9. ASSUME NEW k \in Processes, NEW c \in Candidates, NEW is \in {"ACCEPT", "REJECT"}, ReviewDomain(k, c, is)
      PROVE  CandidatesInv'
  <2>1. CASE /\ Whole(materials[c])
             /\ CallerGoes(k, [at |-> "review", on |-> c, decision |-> [is |-> is, of |-> materials[c]]])
             /\ UNCHANGED <<sources, records, folder, runtime>>
    <3>1. [is |-> is, of |-> materials[c]] \in DomainReviews
      BY <1>0, <2>1 DEF StoreTypes, Whole, DomainReviews
    <3>2. CallerFits([at |-> "review", on |-> c, decision |-> [is |-> is, of |-> materials[c]]], completed)
      BY <3>1 DEF CallerFits, Carrying
    <3> QED
      BY <1>0, <2>1, <3>2, OnlyCallerMoves DEF StoreTypes
  <2>2. CASE /\ caller[k].at = "review"
             /\ review' = IF Written(review[c], caller[k].decision)
                          THEN Filed(review, c, caller[k].decision) ELSE review
             /\ CallerGoes(k, Resting)
             /\ UNCHANGED <<sources, plan, frozen, materials, journal, folder, runtime>>
    <3>1. caller[k].decision \in DomainReviews
      BY <1>0, <2>2 DEF CallerFits
    <3>2. StoreTypes' /\ FrozenAsPlanned' /\ UNCHANGED completed
      BY <1>0, <2>2, <3>1 DEF StoreTypes, FrozenAsPlanned, Filed, runtime
    <3>3. ASSUME NEW x \in completed PROVE review'[x.on] = review[x.on]
      BY <1>0, <1>completed, <2>2, CandidatesAssumption DEF StoreTypes, Filed, Written
    <3>4. CompletedAsReviewed'
      BY <1>0, <2>2, <3>2, <3>3 DEF CompletedAsReviewed
    <3> QED
      BY <2>2, <3>2, <3>4, RecordsMove
  <2> QED
    BY <1>9, <2>1, <2>2 DEF ReviewDomain
<1>10. ASSUME NEW p \in Packages, AdmitPackage(p) PROVE CandidatesInv'
  BY <1>10 DEF AdmitPackage, records, CandidatesInv, StoreTypes, FrozenAsPlanned, CompletedAsReviewed
<1>11. ASSUME NEW p \in Packages, Verify(p) PROVE CandidatesInv'
  <2>1. PICK c \in Candidates : /\ Having(p) = {c} /\ review[c] = [is |-> "ACCEPT", of |-> p]
                                /\ completed' = completed \cup {[on |-> c, package |-> p]}
    BY <1>11 DEF Verify
  <2>2. materials[c] = p
    BY <2>1 DEF Having
  <2>3. UNCHANGED <<sources, plan, frozen, materials, review, journal, folder, caller>>
    BY <1>11 DEF Verify, records
  <2>4. StoreTypes' /\ FrozenAsPlanned'
    BY <1>0, <2>1, <2>3 DEF StoreTypes, FrozenAsPlanned
  <2>5. CompletedAsReviewed'
    <3>1. ASSUME NEW x \in completed'
          PROVE  review'[x.on] = [is |-> "ACCEPT", of |-> x.package] /\ materials'[x.on] = x.package
      <4>1. CASE x \in completed
        BY <1>completed, <2>3, <4>1
      <4>2. CASE x = [on |-> c, package |-> p]
        BY <2>1, <2>2, <2>3, <4>2
      <4> QED
        BY <2>1, <4>1, <4>2
    <3> QED
      BY <3>1 DEF CompletedAsReviewed
  <2>6. \A k \in Processes : CallerFits(caller'[k], completed')
    BY <1>0, <2>1, <2>3 DEF CallerFits
  <2> QED
    BY <2>3, <2>4, <2>5, <2>6 DEF CandidatesInv
<1>12. ASSUME NEW k \in Processes, NEW c \in Candidates, Promote(k, c) PROVE CandidatesInv'
  <2>1. CASE /\ Whole(materials[c]) /\ [on |-> c, package |-> materials[c]] \in completed
             /\ CallerGoes(k, [at |-> "promote", on |-> c, package |-> materials[c]])
             /\ UNCHANGED <<sources, records, folder, runtime>>
    <3>1. CallerFits([at |-> "promote", on |-> c, package |-> materials[c]], completed)
      BY <1>0, <2>1 DEF CallerFits, Carrying, StoreTypes, Whole
    <3> QED
      BY <1>0, <2>1, <3>1, OnlyCallerMoves DEF StoreTypes
  <2>2. CASE /\ CallerGoes(k, Resting)
             /\ journal' \in {journal, Filed(journal, c, folder[c])}
             /\ UNCHANGED <<sources, plan, frozen, materials, review, folder, runtime>>
    <3>1. StoreTypes' /\ FrozenAsPlanned' /\ UNCHANGED completed
      BY <1>0, <2>2 DEF StoreTypes, FrozenAsPlanned, Filed, runtime
    <3>2. CompletedAsReviewed'
      BY <1>0, <2>2, <3>1 DEF CompletedAsReviewed
    <3> QED
      BY <2>2, <3>1, <3>2, RecordsMove
  <2> QED
    BY <1>12, <2>1, <2>2 DEF Promote
<1>13. ASSUME NEW k \in Processes, CallerDies(k) PROVE CandidatesInv'
  <2> DEFINE c == caller[k].on
  <2>1. /\ CallerGoes(k, Resting) /\ UNCHANGED <<sources, runtime>>
        /\ caller[k] # Resting
    BY <1>13 DEF CallerDies
  <2>2. CASE UNCHANGED <<records, folder>>
    BY <1>0, <2>1, <2>2, RestingFits, OnlyCallerMoves DEF StoreTypes
  <2>3. CASE /\ frozen[c] = Missing /\ frozen' = Filed(frozen, c, "torn")
             /\ UNCHANGED <<plan, materials, review, journal, folder>>
    <3>1. StoreTypes' /\ UNCHANGED completed
      BY <1>0, <2>1, <2>3 DEF StoreTypes, Filed, runtime
    <3>2. FrozenAsPlanned'
      BY <1>0, <2>3, CandidatesAssumption DEF FrozenAsPlanned, StoreTypes, Filed
    <3>3. CompletedAsReviewed'
      BY <1>0, <2>3, <3>1 DEF CompletedAsReviewed
    <3> QED
      BY <2>1, <3>1, <3>2, <3>3, RecordsMove
  <2>4. CASE /\ caller[k].at = "material" /\ UNCHANGED records
             /\ folder' = [folder EXCEPT ![c].asset[Directory[caller[k].package]] = "torn"]
    <3>1. StoreTypes'
      BY <1>0, <2>1, <2>4 DEF StoreTypes, records, runtime
    <3> QED
      BY <1>5, <2>1, <2>4, <3>1, RestingFits
  <2>5. CASE /\ materials[c] = Missing /\ materials' = Filed(materials, c, "torn")
             /\ UNCHANGED <<plan, frozen, review, journal, folder>>
    <3>1. StoreTypes' /\ FrozenAsPlanned' /\ UNCHANGED completed
      BY <1>0, <2>1, <2>5 DEF StoreTypes, FrozenAsPlanned, Filed, runtime
    <3>2. CompletedAsReviewed'
      <4>1. ASSUME NEW x \in completed PROVE materials'[x.on] = materials[x.on]
        BY <1>0, <1>completed, <2>5, CandidatesAssumption DEF StoreTypes, Filed
      <4> QED
        BY <1>0, <2>5, <3>1, <4>1 DEF CompletedAsReviewed
    <3> QED
      BY <2>1, <3>1, <3>2, RecordsMove
  <2> QED
    BY <1>13, <2>2, <2>3, <2>4, <2>5 DEF CallerDies
<1>14. CASE UserEditsCandidate
  <2>1. UNCHANGED <<plan, frozen, materials, review, journal, completed, caller>>
    BY <1>14 DEF UserEditsCandidate, records, runtime
  <2>2. StoreTypes'
    <3>1. CASE sources' \in Versions /\ UNCHANGED folder
      BY <1>0, <2>1, <3>1 DEF StoreTypes
    <3>2. ASSUME NEW c \in Candidates, NEW d \in DirectoriesOf, NEW to \in Packages \cup {"edited"},
                 folder' = [folder EXCEPT ![c].asset[d] = to], UNCHANGED sources
          PROVE  StoreTypes'
      BY <1>0, <2>1, <3>2 DEF StoreTypes
    <3> QED
      BY <1>14, <3>1, <3>2 DEF UserEditsCandidate
  <2>3. FrozenAsPlanned' /\ CompletedAsReviewed'
    BY <1>0, <2>1 DEF FrozenAsPlanned, CompletedAsReviewed
  <2> QED
    BY <2>1, <2>2, <2>3 DEF CandidatesInv
<1>15. CASE UNCHANGED candidateVars
  BY <1>15 DEF candidateVars, records, runtime, CandidatesInv, StoreTypes, FrozenAsPlanned, CompletedAsReviewed
<1> QED
  BY <1>1, <1>2, <1>3, <1>6, <1>7, <1>8, <1>9, <1>10, <1>11, <1>12, <1>13, <1>14, <1>15 DEF CandidatesNext

LEMMA CandidatesInvariance == CandidatesSpec => []CandidatesInv
  BY CandidatesInitInv, CandidatesStepInv, PTL DEF CandidatesSpec

(* A journal is only written by a promotion, of what was accepted. *)
LEMMA JournalAsReviewed ==
  ASSUME CandidatesInv, [CandidatesNext]_candidateVars, NEW c \in Candidates, journal'[c] # journal[c]
  PROVE  /\ review[c] = [is |-> "ACCEPT", of |-> materials[c]]
         /\ journal'[c] = folder[c] /\ Layout(c, materials[c])
         /\ plan[c] = sources
<1>0. journal' # journal
  OBVIOUS
<1>1. PICK k \in Processes, d \in Candidates : Promote(k, d)
  <2>1. ASSUME NEW k \in Processes,
               \/ \E d \in Candidates :
                    \/ PrepareCandidate(k, d) \/ Freeze(k, d)
                    \/ \E p \in Packages : Materialize(k, d, p)
                    \/ \E is \in {"ACCEPT", "REJECT"} : ReviewDomain(k, d, is)
               \/ WriteAsset(k) \/ WriteManifest(k) \/ WriteMaterial(k) \/ CallerDies(k)
        PROVE  UNCHANGED journal
    BY <2>1 DEF records, PrepareCandidate, Freeze, Materialize, ReviewDomain, WriteAsset, WriteManifest,
                WriteMaterial, CallerDies
  <2>2. ASSUME (\E p \in Packages : AdmitPackage(p) \/ Verify(p)) \/ UserEditsCandidate
        PROVE  UNCHANGED journal
    BY <2>2 DEF records, AdmitPackage, Verify, UserEditsCandidate
  <2>3. CASE UNCHANGED candidateVars
    BY <1>0, <2>3 DEF candidateVars, records
  <2> QED
    BY <1>0, <2>1, <2>2, <2>3 DEF CandidatesNext
<1>2. /\ caller[k].at = "promote" /\ caller[k].on = d /\ journal' = Filed(journal, d, folder[d])
      /\ Fresh(d) /\ Layout(d, caller[k].package)
  BY <1>1 DEF Promote, records
<1>3. d = c /\ journal'[c] = folder[c]
  BY <1>2 DEF CandidatesInv, StoreTypes, Filed
<1>4. [on |-> c, package |-> caller[k].package] \in completed
  BY <1>2, <1>3 DEF CandidatesInv, CallerFits
<1>5. review[c] = [is |-> "ACCEPT", of |-> caller[k].package] /\ materials[c] = caller[k].package
  BY <1>4 DEF CandidatesInv, CompletedAsReviewed
<1>6. frozen[c] \in Versions /\ frozen[c] = sources
  BY <1>2, <1>3 DEF Fresh, CandidatesInv, StoreTypes
<1> QED
  BY <1>2, <1>3, <1>5, <1>6 DEF CandidatesInv, FrozenAsPlanned

(* A promotion starts from what a human accepted, for any candidates, packages and
   callers, wherever one of them dies and whatever a user edits. *)
THEOREM PromotionsAreReviewed == CandidatesSpec => PromotedAsReviewed
<1>1. CandidatesInv => CandidatesTypeOK
  <2> SUFFICES ASSUME StoreTypes PROVE CandidatesTypeOK
    BY DEF CandidatesInv
  <2> QED
    BY DEF StoreTypes, CandidatesTypeOK
<1> DEFINE Promoted ==
      \A c \in Candidates : journal'[c] # journal[c] =>
        /\ review[c] = [is |-> "ACCEPT", of |-> materials[c]]
        /\ journal'[c] = folder[c] /\ Layout(c, materials[c])
        /\ plan[c] = sources
<1>2. CandidatesInv /\ [CandidatesNext]_candidateVars => [Promoted]_candidateVars
  BY JournalAsReviewed
<1>3. CandidatesSpec => []CandidatesTypeOK /\ [][Promoted]_candidateVars
  BY <1>1, <1>2, CandidatesInvariance, PTL DEF CandidatesSpec
<1> QED
  BY <1>3 DEF PromotedAsReviewed
------------------------------------------------------------------------------
(* Preview: an installation is never described before it is complete, and an uninstall
   removes only what is listed and unedited. *)
Installing == {"put", "inventory", "describe"}
Removing == {"unlink", "forget", "rmdir"}
Kept == {"ours", "edited"}

PreviewTypes ==
  /\ PreviewTypeOK
  /\ manager = [m \in Managers |-> manager[m]]

(* An inventory of a program that is complete. *)
Covers(files) == \A f \in Program : f \in DOMAIN files /\ files[f] \in Kept

(* A run of the script at s.  An install has put what is not left, an uninstall removes
   only what was listed. *)
RunFits(s, in, all) ==
  /\ s.at = "put" => s.left \subseteq Program /\ \A f \in Program \ s.left : in[f] \in Kept
  /\ s.at = "inventory" => \A f \in Program : in[f] \in Kept
  /\ s.at = "describe" => Covers(s.files)
  /\ s.at = "unlink" => s.left \subseteq all

(* Who works in the root is alone in it: an install with no inventory there yet, or the
   uninstall of what has one. *)
Alone ==
  /\ \A m, n \in Managers : manager[m].at \in Installing /\ manager[n].at \in Installing => m = n
  /\ \A m \in Managers :
       /\ manager[m].at \in Installing => root /\ descriptor.is = "none"
       /\ manager[m].at \in Removing => root
       /\ manager[m].at \in {"recheck"} \cup Removing => m \in Uninstallers
  /\ \A m, n \in Managers : ~(manager[m].at \in Installing /\ manager[n].at \in Removing)

(* An inventory is complete, and only there with a root. *)
Described ==
  /\ descriptor.is = "whole" => Covers(descriptor.files) /\ DOMAIN descriptor.files \subseteq listed
  /\ ~root => descriptor.is = "none"

PreviewInv ==
  /\ PreviewTypes
  /\ Alone
  /\ Described
  /\ \A m \in Managers : RunFits(manager[m], tree, listed)
------------------------------------------------------------------------------
LEMMA PreviewInitInv == PreviewInit => PreviewInv
<1> SUFFICES ASSUME PreviewInit PROVE PreviewInv
  OBVIOUS
<1>1. \A m \in Managers : manager[m].at = "idle"
  BY DEF PreviewInit, Idle
<1>2. PreviewTypes
  BY <1>1 DEF PreviewInit, PreviewTypes, PreviewTypeOK
<1>3. Alone /\ Described
  BY <1>1 DEF PreviewInit, Alone, Described, Installing, Removing
<1> QED
  BY <1>1, <1>2, <1>3 DEF PreviewInv, RunFits

(* A run that moves while neither it nor the others lose anything. *)
LEMMA RunMoves ==
  ASSUME PreviewInv, NEW m \in Managers, NEW s, ManagerGoes(m, s),
         s.at \in {"idle", "mkdir", "put", "inventory", "describe", "recheck", "unlink", "forget", "rmdir"},
         UNCHANGED <<root, descriptor, listed>>, RunFits(s, tree', listed),
         tree' \in [Files -> {"absent", "ours", "torn", "edited"}],
         root \/ UNCHANGED tree,
         \A f \in Program : tree[f] \in Kept => tree'[f] \in Kept,
         s.at \in Installing => manager[m].at \in Installing,
         s.at \in Removing => root /\ \A n \in Managers : manager[n].at \notin Installing,
         s.at \in {"recheck"} \cup Removing => m \in Uninstallers
  PROVE  PreviewInv'
<1>1. /\ manager' = [n \in Managers |-> manager'[n]] /\ manager'[m] = s
      /\ \A n \in Managers \ {m} : manager'[n] = manager[n]
  BY DEF PreviewInv, PreviewTypes, ManagerGoes
<1>2. PreviewTypes'
  BY <1>1 DEF PreviewInv, PreviewTypes, PreviewTypeOK
<1>3. Alone'
  BY <1>1 DEF PreviewInv, Alone, Installing, Removing
<1>4. Described'
  BY DEF PreviewInv, Described
<1>5. ASSUME NEW n \in Managers PROVE RunFits(manager'[n], tree', listed')
  BY <1>1 DEF PreviewInv, RunFits
<1> QED
  BY <1>2, <1>3, <1>4, <1>5 DEF PreviewInv

LEMMA PreviewStepInv == OneUninstaller /\ PreviewInv /\ [PreviewNext]_previewVars => PreviewInv'
<1> SUFFICES ASSUME OneUninstaller, PreviewInv, [PreviewNext]_previewVars PROVE PreviewInv'
  OBVIOUS
<1> DEFINE Contents == {"absent", "ours", "torn", "edited"}
<1>0. /\ tree \in [Files -> Contents] /\ root \in BOOLEAN
      /\ ~root => \A f \in Files : tree[f] = "absent"
      /\ manager = [m \in Managers |-> manager[m]]
  BY DEF PreviewInv, PreviewTypes, PreviewTypeOK
<1>1. ASSUME NEW m \in Managers, InstallChecks(m) PROVE PreviewInv'
  BY <1>0, <1>1, RunMoves DEF InstallChecks, RunFits, Installing, Removing
<1>2. ASSUME NEW m \in Managers, ManagerGoes(m, Idle), UNCHANGED <<root, tree, descriptor, listed>>
      PROVE  PreviewInv'
  BY <1>0, <1>2, RunMoves DEF Idle, RunFits, Installing, Removing
<1>3. ASSUME NEW m \in Managers, MakeRoot(m) PROVE PreviewInv'
  <2>1. CASE root
    BY <1>2, <1>3, <2>1 DEF MakeRoot
  <2>2. CASE ~root
    <3> DEFINE s == [at |-> "put", left |-> Program]
    <3>1. /\ manager' = [manager EXCEPT ![m] = s] /\ root' = TRUE
          /\ UNCHANGED <<tree, descriptor, listed>>
      BY <1>3, <2>2 DEF MakeRoot, ManagerGoes
    <3>2. manager'[m] = s /\ \A n \in Managers \ {m} : manager'[n] = manager[n]
      BY <1>0, <3>1
    <3>3. \A n \in Managers : manager[n].at \notin Installing \cup Removing
      BY <2>2 DEF PreviewInv, Alone
    <3>4. descriptor.is = "none"
      BY <2>2 DEF PreviewInv, Described
    <3> QED
      BY <1>0, <3>1, <3>2, <3>3, <3>4
      DEF PreviewInv, PreviewTypes, PreviewTypeOK, Alone, Described, RunFits, Installing, Removing
  <2> QED
    BY <1>0, <2>1, <2>2
<1>4. ASSUME NEW m \in Managers, PutFile(m) PROVE PreviewInv'
  <2> DEFINE left == manager[m].left
  <2>1. PICK f \in left :
          IF tree[f] # "absent"
          THEN ManagerGoes(m, Idle) /\ UNCHANGED <<root, tree>>
          ELSE /\ root' = TRUE /\ Holds(f, "ours")
               /\ ManagerGoes(m, IF left = {f} THEN [at |-> "inventory"]
                                 ELSE [at |-> "put", left |-> left \ {f}])
    BY <1>4 DEF PutFile
  <2>2. manager[m].at = "put" /\ root /\ UNCHANGED <<root, descriptor, listed>>
        /\ left \subseteq Program /\ \A g \in Program \ left : tree[g] \in Kept
    BY <1>0, <1>4, <2>1 DEF PutFile, PreviewInv, Alone, Installing, RunFits
  <2>3. CASE tree[f] # "absent"
    BY <1>2, <2>1, <2>2, <2>3
  <2>4. CASE tree[f] = "absent"
    <3>1. f \in Files /\ tree' = [tree EXCEPT ![f] = "ours"]
      BY <2>1, <2>2, <2>4 DEF Holds, Files
    <3>2. tree' \in [Files -> Contents] /\ \A g \in Files : tree[g] \in Kept \/ g = f => tree'[g] \in Kept
      BY <1>0, <3>1 DEF Kept
    <3>3. \A g \in Program : tree[g] \in Kept => tree'[g] \in Kept
      BY <3>2 DEF Files
    <3>4. CASE left = {f}
      <4>1. RunFits([at |-> "inventory"], tree', listed)
        BY <2>2, <3>2, <3>4 DEF RunFits, Files
      <4> QED
        BY <2>1, <2>2, <2>4, <3>2, <3>3, <3>4, <4>1, RunMoves DEF Installing, Removing
    <3>5. CASE left # {f}
      <4>1. RunFits([at |-> "put", left |-> left \ {f}], tree', listed)
        BY <2>2, <3>2 DEF RunFits, Files
      <4> QED
        BY <2>1, <2>2, <2>4, <3>2, <3>3, <3>5, <4>1, RunMoves DEF Installing, Removing
    <3> QED
      BY <3>4, <3>5
  <2> QED
    BY <2>3, <2>4
<1>5. ASSUME NEW m \in Managers, Inventory(m) PROVE PreviewInv'
  <2>1. manager[m].at = "inventory" /\ UNCHANGED <<root, tree, descriptor, listed>>
        /\ \A f \in Program : tree[f] \in Kept
    BY <1>5 DEF Inventory, PreviewInv, RunFits
  <2>2. Covers(Snapshot)
    BY <2>1 DEF Covers, Snapshot, Kept, Files
  <2>3. CASE root
    <3>1. ManagerGoes(m, [at |-> "describe", files |-> Snapshot])
      BY <1>5, <2>3 DEF Inventory
    <3>2. RunFits([at |-> "describe", files |-> Snapshot], tree', listed)
      BY <2>2 DEF RunFits
    <3> QED
      BY <1>0, <2>1, <3>1, <3>2, RunMoves DEF Installing, Removing
  <2>4. CASE ~root
    BY <1>2, <1>5, <2>1, <2>4 DEF Inventory
  <2> QED
    BY <1>0, <2>3, <2>4
<1>6. ASSUME NEW m \in Managers, Describe(m) PROVE PreviewInv'
  <2>1. /\ manager[m].at = "describe" /\ Covers(manager[m].files)
        /\ manager' = [manager EXCEPT ![m] = Idle] /\ root /\ UNCHANGED <<root, tree>>
    BY <1>0, <1>6 DEF Describe, ManagerGoes, PreviewInv, Alone, Installing, RunFits
  <2>2. CASE UNCHANGED <<descriptor, listed>>
    BY <1>2, <2>1, <2>2 DEF ManagerGoes
  <2>3. CASE /\ descriptor' = [is |-> "whole", files |-> manager[m].files]
             /\ listed' = listed \cup DOMAIN manager[m].files
    <3>1. manager'[m].at = "idle" /\ \A n \in Managers \ {m} : manager'[n] = manager[n]
      BY <1>0, <2>1 DEF Idle
    <3>2. \A n \in Managers : manager'[n].at \notin Installing
      BY <2>1, <3>1 DEF PreviewInv, Alone, Installing
    <3>3. PreviewTypes' /\ Described'
      BY <1>0, <2>1, <2>3, <3>1 DEF PreviewInv, PreviewTypes, PreviewTypeOK, Described
    <3>4. Alone'
      BY <2>1, <3>1, <3>2 DEF PreviewInv, Alone, Removing
    <3>5. \A n \in Managers : RunFits(manager'[n], tree', listed')
      BY <2>1, <2>3, <3>1 DEF PreviewInv, RunFits
    <3> QED
      BY <3>3, <3>4, <3>5 DEF PreviewInv
  <2> QED
    BY <1>6, <2>2, <2>3 DEF Describe
<1>7. ASSUME NEW m \in Managers, UninstallChecks(m) PROVE PreviewInv'
  BY <1>0, <1>7, RunMoves DEF UninstallChecks, RunFits, Installing, Removing
<1>8. ASSUME NEW m \in Managers, Recheck(m) PROVE PreviewInv'
  <2>1. manager[m].at = "recheck" /\ UNCHANGED <<root, tree, descriptor, listed>> /\ m \in Uninstallers
    BY <1>8 DEF Recheck, PreviewInv, Alone
  <2>2. CASE Installed
    <3>1. root /\ descriptor.is = "whole" /\ DOMAIN Snapshot \subseteq listed
      BY <2>2 DEF Installed, PreviewInv, Described
    <3>2. \A n \in Managers : manager[n].at \notin Installing
      BY <3>1 DEF PreviewInv, Alone
    <3>3. RunFits([at |-> "unlink", left |-> DOMAIN Snapshot], tree', listed)
      BY <3>1 DEF RunFits
    <3>4. ManagerGoes(m, [at |-> "unlink", left |-> DOMAIN Snapshot])
      BY <1>8, <2>2 DEF Recheck
    <3> QED
      BY <1>0, <2>1, <3>1, <3>2, <3>3, <3>4, RunMoves DEF Installing, Removing
  <2>3. CASE ~Installed
    BY <1>2, <1>8, <2>1, <2>3 DEF Recheck
  <2> QED
    BY <2>2, <2>3
<1>9. ASSUME NEW m \in Managers, manager[m].at \in Removing
      PROVE  root /\ m \in Uninstallers /\ \A n \in Managers : manager[n].at \notin Installing
  BY <1>9 DEF PreviewInv, Alone
<1>10. ASSUME NEW m \in Managers, Unlink(m) PROVE PreviewInv'
  <2> DEFINE left == manager[m].left
  <2>1. PICK f \in left :
          IF tree[f] = "absent" THEN ManagerGoes(m, Idle) /\ UNCHANGED tree
          ELSE /\ Holds(f, "absent")
               /\ ManagerGoes(m, IF left = {f} THEN [at |-> "forget"]
                                 ELSE [at |-> "unlink", left |-> left \ {f}])
    BY <1>10 DEF Unlink
  <2>2. manager[m].at = "unlink" /\ UNCHANGED <<root, descriptor, listed>> /\ left \subseteq listed
        /\ manager[m].at \in Removing
    BY <1>10 DEF Unlink, PreviewInv, RunFits, Removing
  <2>3. CASE tree[f] = "absent"
    BY <1>2, <2>1, <2>2, <2>3
  <2>4. CASE tree[f] # "absent"
    <3>1. tree' = [tree EXCEPT ![f] = "absent"] /\ tree' \in [Files -> Contents]
      BY <1>0, <2>1, <2>4 DEF Holds
    <3>2. PICK s : /\ ManagerGoes(m, s) /\ s.at \in {"forget", "unlink"}
                   /\ s.at = "unlink" => s.left \subseteq listed
      <4>1. CASE left = {f}
        BY <2>1, <2>4, <4>1
      <4>2. CASE left # {f}
        BY <2>1, <2>2, <2>4, <4>2
      <4> QED
        BY <4>1, <4>2
    <3>3. /\ manager' = [n \in Managers |-> manager'[n]] /\ manager'[m] = s
          /\ \A n \in Managers \ {m} : manager'[n] = manager[n]
      BY <1>0, <3>2 DEF ManagerGoes
    <3>4. PreviewTypes'
      BY <1>9, <2>2, <3>1, <3>2, <3>3 DEF PreviewInv, PreviewTypes, PreviewTypeOK
    <3>5. Alone'
      BY <1>9, <2>2, <3>2, <3>3 DEF PreviewInv, Alone, Installing, Removing
    <3>6. Described'
      BY <2>2 DEF PreviewInv, Described
    <3>7. ASSUME NEW n \in Managers PROVE RunFits(manager'[n], tree', listed')
      BY <1>9, <2>2, <3>2, <3>3 DEF PreviewInv, RunFits, Installing
    <3> QED
      BY <3>4, <3>5, <3>6, <3>7 DEF PreviewInv
  <2> QED
    BY <2>3, <2>4
<1>11. ASSUME NEW m \in Managers, Forget(m) PROVE PreviewInv'
  <2>1. /\ manager[m].at = "forget" /\ descriptor' = [is |-> "none"] /\ UNCHANGED <<root, tree, listed>>
        /\ \E s \in {Idle, [at |-> "rmdir"]} : manager' = [manager EXCEPT ![m] = s]
    BY <1>11 DEF Forget, ManagerGoes
  <2>2. /\ manager'[m] \in {Idle, [at |-> "rmdir"]}
        /\ \A n \in Managers \ {m} : manager'[n] = manager[n]
    BY <1>0, <2>1
  <2>3. PreviewTypes' /\ Described'
    BY <1>0, <2>1, <2>2 DEF PreviewInv, PreviewTypes, PreviewTypeOK, Described, Idle
  <2>4. Alone'
    BY <1>9, <2>1, <2>2 DEF PreviewInv, Alone, Installing, Removing, Idle
  <2>5. \A n \in Managers : RunFits(manager'[n], tree', listed')
    BY <2>1, <2>2 DEF PreviewInv, RunFits, Idle
  <2> QED
    BY <2>3, <2>4, <2>5 DEF PreviewInv
\* Nobody else works in a root that is removed: there is one uninstaller.
<1>12. ASSUME NEW m \in Managers, RemoveRoot(m) PROVE PreviewInv'
  <2>1. /\ manager[m].at = "rmdir" /\ manager' = [manager EXCEPT ![m] = Idle]
        /\ UNCHANGED <<tree, descriptor, listed>> /\ manager[m].at \in Removing
        /\ root' = (root /\ (descriptor.is # "none" \/ \E f \in Files : tree[f] # "absent"))
    BY <1>12 DEF RemoveRoot, ManagerGoes, Removing
  <2>2. manager'[m].at = "idle" /\ \A n \in Managers \ {m} : manager'[n] = manager[n]
    BY <1>0, <2>1 DEF Idle
  <2>3. \A n \in Managers : manager'[n].at \notin Installing \cup Removing
    BY <1>9, <2>1, <2>2 DEF OneUninstaller, Installing, Removing
  <2>4. PreviewTypes'
    BY <1>0, <2>1, <2>2 DEF PreviewInv, PreviewTypes, PreviewTypeOK
  <2>5. Described'
    BY <2>1 DEF PreviewInv, Described
  <2>6. Alone'
    BY <2>2, <2>3 DEF PreviewInv, Alone
  <2>7. \A n \in Managers : RunFits(manager'[n], tree', listed')
    BY <2>1, <2>2 DEF PreviewInv, RunFits
  <2> QED
    BY <2>4, <2>5, <2>6, <2>7 DEF PreviewInv
<1>13. ASSUME NEW m \in Managers, ManagerDies(m) PROVE PreviewInv'
  <2>1. manager' = [manager EXCEPT ![m] = Idle] /\ UNCHANGED <<root, listed>>
    <3>1. manager[m].at \in {"put", "describe"} => root
      BY DEF PreviewInv, Alone, Installing
    <3> QED
      BY <1>0, <1>13, <3>1 DEF ManagerDies, ManagerGoes
  <2>2. CASE UNCHANGED <<tree, descriptor>>
    BY <1>2, <2>1, <2>2 DEF ManagerGoes
  <2>3. CASE /\ root' = TRUE /\ UNCHANGED descriptor
             /\ \E f \in manager[m].left : tree[f] = "absent" /\ Holds(f, "torn")
    <3>1. PICK f : tree[f] = "absent" /\ tree' = [tree EXCEPT ![f] = "torn"]
      BY <2>3 DEF Holds
    <3>2. /\ tree' \in [Files -> Contents]
          /\ \A g \in Program : tree[g] \in Kept => tree'[g] \in Kept
      BY <1>0, <3>1 DEF Kept, Files
    <3>3. root
      BY <2>1, <2>3
    <3> QED
      BY <2>1, <2>3, <3>2, <3>3, RunMoves DEF ManagerGoes, Idle, RunFits, Installing, Removing
  <2>4. CASE /\ manager[m].at = "describe" /\ root' = TRUE /\ descriptor' = [is |-> "torn"] /\ UNCHANGED tree
    <3>1. manager'[m].at = "idle" /\ \A n \in Managers \ {m} : manager'[n] = manager[n]
      BY <1>0, <2>1 DEF Idle
    <3>2. \A n \in Managers : manager'[n].at \notin Installing
      BY <2>4, <3>1 DEF PreviewInv, Alone, Installing
    <3>3. PreviewTypes' /\ Described'
      BY <1>0, <2>1, <2>4, <3>1 DEF PreviewInv, PreviewTypes, PreviewTypeOK, Described
    <3>4. Alone'
      BY <2>1, <3>1, <3>2 DEF PreviewInv, Alone, Removing
    <3>5. \A n \in Managers : RunFits(manager'[n], tree', listed')
      BY <2>1, <2>4, <3>1 DEF PreviewInv, RunFits
    <3> QED
      BY <3>3, <3>4, <3>5 DEF PreviewInv
  <2> QED
    BY <1>13, <2>2, <2>3, <2>4 DEF ManagerDies
<1>14. CASE UserEditsPreview
  <2>1. PICK f : tree' = [tree EXCEPT ![f] = "edited"]
    BY <1>14 DEF UserEditsPreview, Holds
  <2>2. root /\ UNCHANGED <<root, descriptor, manager, listed>>
    BY <1>14 DEF UserEditsPreview
  <2>3. /\ tree' \in [Files -> Contents]
        /\ \A g \in Program : tree[g] \in Kept => tree'[g] \in Kept
    BY <1>0, <2>1 DEF Kept, Files
  <2> QED
    BY <2>2, <2>3 DEF PreviewInv, PreviewTypes, PreviewTypeOK, Alone, Described, RunFits
<1>15. CASE UNCHANGED previewVars
  BY <1>15 DEF previewVars, PreviewInv, PreviewTypes, PreviewTypeOK, Alone, Described
<1> QED
  BY <1>1, <1>3, <1>4, <1>5, <1>6, <1>7, <1>8, <1>10, <1>11, <1>12, <1>13, <1>14, <1>15 DEF PreviewNext

LEMMA PreviewInvariance == OneUninstaller /\ PreviewSpec => []PreviewInv
<1> SUFFICES ASSUME OneUninstaller PROVE PreviewSpec => []PreviewInv
  OBVIOUS
<1>1. PreviewInv /\ [PreviewNext]_previewVars => PreviewInv'
  BY PreviewStepInv
<1> QED
  BY <1>1, PreviewInitInv, PTL DEF PreviewSpec

(* However many uninstalls overlap, each unlinks only what some inventory listed. *)
Listing ==
  /\ PreviewTypes
  /\ descriptor.is = "whole" => DOMAIN descriptor.files \subseteq listed
  /\ \A m \in Managers : manager[m].at = "unlink" => manager[m].left \subseteq listed

(* A run that moves while the files and the inventory stay, or one file of a root that is
   there changes. *)
LEMMA ListingKept ==
  ASSUME Listing, NEW m \in Managers, NEW s, ManagerGoes(m, s),
         s.at \in {"idle", "mkdir", "put", "inventory", "describe", "recheck", "unlink", "forget", "rmdir"},
         s.at = "unlink" => s.left \subseteq listed',
         listed \subseteq listed', root' \in BOOLEAN,
         descriptor'.is = "whole" => DOMAIN descriptor'.files \subseteq listed',
         tree' \in [Files -> {"absent", "ours", "torn", "edited"}],
         ~root' => \A f \in Files : tree'[f] = "absent"
  PROVE  Listing'
<1>1. /\ manager' = [n \in Managers |-> manager'[n]] /\ manager'[m] = s
      /\ \A n \in Managers \ {m} : manager'[n] = manager[n]
  BY DEF Listing, PreviewTypes, ManagerGoes
<1>2. PreviewTypes'
  BY <1>1 DEF Listing, PreviewTypes, PreviewTypeOK
<1> QED
  BY <1>1, <1>2 DEF Listing

LEMMA ListingStep == Listing /\ [PreviewNext]_previewVars => Listing'
<1> SUFFICES ASSUME Listing, [PreviewNext]_previewVars PROVE Listing'
  OBVIOUS
<1> DEFINE Contents == {"absent", "ours", "torn", "edited"}
<1>0. /\ tree \in [Files -> Contents] /\ root \in BOOLEAN
      /\ ~root => \A f \in Files : tree[f] = "absent"
      /\ descriptor.is = "whole" => DOMAIN descriptor.files \subseteq listed
  BY DEF Listing, PreviewTypes, PreviewTypeOK
<1>1. ASSUME NEW m \in Managers, InstallChecks(m) \/ MakeRoot(m) \/ Inventory(m) \/ UninstallChecks(m)
      PROVE  Listing'
  <2>1. PICK s : /\ ManagerGoes(m, s)
                 /\ s.at \in {"idle", "mkdir", "put", "describe", "recheck"}
    BY <1>1 DEF InstallChecks, MakeRoot, Inventory, UninstallChecks, Idle
  <2>2. UNCHANGED <<tree, descriptor, listed>> /\ root' \in {root, TRUE}
    BY <1>1 DEF InstallChecks, MakeRoot, Inventory, UninstallChecks
  <2> QED
    BY <1>0, <2>1, <2>2, ListingKept
<1>2. ASSUME NEW m \in Managers, PutFile(m) PROVE Listing'
  <2>1. PICK f, s : /\ ManagerGoes(m, s) /\ s.at \in {"idle", "put", "inventory"}
                    /\ UNCHANGED <<root, tree>> \/ (root' = TRUE /\ Holds(f, "ours"))
    BY <1>2 DEF PutFile, Idle
  <2>2. /\ tree' \in [Files -> Contents] /\ root' \in BOOLEAN
        /\ ~root' => \A g \in Files : tree'[g] = "absent"
    <3>1. CASE UNCHANGED <<root, tree>>
      BY <1>0, <3>1
    <3>2. CASE root' = TRUE /\ Holds(f, "ours")
      BY <1>0, <3>2 DEF Holds
    <3> QED
      BY <2>1, <3>1, <3>2
  <2>3. UNCHANGED <<descriptor, listed>>
    BY <1>2 DEF PutFile
  <2> QED
    BY <1>0, <2>1, <2>2, <2>3, ListingKept
<1>3. ASSUME NEW m \in Managers, Describe(m) PROVE Listing'
  <2>1. /\ ManagerGoes(m, Idle) /\ UNCHANGED tree /\ root' \in {root, TRUE}
        /\ \/ UNCHANGED <<descriptor, listed>>
           \/ /\ descriptor' = [is |-> "whole", files |-> manager[m].files]
              /\ listed' = listed \cup DOMAIN manager[m].files
    BY <1>3 DEF Describe
  <2>2. /\ listed \subseteq listed'
        /\ descriptor'.is = "whole" => DOMAIN descriptor'.files \subseteq listed'
    BY <1>0, <2>1
  <2>3. /\ root' \in BOOLEAN /\ tree' \in [Files -> Contents]
        /\ ~root' => \A g \in Files : tree'[g] = "absent"
    <3>1. CASE root' = root
      BY <1>0, <2>1, <3>1
    <3>2. CASE root' = TRUE
      BY <1>0, <2>1, <3>2
    <3> QED
      BY <2>1, <3>1, <3>2
  <2> QED
    BY <2>1, <2>2, <2>3, ListingKept DEF Idle
<1>4. ASSUME NEW m \in Managers, Recheck(m) PROVE Listing'
  <2>1. UNCHANGED <<root, tree, descriptor, listed>>
    BY <1>4 DEF Recheck
  <2>2. CASE Installed
    <3>1. ManagerGoes(m, [at |-> "unlink", left |-> DOMAIN Snapshot]) /\ DOMAIN Snapshot \subseteq listed
      BY <1>0, <1>4, <2>2 DEF Recheck, Installed
    <3> QED
      BY <1>0, <2>1, <3>1, ListingKept
  <2>3. CASE ~Installed
    BY <1>0, <1>4, <2>1, <2>3, ListingKept DEF Recheck, Idle
  <2> QED
    BY <2>2, <2>3
<1>5. ASSUME NEW m \in Managers, Unlink(m) PROVE Listing'
  <2>1. UNCHANGED <<root, descriptor, listed>> /\ manager[m].left \subseteq listed
    BY <1>5 DEF Unlink, Listing
  <2>2. PICK f, s : /\ ManagerGoes(m, s) /\ s.at \in {"idle", "forget", "unlink"}
                    /\ s.at = "unlink" => s.left \subseteq manager[m].left
                    /\ UNCHANGED tree \/ Holds(f, "absent")
    BY <1>5 DEF Unlink, Idle
  <2>3. /\ tree' \in [Files -> Contents]
        /\ \A g \in Files : tree[g] = "absent" => tree'[g] = "absent"
    BY <1>0, <2>2 DEF Holds
  <2> QED
    BY <1>0, <2>1, <2>2, <2>3, ListingKept
<1>6. ASSUME NEW m \in Managers, Forget(m) \/ RemoveRoot(m) PROVE Listing'
  <2>1. PICK s : ManagerGoes(m, s) /\ s.at \in {"idle", "rmdir"}
    <3>1. CASE Forget(m)
      BY <3>1 DEF Forget, Idle
    <3>2. CASE RemoveRoot(m)
      BY <3>2 DEF RemoveRoot, Idle
    <3> QED
      BY <1>6, <3>1, <3>2
  <2>2. /\ UNCHANGED <<tree, listed>>
        /\ UNCHANGED descriptor \/ descriptor' = [is |-> "none"]
        /\ root' = root \/ root' = (root /\ (descriptor.is # "none" \/ \E f \in Files : tree[f] # "absent"))
    BY <1>6 DEF Forget, RemoveRoot
  <2>3. /\ root' \in BOOLEAN
        /\ ~root' => \A f \in Files : tree'[f] = "absent"
        /\ descriptor'.is = "whole" => DOMAIN descriptor'.files \subseteq listed'
    <3>1. CASE UNCHANGED root
      BY <1>0, <2>2, <3>1
    <3>2. CASE root' = (root /\ (descriptor.is # "none" \/ \E f \in Files : tree[f] # "absent")) /\ RemoveRoot(m)
      BY <1>0, <3>2 DEF RemoveRoot
    <3> QED
      BY <1>6, <3>1, <3>2 DEF Forget, RemoveRoot
  <2>4. listed' = listed /\ tree' = tree
    BY <2>2
  <2> QED
    BY <1>0, <2>1, <2>3, <2>4, ListingKept
<1>7. ASSUME NEW m \in Managers, ManagerDies(m) PROVE Listing'
  <2>1. PICK f : /\ ManagerGoes(m, Idle) /\ UNCHANGED listed /\ root' \in {root, TRUE}
                 /\ UNCHANGED tree \/ (root' = TRUE /\ Holds(f, "torn"))
                 /\ UNCHANGED descriptor \/ descriptor' = [is |-> "torn"]
    BY <1>0, <1>7 DEF ManagerDies
  <2>2. /\ root' \in BOOLEAN /\ tree' \in [Files -> Contents]
        /\ ~root' => \A g \in Files : tree'[g] = "absent"
    <3>1. CASE root' = root /\ UNCHANGED tree
      BY <1>0, <3>1
    <3>2. CASE root' = TRUE
      BY <1>0, <2>1, <3>2 DEF Holds
    <3> QED
      BY <1>0, <2>1, <3>1, <3>2
  <2> QED
    BY <1>0, <2>1, <2>2, ListingKept DEF Idle
<1>8. CASE UserEditsPreview
  <2>1. PICK f : root /\ Holds(f, "edited")
    BY <1>8 DEF UserEditsPreview
  <2>2. tree' \in [Files -> Contents] /\ UNCHANGED <<root, descriptor, manager, listed>>
    BY <1>0, <1>8, <2>1 DEF Holds, UserEditsPreview
  <2> QED
    BY <2>1, <2>2 DEF Listing, PreviewTypes, PreviewTypeOK
<1>9. CASE UNCHANGED previewVars
  BY <1>9 DEF previewVars, Listing, PreviewTypes, PreviewTypeOK
<1> QED
  BY <1>1, <1>2, <1>3, <1>4, <1>5, <1>6, <1>7, <1>8, <1>9 DEF PreviewNext

LEMMA ListingInvariance == PreviewSpec => []Listing
<1>1. PreviewInit => Listing
  <2> SUFFICES ASSUME PreviewInit PROVE Listing
    OBVIOUS
  <2>1. \A m \in Managers : manager[m].at = "idle"
    BY DEF PreviewInit, Idle
  <2>2. PreviewTypes
    BY <2>1 DEF PreviewInit, PreviewTypes, PreviewTypeOK
  <2> QED
    BY <2>1, <2>2 DEF PreviewInit, Listing
<1> QED
  BY <1>1, ListingStep, PTL DEF PreviewSpec

(* Only an uninstall removes, and it removes what was listed. *)
LEMMA OnlyListedGo ==
  ASSUME Listing, [PreviewNext]_previewVars, NEW f \in Files \ listed, tree[f] # "absent"
  PROVE  tree'[f] # "absent"
<1>0. tree \in [Files -> {"absent", "ours", "torn", "edited"}]
  BY DEF Listing, PreviewTypes, PreviewTypeOK
<1>1. ASSUME NEW m \in Managers, Unlink(m) PROVE tree'[f] = tree[f]
  <2>1. manager[m].left \subseteq listed
    BY <1>1 DEF Unlink, Listing, RunFits
  <2> QED
    BY <1>0, <1>1, <2>1 DEF Unlink, Holds
<1>2. ASSUME NEW m \in Managers, PutFile(m) \/ ManagerDies(m) PROVE tree'[f] # "absent"
  BY <1>0, <1>2 DEF PutFile, ManagerDies, Holds
<1>3. CASE UserEditsPreview
  BY <1>0, <1>3 DEF UserEditsPreview, Holds
<1> QED
  BY <1>0, <1>1, <1>2, <1>3
  DEF PreviewNext, previewVars, InstallChecks, MakeRoot, Inventory, Describe, UninstallChecks, Recheck,
      Forget, RemoveRoot

(* What is accepted as an installation is complete where one uninstall runs at a time, and
   a file that no inventory listed survives any number of installs and uninstalls that
   overlap. *)
THEOREM PreviewIsKept == PreviewSpec => PreviewKept
<1>1. PreviewSpec => []InstalledIsComplete
  <2>1. CASE OneUninstaller
    <3>1. PreviewInv => InstalledIsComplete
      BY DEF PreviewInv, Described, Covers, Kept, InstalledIsComplete, Installed, Snapshot
    <3>2. PreviewSpec => []PreviewInv
      BY <2>1, PreviewInvariance
    <3> QED
      BY <3>1, <3>2, PTL
  <2>2. CASE ~OneUninstaller
    <3>1. InstalledIsComplete
      BY <2>2 DEF InstalledIsComplete
    <3> QED
      BY <3>1, PTL
  <2> QED
    BY <2>1, <2>2
<1>2. Listing => PreviewTypeOK
  BY DEF Listing, PreviewTypes
<1>3. PreviewSpec => UnlistedSurvives
  <2> DEFINE Survives == \A f \in Files \ listed : tree[f] # "absent" => tree'[f] # "absent"
  <2>1. Listing /\ [PreviewNext]_previewVars => [Survives]_previewVars
    BY OnlyListedGo
  <2>2. PreviewSpec => [][Survives]_previewVars
    BY <2>1, ListingInvariance, PTL DEF PreviewSpec
  <2> QED
    BY <2>2 DEF UnlistedSurvives
<1> QED
  BY <1>1, <1>2, <1>3, ListingInvariance, PTL DEF PreviewKept
==============================================================================
