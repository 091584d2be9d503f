------------------------------ MODULE MCProjects ------------------------------
(***************************************************************************)
(* What is written once and relied upon later: baselines and campaigns of  *)
(* a project, reviews of feedback, candidates of native assets, prepared   *)
(* toolchains, the managed preview and a release.  They share no state; a  *)
(* behaviour is one of the part that it begins with.  So the same model    *)
(* values stand for the callers of all parts, for their request ids and    *)
(* for the contents of their files.                                        *)
(***************************************************************************)
EXTENDS Release, Toolchain, Project, Feedback, Candidates, Preview, TLC

CONSTANTS Nil, x1, x2, q1, q2, q3, q4, one, two, v1, v2, event

VARIABLE part

\* One of the request ids is that of the event's delivery, and packages have directories
\* of their own.
MCDelivery == event :> q1
MCDirectory == one :> one @@ two :> two

Symmetry ==
  Permutations({x1, x2}) \cup Permutations({q2, q3, q4}) \cup Permutations({one, two})
    \cup Permutations({v1, v2})

projects == <<part, projectVars, feedbackVars, candidateVars, previewVars, toolchainVars,
              releaseVars>>

\* The step is one of part p: the others stay as they are.
Of(p) ==
  /\ part = p /\ UNCHANGED part
  /\ IF p = "project" THEN TRUE ELSE UNCHANGED projectVars
  /\ IF p = "feedback" THEN TRUE ELSE UNCHANGED feedbackVars
  /\ IF p = "candidates" THEN TRUE ELSE UNCHANGED candidateVars
  /\ IF p = "preview" THEN TRUE ELSE UNCHANGED previewVars
  /\ IF p = "toolchain" THEN TRUE ELSE UNCHANGED toolchainVars
  /\ IF p = "release" THEN TRUE ELSE UNCHANGED releaseVars

\* The release that does not move was not asked for.
Unasked ==
  /\ artifact = [c \in Commits |-> "damaged"]
  /\ input = [w \in Workflows |->
                [commit |-> "c1", digest |-> "c1", publish |-> FALSE, decided |-> FALSE]]

\* The sources that a part reads are there where it moves.
Init ==
  /\ part \in {"project", "feedback", "candidates", "preview", "toolchain", "release"}
  /\ Unbound /\ source \in IF part = "project" THEN {one, two} ELSE {Nil}
  /\ Empty /\ material \in IF part = "feedback" THEN {one, two} ELSE {Nil}
  /\ NoCandidate /\ sources \in IF part = "candidates" THEN {v1, v2} ELSE {Nil}
  /\ PreviewInit
  /\ ToolchainInit
  /\ ReleaseInit /\ (part = "release" \/ Unasked)

Next ==
  \/ Of("project") /\ ProjectNext
  \/ Of("feedback") /\ FeedbackNext
  \/ Of("candidates") /\ CandidatesNext
  \/ Of("preview") /\ PreviewNext
  \/ Of("toolchain") /\ ToolchainNext
  \/ Of("release") /\ ReleaseNext

Spec == Init /\ [][Next]_projects
==============================================================================
