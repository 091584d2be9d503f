------------------------------- MODULE Release -------------------------------
(***************************************************************************)
(* The release gate of scripts/release-gate.mjs: a workflow run prepares   *)
(* the assets of one commit and, when told to, publishes them as a tag     *)
(* and a release.  The workflow's concurrency group keeps runs apart.  But *)
(* a call to the forge may get no answer, and then be carried out at once, *)
(* later or never: beside the run that repeats it, of whatever commit.     *)
(* The forge is external.                                                  *)
(***************************************************************************)
EXTENDS Naturals

CONSTANTS
  Workflows,   \* runs of the release workflow
  Commits,
  NoTag

ASSUME ReleaseAssumption == {NoTag, "damaged"} \cap Commits = {}

VARIABLES
  input,       \* what each run was started with
  artifact,    \* what the source CI kept: [commit -> the bytes it holds]
  workflow,    \* each run: where it is, and the assets in its out directory
  sent,        \* requests that may still be carried out, with nobody to hear the answer
  tag,         \* the commit v0.8.3 points to
  release      \* the published releases of v0.8.3

releaseVars == <<input, artifact, workflow, sent, tag, release>>

\* The bytes are those of a commit, "damaged" when something altered them.
Bytes == Commits \cup {"damaged"}
RunInputs == [commit : Commits, digest : Commits, publish : BOOLEAN, decided : BOOLEAN]
Stopped == [at |-> "stopped"]

\* What a run asks the forge for.
TagRequest(w) == [creates |-> "tag", by |-> w]
ReleaseRequest(w) == [creates |-> "release", by |-> w, bytes |-> workflow[w].bytes]
------------------------------------------------------------------------------
ReleaseInit ==
  /\ input \in [Workflows -> RunInputs]
  /\ artifact \in [Commits -> Bytes]
  /\ workflow = [w \in Workflows |-> [at |-> "start"]]
  /\ sent = {}
  /\ tag = NoTag
  /\ release = {}

\* A run may end at every step of it.
Step(w, next) ==
  /\ workflow' \in {[workflow EXCEPT ![w] = s] : s \in {next, Stopped}}
  /\ UNCHANGED <<input, artifact>>

\* The concurrency group of the workflow, with cancel-in-progress false: a run begins
\* when no other is under way.
Turn(w) == \A v \in Workflows \ {w} : workflow[v].at \in {"start", "stopped"}

\* validateInputs(): a publication needs the reference of a decision.
ValidInputs(i) == i.publish => i.decided

\* validateRun(), validateArtifact(), validateDigest(): the successful source CI of this
\* very commit kept bytes that have the expected digest.
ValidSource(i) == artifact[i.commit] = i.digest

\* prepare(): what is validated is written, with checksums, into the new out directory.
\* It is kept for the job that publishes, and may be damaged on the way.
Prepare(w) ==
  /\ workflow[w].at = "start" /\ Turn(w)
  /\ IF ValidInputs(input[w]) /\ ValidSource(input[w])
     THEN \E b \in {artifact[input[w].commit], "damaged"} :
            Step(w, [at |-> "prepared", bytes |-> b])
     ELSE Step(w, Stopped)
  /\ UNCHANGED <<sent, tag, release>>

\* publish(): the prepared assets are the listed ones, their checksums hold and the
\* revision they record is the expected one.
Check(w) ==
  /\ workflow[w].at = "prepared"
  /\ Step(w, IF input[w].publish /\ workflow[w].bytes = input[w].commit
             THEN [workflow[w] EXCEPT !.at = "no release?"] ELSE Stopped)
  /\ UNCHANGED <<sent, tag, release>>

\* requireAbsent() of the release, then of the tag: anything but a clear 404 stops.
RequireNoRelease(w) ==
  /\ workflow[w].at = "no release?"
  /\ Step(w, IF release = {} THEN [workflow[w] EXCEPT !.at = "no tag?"] ELSE Stopped)
  /\ UNCHANGED <<sent, tag, release>>

RequireNoTag(w) ==
  /\ workflow[w].at = "no tag?"
  /\ Step(w, IF tag = NoTag THEN [workflow[w] EXCEPT !.at = "tag"] ELSE Stopped)
  /\ UNCHANGED <<sent, tag, release>>

\* No answer: the run stops, and what becomes of its request is open.
Unanswered(w, request) ==
  /\ Step(w, Stopped)
  /\ sent' \in {sent, sent \cup {request}}
  /\ UNCHANGED <<tag, release>>

\* Mutant of CreateTag: a tag that exists by now is taken for one's own.
CreateTagOnce(w) ==
  /\ workflow[w].at = "tag"
  /\ \/ /\ tag' = IF tag = NoTag THEN input[w].commit ELSE tag
        /\ Step(w, [workflow[w] EXCEPT !.at = "release"])
        /\ UNCHANGED <<sent, release>>
     \/ Unanswered(w, TagRequest(w))

\* POST git/refs: the forge refuses a tag that exists, which stops the run.  There is no
\* retry and no cleanup.
CreateTag(w) ==
  /\ workflow[w].at = "tag"
  /\ \/ /\ IF tag = NoTag
           THEN tag' = input[w].commit /\ Step(w, [workflow[w] EXCEPT !.at = "release"])
           ELSE Step(w, Stopped) /\ UNCHANGED tag
        /\ UNCHANGED <<sent, release>>
     \/ Unanswered(w, TagRequest(w))

\* gh release create --verify-tag: the tag has to be there, and no release of it.
Published(request) ==
  release' = IF tag # NoTag /\ release = {} THEN {request} ELSE release

CreateRelease(w) ==
  /\ workflow[w].at = "release"
  /\ \/ Published(ReleaseRequest(w)) /\ Step(w, Stopped) /\ UNCHANGED <<sent, tag>>
     \/ Unanswered(w, ReleaseRequest(w))

\* The forge carries a request out that nobody waits for any more.
CarryOut(request) ==
  /\ sent' = sent \ {request}
  /\ IF request.creates = "tag"
     THEN tag' = (IF tag = NoTag THEN input[request.by].commit ELSE tag) /\ UNCHANGED release
     ELSE Published(request) /\ UNCHANGED tag
  /\ UNCHANGED <<input, artifact, workflow>>

ReleaseNext ==
  \/ \E w \in Workflows : \/ Prepare(w) \/ Check(w) \/ RequireNoRelease(w) \/ RequireNoTag(w)
                          \/ CreateTag(w) \/ CreateRelease(w)
  \/ \E request \in sent : CarryOut(request)

ReleaseSpec == ReleaseInit /\ [][ReleaseNext]_releaseVars
------------------------------------------------------------------------------
ReleaseTypeOK ==
  /\ tag \in Commits \cup {NoTag}
  /\ \A r \in release : r.bytes \in Bytes /\ r.by \in Workflows

\* The assets of r are whole, are those of the commit the tag points to, and a decision
\* was referred to for publishing exactly them.
AsDecided(r) ==
  /\ tag = r.bytes
  /\ input[r.by].decided /\ input[r.by].commit = tag /\ input[r.by].digest = tag

(* What is published is what was decided on, whichever calls to the forge get no answer
   and are carried out beside a run that was started again, of this commit or another. *)
ReleasedAsDecided == \A r \in release : AsDecided(r)
==============================================================================
