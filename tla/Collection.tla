----------------------------- MODULE Collection -----------------------------
(***************************************************************************)
(* One collection claim: collection/local.ts starts a detached worker,     *)
(* collection/worker.ts runs the recipe in a sandbox and publishes one     *)
(* result, response/evidence.ts asks for its cancellation.  The parties    *)
(* meet only in the journal directory of the claim.  The record of the     *)
(* claim is kept by Runtime, which is external.                            *)
(***************************************************************************)
EXTENDS Naturals, FiniteSets

CONSTANTS
  Askers,       \* concurrent calls of collect() and inspectCollection()
  Outputs,      \* what the recipe may write besides its two streams
  MaxCollectionDeaths

\* What is assumed of the constants.
ASSUME CollectionAssumption == MaxCollectionDeaths \in Nat

VARIABLES
  pinned,       \* the sources and tools are the pinned ones
  journal,      \* files of .collector; the directory itself is "."
  left,         \* outputs the child has left in its working directory
  evidence,     \* outputs copied to the artifact root
  outcome,      \* result.json: {} or the one result
  runner,       \* the worker: where it is, and the result it is making
  child,        \* the sandboxed process: "none", "running", "exited", "killed"
  asking,       \* each call: where it is and its answer
  recorded,        \* what Runtime has recorded of the claim
  canceller,    \* the call that asks for cancellation
  collectionDeaths

collectionVars == <<pinned, journal, left, evidence, outcome, runner, child, asking,
                    recorded, canceller, collectionDeaths>>

Fresh == [timedOut |-> FALSE, interrupted |-> FALSE, error |-> FALSE, exited |-> FALSE]
------------------------------------------------------------------------------
CollectionInit ==
  /\ pinned = TRUE
  /\ journal = {} /\ left = {} /\ evidence = {} /\ outcome = {}
  /\ runner = [at |-> "none", result |-> Fresh]
  /\ child = "none"
  /\ asking = [a \in Askers |-> [at |-> "idle"]]
  /\ recorded = "RUNNING"
  /\ canceller = "idle"
  /\ collectionDeaths = 0

AskerStep(a, next) == asking' = [asking EXCEPT ![a] = next]
Answered(answer) == [at |-> "answered", answer |-> answer]  \* the result, or why not

\* collect(): verifyBinding(), then mkdir() decides who attempts the claim.
Collect(a) ==
  /\ asking[a].at = "idle"
  /\ IF pinned /\ "." \notin journal
     THEN journal' = journal \cup {"."} /\ AskerStep(a, [at |-> "ask"])
     ELSE AskerStep(a, Answered("refused")) /\ UNCHANGED journal
  /\ UNCHANGED <<pinned, left, evidence, outcome, runner, child, recorded, canceller, collectionDeaths>>

\* request.json is written exclusively; the worker is spawned with its path.
StartWorker(a) ==
  /\ asking[a].at = "ask"
  /\ journal' = journal \cup {"request"}
  /\ \/ runner' = [runner EXCEPT !.at = "verify"] /\ AskerStep(a, [at |-> "poll"])
     \/ UNCHANGED runner /\ AskerStep(a, Answered("refused"))
  /\ UNCHANGED <<pinned, left, evidence, outcome, child, recorded, canceller, collectionDeaths>>

\* inspectCollection(): the binding has to hold and the journal has to be of this very
\* claim; without a result the caller knows nothing.
Inspection == IF ~pinned \/ ("." \in journal /\ "request" \notin journal) THEN "refused"
              ELSE IF outcome # {} THEN "result" ELSE "null"

Inspect(a) ==
  /\ asking[a].at = "idle"
  /\ AskerStep(a, Answered(Inspection))
  /\ UNCHANGED <<pinned, journal, left, evidence, outcome, runner, child, recorded, canceller, collectionDeaths>>

\* One turn of the polling loop finds the result.
PollFinds(a) ==
  /\ asking[a].at = "poll" /\ outcome # {}
  /\ AskerStep(a, Answered(Inspection))
  /\ UNCHANGED <<pinned, journal, left, evidence, outcome, runner, child, recorded, canceller, collectionDeaths>>

\* The caller's signal is aborted: the worker is told, and not waited for.
PollAborts(a) ==
  /\ asking[a].at = "poll" /\ outcome = {}
  /\ journal' = journal \cup {"cancel"}
  /\ AskerStep(a, Answered("aborted"))
  /\ UNCHANGED <<pinned, left, evidence, outcome, runner, child, recorded, canceller, collectionDeaths>>

\* A second and a half after the recipe's time there is still no result.
PollGivesUp(a) ==
  /\ asking[a].at = "poll" /\ outcome = {}
  /\ AskerStep(a, Answered("unknown"))
  /\ UNCHANGED <<pinned, journal, left, evidence, outcome, runner, child, recorded, canceller, collectionDeaths>>

\* A call is over, or its process dies; the worker is detached and goes on.
AskerLeaves(a) ==
  /\ asking[a].at # "idle"
  /\ AskerStep(a, [at |-> "idle"])
  /\ UNCHANGED <<pinned, journal, left, evidence, outcome, runner, child, recorded, canceller, collectionDeaths>>

\* Runtime records what it was told.
Record ==
  /\ recorded \in {"RUNNING", "UNKNOWN"}
  /\ \/ recorded' = "DONE" /\ \E a \in Askers : asking[a].at = "answered" /\ asking[a].answer = "result"
     \/ recorded' = "UNKNOWN" /\ \E a \in Askers : asking[a].at = "answered" /\ asking[a].answer = "unknown"
  /\ UNCHANGED <<pinned, journal, left, evidence, outcome, runner, child, asking, canceller, collectionDeaths>>
------------------------------------------------------------------------------
RunnerGoes(to, result) == runner' = [at |-> to, result |-> result]

\* verifyBinding() before anything else; the streams are created exclusively.
VerifyFirst ==
  /\ runner.at = "verify"
  /\ IF pinned THEN RunnerGoes("spawn", Fresh)
     ELSE RunnerGoes("publish", [runner.result EXCEPT !.error = TRUE])
  /\ UNCHANGED <<pinned, journal, left, evidence, outcome, child, asking, recorded, canceller, collectionDeaths>>

\* The child is started and process.json made durable; when that fails the result is
\* an error and the child is nobody's any more.
SpawnChild ==
  /\ runner.at = "spawn"
  /\ child' = "running"
  /\ \/ RunnerGoes("watch", runner.result) /\ journal' = journal \cup {"process"}
     \/ RunnerGoes("publish", [runner.result EXCEPT !.error = TRUE]) /\ UNCHANGED journal
  /\ UNCHANGED <<pinned, left, evidence, outcome, asking, recorded, canceller, collectionDeaths>>

\* The recipe writes an output, or over a pinned source that it should not touch.
ChildWrites ==
  /\ child = "running"
  /\ \/ \E o \in Outputs \ left : left' = left \cup {o} /\ UNCHANGED pinned
     \/ pinned' = FALSE /\ UNCHANGED left
  /\ UNCHANGED <<journal, evidence, outcome, runner, child, asking, recorded, canceller, collectionDeaths>>

ChildExits ==
  /\ child = "running"
  /\ child' = "exited"
  /\ UNCHANGED <<pinned, journal, left, evidence, outcome, runner, asking, recorded, canceller, collectionDeaths>>

\* The timer, the poll of the cancel file and the output limit kill the group.
Kill(result) ==
  /\ runner.at = "watch" /\ child = "running"
  /\ child' = "killed"
  /\ RunnerGoes("watch", result)
  /\ UNCHANGED <<pinned, journal, left, evidence, outcome, asking, recorded, canceller, collectionDeaths>>

\* Mutant of TimesOut: the recipe has no timer, only the cancel file ends it.
TimesOutNever == FALSE

TimesOut == Kill([runner.result EXCEPT !.timedOut = TRUE])
Floods == Kill([runner.result EXCEPT !.error = TRUE])
Interrupts == "cancel" \in journal /\ Kill([runner.result EXCEPT !.interrupted = TRUE])

\* Mutant of VerifyLast: the binding that was verified at the start is trusted.
VerifyNoMore ==
  /\ runner.at = "watch" /\ child \in {"exited", "killed"}
  /\ RunnerGoes("copy", [runner.result EXCEPT !.exited = child = "exited"])
  /\ UNCHANGED <<pinned, journal, left, evidence, outcome, child, asking, recorded, canceller, collectionDeaths>>

\* "close": the streams are complete; the binding is verified again.
VerifyLast ==
  /\ runner.at = "watch" /\ child \in {"exited", "killed"}
  /\ LET result == [runner.result EXCEPT !.exited = child = "exited"] IN
     IF pinned THEN RunnerGoes("copy", result)
     ELSE RunnerGoes("publish", [result EXCEPT !.error = TRUE])
  /\ UNCHANGED <<pinned, journal, left, evidence, outcome, child, asking, recorded, canceller, collectionDeaths>>

\* Each allowed output is copied; one that is missing makes the result an error.
Copy ==
  /\ runner.at = "copy"
  /\ evidence' = left
  /\ RunnerGoes("publish", [runner.result EXCEPT !.error = @ \/ left # Outputs])
  /\ UNCHANGED <<pinned, journal, left, outcome, child, asking, recorded, canceller, collectionDeaths>>

\* result.json appears whole, by a rename.
Publish ==
  /\ runner.at = "publish"
  /\ outcome' = {runner.result}
  /\ RunnerGoes("gone", Fresh)
  /\ UNCHANGED <<pinned, journal, left, evidence, child, asking, recorded, canceller, collectionDeaths>>

\* The worker is killed; its child is in a group of its own and goes on.
RunnerDies ==
  /\ runner.at \notin {"none", "gone"}
  /\ collectionDeaths < MaxCollectionDeaths /\ collectionDeaths' = collectionDeaths + 1
  /\ RunnerGoes("gone", Fresh)
  /\ UNCHANGED <<pinned, journal, left, evidence, outcome, child, asking, recorded, canceller>>
------------------------------------------------------------------------------
\* requestResponseCollectionCancellation: the record is read before an await ...
CancelRead ==
  /\ canceller = "idle"
  /\ canceller' = IF recorded \in {"RUNNING", "UNKNOWN"} THEN "write" ELSE "refused"
  /\ UNCHANGED <<pinned, journal, left, evidence, outcome, runner, child, asking, recorded, collectionDeaths>>

\* ... the journal must hold the claim, and a cancel file that is there already will do.
CancelWrite ==
  /\ canceller = "write"
  /\ journal' = journal \cup {"cancel"}
  /\ canceller' = "requested"
  /\ UNCHANGED <<pinned, left, evidence, outcome, runner, child, asking, recorded, collectionDeaths>>
------------------------------------------------------------------------------
Polling(a) == PollFinds(a) \/ PollAborts(a) \/ PollGivesUp(a)
Running == VerifyFirst \/ SpawnChild \/ VerifyLast \/ Copy \/ Publish

CollectionNext ==
  \/ \E a \in Askers : Collect(a) \/ StartWorker(a) \/ Inspect(a) \/ Polling(a) \/ AskerLeaves(a)
  \/ Record
  \/ Running \/ TimesOut \/ Floods \/ Interrupts \/ RunnerDies
  \/ ChildWrites \/ ChildExits
  \/ CancelRead \/ CancelWrite

\* The worker goes on, its timer fires and it polls for the cancel file.
CollectionFairness ==
  /\ WF_collectionVars(Running) /\ WF_collectionVars(TimesOut) /\ WF_collectionVars(Interrupts)
  /\ \A a \in Askers : WF_collectionVars(StartWorker(a)) /\ WF_collectionVars(Polling(a))
CollectionSpec == CollectionInit /\ [][CollectionNext]_collectionVars /\ CollectionFairness
------------------------------------------------------------------------------
CollectionTypeOK ==
  /\ journal \subseteq {".", "request", "process", "cancel"}
  /\ left \subseteq Outputs /\ evidence \subseteq Outputs
  /\ Cardinality(outcome) <= 1
  /\ runner.at \in {"none", "verify", "spawn", "watch", "copy", "publish", "gone"}
  /\ child \in {"none", "running", "exited", "killed"}
  /\ recorded \in {"RUNNING", "UNKNOWN", "DONE"}

(* A result without an error stands for a recipe that ran to its end on the pinned
   sources and tools, and for every output it was to leave. *)
ResultOfRecipe ==
  \A r \in outcome :
    ~r.error /\ ~r.timedOut /\ ~r.interrupted =>
      /\ child = "exited" /\ r.exited
      /\ pinned
      /\ evidence = Outputs

(* A collection that tells of no error has all the output of a recipe that ended, under
   pins that held; and there is one result at most. *)
ResultFaithful == ResultOfRecipe /\ CollectionTypeOK

(* The recipe is never left running under a living worker, and every call that waits
   for a result is answered, whether the child ends, hangs or is cancelled. *)
CollectionSettles ==
  /\ (runner.at = "watch") ~> (runner.at = "gone")
  /\ \A a \in Askers : (asking[a].at = "poll") ~> (asking[a].at # "poll")
==============================================================================
