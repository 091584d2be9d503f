--------------------------- MODULE Reconstruction ---------------------------
(***************************************************************************)
(* One reconstruction claim of integration/usability.  The adapter writes  *)
(* a request and spawns a detached worker; the worker has a program        *)
(* generated, then built and run in sandboxed processes, and publishes one *)
(* receipt.  Three adapters share the journal directory:                   *)
(*   "local"  every stage is a process of the worker                       *)
(*   "codex"  the generation is a turn of the app server                   *)
(*   "state"  a supervisor owns a volume and the stages that write to it   *)
(* Files of the journal are written durably; what may fail or have an      *)
(* unknown effect are the processes and the commands that mount the volume.*)
(***************************************************************************)
EXTENDS Naturals, Sequences

CONSTANTS None, MaxLosses      \* bound on killed workers and supervisors

\* What is assumed of the constants.
ASSUME ReconstructionAssumption ==
  /\ MaxLosses \in Nat
  /\ None \notin {"SUCCEEDED", "FAILED", "CANCELLED", "ok", "failed", "build", "run", "observe"}

VARIABLES
  adapter,      \* which of the three this claim is for
  pins,         \* the inputs, tools, policies and seeds are the pinned ones
  request,      \* the claim's directory: "none", "made", "asked"
  cancel,       \* the cancel file: "no", "cancel", "timeout"
  maker,        \* the worker: where it is and why it fails, if it does
  generator,    \* the generating process: "none", "running", "done", "failed"
  phase,        \* the supervisor: where it is and the diagnostic of its result
  volume,       \* "none", "image", "mounted", "uncertain", "closed"
  stage,        \* the sandboxed process of a stage: None, or its name
  completed,    \* the stages that succeeded, in order
  report,       \* state.result.json: None or its diagnostic
  receipt,      \* receipt.json: None, "SUCCEEDED", "FAILED", "CANCELLED"
  unknown,      \* worker.unknown.json
  recovered,    \* recovery/receipt.json
  losses

reconstructionVars == <<adapter, pins, request, cancel, maker, generator, phase, volume, stage,
                        completed, report, receipt, unknown, recovered, losses>>
keptByPhase == <<adapter, pins, request, cancel, maker, generator, receipt, unknown, recovered>>
keptByMaker == <<adapter, pins, request, cancel, volume, report, recovered, losses>>

Order == <<"generation", "build", "run">>
StateOrder == <<"build", "run", "observe">>
------------------------------------------------------------------------------
ReconstructionInit ==
  /\ adapter \in {"local", "codex", "state"}
  /\ pins = TRUE /\ request = "none" /\ cancel = "no"
  /\ maker = [at |-> "none", why |-> None] /\ generator = "none"
  /\ phase = [at |-> "none", why |-> None] /\ volume = "none" /\ stage = None /\ completed = <<>>
  /\ report = None /\ receipt = None /\ unknown = FALSE /\ recovered = FALSE
  /\ losses = 0

\* Somebody changes what was pinned.
Drift ==
  /\ pins /\ pins' = FALSE
  /\ UNCHANGED <<adapter, request, cancel, maker, generator, phase, volume, stage, completed,
                 report, receipt, unknown, recovered, losses>>

\* executeReconstruction: mkdir() admits one execution; the request is verified, then
\* written, then the worker is spawned.
Execute ==
  /\ request = "none"
  /\ IF pins THEN request' = "asked" /\ maker' = [maker EXCEPT !.at = "verify"]
     ELSE request' = "made" /\ UNCHANGED maker
  /\ UNCHANGED <<adapter, pins, cancel, generator, phase, volume, stage, completed,
                 report, receipt, unknown, recovered, losses>>

\* cancelReconstruction, or the signal of the execution: the first reason stays.
Stop(reason) ==
  /\ request # "none" /\ cancel = "no"
  /\ cancel' = reason
  /\ UNCHANGED <<adapter, pins, request, maker, generator, phase, volume, stage, completed,
                 report, receipt, unknown, recovered, losses>>

\* What inspectReconstruction tells the execution that polls for it.
Told == IF request # "asked" THEN None
        ELSE IF receipt # None /\ pins THEN receipt
        ELSE IF receipt = None /\ recovered /\ pins THEN "FAILED" ELSE None
------------------------------------------------------------------------------
MakerAt(where) == maker' = [maker EXCEPT !.at = where]
MakerFails(why) == maker' = [at |-> "receipt", why |-> why]
Cancelled == IF cancel = "cancel" THEN "CANCELLED" ELSE "FAILED"
\* What a process failed of: of itself, or of the cancel file if that was seen first.
MakerFailsOfProcess == \E why \in {"FAILED", Cancelled} : MakerFails(why)

\* The request is verified, and cancellation looked for, before anything runs.
Verify ==
  /\ maker.at = "verify"
  /\ IF ~pins THEN MakerFails("FAILED") /\ UNCHANGED generator
     ELSE IF cancel # "no" THEN MakerFails(Cancelled) /\ UNCHANGED generator
     ELSE MakerAt("generate") /\ generator' = "running"
  /\ UNCHANGED <<keptByMaker, phase, stage, completed, receipt, unknown>>

\* The generating process ends: by itself, or killed by the timer, the cancel file,
\* the token limit or an event it may not send.
GeneratorEnds ==
  /\ generator = "running"
  /\ generator' \in {"failed"} \cup (IF pins THEN {"done"} ELSE {})
  /\ UNCHANGED <<keptByMaker, maker, phase, stage, completed, receipt, unknown>>

\* The bundle becomes regular files; a stateful claim goes to its supervisor.
Materialize ==
  /\ maker.at = "generate" /\ generator \in {"done", "failed"}
  /\ IF generator = "failed" THEN MakerFailsOfProcess /\ UNCHANGED <<completed, phase>>
     ELSE /\ completed' = <<"generation">>
          /\ IF adapter = "state"
             THEN MakerAt("await") /\ phase' = [phase EXCEPT !.at = "prepare"]
             ELSE MakerAt("stages") /\ UNCHANGED phase
  /\ UNCHANGED <<keptByMaker, generator, stage, receipt, unknown>>

\* build and run as processes of the worker; nothing is left but the receipt after run.
MakerStage ==
  /\ maker.at = "stages" /\ stage = None /\ Len(completed) < 3
  /\ IF cancel # "no" THEN MakerFails(Cancelled) /\ UNCHANGED stage
     ELSE IF ~pins THEN MakerFails("FAILED") /\ UNCHANGED stage
     ELSE stage' = Order[Len(completed) + 1] /\ UNCHANGED maker
  /\ UNCHANGED <<keptByMaker, generator, phase, completed, receipt, unknown>>

MakerStageEnds ==
  /\ maker.at = "stages" /\ stage # None
  /\ stage' = None
  /\ \/ completed' = Append(completed, stage) /\ UNCHANGED maker
     \/ MakerFailsOfProcess /\ UNCHANGED completed
  /\ UNCHANGED <<keptByMaker, generator, phase, receipt, unknown>>

\* The outputs are collected under pins that are verified once more.
Collate ==
  /\ \/ maker.at = "stages" /\ stage = None /\ Len(completed) = 3
     \/ maker.at = "outputs"
  /\ IF pins THEN MakerAt("receipt") ELSE MakerFails("FAILED")
  /\ UNCHANGED <<keptByMaker, generator, phase, stage, completed, receipt, unknown>>

\* Mutant of Await: a supervisor that left no result has failed.
AwaitFabricates ==
  /\ maker.at = "await" /\ phase.at \in {"ended", "lost"}
  /\ IF phase.at = "lost" \/ report # "ok" THEN MakerFailsOfProcess ELSE MakerAt("outputs")
  /\ UNCHANGED <<keptByMaker, generator, phase, stage, completed, receipt, unknown>>

\* statePhase(): without the supervisor's exit and its result nothing is known, and
\* the worker leaves no receipt.
Await ==
  /\ maker.at = "await" /\ phase.at \in {"ended", "lost"}
  /\ IF phase.at = "lost" THEN maker' = [maker EXCEPT !.at = "gone"] /\ unknown' = TRUE
     ELSE /\ IF report # "ok" THEN MakerFailsOfProcess ELSE MakerAt("outputs")
          /\ UNCHANGED unknown
  /\ UNCHANGED <<keptByMaker, generator, phase, stage, completed, receipt>>

\* receipt.json appears whole; a success that took too long is a failure.
PublishReceipt ==
  /\ maker.at = "receipt"
  /\ receipt' \in IF maker.why = None THEN {"SUCCEEDED", "FAILED"} ELSE {maker.why}
  /\ MakerAt("gone")
  /\ UNCHANGED <<keptByMaker, generator, phase, stage, completed, unknown>>

\* The worker is killed: its generator and its stage are processes of their own.
MakerLost ==
  /\ maker.at \notin {"none", "gone"} /\ losses < MaxLosses
  /\ MakerAt("gone") /\ losses' = losses + 1
  /\ UNCHANGED <<adapter, pins, request, cancel, generator, phase, volume, stage, completed,
                 report, receipt, unknown, recovered>>
------------------------------------------------------------------------------
PhaseAt(where) == phase' = [phase EXCEPT !.at = where]
PhaseFails == phase' = [at |-> "close", why |-> "failed"]
\* The pipe to the worker is lost, or the cancel file is there.
Aborted == maker.at = "gone" \/ cancel # "no"

\* The command line is refused before anything is read (the legacy defect).
PhaseRejects ==
  /\ phase.at = "prepare"
  /\ PhaseAt("lost")
  /\ UNCHANGED <<keptByPhase, volume, stage, completed, report, losses>>

\* An image of this attempt is created, or copied from its seed.
CreateImage ==
  /\ phase.at = "prepare"
  /\ IF ~pins \/ Aborted THEN PhaseFails /\ UNCHANGED volume
     ELSE \/ volume' = "image" /\ PhaseAt("attach")
          \/ PhaseFails /\ UNCHANGED volume
  /\ UNCHANGED <<keptByPhase, stage, completed, report, losses>>

\* attach: a command that timed out, or a device that is not the expected one, leaves
\* the mount uncertain.
Attach ==
  /\ phase.at = "attach"
  /\ \/ volume' = "mounted" /\ PhaseAt("stages")
     \/ volume' = "uncertain" /\ PhaseFails
  /\ UNCHANGED <<keptByPhase, stage, completed, report, losses>>

\* build, run and the observer, each a process that the supervisor waits for.
PhaseStage ==
  /\ phase.at = "stages" /\ stage = None
  /\ IF ~pins \/ Aborted THEN PhaseFails /\ UNCHANGED stage
     ELSE stage' = StateOrder[Len(completed)] /\ UNCHANGED phase
  /\ UNCHANGED <<keptByPhase, volume, completed, report, losses>>

\* It ends by itself; cancellation, the lost pipe, the timer and the limit of its
\* streams kill it.
PhaseStageEnds ==
  /\ phase.at = "stages" /\ stage # None
  /\ stage' = None
  /\ \/ /\ completed' = IF stage = "observe" THEN completed ELSE Append(completed, stage)
        /\ IF stage = "observe" THEN phase' = [at |-> "close", why |-> None] ELSE UNCHANGED phase
     \/ PhaseFails /\ UNCHANGED completed
  /\ UNCHANGED <<keptByPhase, volume, report, losses>>

\* close(): a mount that is not certain, or that cannot be detached and seen to be
\* gone, ends the supervisor without a result.
CloseVolume ==
  /\ phase.at = "close"
  /\ CASE volume = "uncertain" -> PhaseAt("lost") /\ UNCHANGED volume
       [] volume = "mounted" -> \/ volume' = "closed" /\ PhaseAt("report")
                                \/ volume' = "uncertain" /\ PhaseAt("lost")
       [] volume \in {"none", "image"} -> PhaseAt("report") /\ UNCHANGED volume
  /\ UNCHANGED <<keptByPhase, stage, completed, report, losses>>

PublishReport ==
  /\ phase.at = "report"
  /\ report' = IF phase.why = None THEN "ok" ELSE "failed"
  /\ PhaseAt("ended")
  /\ UNCHANGED <<keptByPhase, volume, stage, completed, losses>>

\* The supervisor is killed; the stage and the mount stay.
PhaseLost ==
  /\ phase.at \notin {"none", "ended", "lost"} /\ losses < MaxLosses
  /\ PhaseAt("lost") /\ losses' = losses + 1
  /\ UNCHANGED <<keptByPhase, volume, stage, completed, report>>

\* A process whose parent is gone ends at last.
OrphanEnds ==
  /\ stage # None
  /\ phase.at = "lost" \/ (adapter # "state" /\ maker.at = "gone")
  /\ stage' = None
  /\ UNCHANGED <<keptByPhase, phase, volume, completed, report, losses>>

\* recoverCodexStateAdmission: only after the rejection of the command line, with the
\* processes gone and no trace of a volume or a stage.
Recover ==
  /\ adapter = "state" /\ pins /\ ~recovered
  /\ unknown /\ receipt = None
  /\ phase.at = "lost" /\ volume = "none" /\ stage = None /\ completed = <<"generation">>
  /\ generator = "done" /\ maker.at = "gone"
  /\ recovered' = TRUE
  /\ UNCHANGED <<adapter, pins, request, cancel, maker, generator, phase, volume, stage,
                 completed, report, receipt, unknown, losses>>
------------------------------------------------------------------------------
Making == Verify \/ Materialize \/ MakerStage \/ MakerStageEnds \/ Collate \/ Await \/ PublishReceipt
Phasing == PhaseRejects \/ CreateImage \/ Attach \/ PhaseStage \/ PhaseStageEnds \/ CloseVolume \/ PublishReport

ReconstructionNext ==
  \/ Drift \/ Execute \/ \E r \in {"cancel", "timeout"} : Stop(r)
  \/ Making \/ GeneratorEnds \/ MakerLost
  \/ Phasing \/ PhaseLost \/ OrphanEnds \/ Recover

\* Timers end the generator and every stage; the processes that live go on.
ReconstructionFairness ==
  WF_reconstructionVars(Making) /\ WF_reconstructionVars(GeneratorEnds) /\ WF_reconstructionVars(Phasing)
ReconstructionSpec == ReconstructionInit /\ [][ReconstructionNext]_reconstructionVars /\ ReconstructionFairness
------------------------------------------------------------------------------
ReconstructionTypeOK ==
  /\ request \in {"none", "made", "asked"} /\ cancel \in {"no", "cancel", "timeout"}
  /\ maker.at \in {"none", "verify", "generate", "stages", "await", "outputs", "receipt", "gone"}
  /\ phase.at \in {"none", "prepare", "attach", "stages", "close", "report", "ended", "lost"}
  /\ volume \in {"none", "image", "mounted", "uncertain", "closed"}
  /\ Len(completed) <= 3
  /\ receipt \in {None, "SUCCEEDED", "FAILED", "CANCELLED"} /\ report \in {None, "ok", "failed"}

(* A terminal answer is given only about a claim that has nothing left behind: no
   process of a stage, no generator, no volume that is or may be mounted.  Where a mount
   or its cleanup is uncertain, or the supervisor was lost, there is no receipt, not even
   one of a failure. *)
NothingLeftBehind ==
  receipt # None \/ Told # None =>
    /\ generator # "running" /\ stage = None
    /\ volume \notin {"mounted", "uncertain"}
    /\ phase.at \in {"none", "ended"} \/ (recovered /\ volume = "none")

(* A success has been generated, built and run, and where there is a state volume
   observed, in that order and by one worker. *)
SuccessIsWhole ==
  receipt = "SUCCEEDED" =>
    /\ completed = Order
    /\ adapter = "state" => report = "ok" /\ volume = "closed"

(* A reconstruction is answered only where it left nothing behind, and with success only
   where all of it was done. *)
CleanBeforeReceipt == NothingLeftBehind /\ SuccessIsWhole /\ ReconstructionTypeOK

(* Whatever happens to the worker, a supervisor that lives takes its stages down and
   closes the volume, and a worker that lives ends with a receipt or an unknown. *)
ReconstructionEnds ==
  /\ (phase.at = "stages") ~> (phase.at \in {"ended", "lost"})
  /\ (maker.at = "verify") ~> (maker.at = "gone")
==============================================================================
