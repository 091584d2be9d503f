------------------------------- MODULE Evidence -------------------------------
(***************************************************************************)
(* Evidence for a response, response/evidence.ts: a reference to what the  *)
(* Runtime retains is resolved by reading the run, and then, one by one,   *)
(* the collections that its plan pins.  The Runtime is external and goes   *)
(* on meanwhile.  A receipt is identified by its number: a later one ended *)
(* later, and has another digest.  Or a reference is to the campaign in    *)
(* the project, which its user goes on writing.                            *)
(***************************************************************************)
EXTENDS Naturals, FiniteSetsExt

CONSTANTS
  Collections,
  RunReports,    \* the sets of verdicts that the owners may report in one run
  MaxReceipts    \* bounds the receipts of a collection and of the run, and the campaign's revisions

Stages == {"OPEN", "SUCCEEDED", "FAILED"}
Qualities == {"PASS", "FAIL", "UNKNOWN"}

\* What is assumed of the constants.
ASSUME EvidenceAssumption ==
  MaxReceipts \in Nat /\ Collections \cap {"run", "workspace"} = {} /\ RunReports \subseteq SUBSET Qualities \ {{}}

VARIABLES
  collected,   \* each collection: its stage, and the number of its receipt (0: none)
  run,         \* the run: its plan's pins, its stage, its receipt and the owners' reports in it
  reading,     \* readRuntimeResponseEvidence(): the reference, what is read and what is not
  reported,    \* history: the reports that each receipt of the run has
  campaign     \* the campaign file: its revision, 0 is one that is not valid

evidenceVars == <<collected, run, reading, reported, campaign>>
NotReading == [at |-> "idle"]
------------------------------------------------------------------------------
EvidenceInit ==
  /\ collected = [c \in Collections |-> [stage |-> "OPEN", receipt |-> 0]]
  /\ run = [pins |-> <<>>, stage |-> "OPEN", receipt |-> 0, reports |-> {}]
  /\ reading = NotReading
  /\ reported = <<>>
  /\ campaign = 0

\* The Runtime retains a receipt of a collection, or another one after a reconciliation.
Collects ==
  /\ \E c \in Collections, s \in Stages :
       /\ collected[c].receipt < MaxReceipts
       /\ collected' = [collected EXCEPT ![c] = [stage |-> s, receipt |-> @.receipt + 1]]
  /\ UNCHANGED <<run, reading, reported, campaign>>

\* It plans the run, with the collections as they are ...
Plans ==
  /\ run.receipt = 0
  /\ \E C \in SUBSET {c \in Collections : collected[c].receipt > 0} :
       run' = [run EXCEPT !.pins = [c \in C |-> collected[c].receipt]]
  /\ UNCHANGED <<collected, reading, reported, campaign>>

\* ... and retains a receipt of it.
RunsPlan ==
  /\ run.receipt < MaxReceipts
  /\ \E s \in Stages, q \in RunReports :
       /\ run' = [run EXCEPT !.stage = s, !.receipt = @ + 1, !.reports = q]
       /\ reported' = [n \in 1 .. run.receipt + 1 |-> IF n \in DOMAIN reported THEN reported[n] ELSE q]
  /\ UNCHANGED <<collected, reading, campaign>>

\* The campaign is written.
WriteCampaign ==
  /\ \E n \in 0 .. MaxReceipts : campaign' = n
  /\ UNCHANGED <<collected, run, reading, reported>>

ReadsEvidence(next) == reading' = next /\ UNCHANGED <<collected, run, reported, campaign>>
RefusesEvidence == ReadsEvidence([at |-> "refused"])

\* A reference is to a receipt of a collection, or of the run, or to the campaign.
Ask ==
  /\ reading.at = "idle"
  /\ \E owner \in Collections \cup {"run", "workspace"}, n \in 1 .. MaxReceipts :
       ReadsEvidence(
         [at |-> IF owner \in Collections THEN "collections" ELSE owner, owner |-> owner, digest |-> n,
          left |-> IF owner \in Collections THEN [c \in {owner} |-> n] ELSE <<>>, found |-> 0,
          status |-> "UNKNOWN", times |-> {}])

\* The campaign is read once and has no time of its own: 0 is before every receipt.
ReadLedger ==
  /\ reading.at = "workspace"
  /\ IF campaign # reading.digest THEN RefusesEvidence
     ELSE ReadsEvidence([at |-> "answered", owner |-> "workspace", digest |-> reading.digest,
                         status |-> "PASS", observedAt |-> 0])

RunStatus ==
  IF run.stage = "SUCCEEDED" /\ run.reports = {"PASS"} THEN "PASS"
  ELSE IF run.stage = "FAILED" \/ "FAIL" \in run.reports THEN "FAIL" ELSE "UNKNOWN"

\* The run has a receipt and pins collections: what it comes to is settled now, its digest
\* is compared when they are read.
ReadRun ==
  /\ reading.at = "run"
  /\ IF run.receipt = 0 \/ run.pins = <<>> THEN RefusesEvidence
     ELSE ReadsEvidence([reading EXCEPT !.at = "collections", !.left = run.pins, !.found = run.receipt,
                                       !.status = RunStatus])

\* Mutant of SameReceipt: what the collection retains by now will do.
SameReceiptAny(c) == collected[c].receipt > 0

SameReceipt(c) == collected[c].receipt = reading.left[c]

\* A collection has the receipt that is pinned, which tells when it ended.
ReadCollection(c) ==
  /\ reading.at = "collections" /\ c \in DOMAIN reading.left
  /\ IF ~SameReceipt(c) THEN RefusesEvidence
     ELSE LET s == collected[c].stage IN
          ReadsEvidence([reading EXCEPT
            !.left = [d \in DOMAIN @ \ {c} |-> @[d]],
            !.times = @ \cup {collected[c].receipt},
            !.status = IF reading.owner = "run" THEN @
                       ELSE IF s = "SUCCEEDED" THEN "PASS" ELSE IF s = "FAILED" THEN "FAIL" ELSE "UNKNOWN"])

ObservedAt == Min(reading.times)

AnswerEvidence ==
  /\ reading.at = "collections" /\ DOMAIN reading.left = {}
  /\ IF reading.owner = "run" /\ reading.found # reading.digest THEN RefusesEvidence
     ELSE ReadsEvidence([at |-> "answered", owner |-> reading.owner, digest |-> reading.digest,
                         status |-> reading.status, observedAt |-> ObservedAt])

AskAgain == reading.at \in {"answered", "refused"} /\ ReadsEvidence(NotReading)

EvidenceNext ==
  \/ Collects \/ Plans \/ RunsPlan \/ WriteCampaign
  \/ Ask \/ ReadLedger \/ ReadRun \/ AnswerEvidence \/ AskAgain
  \/ \E c \in Collections : ReadCollection(c)

EvidenceSpec == EvidenceInit /\ [][EvidenceNext]_evidenceVars
------------------------------------------------------------------------------
EvidenceTypeOK ==
  /\ collected \in [Collections -> [stage : Stages, receipt : 0 .. MaxReceipts]]
  /\ DOMAIN run.pins \subseteq Collections /\ run.receipt \in 0 .. MaxReceipts
  /\ campaign \in 0 .. MaxReceipts
  /\ reading.at \in {"idle", "workspace", "run", "collections", "answered", "refused"}

(* Evidence is of the receipt that was asked for and of no other: a run passes only with
   the reports of that receipt, and is as old as the oldest collection its plan pins,
   whatever the Runtime retained while the collections were read.  A campaign is never as
   recent as a receipt. *)
EvidenceAsPinned ==
  reading.at = "answered" =>
    IF reading.owner = "workspace" THEN reading.observedAt = 0
    ELSE IF reading.owner = "run"
    THEN /\ reading.observedAt = Min({run.pins[c] : c \in DOMAIN run.pins})
         /\ reading.status = "PASS" => reported[reading.digest] = {"PASS"}
    ELSE reading.observedAt = reading.digest
==============================================================================
