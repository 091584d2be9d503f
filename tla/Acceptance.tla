------------------------------ MODULE Acceptance ------------------------------
(***************************************************************************)
(* The verifiers of acceptance reports: verifyNativeAcceptance() of        *)
(* expert/core/native-acceptance.ts, verifyExpertAcceptanceFile() of       *)
(* expert/core/acceptance.ts and validateLocalAcceptance() of              *)
(* scripts/verify-local-acceptance.mjs.  A report names files as evidence, *)
(* by digest; the verifier reads them one after another while others may   *)
(* change them.                                                            *)
(***************************************************************************)
EXTENDS Naturals, Sequences

CONSTANTS
  AcceptanceReports,     \* what a report may say: [criterion -> its result], some criteria left out
  Criteria,    \* what the expert and the local report are about, and native acceptance before a release
  Afterwards,  \* what native acceptance is about after a release only
  Host,        \* the criteria that only evidence from the actual desktop can meet
  Paths, Digests

\* A result is bound when it is well-formed and names this candidate and the outcome that
\* is expected; stray evidence is of another candidate, or is only synthetic.
Kinds == {"command", "desktop", "stray"}
NamedFiles == [path : Paths, digest : Digests, kind : Kinds]
\* What is assumed of the constants.
ASSUME AcceptanceAssumption ==
  \A r \in AcceptanceReports : \A c \in DOMAIN r :
    /\ c \in Criteria \cup Afterwards
    /\ r[c].status \in {"PASS", "FAIL"} /\ r[c].bound \in BOOLEAN
    /\ r[c].evidence \in Seq(NamedFiles)

VARIABLES
  files,       \* the digest of each file
  verifier,    \* who verifies what, where it is, and what it has found
  was          \* history: the digests that each file has had since the verifier began

acceptanceVars == <<files, verifier, was>>

Verifiers == {[by |-> b, phase |-> p] : b \in {"native"}, p \in {"PRE_RELEASE", "POST_RELEASE"}}
             \cup {[by |-> b, phase |-> "PRE_RELEASE"] : b \in {"expert", "local"}}
NeededFor(v) == Criteria \cup (IF v.phase = "POST_RELEASE" THEN Afterwards ELSE {})
------------------------------------------------------------------------------
AcceptanceInit ==
  /\ files \in [Paths -> Digests]
  /\ was = [p \in Paths |-> {files[p]}]
  /\ \E v \in Verifiers, r \in AcceptanceReports :
       verifier = [by |-> v.by, phase |-> v.phase, report |-> r, at |-> "begin"]

\* A file is changed.
Change ==
  /\ verifier.at \notin {"thrown", "verdict"}
  /\ \E p \in Paths, d \in Digests :
       files' = [files EXCEPT ![p] = d] /\ was' = [was EXCEPT ![p] = @ \cup {d}]
  /\ UNCHANGED verifier

Verifies(next) == verifier' = next /\ UNCHANGED <<files, was>>
Throws == Verifies([verifier EXCEPT !.at = "thrown"])
WalksReport(left, files_, faults) ==
  Verifies([by |-> verifier.by, phase |-> verifier.phase, report |-> verifier.report, at |-> "walk",
            left |-> left, todo |-> files_, seen |-> <<>>, faults |-> faults])

Claimed == verifier.report
IsDesktop(e) == e.kind = "desktop"
IsCommand(e) == e.kind = "command"
IsStray(e) == e.kind = "stray"
Has(result, Kind(_)) == \E i \in DOMAIN result.evidence : Kind(result.evidence[i])

\* verifyNativeAcceptance(): the contract is the frozen one, no result is an orphan.
BeginNative ==
  /\ verifier.at = "begin" /\ verifier.by = "native"
  /\ WalksReport(NeededFor(verifier), <<>>, {})

Malformed == DOMAIN Claimed # Criteria \/ \E c \in Criteria : ~Claimed[c].bound

\* evaluateScenarioEvidence(): the report as such, before any file is read.  A scenario has
\* evidence of the desktop, and of the automated tests for all of its branches.
EvaluateExpert ==
  /\ verifier.at = "begin" /\ verifier.by = "expert"
  /\ IF Malformed \/ \E c \in Criteria : Has(Claimed[c], IsStray) THEN Throws
     ELSE LET faulty(c) == \/ Claimed[c].status # "PASS" \/ ~Has(Claimed[c], IsDesktop)
                           \/ ~Has(Claimed[c], IsCommand) IN
          WalksReport(Criteria, <<>>, {c \in Criteria : faulty(c)})

\* validateLocalAcceptance(): every criterion, and none passed without evidence.
BeginLocal ==
  /\ verifier.at = "begin" /\ verifier.by = "local"
  /\ IF Malformed \/ \E c \in Criteria : Claimed[c].status = "PASS" /\ Claimed[c].evidence = <<>>
     THEN Throws
     ELSE WalksReport(Criteria, <<>>, {c \in Criteria : Claimed[c].status # "PASS"})

TurnsTo(c, evidence, faults) ==
  Verifies([verifier EXCEPT !.left = @ \ {c}, !.todo = evidence, !.faults = @ \cup faults])
AtTurn(by, c) == verifier.at = "walk" /\ verifier.by = by /\ verifier.todo = <<>> /\ c \in verifier.left
LacksHost(c) == c \in Host /\ ~Has(Claimed[c], IsDesktop)

\* The result of a needed pair: a missing one, or one that has not passed, is counted and
\* its evidence left alone.
NativeResult(c) ==
  /\ AtTurn("native", c)
  /\ IF c \notin DOMAIN Claimed THEN TurnsTo(c, <<>>, {c})
     ELSE IF ~Claimed[c].bound THEN Throws
     ELSE IF Claimed[c].status # "PASS" \/ Claimed[c].evidence = <<>> THEN TurnsTo(c, <<>>, {c})
     ELSE IF LacksHost(c) THEN Throws
     ELSE TurnsTo(c, Claimed[c].evidence, {})

\* verifyExpertAcceptanceFile() reads the evidence of every scenario.
ExpertScenario(c) == AtTurn("expert", c) /\ TurnsTo(c, Claimed[c].evidence, {})

\* So does the local verifier, of what has not passed too.
LocalCriterion(c) ==
  /\ AtTurn("local", c)
  /\ IF Claimed[c].status = "PASS" /\ LacksHost(c) THEN Throws
     ELSE TurnsTo(c, Claimed[c].evidence, {})

Seen(path) == {verifier.seen[i].digest : i \in {j \in DOMAIN verifier.seen : verifier.seen[j].path = path}}
ReadsNext(e) == Verifies([verifier EXCEPT !.todo = Tail(@), !.seen = Append(@, e)])
\* The local verifier reads a file again for every reference to it.
ReadAlready(e) == verifier.by # "local" /\ Seen(e.path) # {}

\* Mutant of ReadEvidence: a file that was read is not looked at again, whatever is claimed.
ReadEvidenceOnce ==
  /\ verifier.at = "walk" /\ verifier.todo # <<>>
  /\ LET e == Head(verifier.todo) IN
     IF IsStray(e) \/ (Seen(e.path) = {} /\ files[e.path] # e.digest) THEN Throws ELSE ReadsNext(e)

\* One file has one digest in a report, and it is that of the bytes when they are read.
ReadEvidence ==
  /\ verifier.at = "walk" /\ verifier.todo # <<>>
  /\ LET e == Head(verifier.todo) IN
     IF IsStray(e) \/ ~(Seen(e.path) \subseteq {e.digest}) \/ (~ReadAlready(e) /\ files[e.path] # e.digest)
     THEN Throws ELSE ReadsNext(e)

\* A file changes while readBounded() reads it, or cannot be read.
ReadFails == verifier.at = "walk" /\ verifier.todo # <<>> /\ Throws

Conclude ==
  /\ verifier.at = "walk" /\ verifier.left = {} /\ verifier.todo = <<>>
  /\ Verifies([verifier EXCEPT !.at = "verdict"])

AcceptanceNext ==
  \/ Change
  \/ BeginNative \/ EvaluateExpert \/ BeginLocal
  \/ \E c \in Criteria \cup Afterwards : NativeResult(c) \/ ExpertScenario(c) \/ LocalCriterion(c)
  \/ ReadEvidence \/ ReadFails \/ Conclude

AcceptanceSpec == AcceptanceInit /\ [][AcceptanceNext]_acceptanceVars
------------------------------------------------------------------------------
AcceptanceTypeOK ==
  /\ files \in [Paths -> Digests] /\ was \in [Paths -> SUBSET Digests]
  /\ verifier.at \in {"begin", "walk", "thrown", "verdict"}

(* A report that is called complete has passed all that the phase needs, for this
   candidate, where needed on the actual desktop; every file that it names had the digest
   it names at a moment of the verification, and has one in the whole report. *)
CompleteAsRead ==
  verifier.at = "verdict" /\ verifier.faults = {} =>
    LET evidence == UNION {{Claimed[c].evidence[i] : i \in DOMAIN Claimed[c].evidence} : c \in NeededFor(verifier)} IN
    /\ NeededFor(verifier) \subseteq DOMAIN Claimed
    /\ \A c \in NeededFor(verifier) :
         /\ Claimed[c].status = "PASS" /\ Claimed[c].bound
         /\ Claimed[c].evidence # <<>> /\ ~Has(Claimed[c], IsStray)
         /\ c \in Host \/ verifier.by = "expert" => Has(Claimed[c], IsDesktop)
    /\ \A e, f \in evidence : e.digest \in was[e.path] /\ (e.path = f.path => e.digest = f.digest)
==============================================================================
