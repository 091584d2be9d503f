------------------------------ MODULE Verdicts ------------------------------
(***************************************************************************)
(* What verdicts on assets stand on: evidence of the Runtime and of        *)
(* acceptance, the oracles that reconstructions are held to, and what a    *)
(* person has decided.                                                     *)
(***************************************************************************)
EXTENDS Evidence, Acceptance, Oracle, Intents

(* Evidence is of the receipts that were pinned, and a report of acceptance is complete
   only with the files it names: whatever changed while they were read; an oracle finds
   wrong what is; and authoring stands on what a person accepted. *)
VerdictsStand ==
  /\ EvidenceAsPinned /\ EvidenceTypeOK
  /\ CompleteAsRead /\ AcceptanceTypeOK
  /\ ControlsDiffer /\ OracleTypeOK
  /\ AuthoredAsIntended /\ IntentsTypeOK
==============================================================================
