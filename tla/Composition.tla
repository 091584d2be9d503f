----------------------------- MODULE Composition -----------------------------
(***************************************************************************)
(* The execution of one Runtime claim by the composition: composition.ts   *)
(* for plain claims, native-composition.ts for native ones.  The claim     *)
(* pins an ontology and a harness; the composition finds where each is     *)
(* published, has the owners judge the claim (Harness alone for a plain    *)
(* claim) and answers Runtime with what they retained.  The owners and     *)
(* Runtime's record of the claim are external.                             *)
(***************************************************************************)
EXTENDS Naturals, Sequences, FiniteSets, SequencesExt

CONSTANTS
  Claims,
  Others,             \* the claim others have judged meanwhile
  MaxRevision         \* bound on the revisions of an owner

\* What is assumed of the constants.
ASSUME ClaimAssumption == Others \notin Claims /\ MaxRevision \in Nat

Owners == {"ontology", "harness"}
Scopes == {"project", "shared"}         \* scopeCandidates() of a public reference
Verdicts == {"PASS", "FAIL", "ERROR", "N/A", "NOT_EVALUATED"}

VARIABLES
  native,      \* the claims that are native
  library,     \* library[o][p]: what o has published under the pinned identity
  revision,    \* the revision of each owner
  retained,    \* retained[o]: the receipts o keeps, one per request id
  business,    \* what validateInstances() says of a plain claim's instance
  claiming,    \* each claim: where its execution or reconciliation is
  aborted,     \* claims whose signal is aborted
  attempts,    \* how often an owner was asked to judge a claim
  answered     \* the answers a claim got

compositionVars == <<native, library, revision, retained, business, claiming, aborted, attempts, answered>>

Lookups == << <<"ontology", "project">>, <<"ontology", "shared">>,
              <<"harness", "project">>, <<"harness", "shared">> >>
Judges(c) == IF c \in native THEN <<"ontology", "harness">> ELSE <<"harness">>
Resting(at) == [at |-> at]
------------------------------------------------------------------------------
CompositionInit ==
  /\ library = [o \in Owners |-> [p \in Scopes |-> "none"]]
  /\ revision = [o \in Owners |-> 0]
  /\ retained = [o \in Owners |-> {}]
  /\ native \in SUBSET Claims
  /\ business \in [Claims \ native -> Verdicts]
  /\ claiming = [c \in Claims |-> Resting("new")]
  /\ aborted = {}
  /\ attempts = [o \in Owners |-> [c \in Claims |-> 0]]
  /\ answered = [c \in Claims |-> {}]

\* An owner publishes: the very material the claims pin, or another under its identity.
PublishMaterial(o, p) ==
  /\ library[o][p] = "none"
  /\ \E v \in {"pinned", "other"} : library' = [library EXCEPT ![o][p] = v]
  /\ UNCHANGED <<native, revision, retained, business, claiming, aborted, attempts, answered>>

Report(c, p, v) == [claim |-> c, place |-> p, verdict |-> v]

\* Somebody else has the owner judge another claim, of a shared asset, which moves its
\* revision.
OthersWork(o) ==
  /\ revision[o] < MaxRevision
  /\ revision' = [revision EXCEPT ![o] = @ + 1]
  /\ retained' = [retained EXCEPT ![o] = @ \cup {Report(Others, "shared", "PASS")}]
  /\ UNCHANGED <<native, library, business, claiming, aborted, attempts, answered>>

Abort(c) ==
  /\ claiming[c].at \notin {"new", "failed", "done"}
  /\ aborted' = aborted \cup {c}
  /\ UNCHANGED <<native, library, revision, retained, business, claiming, attempts, answered>>

\* The lookup of both materials that every phase begins with; "then" is the phase.
Looking(then, turn, heard) ==
  [at |-> "look", look |-> 1, found |-> [o \in Owners |-> {}],
   then |-> then, turn |-> turn, heard |-> heard, seen |-> 0]
Go(c, next) ==
  /\ claiming' = [claiming EXCEPT ![c] = next]
  /\ UNCHANGED <<native, library, business>>

\* dispatch(): Runtime has retained the claim and has it executed once.
Execute(c) ==
  /\ claiming[c].at = "new"
  /\ Go(c, Looking("inspect", 1, <<>>))
  /\ UNCHANGED <<revision, retained, aborted, attempts, answered>>

\* reconcile(): inspectClaimReceipt() and inspectNative() only read what is retained.
Reconcile(c) ==
  /\ claiming[c].at \in {"failed", "done"}
  /\ Go(c, Looking("read", 1, <<>>))
  /\ aborted' = aborted \ {c}
  /\ UNCHANGED <<revision, retained, attempts, answered>>

\* published(): one candidate scope after the other.  Another material under the pinned
\* identity fails at once; in the end there has to be exactly one place.
Look(c) ==
  LET l == claiming[c]  o == Lookups[l.look][1]  p == Lookups[l.look][2]
      found == IF library[o][p] = "none" THEN l.found ELSE [l.found EXCEPT ![o] = @ \cup {p}]
  IN
  /\ l.at = "look"
  /\ Go(c, IF \/ library[o][p] = "other"
              \/ p = "shared" /\ Cardinality(found[o]) # 1
              \/ c \in aborted \ native THEN Resting("failed")
           ELSE IF l.look < Len(Lookups) THEN [l EXCEPT !.look = @ + 1, !.found = found]
           ELSE [l EXCEPT !.at = l.then, !.found = found])
  /\ UNCHANGED <<revision, retained, aborted, attempts, answered>>

\* The abort check, then workspace.inspect for the revision to compare and swap.
InspectOwner(c) ==
  LET l == claiming[c] IN
  /\ l.at = "inspect"
  /\ Go(c, IF c \in aborted THEN Resting("failed")
           ELSE [l EXCEPT !.at = "judge", !.seen = revision[Judges(c)[l.turn]]])
  /\ UNCHANGED <<revision, retained, aborted, attempts, answered>>

Place(l, o) == CHOOSE p \in l.found[o] : TRUE

\* native.package.validate or asset.evaluate under a request id made of the claim's.
\* The owner refuses a stale revision, and its answer may be lost with the work done.
\* After the last owner a native claim reads the receipts, a plain one has its own.
Judge(c) ==
  LET l == claiming[c]  o == Judges(c)[l.turn] IN
  /\ l.at = "judge"
  /\ attempts' = [attempts EXCEPT ![o][c] = @ + 1]
  /\ IF revision[o] # l.seen
     THEN Go(c, Resting("failed")) /\ UNCHANGED <<revision, retained, answered>>
     ELSE \E v \in Verdicts :
            /\ revision' = [revision EXCEPT ![o] = @ + 1]
            /\ retained' = [retained EXCEPT ![o] = @ \cup {Report(c, Place(l, o), v)}]
            /\ \/ Go(c, Resting("failed"))
               \/ l.turn < Len(Judges(c)) /\ Go(c, [l EXCEPT !.at = "inspect", !.turn = @ + 1])
               \/ /\ l.turn = Len(Judges(c))
                  /\ Go(c, IF c \in aborted THEN Resting("failed")
                           ELSE IF c \in native THEN Looking("read", 1, <<>>)
                           ELSE [l EXCEPT !.at = "answer", !.heard = <<v>>])
            /\ UNCHANGED answered
  /\ UNCHANGED aborted

\* Mutant of ReadReceipt: any receipt of the owner at that place will do.
ReadAnyReceipt(c) ==
  LET l == claiming[c]  o == Judges(c)[l.turn]
      kept == {r \in retained[o] : r.place = Place(l, o)}
  IN
  /\ l.at = "read"
  /\ \/ kept = {} /\ Go(c, Resting("failed"))
     \/ \E r \in kept :
          LET heard == Append(l.heard, r.verdict) IN
          Go(c, IF l.turn < Len(Judges(c)) THEN Looking("read", l.turn + 1, heard)
                ELSE [l EXCEPT !.at = "answer", !.heard = heard])
  /\ UNCHANGED <<revision, retained, aborted, attempts, answered>>

\* readOwnerReceipt(), evaluation.inspect: the receipt of this claim at the place of the
\* material.  Every owner's receipt of a native claim is preceded by a lookup.
ReadReceipt(c) ==
  LET l == claiming[c]  o == Judges(c)[l.turn]
      kept == {r \in retained[o] : r.claim = c /\ r.place = Place(l, o)}
  IN
  /\ l.at = "read"
  /\ \/ kept = {} /\ Go(c, Resting("failed"))
     \/ \E r \in kept :
          LET heard == Append(l.heard, r.verdict) IN
          Go(c, IF l.turn < Len(Judges(c)) THEN Looking("read", l.turn + 1, heard)
                ELSE [l EXCEPT !.at = "answer", !.heard = heard])
  /\ UNCHANGED <<revision, retained, aborted, attempts, answered>>

aggregateEvaluation(ontology, harness) ==
  LET results == {IF ontology = "NOT_EVALUATED" THEN "INDETERMINATE" ELSE ontology, harness} IN
  IF "ERROR" \in results THEN "ERROR"
  ELSE IF "FAIL" \in results THEN "FAIL"
  ELSE IF ~(results \subseteq {"PASS", "N/A"}) THEN "INDETERMINATE"
  ELSE IF "N/A" \in results THEN "N/A" ELSE "PASS"

\* receipt(): both owners' statuses for a native claim, the aggregate for a plain one.
AnswerClaim(c) ==
  LET l == claiming[c] IN
  /\ l.at = "answer"
  /\ answered' = [answered EXCEPT ![c] = @ \cup
       {IF c \in native THEN l.heard ELSE <<aggregateEvaluation(business[c], l.heard[1])>>}]
  /\ Go(c, Resting("done"))
  /\ UNCHANGED <<revision, retained, aborted, attempts>>

\* Any call fails, or the process ends: Runtime keeps UNKNOWN.
ClaimFails(c) ==
  /\ claiming[c].at \notin {"new", "failed", "done"}
  /\ Go(c, Resting("failed"))
  /\ UNCHANGED <<revision, retained, aborted, attempts, answered>>

CompositionNext ==
  \/ \E o \in Owners : OthersWork(o) \/ \E p \in Scopes : PublishMaterial(o, p)
  \/ \E c \in Claims : \/ Execute(c) \/ Reconcile(c) \/ Abort(c) \/ ClaimFails(c)
                       \/ Look(c) \/ InspectOwner(c) \/ Judge(c) \/ ReadReceipt(c) \/ AnswerClaim(c)

CompositionSpec == CompositionInit /\ [][CompositionNext]_compositionVars
------------------------------------------------------------------------------
CompositionTypeOK ==
  /\ library \in [Owners -> [Scopes -> {"none", "pinned", "other"}]]
  /\ \A o \in Owners : revision[o] \in Nat
  /\ \A c \in Claims : claiming[c].at \in
       {"new", "look", "inspect", "judge", "read", "answer", "failed", "done"}

(* No owner is asked to judge a claim twice, however often it was aborted, failed or
   reconciled (composition.ts: "One attempt only"). *)
OneAttempt == \A o \in Owners, c \in Claims : attempts[o][c] <= 1

\* The worst of two statuses, from a table instead of the code's sequence of tests.
Severity == [s \in Verdicts \cup {"INDETERMINATE"} |->
  CASE s = "PASS" -> 0 [] s = "N/A" -> 1 [] s = "FAIL" -> 3 [] s = "ERROR" -> 4 [] OTHER -> 2]
Worst(s, t) == CHOOSE w \in {"PASS", "N/A", "INDETERMINATE", "FAIL", "ERROR"} :
  Severity[w] = (IF Severity[s] >= Severity[t] THEN Severity[s] ELSE Severity[t])

(* Every answer Runtime gets for a claim, first or reconciled, is what the owners
   retained for this very claim, and what a plain claim is told is the worst of its
   business and its quality result. *)
AnswersRetained ==
  \A c \in Claims : \A a \in answered[c] :
    \E r \in [ToSet(Judges(c)) -> UNION {retained[o] : o \in Owners}] :
      /\ \A o \in ToSet(Judges(c)) : r[o] \in retained[o] /\ r[o].claim = c
      /\ IF c \in native THEN a = <<r["ontology"].verdict, r["harness"].verdict>>
         ELSE a = <<Worst(business[c], r["harness"].verdict)>>

(* A claim is judged once by each owner, and every answer it gets is what the owners
   retained for it. *)
AnsweredAsRetained == AnswersRetained /\ OneAttempt /\ CompositionTypeOK
==============================================================================
