----------------------------- MODULE AssetsProofs -----------------------------
(***************************************************************************)
(* What MCAssets checks on a small instance, for any claims, catalogue of  *)
(* assets, grants, limits, requests, archives, rows, locks, products,      *)
(* sources, turns, receipts, reports, oracles and intents: claims, the     *)
(* asset service, the two readers of archives, what a bundle is built      *)
(* from, pages of an asset, the replay of a generation, and the verdicts   *)
(* on assets.                                                              *)
(***************************************************************************)
EXTENDS Composition, Consumption, Archive, Paging, Build, Generation, Verdicts, SequenceTheorems,
        FiniteSetTheorems, WellFoundedInduction, TLAPS

(* Composition: where a claim is tells what was done for it.  An owner that is still to be
   asked has not been, and what was heard of an owner is in a receipt that it keeps for
   this claim. *)
Resters == [at : {"new", "failed", "done"}]
Lookers == [at : {"look", "inspect", "judge", "read", "answer"}, look : 1 .. 4,
            found : [Owners -> SUBSET Scopes], then : {"inspect", "read"}, turn : 1 .. 2,
            heard : Seq(Verdicts), seen : Nat]

PhaseOf(l) == IF l.at = "look" THEN l.then ELSE l.at
Unasked(c, n) == \A i \in DOMAIN Judges(c) : i >= n => attempts[Judges(c)[i]][c] = 0
Heard(c, h) == \A i \in DOMAIN h : \E r \in retained[Judges(c)[i]] : r.claim = c /\ r.verdict = h[i]

ClaimFits(c) ==
  LET l == claiming[c] IN
  /\ l.at = "new" => Unasked(c, 1)
  /\ PhaseOf(l) \in {"inspect", "judge"} => l.turn \in DOMAIN Judges(c) /\ Unasked(c, l.turn)
  /\ PhaseOf(l) = "read" => l.turn \in DOMAIN Judges(c) /\ Len(l.heard) = l.turn - 1 /\ Heard(c, l.heard)
  /\ l.at = "answer" => Len(l.heard) = Len(Judges(c)) /\ Heard(c, l.heard)

\* An answer repeats what each owner that judges the claim retains for it.
AnswerFits(c, a) ==
  \E s \in retained["harness"] :
    /\ s.claim = c
    /\ IF c \in native THEN \E r \in retained["ontology"] : r.claim = c /\ a = <<r.verdict, s.verdict>>
       ELSE a = <<Worst(business[c], s.verdict)>>

CompositionTypes ==
  /\ native \subseteq Claims /\ business \in [Claims \ native -> Verdicts]
  /\ library \in [Owners -> [Scopes -> {"none", "pinned", "other"}]]
  /\ revision \in [Owners -> Nat]
  /\ retained = [o \in Owners |-> retained[o]]
  /\ \A o \in Owners : \A r \in retained[o] : r.verdict \in Verdicts
  /\ claiming \in [Claims -> Resters \cup Lookers]
  /\ attempts \in [Owners -> [Claims -> Nat]]
  /\ answered = [c \in Claims |-> answered[c]]

CompositionInv ==
  /\ CompositionTypes /\ OneAttempt
  /\ \A c \in Claims : ClaimFits(c)
  /\ \A c \in Claims : \A a \in answered[c] : AnswerFits(c, a)

LEMMA JudgesOf ==
  ASSUME NEW c
  PROVE  /\ c \in native => Judges(c) = <<"ontology", "harness">> /\ Len(Judges(c)) = 2
                            /\ ToSet(Judges(c)) = {"ontology", "harness"}
         /\ c \notin native => Judges(c) = <<"harness">> /\ Len(Judges(c)) = 1
                               /\ ToSet(Judges(c)) = {"harness"}
  BY DEF Judges, ToSet

LEMMA WorstIsAggregate ==
  ASSUME NEW s \in Verdicts, NEW t \in Verdicts
  PROVE  aggregateEvaluation(s, t) = Worst(s, t)
<1> DEFINE five == {"PASS", "N/A", "INDETERMINATE", "FAIL", "ERROR"}
           worse == IF Severity[s] >= Severity[t] THEN Severity[s] ELSE Severity[t]
<1>1. Severity["PASS"] = 0 /\ Severity["N/A"] = 1 /\ Severity["INDETERMINATE"] = 2 /\ Severity["FAIL"] = 3
      /\ Severity["ERROR"] = 4 /\ Severity["NOT_EVALUATED"] = 2
  BY DEF Severity, Verdicts
<1>2. aggregateEvaluation(s, t) \in five /\ Severity[aggregateEvaluation(s, t)] = worse
  BY <1>1 DEF aggregateEvaluation, Verdicts
<1>3. \A v, w \in five : Severity[v] = Severity[w] => v = w
  BY <1>1
<1>4. Worst(s, t) = CHOOSE w \in five : Severity[w] = worse
  BY DEF Worst
<1> HIDE DEF five, worse
<1> QED
  BY <1>2, <1>3, <1>4

LEMMA CompositionInitInv == CompositionInit => CompositionInv
<1> SUFFICES ASSUME CompositionInit PROVE CompositionInv
  OBVIOUS
<1>1. CompositionTypes
  BY DEF CompositionInit, CompositionTypes, Resting, Resters
<1>2. \A o \in Owners, c \in Claims : attempts[o][c] = 0
  BY DEF CompositionInit
<1>3. OneAttempt
  BY <1>2 DEF OneAttempt
<1>4. ASSUME NEW c \in Claims PROVE ClaimFits(c)
  <2>1. claiming[c].at = "new"
    BY DEF CompositionInit, Resting
  <2>2. \A i \in DOMAIN Judges(c) : Judges(c)[i] \in Owners
    BY DEF Judges, Owners
  <2> QED
    BY <1>2, <2>1, <2>2 DEF ClaimFits, PhaseOf, Unasked
<1>5. \A c \in Claims : answered[c] = {}
  BY DEF CompositionInit
<1> QED
  BY <1>1, <1>3, <1>4, <1>5 DEF CompositionInv

(* Owners only add to what they retain, so what fits goes on fitting; a step of one claim
   does not touch another. *)
LEMMA FitsOn ==
  ASSUME CompositionInv, NEW c \in Claims, native' = native, claiming'[c] = claiming[c],
         \A o \in Owners : retained[o] \subseteq retained'[o] /\ attempts'[o][c] = attempts[o][c]
  PROVE  ClaimFits(c)'
<1>1. \A i \in DOMAIN Judges(c) : Judges(c)[i] \in Owners
  BY DEF Judges, Owners
<1>2. Judges(c)' = Judges(c)
  BY DEF Judges
<1>3. ClaimFits(c) /\ claiming[c] \in Resters \cup Lookers
  BY DEF CompositionInv, CompositionTypes
<1>4. \A n : Unasked(c, n) => Unasked(c, n)'
  BY <1>1, <1>2 DEF Unasked
<1>5. ASSUME NEW h, DOMAIN h \subseteq DOMAIN Judges(c), Heard(c, h) PROVE Heard(c, h)'
  BY <1>1, <1>2, <1>5 DEF Heard
<1>6. ASSUME PhaseOf(claiming[c]) = "read" PROVE DOMAIN claiming[c].heard \subseteq DOMAIN Judges(c)
  BY <1>3, <1>6, JudgesOf DEF ClaimFits, Resters, Lookers, PhaseOf
<1>7. ASSUME claiming[c].at = "answer" PROVE DOMAIN claiming[c].heard \subseteq DOMAIN Judges(c)
  BY <1>3, <1>7, JudgesOf DEF ClaimFits, Resters, Lookers
<1> QED
  BY <1>2, <1>3, <1>4, <1>5, <1>6, <1>7 DEF ClaimFits

LEMMA AnswersOn ==
  ASSUME CompositionInv, UNCHANGED <<native, business>>,
         \A o \in Owners : retained[o] \subseteq retained'[o],
         NEW c \in Claims, NEW a \in answered[c]
  PROVE  AnswerFits(c, a)'
<1>1. AnswerFits(c, a)
  BY DEF CompositionInv
<1> QED
  BY <1>1 DEF AnswerFits, Owners

LEMMA AroundKeeps ==
  ASSUME CompositionInv, UNCHANGED <<native, business, claiming, attempts, answered>>,
         \A o \in Owners : retained[o] \subseteq retained'[o],
         CompositionTypes'
  PROVE  CompositionInv'
<1>1. \A c \in Claims : ClaimFits(c)'
  BY FitsOn
<1>2. \A c \in Claims : \A a \in answered[c] : AnswerFits(c, a)'
  BY AnswersOn
<1> QED
  BY <1>1, <1>2 DEF CompositionInv, OneAttempt

LEMMA GoKeeps ==
  ASSUME CompositionInv, NEW c \in Claims, NEW next \in Resters \cup Lookers, Go(c, next),
         claiming'[c] = next => ClaimFits(c)',
         revision' \in [Owners -> Nat], retained' = [o \in Owners |-> retained'[o]],
         \A o \in Owners : retained[o] \subseteq retained'[o],
         \A o \in Owners : \A r \in retained'[o] : r.verdict \in Verdicts,
         attempts' \in [Owners -> [Claims -> Nat]],
         \A o \in Owners : attempts'[o][c] <= 1,
         \A o \in Owners, d \in Claims \ {c} : attempts'[o][d] = attempts[o][d],
         answered' = [d \in Claims |-> answered'[d]],
         \A d \in Claims : \A a \in answered'[d] : a \in answered[d] \/ AnswerFits(d, a)'
  PROVE  CompositionInv'
<1>1. UNCHANGED <<native, business, library>> /\ claiming' = [claiming EXCEPT ![c] = next]
  BY DEF Go
<1>2. CompositionTypes'
  BY <1>1 DEF CompositionInv, CompositionTypes
<1>3. claiming'[c] = next /\ \A d \in Claims \ {c} : claiming'[d] = claiming[d]
  BY <1>1 DEF CompositionInv, CompositionTypes
<1>4. \A d \in Claims \ {c} : ClaimFits(d)'
  BY <1>1, <1>3, FitsOn
<1>5. \A d \in Claims : \A a \in answered'[d] : AnswerFits(d, a)'
  BY <1>1, AnswersOn
<1>6. OneAttempt'
  BY DEF CompositionInv, OneAttempt
<1> QED
  BY <1>2, <1>3, <1>4, <1>5, <1>6 DEF CompositionInv

LEMMA QuietKeeps ==
  ASSUME CompositionInv, NEW c \in Claims, NEW next \in Resters \cup Lookers, Go(c, next),
         claiming'[c] = next => ClaimFits(c)',
         UNCHANGED <<revision, retained, attempts, answered>>
  PROVE  CompositionInv'
  BY GoKeeps DEF CompositionInv, CompositionTypes, OneAttempt

\* What fits a resting claim, whatever has been done for it.
LEMMA RestFits ==
  ASSUME NEW c, claiming'[c] \in {Resting("failed"), Resting("done")} PROVE ClaimFits(c)'
  BY DEF ClaimFits, PhaseOf, Resting

LEMMA RestsKeep ==
  ASSUME CompositionInv, NEW c \in Claims, Go(c, Resting("failed")),
         UNCHANGED <<revision, retained, attempts, answered>>
  PROVE  CompositionInv'
<1>1. Resting("failed") \in Resters
  BY DEF Resting, Resters
<1> QED
  BY <1>1, QuietKeeps, RestFits

LEMMA LookingIs ==
  ASSUME NEW then \in {"inspect", "read"}, NEW n \in 1 .. 2, NEW heard \in Seq(Verdicts)
  PROVE  LET l == Looking(then, n, heard) IN
         l \in Lookers /\ PhaseOf(l) = then /\ l.turn = n /\ l.heard = heard /\ l.at = "look"
  BY DEF Looking, Lookers, PhaseOf

LEMMA AroundStepKeeps ==
  ASSUME CompositionInv,
         \/ \E o \in Owners : OthersWork(o) \/ \E p \in Scopes : PublishMaterial(o, p)
         \/ \E c \in Claims : Abort(c)
  PROVE  CompositionInv'
<1>0. CompositionTypes
  BY DEF CompositionInv
<1>1. CASE \E o \in Owners, p \in Scopes : PublishMaterial(o, p)
  BY <1>0, <1>1, AroundKeeps DEF PublishMaterial, CompositionTypes
<1>2. CASE \E o \in Owners : OthersWork(o)
  <2>1. PICK o \in Owners : OthersWork(o)
    BY <1>2
  <2>2. Report(Others, "shared", "PASS").verdict \in Verdicts
    BY DEF Report, Verdicts
  <2>3. /\ retained' = [w \in Owners |-> retained'[w]]
        /\ retained'[o] = retained[o] \cup {Report(Others, "shared", "PASS")}
        /\ \A w \in Owners \ {o} : retained'[w] = retained[w]
    BY <1>0, <2>1 DEF OthersWork, CompositionTypes
  <2>4. \A w \in Owners : retained[w] \subseteq retained'[w] /\ \A r \in retained'[w] : r.verdict \in Verdicts
    BY <1>0, <2>2, <2>3 DEF CompositionTypes
  <2>5. revision' \in [Owners -> Nat]
    BY <1>0, <2>1 DEF OthersWork, CompositionTypes
  <2>6. UNCHANGED <<native, business, claiming, attempts, answered, library>>
    BY <2>1 DEF OthersWork
  <2>7. CompositionTypes'
    BY <1>0, <2>3, <2>4, <2>5, <2>6 DEF CompositionTypes
  <2> QED
    BY <2>4, <2>6, <2>7, AroundKeeps
<1>3. CASE \E c \in Claims : Abort(c)
  BY <1>0, <1>3, AroundKeeps DEF Abort, CompositionTypes
<1> QED
  BY <1>1, <1>2, <1>3

LEMMA ExecuteKeeps ==
  ASSUME CompositionInv, NEW c \in Claims, Execute(c) PROVE CompositionInv'
<1> DEFINE next == Looking("inspect", 1, <<>>)
<1>1. <<>> \in Seq(Verdicts)
  OBVIOUS
<1>2. next \in Lookers /\ PhaseOf(next) = "inspect" /\ next.turn = 1 /\ next.at = "look"
  BY <1>1 DEF Looking, Lookers, PhaseOf
<1> HIDE DEF next
<1>3. Go(c, next) /\ UNCHANGED <<revision, retained, attempts, answered, native>> /\ claiming[c].at = "new"
  BY DEF Execute, Go, next
<1>4. Unasked(c, 1)
  BY <1>3 DEF CompositionInv, ClaimFits
<1>5. ASSUME claiming'[c] = next PROVE ClaimFits(c)'
  BY <1>2, <1>3, <1>4, <1>5, JudgesOf DEF ClaimFits, Unasked, Judges
<1> QED
  BY <1>2, <1>3, <1>5, QuietKeeps

\* A reconciliation begins with nothing heard.
LEMMA ReconcilingFits ==
  ASSUME NEW c, claiming'[c] = Looking("read", 1, <<>>), native' = native PROVE ClaimFits(c)'
<1>1. <<>> \in Seq(Verdicts)
  OBVIOUS
<1>2. /\ PhaseOf(claiming'[c]) = "read" /\ claiming'[c].turn = 1 /\ claiming'[c].heard = <<>>
      /\ claiming'[c].at = "look"
  BY DEF Looking, PhaseOf
<1> QED
  BY <1>2, JudgesOf DEF ClaimFits, Heard, Judges, PhaseOf

LEMMA ReconcileKeeps ==
  ASSUME CompositionInv, NEW c \in Claims, Reconcile(c) PROVE CompositionInv'
<1>1. <<>> \in Seq(Verdicts)
  OBVIOUS
<1>2. Looking("read", 1, <<>>) \in Lookers
  BY <1>1 DEF Looking, Lookers
<1>3. Go(c, Looking("read", 1, <<>>)) /\ UNCHANGED <<revision, retained, attempts, answered, native>>
  BY DEF Reconcile, Go
<1> QED
  BY <1>2, <1>3, ReconcilingFits, QuietKeeps

LEMMA LookKeeps ==
  ASSUME CompositionInv, NEW c \in Claims, Look(c) PROVE CompositionInv'
<1> DEFINE l == claiming[c]
           o == Lookups[l.look][1]
           p == Lookups[l.look][2]
           found == IF library[o][p] = "none" THEN l.found ELSE [l.found EXCEPT ![o] = @ \cup {p}]
<1>1. l \in Lookers /\ l.at = "look" /\ ClaimFits(c)
  BY DEF Look, CompositionInv, CompositionTypes, Resters
<1>2. o \in Owners /\ p \in Scopes /\ Len(Lookups) = 4
  BY <1>1 DEF Lookers, Lookups, Owners, Scopes
<1>3. found \in [Owners -> SUBSET Scopes]
  BY <1>1, <1>2 DEF Lookers
<1> HIDE DEF o, p, found
<1>4. UNCHANGED <<revision, retained, attempts, answered, native>>
  BY DEF Look, Go
<1>5. \/ Go(c, Resting("failed"))
      \/ l.look < 4 /\ Go(c, [l EXCEPT !.look = @ + 1, !.found = found])
      \/ Go(c, [l EXCEPT !.at = l.then, !.found = found])
  BY <1>2 DEF Look, o, p, found
<1>6. ASSUME NEW next, Go(c, next), next \in Lookers, PhaseOf(next) = PhaseOf(l), next.at # "answer",
             next.at # "new", next.turn = l.turn, next.heard = l.heard
      PROVE  CompositionInv'
  <2>1. ASSUME claiming'[c] = next PROVE ClaimFits(c)'
    BY <1>1, <1>4, <1>6, <2>1 DEF ClaimFits, Unasked, Heard, Judges
  <2> QED
    BY <1>4, <1>6, <2>1, QuietKeeps
<1>7. CASE l.look < 4 /\ Go(c, [l EXCEPT !.look = @ + 1, !.found = found])
  <2> DEFINE next == [l EXCEPT !.look = @ + 1, !.found = found]
  <2>1. /\ next \in Lookers /\ next.at = "look" /\ next.then = l.then /\ next.turn = l.turn
        /\ next.heard = l.heard
    <3>1. l.look + 1 \in 1 .. 4
      BY <1>1, <1>7 DEF Lookers
    <3> QED
      BY <1>1, <1>3, <3>1 DEF Lookers
  <2> HIDE DEF next
  <2> QED
    BY <1>1, <1>6, <1>7, <2>1 DEF PhaseOf, next
<1>8. CASE Go(c, [l EXCEPT !.at = l.then, !.found = found])
  <2> DEFINE next == [l EXCEPT !.at = l.then, !.found = found]
  <2>1. /\ next \in Lookers /\ next.at = l.then /\ next.turn = l.turn /\ next.heard = l.heard
        /\ l.then \in {"inspect", "read"}
    BY <1>1, <1>3 DEF Lookers
  <2> HIDE DEF next
  <2> QED
    BY <1>1, <1>6, <1>8, <2>1 DEF PhaseOf, next
<1> QED
  BY <1>4, <1>5, <1>7, <1>8, RestsKeep

LEMMA InspectOwnerKeeps ==
  ASSUME CompositionInv, NEW c \in Claims, InspectOwner(c) PROVE CompositionInv'
<1> DEFINE l == claiming[c]
           next == [l EXCEPT !.at = "judge", !.seen = revision[Judges(c)[l.turn]]]
<1>1. l \in Lookers /\ l.at = "inspect" /\ ClaimFits(c)
  BY DEF InspectOwner, CompositionInv, CompositionTypes, Resters
<1>2. l.turn \in DOMAIN Judges(c) /\ Judges(c)[l.turn] \in Owners /\ Unasked(c, l.turn)
  BY <1>1 DEF ClaimFits, PhaseOf, Judges, Owners
<1>3. revision[Judges(c)[l.turn]] \in Nat
  BY <1>2 DEF CompositionInv, CompositionTypes
<1>4. next \in Lookers /\ next.at = "judge" /\ next.turn = l.turn
  BY <1>1, <1>3 DEF Lookers
<1>5. UNCHANGED <<revision, retained, attempts, answered, native>>
  BY DEF InspectOwner, Go
<1>6. Go(c, Resting("failed")) \/ Go(c, next)
  BY DEF InspectOwner
<1> HIDE DEF next
<1>7. ASSUME claiming'[c] = next PROVE ClaimFits(c)'
  BY <1>2, <1>4, <1>5, <1>7 DEF ClaimFits, PhaseOf, Unasked, Judges
<1> QED
  BY <1>4, <1>5, <1>6, <1>7, QuietKeeps, RestsKeep

LEMMA ClaimFailsKeeps ==
  ASSUME CompositionInv, NEW c \in Claims, ClaimFails(c) PROVE CompositionInv'
  BY RestsKeep DEF ClaimFails

\* What the owner whose turn it is retains for the claim is heard of it.
LEMMA HeardOn ==
  ASSUME NEW c, NEW h \in Seq(Verdicts), NEW r,
         Len(h) + 1 \in DOMAIN Judges(c), Heard(c, h),
         r \in retained[Judges(c)[Len(h) + 1]], r.claim = c, r.verdict \in Verdicts
  PROVE  LET g == Append(h, r.verdict) IN g \in Seq(Verdicts) /\ Len(g) = Len(h) + 1 /\ Heard(c, g)
<1> DEFINE g == Append(h, r.verdict)
<1>1. /\ g \in Seq(Verdicts) /\ Len(g) = Len(h) + 1 /\ Len(h) \in Nat /\ DOMAIN g = 1 .. Len(h) + 1
      /\ DOMAIN h = 1 .. Len(h) /\ g[Len(h) + 1] = r.verdict /\ \A i \in DOMAIN h : g[i] = h[i]
  BY AppendProperties
<1> HIDE DEF g
<1>2. ASSUME NEW i \in DOMAIN g PROVE \E s \in retained[Judges(c)[i]] : s.claim = c /\ s.verdict = g[i]
  <2>1. CASE i = Len(h) + 1
    BY <1>1, <2>1
  <2>2. CASE i # Len(h) + 1
    <3>1. i \in DOMAIN h
      BY <1>1, <1>2, <2>2
    <3> QED
      BY <1>1, <3>1 DEF Heard
  <2> QED
    BY <2>1, <2>2
<1>3. Heard(c, g)
  BY <1>2 DEF Heard
<1> QED
  BY <1>1, <1>3 DEF g

LEMMA ReadReceiptKeeps ==
  ASSUME CompositionInv, NEW c \in Claims, ReadReceipt(c) PROVE CompositionInv'
<1> DEFINE l == claiming[c]
           o == Judges(c)[l.turn]
<1>1. l \in Lookers /\ l.at = "read" /\ ClaimFits(c)
  BY DEF ReadReceipt, CompositionInv, CompositionTypes, Resters
<1>2. l.turn \in DOMAIN Judges(c) /\ Len(l.heard) = l.turn - 1 /\ Heard(c, l.heard) /\ l.heard \in Seq(Verdicts)
      /\ l.turn \in 1 .. 2
  BY <1>1 DEF ClaimFits, PhaseOf, Lookers
<1>3. o \in Owners
  BY <1>2 DEF Judges, Owners
<1>4. UNCHANGED <<revision, retained, attempts, answered, native>>
  BY DEF ReadReceipt, Go
<1>5. \/ Go(c, Resting("failed"))
      \/ \E r \in retained[o] :
           /\ r.claim = c
           /\ LET heard == Append(l.heard, r.verdict) IN
              Go(c, IF l.turn < Len(Judges(c)) THEN Looking("read", l.turn + 1, heard)
                    ELSE [l EXCEPT !.at = "answer", !.heard = heard])
  BY DEF ReadReceipt
<1>6. ASSUME NEW r \in retained[o], r.claim = c, NEW heard, heard = Append(l.heard, r.verdict),
             Go(c, IF l.turn < Len(Judges(c)) THEN Looking("read", l.turn + 1, heard)
                   ELSE [l EXCEPT !.at = "answer", !.heard = heard])
      PROVE  CompositionInv'
  <2>1. r.verdict \in Verdicts
    BY <1>3, <1>6 DEF CompositionInv, CompositionTypes
  <2>2. Len(l.heard) + 1 = l.turn
    BY <1>2
  <2>3. heard \in Seq(Verdicts) /\ Len(heard) = l.turn /\ Heard(c, heard)
    BY <1>2, <1>6, <2>1, <2>2, HeardOn
  <2>4. Heard(c, heard)'
    BY <1>4, <2>3 DEF Heard, Judges
  <2>5. CASE l.turn < Len(Judges(c))
    <3> DEFINE next == Looking("read", l.turn + 1, heard)
    <3>1. l.turn + 1 \in DOMAIN Judges(c) /\ l.turn + 1 \in 1 .. 2
      BY <1>2, <2>5, JudgesOf
    <3>2. /\ next \in Lookers /\ PhaseOf(next) = "read" /\ next.turn = l.turn + 1 /\ next.heard = heard
          /\ next.at = "look"
      BY <2>3, <3>1 DEF Looking, Lookers, PhaseOf
    <3> HIDE DEF next
    <3>3. ASSUME claiming'[c] = next PROVE ClaimFits(c)'
      BY <1>4, <2>3, <2>4, <3>1, <3>2, <3>3 DEF ClaimFits, Judges
    <3> QED
      BY <1>4, <1>6, <2>5, <3>2, <3>3, QuietKeeps DEF next
  <2>6. CASE ~(l.turn < Len(Judges(c)))
    <3> DEFINE next == [l EXCEPT !.at = "answer", !.heard = heard]
    <3>1. next \in Lookers /\ next.at = "answer" /\ next.heard = heard
      BY <1>1, <2>3 DEF Lookers
    <3>2. Len(heard) = Len(Judges(c))
      BY <1>2, <2>3, <2>6, JudgesOf
    <3> HIDE DEF next
    <3>3. ASSUME claiming'[c] = next PROVE ClaimFits(c)'
      BY <1>4, <2>3, <2>4, <3>1, <3>2, <3>3 DEF ClaimFits, Judges, PhaseOf
    <3> QED
      BY <1>4, <1>6, <2>6, <3>1, <3>3, QuietKeeps DEF next
  <2> QED
    BY <2>5, <2>6
<1> QED
  BY <1>4, <1>5, <1>6, RestsKeep

LEMMA AnswerClaimKeeps ==
  ASSUME CompositionInv, NEW c \in Claims, AnswerClaim(c) PROVE CompositionInv'
<1> DEFINE l == claiming[c]
<1>0. PICK a : a = IF c \in native THEN l.heard ELSE <<aggregateEvaluation(business[c], l.heard[1])>>
  OBVIOUS
<1>1. l \in Lookers /\ l.at = "answer" /\ ClaimFits(c) /\ CompositionTypes
  BY DEF AnswerClaim, CompositionInv, CompositionTypes, Resters
<1>2. Len(l.heard) = Len(Judges(c)) /\ Heard(c, l.heard) /\ l.heard \in Seq(Verdicts)
  BY <1>1 DEF ClaimFits, Lookers
<1>3. UNCHANGED <<revision, retained, attempts, native, business>> /\ Go(c, Resting("done"))
  BY DEF AnswerClaim, Go
<1>4. AnswerFits(c, a)
  <2>1. CASE c \in native
    <3>1. Judges(c) = <<"ontology", "harness">> /\ Len(l.heard) = 2 /\ DOMAIN l.heard = 1 .. 2
      BY <1>2, <2>1, JudgesOf
    <3>2. PICK r \in retained["ontology"] : r.claim = c /\ r.verdict = l.heard[1]
      BY <1>2, <3>1 DEF Heard
    <3>3. PICK s \in retained["harness"] : s.claim = c /\ s.verdict = l.heard[2]
      BY <1>2, <3>1 DEF Heard
    <3>4. l.heard = <<r.verdict, s.verdict>>
      BY <1>2, <3>1, <3>2, <3>3
    <3> QED
      BY <1>0, <2>1, <3>2, <3>3, <3>4 DEF AnswerFits
  <2>2. CASE c \notin native
    <3>1. Judges(c) = <<"harness">> /\ Len(l.heard) = 1 /\ DOMAIN l.heard = 1 .. 1
      BY <1>2, <2>2, JudgesOf
    <3>2. PICK s \in retained["harness"] : s.claim = c /\ s.verdict = l.heard[1]
      BY <1>2, <3>1 DEF Heard
    <3>3. business[c] \in Verdicts /\ l.heard[1] \in Verdicts
      BY <1>1, <1>2, <2>2, <3>1 DEF CompositionTypes
    <3> QED
      BY <1>0, <2>2, <3>2, <3>3, WorstIsAggregate DEF AnswerFits
  <2> QED
    BY <2>1, <2>2
<1>5. AnswerFits(c, a)'
  BY <1>3, <1>4 DEF AnswerFits
<1>6. answered' = [answered EXCEPT ![c] = @ \cup {a}]
  BY <1>0 DEF AnswerClaim
<1>7. answered' = [d \in Claims |-> answered'[d]]
  BY <1>1, <1>6 DEF CompositionTypes
<1>8. \A d \in Claims : \A b \in answered'[d] : b \in answered[d] \/ AnswerFits(d, b)'
  BY <1>1, <1>5, <1>6 DEF CompositionTypes
<1>9. Resting("done") \in Resters /\ (claiming'[c] = Resting("done") => ClaimFits(c)')
  BY RestFits DEF Resting, Resters
<1>10. \A d \in Claims, o \in Owners : attempts[o][d] <= 1
  BY DEF CompositionInv, OneAttempt
<1> QED
  BY <1>1, <1>3, <1>7, <1>8, <1>9, <1>10, GoKeeps DEF CompositionTypes

LEMMA JudgeKeeps ==
  ASSUME CompositionInv, NEW c \in Claims, Judge(c) PROVE CompositionInv'
<1> DEFINE l == claiming[c]
           o == Judges(c)[l.turn]
<1>1. l \in Lookers /\ l.at = "judge" /\ ClaimFits(c) /\ CompositionTypes
  BY DEF Judge, CompositionInv, CompositionTypes, Resters
<1>2. l.turn \in DOMAIN Judges(c) /\ Unasked(c, l.turn) /\ l.turn \in 1 .. 2
  BY <1>1 DEF ClaimFits, PhaseOf, Lookers
<1>3. o \in Owners /\ attempts[o][c] = 0
  BY <1>2 DEF Judges, Owners, Unasked
<1>4. UNCHANGED <<answered, native>> /\ attempts' = [attempts EXCEPT ![o][c] = @ + 1]
  BY DEF Judge, Go
<1>5. /\ attempts' \in [Owners -> [Claims -> Nat]]
      /\ \A w \in Owners, d \in Claims :
           attempts'[w][d] = IF w = o /\ d = c THEN 1 ELSE attempts[w][d]
  BY <1>1, <1>3, <1>4 DEF CompositionTypes
<1>6. /\ \A w \in Owners : attempts'[w][c] <= 1
      /\ \A w \in Owners, d \in Claims \ {c} : attempts'[w][d] = attempts[w][d]
  BY <1>3, <1>5 DEF CompositionInv, OneAttempt
<1>7. /\ answered' = [d \in Claims |-> answered'[d]]
      /\ \A d \in Claims : \A a \in answered'[d] : a \in answered[d]
  BY <1>1, <1>4 DEF CompositionTypes
<1>8. CASE Go(c, Resting("failed")) /\ UNCHANGED <<revision, retained>>
  <2>1. Resting("failed") \in Resters
    BY DEF Resting, Resters
  <2> QED
    BY <1>1, <1>5, <1>6, <1>7, <1>8, <2>1, RestFits, GoKeeps DEF CompositionTypes
<1>9. ASSUME NEW v \in Verdicts,
             revision' = [revision EXCEPT ![o] = @ + 1],
             retained' = [retained EXCEPT ![o] = @ \cup {Report(c, Place(l, o), v)}],
             \/ Go(c, Resting("failed"))
             \/ l.turn < Len(Judges(c)) /\ Go(c, [l EXCEPT !.at = "inspect", !.turn = @ + 1])
             \/ /\ l.turn = Len(Judges(c))
                /\ Go(c, IF c \in aborted THEN Resting("failed")
                         ELSE IF c \in native THEN Looking("read", 1, <<>>)
                         ELSE [l EXCEPT !.at = "answer", !.heard = <<v>>])
      PROVE  CompositionInv'
  <2> DEFINE receipt == Report(c, Place(l, o), v)
  <2>1. receipt.claim = c /\ receipt.verdict = v
    BY DEF Report
  <2> HIDE DEF receipt
  <2>2. /\ retained' = [w \in Owners |-> retained'[w]]
        /\ retained'[o] = retained[o] \cup {receipt} /\ \A w \in Owners \ {o} : retained'[w] = retained[w]
    BY <1>1, <1>3, <1>9 DEF CompositionTypes, receipt
  <2>3. \A w \in Owners : retained[w] \subseteq retained'[w] /\ \A r \in retained'[w] : r.verdict \in Verdicts
    BY <1>1, <2>1, <2>2 DEF CompositionTypes
  <2>4. revision' \in [Owners -> Nat]
    BY <1>1, <1>3, <1>9 DEF CompositionTypes
  <2>5. ASSUME NEW next \in Resters \cup Lookers, Go(c, next), claiming'[c] = next => ClaimFits(c)'
        PROVE  CompositionInv'
    BY <1>5, <1>6, <1>7, <2>2, <2>3, <2>4, <2>5, GoKeeps
  <2>6. CASE Go(c, Resting("failed"))
    BY <2>5, <2>6, RestFits DEF Resting, Resters
  <2>7. CASE l.turn < Len(Judges(c)) /\ Go(c, [l EXCEPT !.at = "inspect", !.turn = @ + 1])
    <3> DEFINE next == [l EXCEPT !.at = "inspect", !.turn = @ + 1]
    <3>1. l.turn = 1 /\ Judges(c) = <<"ontology", "harness">> /\ Len(Judges(c)) = 2
      <4>0. PICK n : n = l.turn
        OBVIOUS
      <4>1. n \in 1 .. 2 /\ n < Len(Judges(c))
        BY <1>2, <2>7, <4>0
      <4>2. c \in native
        BY <4>1, JudgesOf
      <4>3. Len(Judges(c)) = 2 /\ Judges(c) = <<"ontology", "harness">>
        BY <4>2, JudgesOf
      <4> QED
        BY <4>0, <4>1, <4>3
    <3>2. next \in Lookers /\ next.at = "inspect" /\ next.turn = 2
      <4>1. l.turn + 1 = 2 /\ 2 \in 1 .. 2
        BY <3>1
      <4> QED
        BY <1>1, <4>1 DEF Lookers
    <3> HIDE DEF next
    <3>3. attempts["harness"][c] = 0 /\ o = "ontology"
      BY <1>2, <3>1 DEF Unasked
    <3>4. attempts'["harness"][c] = 0
      BY <1>5, <3>3 DEF Owners
    <3>5. Judges(c)' = Judges(c)
      BY <1>4 DEF Judges
    <3>6. ASSUME claiming'[c] = next PROVE ClaimFits(c)'
      BY <3>1, <3>2, <3>4, <3>5, <3>6 DEF ClaimFits, PhaseOf, Unasked
    <3> QED
      BY <2>5, <2>7, <3>2, <3>6 DEF next
  <2>8. CASE c \in native /\ Go(c, Looking("read", 1, <<>>))
    <3>1. Looking("read", 1, <<>>) \in Lookers
      BY DEF Looking, Lookers
    <3> QED
      BY <1>4, <2>5, <2>8, <3>1, ReconcilingFits
  <2>9. CASE c \notin native /\ Go(c, [l EXCEPT !.at = "answer", !.heard = <<v>>])
    <3> DEFINE next == [l EXCEPT !.at = "answer", !.heard = <<v>>]
    <3>1. next \in Lookers /\ next.at = "answer" /\ next.heard = <<v>>
      <4>1. <<v>> \in Seq(Verdicts)
        OBVIOUS
      <4> QED
        BY <1>1, <4>1 DEF Lookers
    <3> HIDE DEF next
    <3>2. Judges(c) = <<"harness">> /\ Len(Judges(c)) = 1 /\ Judges(c)' = Judges(c) /\ o = "harness"
      BY <1>2, <1>4, <2>9, JudgesOf DEF Judges
    <3>3. Heard(c, <<v>>)'
      BY <2>1, <2>2, <3>2 DEF Heard
    <3>4. ASSUME claiming'[c] = next PROVE ClaimFits(c)'
      BY <3>1, <3>2, <3>3, <3>4 DEF ClaimFits, PhaseOf
    <3> QED
      BY <2>5, <2>9, <3>1, <3>4 DEF next
  <2> QED
    BY <1>9, <2>6, <2>7, <2>8, <2>9
<1> QED
  BY <1>8, <1>9 DEF Judge

LEMMA CompositionStep == CompositionInv /\ [CompositionNext]_compositionVars => CompositionInv'
<1> SUFFICES ASSUME CompositionInv, [CompositionNext]_compositionVars PROVE CompositionInv'
  OBVIOUS
<1>1. CASE UNCHANGED compositionVars
  BY <1>1, AroundKeeps DEF compositionVars, CompositionInv, CompositionTypes
<1> QED
  BY <1>1, AroundStepKeeps, ExecuteKeeps, ReconcileKeeps, ClaimFailsKeeps, LookKeeps, InspectOwnerKeeps,
     JudgeKeeps, ReadReceiptKeeps, AnswerClaimKeeps DEF CompositionNext

LEMMA AnswersAre ==
  ASSUME CompositionInv, NEW c \in Claims, NEW a \in answered[c]
  PROVE  \E r \in [ToSet(Judges(c)) -> UNION {retained[o] : o \in Owners}] :
           /\ \A o \in ToSet(Judges(c)) : r[o] \in retained[o] /\ r[o].claim = c
           /\ IF c \in native THEN a = <<r["ontology"].verdict, r["harness"].verdict>>
              ELSE a = <<Worst(business[c], r["harness"].verdict)>>
<1> DEFINE every == UNION {retained[o] : o \in Owners}
<1>1. AnswerFits(c, a)
  BY DEF CompositionInv
<1>2. CASE c \in native
  <2>1. PICK s \in retained["harness"], t \in retained["ontology"] :
          s.claim = c /\ t.claim = c /\ a = <<t.verdict, s.verdict>>
    BY <1>1, <1>2 DEF AnswerFits
  <2> DEFINE r == [o \in ToSet(Judges(c)) |-> IF o = "ontology" THEN t ELSE s]
  <2>2. s \in every /\ t \in every
    BY DEF Owners
  <2>3. ToSet(Judges(c)) = {"ontology", "harness"}
    BY <1>2, JudgesOf
  <2>4. r \in [ToSet(Judges(c)) -> every] /\ r["ontology"] = t /\ r["harness"] = s
    BY <2>2, <2>3
  <2> QED
    BY <1>2, <2>1, <2>3, <2>4
<1>3. CASE c \notin native
  <2>1. PICK s \in retained["harness"] : s.claim = c /\ a = <<Worst(business[c], s.verdict)>>
    BY <1>1, <1>3 DEF AnswerFits
  <2> DEFINE r == [o \in ToSet(Judges(c)) |-> s]
  <2>2. s \in every
    BY DEF Owners
  <2>3. ToSet(Judges(c)) = {"harness"}
    BY <1>3, JudgesOf
  <2>4. r \in [ToSet(Judges(c)) -> every] /\ r["harness"] = s
    BY <2>2, <2>3
  <2> QED
    BY <1>3, <2>1, <2>3, <2>4
<1> QED
  BY <1>2, <1>3

(* Every answer that Runtime gets for a claim is what the owners that judge it retain for
   it, and no owner is asked to judge a claim twice. *)
THEOREM ClaimsAreAnswered == CompositionSpec => []AnsweredAsRetained
<1>1. CompositionInv => AnswersRetained
  BY AnswersAre DEF AnswersRetained
<1>2. CompositionInv => CompositionTypeOK
  BY DEF CompositionInv, CompositionTypes, CompositionTypeOK, Resters, Lookers
<1>3. CompositionInv => AnsweredAsRetained
  BY <1>1, <1>2 DEF CompositionInv, AnsweredAsRetained
<1> QED
  BY <1>3, CompositionInitInv, CompositionStep, PTL DEF CompositionSpec
------------------------------------------------------------------------------
(* Consumption: a request is served with exactly the closure of what it asked for, from
   what it was granted, and it holds one slot as long as it is served. *)
Refusals == {"none", "unavailable", "unauthorized", "limit", "projects", "forbidden", "refused",
             "drift", "timeout", "revoked"}
Turned == [at : {"answered"}, status : Refusals]
Served == [at : {"answered"}, status : {"served"}, operation : Operations, asked : SUBSET Assets,
           read : SUBSET Assets]
Arrived == [at : {"body"}, granted : SUBSET Assets]
Readings == [at : {"visit", "snapshot", "deliver"}, granted : SUBSET Assets, operation : Operations,
             asked : SUBSET Assets, roots : SUBSET Assets, need : SUBSET Assets,
             packages : SUBSET Assets, read : SUBSET Assets]

Alone(operation) == operation \in {"discover", "assessment"}
ClosedUnder(S) == \A a \in S : Depends[a] \subseteq S
Gathered(q) == ((q.read \cup q.roots) \cup q.need) \cup q.packages

(* What a request has read, reads and has still to read is all that it has to, and what
   whoever wants all of it needs; what it has read is closed already. *)
Gathers(q) ==
  IF Alone(q.operation) THEN Gathered(q) = q.asked
  ELSE /\ q.asked \subseteq Gathered(q)
       /\ ClosedUnder(q.read)
       /\ \A a \in q.packages : Depends[a] \subseteq q.packages \cup q.need
       /\ \A S \in SUBSET Assets : q.asked \subseteq S /\ ClosedUnder(S) => Gathered(q) \subseteq S

Rested(q) == q.need = {} /\ q.packages \subseteq q.read

ReadingFits(q) ==
  /\ q \in Readings /\ q.asked \subseteq q.granted /\ Gathers(q)
  /\ q.at # "visit" => Rested(q)
  /\ q.at = "deliver" => q.roots = {}
  /\ q.operation = "assessment" => q.at # "visit"
  /\ q.operation \in ReadsBefore /\ q.at = "snapshot" => q.asked = {} /\ Gathered(q) = {}

ServedFits(q) ==
  /\ q \in Served
  /\ IF Alone(q.operation) THEN q.read = q.asked
     ELSE /\ q.asked \subseteq q.read /\ ClosedUnder(q.read)
          /\ \A S \in SUBSET Assets : q.asked \subseteq S /\ ClosedUnder(S) => q.read \subseteq S

RequestFits(q) == q \in Turned \cup Arrived \/ ReadingFits(q) \/ ServedFits(q)

Authorizations == [is : {"grant"}, assets : SUBSET Assets] \cup [is : {"disabled", "broken"}]
Serving == {r \in Requests : Serves(request[r])}

SlotsFit == IsFiniteSet(Serving) /\ active = Cardinality(Serving) /\ active <= Concurrency

ConsumptionInv ==
  /\ authorization \in Authorizations /\ publications \subseteq Assets
  /\ bucket \in 0 .. RequestsPerMinute + 1
  /\ request = [r \in Requests |-> request[r]]
  /\ \A r \in Requests : RequestFits(request[r])
  /\ SlotsFit

LEMMA ConsumptionInitInv == ConsumptionInit => ConsumptionInv
<1> SUFFICES ASSUME ConsumptionInit PROVE ConsumptionInv
  OBVIOUS
<1>1. \A r \in Requests : request[r] = Answer("none") /\ ~Serves(request[r]) /\ RequestFits(request[r])
  BY DEF ConsumptionInit, Answer, Serves, RequestFits, Turned, Refusals
<1>2. Serving = {}
  BY <1>1 DEF Serving
<1>3. SlotsFit
  BY <1>2, FS_EmptySet, ConsumptionAssumption DEF SlotsFit, ConsumptionInit
<1>4. authorization \in Authorizations
  BY ConsumptionAssumption DEF ConsumptionInit, Authorizations
<1> QED
  BY <1>1, <1>3, <1>4, ConsumptionAssumption DEF ConsumptionInit, ConsumptionInv

(* A closure is begun for each asset that is asked for, until none is left. *)
LEMMA OnwardFits ==
  ASSUME NEW q \in Readings, q.asked \subseteq q.granted, Gathers(q), Rested(q),
         q.operation # "assessment", NEW next \in Onward(q)
  PROVE  ReadingFits(next)
<1>1. CASE q.roots = {}
  <2>1. next = [q EXCEPT !.at = "deliver"]
    BY <1>1 DEF Onward
  <2>2. next \in Readings /\ next.at = "deliver" /\ Gathered(next) = Gathered(q)
        /\ next.asked = q.asked /\ next.granted = q.granted /\ next.operation = q.operation
        /\ next.roots = {} /\ next.read = q.read /\ next.packages = q.packages /\ next.need = q.need
    BY <1>1, <2>1 DEF Readings, Gathered
  <2> QED
    BY <2>2 DEF ReadingFits, Gathers, Rested
<1>2. CASE q.roots # {}
  <2>1. PICK a \in q.roots :
          next = [q EXCEPT !.at = "visit", !.roots = @ \ {a}, !.need = {a}, !.packages = {}]
    BY <1>2 DEF Onward
  <2>2. next \in Readings /\ next.at = "visit"
        /\ next.asked = q.asked /\ next.granted = q.granted /\ next.operation = q.operation
        /\ next.read = q.read /\ next.packages = {} /\ next.need = {a} /\ next.roots = q.roots \ {a}
    BY <2>1 DEF Readings
  <2>3. Gathered(next) = Gathered(q)
    BY <2>1, <2>2 DEF Gathered, Rested
  <2> QED
    BY <2>2, <2>3 DEF ReadingFits, Gathers
<1> QED
  BY <1>1, <1>2

LEMMA AskingFits ==
  ASSUME NEW q, q.granted \in SUBSET Assets, NEW operation \in Operations, NEW roots \in SUBSET Assets,
         roots \subseteq q.granted, operation # "assessment"
  PROVE  \A next \in Onward(Asking(q, operation, roots)) : ReadingFits(next)
<1> DEFINE p == Asking(q, operation, roots)
<1>1. p \in Readings /\ p.asked = roots /\ p.roots = roots /\ p.granted = q.granted /\ p.operation = operation
      /\ p.need = {} /\ p.packages = {} /\ p.read = {}
  BY DEF Asking, Readings
<1> HIDE DEF p
<1>2. Gathers(p) /\ Rested(p)
  BY <1>1 DEF Gathers, Rested, Gathered, ClosedUnder
<1>3. \A next \in Onward(p) : ReadingFits(next)
  BY <1>1, <1>2, OnwardFits
<1> QED
  BY <1>3 DEF p

(* The slots are those of the requests that are served, whatever becomes of one request. *)
LEMMA SlotsKept ==
  ASSUME ConsumptionInv, NEW r \in Requests, NEW next, Becomes(r, next),
         \/ Serves(next) /\ Serves(request[r]) /\ active' = active
         \/ ~Serves(next) /\ ~Serves(request[r]) /\ active' = active
         \/ ~Serves(next) /\ Serves(request[r]) /\ active' = active - 1
         \/ Serves(next) /\ ~Serves(request[r]) /\ active' = active + 1 /\ active < Concurrency
  PROVE  SlotsFit' /\ request' = [s \in Requests |-> request'[s]]
         /\ \A s \in Requests : request'[s] = IF s = r THEN next ELSE request[s]
<1>1. /\ request' = [s \in Requests |-> request'[s]]
      /\ \A s \in Requests : request'[s] = IF s = r THEN next ELSE request[s]
  BY DEF ConsumptionInv, Becomes
<1>2. Serving' = IF Serves(next) THEN Serving \cup {r} ELSE Serving \ {r}
  BY <1>1 DEF Serving, Serves
<1>3. r \in Serving <=> Serves(request[r])
  BY DEF Serving
<1>4. IsFiniteSet(Serving) /\ active = Cardinality(Serving) /\ active \in Nat /\ active <= Concurrency
      /\ Concurrency \in Nat
  BY FS_CardinalityType, ConsumptionAssumption DEF ConsumptionInv, SlotsFit
<1>5. CASE Serves(next) /\ Serves(request[r])
  <2>1. Serving' = Serving
    BY <1>2, <1>3, <1>5
  <2> QED
    BY <1>1, <1>4, <1>5, <2>1 DEF SlotsFit
<1>6. CASE ~Serves(next) /\ ~Serves(request[r])
  <2>1. Serving' = Serving
    BY <1>2, <1>3, <1>6
  <2> QED
    BY <1>1, <1>4, <1>6, <2>1 DEF SlotsFit
<1>7. CASE ~Serves(next) /\ Serves(request[r])
  <2>1. IsFiniteSet(Serving') /\ Cardinality(Serving') = Cardinality(Serving) - 1
    BY <1>2, <1>3, <1>4, <1>7, FS_RemoveElement
  <2> QED
    BY <1>1, <1>4, <1>7, <2>1 DEF SlotsFit
<1>8. CASE Serves(next) /\ ~Serves(request[r])
  <2>1. IsFiniteSet(Serving') /\ Cardinality(Serving') = Cardinality(Serving) + 1
    BY <1>2, <1>3, <1>4, <1>8, FS_AddElement
  <2> QED
    BY <1>1, <1>4, <1>8, <2>1 DEF SlotsFit
<1> QED
  BY <1>5, <1>6, <1>7, <1>8

(* A step that serves a request delivers what is granted at that moment. *)
AsGranted ==
  \A r \in Requests :
    Serves(request[r]) /\ request'[r].at = "answered" /\ request'[r].status = "served" =>
      authorization.is = "grant" /\ request'[r].asked \subseteq authorization.assets
Kept == ConsumptionInv' /\ AsGranted

LEMMA RequestStepKeeps ==
  ASSUME ConsumptionInv, NEW r \in Requests, NEW next, Becomes(r, next), RequestFits(next),
         next.at = "answered" /\ next.status = "served" =>
           authorization.is = "grant" /\ next.asked \subseteq authorization.assets,
         UNCHANGED <<authorization, publications>>,
         bucket' \in 0 .. RequestsPerMinute + 1,
         \/ Serves(next) /\ Serves(request[r]) /\ active' = active
         \/ ~Serves(next) /\ ~Serves(request[r]) /\ active' = active
         \/ ~Serves(next) /\ Serves(request[r]) /\ active' = active - 1
         \/ Serves(next) /\ ~Serves(request[r]) /\ active' = active + 1 /\ active < Concurrency
  PROVE  Kept
<1>1. SlotsFit' /\ request' = [s \in Requests |-> request'[s]]
      /\ \A s \in Requests : request'[s] = IF s = r THEN next ELSE request[s]
  BY SlotsKept
<1>2. \A s \in Requests : RequestFits(request'[s])
  BY <1>1 DEF ConsumptionInv
<1>3. \A s \in Requests : s # r => request'[s] = request[s]
  BY <1>1
<1>4. AsGranted
  BY <1>1, <1>3 DEF AsGranted, Serves
<1> QED
  BY <1>1, <1>2, <1>4 DEF ConsumptionInv, Kept

LEMMA OwnerStepKeeps ==
  ASSUME ConsumptionInv, Reauthorize \/ Minute \/ \E a \in Assets : PublishAsset(a)
  PROVE  Kept
<1>1. UNCHANGED <<active, request>> /\ authorization' \in Authorizations /\ publications' \subseteq Assets
      /\ bucket' \in 0 .. RequestsPerMinute + 1
  BY ConsumptionAssumption
    DEF ConsumptionInv, Reauthorize, Minute, PublishAsset, Authorizations
<1> QED
  BY <1>1 DEF ConsumptionInv, SlotsFit, Serving, Kept, AsGranted, Serves

LEMMA ArriveKeeps ==
  ASSUME ConsumptionInv, NEW r \in Requests, Arrive(r) PROVE Kept
<1> DEFINE body == [at |-> "body", granted |-> authorization.assets]
<1>1. ~Serves(request[r]) /\ UNCHANGED <<authorization, publications>>
      /\ bucket' \in 0 .. RequestsPerMinute + 1
  BY ConsumptionAssumption DEF Arrive, Serves, ConsumptionInv
<1>2. \A status \in Refusals : /\ RequestFits(Answer(status)) /\ ~Serves(Answer(status))
                                /\ Answer(status).status # "served"
  BY DEF Refusals, RequestFits, Answer, Turned, Serves
<1>3. \/ \E status \in {"unavailable", "unauthorized", "limit", "projects"} :
           Becomes(r, Answer(status)) /\ active' = active
      \/ /\ Becomes(r, body) /\ active' = active + 1
         /\ authorization.is \notin {"broken", "disabled"} /\ ~(active >= Concurrency)
  BY DEF Arrive
<1>4. CASE \E status \in {"unavailable", "unauthorized", "limit", "projects"} :
             Becomes(r, Answer(status)) /\ active' = active
  BY <1>1, <1>2, <1>4, RequestStepKeeps DEF Refusals
<1>5. CASE /\ Becomes(r, body) /\ active' = active + 1
           /\ authorization.is \notin {"broken", "disabled"} /\ ~(active >= Concurrency)
  <2>1. RequestFits(body) /\ Serves(body) /\ body.at # "answered"
    BY <1>5 DEF ConsumptionInv, Authorizations, RequestFits, Arrived, Serves
  <2>2. active < Concurrency
    BY <1>5, FS_CardinalityType, ConsumptionAssumption DEF ConsumptionInv, SlotsFit
  <2> QED
    BY <1>1, <1>5, <2>1, <2>2, RequestStepKeeps
<1> QED
  BY <1>3, <1>4, <1>5

LEMMA FinishKeeps ==
  ASSUME ConsumptionInv, NEW r \in Requests, NEW status \in Refusals, Finish(r, status),
         UNCHANGED <<authorization, publications, bucket>>
  PROVE  Kept
<1>1. RequestFits(Answer(status)) /\ ~Serves(Answer(status)) /\ Answer(status).status # "served"
  BY DEF Refusals, RequestFits, Answer, Turned, Serves
<1>2. bucket' \in 0 .. RequestsPerMinute + 1
  BY DEF ConsumptionInv
<1> QED
  BY <1>1, <1>2, RequestStepKeeps DEF Finish

\* A request that goes on reading keeps its slot.
LEMMA ReadingKeeps ==
  ASSUME ConsumptionInv, NEW r \in Requests, NEW next, Serves(request[r]), Becomes(r, next),
         ReadingFits(next), UNCHANGED <<authorization, publications, bucket, active>>
  PROVE  Kept
<1>1. RequestFits(next) /\ Serves(next) /\ next.at # "answered"
  BY DEF RequestFits, ReadingFits, Readings, Serves
<1>2. bucket' \in 0 .. RequestsPerMinute + 1
  BY DEF ConsumptionInv
<1> QED
  BY <1>1, <1>2, RequestStepKeeps

LEMMA FitsBy ==
  ASSUME ConsumptionInv, NEW r \in Requests
  PROVE  /\ request[r].at = "body" => request[r].granted \in SUBSET Assets /\ Serves(request[r])
         /\ request[r].at \in {"visit", "snapshot", "deliver"} => ReadingFits(request[r]) /\ Serves(request[r])
         /\ request[r].at = "answered" => request[r] \in Turned \/ ServedFits(request[r])
  BY DEF ConsumptionInv, RequestFits, Turned, Arrived, ReadingFits, Readings, ServedFits, Served, Serves

LEMMA ParsedKeeps ==
  ASSUME ConsumptionInv, NEW r \in Requests, Parsed(r) PROVE Kept
<1> DEFINE q == request[r]
           Asks(operation, roots) ==
             IF roots \subseteq q.granted
             THEN (\E next \in Onward(Asking(q, operation, roots)) : Becomes(r, next)) /\ UNCHANGED active
             ELSE Finish(r, "forbidden")
<1>1. q.at = "body" /\ UNCHANGED <<authorization, publications, bucket>>
      /\ q.granted \in SUBSET Assets /\ Serves(q)
  BY FitsBy DEF Parsed
<1>2. ASSUME NEW operation \in Operations \ {"assessment"}, NEW roots \in SUBSET Assets, Asks(operation, roots)
      PROVE  Kept
  <2>1. CASE roots \subseteq q.granted
    <3>1. PICK next \in Onward(Asking(q, operation, roots)) : Becomes(r, next) /\ UNCHANGED active
      BY <1>2, <2>1
    <3>2. ReadingFits(next)
      BY <1>1, <2>1, <3>1, AskingFits
    <3> QED
      BY <1>1, <3>1, <3>2, ReadingKeeps
  <2>2. CASE ~(roots \subseteq q.granted)
    BY <1>1, <1>2, <2>2, FinishKeeps DEF Refusals
  <2> QED
    BY <2>1, <2>2
<1>3. ASSUME NEW operation \in ReadsBefore,
             Becomes(r, [Asking(q, operation, {}) EXCEPT !.at = "snapshot"]), UNCHANGED active
      PROVE  Kept
  <2> DEFINE p == [Asking(q, operation, {}) EXCEPT !.at = "snapshot"]
  <2>1. p \in Readings /\ p.asked = {} /\ p.roots = {} /\ p.need = {} /\ p.packages = {} /\ p.read = {}
        /\ p.at = "snapshot" /\ p.granted = q.granted
    BY <1>1 DEF Asking, Readings, ReadsBefore, Operations
  <2>2. ReadingFits(p)
    <3> HIDE DEF p
    <3> QED
      BY <2>1 DEF ReadingFits, Gathers, Gathered, ClosedUnder, Rested
  <2> QED
    BY <1>1, <1>3, <2>2, ReadingKeeps
<1>4. \/ \E page \in SUBSET q.granted : Asks("discover", page)
      \/ \E asset \in Assets, operation \in {"export", "query"} : Asks(operation, {asset})
      \/ \E before \in Assets, after \in Assets : Asks("compare", {before, after})
      \/ \E operation \in ReadsBefore :
           Becomes(r, [Asking(q, operation, {}) EXCEPT !.at = "snapshot"]) /\ UNCHANGED active
  BY DEF Parsed
<1> HIDE DEF Asks
<1>5. CASE \E page \in SUBSET q.granted : Asks("discover", page)
  BY <1>1, <1>2, <1>5 DEF Operations
<1>6. CASE \E asset \in Assets, operation \in {"export", "query"} : Asks(operation, {asset})
  BY <1>2, <1>6 DEF Operations
<1>7. CASE \E before \in Assets, after \in Assets : Asks("compare", {before, after})
  BY <1>2, <1>7 DEF Operations
<1> QED
  BY <1>3, <1>4, <1>5, <1>6, <1>7

\* What a request holds once a package is read.
Holding(q, packages, need) ==
  [q EXCEPT !.packages = packages, !.need = need, !.read = IF need = {} THEN @ \cup packages ELSE @]

\* A package joins those that have been read, what it depends on those that are needed.
LEMMA PackageFits ==
  ASSUME NEW q, ReadingFits(q), q.at = "visit", NEW a \in q.need, NEW packages, NEW need,
         packages = q.packages \cup {a},
         need = (q.need \cup (IF q.operation = "discover" THEN {} ELSE Depends[a])) \ packages
  PROVE  LET now == Holding(q, packages, need) IN
         /\ now \in Readings /\ now.asked \subseteq now.granted /\ Gathers(now)
         /\ now.need = need /\ now.roots = q.roots /\ now.operation = q.operation /\ now.at = q.at
         /\ need = {} => Rested(now)
<1> DEFINE now == Holding(q, packages, need)
<1>1. q \in Readings /\ a \in Assets /\ Depends[a] \subseteq Assets /\ packages \subseteq Assets
      /\ need \subseteq Assets
  BY ConsumptionAssumption DEF ReadingFits, Readings
<1>2. /\ now \in Readings /\ now.asked = q.asked /\ now.granted = q.granted /\ now.need = need
      /\ now.packages = packages /\ now.roots = q.roots /\ now.operation = q.operation /\ now.at = q.at
      /\ now.read = IF need = {} THEN q.read \cup packages ELSE q.read
  BY <1>1 DEF Readings, Holding
<1> HIDE DEF now
<1>3. CASE Alone(q.operation)
  <2>1. q.operation = "discover"
    BY <1>3 DEF ReadingFits, Alone
  <2>2. need = q.need \ packages
    BY <2>1
  <2>3. Gathered(now) = Gathered(q)
    BY <1>2, <2>2 DEF Gathered
  <2> QED
    BY <1>2, <1>3, <2>3 DEF ReadingFits, Gathers, Rested, now
<1>4. CASE ~Alone(q.operation)
  <2>1. need = (q.need \cup Depends[a]) \ packages
    BY <1>4 DEF Alone
  <2>2. Gathered(now) = Gathered(q) \cup Depends[a]
    BY <1>2, <2>1 DEF Gathered
  <2>3. \A b \in packages : Depends[b] \subseteq packages \cup need
    BY <1>4, <2>1 DEF ReadingFits, Gathers
  <2>4. ClosedUnder(now.read)
    BY <1>2, <1>4, <2>3 DEF ReadingFits, Gathers, ClosedUnder
  <2>5. ASSUME NEW S \in SUBSET Assets, q.asked \subseteq S, ClosedUnder(S) PROVE Gathered(now) \subseteq S
    <3>1. Gathered(q) \subseteq S /\ a \in Gathered(q)
      BY <1>4, <2>5 DEF ReadingFits, Gathers, Gathered
    <3> QED
      BY <2>2, <2>5, <3>1 DEF ClosedUnder
  <2>6. Gathers(now)
    BY <1>2, <1>4, <2>2, <2>3, <2>4, <2>5 DEF ReadingFits, Gathers
  <2> QED
    BY <1>2, <2>6 DEF ReadingFits, Rested, now
<1> QED
  BY <1>3, <1>4

LEMMA VisitKeeps ==
  ASSUME ConsumptionInv, NEW r \in Requests, Visit(r) PROVE Kept
<1> DEFINE q == request[r]
<1>1. q.at = "visit" /\ ReadingFits(q) /\ Serves(q) /\ UNCHANGED <<authorization, publications, bucket>>
  BY FitsBy DEF Visit
<1>2. CASE Finish(r, "unavailable")
  BY <1>1, <1>2, FinishKeeps DEF Refusals
<1>3. ASSUME NEW a \in q.need, NEW packages, NEW need, UNCHANGED active,
             packages = q.packages \cup {a},
             need = (q.need \cup (IF q.operation = "discover" THEN {} ELSE Depends[a])) \ packages,
             Have(r, q, packages, need)
      PROVE  Kept
  <2> DEFINE now == Holding(q, packages, need)
  <2>1. /\ now \in Readings /\ now.asked \subseteq now.granted /\ Gathers(now)
        /\ now.need = need /\ now.roots = q.roots /\ now.operation = q.operation /\ now.at = "visit"
        /\ need = {} => Rested(now)
    BY <1>1, <1>3, PackageFits
  <2>2. q.operation # "assessment"
    BY <1>1 DEF ReadingFits
  <2>3. \/ need # {} /\ Becomes(r, now)
        \/ need = {} /\ q.operation \in ReadsAfter /\ Becomes(r, [now EXCEPT !.at = "snapshot"])
        \/ need = {} /\ \E next \in Onward(now) : Becomes(r, next)
    BY <1>3 DEF Have, Holding
  <2> HIDE DEF now
  <2>4. CASE need # {} /\ Becomes(r, now)
    <3>1. ReadingFits(now)
      BY <2>1, <2>2, <2>4 DEF ReadingFits
    <3> QED
      BY <1>1, <1>3, <2>4, <3>1, ReadingKeeps
  <2>5. CASE need = {} /\ q.operation \in ReadsAfter /\ Becomes(r, [now EXCEPT !.at = "snapshot"])
    <3> DEFINE next == [now EXCEPT !.at = "snapshot"]
    <3>1. /\ next \in Readings /\ next.at = "snapshot" /\ next.asked = now.asked /\ next.granted = now.granted
          /\ next.operation = now.operation /\ next.need = now.need /\ next.packages = now.packages
          /\ next.read = now.read /\ next.roots = now.roots
      BY <2>1 DEF Readings
    <3> HIDE DEF next
    <3>2. ReadingFits(next)
      BY <2>1, <2>2, <2>5, <3>1 DEF ReadingFits, Gathers, Gathered, Rested, ReadsAfter, ReadsBefore
    <3> QED
      BY <1>1, <1>3, <2>5, <3>2, ReadingKeeps DEF next
  <2>6. CASE need = {} /\ \E next \in Onward(now) : Becomes(r, next)
    <3>1. PICK next \in Onward(now) : Becomes(r, next)
      BY <2>6
    <3>2. ReadingFits(next)
      BY <2>1, <2>2, <2>6, <3>1, OnwardFits
    <3> QED
      BY <1>1, <1>3, <3>1, <3>2, ReadingKeeps
  <2> QED
    BY <2>3, <2>4, <2>5, <2>6
<1>4. \/ Finish(r, "unavailable")
      \/ /\ UNCHANGED active
         /\ \E a \in q.need :
              Have(r, q, q.packages \cup {a},
                   (q.need \cup (IF q.operation = "discover" THEN {} ELSE Depends[a])) \ (q.packages \cup {a}))
  BY DEF Visit
<1> QED
  BY <1>2, <1>3, <1>4

LEMMA SnapshotKeeps ==
  ASSUME ConsumptionInv, NEW r \in Requests, Snapshot(r) PROVE Kept
<1> DEFINE q == request[r]
<1>1. q.at = "snapshot" /\ ReadingFits(q) /\ Serves(q) /\ UNCHANGED <<authorization, publications, bucket>>
  BY FitsBy DEF Snapshot
<1>2. q \in Readings /\ q.granted \in SUBSET Assets
  BY <1>1 DEF ReadingFits, Readings
<1>3. CASE Finish(r, "drift") \/ Finish(r, "forbidden")
  BY <1>1, <1>3, FinishKeeps DEF Refusals
<1>4. ASSUME q.operation \in ReadsAfter, NEW next \in Onward(q), Becomes(r, next), UNCHANGED active
      PROVE  Kept
  <2>1. ReadingFits(next)
    BY <1>1, <1>4, OnwardFits DEF ReadingFits, ReadsAfter
  <2> QED
    BY <1>1, <1>4, <2>1, ReadingKeeps
<1>5. ASSUME q.operation = "assessment", NEW reference \in q.granted, UNCHANGED active,
             Becomes(r, [q EXCEPT !.at = "deliver", !.asked = {reference}, !.read = {reference}])
      PROVE  Kept
  <2> DEFINE next == [q EXCEPT !.at = "deliver", !.asked = {reference}, !.read = {reference}]
  <2>1. /\ next \in Readings /\ next.at = "deliver" /\ next.asked = {reference} /\ next.granted = q.granted
        /\ next.operation = q.operation /\ next.need = q.need /\ next.packages = q.packages
        /\ next.read = {reference} /\ next.roots = q.roots
    BY <1>2, <1>5 DEF Readings
  <2> HIDE DEF next
  <2>2. q.need = {} /\ q.packages = {} /\ q.roots = {}
    BY <1>1, <1>5 DEF ReadingFits, Gathered, ReadsBefore
  <2>3. ReadingFits(next)
    BY <1>2, <1>5, <2>1, <2>2 DEF ReadingFits, Gathers, Gathered, Rested, Alone
  <2> QED
    BY <1>1, <1>5, <2>3, ReadingKeeps DEF next
<1>6. ASSUME NEW named \in SUBSET Assets, named \subseteq q.granted, UNCHANGED active,
             NEW next \in Onward(Asking(q, "specification", named)), Becomes(r, next)
      PROVE  Kept
  <2>1. ReadingFits(next)
    BY <1>2, <1>6, AskingFits DEF Operations
  <2> QED
    BY <1>1, <1>6, <2>1, ReadingKeeps
<1> QED
  BY <1>3, <1>4, <1>5, <1>6 DEF Snapshot

LEMMA DeliverServes ==
  ASSUME ConsumptionInv, NEW r \in Requests, request[r].at = "deliver", Serve(r)
  PROVE  LET next == [at |-> "answered", status |-> "served", operation |-> request[r].operation,
                      asked |-> request[r].asked, read |-> request[r].read] IN
         ServedFits(next) /\ ~Serves(next)
<1> DEFINE q == request[r]
           next == [at |-> "answered", status |-> "served", operation |-> q.operation,
                    asked |-> q.asked, read |-> q.read]
<1>1. ReadingFits(q)
  BY FitsBy
<1>2. Gathered(q) = q.read /\ q \in Readings
  BY <1>1 DEF ReadingFits, Gathered, Rested
<1>3. next \in Served /\ next.operation = q.operation /\ next.asked = q.asked /\ next.read = q.read
      /\ next.at = "answered"
  BY <1>2 DEF Served, Readings
<1> HIDE DEF next
<1>4. ServedFits(next) /\ ~Serves(next)
  BY <1>1, <1>2, <1>3 DEF ServedFits, ReadingFits, Gathers, Serves
<1> QED
  BY <1>4 DEF next

LEMMA DeliverKeeps ==
  ASSUME ConsumptionInv, NEW r \in Requests, Deliver(r) PROVE Kept
<1>1. request[r].at = "deliver" /\ Serves(request[r]) /\ UNCHANGED <<authorization, publications, bucket>>
  BY DEF Deliver, Serves
<1>2. CASE Finish(r, "revoked")
  BY <1>1, <1>2, FinishKeeps DEF Refusals
<1>3. CASE Serve(r) /\ authorization = [is |-> "grant", assets |-> request[r].granted]
  <2> DEFINE next == [at |-> "answered", status |-> "served", operation |-> request[r].operation,
                      asked |-> request[r].asked, read |-> request[r].read]
  <2>1. RequestFits(next) /\ ~Serves(next)
    BY <1>1, <1>3, DeliverServes DEF RequestFits
  <2>2. Becomes(r, next) /\ active' = active - 1
    BY <1>3 DEF Serve
  <2>3. next.asked \subseteq authorization.assets /\ authorization.is = "grant"
    BY <1>1, <1>3, FitsBy DEF ReadingFits
  <2>4. bucket' \in 0 .. RequestsPerMinute + 1
    BY <1>1 DEF ConsumptionInv
  <2> HIDE DEF next
  <2> QED
    BY <1>1, <2>1, <2>2, <2>3, <2>4, RequestStepKeeps
<1> QED
  BY <1>2, <1>3 DEF Deliver

LEMMA ConsumptionStep == ConsumptionInv /\ [ConsumptionNext]_consumptionVars => Kept
<1> SUFFICES ASSUME ConsumptionInv, [ConsumptionNext]_consumptionVars PROVE Kept
  OBVIOUS
<1>1. CASE UNCHANGED consumptionVars
  BY <1>1 DEF consumptionVars, ConsumptionInv, SlotsFit, Serving, Kept, AsGranted, Serves
<1>2. CASE Reauthorize \/ Minute \/ \E a \in Assets : PublishAsset(a)
  BY <1>2, OwnerStepKeeps
<1>3. ASSUME NEW r \in Requests, BodyFails(r) \/ ReadTimesOut(r) PROVE Kept
  BY <1>3, FinishKeeps DEF BodyFails, ReadTimesOut, Refusals
<1> QED
  BY <1>1, <1>2, <1>3, ArriveKeeps, ParsedKeeps, VisitKeeps, SnapshotKeeps, DeliverKeeps DEF ConsumptionNext

LEMMA ConsumptionInvImplies == ConsumptionInv => DeliveredWhole /\ SlotsReturned /\ ConsumptionTypeOK
<1> SUFFICES ASSUME ConsumptionInv PROVE DeliveredWhole /\ SlotsReturned /\ ConsumptionTypeOK
  OBVIOUS
<1>1. ASSUME NEW r \in Requests, request[r].at = "answered", request[r].status = "served"
      PROVE  ServedFits(request[r])
  BY <1>1, FitsBy DEF Turned, Refusals
<1>2. ASSUME NEW q, ServedFits(q), ~(q.operation \in {"discover", "assessment"})
      PROVE  /\ q.asked \subseteq q.read /\ ClosedUnder(q.read)
             /\ \A s \in SUBSET q.read : q.asked \subseteq s /\ ClosedUnder(s) => s = q.read
  BY <1>2 DEF ServedFits, Served, Alone
<1>3. DeliveredWhole
  BY <1>1, <1>2 DEF DeliveredWhole, ServedFits, Alone, ClosedUnder
<1>4. SlotsReturned
  BY DEF ConsumptionInv, SlotsFit, Serving, SlotsReturned
<1>5. \A r \in Requests : Serves(request[r]) \/ request[r].at = "answered"
  BY DEF ConsumptionInv, RequestFits, Turned, Arrived, ReadingFits, Readings, ServedFits, Served, Serves
<1>6. ConsumptionTypeOK
  BY <1>5 DEF ConsumptionInv, ConsumptionTypeOK, Authorizations
<1> QED
  BY <1>3, <1>4, <1>6

(* A request is served with an asset and all that it depends on and nothing else, only if
   that is granted at that moment, and the slots taken are those of the requests served. *)
THEOREM AssetsAreDelivered == ConsumptionSpec => Delivered
<1>1. ConsumptionInv /\ [ConsumptionNext]_consumptionVars =>
        [\A r \in Requests :
           Serves(request[r]) /\ request'[r].at = "answered" /\ request'[r].status = "served" =>
             authorization.is = "grant" /\ request'[r].asked \subseteq authorization.assets]_consumptionVars
  BY ConsumptionStep DEF Kept, AsGranted
<1>2. ConsumptionInv /\ [ConsumptionNext]_consumptionVars => ConsumptionInv'
  BY ConsumptionStep DEF Kept
<1> QED
  BY <1>1, <1>2, ConsumptionInitInv, ConsumptionInvImplies, PTL
    DEF ConsumptionSpec, Delivered, DeliveredAsGranted
------------------------------------------------------------------------------
(* Archive: when a reader has come to a block, it holds the nearest header of the next
   member, the nearest one for all, and just the members that the blocks before it make. *)
OwnHeaders(n) == {j \in 1 .. n - 1 : archive[j].type = "x" /\ \A k \in j .. n - 1 : k \notin Members}
AllHeaders(n) == {j \in 1 .. n - 1 : archive[j].type = "g" /\ archive[j].path # Unnamed}
MemberAt(i) == [path |-> PathOf(i), block |-> i]
MembersBefore(n) == {MemberAt(i) : i \in {j \in Members : j < n}}
Fresh(paths) == (\A m \in paths : m.path # Unnamed) /\ \A m, o \in paths : m.path = o.path => m = o

ArchiveFits ==
  /\ \E n \in 0 .. MaxBlocks : archive \in [1 .. n -> Blocks]
  /\ \A i \in DOMAIN archive : archive[i].type \in Types

ReaderFits ==
  /\ unpacking = [by |-> unpacking.by, next |-> unpacking.next, extended |-> unpacking.extended,
                  headed |-> unpacking.headed, global |-> unpacking.global, members |-> unpacking.members]
  /\ unpacking.next \in Nat \ {0} /\ \A j \in 1 .. unpacking.next - 1 : j \in DOMAIN archive
  /\ unpacking.extended = Nearest(OwnHeaders(unpacking.next))
  /\ unpacking.global = Nearest(AllHeaders(unpacking.next))
  /\ unpacking.members = MembersBefore(unpacking.next) /\ Fresh(unpacking.members)
  /\ unpacking.by = "strict" =>
       /\ unpacking.headed <=> OwnHeaders(unpacking.next) # {}
       /\ \A j \in 1 .. unpacking.next - 1 : archive[j].type \in {"x", "0"}
  /\ unpacking.by = "toolchain" =>
       \A j \in 1 .. unpacking.next - 1 : archive[j].type \in {"x", "g", "0", "2", "5"}

\* What the strict reader accepts is of files alone.
StrictFits ==
  \/ strict \in {Pending, Refused}
  \/ /\ strict = [is |-> "accepted", members |-> Written]
     /\ Fresh(Written) /\ Members # {}
     /\ \A i \in DOMAIN archive : (\A j \in 1 .. i : archive[j].type # "zero") => archive[i].type \in {"x", "0"}

OutcomeFits ==
  \/ unpacking = [by |-> "done", outcome |-> Refused] /\ strict \in {Pending, Refused}
  \/ unpacking = [by |-> "done", outcome |-> [is |-> "accepted", members |-> Written]] /\ Fresh(Written)

ArchiveInv ==
  /\ ArchiveFits /\ StrictFits
  /\ \/ unpacking.by \in {"strict", "toolchain"} /\ ReaderFits
     \/ OutcomeFits

LEMMA PathIs ==
  ASSUME NEW i
  PROVE  PathOf(i) = FirstNamed(<<Nearest(OwnHeaders(i)), Nearest(AllHeaders(i)), archive[i].path>>)
  BY DEF PathOf, OwnHeaders, AllHeaders

LEMMA StartFits ==
  ASSUME ArchiveFits, NEW by \in {"strict", "toolchain"}, unpacking = StartBy(by)
  PROVE  ReaderFits /\ unpacking.by = by
<1>1. /\ unpacking.next = 1 /\ unpacking.by = by /\ unpacking.extended = Unnamed /\ unpacking.global = Unnamed
      /\ unpacking.headed = FALSE /\ unpacking.members = {}
      /\ unpacking = [by |-> unpacking.by, next |-> unpacking.next, extended |-> unpacking.extended,
                      headed |-> unpacking.headed, global |-> unpacking.global, members |-> unpacking.members]
  BY DEF StartBy
<1>2. OwnHeaders(1) = {} /\ AllHeaders(1) = {}
  BY DEF OwnHeaders, AllHeaders
<1>3. MembersBefore(1) = {}
  <2>1. \A j \in Members : ~(j < 1)
    BY DEF Members, ArchiveFits
  <2> QED
    BY <2>1 DEF MembersBefore
<1> QED
  BY <1>1, <1>2, <1>3 DEF ReaderFits, Nearest, Fresh

LEMMA NewestHeader ==
  ASSUME NEW S, NEW n \in Nat, \A j \in S : j \in Nat /\ j < n
  PROVE  Nearest(S \cup {n}) = archive[n].path
<1> DEFINE T == S \cup {n}
<1>1. n \in T /\ \A j \in T : n >= j
  OBVIOUS
<1>2. \A m \in T : (\A j \in T : m >= j) => m = n
  OBVIOUS
<1> HIDE DEF T
<1>3. Max(T) = n
  BY <1>1, <1>2 DEF Max
<1> QED
  BY <1>1, <1>3 DEF Nearest, T

\* What one more block does to the headers and the members before the next one.
LEMMA HeaderPasses ==
  ASSUME ArchiveFits, NEW n \in DOMAIN archive, archive[n].type = "x"
  PROVE  /\ Nearest(OwnHeaders(n + 1)) = archive[n].path /\ OwnHeaders(n + 1) # {}
         /\ AllHeaders(n + 1) = AllHeaders(n) /\ MembersBefore(n + 1) = MembersBefore(n)
<1>1. n \in Nat \ {0} /\ n \notin Members /\ Members \subseteq Nat
  BY DEF ArchiveFits, Members
<1>2. OwnHeaders(n + 1) = OwnHeaders(n) \cup {n}
  BY <1>1 DEF OwnHeaders
<1>3. \A j \in OwnHeaders(n) : j \in Nat /\ j < n
  BY <1>1 DEF OwnHeaders
<1>4. AllHeaders(n + 1) = AllHeaders(n)
  BY <1>1 DEF AllHeaders
<1>5. {j \in Members : j < n + 1} = {j \in Members : j < n}
  <2>1. \A j \in Nat : j # n => (j < n + 1 <=> j < n)
    BY <1>1
  <2>2. \A j \in Members : j \in Nat /\ j # n
    BY <1>1
  <2> QED
    BY <2>1, <2>2
<1>6. MembersBefore(n + 1) = MembersBefore(n)
  BY <1>5 DEF MembersBefore
<1> QED
  BY <1>1, <1>2, <1>3, <1>4, <1>6, NewestHeader

LEMMA GlobalPasses ==
  ASSUME ArchiveFits, NEW n \in DOMAIN archive, archive[n].type = "g"
  PROVE  /\ OwnHeaders(n + 1) = OwnHeaders(n) /\ MembersBefore(n + 1) = MembersBefore(n)
         /\ Nearest(AllHeaders(n + 1)) =
              IF archive[n].path # Unnamed THEN archive[n].path ELSE Nearest(AllHeaders(n))
<1>1. n \in Nat \ {0} /\ n \notin Members /\ Members \subseteq Nat
  BY DEF ArchiveFits, Members
<1>2. OwnHeaders(n + 1) = OwnHeaders(n)
  BY <1>1 DEF OwnHeaders
<1>3. AllHeaders(n + 1) = IF archive[n].path # Unnamed THEN AllHeaders(n) \cup {n} ELSE AllHeaders(n)
  BY <1>1 DEF AllHeaders
<1>4. \A j \in AllHeaders(n) : j \in Nat /\ j < n
  BY <1>1 DEF AllHeaders
<1>5. {j \in Members : j < n + 1} = {j \in Members : j < n}
  <2>1. \A j \in Nat : j # n => (j < n + 1 <=> j < n)
    BY <1>1
  <2>2. \A j \in Members : j \in Nat /\ j # n
    BY <1>1
  <2> QED
    BY <2>1, <2>2
<1>6. MembersBefore(n + 1) = MembersBefore(n)
  BY <1>5 DEF MembersBefore
<1> QED
  BY <1>1, <1>2, <1>3, <1>4, <1>6, NewestHeader

LEMMA MemberPasses ==
  ASSUME ArchiveFits, NEW n \in Members
  PROVE  /\ OwnHeaders(n + 1) = {} /\ AllHeaders(n + 1) = AllHeaders(n)
         /\ MembersBefore(n + 1) = MembersBefore(n) \cup {MemberAt(n)}
<1>1. n \in Nat \ {0} /\ n \in DOMAIN archive /\ archive[n].type # "g" /\ Members \subseteq Nat
  BY DEF ArchiveFits, Members
<1>2. OwnHeaders(n + 1) = {}
  BY <1>1 DEF OwnHeaders
<1>3. AllHeaders(n + 1) = AllHeaders(n)
  BY <1>1 DEF AllHeaders
<1>4. {j \in Members : j < n + 1} = {j \in Members : j < n} \cup {n}
  <2>1. \A j \in Nat : j < n + 1 <=> j < n \/ j = n
    BY <1>1
  <2>2. \A j \in Members : j \in Nat
    BY <1>1
  <2> QED
    BY <2>1, <2>2
<1>5. MembersBefore(n + 1) = MembersBefore(n) \cup {MemberAt(n)}
  BY <1>4 DEF MembersBefore
<1> QED
  BY <1>2, <1>3, <1>5

LEMMA EndPasses ==
  ASSUME ArchiveFits, NEW n \in Nat \ {0}, \A j \in 1 .. n - 1 : j \in DOMAIN archive,
         n \notin DOMAIN archive \/ archive[n].type = "zero"
  PROVE  MembersBefore(n) = Written
<1>1. \A j \in Members : j \in Nat /\ j < n
  BY DEF ArchiveFits, Members
<1>2. {j \in Members : j < n} = Members
  BY <1>1
<1> QED
  BY <1>2 DEF MembersBefore, Written, MemberAt

LEMMA FirstOf ==
  ASSUME NEW a, NEW b, NEW c
  PROVE  /\ FirstNamed(<<a, b, c>>) = IF a # Unnamed THEN a ELSE IF b # Unnamed THEN b ELSE c
         /\ FirstNamed(<<a, b>>) = IF a # Unnamed THEN a ELSE b
<1>1. FirstNamed(<<a, b>>) = IF a # Unnamed THEN a ELSE b
  <2> DEFINE p == <<a, b>>
             named == {i \in DOMAIN p : p[i] # Unnamed}
  <2>1. DOMAIN p = {1, 2} /\ p[1] = a /\ p[2] = b
    OBVIOUS
  <2>2. CASE a # Unnamed
    <3>1. 1 \in named /\ \A i \in named : 1 =< i
      BY <2>1, <2>2
    <3>2. \A m \in named : (\A i \in named : m =< i) => m = 1
      BY <2>1, <2>2
    <3>3. Min(named) = 1
      <4> HIDE DEF named
      <4> QED
        BY <3>1, <3>2 DEF Min
    <3> QED
      BY <2>2, <3>1, <3>3 DEF FirstNamed
  <2>3. CASE a = Unnamed /\ b # Unnamed
    <3>1. named = {2}
      BY <2>1, <2>3
    <3>2. Min({2}) = 2
      BY DEF Min
    <3> QED
      BY <2>3, <3>1, <3>2 DEF FirstNamed
  <2>4. CASE a = Unnamed /\ b = Unnamed
    <3>1. named = {}
      BY <2>1, <2>4
    <3> QED
      BY <2>4, <3>1 DEF FirstNamed
  <2> QED
    BY <2>2, <2>3, <2>4
<1>2. FirstNamed(<<a, b, c>>) = IF a # Unnamed THEN a ELSE IF b # Unnamed THEN b ELSE c
  <2> DEFINE p == <<a, b, c>>
             named == {i \in DOMAIN p : p[i] # Unnamed}
  <2>1. DOMAIN p = {1, 2, 3} /\ p[1] = a /\ p[2] = b /\ p[3] = c
    OBVIOUS
  <2>2. CASE a # Unnamed
    <3>1. 1 \in named /\ \A i \in named : 1 =< i
      BY <2>1, <2>2
    <3>2. \A m \in named : (\A i \in named : m =< i) => m = 1
      BY <2>1, <2>2
    <3>3. Min(named) = 1
      <4> HIDE DEF named
      <4> QED
        BY <3>1, <3>2 DEF Min
    <3> QED
      BY <2>2, <3>1, <3>3 DEF FirstNamed
  <2>3. CASE a = Unnamed /\ b # Unnamed
    <3>1. 2 \in named /\ \A i \in named : 2 =< i
      BY <2>1, <2>3
    <3>2. \A m \in named : (\A i \in named : m =< i) => m = 2
      BY <2>1, <2>3
    <3>3. Min(named) = 2
      <4> HIDE DEF named
      <4> QED
        BY <3>1, <3>2 DEF Min
    <3> QED
      BY <2>3, <3>1, <3>3 DEF FirstNamed
  <2>4. CASE a = Unnamed /\ b = Unnamed /\ c # Unnamed
    <3>1. named = {3}
      BY <2>1, <2>4
    <3>2. Min({3}) = 3
      BY DEF Min
    <3> QED
      BY <2>4, <3>1, <3>2 DEF FirstNamed
  <2>5. CASE a = Unnamed /\ b = Unnamed /\ c = Unnamed
    <3>1. named = {}
      BY <2>1, <2>5
    <3> QED
      BY <2>5, <3>1 DEF FirstNamed
  <2> QED
    BY <2>2, <2>3, <2>4, <2>5
<1> QED
  BY <1>1, <1>2

LEMMA ArchiveInitInv == ArchiveInit => ArchiveInv
<1> SUFFICES ASSUME ArchiveInit PROVE ArchiveInv
  OBVIOUS
<1>1. ArchiveFits
  <2>1. PICK n \in 0 .. MaxBlocks : archive \in [1 .. n -> Blocks]
    BY DEF ArchiveInit
  <2>2. \A i \in DOMAIN archive : archive[i].type \in Types
    BY <2>1, ArchiveAssumption
  <2> QED
    BY <2>1, <2>2 DEF ArchiveFits
<1>2. ReaderFits /\ unpacking.by = "strict"
  BY <1>1, StartFits DEF ArchiveInit
<1> QED
  BY <1>1, <1>2 DEF ArchiveInit, ArchiveInv, StrictFits

\* Nothing else than what the reader is at can be changed by a step of it.
LEMMA ArchiveStays ==
  ASSUME ArchiveFits, archive' = archive
  PROVE  /\ ArchiveFits' /\ Members' = Members /\ Written' = Written
         /\ \A n : OwnHeaders(n)' = OwnHeaders(n) /\ AllHeaders(n)' = AllHeaders(n)
                   /\ MembersBefore(n)' = MembersBefore(n)
         /\ \A S : Nearest(S)' = Nearest(S)
         /\ StrictFits /\ strict' = strict => StrictFits'
<1>1. ArchiveFits'
  BY DEF ArchiveFits
<1>2. Members' = Members
  BY DEF Members
<1>3. \A S : Nearest(S)' = Nearest(S)
  BY DEF Nearest
<1>4. \A n : OwnHeaders(n)' = OwnHeaders(n) /\ AllHeaders(n)' = AllHeaders(n)
  BY <1>2 DEF OwnHeaders, AllHeaders
<1>5. \A i : PathOf(i)' = PathOf(i)
  BY <1>2 DEF PathOf, Nearest
<1>6. Written' = Written /\ \A n : MembersBefore(n)' = MembersBefore(n)
  BY <1>2, <1>5 DEF Written, MembersBefore, MemberAt
<1>7. StrictFits /\ strict' = strict => StrictFits'
  BY <1>2, <1>6 DEF StrictFits
<1> QED
  BY <1>1, <1>2, <1>3, <1>4, <1>6, <1>7

LEMMA AtBlock ==
  ASSUME ArchiveInv, NEW by \in {"strict", "toolchain"}, NEW types, At(by, types)
  PROVE  /\ ArchiveFits /\ StrictFits /\ ReaderFits /\ unpacking.by = by
         /\ unpacking.next \in DOMAIN archive /\ archive[unpacking.next].type \in types
         /\ Block = archive[unpacking.next] /\ unpacking.next \in Nat \ {0}
  BY DEF At, Block, ArchiveInv, OutcomeFits, ReaderFits

LEMMA PrefixGrows ==
  ASSUME NEW n \in Nat \ {0}, NEW P, \A j \in 1 .. n - 1 : j \in P, n \in P
  PROVE  n + 1 \in Nat \ {0} /\ \A j \in 1 .. (n + 1) - 1 : j \in P
  OBVIOUS

\* The next block is a member if it may be one: no zeroes came before it.
LEMMA IsMember ==
  ASSUME ReaderFits, ArchiveFits, unpacking.by \in {"strict", "toolchain"},
         unpacking.next \in DOMAIN archive, archive[unpacking.next].type \in {"0", "2", "5"}
  PROVE  unpacking.next \in Members
<1> DEFINE n == unpacking.next
<1>1. \A j \in 1 .. n - 1 : archive[j].type # "zero"
  BY DEF ReaderFits
<1>2. \A j \in 1 .. n : archive[j].type # "zero"
  BY <1>1 DEF ReaderFits
<1> QED
  BY <1>2 DEF Members

\* The reader goes on behind its block, with what that block makes of what it holds.
LEMMA PassesKeep ==
  ASSUME ArchiveInv, NEW by \in {"strict", "toolchain"}, NEW types, At(by, types),
         types \subseteq {"x", "g", "0", "2", "5"}, by = "strict" => types \subseteq {"x", "0"},
         NEW n, n = unpacking.next, NEW extended, NEW headed, NEW global, NEW members,
         extended = Nearest(OwnHeaders(n + 1)), global = Nearest(AllHeaders(n + 1)),
         members = MembersBefore(n + 1), Fresh(members),
         by = "strict" => (headed <=> OwnHeaders(n + 1) # {}),
         unpacking' = [by |-> by, next |-> n + 1, extended |-> extended, headed |-> headed,
                       global |-> global, members |-> members],
         archive' = archive, strict' = strict
  PROVE  ArchiveInv'
<1>1. /\ ArchiveFits /\ StrictFits /\ ReaderFits /\ unpacking.by = by /\ n \in DOMAIN archive
      /\ archive[n].type \in types /\ n \in Nat \ {0}
  BY AtBlock
<1>2. n + 1 \in Nat \ {0} /\ \A j \in 1 .. (n + 1) - 1 : j \in DOMAIN archive
  BY <1>1, PrefixGrows DEF ReaderFits
<1>3. /\ by = "strict" => \A j \in 1 .. (n + 1) - 1 : archive[j].type \in {"x", "0"}
      /\ by = "toolchain" => \A j \in 1 .. (n + 1) - 1 : archive[j].type \in {"x", "g", "0", "2", "5"}
  BY <1>1 DEF ReaderFits
<1>4. ReaderFits'
  BY <1>1, <1>2, <1>3, ArchiveStays DEF ReaderFits
<1> QED
  BY <1>1, <1>4, ArchiveStays DEF ArchiveInv

LEMMA NamedKeeps ==
  ASSUME ArchiveInv, NEW by \in {"strict", "toolchain"}, NEW types, At(by, types),
         types \subseteq {"0", "2", "5"}, by = "strict" => types = {"0"},
         NEW path, path = PathOf(unpacking.next), path # Unnamed, ~Taken(path), Proceeds(Named(path))
  PROVE  ArchiveInv'
<1>0. PICK n : n = unpacking.next
  OBVIOUS
<1>1. /\ ArchiveFits /\ ReaderFits /\ unpacking.by = by /\ n \in DOMAIN archive
      /\ archive[n].type \in types /\ n \in Nat \ {0}
  BY <1>0, AtBlock
<1>2. n \in Members
  BY <1>0, <1>1, IsMember
<1>3. /\ OwnHeaders(n + 1) = {} /\ AllHeaders(n + 1) = AllHeaders(n)
      /\ MembersBefore(n + 1) = MembersBefore(n) \cup {MemberAt(n)}
  BY <1>1, <1>2, MemberPasses
<1>4. /\ unpacking' = [by |-> by, next |-> n + 1, extended |-> Unnamed, headed |-> FALSE,
                       global |-> unpacking.global, members |-> unpacking.members \cup {MemberAt(n)}]
      /\ archive' = archive /\ strict' = strict
  BY <1>0, <1>1 DEF Proceeds, Named, ReaderFits, MemberAt
<1>5. Fresh(unpacking.members \cup {MemberAt(n)})
  BY <1>0, <1>1 DEF ReaderFits, Fresh, Taken, MemberAt
<1>6. /\ unpacking.global = Nearest(AllHeaders(n + 1)) /\ Unnamed = Nearest(OwnHeaders(n + 1))
      /\ unpacking.members \cup {MemberAt(n)} = MembersBefore(n + 1)
  BY <1>0, <1>1, <1>3 DEF ReaderFits, Nearest
<1> QED
  BY <1>0, <1>3, <1>4, <1>5, <1>6, PassesKeep

LEMMA HeadersKeep ==
  ASSUME ArchiveInv, StrictHeader \/ ExtendedHeader \/ GlobalHeader PROVE ArchiveInv' \/ StrictEnds(Refused)
<1>0. PICK n : n = unpacking.next
  OBVIOUS
<1>1. ASSUME NEW by \in {"strict", "toolchain"}, At(by, {"x"}), NEW headed,
             Proceeds([unpacking EXCEPT !.next = @ + 1, !.headed = headed, !.extended = Block.path]),
             by = "strict" => headed
      PROVE  ArchiveInv'
  <2>1. /\ ArchiveFits /\ ReaderFits /\ unpacking.by = by /\ n \in DOMAIN archive
        /\ archive[n].type = "x" /\ n \in Nat \ {0} /\ Block = archive[n]
    BY <1>0, <1>1, AtBlock
  <2>2. /\ Nearest(OwnHeaders(n + 1)) = archive[n].path /\ OwnHeaders(n + 1) # {}
        /\ AllHeaders(n + 1) = AllHeaders(n) /\ MembersBefore(n + 1) = MembersBefore(n)
    BY <2>1, HeaderPasses
  <2>3. /\ unpacking' = [by |-> by, next |-> n + 1, extended |-> archive[n].path, headed |-> headed,
                         global |-> unpacking.global, members |-> unpacking.members]
        /\ archive' = archive /\ strict' = strict
    BY <1>0, <1>1, <2>1 DEF Proceeds, ReaderFits
  <2>4. /\ unpacking.global = Nearest(AllHeaders(n + 1)) /\ unpacking.members = MembersBefore(n + 1)
        /\ Fresh(unpacking.members)
    BY <1>0, <2>1, <2>2 DEF ReaderFits
  <2> QED
    BY <1>0, <1>1, <2>2, <2>3, <2>4, PassesKeep
<1>2. ASSUME GlobalHeader PROVE ArchiveInv'
  <2>0. At("toolchain", {"g"})
    BY <1>2 DEF GlobalHeader
  <2>1. /\ ArchiveFits /\ ReaderFits /\ unpacking.by = "toolchain" /\ n \in DOMAIN archive
        /\ archive[n].type = "g" /\ n \in Nat \ {0} /\ Block = archive[n]
    BY <1>0, <2>0, AtBlock
  <2>2. /\ OwnHeaders(n + 1) = OwnHeaders(n) /\ MembersBefore(n + 1) = MembersBefore(n)
        /\ Nearest(AllHeaders(n + 1)) =
             IF archive[n].path # Unnamed THEN archive[n].path ELSE Nearest(AllHeaders(n))
    BY <2>1, GlobalPasses
  <2> DEFINE global == IF archive[n].path # Unnamed THEN archive[n].path ELSE unpacking.global
  <2>3. /\ unpacking' = [by |-> "toolchain", next |-> n + 1, extended |-> unpacking.extended,
                         headed |-> unpacking.headed, global |-> global, members |-> unpacking.members]
        /\ archive' = archive /\ strict' = strict
    BY <1>0, <1>2, <2>1 DEF GlobalHeader, Proceeds, ReaderFits
  <2>4. /\ global = Nearest(AllHeaders(n + 1)) /\ unpacking.members = MembersBefore(n + 1)
        /\ Fresh(unpacking.members) /\ unpacking.extended = Nearest(OwnHeaders(n + 1))
    BY <1>0, <2>1, <2>2 DEF ReaderFits
  <2> HIDE DEF global
  <2> QED
    BY <1>0, <2>0, <2>3, <2>4, PassesKeep
<1>3. ASSUME ExtendedHeader PROVE ArchiveInv'
  <2>1. At("toolchain", {"x"}) /\ Proceeds([unpacking EXCEPT !.next = @ + 1, !.extended = Block.path])
    BY <1>3 DEF ExtendedHeader
  <2>2. ReaderFits
    BY <2>1, AtBlock
  <2>3. [unpacking EXCEPT !.next = @ + 1, !.extended = Block.path]
          = [unpacking EXCEPT !.next = @ + 1, !.headed = unpacking.headed, !.extended = Block.path]
    BY <2>2 DEF ReaderFits
  <2> QED
    BY <1>1, <2>1, <2>3
<1>4. ASSUME StrictHeader PROVE ArchiveInv' \/ StrictEnds(Refused)
  BY <1>1, <1>4 DEF StrictHeader
<1> QED
  BY <1>2, <1>3, <1>4

LEMMA RestartsFit == ArchiveFits /\ unpacking = StartBy("toolchain") => ReaderFits /\ unpacking.by = "toolchain"
  BY StartFits

LEMMA RestartsFitNext ==
  (ArchiveFits /\ unpacking = StartBy("toolchain") => ReaderFits /\ unpacking.by = "toolchain")'
  BY RestartsFit, PTL

LEMMA StrictEndsKeeps ==
  ASSUME ArchiveInv, NEW outcome, StrictEnds(outcome), outcome = Refused \/ StrictFits'
  PROVE  ArchiveInv'
<1>1. ArchiveFits' /\ unpacking' = StartBy("toolchain")
  BY ArchiveStays DEF ArchiveInv, StrictEnds
<1>2. StartBy("toolchain")' = StartBy("toolchain")
  BY DEF StartBy
<1>3. (ReaderFits /\ unpacking.by = "toolchain")'
  BY <1>1, <1>2, RestartsFitNext
<1>4. StrictFits'
  BY DEF StrictEnds, StrictFits
<1> QED
  BY <1>1, <1>3, <1>4 DEF ArchiveInv

LEMMA StrictMemberKeeps ==
  ASSUME ArchiveInv, StrictMember PROVE ArchiveInv'
<1>0. At("strict", {"0"})
  BY DEF StrictMember
<1>1. PICK n : n = unpacking.next
  OBVIOUS
<1>2. /\ ArchiveFits /\ ReaderFits /\ unpacking.by = "strict" /\ n \in DOMAIN archive
      /\ archive[n].type = "0" /\ n \in Nat \ {0} /\ Block = archive[n]
  BY <1>0, <1>1, AtBlock
<1>3. AllHeaders(n) = {}
  BY <1>1, <1>2 DEF ReaderFits, AllHeaders
<1>4. FirstNamed(<<unpacking.extended, Block.path>>) = PathOf(n)
  <2>1. Nearest(AllHeaders(n)) = Unnamed /\ unpacking.extended = Nearest(OwnHeaders(n))
    BY <1>1, <1>2, <1>3 DEF ReaderFits, Nearest
  <2>2. PathOf(n) = FirstNamed(<<unpacking.extended, Unnamed, archive[n].path>>)
    BY <2>1, PathIs
  <2> DEFINE a == unpacking.extended
             c == archive[n].path
  <2>3. FirstNamed(<<a, Unnamed, c>>) = FirstNamed(<<a, c>>)
    <3> HIDE DEF a, c
    <3>1. FirstNamed(<<a, Unnamed, c>>) = IF a # Unnamed THEN a ELSE IF Unnamed # Unnamed THEN Unnamed ELSE c
      BY FirstOf
    <3>2. FirstNamed(<<a, c>>) = IF a # Unnamed THEN a ELSE c
      BY FirstOf
    <3> QED
      BY <3>1, <3>2
  <2> QED
    BY <1>2, <2>2, <2>3
<1> DEFINE path == PathOf(n)
<1>5. CASE path = Unnamed \/ Taken(path)
  <2>1. StrictEnds(Refused)
    BY <1>4, <1>5 DEF StrictMember
  <2> QED
    BY <2>1, StrictEndsKeeps
<1>6. CASE path # Unnamed /\ ~Taken(path)
  <2>1. Proceeds(Named(path))
    BY <1>4, <1>6 DEF StrictMember
  <2> QED
    BY <1>0, <1>1, <1>6, <2>1, NamedKeeps
<1> QED
  BY <1>5, <1>6

\* At the zeroes, or behind the last block, a reader has the members of the archive.
LEMMA AtEnd ==
  ASSUME ArchiveInv, NEW by \in {"strict", "toolchain"}, Over(by) \/ At(by, {"zero"})
  PROVE  /\ ArchiveFits /\ StrictFits /\ ReaderFits /\ unpacking.by = by /\ unpacking.next \in Nat \ {0}
         /\ unpacking.members = Written /\ Fresh(Written)
<1>1. /\ ArchiveFits /\ StrictFits /\ ReaderFits /\ unpacking.by = by /\ unpacking.next \in Nat \ {0}
  BY DEF At, Over, ArchiveInv, OutcomeFits, ReaderFits
<1>2. unpacking.next \notin DOMAIN archive \/ archive[unpacking.next].type = "zero"
  BY DEF At, Over, Block
<1>3. MembersBefore(unpacking.next) = Written
  BY <1>1, <1>2, EndPasses DEF ReaderFits
<1> QED
  BY <1>1, <1>3 DEF ReaderFits

LEMMA StrictEndKeeps ==
  ASSUME ArchiveInv, StrictEnd PROVE ArchiveInv'
<1>0. /\ ArchiveFits /\ StrictFits /\ ReaderFits /\ unpacking.by = "strict" /\ unpacking.next \in Nat \ {0}
      /\ unpacking.members = Written /\ Fresh(Written)
  BY AtEnd DEF StrictEnd
<1>1. CASE StrictEnds(Refused)
  BY <1>1, StrictEndsKeeps
<1>2. CASE ~StrictEnds(Refused)
  <2>1. /\ unpacking.next \in DOMAIN archive /\ Written # {}
        /\ StrictEnds([is |-> "accepted", members |-> Written])
    BY <1>0, <1>2 DEF StrictEnd
  <2>2. archive[unpacking.next].type = "zero"
    BY <2>1 DEF StrictEnd, At, Over, Block
  <2>3. Members # {}
    BY <2>1 DEF Written
  <2>4. ASSUME NEW i \in DOMAIN archive, \A j \in 1 .. i : archive[j].type # "zero"
        PROVE  archive[i].type \in {"x", "0"}
    <3>1. i \in Nat \ {0} /\ unpacking.next \in Nat \ {0}
      BY <1>0 DEF ArchiveFits
    <3>2. i < unpacking.next
      BY <2>2, <2>4, <3>1
    <3> QED
      BY <1>0, <3>1, <3>2 DEF ReaderFits
  <2>5. Written' = Written /\ Members' = Members /\ archive' = archive
    BY <1>0, <2>1, ArchiveStays DEF StrictEnds
  <2>6. StrictFits'
    <3>1. Fresh(Written)'
      BY <1>0, <2>5 DEF Fresh
    <3>2. (\A i \in DOMAIN archive :
             (\A j \in 1 .. i : archive[j].type # "zero") => archive[i].type \in {"x", "0"})'
      BY <2>4, <2>5
    <3>3. (strict = [is |-> "accepted", members |-> Written])'
      BY <2>1, <2>5 DEF StrictEnds
    <3> QED
      BY <2>3, <2>5, <3>1, <3>2, <3>3 DEF StrictFits
  <2> QED
    BY <2>1, <2>6, StrictEndsKeeps
<1> QED
  BY <1>1, <1>2

LEMMA RefusedKeeps ==
  ASSUME ArchiveInv, ArchiveFits, StrictFits, strict \in {Pending, Refused}, ToolchainEnds(Refused)
  PROVE  ArchiveInv'
<1>1. archive' = archive /\ strict' = strict /\ unpacking' = [by |-> "done", outcome |-> Refused]
  BY DEF ToolchainEnds, Proceeds
<1>2. Refused' = Refused /\ Pending' = Pending
  BY DEF Refused, Pending
<1>3. OutcomeFits'
  BY <1>1, <1>2 DEF OutcomeFits
<1> QED
  BY <1>1, <1>3, ArchiveStays DEF ArchiveInv

LEMMA MemberKeeps ==
  ASSUME ArchiveInv, Member PROVE ArchiveInv'
<1> DEFINE types == {"0", "2", "5"}
<1>0. At("toolchain", types)
  BY DEF Member
<1>1. PICK n : n = unpacking.next
  OBVIOUS
<1>2. /\ ArchiveFits /\ StrictFits /\ ReaderFits /\ unpacking.by = "toolchain" /\ n \in DOMAIN archive
      /\ archive[n].type \in types /\ n \in Nat \ {0} /\ Block = archive[n]
  BY <1>0, <1>1, AtBlock
<1>3. MemberPath = PathOf(n)
  BY <1>1, <1>2, PathIs DEF ReaderFits, MemberPath
<1>4. n \in Members
  BY <1>1, <1>2, IsMember
<1> DEFINE path == PathOf(n)
<1>5. CASE path = Unnamed \/ Taken(path)
  <2>1. ToolchainEnds(Refused)
    BY <1>3, <1>5 DEF Member
  <2>2. ASSUME Fresh(Written) PROVE FALSE
    <3>1. MemberAt(n) \in Written /\ MemberAt(n).path = path /\ MemberAt(n).block = n
      BY <1>4 DEF Written, MemberAt
    <3>2. path # Unnamed
      BY <2>2, <3>1 DEF Fresh
    <3>3. PICK m \in MembersBefore(n) : m.path = path
      BY <1>1, <1>2, <1>5, <3>2 DEF Taken, ReaderFits
    <3>4. PICK i \in Members : i < n /\ m = MemberAt(i)
      BY <3>3 DEF MembersBefore
    <3>5. m \in Written /\ m.block = i /\ i # n
      BY <1>2, <3>4 DEF Written, MemberAt
    <3> QED
      BY <2>2, <3>1, <3>3, <3>5 DEF Fresh
  <2>3. strict \in {Pending, Refused}
    BY <1>2, <2>2 DEF StrictFits
  <2> QED
    BY <1>2, <2>1, <2>3, RefusedKeeps
<1>6. CASE path # Unnamed /\ ~Taken(path)
  <2>1. Proceeds(Named(path))
    BY <1>3, <1>6 DEF Member
  <2> QED
    BY <1>0, <1>1, <1>6, <2>1, NamedKeeps
<1> QED
  BY <1>5, <1>6

LEMMA DamageKeeps ==
  ASSUME ArchiveInv, Damage PROVE ArchiveInv'
<1>0. At("toolchain", {"bad"}) /\ ToolchainEnds(Refused)
  BY DEF Damage
<1>1. PICK n : n = unpacking.next
  OBVIOUS
<1>2. /\ ArchiveFits /\ StrictFits /\ ReaderFits /\ unpacking.by = "toolchain" /\ n \in DOMAIN archive
      /\ archive[n].type = "bad" /\ n \in Nat \ {0}
  BY <1>0, <1>1, AtBlock
<1>3. \A j \in 1 .. n : archive[j].type # "zero"
  <2>1. \A j \in 1 .. n - 1 : archive[j].type # "zero"
    BY <1>1, <1>2 DEF ReaderFits
  <2> QED
    BY <1>2, <2>1
<1>4. strict \in {Pending, Refused}
  BY <1>2, <1>3 DEF StrictFits
<1> QED
  BY <1>0, <1>2, <1>4, RefusedKeeps

LEMMA EndKeeps ==
  ASSUME ArchiveInv, End PROVE ArchiveInv'
<1>0. /\ ArchiveFits /\ StrictFits /\ ReaderFits /\ unpacking.by = "toolchain" /\ unpacking.next \in Nat \ {0}
      /\ unpacking.members = Written /\ Fresh(Written)
  BY AtEnd DEF End
<1>1. CASE ToolchainEnds([is |-> "accepted", members |-> Written])
  <2>1. archive' = archive /\ strict' = strict
        /\ unpacking' = [by |-> "done", outcome |-> [is |-> "accepted", members |-> Written]]
    BY <1>1 DEF ToolchainEnds, Proceeds
  <2>2. Written' = Written
    BY <1>0, <2>1, ArchiveStays
  <2>3. OutcomeFits'
    BY <1>0, <2>1, <2>2 DEF OutcomeFits, Fresh
  <2> QED
    BY <1>0, <2>1, <2>3, ArchiveStays DEF ArchiveInv
<1>2. CASE ~ToolchainEnds([is |-> "accepted", members |-> Written])
  <2>1. ToolchainEnds(Refused) /\ (OfType("0") = {} \/ OfType("2") # {})
    BY <1>0, <1>2 DEF End
  <2>2. strict \in {Pending, Refused}
    <3>1. SUFFICES ASSUME strict \notin {Pending, Refused} PROVE FALSE
      OBVIOUS
    <3>2. \A i \in Members : archive[i].type = "0"
      BY <1>0, <3>1 DEF StrictFits, Members
    <3>3. \A m \in Written : archive[m.block].type = "0"
      BY <3>2 DEF Written
    <3>4. Written # {}
      BY <1>0, <3>1 DEF StrictFits, Written
    <3> QED
      BY <1>0, <2>1, <3>3, <3>4 DEF OfType
  <2> QED
    BY <1>0, <2>1, <2>2, RefusedKeeps
<1> QED
  BY <1>1, <1>2

LEMMA ArchiveStepKeeps ==
  ASSUME ArchiveInv, [ArchiveNext]_archiveVars PROVE ArchiveInv'
<1>1. CASE StrictHeader \/ ExtendedHeader \/ GlobalHeader
  BY <1>1, HeadersKeep, StrictEndsKeeps
<1>2. CASE StrictMember
  BY <1>2, StrictMemberKeeps
<1>3. CASE StrictRefuses
  BY <1>3, StrictEndsKeeps DEF StrictRefuses
<1>4. CASE StrictEnd
  BY <1>4, StrictEndKeeps
<1>5. CASE Member
  BY <1>5, MemberKeeps
<1>6. CASE Damage
  BY <1>6, DamageKeeps
<1>7. CASE End
  BY <1>7, EndKeeps
<1>8. CASE UNCHANGED archiveVars
  <2>1. archive' = archive /\ unpacking' = unpacking /\ strict' = strict
    BY <1>8 DEF archiveVars
  <2>2. ArchiveFits /\ StrictFits
    BY DEF ArchiveInv
  <2>3. ReaderFits => ReaderFits'
    BY <2>1, <2>2, ArchiveStays DEF ReaderFits, Fresh
  <2>4. OutcomeFits => OutcomeFits'
    BY <2>1, <2>2, ArchiveStays DEF OutcomeFits, Fresh, Pending, Refused
  <2> QED
    BY <2>1, <2>2, <2>3, <2>4, ArchiveStays DEF ArchiveInv
<1> QED
  BY <1>1, <1>2, <1>3, <1>4, <1>5, <1>6, <1>7, <1>8 DEF ArchiveNext

LEMMA ArchiveInvShows == ArchiveInv => ArchivesAsWritten
<1> SUFFICES ASSUME ArchiveInv PROVE ArchivesAsWritten
  OBVIOUS
<1>1. ArchiveFits /\ StrictFits /\ (unpacking.by \in {"strict", "toolchain"} \/ OutcomeFits)
  BY DEF ArchiveInv
<1>2. strict.is = "accepted" =>
        strict = [is |-> "accepted", members |-> Written] /\ Fresh(Written)
  BY <1>1 DEF StrictFits, Pending, Refused
<1>3. unpacking.by = "done" /\ unpacking.outcome.is = "accepted" =>
        unpacking.outcome = [is |-> "accepted", members |-> Written] /\ Fresh(Written)
  BY <1>1 DEF OutcomeFits, Refused
<1>4. ReadAsWritten
  BY <1>2, <1>3 DEF ReadAsWritten, Fresh
<1>5. ReadersAgree
  BY <1>1, <1>2 DEF ReadersAgree, OutcomeFits, Pending, Refused
<1>6. ArchiveTypeOK
  <2>1. PICK n \in 0 .. MaxBlocks : archive \in [1 .. n -> Blocks]
    BY <1>1 DEF ArchiveFits
  <2>2. Len(archive) = n
    BY <2>1
  <2>3. unpacking.by \in {"strict", "toolchain", "done"}
    BY <1>1 DEF OutcomeFits
  <2>4. strict.is \in {"pending", "accepted", "refused"}
    BY <1>1 DEF StrictFits, Pending, Refused
  <2> QED
    BY <2>1, <2>2, <2>3, <2>4, ArchiveAssumption DEF ArchiveTypeOK
<1> QED
  BY <1>4, <1>5, <1>6 DEF ArchivesAsWritten

(* What either reader of archives accepts is what the format says the archive holds, and
   what the one for packages accepts is the same package to the other. *)
THEOREM ArchivesAreRead == ArchiveSpec => []ArchivesAsWritten
<1>1. ArchiveInv /\ [ArchiveNext]_archiveVars => ArchiveInv'
  BY ArchiveStepKeeps
<1> QED
  BY <1>1, ArchiveInitInv, ArchiveInvShows, PTL DEF ArchiveSpec
------------------------------------------------------------------------------
(* Dependencies: what the walk has reached and the edges it has still to visit lead to all
   that is needed, and what it has reached is within every set that is closed. *)
Target(from, name) == Resolve(DOMAIN lock, from, name)
Leads(from, name, S) == Found(DOMAIN lock, from, name) # {} /\ Target(from, name) \in S
Settled(names, S) ==
  /\ \A name \in names : Leads(<<>>, name, S)
  /\ \A p \in S : \A name \in lock[p].needs : Leads(p, name, S)
ClosedFor(names, S) ==
  /\ \A name \in names : Target(<<>>, name) \in S
  /\ \A p \in S : \A name \in lock[p].needs : Target(p, name) \in S

Direct == root.needs \cup root.develops
WalkFits(names) ==
  /\ walk = [at |-> walk.at, todo |-> walk.todo, reached |-> walk.reached]
  /\ walk.reached \subseteq DOMAIN lock
  /\ \A from, name : <<from, name>> \in walk.todo =>
       (from = <<>> /\ name \in names) \/ (from \in walk.reached /\ name \in lock[from].needs)
  /\ \A name \in names : <<<<>>, name>> \in walk.todo \/ Leads(<<>>, name, walk.reached)
  /\ \A p \in walk.reached : \A name \in lock[p].needs :
       <<p, name>> \in walk.todo \/ Leads(p, name, walk.reached)
  /\ \A S \in SUBSET DOMAIN lock : ClosedFor(names, S) => walk.reached \subseteq S

Inventoried(inventory) ==
  /\ inventory = Closure(root.needs) /\ Settled(root.needs, inventory)
  /\ inventory \subseteq DOMAIN lock /\ inventory = {p \in DOMAIN lock : ~lock[p].dev}

LockFits ==
  /\ DOMAIN lock \subseteq LockPlaces
  /\ \A p \in DOMAIN lock : lock[p].needs \subseteq PackageNames /\ lock[p].dev \in BOOLEAN
InstalledFits == DOMAIN installed.places \subseteq LockPlaces /\ installed.listed \subseteq LockPlaces

DependenciesInv ==
  /\ LockFits /\ InstalledFits
  /\ \/ walk.at \in {"start", "refused"}
     \/ walk.at = "all" /\ WalkFits(Direct)
     \/ walk.at = "production" /\ WalkFits(root.needs) /\ DOMAIN lock = Closure(Direct)
        /\ \A p \in walk.reached : ~lock[p].dev
     \/ /\ walk.at \in {"retained", "installed", "verified"}
        /\ walk = [at |-> walk.at, inventory |-> walk.inventory]
        /\ Inventoried(walk.inventory) /\ DOMAIN lock = Closure(Direct)
        /\ walk.at = "verified" => Matches

LEMMA ClosureIs ==
  ASSUME NEW names
  PROVE  Closure(names) = {p \in DOMAIN lock : \A S \in SUBSET DOMAIN lock : ClosedFor(names, S) => p \in S}
<1> DEFINE targets(from, ns) == {Resolve(DOMAIN lock, from, name) : name \in ns}
           closed(S) == targets(<<>>, names) \subseteq S /\ \A p \in S : targets(p, lock[p].needs) \subseteq S
<1>1. \A S : closed(S) <=> ClosedFor(names, S)
  BY DEF ClosedFor, Target
<1>2. Closure(names) = {p \in DOMAIN lock : \A S \in SUBSET DOMAIN lock : closed(S) => p \in S}
  BY DEF Closure
<1> HIDE DEF closed
<1> QED
  BY <1>1, <1>2

\* Where no edge is left, what was reached is what is needed.
LEMMA WalkEnds ==
  ASSUME NEW names, WalkFits(names), walk.todo = {}
  PROVE  walk.reached = Closure(names) /\ Settled(names, walk.reached)
<1>1. Settled(names, walk.reached)
  BY DEF WalkFits, Settled
<1>2. ClosedFor(names, walk.reached)
  BY <1>1 DEF Settled, ClosedFor, Leads
<1>3. walk.reached \in SUBSET DOMAIN lock
  BY DEF WalkFits
<1>4. Closure(names) \subseteq walk.reached
  BY <1>2, <1>3, ClosureIs
<1>5. walk.reached \subseteq Closure(names)
  BY <1>3, ClosureIs DEF WalkFits
<1> QED
  BY <1>1, <1>4, <1>5

\* What does not depend on the walk.
LEMMA LockStays ==
  ASSUME root' = root, lock' = lock
  PROVE  /\ Direct' = Direct /\ (LockFits => LockFits')
         /\ \A names : Closure(names)' = Closure(names)
         /\ \A S : Inventoried(S) => Inventoried(S)'
<1>1. \A names : Closure(names)' = Closure(names)
  BY DEF Closure, Resolve, Found
<1>2. \A names, S : Settled(names, S)' = Settled(names, S)
  BY DEF Settled, Leads, Target, Resolve, Found
<1>3. \A S : Inventoried(S) => Inventoried(S)'
  BY <1>1, <1>2 DEF Inventoried
<1> QED
  BY <1>1, <1>3 DEF Direct, LockFits

LEMMA MaxIn ==
  ASSUME NEW L \in Nat, NEW S, S \subseteq 0 .. L, S # {}
  PROVE  \E n \in S : \A m \in S : m <= n
<1> DEFINE T == {L - s : s \in S}
<1>1. T \subseteq Nat /\ T # {}
  <2>1. \A s \in S : s \in 0 .. L /\ L - s \in Nat
    OBVIOUS
  <2> QED
    BY <2>1
<1>2. PICK x \in T : \A y \in T : ~(<<y, x>> \in OpToRel(<, Nat))
  <2> HIDE DEF T
  <2> QED
    BY <1>1, NatLessThanWellFounded, WFMin, Zenon
<1>3. \A y \in T : ~(y < x)
  BY <1>1, <1>2 DEF OpToRel
<1>4. PICK n \in S : x = L - n
  OBVIOUS
<1>5. ASSUME NEW m \in S PROVE m <= n
  <2>1. ~(L - m < L - n) /\ m \in 0 .. L /\ n \in 0 .. L
    BY <1>3, <1>4
  <2> QED
    BY <2>1
<1> QED
  BY <1>5

\* What a package finds is in the nearest place.
LEMMA ResolveIs ==
  ASSUME NEW places, NEW from \in Seq(PackageNames), NEW name, Found(places, from, name) # {}
  PROVE  \E n \in Found(places, from, name) :
           /\ \A m \in Found(places, from, name) : m <= n
           /\ Resolve(places, from, name) = Append(SubSeq(from, 1, n), name)
           /\ Resolve(places, from, name) \in places
<1>1. Len(from) \in Nat /\ Found(places, from, name) \subseteq 0 .. Len(from)
  BY DEF Found
<1>2. \E n \in Found(places, from, name) : \A m \in Found(places, from, name) : m <= n
  BY <1>1, MaxIn
<1> DEFINE n == CHOOSE n \in Found(places, from, name) : \A m \in Found(places, from, name) : m <= n
<1>3. n \in Found(places, from, name) /\ \A m \in Found(places, from, name) : m <= n
  BY <1>2
<1>4. Resolve(places, from, name) = Append(SubSeq(from, 1, n), name)
  BY DEF Resolve
<1>5. Append(SubSeq(from, 1, n), name) \in places
  BY <1>3 DEF Found
<1> HIDE DEF n
<1> QED
  BY <1>3, <1>4, <1>5

\* With fewer places, among them the nearest, it finds the same.
LEMMA ResolveWithout ==
  ASSUME NEW places, NEW fewer, fewer \subseteq places, NEW from \in Seq(PackageNames), NEW name,
         Found(places, from, name) # {}, Resolve(places, from, name) \in fewer
  PROVE  Found(fewer, from, name) # {} /\ Resolve(fewer, from, name) = Resolve(places, from, name)
<1>1. PICK n \in Found(places, from, name) :
        /\ \A m \in Found(places, from, name) : m <= n
        /\ Resolve(places, from, name) = Append(SubSeq(from, 1, n), name)
  BY ResolveIs
<1>2. n \in Found(fewer, from, name)
  BY <1>1 DEF Found
<1>3. PICK k \in Found(fewer, from, name) :
        /\ \A m \in Found(fewer, from, name) : m <= k
        /\ Resolve(fewer, from, name) = Append(SubSeq(from, 1, k), name)
  BY <1>2, ResolveIs
<1>4. k \in Found(places, from, name)
  BY <1>3 DEF Found
<1>5. k <= n /\ n <= k /\ k \in Nat /\ n \in Nat
  BY <1>1, <1>2, <1>3, <1>4 DEF Found
<1>6. k = n
  BY <1>5
<1> QED
  BY <1>1, <1>2, <1>3, <1>6
------------------------------------------------------------------------------
LEMMA DependenciesInitInv == DependenciesInit => DependenciesInv
<1> SUFFICES ASSUME DependenciesInit PROVE DependenciesInv
  OBVIOUS
<1>1. PICK S \in SUBSET LockPlaces : lock \in [S -> [needs : SUBSET PackageNames, dev : BOOLEAN]]
  BY DEF DependenciesInit, Records
<1>2. LockFits
  BY <1>1 DEF LockFits
<1>3. DOMAIN installed.places = {}
  BY DEF DependenciesInit, Nothing
<1> QED
  BY <1>2, <1>3 DEF DependenciesInit, DependenciesInv, InstalledFits, Nothing

LEMMA RefusesKeeps ==
  ASSUME DependenciesInv, Refuses PROVE DependenciesInv'
  BY LockStays DEF Refuses, Walks, DependenciesInv, InstalledFits

\* A walk begins with its edges, and has reached nothing.
LEMMA WalkBegins ==
  ASSUME NEW names, NEW at, Walks([at |-> at, todo |-> Edges(<<>>, names), reached |-> {}])
  PROVE  WalkFits(names)'
<1>1. walk' = [at |-> at, todo |-> Edges(<<>>, names), reached |-> {}]
  BY DEF Walks
<1>2. \A from, name : <<from, name>> \in Edges(<<>>, names) <=> from = <<>> /\ name \in names
  BY DEF Edges
<1>3. \A name \in names : <<<<>>, name>> \in Edges(<<>>, names)
  BY <1>2
<1> QED
  BY <1>1, <1>2, <1>3 DEF WalkFits

LEMMA VisitFits ==
  ASSUME LockFits, NEW names, WalkFits(names), NEW from, NEW name, <<from, name>> \in walk.todo,
         from \in LockPlaces \cup {<<>>}, Found(DOMAIN lock, from, name) # {}, NEW target, target = Target(from, name),
         NEW onward, onward = IF target \in walk.reached THEN {} ELSE Edges(target, lock[target].needs),
         Walks([walk EXCEPT !.todo = (@ \ {<<from, name>>}) \cup onward, !.reached = @ \cup {target}])
  PROVE  WalkFits(names)' /\ walk'.at = walk.at /\ walk'.reached = walk.reached \cup {target}
<1>1. /\ walk' = [at |-> walk.at, todo |-> (walk.todo \ {<<from, name>>}) \cup onward,
                  reached |-> walk.reached \cup {target}]
      /\ lock' = lock
  BY DEF Walks, WalkFits
<1>2. from \in Seq(PackageNames)
  <2>1. <<>> \in Seq(PackageNames)
    OBVIOUS
  <2>2. LockPlaces \subseteq Seq(PackageNames)
    BY DependenciesAssumption
  <2> QED
    BY <2>1, <2>2
<1>3. target \in DOMAIN lock
  BY <1>2, ResolveIs DEF Target
<1>4. \A f, m : <<f, m>> \in onward <=> (target \notin walk.reached /\ f = target /\ m \in lock[target].needs)
  BY DEF Edges
<1>5. \A f, m, S : Leads(f, m, S)' = Leads(f, m, S)
  BY <1>1 DEF Leads, Target, Resolve, Found
<1>6. \A n, S : ClosedFor(n, S)' = ClosedFor(n, S)
  BY <1>1 DEF ClosedFor, Target, Resolve, Found
<1>7. \A f, m : Leads(f, m, walk.reached) => Leads(f, m, walk'.reached)
  BY <1>1 DEF Leads
<1>8. Leads(from, name, walk'.reached)
  BY <1>1 DEF Leads
<1>9. \A f, m : <<f, m>> \in walk'.todo <=> (<<f, m>> \in walk.todo /\ ~(f = from /\ m = name)) \/ <<f, m>> \in onward
  BY <1>1
<1>10. \A f, m : <<f, m>> \in walk.todo => <<f, m>> \in walk'.todo \/ Leads(f, m, walk'.reached)
  BY <1>8, <1>9
<1>11. \A f, m : <<f, m>> \in walk'.todo =>
         (f = <<>> /\ m \in names) \/ (f \in walk'.reached /\ m \in lock[f].needs)
  BY <1>1, <1>4, <1>9 DEF WalkFits
<1>12. \A m \in names : <<<<>>, m>> \in walk'.todo \/ Leads(<<>>, m, walk'.reached)
  BY <1>7, <1>10 DEF WalkFits
<1>13. \A p \in walk'.reached : \A m \in lock[p].needs : <<p, m>> \in walk'.todo \/ Leads(p, m, walk'.reached)
  <2>1. SUFFICES ASSUME NEW p \in walk'.reached, NEW m \in lock[p].needs
                 PROVE  <<p, m>> \in walk'.todo \/ Leads(p, m, walk'.reached)
    OBVIOUS
  <2>2. CASE p \in walk.reached
    BY <1>7, <1>10, <2>2 DEF WalkFits
  <2>3. CASE p = target /\ target \notin walk.reached
    BY <1>4, <1>9, <2>3
  <2> QED
    BY <1>1, <2>2, <2>3
<1>14. \A S \in SUBSET DOMAIN lock : ClosedFor(names, S) => walk'.reached \subseteq S
  <2>1. SUFFICES ASSUME NEW S \in SUBSET DOMAIN lock, ClosedFor(names, S) PROVE walk'.reached \subseteq S
    OBVIOUS
  <2>2. walk.reached \subseteq S
    BY <2>1 DEF WalkFits
  <2>3. target \in S
    BY <2>1, <2>2 DEF WalkFits, ClosedFor
  <2> QED
    BY <1>1, <2>2, <2>3
<1>15. walk' = [at |-> walk'.at, todo |-> walk'.todo, reached |-> walk'.reached] /\ walk'.reached \subseteq DOMAIN lock
  BY <1>1, <1>3 DEF WalkFits
<1> QED
  BY <1>1, <1>5, <1>6, <1>11, <1>12, <1>13, <1>14, <1>15 DEF WalkFits

LEMMA VisitEdgeKeeps ==
  ASSUME DependenciesInv, NEW from \in LockPlaces \cup {<<>>}, NEW name \in PackageNames, VisitEdge(from, name)
  PROVE  DependenciesInv'
<1>1. CASE Refuses
  BY <1>1, RefusesKeeps
<1>2. CASE ~Refuses
  <2> DEFINE target == Target(from, name)
             onward == IF target \in walk.reached THEN {} ELSE Edges(target, lock[target].needs)
  <2>1. /\ walk.at \in {"all", "production"} /\ <<from, name>> \in walk.todo
        /\ Found(DOMAIN lock, from, name) # {}
        /\ Walks([walk EXCEPT !.todo = (@ \ {<<from, name>>}) \cup onward, !.reached = @ \cup {target}])
        /\ walk.at = "production" => ~lock[target].dev
    BY <1>2 DEF VisitEdge, Target
  <2>2. LockFits /\ InstalledFits /\ root' = root /\ lock' = lock /\ installed' = installed
    BY <2>1 DEF DependenciesInv, Walks
  <2> HIDE DEF target, onward
  <2>3. \A names : WalkFits(names) => WalkFits(names)' /\ walk'.at = walk.at /\ walk'.reached = walk.reached \cup {target}
    BY <2>1, <2>2, VisitFits DEF target, onward
  <2>4. CASE walk.at = "all"
    <3>1. WalkFits(Direct)
      BY <2>4 DEF DependenciesInv
    <3> QED
      BY <2>2, <2>3, <2>4, <3>1, LockStays DEF DependenciesInv, InstalledFits
  <2>5. CASE walk.at = "production"
    <3>1. WalkFits(root.needs) /\ DOMAIN lock = Closure(Direct) /\ \A p \in walk.reached : ~lock[p].dev
      BY <2>5 DEF DependenciesInv
    <3>2. WalkFits(root.needs)'
      BY <2>2, <2>3, <3>1
    <3>3. DOMAIN lock' = Closure(Direct)'
      BY <2>2, <3>1, LockStays
    <3> QED
      BY <2>1, <2>2, <2>3, <2>5, <3>1, <3>2, <3>3, LockStays DEF DependenciesInv, InstalledFits
  <2> QED
    BY <2>1, <2>4, <2>5
<1> QED
  BY <1>1, <1>2

LEMMA BeginKeeps ==
  ASSUME DependenciesInv, Begin PROVE DependenciesInv'
<1>1. CASE Refuses
  BY <1>1, RefusesKeeps
<1>2. CASE ~Refuses
  <2>1. Walks([at |-> "all", todo |-> Edges(<<>>, Direct), reached |-> {}])
    BY <1>2 DEF Begin, Direct
  <2>2. WalkFits(Direct)'
    <3>1. Direct' = Direct
      BY <2>1, LockStays DEF Walks
    <3> QED
      BY <2>1, <3>1, WalkBegins
  <2> QED
    BY <2>1, <2>2, LockStays DEF DependenciesInv, InstalledFits, Walks
<1> QED
  BY <1>1, <1>2

LEMMA ReachedKeeps ==
  ASSUME DependenciesInv, Reached PROVE DependenciesInv'
<1>1. CASE Refuses
  BY <1>1, RefusesKeeps
<1>2. CASE ~Refuses
  <2>1. /\ walk.at = "all" /\ walk.todo = {} /\ walk.reached = DOMAIN lock
        /\ Walks([at |-> "production", todo |-> Edges(<<>>, root.needs), reached |-> {}])
    BY <1>2 DEF Reached
  <2>2. WalkFits(Direct)
    BY <2>1 DEF DependenciesInv
  <2>3. DOMAIN lock = Closure(Direct)
    BY <2>1, <2>2, WalkEnds
  <2>4. WalkFits(root.needs)'
    <3>1. root' = root
      BY <2>1 DEF Walks
    <3> QED
      BY <2>1, <3>1, WalkBegins
  <2> QED
    BY <2>1, <2>3, <2>4, LockStays DEF DependenciesInv, InstalledFits, Walks
<1> QED
  BY <1>1, <1>2

LEMMA RetainKeeps ==
  ASSUME DependenciesInv, Retain PROVE DependenciesInv'
<1>1. CASE Refuses
  BY <1>1, RefusesKeeps
<1>2. CASE ~Refuses
  <2>1. /\ walk.at = "production" /\ walk.todo = {} /\ \A p \in DOMAIN lock \ walk.reached : lock[p].dev
        /\ Walks([at |-> "retained", inventory |-> walk.reached])
    BY <1>2 DEF Retain
  <2>2. /\ WalkFits(root.needs) /\ DOMAIN lock = Closure(Direct) /\ \A p \in walk.reached : ~lock[p].dev
        /\ LockFits /\ InstalledFits
    BY <2>1 DEF DependenciesInv
  <2>3. PICK reached : reached = walk.reached
    OBVIOUS
  <2>4. Inventoried(reached)
    BY <2>1, <2>2, <2>3, WalkEnds DEF Inventoried, WalkFits
  <2>5. /\ walk' = [at |-> "retained", inventory |-> reached]
        /\ root' = root /\ lock' = lock /\ installed' = installed
    BY <2>1, <2>3 DEF Walks
  <2>6. Inventoried(reached)' /\ LockFits' /\ Closure(Direct)' = Closure(Direct)
    BY <2>2, <2>4, <2>5, LockStays
  <2> QED
    BY <2>2, <2>5, <2>6 DEF DependenciesInv, InstalledFits
<1> QED
  BY <1>1, <1>2

LEMMA InstallsKeeps ==
  ASSUME DependenciesInv, walk.at = "retained", NEW places, NEW listed,
         DOMAIN places \subseteq LockPlaces, listed \subseteq LockPlaces, Installs(places, listed)
  PROVE  DependenciesInv'
<1>1. PICK inventory : inventory = walk.inventory
  OBVIOUS
<1>2. /\ walk = [at |-> "retained", inventory |-> inventory]
      /\ Inventoried(inventory) /\ DOMAIN lock = Closure(Direct) /\ LockFits
  BY <1>1 DEF DependenciesInv
<1>3. /\ walk' = [at |-> "installed", inventory |-> inventory]
      /\ root' = root /\ lock' = lock /\ installed' = [places |-> places, listed |-> listed]
  BY <1>2 DEF Installs
<1>4. Inventoried(inventory)' /\ LockFits' /\ Closure(Direct)' = Closure(Direct)
  BY <1>2, <1>3, LockStays
<1> QED
  BY <1>2, <1>3, <1>4 DEF DependenciesInv, InstalledFits

LEMMA NpmInstallsKeeps ==
  ASSUME DependenciesInv, NpmInstalls PROVE DependenciesInv'
<1> DEFINE marked == {p \in DOMAIN lock : lock[p].dev}
           listed == DOMAIN lock \ marked
<1>1. walk.at = "retained" /\ listed \subseteq LockPlaces
  BY DEF NpmInstalls, DependenciesInv, LockFits
<1> HIDE DEF marked
<1>2. CASE Installs([p \in listed |-> lock[p].needs], listed)
  <2>1. DOMAIN [p \in listed |-> lock[p].needs] \subseteq LockPlaces
    BY <1>1
  <2> QED
    BY <1>1, <1>2, <2>1, InstallsKeeps
<1>3. ASSUME NEW p \in listed, Installs([q \in listed \ {p} |-> lock[q].needs], listed)
      PROVE  DependenciesInv'
  <2>1. DOMAIN [q \in listed \ {p} |-> lock[q].needs] \subseteq LockPlaces
    BY <1>1
  <2> QED
    BY <1>1, <1>3, <2>1, InstallsKeeps
<1>4. ASSUME NEW p \in listed, NEW names \in SUBSET PackageNames,
             Installs([q \in listed |-> IF q = p THEN names ELSE lock[q].needs], listed)
      PROVE  DependenciesInv'
  <2>1. DOMAIN [q \in listed |-> IF q = p THEN names ELSE lock[q].needs] \subseteq LockPlaces
    BY <1>1
  <2> QED
    BY <1>1, <1>4, <2>1, InstallsKeeps
<1>5. ASSUME NEW p \in LockPlaces \ listed,
             Installs([q \in listed \cup {p} |-> IF q = p THEN {} ELSE lock[q].needs], listed)
      PROVE  DependenciesInv'
  <2>1. DOMAIN [q \in listed \cup {p} |-> IF q = p THEN {} ELSE lock[q].needs] \subseteq LockPlaces
    BY <1>1
  <2> QED
    BY <1>1, <1>5, <2>1, InstallsKeeps
<1> QED
  BY <1>2, <1>3, <1>4, <1>5 DEF NpmInstalls, marked

LEMMA VerifyInstalledKeeps ==
  ASSUME DependenciesInv, VerifyInstalled PROVE DependenciesInv'
<1>1. CASE Refuses
  BY <1>1, RefusesKeeps
<1>2. CASE ~Refuses
  <2>1. PICK inventory : inventory = walk.inventory
    OBVIOUS
  <2>2. /\ walk = [at |-> "installed", inventory |-> inventory] /\ Matches
        /\ Inventoried(inventory) /\ DOMAIN lock = Closure(Direct) /\ LockFits /\ InstalledFits
    BY <1>2, <2>1 DEF VerifyInstalled, DependenciesInv
  <2>3. /\ walk' = [at |-> "verified", inventory |-> inventory]
        /\ root' = root /\ lock' = lock /\ installed' = installed
    BY <1>2, <2>2 DEF VerifyInstalled, Walks
  <2>4. Inventoried(inventory)' /\ LockFits' /\ Closure(Direct)' = Closure(Direct)
    BY <2>2, <2>3, LockStays
  <2>5. Matches'
    BY <2>2, <2>3 DEF Matches
  <2> QED
    BY <2>2, <2>3, <2>4, <2>5 DEF DependenciesInv, InstalledFits
<1> QED
  BY <1>1, <1>2

LEMMA DependenciesRest ==
  ASSUME DependenciesInv, UNCHANGED dependenciesVars PROVE DependenciesInv'
<1>1. walk' = walk /\ root' = root /\ lock' = lock /\ installed' = installed
  BY DEF dependenciesVars
<1>2. \A names : WalkFits(names)' = WalkFits(names)
  BY <1>1 DEF WalkFits, Leads, ClosedFor, Target, Resolve, Found
<1>3. Matches' = Matches
  BY <1>1 DEF Matches
<1>4. /\ LockFits' = LockFits /\ InstalledFits' = InstalledFits /\ Direct' = Direct
      /\ (\A names : Closure(names)' = Closure(names))
  BY <1>1 DEF LockFits, InstalledFits, Direct, Closure, Resolve, Found
<1>5. Inventoried(walk.inventory)' = Inventoried(walk.inventory)
  BY <1>1, <1>4 DEF Inventoried, Settled, Leads, Target, Resolve, Found
<1>6. WalkFits(Direct)' = WalkFits(Direct) /\ WalkFits(root.needs)' = WalkFits(root.needs)
  BY <1>1, <1>2, <1>4
<1>7. Closure(Direct)' = Closure(Direct)
  BY <1>4
<1> QED
  BY <1>1, <1>3, <1>4, <1>5, <1>6, <1>7 DEF DependenciesInv

LEMMA DependenciesStep == DependenciesInv /\ [DependenciesNext]_dependenciesVars => DependenciesInv'
  BY BeginKeeps, VisitEdgeKeeps, ReachedKeeps, RetainKeeps, NpmInstallsKeeps, VerifyInstalledKeeps, DependenciesRest
    DEF DependenciesNext

LEMMA InstalledFinds == DependenciesInv => InstalledResolves
<1> SUFFICES ASSUME DependenciesInv, walk.at = "verified",
                    NEW from \in DOMAIN installed.places \cup {<<>>},
                    NEW name \in (IF from = <<>> THEN root.needs ELSE installed.places[from])
             PROVE  /\ Found(DOMAIN installed.places, from, name) # {}
                    /\ Resolve(DOMAIN installed.places, from, name) = Resolve(DOMAIN lock, from, name)
  BY DEF InstalledResolves
<1>1. /\ Inventoried(walk.inventory) /\ Matches /\ LockFits
  BY DEF DependenciesInv
<1>2. DOMAIN installed.places = walk.inventory /\ walk.inventory \subseteq DOMAIN lock
  BY <1>1 DEF Matches, Inventoried
<1>3. Leads(from, name, walk.inventory)
  <2>1. CASE from = <<>>
    BY <1>1, <2>1 DEF Inventoried, Settled
  <2>2. CASE from # <<>>
    BY <1>1, <1>2, <2>2 DEF Inventoried, Settled, Matches
  <2> QED
    BY <2>1, <2>2
<1>4. from \in Seq(PackageNames)
  <2>1. <<>> \in Seq(PackageNames)
    OBVIOUS
  <2>2. LockPlaces \subseteq Seq(PackageNames) /\ DOMAIN installed.places \subseteq LockPlaces
    BY <1>1, <1>2, DependenciesAssumption DEF LockFits
  <2> QED
    BY <2>1, <2>2
<1> QED
  BY <1>2, <1>3, <1>4, ResolveWithout DEF Leads, Target

LEMMA LocksAreClosed == DependenciesInv => LockClosed /\ DependenciesTypeOK
<1> SUFFICES ASSUME DependenciesInv PROVE LockClosed /\ DependenciesTypeOK
  OBVIOUS
<1>1. LockClosed
  BY DEF DependenciesInv, LockClosed, Inventoried, Direct
<1>2. DependenciesTypeOK
  BY DEF DependenciesInv, DependenciesTypeOK, LockFits, InstalledFits
<1> QED
  BY <1>1, <1>2

LEMMA DependenciesStand == DependenciesSpec => [](LockClosed /\ InstalledResolves /\ DependenciesTypeOK)
<1>1. DependenciesInv => LockClosed /\ InstalledResolves /\ DependenciesTypeOK
  BY InstalledFinds, LocksAreClosed
<1> QED
  BY <1>1, DependenciesInitInv, DependenciesStep, PTL DEF DependenciesSpec
------------------------------------------------------------------------------
(* Artifacts: what is recorded of a product is what was found in its directory, which is
   nobody else's as long as the rehearsal runs; and an assembly begins only when that is
   over, with records that stay. *)
Values == Versions \cup {Altered, None}
LockOf(p, v) == IF p \in Locked THEN v ELSE None
Unrun(p, v) == [product |-> p, package |-> v, lock |-> LockOf(p, v), smoke |-> "PENDING", capabilities |-> None]
Ran(p, v) == [product |-> p, package |-> v, lock |-> LockOf(p, v), smoke |-> "PASSED",
              capabilities |-> <<v, LockOf(p, v)>>]
Recorded == {Ran(p, v) : p \in AllProducts, v \in Versions} \cup {Unrun(p, v) : p \in AllProducts, v \in Versions}
Capabilities == {<<v, l>> : v \in Versions, l \in Values}
Directories == [lock : Values, tarball : Values, extracted : Values, packageLock : Values, modules : Values]

Unrecorded == {"lock", "pack", "packed", "record"}
Recording == {"relock", "install", "installed", "smoke"}
Running == rehearsal.at \in {"expect"} \cup Unrecorded \cup Recording
AllPassed(packages) == \A i \in DOMAIN packages : Passed(packages[i])
Complete == ~manifest.error /\ Len(manifest.packages) = Len(Products) /\ AllPassed(manifest.packages)

RehearsalFits ==
  LET packages == rehearsal.report.packages IN
  /\ rehearsal.at \in {"expect", "done", "failed", "dead"} \cup Unrecorded \cup Recording
  /\ rehearsal.product \in 1 .. Len(Products)
  /\ rehearsal.report = [packages |-> packages, error |-> rehearsal.report.error] /\ packages \in Seq(Recorded)
  /\ Running => rehearsal.report.error = FALSE
  /\ rehearsal.at = "expect" =>
       rehearsal = [at |-> rehearsal.at, product |-> rehearsal.product, report |-> rehearsal.report]
  /\ rehearsal.at \in Unrecorded \cup Recording =>
       /\ rehearsal = [at |-> rehearsal.at, product |-> rehearsal.product, report |-> rehearsal.report,
                       expected |-> rehearsal.expected]
       /\ rehearsal.expected \in Versions
  /\ rehearsal.at \in {"expect"} \cup Unrecorded => Len(packages) = rehearsal.product - 1
  /\ rehearsal.at \in Recording =>
       Len(packages) = rehearsal.product /\ packages[rehearsal.product] = Unrun(Owner, rehearsal.expected)
  /\ rehearsal.at = "failed" => rehearsal.report.error

DirectoryFits ==
  /\ out \in [AllProducts -> Directories]
  /\ Running => \A p \in AllProducts \ Locked : out[p].lock = None /\ out[p].modules = None
  /\ rehearsal.at \in (Unrecorded \cup Recording) \ {"lock"} /\ Needs => Here.lock = rehearsal.expected
  /\ rehearsal.at \in {"record"} \cup Recording =>
       Here.tarball = rehearsal.expected /\ Here.extracted = rehearsal.expected
  /\ rehearsal.at \in Recording \ {"smoke"} => Needs
  /\ rehearsal.at = "smoke" /\ Needs => Here.modules = rehearsal.expected

ManifestFits ==
  \/ manifest = rehearsal.report
  \/ rehearsal.at = "dead" /\ manifest = Torn

AssemblyFits ==
  \/ assembly.at = "start" /\ bundle = NoBundle
  \/ assembly.at = "stopped" /\ bundle.whole = FALSE
  \/ /\ assembly = [at |-> assembly.at, packages |-> manifest.packages, app |-> assembly.app]
     /\ assembly.at \in {"package", "modules"} /\ rehearsal.at \in {"done", "dead"} /\ Complete
     /\ assembly.app \in Seq(Capabilities) /\ Len(assembly.app) <= Len(Products)
     /\ \A i \in 1 .. Len(assembly.app) : assembly.app[i] = manifest.packages[i].capabilities
     /\ assembly.at = "modules" => Len(assembly.app) < Len(Products) /\ NextPackage.product \in Locked
     /\ bundle = [app |-> bundle.app, whole |-> FALSE]
     /\ bundle.app \in Seq(Capabilities) /\ Len(bundle.app) <= Len(assembly.app)
     /\ \A i \in 1 .. Len(bundle.app) : bundle.app[i] = assembly.app[i]
  \/ /\ assembly.at = "done" /\ rehearsal.at \in {"done", "dead"} /\ Complete /\ bundle.whole = TRUE
     /\ \A i \in 1 .. Len(Products) : bundle.app[i] = manifest.packages[i].capabilities

ArtifactsInv ==
  /\ source \in [AllProducts -> [files : Versions, lock : Versions]]
  /\ RehearsalFits /\ DirectoryFits /\ ManifestFits /\ AssemblyFits

\* What EXCEPT makes of a report.
LEMMA ReportSet ==
  ASSUME NEW r, NEW packages, NEW error, NEW v, r = [packages |-> packages, error |-> error]
  PROVE  /\ [r EXCEPT !.error = v] = [packages |-> packages, error |-> v]
         /\ [r EXCEPT !.packages = v] = [packages |-> v, error |-> error]
  OBVIOUS

LEMMA OwnerIs == RehearsalFits => Owner \in AllProducts /\ DOMAIN Products = 1 .. Len(Products)
  BY ArtifactsAssumption DEF RehearsalFits, Owner, AllProducts

LEMMA ProductsAre == Len(Products) \in Nat \ {0} /\ DOMAIN Products = 1 .. Len(Products)
  BY ArtifactsAssumption

LEMMA ArtifactsInitInv == ArtifactsInit => ArtifactsInv
<1> SUFFICES ASSUME ArtifactsInit PROVE ArtifactsInv
  OBVIOUS
<1>1. 0 \in Versions /\ None \in Values
  BY ArtifactsAssumption DEF Versions, Values
<1>2. source \in [AllProducts -> [files : Versions, lock : Versions]]
  BY <1>1 DEF ArtifactsInit
<1>3. RehearsalFits
  <2> DEFINE false == FALSE
             report == [packages |-> <<>>, error |-> false]
  <2>1. rehearsal = [at |-> "expect", product |-> 1, report |-> report] /\ ~report.error
    BY DEF ArtifactsInit, NoReport
  <2>2. <<>> \in Seq(Recorded) /\ Len(<<>>) = 0 /\ 1 \in 1 .. Len(Products)
    BY ProductsAre
  <2>3. report = [packages |-> report.packages, error |-> report.error] /\ report.packages = <<>>
    <3> HIDE DEF false
    <3> QED
      OBVIOUS
  <2>4. "expect" \notin Unrecorded /\ "expect" \notin Recording
    BY DEF Unrecorded, Recording
  <2> HIDE DEF report
  <2>5. /\ rehearsal.at = "expect" /\ rehearsal.product = 1 /\ rehearsal.report = report
        /\ rehearsal = [at |-> rehearsal.at, product |-> rehearsal.product, report |-> rehearsal.report]
    BY <2>1
  <2>6. ~rehearsal.report.error /\ rehearsal.report.packages \in Seq(Recorded) /\ Len(rehearsal.report.packages) = 0
    BY <2>1, <2>2, <2>3, <2>5
  <2>7. rehearsal.report = [packages |-> rehearsal.report.packages, error |-> rehearsal.report.error]
    BY <2>3, <2>5
  <2> QED
    BY <2>2, <2>4, <2>5, <2>6, <2>7 DEF RehearsalFits
<1>4. DirectoryFits
  BY <1>1 DEF ArtifactsInit, DirectoryFits, Directories, Empty, Unrecorded, Recording
<1>5. ManifestFits
  BY DEF ArtifactsInit, ManifestFits
<1>6. AssemblyFits
  BY DEF ArtifactsInit, AssemblyFits
<1> QED
  BY <1>2, <1>3, <1>4, <1>5, <1>6 DEF ArtifactsInv

\* As long as the rehearsal runs, no assembly has found the manifest complete.
LEMMA CompleteAtEnd == ArtifactsInv /\ Complete => rehearsal.at \in {"done", "dead"}
<1> SUFFICES ASSUME ArtifactsInv, Complete, rehearsal.at # "dead", rehearsal.at # "done" PROVE FALSE
  OBVIOUS
<1>1. manifest = rehearsal.report /\ RehearsalFits
  BY DEF ArtifactsInv, ManifestFits
<1>2. rehearsal.at # "failed"
  BY <1>1 DEF Complete, RehearsalFits
<1>3. rehearsal.at \notin {"expect"} \cup Unrecorded
  BY <1>1, ProductsAre DEF Complete, RehearsalFits
<1>4. rehearsal.at \notin Recording
  <2>1. SUFFICES ASSUME rehearsal.at \in Recording PROVE FALSE
    OBVIOUS
  <2>2. /\ rehearsal.product \in DOMAIN manifest.packages
        /\ manifest.packages[rehearsal.product].smoke = "PENDING"
    BY <1>1, <2>1, ProductsAre DEF RehearsalFits, Unrun
  <2> QED
    BY <2>2 DEF Complete, AllPassed, Passed
<1> QED
  BY <1>1, <1>2, <1>3, <1>4 DEF RehearsalFits

\* A step of the rehearsal: there is no assembly under way that it could disturb.
LEMMA RehearsesKeeps ==
  ASSUME ArtifactsInv, Running, UNCHANGED <<source, assembly, bundle>>,
         RehearsalFits', DirectoryFits', ManifestFits'
  PROVE  ArtifactsInv'
<1>1. rehearsal.at \notin {"done", "dead"}
  BY DEF Running, Unrecorded, Recording
<1>2. AssemblyFits'
  BY <1>1 DEF ArtifactsInv, AssemblyFits, NoBundle
<1> QED
  BY <1>2 DEF ArtifactsInv

LEMMA RehearsalFailsKeeps ==
  ASSUME ArtifactsInv, Running, RehearsalFails PROVE ArtifactsInv'
<1> DEFINE report == [packages |-> rehearsal.report.packages, error |-> TRUE]
<1>1. RehearsalFits
  BY DEF ArtifactsInv
<1>2. [rehearsal.report EXCEPT !.error = TRUE] = report
  <2>1. rehearsal.report = [packages |-> rehearsal.report.packages, error |-> rehearsal.report.error]
    BY <1>1 DEF RehearsalFits
  <2> DEFINE true == TRUE
  <2>2. [rehearsal.report EXCEPT !.error = true] = [packages |-> rehearsal.report.packages, error |-> true]
    <3> HIDE DEF true
    <3> QED
      BY <2>1, ReportSet
  <2> QED
    BY <2>2
<1>3. /\ manifest' = report /\ rehearsal'.at = "failed" /\ rehearsal'.report = report
      /\ rehearsal'.product = rehearsal.product
      /\ UNCHANGED <<source, assembly, bundle, out>>
  BY <1>1, <1>2 DEF RehearsalFails, Saves, Rehearses, RehearsalFits, Running, Unrecorded, Recording
<1>4. RehearsalFits'
  BY <1>1, <1>3 DEF RehearsalFits, Running, Unrecorded, Recording, Recorded, Ran, Unrun, LockOf, AllProducts, Versions, None
<1>5. DirectoryFits'
  BY <1>3 DEF ArtifactsInv, DirectoryFits, Running, Unrecorded, Recording, Directories, Values, Versions, None, Altered
<1>6. ManifestFits'
  BY <1>3 DEF ManifestFits
<1> QED
  BY <1>3, <1>4, <1>5, <1>6, RehearsesKeeps

\* The rehearsal goes on to its next place with the same product and report.
LEMMA GoesKeeps ==
  ASSUME ArtifactsInv, rehearsal.at \in Unrecorded \cup Recording, NEW at, Goes(at),
         {rehearsal.at, at} \subseteq Unrecorded \/ {rehearsal.at, at} \subseteq Recording, DirectoryFits'
  PROVE  ArtifactsInv'
<1>1. RehearsalFits /\ ManifestFits
  BY DEF ArtifactsInv
<1>2. /\ rehearsal' = [at |-> at, product |-> rehearsal.product, report |-> rehearsal.report,
                       expected |-> rehearsal.expected]
      /\ UNCHANGED <<source, assembly, bundle, manifest>>
  BY <1>1 DEF Goes, Rehearses, RehearsalFits
<1>3. RehearsalFits'
  BY <1>1, <1>2 DEF RehearsalFits, Running, Unrecorded, Recording, Recorded, Ran, Unrun, LockOf, AllProducts, Versions, None, Owner
<1>4. ManifestFits'
  BY <1>1, <1>2 DEF ManifestFits, Unrecorded, Recording
<1> QED
  BY <1>2, <1>3, <1>4, RehearsesKeeps DEF Running

\* What an action writes into the directory of the product at hand.
LEMMA Written1 ==
  ASSUME ArtifactsInv, Running, NEW part \in {"lock", "tarball", "extracted", "packageLock"},
         NEW value \in Values, Writes(part, value), part = "lock" => Needs
  PROVE  /\ out' \in [AllProducts -> Directories] /\ Owner \in AllProducts
         /\ out'[Owner] = [Here EXCEPT ![part] = value]
         /\ \A p \in AllProducts \ Locked : out'[p].lock = None /\ out'[p].modules = None
<1>1. Owner \in AllProducts /\ out \in [AllProducts -> Directories]
  BY OwnerIs DEF ArtifactsInv, DirectoryFits
<1>2. out' = [out EXCEPT ![Owner] = [Here EXCEPT ![part] = value]]
  BY <1>1 DEF Writes, Here
<1>3. [Here EXCEPT ![part] = value] \in Directories
  BY <1>1 DEF Here, Directories
<1>4. \A p \in AllProducts \ Locked : out[p].lock = None /\ out[p].modules = None
  BY DEF ArtifactsInv, DirectoryFits
<1>5. ASSUME NEW p \in AllProducts \ Locked PROVE out'[p].lock = None /\ out'[p].modules = None
  <2>1. CASE p # Owner
    BY <1>1, <1>2, <1>4, <2>1
  <2>2. CASE p = Owner
    BY <1>1, <1>2, <1>4, <2>2 DEF Here, Needs, Directories
  <2> QED
    BY <2>1, <2>2
<1> QED
  BY <1>1, <1>2, <1>3, <1>5

LEMMA VersionsAre == Versions \subseteq Values /\ None \in Values /\ Altered \in Values /\ None \notin Versions
  BY ArtifactsAssumption DEF Versions, Values, None, Altered

LEMMA ExpectKeeps ==
  ASSUME ArtifactsInv, Expect PROVE ArtifactsInv'
<1> DEFINE expected == source[Owner].files
<1>1. RehearsalFits /\ ManifestFits /\ rehearsal.at = "expect" /\ Owner \in AllProducts
  BY OwnerIs DEF ArtifactsInv, Expect
<1>2. expected \in Versions
  BY <1>1 DEF ArtifactsInv
<1>3. /\ rehearsal' = [at |-> "lock", product |-> rehearsal.product, report |-> rehearsal.report, expected |-> expected]
      /\ UNCHANGED <<source, assembly, bundle, manifest, out>>
  BY DEF Expect, Rehearses
<1> HIDE DEF expected
<1>4. RehearsalFits'
  BY <1>1, <1>2, <1>3 DEF RehearsalFits, Running, Unrecorded, Recording, Recorded, Ran, Unrun, LockOf, AllProducts, Versions, None, Owner
<1>5. DirectoryFits'
  BY <1>1, <1>3 DEF ArtifactsInv, DirectoryFits, Running, Unrecorded, Recording, Directories, Values, Versions, None, Altered, Owner, Needs, Here
<1>6. ManifestFits'
  BY <1>1, <1>3 DEF ManifestFits
<1> QED
  BY <1>1, <1>3, <1>4, <1>5, <1>6, RehearsesKeeps DEF Running

\* How a step that goes on shows that the directories are as they should be there.
LEMMA DirectoryAt ==
  ASSUME NEW at, rehearsal' = [rehearsal EXCEPT !.at = at], rehearsal.at \in Unrecorded \cup Recording, RehearsalFits,
         at \in Unrecorded \cup Recording,
         out' \in [AllProducts -> Directories],
         \A p \in AllProducts \ Locked : out'[p].lock = None /\ out'[p].modules = None,
         at # "lock" /\ Needs => out'[Owner].lock = rehearsal.expected,
         at \in {"record"} \cup Recording =>
           out'[Owner].tarball = rehearsal.expected /\ out'[Owner].extracted = rehearsal.expected,
         at \in Recording \ {"smoke"} => Needs,
         at = "smoke" /\ Needs => out'[Owner].modules = rehearsal.expected
  PROVE  DirectoryFits'
<1>1. rehearsal' = [at |-> at, product |-> rehearsal.product, report |-> rehearsal.report, expected |-> rehearsal.expected]
  BY DEF RehearsalFits
<1>2. Owner' = Owner /\ Needs' = Needs /\ Here' = out'[Owner]
  BY <1>1 DEF Owner, Needs, Here
<1>3. Directories' = Directories /\ AllProducts' = AllProducts /\ None' = None
  BY DEF Directories, AllProducts, None, Values, Versions, Altered
<1> QED
  BY <1>1, <1>2, <1>3 DEF DirectoryFits, Unrecorded, Recording

LEMMA HereIs ==
  ASSUME ArtifactsInv, rehearsal.at \in Unrecorded \cup Recording
  PROVE  /\ RehearsalFits /\ Running /\ Owner \in AllProducts /\ rehearsal.expected \in Versions
         /\ out \in [AllProducts -> Directories] /\ Here \in Directories /\ Here = out[Owner]
         /\ source[Owner].lock \in Versions
         /\ \A p \in AllProducts \ Locked : out[p].lock = None /\ out[p].modules = None
         /\ rehearsal.at # "lock" /\ Needs => Here.lock = rehearsal.expected
         /\ rehearsal.at \in {"record"} \cup Recording =>
              Here.tarball = rehearsal.expected /\ Here.extracted = rehearsal.expected
         /\ rehearsal.at \in Recording \ {"smoke"} => Needs
<1>1. RehearsalFits /\ Running /\ Owner \in AllProducts /\ rehearsal.expected \in Versions
  BY OwnerIs DEF ArtifactsInv, RehearsalFits, Running
<1>2. out \in [AllProducts -> Directories] /\ Here = out[Owner]
  BY DEF ArtifactsInv, DirectoryFits, Here
<1>3. source[Owner].lock \in Versions
  BY <1>1 DEF ArtifactsInv
<1> QED
  BY <1>1, <1>2, <1>3 DEF ArtifactsInv, DirectoryFits

LEMMA KeepLockKeeps ==
  ASSUME ArtifactsInv, KeepLock PROVE ArtifactsInv'
<1>1. rehearsal.at = "lock" /\ rehearsal.at \in Unrecorded /\ Running
  BY DEF KeepLock, Unrecorded, Running
<1>2. CASE ~Needs
  <2>1. Goes("pack") /\ out' = out /\ rehearsal' = [rehearsal EXCEPT !.at = "pack"]
    BY <1>2 DEF KeepLock, Goes, Rehearses
  <2>2. DirectoryFits'
    BY <1>1, <1>2, <2>1, HereIs, DirectoryAt DEF Unrecorded, Recording
  <2> QED
    BY <1>1, <2>1, <2>2, GoesKeeps DEF Unrecorded
<1>3. CASE RehearsalFails
  BY <1>1, <1>3, RehearsalFailsKeeps
<1>4. CASE Needs /\ ~RehearsalFails
  <2>1. /\ source[Owner].lock = rehearsal.expected /\ Goes("pack") /\ Writes("lock", rehearsal.expected)
        /\ rehearsal' = [rehearsal EXCEPT !.at = "pack"]
    BY <1>4 DEF KeepLock, Goes, Rehearses
  <2>2. /\ out' \in [AllProducts -> Directories] /\ out'[Owner].lock = rehearsal.expected
        /\ \A p \in AllProducts \ Locked : out'[p].lock = None /\ out'[p].modules = None
    <3>1. rehearsal.expected \in Values /\ Here \in Directories
      BY <1>1, HereIs, VersionsAre
    <3>2. /\ out' \in [AllProducts -> Directories] /\ out'[Owner] = [Here EXCEPT !["lock"] = rehearsal.expected]
          /\ \A p \in AllProducts \ Locked : out'[p].lock = None /\ out'[p].modules = None
      BY <1>1, <1>4, <2>1, <3>1, Written1
    <3> QED
      BY <3>1, <3>2 DEF Directories
  <2>3. DirectoryFits'
    BY <1>1, <2>1, <2>2, HereIs, DirectoryAt DEF Unrecorded, Recording
  <2> QED
    BY <1>1, <2>1, <2>3, GoesKeeps DEF Unrecorded
<1> QED
  BY <1>2, <1>3, <1>4

LEMMA PackKeeps ==
  ASSUME ArtifactsInv, Pack PROVE ArtifactsInv'
<1>1. rehearsal.at = "pack" /\ rehearsal.at \in Unrecorded /\ Running
  BY DEF Pack, Unrecorded, Running
<1>2. PICK v \in Versions : Goes("packed") /\ Writes("tarball", v)
  BY DEF Pack
<1>3. /\ out' \in [AllProducts -> Directories] /\ out'[Owner].lock = Here.lock
      /\ \A p \in AllProducts \ Locked : out'[p].lock = None /\ out'[p].modules = None
  BY <1>1, <1>2, HereIs, Written1, VersionsAre DEF Directories
<1>4. rehearsal' = [rehearsal EXCEPT !.at = "packed"]
  BY <1>2 DEF Goes, Rehearses
<1>5. DirectoryFits'
  BY <1>1, <1>3, <1>4, HereIs, DirectoryAt DEF Unrecorded, Recording
<1> QED
  BY <1>1, <1>2, <1>5, GoesKeeps DEF Unrecorded

LEMMA CheckPackKeeps ==
  ASSUME ArtifactsInv, CheckPack PROVE ArtifactsInv'
<1>1. rehearsal.at = "packed" /\ rehearsal.at \in Unrecorded /\ Running
  BY DEF CheckPack, Unrecorded, Running
<1>2. CASE RehearsalFails
  BY <1>1, <1>2, RehearsalFailsKeeps
<1>3. CASE ~RehearsalFails
  <2>1. Here.tarball = rehearsal.expected /\ Goes("record") /\ Writes("extracted", rehearsal.expected)
    BY <1>3 DEF CheckPack
  <2>2. /\ out' \in [AllProducts -> Directories] /\ out'[Owner].lock = Here.lock
        /\ out'[Owner].tarball = rehearsal.expected /\ out'[Owner].extracted = rehearsal.expected
        /\ \A p \in AllProducts \ Locked : out'[p].lock = None /\ out'[p].modules = None
    <3>1. rehearsal.expected \in Values /\ Here \in Directories
      BY <1>1, HereIs, VersionsAre
    <3>2. /\ out' \in [AllProducts -> Directories] /\ out'[Owner] = [Here EXCEPT !["extracted"] = rehearsal.expected]
          /\ \A p \in AllProducts \ Locked : out'[p].lock = None /\ out'[p].modules = None
      BY <1>1, <2>1, <3>1, Written1
    <3> QED
      BY <2>1, <3>1, <3>2 DEF Directories
  <2>3. rehearsal' = [rehearsal EXCEPT !.at = "record"]
    BY <2>1 DEF Goes, Rehearses
  <2>4. DirectoryFits'
    BY <1>1, <2>2, <2>3, HereIs, DirectoryAt DEF Unrecorded, Recording
  <2> QED
    BY <1>1, <2>1, <2>4, GoesKeeps DEF Unrecorded
<1> QED
  BY <1>2, <1>3

LEMMA RelockKeeps ==
  ASSUME ArtifactsInv, Relock PROVE ArtifactsInv'
<1>1. rehearsal.at = "relock" /\ rehearsal.at \in Recording /\ Running
  BY DEF Relock, Recording, Running
<1>2. CASE RehearsalFails
  BY <1>1, <1>2, RehearsalFailsKeeps
<1>3. CASE ~RehearsalFails
  <2>1. Goes("install") /\ Writes("packageLock", Here.lock) /\ Here.lock \in Values
    BY <1>1, <1>3, HereIs DEF Relock, Directories
  <2>2. /\ out' \in [AllProducts -> Directories] /\ out'[Owner].lock = Here.lock
        /\ out'[Owner].tarball = Here.tarball /\ out'[Owner].extracted = Here.extracted
        /\ \A p \in AllProducts \ Locked : out'[p].lock = None /\ out'[p].modules = None
    BY <1>1, <2>1, HereIs, Written1 DEF Directories
  <2>3. rehearsal' = [rehearsal EXCEPT !.at = "install"]
    BY <2>1 DEF Goes, Rehearses
  <2>4. DirectoryFits'
    BY <1>1, <2>2, <2>3, HereIs, DirectoryAt DEF Unrecorded, Recording
  <2> QED
    BY <1>1, <2>1, <2>4, GoesKeeps DEF Recording
<1> QED
  BY <1>2, <1>3

LEMMA InstallKeeps ==
  ASSUME ArtifactsInv, Install PROVE ArtifactsInv'
<1>1. rehearsal.at = "install" /\ rehearsal.at \in Recording /\ Running /\ Needs
  BY HereIs DEF Install, Recording, Running
<1>2. PICK v, w \in {Here.packageLock, Altered} :
        /\ out' = [out EXCEPT ![Owner] = [@ EXCEPT !.packageLock = v, !.modules = w]] /\ Goes("installed")
  BY DEF Install
<1> DEFINE d == [Here EXCEPT !.packageLock = v, !.modules = w]
<1>3. v \in Values /\ w \in Values
  BY <1>1, <1>2, HereIs, VersionsAre DEF Directories
<1>4. /\ d \in Directories /\ d.lock = Here.lock /\ d.tarball = Here.tarball /\ d.extracted = Here.extracted
      /\ out' = [out EXCEPT ![Owner] = d]
  BY <1>1, <1>2, <1>3, HereIs DEF Directories
<1> HIDE DEF d
<1>5. /\ out' \in [AllProducts -> Directories] /\ out'[Owner] = d
      /\ \A p \in AllProducts \ Locked : out'[p].lock = None /\ out'[p].modules = None
  BY <1>1, <1>4, HereIs DEF Needs
<1>6. rehearsal' = [rehearsal EXCEPT !.at = "installed"]
  BY <1>2 DEF Goes, Rehearses
<1>7. DirectoryFits'
  BY <1>1, <1>4, <1>5, <1>6, HereIs, DirectoryAt DEF Unrecorded, Recording
<1> QED
  BY <1>1, <1>2, <1>7, GoesKeeps DEF Recording

LEMMA CheckInstalledKeeps ==
  ASSUME ArtifactsInv, CheckInstalled PROVE ArtifactsInv'
<1>1. rehearsal.at = "installed" /\ rehearsal.at \in Recording /\ Running
  BY DEF CheckInstalled, Recording, Running
<1>2. CASE RehearsalFails
  BY <1>1, <1>2, RehearsalFailsKeeps
<1>3. CASE ~RehearsalFails
  <2>1. Goes("smoke") /\ out' = out /\ Here.modules = Here.lock
    BY <1>3 DEF CheckInstalled
  <2>2. rehearsal' = [rehearsal EXCEPT !.at = "smoke"]
    BY <2>1 DEF Goes, Rehearses
  <2>3. DirectoryFits'
    BY <1>1, <2>1, <2>2, HereIs, DirectoryAt DEF Unrecorded, Recording
  <2> QED
    BY <1>1, <2>1, <2>3, GoesKeeps DEF Recording
<1> QED
  BY <1>2, <1>3

\* What a record of Recorded is.
LEMMA RecordsAre ==
  ASSUME NEW r \in Recorded
  PROVE  /\ Passed(r) => /\ r.capabilities = <<r.package, r.lock>> /\ r.package \in Versions
                         /\ r.lock = (IF r.product \in Locked THEN r.package ELSE None)
                         /\ r.capabilities \in Capabilities
<1>1. \A p \in AllProducts, v \in Versions : LockOf(p, v) \in Values
  BY VersionsAre DEF LockOf
<1>2. CASE \E p \in AllProducts, v \in Versions : r = Ran(p, v)
  BY <1>1, <1>2 DEF Ran, LockOf, Capabilities
<1>3. CASE \E p \in AllProducts, v \in Versions : r = Unrun(p, v)
  BY <1>3 DEF Unrun, Passed
<1> QED
  BY <1>2, <1>3 DEF Recorded

LEMMA RecordKeeps ==
  ASSUME ArtifactsInv, Record PROVE ArtifactsInv'
<1> DEFINE packages == rehearsal.report.packages
           new == Unrun(Owner, rehearsal.expected)
           at == IF Needs THEN "relock" ELSE "smoke"
<1>1. rehearsal.at = "record" /\ rehearsal.at \in Unrecorded /\ Running /\ RehearsalFits
  BY DEF Record, Unrecorded, Running, ArtifactsInv
<1>2. /\ packages \in Seq(Recorded) /\ Len(packages) = rehearsal.product - 1 /\ rehearsal.product \in 1 .. Len(Products)
      /\ rehearsal.report = [packages |-> packages, error |-> FALSE]
      /\ rehearsal = [at |-> "record", product |-> rehearsal.product, report |-> rehearsal.report,
                      expected |-> rehearsal.expected]
  <2>1. /\ packages \in Seq(Recorded) /\ Len(packages) = rehearsal.product - 1 /\ rehearsal.product \in 1 .. Len(Products)
    BY <1>1 DEF RehearsalFits
  <2>2. rehearsal.report = [packages |-> packages, error |-> rehearsal.report.error] /\ rehearsal.report.error = FALSE
    BY <1>1 DEF RehearsalFits
  <2>3. rehearsal = [at |-> "record", product |-> rehearsal.product, report |-> rehearsal.report,
                     expected |-> rehearsal.expected]
    BY <1>1 DEF RehearsalFits
  <2> QED
    BY <2>1, <2>2, <2>3
<1>3. /\ Owner \in AllProducts /\ rehearsal.expected \in Versions
      /\ Here.tarball = rehearsal.expected /\ Here.lock = LockOf(Owner, rehearsal.expected)
  BY <1>1, HereIs DEF LockOf, Needs
<1>4. new = [product |-> Owner, package |-> Here.tarball, lock |-> Here.lock,
             smoke |-> "PENDING", capabilities |-> None]
  BY <1>3 DEF Unrun
<1>5. new \in Recorded
  BY <1>3 DEF Recorded
<1> DEFINE report == [packages |-> Append(packages, new), error |-> FALSE]
<1>6. [rehearsal.report EXCEPT !.packages = Append(@, new)] = report
  <2> DEFINE false == FALSE
             grown == Append(packages, new)
  <2>1. rehearsal.report = [packages |-> packages, error |-> false]
    BY <1>2
  <2>2. [rehearsal.report EXCEPT !.packages = grown] = [packages |-> grown, error |-> false]
    <3> HIDE DEF false, grown, packages
    <3> QED
      BY <2>1, ReportSet
  <2> QED
    BY <2>2
<1>7. /\ manifest' = report /\ UNCHANGED <<source, assembly, bundle, out>>
      /\ rehearsal' = [[rehearsal EXCEPT !.at = at] EXCEPT !.report = report]
  BY <1>4, <1>6 DEF Record, Saves, Rehearses
<1>8. rehearsal' = [at |-> at, product |-> rehearsal.product, report |-> report, expected |-> rehearsal.expected]
  <2> HIDE DEF report, at
  <2> QED
    BY <1>2, <1>7
<1>9. /\ Append(packages, new) \in Seq(Recorded) /\ Len(Append(packages, new)) = rehearsal.product
      /\ Append(packages, new)[rehearsal.product] = new
  <2> HIDE DEF packages, new
  <2> QED
    BY <1>2, <1>5
<1>10. Owner' = Owner /\ Recorded' = Recorded /\ Unrun(Owner, rehearsal.expected)' = new /\ Versions' = Versions
  BY <1>8 DEF Owner, Recorded, Ran, Unrun, LockOf, AllProducts, Versions, None
<1>11. at \in Recording
  BY DEF Recording
<1>12. RehearsalFits'
  <2> DEFINE grown == Append(packages, new)
  <2>1. /\ rehearsal'.report.packages = grown /\ rehearsal'.report = report
        /\ rehearsal'.product = rehearsal.product /\ rehearsal'.at = at /\ rehearsal'.expected = rehearsal.expected
        /\ report.error = FALSE
    BY <1>8
  <2> HIDE DEF grown, at, new, packages
  <2> QED
    BY <1>2, <1>3, <1>8, <1>9, <1>10, <1>11, <2>1 DEF RehearsalFits, Recording, Unrecorded, grown
<1>13. DirectoryFits'
  <2>1. Needs' = Needs /\ Here' = Here
    BY <1>7, <1>10 DEF Needs, Here
  <2>2. Directories' = Directories /\ AllProducts' = AllProducts /\ None' = None
    BY DEF Directories, AllProducts, None, Values, Versions, Altered
  <2> HIDE DEF report
  <2> QED
    BY <1>1, <1>7, <1>8, <2>1, <2>2, HereIs DEF DirectoryFits, LockOf, Unrecorded, Recording
<1>14. ManifestFits'
  BY <1>7, <1>8 DEF ManifestFits
<1> QED
  BY <1>1, <1>7, <1>12, <1>13, <1>14, RehearsesKeeps

\* What Smoke makes of the record of its product.
Marked(r, n, c) == [r EXCEPT !.packages[n].smoke = "PASSED", !.packages[n].capabilities = c]

LEMMA RecordPassed ==
  ASSUME NEW r, NEW q \in Seq(Recorded), NEW error, r = [packages |-> q, error |-> error],
         NEW p, NEW v, NEW n \in 1 .. Len(q), q[n] = Unrun(p, v)
  PROVE  Marked(r, n, <<v, LockOf(p, v)>>) = [packages |-> [q EXCEPT ![n] = Ran(p, v)], error |-> error]
<1> DEFINE half == [q[n] EXCEPT !.smoke = "PASSED"]
           first == [q EXCEPT ![n] = half]
<1>1. [half EXCEPT !.capabilities = <<v, LockOf(p, v)>>] = Ran(p, v)
  <2>1. half = [product |-> p, package |-> v, lock |-> LockOf(p, v), smoke |-> "PASSED", capabilities |-> None]
    BY DEF Unrun
  <2> HIDE DEF half
  <2> QED
    BY <2>1 DEF Ran
<1>2. [r EXCEPT !.packages[n].smoke = "PASSED"] = [packages |-> first, error |-> error]
  OBVIOUS
<1>3. n \in DOMAIN q /\ DOMAIN first = DOMAIN q /\ first[n] = half
  OBVIOUS
<1>4. [first EXCEPT ![n] = Ran(p, v)] = [q EXCEPT ![n] = Ran(p, v)]
  BY <1>3
<1>5. [r EXCEPT !.packages[n].smoke = "PASSED", !.packages[n].capabilities = <<v, LockOf(p, v)>>]
        = [[r EXCEPT !.packages[n].smoke = "PASSED"] EXCEPT !.packages[n].capabilities = <<v, LockOf(p, v)>>]
  OBVIOUS
<1> HIDE DEF half, first
<1>6. [[packages |-> first, error |-> error] EXCEPT !.packages[n].capabilities = <<v, LockOf(p, v)>>]
        = [packages |-> [first EXCEPT ![n] = [first[n] EXCEPT !.capabilities = <<v, LockOf(p, v)>>]], error |-> error]
  OBVIOUS
<1> QED
  BY <1>1, <1>2, <1>3, <1>4, <1>5, <1>6 DEF Marked

LEMMA SmokeKeeps ==
  ASSUME ArtifactsInv, Smoke PROVE ArtifactsInv'
<1> DEFINE packages == rehearsal.report.packages
           n == rehearsal.product
           ran == Ran(Owner, rehearsal.expected)
           now == [packages EXCEPT ![n] = ran]
           false == FALSE
           report == [packages |-> now, error |-> false]
           last == n = Len(Products)
           at == IF last THEN "done" ELSE "expect"
           product == n + (IF last THEN 0 ELSE 1)
<1>1. rehearsal.at = "smoke" /\ rehearsal.at \in Recording /\ Running /\ RehearsalFits
  BY DEF Smoke, Recording, Running, ArtifactsInv
<1>2. /\ packages \in Seq(Recorded) /\ Len(packages) = n /\ n \in 1 .. Len(Products)
      /\ packages[n] = Unrun(Owner, rehearsal.expected)
      /\ rehearsal.report = [packages |-> packages, error |-> false]
  <2>1. packages \in Seq(Recorded) /\ Len(packages) = n /\ n \in 1 .. Len(Products) /\ packages[n] = Unrun(Owner, rehearsal.expected)
    BY <1>1 DEF RehearsalFits
  <2>2. rehearsal.report = [packages |-> packages, error |-> rehearsal.report.error] /\ rehearsal.report.error = FALSE
    BY <1>1 DEF RehearsalFits
  <2>3. rehearsal.report = [packages |-> packages, error |-> FALSE]
    BY <2>2
  <2> QED
    BY <2>1, <2>3
<1>3. /\ Owner \in AllProducts /\ rehearsal.expected \in Versions
      /\ smokePackage(Here.extracted, Here.modules) = <<rehearsal.expected, LockOf(Owner, rehearsal.expected)>>
  <2>1. Needs => Here.modules = rehearsal.expected
    BY <1>1 DEF ArtifactsInv, DirectoryFits
  <2> QED
    BY <1>1, <2>1, HereIs DEF LockOf, Needs, smokePackage
<1>4. [rehearsal.report EXCEPT !.packages[n].smoke = "PASSED",
                               !.packages[n].capabilities = smokePackage(Here.extracted, Here.modules)] = report
  <2> DEFINE r == rehearsal.report
             v == rehearsal.expected
             c == smokePackage(Here.extracted, Here.modules)
  <2> HIDE DEF packages, n, false, r, v, c
  <2>1. n \in 1 .. Len(packages) /\ r = [packages |-> packages, error |-> false]
    BY <1>2 DEF r
  <2>2. packages \in Seq(Recorded) /\ packages[n] = Unrun(Owner, v)
    BY <1>2 DEF v
  <2>3. Marked(r, n, <<v, LockOf(Owner, v)>>) = [packages |-> [packages EXCEPT ![n] = Ran(Owner, v)], error |-> false]
    BY <2>1, <2>2, RecordPassed
  <2>4. c = <<v, LockOf(Owner, v)>>
    BY <1>3 DEF c, v
  <2>5. [r EXCEPT !.packages[n].smoke = "PASSED", !.packages[n].capabilities = c] = report
    BY <2>3, <2>4 DEF v, Marked
  <2> QED
    BY <2>5 DEF r, c
<1>5. /\ manifest' = report /\ UNCHANGED <<source, assembly, bundle, out>>
      /\ rehearsal' = [[at |-> at, report |-> report, product |-> product] EXCEPT !.report = report]
  <2> HIDE DEF report, at, product
  <2>1. Len(rehearsal.report.packages) = n
    BY <1>2
  <2> QED
    BY <1>4, <2>1 DEF Smoke, Saves, Rehearses, at, product
<1>6. rehearsal' = [at |-> at, product |-> product, report |-> report]
  <2> HIDE DEF report, at, product
  <2> QED
    BY <1>5
<1>7. now \in Seq(Recorded) /\ Len(now) = n
  <2>1. ran \in Recorded
    BY <1>3 DEF Recorded
  <2> HIDE DEF ran, packages, n
  <2> QED
    BY <1>2, <2>1
<1>8. /\ product \in 1 .. Len(Products) /\ at \in {"expect", "done"} /\ (at = "expect" => n = product - 1)
  BY <1>2, ProductsAre
<1>9. report = [packages |-> report.packages, error |-> report.error] /\ report.packages = now /\ ~report.error
  BY DEF report
<1>10. Recorded' = Recorded
  BY DEF Recorded, Ran, Unrun, LockOf, AllProducts, Versions, None
<1>11. RehearsalFits'
  <2> HIDE DEF at, product, report, now, n
  <2>1. /\ rehearsal'.at = at /\ rehearsal'.product = product /\ rehearsal'.report = report
        /\ rehearsal' = [at |-> rehearsal'.at, product |-> rehearsal'.product, report |-> rehearsal'.report]
    BY <1>6
  <2> QED
    BY <1>7, <1>8, <1>9, <1>10, <2>1 DEF RehearsalFits, Unrecorded, Recording
<1>12. DirectoryFits'
  <2> HIDE DEF at, product, report
  <2>1. out \in [AllProducts -> Directories] /\ \A p \in AllProducts \ Locked : out[p].lock = None /\ out[p].modules = None
    BY <1>1, HereIs
  <2>2. Directories' = Directories /\ AllProducts' = AllProducts /\ None' = None
    BY DEF Directories, AllProducts, None, Values, Versions, Altered
  <2> QED
    BY <1>5, <1>6, <1>8, <2>1, <2>2 DEF DirectoryFits, Unrecorded, Recording
<1>13. ManifestFits'
  <2> HIDE DEF at, product, report
  <2> QED
    BY <1>5, <1>6 DEF ManifestFits
<1> QED
  BY <1>1, <1>5, <1>11, <1>12, <1>13, RehearsesKeeps

LEMMA DiesKeeps ==
  ASSUME ArtifactsInv, Dies PROVE ArtifactsInv'
<1>1. RehearsalFits /\ ManifestFits /\ DirectoryFits /\ Running
  BY DEF ArtifactsInv, Dies, RehearsalFits, Running
<1>2. /\ rehearsal'.at = "dead" /\ rehearsal'.report = rehearsal.report /\ rehearsal'.product = rehearsal.product
      /\ manifest' \in {manifest, Torn} /\ UNCHANGED <<source, assembly, bundle, out>>
  BY <1>1 DEF Dies, Rehearses, RehearsalFits, Running
<1>3. RehearsalFits'
  BY <1>1, <1>2 DEF RehearsalFits, Running, Unrecorded, Recording, Recorded, Ran, Unrun, LockOf, AllProducts, Versions, None
<1>4. DirectoryFits'
  BY <1>1, <1>2 DEF DirectoryFits, Running, Unrecorded, Recording, Directories, Values, Versions, None, Altered, AllProducts
<1>5. ManifestFits'
  BY <1>1, <1>2 DEF ManifestFits, Running, Unrecorded, Recording, Torn
<1> QED
  BY <1>1, <1>2, <1>3, <1>4, <1>5, RehearsesKeeps

\* A step that has nothing to do with the rehearsal.
LEMMA OthersKeep ==
  ASSUME ArtifactsInv, UNCHANGED <<manifest, rehearsal>>, AssemblyFits',
         source' \in [AllProducts -> [files : Versions, lock : Versions]],
         out' = out \/ (~Running /\ out' \in [AllProducts -> Directories])
  PROVE  ArtifactsInv'
<1>1. RehearsalFits'
  BY DEF ArtifactsInv, RehearsalFits, Running, Recorded, Ran, Unrun, LockOf, AllProducts, Versions, None, Owner
<1>2. DirectoryFits'
  BY DEF ArtifactsInv, DirectoryFits, Running, Unrecorded, Recording, Directories, Values, Versions, None, Altered, AllProducts,
         Owner, Needs, Here
<1>3. ManifestFits'
  BY DEF ArtifactsInv, ManifestFits, Torn
<1>4. AllProducts' = AllProducts /\ Versions' = Versions
  BY DEF AllProducts, Versions
<1> QED
  BY <1>1, <1>2, <1>3, <1>4 DEF ArtifactsInv

LEMMA AssemblyStays ==
  ASSUME AssemblyFits, UNCHANGED <<manifest, rehearsal, assembly, bundle>> PROVE AssemblyFits'
<1>1. Complete' = Complete /\ NextPackage' = NextPackage /\ NoBundle' = NoBundle /\ Capabilities' = Capabilities
  BY DEF Complete, AllPassed, Passed, NextPackage, NoBundle, Capabilities, Values, Versions, None, Altered
<1> QED
  BY <1>1 DEF AssemblyFits

LEMMA DevelopKeeps ==
  ASSUME ArtifactsInv, Develop PROVE ArtifactsInv'
<1>1. PICK p \in AllProducts, part \in {"files", "lock"} :
        source[p][part] < MaxVersion /\ source' = [source EXCEPT ![p][part] = @ + 1]
  BY DEF Develop
<1>2. source \in [AllProducts -> [files : Versions, lock : Versions]]
  BY DEF ArtifactsInv
<1>3. source[p][part] + 1 \in Versions
  BY <1>1, <1>2, ArtifactsAssumption DEF Versions
<1>4. source' \in [AllProducts -> [files : Versions, lock : Versions]]
  BY <1>1, <1>2, <1>3
<1> QED
  BY <1>4, OthersKeep, AssemblyStays DEF Develop, ArtifactsInv

LEMMA AlterKeeps ==
  ASSUME ArtifactsInv, Alter PROVE ArtifactsInv'
<1>1. PICK p \in AllProducts, part \in {"lock", "tarball", "extracted", "packageLock", "modules"} :
        out' = [out EXCEPT ![p][part] = Altered]
  BY DEF Alter, Empty
<1>2. out \in [AllProducts -> Directories]
  BY DEF ArtifactsInv, DirectoryFits
<1>3. out' \in [AllProducts -> Directories]
  BY <1>1, <1>2, VersionsAre DEF Directories
<1>4. ~Running
  BY DEF Alter, Running, Unrecorded, Recording
<1> QED
  BY <1>3, <1>4, OthersKeep, AssemblyStays DEF Alter, ArtifactsInv

LEMMA ProcessFailsKeeps ==
  ASSUME ArtifactsInv, ProcessFails PROVE ArtifactsInv'
<1>1. Running /\ RehearsalFails
  BY DEF ProcessFails, Running, Unrecorded, Recording
<1> QED
  BY <1>1, RehearsalFailsKeeps

\* A step of the assembly.
LEMMA AssemblesKeeps ==
  ASSUME ArtifactsInv, UNCHANGED <<source, out, manifest, rehearsal>>, AssemblyFits'
  PROVE  ArtifactsInv'
  BY OthersKeep DEF ArtifactsInv

LEMMA AssemblyStopsKeeps ==
  ASSUME ArtifactsInv, assembly.at \in {"start", "package", "modules"}, AssemblyStops
  PROVE  ArtifactsInv'
<1>1. bundle.whole = FALSE
  <2>1. CASE bundle = NoBundle
    BY <2>1 DEF NoBundle
  <2>2. CASE bundle = [app |-> bundle.app, whole |-> FALSE]
    BY <2>2
  <2> QED
    BY <2>1, <2>2 DEF ArtifactsInv, AssemblyFits
<1>2. AssemblyFits'
  BY <1>1 DEF AssemblyStops, Assembles, AssemblyFits
<1> QED
  BY <1>2, AssemblesKeeps DEF AssemblyStops, Assembles

\* What a complete manifest has.
LEMMA CompleteIs ==
  ASSUME ArtifactsInv, Complete
  PROVE  /\ manifest.packages \in Seq(Recorded) /\ Len(manifest.packages) = Len(Products)
         /\ \A i \in 1 .. Len(Products) :
              LET r == manifest.packages[i] IN
              /\ Passed(r) /\ r.capabilities = <<r.package, r.lock>> /\ r.capabilities \in Capabilities
              /\ r.lock = IF r.product \in Locked THEN r.package ELSE None
<1>1. manifest = rehearsal.report
  BY DEF ArtifactsInv, ManifestFits, Complete, Torn
<1>2. manifest.packages \in Seq(Recorded) /\ Len(manifest.packages) = Len(Products)
  BY <1>1 DEF ArtifactsInv, RehearsalFits, Complete
<1>3. ASSUME NEW i \in 1 .. Len(Products) PROVE manifest.packages[i] \in Recorded /\ Passed(manifest.packages[i])
  <2>1. i \in DOMAIN manifest.packages
    BY <1>2
  <2> QED
    BY <1>2, <2>1 DEF Complete, AllPassed
<1> QED
  BY <1>2, <1>3, RecordsAre

\* What is known while an assembly is under way.
LEMMA AssemblyIs ==
  ASSUME ArtifactsInv, assembly.at \in {"package", "modules"}
  PROVE  /\ assembly = [at |-> assembly.at, packages |-> manifest.packages, app |-> assembly.app]
         /\ rehearsal.at \in {"done", "dead"} /\ Complete
         /\ assembly.app \in Seq(Capabilities) /\ Len(assembly.app) <= Len(Products)
         /\ \A i \in 1 .. Len(assembly.app) : assembly.app[i] = manifest.packages[i].capabilities
         /\ assembly.at = "modules" => Len(assembly.app) < Len(Products) /\ NextPackage.product \in Locked
         /\ bundle = [app |-> bundle.app, whole |-> FALSE]
         /\ bundle.app \in Seq(Capabilities) /\ Len(bundle.app) <= Len(assembly.app)
         /\ \A i \in 1 .. Len(bundle.app) : bundle.app[i] = assembly.app[i]
         /\ assembly.packages = manifest.packages
  BY DEF ArtifactsInv, AssemblyFits

\* The next product, with what it can, is taken.
LEMMA AppGrows ==
  ASSUME ArtifactsInv, assembly.at \in {"package", "modules"}, Len(assembly.app) < Len(Products),
         NEW c, c = NextPackage.capabilities,
         assembly' = [at |-> "package", packages |-> assembly.packages, app |-> Append(assembly.app, c)],
         UNCHANGED <<source, out, manifest, rehearsal, bundle>>
  PROVE  ArtifactsInv'
<1> DEFINE n == Len(assembly.app)
<1>1. n \in Nat /\ n + 1 \in 1 .. Len(Products)
  BY AssemblyIs, ProductsAre
<1>2. NextPackage = manifest.packages[n + 1]
  BY AssemblyIs DEF NextPackage
<1>3. c \in Capabilities
  BY <1>1, <1>2, AssemblyIs, CompleteIs
<1> DEFINE app == Append(assembly.app, c)
<1>4. /\ app \in Seq(Capabilities) /\ Len(app) = n + 1 /\ app[n + 1] = c
      /\ \A i \in 1 .. n : app[i] = assembly.app[i]
  BY <1>1, <1>3, AssemblyIs
<1> HIDE DEF app
<1>5. \A i \in 1 .. Len(app) : app[i] = manifest.packages[i].capabilities
  <2> SUFFICES ASSUME NEW i \in 1 .. n + 1 PROVE app[i] = manifest.packages[i].capabilities
    BY <1>4
  <2>1. CASE i = n + 1
    BY <1>2, <1>4, <2>1
  <2>2. CASE i # n + 1
    BY <1>1, <1>4, <2>2, AssemblyIs
  <2> QED
    BY <2>1, <2>2
<1>6. assembly'.at = "package" /\ assembly'.app = app /\ assembly' = [at |-> "package", packages |-> manifest.packages, app |-> app]
  BY AssemblyIs DEF app
<1>7. Complete' = Complete /\ Capabilities' = Capabilities
  BY DEF Complete, AllPassed, Passed, Capabilities, Values, Versions, None, Altered
<1>8. Len(bundle.app) <= Len(app) /\ \A i \in 1 .. Len(bundle.app) : bundle.app[i] = app[i]
  <2>1. Len(bundle.app) \in Nat /\ Len(bundle.app) <= n
    BY AssemblyIs
  <2>2. \A i \in 1 .. Len(bundle.app) : i \in 1 .. n
    BY <1>1, <2>1
  <2> QED
    BY <1>1, <1>4, <2>1, <2>2, AssemblyIs
<1>9. AssemblyFits'
  <2>1. app \in Seq(Capabilities') /\ Len(app) <= Len(Products)
    BY <1>1, <1>4, <1>7
  <2>2. /\ rehearsal'.at \in {"done", "dead"} /\ Complete' /\ bundle' = [app |-> bundle'.app, whole |-> FALSE]
        /\ bundle'.app \in Seq(Capabilities')
    BY <1>7, AssemblyIs
  <2>3. bundle' = bundle /\ manifest' = manifest /\ assembly'.at # "modules"
    BY <1>6
  <2> QED
    BY <1>5, <1>6, <1>8, <2>1, <2>2, <2>3 DEF AssemblyFits
<1> QED
  BY <1>9, AssemblesKeeps

LEMMA ReadManifestKeeps ==
  ASSUME ArtifactsInv, ReadManifest PROVE ArtifactsInv'
<1>1. assembly.at = "start" /\ bundle = NoBundle
  BY DEF ArtifactsInv, AssemblyFits, ReadManifest
<1>2. CASE AssemblyStops
  BY <1>1, <1>2, AssemblyStopsKeeps
<1>3. CASE ~AssemblyStops
  <2>1. /\ Complete /\ UNCHANGED <<source, out, manifest, rehearsal, bundle>>
        /\ assembly' = [at |-> "package", packages |-> manifest.packages, app |-> <<>>]
    BY <1>3 DEF ReadManifest, Assembles, Complete, AllPassed
  <2>2. rehearsal.at \in {"done", "dead"}
    BY <2>1, CompleteAtEnd
  <2>3. Complete' = Complete /\ Capabilities' = Capabilities
    BY <2>1 DEF Complete, AllPassed, Passed, Capabilities, Values, Versions, None, Altered
  <2>4. <<>> \in Seq(Capabilities) /\ Len(<<>>) = 0
    OBVIOUS
  <2>5. bundle = [app |-> <<>>, whole |-> FALSE] /\ bundle.app = <<>>
    BY <1>1 DEF NoBundle
  <2>6. assembly'.at = "package" /\ assembly'.app = <<>>
    BY <2>1
  <2>7. AssemblyFits'
    BY <2>1, <2>2, <2>3, <2>4, <2>5, <2>6, ProductsAre DEF AssemblyFits
  <2> QED
    BY <2>1, <2>7, AssemblesKeeps
<1> QED
  BY <1>2, <1>3

LEMMA AssemblySet ==
  ASSUME NEW at, NEW packages, NEW app, NEW v, NEW a, a = [at |-> at, packages |-> packages, app |-> app]
  PROVE  [a EXCEPT !.app = v] = [at |-> at, packages |-> packages, app |-> v]
  OBVIOUS

LEMMA TakePackageKeeps ==
  ASSUME ArtifactsInv, TakePackage PROVE ArtifactsInv'
<1>1. assembly.at = "package" /\ Len(assembly.app) < Len(Products)
  BY AssemblyIs DEF TakePackage, Complete
<1>2. CASE AssemblyStops
  BY <1>1, <1>2, AssemblyStopsKeeps
<1>3. CASE NextPackage.product \in Locked /\ Assembles([assembly EXCEPT !.at = "modules"]) /\ UNCHANGED bundle
  <2>1. assembly' = [at |-> "modules", packages |-> manifest.packages, app |-> assembly.app]
    BY <1>1, <1>3, AssemblyIs DEF Assembles
  <2>2. assembly'.at = "modules" /\ assembly'.app = assembly.app /\ assembly'.packages = assembly.packages
    BY <1>1, <2>1, AssemblyIs
  <2>3. Complete' = Complete /\ Capabilities' = Capabilities /\ NextPackage' = NextPackage
    BY <1>3, <2>2 DEF Assembles, Complete, AllPassed, Passed, Capabilities, Values, Versions, None, Altered, NextPackage
  <2>4. AssemblyFits'
    BY <1>1, <1>3, <2>1, <2>2, <2>3, AssemblyIs DEF Assembles, AssemblyFits
  <2> QED
    BY <1>3, <2>4, AssemblesKeeps DEF Assembles
<1>4. CASE /\ NextPackage.product \notin Locked /\ UNCHANGED bundle
           /\ Assembles([assembly EXCEPT !.app = Append(@, <<NextPackage.package, None>>)])
  <2> DEFINE c == <<NextPackage.package, None>>
  <2>1. assembly' = [at |-> "package", packages |-> assembly.packages, app |-> Append(assembly.app, c)]
    <3>1. assembly = [at |-> "package", packages |-> assembly.packages, app |-> assembly.app]
      BY <1>1, AssemblyIs
    <3>2. assembly' = [assembly EXCEPT !.app = Append(@, c)]
      BY <1>4 DEF Assembles
    <3> DEFINE app == assembly.app
               packages == assembly.packages
               grown == Append(assembly.app, c)
    <3>3. assembly = [at |-> "package", packages |-> packages, app |-> app] /\ assembly' = [assembly EXCEPT !.app = grown]
      BY <3>1, <3>2
    <3>4. assembly' = [at |-> "package", packages |-> packages, app |-> grown]
      <4> HIDE DEF app, packages, grown
      <4> QED
        BY <3>3, AssemblySet
    <3> QED
      BY <3>4
  <2>2. Len(assembly.app) + 1 \in 1 .. Len(Products) /\ NextPackage = manifest.packages[Len(assembly.app) + 1]
    BY <1>1, AssemblyIs, ProductsAre DEF NextPackage
  <2>3. c = NextPackage.capabilities
    BY <1>1, <1>4, <2>2, AssemblyIs, CompleteIs
  <2> HIDE DEF c
  <2> QED
    BY <1>1, <1>4, <2>1, <2>3, AppGrows DEF Assembles
<1> QED
  BY <1>2, <1>3, <1>4 DEF TakePackage

LEMMA TakeModulesKeeps ==
  ASSUME ArtifactsInv, TakeModules PROVE ArtifactsInv'
<1>1. assembly.at = "modules" /\ Len(assembly.app) < Len(Products) /\ NextPackage.product \in Locked
  BY AssemblyIs DEF TakeModules
<1>2. CASE AssemblyStops
  BY <1>1, <1>2, AssemblyStopsKeeps
<1>3. CASE ~AssemblyStops
  <2> DEFINE c == <<NextPackage.package, NextPackage.lock>>
  <2>1. /\ Assembles([assembly EXCEPT !.at = "package", !.app = Append(@, c)])
        /\ UNCHANGED bundle
    BY <1>3 DEF TakeModules
  <2>2. assembly' = [at |-> "package", packages |-> assembly.packages, app |-> Append(assembly.app, c)]
    <3> HIDE DEF c
    <3>1. assembly = [at |-> "modules", packages |-> assembly.packages, app |-> assembly.app]
      BY <1>1, AssemblyIs
    <3> QED
      BY <2>1, <3>1 DEF Assembles
  <2>3. Len(assembly.app) + 1 \in 1 .. Len(Products) /\ NextPackage = manifest.packages[Len(assembly.app) + 1]
    BY <1>1, AssemblyIs, ProductsAre DEF NextPackage
  <2>4. c = NextPackage.capabilities
    BY <1>1, <2>3, AssemblyIs, CompleteIs
  <2> HIDE DEF c
  <2> QED
    BY <1>1, <2>1, <2>2, <2>4, AppGrows DEF Assembles
<1> QED
  BY <1>2, <1>3

LEMMA PutFileKeeps ==
  ASSUME ArtifactsInv, PutFile PROVE ArtifactsInv'
<1> DEFINE n == Len(bundle.app)
<1>1. assembly.at = "package" /\ Len(assembly.app) = Len(Products) /\ UNCHANGED <<source, out, manifest, rehearsal>>
  BY AssemblyIs DEF PutFile, Complete, Assembles
<1>2. n \in Nat /\ n <= Len(Products)
  BY <1>1, AssemblyIs
<1>3. Complete' = Complete /\ Capabilities' = Capabilities
  BY <1>1 DEF Complete, AllPassed, Passed, Capabilities, Values, Versions, None, Altered
<1>4. CASE n < Len(assembly.app)
  <2> DEFINE app == Append(bundle.app, assembly.app[n + 1])
  <2>1. bundle' = [bundle EXCEPT !.app = app] /\ assembly' = assembly
    BY <1>4 DEF PutFile, Assembles
  <2>2. assembly.app[n + 1] \in Capabilities
    BY <1>1, <1>2, <1>4, AssemblyIs
  <2>3. /\ app \in Seq(Capabilities) /\ Len(app) = n + 1 /\ app[n + 1] = assembly.app[n + 1]
        /\ \A i \in 1 .. n : app[i] = bundle.app[i]
    BY <1>1, <1>2, <2>2, AssemblyIs
  <2> HIDE DEF app
  <2>4. bundle' = [app |-> app, whole |-> FALSE] /\ bundle'.app = app
    <3> DEFINE false == FALSE
    <3>1. bundle = [app |-> bundle.app, whole |-> false]
      BY <1>1, AssemblyIs
    <3>2. bundle' = [app |-> app, whole |-> false] /\ bundle'.app = app
      <4> HIDE DEF false
      <4> QED
        BY <2>1, <3>1
    <3> QED
      BY <3>2
  <2>5. Len(app) <= Len(assembly.app) /\ \A i \in 1 .. Len(app) : app[i] = assembly.app[i]
    <3>1. ASSUME NEW i \in 1 .. n + 1 PROVE app[i] = assembly.app[i]
      <4>1. CASE i = n + 1
        BY <2>3, <4>1
      <4>2. CASE i # n + 1
        BY <1>1, <1>2, <2>3, <4>2, AssemblyIs
      <4> QED
        BY <4>1, <4>2
    <3> QED
      BY <1>1, <1>2, <1>4, <2>3, <3>1
  <2>6. AssemblyFits'
    BY <1>1, <1>3, <2>1, <2>3, <2>4, <2>5, AssemblyIs DEF AssemblyFits
  <2> QED
    BY <1>1, <2>6, AssemblesKeeps
<1>5. CASE ~(n < Len(assembly.app))
  <2>1. bundle' = [bundle EXCEPT !.whole = TRUE] /\ assembly' = [at |-> "done"]
    BY <1>5 DEF PutFile, Assembles
  <2>2. bundle'.whole = TRUE /\ bundle'.app = bundle.app
    <3> DEFINE true == TRUE
    <3>1. bundle' = [bundle EXCEPT !.whole = true]
      BY <2>1
    <3>2. bundle = [app |-> bundle.app, whole |-> bundle.whole]
      BY <1>1, AssemblyIs
    <3>3. bundle'.whole = true /\ bundle'.app = bundle.app
      <4> HIDE DEF true
      <4> QED
        BY <3>1, <3>2
    <3> QED
      BY <3>3
  <2>3. \A i \in 1 .. Len(Products) : bundle.app[i] = manifest.packages[i].capabilities
    <3>1. n = Len(Products)
      BY <1>1, <1>2, <1>5
    <3> QED
      BY <1>1, <3>1, AssemblyIs
  <2>4. AssemblyFits'
    BY <1>1, <1>3, <2>1, <2>2, <2>3, AssemblyIs DEF AssemblyFits
  <2> QED
    BY <1>1, <2>4, AssemblesKeeps
<1> QED
  BY <1>4, <1>5

LEMMA AssemblyDiesKeeps ==
  ASSUME ArtifactsInv, AssemblyDies PROVE ArtifactsInv'
  BY AssemblyStopsKeeps DEF AssemblyDies

LEMMA ArtifactsStepInv == ArtifactsInv /\ [ArtifactsNext]_artifactsVars => ArtifactsInv'
<1> SUFFICES ASSUME ArtifactsInv, [ArtifactsNext]_artifactsVars PROVE ArtifactsInv'
  OBVIOUS
<1>1. CASE UNCHANGED artifactsVars
  BY <1>1, OthersKeep, AssemblyStays DEF artifactsVars, ArtifactsInv
<1>2. CASE ArtifactsNext
  BY <1>2, DevelopKeeps, AlterKeeps, ExpectKeeps, KeepLockKeeps, PackKeeps, CheckPackKeeps, RecordKeeps, RelockKeeps,
     InstallKeeps, CheckInstalledKeeps, SmokeKeeps, ProcessFailsKeeps, DiesKeeps, ReadManifestKeeps, TakePackageKeeps,
     TakeModulesKeeps, PutFileKeeps, AssemblyDiesKeeps DEF ArtifactsNext
<1> QED
  BY <1>1, <1>2

LEMMA ArtifactsImplied == ArtifactsInv => PassedAsRun /\ BundledAsPassed /\ ArtifactsTypeOK
<1> SUFFICES ASSUME ArtifactsInv PROVE PassedAsRun /\ BundledAsPassed /\ ArtifactsTypeOK
  OBVIOUS
<1>1. PassedAsRun
  <2>1. manifest.packages \in Seq(Recorded)
    <3>1. CASE manifest = rehearsal.report
      BY <3>1 DEF ArtifactsInv, RehearsalFits
    <3>2. CASE manifest = Torn
      BY <3>2 DEF Torn
    <3> QED
      BY <3>1, <3>2 DEF ArtifactsInv, ManifestFits
  <2>2. \A i \in DOMAIN manifest.packages : manifest.packages[i] \in Recorded
    BY <2>1
  <2> QED
    BY <2>2, RecordsAre DEF PassedAsRun
<1>2. BundledAsPassed
  <2> SUFFICES ASSUME bundle.whole PROVE BundledAsPassed
    BY DEF BundledAsPassed
  <2>1. ~(bundle.whole = FALSE)
    OBVIOUS
  <2>2. bundle # NoBundle /\ bundle # [app |-> bundle.app, whole |-> FALSE]
    BY DEF NoBundle
  <2>3. /\ rehearsal.at \in {"done", "dead"} /\ Complete
        /\ \A i \in 1 .. Len(Products) : bundle.app[i] = manifest.packages[i].capabilities
    BY <2>1, <2>2 DEF ArtifactsInv, AssemblyFits
  <2> QED
    BY <2>3, CompleteIs, ProductsAre DEF BundledAsPassed, Complete
<1>3. ArtifactsTypeOK
  <2>1. bundle.whole \in BOOLEAN
    <3> DEFINE false == FALSE
    <3>1. bundle = [app |-> <<>>, whole |-> false] \/ bundle.whole = false \/ bundle.whole = TRUE
          \/ bundle = [app |-> bundle.app, whole |-> false]
      BY DEF ArtifactsInv, AssemblyFits, NoBundle
    <3>2. bundle.whole = false \/ bundle.whole = TRUE
      <4> HIDE DEF false
      <4> QED
        BY <3>1
    <3> QED
      BY <3>2
  <2>2. rehearsal.product \in DOMAIN Products
    BY ProductsAre DEF ArtifactsInv, RehearsalFits
  <2>3. \A p \in AllProducts, part \in DOMAIN Empty : out[p][part] \in Versions \cup {Altered, None}
    BY DEF ArtifactsInv, DirectoryFits, Directories, Empty, Values
  <2> QED
    BY <2>1, <2>2, <2>3 DEF ArtifactsInv, ArtifactsTypeOK
<1> QED
  BY <1>1, <1>2, <1>3

LEMMA ArtifactsStand == ArtifactsSpec => [](PassedAsRun /\ BundledAsPassed /\ ArtifactsTypeOK)
<1>1. ArtifactsSpec => []ArtifactsInv
  BY ArtifactsInitInv, ArtifactsStepInv, PTL DEF ArtifactsSpec
<1> QED
  BY <1>1, ArtifactsImplied, PTL
------------------------------------------------------------------------------
(* Contract: what the manifest pins was compiled from its source or from one before it; once
   a run has compared it, a source since compiles to the same.  A copy has what was copied
   up to here. *)
OfFiles(c) == c = [native |-> c.native, evidence |-> c.evidence, manifest |-> c.manifest]
FromBefore(v, s) == \E before \in Sources : before <= s /\ v = Compiled[before]
FileAt(k) == ContractFiles[(k % 3) + 1]
CopyAt(k) == vendored[Children[(k \div 3) + 1]]
Pinned(c) == c.native = c.manifest.of /\ c.evidence = c.manifest.of
IsContract(c) ==
  /\ c = Contents(c.native, c.manifest.source)
  /\ \E later \in Sources : c.manifest.source <= later /\ later <= typed /\ c.native = Compiled[later]

CanonicalFits ==
  /\ OfFiles(canonical) /\ canonical.manifest = [of |-> canonical.manifest.of, source |-> canonical.manifest.source]
  /\ canonical.manifest.source \in Sources /\ canonical.manifest.source <= typed
  /\ FromBefore(canonical.manifest.of, canonical.manifest.source)

SyncFits ==
  \/ sync = NoRun
  \/ /\ sync = [at |-> "verified"]
     /\ IsContract(canonical) /\ \A p \in Copiers : vendored[p] = canonical
  \/ /\ sync = [at |-> sync.at, check |-> sync.check, made |-> sync.made, done |-> sync.done]
     /\ sync.at \in {"generate", "read", "compile", "copy"} /\ sync.done \in Nat
     /\ sync.at = "generate" => FromBefore(sync.made, typed)
     /\ sync.at = "read" => sync.done = 0
     /\ sync.at = "compile" => Pinned(canonical) /\ sync.done = 0
     /\ sync.at = "copy" =>
          /\ IsContract(canonical) /\ sync.done < Len(Children) * 3
          /\ \A k \in Nat : k < sync.done => CopyAt(k)[FileAt(k)] = canonical[FileAt(k)]

ContractInv ==
  /\ typed \in Sources
  /\ DOMAIN vendored = Copiers /\ \A p \in Copiers : OfFiles(vendored[p])
  /\ CanonicalFits /\ SyncFits

LEMMA FilesAre ==
  /\ Len(ContractFiles) = 3 /\ ContractFiles[1] = "native" /\ ContractFiles[2] = "evidence"
  /\ ContractFiles[3] = "manifest" /\ DOMAIN Generated = {1, 2} /\ Len(Generated) = 2
  /\ Generated[1] = "native" /\ Generated[2] = "evidence"
  BY DEF ContractFiles, Generated

LEMMA ContractInitInv == ContractInit => ContractInv
<1> SUFFICES ASSUME ContractInit PROVE ContractInv
  OBVIOUS
<1>1. typed \in Sources /\ typed \in Nat /\ FromBefore(Compiled[typed], typed)
  BY ContractAssumption DEF ContractInit, FromBefore
<1>2. OfFiles(canonical) /\ canonical.manifest = [of |-> Compiled[typed], source |-> typed]
  BY DEF ContractInit, Contents, OfFiles
<1>3. CanonicalFits
  BY <1>1, <1>2 DEF CanonicalFits
<1> QED
  BY <1>1, <1>2, <1>3 DEF ContractInit, ContractInv, SyncFits

LEMMA EditSourceKeeps ==
  ASSUME ContractInv, EditSource PROVE ContractInv'
<1>1. typed' \in Sources /\ typed <= typed' /\ typed \in Nat /\ typed' \in Nat
  BY ContractAssumption DEF EditSource, ContractInv
<1>2. canonical' = canonical /\ vendored' = vendored /\ sync' = sync
  BY DEF EditSource
<1>3. \A v, s : s \in Nat /\ s <= typed /\ FromBefore(v, s) => s <= typed' /\ FromBefore(v, typed')
  BY <1>1, ContractAssumption DEF FromBefore
<1>4. CanonicalFits'
  BY <1>1, <1>2, <1>3, ContractAssumption DEF ContractInv, CanonicalFits, FromBefore, OfFiles
<1>5. SyncFits'
  <2>1. FromBefore(sync.made, typed) => FromBefore(sync.made, typed')
    BY <1>1, <1>3
  <2>2. FromBefore(sync.made, typed)' <=> FromBefore(sync.made, typed')
    BY <1>2 DEF FromBefore
  <2>3. Pinned(canonical)' = Pinned(canonical) /\ (\A k : CopyAt(k)' = CopyAt(k)) /\ NoRun' = NoRun
    BY <1>2 DEF Pinned, CopyAt, NoRun
  <2>4. IsContract(canonical) => IsContract(canonical)'
    <3> SUFFICES ASSUME IsContract(canonical) PROVE IsContract(canonical)'
      OBVIOUS
    <3>1. PICK later \in Sources :
            canonical.manifest.source <= later /\ later <= typed /\ canonical.native = Compiled[later]
      BY DEF IsContract
    <3>2. later <= typed'
      BY <1>1, <3>1, ContractAssumption
    <3> QED
      BY <1>2, <3>1, <3>2 DEF IsContract, Contents
  <2> QED
    BY <1>2, <2>1, <2>2, <2>3, <2>4 DEF ContractInv, SyncFits
<1> QED
  BY <1>1, <1>2, <1>4, <1>5 DEF ContractInv, OfFiles

\* A step that leaves the source, the canonical files and the copies as they are.
LEMMA QuietRunKeeps ==
  ASSUME ContractInv, UNCHANGED <<typed, canonical, vendored>>, SyncFits' PROVE ContractInv'
<1>1. CanonicalFits'
  BY DEF ContractInv, CanonicalFits, OfFiles, FromBefore
<1> QED
  BY <1>1 DEF ContractInv, OfFiles

LEMMA SyncFailsKeeps ==
  ASSUME ContractInv, SyncFails PROVE ContractInv'
  BY QuietRunKeeps DEF SyncFails, Runs, SyncFits, NoRun

LEMMA BeginSyncKeeps ==
  ASSUME ContractInv, BeginSync PROVE ContractInv'
<1>1. UNCHANGED <<typed, canonical, vendored>>
  BY DEF BeginSync, Runs
<1>2. FromBefore(compileNative, typed)
  BY ContractAssumption DEF ContractInv, FromBefore, compileNative
<1>3. PICK check \in BOOLEAN :
        sync' = [at |-> IF check THEN "read" ELSE "generate", check |-> check, made |-> compileNative, done |-> 0]
  BY DEF BeginSync, Runs
<1>4. SyncFits'
  BY <1>1, <1>2, <1>3 DEF SyncFits, FromBefore
<1> QED
  BY <1>1, <1>4, QuietRunKeeps

LEMMA GenerateKeeps ==
  ASSUME ContractInv, Generate PROVE ContractInv'
<1>1. /\ typed' = typed /\ vendored' = vendored /\ sync.done \in Nat /\ FromBefore(sync.made, typed)
      /\ sync = [at |-> "generate", check |-> sync.check, made |-> sync.made, done |-> sync.done]
  BY DEF Generate, Runs, ContractInv, SyncFits, NoRun
<1>2. CASE sync.done + 1 <= Len(Generated)
  <2>1. PICK name \in {"native", "evidence"} :
          canonical' = [canonical EXCEPT ![name] = sync.made] /\ sync' = [sync EXCEPT !.done = sync.done + 1]
    BY <1>1, <1>2, FilesAre DEF Generate, Runs
  <2>2. OfFiles(canonical') /\ canonical'.manifest = canonical.manifest
    BY <2>1 DEF ContractInv, CanonicalFits, OfFiles
  <2>3. CanonicalFits'
    BY <1>1, <2>2 DEF ContractInv, CanonicalFits, OfFiles, FromBefore
  <2>4. SyncFits'
    BY <1>1, <2>1 DEF SyncFits, FromBefore
  <2> QED
    BY <1>1, <2>3, <2>4 DEF ContractInv, OfFiles
<1>3. CASE ~(sync.done + 1 <= Len(Generated))
  <2>1. /\ canonical' = [canonical EXCEPT !.manifest = [of |-> sync.made, source |-> typed]]
        /\ sync' = [sync EXCEPT !.at = "read", !.done = 0]
    BY <1>3 DEF Generate, Runs
  <2>2. OfFiles(canonical') /\ canonical'.manifest = [of |-> sync.made, source |-> typed]
    BY <2>1 DEF ContractInv, CanonicalFits, OfFiles
  <2>3. CanonicalFits'
    BY <1>1, <2>2, ContractAssumption DEF ContractInv, CanonicalFits, OfFiles, FromBefore
  <2>4. SyncFits'
    BY <1>1, <2>1 DEF SyncFits
  <2> QED
    BY <1>1, <2>3, <2>4 DEF ContractInv, OfFiles
<1> QED
  BY <1>2, <1>3

LEMMA ReadCanonicalKeeps ==
  ASSUME ContractInv, ReadCanonical PROVE ContractInv'
<1>1. CASE SyncFails
  BY <1>1, SyncFailsKeeps
<1>2. CASE ~SyncFails
  <2>1. /\ UNCHANGED <<typed, canonical, vendored>> /\ sync' = [sync EXCEPT !.at = "compile"]
        /\ \A i \in DOMAIN Generated : canonical[Generated[i]] = canonical.manifest.of
    BY <1>2 DEF ReadCanonical, Runs
  <2>2. Pinned(canonical)
    BY <2>1, FilesAre DEF Pinned, ContractInv, CanonicalFits, OfFiles
  <2>3. SyncFits'
    BY <2>1, <2>2 DEF ReadCanonical, ContractInv, SyncFits, NoRun, Pinned
  <2> QED
    BY <2>1, <2>3, QuietRunKeeps
<1> QED
  BY <1>1, <1>2

LEMMA CompareKeeps ==
  ASSUME ContractInv, Compare PROVE ContractInv'
<1>1. CASE SyncFails
  BY <1>1, SyncFailsKeeps
<1>2. CASE ~SyncFails
  <2>1. /\ UNCHANGED <<typed, canonical, vendored>> /\ sync' = [sync EXCEPT !.at = "copy"]
        /\ \A i \in DOMAIN Generated : canonical[Generated[i]] = Compiled[typed]
    BY <1>2 DEF Compare, Runs, compileNative
  <2>2. /\ Pinned(canonical) /\ sync.done = 0
        /\ sync = [at |-> "compile", check |-> sync.check, made |-> sync.made, done |-> sync.done]
    BY DEF Compare, ContractInv, SyncFits, NoRun
  <2> DEFINE m == canonical.manifest
  <2>3. m.of = Compiled[typed]
    BY <2>1, <2>2, FilesAre DEF Pinned
  <2>4. m.source \in Sources /\ m.source <= typed /\ typed \in Sources
    BY DEF ContractInv, CanonicalFits
  <2>5. typed <= typed
    BY <2>4, ContractAssumption
  <2>6. canonical = Contents(canonical.native, m.source) /\ canonical.native = Compiled[typed]
    BY <2>2, <2>3 DEF Contents, Pinned, ContractInv, CanonicalFits, OfFiles
  <2>7. IsContract(canonical)
    BY <2>4, <2>5, <2>6 DEF IsContract
  <2>8. Len(Children) * 3 > 0
    BY ContractAssumption
  <2>9. SyncFits'
    BY <2>1, <2>2, <2>7, <2>8 DEF SyncFits, IsContract, Contents
  <2> QED
    BY <2>1, <2>9, QuietRunKeeps
<1> QED
  BY <1>1, <1>2

\* The file of a copy is one of its three, and every file of every copy has its turn.
LEMMA TurnsAre ==
  ASSUME NEW k \in Nat
  PROVE  /\ FileAt(k) \in {"native", "evidence", "manifest"} /\ k \div 3 \in Nat
         /\ k < Len(Children) * 3 => (k \div 3) + 1 \in DOMAIN Children /\ Children[(k \div 3) + 1] \in Copiers
<1>1. Len(Children) \in Nat /\ DOMAIN Children = 1 .. Len(Children)
  BY ContractAssumption
<1>2. k % 3 \in 0 .. 2 /\ k \div 3 \in Nat
  OBVIOUS
<1>3. k < Len(Children) * 3 => k \div 3 < Len(Children)
  BY <1>1
<1> QED
  BY <1>1, <1>2, <1>3, FilesAre DEF FileAt, Copiers

LEMMA AllTurns ==
  ASSUME NEW p \in Copiers, NEW name \in {"native", "evidence", "manifest"}
  PROVE  \E k \in Nat : k < Len(Children) * 3 /\ Children[(k \div 3) + 1] = p /\ FileAt(k) = name
<1>1. Len(Children) \in Nat /\ DOMAIN Children = 1 .. Len(Children)
  BY ContractAssumption
<1>2. PICK i \in 1 .. Len(Children) : Children[i] = p
  BY <1>1 DEF Copiers
<1>3. PICK j \in 0 .. 2 : ContractFiles[j + 1] = name
  BY FilesAre
<1> DEFINE k == 3 * (i - 1) + j
<1>4. k \in Nat /\ k < Len(Children) * 3 /\ (k \div 3) + 1 = i /\ k % 3 = j
  BY <1>1
<1> QED
  BY <1>2, <1>3, <1>4 DEF FileAt

LEMMA DestinationKeeps ==
  ASSUME ContractInv, Destination PROVE ContractInv'
<1>1. CASE SyncFails
  BY <1>1, SyncFailsKeeps
<1>2. CASE ~SyncFails
  <2> DEFINE d == sync.done
             p == Children[(d \div 3) + 1]
             name == FileAt(d)
  <2>1. /\ sync = [at |-> "copy", check |-> sync.check, made |-> sync.made, done |-> d]
        /\ IsContract(canonical) /\ d \in Nat /\ d < Len(Children) * 3
        /\ \A k \in Nat : k < d => CopyAt(k)[FileAt(k)] = canonical[FileAt(k)]
    BY DEF Destination, ContractInv, SyncFits, NoRun
  <2>2. /\ UNCHANGED <<typed, canonical>> /\ vendored' = [vendored EXCEPT ![p][name] = canonical[name]]
        /\ sync' = IF d + 1 = Len(Children) * 3 THEN [at |-> "verified"] ELSE [sync EXCEPT !.done = d + 1]
    BY <1>2, FilesAre DEF Destination, Runs, FileAt
  <2>3. p \in Copiers /\ name \in {"native", "evidence", "manifest"}
    BY <2>1, TurnsAre
  <2>4. DOMAIN vendored' = Copiers /\ \A q \in Copiers : OfFiles(vendored'[q])
    BY <2>2, <2>3 DEF ContractInv, OfFiles
  <2>5. \A q \in Copiers : \A file : vendored'[q][file] = vendored[q][file] \/ (q = p /\ file = name)
    BY <2>2, <2>3 DEF ContractInv, OfFiles
  <2>6. vendored'[p][name] = canonical[name]
    BY <2>2, <2>3 DEF ContractInv, OfFiles
  <2>7. ASSUME NEW k \in Nat, k < d + 1
        PROVE  vendored'[Children[(k \div 3) + 1]][FileAt(k)] = canonical[FileAt(k)]
    <3>1. Children[(k \div 3) + 1] \in Copiers
      BY <2>1, <2>7, TurnsAre
    <3>2. CASE k = d
      BY <2>6, <3>2
    <3>3. CASE k < d
      BY <2>1, <2>5, <2>6, <3>1, <3>3 DEF CopyAt
    <3> QED
      BY <2>1, <2>7, <3>2, <3>3
  <2>8. CASE d + 1 = Len(Children) * 3
    <3>1. ASSUME NEW q \in Copiers, NEW file \in {"native", "evidence", "manifest"}
          PROVE  vendored'[q][file] = canonical[file]
      <4>1. PICK k \in Nat : k < Len(Children) * 3 /\ Children[(k \div 3) + 1] = q /\ FileAt(k) = file
        BY <3>1, AllTurns
      <4>2. k < d + 1
        BY <2>8, <4>1
      <4> QED
        BY <2>7, <4>1, <4>2
    <3>2. \A q \in Copiers : vendored'[q] = canonical
      BY <2>4, <3>1 DEF OfFiles, ContractInv, CanonicalFits
    <3> QED
      BY <2>1, <2>2, <2>8, <3>2 DEF SyncFits, IsContract, Contents, ContractInv, CanonicalFits, OfFiles, FromBefore, Copiers
  <2>9. CASE d + 1 # Len(Children) * 3
    <3>1. sync' = [at |-> "copy", check |-> sync.check, made |-> sync.made, done |-> d + 1]
      BY <2>1, <2>2, <2>9
    <3>2. d + 1 < Len(Children) * 3 /\ d + 1 \in Nat
      <4>1. Len(Children) \in Nat
        BY ContractAssumption
      <4> QED
        BY <2>1, <2>9, <4>1
    <3>3. SyncFits'
      BY <2>1, <2>2, <2>7, <3>1, <3>2 DEF SyncFits, IsContract, Contents, CopyAt
    <3>4. CanonicalFits'
      BY <2>2 DEF ContractInv, CanonicalFits, OfFiles, FromBefore
    <3> QED
      BY <2>2, <2>4, <3>3, <3>4 DEF ContractInv, OfFiles
  <2> QED
    BY <2>8, <2>9
<1> QED
  BY <1>1, <1>2

LEMMA ContractStep == ContractInv /\ [ContractNext]_contractVars => ContractInv'
<1> SUFFICES ASSUME ContractInv, [ContractNext]_contractVars PROVE ContractInv'
  OBVIOUS
<1>1. CASE UNCHANGED contractVars
  <2>1. UNCHANGED <<typed, canonical, vendored>> /\ sync' = sync
    BY <1>1 DEF contractVars
  <2>2. SyncFits'
    BY <2>1 DEF ContractInv, SyncFits, NoRun, IsContract, Contents, Pinned, FromBefore, CopyAt
  <2> QED
    BY <2>1, <2>2, QuietRunKeeps
<1> QED
  BY <1>1, EditSourceKeeps, BeginSyncKeeps, GenerateKeeps, ReadCanonicalKeeps, CompareKeeps, DestinationKeeps,
     SyncFailsKeeps DEF ContractNext, RunDies

LEMMA ContractStands == ContractSpec => []VerifiedIsCompiled
<1>1. ContractInv => VerifiedIsCompiled
  <2> SUFFICES ASSUME ContractInv, sync.at = "verified" PROVE VerifiedIsCompiled
    BY DEF VerifiedIsCompiled
  <2>1. IsContract(canonical) /\ \A p \in Copiers : vendored[p] = canonical
    BY DEF ContractInv, SyncFits, NoRun
  <2>2. canonical.manifest.of = canonical.native
    <3> DEFINE v == canonical.native
               s == canonical.manifest.source
    <3>1. canonical = [native |-> v, evidence |-> v, manifest |-> [of |-> v, source |-> s]]
      BY <2>1 DEF IsContract, Contents
    <3>2. canonical.manifest.of = v
      <4> HIDE DEF v, s
      <4> QED
        BY <3>1
    <3> QED
      BY <3>2
  <2>3. FromBefore(canonical.native, canonical.manifest.source)
    BY <2>2 DEF ContractInv, CanonicalFits
  <2> QED
    BY <2>1, <2>3 DEF IsContract, FromBefore, VerifiedIsCompiled
<1> QED
  BY <1>1, ContractInitInv, ContractStep, PTL DEF ContractSpec

(* What is installed is what an accepted lock says, whatever is left out of it; what has
   passed ran with the lock that is recorded, and only such products make a bundle; and
   every product has the contract of the source that is named. *)
THEOREM BuildStands == DependenciesSpec /\ ArtifactsSpec /\ ContractSpec => []BuiltAsRun
<1>1. /\ LockClosed /\ InstalledResolves /\ DependenciesTypeOK
      /\ PassedAsRun /\ BundledAsPassed /\ ArtifactsTypeOK
      /\ VerifiedIsCompiled
      => BuiltAsRun
  BY DEF BuiltAsRun
<1> QED
  BY <1>1, DependenciesStand, ArtifactsStand, ContractStands, PTL
------------------------------------------------------------------------------
(* Paging: whatever rows match is a sequence, and what the reader holds is the beginning of
   the one that its cursor goes on with. *)
IsUpTo(f, S, m) ==
  f = [n \in 0 .. m |->
         IF n = 0 THEN <<>> ELSE IF Rows[n] \in S THEN Append(f[n - 1], Rows[n]) ELSE f[n - 1]]
AllRows(of, filter) == IF filter = "changes" THEN ChangedRows(of[1], of[2]) ELSE MatchingRows(of[1], filter)
Questions(of, filter) == IF filter = "changes" THEN of = <<of[1], of[2]>> ELSE of = <<of[1]>>

CursorFits(c) ==
  \/ c = NoCursor
  \/ /\ c = [of |-> held.of, filter |-> c.filter, offset |-> c.offset]
     /\ Questions(held.of, c.filter)
     /\ c.offset \in Nat /\ c.offset <= Len(AllRows(held.of, c.filter))
     /\ c.offset = 0 \/ held.items = SubSeq(AllRows(held.of, c.filter), 1, c.offset)

PageReaderFits ==
  \/ reader = [at |-> "ask", cursor |-> reader.cursor] /\ CursorFits(reader.cursor)
  \/ reader = [at |-> "second", cursor |-> reader.cursor, before |-> reader.before] /\ CursorFits(reader.cursor)
  \/ /\ reader = [at |-> "compare", cursor |-> reader.cursor, before |-> reader.before, after |-> reader.after]
     /\ CursorFits(reader.cursor)
  \/ /\ reader = [at |-> "whole", filter |-> reader.filter]
     /\ held.items = AllRows(held.of, reader.filter)

PagingInv ==
  /\ records \in [Sides -> [Ids -> RowVerdicts \cup {Absent}]]
  /\ held = [items |-> held.items, of |-> held.of] /\ held.items \in Seq(Ids)
  /\ PageReaderFits

\* The first n of them that satisfy something: a set of natural numbers has a least one.
LEMMA LeastIn ==
  ASSUME NEW S, S \subseteq Nat, S # {} PROVE \E n \in S : \A m \in S : n <= m
<1>1. PICK n \in S : \A m \in S : ~(<<m, n>> \in OpToRel(<, Nat))
  BY NatLessThanWellFounded, WFMin, Zenon
<1>2. \A m \in S : ~(m < n)
  BY <1>1 DEF OpToRel
<1>3. \A m \in S : n <= m
  BY <1>2
<1> QED
  BY <1>3

\* The recursive function exists, for as many rows as there are.
LEMMA UpToExists ==
  ASSUME NEW S, NEW L \in Nat PROVE \E f : IsUpTo(f, S, L)
<1> DEFINE none == {m \in Nat : ~\E f : IsUpTo(f, S, m)}
<1> SUFFICES ASSUME none # {} PROVE FALSE
  OBVIOUS
<1>1. PICK m \in none : \A k \in none : m <= k
  <2>1. none \subseteq Nat
    OBVIOUS
  <2> HIDE DEF none
  <2> QED
    BY <2>1, LeastIn
<1>2. CASE m = 0
  <2> DEFINE f == [n \in 0 .. 0 |-> <<>>]
  <2>1. IsUpTo(f, S, 0)
    BY DEF IsUpTo
  <2> QED
    BY <1>1, <1>2, <2>1
<1>3. CASE m # 0
  <2>1. m - 1 \in Nat /\ m - 1 \notin none
    BY <1>1, <1>3
  <2>2. PICK f : IsUpTo(f, S, m - 1)
    BY <2>1
  <2> DEFINE last == IF Rows[m] \in S THEN Append(f[m - 1], Rows[m]) ELSE f[m - 1]
             g == [n \in 0 .. m |-> IF n = m THEN last ELSE f[n]]
  <2>3. \A n \in 0 .. m : g[n] = (IF n = 0 THEN <<>> ELSE IF Rows[n] \in S THEN Append(g[n - 1], Rows[n]) ELSE g[n - 1])
    <3> SUFFICES ASSUME NEW n \in 0 .. m
                 PROVE  g[n] = (IF n = 0 THEN <<>> ELSE IF Rows[n] \in S THEN Append(g[n - 1], Rows[n]) ELSE g[n - 1])
      OBVIOUS
    <3>1. m \in Nat
      BY <1>1
    <3>2. CASE n = m
      <4>1. g[n] = last /\ g[n - 1] = f[n - 1]
        BY <1>3, <3>1, <3>2
      <4> QED
        BY <1>3, <3>2, <4>1
    <3>3. CASE n # m
      <4>1. n \in 0 .. m - 1 /\ g[n] = f[n] /\ (n # 0 => g[n - 1] = f[n - 1])
        BY <3>1, <3>3
      <4>2. f[n] = (IF n = 0 THEN <<>> ELSE IF Rows[n] \in S THEN Append(f[n - 1], Rows[n]) ELSE f[n - 1])
        BY <2>2, <4>1 DEF IsUpTo
      <4> QED
        BY <4>1, <4>2
    <3> QED
      BY <3>2, <3>3
  <2>4. g = [n \in 0 .. m |-> g[n]]
    OBVIOUS
  <2>5. IsUpTo(g, S, m)
    <3> HIDE DEF g
    <3> QED
      BY <2>3, <2>4 DEF IsUpTo
  <2> QED
    BY <1>1, <2>5
<1> QED
  BY <1>2, <1>3

LEMMA RowsAre ==
  ASSUME NEW S PROVE RowsOf(S) \in Seq(Ids)
<1> DEFINE L == Len(Rows)
           f == CHOOSE f : IsUpTo(f, S, L)
<1>1. L \in Nat /\ DOMAIN Rows = 1 .. L
  BY PagingAssumption
<1>2. IsUpTo(f, S, L)
  <2> HIDE DEF L
  <2>1. \E g : IsUpTo(g, S, L)
    BY <1>1, UpToExists
  <2> QED
    BY <2>1
<1>3. RowsOf(S) = f[L]
  BY DEF RowsOf, IsUpTo
<1> HIDE DEF f, L
<1> DEFINE bad == {n \in 0 .. L : f[n] \notin Seq(Ids)}
<1>4. bad = {}
  <2> SUFFICES ASSUME bad # {} PROVE FALSE
    OBVIOUS
  <2>1. PICK n \in bad : \A k \in bad : n <= k
    <3>1. bad \subseteq Nat
      BY <1>1
    <3> HIDE DEF bad
    <3> QED
      BY <3>1, LeastIn
  <2>2. n \in 0 .. L /\ f[n] = (IF n = 0 THEN <<>> ELSE IF Rows[n] \in S THEN Append(f[n - 1], Rows[n]) ELSE f[n - 1])
    BY <1>2 DEF IsUpTo
  <2>3. n # 0
    <3>1. <<>> \in Seq(Ids) /\ f[n] \notin Seq(Ids)
      BY <2>1
    <3> QED
      BY <2>2, <3>1
  <2>4. n - 1 \in 0 .. L /\ n \in 1 .. L
    BY <1>1, <2>2, <2>3
  <2>5. f[n - 1] \in Seq(Ids)
    BY <2>1, <2>4
  <2>6. Rows[n] \in Ids
    BY <1>1, <2>4 DEF Ids
  <2>7. f[n] \in Seq(Ids)
    BY <2>2, <2>3, <2>5, <2>6
  <2> QED
    BY <2>1, <2>7
<1> QED
  BY <1>1, <1>3, <1>4

LEMMA AllRowsAre ==
  ASSUME NEW of, NEW filter
  PROVE  AllRows(of, filter) \in Seq(Ids) /\ Len(AllRows(of, filter)) \in Nat
<1>1. AllRows(of, filter) \in Seq(Ids)
  BY RowsAre DEF AllRows, ChangedRows, MatchingRows
<1> QED
  BY <1>1

\* A page that goes on where the cursor is.
LEMMA PagedKeeps ==
  ASSUME PagingInv, NEW of, NEW filter, Questions(of, filter), NEW offset \in Nat, NEW n \in Nat,
         offset + n <= Len(AllRows(of, filter)),
         offset = 0 \/ held.items = SubSeq(AllRows(of, filter), 1, offset),
         Paged(of, filter, AllRows(of, filter), offset, n)
  PROVE  PagingInv'
<1> DEFINE all == AllRows(of, filter)
           end == offset + n
           items == SubSeq(all, offset + 1, end)
           before == IF offset = 0 THEN <<>> ELSE held.items
<1>1. all \in Seq(Ids) /\ Len(all) \in Nat /\ end \in Nat /\ end <= Len(all)
  BY AllRowsAre
<1>2. before = SubSeq(all, 1, offset)
  <2>1. CASE offset = 0
    BY <1>1, <2>1
  <2>2. CASE offset # 0
    BY <2>2
  <2> QED
    BY <2>1, <2>2
<1>3. before \o items = SubSeq(all, 1, end) /\ before \o items \in Seq(Ids)
  <2> HIDE DEF all, before
  <2> QED
    BY <1>1, <1>2
<1> DEFINE whole == before \o items
<1>4. /\ held' = [items |-> whole, of |-> of] /\ UNCHANGED records
      /\ reader' = IF end < Len(all) THEN AskingFor([of |-> of, filter |-> filter, offset |-> end])
                   ELSE [at |-> "whole", filter |-> filter]
  BY DEF Paged
<1>5. end >= Len(all) => whole = all
  <2> HIDE DEF all, before, items, end
  <2> QED
    BY <1>1, <1>3
<1> HIDE DEF whole, all, end, before, items
<1>6. held'.items = whole /\ held'.of = of
  BY <1>4
<1>7. CASE end < Len(all)
  <2> DEFINE c == [of |-> of, filter |-> filter, offset |-> end]
  <2>1. reader' = [at |-> "ask", cursor |-> c]
    BY <1>4, <1>7 DEF AskingFor
  <2>2. CursorFits(c)'
    <3>1. c = [of |-> held'.of, filter |-> c.filter, offset |-> c.offset] /\ c.filter = filter /\ c.offset = end
      BY <1>6
    <3>2. held'.items = SubSeq(AllRows(held'.of, filter), 1, end)
      BY <1>3, <1>6 DEF all, whole
    <3>3. end <= Len(AllRows(held'.of, filter)) /\ Questions(held'.of, filter)
      BY <1>1, <1>6 DEF all
    <3> HIDE DEF c
    <3> QED
      BY <1>1, <3>1, <3>2, <3>3 DEF CursorFits
  <2> QED
    BY <1>3, <1>4, <1>6, <2>1, <2>2 DEF PagingInv, PageReaderFits, Sides, Ids, Absent, whole
<1>8. CASE ~(end < Len(all))
  <2>1. reader' = [at |-> "whole", filter |-> filter] /\ whole = all
    BY <1>1, <1>4, <1>5, <1>8
  <2>2. PageReaderFits'
    <3>1. reader'.filter = filter /\ held'.items = AllRows(held'.of, filter)
      BY <1>6, <2>1 DEF all
    <3> QED
      BY <2>1, <3>1 DEF PageReaderFits
  <2> QED
    BY <1>3, <1>4, <1>6, <2>2 DEF PagingInv, Sides, Ids, Absent, whole
<1> QED
  BY <1>7, <1>8

LEMMA DriftKeeps ==
  ASSUME PagingInv, Drift PROVE PagingInv'
<1>1. held' = [items |-> <<>>, of |-> <<>>] /\ reader' = [at |-> "ask", cursor |-> NoCursor] /\ UNCHANGED records
  BY DEF Drift, AskingFor, NothingHeld
<1>2. CursorFits(NoCursor)'
  BY DEF CursorFits, NoCursor
<1>3. <<>> \in Seq(Ids)
  OBVIOUS
<1> QED
  BY <1>1, <1>2, <1>3 DEF PagingInv, PageReaderFits, Sides, Ids, Absent, NoCursor

LEMMA QueryPageKeeps ==
  ASSUME PagingInv, NEW limit \in DOMAIN Rows, NEW filter \in Filters, QueryPage(filter, limit)
  PROVE  PagingInv'
<1> DEFINE of == <<records["after"]>>
           c == reader.cursor
           all == MatchingRows(records["after"], filter)
           n == LeastOf(limit, Len(all) - c.offset)
<1>1. filter # "changes"
  BY PagingAssumption DEF Filters
<1>2. all = AllRows(of, filter) /\ Questions(of, filter)
  BY <1>1 DEF AllRows, Questions
<1>3. CASE Drift
  BY <1>3, DriftKeeps
<1>4. CASE ~Drift
  <2>1. Paged(of, filter, all, c.offset, n) /\ reader.at = "ask" /\ (c = NoCursor \/ (c.of = of /\ c.filter = filter))
    BY <1>4 DEF QueryPage
  <2>2. CursorFits(c)
    BY <2>1 DEF PagingInv, PageReaderFits
  <2>3. limit \in Nat /\ Len(all) \in Nat
    BY <1>2, AllRowsAre, PagingAssumption
  <2> HIDE DEF of, all
  <2>4. /\ c.offset \in Nat /\ c.offset <= Len(all)
        /\ c.offset = 0 \/ held.items = SubSeq(all, 1, c.offset)
    <3>1. CASE c = NoCursor
      BY <2>3, <3>1 DEF NoCursor
    <3>2. CASE c # NoCursor
      <4> HIDE DEF c
      <4> QED
        BY <1>2, <2>1, <2>2, <3>2 DEF CursorFits
    <3> QED
      BY <3>1, <3>2
  <2>5. n \in Nat /\ c.offset + n <= Len(all)
    <3> HIDE DEF c
    <3> QED
      BY <2>3, <2>4 DEF LeastOf
  <2> HIDE DEF n, c
  <2> QED
    BY <1>2, <2>1, <2>4, <2>5, PagedKeeps
<1> QED
  BY <1>3, <1>4

LEMMA FittingIs ==
  ASSUME NEW all, Len(all) \in Nat, NEW offset \in Nat, offset <= Len(all), NEW limit \in Nat
  PROVE  /\ FittingLength(all, offset, limit) \in Nat
         /\ offset + FittingLength(all, offset, limit) <= Len(all)
<1> DEFINE most == LeastOf(limit, Len(all) - offset)
           fits == {n \in 1 .. most : Weighs(all, offset, n) <= PageWeight}
           length == IF fits = {} THEN 0 ELSE CHOOSE n \in fits : \A m \in fits : m <= n
<1>1. most \in Nat /\ offset + most <= Len(all)
  BY DEF LeastOf
<1>2. length \in 0 .. most
  <2>1. CASE fits = {}
    BY <1>1, <2>1
  <2>2. CASE fits # {}
    <3> HIDE DEF most
    <3>1. fits \subseteq 0 .. most
      BY <1>1
    <3> HIDE DEF fits
    <3>2. \E n \in fits : \A m \in fits : m <= n
      BY <1>1, <2>2, <3>1, MaxIn
    <3> QED
      BY <2>2, <3>1, <3>2
  <2> QED
    BY <2>1, <2>2
<1>3. FittingLength(all, offset, limit) = length
  BY DEF FittingLength
<1> HIDE DEF length, most
<1> QED
  BY <1>1, <1>2, <1>3

LEMMA ComparePageKeeps ==
  ASSUME PagingInv, NEW limit \in DOMAIN Rows, ComparePage(limit) PROVE PagingInv'
<1> DEFINE of == <<reader.before, reader.after>>
           c == reader.cursor
           all == ChangedRows(reader.before, reader.after)
           n == FittingLength(all, c.offset, limit)
<1>1. all = AllRows(of, "changes") /\ Questions(of, "changes")
  BY DEF AllRows, Questions
<1>2. CASE Drift
  BY <1>2, DriftKeeps
<1>3. CASE ~Drift
  <2>1. Paged(of, "changes", all, c.offset, n) /\ reader.at = "compare" /\ (c = NoCursor \/ c.of = of)
    BY <1>3 DEF ComparePage
  <2>2. CursorFits(c)
    BY <2>1 DEF PagingInv, PageReaderFits
  <2>3. limit \in Nat /\ Len(all) \in Nat
    BY <1>1, AllRowsAre, PagingAssumption
  <2>4. \A x : of # <<x>>
    OBVIOUS
  <2> HIDE DEF of, all
  <2>5. /\ c.offset \in Nat /\ c.offset <= Len(all)
        /\ c.offset = 0 \/ held.items = SubSeq(all, 1, c.offset)
    <3>1. CASE c = NoCursor
      BY <2>3, <3>1 DEF NoCursor
    <3>2. CASE c # NoCursor
      <4> HIDE DEF c
      <4>1. held.of = of
        <5>1. c.of = held.of
          BY <2>2, <3>2 DEF CursorFits
        <5> QED
          BY <2>1, <3>2, <5>1
      <4>2. c.filter = "changes"
        BY <2>2, <2>4, <3>2, <4>1 DEF CursorFits, Questions
      <4> QED
        BY <1>1, <2>2, <3>2, <4>1, <4>2 DEF CursorFits
    <3> QED
      BY <3>1, <3>2
  <2>6. n \in Nat /\ c.offset + n <= Len(all)
    <3> HIDE DEF c
    <3> QED
      BY <2>3, <2>5, FittingIs
  <2> HIDE DEF n, c
  <2> QED
    BY <1>1, <2>1, <2>5, <2>6, PagedKeeps
<1> QED
  BY <1>2, <1>3

\* A step after which the reader still holds the same and has the same cursor.
LEMMA ReadingStays ==
  ASSUME PagingInv, held' = held, records' \in [Sides -> [Ids -> RowVerdicts \cup {Absent}]],
         \/ reader' = reader
         \/ /\ reader.at \in {"ask", "second"}
            /\ \/ \E before : reader' = [at |-> "second", cursor |-> reader.cursor, before |-> before]
               \/ \E before, after : reader' = [at |-> "compare", cursor |-> reader.cursor, before |-> before, after |-> after]
  PROVE  PagingInv'
<1>1. \A c : CursorFits(c)' <=> CursorFits(c)
  BY DEF CursorFits, AllRows, Questions, ChangedRows, MatchingRows, RowsOf, Ids, Absent, NoCursor
<1>2. \A o, f : AllRows(o, f)' = AllRows(o, f)
  BY DEF AllRows, ChangedRows, MatchingRows, RowsOf, Ids, Absent
<1>3. PageReaderFits'
  <2>1. CASE reader' = reader
    BY <1>1, <1>2, <2>1 DEF PagingInv, PageReaderFits
  <2>2. CASE /\ reader.at \in {"ask", "second"}
             /\ \E before : reader' = [at |-> "second", cursor |-> reader.cursor, before |-> before]
    <3>1. CursorFits(reader.cursor) /\ reader'.cursor = reader.cursor
      BY <2>2 DEF PagingInv, PageReaderFits
    <3> QED
      BY <1>1, <2>2, <3>1 DEF PageReaderFits
  <2>3. CASE /\ reader.at \in {"ask", "second"}
             /\ \E before, after :
                  reader' = [at |-> "compare", cursor |-> reader.cursor, before |-> before, after |-> after]
    <3>1. CursorFits(reader.cursor) /\ reader'.cursor = reader.cursor
      BY <2>3 DEF PagingInv, PageReaderFits
    <3> QED
      BY <1>1, <2>3, <3>1 DEF PageReaderFits
  <2> QED
    BY <2>1, <2>2, <2>3
<1>4. Sides' = Sides /\ Ids' = Ids /\ Absent' = Absent
  BY DEF Sides, Ids, Absent
<1> QED
  BY <1>3, <1>4 DEF PagingInv

LEMMA PagingStep == PagingInv /\ [PagingNext]_pagingVars => PagingInv'
<1> SUFFICES ASSUME PagingInv, [PagingNext]_pagingVars PROVE PagingInv'
  OBVIOUS
<1>1. records \in [Sides -> [Ids -> RowVerdicts \cup {Absent}]]
  BY DEF PagingInv
<1>2. CASE UNCHANGED pagingVars
  BY <1>1, <1>2, ReadingStays DEF pagingVars
<1>3. CASE RecordVerdict
  <2>1. PICK v \in Sides, i \in Ids, w \in RowVerdicts \cup {Absent} : records' = [records EXCEPT ![v][i] = w]
    BY <1>3 DEF RecordVerdict
  <2>2. records' \in [Sides -> [Ids -> RowVerdicts \cup {Absent}]]
    BY <1>1, <2>1
  <2> QED
    BY <1>3, <2>2, ReadingStays DEF RecordVerdict
<1>4. CASE CompareFirst
  BY <1>1, <1>4, ReadingStays DEF CompareFirst
<1>5. CASE CompareSecond
  BY <1>1, <1>5, ReadingStays DEF CompareSecond
<1>6. CASE Restart
  BY <1>6, DriftKeeps DEF Restart
<1>7. CASE \E limit \in DOMAIN Rows : ComparePage(limit) \/ \E filter \in Filters : QueryPage(filter, limit)
  BY <1>7, ComparePageKeeps, QueryPageKeeps
<1> QED
  BY <1>2, <1>3, <1>4, <1>5, <1>6, <1>7 DEF PagingNext

LEMMA PagingInitInv == PagingInit => PagingInv
<1> SUFFICES ASSUME PagingInit PROVE PagingInv
  OBVIOUS
<1>1. held = [items |-> <<>>, of |-> <<>>] /\ reader = [at |-> "ask", cursor |-> NoCursor]
  BY DEF PagingInit, AskingFor, NothingHeld
<1>2. CursorFits(reader.cursor) /\ <<>> \in Seq(Ids)
  BY <1>1 DEF CursorFits
<1> QED
  BY <1>1, <1>2 DEF PagingInit, PagingInv, PageReaderFits

LEMMA PagingShows == PagingInv => WholeIsOneSnapshot
<1> SUFFICES ASSUME PagingInv PROVE WholeIsOneSnapshot
  OBVIOUS
<1>1. reader.at \in {"ask", "second", "compare", "whole"}
  BY DEF PagingInv, PageReaderFits
<1>2. reader.at = "whole" => held.items = AllRows(held.of, reader.filter)
  BY DEF PagingInv, PageReaderFits
<1> QED
  BY <1>1, <1>2 DEF PagingInv, WholeIsOneSnapshot, OneSnapshot, PagingTypeOK, AllRows

(* A reader who follows the cursors of an asset or of a comparison to the end holds the rows
   of one snapshot, or of one pair of them, that there are to the question. *)
THEOREM PagesAreOneSnapshot == PagingSpec => []WholeIsOneSnapshot
  BY PagingInitInv, PagingStep, PagingShows, PTL DEF PagingSpec
------------------------------------------------------------------------------
(* Generation: the fold of a journal is what the live turn has come to, for as long as
   nothing was rejected, in any turn that the events so far allow. *)
Folds == [ok : BOOLEAN, tokens : {Unset} \cup Nat, text : BOOLEAN, terminal : BOOLEAN]
IsReplay(f, t, journal, m) ==
  f = [n \in 0 .. m |-> IF n = 0 THEN Unread ELSE Replayed(t, f[n - 1], journal[n])]

LEMMA ReplayedTypes ==
  ASSUME NEW t, NEW s \in Folds, NEW e \in Event
  PROVE  Replayed(t, s, e) \in Folds
<1>1. CASE e.m = "error"
  BY <1>1 DEF Replayed, Folds, Event
<1>2. CASE e.m = "started"
  BY <1>2 DEF Replayed, Folds, Event
<1>3. CASE e.m = "completed"
  BY <1>3 DEF Replayed, Folds, Event
<1>4. CASE e.m = "usage"
  <2>1. e.total \in Nat
    BY <1>4, GenerationAssumption DEF Event
  <2>2. CASE s.ok
    <3>1. Replayed(t, s, e) = [s EXCEPT !.ok = e.turn = t /\ ~Falls(s.tokens, e.total), !.tokens = e.total]
      BY <1>4, <2>2 DEF Replayed
    <3> QED
      BY <2>1, <3>1 DEF Folds
  <2>3. CASE ~s.ok
    BY <2>3 DEF Replayed
  <2> QED
    BY <2>2, <2>3
<1>5. CASE e.m = "item"
  BY <1>5 DEF Replayed, Folds, Event
<1> QED
  BY <1>1, <1>2, <1>3, <1>4, <1>5 DEF Event

LEMMA ReplayExists ==
  ASSUME NEW t, NEW journal \in Seq(Event), NEW L \in Nat
  PROVE  \E f : IsReplay(f, t, journal, L)
<1> DEFINE none == {m \in Nat : ~\E f : IsReplay(f, t, journal, m)}
<1> SUFFICES ASSUME none # {} PROVE FALSE
  OBVIOUS
<1>1. PICK m \in none : \A k \in none : m <= k
  <2>1. none \subseteq Nat
    OBVIOUS
  <2> HIDE DEF none
  <2> QED
    BY <2>1, LeastIn
<1>2. CASE m = 0
  <2> DEFINE f == [n \in 0 .. 0 |-> Unread]
  <2>1. IsReplay(f, t, journal, 0)
    BY DEF IsReplay
  <2> QED
    BY <1>1, <1>2, <2>1
<1>3. CASE m # 0
  <2>1. m - 1 \in Nat /\ m - 1 \notin none
    BY <1>1, <1>3
  <2>2. PICK f : IsReplay(f, t, journal, m - 1)
    BY <2>1
  <2> DEFINE g == [n \in 0 .. m |-> IF n = m THEN Replayed(t, f[m - 1], journal[m]) ELSE f[n]]
  <2>3. \A n \in 0 .. m : g[n] = (IF n = 0 THEN Unread ELSE Replayed(t, g[n - 1], journal[n]))
    <3> SUFFICES ASSUME NEW n \in 0 .. m
                 PROVE  g[n] = (IF n = 0 THEN Unread ELSE Replayed(t, g[n - 1], journal[n]))
      OBVIOUS
    <3>1. m \in Nat
      BY <1>1
    <3>2. CASE n = m
      <4>1. g[n] = Replayed(t, f[m - 1], journal[m]) /\ g[n - 1] = f[n - 1]
        BY <1>3, <3>1, <3>2
      <4> QED
        BY <1>3, <3>2, <4>1
    <3>3. CASE n # m
      <4>1. n \in 0 .. m - 1 /\ g[n] = f[n] /\ (n # 0 => g[n - 1] = f[n - 1])
        BY <3>1, <3>3
      <4>2. f[n] = (IF n = 0 THEN Unread ELSE Replayed(t, f[n - 1], journal[n]))
        BY <2>2, <4>1 DEF IsReplay
      <4> QED
        BY <4>1, <4>2
    <3> QED
      BY <3>2, <3>3
  <2>4. g = [n \in 0 .. m |-> g[n]]
    OBVIOUS
  <2>5. IsReplay(g, t, journal, m)
    <3> HIDE DEF g
    <3> QED
      BY <2>3, <2>4 DEF IsReplay
  <2> QED
    BY <1>1, <2>5
<1> QED
  BY <1>2, <1>3

\* The folds of a journal, and their types.
LEMMA ReplayIs ==
  ASSUME NEW t, NEW journal \in Seq(Event)
  PROVE  \E f : /\ IsReplay(f, t, journal, Len(journal)) /\ Replay(t, journal) = f[Len(journal)]
                /\ \A n \in 0 .. Len(journal) : f[n] \in Folds
<1> DEFINE L == Len(journal)
           f == CHOOSE f : IsReplay(f, t, journal, L)
<1>1. L \in Nat /\ journal \in [1 .. L -> Event]
  OBVIOUS
<1>2. IsReplay(f, t, journal, L)
  <2> HIDE DEF L
  <2>1. \E g : IsReplay(g, t, journal, L)
    BY <1>1, ReplayExists
  <2> QED
    BY <2>1
<1>3. Replay(t, journal) = f[L]
  BY DEF Replay, IsReplay
<1> HIDE DEF f, L
<1> DEFINE bad == {n \in 0 .. L : f[n] \notin Folds}
<1>4. bad = {}
  <2> SUFFICES ASSUME bad # {} PROVE FALSE
    OBVIOUS
  <2>1. PICK n \in bad : \A k \in bad : n <= k
    <3>1. bad \subseteq Nat
      BY <1>1
    <3> HIDE DEF bad
    <3> QED
      BY <3>1, LeastIn
  <2>2. n \in 0 .. L /\ f[n] = (IF n = 0 THEN Unread ELSE Replayed(t, f[n - 1], journal[n]))
    BY <1>2 DEF IsReplay
  <2>3. Unread \in Folds
    BY DEF Unread, Folds
  <2>4. n # 0 /\ n - 1 \in 0 .. L /\ n \in 1 .. L
    BY <1>1, <2>1, <2>2, <2>3
  <2>5. f[n - 1] \in Folds
    BY <2>1, <2>4
  <2>6. journal[n] \in Event
    BY <1>1, <2>4
  <2>7. Replayed(t, f[n - 1], journal[n]) \in Folds
    BY <2>5, <2>6, ReplayedTypes
  <2> QED
    BY <2>1, <2>2, <2>4, <2>7
<1> QED
  BY <1>2, <1>3, <1>4 DEF L

\* What is read one event further is read with that event.
LEMMA ReplayAppends ==
  ASSUME NEW t, NEW journal \in Seq(Event), NEW e \in Event
  PROVE  /\ Replay(t, Append(journal, e)) = Replayed(t, Replay(t, journal), e)
         /\ Replay(t, journal) \in Folds
<1> DEFINE L == Len(journal)
           more == Append(journal, e)
<1>1. L \in Nat /\ more \in Seq(Event) /\ Len(more) = L + 1 /\ more[L + 1] = e
      /\ \A n \in 1 .. L : more[n] = journal[n]
  OBVIOUS
<1>2. PICK f : /\ IsReplay(f, t, journal, L) /\ Replay(t, journal) = f[L]
               /\ \A n \in 0 .. L : f[n] \in Folds
  BY ReplayIs
<1>3. PICK g : /\ IsReplay(g, t, more, L + 1) /\ Replay(t, more) = g[L + 1]
  <2> HIDE DEF more, L
  <2> QED
    BY <1>1, ReplayIs
<1> HIDE DEF more, L
<1> DEFINE apart == {n \in 0 .. L : f[n] # g[n]}
<1>4. apart = {}
  <2> SUFFICES ASSUME apart # {} PROVE FALSE
    OBVIOUS
  <2>1. PICK n \in apart : \A k \in apart : n <= k
    <3>1. apart \subseteq Nat
      BY <1>1
    <3> HIDE DEF apart
    <3> QED
      BY <3>1, LeastIn
  <2>2. n \in 0 .. L /\ f[n] = (IF n = 0 THEN Unread ELSE Replayed(t, f[n - 1], journal[n]))
    BY <1>2 DEF IsReplay
  <2>3. n \in 0 .. L + 1 /\ g[n] = (IF n = 0 THEN Unread ELSE Replayed(t, g[n - 1], more[n]))
    BY <1>1, <1>3, <2>2 DEF IsReplay
  <2>4. n # 0 /\ n - 1 \in 0 .. L /\ n \in 1 .. L
    BY <1>1, <2>1, <2>2, <2>3
  <2>5. f[n - 1] = g[n - 1] /\ more[n] = journal[n]
    BY <1>1, <2>1, <2>4
  <2> QED
    BY <2>1, <2>2, <2>3, <2>4, <2>5
<1>5. g[L + 1] = Replayed(t, g[L], e)
  <2>1. L + 1 \in 0 .. L + 1 /\ L + 1 # 0 /\ L + 1 - 1 = L
    BY <1>1
  <2> QED
    BY <1>1, <1>3, <2>1 DEF IsReplay
<1>6. f[L] = g[L]
  BY <1>1, <1>4
<1>7. f[L] \in Folds
  BY <1>1, <1>2
<1> QED
  BY <1>2, <1>3, <1>5, <1>6, <1>7 DEF more

\* A journal that is read to the end without fault is one turn's, and its totals do not fall.
LEMMA ReplayedWhole ==
  ASSUME NEW t, NEW journal \in Seq(Event), Replay(t, journal).ok,
         NEW i \in DOMAIN journal
  PROVE  /\ "turn" \in DOMAIN journal[i] => journal[i].turn = t
         /\ journal[i].m = "usage" => /\ Replay(t, journal).tokens \in Nat
                                      /\ journal[i].total <= Replay(t, journal).tokens
<1> DEFINE L == Len(journal)
<1>1. L \in Nat /\ journal \in [1 .. L -> Event] /\ i \in 1 .. L
  OBVIOUS
<1>2. PICK f : /\ IsReplay(f, t, journal, L) /\ Replay(t, journal) = f[L]
               /\ \A n \in 0 .. L : f[n] \in Folds
  BY ReplayIs
<1> HIDE DEF L
<1>3. \A n \in 1 .. L : f[n] = Replayed(t, f[n - 1], journal[n]) /\ f[n - 1] \in Folds /\ journal[n] \in Event
  <2> TAKE n \in 1 .. L
  <2>1. n \in 0 .. L /\ n # 0 /\ n - 1 \in 0 .. L
    BY <1>1
  <2> QED
    BY <1>1, <1>2, <2>1 DEF IsReplay
<1>4. \A n \in 1 .. L : f[n].ok =>
        /\ f[n - 1].ok
        /\ "turn" \in DOMAIN journal[n] => journal[n].turn = t
        /\ journal[n].m = "usage" => f[n].tokens = journal[n].total
        /\ f[n - 1].tokens # Unset => f[n].tokens \in Nat /\ f[n - 1].tokens <= f[n].tokens
  <2> SUFFICES ASSUME NEW n \in 1 .. L, f[n].ok
               PROVE  /\ f[n - 1].ok
                      /\ "turn" \in DOMAIN journal[n] => journal[n].turn = t
                      /\ journal[n].m = "usage" => f[n].tokens = journal[n].total
                      /\ f[n - 1].tokens # Unset => f[n].tokens \in Nat /\ f[n - 1].tokens <= f[n].tokens
    OBVIOUS
  <2> DEFINE s == f[n - 1]
             e == journal[n]
  <2>1. f[n] = Replayed(t, s, e) /\ s \in Folds /\ e \in Event
    BY <1>3
  <2> HIDE DEF s, e
  <2>2. s.ok
    BY <2>1 DEF Replayed
  <2>3. e.m # "usage" => f[n].tokens = s.tokens
    BY <2>1, <2>2 DEF Replayed, Folds, Event
  <2>4. s.tokens # Unset => s.tokens \in Nat /\ s.tokens <= s.tokens
    BY <2>1 DEF Folds
  <2>5. "turn" \in DOMAIN e => e.turn = t
    <3>1. e.m = "error" => "turn" \notin DOMAIN e
      BY <2>1 DEF Event
    <3>2. e.m # "error" => e.turn = t
      BY <2>1, <2>2 DEF Replayed, Folds, Event
    <3> QED
      BY <3>1, <3>2
  <2>6. CASE e.m = "usage"
    <3>1. f[n].ok = (e.turn = t /\ ~Falls(s.tokens, e.total)) /\ f[n].tokens = e.total
      BY <2>1, <2>2, <2>6 DEF Replayed, Folds
    <3>2. e.total \in Nat /\ s.tokens \in {Unset} \cup Nat
      BY <2>1, <2>6, GenerationAssumption DEF Folds, Event
    <3>3. ~Falls(s.tokens, e.total)
      BY <3>1
    <3>4. s.tokens # Unset => s.tokens <= e.total
      BY <3>2, <3>3 DEF Falls
    <3> QED
      BY <2>2, <2>5, <3>1, <3>2, <3>4 DEF s, e
  <2> QED
    BY <2>2, <2>3, <2>4, <2>5, <2>6 DEF s, e
\* From the end backwards.
<1>5. \A n \in 0 .. L : f[n].ok
  <2> DEFINE bad == {k \in 0 .. L : ~f[L - k].ok}
  <2>1. bad = {}
    <3> SUFFICES ASSUME bad # {} PROVE FALSE
      OBVIOUS
    <3>1. PICK k \in bad : \A j \in bad : k <= j
      <4>1. bad \subseteq Nat
        BY <1>1
      <4> HIDE DEF bad
      <4> QED
        BY <4>1, LeastIn
    <3>2. k # 0 /\ k \in 0 .. L
      BY <1>1, <1>2, <3>1
    <3>3. k - 1 \in 0 .. L /\ k - 1 \notin bad /\ L - (k - 1) \in 1 .. L /\ L - (k - 1) - 1 = L - k
      <4>1. k \in Nat /\ k - 1 \in 0 .. L /\ k - 1 < k /\ L - (k - 1) \in 1 .. L /\ L - (k - 1) - 1 = L - k
        BY <1>1, <3>2
      <4> QED
        BY <3>1, <4>1
    <3>4. f[L - (k - 1)].ok /\ ~f[L - k].ok
      BY <3>1, <3>3
    <3> QED
      BY <1>4, <3>3, <3>4
  <2>2. \A n \in 0 .. L : L - n \in 0 .. L /\ L - (L - n) = n
    BY <1>1
  <2> QED
    BY <2>1, <2>2
<1>6. ASSUME journal[i].m = "usage"
      PROVE  \A n \in i .. L : f[n].tokens \in Nat /\ journal[i].total <= f[n].tokens
  <2> DEFINE bad == {n \in i .. L : ~(f[n].tokens \in Nat /\ journal[i].total <= f[n].tokens)}
  <2>0. journal[i].total \in Nat
    BY <1>1, <1>6, GenerationAssumption DEF Event
  <2>1. bad = {}
    <3> SUFFICES ASSUME bad # {} PROVE FALSE
      OBVIOUS
    <3>1. PICK n \in bad : \A j \in bad : n <= j
      <4>1. bad \subseteq Nat
        BY <1>1
      <4> HIDE DEF bad
      <4> QED
        BY <4>1, LeastIn
    <3>2. n # i
      BY <1>1, <1>4, <1>5, <1>6, <2>0, <3>1
    <3>3. n - 1 \in i .. L /\ n \in 1 .. L /\ n - 1 \notin bad /\ n \in 0 .. L
      BY <1>1, <3>1, <3>2
    <3>4. f[n - 1].tokens \in Nat /\ journal[i].total <= f[n - 1].tokens
      BY <3>3
    <3>5. f[n].tokens \in Nat /\ f[n - 1].tokens <= f[n].tokens
      BY <1>4, <1>5, <3>3, <3>4, GenerationAssumption
    <3> QED
      BY <2>0, <3>1, <3>4, <3>5
  <2> QED
    BY <2>1
<1> QED
  BY <1>1, <1>2, <1>4, <1>5, <1>6

\* The fold of the events in any turn that they allow, and what the turn was retained with.
FoldedSoFar(t) ==
  CompletedOnce(events) =>
    Replay(t, events) = [ok |-> TRUE, tokens |-> live.tokens, text |-> live.text, terminal |-> live.terminal]

GenerationInv ==
  /\ GenerationTypeOK
  /\ ~live.problem =>
       /\ \A t \in Turns : turn \in {Unset, t} => FoldedSoFar(t)
       /\ live.terminal <=> \E i \in DOMAIN events : events[i].m = "completed"
       /\ live.tokens # Unset => live.tokens <= TokenLimit
  /\ step \in {"waiting", "retained"} => turn \in Turns
  /\ result # Unset =>
       /\ step = "retained" /\ result.turn = turn /\ result.tokens \in Nat /\ result.tokens <= TokenLimit
       /\ result.heard \in 0 .. Len(events)
       /\ CompletedOnce(SubSeq(events, 1, result.heard)) => Believed(SubSeq(events, 1, result.heard))

LEMMA GenerationStarts == GenerationInit => GenerationInv
<1> SUFFICES ASSUME GenerationInit PROVE GenerationInv
  OBVIOUS
<1>1. GenerationTypeOK
  BY DEF GenerationInit, GenerationTypeOK, Blank
<1>2. ASSUME NEW t PROVE Replay(t, <<>>) = Unread
  <2>1. <<>> \in Seq(Event) /\ Len(<<>>) = 0
    OBVIOUS
  <2>2. PICK f : IsReplay(f, t, <<>>, 0) /\ Replay(t, <<>>) = f[0]
    BY <2>1, ReplayIs
  <2> QED
    BY <2>2 DEF IsReplay
<1>3. \A t \in Turns : FoldedSoFar(t)
  BY <1>2 DEF GenerationInit, FoldedSoFar, Unread, Blank
<1> QED
  BY <1>1, <1>3 DEF GenerationInit, GenerationInv, Blank

LEMMA GenerationHears ==
  ASSUME GenerationInv, NEW e \in Event, Hear(e) PROVE GenerationInv'
<1> DEFINE L == Len(events)
<1>1. /\ events \in Seq(Event) /\ L \in Nat /\ events' = Append(events, e) /\ events' \in Seq(Event)
      /\ Len(events') = L + 1 /\ DOMAIN events' = 1 .. L + 1 /\ events'[L + 1] = e
      /\ \A i \in 1 .. L : events'[i] = events[i]
  BY DEF GenerationInv, GenerationTypeOK, Hear
<1>2. ~live.problem /\ UNCHANGED <<step, result>>
  BY DEF Hear
<1>3. live \in [tokens : {Unset} \cup 0..MaxTokens, text : BOOLEAN, terminal : BOOLEAN, problem : BOOLEAN]
      /\ turn \in Turns \cup {Unset}
  BY DEF GenerationInv, GenerationTypeOK
<1>4. GenerationTypeOK'
  <2>1. turn' \in Turns \cup {Unset}
    BY <1>3 DEF Hear, Event
  <2>2. live' \in [tokens : {Unset} \cup 0..MaxTokens, text : BOOLEAN, terminal : BOOLEAN, problem : BOOLEAN]
    <3>1. e.m = "usage" => e.total \in 0 .. MaxTokens
      BY DEF Event
    <3>2. CASE Rejected(e)
      BY <1>3, <3>2 DEF Hear
    <3>3. CASE ~Rejected(e)
      <4>1. live' = [live EXCEPT !.tokens = IF e.m = "usage" THEN e.total ELSE @,
                               !.text = @ \/ (e.m = "item" /\ e.item = "final"),
                               !.terminal = @ \/ e.m = "completed"]
        BY <3>3 DEF Hear
      <4> QED
        BY <1>3, <3>1, <4>1
    <3> QED
      BY <3>2, <3>3
  <2> QED
    BY <1>1, <1>2, <2>1, <2>2 DEF GenerationInv, GenerationTypeOK
<1>5. turn \in Turns => turn' = turn
  BY GenerationAssumption DEF Hear, Rejected
<1>6. step' \in {"waiting", "retained"} => turn' \in Turns
  BY <1>2, <1>5 DEF GenerationInv
<1>7. result' # Unset =>
       /\ step' = "retained" /\ result'.turn = turn' /\ result'.tokens \in Nat /\ result'.tokens <= TokenLimit
       /\ result'.heard \in 0 .. Len(events')
       /\ CompletedOnce(SubSeq(events', 1, result'.heard)) => Believed(SubSeq(events, 1, result.heard))'
  <2> SUFFICES ASSUME result # Unset
               PROVE  /\ step' = "retained" /\ result'.turn = turn' /\ result'.tokens \in Nat /\ result'.tokens <= TokenLimit
                      /\ result'.heard \in 0 .. Len(events')
                      /\ CompletedOnce(SubSeq(events', 1, result'.heard)) => Believed(SubSeq(events, 1, result.heard))'
    BY <1>2
  <2>1. /\ step = "retained" /\ result.turn = turn /\ result.tokens \in Nat /\ result.tokens <= TokenLimit
        /\ result.heard \in 0 .. L /\ turn \in Turns
        /\ CompletedOnce(SubSeq(events, 1, result.heard)) => Believed(SubSeq(events, 1, result.heard))
    BY DEF GenerationInv
  <2> DEFINE h == result.heard
  <2>2. SubSeq(events', 1, h) = SubSeq(events, 1, h)
    <3>1. h \in 0 .. L /\ h \in Nat
      BY <1>1, <2>1
    <3>2. \A i \in 1 .. h : events'[i] = events[i]
      BY <1>1, <3>1
    <3> HIDE DEF h
    <3> QED
      BY <1>1, <3>1, <3>2
  <2>3. result'.heard \in 0 .. Len(events') /\ result' = result /\ step' = step /\ turn' = turn
    BY <1>1, <1>2, <1>5, <2>1
  <2>4. SubSeq(events, 1, result.heard)' = SubSeq(events, 1, result.heard)
    BY <2>2, <2>3
  <2>5. CompletedOnce(SubSeq(events, 1, result.heard))' => Believed(SubSeq(events, 1, result.heard))'
    BY <2>1, <2>3, <2>4 DEF Believed
  <2> QED
    BY <2>1, <2>3, <2>5
<1>8. CASE Rejected(e)
  <2>1. live'.problem
    BY <1>3, <1>8 DEF Hear
  <2> QED
    BY <1>4, <1>6, <1>7, <2>1 DEF GenerationInv
<1>9. CASE ~Rejected(e)
  <2>1. /\ live' = [live EXCEPT !.tokens = IF e.m = "usage" THEN e.total ELSE @,
                               !.text = @ \/ (e.m = "item" /\ e.item = "final"),
                               !.terminal = @ \/ e.m = "completed"]
        /\ turn' = IF e.m = "started" THEN e.turn ELSE turn
    BY <1>9 DEF Hear
  <2>2. /\ live'.tokens = (IF e.m = "usage" THEN e.total ELSE live.tokens)
        /\ live'.text = (live.text \/ (e.m = "item" /\ e.item = "final"))
        /\ live'.terminal = (live.terminal \/ e.m = "completed")
    BY <1>3, <2>1
  <2>3. live'.terminal <=> \E i \in DOMAIN events' : events'[i].m = "completed"
    <3>1. live.terminal <=> \E i \in 1 .. L : events[i].m = "completed"
      BY <1>1, <1>2 DEF GenerationInv
    <3>2. (\E i \in DOMAIN events' : events'[i].m = "completed") <=> (\E i \in 1 .. L : events[i].m = "completed") \/ e.m = "completed"
      BY <1>1
    <3> QED
      BY <1>3, <2>2, <3>1, <3>2
  <2>4. live'.tokens # Unset => live'.tokens <= TokenLimit
    <3>1. CASE e.m = "usage"
      <4>1. e.total \in Nat /\ ~(e.total > TokenLimit)
        BY <1>9, <3>1, GenerationAssumption DEF Rejected, Event
      <4> QED
        BY <2>2, <3>1, <4>1, GenerationAssumption
    <3>2. CASE e.m # "usage"
      BY <1>2, <2>2, <3>2 DEF GenerationInv
    <3> QED
      BY <3>1, <3>2
  <2>5. ASSUME NEW t \in Turns, turn' \in {Unset, t}, CompletedOnce(events')
        PROVE  Replay(t, events') = [ok |-> TRUE, tokens |-> live'.tokens, text |-> live'.text, terminal |-> live'.terminal]
    <3> DEFINE s == [ok |-> TRUE, tokens |-> live.tokens, text |-> live.text, terminal |-> live.terminal]
    <3>1. CompletedOnce(events)
      BY <1>1, <2>5 DEF CompletedOnce
    <3>2. turn \in {Unset, t}
      BY <1>3, <1>5, <2>5
    <3>3. Replay(t, events) = s
      BY <1>2, <3>1, <3>2 DEF GenerationInv, FoldedSoFar
    <3>4. Replay(t, events') = Replayed(t, s, e)
      <4>1. Replay(t, Append(events, e)) = Replayed(t, Replay(t, events), e)
        BY <1>1, ReplayAppends
      <4> QED
        BY <1>1, <3>3, <4>1
    <3>5. e.m # "error" => e.turn = t
      BY <1>9, <2>1, <2>5, <3>2, GenerationAssumption DEF Rejected, Event
    <3>6. e.m = "completed" => ~live.terminal
      <4> SUFFICES ASSUME e.m = "completed", live.terminal PROVE FALSE
        OBVIOUS
      <4>1. PICK i \in 1 .. L : events[i].m = "completed"
        BY <1>1, <1>2 DEF GenerationInv
      <4>2. i = L + 1
        BY <1>1, <2>5, <4>1 DEF CompletedOnce
      <4> QED
        BY <1>1, <4>1, <4>2
    <3>7. s.ok /\ s.tokens = live.tokens /\ s.text = live.text /\ s.terminal = live.terminal
      OBVIOUS
    <3> DEFINE to == [ok |-> TRUE, tokens |-> live'.tokens, text |-> live'.text, terminal |-> live'.terminal]
    <3>8. CASE e.m = "error"
      <4>1. e.retry = TRUE
        BY <1>9, <3>8 DEF Rejected, Event
      <4> QED
        BY <1>3, <2>2, <3>4, <3>8, <4>1 DEF Replayed
    <3>9. CASE e.m = "started"
      BY <1>3, <2>2, <3>4, <3>5, <3>9 DEF Replayed
    <3>10. CASE e.m = "completed"
      <4>1. e.ok = TRUE
        BY <1>9, <3>10 DEF Rejected, Event
      <4> QED
        BY <1>3, <2>2, <3>4, <3>5, <3>6, <3>10, <4>1 DEF Replayed
    <3>11. CASE e.m = "usage"
      <4>1. ~Falls(live.tokens, e.total)
        BY <1>9, <3>11 DEF Rejected
      <4> QED
        BY <1>3, <2>2, <3>4, <3>5, <3>11, <4>1 DEF Replayed
    <3>12. CASE e.m = "item"
      <4>1. e.item # "tool" /\ ~(e.item = "final" /\ live.text)
        BY <1>9, <3>12 DEF Rejected
      <4> QED
        BY <1>3, <2>2, <3>4, <3>5, <3>12, <4>1 DEF Replayed
    <3> QED
      BY <3>8, <3>9, <3>10, <3>11, <3>12 DEF Event
  <2> QED
    BY <1>4, <1>6, <1>7, <2>3, <2>4, <2>5 DEF GenerationInv, FoldedSoFar
<1> QED
  BY <1>8, <1>9

LEMMA GenerationSteps == GenerationInv /\ [GenerationNext]_generationVars => GenerationInv'
<1> SUFFICES ASSUME GenerationInv, [GenerationNext]_generationVars PROVE GenerationInv'
  OBVIOUS
<1>1. ASSUME NEW e \in Event, Hear(e) PROVE GenerationInv'
  BY <1>1, GenerationHears
<1>2. ASSUME NEW t \in Turns, TurnStarted(t) PROVE GenerationInv'
  <2>1. UNCHANGED <<events, live, result>> /\ step = "asked"
    BY <1>2 DEF TurnStarted
  <2>2. result = Unset
    BY <2>1 DEF GenerationInv
  <2>3. turn' \in Turns \cup {Unset} /\ step' \in {"waiting", "failed"} /\ (step' = "waiting" => turn' \in Turns)
        /\ (turn \in Turns => turn' = turn)
    BY <1>2, GenerationAssumption DEF TurnStarted, GenerationInv, GenerationTypeOK
  <2>4. \A s \in Turns : turn' \in {Unset, s} => turn \in {Unset, s}
    BY <2>3 DEF GenerationInv, GenerationTypeOK
  <2> QED
    BY <2>1, <2>2, <2>3, <2>4 DEF GenerationInv, GenerationTypeOK, FoldedSoFar
<1>3. CASE RetainTurn
  <2>1. UNCHANGED <<turn, events, live>> /\ step = "waiting" /\ live.terminal /\ turn \in Turns
    BY <1>3 DEF RetainTurn, GenerationInv
  <2>2. result = Unset
    BY <2>1 DEF GenerationInv
  <2>3. CASE step' = "failed" /\ UNCHANGED result
    BY <2>1, <2>2, <2>3 DEF GenerationInv, GenerationTypeOK, FoldedSoFar
  <2>4. CASE step' # "failed"
    <3>1. /\ step' = "retained" /\ result' = [turn |-> turn, tokens |-> live.tokens, heard |-> Len(events)]
          /\ ~live.problem /\ live.text /\ live.tokens # Unset
      BY <1>3, <2>4 DEF RetainTurn
    <3>2. events \in Seq(Event) /\ Len(events) \in Nat /\ SubSeq(events, 1, Len(events)) = events
      BY DEF GenerationInv, GenerationTypeOK
    <3>3. live.tokens \in Nat /\ live.tokens <= TokenLimit
      BY <3>1, GenerationAssumption DEF GenerationInv, GenerationTypeOK
    <3>4. CompletedOnce(events) => Believed(events)'
      <4> SUFFICES ASSUME CompletedOnce(events) PROVE Believed(events)'
        OBVIOUS
      <4>1. Replay(turn, events) = [ok |-> TRUE, tokens |-> live.tokens, text |-> live.text, terminal |-> live.terminal]
        BY <2>1, <3>1 DEF GenerationInv, FoldedSoFar
      <4> QED
        BY <2>1, <3>1, <3>3, <4>1 DEF Believed
    <3>5. GenerationTypeOK'
      BY <2>1, <3>1 DEF GenerationInv, GenerationTypeOK
    <3>6. \A s \in Turns : FoldedSoFar(s)' <=> FoldedSoFar(s)
      BY <2>1 DEF FoldedSoFar
    <3>7. SubSeq(events, 1, result.heard)' = events' /\ result'.heard = Len(events') /\ Len(events') \in Nat
      BY <2>1, <3>1, <3>2
    <3>8. CompletedOnce(SubSeq(events, 1, result.heard))' => Believed(SubSeq(events, 1, result.heard))'
      BY <2>1, <3>4, <3>7 DEF Believed
    <3>9. /\ step' = "retained" /\ result'.turn = turn' /\ result'.tokens \in Nat /\ result'.tokens <= TokenLimit
          /\ result'.heard \in 0 .. Len(events')
      BY <2>1, <3>1, <3>2, <3>3
    <3>10. ~live'.problem =>
             /\ \A t \in Turns : turn' \in {Unset, t} => FoldedSoFar(t)'
             /\ live'.terminal <=> \E i \in DOMAIN events' : events'[i].m = "completed"
             /\ live'.tokens # Unset => live'.tokens <= TokenLimit
      BY <2>1, <3>6 DEF GenerationInv
    <3> QED
      BY <2>1, <3>1, <3>5, <3>8, <3>9, <3>10 DEF GenerationInv
  <2> QED
    BY <1>3, <2>3, <2>4 DEF RetainTurn
<1>4. CASE Abandon
  BY <1>4 DEF Abandon, GenerationInv, GenerationTypeOK, FoldedSoFar
<1>5. CASE UNCHANGED generationVars
  BY <1>5 DEF generationVars, GenerationInv, GenerationTypeOK, FoldedSoFar, Believed
<1> QED
  BY <1>1, <1>2, <1>3, <1>4, <1>5 DEF GenerationNext

LEMMA BelievedAsRetained == GenerationInv => ReplayAgrees
<1> SUFFICES ASSUME GenerationInv PROVE ReplayAgrees
  OBVIOUS
<1>1. ASSUME result # Unset, Believed(events), NEW i \in DOMAIN events
      PROVE  /\ "turn" \in DOMAIN events[i] => events[i].turn = result.turn
             /\ events[i].m = "usage" => events[i].total <= TokenLimit
  <2>1. events \in Seq(Event) /\ events[i] \in Event
    BY DEF GenerationInv, GenerationTypeOK
  <2>2. Replay(result.turn, events).ok /\ Replay(result.turn, events).tokens = result.tokens /\ result.tokens <= TokenLimit
    BY <1>1 DEF Believed
  <2>3. events[i].m = "usage" => events[i].total \in Nat
    BY <2>1, GenerationAssumption DEF Event
  <2> QED
    BY <2>1, <2>2, <2>3, ReplayedWhole, GenerationAssumption
<1> QED
  BY <1>1 DEF ReplayAgrees, GenerationInv

(* The two validators of a generation agree, for any turns, totals and limits: what was
   retained is believed by the replay of the journal, and a journal that is believed is of
   one turn within the limit (codex-generation.ts, codex-recovery.ts). *)
THEOREM ReplaysAgree == GenerationSpec => []ReplayAgrees
<1> QED
  BY GenerationStarts, GenerationSteps, BelievedAsRetained, PTL DEF GenerationSpec
------------------------------------------------------------------------------
(* Evidence: the receipt of a run keeps its pins and its reports, and what is read of the
   pins is of those that are not left. *)
Askers == [at : {"workspace", "run", "collections"}, owner : Collections \cup {"run", "workspace"},
           digest : Nat, left : UNION {[C -> Nat] : C \in SUBSET Collections}, found : Nat,
           status : Qualities, times : SUBSET Nat]

RunFits ==
  /\ reading.found \in 1 .. run.receipt
  /\ DOMAIN reading.left \subseteq DOMAIN run.pins
  /\ \A c \in DOMAIN reading.left : reading.left[c] = run.pins[c]
  /\ reading.times = {run.pins[c] : c \in DOMAIN run.pins \ DOMAIN reading.left}
  /\ reading.status = "PASS" => reported[reading.found] = {"PASS"}

CollectionFits ==
  \/ /\ DOMAIN reading.left = {reading.owner} /\ reading.left[reading.owner] = reading.digest
     /\ reading.times = {}
  \/ DOMAIN reading.left = {} /\ reading.times = {reading.digest}

EvidenceInv ==
  /\ EvidenceTypeOK
  /\ run = [pins |-> run.pins, stage |-> run.stage, receipt |-> run.receipt, reports |-> run.reports]
  /\ run.pins \in UNION {[C -> Nat] : C \in SUBSET Collections}
  /\ DOMAIN reported = 1 .. run.receipt
  /\ run.receipt > 0 => reported[run.receipt] = run.reports
  /\ reading.at \in {"workspace", "run", "collections"} => reading \in Askers
  /\ reading.at = "run" => reading.owner = "run" /\ reading.times = {}
  /\ reading.at = "collections" /\ reading.owner = "run" => RunFits
  /\ reading.at = "collections" => reading.owner # "workspace"
  /\ reading.at = "collections" /\ reading.owner \in Collections => CollectionFits
  /\ reading.at = "answered" /\ reading.owner = "run" => reading.digest \in 1 .. run.receipt
  /\ EvidenceAsPinned

LEMMA EvidenceStarts == EvidenceInit => EvidenceInv
<1> SUFFICES ASSUME EvidenceInit PROVE EvidenceInv
  OBVIOUS
<1>1. reading.at = "idle"
  BY DEF EvidenceInit, NotReading
<1>2. DOMAIN <<>> = {} /\ <<>> \in [{} -> Nat] /\ {} \in SUBSET Collections
  OBVIOUS
<1>3. <<>> \in UNION {[C -> Nat] : C \in SUBSET Collections}
  BY <1>2
<1>4. run = [pins |-> <<>>, stage |-> "OPEN", receipt |-> 0, reports |-> {}]
  BY DEF EvidenceInit
<1>5. run.pins = <<>> /\ run.receipt = 0 /\ run = [pins |-> run.pins, stage |-> run.stage, receipt |-> run.receipt, reports |-> run.reports]
  BY <1>4
<1>6. DOMAIN reported = 1 .. run.receipt
  BY <1>2, <1>5 DEF EvidenceInit
<1>7. EvidenceTypeOK
  BY <1>1, <1>2, <1>5, EvidenceAssumption DEF EvidenceInit, EvidenceTypeOK, Stages
<1>8. EvidenceAsPinned
  BY <1>1 DEF EvidenceAsPinned
<1> QED
  BY <1>1, <1>3, <1>5, <1>6, <1>7, <1>8 DEF EvidenceInv

\* The Runtime goes on: what a reader has stays what it was read from.
LEMMA RuntimeGoesOn ==
  ASSUME EvidenceInv, Collects \/ Plans \/ RunsPlan \/ WriteCampaign PROVE EvidenceInv'
<1>1. UNCHANGED reading
  BY DEF Collects, Plans, RunsPlan, WriteCampaign
<1>2. CASE Collects
  <2>1. UNCHANGED <<run, reading, reported, campaign>>
    BY <1>2 DEF Collects
  <2>2. EvidenceTypeOK'
    <3>1. PICK c \in Collections, s \in Stages :
            /\ collected[c].receipt < MaxReceipts
            /\ collected' = [collected EXCEPT ![c] = [stage |-> s, receipt |-> @.receipt + 1]]
      BY <1>2 DEF Collects
    <3>2. collected[c].receipt \in 0 .. MaxReceipts
      BY DEF EvidenceInv, EvidenceTypeOK
    <3>3. [stage |-> s, receipt |-> collected[c].receipt + 1] \in [stage : Stages, receipt : 0 .. MaxReceipts]
      BY <3>1, <3>2, EvidenceAssumption
    <3> QED
      BY <2>1, <3>1, <3>3 DEF EvidenceInv, EvidenceTypeOK
  <2> QED
    BY <2>1, <2>2 DEF EvidenceInv, EvidenceAsPinned, RunFits, CollectionFits
<1>3. CASE Plans
  <2>1. PICK C \in SUBSET {c \in Collections : collected[c].receipt > 0} :
          run' = [run EXCEPT !.pins = [c \in C |-> collected[c].receipt]]
    BY <1>3 DEF Plans
  <2>2. run.receipt = 0 /\ UNCHANGED <<collected, reading, reported, campaign>>
    BY <1>3 DEF Plans
  <2>3. \A c \in C : collected[c].receipt \in Nat
    BY DEF EvidenceInv, EvidenceTypeOK
  <2> DEFINE pins == [c \in C |-> collected[c].receipt]
  <2>4. pins \in [C -> Nat] /\ C \in SUBSET Collections
    BY <2>3
  <2>5. /\ run' = [pins |-> pins, stage |-> run.stage, receipt |-> run.receipt, reports |-> run.reports]
    BY <2>1 DEF EvidenceInv
  <2> HIDE DEF pins
  <2>6. run'.pins = pins /\ run'.receipt = run.receipt /\ run'.stage = run.stage /\ run'.reports = run.reports
    BY <2>5
  <2>7. run'.pins \in UNION {[D -> Nat] : D \in SUBSET Collections}
    BY <2>4, <2>6
  <2>8. ~(reading.at = "collections" /\ reading.owner = "run") /\ ~(reading.at = "answered" /\ reading.owner = "run")
    BY <2>2, EvidenceAssumption DEF EvidenceInv, RunFits
  <2>9. EvidenceTypeOK'
    BY <2>2, <2>4, <2>6 DEF EvidenceInv, EvidenceTypeOK
  <2> QED
    BY <2>2, <2>5, <2>6, <2>7, <2>8, <2>9 DEF EvidenceInv, EvidenceAsPinned, CollectionFits
<1>4. CASE RunsPlan
  <2>1. PICK s \in Stages, q \in RunReports :
          /\ run' = [run EXCEPT !.stage = s, !.receipt = @ + 1, !.reports = q]
          /\ reported' = [n \in 1 .. run.receipt + 1 |-> IF n \in DOMAIN reported THEN reported[n] ELSE q]
    BY <1>4 DEF RunsPlan
  <2>2. run.receipt < MaxReceipts /\ run.receipt \in 0 .. MaxReceipts /\ UNCHANGED <<collected, reading, campaign>>
    BY <1>4 DEF RunsPlan, EvidenceInv, EvidenceTypeOK
  <2>3. run' = [pins |-> run.pins, stage |-> s, receipt |-> run.receipt + 1, reports |-> q]
    BY <2>1 DEF EvidenceInv
  <2>4. run'.pins = run.pins /\ run'.receipt = run.receipt + 1 /\ run'.stage = s /\ run'.reports = q
    BY <2>3
  <2>5. DOMAIN reported = 1 .. run.receipt
    BY DEF EvidenceInv
  <2>6. DOMAIN reported' = 1 .. run'.receipt /\ \A n \in 1 .. run.receipt : n \in 1 .. run'.receipt /\ reported'[n] = reported[n]
    BY <2>1, <2>2, <2>4, <2>5
  <2>7. EvidenceTypeOK'
    BY <2>2, <2>4, EvidenceAssumption DEF EvidenceInv, EvidenceTypeOK
  <2>8. run' = [pins |-> run'.pins, stage |-> run'.stage, receipt |-> run'.receipt, reports |-> run'.reports]
    BY <2>3, <2>4
  <2>9. reading.at = "collections" /\ reading.owner = "run" => RunFits'
    BY <2>2, <2>4, <2>6 DEF EvidenceInv, RunFits
  <2>10. EvidenceAsPinned'
    BY <2>2, <2>4, <2>6 DEF EvidenceInv, EvidenceAsPinned
  <2>11. reading.at = "answered" /\ reading.owner = "run" => reading.digest \in 1 .. run'.receipt
    BY <2>6 DEF EvidenceInv
  <2>12. reported'[run'.receipt] = run'.reports
    BY <2>1, <2>2, <2>4, <2>5
  <2>13. run'.pins \in UNION {[C -> Nat] : C \in SUBSET Collections}
    BY <2>4 DEF EvidenceInv
  <2> QED
    BY <2>2, <2>6, <2>7, <2>8, <2>9, <2>10, <2>11, <2>12, <2>13 DEF EvidenceInv, CollectionFits
<1>5. CASE WriteCampaign
  BY <1>5 DEF WriteCampaign, EvidenceInv, EvidenceTypeOK, EvidenceAsPinned, RunFits, CollectionFits
<1> QED
  BY <1>2, <1>3, <1>4, <1>5

\* A reader takes a step, of which its own part is shown.
LEMMA ReaderSteps ==
  ASSUME EvidenceInv, NEW next, ReadsEvidence(next),
         \/ next.at \in {"idle", "refused"}
         \/ next.at \in {"workspace", "run"} /\ next \in Askers /\ (next.at = "run" => next.owner = "run" /\ next.times = {})
         \/ /\ next.at = "collections" /\ next \in Askers /\ next.owner # "workspace"
            /\ next.owner = "run" => RunFits'
            /\ next.owner \in Collections => CollectionFits'
         \/ /\ next.at = "answered" /\ EvidenceAsPinned'
            /\ next.owner = "run" => next.digest \in 1 .. run.receipt
  PROVE  EvidenceInv'
<1>1. reading' = next /\ UNCHANGED <<collected, run, reported, campaign>>
  BY DEF ReadsEvidence
<1>2. next.at \in {"idle", "workspace", "run", "collections", "answered", "refused"}
  OBVIOUS
<1>3. EvidenceTypeOK'
  BY <1>1, <1>2 DEF EvidenceInv, EvidenceTypeOK
<1>4. EvidenceAsPinned'
  BY <1>1 DEF EvidenceAsPinned
<1> QED
  BY <1>1, <1>3, <1>4 DEF EvidenceInv

LEMMA Asks ==
  ASSUME EvidenceInv, Ask PROVE EvidenceInv'
<1>1. PICK owner \in Collections \cup {"run", "workspace"}, n \in 1 .. MaxReceipts :
       ReadsEvidence(
         [at |-> IF owner \in Collections THEN "collections" ELSE owner, owner |-> owner, digest |-> n,
          left |-> IF owner \in Collections THEN [c \in {owner} |-> n] ELSE <<>>, found |-> 0,
          status |-> "UNKNOWN", times |-> {}])
  BY DEF Ask
<1> DEFINE left == IF owner \in Collections THEN [c \in {owner} |-> n] ELSE <<>>
           next == [at |-> IF owner \in Collections THEN "collections" ELSE owner, owner |-> owner, digest |-> n,
                    left |-> left, found |-> 0, status |-> "UNKNOWN", times |-> {}]
<1>2. n \in Nat
  BY EvidenceAssumption
<1>3. left \in UNION {[C -> Nat] : C \in SUBSET Collections}
  <2>1. CASE owner \in Collections
    <3>1. left \in [{owner} -> Nat] /\ {owner} \in SUBSET Collections
      BY <1>2, <2>1
    <3> QED
      BY <3>1
  <2>2. CASE owner \notin Collections
    <3>1. <<>> \in [{} -> Nat] /\ {} \in SUBSET Collections
      OBVIOUS
    <3> QED
      BY <2>2, <3>1
  <2> QED
    BY <2>1, <2>2
<1> HIDE DEF left
<1>4. next \in Askers
  BY <1>2, <1>3 DEF Askers, Qualities
<1>5. ReadsEvidence(next)
  BY <1>1 DEF left
<1>6. CASE owner \in Collections
  <2>1. left = [c \in {owner} |-> n] /\ next.at = "collections" /\ next.owner \notin {"run", "workspace"}
    BY <1>6, EvidenceAssumption DEF left
  <2>2. CollectionFits'
    BY <1>5, <2>1 DEF CollectionFits, ReadsEvidence
  <2> HIDE DEF next
  <2> QED
    BY <1>4, <1>5, <2>1, <2>2, ReaderSteps
<1>7. CASE owner \notin Collections
  <2>1. next.at \in {"workspace", "run"} /\ next.at = next.owner /\ next.times = {}
    BY <1>7
  <2> HIDE DEF next
  <2> QED
    BY <1>4, <1>5, <2>1, ReaderSteps
<1> QED
  BY <1>6, <1>7

LEMMA RunIsRead ==
  ASSUME EvidenceInv, ReadRun PROVE EvidenceInv'
<1>1. CASE run.receipt = 0 \/ run.pins = <<>>
  BY <1>1, ReaderSteps DEF ReadRun, RefusesEvidence
<1>2. CASE ~(run.receipt = 0 \/ run.pins = <<>>)
  <2> DEFINE next == [reading EXCEPT !.at = "collections", !.left = run.pins, !.found = run.receipt, !.status = RunStatus]
  <2>1. ReadsEvidence(next) /\ reading \in Askers /\ reading.at = "run"
    BY <1>2 DEF ReadRun, EvidenceInv
  <2>2. RunStatus \in Qualities /\ run.pins \in UNION {[C -> Nat] : C \in SUBSET Collections} /\ run.receipt \in Nat
    BY DEF RunStatus, Qualities, EvidenceInv, EvidenceTypeOK
  <2>3. next \in Askers
    BY <2>1, <2>2 DEF Askers
  <2>4. /\ next.at = "collections" /\ next.left = run.pins /\ next.found = run.receipt /\ next.status = RunStatus
        /\ next.owner = reading.owner /\ next.times = reading.times
    BY <2>1 DEF Askers
  <2>5. reading.owner = "run" /\ reading.times = {} /\ run.receipt \in 1 .. run.receipt
    BY <1>2, <2>1 DEF EvidenceInv, EvidenceTypeOK
  <2>6. RunStatus = "PASS" => reported[run.receipt] = {"PASS"}
    BY <2>5 DEF RunStatus, EvidenceInv
  <2>7. reading' = next /\ UNCHANGED <<collected, run, reported, campaign>>
    BY <2>1 DEF ReadsEvidence
  <2> HIDE DEF next
  <2>8. RunFits'
    BY <2>4, <2>5, <2>6, <2>7 DEF RunFits
  <2>9. next.owner # "workspace" /\ next.owner \notin Collections
    BY <2>4, <2>5, EvidenceAssumption
  <2> QED
    BY <2>1, <2>3, <2>4, <2>8, <2>9, ReaderSteps
<1> QED
  BY <1>1, <1>2

LEMMA CollectionIsRead ==
  ASSUME EvidenceInv, NEW c \in Collections, ReadCollection(c) PROVE EvidenceInv'
<1>1. CASE ~SameReceipt(c)
  BY <1>1, ReaderSteps DEF ReadCollection, RefusesEvidence
<1>2. CASE SameReceipt(c)
  <2> DEFINE s == collected[c].stage
             left == [d \in DOMAIN reading.left \ {c} |-> reading.left[d]]
             times == reading.times \cup {collected[c].receipt}
             status == IF reading.owner = "run" THEN reading.status
                       ELSE IF s = "SUCCEEDED" THEN "PASS" ELSE IF s = "FAILED" THEN "FAIL" ELSE "UNKNOWN"
             next == [reading EXCEPT !.left = left, !.times = times, !.status = status]
  <2>1. ReadsEvidence(next) /\ reading \in Askers /\ reading.at = "collections" /\ c \in DOMAIN reading.left
        /\ collected[c].receipt = reading.left[c]
    BY <1>2 DEF ReadCollection, EvidenceInv, SameReceipt
  <2>2. PICK C \in SUBSET Collections : reading.left \in [C -> Nat]
    BY <2>1 DEF Askers
  <2>3. left \in [C \ {c} -> Nat] /\ times \subseteq Nat /\ status \in Qualities
    BY <2>1, <2>2 DEF Askers, Qualities
  <2>4. left \in UNION {[D -> Nat] : D \in SUBSET Collections}
    BY <2>2, <2>3
  <2> HIDE DEF left, times, status
  <2>5. next \in Askers
    BY <2>1, <2>3, <2>4 DEF Askers
  <2>6. /\ next.at = "collections" /\ next.owner = reading.owner /\ next.left = left /\ next.times = times
        /\ next.status = status /\ next.found = reading.found /\ next.digest = reading.digest
    BY <2>1 DEF Askers
  <2>7. reading' = next /\ UNCHANGED <<collected, run, reported, campaign>>
    BY <2>1 DEF ReadsEvidence
  <2>8. DOMAIN left = DOMAIN reading.left \ {c} /\ \A d \in DOMAIN left : left[d] = reading.left[d]
    BY DEF left
  <2> HIDE DEF next
  <2>9. reading.owner = "run" => RunFits'
    <3> SUFFICES ASSUME reading.owner = "run" PROVE RunFits'
      OBVIOUS
    <3>1. RunFits
      BY <2>1 DEF EvidenceInv
    <3>2. status = reading.status
      BY DEF status
    <3>3. times = {run.pins[d] : d \in DOMAIN run.pins \ DOMAIN left}
      BY <2>1, <2>8, <3>1 DEF times, RunFits
    <3> QED
      BY <2>6, <2>7, <2>8, <3>1, <3>2, <3>3 DEF RunFits
  <2>10. reading.owner \in Collections => CollectionFits'
    <3> SUFFICES ASSUME reading.owner \in Collections PROVE CollectionFits'
      OBVIOUS
    <3>1. DOMAIN reading.left = {reading.owner} /\ reading.left[reading.owner] = reading.digest /\ reading.times = {}
      BY <2>1 DEF EvidenceInv, CollectionFits
    <3>2. DOMAIN left = {} /\ times = {reading.digest}
      BY <2>1, <2>8, <3>1 DEF times
    <3> QED
      BY <2>6, <2>7, <3>2 DEF CollectionFits
  <2>11. reading.owner # "workspace"
    BY <2>1 DEF EvidenceInv
  <2> QED
    BY <2>1, <2>5, <2>6, <2>9, <2>10, <2>11, ReaderSteps
<1> QED
  BY <1>1, <1>2

LEMMA Answers ==
  ASSUME EvidenceInv, AnswerEvidence PROVE EvidenceInv'
<1>1. CASE reading.owner = "run" /\ reading.found # reading.digest
  BY <1>1, ReaderSteps DEF AnswerEvidence, RefusesEvidence
<1>2. CASE ~(reading.owner = "run" /\ reading.found # reading.digest)
  <2> DEFINE next == [at |-> "answered", owner |-> reading.owner, digest |-> reading.digest,
                      status |-> reading.status, observedAt |-> ObservedAt]
  <2>1. ReadsEvidence(next) /\ reading \in Askers /\ reading.at = "collections" /\ DOMAIN reading.left = {}
    BY <1>2 DEF AnswerEvidence, EvidenceInv
  <2>2. reading' = next /\ UNCHANGED <<collected, run, reported, campaign>>
    BY <2>1 DEF ReadsEvidence
  <2>3. reading.owner # "workspace" /\ reading.owner \in Collections \cup {"run", "workspace"} /\ reading.digest \in Nat
    BY <2>1 DEF EvidenceInv, Askers
  <2>4. CASE reading.owner = "run"
    <3>1. RunFits /\ reading.found = reading.digest
      BY <1>2, <2>1, <2>4 DEF EvidenceInv
    <3>2. reading.times = {run.pins[c] : c \in DOMAIN run.pins}
      BY <2>1, <3>1 DEF RunFits
    <3>3. EvidenceAsPinned'
      BY <2>2, <2>4, <3>1, <3>2 DEF EvidenceAsPinned, RunFits, ObservedAt
    <3>4. next.digest \in 1 .. run.receipt
      BY <3>1 DEF RunFits
    <3>5. next.at = "answered"
      OBVIOUS
    <3> HIDE DEF next
    <3> QED
      BY <2>1, <3>3, <3>4, <3>5, ReaderSteps
  <2>5. CASE reading.owner \in Collections
    <3>1. reading.owner # "run" /\ reading.times = {reading.digest}
      BY <2>1, <2>5, EvidenceAssumption DEF EvidenceInv, CollectionFits
    <3>2. Min({reading.digest}) = reading.digest
      BY <2>3 DEF Min
    <3>3. EvidenceAsPinned'
      BY <2>2, <2>3, <3>1, <3>2 DEF EvidenceAsPinned, ObservedAt
    <3>4. next.at = "answered" /\ next.owner # "run"
      BY <3>1
    <3> HIDE DEF next
    <3> QED
      BY <2>1, <3>3, <3>4, ReaderSteps
  <2> QED
    BY <2>3, <2>4, <2>5
<1> QED
  BY <1>1, <1>2

LEMMA LedgerIsRead ==
  ASSUME EvidenceInv, ReadLedger PROVE EvidenceInv'
<1>1. CASE campaign # reading.digest
  BY <1>1, ReaderSteps DEF ReadLedger, RefusesEvidence
<1>2. CASE campaign = reading.digest
  <2> DEFINE next == [at |-> "answered", owner |-> "workspace", digest |-> reading.digest,
                      status |-> "PASS", observedAt |-> 0]
  <2>1. ReadsEvidence(next)
    BY <1>2 DEF ReadLedger
  <2>2. EvidenceAsPinned'
    BY <2>1 DEF EvidenceAsPinned, ReadsEvidence
  <2>3. next.at = "answered" /\ next.owner # "run"
    OBVIOUS
  <2> HIDE DEF next
  <2> QED
    BY <2>1, <2>2, <2>3, ReaderSteps
<1> QED
  BY <1>1, <1>2

LEMMA EvidenceSteps == EvidenceInv /\ [EvidenceNext]_evidenceVars => EvidenceInv'
<1> SUFFICES ASSUME EvidenceInv, [EvidenceNext]_evidenceVars PROVE EvidenceInv'
  OBVIOUS
<1>1. CASE AskAgain
  BY <1>1, ReaderSteps DEF AskAgain, NotReading
<1>2. CASE UNCHANGED evidenceVars
  BY <1>2 DEF evidenceVars, EvidenceInv, EvidenceTypeOK, EvidenceAsPinned, RunFits, CollectionFits
<1> QED
  BY <1>1, <1>2, RuntimeGoesOn, Asks, LedgerIsRead, RunIsRead, CollectionIsRead, Answers DEF EvidenceNext

LEMMA EvidenceStands == EvidenceSpec => [](EvidenceAsPinned /\ EvidenceTypeOK)
<1>1. EvidenceInv => EvidenceAsPinned /\ EvidenceTypeOK
  BY DEF EvidenceInv
<1> QED
  BY <1>1, EvidenceStarts, EvidenceSteps, PTL DEF EvidenceSpec
------------------------------------------------------------------------------
(* Acceptance: what a verifier has turned from has passed or is counted, and the files that
   it names are still to be read, or were as it says when they were. *)
Beginners == [by : {"native", "expert", "local"}, phase : {"PRE_RELEASE", "POST_RELEASE"},
              report : AcceptanceReports, at : {"begin", "thrown"}]
Walkers == [by : {"native", "expert", "local"}, phase : {"PRE_RELEASE", "POST_RELEASE"},
            report : AcceptanceReports, at : {"walk", "thrown", "verdict"},
            left : SUBSET (Criteria \cup Afterwards), todo : Seq(NamedFiles), seen : Seq(NamedFiles),
            faults : SUBSET (Criteria \cup Afterwards)]

Met(c) ==
  /\ c \in DOMAIN Claimed /\ Claimed[c].status = "PASS" /\ Claimed[c].bound /\ Claimed[c].evidence # <<>>
  /\ c \in Host \/ verifier.by = "expert" => Has(Claimed[c], IsDesktop)
Held(e) == (\E i \in DOMAIN verifier.todo : verifier.todo[i] = e) \/ (\E i \in DOMAIN verifier.seen : verifier.seen[i] = e)
\* What the expert's and the local verifier settle before they walk.
SettledFirst ==
  verifier.by # "native" =>
    /\ verifier.phase = "PRE_RELEASE" /\ ~Malformed
    /\ \A c \in Criteria \ verifier.faults :
         /\ Claimed[c].status = "PASS" /\ Claimed[c].evidence # <<>>
         /\ verifier.by = "expert" => Has(Claimed[c], IsDesktop)
WalkerFits ==
  /\ verifier.at = "verdict" => verifier.left = {} /\ verifier.todo = <<>>
  /\ verifier.left \subseteq NeededFor(verifier)
  /\ \A c \in NeededFor(verifier) \ (verifier.left \cup verifier.faults) :
       Met(c) /\ \A i \in DOMAIN Claimed[c].evidence : Held(Claimed[c].evidence[i])
  /\ SettledFirst
  /\ \A i \in DOMAIN verifier.seen :
       /\ ~IsStray(verifier.seen[i]) /\ verifier.seen[i].digest \in was[verifier.seen[i].path]
       /\ \A j \in DOMAIN verifier.seen :
            verifier.seen[i].path = verifier.seen[j].path => verifier.seen[i].digest = verifier.seen[j].digest

AcceptanceInv ==
  /\ AcceptanceTypeOK
  /\ \A p \in Paths : files[p] \in was[p]
  /\ verifier \in Beginners \cup Walkers
  /\ verifier.by # "native" => verifier.phase = "PRE_RELEASE"
  /\ verifier.at \in {"walk", "verdict"} => verifier \in Walkers /\ WalkerFits

LEMMA AcceptanceStarts == AcceptanceInit => AcceptanceInv
<1> SUFFICES ASSUME AcceptanceInit PROVE AcceptanceInv
  OBVIOUS
<1>1. PICK w \in Verifiers, r \in AcceptanceReports : verifier = [by |-> w.by, phase |-> w.phase, report |-> r, at |-> "begin"]
  BY DEF AcceptanceInit
<1>2. w.by \in {"native", "expert", "local"} /\ w.phase \in {"PRE_RELEASE", "POST_RELEASE"}
      /\ (w.by # "native" => w.phase = "PRE_RELEASE")
  BY DEF Verifiers
<1>3. verifier \in Beginners /\ verifier.at = "begin" /\ (verifier.by # "native" => verifier.phase = "PRE_RELEASE")
  BY <1>1, <1>2 DEF Beginners
<1>4. AcceptanceTypeOK /\ \A p \in Paths : files[p] \in was[p]
  BY <1>3 DEF AcceptanceInit, AcceptanceTypeOK
<1> QED
  BY <1>3, <1>4 DEF AcceptanceInv

\* What was read stays as it was then.
LEMMA FilesChange == ASSUME AcceptanceInv, Change PROVE AcceptanceInv'
<1>1. PICK p \in Paths, d \in Digests :
        files' = [files EXCEPT ![p] = d] /\ was' = [was EXCEPT ![p] = @ \cup {d}]
  BY DEF Change
<1>2. UNCHANGED verifier
  BY DEF Change
<1>3. files \in [Paths -> Digests] /\ was \in [Paths -> SUBSET Digests]
  BY DEF AcceptanceInv, AcceptanceTypeOK
<1>4. AcceptanceTypeOK'
  BY <1>1, <1>2, <1>3 DEF AcceptanceInv, AcceptanceTypeOK
<1>5. \A q \in Paths : files'[q] \in was'[q] /\ was[q] \subseteq was'[q]
  BY <1>1, <1>3 DEF AcceptanceInv
<1>6. verifier.at \in {"walk", "verdict"} => WalkerFits'
  <2> SUFFICES ASSUME verifier.at \in {"walk", "verdict"} PROVE WalkerFits'
    OBVIOUS
  <2>1. verifier \in Walkers /\ WalkerFits
    BY DEF AcceptanceInv
  <2>2. \A i \in DOMAIN verifier.seen : verifier.seen[i].path \in Paths
    <3>1. verifier.seen \in Seq(NamedFiles)
      BY <2>1 DEF Walkers
    <3>2. \A i \in DOMAIN verifier.seen : verifier.seen[i] \in NamedFiles
      BY <3>1
    <3> QED
      BY <3>2 DEF NamedFiles
  <2> QED
    BY <1>2, <1>5, <2>1, <2>2 DEF WalkerFits, Met, Held, SettledFirst, Malformed, Claimed
<1> QED
  BY <1>2, <1>4, <1>5, <1>6 DEF AcceptanceInv

\* A step of the verifier keeps what is said of the files.
LEMMA VerifierSteps ==
  ASSUME AcceptanceInv, NEW next, Verifies(next), next \in Beginners \cup Walkers,
         next.by = verifier.by, next.phase = verifier.phase,
         next.at = "thrown" \/ (next \in Walkers /\ next.at \in {"walk", "verdict"} /\ WalkerFits')
  PROVE  AcceptanceInv'
<1>1. verifier' = next /\ UNCHANGED <<files, was>>
  BY DEF Verifies
<1>2. next.at \in {"begin", "walk", "thrown", "verdict"}
  OBVIOUS
<1> QED
  BY <1>1, <1>2 DEF AcceptanceInv, AcceptanceTypeOK

LEMMA VerifierThrows == ASSUME AcceptanceInv, Throws PROVE AcceptanceInv'
<1> DEFINE next == [verifier EXCEPT !.at = "thrown"]
<1>1. verifier \in Beginners \cup Walkers
  BY DEF AcceptanceInv
<1>2. next \in Beginners \cup Walkers /\ next.at = "thrown" /\ next.by = verifier.by /\ next.phase = verifier.phase
  BY <1>1 DEF Beginners, Walkers
<1> HIDE DEF next
<1> QED
  BY <1>2, VerifierSteps DEF Throws, next

\* A walk begins with all that is needed before it, and what was settled.
LEMMA WalkIsBegun ==
  ASSUME AcceptanceInv, NEW left, NEW faults, left \in SUBSET (Criteria \cup Afterwards),
         faults \in SUBSET (Criteria \cup Afterwards), left = NeededFor(verifier),
         WalksReport(left, <<>>, faults),
         verifier.by # "native" =>
           /\ ~Malformed
           /\ \A c \in Criteria \ faults :
                /\ Claimed[c].status = "PASS" /\ Claimed[c].evidence # <<>>
                /\ verifier.by = "expert" => Has(Claimed[c], IsDesktop)
  PROVE  AcceptanceInv'
<1> DEFINE next == [by |-> verifier.by, phase |-> verifier.phase, report |-> verifier.report, at |-> "walk",
                    left |-> left, todo |-> <<>>, seen |-> <<>>, faults |-> faults]
<1>1. verifier \in Beginners \cup Walkers /\ (verifier.by # "native" => verifier.phase = "PRE_RELEASE")
  BY DEF AcceptanceInv
<1>2. verifier.by \in {"native", "expert", "local"} /\ verifier.phase \in {"PRE_RELEASE", "POST_RELEASE"}
      /\ verifier.report \in AcceptanceReports /\ <<>> \in Seq(NamedFiles)
  BY <1>1 DEF Beginners, Walkers
<1>3. next \in Walkers
  BY <1>2 DEF Walkers
<1>4. verifier' = next /\ Verifies(next)
  BY DEF WalksReport, Verifies
<1>5. WalkerFits'
  <2>1. NeededFor(next) = NeededFor(verifier)
    BY DEF NeededFor
  <2>2. /\ next.by = verifier.by /\ next.phase = verifier.phase /\ next.report = verifier.report /\ next.left = left
        /\ next.faults = faults /\ next.seen = <<>> /\ next.at = "walk"
    OBVIOUS
  <2> HIDE DEF next
  <2>3. SettledFirst'
    BY <1>1, <1>4, <2>2 DEF SettledFirst, Malformed, Claimed
  <2> QED
    BY <1>4, <2>1, <2>2, <2>3 DEF WalkerFits
<1>6. next.at = "walk" /\ next.by = verifier.by /\ next.phase = verifier.phase
  OBVIOUS
<1> HIDE DEF next
<1> QED
  BY <1>3, <1>4, <1>5, <1>6, VerifierSteps

\* The verifier turns from a result: it has passed, with its evidence to be read, or is counted.
LEMMA ResultIsTurned ==
  ASSUME AcceptanceInv, NEW c, NEW evidence, NEW faults, evidence \in Seq(NamedFiles),
         verifier.at = "walk", verifier.todo = <<>>, c \in verifier.left, faults \subseteq {c},
         TurnsTo(c, evidence, faults),
         c \in faults \cup verifier.faults \/ (Met(c) /\ evidence = Claimed[c].evidence)
  PROVE  AcceptanceInv'
<1> DEFINE next == [verifier EXCEPT !.left = @ \ {c}, !.todo = evidence, !.faults = @ \cup faults]
<1>1. verifier \in Walkers /\ WalkerFits /\ Verifies(next) /\ verifier' = next /\ UNCHANGED <<files, was>>
  BY DEF AcceptanceInv, TurnsTo, Verifies
<1>2. /\ next \in Walkers /\ next.at = "walk" /\ next.by = verifier.by /\ next.phase = verifier.phase
      /\ next.report = verifier.report /\ next.left = verifier.left \ {c} /\ next.todo = evidence
      /\ next.seen = verifier.seen /\ next.faults = verifier.faults \cup faults
  BY <1>1 DEF Walkers
<1> HIDE DEF next
<1>3. NeededFor(next) = NeededFor(verifier)
  BY <1>2 DEF NeededFor
<1>4. SettledFirst'
  BY <1>1, <1>2 DEF WalkerFits, SettledFirst, Malformed, Claimed
<1>5. ASSUME NEW d \in NeededFor(verifier) \ (next.left \cup next.faults)
      PROVE  (Met(d) /\ \A i \in DOMAIN Claimed[d].evidence : Held(Claimed[d].evidence[i]))'
  <2>1. Met(d)' <=> Met(d)
    BY <1>1, <1>2 DEF Met, Claimed
  <2>2. CASE d = c
    <3>1. Met(c) /\ evidence = Claimed[c].evidence
      BY <1>2, <1>5, <2>2
    <3> QED
      BY <1>1, <1>2, <2>1, <2>2, <3>1 DEF Held, Claimed
  <2>3. CASE d # c
    <3>1. d \in NeededFor(verifier) \ (verifier.left \cup verifier.faults)
      BY <1>2, <1>5, <2>3
    <3>2. Met(d) /\ \A i \in DOMAIN Claimed[d].evidence : Held(Claimed[d].evidence[i])
      BY <1>1, <3>1 DEF WalkerFits
    <3> QED
      BY <1>1, <1>2, <2>1, <3>2 DEF Held, Claimed
  <2> QED
    BY <2>2, <2>3
<1>6. WalkerFits'
  BY <1>1, <1>2, <1>3, <1>4, <1>5 DEF WalkerFits
<1> QED
  BY <1>1, <1>2, <1>6, VerifierSteps

LEMMA WalksBegin == ASSUME AcceptanceInv, BeginNative \/ EvaluateExpert \/ BeginLocal PROVE AcceptanceInv'
<1>1. CASE BeginNative
  <2>1. NeededFor(verifier) \in SUBSET (Criteria \cup Afterwards) /\ {} \in SUBSET (Criteria \cup Afterwards)
    BY DEF NeededFor
  <2>2. verifier.by = "native" /\ WalksReport(NeededFor(verifier), <<>>, {})
    BY <1>1 DEF BeginNative
  <2> QED
    BY <2>1, <2>2, WalkIsBegun
<1>2. CASE EvaluateExpert
  <2>1. CASE Malformed \/ \E c \in Criteria : Has(Claimed[c], IsStray)
    BY <1>2, <2>1, VerifierThrows DEF EvaluateExpert
  <2>2. CASE ~(Malformed \/ \E c \in Criteria : Has(Claimed[c], IsStray))
    <3> DEFINE faulty(c) == \/ Claimed[c].status # "PASS" \/ ~Has(Claimed[c], IsDesktop)
                            \/ ~Has(Claimed[c], IsCommand)
               faults == {c \in Criteria : faulty(c)}
    <3>1. verifier.by = "expert" /\ WalksReport(Criteria, <<>>, faults)
      BY <1>2, <2>2 DEF EvaluateExpert
    <3>2. Criteria = NeededFor(verifier)
      BY <3>1 DEF NeededFor, AcceptanceInv
    <3>3. \A c \in Criteria \ faults : Claimed[c].status = "PASS" /\ Has(Claimed[c], IsDesktop) /\ Claimed[c].evidence # <<>>
      BY DEF Has
    <3>4. faults \in SUBSET (Criteria \cup Afterwards) /\ Criteria \in SUBSET (Criteria \cup Afterwards)
      OBVIOUS
    <3> HIDE DEF faults
    <3> QED
      BY <2>2, <3>1, <3>2, <3>3, <3>4, WalkIsBegun
  <2> QED
    BY <2>1, <2>2
<1>3. CASE BeginLocal
  <2>1. CASE Malformed \/ \E c \in Criteria : Claimed[c].status = "PASS" /\ Claimed[c].evidence = <<>>
    BY <1>3, <2>1, VerifierThrows DEF BeginLocal
  <2>2. CASE ~(Malformed \/ \E c \in Criteria : Claimed[c].status = "PASS" /\ Claimed[c].evidence = <<>>)
    <3> DEFINE faults == {c \in Criteria : Claimed[c].status # "PASS"}
    <3>1. verifier.by = "local" /\ WalksReport(Criteria, <<>>, faults)
      BY <1>3, <2>2 DEF BeginLocal
    <3>2. Criteria = NeededFor(verifier)
      BY <3>1 DEF NeededFor, AcceptanceInv
    <3>3. \A c \in Criteria \ faults : Claimed[c].status = "PASS" /\ Claimed[c].evidence # <<>>
      BY <2>2
    <3>4. faults \in SUBSET (Criteria \cup Afterwards) /\ Criteria \in SUBSET (Criteria \cup Afterwards)
      OBVIOUS
    <3> HIDE DEF faults
    <3> QED
      BY <2>2, <3>1, <3>2, <3>3, <3>4, WalkIsBegun
  <2> QED
    BY <2>1, <2>2
<1> QED
  BY <1>1, <1>2, <1>3

\* The evidence of a result that a report has.
LEMMA EvidenceIsNamed ==
  ASSUME AcceptanceInv, NEW c \in DOMAIN Claimed
  PROVE  Claimed[c].evidence \in Seq(NamedFiles) /\ Claimed[c].status \in {"PASS", "FAIL"} /\ Claimed[c].bound \in BOOLEAN
<1>1. verifier.report \in AcceptanceReports
  BY DEF AcceptanceInv, Beginners, Walkers
<1> QED
  BY <1>1, AcceptanceAssumption DEF Claimed

LEMMA ResultsAreWalked ==
  ASSUME AcceptanceInv, NEW c \in Criteria \cup Afterwards, NativeResult(c) \/ ExpertScenario(c) \/ LocalCriterion(c)
  PROVE  AcceptanceInv'
<1>1. /\ verifier.at = "walk" /\ verifier.todo = <<>> /\ c \in verifier.left
      /\ verifier \in Walkers /\ WalkerFits /\ <<>> \in Seq(NamedFiles)
  BY DEF NativeResult, ExpertScenario, LocalCriterion, AtTurn, AcceptanceInv
<1>2. CASE NativeResult(c)
  <2>0. verifier.by = "native"
    BY <1>2 DEF NativeResult, AtTurn
  <2>1. CASE c \notin DOMAIN Claimed
    <3>1. TurnsTo(c, <<>>, {c})
      BY <1>2, <2>1 DEF NativeResult
    <3> QED
      BY <1>1, <3>1, ResultIsTurned
  <2>2. CASE c \in DOMAIN Claimed /\ ~Claimed[c].bound
    BY <1>2, <2>2, VerifierThrows DEF NativeResult
  <2>3. CASE c \in DOMAIN Claimed /\ Claimed[c].bound /\ (Claimed[c].status # "PASS" \/ Claimed[c].evidence = <<>>)
    <3>1. TurnsTo(c, <<>>, {c})
      BY <1>2, <2>3 DEF NativeResult
    <3> QED
      BY <1>1, <3>1, ResultIsTurned
  <2>4. CASE c \in DOMAIN Claimed /\ Claimed[c].bound /\ ~(Claimed[c].status # "PASS" \/ Claimed[c].evidence = <<>>)
    <3>1. CASE LacksHost(c)
      BY <1>2, <2>4, <3>1, VerifierThrows DEF NativeResult
    <3>2. CASE ~LacksHost(c)
      <4>1. TurnsTo(c, Claimed[c].evidence, {})
        BY <1>2, <2>4, <3>2 DEF NativeResult
      <4>2. Met(c)
        BY <2>0, <2>4, <3>2 DEF Met, LacksHost
      <4>3. Claimed[c].evidence \in Seq(NamedFiles)
        BY <2>4, EvidenceIsNamed
      <4> QED
        BY <1>1, <4>1, <4>2, <4>3, ResultIsTurned
    <3> QED
      BY <3>1, <3>2
  <2> QED
    BY <2>1, <2>2, <2>3, <2>4
<1>3. CASE verifier.by # "native"
  <2>1. SettledFirst /\ verifier.phase = "PRE_RELEASE" /\ DOMAIN Claimed = Criteria /\ \A d \in Criteria : Claimed[d].bound
    BY <1>1, <1>3 DEF WalkerFits, SettledFirst, Malformed
  <2>0. c \in Criteria /\ c \in DOMAIN Claimed /\ Claimed[c].bound
    BY <1>1, <2>1 DEF WalkerFits, NeededFor
  <2>3. Claimed[c].evidence \in Seq(NamedFiles)
    BY <2>0, EvidenceIsNamed
  <2>2. CASE ExpertScenario(c)
    <3>1. verifier.by = "expert" /\ TurnsTo(c, Claimed[c].evidence, {})
      BY <2>2 DEF ExpertScenario, AtTurn
    <3>2. c \in verifier.faults \/ Met(c)
      BY <2>0, <2>1, <3>1 DEF SettledFirst, Met
    <3> QED
      BY <1>1, <2>3, <3>1, <3>2, ResultIsTurned
  <2>4. CASE LocalCriterion(c)
    <3>1. verifier.by = "local"
      BY <2>4 DEF LocalCriterion, AtTurn
    <3>2. CASE Claimed[c].status = "PASS" /\ LacksHost(c)
      BY <2>4, <3>2, VerifierThrows DEF LocalCriterion
    <3>3. CASE ~(Claimed[c].status = "PASS" /\ LacksHost(c))
      <4>1. TurnsTo(c, Claimed[c].evidence, {})
        BY <2>4, <3>3 DEF LocalCriterion
      <4>2. c \in verifier.faults \/ Met(c)
        BY <2>0, <2>1, <3>1, <3>3 DEF SettledFirst, Met, LacksHost
      <4> QED
        BY <1>1, <2>3, <4>1, <4>2, ResultIsTurned
    <3> QED
      BY <3>2, <3>3
  <2> QED
    BY <1>3, <2>2, <2>4 DEF NativeResult, AtTurn
<1> QED
  BY <1>2, <1>3 DEF ExpertScenario, LocalCriterion, AtTurn

\* The next file is read: it is what the evidence says now, or was when it was read before.
LEMMA FileIsRead == ASSUME AcceptanceInv, ReadEvidence PROVE AcceptanceInv'
<1> DEFINE e == Head(verifier.todo)
<1>1. verifier \in Walkers /\ WalkerFits /\ verifier.todo # <<>> /\ verifier.at = "walk"
  BY DEF ReadEvidence, AcceptanceInv
<1>2. CASE IsStray(e) \/ ~(Seen(e.path) \subseteq {e.digest}) \/ (~ReadAlready(e) /\ files[e.path] # e.digest)
  BY <1>2, VerifierThrows DEF ReadEvidence
<1>3. CASE ~(IsStray(e) \/ ~(Seen(e.path) \subseteq {e.digest}) \/ (~ReadAlready(e) /\ files[e.path] # e.digest))
  <2> DEFINE todo == verifier.todo
             seen == verifier.seen
             next == [verifier EXCEPT !.todo = Tail(@), !.seen = Append(@, e)]
  <2>1. Verifies(next) /\ verifier' = next /\ UNCHANGED <<files, was>>
    BY <1>3 DEF ReadEvidence, ReadsNext, Verifies
  <2>2. todo \in Seq(NamedFiles) /\ seen \in Seq(NamedFiles)
    BY <1>1 DEF Walkers
  <2>3. e \in NamedFiles /\ Tail(todo) \in Seq(NamedFiles) /\ Append(seen, e) \in Seq(NamedFiles)
    BY <1>1, <2>2
  <2>4. /\ next \in Walkers /\ next.at = "walk" /\ next.by = verifier.by /\ next.phase = verifier.phase
        /\ next.report = verifier.report /\ next.left = verifier.left /\ next.faults = verifier.faults
        /\ next.todo = Tail(todo) /\ next.seen = Append(seen, e)
    BY <1>1, <2>3 DEF Walkers
  <2>5. \A i \in DOMAIN todo : todo[i] = e \/ \E j \in DOMAIN Tail(todo) : Tail(todo)[j] = todo[i]
    <3> SUFFICES ASSUME NEW i \in DOMAIN todo PROVE todo[i] = e \/ \E j \in DOMAIN Tail(todo) : Tail(todo)[j] = todo[i]
      OBVIOUS
    <3>1. CASE i = 1
      BY <3>1
    <3>2. CASE i # 1
      <4>1. i - 1 \in DOMAIN Tail(todo) /\ Tail(todo)[i - 1] = todo[i]
        BY <1>1, <2>2, <3>2
      <4> QED
        BY <4>1
    <3> QED
      BY <3>1, <3>2
  <2> DEFINE n == Len(seen) + 1
  <2>6. /\ DOMAIN Append(seen, e) = DOMAIN seen \cup {n} /\ n \notin DOMAIN seen /\ Append(seen, e)[n] = e
        /\ \A i \in DOMAIN seen : Append(seen, e)[i] = seen[i]
    BY <2>2
  <2>7. \A i \in DOMAIN seen : seen[i].path = e.path => seen[i].digest = e.digest
    BY <1>3 DEF Seen
  <2>8. e.digest \in was[e.path]
    <3>1. CASE ReadAlready(e)
      <4>1. PICK i \in DOMAIN seen : seen[i].path = e.path
        BY <3>1 DEF ReadAlready, Seen
      <4> QED
        BY <1>1, <2>7, <4>1 DEF WalkerFits
    <3>2. CASE ~ReadAlready(e)
      <4>1. files[e.path] = e.digest /\ e.path \in Paths
        BY <1>3, <2>3, <3>2 DEF NamedFiles
      <4> QED
        BY <4>1 DEF AcceptanceInv
    <3> QED
      BY <3>1, <3>2
  <2>9. ~IsStray(e)
    BY <1>3
  <2> HIDE DEF next, n, e
  <2>10. \A i \in DOMAIN next.seen :
           /\ ~IsStray(next.seen[i]) /\ next.seen[i].digest \in was[next.seen[i].path]
           /\ \A j \in DOMAIN next.seen :
                next.seen[i].path = next.seen[j].path => next.seen[i].digest = next.seen[j].digest
    BY <1>1, <2>4, <2>6, <2>7, <2>8, <2>9 DEF WalkerFits
  <2>11. \A f : Held(f) => Held(f)'
    <3> SUFFICES ASSUME NEW f, Held(f) PROVE Held(f)'
      OBVIOUS
    <3>1. CASE \E i \in DOMAIN seen : seen[i] = f
      BY <2>1, <2>4, <2>6, <3>1 DEF Held
    <3>2. CASE \E i \in DOMAIN todo : todo[i] = f
      BY <2>1, <2>4, <2>5, <2>6, <3>2 DEF Held
    <3> QED
      BY <3>1, <3>2 DEF Held
  <2>12. NeededFor(next) = NeededFor(verifier)
    BY <2>4 DEF NeededFor
  <2>13. \A c \in NeededFor(next) \ (next.left \cup next.faults) :
           Met(c)' /\ \A i \in DOMAIN Claimed'[c].evidence : Held(Claimed[c].evidence[i])'
    <3> SUFFICES ASSUME NEW c \in NeededFor(next) \ (next.left \cup next.faults)
                 PROVE  Met(c)' /\ \A i \in DOMAIN Claimed'[c].evidence : Held(Claimed[c].evidence[i])'
      OBVIOUS
    <3>1. Met(c) /\ \A i \in DOMAIN Claimed[c].evidence : Held(Claimed[c].evidence[i])
      BY <1>1, <2>4, <2>12 DEF WalkerFits
    <3>2. Claimed' = Claimed
      BY <2>1, <2>4 DEF Claimed
    <3>3. Met(c)'
      BY <2>1, <2>4, <3>1, <3>2 DEF Met
    <3> QED
      BY <2>11, <3>1, <3>2, <3>3
  <2>14. SettledFirst'
    BY <1>1, <2>1, <2>4 DEF WalkerFits, SettledFirst, Malformed, Claimed
  <2>15. WalkerFits'
    BY <1>1, <2>1, <2>4, <2>10, <2>12, <2>13, <2>14 DEF WalkerFits
  <2> QED
    BY <2>1, <2>4, <2>15, VerifierSteps
<1> QED
  BY <1>2, <1>3

LEMMA WalkConcludes == ASSUME AcceptanceInv, Conclude PROVE AcceptanceInv'
<1> DEFINE next == [verifier EXCEPT !.at = "verdict"]
<1>1. /\ verifier \in Walkers /\ WalkerFits /\ verifier.left = {} /\ verifier.todo = <<>>
      /\ Verifies(next) /\ verifier' = next /\ UNCHANGED <<files, was>>
  BY DEF Conclude, AcceptanceInv, Verifies
<1>2. /\ next \in Walkers /\ next.at = "verdict" /\ next.by = verifier.by /\ next.phase = verifier.phase
      /\ next.report = verifier.report /\ next.left = verifier.left /\ next.todo = verifier.todo
      /\ next.seen = verifier.seen /\ next.faults = verifier.faults
  BY <1>1 DEF Walkers
<1> HIDE DEF next
<1>3. WalkerFits'
  BY <1>1, <1>2 DEF WalkerFits, NeededFor, Met, Held, SettledFirst, Malformed, Claimed
<1> QED
  BY <1>1, <1>2, <1>3, VerifierSteps

LEMMA AcceptanceSteps == AcceptanceInv /\ [AcceptanceNext]_acceptanceVars => AcceptanceInv'
<1> SUFFICES ASSUME AcceptanceInv, [AcceptanceNext]_acceptanceVars PROVE AcceptanceInv'
  OBVIOUS
<1>1. CASE ReadFails
  BY <1>1, VerifierThrows DEF ReadFails
<1>2. CASE UNCHANGED acceptanceVars
  BY <1>2 DEF acceptanceVars, AcceptanceInv, AcceptanceTypeOK, WalkerFits, NeededFor, Met, Held, SettledFirst, Malformed, Claimed
<1> QED
  BY <1>1, <1>2, FilesChange, WalksBegin, ResultsAreWalked, FileIsRead, WalkConcludes DEF AcceptanceNext

LEMMA ReportsAreComplete == AcceptanceInv => CompleteAsRead
<1> SUFFICES ASSUME AcceptanceInv, verifier.at = "verdict", verifier.faults = {} PROVE CompleteAsRead
  BY DEF CompleteAsRead
<1>1. verifier \in Walkers /\ WalkerFits /\ verifier.left = {} /\ verifier.todo = <<>>
  BY DEF AcceptanceInv, WalkerFits
<1>2. \A c \in NeededFor(verifier) :
        Met(c) /\ \A i \in DOMAIN Claimed[c].evidence : \E j \in DOMAIN verifier.seen : verifier.seen[j] = Claimed[c].evidence[i]
  BY <1>1 DEF WalkerFits, Held
<1>3. \A c \in NeededFor(verifier) : ~Has(Claimed[c], IsStray)
  BY <1>1, <1>2 DEF WalkerFits, Has
<1> DEFINE evidence == UNION {{Claimed[c].evidence[i] : i \in DOMAIN Claimed[c].evidence} : c \in NeededFor(verifier)}
<1>4. \A e \in evidence : \E j \in DOMAIN verifier.seen : verifier.seen[j] = e
  BY <1>2
<1>5. \A e, f \in evidence : e.digest \in was[e.path] /\ (e.path = f.path => e.digest = f.digest)
  <2> TAKE e, f \in evidence
  <2>1. PICK j \in DOMAIN verifier.seen : verifier.seen[j] = e
    BY <1>4
  <2>2. PICK k \in DOMAIN verifier.seen : verifier.seen[k] = f
    BY <1>4
  <2> HIDE DEF evidence
  <2> QED
    BY <1>1, <2>1, <2>2 DEF WalkerFits
<1> HIDE DEF evidence
<1> QED
  BY <1>2, <1>3, <1>5 DEF CompleteAsRead, Met, evidence

LEMMA AcceptanceStands == AcceptanceSpec => [](CompleteAsRead /\ AcceptanceTypeOK)
<1>1. AcceptanceInv => CompleteAsRead /\ AcceptanceTypeOK
  BY ReportsAreComplete DEF AcceptanceInv
<1> QED
  BY <1>1, AcceptanceStarts, AcceptanceSteps, PTL DEF AcceptanceSpec
------------------------------------------------------------------------------
(* Intents: what a call has still to look at, or has seen since it began. *)
Items(s) == {s[i] : i \in DOMAIN s}
IsList(s) == s \in Seq(Items(s))

IsDecision(d) ==
  d = [operation |-> d.operation, of |-> d.of, is |-> d.is, source |-> [file |-> Said, bytes |-> d.source.bytes]]
IsCandidate(c) ==
  /\ c = [direction |-> c.direction, intent |-> c.intent, ref |-> c.ref, inventory |-> c.inventory,
          revision |-> c.revision, tree |-> c.tree, stage |-> c.stage, review |-> c.review,
          specifies |-> c.specifies]
  /\ c.ref.file \in Files
  /\ c.inventory \in Inventories

Checked(c) ==
  c.intent # NoIntent /\ IF IsV2(c) THEN CompleteV2(c.intent, c) ELSE CompleteV1(c.intent, c)

SeenOf(ref, operation, of, todo) ==
  /\ IsDecision(ref.bytes)
  /\ ref.bytes.operation = operation /\ ref.bytes.of = of /\ ref.bytes.is = "ACCEPT"
  /\ ref.bytes \in since[ref.file]
  /\ PinnedSource(ref.bytes.source) \in Items(todo) \/ ref.bytes.source.bytes \in since[Said]
Due(ref, operation, of, todo) ==
  DecisionEvidence(ref, operation, of) \in Items(todo) \/ SeenOf(ref, operation, of, todo)
IntentDue(c, todo) ==
  NeedsIntent(c) =>
    [is |-> "intent"] \in Items(todo) \/ (Checked(c) /\ Due(c.ref, Operation(c.intent), c.intent, todo))
ReviewDue(c, todo) == c.review.file \in Files /\ Due(c.review, "freeze", Reviewed(c), todo)

FilesFit ==
  /\ kept = [f \in EvidenceFiles |-> kept[f]] /\ since = [f \in EvidenceFiles |-> since[f]]
  /\ \A f \in Files : kept[f] = NoIntent \/ IsDecision(kept[f])

CandidateFits ==
  candidate.stage # "none" =>
    /\ IsCandidate(candidate) /\ (NeedsIntent(candidate) => Checked(candidate))
    /\ candidate.stage = "prepared" => candidate.review = NoIntent /\ candidate.specifies = NoIntent
    /\ candidate.stage # "prepared" => candidate.review.file \in Files

CallFits ==
  /\ call = [op |-> call.op, on |-> call.on, todo |-> call.todo]
  /\ IsList(call.todo)
  /\ IsCandidate(call.on)
  /\ \A f \in EvidenceFiles : kept[f] \in since[f]

\* What each operation has yet to look at.
CallDue(op, c, todo) ==
  /\ op = "prepare" =>
       /\ candidate.stage = "none"
       /\ c.stage = "prepared" /\ c.review = NoIntent /\ c.specifies = NoIntent
       /\ [is |-> "inventory"] \in Items(todo) \/ (c.tree \in Trees /\ IntentDue(c, todo))
  /\ op = "freeze" =>
       /\ candidate.stage = "prepared"
       /\ c = [candidate EXCEPT !.stage = "frozen", !.review = c.review]
       /\ IntentDue(c, todo) /\ ReviewDue(c, todo)
  /\ op = "materialize" =>
       /\ candidate.stage = "frozen"
       /\ c = [candidate EXCEPT !.stage = "material", !.specifies = c.specifies]
       /\ IntentDue(c, todo)
  /\ op = "author" =>
       /\ candidate.stage = "material" /\ c = candidate
       /\ IntentDue(c, todo) /\ ReviewDue(c, todo)
  /\ op # "prepare" => \A x \in Items(todo) : x.is # "inventory"

GroundsFit ==
  /\ grounds = [s \in Steps |-> grounds[s]]
  /\ \A s \in Steps : grounds[s] # NoIntent =>
       /\ candidate.stage # "none"
       /\ NeedsIntent(candidate) =>
            Shown(candidate.ref, Operation(candidate.intent), candidate.intent, grounds[s])
       /\ s \in {"frozen", "admitted"} =>
            candidate.stage # "prepared" /\ Shown(candidate.review, "freeze", Reviewed(candidate), grounds[s])
       /\ s = "material" => candidate.stage = "material"
       /\ s = "admitted" => candidate.stage = "material" /\ admission = Granted(candidate)

IntentsInv ==
  /\ IntentsTypeOK /\ FilesFit /\ CandidateFits /\ GroundsFit
  /\ call.op # "idle" => CallFits /\ CallDue(call.op, call.on, call.todo)
------------------------------------------------------------------------------
\* A list is of its items.
LEMMA ListOfItems == ASSUME NEW S, NEW s \in Seq(S) PROVE IsList(s)
<1>1. Len(s) \in Nat /\ s \in [1 .. Len(s) -> S] /\ DOMAIN s = 1 .. Len(s)
  BY LenProperties
<1>2. \A i \in 1 .. Len(s) : s[i] \in Items(s)
  BY <1>1 DEF Items
<1>3. s \in [1 .. Len(s) -> Items(s)]
  BY <1>1, <1>2
<1> QED
  BY <1>1, <1>3, SeqDef DEF IsList

\* What a list of things to look at has: one more in front, or all of two lists.
LEMMA ItemsOfTwo ==
  ASSUME NEW S, NEW T, NEW s \in Seq(S), NEW t \in Seq(T)
  PROVE  Items(s \o t) = Items(s) \cup Items(t) /\ s \o t \in Seq(Items(s \o t))
<1>1. s \in Seq(S \cup T) /\ t \in Seq(S \cup T)
  OBVIOUS
<1>2. s \o t \in Seq(S \cup T) /\ Len(s \o t) = Len(s) + Len(t)
      /\ \A i \in 1 .. Len(s) + Len(t) : (s \o t)[i] = IF i <= Len(s) THEN s[i] ELSE t[i - Len(s)]
  BY <1>1
<1>3. DOMAIN s = 1 .. Len(s) /\ DOMAIN t = 1 .. Len(t) /\ DOMAIN (s \o t) = 1 .. Len(s) + Len(t)
      /\ Len(s) \in Nat /\ Len(t) \in Nat
  BY <1>1, <1>2
<1>4. \A x \in Items(s \o t) : x \in Items(s) \cup Items(t)
  BY <1>2, <1>3 DEF Items
<1>5. \A x \in Items(s) : x \in Items(s \o t)
  BY <1>2, <1>3 DEF Items
<1>6. \A x \in Items(t) : x \in Items(s \o t)
  <2> SUFFICES ASSUME NEW i \in 1 .. Len(t) PROVE t[i] \in Items(s \o t)
    BY <1>3 DEF Items
  <2>1. Len(s) + i \in 1 .. Len(s) + Len(t) /\ (s \o t)[Len(s) + i] = t[i]
    BY <1>2, <1>3
  <2> QED
    BY <2>1, <1>3 DEF Items
<1>7. s \o t \in Seq(Items(s \o t))
  BY <1>2, ListOfItems DEF IsList
<1> QED
  BY <1>4, <1>5, <1>6, <1>7

LEMMA ListsJoin ==
  \A s, t : IsList(s) /\ IsList(t) => IsList(s \o t) /\ Items(s \o t) = Items(s) \cup Items(t)
<1> SUFFICES ASSUME NEW s, NEW t, IsList(s), IsList(t)
             PROVE  IsList(s \o t) /\ Items(s \o t) = Items(s) \cup Items(t)
  OBVIOUS
<1> QED
  BY ItemsOfTwo DEF IsList

LEMMA ItemsOfOne ==
  /\ Items(<<>>) = {} /\ IsList(<<>>)
  /\ \A x : Items(<<x>>) = {x} /\ IsList(<<x>>)
  /\ \A x, y : Items(<<x, y>>) = {x, y} /\ IsList(<<x, y>>)
BY DEF Items, IsList

LEMMA ItemsOfRest ==
  ASSUME NEW s, IsList(s), s # <<>>
  PROVE  /\ Items(s) = {Head(s)} \cup Items(Tail(s))
         /\ IsList(Tail(s))
<1>1. DOMAIN s = 1 .. Len(s) /\ Len(s) \in Nat \ {0} /\ Head(s) = s[1]
  OBVIOUS
<1>2. Tail(s) \in Seq(Items(s)) /\ Len(Tail(s)) = Len(s) - 1
      /\ \A i \in 1 .. Len(s) - 1 : Tail(s)[i] = s[i + 1]
  BY <1>1 DEF IsList
<1>3. DOMAIN Tail(s) = 1 .. Len(s) - 1
  BY <1>2, <1>1
<1>4. \A x \in Items(Tail(s)) : x \in Items(s)
  BY <1>1, <1>2, <1>3 DEF Items
<1>5. \A x \in Items(s) : x = Head(s) \/ x \in Items(Tail(s))
  <2> SUFFICES ASSUME NEW i \in 1 .. Len(s), i # 1 PROVE s[i] \in Items(Tail(s))
    BY <1>1 DEF Items
  <2>1. i - 1 \in 1 .. Len(s) - 1 /\ (i - 1) + 1 = i
    BY <1>1
  <2>2. Tail(s)[i - 1] = s[i] /\ i - 1 \in DOMAIN Tail(s)
    BY <2>1, <1>2, <1>3
  <2>3. Tail(s)[i - 1] \in Items(Tail(s))
    BY <2>2 DEF Items
  <2> QED
    BY <2>2, <2>3
<1>6. IsList(Tail(s))
  BY <1>2, ListOfItems
<1>7. Head(s) \in Items(s)
  BY <1>1 DEF Items
<1> QED
  BY <1>4, <1>5, <1>6, <1>7
------------------------------------------------------------------------------
LEMMA IntentsStart == IntentsInit => IntentsInv
<1> SUFFICES ASSUME IntentsInit PROVE IntentsInv
  OBVIOUS
<1>1. PICK n \in Notes, f \in Files, d \in Decisions(Intended) :
        kept = [g \in EvidenceFiles |-> IF g = f THEN d ELSE IF g = Said THEN n ELSE NoIntent]
  BY DEF IntentsInit
<1>2. IsDecision(d)
  BY DEF Decisions, IsDecision
<1>3. FilesFit
  BY <1>1, <1>2, IntentsAssumption DEF FilesFit, EvidenceFiles, IntentsInit, NothingSeen
<1>4. candidate.stage = "none" /\ call.op = "idle" /\ GroundsFit
  BY DEF IntentsInit, NoCandidate, IdleCall, GroundsFit, NoGrounds
<1>5. IntentsTypeOK
  BY <1>4, IntentsAssumption DEF IntentsTypeOK, IntentsInit
<1> QED
  BY <1>3, <1>4, <1>5 DEF IntentsInv, CandidateFits

\* A call that fails leaves nothing.
LEMMA CallFails == ASSUME IntentsInv, Fails PROVE IntentsInv'
<1>1. call'.op = "idle"
  BY DEF Fails, IdleCall
<1>2. FilesFit'
  BY DEF Fails, IntentsInv, FilesFit, NothingSeen
<1>3. CandidateFits'
  BY DEF Fails, IntentsInv, CandidateFits, Checked
<1>4. GroundsFit'
  BY DEF Fails, IntentsInv, GroundsFit
<1>5. IntentsTypeOK'
  BY <1>1 DEF Fails, IntentsInv, IntentsTypeOK
<1> QED
  BY <1>1, <1>2, <1>3, <1>4, <1>5 DEF IntentsInv

\* What is due does not depend on how far the candidate is.
LEMMA SameDemand ==
  ASSUME NEW c, NEW d,
         c.direction = d.direction, c.intent = d.intent, c.ref = d.ref, c.inventory = d.inventory,
         c.revision = d.revision, c.tree = d.tree
  PROVE  /\ NeedsIntent(c) <=> NeedsIntent(d)
         /\ Checked(c) <=> Checked(d)
BY DEF NeedsIntent, IsV2, Checked, CompleteV1, CompleteV2

LEMMA CallBegins ==
  ASSUME IntentsInv, NEW op, NEW c, NEW todo, Begins(op, c, todo),
         op \in {"prepare", "freeze", "materialize", "author"},
         IsCandidate(c), IsList(todo), CallDue(op, c, todo)'
  PROVE  IntentsInv'
<1>1. call'.op = op /\ call'.on = c /\ call'.todo = todo
      /\ call' = [op |-> call'.op, on |-> call'.on, todo |-> call'.todo]
  BY DEF Begins
<1>2. FilesFit' /\ \A f \in EvidenceFiles : kept'[f] \in since'[f]
  BY DEF Begins, IntentsInv, FilesFit
<1>3. CandidateFits'
  BY DEF Begins, IntentsInv, CandidateFits
<1>4. GroundsFit'
  BY DEF Begins, IntentsInv, GroundsFit
<1>5. IntentsTypeOK'
  BY <1>1 DEF Begins, IntentsInv, IntentsTypeOK
<1>6. CallFits'
  BY <1>1, <1>2 DEF CallFits
<1>7. CallDue(op, c, todo)' => CallDue(call.op, call.on, call.todo)'
  BY <1>1
<1> QED
  BY <1>2, <1>3, <1>4, <1>5, <1>6, <1>7 DEF IntentsInv

\* Once more the list that Intent() makes.
LEMMA IntentLists ==
  ASSUME NEW c
  PROVE  /\ IsList(Intent(c))
         /\ \A x \in Items(Intent(c)) : x = [is |-> "intent"]
         /\ NeedsIntent(c) => [is |-> "intent"] \in Items(Intent(c))
BY ItemsOfOne DEF Intent

LEMMA PrepareBegins == ASSUME IntentsInv, Prepare PROVE IntentsInv'
<1>1. PICK direction, d, f, i, r, c :
          /\ direction \in Directions /\ d \in Definitions \cup {NoIntent} /\ f \in Files
          /\ i \in Inventories /\ r \in Revisions
          /\ c = [direction |-> direction, intent |-> d, ref |-> [file |-> f, bytes |-> kept[f]],
                  inventory |-> i, revision |-> r, tree |-> NoIntent, stage |-> "prepared",
                  review |-> NoIntent, specifies |-> NoIntent]
          /\ Begins("prepare", c, Intent(c) \o <<[is |-> "inventory"]>>)
  BY DEF Prepare
<1>2. PICK todo : todo = Intent(c) \o <<[is |-> "inventory"]>>
  OBVIOUS
<1>3. IsCandidate(c) /\ c.stage = "prepared" /\ c.review = NoIntent /\ c.specifies = NoIntent
  BY <1>1 DEF IsCandidate
<1>4. IsList(todo) /\ [is |-> "inventory"] \in Items(todo)
  BY <1>2, IntentLists, ListsJoin, ItemsOfOne
<1>5. CallDue("prepare", c, todo)'
  BY <1>1, <1>3, <1>4 DEF Prepare, Begins, CallDue
<1>6. Begins("prepare", c, todo)
  BY <1>1, <1>2
<1> QED
  BY <1>3, <1>4, <1>5, <1>6, CallBegins

LEMMA FreezeBegins == ASSUME IntentsInv, Freeze PROVE IntentsInv'
<1>1. PICK f, ref, c, e, todo :
        /\ f \in Files
        /\ ref = [file |-> f, bytes |-> kept[f]]
        /\ c = [candidate EXCEPT !.stage = "frozen", !.review = ref]
        /\ e = DecisionEvidence(ref, "freeze", candidate)
        /\ todo = Intent(candidate) \o <<[is |-> "fresh"]>> \o Intent(candidate) \o <<e, [is |-> "fresh"]>>
        /\ Begins("freeze", c, todo)
  BY DEF Freeze
<1>2. candidate.stage = "prepared" /\ IsCandidate(candidate) /\ (NeedsIntent(candidate) => Checked(candidate))
      /\ candidate.review = NoIntent /\ candidate.specifies = NoIntent
  BY DEF Freeze, IntentsInv, CandidateFits
<1>3. IsCandidate(c) /\ c.stage = "frozen" /\ c.review = ref /\ c.specifies = NoIntent
      /\ c.direction = candidate.direction /\ c.intent = candidate.intent /\ c.ref = candidate.ref
      /\ c.inventory = candidate.inventory /\ c.revision = candidate.revision /\ c.tree = candidate.tree
  BY <1>1, <1>2 DEF IsCandidate
<1>4. Reviewed(c) = candidate
  BY <1>2, <1>3 DEF Reviewed, IsCandidate
<1>5. /\ IsList(todo)
      /\ Items(todo) = Items(Intent(candidate)) \cup {[is |-> "fresh"], e}
  <2>1. /\ Items(Intent(candidate) \o <<[is |-> "fresh"]>>) = Items(Intent(candidate)) \cup {[is |-> "fresh"]}
        /\ IsList(Intent(candidate) \o <<[is |-> "fresh"]>>)
    BY IntentLists, ListsJoin, ItemsOfOne
  <2>2. /\ Items(Intent(candidate) \o <<[is |-> "fresh"]>> \o Intent(candidate))
             = Items(Intent(candidate)) \cup {[is |-> "fresh"]}
        /\ IsList(Intent(candidate) \o <<[is |-> "fresh"]>> \o Intent(candidate))
    BY <2>1, IntentLists, ListsJoin
  <2>3. Items(<<e, [is |-> "fresh"]>>) = {e, [is |-> "fresh"]} /\ IsList(<<e, [is |-> "fresh"]>>)
    BY ItemsOfOne
  <2> QED
    BY <1>1, <2>2, <2>3, ListsJoin
<1>6. NeedsIntent(c) => [is |-> "intent"] \in Items(todo)
  BY <1>3, <1>5, SameDemand, IntentLists
<1>7. e.is = "evidence" /\ e = DecisionEvidence(c.review, "freeze", Reviewed(c))
  BY <1>1, <1>3, <1>4 DEF DecisionEvidence
<1>8. \A x \in Items(todo) : x.is # "inventory"
  <2>1. \A x \in Items(Intent(candidate)) : x.is = "intent"
    BY IntentLists
  <2> QED
    BY <1>5, <1>7, <2>1
<1>9. candidate' = candidate
  BY <1>1 DEF Begins
<1>10. c = [candidate' EXCEPT !.stage = "frozen", !.review = c.review]
  BY <1>1, <1>3, <1>9
<1>11. IntentDue(c, todo)' /\ ReviewDue(c, todo)'
  <2>1. DecisionEvidence(c.review, "freeze", Reviewed(c)) \in Items(todo)
    BY <1>5, <1>7
  <2>2. c.review.file \in Files
    BY <1>1, <1>3
  <2> QED
    BY <1>6, <2>1, <2>2 DEF IntentDue, ReviewDue, Due
<1>12. CallDue("freeze", c, todo)'
  BY <1>2, <1>8, <1>9, <1>10, <1>11 DEF CallDue
<1> QED
  BY <1>1, <1>3, <1>5, <1>12, CallBegins

LEMMA MaterializeBegins == ASSUME IntentsInv, Materialize PROVE IntentsInv'
<1>1. PICK d, c, todo :
        /\ d \in Specifications
        /\ c = [candidate EXCEPT !.stage = "material", !.specifies = d]
        /\ todo = <<[is |-> "fresh"]>> \o Intent(candidate) \o <<[is |-> "fresh"]>> \o Intent(candidate)
        /\ Begins("materialize", c, todo)
  BY DEF Materialize
<1>2. candidate.stage = "frozen" /\ IsCandidate(candidate)
  BY DEF Materialize, IntentsInv, CandidateFits
<1>3. IsCandidate(c) /\ c.specifies = d
      /\ c.direction = candidate.direction /\ c.intent = candidate.intent /\ c.ref = candidate.ref
      /\ c.inventory = candidate.inventory /\ c.revision = candidate.revision /\ c.tree = candidate.tree
  BY <1>1, <1>2 DEF IsCandidate
<1>5. /\ IsList(todo)
      /\ Items(todo) = Items(Intent(candidate)) \cup {[is |-> "fresh"]}
  <2>1. /\ Items(<<[is |-> "fresh"]>> \o Intent(candidate)) = Items(Intent(candidate)) \cup {[is |-> "fresh"]}
        /\ IsList(<<[is |-> "fresh"]>> \o Intent(candidate))
    BY IntentLists, ListsJoin, ItemsOfOne
  <2>2. /\ Items(<<[is |-> "fresh"]>> \o Intent(candidate) \o <<[is |-> "fresh"]>>)
             = Items(Intent(candidate)) \cup {[is |-> "fresh"]}
        /\ IsList(<<[is |-> "fresh"]>> \o Intent(candidate) \o <<[is |-> "fresh"]>>)
    BY <2>1, ItemsOfOne, ListsJoin
  <2> QED
    BY <1>1, <2>2, IntentLists, ListsJoin
<1>6. NeedsIntent(c) => [is |-> "intent"] \in Items(todo)
  BY <1>3, <1>5, SameDemand, IntentLists
<1>8. \A x \in Items(todo) : x.is # "inventory"
  <2>1. \A x \in Items(Intent(candidate)) : x.is = "intent"
    BY IntentLists
  <2> QED
    BY <1>5, <2>1
<1>9. candidate' = candidate
  BY <1>1 DEF Begins
<1>10. c = [candidate' EXCEPT !.stage = "material", !.specifies = c.specifies]
  BY <1>1, <1>3, <1>9
<1>11. CallDue("materialize", c, todo)'
  BY <1>2, <1>6, <1>8, <1>9, <1>10 DEF CallDue, IntentDue
<1> QED
  BY <1>1, <1>3, <1>5, <1>11, CallBegins

LEMMA AuthorBegins == ASSUME IntentsInv, Author PROVE IntentsInv'
<1>1. PICK readiness, e, todo :
        /\ readiness \in Readiness(candidate)
        /\ e = DecisionEvidence(candidate.review, "freeze", Reviewed(candidate))
        /\ todo = Intent(candidate) \o <<e, [is |-> "fresh"]>> \o readiness
        /\ Begins("author", candidate, todo)
  BY DEF Author
<1>2. candidate.stage = "material" /\ IsCandidate(candidate) /\ candidate.review.file \in Files
  BY DEF Author, IntentsInv, CandidateFits
<1>3. IsList(readiness) /\ \A x \in Items(readiness) : x.is = "evidence"
  BY <1>1, ItemsOfOne DEF Readiness, DecisionEvidence
<1>5. /\ IsList(todo)
      /\ Items(todo) = Items(Intent(candidate)) \cup {[is |-> "fresh"], e} \cup Items(readiness)
  <2>1. Items(<<e, [is |-> "fresh"]>>) = {e, [is |-> "fresh"]} /\ IsList(<<e, [is |-> "fresh"]>>)
    BY ItemsOfOne
  <2>2. /\ Items(Intent(candidate) \o <<e, [is |-> "fresh"]>>) = Items(Intent(candidate)) \cup {[is |-> "fresh"], e}
        /\ IsList(Intent(candidate) \o <<e, [is |-> "fresh"]>>)
    BY <2>1, IntentLists, ListsJoin
  <2> QED
    BY <1>1, <1>3, <2>2, ListsJoin
<1>6. NeedsIntent(candidate) => [is |-> "intent"] \in Items(todo)
  BY <1>5, IntentLists
<1>7. e.is = "evidence"
  BY <1>1 DEF DecisionEvidence
<1>8. \A x \in Items(todo) : x.is # "inventory"
  <2>1. \A x \in Items(Intent(candidate)) : x.is = "intent"
    BY IntentLists
  <2> QED
    BY <1>3, <1>5, <1>7, <2>1
<1>9. PICK c : c = candidate
  OBVIOUS
<1>10. candidate' = c
  BY <1>1, <1>9 DEF Begins
<1>11. CallDue("author", c, todo)'
  BY <1>1, <1>2, <1>5, <1>6, <1>8, <1>9, <1>10 DEF CallDue, IntentDue, ReviewDue, Due
<1> QED
  BY <1>1, <1>2, <1>5, <1>9, <1>11, CallBegins
------------------------------------------------------------------------------
\* A call that goes on has all to look at that was due.
LEMMA CallGoesOn ==
  ASSUME IntentsInv, call.op # "idle", NEW todo, IsList(todo), GoesOn(todo),
         \A x \in Items(todo) : x.is = "inventory" => x \in Items(call.todo),
         [is |-> "inventory"] \in Items(call.todo) => [is |-> "inventory"] \in Items(todo),
         \A ref, operation, of :
           ref.file \in Files /\ Due(ref, operation, of, call.todo) => Due(ref, operation, of, todo),
         IntentDue(call.on, call.todo) => IntentDue(call.on, todo)
  PROVE  IntentsInv'
<1>1. CallFits /\ CallDue(call.op, call.on, call.todo)
  BY DEF IntentsInv
<1>2. call'.op = call.op /\ call'.on = call.on /\ call'.todo = todo
      /\ call' = [op |-> call'.op, on |-> call'.on, todo |-> call'.todo]
  BY <1>1 DEF CallFits, GoesOn, Calls
<1>3. CallFits'
  BY <1>1, <1>2 DEF CallFits, GoesOn, Calls, IsCandidate
<1>4. FilesFit' /\ CandidateFits' /\ GroundsFit' /\ IntentsTypeOK'
  BY <1>2 DEF IntentsInv, FilesFit, CandidateFits, Checked, GroundsFit, GoesOn, Calls, IntentsTypeOK
<1>5. PICK c, op : c = call.on /\ op = call.op
  OBVIOUS
<1>6. (IntentDue(c, todo)' <=> IntentDue(c, todo)) /\ (ReviewDue(c, todo)' <=> ReviewDue(c, todo))
  BY DEF GoesOn, Calls, IntentDue, ReviewDue, Due, SeenOf, Checked
<1>7. ReviewDue(c, call.todo) => ReviewDue(c, todo)
  BY DEF ReviewDue
<1>8. CallDue(op, c, todo)'
  BY <1>1, <1>5, <1>6, <1>7 DEF CallDue, GoesOn, Calls
<1>9. CallDue(call.op, call.on, call.todo)'
  BY <1>2, <1>5, <1>8 DEF CallDue, IntentDue, ReviewDue, Due, SeenOf, Checked
<1> QED
  BY <1>3, <1>4, <1>9 DEF IntentsInv

\* The rest of what there is to look at.
LEMMA RestOfCall ==
  ASSUME IntentsInv, NEW what, Looks(what)
  PROVE  /\ call.op # "idle" /\ CallFits /\ CallDue(call.op, call.on, call.todo)
         /\ IsList(Rest) /\ Items(call.todo) = {Head(call.todo)} \cup Items(Rest)
         /\ Head(call.todo).is = what
<1>1. call.op # "idle" /\ CallFits /\ CallDue(call.op, call.on, call.todo) /\ call.todo # <<>>
  BY DEF IntentsInv, Looks
<1>2. IsList(call.todo)
  BY <1>1 DEF CallFits
<1> QED
  BY <1>1, <1>2, ItemsOfRest DEF Looks, Rest, IsList

LEMMA IntentIsAsserted == ASSUME IntentsInv, AssertIntent PROVE IntentsInv'
<1>1. Looks("intent")
  BY DEF AssertIntent
<1>2. /\ call.op # "idle" /\ IsList(Rest) /\ Items(call.todo) = {Head(call.todo)} \cup Items(Rest)
      /\ Head(call.todo).is = "intent"
  BY <1>1, RestOfCall
<1>3. CASE Fails
  BY <1>3, CallFails
<1>4. CASE ~Fails
  <2>1. PICK e, todo : /\ e = DecisionEvidence(call.on.ref, Operation(call.on.intent), call.on.intent)
                       /\ todo = <<e>> \o Rest
    OBVIOUS
  <2>2. Checked(call.on) /\ GoesOn(todo)
    BY <1>4, <2>1 DEF AssertIntent, Checked
  <2>3. IsList(todo) /\ Items(todo) = {e} \cup Items(Rest)
    BY <1>2, <2>1, ItemsOfOne, ListsJoin
  <2>4. e.is = "evidence"
    BY <2>1 DEF DecisionEvidence
  <2>5. IntentDue(call.on, todo)
    BY <2>1, <2>2, <2>3 DEF IntentDue, Due
  <2>6. ASSUME NEW ref, NEW operation, NEW of, Due(ref, operation, of, call.todo)
        PROVE  Due(ref, operation, of, todo)
    <3>1. DecisionEvidence(ref, operation, of).is = "evidence" /\ PinnedSource(ref.bytes.source).is = "pinned"
      BY DEF DecisionEvidence, PinnedSource
    <3>2. Items(call.todo) \ {Head(call.todo)} \subseteq Items(todo)
      BY <1>2, <2>3
    <3> QED
      BY <1>2, <2>6, <3>1, <3>2 DEF Due, SeenOf
  <2>7. \A x \in Items(todo) : x.is = "inventory" => x \in Items(call.todo)
    BY <1>2, <2>3, <2>4
  <2>8. [is |-> "inventory"] \in Items(call.todo) => [is |-> "inventory"] \in Items(todo)
    BY <1>2, <2>3
  <2> QED
    BY <1>2, <2>2, <2>3, <2>5, <2>6, <2>7, <2>8, CallGoesOn
<1> QED
  BY <1>3, <1>4

LEMMA DecisionIsRead == ASSUME IntentsInv, ReadDecision PROVE IntentsInv'
<1>1. Looks("evidence")
  BY DEF ReadDecision
<1>2. /\ call.op # "idle" /\ CallFits /\ IsList(Rest) /\ Items(call.todo) = {Head(call.todo)} \cup Items(Rest)
      /\ Head(call.todo).is = "evidence"
  BY <1>1, RestOfCall
<1>3. CASE Fails
  BY <1>3, CallFails
<1>4. CASE ~Fails
  <2>1. PICK e, p, todo : /\ e = Head(call.todo) /\ p = PinnedSource(e.ref.bytes.source)
                          /\ todo = <<p>> \o Rest
    OBVIOUS
  <2>2. kept[e.ref.file] = e.ref.bytes /\ Binds(e.ref.bytes, e.operation, e.of) /\ GoesOn(todo)
    BY <1>4, <2>1 DEF ReadDecision
  <2>3. IsList(todo) /\ Items(todo) = {p} \cup Items(Rest) /\ p.is = "pinned"
    BY <1>2, <2>1, ItemsOfOne, ListsJoin DEF PinnedSource
  <2>4. ASSUME NEW ref, NEW operation, NEW of, ref.file \in Files, Due(ref, operation, of, call.todo)
        PROVE  Due(ref, operation, of, todo)
    <3>1. Items(Rest) \subseteq Items(todo) /\ p \in Items(todo)
      BY <2>3
    <3>2. CASE DecisionEvidence(ref, operation, of) = e
      <4>1. e.ref = ref /\ e.operation = operation /\ e.of = of
        BY <3>2 DEF DecisionEvidence
      <4>2. IsDecision(ref.bytes) /\ ref.bytes \in since[ref.file]
        BY <1>2, <2>2, <2>4, <4>1 DEF IntentsInv, FilesFit, CallFits, Binds, EvidenceFiles
      <4> QED
        BY <2>1, <2>2, <3>1, <4>1, <4>2 DEF Due, SeenOf, Binds
    <3>3. CASE DecisionEvidence(ref, operation, of) \in Items(Rest)
      BY <3>1, <3>3 DEF Due
    <3>4. CASE SeenOf(ref, operation, of, call.todo)
      <4>1. PinnedSource(ref.bytes.source).is = "pinned"
        BY DEF PinnedSource
      <4> QED
        BY <1>2, <3>1, <3>4, <4>1 DEF Due, SeenOf
    <3> QED
      BY <1>2, <2>1, <2>4, <3>2, <3>3, <3>4 DEF Due
  <2>5. IntentDue(call.on, call.todo) => IntentDue(call.on, todo)
    <3>1. [is |-> "intent"] \in Items(call.todo) => [is |-> "intent"] \in Items(todo)
      BY <1>2, <2>3
    <3>2. call.on.ref.file \in Files
      BY <1>2 DEF CallFits, IsCandidate
    <3> QED
      BY <2>4, <3>1, <3>2 DEF IntentDue
  <2>6. \A x \in Items(todo) : x.is = "inventory" => x \in Items(call.todo)
    BY <1>2, <2>3
  <2>7. [is |-> "inventory"] \in Items(call.todo) => [is |-> "inventory"] \in Items(todo)
    BY <1>2, <2>3
  <2> QED
    BY <1>2, <2>2, <2>3, <2>4, <2>5, <2>6, <2>7, CallGoesOn
<1> QED
  BY <1>3, <1>4

LEMMA SourceIsRead == ASSUME IntentsInv, ReadSource \/ SourceFresh PROVE IntentsInv'
<1>1. PICK what \in {"pinned", "fresh"} :
        Looks(what) /\ (what = "pinned" <=> ReadSource)
  <2>1. ReadSource => Looks("pinned")
    BY DEF ReadSource
  <2>2. SourceFresh => Looks("fresh")
    BY DEF SourceFresh
  <2> QED
    BY <2>1, <2>2
<1>2. /\ call.op # "idle" /\ CallFits /\ IsList(Rest) /\ Items(call.todo) = {Head(call.todo)} \cup Items(Rest)
      /\ Head(call.todo).is = what
  BY <1>1, RestOfCall
<1>3. CASE Fails
  BY <1>3, CallFails
<1>4. CASE ~Fails
  <2>1. GoesOn(Rest)
    BY <1>4 DEF ReadSource, SourceFresh
  <2>2. ASSUME what = "pinned"
        PROVE  kept[Head(call.todo).pin.file] = Head(call.todo).pin.bytes
    BY <1>1, <1>4, <2>2 DEF ReadSource
  <2>3. ASSUME NEW ref, NEW operation, NEW of, ref.file \in Files, Due(ref, operation, of, call.todo)
        PROVE  Due(ref, operation, of, Rest)
    <3>1. DecisionEvidence(ref, operation, of).is = "evidence"
      BY DEF DecisionEvidence
    <3>2. CASE DecisionEvidence(ref, operation, of) \in Items(call.todo)
      BY <1>1, <1>2, <3>1, <3>2 DEF Due
    <3>3. CASE SeenOf(ref, operation, of, call.todo) /\ PinnedSource(ref.bytes.source) # Head(call.todo)
      BY <1>2, <3>3 DEF Due, SeenOf
    <3>4. CASE SeenOf(ref, operation, of, call.todo) /\ PinnedSource(ref.bytes.source) = Head(call.todo)
      <4>1. what = "pinned" /\ Head(call.todo).pin = ref.bytes.source
        BY <1>2, <3>4 DEF PinnedSource
      <4>2. ref.bytes.source.file = Said
        BY <3>4 DEF SeenOf, IsDecision
      <4>3. ref.bytes.source.bytes \in since[Said]
        BY <1>2, <2>2, <4>1, <4>2 DEF CallFits, EvidenceFiles
      <4> QED
        BY <3>4, <4>3 DEF Due, SeenOf
    <3> QED
      BY <2>3, <3>2, <3>3, <3>4 DEF Due
  <2>4. [is |-> "intent"] \in Items(call.todo) => [is |-> "intent"] \in Items(Rest)
    BY <1>1, <1>2
  <2>5. IntentDue(call.on, call.todo) => IntentDue(call.on, Rest)
    <3>2. call.on.ref.file \in Files
      BY <1>2 DEF CallFits, IsCandidate
    <3> QED
      BY <2>3, <2>4, <3>2 DEF IntentDue
  <2>6. [is |-> "inventory"] \in Items(call.todo) => [is |-> "inventory"] \in Items(Rest)
    BY <1>1, <1>2
  <2>7. PICK todo : todo = Rest
    OBVIOUS
  <2> QED
    BY <1>2, <2>1, <2>3, <2>5, <2>6, <2>7, CallGoesOn
<1> QED
  BY <1>3, <1>4

LEMMA SourceIsInventoried == ASSUME IntentsInv, Inventory PROVE IntentsInv'
<1>1. PICK c, todo :
        /\ c = [call.on EXCEPT !.tree = origin]
        /\ todo = (IF IsV2(c) THEN Intent(c) ELSE <<>>) \o Intent(c)
        /\ Calls([call EXCEPT !.on = c, !.todo = todo])
  BY DEF Inventory
<1>2. /\ call.op # "idle" /\ CallFits /\ CallDue(call.op, call.on, call.todo)
      /\ [is |-> "inventory"] \in Items(call.todo) \/ call.op = "prepare"
  BY RestOfCall DEF Inventory, CallDue
<1>3. call.op = "prepare"
  <2>1. Looks("inventory")
    BY DEF Inventory
  <2>2. Head(call.todo) \in Items(call.todo) /\ Head(call.todo).is = "inventory"
    BY <2>1, RestOfCall
  <2> QED
    BY <1>2, <2>2 DEF CallDue
<1>4. /\ IsCandidate(c) /\ c.tree = origin /\ c.stage = call.on.stage /\ c.review = call.on.review
      /\ c.specifies = call.on.specifies
  BY <1>1, <1>2 DEF CallFits, IsCandidate
<1>5. origin \in Trees
  BY DEF IntentsInv, IntentsTypeOK
<1>6. IsList(todo) /\ (NeedsIntent(c) => [is |-> "intent"] \in Items(todo))
  BY <1>1, IntentLists, ItemsOfOne, ListsJoin
<1>7. call'.op = "prepare" /\ call'.on = c /\ call'.todo = todo
      /\ call' = [op |-> call'.op, on |-> call'.on, todo |-> call'.todo]
  BY <1>1, <1>2, <1>3 DEF CallFits, Calls
<1>8. CallFits'
  BY <1>1, <1>2, <1>4, <1>6, <1>7 DEF CallFits, Calls
<1>9. CallDue("prepare", c, todo)'
  BY <1>1, <1>2, <1>3, <1>4, <1>5, <1>6 DEF CallDue, Calls, IntentDue
<1>10. FilesFit' /\ CandidateFits' /\ GroundsFit' /\ IntentsTypeOK'
  BY <1>1, <1>7 DEF IntentsInv, FilesFit, CandidateFits, Checked, GroundsFit, Calls, IntentsTypeOK
<1>11. CallDue(call.op, call.on, call.todo)'
  BY <1>7, <1>9 DEF CallDue, IntentDue, ReviewDue, Due, SeenOf, Checked
<1> QED
  BY <1>8, <1>10, <1>11 DEF IntentsInv

\* What is due of a call that has looked at all, it has seen.
LEMMA AllSeen ==
  ASSUME CallFits, FilesFit, call.todo = <<>>, NEW ref, NEW operation, NEW of,
         Due(ref, operation, of, call.todo)
  PROVE  Shown(ref, operation, of, since)
<1>1. Items(call.todo) = {}
  BY ItemsOfOne
<1>2. SeenOf(ref, operation, of, call.todo) /\ ref.bytes.source.file = Said
  BY <1>1 DEF Due, SeenOf, IsDecision
<1> QED
  BY <1>1, <1>2 DEF SeenOf, IsDecision, Shown

LEMMA CallComplies == ASSUME IntentsInv, Complies PROVE IntentsInv'
<1>1. /\ call.op # "idle" /\ CallFits /\ CallDue(call.op, call.on, call.todo) /\ call.todo = <<>>
      /\ FilesFit /\ GroundsFit /\ CandidateFits /\ IntentsTypeOK
  BY DEF IntentsInv, Complies
<1>2. call'.op = "idle" /\ FilesFit'
  BY <1>1 DEF Complies, IdleCall, FilesFit, NothingSeen
<1>3. Items(call.todo) = {}
  BY <1>1, ItemsOfOne
<1>4. call.op \in {"prepare", "freeze", "materialize", "author"}
  BY <1>1 DEF IntentsTypeOK
<1>5. NeedsIntent(call.on) =>
        Checked(call.on) /\ Shown(call.on.ref, Operation(call.on.intent), call.on.intent, since)
  BY <1>1, <1>3, <1>4, AllSeen DEF CallDue, IntentDue
<1>6. call.op \in {"freeze", "author"} =>
        call.on.review.file \in Files /\ Shown(call.on.review, "freeze", Reviewed(call.on), since)
  BY <1>1, AllSeen DEF CallDue, ReviewDue
<1>7. IsCandidate(call.on)
  BY <1>1 DEF CallFits
<1>8. CASE call.op = "author"
  <2>1. call.on = candidate /\ candidate' = candidate /\ candidate.stage = "material"
    BY <1>1, <1>8 DEF CallDue, Complies
  <2>2. /\ admission' = IF admission = NoIntent THEN Granted(candidate) ELSE admission
        /\ grounds' = [grounds EXCEPT !["admitted"] = IF admission' = Granted(candidate) THEN since ELSE @]
    BY <1>8, <2>1 DEF Complies
  <2>3. CandidateFits' /\ IntentsTypeOK'
    BY <1>1, <1>2, <2>1 DEF CandidateFits, Checked, IntentsTypeOK, Complies
  <2>4. grounds' = [s \in Steps |-> grounds'[s]]
    BY <1>1, <2>2 DEF GroundsFit
  <2>5. ASSUME NEW s \in Steps, grounds'[s] # NoIntent
        PROVE  /\ candidate.stage # "none"
               /\ NeedsIntent(candidate) =>
                    Shown(candidate.ref, Operation(candidate.intent), candidate.intent, grounds'[s])
               /\ s \in {"frozen", "admitted"} =>
                    candidate.stage # "prepared"
                    /\ Shown(candidate.review, "freeze", Reviewed(candidate), grounds'[s])
               /\ s = "material" => candidate.stage = "material"
               /\ s = "admitted" => candidate.stage = "material" /\ admission' = Granted(candidate)
    <3>1. CASE s = "admitted" /\ admission' = Granted(candidate)
      <4>1. grounds'[s] = since
        BY <1>1, <2>2, <3>1 DEF GroundsFit
      <4> QED
        BY <1>5, <1>6, <1>8, <2>1, <3>1, <4>1
    <3>2. CASE ~(s = "admitted" /\ admission' = Granted(candidate))
      <4>1. grounds'[s] = grounds[s]
        BY <1>1, <2>2, <3>2 DEF GroundsFit
      <4>2. s = "admitted" => admission = Granted(candidate)
        BY <1>1, <2>5, <4>1 DEF GroundsFit
      <4>3. s = "admitted" => admission' = Granted(candidate)
        BY <2>2, <4>2
      <4> QED
        BY <1>1, <2>5, <4>1, <4>3 DEF GroundsFit
    <3> QED
      BY <3>1, <3>2
  <2>6. GroundsFit'
    BY <2>1, <2>4, <2>5 DEF GroundsFit
  <2> QED
    BY <1>2, <2>3, <2>6 DEF IntentsInv
<1>9. CASE call.op # "author"
  <2>1. candidate' = call.on /\ grounds' = [grounds EXCEPT ![call.on.stage] = since] /\ admission' = admission
    BY <1>9 DEF Complies
  <2>2. /\ call.op = "prepare" => candidate.stage = "none" /\ call.on.stage = "prepared"
               /\ call.on.review = NoIntent /\ call.on.specifies = NoIntent /\ call.on.tree \in Trees
        /\ call.op = "freeze" => candidate.stage = "prepared"
               /\ call.on = [candidate EXCEPT !.stage = "frozen", !.review = call.on.review]
        /\ call.op = "materialize" => candidate.stage = "frozen"
               /\ call.on = [candidate EXCEPT !.stage = "material", !.specifies = call.on.specifies]
    BY <1>1, <1>3 DEF CallDue
  <2>3. ASSUME call.op # "prepare"
        PROVE  /\ call.on.direction = candidate.direction /\ call.on.intent = candidate.intent
               /\ call.on.ref = candidate.ref /\ call.on.inventory = candidate.inventory
               /\ call.on.revision = candidate.revision /\ call.on.tree = candidate.tree
               /\ call.op = "freeze" => call.on.stage = "frozen"
               /\ call.op = "materialize" => /\ call.on.stage = "material" /\ call.on.review = candidate.review
                                             /\ Reviewed(call.on) = Reviewed(candidate)
               /\ candidate.tree \in Trees
    <3>1. IsCandidate(candidate) /\ candidate.tree \in Trees
      BY <1>1, <1>4, <1>9, <2>2, <2>3 DEF CandidateFits, IntentsTypeOK
    <3>2. CASE call.op = "freeze"
      BY <2>2, <3>1, <3>2 DEF IsCandidate
    <3>3. CASE call.op = "materialize"
      BY <2>2, <3>1, <3>3 DEF IsCandidate, Reviewed
    <3> QED
      BY <1>4, <1>9, <2>3, <3>1, <3>2, <3>3
  <2>4. call.on.stage \in {"prepared", "frozen", "material"} /\ call.on.tree \in Trees
        /\ (call.on.stage # "prepared" => call.on.review.file \in Files)
    BY <1>1, <1>4, <1>6, <1>9, <2>2, <2>3 DEF CandidateFits
  <2>5. CandidateFits'
    <3>1. CandidateFits' <=>
            (call.on.stage # "none" =>
              /\ IsCandidate(call.on) /\ (NeedsIntent(call.on) => Checked(call.on))
              /\ call.on.stage = "prepared" => call.on.review = NoIntent /\ call.on.specifies = NoIntent
              /\ call.on.stage # "prepared" => call.on.review.file \in Files)
      BY <2>1 DEF CandidateFits
    <3> QED
      BY <1>4, <1>5, <1>7, <1>9, <2>2, <2>3, <2>4, <3>1
  <2>6. IntentsTypeOK'
    BY <1>1, <1>2, <2>1, <2>4 DEF IntentsTypeOK, Complies
  <2>7. grounds' = [s \in Steps |-> grounds'[s]]
    BY <1>1, <2>1 DEF GroundsFit
  <2>8. ASSUME NEW s \in Steps, grounds'[s] # NoIntent
        PROVE  /\ NeedsIntent(call.on) =>
                    Shown(call.on.ref, Operation(call.on.intent), call.on.intent, grounds'[s])
               /\ s \in {"frozen", "admitted"} =>
                    call.on.stage # "prepared" /\ Shown(call.on.review, "freeze", Reviewed(call.on), grounds'[s])
               /\ s = "material" => call.on.stage = "material"
               /\ s # "admitted"
    <3>1. call.on.stage \in Steps
      BY <2>4 DEF Steps
    <3>2. CASE s = call.on.stage
      <4>1. grounds'[s] = since
        BY <1>1, <2>1, <3>1, <3>2 DEF GroundsFit
      <4>2. s = "frozen" => call.op = "freeze"
        BY <1>4, <1>9, <2>2, <2>3, <3>2
      <4> QED
        BY <1>5, <1>6, <2>4, <3>2, <4>1, <4>2
    <3>3. CASE s # call.on.stage
      <4>1. grounds'[s] = grounds[s]
        BY <1>1, <2>1, <3>3 DEF GroundsFit
      <4>2. call.op # "prepare" /\ candidate.stage \in {"prepared", "frozen"}
        BY <1>1, <1>4, <1>9, <2>2, <2>8, <4>1 DEF GroundsFit
      <4>3. NeedsIntent(call.on) <=> NeedsIntent(candidate)
        BY <2>3, <4>2, SameDemand
      <4>4. /\ NeedsIntent(candidate) =>
                 Shown(candidate.ref, Operation(candidate.intent), candidate.intent, grounds'[s])
            /\ s \in {"frozen", "admitted"} =>
                 candidate.stage # "prepared" /\ Shown(candidate.review, "freeze", Reviewed(candidate), grounds'[s])
            /\ s \notin {"material", "admitted"}
        BY <1>1, <2>8, <4>1, <4>2 DEF GroundsFit
      <4>5. s = "frozen" => call.op = "materialize"
        BY <1>4, <1>9, <2>2, <4>2, <4>4
      <4> QED
        BY <2>3, <4>2, <4>3, <4>4, <4>5
    <3> QED
      BY <3>2, <3>3
  <2>9. GroundsFit'
    BY <2>1, <2>4, <2>7, <2>8 DEF GroundsFit
  <2> QED
    BY <1>2, <2>5, <2>6, <2>9 DEF IntentsInv
<1> QED
  BY <1>8, <1>9

\* Whoever changes a file or the source: what was seen is not forgotten.
LEMMA FilesAreEdited == ASSUME IntentsInv, edits < MaxEdits, edits' = edits + 1, Edit PROVE IntentsInv'
<1>1. edits' \in 0 .. MaxEdits
  BY IntentsAssumption DEF IntentsInv, IntentsTypeOK
<1>2. ASSUME NEW f \in EvidenceFiles, NEW content, Puts(f, content),
             f \in Files => content = NoIntent \/ IsDecision(content)
      PROVE  IntentsInv'
  <2>1. /\ kept' = [kept EXCEPT ![f] = content]
        /\ since' = [since EXCEPT ![f] = IF call.op = "idle" THEN @ ELSE @ \cup {content}]
        /\ origin' = origin /\ candidate' = candidate /\ call' = call /\ admission' = admission
        /\ grounds' = grounds
    BY <1>2 DEF Puts
  <2>2. FilesFit'
    BY <1>2, <2>1 DEF IntentsInv, FilesFit, EvidenceFiles
  <2>3. CandidateFits' /\ GroundsFit' /\ IntentsTypeOK'
    BY <1>1, <2>1 DEF IntentsInv, CandidateFits, Checked, GroundsFit, IntentsTypeOK
  <2>4. ASSUME call.op # "idle" PROVE CallFits' /\ CallDue(call.op, call.on, call.todo)'
    <3>1. CallFits /\ CallDue(call.op, call.on, call.todo) /\ FilesFit
      BY <2>4 DEF IntentsInv
    <3>2. \A g \in EvidenceFiles : since[g] \subseteq since'[g]
      BY <1>2, <2>1, <3>1 DEF FilesFit
    <3>3. CallFits'
      <4>1. \A g \in EvidenceFiles : kept'[g] \in since'[g]
        BY <1>2, <2>1, <2>4, <3>1, <3>2 DEF FilesFit, CallFits
      <4> QED
        BY <2>1, <3>1, <4>1 DEF CallFits
    <3>4. ASSUME NEW ref, NEW operation, NEW of, NEW todo, ref.file \in Files, Due(ref, operation, of, todo)
          PROVE  Due(ref, operation, of, todo)'
      BY <3>2, <3>4 DEF Due, SeenOf, EvidenceFiles
    <3>5. PICK c, op, todo : c = call.on /\ op = call.op /\ todo = call.todo
      OBVIOUS
    <3>6. c.ref.file \in Files
      BY <3>1, <3>5 DEF CallFits, IsCandidate
    <3>7. (IntentDue(c, todo) => IntentDue(c, todo)') /\ (ReviewDue(c, todo) => ReviewDue(c, todo)')
      BY <3>4, <3>6 DEF IntentDue, ReviewDue, Checked
    <3>8. CallDue(op, c, todo)'
      BY <2>1, <3>1, <3>5, <3>7 DEF CallDue
    <3>9. CallDue(call.op, call.on, call.todo)'
      BY <2>1, <3>5, <3>8 DEF CallDue, IntentDue, ReviewDue, Due, SeenOf, Checked
    <3> QED
      BY <3>3, <3>9
  <2> QED
    BY <2>1, <2>2, <2>3, <2>4 DEF IntentsInv
<1>3. CASE Decide
  <2>1. PICK f, S, d : f \in Files /\ d \in Decisions(S) /\ Puts(f, d)
    BY <1>3 DEF Decide
  <2>2. IsDecision(d)
    BY <2>1 DEF Decisions, IsDecision
  <2> QED
    BY <1>2, <2>1, <2>2 DEF EvidenceFiles
<1>4. CASE \E f \in Files : Puts(f, NoIntent)
  BY <1>2, <1>4 DEF EvidenceFiles
<1>5. CASE \E n \in Notes \ {kept[Said]} : Puts(Said, n)
  BY <1>2, <1>5, IntentsAssumption DEF EvidenceFiles
<1>6. CASE \E t \in Trees \ {origin} :
             origin' = t /\ UNCHANGED <<kept, candidate, call, admission, since, grounds>>
  <2>1. FilesFit' /\ CandidateFits' /\ GroundsFit' /\ IntentsTypeOK'
    BY <1>1, <1>6 DEF IntentsInv, FilesFit, CandidateFits, Checked, GroundsFit, IntentsTypeOK
  <2>2. (CallFits' <=> CallFits) /\ (CallDue(call.op, call.on, call.todo)' <=> CallDue(call.op, call.on, call.todo))
    BY <1>6 DEF CallFits, CallDue, IntentDue, ReviewDue, Due, SeenOf, Checked
  <2> QED
    BY <1>6, <2>1, <2>2 DEF IntentsInv
<1> QED
  BY <1>3, <1>4, <1>5, <1>6 DEF Edit

LEMMA IntentsStep == IntentsInv /\ [IntentsNext]_intentVars => IntentsInv'
<1> SUFFICES ASSUME IntentsInv, [IntentsNext]_intentVars PROVE IntentsInv'
  OBVIOUS
<1>1. CASE UNCHANGED intentVars
  <2>1. FilesFit' /\ CandidateFits' /\ GroundsFit' /\ IntentsTypeOK'
    BY <1>1 DEF intentVars, IntentsInv, FilesFit, CandidateFits, Checked, GroundsFit, IntentsTypeOK
  <2>2. (CallFits' <=> CallFits) /\ (CallDue(call.op, call.on, call.todo)' <=> CallDue(call.op, call.on, call.todo))
    BY <1>1 DEF intentVars, CallFits, CallDue, IntentDue, ReviewDue, Due, SeenOf, Checked
  <2> QED
    BY <1>1, <2>1, <2>2 DEF intentVars, IntentsInv
<1>2. CASE edits < MaxEdits /\ edits' = edits + 1 /\ Edit
  BY <1>2, FilesAreEdited
<1> QED
  BY <1>1, <1>2, PrepareBegins, SourceIsInventoried, FreezeBegins, MaterializeBegins, AuthorBegins,
     IntentIsAsserted, DecisionIsRead, SourceIsRead, CallComplies DEF IntentsNext

\* An intent that was checked is of all that is required: requirements have variants.
LEMMA AcceptsRequired ==
  ASSUME NEW c, Checked(c), c.inventory \in Inventories, c.tree \in Trees
  PROVE  /\ \A i \in DOMAIN c.inventory :
              i \in DOMAIN c.intent.accepts /\ c.intent.accepts[i] = c.inventory[i]
         /\ IsV2(c) => c.tree = c.intent.tree
         /\ ~IsV2(c) => Pairs(c.intent.accepts) \subseteq Pairs(c.inventory) /\ Uses[c.intent.use] <= c.intent.level
<1>1. CASE IsV2(c)
  <2>1. c.intent.schema = "v2" /\ CompleteV2(c.intent, c)
    BY <1>1 DEF Checked, IsV2
  <2> QED
    BY <1>1, <2>1, IntentsAssumption DEF CompleteV2, AcceptsAll
<1>2. CASE ~IsV2(c)
  <2>1. c.intent # NoIntent /\ c.intent.schema # "v2" /\ CompleteV1(c.intent, c)
    BY <1>2 DEF Checked, IsV2
  <2>2. Pairs(c.intent.accepts) = Pairs(c.inventory) /\ Uses[c.intent.use] <= c.intent.level
    BY <2>1 DEF CompleteV1, AcceptsAll
  <2>3. ASSUME NEW i \in DOMAIN c.inventory
        PROVE  i \in DOMAIN c.intent.accepts /\ c.intent.accepts[i] = c.inventory[i]
    <3>1. PICK v : v \in c.inventory[i]
      BY IntentsAssumption
    <3>2. <<i, v>> \in Pairs(c.inventory)
      BY <3>1 DEF Pairs
    <3>3. i \in DOMAIN c.intent.accepts
      <4>1. PICK k \in DOMAIN c.intent.accepts : <<i, v>> \in {<<k, w>> : w \in c.intent.accepts[k]}
        <5>1. <<i, v>> \in Pairs(c.intent.accepts)
          BY <2>2, <3>2
        <5>2. <<i, v>> \in UNION {{<<k, w>> : w \in c.intent.accepts[k]} : k \in DOMAIN c.intent.accepts}
          BY <5>1 DEF Pairs
        <5> QED
          BY <5>2
      <4>2. PICK w : <<i, v>> = <<k, w>>
        BY <4>1
      <4> QED
        BY <4>1, <4>2
    <3>4. \A w : w \in c.inventory[i] <=> <<i, w>> \in Pairs(c.inventory)
      BY DEF Pairs
    <3>5. \A w : w \in c.intent.accepts[i] <=> <<i, w>> \in Pairs(c.intent.accepts)
      BY <3>3 DEF Pairs
    <3> QED
      BY <2>2, <3>3, <3>4, <3>5
  <2> QED
    BY <1>2, <2>2, <2>3
<1> QED
  BY <1>1, <1>2

LEMMA IntentsAreAccepted == IntentsInv => AuthoredAsIntended
<1> SUFFICES ASSUME IntentsInv, NEW s \in Steps, grounds[s] # NoIntent
             PROVE  /\ NeedsIntent(candidate) =>
                         /\ Shown(candidate.ref, Operation(candidate.intent), candidate.intent, grounds[s])
                         /\ \A i \in DOMAIN candidate.inventory :
                              i \in DOMAIN candidate.intent.accepts
                              /\ candidate.intent.accepts[i] = candidate.inventory[i]
                         /\ IsV2(candidate) => candidate.tree = candidate.intent.tree
                         /\ ~IsV2(candidate) =>
                              Pairs(candidate.intent.accepts) \subseteq Pairs(candidate.inventory)
                              /\ Uses[candidate.intent.use] <= candidate.intent.level
                    /\ s \in {"frozen", "admitted"} =>
                         Shown(candidate.review, "freeze", Reviewed(candidate), grounds[s])
                    /\ s = "admitted" /\ candidate.direction = "reverse" =>
                         admission.level = candidate.intent.level
  BY DEF AuthoredAsIntended
<1>1. /\ candidate.stage # "none"
      /\ NeedsIntent(candidate) =>
           Shown(candidate.ref, Operation(candidate.intent), candidate.intent, grounds[s])
      /\ s \in {"frozen", "admitted"} =>
           Shown(candidate.review, "freeze", Reviewed(candidate), grounds[s])
      /\ s = "admitted" => admission = Granted(candidate)
  BY DEF IntentsInv, GroundsFit
<1>2. /\ candidate.inventory \in Inventories /\ candidate.tree \in Trees
      /\ NeedsIntent(candidate) => Checked(candidate)
  BY <1>1 DEF IntentsInv, CandidateFits, IsCandidate, IntentsTypeOK
<1>3. NeedsIntent(candidate) =>
        /\ \A i \in DOMAIN candidate.inventory :
             i \in DOMAIN candidate.intent.accepts
             /\ candidate.intent.accepts[i] = candidate.inventory[i]
        /\ IsV2(candidate) => candidate.tree = candidate.intent.tree
        /\ ~IsV2(candidate) =>
             Pairs(candidate.intent.accepts) \subseteq Pairs(candidate.inventory)
             /\ Uses[candidate.intent.use] <= candidate.intent.level
  BY <1>2, AcceptsRequired
<1>4. s = "admitted" /\ candidate.direction = "reverse" => admission.level = candidate.intent.level
  BY <1>1 DEF Granted
<1> QED
  BY <1>1, <1>3, <1>4

LEMMA IntentsStand == IntentsSpec => [](AuthoredAsIntended /\ IntentsTypeOK)
<1>1. IntentsInv => AuthoredAsIntended /\ IntentsTypeOK
  BY IntentsAreAccepted DEF IntentsInv
<1> QED
  BY <1>1, IntentsStart, IntentsStep, PTL DEF IntentsSpec
------------------------------------------------------------------------------
(* Oracle: the levels of a comparison, and of the places of a value.  Level n has the paths
   of n parts. *)
ComparesBy(at, e, a, t, f, M) ==
  at = [n \in 0 .. M |-> IF n = 0 THEN {[path |-> <<>>, expected |-> e, actual |-> a]}
                         ELSE UNION {Descends(pair, t, f) : pair \in at[n - 1]}]
PlacesBy(at, v, M) ==
  at = [n \in 0 .. M |-> IF n = 0 THEN {[path |-> <<>>, value |-> v]}
                         ELSE UNION {PartsOf(place) : place \in at[n - 1]}]

LEMMA ComparesExist ==
  ASSUME NEW e, NEW a, NEW t, NEW f, NEW M \in Nat
  PROVE  \E at : ComparesBy(at, e, a, t, f, M)
<1> DEFINE First == {[path |-> <<>>, expected |-> e, actual |-> a]}
           Further(level) == UNION {Descends(pair, t, f) : pair \in level}
           none == {m \in Nat : ~\E at : ComparesBy(at, e, a, t, f, m)}
<1> SUFFICES ASSUME none # {} PROVE FALSE
  OBVIOUS
<1>1. PICK m \in none : \A k \in none : m <= k
  <2>1. none \subseteq Nat
    OBVIOUS
  <2> HIDE DEF none
  <2> QED
    BY <2>1, LeastIn
<1>a. \A at, k : ComparesBy(at, e, a, t, f, k) <=>
                   at = [n \in 0 .. k |-> IF n = 0 THEN First ELSE Further(at[n - 1])]
  BY DEF ComparesBy
<1> HIDE DEF First, Further
<1>2. CASE m = 0
  <2> DEFINE g == [n \in 0 .. 0 |-> First]
  <2>1. g = [n \in 0 .. 0 |-> IF n = 0 THEN First ELSE Further(g[n - 1])]
    OBVIOUS
  <2> HIDE DEF g
  <2>2. ComparesBy(g, e, a, t, f, 0)
    BY <1>a, <2>1
  <2> QED
    BY <1>1, <1>2, <2>2
<1>3. CASE m # 0
  <2>1. m - 1 \in Nat /\ m - 1 \notin none
    BY <1>1, <1>3
  <2>2. PICK h : ComparesBy(h, e, a, t, f, m - 1)
    BY <2>1
  <2>3. h = [n \in 0 .. m - 1 |-> IF n = 0 THEN First ELSE Further(h[n - 1])]
    BY <1>a, <2>2
  <2> DEFINE g == [n \in 0 .. m |-> IF n = m THEN Further(h[m - 1]) ELSE h[n]]
  <2>4. \A n \in 0 .. m : g[n] = (IF n = 0 THEN First ELSE Further(g[n - 1]))
    <3> SUFFICES ASSUME NEW n \in 0 .. m
                 PROVE  g[n] = (IF n = 0 THEN First ELSE Further(g[n - 1]))
      OBVIOUS
    <3>1. m \in Nat
      BY <1>1
    <3>2. CASE n = m
      <4>1. g[n] = Further(h[m - 1]) /\ g[n - 1] = h[m - 1]
        BY <1>3, <3>1, <3>2
      <4> QED
        BY <1>3, <3>2, <4>1
    <3>3. CASE n # m
      <4>1. n \in 0 .. m - 1 /\ g[n] = h[n] /\ (n # 0 => g[n - 1] = h[n - 1])
        BY <3>1, <3>3
      <4>2. h[n] = (IF n = 0 THEN First ELSE Further(h[n - 1]))
        BY <2>3, <4>1
      <4> QED
        BY <4>1, <4>2
    <3> QED
      BY <3>2, <3>3
  <2>5. g = [n \in 0 .. m |-> g[n]]
    OBVIOUS
  <2>6. ComparesBy(g, e, a, t, f, m)
    <3> HIDE DEF g
    <3>1. g = [n \in 0 .. m |-> IF n = 0 THEN First ELSE Further(g[n - 1])]
      BY <2>4, <2>5
    <3> QED
      BY <1>a, <3>1
  <2> QED
    BY <1>1, <2>6
<1> QED
  BY <1>2, <1>3

LEMMA PlacesExist ==
  ASSUME NEW v, NEW M \in Nat
  PROVE  \E at : PlacesBy(at, v, M)
<1> DEFINE First == {[path |-> <<>>, value |-> v]}
           Further(level) == UNION {PartsOf(place) : place \in level}
           none == {m \in Nat : ~\E at : PlacesBy(at, v, m)}
<1> SUFFICES ASSUME none # {} PROVE FALSE
  OBVIOUS
<1>1. PICK m \in none : \A k \in none : m <= k
  <2>1. none \subseteq Nat
    OBVIOUS
  <2> HIDE DEF none
  <2> QED
    BY <2>1, LeastIn
<1>a. \A at, k : PlacesBy(at, v, k) <=>
                   at = [n \in 0 .. k |-> IF n = 0 THEN First ELSE Further(at[n - 1])]
  BY DEF PlacesBy
<1> HIDE DEF First, Further
<1>2. CASE m = 0
  <2> DEFINE g == [n \in 0 .. 0 |-> First]
  <2>1. g = [n \in 0 .. 0 |-> IF n = 0 THEN First ELSE Further(g[n - 1])]
    OBVIOUS
  <2> HIDE DEF g
  <2>2. PlacesBy(g, v, 0)
    BY <1>a, <2>1
  <2> QED
    BY <1>1, <1>2, <2>2
<1>3. CASE m # 0
  <2>1. m - 1 \in Nat /\ m - 1 \notin none
    BY <1>1, <1>3
  <2>2. PICK h : PlacesBy(h, v, m - 1)
    BY <2>1
  <2>3. h = [n \in 0 .. m - 1 |-> IF n = 0 THEN First ELSE Further(h[n - 1])]
    BY <1>a, <2>2
  <2> DEFINE g == [n \in 0 .. m |-> IF n = m THEN Further(h[m - 1]) ELSE h[n]]
  <2>4. \A n \in 0 .. m : g[n] = (IF n = 0 THEN First ELSE Further(g[n - 1]))
    <3> SUFFICES ASSUME NEW n \in 0 .. m
                 PROVE  g[n] = (IF n = 0 THEN First ELSE Further(g[n - 1]))
      OBVIOUS
    <3>1. m \in Nat
      BY <1>1
    <3>2. CASE n = m
      <4>1. g[n] = Further(h[m - 1]) /\ g[n - 1] = h[m - 1]
        BY <1>3, <3>1, <3>2
      <4> QED
        BY <1>3, <3>2, <4>1
    <3>3. CASE n # m
      <4>1. n \in 0 .. m - 1 /\ g[n] = h[n] /\ (n # 0 => g[n - 1] = h[n - 1])
        BY <3>1, <3>3
      <4>2. h[n] = (IF n = 0 THEN First ELSE Further(h[n - 1]))
        BY <2>3, <4>1
      <4> QED
        BY <4>1, <4>2
    <3> QED
      BY <3>2, <3>3
  <2>5. g = [n \in 0 .. m |-> g[n]]
    OBVIOUS
  <2>6. PlacesBy(g, v, m)
    <3> HIDE DEF g
    <3>1. g = [n \in 0 .. m |-> IF n = 0 THEN First ELSE Further(g[n - 1])]
      BY <2>4, <2>5
    <3> QED
      BY <1>a, <3>1
  <2> QED
    BY <1>1, <2>6
<1> QED
  BY <1>2, <1>3
------------------------------------------------------------------------------
LEMMA ComparedIs ==
  ASSUME NEW e, NEW a, NEW t, NEW f
  PROVE  \E at : /\ ComparesBy(at, e, a, t, f, MaxDepth)
                 /\ Compared(e, a, t, f) = UNION {at[n] : n \in 0 .. MaxDepth}
<1> DEFINE at == CHOOSE at : ComparesBy(at, e, a, t, f, MaxDepth)
<1>1. Compared(e, a, t, f) = UNION {at[n] : n \in 0 .. MaxDepth}
  BY DEF Compared, ComparesBy
<1>2. ComparesBy(at, e, a, t, f, MaxDepth)
  <2>1. \E g : ComparesBy(g, e, a, t, f, MaxDepth)
    BY ComparesExist, OracleAssumption
  <2> QED
    BY <2>1
<1> QED
  BY <1>1, <1>2

LEMMA PlacesAre ==
  ASSUME NEW v
  PROVE  \E at : /\ PlacesBy(at, v, MaxDepth)
                 /\ PlacesOf(v) = UNION {at[n] : n \in 0 .. MaxDepth}
<1> DEFINE at == CHOOSE at : PlacesBy(at, v, MaxDepth)
<1>1. PlacesOf(v) = UNION {at[n] : n \in 0 .. MaxDepth}
  BY DEF PlacesOf, PlacesBy
<1>2. PlacesBy(at, v, MaxDepth)
  <2>1. \E g : PlacesBy(g, v, MaxDepth)
    BY PlacesExist, OracleAssumption
  <2> QED
    BY <2>1
<1> QED
  BY <1>1, <1>2

\* A path that goes on begins with the path.
LEMMA PathGoesOn ==
  ASSUME NEW s, IsList(s), NEW k
  PROVE  /\ IsList(Append(s, k)) /\ Len(Append(s, k)) = Len(s) + 1
         /\ Append(s, k)[Len(s) + 1] = k
         /\ \A n \in 0 .. Len(s) : SubSeq(Append(s, k), 1, n) = SubSeq(s, 1, n)
         /\ SubSeq(s, 1, Len(s)) = s
         /\ SubSeq(Append(s, k), 1, Len(s)) = s
<1>1. s \in Seq(Items(s) \cup {k}) /\ s \in Seq(Items(s)) /\ Len(s) \in Nat
  BY DEF IsList
<1>2. Append(s, k) \in Seq(Items(s) \cup {k}) /\ Len(Append(s, k)) = Len(s) + 1
      /\ Append(s, k)[Len(s) + 1] = k /\ \A i \in 1 .. Len(s) : Append(s, k)[i] = s[i]
  BY <1>1
<1>3. IsList(Append(s, k))
  BY <1>2, ListOfItems
<1>4. SubSeq(s, 1, Len(s)) = s
  BY <1>1
<1>5. ASSUME NEW n \in 0 .. Len(s) PROVE SubSeq(Append(s, k), 1, n) = SubSeq(s, 1, n)
  <2>1. SubSeq(Append(s, k), 1, n) = [i \in 1 .. n |-> Append(s, k)[i]]
    BY <1>1, <1>2, <1>5 DEF SubSeq
  <2>2. SubSeq(s, 1, n) = [i \in 1 .. n |-> s[i]]
    BY <1>1, <1>5 DEF SubSeq
  <2>3. \A i \in 1 .. n : Append(s, k)[i] = s[i]
    BY <1>1, <1>2, <1>5
  <2> QED
    BY <2>1, <2>2, <2>3
<1> QED
  BY <1>1, <1>2, <1>3, <1>4, <1>5

LEMMA PathsPart ==
  ASSUME NEW s, NEW r, NEW k, NEW l, IsList(s), IsList(r), Append(s, k) = Append(r, l)
  PROVE  s = r /\ k = l
<1>1. Len(s) \in Nat /\ Len(r) \in Nat
  BY DEF IsList
<1>2. Len(s) = Len(r)
  BY <1>1, PathGoesOn
<1>3. s = r
  BY <1>2, PathGoesOn
<1>4. k = l
  BY <1>2, PathGoesOn
<1> QED
  BY <1>3, <1>4

\* Level n has the paths of n parts, each once.
IsPlace(o) == o = [path |-> o.path, value |-> o.value]
Once(level, n) ==
  /\ \A o \in level : IsList(o.path) /\ Len(o.path) = n /\ IsPlace(o)
  /\ \A o, q \in level : q.path = o.path => q = o

LEMMA PlacesOnce ==
  ASSUME NEW v, NEW M \in Nat, NEW at, PlacesBy(at, v, M), NEW n \in 0 .. M
  PROVE  Once(at[n], n)
<1> DEFINE bad == {m \in 0 .. M : ~Once(at[m], m)}
<1>1. bad = {}
  <2> SUFFICES ASSUME bad # {} PROVE FALSE
    OBVIOUS
  <2>1. PICK m \in bad : \A k \in bad : m <= k
    <3>1. bad \subseteq Nat
      OBVIOUS
    <3> HIDE DEF bad
    <3> QED
      BY <3>1, LeastIn
  <2>2. m \in 0 .. M /\ ~Once(at[m], m)
    BY <2>1
  <2>3. at[m] = IF m = 0 THEN {[path |-> <<>>, value |-> v]} ELSE UNION {PartsOf(o) : o \in at[m - 1]}
    BY <2>2 DEF PlacesBy
  <2>4. CASE m = 0
    <3>1. IsList(<<>>) /\ Len(<<>>) = 0
      BY DEF IsList, Items
    <3> QED
      BY <2>2, <2>3, <2>4, <3>1 DEF Once, IsPlace
  <2>5. CASE m # 0
    <3>1. m - 1 \in 0 .. M /\ m \in Nat /\ m - 1 \in Nat
      BY <2>2, <2>5
    <3>2. Once(at[m - 1], m - 1)
      BY <2>1, <3>1
    <3>3. ASSUME NEW o \in at[m]
          PROVE  \E u, k : /\ u \in at[m - 1]
                           /\ k \in DOMAIN u.value.parts /\ IsList(u.path) /\ Len(u.path) = m - 1
                           /\ o = [path |-> Append(u.path, k), value |-> u.value.parts[k]]
      <4>1. PICK u \in at[m - 1] : o \in PartsOf(u)
        BY <2>3, <2>5
      <4>2. PICK k : k \in DOMAIN u.value.parts /\ o = [path |-> Append(u.path, k), value |-> u.value.parts[k]]
        BY <4>1 DEF PartsOf
      <4> QED
        BY <3>2, <4>1, <4>2 DEF Once
    <3>4. ASSUME NEW o \in at[m]
          PROVE  IsList(o.path) /\ Len(o.path) = m /\ IsPlace(o)
      <4>1. PICK u, k : /\ u \in at[m - 1]
                        /\ IsList(u.path) /\ Len(u.path) = m - 1
                        /\ o = [path |-> Append(u.path, k), value |-> u.value.parts[k]]
        BY <3>3
      <4> QED
        BY <3>1, <4>1, PathGoesOn DEF IsPlace
    <3>5. ASSUME NEW o \in at[m], NEW q \in at[m], q.path = o.path PROVE q = o
      <4>1. PICK u, k : /\ u \in at[m - 1]
                        /\ IsList(u.path)
                        /\ o = [path |-> Append(u.path, k), value |-> u.value.parts[k]]
        BY <3>3
      <4>2. PICK w, l : /\ w \in at[m - 1]
                        /\ IsList(w.path)
                        /\ q = [path |-> Append(w.path, l), value |-> w.value.parts[l]]
        BY <3>3
      <4>3. u.path = w.path /\ k = l
        BY <3>5, <4>1, <4>2, PathsPart
      <4>4. u = w
        BY <3>2, <4>1, <4>2, <4>3 DEF Once
      <4> QED
        BY <4>1, <4>2, <4>3, <4>4
    <3> QED
      BY <2>2, <3>4, <3>5 DEF Once
  <2> QED
    BY <2>4, <2>5
<1>2. Once(at[n], n)
  BY <1>1
<1> QED
  BY <1>2
------------------------------------------------------------------------------
Levels(e, a, t, f, M, R, E, A) == ComparesBy(R, e, a, t, f, M) /\ PlacesBy(E, e, M) /\ PlacesBy(A, a, M)
\* Above a place, at levels less than n, the two values do not differ.
Clear(path, n, t, f, E, A) ==
  \A m \in 0 .. n - 1 : \A p \in E[m], q \in A[m] : p.path = SubSeq(path, 1, m) => ~Differ(p, q, t, f)

LEMMA SamePartsSameWhat ==
  ASSUME NEW v, NEW w
  PROVE  /\ SameParts(v, w) => What(v) = What(w)
         /\ HasParts(v) /\ What(v) = What(w) => SameParts(v, w)
         /\ v # w /\ ~SameParts(v, w) => What(v) # What(w)
         /\ HasParts(v) => ~IsNumber(v)
<1>1. CASE HasParts(v) /\ HasParts(w)
  BY <1>1 DEF SameParts, What, HasParts, IsNumber
<1>2. CASE HasParts(v) /\ ~HasParts(w)
  <2>1. What(v).is \in {"object", "array"} /\ What(w) = w /\ w.is \notin {"object", "array"}
    BY <1>2 DEF What, HasParts
  <2> QED
    BY <1>2, <2>1 DEF SameParts, HasParts, IsNumber
<1>3. CASE ~HasParts(v) /\ HasParts(w)
  <2>1. What(w).is \in {"object", "array"} /\ What(v) = v /\ v.is \notin {"object", "array"}
    BY <1>3 DEF What, HasParts
  <2> QED
    BY <1>3, <2>1 DEF SameParts
<1>4. CASE ~HasParts(v) /\ ~HasParts(w)
  BY <1>4 DEF SameParts, What
<1> QED
  BY <1>1, <1>2, <1>3, <1>4

\* Where a comparison comes to, both values have a place, and above it they do not differ.
LEMMA ComparedPlaces ==
  ASSUME NEW e, NEW a, NEW t, NEW f, NEW M \in Nat, NEW R, NEW E, NEW A,
         Levels(e, a, t, f, M, R, E, A), NEW n \in 0 .. M, NEW r \in R[n]
  PROVE  /\ r = [path |-> r.path, expected |-> r.expected, actual |-> r.actual]
         /\ [path |-> r.path, value |-> r.expected] \in E[n]
         /\ [path |-> r.path, value |-> r.actual] \in A[n]
         /\ Clear(r.path, n, t, f, E, A)
<1>a. PlacesBy(E, e, M) /\ PlacesBy(A, a, M)
  BY DEF Levels
<1>b. \A m \in 0 .. M : Once(E[m], m) /\ Once(A[m], m)
  BY <1>a, PlacesOnce
<1> DEFINE Fits(m) == \A o \in R[m] : /\ o = [path |-> o.path, expected |-> o.expected, actual |-> o.actual]
                                       /\ [path |-> o.path, value |-> o.expected] \in E[m]
                                       /\ [path |-> o.path, value |-> o.actual] \in A[m]
                                       /\ Clear(o.path, m, t, f, E, A)
           bad == {m \in 0 .. M : ~Fits(m)}
<1>1. bad = {}
  <2> SUFFICES ASSUME bad # {} PROVE FALSE
    OBVIOUS
  <2>1. PICK m \in bad : \A k \in bad : m <= k
    <3>1. bad \subseteq Nat
      OBVIOUS
    <3> HIDE DEF bad
    <3> QED
      BY <3>1, LeastIn
  <2>2. m \in 0 .. M /\ ~Fits(m)
    BY <2>1
  <2>3. /\ R[m] = IF m = 0 THEN {[path |-> <<>>, expected |-> e, actual |-> a]}
                  ELSE UNION {Descends(o, t, f) : o \in R[m - 1]}
        /\ E[m] = IF m = 0 THEN {[path |-> <<>>, value |-> e]} ELSE UNION {PartsOf(o) : o \in E[m - 1]}
        /\ A[m] = IF m = 0 THEN {[path |-> <<>>, value |-> a]} ELSE UNION {PartsOf(o) : o \in A[m - 1]}
    BY <2>2 DEF Levels, ComparesBy, PlacesBy
  <2>4. CASE m = 0
    <3>1. \A path : Clear(path, 0, t, f, E, A)
      BY DEF Clear
    <3> QED
      BY <2>2, <2>3, <2>4, <3>1
  <2>5. CASE m # 0
    <3>1. m - 1 \in 0 .. M /\ m \in Nat /\ m - 1 \in Nat
      BY <2>2, <2>5
    <3>2. Fits(m - 1)
      <4> HIDE DEF Fits
      <4> QED
        BY <2>1, <3>1
    <3>3. ASSUME NEW o \in R[m]
          PROVE  /\ o = [path |-> o.path, expected |-> o.expected, actual |-> o.actual]
                 /\ [path |-> o.path, value |-> o.expected] \in E[m]
                 /\ [path |-> o.path, value |-> o.actual] \in A[m]
                 /\ Clear(o.path, m, t, f, E, A)
      <4>1. PICK u \in R[m - 1] : o \in Descends(u, t, f)
        BY <2>3, <2>5
      <4>2. PICK k : /\ SameParts(u.expected, u.actual) /\ k \in DOMAIN u.expected.parts
                     /\ o = [path |-> Append(u.path, k),
                             expected |-> u.expected.parts[k], actual |-> u.actual.parts[k]]
        BY <4>1 DEF Descends
      <4>3. PICK p, q : /\ p = [path |-> u.path, value |-> u.expected] /\ p \in E[m - 1]
                        /\ q = [path |-> u.path, value |-> u.actual] /\ q \in A[m - 1]
        BY <3>2
      <4>4. [path |-> o.path, value |-> o.expected] \in PartsOf(p)
            /\ [path |-> o.path, value |-> o.actual] \in PartsOf(q)
        BY <4>2, <4>3 DEF PartsOf, SameParts
      <4>5. [path |-> o.path, value |-> o.expected] \in E[m] /\ [path |-> o.path, value |-> o.actual] \in A[m]
        BY <2>3, <2>5, <4>3, <4>4
      <4>6. IsList(u.path) /\ Len(u.path) = m - 1
        BY <3>1, <4>3, <1>b DEF Once
      <4>7. ASSUME NEW j \in 0 .. m - 1, NEW x \in E[j], NEW y \in A[j], x.path = SubSeq(o.path, 1, j)
            PROVE  ~Differ(x, y, t, f)
        <5>1. x.path = SubSeq(u.path, 1, j) /\ (j = m - 1 => x.path = u.path)
          <6>1. o.path = Append(u.path, k)
            BY <4>2
          <6>2. SubSeq(o.path, 1, j) = SubSeq(u.path, 1, j) /\ SubSeq(u.path, 1, m - 1) = u.path
            <7>1. j \in 0 .. Len(u.path)
              BY <4>6
            <7>2. SubSeq(Append(u.path, k), 1, j) = SubSeq(u.path, 1, j)
              BY <4>6, <7>1, PathGoesOn
            <7>3. SubSeq(u.path, 1, Len(u.path)) = u.path
              BY <4>6, PathGoesOn
            <7> QED
              BY <4>6, <6>1, <7>2, <7>3
          <6> QED
            BY <4>7, <6>2
        <5>2. CASE j = m - 1
          <6>1. x = p
            BY <3>1, <4>3, <5>1, <5>2, <1>b DEF Once
          <6>2. y.path = x.path => y = q
            BY <3>1, <4>3, <5>1, <5>2, <1>b DEF Once
          <6> QED
            BY <4>2, <4>3, <6>1, <6>2, SamePartsSameWhat DEF Differ
        <5>3. CASE j # m - 1
          <6>1. j \in 0 .. (m - 1) - 1
            BY <3>1, <5>3
          <6>2. Clear(u.path, m - 1, t, f, E, A)
            BY <3>2
          <6> QED
            BY <5>1, <6>1, <6>2 DEF Clear
        <5> QED
          BY <5>2, <5>3
      <4>8. Clear(o.path, m, t, f, E, A)
        BY <4>7 DEF Clear
      <4> QED
        BY <4>2, <4>5, <4>8
    <3> QED
      BY <2>2, <3>3
  <2> QED
    BY <2>4, <2>5
<1>2. Fits(n)
  BY <1>1
<1> QED
  BY <1>2

\* A comparison comes to every place that both have and above which they do not differ,
\* unless they are the same there.
LEMMA PlacesCompared ==
  ASSUME NEW e, NEW a, NEW t, NEW f, NEW M \in Nat, NEW R, NEW E, NEW A,
         Levels(e, a, t, f, M, R, E, A), NEW n \in 0 .. M, NEW p \in E[n], NEW q \in A[n],
         p.path = q.path, Clear(p.path, n, t, f, E, A)
  PROVE  p.value = q.value \/ [path |-> p.path, expected |-> p.value, actual |-> q.value] \in R[n]
<1>a. PlacesBy(E, e, M) /\ PlacesBy(A, a, M)
  BY DEF Levels
<1>b. \A m \in 0 .. M : Once(E[m], m) /\ Once(A[m], m)
  BY <1>a, PlacesOnce
<1> DEFINE Comes(m) == \A x \in E[m], y \in A[m] :
             x.path = y.path /\ Clear(x.path, m, t, f, E, A) =>
               x.value = y.value \/ [path |-> x.path, expected |-> x.value, actual |-> y.value] \in R[m]
           bad == {m \in 0 .. M : ~Comes(m)}
<1>1. bad = {}
  <2> SUFFICES ASSUME bad # {} PROVE FALSE
    OBVIOUS
  <2>1. PICK m \in bad : \A k \in bad : m <= k
    <3>1. bad \subseteq Nat
      OBVIOUS
    <3> HIDE DEF bad
    <3> QED
      BY <3>1, LeastIn
  <2>2. m \in 0 .. M /\ ~Comes(m)
    BY <2>1
  <2>3. /\ R[m] = IF m = 0 THEN {[path |-> <<>>, expected |-> e, actual |-> a]}
                  ELSE UNION {Descends(o, t, f) : o \in R[m - 1]}
        /\ E[m] = IF m = 0 THEN {[path |-> <<>>, value |-> e]} ELSE UNION {PartsOf(o) : o \in E[m - 1]}
        /\ A[m] = IF m = 0 THEN {[path |-> <<>>, value |-> a]} ELSE UNION {PartsOf(o) : o \in A[m - 1]}
    BY <2>2 DEF Levels, ComparesBy, PlacesBy
  <2>4. CASE m = 0
    BY <2>2, <2>3, <2>4
  <2>5. CASE m # 0
    <3>1. m - 1 \in 0 .. M /\ m \in Nat /\ m - 1 \in Nat
      BY <2>2, <2>5
    <3>2. Comes(m - 1)
      <4> HIDE DEF Comes
      <4> QED
        BY <2>1, <3>1
    <3>3. ASSUME NEW x \in E[m], NEW y \in A[m], x.path = y.path, Clear(x.path, m, t, f, E, A), x.value # y.value
          PROVE  [path |-> x.path, expected |-> x.value, actual |-> y.value] \in R[m]
      <4>1. PICK u, k : /\ u \in E[m - 1]
                        /\ HasParts(u.value) /\ k \in DOMAIN u.value.parts
                        /\ x = [path |-> Append(u.path, k), value |-> u.value.parts[k]]
        <5>1. PICK u \in E[m - 1] : x \in PartsOf(u)
          BY <2>3, <2>5
        <5> QED
          BY <5>1 DEF PartsOf
      <4>2. PICK w, l : /\ w \in A[m - 1]
                        /\ HasParts(w.value) /\ l \in DOMAIN w.value.parts
                        /\ y = [path |-> Append(w.path, l), value |-> w.value.parts[l]]
        <5>1. PICK w \in A[m - 1] : y \in PartsOf(w)
          BY <2>3, <2>5
        <5> QED
          BY <5>1 DEF PartsOf
      <4>3. IsList(u.path) /\ Len(u.path) = m - 1 /\ IsList(w.path)
        BY <3>1, <4>1, <4>2, <1>b DEF Once
      <4>4. x.path = Append(u.path, k) /\ u.path = w.path /\ k = l
        <5>1. x.path = Append(u.path, k) /\ y.path = Append(w.path, l)
          BY <4>1, <4>2
        <5>2. Append(u.path, k) = Append(w.path, l)
          BY <3>3, <5>1
        <5> QED
          BY <4>3, <5>1, <5>2, PathsPart
      <4>5. \A j \in 0 .. m - 1 : SubSeq(x.path, 1, j) = SubSeq(u.path, 1, j)
        BY <4>3, <4>4, PathGoesOn
      <4>6. Clear(u.path, m - 1, t, f, E, A)
        <5> SUFFICES ASSUME NEW j \in 0 .. (m - 1) - 1, NEW c \in E[j], NEW d \in A[j],
                            c.path = SubSeq(u.path, 1, j)
                     PROVE  ~Differ(c, d, t, f)
          BY DEF Clear
        <5>1. j \in 0 .. m - 1
          BY <3>1
        <5>2. c.path = SubSeq(x.path, 1, j)
          BY <4>5, <5>1
        <5> QED
          BY <3>3, <5>1, <5>2 DEF Clear
      <4>7. u.path = SubSeq(x.path, 1, m - 1)
        BY <4>3, <4>4, PathGoesOn
      <4>8. ~Differ(u, w, t, f)
        BY <3>1, <3>3, <4>1, <4>2, <4>7 DEF Clear
      <4>9. SameParts(u.value, w.value) /\ ~Tolerated(u.value, w.value, t, f, u.path)
        BY <4>1, <4>4, <4>8, SamePartsSameWhat DEF Differ, Tolerated
      <4>10. u.value # w.value
        BY <3>3, <4>1, <4>2, <4>4
      <4>11. PICK o : o = [path |-> u.path, expected |-> u.value, actual |-> w.value] /\ o \in R[m - 1]
        BY <3>2, <4>4, <4>6, <4>1, <4>2, <4>10
      <4>12. ~Alike(o, t, f)
        BY <4>9, <4>10, <4>11 DEF Alike
      <4>13. [path |-> x.path, expected |-> x.value, actual |-> y.value] \in Descends(o, t, f)
        BY <4>1, <4>2, <4>4, <4>9, <4>11, <4>12 DEF Descends
      <4> QED
        BY <2>3, <2>5, <4>11, <4>13
    <3> QED
      BY <2>2, <3>3
  <2> QED
    BY <2>4, <2>5
<1>2. Comes(n)
  BY <1>1
<1> QED
  BY <1>2

LEMMA ComparedRight ==
  ASSUME NEW e, NEW a, NEW t, NEW f
  PROVE  CompareValue(e, a, t, f) =
           {<<f, p.path>> : p \in {p \in PartingPlaces(e, a, t, f) :
                                     \A o \in PartingPlaces(e, a, t, f) : ~Within(p.path, o.path)}}
<1> DEFINE M == MaxDepth
           differ == PartingPlaces(e, a, t, f)
           outermost == {p \in differ : \A o \in differ : ~Within(p.path, o.path)}
           found == {r \in Compared(e, a, t, f) : ~Alike(r, t, f) /\ ~SameParts(r.expected, r.actual)}
<1>1. PICK R, E, A :
        /\ Levels(e, a, t, f, M, R, E, A)
        /\ Compared(e, a, t, f) = UNION {R[n] : n \in 0 .. M}
        /\ PlacesOf(e) = UNION {E[n] : n \in 0 .. M}
        /\ PlacesOf(a) = UNION {A[n] : n \in 0 .. M}
  BY ComparedIs, PlacesAre DEF Levels
<1>2. M \in Nat
  BY OracleAssumption
<1>3. \A n \in 0 .. M : Once(E[n], n) /\ Once(A[n], n)
  BY <1>1, <1>2, PlacesOnce DEF Levels
<1> HIDE DEF M
<1>4. ASSUME NEW r \in found PROVE \E p \in outermost : p.path = r.path
  <2>1. PICK n \in 0 .. M : r \in R[n]
    BY <1>1
  <2>2. ~Alike(r, t, f) /\ ~SameParts(r.expected, r.actual)
    OBVIOUS
  <2>3. PICK p, q : /\ p = [path |-> r.path, value |-> r.expected] /\ p \in E[n]
                    /\ q = [path |-> r.path, value |-> r.actual] /\ q \in A[n]
                    /\ Clear(r.path, n, t, f, E, A)
    <3>1. Levels(e, a, t, f, M, R, E, A)
      BY <1>1
    <3>2. /\ [path |-> r.path, value |-> r.expected] \in E[n]
          /\ [path |-> r.path, value |-> r.actual] \in A[n]
          /\ Clear(r.path, n, t, f, E, A)
      BY <1>2, <2>1, <3>1, ComparedPlaces, Zenon
    <3> QED
      BY <3>2, Zenon
  <2>4. p.path = r.path /\ p.value = r.expected /\ q.path = r.path /\ q.value = r.actual
    BY <2>3
  <2>5. What(p.value) # What(q.value) /\ ~Tolerated(p.value, q.value, t, f, p.path)
    BY <2>2, <2>4, SamePartsSameWhat DEF Alike
  <2>6. Differ(p, q, t, f)
    BY <2>4, <2>5 DEF Differ
  <2>7. p \in PlacesOf(e) /\ q \in PlacesOf(a)
    BY <1>1, <2>3
  <2>8. p \in differ
    BY <2>6, <2>7 DEF PartingPlaces
  <2>9. ASSUME NEW o \in differ, Within(p.path, o.path) PROVE FALSE
    <3>1. PICK d \in PlacesOf(a) : o \in PlacesOf(e) /\ Differ(o, d, t, f)
      BY DEF PartingPlaces
    <3>2. PICK i \in 0 .. M, j \in 0 .. M : o \in E[i] /\ d \in A[j]
      BY <1>1, <3>1
    <3>3. o.path = d.path
      BY <3>1 DEF Differ
    <3>4. Len(o.path) = i /\ Len(d.path) = j
      BY <1>3, <3>2 DEF Once
    <3>5. IsList(p.path) /\ Len(p.path) = n
      BY <1>3, <2>3 DEF Once
    <3>6. PICK k \in 0 .. n - 1 : o.path = SubSeq(p.path, 1, k)
      BY <2>9, <3>5 DEF Within
    <3>7. Len(SubSeq(p.path, 1, k)) = k
      BY <2>1, <3>5, <3>6 DEF IsList
    <3>8. i = k /\ j = k
      BY <3>3, <3>4, <3>6, <3>7
    <3>9. o \in E[k] /\ d \in A[k] /\ o.path = SubSeq(r.path, 1, k)
      BY <2>4, <3>2, <3>6, <3>8
    <3> QED
      BY <2>3, <3>1, <3>6, <3>9 DEF Clear
  <2> QED
    BY <2>4, <2>8, <2>9
<1>5. ASSUME NEW p \in outermost PROVE \E r \in found : r.path = p.path
  <2>1. PICK q \in PlacesOf(a) : p \in PlacesOf(e) /\ Differ(p, q, t, f)
    BY DEF PartingPlaces
  <2>2. PICK n \in 0 .. M, m \in 0 .. M : p \in E[n] /\ q \in A[m]
    BY <1>1, <2>1
  <2>3. p.path = q.path /\ What(p.value) # What(q.value) /\ ~Tolerated(p.value, q.value, t, f, p.path)
    BY <2>1 DEF Differ
  <2>4. IsList(p.path) /\ Len(p.path) = n /\ m = n
    BY <1>3, <2>2, <2>3 DEF Once
  <2>5. Clear(p.path, n, t, f, E, A)
    <3> SUFFICES ASSUME NEW k \in 0 .. n - 1, NEW o \in E[k], NEW d \in A[k], o.path = SubSeq(p.path, 1, k),
                        Differ(o, d, t, f)
                 PROVE  FALSE
      BY DEF Clear
    <3>1. k \in 0 .. M
      BY <1>2, <2>2
    <3>2. o \in PlacesOf(e) /\ d \in PlacesOf(a)
      BY <1>1, <3>1
    <3>3. o \in differ
      BY <3>2 DEF PartingPlaces
    <3>4. Within(p.path, o.path)
      BY <2>4 DEF Within
    <3> QED
      BY <3>3, <3>4
  <2>6. p.value # q.value
    BY <2>3
  <2>7. PICK r : r = [path |-> p.path, expected |-> p.value, actual |-> q.value] /\ r \in R[n]
    BY <1>1, <1>2, <2>2, <2>3, <2>4, <2>5, <2>6, PlacesCompared
  <2>8. r.path = p.path /\ r.expected = p.value /\ r.actual = q.value
    BY <2>7
  <2>9. ~Alike(r, t, f) /\ ~SameParts(r.expected, r.actual)
    BY <2>3, <2>6, <2>8, SamePartsSameWhat DEF Alike
  <2>10. r \in Compared(e, a, t, f)
    BY <1>1, <2>2, <2>7
  <2> QED
    BY <2>8, <2>9, <2>10
<1>6. CompareValue(e, a, t, f) = {<<f, r.path>> : r \in found}
  BY DEF CompareValue
<1> HIDE DEF differ, outermost, found
<1>7. \A x : x \in {<<f, r.path>> : r \in found} <=> x \in {<<f, p.path>> : p \in outermost}
  BY <1>4, <1>5
<1>8. CompareValue(e, a, t, f) = {<<f, p.path>> : p \in outermost}
  BY <1>6, <1>7
<1> QED
  BY <1>8 DEF outermost, differ

\* What compareBehavior() returns are the outermost places where the behaviours differ.
LEMMA ComparedBehaviours ==
  ASSUME NEW e, NEW a, NEW t PROVE compareBehavior(e, a, t) = DifferencesOf(e, a, t)
<1> DEFINE Places(f) == {<<f, p.path>> : p \in {p \in PartingPlaces(e[f], a[f], t, f) :
                             \A o \in PartingPlaces(e[f], a[f], t, f) : ~Within(p.path, o.path)}}
           Differs(f) == CompareValue(e[f], a[f], t, f)
<1>1. \A f : Differs(f) = Places(f)
  BY ComparedRight
<1>2. compareBehavior(e, a, t) = UNION {Differs(f) : f \in Fields}
  BY DEF compareBehavior
<1>3. DifferencesOf(e, a, t) = UNION {Places(f) : f \in Fields}
  BY DEF DifferencesOf
<1> HIDE DEF Places, Differs
<1> QED
  BY <1>1, <1>2, <1>3

\* What was found of a control.
FoundOf(i, found) ==
  \E c \in DOMAIN cases :
    /\ Targets(controls[i]) = {c}
    /\ found # {}
    /\ found = DifferencesOf(cases[c].expected, controls[i].actual, cases[c].tolerances)

\* The inductive invariant of an oracle's validation.
JudgedSoFar(at, next, differences) ==
  /\ at \in {"cases", "controls", "accepted"} /\ next \in Nat
  /\ IsList(differences)
  /\ at = "cases" => differences = <<>>
  /\ at # "cases" => Distinct(IdsOf(cases)) /\ controls # <<>>
  /\ at = "controls" => next = Len(differences) + 1 /\ Len(differences) <= Len(controls)
  /\ at = "accepted" => Len(differences) = Len(controls)
  /\ \A i \in 1 .. Len(differences) : FoundOf(i, differences[i])

OracleInv ==
  /\ IsList(cases) /\ IsList(controls)
  /\ \/ judged = [at |-> "refused"]
     \/ \E at, next, differences :
          /\ judged = [at |-> at, next |-> next, differences |-> differences]
          /\ JudgedSoFar(at, next, differences)

LEMMA OracleInvInit == OracleInit => OracleInv
<1> SUFFICES ASSUME OracleInit PROVE OracleInv
  OBVIOUS
<1>1. IsList(cases) /\ IsList(controls)
  BY OracleAssumption DEF OracleInit, Listed, IsList, Items
<1>2. judged = [at |-> "cases", next |-> 1, differences |-> <<>>]
  BY DEF OracleInit, Validates
<1>3. JudgedSoFar("cases", 1, <<>>)
  <2>1. IsList(<<>>) /\ Len(<<>>) = 0
    BY DEF IsList
  <2> QED
    BY <2>1 DEF JudgedSoFar
<1> QED
  BY <1>1, <1>2, <1>3 DEF OracleInv

LEMMA OracleInvStep == OracleInv /\ [OracleNext]_oracleVars => OracleInv'
<1> SUFFICES ASSUME OracleInv, [OracleNext]_oracleVars PROVE OracleInv'
  OBVIOUS
<1>1. UNCHANGED <<cases, controls>>
  BY DEF OracleNext, ValidateCase, CasesValid, ValidateControl, ControlsValid, RefusesOracle, JudgesOn,
         oracleVars
<1>2. IsList(cases)' /\ IsList(controls)'
  BY <1>1 DEF OracleInv, IsList, Items
<1>3. ASSUME NEW at, NEW next, NEW differences, JudgedSoFar(at, next, differences)
      PROVE  JudgedSoFar(at, next, differences)'
  BY <1>1, <1>3 DEF JudgedSoFar, FoundOf, Targets
<1>4. CASE judged' = [at |-> "refused"]
  BY <1>2, <1>4 DEF OracleInv
<1>5. CASE judged' = judged
  <2>1. CASE judged = [at |-> "refused"]
    BY <1>2, <1>5, <2>1 DEF OracleInv
  <2>2. CASE judged # [at |-> "refused"]
    <3>1. PICK at, next, differences :
            /\ judged = [at |-> at, next |-> next, differences |-> differences]
            /\ JudgedSoFar(at, next, differences)
      BY <2>2 DEF OracleInv
    <3> QED
      BY <1>2, <1>3, <1>5, <3>1 DEF OracleInv
  <2> QED
    BY <2>1, <2>2
<1>6. CASE OracleNext /\ judged' # [at |-> "refused"] /\ judged # [at |-> "refused"]
  <2>1. PICK at, next, differences :
          /\ judged = [at |-> at, next |-> next, differences |-> differences]
          /\ JudgedSoFar(at, next, differences)
    BY <1>6 DEF OracleInv
  <2>2. judged.at = at /\ judged.next = next /\ judged.differences = differences
    BY <2>1
  <2>3. SUFFICES \E w, n, d : /\ judged' = [at |-> w, next |-> n, differences |-> d]
                              /\ JudgedSoFar(w, n, d)
    BY <1>2, <1>3 DEF OracleInv
  <2>4. CASE ValidateCase
    <3>1. judged' = [at |-> at, next |-> next + 1, differences |-> differences] /\ at = "cases"
      BY <1>6, <2>1, <2>2, <2>4 DEF ValidateCase, JudgesOn, RefusesOracle
    <3>2. JudgedSoFar(at, next + 1, differences)
      BY <2>1, <3>1 DEF JudgedSoFar
    <3> QED
      BY <3>1, <3>2
  <2>5. CASE CasesValid
    <3>1. /\ judged' = [at |-> "controls", next |-> 1, differences |-> <<>>]
          /\ Distinct(IdsOf(cases)) /\ controls # <<>>
      BY <1>6, <2>5 DEF CasesValid, JudgesOn, RefusesOracle, Validates
    <3>2. IsList(<<>>) /\ Len(<<>>) = 0 /\ Len(controls) \in Nat
      BY ListOfItems DEF OracleInv, IsList
    <3>3. JudgedSoFar("controls", 1, <<>>)
      BY <3>1, <3>2 DEF JudgedSoFar
    <3> QED
      BY <3>1, <3>3
  <2>6. CASE ValidateControl
    <3> DEFINE control == controls[next]
    <3>1. at = "controls" /\ next \in DOMAIN controls /\ Targets(control) # {}
      BY <1>6, <2>2, <2>6 DEF ValidateControl, JudgesOn, RefusesOracle
    <3>2. PICK c \in DOMAIN cases : c = CHOOSE i \in Targets(control) : TRUE
      BY <3>1 DEF Targets
    <3> DEFINE found == compareBehavior(cases[c].expected, control.actual, cases[c].tolerances)
    <3>3. /\ found # {}
          /\ judged' = [judged EXCEPT !.next = @ + 1, !.differences = Append(@, found)]
      BY <1>6, <2>2, <2>6, <3>2 DEF ValidateControl, JudgesOn, RefusesOracle
    <3>4. Targets(control) = {c}
      <4>1. c \in Targets(control)
        BY <3>1, <3>2
      <4>2. Distinct(IdsOf(cases))
        BY <2>1, <3>1 DEF JudgedSoFar
      <4>3. \A i \in Targets(control) : i \in DOMAIN cases /\ cases[i].id = cases[c].id
        BY <4>1 DEF Targets
      <4>4. \A i \in DOMAIN cases : cases[i].id = cases[c].id => i = c
        BY <4>2 DEF Distinct, IdsOf
      <4> QED
        BY <4>1, <4>3, <4>4
    <3>5. FoundOf(next, found)
      BY <3>3, <3>4, ComparedBehaviours DEF FoundOf
    <3> HIDE DEF found
    <3>6. judged' = [at |-> "controls", next |-> next + 1, differences |-> Append(differences, found)]
      BY <2>1, <3>1, <3>3
    <3>7. /\ Len(differences) \in Nat /\ Len(controls) \in Nat /\ DOMAIN controls = 1 .. Len(controls)
          /\ next = Len(differences) + 1
      BY <2>1, <3>1 DEF JudgedSoFar, OracleInv, IsList
    <3>8. /\ IsList(Append(differences, found))
          /\ Len(Append(differences, found)) = Len(differences) + 1
          /\ \A i \in 1 .. Len(differences) + 1 :
               Append(differences, found)[i] = IF i = Len(differences) + 1 THEN found ELSE differences[i]
      <4>1. differences \in Seq(Items(differences) \cup {found})
        BY <2>1 DEF JudgedSoFar, IsList
      <4>2. Append(differences, found) \in Seq(Items(differences) \cup {found})
        BY <4>1
      <4>3. IsList(Append(differences, found))
        BY <4>2, ListOfItems
      <4> QED
        BY <4>1, <4>3
    <3>9. \A i \in 1 .. Len(differences) : FoundOf(i, differences[i])
      BY <2>1 DEF JudgedSoFar
    <3>10. \A i \in 1 .. Len(Append(differences, found)) : FoundOf(i, Append(differences, found)[i])
      <4> SUFFICES ASSUME NEW i \in 1 .. Len(differences) + 1
                   PROVE  FoundOf(i, Append(differences, found)[i])
        BY <3>8
      <4>1. CASE i = next
        BY <3>5, <3>7, <3>8, <4>1
      <4>2. CASE i # next
        <5>1. i \in 1 .. Len(differences)
          BY <3>7, <4>2
        <5> QED
          BY <3>7, <3>8, <3>9, <4>2, <5>1
      <4> QED
        BY <4>1, <4>2
    <3>11. Distinct(IdsOf(cases)) /\ controls # <<>>
      BY <2>1, <3>1 DEF JudgedSoFar
    <3>12. JudgedSoFar("controls", next + 1, Append(differences, found))
      BY <3>1, <3>7, <3>8, <3>10, <3>11 DEF JudgedSoFar
    <3> QED
      BY <3>6, <3>12
  <2>7. CASE ControlsValid
    <3>1. at = "controls" /\ next \notin DOMAIN controls
      BY <2>2, <2>7 DEF ControlsValid
    <3>2. judged' = [at |-> "accepted", next |-> next, differences |-> differences]
      BY <1>6, <2>1, <2>7 DEF ControlsValid, JudgesOn, RefusesOracle
    <3>3. /\ Len(differences) \in Nat /\ Len(controls) \in Nat /\ DOMAIN controls = 1 .. Len(controls)
          /\ next = Len(differences) + 1 /\ Len(differences) <= Len(controls)
      BY <2>1, <3>1 DEF JudgedSoFar, OracleInv, IsList
    <3>4. Len(differences) = Len(controls)
      BY <3>1, <3>3
    <3>5. JudgedSoFar("accepted", next, differences)
      BY <2>1, <3>1, <3>4 DEF JudgedSoFar
    <3> QED
      BY <3>2, <3>5
  <2> QED
    BY <1>6, <2>4, <2>5, <2>6, <2>7 DEF OracleNext
<1>7. CASE OracleNext /\ judged = [at |-> "refused"]
  BY <1>7 DEF OracleNext, ValidateCase, CasesValid, ValidateControl, ControlsValid
<1> QED
  BY <1>4, <1>5, <1>6, <1>7 DEF oracleVars

LEMMA OracleInvHolds == OracleInv => ControlsDiffer /\ OracleTypeOK
<1> SUFFICES ASSUME OracleInv PROVE ControlsDiffer /\ OracleTypeOK
  OBVIOUS
<1>1. CASE judged = [at |-> "refused"]
  BY <1>1 DEF ControlsDiffer, OracleTypeOK
<1>2. CASE judged # [at |-> "refused"]
  <2>1. PICK at, next, differences :
          /\ judged = [at |-> at, next |-> next, differences |-> differences]
          /\ JudgedSoFar(at, next, differences)
    BY <1>2 DEF OracleInv
  <2>2. judged.at = at /\ judged.next = next /\ judged.differences = differences
    BY <2>1
  <2>3. DOMAIN differences = 1 .. Len(differences)
    BY <2>1 DEF JudgedSoFar, IsList
  <2>4. OracleTypeOK
    BY <2>1, <2>2 DEF OracleTypeOK, JudgedSoFar
  <2>5. ControlsDiffer
    <3>1. \A i \in DOMAIN differences : FoundOf(i, differences[i])
      BY <2>1, <2>3 DEF JudgedSoFar
    <3>2. at = "accepted" => Len(differences) = Len(controls) /\ controls # <<>>
      BY <2>1 DEF JudgedSoFar
    <3> QED
      BY <2>2, <3>1, <3>2 DEF ControlsDiffer, FoundOf
  <2> QED
    BY <2>4, <2>5
<1> QED
  BY <1>1, <1>2

LEMMA OracleStands == OracleSpec => [](ControlsDiffer /\ OracleTypeOK)
<1> QED
  BY OracleInvInit, OracleInvStep, OracleInvHolds, PTL DEF OracleSpec
------------------------------------------------------------------------------
(* What verdicts on assets stand on is sound: evidence of the Runtime is of the receipts
   that were pinned, whatever comes while it is read; a report of acceptance is complete
   only with files that were as it says; every control of an accepted oracle differs from
   the one case that it names, at exactly the places where the two part; and a project is
   authored on what a person accepted, of a source that was as it was then. *)
THEOREM VerdictsAreSound ==
  EvidenceSpec /\ AcceptanceSpec /\ OracleSpec /\ IntentsSpec => []VerdictsStand
<1>1. /\ EvidenceAsPinned /\ EvidenceTypeOK
      /\ CompleteAsRead /\ AcceptanceTypeOK
      /\ ControlsDiffer /\ OracleTypeOK
      /\ AuthoredAsIntended /\ IntentsTypeOK
      => VerdictsStand
  BY DEF VerdictsStand
<1> QED
  BY <1>1, EvidenceStands, AcceptanceStands, OracleStands, IntentsStand, PTL
==============================================================================
