------------------------------- MODULE MCAssets -------------------------------
(***************************************************************************)
(* What is said of assets and artifacts, and what it rests on: claims and  *)
(* their owners' receipts, pages of a changing asset, the journal of a     *)
(* generated program, the asset service, evidence of the Runtime and of    *)
(* acceptance, oracles, intents, archives, locks, and a bundle's way from  *)
(* the sources.  They share no state; a behaviour is one of the part that  *)
(* it begins with.                                                         *)
(***************************************************************************)
EXTENDS Integers, TLC, Composition, Consumption, Archive, Paging, Build, Generation, Verdicts

CONSTANTS claim1, u, v, basic, rules, code

VARIABLE part

\* Rows of two weights: pages of one row and of two.
MCRows == <<"a", "b", "c">>
MCWeight == "a" :> 1 @@ "b" :> 2 @@ "c" :> 1

\* Two turns, the second a foreign one; a total within the limit and one beyond it.
MCTurns == {u, v}

\* One claim, beside one that others have judged: claims meet only in the revision of
\* the owners and in what is retained.
MCClaims == {claim1}

\* A chain of three assets, a grant that lacks what the asset depends on, and two
\* requests for the one slot and the one request of a minute.
MCDepends == code :> {rules} @@ rules :> {basic} @@ basic :> {}
MCGrants == {{code}, {code, rules}}

\* Two collections, one of them reconciled while the other is read, and two runs of a plan.
MCRunReports == {{"PASS"}, {"PASS", "FAIL"}}

\* A result with no evidence, of the tests, of the desktop or both, with the file that the
\* other result names as well.
Tests == [path : {"p", "q"}, digest : {0, 1}, kind : {"command"}]
Stray == [path : {"q"}, digest : {0}, kind : {"stray"}]
Desktop == [path : {"p"}, digest : {0, 1}, kind : {"desktop"}]
Lists ==
  {<<>>} \cup {<<e>> : e \in Tests \cup Stray \cup Desktop}
  \cup {<<e, d>> : e \in Tests \cup Stray, d \in Desktop}
Results == [status : {"PASS", "FAIL"}, bound : BOOLEAN, evidence : Lists]
Later == [status : {"PASS"}, bound : {TRUE}, evidence : {<<e>> : e \in Tests \cup Stray}]
MCAcceptanceReports ==
  {<<>>} \cup {"c" :> r : r \in Results} \cup {"c" :> r @@ "d" :> t : r \in Results, t \in Later}

\* A directory and a file below it, a link, metadata for one and for all, with and without
\* a path, and damage.
MCBlocks ==
  {[type |-> "x", path |-> "d"], [type |-> "x", path |-> ""], [type |-> "g", path |-> "d/f"],
   [type |-> "0", path |-> "d/f"], [type |-> "0", path |-> "e"], [type |-> "0", path |-> ""],
   [type |-> "5", path |-> "d"], [type |-> "2", path |-> "d", target |-> "e"],
   [type |-> "zero"], [type |-> "bad"]}
MCBelow == "d" :> {"d/f"} @@ "d/f" :> {} @@ "e" :> {}

\* Two packages, one of them also within the other.
MCPlaces == {<<"a">>, <<"b">>, <<"a", "b">>}

\* One product without dependencies and one with.
MCProducts == <<"runtime", "harness">>

\* Sources of which the compiler makes the same, and another between them.
MCCompiled == <<1, 1, 2, 1>>

\* Values of one part or more, alike in some of them, one case with a tolerance of each
\* place or of two, and controls of it, of another case, or of none.
Number(n) == [is |-> "number", n |-> n]
Text == [is |-> "text"]
Object(parts) == [is |-> "object", parts |-> parts]
Array(parts) == [is |-> "array", parts |-> parts]
Outputs ==
  {Text, Object(<<>>), Array("0" :> Number(-2)), Object("0" :> Number(-2))} \cup {Number(n) : n \in {0, 1, 3}}
  \cup {Object("x" :> w) : w \in {Number(1), Number(3), Text, Array("0" :> Number(1))}}
  \cup {Object("x" :> Number(n) @@ "y" :> w) : n \in {1, 3}, w \in {Text, Number(2)}}
Behaves(o, e) == [output |-> o, state |-> Text, error |-> e, effects |-> Array(<<>>)]
Behaviours == {Behaves(o, e) : o \in Outputs, e \in {Text, Number(1)}}
Within1(path) == {[field |-> "output", path |-> path, absolute |-> a, relative |-> r] : a \in {0, 1}, r \in {0, 2}}
Tolerances ==
  {<<>>} \cup UNION {{<<t>> : t \in Within1(path)} : path \in {<<>>, <<"x">>, <<"0">>, <<"x", "0">>}}
  \cup {<<t, w>> : t \in Within1(<<"x">>),
                   w \in Within1(<<"y">>) \cup {[field |-> "output", path |-> <<"x">>, absolute |-> 1, relative |-> 0]}}
Case(id, b, tolerances) == [id |-> id, expected |-> b, tolerances |-> tolerances]
Control(id, of, b) == [id |-> id, caseId |-> of, actual |-> b]
Other == Case("d", Behaves(Text, Text), <<>>)
MCOracles ==
  {[cases |-> <<Case("c", b, t)>>, controls |-> <<Control("m", "c", w)>>] :
     b \in {Behaves(o, Text) : o \in Outputs}, t \in Tolerances, w \in Behaviours}
  \cup {[cases |-> c, controls |-> n] :
     c \in {<<>>, <<Other>>, <<Other, Other>>, <<Other, Case("c", Behaves(Number(1), Text), <<>>)>>},
     n \in {<<>>} \cup {<<Control("m", i, Behaves(Number(1), Text))>> : i \in {"c", "d"}}
           \cup {<<Control("m", "d", Behaves(Number(1), Text)), Control(i, "c", Behaves(Text, Text))>> :
                    i \in {"m", "n"}}}

\* An intent that has accepted what is required and one that has not all of it; one that
\* has more, and one for a project that is made forward.
Required == "a" :> {1, 2}
Defined(schema, level, mode, accepts) ==
  [schema |-> schema, level |-> level, use |-> "understand", mode |-> mode, revision |-> 1, tree |-> 1,
   accepts |-> accepts, requires |-> Required, open |-> FALSE, behaviors |-> level > 1, plan |-> level = 3]
Specified == {Defined("v2", 3, "reverse", Required @@ "b" :> {1}), Defined("v2", 2, "forward", Required)}
MCDefinitions == {Defined("v1", 2, "reverse", Required), Defined("v1", 1, "reverse", "a" :> {1})} \cup Specified
MCSpecifications == {NoIntent} \cup Specified
MCInventories == {Required}
MCNotes == {u, v}

assets == <<part, compositionVars, pagingVars, generationVars, consumptionVars, evidenceVars,
            acceptanceVars, archiveVars, dependenciesVars, artifactsVars, contractVars,
            oracleVars, intentVars>>

\* The step is one of part p: the others stay as they are.
Of(p) ==
  /\ part = p /\ UNCHANGED part
  /\ IF p = "composition" THEN TRUE ELSE UNCHANGED compositionVars
  /\ IF p = "paging" THEN TRUE ELSE UNCHANGED pagingVars
  /\ IF p = "generation" THEN TRUE ELSE UNCHANGED generationVars
  /\ IF p = "consumption" THEN TRUE ELSE UNCHANGED consumptionVars
  /\ IF p = "evidence" THEN TRUE ELSE UNCHANGED evidenceVars
  /\ IF p = "acceptance" THEN TRUE ELSE UNCHANGED acceptanceVars
  /\ IF p = "archive" THEN TRUE ELSE UNCHANGED archiveVars
  /\ IF p = "dependencies" THEN TRUE ELSE UNCHANGED dependenciesVars
  /\ IF p = "artifacts" THEN TRUE ELSE UNCHANGED artifactsVars
  /\ IF p = "contract" THEN TRUE ELSE UNCHANGED contractVars
  /\ IF p = "oracle" THEN TRUE ELSE UNCHANGED oracleVars
  /\ IF p = "intents" THEN TRUE ELSE UNCHANGED intentVars

\* The parts that do not move begin in one of their initial states.
Init ==
  /\ part \in {"composition", "paging", "generation", "consumption", "evidence", "acceptance",
               "archive", "dependencies", "artifacts", "contract", "oracle", "intents"}
  /\ IF part = "archive" THEN ArchiveInit
     ELSE archive = <<>> /\ unpacking = StartBy("strict") /\ strict = Pending
  /\ CompositionInit /\ (part = "composition" \/ native = {claim1})
  /\ PagingInit /\ (part = "paging" \/ records = NoRecords)
  /\ GenerationInit
  /\ ConsumptionInit /\ (part = "consumption" \/ authorization.assets = {code})
  /\ EvidenceInit
  /\ IF part = "acceptance" THEN AcceptanceInit
     ELSE /\ files = [p \in {"p", "q"} |-> 0] /\ was = [p \in {"p", "q"} |-> {0}]
          /\ verifier = [by |-> "local", phase |-> "PRE_RELEASE", report |-> <<>>, at |-> "begin"]
  /\ IF part = "dependencies" THEN DependenciesInit
     ELSE /\ root = [needs |-> {}, develops |-> {}] /\ lock = <<>>
          /\ walk = [at |-> "start"] /\ installed = Nothing
  /\ ArtifactsInit
  /\ ContractInit /\ (part = "contract" \/ typed = 1)
  /\ IF part = "oracle" THEN OracleInit
     ELSE cases = <<>> /\ controls = <<>> /\ judged = Validates("cases")
  \* The files are alike, and the source is the one that the intents are of until it is edited.
  /\ IF part = "intents" THEN IntentsInit /\ kept["said"] = u /\ kept["review"] = NoIntent /\ origin = 1
     ELSE /\ kept = [f \in {"intent", "review", "said"} |-> u] /\ origin = 1 /\ candidate = NoCandidate
          /\ call = IdleCall /\ admission = NoIntent /\ edits = 0 /\ since = NothingSeen
          /\ grounds = NoGrounds

Next ==
  \/ Of("composition") /\ CompositionNext
  \/ Of("paging") /\ PagingNext
  \/ Of("generation") /\ GenerationNext
  \/ Of("consumption") /\ ConsumptionNext
  \/ Of("evidence") /\ EvidenceNext
  \/ Of("acceptance") /\ AcceptanceNext
  \/ Of("archive") /\ ArchiveNext
  \/ Of("dependencies") /\ DependenciesNext
  \/ Of("artifacts") /\ ArtifactsNext
  \/ Of("contract") /\ ContractNext
  \/ Of("oracle") /\ OracleNext
  \/ Of("intents") /\ IntentsNext

Spec == Init /\ [][Next]_assets
==============================================================================
