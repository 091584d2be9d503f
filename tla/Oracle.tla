------------------------------- MODULE Oracle -------------------------------
(***************************************************************************)
(* usability/v1/oracle.mjs: how a behaviour is compared with what an       *)
(* oracle expects of it, and how an oracle is accepted: its negative       *)
(* controls, observations that are deliberately wrong, must be found to    *)
(* differ.                                                                 *)
(***************************************************************************)
EXTENDS Integers, Sequences

CONSTANTS
  Oracles,     \* what may be submitted: the cases and the negative controls
  MaxDepth     \* how far down a value may have parts: usabilityStable() accepts no more

Fields == {"output", "state", "error", "effects"}
\* A value is a number, anything else that has no parts, or an object or array with its parts.
IsNumber(v) == v.is = "number"
HasParts(v) == v.is \in {"object", "array"}

VARIABLES
  cases, controls,   \* the oracle that is submitted
  judged             \* where its validation is, and the differences of each control so far

oracleVars == <<cases, controls, judged>>
------------------------------------------------------------------------------
Magnitude(n) == IF n < 0 THEN -n ELSE n

\* The allowance is relative to what is expected.
Allowed(t, expected, actual) ==
  Magnitude(expected - actual) <= t.absolute + t.relative * Magnitude(expected)

Tolerated(expected, actual, tolerances, field, path) ==
  /\ IsNumber(expected) /\ IsNumber(actual)
  /\ \E i \in DOMAIN tolerances :
       /\ tolerances[i].field = field /\ tolerances[i].path = path
       /\ Allowed(tolerances[i], expected.n, actual.n)

\* Mutant of SameParts: the parts of the first are among those of the second.
AmongParts(v, w) ==
  HasParts(v) /\ HasParts(w) /\ v.is = w.is /\ DOMAIN v.parts \subseteq DOMAIN w.parts

SameParts(v, w) ==
  HasParts(v) /\ HasParts(w) /\ v.is = w.is /\ DOMAIN v.parts = DOMAIN w.parts

\* compare() of compareBehavior() with two values at a path, ...
Alike(pair, tolerances, field) ==
  \/ Tolerated(pair.expected, pair.actual, tolerances, field, pair.path)
  \/ pair.expected = pair.actual

\* ... the calls that it makes, of their parts, ...
Descends(pair, tolerances, field) ==
  IF ~Alike(pair, tolerances, field) /\ SameParts(pair.expected, pair.actual)
  THEN {[path |-> Append(pair.path, k),
         expected |-> pair.expected.parts[k], actual |-> pair.actual.parts[k]] :
          k \in DOMAIN pair.expected.parts}
  ELSE {}

Compared(expected, actual, tolerances, field) ==
  LET at[n \in 0 .. MaxDepth] ==
        IF n = 0 THEN {[path |-> <<>>, expected |-> expected, actual |-> actual]}
        ELSE UNION {Descends(pair, tolerances, field) : pair \in at[n - 1]}
  IN UNION {at[n] : n \in 0 .. MaxDepth}

\* ... and the places where two values differ.
CompareValue(expected, actual, tolerances, field) ==
  {<<field, pair.path>> : pair \in
     {pair \in Compared(expected, actual, tolerances, field) :
        ~Alike(pair, tolerances, field) /\ ~SameParts(pair.expected, pair.actual)}}

compareBehavior(expected, actual, tolerances) ==
  UNION {CompareValue(expected[f], actual[f], tolerances, f) : f \in Fields}

\* at(): what is found at a path, or nothing.
PartAt(v, k) == IF HasParts(v) /\ k \in DOMAIN v.parts THEN v.parts[k] ELSE [is |-> "nothing"]
ValueAt(v, path) ==
  LET found[n \in 0 .. Len(path)] == IF n = 0 THEN v ELSE PartAt(found[n - 1], path[n])
  IN found[Len(path)]

\* Every place of a value.
PartsOf(place) ==
  IF HasParts(place.value)
  THEN {[path |-> Append(place.path, k), value |-> place.value.parts[k]] : k \in DOMAIN place.value.parts}
  ELSE {}
PlacesOf(v) ==
  LET at[n \in 0 .. MaxDepth] ==
        IF n = 0 THEN {[path |-> <<>>, value |-> v]} ELSE UNION {PartsOf(place) : place \in at[n - 1]}
  IN UNION {at[n] : n \in 0 .. MaxDepth}

\* What is assumed of the constants: sequences, and no value with parts at the last depth.
Shallow(behaviour) ==
  \A f \in Fields : \A p \in PlacesOf(behaviour[f]) : Len(p.path) = MaxDepth => ~HasParts(p.value)
Listed(rows) == rows \in Seq({rows[i] : i \in DOMAIN rows})
ASSUME OracleAssumption ==
  /\ MaxDepth \in Nat
  /\ \A o \in Oracles :
       /\ Listed(o.cases) /\ Listed(o.controls)
       /\ \A i \in DOMAIN o.controls : DOMAIN o.controls[i].actual = Fields /\ Shallow(o.controls[i].actual)
       /\ \A i \in DOMAIN o.cases : DOMAIN o.cases[i].expected = Fields /\ Shallow(o.cases[i].expected)
------------------------------------------------------------------------------
Validates(by) == [at |-> by, next |-> 1, differences |-> <<>>]

OracleInit ==
  /\ \E o \in Oracles : cases = o.cases /\ controls = o.controls
  /\ judged = Validates("cases")

JudgesOn(next) == judged' = next /\ UNCHANGED <<cases, controls>>
RefusesOracle == JudgesOn([at |-> "refused"])
Distinct(keys) == \A i, j \in DOMAIN keys : keys[i] = keys[j] => i = j
IdsOf(rows) == [i \in DOMAIN rows |-> rows[i].id]
Subjects(tolerances) == [i \in DOMAIN tolerances |-> <<tolerances[i].field, tolerances[i].path>>]

\* A tolerance is of a number that is expected, and there is one for each.
ValidTolerances(c) ==
  /\ \A i \in DOMAIN c.tolerances :
       IsNumber(ValueAt(c.expected[c.tolerances[i].field], c.tolerances[i].path))
  /\ Distinct(Subjects(c.tolerances))

\* validateBehaviorOracle(): every case, there is one and each is there once, ...
ValidateCase ==
  /\ judged.at = "cases" /\ judged.next \in DOMAIN cases
  /\ IF ValidTolerances(cases[judged.next]) THEN JudgesOn([judged EXCEPT !.next = @ + 1]) ELSE RefusesOracle

CasesValid ==
  /\ judged.at = "cases" /\ judged.next \notin DOMAIN cases
  /\ IF cases # <<>> /\ Distinct(IdsOf(cases)) /\ controls # <<>> THEN JudgesOn(Validates("controls"))
     ELSE RefusesOracle

Targets(control) == {i \in DOMAIN cases : cases[i].id = control.caseId}

\* ... and every control, of a case that it does not meet, ...
ValidateControl ==
  /\ judged.at = "controls" /\ judged.next \in DOMAIN controls
  /\ LET control == controls[judged.next] IN
     IF Targets(control) = {} THEN RefusesOracle
     ELSE LET target == cases[CHOOSE i \in Targets(control) : TRUE]
              found == compareBehavior(target.expected, control.actual, target.tolerances) IN
          IF found = {} THEN RefusesOracle
          ELSE JudgesOn([judged EXCEPT !.next = @ + 1, !.differences = Append(@, found)])

\* ... each once.
ControlsValid ==
  /\ judged.at = "controls" /\ judged.next \notin DOMAIN controls
  /\ IF Distinct(IdsOf(controls)) THEN JudgesOn([judged EXCEPT !.at = "accepted"]) ELSE RefusesOracle

OracleNext == ValidateCase \/ CasesValid \/ ValidateControl \/ ControlsValid

OracleSpec == OracleInit /\ [][OracleNext]_oracleVars
------------------------------------------------------------------------------
OracleTypeOK ==
  /\ judged.at \in {"cases", "controls", "accepted", "refused"}
  /\ judged.at # "refused" => judged.next \in Nat

\* Two behaviours differ at a place that both have, unless both have a number there that is
\* near enough; below it they are not compared.
What(v) == IF HasParts(v) THEN [is |-> v.is, keys |-> DOMAIN v.parts] ELSE v
Differ(p, q, tolerances, field) ==
  /\ p.path = q.path /\ What(p.value) # What(q.value)
  /\ ~Tolerated(p.value, q.value, tolerances, field, p.path)
Within(path, outer) == \E n \in 0 .. Len(path) - 1 : outer = SubSeq(path, 1, n)
PartingPlaces(expected, actual, tolerances, field) ==
  {p \in PlacesOf(expected) : \E q \in PlacesOf(actual) : Differ(p, q, tolerances, field)}
DifferencesOf(expected, actual, tolerances) ==
  UNION {LET differ == PartingPlaces(expected[f], actual[f], tolerances, f) IN
         {<<f, p.path>> : p \in {p \in differ : \A o \in differ : ~Within(p.path, o.path)}} : f \in Fields}

(* An oracle that is accepted can fail what is wrong: each of its controls differs from the
   one case that it names, at exactly the places where the two values part, and nowhere
   else than a tolerance of that very place allows. *)
ControlsDiffer ==
  /\ judged.at \in {"controls", "accepted"} =>
       \A i \in DOMAIN judged.differences :
         \E c \in DOMAIN cases :
           /\ Targets(controls[i]) = {c}
           /\ judged.differences[i] # {}
           /\ judged.differences[i]
                = DifferencesOf(cases[c].expected, controls[i].actual, cases[c].tolerances)
  /\ judged.at = "accepted" => Len(judged.differences) = Len(controls) /\ controls # <<>>
==============================================================================
