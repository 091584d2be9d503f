------------------------------- MODULE Intents -------------------------------
(***************************************************************************)
(* What a project is modelled for: assertModelingIntent() of               *)
(* workspace/modeling-intent.ts, verifyDecisionEvidence() of               *)
(* compatibility/v1/decision-evidence.mjs, and where native-project.ts     *)
(* asks for them, up to the admission of authoring in                      *)
(* compatibility/usability/v1 and v2/authoring.mjs.                        *)
(*                                                                         *)
(* A person decides on a definition, and on the candidate made from it.    *)
(* The decision is a file that pins another one, what the person said;     *)
(* both stay with their owner, who may change them between any two reads.  *)
(* Candidates has the lock and the other callers: here there is one.       *)
(***************************************************************************)
EXTENDS Naturals, Sequences

CONSTANTS
  Definitions,    \* intents that callers may submit
  Specifications, \* those that a package may be a specification for, and NoIntent
  Inventories,    \* fixed requirements: [criterion -> its variants]
  Revisions, Trees,
  Files,          \* where evidence is kept
  Said,           \* and what a person has said
  Notes,          \* what a person may have said
  NoIntent,
  MaxEdits        \* bound: changes of files and of the source

Directions == {"forward", "reverse"}
Uses == [understand |-> 1, implement |-> 2, reconstruct |-> 3]
\* What is assumed of the constants: among it that requirements have variants, as
\* requirements() of native-project.ts asks.
ASSUME IntentsAssumption ==
  /\ MaxEdits \in Nat /\ NoIntent \notin Definitions /\ NoIntent \notin Notes /\ NoIntent \notin Trees
  /\ Said \notin Files
  /\ \A i \in Inventories : \A c \in DOMAIN i : i[c] # {}
  /\ \A d \in Specifications : d = NoIntent \/ (d \in Definitions /\ d.schema = "v2")
  /\ \A d \in Definitions :
       /\ d.schema \in {"v1", "v2"} /\ d.level \in 1 .. 3
       /\ d.use \in DOMAIN Uses /\ d.mode \in Directions
       /\ d.revision \in Revisions /\ d.tree \in Trees

VARIABLES
  kept,       \* the content of each file
  origin,     \* the tree of the project's source
  candidate,  \* the candidate and how far it is
  call,       \* the call in progress: what it still has to look at
  admission,  \* what the owner of the package retains of its admission
  edits,
  since,      \* history: what each file has held since the call began
  grounds     \* history: that, for each step of the candidate when it was made

intentVars == <<kept, origin, candidate, call, admission, edits, since, grounds>>
------------------------------------------------------------------------------
IdleCall == [op |-> "idle"]
NoCandidate == [stage |-> "none"]
Steps == {"prepared", "frozen", "material", "admitted"}
NoGrounds == [s \in Steps |-> NoIntent]
EvidenceFiles == Files \cup {Said}
NothingSeen == [f \in EvidenceFiles |-> {}]

Operation(d) == IF d.schema = "v2" THEN "readiness.intent.record" ELSE "modeling.intent"
Intended == {[operation |-> Operation(d), of |-> d] : d \in Definitions}
\* What a person may decide on these subjects.
Decisions(subjects) ==
  {[operation |-> s.operation, of |-> s.of, is |-> i, source |-> [file |-> Said, bytes |-> n]] :
     s \in subjects, i \in {"ACCEPT", "REJECT"}, n \in Notes}

\* One definition has been accepted before.
IntentsInit ==
  /\ \E n \in Notes, f \in Files, d \in Decisions(Intended) :
       /\ d.source.bytes = n
       /\ d.is = "ACCEPT"
       /\ kept = [g \in EvidenceFiles |-> IF g = f THEN d ELSE IF g = Said THEN n ELSE NoIntent]
  /\ origin \in Trees
  /\ candidate = NoCandidate /\ call = IdleCall /\ admission = NoIntent
  /\ edits = 0 /\ since = NothingSeen /\ grounds = NoGrounds

Pairs(inventory) == UNION {{<<c, v>> : v \in inventory[c]} : c \in DOMAIN inventory}

\* Mutant of AcceptsAll: the acceptance has nothing that is not required.
AcceptsSome(d, inventory) ==
  IF d.schema = "v1" THEN Pairs(d.accepts) \subseteq Pairs(inventory)
  ELSE \A c \in DOMAIN inventory : c \in DOMAIN d.accepts

\* The acceptance inventory is the fixed one; that of a v2 definition may have more criteria.
AcceptsAll(d, inventory) ==
  IF d.schema = "v1" THEN Pairs(d.accepts) = Pairs(inventory)
  ELSE \A c \in DOMAIN inventory : c \in DOMAIN d.accepts /\ d.accepts[c] = inventory[c]

\* validateModelingIntent(): a complete definition of an intent for this source.
CompleteV1(d, c) ==
  /\ d.schema = "v1" /\ ~d.open
  /\ d.level >= Uses[d.use]
  /\ d.revision = c.revision /\ d.requires = c.inventory
  /\ AcceptsAll(d, c.inventory)
  /\ d.level > 1 => d.behaviors
  /\ d.plan <=> d.level = 3

\* validateModelingIntentV2(): the tree is compared once it is known.
CompleteV2(d, c) ==
  /\ d.level > 1 => d.behaviors
  /\ d.revision = c.revision /\ c.tree \in {NoIntent, d.tree}
  /\ d.mode = c.direction
  /\ AcceptsAll(d, c.inventory)

IsV2(c) == c.intent # NoIntent /\ c.intent.schema = "v2"
\* requireModelingIntent(): reverse candidates have an intent, others may have one of v2.
NeedsIntent(c) == c.direction = "reverse" \/ IsV2(c)

\* What is to be looked at: evidence that is pinned, of a subject, and what it pins itself.
DecisionEvidence(ref, operation, of) == [is |-> "evidence", ref |-> ref, operation |-> operation, of |-> of]
PinnedSource(pin) == [is |-> "pinned", pin |-> pin]
Intent(c) == IF NeedsIntent(c) THEN <<[is |-> "intent"]>> ELSE <<>>
\* What the person who accepts a candidate has before them.
Reviewed(c) == [c EXCEPT !.stage = "prepared", !.review = NoIntent, !.specifies = NoIntent]

Calls(next) == call' = next /\ UNCHANGED <<kept, origin, candidate, admission, edits, since, grounds>>
Fails ==
  call' = IdleCall /\ since' = NothingSeen /\ UNCHANGED <<kept, origin, candidate, admission, edits, grounds>>
Begins(op, c, todo) ==
  /\ call.op = "idle"
  /\ call' = [op |-> op, on |-> c, todo |-> todo]
  /\ since' = [f \in EvidenceFiles |-> {kept[f]}]
  /\ UNCHANGED <<kept, origin, candidate, admission, edits, grounds>>
GoesOn(todo) == Calls([call EXCEPT !.todo = todo])
Looks(what) == call.op # "idle" /\ call.todo # <<>> /\ Head(call.todo).is = what
Rest == Tail(call.todo)
------------------------------------------------------------------------------
\* buildCandidate(), with the pin of evidence as it is; and under the lock once more.
Prepare ==
  /\ candidate.stage = "none"
  /\ \E direction \in Directions, d \in Definitions \cup {NoIntent}, f \in Files,
        i \in Inventories, r \in Revisions :
       LET c == [direction |-> direction, intent |-> d, ref |-> [file |-> f, bytes |-> kept[f]],
                 inventory |-> i, revision |-> r, tree |-> NoIntent, stage |-> "prepared",
                 review |-> NoIntent, specifies |-> NoIntent] IN
       /\ direction = "forward" => d = NoIntent \/ IsV2(c)
       /\ d = NoIntent => f = CHOOSE g \in Files : TRUE
       /\ Begins("prepare", c, Intent(c) \o <<[is |-> "inventory"]>>)

\* inspectSourceInventory(): the intent of v2 is looked at with the tree, all again below
\* the lock.
Inventory ==
  /\ Looks("inventory")
  /\ LET c == [call.on EXCEPT !.tree = origin] IN
     Calls([call EXCEPT !.on = c, !.todo = (IF IsV2(c) THEN Intent(c) ELSE <<>>) \o Intent(c)])

\* freeze() names the evidence of its review, and looks at the intent before and below the
\* lock.
Freeze ==
  /\ candidate.stage = "prepared"
  /\ \E f \in Files :
       LET ref == [file |-> f, bytes |-> kept[f]] IN
       Begins("freeze", [candidate EXCEPT !.stage = "frozen", !.review = ref],
              Intent(candidate) \o <<[is |-> "fresh"]>> \o Intent(candidate)
                \o <<DecisionEvidence(ref, "freeze", candidate), [is |-> "fresh"]>>)

\* Mutant of Materialize: the intent was looked at for the freeze.
MaterializeFrozen ==
  /\ candidate.stage = "frozen"
  /\ \E d \in Specifications :
       Begins("materialize", [candidate EXCEPT !.stage = "material", !.specifies = d],
              <<[is |-> "fresh"], [is |-> "fresh"]>>)

\* materialize(), of a package with a specification or without one.
Materialize ==
  /\ candidate.stage = "frozen"
  /\ \E d \in Specifications :
       Begins("materialize", [candidate EXCEPT !.stage = "material", !.specifies = d],
              <<[is |-> "fresh"]>> \o Intent(candidate) \o <<[is |-> "fresh"]>> \o Intent(candidate))

\* requireReadinessAuthoring(): where the package is a specification for this very intent,
\* the owner looks at the evidence once more.
Readiness(c) ==
  {<<>>} \cup (IF c.specifies # NoIntent /\ c.specifies = c.intent
              THEN {<<DecisionEvidence(c.ref, Operation(c.intent), c.intent)>>} ELSE {})

\* requireNativeAuthoring() with resolveNativeAuthoring(), of a package that says which way
\* it was made.
Author ==
  /\ candidate.stage = "material"
  /\ LET c == candidate IN
     \E readiness \in Readiness(c) :
       Begins("author", c,
              Intent(c) \o <<DecisionEvidence(c.review, "freeze", Reviewed(c)), [is |-> "fresh"]>> \o readiness)

\* assertModelingIntent(): the definition first, then its evidence.
AssertIntent ==
  /\ Looks("intent")
  /\ LET c == call.on  d == c.intent IN
     IF d # NoIntent /\ IF IsV2(c) THEN CompleteV2(d, c) ELSE CompleteV1(d, c)
     THEN GoesOn(<<DecisionEvidence(c.ref, Operation(d), d)>> \o Rest) ELSE Fails

\* Mutant of Binds: the evidence is of a decision, whatever it was on.
BindsAny(decision, operation, of) == decision # NoIntent

\* The evidence is of exactly this decision, ...
Binds(decision, operation, of) ==
  /\ decision # NoIntent
  /\ decision.operation = operation /\ decision.of = of /\ decision.is = "ACCEPT"

\* verifyDecisionEvidence(): ... the file is the one that was pinned, ...
ReadDecision ==
  /\ Looks("evidence")
  /\ LET e == Head(call.todo) IN
     IF kept[e.ref.file] = e.ref.bytes /\ Binds(e.ref.bytes, e.operation, e.of)
     THEN GoesOn(<<PinnedSource(e.ref.bytes.source)>> \o Rest) ELSE Fails

\* ... and so is what it pins.
ReadSource ==
  /\ Looks("pinned")
  /\ LET p == Head(call.todo).pin IN IF kept[p.file] = p.bytes THEN GoesOn(Rest) ELSE Fails

\* fresh(): the source is the one that was inventoried.
SourceFresh == Looks("fresh") /\ IF origin = call.on.tree THEN GoesOn(Rest) ELSE Fails

Granted(c) ==
  [direction |-> c.direction,
   intent |-> IF c.direction = "reverse" THEN c.intent ELSE NoIntent,
   level |-> IF c.direction = "reverse" THEN c.intent.level ELSE 0]

\* All was looked at: the record is written, or the admission returned, which the owner
\* compares with the one it retains.
Complies ==
  /\ call.op # "idle" /\ call.todo = <<>>
  /\ call' = IdleCall /\ since' = NothingSeen
  /\ IF call.op = "author"
     THEN /\ admission' = IF admission = NoIntent THEN Granted(call.on) ELSE admission
          /\ grounds' = [grounds EXCEPT !["admitted"] = IF admission' = Granted(call.on) THEN since ELSE @]
          /\ UNCHANGED candidate
     ELSE /\ candidate' = call.on
          /\ grounds' = [grounds EXCEPT ![call.on.stage] = since]
          /\ UNCHANGED admission
  /\ UNCHANGED <<kept, origin, edits>>

Puts(f, content) ==
  /\ kept' = [kept EXCEPT ![f] = content]
  /\ since' = [since EXCEPT ![f] = IF call.op = "idle" THEN @ ELSE @ \cup {content}]
  /\ UNCHANGED <<origin, candidate, call, admission, grounds>>

\* A person decides, which pins what was said; evidence is removed, what was said or the
\* source is changed.
Decide ==
  LET asked == IF candidate.stage = "none" THEN {} ELSE {[operation |-> "freeze", of |-> Reviewed(candidate)]} IN
  \E f \in Files, d \in Decisions(Intended \cup asked) : d.source.bytes = kept[Said] /\ Puts(f, d)
Edit ==
  \/ Decide
  \/ \E f \in Files : Puts(f, NoIntent)
  \/ \E n \in Notes \ {kept[Said]} : Puts(Said, n)
  \/ \E t \in Trees \ {origin} :
       origin' = t /\ UNCHANGED <<kept, candidate, call, admission, since, grounds>>

IntentsNext ==
  \/ Prepare \/ Inventory \/ Freeze \/ Materialize \/ Author
  \/ AssertIntent \/ ReadDecision \/ ReadSource \/ SourceFresh \/ Complies
  \/ edits < MaxEdits /\ edits' = edits + 1 /\ Edit

IntentsSpec == IntentsInit /\ [][IntentsNext]_intentVars
------------------------------------------------------------------------------
IntentsTypeOK ==
  /\ origin \in Trees /\ edits \in 0 .. MaxEdits
  /\ candidate.stage \in {"none", "prepared", "frozen", "material"}
  /\ candidate.stage # "none" => candidate.tree \in Trees
  /\ call.op \in {"idle", "prepare", "freeze", "materialize", "author"}

\* The evidence, and what it pins, were there while the files held what they did.
Shown(ref, operation, of, held) ==
  /\ ref.bytes = [operation |-> operation, of |-> of, is |-> "ACCEPT", source |-> ref.bytes.source]
  /\ ref.bytes \in held[ref.file] /\ ref.bytes.source.bytes \in held[ref.bytes.source.file]

(* modeling-intent gate: every step of a candidate that needs an intent, and every
   admission to author its package, stands on a person's acceptance of exactly this
   definition, which was still in place, with what the person had said, during that very
   call; the definition accepts all that is required and is of this source; a frozen
   candidate is also the one that was accepted; and an admission says no other level. *)
AuthoredAsIntended ==
  \A s \in Steps : grounds[s] # NoIntent =>
    LET c == candidate  d == c.intent IN
    /\ NeedsIntent(c) =>
         /\ Shown(c.ref, Operation(d), d, grounds[s])
         /\ \A i \in DOMAIN c.inventory : i \in DOMAIN d.accepts /\ d.accepts[i] = c.inventory[i]
         /\ IsV2(c) => c.tree = d.tree
         /\ ~IsV2(c) => Pairs(d.accepts) \subseteq Pairs(c.inventory) /\ Uses[d.use] <= d.level
    /\ s \in {"frozen", "admitted"} => Shown(c.review, "freeze", Reviewed(c), grounds[s])
    /\ s = "admitted" /\ c.direction = "reverse" => admission.level = c.intent.level
==============================================================================
