------------------------------ MODULE Promotion ------------------------------
(***************************************************************************)
(* Promotion of an accepted candidate to a project's current tree          *)
(* (integration/workspace/native-promotion.ts): a journal pins both trees, *)
(* the next tree is staged beside the archive, and two renames put it in   *)
(* the current one's place.  The project lock admits one promotion at a    *)
(* time; a process that dies releases it, and the same request is retried. *)
(* Current and candidate are ordinary directories that anybody may edit.   *)
(* A tree is the bytes at each path: the promotion's own, somebody's       *)
(* edit, or the prefix a killed process wrote.                             *)
(***************************************************************************)
EXTENDS Naturals

CONSTANTS
  Files,       \* the paths a tree may have
  Managed,     \* those under a name in `replaced`: they come from the candidate
  ProjectFile, \* project.json: the candidate's only if there was none
  Missing,     \* a tree that does not exist
  MaxCrashes   \* bound: how often the promoting process dies

ASSUME PromotionAssumption ==
  /\ Managed \subseteq Files
  /\ ProjectFile \in Files \ Managed
  /\ MaxCrashes \in Nat

Contents == {"none", "old", "new", "edited", "torn"}
Trees == [Files -> Contents]

ASSUME MissingIsNoTree == Missing \notin Trees

VARIABLES
  current,    \* the project's current tree
  candidate,  \* the accepted candidate's tree
  next,       \* archive/next, the staged tree
  previous,   \* archive/previous, the tree that was current
  journal,    \* promotion-<id>.json
  plan,       \* what the journal pins, and the promoting process has in memory
  receipt,    \* promotion-<id>.receipt.json
  pc,         \* where the promoting process is
  edited,     \* auxiliary: paths of the current tree that were edited
  crashes     \* bound counter

trees == <<current, candidate, next, previous>>
vars == <<trees, journal, plan, receipt, pc, edited, crashes>>

Plans == [before : Trees, pin : Trees]
Empty == [f \in Files |-> "none"]
NoPlan == [before |-> Empty, pin |-> Empty]

Places == {"idle", "journal", "write", "stage", "copy", "put", "finish", "archive",
           "move", "install", "place", "verify", "receipt"}

TypeOK ==
  /\ current \in Trees \cup {Missing}
  /\ candidate \in Trees
  /\ next \in Trees \cup {Missing}
  /\ previous \in Trees \cup {Missing}
  /\ journal \in {"none", "torn", "plan"}
  /\ plan \in Plans
  /\ receipt \in {"none", "torn", "done"}
  /\ pc \in Places
  /\ edited \subseteq Files
  /\ crashes \in 0..MaxCrashes

\* fromCandidate, and the file list of the plan's `after` tree.
FromCandidate(f, p) == f \in Managed \/ (f = ProjectFile /\ p.before[f] = "none")

After(p) == [f \in Files |-> IF FromCandidate(f, p) THEN p.pin[f] ELSE p.before[f]]
------------------------------------------------------------------------------
\* Trees of files that nobody has edited; nothing is promoted yet.
Init ==
  /\ current \in [Files -> {"none", "old"}]
  /\ candidate \in [Files -> {"none", "new"}]
  /\ next = Missing
  /\ previous = Missing
  /\ journal = "none"
  /\ plan = NoPlan
  /\ receipt = "none"
  /\ pc = "idle"
  /\ edited = {}
  /\ crashes = 0

\* The call rejects (PROJECT_PROMOTION_DRIFT, a journal or receipt that does not
\* parse, PROJECT_PROMOTION_UNCERTAIN) or returns; the lock is released.
Return == pc' = "idle"

\* promote, with the project lock; it is called again until it returns.
Start ==
  /\ pc = "idle"
  /\ receipt # "done"
  /\ pc' = "journal"
  /\ UNCHANGED <<trees, journal, plan, receipt, edited, crashes>>

\* preparePromotion without a journal: both trees are pinned.
Pin ==
  /\ pc = "journal"
  /\ journal = "none"
  /\ \/ /\ current # Missing
        /\ next = Missing
        /\ previous = Missing
        /\ plan' = [before |-> current, pin |-> candidate]
        /\ journal' = "torn"
        /\ pc' = "write"
     \/ /\ current = Missing \/ next # Missing \/ previous # Missing
        /\ Return
        /\ UNCHANGED <<journal, plan>>
  /\ UNCHANGED <<trees, receipt, edited, crashes>>

\* put has written the whole journal.
WriteJournal ==
  /\ pc = "write"
  /\ journal' = "plan"
  /\ pc' = "stage"
  /\ UNCHANGED <<trees, plan, receipt, edited, crashes>>

\* Mutant of ReadJournal: staging is resumed whatever is archived.
ReadJournalAndStage ==
  /\ pc = "journal"
  /\ journal # "none"
  /\ pc' = IF journal = "torn" THEN "idle"
           ELSE IF receipt = "none" THEN "stage" ELSE "finish"
  /\ UNCHANGED <<trees, journal, plan, receipt, edited, crashes>>

\* preparePromotion with a journal: staging is resumed only before the archive.
ReadJournal ==
  /\ pc = "journal"
  /\ journal # "none"
  /\ pc' = IF journal = "torn" THEN "idle"
           ELSE IF previous = Missing /\ receipt = "none" THEN "stage" ELSE "finish"
  /\ UNCHANGED <<trees, journal, plan, receipt, edited, crashes>>

Unchanged == current = plan.before /\ candidate = plan.pin

\* stage: both sources are the pinned ones, next has only files of After.
Stage ==
  /\ pc = "stage"
  /\ IF Unchanged /\ (next # Missing =>
                        \A f \in Files : next[f] \in {"none", After(plan)[f]})
     THEN /\ next' = IF next = Missing THEN Empty ELSE next
          /\ pc' = "copy"
     ELSE Return /\ UNCHANGED next
  /\ UNCHANGED <<current, candidate, previous, journal, plan, receipt, edited, crashes>>

\* A file that next lacks is read, compared with its pin and created.
Copy ==
  /\ pc = "copy"
  /\ \E f \in Files :
       LET source == IF FromCandidate(f, plan) THEN candidate ELSE current
       IN  /\ next[f] # After(plan)[f]
           /\ \/ /\ source[f] = After(plan)[f]
                 /\ next' = [next EXCEPT ![f] = "torn"]
                 /\ pc' = "put"
              \/ /\ source[f] # After(plan)[f]
                 /\ Return
                 /\ UNCHANGED next
  /\ UNCHANGED <<current, candidate, previous, journal, plan, receipt, edited, crashes>>

\* put has written the file whole.
Put ==
  /\ pc = "put"
  /\ \E f \in Files :
       /\ next[f] = "torn"
       /\ next' = [next EXCEPT ![f] = After(plan)[f]]
  /\ pc' = "copy"
  /\ UNCHANGED <<current, candidate, previous, journal, plan, receipt, edited, crashes>>

\* stage compares all three trees again.
Staged ==
  /\ pc = "copy"
  /\ next = After(plan)
  /\ IF Unchanged THEN pc' = "finish" ELSE Return
  /\ UNCHANGED <<trees, journal, plan, receipt, edited, crashes>>
------------------------------------------------------------------------------
\* finishPromotion: a receipt is historical and ends the call either way.
ReadReceipt ==
  /\ pc = "finish"
  /\ IF receipt = "none" THEN pc' = "archive" ELSE Return
  /\ UNCHANGED <<trees, journal, plan, receipt, edited, crashes>>

\* The old tree is archived already, or both trees are still as planned.
CheckArchive ==
  /\ pc = "archive"
  /\ \/ previous # Missing /\ (IF previous = plan.before THEN pc' = "install" ELSE Return)
     \/ /\ previous = Missing
        /\ IF current = plan.before /\ next = After(plan) THEN pc' = "move" ELSE Return
  /\ UNCHANGED <<trees, journal, plan, receipt, edited, crashes>>

\* renameSync(plan.current, plan.previous)
Move ==
  /\ pc = "move"
  /\ previous' = current
  /\ current' = Missing
  /\ pc' = "install"
  /\ UNCHANGED <<candidate, next, journal, plan, receipt, edited, crashes>>

\* The next tree is installed already, or is still whole.
CheckInstall ==
  /\ pc = "install"
  /\ \/ /\ current # Missing
        /\ IF current = After(plan) /\ next = Missing THEN pc' = "verify" ELSE Return
     \/ current = Missing /\ (IF next = After(plan) THEN pc' = "place" ELSE Return)
  /\ UNCHANGED <<trees, journal, plan, receipt, edited, crashes>>

\* Mutant of Place: the tree is copied file by file and then removed.
PlaceByCopy ==
  /\ pc = "place"
  /\ LET part == IF current = Missing THEN Empty ELSE current
     IN  IF part = next
         THEN next' = Missing /\ pc' = "verify" /\ UNCHANGED current
         ELSE /\ \E f \in Files : part[f] # next[f] /\ current' = [part EXCEPT ![f] = next[f]]
              /\ UNCHANGED <<next, pc>>
  /\ UNCHANGED <<candidate, previous, journal, plan, receipt, edited, crashes>>

\* Mutant of Place: whatever is at the current tree's name makes room.
PlaceOver ==
  /\ pc = "place"
  /\ current' = next
  /\ next' = Missing
  /\ pc' = "verify"
  /\ UNCHANGED <<candidate, previous, journal, plan, receipt, edited, crashes>>

\* renameSync(plan.next, plan.current); ENOTEMPTY if the name is in use again.
Place ==
  /\ pc = "place"
  /\ IF current = Missing
     THEN /\ current' = next
          /\ next' = Missing
          /\ pc' = "verify"
     ELSE Return /\ UNCHANGED <<current, next>>
  /\ UNCHANGED <<candidate, previous, journal, plan, receipt, edited, crashes>>

\* Mutant of Verify: the renames are trusted.
VerifyNothing ==
  /\ pc = "verify"
  /\ receipt' = "torn"
  /\ pc' = "receipt"
  /\ UNCHANGED <<trees, journal, plan, edited, crashes>>

\* Both trees are compared once more; the receipt is created.
Verify ==
  /\ pc = "verify"
  /\ IF previous = plan.before /\ current = After(plan)
     THEN receipt' = "torn" /\ pc' = "receipt"
     ELSE Return /\ UNCHANGED receipt
  /\ UNCHANGED <<trees, journal, plan, edited, crashes>>

\* put has written the whole receipt.
WriteReceipt ==
  /\ pc = "receipt"
  /\ receipt' = "done"
  /\ Return
  /\ UNCHANGED <<trees, journal, plan, edited, crashes>>
------------------------------------------------------------------------------
\* The process is killed; only the files are left.
Crash ==
  /\ pc # "idle"
  /\ crashes < MaxCrashes
  /\ crashes' = crashes + 1
  /\ pc' = "idle"
  /\ plan' = IF journal = "plan" THEN plan ELSE NoPlan
  /\ UNCHANGED <<trees, journal, receipt, edited>>

\* Somebody saves a file of the current tree, creating the tree if it is absent,
\* or a file of the candidate.
Edit(f) ==
  /\ current' = [IF current = Missing THEN Empty ELSE current EXCEPT ![f] = "edited"]
  /\ edited' = edited \cup {f}
  /\ UNCHANGED <<candidate, next, previous, journal, plan, receipt, pc, crashes>>

EditCandidate(f) ==
  /\ candidate' = [candidate EXCEPT ![f] = "edited"]
  /\ UNCHANGED <<current, next, previous, journal, plan, receipt, pc, edited, crashes>>

Step ==
  \/ Start \/ Pin \/ WriteJournal \/ ReadJournal \/ Stage \/ Copy \/ Put \/ Staged
  \/ ReadReceipt \/ CheckArchive \/ Move \/ CheckInstall \/ Place \/ Verify \/ WriteReceipt

Next == Step \/ Crash \/ \E f \in Files : Edit(f) \/ EditCandidate(f)

Spec == Init /\ [][Next]_vars

\* The request is retried until a receipt exists and the process is scheduled.
FairSpec == Spec /\ WF_vars(Step)
------------------------------------------------------------------------------
(* "never merges unknown bytes": with a plan, the current tree is the one that
   was there, the one that was reviewed or one created in its absence, apart
   from edits; it is absent only while the archived tree and the whole next
   tree exist. *)
NeverMixed ==
  journal = "plan" =>
    IF current = Missing
    THEN previous # Missing /\ next = After(plan)
    ELSE \E t \in {plan.before, After(plan), Empty} :
           \A f \in Files : current[f] \in {t[f], "edited"}

(* No edit of the current tree is ever lost, in whichever moment of a promotion
   or of its recovery it was made. *)
EditsKept ==
  \A f \in edited :
    \/ current # Missing /\ current[f] = "edited"
    \/ previous # Missing /\ previous[f] = "edited"

(* A receipt, even a torn one, exists only over an archive that is exactly the
   tree the plan pinned: "Preserve ... the complete old tree in the archive". *)
ArchiveComplete == receipt # "none" => previous = plan.before /\ next = Missing

\* What the code refuses to resume: a put that was killed, or bytes it did not pin.
Uncertain ==
  \/ receipt = "torn"
  \/ next # Missing /\ \E f \in Files : next[f] = "torn"
  \/ edited # {}
  \/ candidate # plan.pin

(* Liveness.  A promotion that has its journal is completed, however often the
   process dies between its file operations. *)
Completes == journal = "plan" ~> receipt = "done" \/ Uncertain
==============================================================================
