--------------------------- MODULE PromotionProofs ---------------------------
(***************************************************************************)
(* The safety properties of Promotion, for any sets of files and any       *)
(* number of deaths.  How far a promotion has come is told by the two      *)
(* trees in the archive: the invariant says what the current tree is then. *)
(***************************************************************************)
EXTENDS Promotion, TLAPS

\* Tree t is u, apart from edits.
Like(t, u) == \A f \in Files : t[f] \in {u[f], "edited"}

(* Without a complete journal nothing has been staged or archived. *)
Untouched ==
  journal # "plan" =>
    /\ next = Missing /\ previous = Missing /\ current # Missing
    /\ receipt = "none"
    /\ pc \in {"idle", "journal", "write"}

(* Until the old tree is archived, the current tree is the one the plan pinned. *)
NotArchived ==
  pc = "write" \/ (journal = "plan" /\ previous = Missing) =>
    current # Missing /\ Like(current, plan.before) /\ receipt = "none"

(* Once it is archived, the next tree is whole in the archive and at most edits
   are in the current tree's place, or it is the current tree. *)
Archived ==
  previous # Missing =>
    IF next = Missing
    THEN current # Missing /\ Like(current, After(plan))
    ELSE next = After(plan) /\ (current # Missing => Like(current, Empty))

(* What the promoting process has seen or done at each place still holds. *)
Progress ==
  /\ pc = "write" => journal = "torn"
  /\ pc \in {"stage", "copy", "put", "move"} => previous = Missing
  /\ pc \in {"copy", "put", "place"} => next # Missing
  /\ pc = "move" => next = After(plan)
  /\ pc \in {"install", "place", "verify"} => previous # Missing
  /\ pc \in {"verify", "receipt"} => next = Missing
  /\ pc = "receipt" => receipt # "none"

IInv ==
  /\ TypeOK
  /\ Untouched
  /\ NotArchived
  /\ Archived
  /\ Progress
  /\ ArchiveComplete
  /\ EditsKept
------------------------------------------------------------------------------
(* The tree that a plan ends with is a tree. *)
LEMMA AfterIsTree == ASSUME NEW p \in Plans PROVE After(p) \in Trees
  BY DEF After, Plans, Trees

(* The initial state satisfies the invariant. *)
LEMMA InitIInv == Init => IInv
<1> SUFFICES ASSUME Init PROVE IInv
  OBVIOUS
<1>1. current \in Trees /\ candidate \in Trees /\ NoPlan \in Plans
  BY DEF Init, Trees, Contents, NoPlan, Plans, Empty
<1>2. TypeOK
  BY <1>1, PromotionAssumption DEF Init, TypeOK, Places
<1> QED
  BY <1>1, <1>2, MissingIsNoTree
  DEF Init, IInv, Untouched, NotArchived, Archived, Progress, ArchiveComplete, EditsKept

(* A step that changes nothing but where the process is keeps the invariant if
   the process may be there. *)
LEMMA OnlyPlace ==
  ASSUME IInv, pc' \in Places, Progress', Untouched', NotArchived',
         UNCHANGED <<trees, journal, plan, receipt, edited, crashes>>
  PROVE  IInv'
BY DEF IInv, TypeOK, Untouched, NotArchived, Archived, Progress, ArchiveComplete, EditsKept, trees

(* Every step keeps the invariant. *)
LEMMA NextIInv == IInv /\ [Next]_vars => IInv'
<1> SUFFICES ASSUME IInv, [Next]_vars PROVE IInv'
  OBVIOUS
<1> USE MissingIsNoTree
<1> plan \in Plans /\ After(plan) \in Trees
  BY AfterIsTree DEF IInv, TypeOK
<1>start. CASE Start
  BY <1>start, OnlyPlace DEF Start, IInv, Progress, Untouched, NotArchived, Places, trees
<1>pin. CASE Pin
  <2>1. CASE Return /\ UNCHANGED <<journal, plan>>
    BY <1>pin, <2>1, OnlyPlace DEF Pin, Return, IInv, Progress, Untouched, NotArchived, Places, trees
  <2>2. CASE /\ current # Missing /\ plan' = [before |-> current, pin |-> candidate]
             /\ journal' = "torn" /\ pc' = "write"
    <3>1. TypeOK'
      BY <1>pin, <2>2 DEF Pin, IInv, TypeOK, Plans, Places, trees
    <3> QED
      BY <1>pin, <2>2, <3>1
      DEF Pin, IInv, TypeOK, Untouched, NotArchived, Archived, Progress, ArchiveComplete, EditsKept, Like, trees
  <2> QED
    BY <1>pin, <2>1, <2>2 DEF Pin
<1>writejournal. CASE WriteJournal
  BY <1>writejournal DEF WriteJournal, IInv, TypeOK, Untouched, NotArchived, Archived, Progress, ArchiveComplete, EditsKept, Places, trees
<1>readjournal. CASE ReadJournal
  BY <1>readjournal, OnlyPlace DEF ReadJournal, IInv, TypeOK, Progress, Untouched, NotArchived, Places, trees
<1>stage. CASE Stage
  <2>1. Empty \in Trees
    BY DEF Empty, Trees, Contents
  <2> QED
    BY <1>stage, <2>1 DEF Stage, Return, IInv, TypeOK, Untouched, NotArchived, Archived, Progress, ArchiveComplete, EditsKept, Places
<1>copy. CASE Copy
  <2>1. next \in Trees
    BY <1>copy DEF Copy, IInv, TypeOK, Progress
  <2>2. next' \in Trees /\ pc' \in {"put", "idle"}
    BY <1>copy, <2>1 DEF Copy, Return, Trees, Contents
  <2>3. UNCHANGED <<current, candidate, previous, journal, plan, receipt, edited, crashes>>
    BY <1>copy DEF Copy
  <2>4. pc = "copy"
    BY <1>copy DEF Copy
  <2> QED
    BY <2>1, <2>2, <2>3, <2>4 DEF IInv, TypeOK, Untouched, NotArchived, Archived, Progress, ArchiveComplete, EditsKept, Places
<1>put. CASE Put
  <2>1. next \in Trees
    BY <1>put DEF Put, IInv, TypeOK, Progress
  <2>2. next' \in Trees
    BY <1>put, <2>1 DEF Put, Trees
  <2> QED
    BY <1>put, <2>1, <2>2 DEF Put, IInv, TypeOK, Untouched, NotArchived, Archived, Progress, ArchiveComplete, EditsKept, Places
<1>staged. CASE Staged
  BY <1>staged, OnlyPlace DEF Staged, Return, IInv, Progress, Untouched, NotArchived, Places, trees
<1>readreceipt. CASE ReadReceipt
  BY <1>readreceipt, OnlyPlace DEF ReadReceipt, Return, IInv, Progress, Untouched, NotArchived, Places, trees
<1>checkarchive. CASE CheckArchive
  BY <1>checkarchive, OnlyPlace DEF CheckArchive, Return, IInv, Progress, Untouched, NotArchived, Places, trees
<1>move. CASE Move
  BY <1>move DEF Move, IInv, TypeOK, Untouched, NotArchived, Archived, Progress, ArchiveComplete, EditsKept, Places
<1>checkinstall. CASE CheckInstall
  BY <1>checkinstall, OnlyPlace DEF CheckInstall, Return, IInv, Progress, Untouched, NotArchived, Places, trees
<1>place. CASE Place
  BY <1>place DEF Place, Return, IInv, TypeOK, Untouched, NotArchived, Archived, Progress, ArchiveComplete, EditsKept, Places, Like
<1>verify. CASE Verify
  BY <1>verify DEF Verify, Return, IInv, TypeOK, Untouched, NotArchived, Archived, Progress, ArchiveComplete, EditsKept, Places, trees
<1>writereceipt. CASE WriteReceipt
  BY <1>writereceipt DEF WriteReceipt, Return, IInv, TypeOK, Untouched, NotArchived, Archived, Progress, ArchiveComplete, EditsKept, Places, trees
<1>crash. CASE Crash
  <2>1. NoPlan \in Plans
    BY DEF NoPlan, Plans, Empty, Trees, Contents
  <2> QED
    BY <1>crash, <2>1, PromotionAssumption DEF Crash, IInv, TypeOK, Untouched, NotArchived, Archived, Progress, ArchiveComplete, EditsKept, Places, trees
<1>edit. ASSUME NEW f \in Files, Edit(f) PROVE IInv'
  <2>1. current' \in Trees /\ current'[f] = "edited"
        /\ \A g \in Files \ {f} : current'[g] = IF current = Missing THEN "none" ELSE current[g]
    BY <1>edit DEF Edit, IInv, TypeOK, Trees, Contents, Empty
  <2>2. TypeOK'
    BY <1>edit, <2>1 DEF Edit, IInv, TypeOK
  <2>3. EditsKept'
    BY <1>edit, <2>1 DEF Edit, IInv, EditsKept
  <2>4. NotArchived' /\ Archived'
    BY <1>edit, <2>1 DEF Edit, IInv, NotArchived, Archived, Like, Empty
  <2> QED
    BY <1>edit, <2>1, <2>2, <2>3, <2>4 DEF Edit, IInv, Untouched, Progress, ArchiveComplete
<1>candidate. ASSUME NEW f \in Files, EditCandidate(f) PROVE IInv'
  <2>1. candidate' \in Trees
    BY <1>candidate DEF EditCandidate, IInv, TypeOK, Trees, Contents
  <2> QED
    BY <1>candidate, <2>1 DEF EditCandidate, IInv, TypeOK, Untouched, NotArchived, Archived, Progress, ArchiveComplete, EditsKept
<1>stutter. CASE UNCHANGED vars
  BY <1>stutter DEF vars, trees, IInv, TypeOK, Untouched, NotArchived, Archived, Progress, ArchiveComplete, EditsKept
<1> QED
  BY <1>start, <1>pin, <1>writejournal, <1>readjournal, <1>stage, <1>copy, <1>put, <1>staged,
     <1>readreceipt, <1>checkarchive, <1>move, <1>checkinstall, <1>place, <1>verify,
     <1>writereceipt, <1>crash, <1>edit, <1>candidate, <1>stutter
  DEF Next, Step
------------------------------------------------------------------------------
(* The invariant holds throughout. *)
LEMMA Inductive == Spec => []IInv
  BY InitIInv, NextIInv, PTL DEF Spec

(* Every variable keeps its type. *)
THEOREM TypeCorrect == Spec => []TypeOK
  BY Inductive, PTL DEF IInv

(* The current tree is the old one, the reviewed one or edits, and is absent
   only while both trees are whole in the archive. *)
THEOREM TreesNeverMix == Spec => []NeverMixed
<1>1. IInv => NeverMixed
  BY DEF IInv, NeverMixed, NotArchived, Archived, Like
<1> QED
  BY <1>1, Inductive, PTL

(* No edit is lost, whenever it is made and however often the process dies. *)
THEOREM EditsAreKept == Spec => []EditsKept
  BY Inductive, PTL DEF IInv

(* A receipt exists only over the complete archive. *)
THEOREM ReceiptsMeanArchived == Spec => []ArchiveComplete
  BY Inductive, PTL DEF IInv
==============================================================================
