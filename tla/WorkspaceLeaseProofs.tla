------------------------ MODULE WorkspaceLeaseProofs ------------------------
(***************************************************************************)
(* What WorkspaceLease promises for every set of processes and subjects.   *)
(***************************************************************************)
EXTENDS WorkspaceLease, TLAPS

(* The write transaction belongs to exactly the process whose call has held
   set, and the row it sees differs from the committed one only in ways the
   source intends. *)
HeldByOwner == \A p \in Proc : pc[p] \in Held <=> tx = p

RowInHand ==
  \A p \in Proc :
    /\ pc[p] = "identity" => txRow = row
    /\ pc[p] \in {"callback", "commit"} => txRow # NoRow /\ txRow.workspace = Subject[p]
    /\ pc[p] = "commit" => txRow.owner = NoOne

IInv ==
  /\ TypeOK
  /\ HeldByOwner
  /\ RowInHand
  /\ NoDurableOwner
  /\ OneSubject
------------------------------------------------------------------------------
(* A committed row is a record or NoRow, never both. *)
LEMMA RowCases ==
  ASSUME NEW r \in Row, r # NoRow
  PROVE  r \in [workspace : Subjects, owner : Proc \cup {NoOne}]
  BY DEF Row

(* The initial state satisfies the invariant. *)
LEMMA InitIInv == Init => IInv
  BY WorkspaceLeaseAssumption
  DEF Init, IInv, TypeOK, HeldByOwner, RowInHand, NoDurableOwner, OneSubject,
      Row, Places, Results, Held

(* Every step of a process keeps the invariant. *)
LEMMA NextIInv == IInv /\ [Next]_vars => IInv'
<1> SUFFICES ASSUME IInv, [Next]_vars PROVE IInv'
  OBVIOUS
<1> USE WorkspaceLeaseAssumption
<1> USE DEF IInv, TypeOK, HeldByOwner, RowInHand, NoDurableOwner, OneSubject,
            Places, Results, Held, Goto, Disk
<1>1. ASSUME NEW p \in Proc, Call(p) PROVE IInv'
  BY <1>1 DEF Call
<1>2. ASSUME NEW p \in Proc, MakeRoot(p) PROVE IInv'
  BY <1>2 DEF MakeRoot
<1>3. ASSUME NEW p \in Proc, InspectRoot(p) PROVE IInv'
  BY <1>3 DEF InspectRoot
<1>4. ASSUME NEW p \in Proc, CreateDatabase(p) PROVE IInv'
  BY <1>4 DEF CreateDatabase
<1>5. ASSUME NEW p \in Proc, RefuseRoot(p) PROVE IInv'
  BY <1>5 DEF RefuseRoot
<1>6. ASSUME NEW p \in Proc, BeginImmediate(p) PROVE IInv'
  BY <1>6 DEF BeginImmediate
<1>7. ASSUME NEW p \in Proc, Deadline(p) PROVE IInv'
  BY <1>7 DEF Deadline
<1>8. ASSUME NEW p \in Proc, Identify(p) PROVE IInv'
  <2>1. Subject[p] \in Subjects
    OBVIOUS
  <2>2. tx = p
    BY <1>8 DEF Identify
  <2>3. CASE /\ txRow # NoRow
             /\ txRow.workspace # Subject[p]
             /\ Goto(p, "identity", "rollback")
             /\ result' = [result EXCEPT ![p] = "identity_conflict"]
             /\ UNCHANGED txRow
    BY <1>8, <2>2, <2>3 DEF Identify
  <2>4. CASE /\ txRow # NoRow => txRow.workspace = Subject[p]
             /\ Goto(p, "identity", "callback")
             /\ txRow' = [workspace |-> IF txRow = NoRow THEN Subject[p]
                                        ELSE txRow.workspace,
                          owner |-> p]
             /\ UNCHANGED result
    <3>1. txRow' = [workspace |-> Subject[p], owner |-> p]
      BY <2>4
    <3>2. txRow' \in Row /\ txRow' # NoRow /\ txRow'.workspace = Subject[p]
      BY <3>1, <2>1 DEF Row
    <3>3. row # NoRow => row.workspace = Subject[p]
      BY <1>8, <2>4
    <3> QED
      BY <1>8, <2>2, <2>4, <3>2, <3>3 DEF Identify
  <2> QED
    BY <1>8, <2>3, <2>4 DEF Identify
<1>9. ASSUME NEW p \in Proc, CallbackReturns(p) PROVE IInv'
  <2>1. tx = p /\ txRow # NoRow /\ txRow.workspace = Subject[p]
    BY <1>9 DEF CallbackReturns
  <2>2. txRow \in [workspace : Subjects, owner : Proc \cup {NoOne}]
    BY <2>1, RowCases
  <2>3. txRow' = [txRow EXCEPT !.owner = NoOne]
    BY <1>9 DEF CallbackReturns
  <2>4. /\ txRow' \in [workspace : Subjects, owner : Proc \cup {NoOne}]
        /\ txRow'.workspace = Subject[p]
        /\ txRow'.owner = NoOne
    BY <2>1, <2>2, <2>3
  <2>5. txRow' \in Row /\ txRow' # NoRow
    BY <2>4 DEF Row
  <2> QED
    BY <1>9, <2>1, <2>4, <2>5 DEF CallbackReturns
<1>10. ASSUME NEW p \in Proc, CallbackThrows(p) PROVE IInv'
  BY <1>10 DEF CallbackThrows
<1>11. ASSUME NEW p \in Proc, Commit(p) PROVE IInv'
  BY <1>11 DEF Commit
<1>12. ASSUME NEW p \in Proc, CommitFails(p) PROVE IInv'
  BY <1>12 DEF CommitFails
<1>13. ASSUME NEW p \in Proc, Rollback(p) PROVE IInv'
  BY <1>13 DEF Rollback
<1>14. ASSUME NEW p \in Proc, Close(p) PROVE IInv'
  BY <1>14 DEF Close
<1>15. ASSUME NEW p \in Proc, Crash(p) PROVE IInv'
  BY <1>15 DEF Crash
<1>16. CASE Intrude
  BY <1>16 DEF Intrude
<1>17. CASE UNCHANGED vars
  BY <1>17 DEF vars
<1> QED
  BY <1>1, <1>2, <1>3, <1>4, <1>5, <1>6, <1>7, <1>8, <1>9, <1>10, <1>11, <1>12,
     <1>13, <1>14, <1>15, <1>16, <1>17 DEF Next, OwnStep
------------------------------------------------------------------------------
(* The invariant holds in every reachable state. *)
LEMMA Invariance == Spec => []IInv
  BY InitIInv, NextIInv, PTL DEF Spec

(* Every variable keeps its type. *)
THEOREM TypeCorrect == Spec => []TypeOK
  BY Invariance, PTL DEF IInv

(* A write transaction excludes: never two callbacks at once. *)
THEOREM Exclusion == Spec => []MutualExclusion
<1>1. IInv => MutualExclusion
  BY WorkspaceLeaseAssumption DEF IInv, HeldByOwner, Held, MutualExclusion
<1> QED
  BY <1>1, Invariance, PTL

(* A committed row never names an owner. *)
THEOREM OwnerNotDurable == Spec => []NoDurableOwner
  BY Invariance, PTL DEF IInv

(* After the first commit only that subject's callbacks run. *)
THEOREM SubjectPinned == Spec => []OneSubject
  BY Invariance, PTL DEF IInv
------------------------------------------------------------------------------
(* The mapped holder is the process inside its callback, if there is one. *)
LEMMA HolderIs ==
  ASSUME IInv
  PROVE  /\ \A p \in Proc : pc[p] = "callback" => HolderOf = p
         /\ (\A p \in Proc : pc[p] # "callback") => HolderOf = NoOne
<1>1. ASSUME NEW p \in Proc, pc[p] = "callback" PROVE Inside = {p}
  BY <1>1, WorkspaceLeaseAssumption DEF IInv, HeldByOwner, Held, Inside
<1>2. ASSUME NEW p \in Proc, pc[p] = "callback" PROVE HolderOf = p
  <2>1. Inside = {p}
    BY <1>1, <1>2
  <2> QED
    BY <2>1 DEF HolderOf
<1>3. ASSUME \A p \in Proc : pc[p] # "callback" PROVE HolderOf = NoOne
  BY <1>3 DEF HolderOf, Inside
<1> QED
  BY <1>2, <1>3

(* The same of the next state. *)
LEMMA HolderIsNext ==
  ASSUME IInv'
  PROVE  /\ \A p \in Proc : pc'[p] = "callback" => HolderOf' = p
         /\ (\A p \in Proc : pc'[p] # "callback") => HolderOf' = NoOne
<1>1. ASSUME NEW p \in Proc, pc'[p] = "callback" PROVE Inside' = {p}
  BY <1>1, WorkspaceLeaseAssumption DEF IInv, HeldByOwner, Held, Inside
<1>2. ASSUME NEW p \in Proc, pc'[p] = "callback" PROVE HolderOf' = p
  <2>1. Inside' = {p}
    BY <1>1, <1>2
  <2> QED
    BY <2>1 DEF HolderOf
<1>3. ASSUME \A p \in Proc : pc'[p] # "callback" PROVE HolderOf' = NoOne
  BY <1>3 DEF HolderOf, Inside
<1> QED
  BY <1>2, <1>3

(* A step that moves one process is an acquisition, a release or a stutter of
   the abstract lease: the invariant after the step rules out a second process
   inside, so a process enters only when nobody is inside. *)
LEMMA MoveMapped ==
  ASSUME IInv, IInv', NEW p \in Proc, NEW x, pc' = [pc EXCEPT ![p] = x]
  PROVE  [Abstract!LeaseNext]_HolderOf
<1>1. /\ pc'[p] = x
      /\ \A q \in Proc \ {p} : pc'[q] = pc[q]
  BY DEF IInv, TypeOK
<1>2. \A q \in Proc \ {p} : ~(pc'[p] = "callback" /\ pc'[q] = "callback")
  BY WorkspaceLeaseAssumption DEF IInv, HeldByOwner, Held
<1>3. \A q \in Proc \ {p} : ~(pc[p] = "callback" /\ pc[q] = "callback")
  BY WorkspaceLeaseAssumption DEF IInv, HeldByOwner, Held
<1>4. CASE pc[p] = "callback" /\ x = "callback"
  <2>1. HolderOf = p /\ HolderOf' = p
    BY <1>1, <1>4, HolderIs, HolderIsNext
  <2> QED
    BY <2>1
<1>5. CASE pc[p] = "callback" /\ x # "callback"
  <2>1. HolderOf = p
    BY <1>5, HolderIs
  <2>2. \A q \in Proc : pc'[q] # "callback"
    BY <1>1, <1>3, <1>5
  <2>3. HolderOf' = NoOne
    BY <2>2, HolderIsNext
  <2> QED
    BY <2>1, <2>3 DEF Abstract!LeaseNext, Abstract!Release
<1>6. CASE pc[p] # "callback" /\ x = "callback"
  <2>1. \A q \in Proc : pc[q] # "callback"
    BY <1>1, <1>2, <1>6
  <2>2. HolderOf = NoOne
    BY <2>1, HolderIs
  <2>3. HolderOf' = p
    BY <1>1, <1>6, HolderIsNext
  <2> QED
    BY <2>2, <2>3 DEF Abstract!LeaseNext, Abstract!Acquire
<1>7. CASE pc[p] # "callback" /\ x # "callback"
  <2>1. Inside' = Inside
    BY <1>1, <1>7 DEF Inside
  <2>2. HolderOf' = HolderOf
    BY <2>1 DEF HolderOf
  <2> QED
    BY <2>2
<1> QED
  BY <1>4, <1>5, <1>6, <1>7

(* The lease is held by one process, of one subject, and by nobody after its death. *)
THEOREM HolderIsOne == Spec => []OneHolder
BY Exclusion, OwnerNotDurable, SubjectPinned, PTL DEF OneHolder

(* Every step moves at most one process. *)
LEMMA OneMoves ==
  ASSUME IInv, [Next]_vars
  PROVE  \/ \E p \in Proc, x \in Places : pc' = [pc EXCEPT ![p] = x]
         \/ pc' = pc
<1>1. ASSUME NEW p \in Proc,
             \/ Call(p) \/ OwnStep(p) \/ CallbackReturns(p)
             \/ CallbackThrows(p) \/ Crash(p)
      PROVE  \E x \in Places : pc' = [pc EXCEPT ![p] = x]
  BY <1>1 DEF Call, OwnStep, CallbackReturns, CallbackThrows, Crash, MakeRoot,
      InspectRoot, CreateDatabase, RefuseRoot, BeginImmediate, Deadline, Identify,
      Commit, CommitFails, Rollback, Close, Goto, Places
<1>2. CASE Intrude
  BY <1>2 DEF Intrude
<1>3. CASE UNCHANGED vars
  BY <1>3 DEF vars
<1> QED
  BY <1>1, <1>2, <1>3 DEF Next

(* The SQLite lease implements the abstract one for every set of processes:
   its steps are acquisitions, releases and stutters of Lease. *)
THEOREM Implementation == Spec => ImplementsLease
<1>1. Init => Abstract!LeaseInit
  BY DEF Init, Abstract!LeaseInit, HolderOf, Inside
<1>2. IInv /\ IInv' /\ [Next]_vars => [Abstract!LeaseNext]_HolderOf
  <2> SUFFICES ASSUME IInv, IInv', [Next]_vars
               PROVE  [Abstract!LeaseNext]_HolderOf
    OBVIOUS
  <2>1. CASE \E p \in Proc, x \in Places : pc' = [pc EXCEPT ![p] = x]
    BY <2>1, MoveMapped
  <2>2. CASE pc' = pc
    <3>1. HolderOf' = HolderOf
      BY <2>2 DEF HolderOf, Inside
    <3> QED
      BY <3>1
  <2> QED
    BY <2>1, <2>2, OneMoves
<1> QED
  BY <1>1, <1>2, Invariance, PTL DEF Spec, ImplementsLease, Abstract!LeaseSpec
==============================================================================
