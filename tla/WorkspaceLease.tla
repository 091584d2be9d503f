--------------------------- MODULE WorkspaceLease ---------------------------
(***************************************************************************)
(* The process-death-safe lease of integration/workspace/lock.ts: the      *)
(* directory ROOT + '.evopilot-coordination' with one SQLite database,     *)
(* whose write transaction is the lease.  withWorkspaceLease and           *)
(* withInstallationLease are this function with two different subjects.    *)
(*                                                                         *)
(* One process runs lease() at a time per element of Proc; a process that  *)
(* dies and is started again is the same element.  The database has one    *)
(* row: the committed row is in the file, the holder's uncommitted row is  *)
(* seen by the holder alone and is lost when the holder dies (SQLite rolls *)
(* the hot journal back).                                                  *)
(***************************************************************************)
CONSTANTS
  Proc,       \* the processes that call lease()
  NoOne,      \* no process
  Subjects,   \* canonical subjects: schema, id, canonical root and owner
  Subject,    \* the subject each process asks for: [Proc -> Subjects]
  NoRow       \* the row of a new database

ASSUME WorkspaceLeaseAssumption ==
  /\ NoOne \notin Proc
  /\ Subject \in [Proc -> Subjects]
  /\ NoRow \notin [workspace : Subjects, owner : Proc \cup {NoOne}]

VARIABLES
  made,     \* the coordination root exists
  file,     \* lease.db exists
  foreign,  \* an entry other than lease.db and its journal is in the root
  row,      \* the committed row of workspace_lease
  tx,       \* the process whose BEGIN IMMEDIATE succeeded, or NoOne
  txRow,    \* the row as the transaction's owner sees it
  pc,       \* where each process is in lease()
  result    \* how its last call ended

vars == <<made, file, foreign, row, tx, txRow, pc, result>>

Row == [workspace : Subjects, owner : Proc \cup {NoOne}] \cup {NoRow}

\* The steps of lease() between which another process can run.
Places == {"idle", "mkdir", "inspect", "create", "begin", "identity",
           "callback", "commit", "rollback", "close"}

Results == {"none", "ok", "busy", "identity_conflict", "callback_failed",
            "commit_failed", "unsafe"}

\* held = true in the source: BEGIN IMMEDIATE has returned.
Held == {"identity", "callback", "commit", "rollback"}

TypeOK ==
  /\ made \in BOOLEAN
  /\ file \in BOOLEAN
  /\ foreign \in BOOLEAN
  /\ row \in Row
  /\ tx \in Proc \cup {NoOne}
  /\ txRow \in Row
  /\ pc \in [Proc -> Places]
  /\ result \in [Proc -> Results]
------------------------------------------------------------------------------
Init ==
  /\ made = FALSE
  /\ file = FALSE
  /\ foreign = FALSE
  /\ row = NoRow
  /\ tx = NoOne
  /\ txRow = NoRow
  /\ pc = [p \in Proc |-> "idle"]
  /\ result = [p \in Proc |-> "none"]

\* p moves from one place to the next.
Goto(p, from, to) ==
  /\ pc[p] = from
  /\ pc' = [pc EXCEPT ![p] = to]

Disk == <<made, file, foreign, row>>

\* A call whose requestId matches the pattern; a malformed one changes nothing.
Call(p) ==
  /\ Goto(p, "idle", "mkdir")
  /\ result' = [result EXCEPT ![p] = "none"]
  /\ UNCHANGED <<Disk, tx, txRow>>

\* mkdirSync(root), tolerating EEXIST.
MakeRoot(p) ==
  /\ Goto(p, "mkdir", "inspect")
  /\ made' = TRUE
  /\ UNCHANGED <<file, foreign, row, tx, txRow, result>>

\* check(root) before the database is opened; its failure leaves nothing to undo.
InspectRoot(p) ==
  /\ Goto(p, "inspect", IF foreign THEN "idle" ELSE "create")
  /\ result' = IF foreign THEN [result EXCEPT ![p] = "unsafe"] ELSE result
  /\ UNCHANGED <<Disk, tx, txRow>>

\* Create lease.db with O_EXCL unless it is there, tolerating EEXIST, and open it.
CreateDatabase(p) ==
  /\ Goto(p, "create", "begin")
  /\ file' = TRUE
  /\ UNCHANGED <<made, foreign, row, tx, txRow, result>>

\* A pass of the retry loop whose check(root) fails.
RefuseRoot(p) ==
  /\ foreign
  /\ Goto(p, "begin", "close")
  /\ result' = [result EXCEPT ![p] = "unsafe"]
  /\ UNCHANGED <<Disk, tx, txRow>>

\* A pass whose BEGIN IMMEDIATE succeeds: the write lock is the lease.
BeginImmediate(p) ==
  /\ ~foreign
  /\ tx = NoOne
  /\ Goto(p, "begin", "identity")
  /\ tx' = p
  /\ txRow' = row
  /\ UNCHANGED <<Disk, result>>

\* Mutant of Deadline: the loop has no deadline of its own.
WaitForever(p) ==
  /\ FALSE
  /\ UNCHANGED vars

\* A pass that finds the database busy ten seconds after the first one.  The
\* passes before the deadline sleep and change nothing.
Deadline(p) ==
  /\ ~foreign
  /\ tx # NoOne
  /\ Goto(p, "begin", "close")
  /\ result' = [result EXCEPT ![p] = "busy"]
  /\ UNCHANGED <<Disk, tx, txRow>>

\* Mutant of Identify: the owner receipt is committed before the callback runs.
IdentifyAndCommit(p) ==
  /\ Goto(p, "identity", "callback")
  /\ txRow' = [workspace |-> Subject[p], owner |-> p]
  /\ row' = txRow'
  /\ tx' = NoOne
  /\ UNCHANGED <<made, file, foreign, result>>

\* The row belongs to another subject: IDENTITY_CONFLICT, before the callback.
\* Otherwise the upsert makes p the row's owner and the callback starts.
Identify(p) ==
  /\ \/ /\ txRow # NoRow
        /\ txRow.workspace # Subject[p]
        /\ Goto(p, "identity", "rollback")
        /\ result' = [result EXCEPT ![p] = "identity_conflict"]
        /\ UNCHANGED txRow
     \/ /\ txRow # NoRow => txRow.workspace = Subject[p]
        /\ Goto(p, "identity", "callback")
        /\ txRow' = [workspace |-> IF txRow = NoRow THEN Subject[p]
                                   ELSE txRow.workspace,
                     owner |-> p]
        /\ UNCHANGED result
  /\ UNCHANGED <<Disk, tx>>
------------------------------------------------------------------------------
\* The callback resolves and the owner column is set to 'null'.
CallbackReturns(p) ==
  /\ Goto(p, "callback", "commit")
  /\ txRow' = [txRow EXCEPT !.owner = NoOne]
  /\ UNCHANGED <<Disk, tx, result>>

\* The callback rejects: its error passes through the finally block.
CallbackThrows(p) ==
  /\ Goto(p, "callback", "rollback")
  /\ result' = [result EXCEPT ![p] = "callback_failed"]
  /\ UNCHANGED <<Disk, tx, txRow>>

\* COMMIT ends the transaction and makes the row durable.
Commit(p) ==
  /\ Goto(p, "commit", "close")
  /\ row' = txRow
  /\ tx' = NoOne
  /\ result' = [result EXCEPT ![p] = "ok"]
  /\ UNCHANGED <<made, file, foreign, txRow>>

\* COMMIT needs the exclusive lock and the busy timeout is 0: a contender inside
\* its own BEGIN IMMEDIATE holds the shared lock and can make it fail.  The
\* transaction is still open, so the finally block rolls it back.
CommitFails(p) ==
  /\ \E q \in Proc \ {p} : pc[q] = "begin"
  /\ Goto(p, "commit", "rollback")
  /\ result' = [result EXCEPT ![p] = "commit_failed"]
  /\ UNCHANGED <<Disk, tx, txRow>>

\* if (held) ROLLBACK
Rollback(p) ==
  /\ Goto(p, "rollback", "close")
  /\ tx' = NoOne
  /\ txRow' = row
  /\ UNCHANGED <<Disk, result>>

\* db.close(); check(root): a foreign entry turns even a committed call into
\* a failure.
Close(p) ==
  /\ Goto(p, "close", "idle")
  /\ result' = IF foreign THEN [result EXCEPT ![p] = "unsafe"] ELSE result
  /\ UNCHANGED <<Disk, tx, txRow>>

\* The process dies: the operating system drops its locks and the next opener
\* rolls the hot journal back.
Crash(p) ==
  /\ pc[p] # "idle"
  /\ pc' = [pc EXCEPT ![p] = "idle"]
  /\ result' = [result EXCEPT ![p] = "none"]
  /\ IF tx = p THEN tx' = NoOne /\ txRow' = row ELSE UNCHANGED <<tx, txRow>>
  /\ UNCHANGED Disk

\* Something other than this code leaves an entry in the root, or removes it.
Intrude ==
  /\ made
  /\ foreign' = ~foreign
  /\ UNCHANGED <<made, file, row, tx, txRow, pc, result>>
------------------------------------------------------------------------------
\* The callback is the caller's; everything else is lease()'s own code.
OwnStep(p) ==
  \/ MakeRoot(p)
  \/ InspectRoot(p)
  \/ CreateDatabase(p)
  \/ RefuseRoot(p)
  \/ BeginImmediate(p)
  \/ Deadline(p)
  \/ Identify(p)
  \/ Commit(p)
  \/ CommitFails(p)
  \/ Rollback(p)
  \/ Close(p)

Next ==
  \/ \E p \in Proc :
       \/ Call(p)
       \/ OwnStep(p)
       \/ CallbackReturns(p)
       \/ CallbackThrows(p)
       \/ Crash(p)
  \/ Intrude

Spec == Init /\ [][Next]_vars

\* Node runs a process that is not blocked, and the retry loop's sleep and
\* deadline are timers.  Nothing is assumed of the callback, which may never
\* settle, nor of callers, crashes and intruders.
Fairness == \A p \in Proc : WF_vars(OwnStep(p))

FairSpec == Spec /\ Fairness
------------------------------------------------------------------------------
(* Two processes are never inside their callbacks together, however calls,
   failures and deaths interleave (lock.ts: "A real SQLite write transaction
   is the process-death-safe lease"). *)
MutualExclusion ==
  \A p, q \in Proc : pc[p] = "callback" /\ pc[q] = "callback" => p = q

(* The owner that the upsert writes is never durable: a committed row always
   has owner 'null', so a holder that died leaves no receipt that a later
   process could mistake for a live owner ("not an advisory PID receipt"). *)
NoDurableOwner == row # NoRow => row.owner = NoOne

(* Once a call has committed, only processes of that subject reach their
   callbacks: a coordination root is never shared by two workspaces. *)
OneSubject ==
  \A p \in Proc :
    pc[p] \in {"callback", "commit"} /\ row # NoRow => row.workspace = Subject[p]

(* Whoever is in its callback is there alone, for the one subject of this root, and
   what a death leaves behind names nobody. *)
OneHolder == MutualExclusion /\ NoDurableOwner /\ OneSubject

(* Liveness.  A process that waits for the lease is not held up by a holder
   whose callback never settles: it gets the lease or gives up. *)
NoWaiterStuck ==
  \A p \in Proc : pc[p] = "begin" ~> pc[p] \in {"idle", "callback"}
------------------------------------------------------------------------------
\* The process inside its callback is the holder of the abstract lease.
Inside == {p \in Proc : pc[p] = "callback"}
HolderOf == IF Inside = {} THEN NoOne ELSE CHOOSE p \in Inside : TRUE

Abstract == INSTANCE Lease WITH holder <- HolderOf

(* The code implements the abstract lease. *)
ImplementsLease == Abstract!LeaseSpec
==============================================================================
