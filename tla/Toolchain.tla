----------------------------- MODULE Toolchain -----------------------------
(***************************************************************************)
(* integration/toolchain: the journal of preparations (preparation.ts) and *)
(* the preparation itself (locked.ts): locked artifacts are downloaded     *)
(* into a cache and unpacked into an environment of their own.  A          *)
(* preparation runs under the Workspace's maintenance lease and goes on    *)
(* after its request has been answered.                                    *)
(***************************************************************************)
EXTENDS Naturals

CONSTANTS
  Adapters, Preparations, Free,
  Downloads      \* the number of artifacts in the lock, fetched in its order

ASSUME ToolchainAssumption == Free \notin Adapters /\ Downloads \in Nat

VARIABLES
  ledger,       \* per request id the status in its record: "none", "RUNNING", ...
  litter,       \* temporary files of save() in the journal's directory
  cached,       \* how many of them are whole in the cache
  partial,      \* the next one is there under its final name, but not all of it
  environment,  \* the installed root: "none", "partial", "whole"
  holder,       \* who holds the maintenance lease
  task          \* per adapter where its preparation is

cache == <<cached, partial>>
toolchainVars == <<ledger, litter, cache, environment, holder, task>>

Idling == [at |-> "idle"]
------------------------------------------------------------------------------
ToolchainInit ==
  /\ ledger = [r \in Preparations |-> "none"]
  /\ litter = {}
  /\ cached = 0 /\ partial = FALSE
  /\ environment = "none"
  /\ holder = Free
  /\ task = [p \in Adapters |-> Idling]

TaskAt(p, where) == task' = [task EXCEPT ![p].at = where]
TaskOwns(p, where, owns) ==
  task' = [task EXCEPT ![p] = [at |-> where, id |-> @.id, status |-> @.status, owns |-> owns]]
TaskEnds(p, status) ==
  task' = [task EXCEPT ![p] = [at |-> "save", id |-> @.id, status |-> status, owns |-> @.owns]]

\* records() refuses a directory with any file that is not a record.
Readable == litter = {}
Uncertain == \E r \in Preparations : ledger[r] = "RUNNING"

\* The checks before the lease; a request that has a record is answered from it.
Request(p, r) ==
  /\ task[p] = Idling
  /\ Readable /\ ledger[r] = "none" /\ ~Uncertain
  /\ task' = [task EXCEPT ![p] = [at |-> "lease", id |-> r, status |-> "RUNNING", owns |-> FALSE]]
  /\ UNCHANGED <<ledger, litter, cache, environment, holder>>

\* Mutant of Admit: the journal was read before the lease was taken.
AdmitUnread(p) ==
  /\ task[p].at = "lease" /\ holder = Free
  /\ holder' = p /\ TaskAt(p, "save") /\ UNCHANGED <<ledger, litter, cache, environment>>

\* Under the lease the journal is read again, before this request is admitted.
Admit(p) ==
  /\ task[p].at = "lease" /\ holder = Free
  /\ IF Readable /\ ~Uncertain /\ ledger[task[p].id] = "none"
     THEN holder' = p /\ TaskAt(p, "save")
     ELSE task' = [task EXCEPT ![p] = Idling] /\ UNCHANGED holder
  /\ UNCHANGED <<ledger, litter, cache, environment>>

\* save(): a temporary file in the directory of the records ...
SaveTemporary(p) ==
  /\ task[p].at = "save"
  /\ litter' = litter \cup {task[p].id}
  /\ TaskAt(p, "rename")
  /\ UNCHANGED <<ledger, cache, environment, holder>>

\* ... renamed to the record; after the first one the preparation begins, after the
\* second one the lease is released.
SaveRecord(p) ==
  /\ task[p].at = "rename"
  /\ ledger' = [ledger EXCEPT ![task[p].id] = task[p].status]
  /\ litter' = litter \ {task[p].id}
  /\ IF task[p].status = "RUNNING" THEN TaskAt(p, "download") /\ UNCHANGED holder
     ELSE task' = [task EXCEPT ![p] = Idling] /\ holder' = Free
  /\ UNCHANGED <<cache, environment>>
------------------------------------------------------------------------------
\* download(): what is in the cache has to be whole; a body that is complete and has
\* the locked digest is written, under its final name.
Fetch(p) ==
  /\ task[p].at = "download" /\ cached < Downloads
  /\ \/ ~partial /\ partial' = TRUE /\ TaskAt(p, "write")
     \/ TaskEnds(p, "FAILED") /\ UNCHANGED partial
  /\ UNCHANGED <<ledger, litter, cached, environment, holder>>

\* writeFileSync ends, or fails on a full disk, with what it has written as it is.
Write(p) ==
  /\ task[p].at = "write"
  /\ \/ cached' = cached + 1 /\ partial' = FALSE /\ TaskAt(p, "download")
     \/ TaskEnds(p, "FAILED") /\ UNCHANGED cache
  /\ UNCHANGED <<ledger, litter, environment, holder>>

\* An environment that is there is inspected, never repaired; otherwise its root is
\* made, and from then on it is this preparation's to remove.
Unpack(p) ==
  /\ task[p].at = "download" /\ cached = Downloads
  /\ IF environment # "none"
     THEN TaskOwns(p, "inspect", FALSE) /\ UNCHANGED environment
     ELSE \/ environment' = "partial" /\ TaskOwns(p, "build", TRUE)
          \/ TaskEnds(p, "FAILED") /\ UNCHANGED environment
  /\ UNCHANGED <<ledger, litter, cache, holder>>

\* venv and site packages.  Neither has to have made what is expected; a failure removes
\* the owned root.
Build(p) ==
  /\ task[p].at = "build"
  /\ \/ environment' \in {"whole", "partial"} /\ TaskAt(p, "inspect")
     \/ environment' = "none" /\ TaskEnds(p, "FAILED")
  /\ UNCHANGED <<ledger, litter, cache, holder>>

\* expectedFiles(): read from the artifacts in the cache, every one of which is whole.
Expected == cached = Downloads

\* inspectNativeToolchain(): the environment has exactly these files, whatever it says of
\* itself.
Inspect(p) ==
  /\ task[p].at = "inspect"
  /\ IF Expected /\ environment = "whole" THEN TaskEnds(p, "SUCCEEDED") /\ UNCHANGED environment
     ELSE TaskEnds(p, "FAILED") /\ environment' = IF task[p].owns THEN "none" ELSE environment
  /\ UNCHANGED <<ledger, litter, cache, holder>>

\* The adapter's process dies, with whatever it was writing as it is.
AdapterDies(p) ==
  /\ task[p] # Idling
  /\ task' = [task EXCEPT ![p] = Idling]
  /\ holder' = IF holder = p THEN Free ELSE holder
  /\ UNCHANGED <<ledger, litter, cache, environment>>

ToolchainNext ==
  \E p \in Adapters :
    \/ \E r \in Preparations : Request(p, r)
    \/ Admit(p) \/ SaveTemporary(p) \/ SaveRecord(p)
    \/ Fetch(p) \/ Write(p) \/ Unpack(p) \/ Build(p) \/ Inspect(p) \/ AdapterDies(p)

ToolchainSpec == ToolchainInit /\ [][ToolchainNext]_toolchainVars
------------------------------------------------------------------------------
ToolchainTypeOK ==
  /\ ledger \in [Preparations -> {"none", "RUNNING", "SUCCEEDED", "FAILED"}]
  /\ litter \subseteq Preparations
  /\ cached \in 0..Downloads /\ partial \in BOOLEAN
  /\ environment \in {"none", "partial", "whole"}
  /\ holder \in Adapters \cup {Free}
  /\ \A p \in Adapters :
       task[p].at \in {"idle", "lease", "save", "rename", "download", "write", "build", "inspect"}

(* A preparation whose process is gone stays uncertain for good: there is one RUNNING
   record at most, and while there is one nobody but the process that wrote it works on
   the cache or the environment. *)
UncertainNotRetried ==
  /\ \A r, s \in Preparations : ledger[r] = "RUNNING" /\ ledger[s] = "RUNNING" => r = s
  /\ \A p \in Adapters : task[p].at \in {"download", "write", "build", "inspect"} => ledger[task[p].id] = "RUNNING"

(* What a record calls prepared is the whole environment from the whole cache. *)
SucceededIsWhole ==
  \A r \in Preparations :
    ledger[r] = "SUCCEEDED" => environment = "whole" /\ cached = Downloads

(* What the journal says of preparations stands: of the one that may still go on, and of
   those that have ended.  It says nothing of the cache, in which a preparation that ended
   may have left a part of a file: NoPartialCached. *)
PreparationsStand == UncertainNotRetried /\ SucceededIsWhole

(* docs/native-toolchain.md: "After a terminal `FAILED`, an explicitly authorized new
   request can reuse only complete hash-verified downloads.  No partial artifact is
   cached."  When every preparation that was recorded has ended, the cache holds no file
   that is not whole.  It does not hold: a write that fails leaves one under its final
   name. *)
NoPartialCached == (\A r \in Preparations : ledger[r] # "RUNNING") => ~partial
==============================================================================
