----------------------------- MODULE Maintenance -----------------------------
(***************************************************************************)
(* Backup, restore and migration of a stopped workspace                    *)
(* (integration/workspace/maintenance.ts and maintenance-stream.ts): a     *)
(* journal per request, a manifest that pins the source, a copy that an    *)
(* interrupted request resumes, and a verification before the journal says *)
(* VERIFIED.  The maintenance lease admits one request at a time; a        *)
(* process that dies gives it up, and the same request can be made again.  *)
(*                                                                         *)
(* Two roots are copied: the project, with the identity file and one other *)
(* file, and the state, with one file.  A file is the version of its bytes.*)
(* Only the operator edits or loses the origin; nothing else writes into a *)
(* destination.  What the three owners add to a migrated state is left out.*)
(***************************************************************************)
EXTENDS Naturals

CONSTANTS
  Requests,     \* request ids
  Op,           \* their operations: [Requests -> Operations]
  ReadOnly,     \* files without write permission
  None,         \* no request, journal, manifest or staging directory
  MaxVersion,   \* bound: versions of the origin's files
  MaxFailures   \* bound: crashes and failed file operations

Operations == {"backup", "restore", "migrate"}
Locations == {"origin", "backup", "elsewhere"}
Files == {"identity", "body", "state"}
Roots == {"project", "state"}

VARIABLES
  tree,       \* the version of each file at each location, or Absent
  stage,      \* the .evopilot-copy-<id> directory in each root, or None
  published,  \* manifest.json of the backup, or None
  litter,     \* the backup has a left over manifest.json.pending-*
  known,      \* manifests in known-backups
  journal,    \* requests/<id>.json of each request, or None
  run,        \* the request that is running, or None
  mem,        \* its journal in memory
  pc,         \* where it is
  at,         \* the file it is at, a position of Order
  inv,        \* the inventory it takes
  past,       \* auxiliary: the trees the origin has been
  failures    \* bound counter

disk == <<tree, stage, published, litter, known>>
proc == <<run, mem, pc, at, inv>>
vars == <<disk, journal, proc, past, failures>>

Absent == 0
Torn == MaxVersion + 1     \* bytes of two versions
Versions == 1..MaxVersion
Pins == [Files -> Absent..MaxVersion]
Manifests == [by : Requests, pin : Pins]

\* A staging directory holds at most one file, the next one to be placed.
Stages == [by : Requests, file : {"none", "part", "full", "sealed"}, of : Absent..Torn]

Journals == [status : {"PREPARED", "COPYING", "VERIFYING", "VERIFIED", "INTERRUPTED"},
             manifest : Manifests \cup {None}, copied : BOOLEAN]

ASSUME MaintenanceAssumption ==
  /\ Op \in [Requests -> Operations]
  /\ ReadOnly \subseteq Files
  /\ MaxVersion \in Nat \ {0}
  /\ MaxFailures \in Nat
  /\ None \notin Requests \cup Manifests \cup Stages \cup Journals

Places == {"idle", "inventory", "recheck", "drift", "load", "copying", "open", "copy",
           "fill", "seal", "place", "close", "manifest", "publish", "copied", "redrift",
           "index", "verify"}

TypeOK ==
  /\ tree \in [Locations -> [Files -> Absent..Torn]]
  /\ stage \in [Locations -> [Roots -> Stages \cup {None}]]
  /\ published \in Manifests \cup {None}
  /\ litter \in BOOLEAN
  /\ known \subseteq Manifests
  /\ journal \in [Requests -> Journals \cup {None}]
  /\ run \in Requests \cup {None}
  /\ mem \in Journals \cup {None}
  /\ pc \in Places
  /\ at \in 1..3
  /\ inv \in Pins
  /\ past \subseteq Pins
  /\ failures \in 0..MaxFailures

Root(f) == IF f = "state" THEN "state" ELSE "project"

\* Mutant of Order: plain name order.
OrderByName == <<"body", "identity", "state">>

\* The order of the copy: the project before the state, identity files first.
Order == <<"identity", "body", "state">>

File == Order[at]
Source == IF Op[run] = "restore" THEN "backup" ELSE "origin"
Target(q) == CASE Op[q] = "backup" -> "backup"
               [] Op[q] = "restore" -> "origin"
               [] Op[q] = "migrate" -> "elsewhere"
Staged == stage[Target(run)][Root(File)]
Pin == mem.manifest.pin
NoFiles == [f \in Files |-> Absent]
------------------------------------------------------------------------------
Init ==
  /\ tree = [l \in Locations |-> [f \in Files |-> IF l = "origin" THEN 1 ELSE Absent]]
  /\ stage = [l \in Locations |-> [r \in Roots |-> None]]
  /\ published = None
  /\ litter = FALSE
  /\ known = {}
  /\ journal = [q \in Requests |-> None]
  /\ run = None
  /\ mem = None
  /\ pc = "idle"
  /\ at = 1
  /\ inv = NoFiles
  /\ past = {tree["origin"]}
  /\ failures = 0

Idle == run' = None /\ mem' = None /\ pc' = "idle" /\ at' = 1 /\ inv' = NoFiles

\* save(journalPath, journal): a temporary file is renamed over the journal.
Save(j) == mem' = j /\ journal' = [journal EXCEPT ![run] = j]

\* catch: the journal in memory is saved as INTERRUPTED and the error rethrown.
Interrupt ==
  /\ journal' = [journal EXCEPT ![run] = [mem EXCEPT !.status = "INTERRUPTED"]]
  /\ Idle

\* The request goes on at a place, with a file.
Goto(to, i) == pc' = to /\ at' = i /\ UNCHANGED run

Unstaged(l) == \A r \in Roots : stage[l][r] = None

\* ensureEmpty of the destination roots.
IsEmpty(l) ==
  /\ tree[l] = NoFiles
  /\ Unstaged(l)
  /\ l = "backup" => published = None /\ ~litter

\* loadConfiguration with the restore's request id: the project is missing or
\* empty, has its identity file, or holds nothing but q's own staging directory
\* with private files, under a journal that may resume.
Restorable(q) ==
  LET s == stage["origin"]["project"]
      bare == tree["origin"]["identity"] = Absent /\ tree["origin"]["body"] = Absent
  IN  \/ bare /\ s = None
      \/ tree["origin"]["identity"] # Absent
      \/ /\ bare /\ s # None /\ s.by = q
         /\ journal[q] # None
         /\ journal[q].status \in {"COPYING", "INTERRUPTED"}
         /\ ~journal[q].copied
         /\ ~(s.file = "sealed" /\ "identity" \in ReadOnly)

\* validateContext.  A workspace whose restore is unfinished is not backed up.
Admitted(q) ==
  IF Op[q] = "restore" THEN Restorable(q)
  ELSE Unstaged("origin") /\ \A f \in Files : tree["origin"][f] # Absent

New == [status |-> "PREPARED", manifest |-> None, copied |-> FALSE]

\* The request's journal j is in memory: pin the source or compare it.
Enter(q, j) ==
  /\ run' = q
  /\ mem' = j
  /\ pc' = IF Op[q] = "restore" THEN "load"
           ELSE IF j.manifest = None THEN "inventory" ELSE "drift"
  /\ at' = 1
  /\ journal' = [journal EXCEPT ![q] = j]

\* maintainWorkspace: a new request needs an empty destination, a journal is
\* resumed, and a VERIFIED one only returns its result.
Begin(q) ==
  /\ run = None
  /\ Admitted(q)
  /\ \/ journal[q] = None /\ IsEmpty(Target(q)) /\ Enter(q, New)
     \/ journal[q] # None /\ journal[q].status # "VERIFIED" /\ Enter(q, journal[q])
  /\ UNCHANGED <<disk, inv, past, failures>>

\* inspectMaintenanceTree: a tree is read file by file.
Inspect == inv' = [inv EXCEPT ![File] = tree["origin"][File]]

\* manifest: the first inventory of both roots.
Inventory ==
  /\ pc = "inventory"
  /\ Inspect
  /\ IF at < 3 THEN Goto("inventory", at + 1) ELSE Goto("recheck", 1)
  /\ UNCHANGED <<disk, journal, mem, past, failures>>

\* Mutant of Recheck: the first inventory is trusted.
RecheckNothing ==
  /\ pc = "recheck"
  /\ Save([mem EXCEPT !.manifest = [by |-> run, pin |-> inv]])
  /\ Goto("drift", 1)
  /\ UNCHANGED <<disk, inv, past, failures>>

\* The second one: SOURCE_CHANGED, or the manifest is saved in the journal.
Recheck ==
  /\ pc = "recheck"
  /\ \/ tree["origin"][File] # inv[File] /\ Interrupt
     \/ /\ tree["origin"][File] = inv[File]
        /\ at < 3
        /\ Goto("recheck", at + 1)
        /\ UNCHANGED <<journal, mem, inv>>
     \/ /\ tree["origin"][File] = inv[File]
        /\ at = 3
        /\ Save([mem EXCEPT !.manifest = [by |-> run, pin |-> inv]])
        /\ Goto("drift", 1)
        /\ UNCHANGED inv
  /\ UNCHANGED <<disk, past, failures>>

\* unchangedSource, before the copy and after it.
Drift ==
  /\ pc \in {"drift", "redrift"}
  /\ \/ tree["origin"][File] # Pin[File] /\ Interrupt
     \/ /\ tree["origin"][File] = Pin[File]
        /\ IF at < 3 THEN Goto(pc, at + 1)
           ELSE Goto(IF pc = "redrift" THEN (IF Op[run] = "backup" THEN "index" ELSE "verify")
                     ELSE IF mem.copied THEN "redrift" ELSE "copying", 1)
        /\ UNCHANGED <<journal, mem, inv>>
  /\ UNCHANGED <<disk, past, failures>>

\* loadBackup: the published manifest is indexed and the backup holds exactly it.
Loadable ==
  /\ published # None
  /\ published \in known
  /\ ~litter
  /\ Unstaged("backup")
  /\ tree["backup"] = published.pin

\* A restore loads the backup and compares it with what its journal pinned.
Load ==
  /\ pc = "load"
  /\ IF Loadable /\ mem.manifest \in {None, published}
     THEN /\ Save([mem EXCEPT !.manifest = published])
          /\ Goto(IF mem.copied THEN "verify" ELSE "copying", 1)
          /\ UNCHANGED inv
     ELSE Interrupt
  /\ UNCHANGED <<disk, past, failures>>
------------------------------------------------------------------------------
(* copyInventory and copyMaintenanceFile. *)

BeginCopy ==
  /\ pc = "copying"
  /\ Save([mem EXCEPT !.status = "COPYING"])
  /\ Goto("open", 1)
  /\ UNCHANGED <<disk, inv, past, failures>>

\* The staging directory s is another request's.
Foreign(q, s) == s # None /\ s.by # q

\* Every entry is a pinned one or this request's own staging directory.
OpenStage ==
  LET t == Target(run)  r == Root(File)
  IN  /\ pc = "open"
      /\ IF /\ \A f \in Files : Root(f) = r => tree[t][f] \in {Absent, Pin[f]}
            /\ ~Foreign(run, stage[t][r])
         THEN /\ stage' = IF stage[t][r] = None
                          THEN [stage EXCEPT ![t][r] =
                                  [by |-> run, file |-> "none", of |-> Absent]]
                          ELSE stage
              /\ Goto("copy", at)
              /\ UNCHANGED <<journal, mem, inv>>
         ELSE Interrupt /\ UNCHANGED stage
      /\ UNCHANGED <<tree, published, litter, known, past, failures>>

\* On to the next file of the root, or out of the root.
Onward ==
  IF at < 3 /\ Root(Order[at + 1]) = Root(File) THEN Goto("copy", at + 1) ELSE Goto("close", at)

\* A file that is there is skipped.  Otherwise the staged file is created, or
\* the prefix that is there is compared with the source and opened for writing,
\* which its mode forbids once it has been given to a read-only file.
Copy ==
  LET t == Target(run)  now == tree[Source][File]
  IN  /\ pc = "copy"
      /\ \/ /\ tree[t][File] # Absent
            /\ Onward
            /\ UNCHANGED <<stage, journal, mem, inv>>
         \/ /\ tree[t][File] = Absent
            /\ Staged.file = "none"
            /\ stage' = [stage EXCEPT ![t][Root(File)].file = "part", ![t][Root(File)].of = now]
            /\ Goto("fill", at)
            /\ UNCHANGED <<journal, mem, inv>>
         \/ /\ tree[t][File] = Absent
            /\ Staged.file # "none"
            /\ Staged.of = now
            /\ ~(Staged.file = "sealed" /\ File \in ReadOnly)
            /\ Goto("fill", at)
            /\ UNCHANGED <<stage, journal, mem, inv>>
         \/ /\ tree[t][File] = Absent
            /\ Staged.file # "none"
            /\ Staged.of # now \/ (Staged.file = "sealed" /\ File \in ReadOnly)
            /\ Interrupt
            /\ UNCHANGED stage
      /\ UNCHANGED <<tree, published, litter, known, past, failures>>

\* The staged file gets a state and a content.
Put(state, content) ==
  stage' = [stage EXCEPT ![Target(run)][Root(File)] =
              [by |-> run, file |-> state, of |-> content]]

\* The rest of the source is written after the prefix.
Fill ==
  /\ pc = "fill"
  /\ Put("full", IF Staged.of = tree[Source][File] THEN Staged.of ELSE Torn)
  /\ Goto("seal", at)
  /\ UNCHANGED <<tree, published, litter, known, journal, mem, inv, past, failures>>

\* fsync, and the mode of the manifest's entry.
Seal ==
  /\ pc = "seal"
  /\ Put("sealed", Staged.of)
  /\ Goto("place", at)
  /\ UNCHANGED <<tree, published, litter, known, journal, mem, inv, past, failures>>

\* The source is unchanged, the staged bytes hash to the pin: rename.
Place ==
  /\ pc = "place"
  /\ IF Staged.of = Pin[File] /\ tree[Source][File] = Staged.of
     THEN /\ tree' = [tree EXCEPT ![Target(run)][File] = Staged.of]
          /\ Put("none", Absent)
          /\ past' = past \cup {tree'["origin"]}
          /\ Onward
          /\ UNCHANGED <<journal, mem, inv>>
     ELSE Interrupt /\ UNCHANGED <<tree, stage, past>>
  /\ UNCHANGED <<published, litter, known, failures>>

\* The staging directory is removed and the root's inventory compared.
CloseStage ==
  LET t == Target(run)  r == Root(File)
  IN  /\ pc = "close"
      /\ stage' = [stage EXCEPT ![t][r] = None]
      /\ IF \A f \in Files : Root(f) = r => tree[t][f] = Pin[f]
         THEN /\ (IF at < 3 THEN Goto("open", 3)
                  ELSE Goto(IF Op[run] = "backup" THEN "manifest" ELSE "copied", 1))
              /\ UNCHANGED <<journal, mem, inv>>
         ELSE Interrupt
      /\ UNCHANGED <<tree, published, litter, known, past, failures>>
------------------------------------------------------------------------------
\* Mutant of WriteManifest: an existing manifest is replaced.
WriteManifestOver ==
  /\ pc = "manifest"
  /\ Goto("publish", 1)
  /\ UNCHANGED <<disk, journal, mem, inv, past, failures>>

\* save(manifest.json, saved, false): an existing one has the same bytes, or
\* MAINTENANCE_CONFLICT; otherwise its temporary file is written.
WriteManifest ==
  /\ pc = "manifest"
  /\ IF published = None \/ published = mem.manifest
     THEN /\ Goto(IF published = None THEN "publish" ELSE "copied", 1)
          /\ UNCHANGED <<journal, mem, inv>>
     ELSE Interrupt
  /\ UNCHANGED <<disk, past, failures>>

\* ... and renamed.
PublishManifest ==
  /\ pc = "publish"
  /\ published' = mem.manifest
  /\ Goto("copied", 1)
  /\ UNCHANGED <<tree, stage, litter, known, journal, mem, inv, past, failures>>

Copied ==
  /\ pc = "copied"
  /\ Save([mem EXCEPT !.copied = TRUE, !.status = "VERIFYING"])
  /\ Goto(IF Op[run] = "restore" THEN "verify" ELSE "redrift", 1)
  /\ UNCHANGED <<disk, inv, past, failures>>

\* The index of known backups gets the manifest.
Index ==
  /\ pc = "index"
  /\ known' = known \cup {mem.manifest}
  /\ Goto("verify", 1)
  /\ UNCHANGED <<tree, stage, published, litter, journal, mem, inv, past, failures>>

\* Mutant of Verify: the copy is trusted.
VerifyNothing ==
  /\ pc = "verify"
  /\ journal' = [journal EXCEPT ![run] = [mem EXCEPT !.status = "VERIFIED"]]
  /\ Idle
  /\ UNCHANGED <<disk, past, failures>>

\* A backup is loaded; the other destinations are compared with the manifest.
Verify ==
  /\ pc = "verify"
  /\ IF IF Op[run] = "backup" THEN Loadable
        ELSE tree[Target(run)] = Pin /\ Unstaged(Target(run))
     THEN /\ journal' = [journal EXCEPT ![run] = [mem EXCEPT !.status = "VERIFIED"]]
          /\ Idle
     ELSE Interrupt
  /\ UNCHANGED <<disk, past, failures>>
------------------------------------------------------------------------------
\* A file operation fails.  save unlinks its temporary file.
OperationFails ==
  /\ run # None
  /\ failures < MaxFailures
  /\ failures' = failures + 1
  /\ Interrupt
  /\ UNCHANGED <<disk, past>>

\* The process dies; a manifest that was not renamed stays a temporary file.
Crash ==
  /\ run # None
  /\ failures < MaxFailures
  /\ failures' = failures + 1
  /\ litter' = (litter \/ pc = "publish")
  /\ Idle
  /\ UNCHANGED <<tree, stage, published, known, journal, past>>

\* The operator saves new bytes in a file of the origin.
Edit(f) ==
  LET new == [tree["origin"] EXCEPT ![f] = @ + 1]
  IN  /\ tree["origin"][f] \in 1..(MaxVersion - 1)
      /\ \A p \in past : p[f] < new[f]
      /\ tree' = [tree EXCEPT !["origin"] = new]
      /\ past' = past \cup {new}
      /\ UNCHANGED <<stage, published, litter, known, journal, proc, failures>>

\* The origin is lost, or moved away before a restore.
LoseOrigin ==
  /\ run = None
  /\ tree["origin"] # NoFiles
  /\ tree' = [tree EXCEPT !["origin"] = NoFiles]
  /\ stage' = [stage EXCEPT !["origin"] = [r \in Roots |-> None]]
  /\ UNCHANGED <<published, litter, known, journal, proc, past, failures>>

Step ==
  \/ Inventory \/ Recheck \/ Drift \/ Load
  \/ BeginCopy \/ OpenStage \/ Copy \/ Fill \/ Seal \/ Place \/ CloseStage
  \/ WriteManifest \/ PublishManifest \/ Copied \/ Index \/ Verify

Next ==
  \/ \E q \in Requests : Begin(q)
  \/ Step
  \/ OperationFails \/ Crash
  \/ \E f \in Files : Edit(f)
  \/ LoseOrigin

Spec == Init /\ [][Next]_vars

\* The process runs, and a request is made again until it is VERIFIED, whatever
\* other requests are made in between.
FairSpec == Spec /\ WF_vars(Step) /\ \A q \in Requests : SF_vars(Begin(q))
------------------------------------------------------------------------------
Pinned(q) == journal[q] # None /\ journal[q].manifest # None
Verified(q) == journal[q] # None /\ journal[q].status = "VERIFIED"

(* A manifest pins bytes that both roots had at the same moment, though the
   inventory reads one file after another while the operator edits them. *)
SnapshotExisted ==
  \A q \in Requests : Pinned(q) => journal[q].manifest.pin \in past

(* A backup that was reported VERIFIED keeps its manifest, its index entry and
   every pinned byte: no failure, crash or later request for the same destination
   spoils it.  (A request that was interrupted before its copy may still leave
   its own staging directory there; the backup does not load until it resumes.) *)
BackupStaysWhole ==
  \A q \in Requests :
    Verified(q) /\ Op[q] = "backup" =>
      /\ published = journal[q].manifest
      /\ published \in known
      /\ ~litter
      /\ tree["backup"] = published.pin

(* VERIFIED is reported only when the destination holds exactly the pinned
   bytes, in every root, with no staging left. *)
VerifiedMeansWhole ==
  [][\A q \in Requests :
       ~Verified(q) /\ Verified(q)' =>
         /\ tree[Target(q)] = journal'[q].manifest.pin
         /\ Unstaged(Target(q))]_vars

(* A request that resumes never copies bytes of a second snapshot over those of
   the first: what its journal pinned is final, and so is VERIFIED. *)
PinIsFinal ==
  [][\A q \in Requests :
       /\ Pinned(q) => Pinned(q)' /\ journal'[q].manifest = journal[q].manifest
       /\ Verified(q) => journal'[q] = journal[q]]_vars

(* VERIFIED is true where it is reported, of the one snapshot that the request pinned
   when it was made first. *)
VerifiedForGood == VerifiedMeansWhole /\ PinIsFinal

\* The source, or what a restore finds in its place, is not the pinned one, or
\* another request owns the destination: the code means to refuse.
Refused(q) ==
  LET source == IF Op[q] = "restore" THEN "backup" ELSE "origin"
      t == Target(q)
  IN  \/ IF Pinned(q)
         THEN \/ tree[source] # journal[q].manifest.pin
              \/ journal[q].copied /\ tree[t] # journal[q].manifest.pin
              \/ \E f \in Files : tree[t][f] \notin {Absent, journal[q].manifest.pin[f]}
         ELSE ~IsEmpty(t)
      \/ \E r \in Roots : Foreign(q, stage[t][r])
      \/ Op[q] = "backup" /\ published # None /\ published.by # q
      \/ Op[q] = "restore" /\ ~Loadable
      \/ Op[q] # "restore" /\ tree["origin"] = NoFiles

\* What an interruption can leave that the code does not resume from.
Spoiled(q) ==
  \/ litter
  \/ \E l \in Locations, r \in Roots, f \in ReadOnly :
       stage[l][r] # None /\ stage[l][r].file = "sealed" /\ r = Root(f)

(* Liveness.  An interrupted request that is made again resumes and ends
   VERIFIED, unless its source or destination changed. *)
Resumes ==
  \A q \in Requests :
    journal[q] # None ~> Verified(q) \/ Refused(q) \/ Spoiled(q)

(* preflight-maintenance.md: "Crash recovery verifies existing files and partial
   prefixes against the unchanged source before resuming". *)
CrashRecoveryResumes ==
  \A q \in Requests :
    journal[q] # None ~> Verified(q) \/ Refused(q)
==============================================================================
