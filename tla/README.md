# EvoPilot: a TLA+ model of the integration layer

This directory holds TLA+ specifications of EvoPilot's integration layer, the
TLC configurations that check them on small instances and the TLAPS proofs of
what holds for every instance. Paths below are relative to `src/`; `W/` stands
for `integration/workspace/` and `C/` for `integration/connection/`.

EvoPilot is a local tool. Command line processes and a Codex adapter work on
*workspaces*, that is, a project directory for people and a state directory for
the databases of three products (Runtime, Harness, Ontology). There is no
server: all coordination goes through the file system and one SQLite lock per
workspace, between processes that can be killed at any moment, with users who
edit the same files in their editors.

## 1. Inventory

| component | state it keeps | operations | what makes it hard | what must hold |
|---|---|---|---|---|
| workspace and installation lease, `W/lock.ts` | coordination directory, one database row, a SQLite write transaction | `withWorkspaceLease`, `withInstallationLease` | contenders in several processes, deaths, COMMIT that fails, a ten second deadline | mutual exclusion, no durable owner, one subject per directory, no waiter stuck |
| control record, `C/control.ts` | `instance.json`, `recovery.json` | exclusive write, replacing write, removal, recovery | recovery takes no lease; reads, probes and removals interleave | only records of dead or closed daemons go away |
| daemon, `C/daemon.ts` | phase, active requests, closing flag, composition | election, startup, dispatch, stop | several daemons start at once; stop against requests in flight | single writer, no close under a request, stop is final |
| client, `C/client.ts` | operation in progress, what it read | activate, call, stop, recover, `withWorkspaceMaintenance` | time limits against late answers, stale reads | every operation ends; maintenance runs alone |
| configuration gate, `C/config.ts` | none (reads files) | load, validate | a half restored project has to pass once | recovery is let in |
| bootstrap, `W/bootstrap.ts` | setup journal, binding, project files | setup, attach | process death between any two writes, user edits | exact intent resumes, never a different setup |
| template upgrade, `W/upgrade.ts` | plan, marker backup, staging | upgrade | as above, retained plans | user files stay, marker last |
| promotion, `W/native-promotion.ts` | journal, staged tree, archive, receipt | prepare, finish | two renames, deaths between them, editors | never a mixed tree, no edit lost |
| maintenance, `W/maintenance.ts`, `W/maintenance-stream.ts` | journal per request, manifest, index, staged file | backup, restore, migrate | slow copies of changing trees, resumption, shared destinations | VERIFIED is true and stays true |
| projects and campaigns, `W/project.ts`, `W/project-lock.ts`, `W/campaign.ts` | baseline hash chain, campaigns, project lock | bind, accept, campaign, latest | append after a read, COMMIT failing after files were written | one readable chain, answers that are true |
| native project router, `W/native-project.ts` and helpers | plan, frozen scope, folder, material, review | prepare, freeze, materialize, review, verify, promote | checks before an await, user edits, torn records | what is promoted is what a human accepted |
| feedback store and owner, `integration/compatibility/feedback/v1/` | inbox, reviews, receipts, revision | review, propose, decide, deliver | compare-and-swap, replay, a review read before an await | no decision on anything but what was reviewed |
| composition, `integration/composition.ts`, `native-composition.ts` | none of its own; the owners' receipts | resolve, execute, reconcile | several owners updated one after another, lost answers, aborts | one attempt, answers as retained |
| online worker, `integration/online/` | configuration, receipt, launch agent, bounded queue | configure, start, stop, tick, receive | overlapping ticks, stop while draining, full queue, deaths | nothing answered with success is lost, a stop ends |
| evidence collection and response, `integration/collection/`, `integration/response/` | journal, output, outcome, cancel file | collect, inspect, cancel, read evidence | timeout or cancellation against a late result, records that change between reads | a result is whole and of its pins |
| toolchain preparation, `integration/toolchain/` | journal of preparations, cache, environment | prepare, inspect, read archives | RUNNING records left by a death, writes cut short | no preparation beside an uncertain one |
| usability reconstruction, `integration/usability/` | request, phases, volume, receipt, turn journal | execute, cancel, recover, generate | deaths of worker, supervisor and generator | nothing left behind untold; replay agrees with the live rules |
| compatibility contracts, `integration/compatibility/` | none; the pinned shared contract | query and compare page by page; compare behaviours; admit authoring; sync | records and files of evidence change between reads | pages are of one snapshot; controls are found to differ |
| modeling intents, `W/modeling-intent.ts`, `compatibility/v1/decision-evidence.mjs` | none; files of evidence that their owner keeps | assert before every write and every admission | evidence removed, replaced or its source edited between two reads | each step stands on an acceptance of exactly this definition |
| asset consumption, `integration/consumption/` | slots, the minute's count | serve an asset with what it depends on | authorization withdrawn while reading, aborts, time limits | delivered whole and as granted; slots come back |
| acceptance, `expert/core/`, `scripts/verify-local-acceptance.mjs` | none | verify a report and the files it names | a file read for several criteria, changed in between | COMPLETE only with the named evidence |
| Codex adapter, `plugins/codex/server.ts` | line buffer, queue, session | read lines, handle, maintain | chunks of any size, lines too long, maintenance under queued calls | one reply per request, in order |
| managed preview, `scripts/manage-preview.mjs` | program, inventory, root | install, uninstall | user files, deaths, two runs | no user file removed |
| release gate, `scripts/release-gate.mjs` | assets, tag, release | prepare, publish | lost answers, calls carried out after their run has ended | the release is what was decided on |
| artifacts, `scripts/verify-artifacts.mjs`, `assemble-preview.mjs`, `sync-contract.mjs` | report, packages, lock, bundle, vendored contract | verify, assemble, synchronize | sources edited, npm, runs that die | bundled means run as it is |
| expert guides, diagnostics, m0 probes | none | reading, formatting | – | – |

The parts meet in few places. Clients and daemons share the control record and
the sockets. Every client operation that changes the connection, every setup,
upgrade and maintenance holds the workspace lease; a setup takes it within the
installation lease, an upgrade runs in a maintenance and takes the installation lease within that. A daemon does **not** hold the workspace lease
while it serves; it takes it inside a `native_project` request. Maintenance and
promotion work on trees that an editor may change at any moment.

`PROJECT.json` lists every component with its status, and the 40 places at which this
code is exposed to something a unit test hardly reaches, with the property that
watches each.

## 2. Modules

| module | models | notes |
|---|---|---|
| `Lease` | what a lease promises | abstract specification, one variable |
| `WorkspaceLease`, `WorkspaceLeaseProofs` | `W/lock.ts` | implements `Lease` |
| `Connection`, `ConnectionProofs` | `C/control.ts`, `C/daemon.ts`, `C/client.ts` composed | uses the abstract lease as one variable |
| `Promotion`, `PromotionProofs` | `W/native-promotion.ts` | as called by `promote` of `W/native-project.ts` |
| `Maintenance`, `MaintenanceProofs` | `W/maintenance.ts`, `W/maintenance-stream.ts` | the copy engine and its three operations |
| `Installation`, `InstallationProofs` | `W/bootstrap.ts`, `W/upgrade.ts` | setup and upgrade share the project and its marker |
| `Project` | `W/project.ts`, `W/project-lock.ts`, `W/campaign.ts` | the lock is a transaction that may fail at its COMMIT |
| `Candidates` | `W/native-project.ts` | up to the start of a promotion |
| `Intents` | `W/modeling-intent.ts`, `decision-evidence.mjs`, `authoring.mjs` of `usability/v1` and `v2`, and their callers in `W/native-project.ts` | evidence file by file, as it is read |
| `Oracle` | `compatibility/usability/v1/oracle.mjs` | comparison and negative controls |
| `Feedback` | `integration/compatibility/feedback/v1/`, `deliverFeedback` | owner and store composed |
| `Composition` | `integration/composition.ts`, `native-composition.ts` | owners and Runtime external |
| `Online` | `integration/online/` | operator, launch agent, worker |
| `Collection` | `integration/collection/`, `cancelResponse` | adapter, runner, child |
| `Evidence` | `integration/response/evidence.ts` | Runtime external |
| `Toolchain` | `integration/toolchain/preparation.ts`, `locked.ts` | journal and preparation |
| `Archive` | `toolchain/archive.ts`, `archiveEntries` of `verify-artifacts.mjs` | the two readers, block by block |
| `Reconstruction`, `Generation` | `integration/usability/codex-*.ts`, `reconstruction-worker.ts` | one claim; one turn and its replay |
| `Paging` | `compatibility/readability/v1/readability.mjs` | queries and comparisons |
| `Consumption` | `integration/consumption/` | the asset service |
| `Acceptance` | `expert/core/acceptance.ts`, `native-acceptance.ts`, `verify-local-acceptance.mjs` | three verifiers |
| `Adapter` | `plugins/codex/server.ts` | one chat |
| `Preview` | `scripts/manage-preview.mjs` | install and uninstall |
| `Release` | `scripts/release-gate.mjs` | runs of the workflow; the forge external |
| `Artifacts`, `Dependencies`, `Contract`, `Build` | `verify-artifacts.mjs`, `assemble-preview.mjs`, `sync-contract.mjs` | build-time; `Build` puts the three together |
| `ProjectsProofs` | | proofs of `Release`, `Toolchain`, `Project`, `Feedback`, `Candidates`, `Preview` |
| `ServicesProofs` | | proofs of `Online`, `Collection`, `Reconstruction`, `Adapter` |
| `Verdicts` | | `Evidence`, `Acceptance`, `Oracle` and `Intents` together, with what they promise |
| `AssetsProofs` | | proofs of `Composition`, `Consumption`, `Archive`, `Paging`, `Build`, `Generation`, `Verdicts` |
| `MCWorkspaceLease`, `MCConnection`, `MCMaintenance`, `MCInstallation` | | instances of one module |
| `MCPromotion`, `MCServices`, `MCAssets`, `MCProjects` | | instances of several |

The last four put modules side by side that share no state in the code. A
behaviour of such a run is one of the part that it begins with (`part`), the
other parts stay in an initial state: an interleaving of parts that share
nothing shows nothing that each alone does not. What parts *do* share is inside
one module: clients and daemons in `Connection`, owner and store in `Feedback`,
setup and upgrade in `Installation`, adapter, runner and child in `Collection`,
worker, supervisor and generator in `Reconstruction`. A property of such a run
has the type invariant of its part as a conjunct. `MCProjects`, `MCServices` and `MCAssets` extend
the modules that have proofs, so that a run and a theorem speak of the very same
definition; a module that the run of its own extends (`Maintenance`, `Consumption`,
`Connection`) is instantiated where a second run checks its liveness.

### WorkspaceLease

`pc[p]` is the place in `lease()` at which process `p` is; the places are those
between which another process can run. `row` is the committed row of the table
`workspace_lease`, `tx` the process whose `BEGIN IMMEDIATE` succeeded, `txRow`
the row that process sees. `BeginImmediate` and `Deadline` are the two ends of
the retry loop; a pass that sleeps changes nothing and is no step. `Commit` may
fail (`CommitFails`) while a contender is inside its own BEGIN, because COMMIT
needs the exclusive lock and the busy timeout is zero. `Crash` drops the
transaction as SQLite's hot journal does. `Intrude` leaves or removes a foreign
entry, which `check(root)` refuses. The refinement mapping takes the process in
its callback as the abstract holder.

### Connection

One action per step of a client operation, of a daemon and of a request inside
a daemon; the phases of a daemon and the places of a client are listed with the
source's steps beside them. `twin` in a record is the second link that exists
between `linkSync` and `unlinkSync`: no reader accepts such a record. A daemon
process runs once. A client has at most one outstanding request (`Quiet`).
What an operation answers is left out, except that a stop is reported done,
which is what later operations rely on. `stopped`, `spawner` and `late` are
auxiliary. `WORKSPACE_BUSY` is no step, since it leaves nothing behind.

### Promotion

A tree is a function from paths to where the bytes come from: the old tree, the
candidate, an editor, or a killed write. Every file operation that another
program or a death can separate is an action of its own; the two renames are
`Move` and `Place`. `Edit` saves a file of the current tree at any moment and
recreates the tree when it is absent between the renames, as an editor does.

### Maintenance

A file is the version of its bytes. Requests run one at a time (the maintenance
lease), may fail or die anywhere and may be made again in any order. The
inventory reads file by file. A staged file is a part, full, or sealed with its
final mode. `Restorable` is the gate in `C/config.ts` that lets a restore return
to a project whose identity is not there yet.

### Installation

One request runs at a time, under the installation lease. `journal` is
`binding.setup.json`; `"torn"` is what a death inside `exclusive()` leaves, as it
is of the marker and of template files. `Inside` is where a setup also has the
workspace lease. `touched` is auxiliary: files that their owner saved or removed
since the running request looked at them. Other installations that a workspace is
bound to activate and stop its connection meanwhile (`Others`). Of `Connection` this keeps what a
setup or upgrade meets: an activation has the workspace lease while it lasts (`leased`) and spawns a daemon,
which writes its record later and without the lease (`Elect`), perhaps when the
activation has timed out and a setup has the lease; `late` is auxiliary and marks just
these. A workspace has one daemon at a time that has been spawned and not elected; who
may recover the record of a dead one is left to `Connection`. An upgrade begins when it has both leases
and has found no record, as one step; what may happen between these is a late daemon, which
the property allows for, or a refusal.

### The other modules

* **Project.** A baseline is the file of its request; as its hash covers the event
  before, the hash is modelled as the whole path of steps. A new file is
  staged in `.project-control` (`pending`) and becomes part of the project whole, by a rename; the
  lock's COMMIT may fail after that, callers die.
* **Candidates.** The daemon has the workspace lease around a whole `native_project`
  request (`C/daemon.ts:83`), so a request begins when no other is under way (`LeaseFree`);
  a dead caller's lease is free. A request checks, awaits a validation and then writes one file after another,
  and the user edits sources and folder between the synchronous parts. Runtime's admission and
  verification of a project take no such lease.
* **Feedback.** Every mutation is a transaction with a receipt. `asks` holds what a
  caller wants; an answer may be lost and the same request made again.
* **Composition.** A claim goes through the owners in order, each with a
  revision read before; other claims move the owners. `answered` is what Runtime gets.
* **Online.** The plist is known by its nonce, a configuration by its digest. A
  post waits for room in the queue, an entry for the lease; the exit waits for the queue.
* **Collection.** The adapter, the detached runner and the sandboxed child meet
  in the journal directory only; each may die. **Evidence** reads run and
  collections one after another while Runtime goes on, or a campaign that its user edits.
* **Toolchain.** A record is saved as a temporary file and renamed. A download is checked and
  then written under its final name (`locked.ts:116`), so what a failing write or a death
  leaves of it stays in the cache, and every later preparation fails on it. `partial` is that part
  of a file; the documents say that there is none (section 4).
* **Archive.** Archives are built block by block; each reader goes on with the blocks
  it accepts. What is compared is the members and their paths.
* **Reconstruction.** Three adapters with one journal. `unknown` is what a command may
  have done without saying so. **Generation** sends events of any kind in any order
  and checks the live rules and those of the replay on the same journal.
* **Intents.** One caller; a person and the owner of the files act between any two reads.
  `call.todo` is what the call has still to look at, in the order of the code: definition,
  evidence, what the evidence pins, source. A pin is the content itself, as a digest
  stands for it. `since` and `grounds` are auxiliary: what every file has held during
  the call that made a step of the candidate, or its admission.
* **Oracle.** A value is a number, an object or array with its parts, or anything else.
  The comparison goes down level by level, from the pairs that `compare()` is called with to
  those it calls itself with (`Descends`); `DifferencesOf` is written without it: of all places
  of the two values, those where they part and no place above them does. `ControlsDiffer`
  asks that both agree.
* **Paging.** Nothing is kept between requests; a digest is what it is taken of.
* **Consumption.** A request holds a slot; the owner rewrites the authorization.
* **Acceptance.** Files change between reads; `was` is auxiliary, what a file has been.
* **Adapter.** The pipe delivers parts of lines of any length; `due` is auxiliary.
* **Preview.** Install writes the inventory last, uninstall checks it twice. Nothing in
  the script keeps two uninstalls apart, and `put()` makes the root again where it
  is missing. If two of them overlap, the one that
  has forgotten the inventory and the other that still unlinks are joined by an install that
  begins in the emptied root, and what is accepted at its end may lack a file. So
  `InstalledIsComplete` is claimed where one uninstall runs at a time (`OneUninstaller`); that
  a file which no inventory listed is never removed is claimed of any number. What the user has put into
  the root by the time of the inventory is listed, and removed with the rest.
* **Release.** The concurrency group of the workflow keeps runs apart (`Turn`), but not a run
  from what its predecessor has asked the forge for: when an answer is lost, the run stops, and its request
  is in `sent` until the forge carries it out, now, later or never.
* **Artifacts, Dependencies, Contract.** Files are versions; developers edit them meanwhile. The bytes of
  installed dependencies are not compared with anything in the code, so nothing is
  claimed of them. The output directory is private to a rehearsal while it runs. A
  synchronization compiles the contract twice and pins the source in between, each time as it is by
  then. So a developer who takes something out of the source and puts it back in the time of
  one run can make the manifest name a source that compiles to something else.
  `VerifiedIsCompiled` therefore says what the code does guarantee: the files are what the named
  source or one before it compiled to, and what the named source or one since compiles to. The
  instance of the run has such a source between two that compile to the same. Sources are versions
  that only grow; two with the same bytes are not told from two that compile to the same.

## 3. Runs

| run | question | distinct states |
|---|---|---|
| `workspace_lease` | three processes, two subjects, one directory: the lease is one, and nobody waits for ever | 32,040 |
| `connection` | three clients and three daemons in any order of steps and deaths | 674,476 (symmetry) |
| `connection_late` | does a maintenance exclude every activation? (violated) | – |
| `promotion` | all pairs of small trees, two deaths, unlimited edits; and two clients and two daemons come to an end | 255,469 |
| `maintenance` | two backups to one destination and a restore, two failures | 4,313,831 |
| `maintenance_crash` | is every interruption resumed from? (violated) | – |
| `installation` | two setups and an upgrade beside activations, two deaths or failures, two edits | 400,842 |
| `setup_crash` | is every retained setup resumed? (violated) | – |
| `services` | six parts that have to end, each with deaths and time limits | 50,358 |
| `assets` | twelve parts that make statements about what changes below them | 2,191,039 |
| `projects` | six parts that rely on what was written before | 442,308 (symmetry) |
| `partial_download` | is no part of an artifact left when no preparation goes on? (violated) | – |

**Bounds, and why they suffice for the question.**

* *Lease*: the interesting cases need a holder, a contender and a process of
  another subject: three processes. There is no counter, so behaviours are
  unbounded in length.
* *Connection*: a recovery or maintenance can run against a daemon that a second
  client started while a third daemon, spawned earlier, is still starting. Safety uses
  symmetry in clients and daemons; liveness (in `promotion`) is checked on two of
  each without it, because symmetry is not sound for it.
* *Promotion*: one file from the candidate and one that is `project.json`; every
  rule about files distinguishes just these kinds. `MaxCrashes` = 2 lets a retry die
  as well. Edits are not bounded.
* *Maintenance*: two roots, three files: the identity that is restored first, a
  read-only file, a state file. `MaxVersion` = 2 gives edits that differ from
  what a manifest pins; `MaxFailures` = 2 lets one request fail twice or two requests
  fail once. For `Resumes` (in `services`): one backup, one restore, one edit.
* *Installation*: one workspace named by an initialization and an attachment, so
  that each meets the journal or binding of the other; two template files, so
  that a loop can be cut in the middle; `MaxMishaps` = 2 and `MaxEdits` = 2. Activations are
  not bounded. Initial
  states include workspaces made by an older release (a marker of the old
  version), projects with user files, and a configuration that already
  names the workspace.
* *Services*: two settings and two batches, a queue of two that both the timer and posts fill,
  one death; two askers of a collection, so that one polls for what the other
  started; `MaxLosses` = 2, a loss and one of what recovers from it; a pipe of five
  lines of which some are too long (`InputLimit` = 1, in parts); one request of assets, as
  progress needs no second.
* *Assets*: one claim beside others that move the owners; three rows of two
  weights, so that a page holds one or two; five events of a turn, with a
  second turn's among them; a chain of three assets and two requests for one
  slot; two collections with two receipts each; two files that two results
  name; archives of four blocks out of nine kinds; two packages in three
  places, one nested; two products, one with dependencies; four contract sources of which three
  compile to the same, with the fourth between them; behaviours with values of one part, two or none, nested once, with
  tolerances at each place, and oracles of no, one and two cases and controls (`MaxDepth` = 2 is
  as deep as these values have parts, which `OracleAssumption` checks; the code accepts 32); four intents,
  complete and not, of both schemas and directions, two files of evidence and two changes
  of a file or the source, so that evidence can go and come back within one call.
* *Projects*: two callers everywhere, as each hazard is one of two: two digests
  of a source, four request ids and a store that holds four, two packages with
  directories of their own, two downloads and three requests, two runs of the
  preview and of the release. One death, so that what it leaves is met by a
  caller that lives.

`CHECK_DEADLOCK FALSE` is given where the system can come to rest (all requests
done and all bounds used up): everywhere but in `workspace_lease`, `connection`
and `promotion`.

**Fairness.** Node runs whatever is not blocked and the time limits are timers,
so each process's own steps are weakly fair in `WorkspaceLease` and
`Connection`; nothing is assumed of callbacks, callers, deaths or intruders. In
`Promotion`, `Maintenance` and `Installation` the running process is weakly fair
and the interrupted request is *made again*: the resumption these modules
promise means nothing without a retry, and the operator who wants the result
makes it. Where other requests may be made in between, the retry is strongly
fair. Deaths and failures are bounded, not fair: they eventually cease.
In `Online` the operator's call and the worker's own steps are fair, and a
sender sends what it has begun. In `Collection` the runner, its timers and the
poll of each asker are fair, the child is not: that it never ends is what the
timers are for. In `Reconstruction` worker and supervisor are fair and the
generator ends, as its own limit of time makes it. In `Consumption` only what the service
does or limits is fair: a body that does not come, a read that does not return
and the delivery.

### What the properties say

* `workspace_lease`: `OneHolder` (mutual exclusion, no durable owner, one
  subject), `ImplementsLease`, `NoWaiterStuck`.
* `connection`: `WriterIsRecorded` (databases open only in the daemon the record
  names), `RemovalIsSafe`, `NoCloseUnderRequest`, `StopIsFinal`,
  `OnlyLateDuringMaintenance`.
* `promotion`: `NeverMixed`, `EditsKept`, `ArchiveComplete`, `Completes`;
  `ConnectionProgress` (operations end, startups resolve).
* `maintenance`: `SnapshotExisted` (a pin is a state both roots were in),
  `BackupStaysWhole`, `VerifiedForGood` (VERIFIED is true, and its pin final).
* `installation`: `NeverADifferentSetup`, `BoundIsWhole`, `OnlyLateBeside`,
  `OnlyHastySavesReplaced`, `DeclaredMeansDone`, `SetupResumes`.
* `services`: `AlertsKept` (what was answered with success is ingested, under
  the configuration of that moment), `ResultFaithful`, `CleanBeforeReceipt`, `ChatServed`,
  and `Progress`, the liveness of all parts.
* `assets`: `AnsweredAsRetained` (one attempt; answers are what the owners keep),
  `WholeIsOneSnapshot`, `ReplayAgrees`, `VerdictsStand`, `ArchivesAsWritten` (each reader
  against the format, and the readers against each other), `BuiltAsRun`, `Delivered`.
* `projects`: `ProjectKept` (a readable chain, true answers), `FeedbackKept`,
  `PromotedAsReviewed`, `PreviewKept`, `ReleasedAsDecided`, `PreparationsStand`.

Each property has a mutant in its module: an operator next to the one it
replaces, changed as a plausible mistake would change it, under which TLC
finds the property violated. Properties over several modules have one in each of them
where the modules check something of their own.

## 4. What the code does that its documents do not say

1. **A late daemon during maintenance** (`connection_late`).
   `docs/native-toolchain.md:39` says the lease excludes activation during
   maintenance. The lease is held by the activating client. A daemon whose
   activation timed out, or whose client died, elects itself without the lease
   and may become ready during the callback. `OnlyLateDuringMaintenance`, checked
   and proved, says that this is the only way. A setup takes the same lease and looks for
   the record once (`bootstrap.ts:156`), and an upgrade runs in a maintenance; the same late daemon, and no other, can be
   elected beside them (`OnlyLateBeside`, checked and proved).
2. **Interruptions of a copy that are not resumed** (`maintenance_crash`).
   `docs/preflight-maintenance.md:25` promises recovery. A read-only file that has been sealed
   but not renamed cannot be opened for writing again, and a temporary
   manifest that was not renamed makes the backup unloadable. `Resumes`
   excludes just these two (`Spoiled`).
3. **A torn project marker** (`setup_crash`). `W/bootstrap.ts:152` promises
   recovery of the exact intent. The marker is created under its final name and
   then written; after a death in between every retry is refused. `SetupResumes`
   excludes just this case. A torn setup journal is likewise never readable
   again, but there is no retained intent then.

4. **A partial artifact in the cache** (`partial_download`).
   `docs/native-toolchain.md:44-45` says that after a terminal `FAILED` a new request reuses only complete
   downloads and that no partial artifact is cached. The bytes are checked before they are
   written, but they are written under their final name (`toolchain/locked.ts:116`). A write that fails, as
   on a full disk, ends the preparation with a retained `FAILED` and leaves a part
   of the file, on which every new request fails (`TOOLCHAIN_INTEGRITY`) until somebody removes it. A
   death leaves the same part with a `RUNNING` record. `PreparationsStand` shows that nothing is prepared from it.

Further facts, modelled and bounded by properties, contradict no document
so far as we read them. The manifest of the contract can name a source that compiles to
something else (section 2). A torn *template* file is accepted as if it were whole
(`bootstrap.ts:89` only reads it). And `upgrade.ts` tests for a file and then
renames over it (lines 27 and 30): a file saved in that window is
replaced, which is the exact extent `OnlyHastySavesReplaced` allows.
Some leftovers of a death block what comes later, as the documents say or do not deny:
`instance.json` with two links (`control.ts:37`), `recovery.json` of a recoverer that
died (`control.ts:59`).

## 5. Proofs

All proofs are checked by TLAPS with Z3, Zenon and LS4; the only assumptions are
the named ones on constants, which TLC evaluates in every run.

**`WorkspaceLeaseProofs`**, for any sets of processes and subjects (assumption
`WorkspaceLeaseAssumption`: `NoOne` is no process, `NoRow` no row, `Subject`
a function into `Subjects`). Mutual exclusion is not
inductive: that nobody else is in the callback follows only from the transaction.
The invariant adds that a process has the transaction exactly while it is at a
place of `Held`, and that the holder past its identity step sees a row of its own subject.
Theorems: `TypeCorrect`, `Exclusion`, `OwnerNotDurable`, `SubjectPinned`, and
`Implementation`: initial states map to initial states and every step to a
step of `Lease` or a stutter. `HolderIsOne` puts the safety
theorems together as the run states them.

**`ConnectionProofs`**, for any sets of clients and daemons (assumption
`ConnectionAssumption`: they are disjoint and `None` is in neither). The
inductive invariant consists of

* `Recorded`: a daemon from its election to its closing is the one the record names,
* `SeenKnown` and `OneRecovery`: what a client knows after a read; the marker
  admits one recovery, past its probe the daemon is dead, and at its unlink
  the record still names that daemon. Without the latter the removal of a record is not
  safe in the induction step;
* `LeaseHeld` and `CallbackAlone`: a leased operation has the lease to its end, and any
  daemon elected during a callback had lost its activation,
* `NoCloseUnderRequest` and `StopIsFinal` themselves.

Theorems: `TypeCorrect`, `WritersRecorded`, `OneWriter`, `StopsWait`,
`StopsAreFinal`, `MaintenanceMeetsOnlyLate`, `RemovalsAreSafe`.

**`PromotionProofs`**, for any set of files and any number of deaths (assumptions
`PromotionAssumption` and `MissingIsNoTree`). That the current tree is never mixed is not
inductive: it depends on what was archived. `Untouched`, `NotArchived` and `Archived`
say what the current tree is before the plan, before the first rename, between the
renames and after the second; `Progress` says what the promoting process has checked
at each of its places and nobody can undo. Theorems: `TypeCorrect`,
`TreesNeverMix`, `EditsAreKept`, `ReceiptsMeanArchived`.

**`MaintenanceProofs`**, for any requests, read-only files, number of edits, deaths and
failures (assumption `MaintenanceAssumption`: `None` is no request and no record). A pin
is a tree that existed only because of the order in which files change. `Snapshots` says so:
while the inventories are taken files only get newer, so what the first one read is at most
what the tree held when the second began, and what that one found equal was so at that
moment. That a backup stays whole needs all journals that share the destination:
`Pinnings` and `Publishing` say that a manifest is published once and whose it is, `Copying`
that bytes go only to places that are free, `Running` that the process works with the journal
that is on disk. Theorems: `Invariance`, `TypeCorrect`, `SnapshotsExisted`, `BackupsStayWhole`, and
the action property `VerifiedStays`.

**`InstallationProofs`**, for any workspaces, templates, setups, upgrades, deaths and
edits (assumption `InstallationAssumption`: setups, upgrades and the special values
are distinct). A binding is whole only because of what the setup did before, so the invariant
records that: `Turns` (each request at its own places), `SetupIsRetained` (its
own journal, no binding), `LeaseIsKept` (no activation has the lease of who works on
the workspace, so that a daemon elected since is late), `SetupProgress` and `UpgradeProgress` (what
was looked at still is as it was found, unless its owner touched it). Theorems:
`TypeCorrect`, `BindingsAreWhole`, `OnlyLateDaemonsBeside`, and the action properties
`OnlyTheRetainedSetup`, `SavedFilesStay`, `DeclarationsAreTrue`.

**`ProjectsProofs`** has one section for each module of the run `projects` that is
proved, each with its own inductive invariant.

* *Release*, for any commits and any number of runs of the workflow. `WorkflowSound` says of
  each run what its assets are, by where it is: prepared ones that are whole came from
  what was asked for, past the check they are whole and to be published, and a run
  that goes on to its release has made the tag. `RequestSound` says the same of a request that may
  still be carried out: one for a release was sent when its tag was there. No step moves a tag that
  is there (`TagStays`), so whatever the forge carries out late leaves runs, requests and
  releases sound. Theorem: `ReleasesAreDecided`.
* *Toolchain*, for any adapters, requests and number of artifacts. That the RUNNING record
  is the only one is not inductive: the invariant adds that who has been admitted
  holds the lease (`AdmittedHolds`, so that one preparation moves at a time) and `TaskFits`,
  what the journal, the cache and the environment are at each of its places; in particular,
  no record says SUCCEEDED while a preparation owns the environment that it would
  remove. Theorem: `JournalStands`.
* *Project*, for any requests, sources and processes. Walking the chain would need an induction
  over data; as an event carries the path of steps before it, `OneChain` and `HasEnd` (some
  accepted baseline is as long as any) say all that a reader relies on. What makes them
  inductive is the lock: `CallFits` says that who is at a locked place holds it, and
  `Prepared` that between the reading of the chain and the publication of the file nobody
  else has moved the project on. Theorem: `ProjectIsKept`.
* *Feedback*, for any events, requests and callers. `DecidedAsReviewed` is nearly inductive:
  `AskFits` adds what an ask carries from step to step, and that the record it read the
  request against has not gone when it comes to mutate. The action property needs that the
  check of the receipt and the mutation are one transaction. Theorem: `FeedbackIsKept`.
* *Candidates*, for any candidates, packages, processes, deaths and edits. The journal is
  right only because what was completed is: `CompletedAsReviewed` ties what Runtime
  completed to a review and a material that are never written again, `FrozenAsPlanned` a whole
  freeze to its plan, and `CallerFits` says that a caller about to promote carries
  something completed. Theorem: `PromotionsAreReviewed`.
* *Preview*, for any files, installs and edits. `Alone` says that an install and an
  uninstall that removes are never in the root together, and `RunFits` what an install has put and an
  uninstall may remove; they need `OneUninstaller`. `Listing` does without it: what is
  unlinked was listed by an inventory. Theorem: `PreviewIsKept`.

**`ServicesProofs`** does the same for the run `services`.

* *Online*, for any settings, batches, limits of the queue and deaths (assumption
  `OnlineAssumption`: the names of lease holders and of the timer's entry are no settings and no
  batches). `QueueFits` says that no entry is in the queue twice and that
  each is the tick or an alert whose sender waits. `WorkerFits` and `OperatorFits` say who has the
  lease: an entry runs only under it and the operator is in a call only with it, so that
  nobody configures under an entry. That is why a stop may give up on a worker that drains. Theorem: `AlertsAreKept`.
* *Collection*, for any outputs, askers and deaths. `OneAttempt` says that who made
  the journal starts the one worker, `RunnerFits` what the worker knows of its child at each place:
  when it copies a clean result the child has ended, under pins that the
  second verification found.
  Theorem: `CollectionsAreFaithful`.
* *Reconstruction*, for any number of losses (assumption `ReconstructionAssumption`: `None`
  is none of the answers and stages). `MakerFits`, `PhaseFits` and `RecoveryFits` say of worker, supervisor and recovery what
  each has done at its places and what it left behind if it was lost; a receipt is clean
  because it is only written from what the others have written before they ended.
  Theorem: `ReceiptsAreClean`.
* *Adapter*, for any limit of a line and any number of lines: `ReaderFits` says that the reader drops
  exactly the line that has become too long and knows the size of any other, wherever the chunks
  end; and an active session has seen no maintenance since its activation.
  Theorem: `ChatIsServed`.

**`AssetsProofs`** does so for all parts of the run `assets`.

* *Composition*, for any claims and number of revisions (assumption `ClaimAssumption`: the
  work of others is no claim of these). `ClaimFits` says by where a claim is which owners have
  not been asked yet, hence `OneAttempt`, and that what was heard of an owner is in a
  receipt that this owner keeps for the claim. Receipts are never taken back, so an
  execution and a reconciliation of the same claim may meet anywhere.
  Theorem: `ClaimsAreAnswered`.
* *Consumption*, for any catalogue, grants, requests and limits (assumption
  `ConsumptionAssumption`: dependencies and grants are of assets). That the closure is exact needs an upper bound as
  well as a lower one. `Gathers` says of a request that what it has read, is reading and
  has still to read includes what was asked and what the packages at hand depend on,
  and is within every set that is closed and has what was asked; so when nothing is left
  to read, what was read is the smallest such set, without induction on its size.
  `SlotsFit` counts the slots. Theorem: `AssetsAreDelivered`.
* *Archive*, for any blocks and length (assumption `ArchiveAssumption`: the shapes of
  blocks). `ReaderFits` says that what a reader holds at a block is the nearest header of the
  next member, the nearest one for all, and just the members of the format before that
  block; the lemmas `HeaderPasses`, `GlobalPasses` and `MemberPasses` say what one more block
  does to each, in place of an induction over the archive. `StrictFits` keeps
  what the strict reader knew of an accepted archive, from which follows that the other
  one finds nothing to refuse in it. Theorem: `ArchivesAreRead`.

* *Dependencies*, for any names and places of packages (assumption `DependenciesAssumption`: places
  are not empty paths of names). `WalkFits` says of a walk what `Gathers` says of a request above:
  what was reached and what is still to visit lead to all that is needed, and what was reached
  is within every set that is closed. That the production tree still resolves once
  development is left out needs the two lemmas on `Resolve`: it finds the innermost
  place there is, and leaving places out changes nothing as long as that one stays. Lemma
  `DependenciesStand`.
* *Artifacts*, for any products, edits and deaths (assumption `ArtifactsAssumption`: there is a
  product). `DirectoryFits` says what is in the directory of the product at hand at each place,
  and `RehearsalFits` that the report has a pending or a passed record of each product so far; a
  passed one has run with the files and the lock it names. A complete
  manifest has no pending record, so no assembly begins before the rehearsal is over (`CompleteAtEnd`), and
  nothing of the manifest changes after that. Lemma `ArtifactsStand`.
* *Contract*, for any sources, compiler and products (assumption `ContractAssumption`: sources are
  numbered). `CanonicalFits` says that a manifest pins what its source or one before it
  compiled to, `SyncFits` what a run has compared and which files it has copied, of which the
  lemma `AllTurns` shows that each of every product has its turn. Lemma `ContractStands`.

The theorem `BuildStands` puts the last three together.

* *Paging*, for any rows, verdicts, weights and limits (assumption `PagingAssumption`: "changes" is
  no verdict, so that the cursor of a query is none of a comparison). `CursorFits` says that what
  is held is the beginning, up to the cursor, of all rows there are to its question in the snapshot that
  the cursor was given for; a page goes on only if the snapshot is still that one. Which rows match
  is a recursive function; that it has a value, and that this is a
  sequence, is shown by a least counterexample (`LeastIn`, `UpToExists`, `RowsAre`), as
  the theorems on induction cannot be used. Theorem: `PagesAreOneSnapshot`.

* *Generation*, for any turns, limit of tokens and number of events (assumption
  `GenerationAssumption`: `Unset` is no turn and no number). The live validator looks at an event when it is
  heard, the replay folds a whole journal for the turn of the result, also events from before
  that turn was known. The lemmas `ReplayExists` and `ReplayIs` give the fold of any
  journal its steps, `ReplayAppends` that of one event more. `FoldedSoFar` then says that,
  for every turn the events so far allow, the fold is what the live turn has come
  to while nothing was rejected and nothing was completed twice; `ReplayedWhole` that a
  fold believed has believed every event.
  Theorem: `ReplaysAgree`.
* *Evidence*, for any collections, reports and number of receipts (assumption
  `EvidenceAssumption`). `RunFits` and `CollectionFits` say what a reader has read of the pins and
  what is left of them; the receipt of a run never changes its pins or its reports, so the answer is of
  one receipt although run and collections go on in between. Lemma `EvidenceStands`.
* *Acceptance*, for any files, digests, criteria and reports (assumption `AcceptanceAssumption`).
  `WalkerFits` says of each criterion that the walk has turned from that it is met or
  counted as a fault, and that the files it names are still to be read or have been as they were named;
  one file that two criteria name was the same for both. Lemma `AcceptanceStands`.
* *Intents*, for any definitions, inventories, notes, files and number of edits (assumption
  `IntentsAssumption`: `NoIntent` is none of these, every variant that an inventory has is
  one at least (`W/native-project.ts:81`), and what a person said is in no file of decisions).
  What a call has still to look at is a list, and the invariant is about that list: `CallDue`
  says of everything that the operation needs that it is either still on the list (`Due`,
  `IntentDue`, `ReviewDue`) or was seen, with its bytes among those that the file has held
  since the call began (`SeenOf`). When the list is empty all was seen. Lists are sequences over the set of
  their items (`IsList`, `Items`), and the lemmas `ListsJoin` and `ItemsOfRest` say what joining and
  shortening do to that set. `GroundsFit` keeps what the candidate's last step was
  made on. Lemma `IntentsStand`.
* *Oracle*, for any cases, controls, tolerances and depth (assumption `OracleAssumption`). The lemma
  `ComparedRight` says that the comparison finds exactly the outermost places where two values
  part: what it comes to are places of both with no difference above (`ComparedPlaces`), and it
  comes to each such place unless the values are the same there (`PlacesCompared`). As
  paths are as long as their level and name one place each (`PlacesOnce`), a place
  of one value meets one of the other at most. `OracleInv` adds what was found of each control so far, and that
  ids of cases differ, so that a control has one case. Lemma `OracleStands`.

The theorem `VerdictsAreSound` puts the last four together.

**Left to TLC.** Liveness (under fairness, with ENABLED) is beyond the prover:
`NoWaiterStuck`, `Completes`, `ConnectionProgress`, `SetupResumes` and `Progress`. Every
other property of a passing run is stated by a theorem. The library's theorems on
induction cannot be used, as they take an operator; where a function is recursive (pages, the replay
of a journal, the levels of a comparison) the proofs argue by a least counterexample
(`LeastIn`). No module has RECURSIVE operators, which the prover does not take.

## 6. What is left out

* Power loss: only the death of a process is modelled. Writes are visible in
  program order; `fsync` is not a step.
* Permissions, symbolic links, size limits, canonical paths and digests of
  manifests are validation without state of their own.
* *Connection*: what operations answer; `requireOnlineWorkerStopped`, which
  belongs to the online worker; process ids that are reused.
* *Maintenance*: relocation of the owners' databases after a migration,
  `requireReconciled` and key retention; an edit that restores earlier bytes;
  prefixes of two different versions are assumed to differ; nothing but
  requests writes into destinations; the origin is lost only between requests;
  a workspace whose restore is unfinished is not backed up. An old request that
  is retried after another one's backup was VERIFIED may leave its staging
  directory in it; `BackupStaysWhole` says what stays true.
* *Installation*: directories, defaults for paths, and the staging files of an
  upgrade, which a retry discards.
* *Candidates* and *Project*: the shape of requirements, inventories and campaigns is
  one condition; `native-router.ts` and `project-navigation.ts` dispatch and read.
* *Online*: the owner's ingestion is a store that takes a batch once; launchd runs the
  worker at most once at a time.
* *Reconstruction*: sandbox profiles, prompts and the scan of generated sources.
* *Toolchain*: platform tables, the command line, and the mirror.
* *Composition*: reading calls that forward to one owner.
* *Intents*: two callers at once, which `Candidates` has; the workspace, scope and standard
  of a definition, which do not change; that a package is found again for its admission, and
  whether it covers its bindings.
* *Oracle*: tolerances that are not whole numbers; limits on the number of cases.
* *Contracts*: the validators of shapes and digests in
  `integration/compatibility/`, which have no state and call nothing that has.
* *Scripts*: the other `sync-*.mjs` compile their contract once and copy what came out,
  with no pin that a second compilation could disagree with; the `check-*.mjs` read the tree and print. The m0 probes are experiments that nothing uses.
* *Expert guides*: pure functions from inspected facts to recommendations.

## 7. Plan

Done: all components of section 1 but the last, with proofs of every safety property that a
passing run checks.

Next:

1. **Relocation of owner databases** after a migration (`W/maintenance.ts`).
2. **Contracts' decision rules** that are left: the readiness criteria and the projection of
   `usability/v2/contract.mjs`, as operators checked against a reference definition.

To run: `tlc -workers 2 -config X.cfg M` and `tlapm M.tla`, with the pairs of
`PROJECT.json`.
