--------------------------- MODULE MaintenanceProofs ---------------------------
(***************************************************************************)
(* Maintenance, for any requests, read-only files, versions and failures:  *)
(* a pin is a state the origin was in, VERIFIED is true and final, and a   *)
(* verified backup stays whole.                                            *)
(***************************************************************************)
EXTENDS Maintenance, TLAPS

OfBackup == {"manifest", "publish", "index"}
OfOrigin == {"inventory", "recheck", "drift", "redrift"}
Unpinned == {"idle", "inventory", "recheck", "load"}
AtFile == {"copy", "fill", "seal", "place"}

(* The running request has its journal in memory, as it is on disk, and is at one of the
   places of its operation. *)
Running ==
  /\ pc = "idle" <=> run = None
  /\ run # None => mem \in Journals /\ mem = journal[run] /\ mem.status # "VERIFIED"
  /\ pc \in OfBackup => Op[run] = "backup"
  /\ pc \in OfOrigin => Op[run] # "restore"
  /\ pc = "load" => Op[run] = "restore"
  /\ pc \in {"inventory", "recheck"} => mem.manifest = None
  /\ pc \notin Unpinned => mem.manifest # None

(* A manifest of bytes that were all there at one moment. *)
Was(m) == m \in Manifests /\ m.pin \in past /\ \A f \in Files : m.pin[f] # Absent

Pinnings ==
  /\ published # None => Was(published)
  /\ \A q \in Requests : Pinned(q) => Was(journal[q].manifest)

(* While the two inventories are taken the origin's files only get newer. *)
Snapshots ==
  /\ tree["origin"] \in past \cup {NoFiles}
  /\ run # None /\ Op[run] # "restore" => \A f \in Files : tree["origin"][f] # Absent
  /\ pc = "inventory" =>
       \A i \in 1..3 : i < at => inv[Order[i]] \in 1..tree["origin"][Order[i]]
  /\ pc = "recheck" =>
       \E s \in past : \A i \in 1..3 :
         /\ inv[Order[i]] \in 1..s[Order[i]]
         /\ s[Order[i]] <= tree["origin"][Order[i]]
         /\ i < at => inv[Order[i]] = s[Order[i]]

(* A file is copied into the request's own staging directory while its place is free. *)
Copying ==
  /\ pc \in AtFile => Staged \in Stages /\ Staged.by = run
  /\ pc \in AtFile \ {"copy"} => tree[Target(run)][File] = Absent

(* A backup whose copy is done has published its own manifest, the only one. *)
Publishing ==
  /\ pc = "publish" => published = None
  /\ pc = "copied" /\ Op[run] = "backup" => published = mem.manifest
  /\ pc \in {"redrift", "index", "verify"} => mem.copied
  /\ \A q \in Requests : journal[q] # None /\ (journal[q].copied \/ Verified(q)) =>
       Pinned(q) /\ (Op[q] = "backup" => published = journal[q].manifest)

IInv ==
  TypeOK /\ Running /\ Pinnings /\ Snapshots /\ Copying /\ Publishing /\ BackupStaysWhole
------------------------------------------------------------------------------
LEMMA Constants ==
  /\ MaxVersion \in Nat \ {0} /\ MaxFailures \in Nat /\ Torn \in Nat
  /\ Op \in [Requests -> Operations]
  /\ None \notin Requests /\ None \notin Manifests /\ None \notin Stages /\ None \notin Journals
  /\ Pins \subseteq [Files -> Absent..Torn]
  BY MaintenanceAssumption DEF Torn, Pins, Absent

LEMMA Positions ==
  /\ \A i \in 1..3 : Order[i] \in Files /\ Root(Order[i]) \in Roots
  /\ \A f \in Files : \E i \in 1..3 : Order[i] = f
  /\ \A i, j \in 1..3 : Order[i] = Order[j] => i = j
  BY DEF Order, Files, Root, Roots

LEMMA Destinations ==
  /\ \A q \in Requests : Target(q) \in Locations
  /\ \A q \in Requests : Target(q) = "backup" <=> Op[q] = "backup"
  /\ \A q \in Requests : Target(q) = "origin" <=> Op[q] = "restore"
  BY Constants DEF Target, Locations, Operations

(* What is known of the request that is running. *)
LEMMA InRun ==
  ASSUME IInv, run # None \/ pc # "idle"
  PROVE  /\ run \in Requests /\ run # None /\ pc # "idle"
         /\ mem \in Journals /\ mem # None /\ mem = journal[run] /\ mem.status # "VERIFIED"
         /\ Op[run] \in Operations /\ Target(run) \in Locations /\ Source \in Locations
         /\ File \in Files /\ Root(File) \in Roots
         /\ tree[Source][File] \in Absent..Torn /\ tree[Target(run)][File] \in Absent..Torn
         /\ mem.manifest # None => Pinned(run) /\ Was(mem.manifest) /\ Pin \in Pins
<1>1. run \in Requests /\ run # None /\ pc # "idle"
  BY DEF IInv, TypeOK, Running
<1>2. mem \in Journals /\ mem # None /\ mem = journal[run] /\ mem.status # "VERIFIED"
  BY <1>1, Constants DEF IInv, Running
<1>3. Op[run] \in Operations /\ Target(run) \in Locations /\ Source \in Locations
  BY <1>1, Constants, Destinations DEF Source, Locations
<1>4. File \in Files /\ Root(File) \in Roots
  BY Positions DEF File, IInv, TypeOK
<1>5. tree[Source][File] \in Absent..Torn /\ tree[Target(run)][File] \in Absent..Torn
  BY <1>3, <1>4 DEF IInv, TypeOK
<1>6. mem.manifest # None => Pinned(run) /\ Was(mem.manifest) /\ Pin \in Pins
  BY <1>1, <1>2 DEF IInv, Pinned, Pinnings, Was, Pin, Manifests
<1> QED
  BY <1>1, <1>2, <1>3, <1>4, <1>5, <1>6

LEMMA InitIInv == Init => IInv
<1> SUFFICES ASSUME Init PROVE IInv
  OBVIOUS
<1>1. /\ 1 \in Absent..MaxVersion /\ Absent \in Absent..MaxVersion
      /\ 1 \in Absent..Torn /\ Absent \in Absent..Torn
  BY Constants DEF Absent, Torn
<1>2. tree["origin"] \in Pins /\ NoFiles \in Pins
  BY <1>1 DEF Init, Locations, Pins, NoFiles, Absent
<1>3. TypeOK
  <2>1. tree \in [Locations -> [Files -> Absent..Torn]]
    BY <1>1 DEF Init
  <2>2. past \subseteq Pins /\ inv \in Pins /\ failures \in 0..MaxFailures
    BY <1>2, Constants DEF Init
  <2>3. stage \in [Locations -> [Roots -> Stages \cup {None}]]
    BY DEF Init
  <2>4. journal \in [Requests -> Journals \cup {None}]
    BY DEF Init
  <2>5. pc \in Places /\ at \in 1..3
    BY DEF Init, Places
  <2>6. litter \in BOOLEAN
    BY Zenon DEF Init
  <2> QED
    BY <2>1, <2>2, <2>3, <2>4, <2>5, <2>6 DEF Init, TypeOK
<1>4. Running /\ Pinnings /\ Publishing /\ BackupStaysWhole
  BY DEF Init, Running, OfBackup, OfOrigin, Unpinned, Pinnings, Pinned, Publishing,
         BackupStaysWhole, Verified
<1>5. Snapshots /\ Copying
  BY DEF Init, Snapshots, Copying, AtFile
<1> QED
  BY <1>3, <1>4, <1>5 DEF IInv
------------------------------------------------------------------------------
(* The running process gives up, whatever it leaves in the staging directories. *)
LEMMA GivesUp ==
  ASSUME IInv, run # None, Interrupt,
         UNCHANGED <<tree, published, litter, known, past>>, failures' \in 0..MaxFailures,
         stage' \in [Locations -> [Roots -> Stages \cup {None}]]
  PROVE  IInv'
<1> DEFINE last == [mem EXCEPT !.status = "INTERRUPTED"]
<1>1. /\ last \in Journals /\ last # None /\ last.status = "INTERRUPTED"
      /\ last.manifest = mem.manifest /\ last.copied = mem.copied
  BY InRun, Constants DEF Journals
<1>2. /\ run \in Requests /\ journal' = [journal EXCEPT ![run] = last]
      /\ journal \in [Requests -> Journals \cup {None}]
  BY InRun DEF Interrupt, IInv, TypeOK
<1>3. journal'[run] = last /\ \A q \in Requests \ {run} : journal'[q] = journal[q]
  BY <1>2
<1>4. pc' = "idle" /\ run' = None /\ mem' = None /\ at' = 1 /\ inv' = NoFiles
  BY DEF Interrupt, Idle
<1>5. NoFiles \in Pins
  BY Constants DEF NoFiles, Pins, Absent
<1>6. TypeOK'
  BY <1>1, <1>2, <1>4, <1>5 DEF IInv, TypeOK, Places
<1>7. Running'
  BY <1>4 DEF Running, OfBackup, OfOrigin, Unpinned
<1>8. Snapshots' /\ Copying'
  BY <1>4 DEF IInv, Snapshots, Copying, AtFile
<1>9. \A q \in Requests :
        /\ journal'[q] # None <=> journal[q] # None
        /\ journal[q] # None => /\ journal'[q].manifest = journal[q].manifest
                                /\ journal'[q].copied = journal[q].copied
        /\ Verified(q)' => Verified(q)
  BY <1>1, <1>3, InRun DEF Verified
<1>10. \A q \in Requests : Pinned(q)' <=> Pinned(q)
  BY <1>9 DEF Pinned
<1>11. Pinnings'
  BY <1>9, <1>10 DEF IInv, Pinnings, Was, Pinned
<1>12. Publishing'
  BY <1>4, <1>9, <1>10 DEF IInv, Publishing
<1>13. BackupStaysWhole'
  BY <1>9 DEF IInv, BackupStaysWhole, Verified
<1> QED
  BY <1>6, <1>7, <1>8, <1>11, <1>12, <1>13 DEF IInv

(* A step that leaves the journals and what is published alone keeps what they say. *)
LEMMA SameJournals ==
  ASSUME IInv, UNCHANGED <<published, journal>>, past \subseteq past'
  PROVE  /\ Pinnings'
         /\ \A q \in Requests : journal'[q] # None /\ (journal'[q].copied \/ Verified(q)') =>
              Pinned(q)' /\ (Op[q] = "backup" => published' = journal'[q].manifest)
  BY DEF IInv, Pinnings, Was, Pinned, Publishing, Verified

LEMMA SameBackup ==
  ASSUME IInv, UNCHANGED <<published, litter, journal>>, known \subseteq known',
         tree'["backup"] = tree["backup"]
  PROVE  BackupStaysWhole'
  BY DEF IInv, BackupStaysWhole, Verified

(* The running process goes on, with the same journal and the same files. *)
LEMMA GoesOn ==
  ASSUME IInv, run # None, NEW to \in Places \ {"idle"}, NEW i \in 1..3, Goto(to, i),
         UNCHANGED <<tree, published, litter, journal, mem, past, failures>>,
         known \subseteq known', known' \subseteq Manifests,
         stage' \in [Locations -> [Roots -> Stages \cup {None}]], inv' \in Pins,
         to \in OfBackup => Op[run] = "backup",
         to \in OfOrigin => Op[run] # "restore",
         to # "load",
         to \in {"inventory", "recheck"} => mem.manifest = None,
         to \notin Unpinned => mem.manifest # None,
         Snapshots', Copying',
         to = "publish" => published = None,
         to = "copied" /\ Op[run] = "backup" => published = mem.manifest,
         to \in {"redrift", "index", "verify"} => mem.copied
  PROVE  IInv'
<1>1. pc' = to /\ at' = i /\ run' = run
  BY DEF Goto
<1>2. TypeOK'
  BY <1>1 DEF IInv, TypeOK
<1>3. Running'
  BY <1>1 DEF IInv, Running
<1>4. Pinnings' /\ BackupStaysWhole'
  BY SameJournals, SameBackup
<1>5. Publishing'
  BY <1>1, SameJournals DEF Publishing
<1> QED
  BY <1>2, <1>3, <1>4, <1>5 DEF IInv

(* The running process saves its journal and goes on. *)
LEMMA Saves ==
  ASSUME IInv, run # None, NEW j \in Journals, Save(j),
         NEW to \in Places \ {"idle"}, NEW i \in 1..3, Goto(to, i),
         UNCHANGED <<disk, inv, past, failures>>,
         j.status # "VERIFIED", j.manifest # None => Was(j.manifest),
         j.copied => j.manifest # None /\ (Op[run] = "backup" => published = j.manifest),
         to \in OfBackup => Op[run] = "backup",
         to \in OfOrigin => Op[run] # "restore",
         to \notin {"load", "inventory", "recheck", "publish"} \cup AtFile,
         to \notin Unpinned => j.manifest # None,
         to = "copied" /\ Op[run] = "backup" => published = j.manifest,
         to \in {"redrift", "index", "verify"} => j.copied
  PROVE  IInv'
<1>1. /\ pc' = to /\ at' = i /\ run' = run /\ run \in Requests /\ mem' = j /\ j # None
      /\ UNCHANGED <<tree, stage, published, litter, known>>
  BY InRun, Constants DEF Goto, Save, disk
<1>2. journal'[run] = j /\ \A q \in Requests \ {run} : journal'[q] = journal[q]
  BY <1>1 DEF Save, IInv, TypeOK
<1>3. TypeOK'
  BY <1>1 DEF IInv, TypeOK, Save
<1>4. Running'
  BY <1>1, <1>2 DEF IInv, Running
<1>5. Snapshots'
  BY <1>1 DEF IInv, Snapshots
<1>6. Copying'
  BY <1>1 DEF Copying, AtFile
<1>7. Pinnings'
  BY <1>1, <1>2 DEF IInv, Pinnings, Was, Pinned
<1>8. Publishing'
  BY <1>1, <1>2 DEF IInv, Publishing, Verified, Pinned
<1>9. BackupStaysWhole'
  BY <1>1, <1>2 DEF IInv, BackupStaysWhole, Verified
<1> QED
  BY <1>3, <1>4, <1>5, <1>6, <1>7, <1>8, <1>9 DEF IInv
------------------------------------------------------------------------------
LEMMA BeginIInv == ASSUME IInv, NEW q \in Requests, Begin(q) PROVE IInv'
<1> DEFINE j == mem'
<1>1. run = None /\ pc = "idle"
  BY DEF Begin, IInv, Running
<1>2. New \in Journals /\ New # None /\ New.status # "VERIFIED" /\ New.manifest = None /\ ~New.copied
  <2>1. New \in Journals
    BY DEF New, Journals
  <2>2. New.status # "VERIFIED" /\ New.manifest = None
    BY DEF New
  <2>3. ~New.copied
    BY Zenon DEF New
  <2> QED
    BY <2>1, <2>2, <2>3, Constants
<1>3. /\ run' = q /\ at' = 1 /\ journal' = [journal EXCEPT ![q] = j]
      /\ pc' = IF Op[q] = "restore" THEN "load"
               ELSE IF j.manifest = None THEN "inventory" ELSE "drift"
      /\ UNCHANGED <<tree, stage, published, litter, known, inv, past, failures>>
  BY DEF Begin, Enter, disk
<1>4. /\ j \in Journals /\ j # None /\ j.status # "VERIFIED"
      /\ (journal[q] = None /\ j = New) \/ j = journal[q]
  BY <1>2 DEF Begin, Enter, IInv, TypeOK
<1>5. journal'[q] = j /\ \A r \in Requests \ {q} : journal'[r] = journal[r]
  BY <1>3 DEF IInv, TypeOK
<1>6. TypeOK'
  <2>1. pc' \in Places /\ at' \in 1..3 /\ run' \in Requests
    BY <1>3 DEF Places
  <2> QED
    BY <2>1, <1>3, <1>4 DEF IInv, TypeOK
<1>7. Running'
  BY <1>3, <1>4, <1>5, Constants DEF Running, OfBackup, OfOrigin, Unpinned
<1>8. Snapshots'
  <2>1. Op[q] # "restore" => \A f \in Files : tree["origin"][f] # Absent
    BY DEF Begin, Admitted
  <2> QED
    BY <1>3, <2>1 DEF IInv, Snapshots
<1>9. Copying'
  BY <1>3 DEF Copying, AtFile
<1>10. Pinnings'
  BY <1>2, <1>3, <1>4, <1>5 DEF IInv, Pinnings, Was, Pinned
<1>11. Publishing'
  BY <1>2, <1>3, <1>4, <1>5 DEF IInv, Publishing, Verified, Pinned
<1>12. BackupStaysWhole'
  BY <1>3, <1>4, <1>5 DEF IInv, BackupStaysWhole, Verified
<1> QED
  BY <1>6, <1>7, <1>8, <1>9, <1>10, <1>11, <1>12 DEF IInv

LEMMA InventoryIInv == ASSUME IInv, Inventory PROVE IInv'
<1>1. /\ run # None /\ Op[run] # "restore" /\ mem.manifest = None /\ pc = "inventory"
      /\ at \in 1..3 /\ UNCHANGED <<tree, stage, published, litter, known, journal, mem, past, failures>>
  BY InRun DEF Inventory, IInv, TypeOK, Running, OfOrigin, disk
<1>2. /\ tree["origin"] \in past /\ tree["origin"] \in Pins
      /\ \A i \in 1..3 : tree["origin"][Order[i]] \in 1..tree["origin"][Order[i]]
  <2>1. \A f \in Files : tree["origin"][f] # Absent
    BY <1>1 DEF IInv, Snapshots
  <2>2. tree["origin"] # NoFiles
    BY <2>1 DEF NoFiles, Files
  <2>3. tree["origin"] \in past /\ tree["origin"] \in Pins
    BY <2>2 DEF IInv, Snapshots, TypeOK
  <2> QED
    BY <2>1, <2>3, Positions, Constants DEF Pins, Absent
<1>3. inv \in Pins /\ inv' = [inv EXCEPT ![Order[at]] = tree["origin"][Order[at]]]
  BY <1>1 DEF Inventory, Inspect, File, IInv, TypeOK
<1>4. inv' \in Pins
  BY <1>1, <1>2, <1>3, Positions DEF Pins
<1>5. \A i \in 1..3 : i < at \/ i = at => inv'[Order[i]] \in 1..tree["origin"][Order[i]]
  <2> SUFFICES ASSUME NEW i \in 1..3, i < at \/ i = at
               PROVE  inv'[Order[i]] \in 1..tree["origin"][Order[i]]
    OBVIOUS
  <2>1. CASE i = at
    BY <2>1, <1>1, <1>2, <1>3, Positions DEF Pins
  <2>2. CASE i < at
    <3>1. inv'[Order[i]] = inv[Order[i]]
      BY <2>2, <1>1, <1>3, Positions DEF Pins
    <3> QED
      BY <2>2, <3>1, <1>1 DEF IInv, Snapshots
  <2> QED
    BY <2>1, <2>2
<1>6. CASE at < 3
  <2>1. Goto("inventory", at + 1) /\ at + 1 \in 1..3
    BY <1>1, <1>6 DEF Inventory
  <2>2. Snapshots'
    BY <1>1, <1>5, <2>1 DEF IInv, Snapshots, Goto
  <2>3. Copying'
    BY <2>1 DEF Copying, AtFile, Goto
  <2> QED
    BY <1>1, <1>4, <2>1, <2>2, <2>3, GoesOn
       DEF Places, OfBackup, OfOrigin, Unpinned, IInv, TypeOK
<1>7. CASE at = 3
  <2>1. Goto("recheck", 1)
    BY <1>7 DEF Inventory
  <2>2. Snapshots'
    <3>1. \A i \in 1..3 : /\ inv'[Order[i]] \in 1..tree["origin"][Order[i]]
                         /\ tree["origin"][Order[i]] <= tree["origin"][Order[i]]
      BY <1>5, <1>7, <1>2, Positions DEF Pins, Absent
    <3> QED
      BY <1>1, <1>2, <2>1, <3>1 DEF IInv, Snapshots, Goto
  <2>3. Copying'
    BY <2>1 DEF Copying, AtFile, Goto
  <2> QED
    BY <1>1, <1>4, <2>1, <2>2, <2>3, GoesOn
       DEF Places, OfBackup, OfOrigin, Unpinned, IInv, TypeOK
<1> QED
  BY <1>1, <1>6, <1>7

LEMMA RecheckIInv == ASSUME IInv, Recheck PROVE IInv'
<1>1. /\ run # None /\ Op[run] # "restore" /\ mem.manifest = None /\ pc = "recheck" /\ at \in 1..3
      /\ run \in Requests /\ mem \in Journals /\ mem.status # "VERIFIED" /\ mem = journal[run]
      /\ mem # None /\ UNCHANGED <<disk, past, failures>>
  BY InRun DEF Recheck, IInv, TypeOK, Running, OfOrigin
<1>2. PICK s \in past : \A i \in 1..3 :
        /\ inv[Order[i]] \in 1..s[Order[i]]
        /\ s[Order[i]] <= tree["origin"][Order[i]]
        /\ i < at => inv[Order[i]] = s[Order[i]]
  BY <1>1 DEF IInv, Snapshots
<1>3. inv \in Pins /\ s \in Pins /\ tree["origin"] \in [Files -> Absent..Torn] /\ Torn \in Nat
  BY Constants DEF IInv, TypeOK, Locations
<1>4. CASE Interrupt
  BY <1>1, <1>4, GivesUp DEF disk, IInv, TypeOK
<1>5. ASSUME tree["origin"][File] = inv[File]
      PROVE  \A i \in 1..3 : i < at \/ i = at => inv[Order[i]] = s[Order[i]]
  <2> SUFFICES ASSUME NEW i \in 1..3, i = at PROVE inv[Order[i]] = s[Order[i]]
    BY <1>2
  <2>1. /\ inv[Order[i]] \in Nat /\ s[Order[i]] \in Nat
        /\ inv[Order[i]] <= s[Order[i]] /\ s[Order[i]] <= inv[Order[i]]
    BY <1>2, <1>3, <1>5, Positions, Constants DEF Pins, Absent, File
  <2> QED
    BY <2>1
<1>6. CASE /\ tree["origin"][File] = inv[File] /\ at < 3 /\ Goto("recheck", at + 1)
           /\ UNCHANGED <<journal, mem, inv>>
  <2>1. at + 1 \in 1..3 /\ UNCHANGED <<tree, stage, published, litter, known>>
    BY <1>1, <1>6 DEF disk
  <2>2. Snapshots'
    BY <1>1, <1>2, <1>5, <1>6, <2>1 DEF IInv, Snapshots, Goto
  <2>3. Copying'
    BY <1>6 DEF Copying, AtFile, Goto
  <2> QED
    BY <1>1, <1>6, <2>1, <2>2, <2>3, GoesOn
       DEF Places, OfBackup, OfOrigin, Unpinned, IInv, TypeOK
<1>7. CASE /\ tree["origin"][File] = inv[File] /\ at = 3
           /\ Save([mem EXCEPT !.manifest = [by |-> run, pin |-> inv]])
           /\ Goto("drift", 1) /\ UNCHANGED inv
  <2> DEFINE m == [by |-> run, pin |-> inv]
             j == [mem EXCEPT !.manifest = m]
  <2>1. m \in Manifests /\ m.pin = inv
    BY <1>1, <1>3 DEF Manifests
  <2>2. /\ j \in Journals /\ j.manifest = m /\ j.status # "VERIFIED"
        /\ j.copied = mem.copied
    BY <1>1, <2>1 DEF Journals
  <2>3. Was(m)
    <3>1. \A f \in Files : inv[f] = s[f] /\ inv[f] # Absent
      BY <1>2, <1>3, <1>5, <1>7, Positions DEF Absent, Pins
    <3>2. inv = s
      BY <1>3, <3>1 DEF Pins
    <3> QED
      BY <2>1, <3>1, <3>2 DEF Was
  <2>4. ~mem.copied
    BY <1>1 DEF IInv, Publishing, Pinned
  <2>5. m # None
    BY <2>1, Constants
  <2> HIDE DEF j, m
  <2>6. Save(j) /\ Goto("drift", 1) /\ UNCHANGED inv
    BY <1>7 DEF j, m
  <2> QED
    BY <1>1, <2>2, <2>3, <2>4, <2>5, <2>6, Saves
       DEF Places, OfBackup, OfOrigin, Unpinned, AtFile
<1> QED
  BY <1>4, <1>6, <1>7 DEF Recheck

LEMMA DriftIInv == ASSUME IInv, Drift PROVE IInv'
<1>1. /\ run # None /\ Op[run] # "restore" /\ mem.manifest # None /\ pc \in {"drift", "redrift"}
      /\ at \in 1..3 /\ UNCHANGED <<tree, stage, published, litter, known, past, failures>>
  BY InRun DEF Drift, IInv, TypeOK, Running, OfOrigin, Unpinned, disk
<1>2. CASE Interrupt
  BY <1>1, <1>2, GivesUp DEF IInv, TypeOK
<1>3. CASE UNCHANGED <<journal, mem, inv>> /\ at < 3 /\ Goto(pc, at + 1)
  <2>1. at + 1 \in 1..3
    BY <1>1, <1>3
  <2>2. Snapshots' /\ Copying'
    BY <1>1, <1>3 DEF IInv, Snapshots, Copying, AtFile, Goto
  <2> QED
    BY <1>1, <1>3, <2>1, <2>2, GoesOn
       DEF Places, OfBackup, OfOrigin, Unpinned, IInv, TypeOK, Publishing
<1>4. ASSUME NEW to \in {"redrift", "index", "verify", "copying"}, Goto(to, 1),
             UNCHANGED <<journal, mem, inv>>,
             to = "index" => Op[run] = "backup",
             to # "copying" => mem.copied
      PROVE  IInv'
  <2>1. Snapshots' /\ Copying'
    BY <1>1, <1>4 DEF IInv, Snapshots, Copying, AtFile, Goto
  <2> QED
    BY <1>1, <1>4, <2>1, GoesOn DEF Places, OfBackup, OfOrigin, Unpinned, IInv, TypeOK
<1>5. pc = "redrift" => mem.copied
  BY DEF IInv, Publishing
<1> QED
  BY <1>1, <1>2, <1>3, <1>4, <1>5 DEF Drift

LEMMA LoadIInv == ASSUME IInv, Load PROVE IInv'
<1>1. /\ run # None /\ run \in Requests /\ Op[run] = "restore" /\ pc = "load"
      /\ mem \in Journals /\ mem.status # "VERIFIED" /\ UNCHANGED <<disk, past, failures>>
  BY InRun DEF Load, IInv, Running
<1>2. CASE Loadable /\ mem.manifest \in {None, published}
  <2> DEFINE j == [mem EXCEPT !.manifest = published]
  <2>1. published # None /\ published \in Manifests /\ Was(published)
    BY <1>2 DEF Loadable, IInv, TypeOK, Pinnings
  <2>2. j \in Journals /\ j.manifest = published /\ j.status # "VERIFIED" /\ j.copied = mem.copied
    BY <1>1, <2>1 DEF Journals
  <2> HIDE DEF j
  <2>3. /\ Save(j) /\ UNCHANGED inv
        /\ Goto(IF mem.copied THEN "verify" ELSE "copying", 1)
    BY <1>2 DEF Load, j
  <2>4. CASE mem.copied
    <3>1. j.copied /\ Goto("verify", 1)
      BY <2>2, <2>3, <2>4
    <3> QED
      BY <1>1, <2>1, <2>2, <2>3, <3>1, Saves DEF Places, OfBackup, OfOrigin, Unpinned, AtFile
  <2>5. CASE ~mem.copied
    BY <1>1, <2>1, <2>2, <2>3, <2>5, Saves DEF Places, OfBackup, OfOrigin, Unpinned, AtFile
  <2> QED
    BY <2>4, <2>5
<1>3. CASE ~(Loadable /\ mem.manifest \in {None, published})
  BY <1>1, <1>3, GivesUp DEF Load, disk, IInv, TypeOK
<1> QED
  BY <1>2, <1>3

LEMMA BeginCopyIInv == ASSUME IInv, BeginCopy PROVE IInv'
<1> DEFINE j == [mem EXCEPT !.status = "COPYING"]
<1>1. /\ run # None /\ run \in Requests /\ pc = "copying" /\ mem = journal[run]
      /\ mem \in Journals /\ mem # None /\ mem.manifest # None /\ Was(mem.manifest)
      /\ UNCHANGED <<disk, inv, past, failures>>
  BY InRun DEF BeginCopy, IInv, Running, Unpinned
<1>2. /\ j \in Journals /\ j.manifest = mem.manifest /\ j.status # "VERIFIED"
      /\ j.copied = mem.copied
  BY <1>1 DEF Journals
<1>3. mem.copied => (Op[run] = "backup" => published = mem.manifest)
  BY <1>1 DEF IInv, Publishing
<1> HIDE DEF j
<1>4. Save(j) /\ Goto("open", 1)
  BY DEF BeginCopy, j
<1> QED
  BY <1>1, <1>2, <1>3, <1>4, Saves DEF Places, OfBackup, OfOrigin, Unpinned, AtFile

LEMMA CopiedIInv == ASSUME IInv, Copied PROVE IInv'
<1> DEFINE j == [mem EXCEPT !.copied = TRUE, !.status = "VERIFYING"]
<1>1. /\ run # None /\ run \in Requests /\ pc = "copied" /\ mem = journal[run]
      /\ mem \in Journals /\ mem # None /\ mem.manifest # None /\ Was(mem.manifest)
      /\ Op[run] = "backup" => published = mem.manifest
      /\ UNCHANGED <<disk, inv, past, failures>>
  BY InRun DEF Copied, IInv, Running, Unpinned, Publishing
<1>2. /\ j \in Journals /\ j.manifest = mem.manifest /\ j.status # "VERIFIED"
      /\ j.copied
  BY <1>1 DEF Journals
<1> HIDE DEF j
<1>4. Save(j) /\ Goto(IF Op[run] = "restore" THEN "verify" ELSE "redrift", 1)
  BY DEF Copied, j
<1>5. CASE Op[run] = "restore"
  BY <1>1, <1>2, <1>4, <1>5, Saves DEF Places, OfBackup, OfOrigin, Unpinned, AtFile
<1>6. CASE Op[run] # "restore"
  BY <1>1, <1>2, <1>4, <1>6, Saves DEF Places, OfBackup, OfOrigin, Unpinned, AtFile
<1> QED
  BY <1>5, <1>6
------------------------------------------------------------------------------
LEMMA OpenStageIInv == ASSUME IInv, OpenStage PROVE IInv'
<1> DEFINE t == Target(run)
           r == Root(File)
<1>1. /\ run # None /\ run \in Requests /\ pc = "open" /\ t \in Locations /\ r \in Roots
      /\ at \in 1..3 /\ File \in Files /\ mem.manifest # None
      /\ stage \in [Locations -> [Roots -> Stages \cup {None}]]
      /\ UNCHANGED <<tree, published, litter, known, past, failures>>
  BY InRun DEF OpenStage, IInv, TypeOK, Running, Unpinned
<1>2. CASE Interrupt /\ UNCHANGED stage
  BY <1>1, <1>2, GivesUp DEF IInv, TypeOK
<1>3. CASE /\ ~Foreign(run, stage[t][r])
           /\ stage' = IF stage[t][r] = None
                       THEN [stage EXCEPT ![t][r] = [by |-> run, file |-> "none", of |-> Absent]]
                       ELSE stage
           /\ Goto("copy", at) /\ UNCHANGED <<journal, mem, inv>>
  <2> DEFINE new == [by |-> run, file |-> "none", of |-> Absent]
  <2>1. new \in Stages /\ new.by = run
    BY <1>1, Constants DEF Stages, Absent
  <2> HIDE DEF new
  <2>2. stage' \in [Locations -> [Roots -> Stages \cup {None}]]
    BY <1>1, <1>3, <2>1 DEF new
  <2>3. stage'[t][r] \in Stages /\ stage'[t][r].by = run
    <3>1. CASE stage[t][r] = None
      BY <1>1, <1>3, <2>1, <3>1 DEF new
    <3>2. CASE stage[t][r] # None
      BY <1>1, <1>3, <3>2 DEF Foreign
    <3> QED
      BY <3>1, <3>2
  <2>4. Copying'
    BY <1>1, <1>3, <2>3 DEF Copying, AtFile, Goto, Staged, File
  <2>5. Snapshots'
    BY <1>1, <1>3 DEF IInv, Snapshots, Goto
  <2> QED
    BY <1>1, <1>3, <2>2, <2>4, <2>5, GoesOn
       DEF Places, OfBackup, OfOrigin, Unpinned, IInv, TypeOK
<1> QED
  BY <1>1, <1>2, <1>3 DEF OpenStage

(* The steps of a copy that do not name the place of their file: on, or given up. *)
LEMMA OnwardIInv ==
  ASSUME IInv, pc \in AtFile \cup {"close"}, Onward,
         stage' \in [Locations -> [Roots -> Stages \cup {None}]],
         Staged \in Stages, Staged.by = run,
         stage'[Target(run)][Root(File)] \in Stages,
         stage'[Target(run)][Root(File)].by = run,
         UNCHANGED <<tree, published, litter, known, journal, mem, inv, past, failures>>
  PROVE  IInv'
<1>1. /\ run # None /\ at \in 1..3 /\ mem.manifest # None
  BY InRun DEF IInv, TypeOK, Running, Unpinned, AtFile
<1>2. CASE at < 3 /\ Root(Order[at + 1]) = Root(File) /\ Goto("copy", at + 1)
  <2>1. at + 1 \in 1..3
    BY <1>1, <1>2
  <2>2. Copying'
    BY <1>2 DEF Copying, AtFile, Goto, Staged, File
  <2>3. Snapshots'
    BY <1>2 DEF IInv, Snapshots, Goto, AtFile
  <2> QED
    BY <1>1, <1>2, <2>1, <2>2, <2>3, GoesOn
       DEF Places, OfBackup, OfOrigin, Unpinned, IInv, TypeOK
<1>3. CASE Goto("close", at)
  <2>1. Copying' /\ Snapshots'
    BY <1>3 DEF IInv, Snapshots, Goto, AtFile, Copying
  <2> QED
    BY <1>1, <1>3, <2>1, GoesOn DEF Places, OfBackup, OfOrigin, Unpinned, IInv, TypeOK
<1> QED
  BY <1>2, <1>3 DEF Onward

LEMMA CopyIInv == ASSUME IInv, Copy PROVE IInv'
<1> DEFINE t == Target(run)
           r == Root(File)
           now == tree[Source][File]
<1>1. /\ run # None /\ run \in Requests /\ pc = "copy" /\ t \in Locations /\ r \in Roots
      /\ at \in 1..3 /\ File \in Files /\ mem.manifest # None /\ now \in Absent..Torn
      /\ stage \in [Locations -> [Roots -> Stages \cup {None}]]
      /\ Staged \in Stages /\ Staged.by = run /\ stage[t][r] = Staged
      /\ UNCHANGED <<tree, published, litter, known, past, failures>>
  BY InRun DEF Copy, IInv, TypeOK, Running, Unpinned, Copying, AtFile, Staged
<1>2. CASE Interrupt /\ UNCHANGED stage
  BY <1>1, <1>2, GivesUp DEF IInv, TypeOK
<1>3. CASE Onward /\ UNCHANGED <<stage, journal, mem, inv>>
  BY <1>1, <1>3, OnwardIInv DEF AtFile
<1>4. ASSUME tree[t][File] = Absent, Goto("fill", at), UNCHANGED <<journal, mem, inv>>,
             NEW new \in Stages, new.by = run, stage' = [stage EXCEPT ![t][r] = new]
      PROVE  IInv'
  <2>1. stage' \in [Locations -> [Roots -> Stages \cup {None}]] /\ stage'[t][r] = new
    BY <1>1, <1>4
  <2>2. Copying'
    BY <1>1, <1>4, <2>1 DEF Copying, AtFile, Goto, Staged, File
  <2>3. Snapshots'
    BY <1>1, <1>4 DEF IInv, Snapshots, Goto
  <2> QED
    BY <1>1, <1>4, <2>1, <2>2, <2>3, GoesOn
       DEF Places, OfBackup, OfOrigin, Unpinned, IInv, TypeOK
<1>5. CASE /\ tree[t][File] = Absent /\ Goto("fill", at) /\ UNCHANGED <<journal, mem, inv>>
           /\ stage' = [stage EXCEPT ![t][r].file = "part", ![t][r].of = now]
  <2> DEFINE new == [Staged EXCEPT !.file = "part", !.of = now]
  <2>1. new \in Stages /\ new.by = run
    BY <1>1 DEF Stages
  <2>2. stage' = [stage EXCEPT ![t][r] = new]
    BY <1>1, <1>5
  <2> HIDE DEF new
  <2> QED
    BY <1>4, <1>5, <2>1, <2>2
<1>6. CASE /\ tree[t][File] = Absent /\ Goto("fill", at)
           /\ UNCHANGED <<stage, journal, mem, inv>>
  <2>1. stage' = [stage EXCEPT ![t][r] = Staged]
    BY <1>1, <1>6
  <2> QED
    BY <1>1, <1>4, <1>6, <2>1
<1> QED
  BY <1>2, <1>3, <1>5, <1>6 DEF Copy

(* Put replaces the staged file. *)
LEMMA PutStaged ==
  ASSUME IInv, pc \in AtFile, NEW state \in {"none", "part", "full", "sealed"},
         NEW content \in Absent..Torn, Put(state, content)
  PROVE  /\ stage' \in [Locations -> [Roots -> Stages \cup {None}]]
         /\ stage'[Target(run)][Root(File)] \in Stages
         /\ stage'[Target(run)][Root(File)].by = run
<1> DEFINE new == [by |-> run, file |-> state, of |-> content]
<1>1. run \in Requests /\ Target(run) \in Locations /\ Root(File) \in Roots
  BY InRun DEF AtFile
<1>2. new \in Stages /\ new.by = run
  BY <1>1 DEF Stages
<1>3. stage' = [stage EXCEPT ![Target(run)][Root(File)] = new]
  BY DEF Put
<1> HIDE DEF new
<1> QED
  BY <1>1, <1>2, <1>3 DEF IInv, TypeOK

LEMMA FillIInv == ASSUME IInv, Fill PROVE IInv'
<1> DEFINE content == IF Staged.of = tree[Source][File] THEN Staged.of ELSE Torn
<1>1. /\ pc = "fill" /\ run # None /\ at \in 1..3 /\ mem.manifest # None
      /\ tree[Target(run)][File] = Absent /\ Staged \in Stages
  BY InRun DEF Fill, IInv, TypeOK, Running, Unpinned, Copying, AtFile
<1>2. content \in Absent..Torn
  BY <1>1, Constants DEF Stages, Absent
<1> HIDE DEF content
<1>3. /\ Put("full", content) /\ Goto("seal", at)
      /\ UNCHANGED <<tree, published, litter, known, journal, mem, inv, past, failures>>
  BY DEF Fill, content
<1>4. Copying'
  BY <1>1, <1>2, <1>3, PutStaged DEF Copying, AtFile, Goto, Staged, File
<1>5. Snapshots'
  BY <1>1, <1>3 DEF IInv, Snapshots, Goto
<1> QED
  BY <1>1, <1>2, <1>3, <1>4, <1>5, PutStaged, GoesOn
     DEF Places, OfBackup, OfOrigin, Unpinned, IInv, TypeOK, AtFile

LEMMA SealIInv == ASSUME IInv, Seal PROVE IInv'
<1>1. /\ pc = "seal" /\ run # None /\ at \in 1..3 /\ mem.manifest # None
      /\ tree[Target(run)][File] = Absent /\ Staged \in Stages
  BY InRun DEF Seal, IInv, TypeOK, Running, Unpinned, Copying, AtFile
<1>2. Staged.of \in Absent..Torn
  BY <1>1 DEF Stages
<1>3. /\ Put("sealed", Staged.of) /\ Goto("place", at)
      /\ UNCHANGED <<tree, published, litter, known, journal, mem, inv, past, failures>>
  BY DEF Seal
<1>4. Copying'
  BY <1>1, <1>2, <1>3, PutStaged DEF Copying, AtFile, Goto, Staged, File
<1>5. Snapshots'
  BY <1>1, <1>3 DEF IInv, Snapshots, Goto
<1> QED
  BY <1>1, <1>2, <1>3, <1>4, <1>5, PutStaged, GoesOn
     DEF Places, OfBackup, OfOrigin, Unpinned, IInv, TypeOK, AtFile

LEMMA PlaceIInv == ASSUME IInv, Place PROVE IInv'
<1> DEFINE t == Target(run)
<1>1. /\ pc = "place" /\ run # None /\ run \in Requests /\ at \in 1..3 /\ mem.manifest # None
      /\ t \in Locations /\ File \in Files /\ Pin \in Pins
      /\ tree[t][File] = Absent /\ Staged \in Stages /\ Absent \in Absent..Torn
      /\ UNCHANGED <<published, litter, known, failures>>
  BY InRun, Constants
     DEF Place, IInv, TypeOK, Running, Unpinned, Copying, AtFile, Absent
<1>2. CASE Interrupt /\ UNCHANGED <<tree, stage, past>>
  BY <1>1, <1>2, GivesUp DEF IInv, TypeOK
<1>3. CASE /\ Staged.of = Pin[File] /\ tree' = [tree EXCEPT ![t][File] = Staged.of]
           /\ Put("none", Absent) /\ past' = past \cup {tree'["origin"]}
           /\ Onward /\ UNCHANGED <<journal, mem, inv>>
  <2>1. /\ stage' \in [Locations -> [Roots -> Stages \cup {None}]]
        /\ stage'[t][Root(File)] \in Stages /\ stage'[t][Root(File)].by = run
    BY <1>1, <1>3, PutStaged DEF AtFile
  <2>2. /\ tree \in [Locations -> [Files -> Absent..Torn]]
        /\ Staged.of \in Absent..MaxVersion /\ Staged.of \in Absent..Torn
    BY <1>1, <1>3 DEF IInv, TypeOK, Pins, Stages
  <2>3. /\ tree' \in [Locations -> [Files -> Absent..Torn]]
        /\ tree'[t] = [tree[t] EXCEPT ![File] = Staged.of]
        /\ \A l \in Locations \ {t} : tree'[l] = tree[l]
    BY <1>1, <1>3, <2>2
  <2>4. tree'["origin"] \in Pins
    <3>1. tree["origin"] \in Pins
      BY Constants DEF IInv, Snapshots, TypeOK, NoFiles, Pins, Absent
    <3>2. CASE t = "origin"
      BY <1>1, <2>2, <2>3, <3>1, <3>2 DEF Pins
    <3>3. CASE t # "origin"
      BY <2>3, <3>1, <3>3 DEF Locations
    <3> QED
      BY <3>2, <3>3
  <2>5. /\ run' = run /\ at' \in 1..3 /\ pc' \in {"copy", "close"}
        /\ pc' = "copy" => Root(Order[at']) = Root(File)
    BY <1>1, <1>3 DEF Onward, Goto
  <2>6. TypeOK'
    BY <1>1, <1>3, <2>1, <2>3, <2>4, <2>5 DEF IInv, TypeOK, Places
  <2>7. Running'
    BY <1>1, <1>3, <2>5 DEF IInv, Running, OfBackup, OfOrigin, Unpinned
  <2>8. Pinnings'
    BY <1>1, <1>3, SameJournals
  <2>9. Snapshots'
    <3>1. tree'["origin"] \in past'
      BY <1>3
    <3>2. Op[run] # "restore" => tree'["origin"] = tree["origin"]
      BY <1>1, <2>3, Destinations DEF Locations
    <3> QED
      BY <1>1, <2>5, <3>1, <3>2 DEF IInv, Snapshots
  <2>10. Copying'
    BY <2>1, <2>5 DEF Copying, AtFile, Staged, File
  <2>11. Publishing'
    BY <1>1, <1>3, <2>5, SameJournals DEF Publishing
  <2>12. BackupStaysWhole'
    <3>1. CASE t = "backup"
      <4>1. ASSUME NEW q \in Requests, Verified(q), Op[q] = "backup" PROVE FALSE
        <5>1. published = journal[q].manifest /\ Pinned(q) /\ tree["backup"] = published.pin
          BY <4>1 DEF IInv, BackupStaysWhole, Publishing, Verified
        <5>2. published.pin[File] # Absent
          BY <1>1, <4>1, <5>1 DEF IInv, Pinnings, Was
        <5> QED
          BY <1>1, <3>1, <5>1, <5>2
      <4> QED
        BY <1>3, <4>1 DEF BackupStaysWhole, Verified
    <3>2. CASE t # "backup"
      BY <1>1, <1>3, <2>3, <3>2, SameBackup DEF Locations
    <3> QED
      BY <3>1, <3>2
  <2> QED
    BY <2>6, <2>7, <2>8, <2>9, <2>10, <2>11, <2>12 DEF IInv
<1> QED
  BY <1>1, <1>2, <1>3 DEF Place

LEMMA CloseStageIInv == ASSUME IInv, CloseStage PROVE IInv'
<1>1. /\ pc = "close" /\ run # None /\ run \in Requests /\ at \in 1..3 /\ mem.manifest # None
      /\ Op[run] \in Operations
      /\ UNCHANGED <<tree, published, litter, known, past, failures>>
  BY InRun DEF CloseStage, IInv, TypeOK, Running, Unpinned
<1>2. stage' \in [Locations -> [Roots -> Stages \cup {None}]]
  BY DEF CloseStage, IInv, TypeOK
<1>3. CASE Interrupt
  BY <1>1, <1>2, <1>3, GivesUp DEF IInv, TypeOK
<1>4. ASSUME NEW to \in {"open", "manifest", "copied"}, NEW i \in 1..3, Goto(to, i),
             to = "manifest" => Op[run] = "backup", to = "copied" => Op[run] # "backup",
             UNCHANGED <<journal, mem, inv>>
      PROVE  IInv'
  <2>1. Copying' /\ Snapshots'
    BY <1>1, <1>4 DEF IInv, Snapshots, Goto, AtFile, Copying
  <2> QED
    BY <1>1, <1>2, <1>4, <2>1, GoesOn DEF Places, OfBackup, OfOrigin, Unpinned, IInv, TypeOK
<1> QED
  BY <1>1, <1>3, <1>4 DEF CloseStage

LEMMA WriteManifestIInv == ASSUME IInv, WriteManifest PROVE IInv'
<1>1. /\ pc = "manifest" /\ run # None /\ mem.manifest # None /\ Op[run] = "backup"
      /\ UNCHANGED <<tree, stage, published, litter, known, past, failures>>
  BY InRun DEF WriteManifest, IInv, Running, Unpinned, OfBackup, disk
<1>2. CASE Interrupt
  BY <1>1, <1>2, GivesUp DEF IInv, TypeOK
<1>3. ASSUME NEW to \in {"publish", "copied"}, Goto(to, 1),
             to = "publish" => published = None, to = "copied" => published = mem.manifest,
             UNCHANGED <<journal, mem, inv>>
      PROVE  IInv'
  <2>1. Copying' /\ Snapshots'
    BY <1>1, <1>3 DEF IInv, Snapshots, Goto, AtFile, Copying
  <2> QED
    BY <1>1, <1>3, <2>1, GoesOn DEF Places, OfBackup, OfOrigin, Unpinned, IInv, TypeOK
<1> QED
  BY <1>1, <1>2, <1>3 DEF WriteManifest

LEMMA PublishManifestIInv == ASSUME IInv, PublishManifest PROVE IInv'
<1>1. /\ pc = "publish" /\ run # None /\ mem.manifest # None /\ Was(mem.manifest)
      /\ published = None /\ published' = mem.manifest
      /\ pc' = "copied" /\ at' = 1 /\ run' = run
      /\ UNCHANGED <<tree, stage, litter, known, journal, mem, inv, past, failures>>
  BY InRun DEF PublishManifest, IInv, Running, Unpinned, Publishing, Goto
<1>2. TypeOK'
  BY <1>1 DEF IInv, TypeOK, Places, Was
<1>3. Running'
  BY <1>1 DEF IInv, Running, OfBackup, OfOrigin, Unpinned
<1>4. Pinnings'
  BY <1>1 DEF IInv, Pinnings, Was, Pinned
<1>5. Snapshots' /\ Copying'
  BY <1>1 DEF IInv, Snapshots, Copying, AtFile
<1>6. \A q \in Requests :
        journal[q] # None /\ (journal[q].copied \/ Verified(q)) => Op[q] # "backup"
  BY <1>1 DEF IInv, Publishing, Pinned
<1>7. Publishing'
  BY <1>1, <1>6 DEF IInv, Publishing, Pinned, Verified
<1>8. BackupStaysWhole'
  BY <1>1, <1>6 DEF BackupStaysWhole, Verified
<1> QED
  BY <1>2, <1>3, <1>4, <1>5, <1>7, <1>8 DEF IInv

LEMMA IndexIInv == ASSUME IInv, Index PROVE IInv'
<1>1. /\ pc = "index" /\ run # None /\ mem.manifest # None /\ Was(mem.manifest) /\ mem.copied
      /\ known' = known \cup {mem.manifest} /\ Goto("verify", 1)
      /\ UNCHANGED <<tree, stage, published, litter, journal, mem, inv, past, failures>>
  BY InRun DEF Index, IInv, Running, Unpinned, Publishing
<1>2. known \subseteq known' /\ known' \subseteq Manifests
  BY <1>1 DEF IInv, TypeOK, Was
<1>3. Copying' /\ Snapshots'
  BY <1>1 DEF IInv, Snapshots, Goto, AtFile, Copying
<1> QED
  BY <1>1, <1>2, <1>3, GoesOn DEF Places, OfBackup, OfOrigin, Unpinned, IInv, TypeOK

(* What Verify has compared before it reports VERIFIED. *)
Compared(q) == tree[Target(q)] = mem.manifest.pin /\ Unstaged(Target(q))

LEMMA VerifyCompares ==
  ASSUME IInv, Verify, ~Interrupt
  PROVE  /\ Compared(run) /\ (Op[run] = "backup" => Loadable /\ published = mem.manifest)
         /\ journal' = [journal EXCEPT ![run] = [mem EXCEPT !.status = "VERIFIED"]] /\ Idle
<1>1. /\ pc = "verify" /\ run # None /\ run \in Requests /\ mem.copied
      /\ mem = journal[run] /\ mem # None
  BY InRun DEF Verify, IInv, Publishing
<1>2. Op[run] = "backup" => published = mem.manifest
  BY <1>1 DEF IInv, Publishing
<1>3. /\ IF Op[run] = "backup" THEN Loadable ELSE tree[Target(run)] = Pin /\ Unstaged(Target(run))
      /\ journal' = [journal EXCEPT ![run] = [mem EXCEPT !.status = "VERIFIED"]] /\ Idle
  BY DEF Verify
<1>4. Compared(run)
  BY <1>1, <1>2, <1>3, Destinations DEF Compared, Loadable, Pin
<1> QED
  BY <1>2, <1>3, <1>4

LEMMA VerifyIInv == ASSUME IInv, Verify PROVE IInv'
<1>1. /\ pc = "verify" /\ run # None /\ run \in Requests /\ mem.copied /\ mem.manifest # None
      /\ mem \in Journals /\ mem = journal[run] /\ mem # None /\ Was(mem.manifest)
      /\ UNCHANGED <<tree, stage, published, litter, known, past, failures>>
  BY InRun DEF Verify, IInv, Publishing, Running, Unpinned, disk
<1>2. CASE Interrupt
  BY <1>1, <1>2, GivesUp DEF IInv, TypeOK
<1>3. CASE ~Interrupt
  <2> DEFINE last == [mem EXCEPT !.status = "VERIFIED"]
  <2>1. /\ last \in Journals /\ last.manifest = mem.manifest /\ last # None
    BY <1>1, Constants DEF Journals
  <2>2. /\ Compared(run) /\ (Op[run] = "backup" => Loadable /\ published = mem.manifest)
        /\ journal' = [journal EXCEPT ![run] = last]
        /\ pc' = "idle" /\ run' = None /\ mem' = None /\ at' = 1 /\ inv' = NoFiles
    BY <1>3, VerifyCompares DEF Idle
  <2> HIDE DEF last
  <2>3. journal'[run] = last /\ \A q \in Requests \ {run} : journal'[q] = journal[q]
    BY <1>1, <2>2 DEF IInv, TypeOK
  <2>4. NoFiles \in Pins
    BY Constants DEF NoFiles, Pins, Absent
  <2>5. TypeOK'
    BY <1>1, <2>1, <2>2, <2>4 DEF IInv, TypeOK, Places
  <2>6. Running'
    BY <2>2 DEF Running, OfBackup, OfOrigin, Unpinned
  <2>7. Pinnings'
    BY <1>1, <2>1, <2>3 DEF IInv, Pinnings, Was, Pinned
  <2>8. Snapshots' /\ Copying'
    BY <1>1, <2>2 DEF IInv, Snapshots, Copying, AtFile
  <2>9. Publishing'
    BY <1>1, <2>1, <2>2, <2>3 DEF IInv, Publishing, Verified, Pinned
  <2>10. BackupStaysWhole'
    <3>1. CASE Op[run] = "backup"
      BY <1>1, <2>1, <2>2, <2>3, <3>1 DEF IInv, BackupStaysWhole, Verified, Loadable
    <3>2. CASE Op[run] # "backup"
      BY <1>1, <2>3, <3>2 DEF IInv, BackupStaysWhole, Verified
    <3> QED
      BY <3>1, <3>2
  <2> QED
    BY <2>5, <2>6, <2>7, <2>8, <2>9, <2>10 DEF IInv
<1> QED
  BY <1>2, <1>3

LEMMA OperationFailsIInv == ASSUME IInv, OperationFails PROVE IInv'
<1>1. failures' \in 0..MaxFailures
  BY Constants DEF OperationFails, IInv, TypeOK
<1> QED
  BY <1>1, GivesUp DEF OperationFails, disk, IInv, TypeOK

LEMMA CrashIInv == ASSUME IInv, Crash PROVE IInv'
<1>1. /\ pc' = "idle" /\ run' = None /\ mem' = None /\ at' = 1 /\ inv' = NoFiles
      /\ litter' = (litter \/ pc = "publish")
      /\ UNCHANGED <<tree, stage, published, known, journal, past>>
  BY DEF Crash, Idle
<1>2. failures' \in 0..MaxFailures /\ NoFiles \in Pins
  BY Constants DEF Crash, IInv, TypeOK, NoFiles, Pins, Absent
<1>3. litter' \in BOOLEAN
  BY <1>1, Zenon
<1>4. TypeOK'
  BY <1>1, <1>2, <1>3 DEF IInv, TypeOK, Places
<1>5. Running'
  BY <1>1 DEF Running, OfBackup, OfOrigin, Unpinned
<1>6. Pinnings' /\ Publishing'
  BY <1>1, SameJournals DEF Publishing
<1>7. Snapshots' /\ Copying'
  BY <1>1 DEF IInv, Snapshots, Copying, AtFile
<1>8. BackupStaysWhole'
  <2>1. CASE pc = "publish"
    BY <1>1, <2>1 DEF IInv, BackupStaysWhole, Verified, Publishing, Pinned
  <2>2. CASE pc # "publish"
    <3>1. litter' <=> litter
      BY <1>1, <2>2
    <3> QED
      BY <1>1, <3>1 DEF IInv, BackupStaysWhole, Verified
  <2> QED
    BY <2>1, <2>2
<1> QED
  BY <1>4, <1>5, <1>6, <1>7, <1>8 DEF IInv

LEMMA EditIInv == ASSUME IInv, NEW f \in Files, Edit(f) PROVE IInv'
<1> DEFINE old == tree["origin"]
           new == [old EXCEPT ![f] = @ + 1]
<1>1. /\ old[f] \in 1..(MaxVersion - 1) /\ tree' = [tree EXCEPT !["origin"] = new]
      /\ past' = past \cup {new}
      /\ UNCHANGED <<stage, published, litter, known, journal, run, mem, pc, at, inv, failures>>
  BY DEF Edit, proc
<1>2. old \in Pins
  BY Constants DEF IInv, Snapshots, TypeOK, NoFiles, Pins, Absent
<1>3. new \in Pins
  BY <1>1, <1>2, Constants DEF Pins, Absent
<1>grows. ASSUME NEW g \in Files
       PROVE  /\ old[g] \in Nat /\ new[g] \in Nat /\ old[g] <= new[g]
              /\ old[g] # Absent => new[g] # Absent
              /\ old[g] = Absent => new[g] = Absent
  BY <1>1, <1>2, Constants DEF Pins, Absent
<1> HIDE DEF new
<1>4. tree \in [Locations -> [Files -> Absent..Torn]] /\ new \in [Files -> Absent..Torn]
  BY <1>3, Constants DEF IInv, TypeOK
<1>5. tree'["origin"] = new /\ \A l \in Locations \ {"origin"} : tree'[l] = tree[l]
  BY <1>1, <1>4 DEF Locations
<1>6. TypeOK'
  BY <1>1, <1>3, <1>4 DEF IInv, TypeOK
<1>7. Running'
  BY <1>1 DEF IInv, Running
<1>8. Pinnings' /\ Publishing'
  BY <1>1, SameJournals DEF IInv, Publishing
<1>9. BackupStaysWhole'
  BY <1>1, <1>5, SameBackup DEF Locations
<1>10. Snapshots'
  <2>1. \A g \in Files : old[g] # Absent => new[g] # Absent
    BY <1>grows
  <2>2. pc = "inventory" =>
          \A i \in 1..3 : i < at => inv[Order[i]] \in 1..new[Order[i]]
    <3> SUFFICES ASSUME pc = "inventory", NEW i \in 1..3, i < at
                 PROVE  inv[Order[i]] \in 1..new[Order[i]]
      OBVIOUS
    <3>1. inv[Order[i]] \in 1..old[Order[i]]
      BY DEF IInv, Snapshots
    <3> QED
      BY <1>grows, <3>1, Positions
  <2>3. pc = "recheck" =>
          \E s \in past : \A i \in 1..3 :
            /\ inv[Order[i]] \in 1..s[Order[i]]
            /\ s[Order[i]] <= new[Order[i]]
            /\ i < at => inv[Order[i]] = s[Order[i]]
    <3> SUFFICES ASSUME pc = "recheck"
                 PROVE  \E s \in past : \A i \in 1..3 :
                          /\ inv[Order[i]] \in 1..s[Order[i]]
                          /\ s[Order[i]] <= new[Order[i]]
                          /\ i < at => inv[Order[i]] = s[Order[i]]
      OBVIOUS
    <3>1. PICK s \in past : \A i \in 1..3 :
            /\ inv[Order[i]] \in 1..s[Order[i]]
            /\ s[Order[i]] <= old[Order[i]]
            /\ i < at => inv[Order[i]] = s[Order[i]]
      BY DEF IInv, Snapshots
    <3>2. s \in Pins
      BY DEF IInv, TypeOK
    <3>3. \A i \in 1..3 : s[Order[i]] \in Nat
      BY <3>2, Positions DEF Pins, Absent
    <3>4. \A i \in 1..3 : s[Order[i]] <= new[Order[i]]
      BY <1>grows, <3>1, <3>3, Positions
    <3> QED
      BY <3>1, <3>4
  <2> QED
    BY <1>1, <1>5, <2>1, <2>2, <2>3 DEF IInv, Snapshots
<1>11. Copying'
  <2>1. Staged' = Staged /\ File' = File
    BY <1>1 DEF Staged, File
  <2>2. pc \in AtFile \ {"copy"} => tree'[Target(run)][File] = Absent
    <3> SUFFICES ASSUME pc \in AtFile \ {"copy"} PROVE tree'[Target(run)][File] = Absent
      OBVIOUS
    <3>1. Target(run) \in Locations /\ File \in Files /\ tree[Target(run)][File] = Absent
      BY InRun DEF AtFile, IInv, Copying
    <3> QED
      BY <1>grows, <1>5, <3>1
  <2> QED
    BY <1>1, <2>1, <2>2 DEF IInv, Copying
<1> QED
  BY <1>6, <1>7, <1>8, <1>9, <1>10, <1>11 DEF IInv

LEMMA LoseOriginIInv == ASSUME IInv, LoseOrigin PROVE IInv'
<1>1. /\ run = None /\ pc = "idle" /\ tree' = [tree EXCEPT !["origin"] = NoFiles]
      /\ stage' = [stage EXCEPT !["origin"] = [r \in Roots |-> None]]
      /\ UNCHANGED <<published, litter, known, journal, run, mem, pc, at, inv, past, failures>>
  BY DEF LoseOrigin, proc, IInv, Running
<1>2. NoFiles \in [Files -> Absent..Torn]
  BY Constants DEF NoFiles, Absent
<1>3. TypeOK'
  BY <1>1, <1>2 DEF IInv, TypeOK
<1>4. Running'
  BY <1>1 DEF IInv, Running
<1>5. Pinnings' /\ Publishing'
  BY <1>1, SameJournals DEF IInv, Publishing
<1>6. tree'["origin"] = NoFiles /\ tree'["backup"] = tree["backup"]
  BY <1>1 DEF IInv, TypeOK, Locations
<1>7. Snapshots' /\ Copying'
  BY <1>1, <1>6 DEF Snapshots, Copying, AtFile
<1>8. BackupStaysWhole'
  BY <1>1, <1>6, SameBackup
<1> QED
  BY <1>3, <1>4, <1>5, <1>7, <1>8 DEF IInv

LEMMA StepIInv == IInv /\ [Next]_vars => IInv'
<1> SUFFICES ASSUME IInv, [Next]_vars PROVE IInv'
  OBVIOUS
<1>1. CASE \E q \in Requests : Begin(q)
  BY <1>1, BeginIInv
<1>2. CASE Step
  BY <1>2, InventoryIInv, RecheckIInv, DriftIInv, LoadIInv, BeginCopyIInv, OpenStageIInv,
     CopyIInv, FillIInv, SealIInv, PlaceIInv, CloseStageIInv, WriteManifestIInv,
     PublishManifestIInv, CopiedIInv, IndexIInv, VerifyIInv DEF Step
<1>3. CASE OperationFails \/ Crash \/ LoseOrigin
  BY <1>3, OperationFailsIInv, CrashIInv, LoseOriginIInv
<1>4. CASE \E f \in Files : Edit(f)
  BY <1>4, EditIInv
<1>5. CASE UNCHANGED vars
  <2>1. UNCHANGED <<tree, stage, published, litter, known, journal, run, mem, pc, at, inv,
                    past, failures>>
    BY <1>5 DEF vars, disk, proc
  <2>2. Pinnings' /\ BackupStaysWhole'
    BY <2>1, SameJournals, SameBackup
  <2>3. TypeOK' /\ Running' /\ Snapshots'
    BY <2>1 DEF IInv, TypeOK, Running, Snapshots
  <2>4. Copying'
    BY <2>1 DEF IInv, Copying, Staged, File
  <2>5. Publishing'
    BY <2>1, SameJournals DEF IInv, Publishing
  <2> QED
    BY <2>2, <2>3, <2>4, <2>5 DEF IInv
<1> QED
  BY <1>1, <1>2, <1>3, <1>4, <1>5 DEF Next

(* What a backup or a restore relies on between its steps - the inventories it
   took, the bytes it copied, the manifest it published - stands in every
   reachable state. *)
THEOREM Invariance == Spec => []IInv
  BY InitIInv, StepIInv, PTL DEF Spec
------------------------------------------------------------------------------
(* What a step does to the journal of any request: it leaves it alone, makes it, saves it
   with the manifest it has, or gives it its first one. *)
LEMMA JournalSteps ==
  ASSUME IInv, [Next]_vars, NEW q \in Requests
  PROVE  \/ journal'[q] = journal[q]
         \/ ~Verified(q) /\ (Pinned(q) => Pinned(q)' /\ journal'[q].manifest = journal[q].manifest)
<1>1. journal \in [Requests -> Journals \cup {None}] /\ None \notin Journals
  BY Constants DEF IInv, TypeOK
<1>2. ASSUME NEW r \in Requests, Begin(r)
      PROVE  journal'[q] = journal[q] \/ journal[q] = None
  BY <1>1, <1>2 DEF Begin, Enter
<1>3. ASSUME run # None, NEW j \in Journals, journal' = [journal EXCEPT ![run] = j],
             mem.manifest # None => j.manifest = mem.manifest
      PROVE  \/ journal'[q] = journal[q]
             \/ ~Verified(q) /\ (Pinned(q) => Pinned(q)' /\ journal'[q].manifest = journal[q].manifest)
  <2>1. mem = journal[run] /\ mem.status # "VERIFIED" /\ mem \in Journals /\ run \in Requests
    BY <1>3, InRun
  <2>2. CASE q = run
    BY <1>1, <1>3, <2>1, <2>2 DEF Verified, Pinned
  <2>3. CASE q # run
    BY <1>1, <1>3, <2>3
  <2> QED
    BY <2>2, <2>3
<1>4. CASE Interrupt /\ run # None
  <2> DEFINE j == [mem EXCEPT !.status = "INTERRUPTED"]
  <2>1. j \in Journals /\ j.manifest = mem.manifest
    BY <1>4, InRun DEF Journals
  <2> HIDE DEF j
  <2>2. journal' = [journal EXCEPT ![run] = j]
    BY <1>4 DEF Interrupt, j
  <2> QED
    BY <1>3, <1>4, <2>1, <2>2
<1>5. CASE Recheck
  <2>1. /\ run # None /\ run \in Requests /\ mem \in Journals /\ mem.manifest = None /\ inv \in Pins
    BY <1>5, InRun DEF Recheck, IInv, Running, TypeOK
  <2>2. CASE Save([mem EXCEPT !.manifest = [by |-> run, pin |-> inv]])
    <3> DEFINE j == [mem EXCEPT !.manifest = [by |-> run, pin |-> inv]]
    <3>1. j \in Journals
      BY <2>1 DEF Journals, Manifests
    <3> HIDE DEF j
    <3>2. journal' = [journal EXCEPT ![run] = j]
      BY <2>2 DEF Save, j
    <3> QED
      BY <1>3, <2>1, <3>1, <3>2
  <2> QED
    BY <1>4, <1>5, <2>1, <2>2 DEF Recheck
<1>6. CASE Load
  <2>1. run # None /\ mem \in Journals
    BY <1>6, InRun DEF Load
  <2>2. CASE Loadable /\ mem.manifest \in {None, published}
    <3> DEFINE j == [mem EXCEPT !.manifest = published]
    <3>1. published \in Manifests
      BY <2>2 DEF Loadable, IInv, TypeOK
    <3>2. j \in Journals /\ (mem.manifest # None => j.manifest = mem.manifest)
      BY <2>1, <2>2, <3>1 DEF Journals
    <3> HIDE DEF j
    <3>3. journal' = [journal EXCEPT ![run] = j]
      BY <1>6, <2>2 DEF Load, Save, j
    <3> QED
      BY <1>3, <2>1, <3>2, <3>3
  <2> QED
    BY <1>4, <1>6, <2>1, <2>2 DEF Load
<1>7. CASE BeginCopy
  <2> DEFINE j == [mem EXCEPT !.status = "COPYING"]
  <2>1. run # None /\ j \in Journals /\ j.manifest = mem.manifest
    BY <1>7, InRun DEF BeginCopy, Journals
  <2> HIDE DEF j
  <2>2. journal' = [journal EXCEPT ![run] = j]
    BY <1>7 DEF BeginCopy, Save, j
  <2> QED
    BY <1>3, <2>1, <2>2
<1>8. CASE Copied
  <2> DEFINE j == [mem EXCEPT !.copied = TRUE, !.status = "VERIFYING"]
  <2>1. run # None /\ j \in Journals /\ j.manifest = mem.manifest
    BY <1>8, InRun DEF Copied, Journals
  <2> HIDE DEF j
  <2>2. journal' = [journal EXCEPT ![run] = j]
    BY <1>8 DEF Copied, Save, j
  <2> QED
    BY <1>3, <2>1, <2>2
<1>9. CASE Verify
  <2> DEFINE j == [mem EXCEPT !.status = "VERIFIED"]
  <2>1. run # None /\ j \in Journals /\ j.manifest = mem.manifest
    BY <1>9, InRun DEF Verify, Journals
  <2> HIDE DEF j
  <2>2. CASE ~Interrupt
    <3>1. journal' = [journal EXCEPT ![run] = j]
      BY <1>9, <2>2, VerifyCompares DEF j
    <3> QED
      BY <1>3, <2>1, <3>1
  <2> QED
    BY <1>4, <2>1, <2>2
<1>10. CASE \/ Inventory \/ Fill \/ Seal \/ PublishManifest \/ Index \/ Crash \/ LoseOrigin
            \/ (\E f \in Files : Edit(f)) \/ UNCHANGED vars
  BY <1>10 DEF Inventory, Fill, Seal, PublishManifest, Index, Crash, LoseOrigin, Edit, vars
<1>11. CASE Drift \/ OpenStage \/ Copy \/ Place \/ CloseStage \/ WriteManifest
  <2>1. run # None
    BY <1>11, InRun DEF Drift, OpenStage, Copy, Place, CloseStage, WriteManifest
  <2>2. Interrupt \/ journal' = journal
    BY <1>11 DEF Drift, OpenStage, Copy, Place, CloseStage, WriteManifest
  <2> QED
    BY <1>4, <2>1, <2>2
<1>12. CASE OperationFails
  BY <1>4, <1>12 DEF OperationFails
<1>13. CASE \E r \in Requests : Begin(r)
  BY <1>1, <1>2, <1>13 DEF Verified, Pinned
<1> QED
  BY <1>5, <1>6, <1>7, <1>8, <1>9, <1>10, <1>11, <1>12, <1>13 DEF Next, Step

(* A request becomes VERIFIED in no other step than its Verify. *)
LEMMA OnlyVerify ==
  ASSUME IInv, [Next]_vars, NEW q \in Requests, ~Verified(q), Verified(q)'
  PROVE  Verify /\ ~Interrupt /\ q = run
<1>1. journal \in [Requests -> Journals \cup {None}] /\ journal'[q] # None
      /\ journal'[q].status = "VERIFIED" /\ journal'[q] # journal[q]
  BY DEF IInv, TypeOK, Verified
<1>2. ASSUME run # None, NEW j \in Journals, journal' = [journal EXCEPT ![run] = j],
             j.status # "VERIFIED"
      PROVE  FALSE
  BY <1>1, <1>2
<1>3. ASSUME Interrupt, run # None PROVE FALSE
  <2> DEFINE j == [mem EXCEPT !.status = "INTERRUPTED"]
  <2>1. j \in Journals /\ j.status # "VERIFIED"
    BY <1>3, InRun DEF Journals
  <2> HIDE DEF j
  <2>2. journal' = [journal EXCEPT ![run] = j]
    BY <1>3 DEF Interrupt, j
  <2> QED
    BY <1>2, <1>3, <2>1, <2>2
<1>4. ASSUME NEW j \in Journals, Save(j), j.status # "VERIFIED", run # None PROVE FALSE
  BY <1>2, <1>4 DEF Save
<1>5. ASSUME Recheck PROVE FALSE
  <2> DEFINE j == [mem EXCEPT !.manifest = [by |-> run, pin |-> inv]]
  <2>1. run # None /\ run \in Requests /\ mem \in Journals /\ mem.status # "VERIFIED" /\ inv \in Pins
    BY <1>5, InRun DEF Recheck, IInv, TypeOK
  <2>2. j \in Journals /\ j.status # "VERIFIED"
    BY <2>1 DEF Journals, Manifests
  <2> HIDE DEF j
  <2>3. Interrupt \/ journal' = journal \/ Save(j)
    BY <1>5 DEF Recheck, j
  <2> QED
    BY <1>1, <1>3, <1>4, <2>1, <2>2, <2>3
<1>6. ASSUME Load PROVE FALSE
  <2> DEFINE j == [mem EXCEPT !.manifest = published]
  <2>1. run # None /\ mem \in Journals /\ mem.status # "VERIFIED"
    BY <1>6, InRun DEF Load
  <2>2. published \in Manifests \cup {None}
    BY DEF IInv, TypeOK
  <2>3. j \in Journals /\ j.status # "VERIFIED"
    BY <2>1, <2>2 DEF Journals
  <2> HIDE DEF j
  <2>4. Interrupt \/ Save(j)
    BY <1>6 DEF Load, j
  <2> QED
    BY <1>3, <1>4, <2>1, <2>3, <2>4
<1>7. ASSUME BeginCopy PROVE FALSE
  <2> DEFINE j == [mem EXCEPT !.status = "COPYING"]
  <2>1. run # None /\ j \in Journals /\ j.status # "VERIFIED"
    BY <1>7, InRun DEF BeginCopy, Journals
  <2> HIDE DEF j
  <2>2. Save(j)
    BY <1>7 DEF BeginCopy, j
  <2> QED
    BY <1>4, <2>1, <2>2
<1>8. ASSUME Copied PROVE FALSE
  <2> DEFINE j == [mem EXCEPT !.copied = TRUE, !.status = "VERIFYING"]
  <2>1. run # None /\ j \in Journals /\ j.status # "VERIFIED"
    BY <1>8, InRun DEF Copied, Journals
  <2> HIDE DEF j
  <2>2. Save(j)
    BY <1>8 DEF Copied, j
  <2> QED
    BY <1>4, <2>1, <2>2
<1>9. ASSUME NEW r \in Requests, Begin(r) PROVE FALSE
  BY <1>1, <1>9 DEF Begin, Enter, New
<1>10. ASSUME \/ Inventory \/ Fill \/ Seal \/ PublishManifest \/ Index \/ Crash \/ LoseOrigin
              \/ (\E f \in Files : Edit(f)) \/ UNCHANGED vars
       PROVE  FALSE
  BY <1>1, <1>10 DEF Inventory, Fill, Seal, PublishManifest, Index, Crash, LoseOrigin, Edit, vars
<1>11. ASSUME Drift \/ OpenStage \/ Copy \/ Place \/ CloseStage \/ WriteManifest PROVE FALSE
  <2>1. run # None
    BY <1>11, InRun DEF Drift, OpenStage, Copy, Place, CloseStage, WriteManifest
  <2>2. Interrupt \/ journal' = journal
    BY <1>11 DEF Drift, OpenStage, Copy, Place, CloseStage, WriteManifest
  <2> QED
    BY <1>1, <1>3, <2>1, <2>2
<1>12. ASSUME OperationFails PROVE FALSE
  BY <1>3, <1>12 DEF OperationFails
<1>13. Verify
  BY <1>5, <1>6, <1>7, <1>8, <1>9, <1>10, <1>11, <1>12 DEF Next, Step
<1>14. ~Interrupt /\ run # None
  BY <1>3, <1>13, InRun DEF Verify
<1>15. journal' = [journal EXCEPT ![run] = [mem EXCEPT !.status = "VERIFIED"]]
  BY <1>13, <1>14, VerifyCompares
<1>16. q = run
  BY <1>1, <1>15
<1> QED
  BY <1>13, <1>14, <1>16
------------------------------------------------------------------------------
(* Every variable keeps its type. *)
THEOREM TypeCorrect == Spec => []TypeOK
  BY Invariance, PTL DEF IInv

(* A manifest pins bytes that all files had at one moment, whatever the operator edits
   while the inventories are taken. *)
THEOREM SnapshotsExisted == Spec => []SnapshotExisted
<1>1. IInv => SnapshotExisted
  BY DEF IInv, Pinnings, Was, SnapshotExisted
<1> QED
  BY <1>1, Invariance, PTL

(* A verified backup keeps manifest, index entry and bytes, for any number of requests for
   the same destination, deaths and failures. *)
THEOREM BackupsStayWhole == Spec => []BackupStaysWhole
  BY Invariance, PTL DEF IInv

(* VERIFIED is reported of what was compared, and neither it nor a pin ever changes. *)
THEOREM VerifiedStays == Spec => VerifiedForGood
<1> DEFINE Whole == \A q \in Requests :
                      ~Verified(q) /\ Verified(q)' =>
                        /\ tree[Target(q)] = journal'[q].manifest.pin
                        /\ Unstaged(Target(q))
           Final == \A q \in Requests :
                      /\ Pinned(q) => Pinned(q)' /\ journal'[q].manifest = journal[q].manifest
                      /\ Verified(q) => journal'[q] = journal[q]
<1>1. IInv /\ [Next]_vars => Whole
  <2> SUFFICES ASSUME IInv, [Next]_vars, NEW q \in Requests, ~Verified(q), Verified(q)'
               PROVE  tree[Target(q)] = journal'[q].manifest.pin /\ Unstaged(Target(q))
    OBVIOUS
  <2>1. Verify /\ ~Interrupt /\ q = run
    BY OnlyVerify
  <2>2. /\ Compared(run)
        /\ journal' = [journal EXCEPT ![run] = [mem EXCEPT !.status = "VERIFIED"]]
    BY <2>1, VerifyCompares
  <2>3. mem \in Journals /\ journal \in [Requests -> Journals \cup {None}]
    BY <2>1, InRun DEF Verify, IInv, TypeOK
  <2>4. journal'[q].manifest = mem.manifest
    BY <2>1, <2>2, <2>3 DEF Journals
  <2> QED
    BY <2>1, <2>2, <2>4 DEF Compared
<1>2. IInv /\ [Next]_vars => Final
  BY JournalSteps DEF Pinned
<1>3. IInv /\ [Next]_vars => [Whole]_vars /\ [Final]_vars
  BY <1>1, <1>2
<1> QED
  BY <1>3, Invariance, PTL DEF Spec, VerifiedForGood, VerifiedMeansWhole, PinIsFinal
==============================================================================
