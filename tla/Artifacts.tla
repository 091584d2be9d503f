------------------------------- MODULE Artifacts ------------------------------
(***************************************************************************)
(* From the sources of the products to a bundle: verifyArtifacts() of      *)
(* scripts/verify-artifacts.mjs packs, installs and runs each product in a *)
(* new directory and keeps a manifest of it, which assemblePreview() of    *)
(* scripts/assemble-preview.mjs makes a bundle from.  Developers edit the  *)
(* sources meanwhile, npm does as it likes, and the directory may be       *)
(* altered once the rehearsal is over.                                     *)
(*                                                                         *)
(* Files and locks are their versions: a lock is of the files that have    *)
(* its version.  Installed dependencies are modelled by the lock that they *)
(* are the inventory of: their bytes are not compared with anything.       *)
(***************************************************************************)
EXTENDS Naturals, Sequences

CONSTANTS
  Products,    \* in the order in which they are rehearsed
  Locked,      \* the products that have dependencies
  MaxVersion   \* bounds what the developers do

\* What is assumed of the constants.
ASSUME ArtifactsAssumption ==
  Products \in Seq({Products[i] : i \in DOMAIN Products}) \ {<<>>} /\ MaxVersion \in Nat

VARIABLES
  source,      \* of each product: its files and its lock
  out,         \* the directory of each product: package, lock, what is extracted and installed
  manifest,    \* what manifest.json says
  rehearsal,   \* verifyArtifacts(): where it is, the product, the report and what it remembers
  assembly,    \* assemblePreview(): the same
  bundle       \* the new directory of the bundle

artifactsVars == <<source, out, manifest, rehearsal, assembly, bundle>>

AllProducts == {Products[i] : i \in DOMAIN Products}
Versions == 0 .. MaxVersion
Altered == MaxVersion + 1     \* a version that no source has
None == MaxVersion + 2        \* and one for what is not there
Empty == [lock |-> None, tarball |-> None, extracted |-> None, packageLock |-> None, modules |-> None]
NoReport == [packages |-> <<>>, error |-> FALSE]
Torn == [packages |-> <<>>, error |-> TRUE]
NoBundle == [app |-> <<>>, whole |-> FALSE]
------------------------------------------------------------------------------
ArtifactsInit ==
  /\ source = [p \in AllProducts |-> [files |-> 0, lock |-> 0]]
  /\ out = [p \in AllProducts |-> Empty]
  /\ manifest = NoReport
  /\ rehearsal = [at |-> "expect", product |-> 1, report |-> NoReport]
  /\ assembly = [at |-> "start"]
  /\ bundle = NoBundle

\* Developers edit the files or the lock of a product.
Develop ==
  /\ \E p \in AllProducts, part \in {"files", "lock"} :
       source[p][part] < MaxVersion /\ source' = [source EXCEPT ![p][part] = @ + 1]
  /\ UNCHANGED <<out, manifest, rehearsal, assembly, bundle>>

\* Once the rehearsal is over, others alter something in its directory.
Alter ==
  /\ rehearsal.at \in {"done", "failed", "dead"}
  /\ \E p \in AllProducts, part \in DOMAIN Empty :
       out[p][part] # None /\ out' = [out EXCEPT ![p][part] = Altered]
  /\ UNCHANGED <<source, manifest, rehearsal, assembly, bundle>>

Owner == Products[rehearsal.product]
Needs == Owner \in Locked
Here == out[Owner]
Rehearses(next) == rehearsal' = next /\ UNCHANGED <<source, assembly, bundle>>
Goes(at) == Rehearses([rehearsal EXCEPT !.at = at]) /\ UNCHANGED manifest
Writes(part, value) == out' = [out EXCEPT ![Owner][part] = value]

\* save(): the manifest says what the report does.
Saves(report, next) ==
  /\ manifest' = report
  /\ Rehearses([next EXCEPT !.report = report])
  /\ UNCHANGED out

\* A failed assertion, and the process: the error is saved with what there is.
RehearsalFails == Saves([rehearsal.report EXCEPT !.error = TRUE], [rehearsal EXCEPT !.at = "failed"])

\* A death, while the manifest is written too.
Dies ==
  /\ rehearsal.at \notin {"done", "failed", "dead"}
  /\ Rehearses([rehearsal EXCEPT !.at = "dead"])
  /\ manifest' \in {manifest, Torn}
  /\ UNCHANGED out

\* expectedEntries(): what the package shall have.
Expect ==
  /\ rehearsal.at = "expect"
  /\ Rehearses([at |-> "lock", product |-> rehearsal.product, report |-> rehearsal.report,
                expected |-> source[Owner].files])
  /\ UNCHANGED <<out, manifest>>

\* The lock, which is that of these files, is kept beside the package.
KeepLock ==
  /\ rehearsal.at = "lock"
  /\ IF ~Needs THEN Goes("pack") /\ UNCHANGED out
     ELSE IF source[Owner].lock # rehearsal.expected THEN RehearsalFails
     ELSE Goes("pack") /\ Writes("lock", source[Owner].lock)

\* npm packs the files as they are by now, or others.
Pack ==
  /\ rehearsal.at = "pack"
  /\ \E v \in Versions : Goes("packed") /\ Writes("tarball", v)

\* validateEntries(): the package has what was expected, and is extracted.
CheckPack ==
  /\ rehearsal.at = "packed"
  /\ IF Here.tarball # rehearsal.expected THEN RehearsalFails
     ELSE Goes("record") /\ Writes("extracted", Here.tarball)

\* The package is recorded as pending.
Record ==
  /\ rehearsal.at = "record"
  /\ Saves([rehearsal.report EXCEPT !.packages =
              Append(@, [product |-> Owner, package |-> Here.tarball, lock |-> Here.lock,
                         smoke |-> "PENDING", capabilities |-> None])],
           [rehearsal EXCEPT !.at = IF Needs THEN "relock" ELSE "smoke"])

\* The lock of the sources is still the one that was kept, which is that of the package
\* and the one to install from.
Relock ==
  /\ rehearsal.at = "relock"
  /\ IF source[Owner].lock # Here.lock \/ Here.lock # Here.extracted THEN RehearsalFails
     ELSE Goes("install") /\ Writes("packageLock", Here.lock)

\* npm ci, which may write the lock as well.
Install ==
  /\ rehearsal.at = "install"
  /\ \E v, w \in {Here.packageLock, Altered} :
       /\ out' = [out EXCEPT ![Owner] = [@ EXCEPT !.packageLock = v, !.modules = w]]
       /\ Goes("installed")

\* verifyInstalledDependencies(): neither lock moved, and what is there is its inventory.
CheckInstalled ==
  /\ rehearsal.at = "installed"
  /\ IF Here.packageLock = Here.lock /\ Here.modules = Here.lock /\ source[Owner].lock = Here.lock
     THEN Goes("smoke") /\ UNCHANGED out
     ELSE RehearsalFails

\* smokePackage(): the package runs, with what is installed for it, and says what it can.
smokePackage(files, modules) == <<files, modules>>

\* If it is what it shall be, the package has passed.
Smoke ==
  LET n == Len(rehearsal.report.packages)
      passed == [rehearsal.report EXCEPT !.packages[n].smoke = "PASSED",
                                         !.packages[n].capabilities = smokePackage(Here.extracted, Here.modules)]
      last == rehearsal.product = Len(Products) IN
  /\ rehearsal.at = "smoke"
  /\ Saves(passed, [at |-> IF last THEN "done" ELSE "expect", report |-> passed,
                    product |-> rehearsal.product + (IF last THEN 0 ELSE 1)])

\* npm or the smoke test fails.
ProcessFails == rehearsal.at \in {"pack", "install", "smoke"} /\ RehearsalFails
------------------------------------------------------------------------------
Assembles(next) == assembly' = next /\ UNCHANGED <<source, out, manifest, rehearsal>>
AssemblyStops == Assembles([at |-> "stopped"]) /\ UNCHANGED bundle
Passed(record) == record.smoke = "PASSED"

\* assemblePreview(): the manifest has every product, passed, and no error.
ReadManifest ==
  /\ assembly.at = "start"
  /\ LET whole == ~manifest.error /\ Len(manifest.packages) = Len(Products)
                  /\ \A i \in DOMAIN manifest.packages : Passed(manifest.packages[i]) IN
     IF whole THEN Assembles([at |-> "package", packages |-> manifest.packages, app |-> <<>>]) /\ UNCHANGED bundle
     ELSE AssemblyStops

NextPackage == assembly.packages[Len(assembly.app) + 1]

\* The package is the recorded one, and what is extracted is the package.
TakePackage ==
  /\ assembly.at = "package" /\ Len(assembly.app) < Len(assembly.packages)
  /\ LET o == out[NextPackage.product] IN
     IF o.tarball # NextPackage.package \/ o.extracted # NextPackage.package THEN AssemblyStops
     ELSE IF NextPackage.product \in Locked THEN Assembles([assembly EXCEPT !.at = "modules"]) /\ UNCHANGED bundle
     ELSE Assembles([assembly EXCEPT !.app = Append(@, <<NextPackage.package, None>>)]) /\ UNCHANGED bundle

\* Mutant of TakeModules: what is installed is taken as it is.
TakeModulesAsIs ==
  /\ assembly.at = "modules"
  /\ Assembles([assembly EXCEPT !.at = "package", !.app = Append(@, <<NextPackage.package, out[NextPackage.product].modules>>)])
  /\ UNCHANGED bundle

\* So are both copies of the lock, and what is installed is its inventory.
TakeModules ==
  /\ assembly.at = "modules"
  /\ LET o == out[NextPackage.product] IN
     IF o.lock # NextPackage.lock \/ o.packageLock # NextPackage.lock \/ o.modules # NextPackage.lock THEN AssemblyStops
     ELSE /\ Assembles([assembly EXCEPT !.at = "package", !.app = Append(@, <<NextPackage.package, o.modules>>)])
          /\ UNCHANGED bundle

\* The bundle is written file by file, and its manifest last.
PutFile ==
  /\ assembly.at = "package" /\ Len(assembly.app) = Len(assembly.packages)
  /\ LET n == Len(bundle.app) IN
     IF n < Len(assembly.app)
     THEN bundle' = [bundle EXCEPT !.app = Append(@, assembly.app[n + 1])] /\ Assembles(assembly)
     ELSE bundle' = [bundle EXCEPT !.whole = TRUE] /\ Assembles([at |-> "done"])

\* A death, or a file that cannot be written: what there is stays.
AssemblyDies == assembly.at \in {"package", "modules"} /\ AssemblyStops

ArtifactsNext ==
  \/ Develop \/ Alter
  \/ Expect \/ KeepLock \/ Pack \/ CheckPack \/ Record \/ Relock \/ Install \/ CheckInstalled \/ Smoke
  \/ ProcessFails \/ Dies
  \/ ReadManifest \/ TakePackage \/ TakeModules \/ PutFile \/ AssemblyDies

ArtifactsSpec == ArtifactsInit /\ [][ArtifactsNext]_artifactsVars
------------------------------------------------------------------------------
ArtifactsTypeOK ==
  /\ source \in [AllProducts -> [files : Versions, lock : Versions]]
  /\ \A p \in AllProducts, part \in DOMAIN Empty : out[p][part] \in Versions \cup {Altered, None}
  /\ rehearsal.product \in DOMAIN Products /\ bundle.whole \in BOOLEAN

(* A package is recorded as passed only for what ran: the recorded files, with the
   dependencies of the recorded lock, which is the lock of these files, although the
   sources were edited all along. *)
PassedAsRun ==
  \A i \in DOMAIN manifest.packages :
    LET r == manifest.packages[i] IN
    Passed(r) => /\ r.capabilities = <<r.package, r.lock>>
                 /\ r.lock = IF r.product \in Locked THEN r.package ELSE None

(* A bundle that has its manifest has every product as it had passed: no rehearsal that
   failed or died on the way, and nothing altered since, became part of one. *)
BundledAsPassed ==
  bundle.whole =>
    /\ rehearsal.at \in {"done", "dead"} /\ Len(manifest.packages) = Len(Products)
    /\ \A i \in DOMAIN Products :
         Passed(manifest.packages[i]) /\ bundle.app[i] = manifest.packages[i].capabilities
==============================================================================
