------------------------------- MODULE Contract -------------------------------
(***************************************************************************)
(* scripts/sync-contract.mjs: the shared contract is compiled from its     *)
(* source, pinned by a manifest, and copied file by file into the products *)
(* it is for; with --check nothing is written and everything is compared.  *)
(* Developers edit the source meanwhile, and a run may die.  The script is *)
(* the sole writer of these files: one run at a time writes.               *)
(***************************************************************************)
EXTENDS Naturals, Sequences

CONSTANTS
  Sources,     \* the versions of the source
  Compiled,    \* [Sources -> what the compiler makes of it]
  Children     \* the products, in the order in which they are written

Generated == <<"native", "evidence">>
ContractFiles == Generated \o <<"manifest">>
\* What is assumed of the constants.
ASSUME ContractAssumption ==
  /\ Sources \subseteq Nat /\ DOMAIN Compiled = Sources
  /\ Children \in Seq({Children[i] : i \in DOMAIN Children}) /\ Children # <<>>

VARIABLES
  typed,       \* the source
  canonical,   \* the canonical files: generated ones, and the manifest that pins them
  vendored,    \* each product's copy
  sync         \* the run: where it is, whether it only checks, what it compiled and wrote

contractVars == <<typed, canonical, vendored, sync>>
Copiers == {Children[i] : i \in DOMAIN Children}
Contents(v, s) == [native |-> v, evidence |-> v, manifest |-> [of |-> v, source |-> s]]
NoRun == [at |-> "idle"]
------------------------------------------------------------------------------
ContractInit ==
  /\ typed \in Sources
  /\ canonical = Contents(Compiled[typed], typed)
  /\ vendored = [p \in Copiers |-> canonical]
  /\ sync = NoRun

\* Another source: sources are versions, which do not come back.
EditSource == typed' \in {s \in Sources : s > typed} /\ UNCHANGED <<canonical, vendored, sync>>

\* compileNative(): the generated files of the source as it is by now.
compileNative == Compiled[typed]

Runs(next) == sync' = next /\ UNCHANGED typed
SyncFails == Runs(NoRun) /\ UNCHANGED <<canonical, vendored>>

\* syncContract(): a check reads what there is, a synchronization compiles first.
BeginSync ==
  /\ sync.at \in {"idle", "verified"}
  /\ \E check \in BOOLEAN :
       Runs([at |-> IF check THEN "read" ELSE "generate", check |-> check, made |-> compileNative, done |-> 0])
  /\ UNCHANGED <<canonical, vendored>>

\* replaceAtomically(): one file after another, and the manifest of the source as it is by now.
Generate ==
  /\ sync.at = "generate"
  /\ LET i == sync.done + 1 IN
     IF i <= Len(Generated)
     THEN canonical' = [canonical EXCEPT ![Generated[i]] = sync.made] /\ Runs([sync EXCEPT !.done = i])
     ELSE /\ canonical' = [canonical EXCEPT !.manifest = [of |-> sync.made, source |-> typed]]
          /\ Runs([sync EXCEPT !.at = "read", !.done = 0])
  /\ UNCHANGED vendored

\* readCanonical(): the manifest pins these files and this source ...
ReadCanonical ==
  /\ sync.at = "read"
  /\ IF canonical.manifest.source = typed /\ \A i \in DOMAIN Generated : canonical[Generated[i]] = canonical.manifest.of
     THEN Runs([sync EXCEPT !.at = "compile"]) /\ UNCHANGED <<canonical, vendored>>
     ELSE SyncFails

\* Mutant of Compare: the pins are believed.
CompareNothing ==
  /\ sync.at = "compile"
  /\ Runs([sync EXCEPT !.at = "copy"]) /\ UNCHANGED <<canonical, vendored>>

\* ... which is compiled again, to the same files.
Compare ==
  /\ sync.at = "compile"
  /\ IF \A i \in DOMAIN Generated : canonical[Generated[i]] = compileNative
     THEN Runs([sync EXCEPT !.at = "copy"]) /\ UNCHANGED <<canonical, vendored>>
     ELSE SyncFails

\* Every file of every product in turn is compared, or replaced.
Destination ==
  LET p == Children[(sync.done \div Len(ContractFiles)) + 1]  name == ContractFiles[(sync.done % Len(ContractFiles)) + 1] IN
  /\ sync.at = "copy"
  /\ IF sync.check /\ vendored[p][name] # canonical[name] THEN SyncFails
     ELSE /\ vendored' = [vendored EXCEPT ![p][name] = canonical[name]]
          /\ Runs(IF sync.done + 1 = Len(Children) * Len(ContractFiles) THEN [at |-> "verified"]
                  ELSE [sync EXCEPT !.done = @ + 1])
          /\ UNCHANGED canonical

\* A death, or a file that cannot be written: what was replaced is.
RunDies == sync.at \notin {"idle", "verified"} /\ SyncFails

ContractNext == EditSource \/ BeginSync \/ Generate \/ ReadCanonical \/ Compare \/ Destination \/ RunDies
ContractSpec == ContractInit /\ [][ContractNext]_contractVars
------------------------------------------------------------------------------
(* A run that ends well leaves every product with the canonical files, and these are what
   the source that the manifest names compiles to, whatever was edited while it ran and
   wherever earlier runs had died: they are what that source or one before it compiled to,
   and what that source or one since compiles to.  Only a developer who took something out
   and put it back, both in the time of the run, makes a difference between the two. *)
VerifiedIsCompiled ==
  sync.at = "verified" =>
    LET s == canonical.manifest.source  files == canonical.native IN
    /\ canonical = Contents(files, s) /\ \A p \in Copiers : vendored[p] = canonical
    /\ \E before \in {t \in Sources : t <= s}, since \in {t \in Sources : s <= t /\ t <= typed} :
         files = Compiled[before] /\ files = Compiled[since]
==============================================================================
