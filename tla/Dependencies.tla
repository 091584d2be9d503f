----------------------------- MODULE Dependencies -----------------------------
(***************************************************************************)
(* What a package is installed with: validateDependencyLock() of           *)
(* scripts/verify-artifacts.mjs walks the edges of the package's own lock, *)
(* npm installs what is no development dependency, and                     *)
(* verifyInstalledDependencies() compares.  npm is external.               *)
(***************************************************************************)
EXTENDS Sequences, FiniteSets, Naturals

CONSTANTS
  PackageNames, \* names of packages
  LockPlaces    \* where the lock may have one: <<a, b>> is node_modules/a/node_modules/b

\* What is assumed of the constants.
ASSUME DependenciesAssumption == LockPlaces \subseteq Seq(PackageNames) \ {<<>>}

VARIABLES
  root,        \* the direct dependencies: of production, of development
  lock,        \* the records: [place -> its dependencies and whether it is marked dev]
  walk,        \* the edges still to visit and the places reached
  installed    \* what npm put in place: [place -> its dependencies], and what npm says of it

dependenciesVars == <<root, lock, walk, installed>>

Records == UNION {[S -> [needs : SUBSET PackageNames, dev : BOOLEAN]] : S \in SUBSET LockPlaces}
Nothing == [places |-> <<>>, listed |-> {}]
------------------------------------------------------------------------------
DependenciesInit ==
  /\ root \in [needs : SUBSET PackageNames, develops : SUBSET PackageNames]
  /\ lock \in Records
  /\ walk = [at |-> "start"]
  /\ installed = Nothing

Walks(next) == walk' = next /\ UNCHANGED <<root, lock, installed>>
Refuses == Walks([at |-> "refused"])

\* Where a package finds another: in its own node_modules, else in those above it.
Found(places, from, name) ==
  {n \in 0 .. Len(from) : Append(SubSeq(from, 1, n), name) \in places}
Resolve(places, from, name) ==
  LET n == CHOOSE n \in Found(places, from, name) : \A m \in Found(places, from, name) : m <= n
  IN Append(SubSeq(from, 1, n), name)

Edges(from, names) == {<<from, name>> : name \in names}

\* The direct dependencies are the package's and are locked at the top; the walk begins
\* with all of them.
Begin ==
  /\ walk.at = "start"
  /\ LET direct == root.needs \cup root.develops IN
     IF \A name \in direct : <<name>> \in DOMAIN lock
     THEN Walks([at |-> "all", todo |-> Edges(<<>>, direct), reached |-> {}])
     ELSE Refuses

\* visit(): an edge leads to a record, which is not a development one in the second pass,
\* and what is reached first is visited.
VisitEdge(from, name) ==
  /\ walk.at \in {"all", "production"} /\ <<from, name>> \in walk.todo
  /\ IF Found(DOMAIN lock, from, name) = {} THEN Refuses
     ELSE LET target == Resolve(DOMAIN lock, from, name)
              onward == IF target \in walk.reached THEN {} ELSE Edges(target, lock[target].needs) IN
          IF walk.at = "production" /\ lock[target].dev THEN Refuses
          ELSE Walks([walk EXCEPT !.todo = (@ \ {<<from, name>>}) \cup onward, !.reached = @ \cup {target}])

\* Mutant of Reached: a record that nothing needs is no reason to refuse.
ReachedAnyway ==
  /\ walk.at = "all" /\ walk.todo = {}
  /\ Walks([at |-> "production", todo |-> Edges(<<>>, root.needs), reached |-> {}])

\* No record is unreachable; the second pass begins with the dependencies of production.
Reached ==
  /\ walk.at = "all" /\ walk.todo = {}
  /\ IF walk.reached = DOMAIN lock
     THEN Walks([at |-> "production", todo |-> Edges(<<>>, root.needs), reached |-> {}])
     ELSE Refuses

\* What only development needs is marked so; what production needs is retained.
Retain ==
  /\ walk.at = "production" /\ walk.todo = {}
  /\ IF \A p \in DOMAIN lock \ walk.reached : lock[p].dev
     THEN Walks([at |-> "retained", inventory |-> walk.reached])
     ELSE Refuses
------------------------------------------------------------------------------
Installs(places, listed) ==
  /\ installed' = [places |-> places, listed |-> listed]
  /\ walk' = [walk EXCEPT !.at = "installed"]
  /\ UNCHANGED <<root, lock>>

\* npm ci --omit=dev: what is not marked, or something else than it says.
NpmInstalls ==
  /\ walk.at = "retained"
  /\ LET marked == {p \in DOMAIN lock : lock[p].dev}  listed == DOMAIN lock \ marked IN
     \/ Installs([p \in listed |-> lock[p].needs], listed)
     \/ \E p \in listed : Installs([q \in listed \ {p} |-> lock[q].needs], listed)
     \/ \E p \in listed, names \in SUBSET PackageNames :
          Installs([q \in listed |-> IF q = p THEN names ELSE lock[q].needs], listed)
     \/ \E p \in LockPlaces \ listed : Installs([q \in listed \cup {p} |-> IF q = p THEN {} ELSE lock[q].needs], listed)

\* verifyInstalledDependencies(): npm's list is the inventory, and so are the packages
\* found, with the edges of the lock.
Matches ==
  /\ installed.listed = walk.inventory
  /\ DOMAIN installed.places = walk.inventory
  /\ \A p \in walk.inventory : installed.places[p] = lock[p].needs

VerifyInstalled ==
  /\ walk.at = "installed"
  /\ IF Matches THEN Walks([walk EXCEPT !.at = "verified"]) ELSE Refuses

DependenciesNext ==
  \/ Begin \/ Reached \/ Retain \/ NpmInstalls \/ VerifyInstalled
  \/ \E from \in LockPlaces \cup {<<>>}, name \in PackageNames : VisitEdge(from, name)

DependenciesSpec == DependenciesInit /\ [][DependenciesNext]_dependenciesVars
------------------------------------------------------------------------------
DependenciesTypeOK ==
  /\ DOMAIN lock \subseteq LockPlaces /\ \A p \in DOMAIN lock : lock[p].needs \subseteq PackageNames
  /\ walk.at \in {"start", "all", "production", "retained", "installed", "verified", "refused"}
  /\ DOMAIN installed.places \subseteq LockPlaces /\ installed.listed \subseteq LockPlaces

\* The least set of places that has the targets of these names and of all its own.
Closure(names) ==
  LET targets(from, ns) == {Resolve(DOMAIN lock, from, name) : name \in ns}
      closed(S) == targets(<<>>, names) \subseteq S /\ \A p \in S : targets(p, lock[p].needs) \subseteq S
  IN {p \in DOMAIN lock : \A S \in SUBSET DOMAIN lock : closed(S) => p \in S}

(* A lock that is retained is closed: all of it is needed, production needs exactly the
   inventory, and what is marked is exactly what it does not need. *)
LockClosed ==
  walk.at \in {"retained", "installed", "verified"} =>
    /\ DOMAIN lock = Closure(root.needs \cup root.develops)
    /\ walk.inventory = Closure(root.needs)
    /\ walk.inventory = {p \in DOMAIN lock : ~lock[p].dev}

(* Without the packages that were left out, every installed package finds for each of its
   dependencies the very package that the lock meant. *)
InstalledResolves ==
  walk.at = "verified" =>
    \A from \in DOMAIN installed.places \cup {<<>>} :
      \A name \in (IF from = <<>> THEN root.needs ELSE installed.places[from]) :
        /\ Found(DOMAIN installed.places, from, name) # {}
        /\ Resolve(DOMAIN installed.places, from, name) = Resolve(DOMAIN lock, from, name)
==============================================================================
