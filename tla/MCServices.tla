------------------------------ MODULE MCServices ------------------------------
(***************************************************************************)
(* The parts that have to come to an end: the online worker, a collection, *)
(* a reconstruction, the asset service, the adapter of a chat, and         *)
(* requests of maintenance that are made again after an interruption.      *)
(* They share no state, so that their interleavings show nothing that each *)
(* alone does not; a behaviour is one of the part that it begins with.     *)
(***************************************************************************)
EXTENDS Online, Collection, Reconstruction, Adapter, TLC

CONSTANTS s1, s2, b1, r1, basic, rules, code

VARIABLES
  part,
  authorization, publications, bucket, active, connections,
  tree, staged, published, litter, known, journals, run, mem, pc, at, inv, past, failures

\* The first operator configures, the second replaces what the first has configured.
MCIntents == {[to |-> s1, from |-> Nil], [to |-> s2, from |-> s1]}

Consumption == INSTANCE Consumption WITH
  Requests <- {1}, request <- connections,
  Assets <- {basic, rules, code}, Depends <- (code :> {rules} @@ rules :> {basic} @@ basic :> {}),
  Grants <- {{code}, {code, rules}},
  AssetLimit <- 3, RequestsPerMinute <- 1, Concurrency <- 1

Maintenance == INSTANCE Maintenance WITH
  Requests <- {b1, r1}, Op <- (b1 :> "backup" @@ r1 :> "restore"),
  ReadOnly <- {"body"}, None <- Nil, MaxVersion <- 1, MaxFailures <- 2,
  stage <- staged, journal <- journals

Parts == {"online", "collection", "reconstruction", "consumption", "adapter", "maintenance"}

consumptionState == <<authorization, publications, bucket, active, connections>>
maintenanceState == <<tree, staged, published, litter, known, journals, run, mem, pc, at, inv,
    past, failures>>
services == <<part, onlineVars, collectionVars, reconstructionVars, consumptionState,
              adapterVars, maintenanceState>>

\* The step is one of part p: the others stay as they are.
Of(p) ==
  /\ part = p /\ UNCHANGED part
  /\ IF p = "online" THEN TRUE ELSE UNCHANGED onlineVars
  /\ IF p = "collection" THEN TRUE ELSE UNCHANGED collectionVars
  /\ IF p = "reconstruction" THEN TRUE ELSE UNCHANGED reconstructionVars
  /\ IF p = "consumption" THEN TRUE ELSE UNCHANGED consumptionState
  /\ IF p = "adapter" THEN TRUE ELSE UNCHANGED adapterVars
  /\ IF p = "maintenance" THEN TRUE ELSE UNCHANGED maintenanceState

Init ==
  /\ part \in Parts
  /\ OnlineInit /\ CollectionInit
  /\ ReconstructionInit /\ (part = "reconstruction" \/ adapter = "local")
  /\ Consumption!ConsumptionInit /\ (part = "consumption" \/ authorization.assets = {code})
  /\ AdapterInit
  /\ Maintenance!Init

Next ==
  \/ Of("online") /\ OnlineNext
  \/ Of("collection") /\ CollectionNext
  \/ Of("reconstruction") /\ ReconstructionNext
  \/ Of("consumption") /\ Consumption!ConsumptionNext
  \/ Of("adapter") /\ AdapterNext
  \/ Of("maintenance") /\ Maintenance!Next

\* The fairness of the parts.  At rest none of them has a fair step to take but
\* Maintenance, whose requests are made again only where it is the part.
Spec ==
  /\ Init /\ [][Next]_services
  /\ OnlineFairness /\ CollectionFairness
  /\ ReconstructionFairness /\ Consumption!ConsumptionFairness
  /\ WF_services(Of("maintenance") /\ Maintenance!Step)
  /\ \A q \in {b1, r1} : SF_services(Of("maintenance") /\ Maintenance!Begin(q))
------------------------------------------------------------------------------
(* Every part comes to its end: a stop of the worker and what was read before it, a
   collection and who polls for it, a reconstruction, a request of assets, and a request
   of maintenance that is made again. *)
Progress ==
  /\ StopCompletes /\ AlertsSettle
  /\ CollectionSettles
  /\ ReconstructionEnds
  /\ Consumption!AdmittedIsAnswered
  /\ Maintenance!Resumes /\ []Maintenance!TypeOK
==============================================================================
