------------------------------- MODULE Online -------------------------------
(***************************************************************************)
(* integration/online: the configuration (config.ts), the lifecycle of the *)
(* launchd job (lifecycle.ts) and the worker process with its queue, its   *)
(* timer and its alert receiver (worker.ts).                               *)
(*                                                                         *)
(* One operator makes one call at a time, under the Workspace lease; the   *)
(* worker takes the same lease for every entry of its queue.  The plist is *)
(* known by the nonce in it, a configuration by its digest.                *)
(***************************************************************************)
EXTENDS Naturals, Sequences, Functions

CONSTANTS
  Settings,     \* configurations, by digest
  Intents,      \* what operators ask for: settings and the digest they expect
  Batches,      \* alert batches that Alertmanager sends, by digest
  Nil,          \* nothing there
  QueueLimit,   \* entries of the queue, 16 in the code
  MaxStarts,    \* bound on started jobs; a nonce is the number of its start
  MaxDeaths     \* bound on deaths of the operator or the worker

\* What is assumed of the constants.
ASSUME OnlineAssumption ==
  QueueLimit \in Nat \ {0} /\ MaxStarts \in Nat /\ MaxDeaths \in Nat
  /\ Nil \notin Settings \cup {"operator", "worker"}
  /\ "tick" \notin Batches
  /\ Intents \subseteq [to : Settings, from : Settings \cup {Nil}]

VARIABLES
  config,       \* online/configuration.json
  configured,   \* the receipts under online/requests, each its intent
  plist,        \* job.plist: the nonce in it, 0 while there is none or a torn one
  owner,        \* owner.json: the configuration and the nonce of the plist
  job,          \* the job as launchd has it loaded
  lease,        \* who holds the Workspace lease: Nil, "operator", "worker"
  call,         \* what the operator is doing
  interrupted,  \* the configure call that died last, while nobody else has configured
  worker,       \* the worker process
  alerts,       \* what the sender of each batch knows
  ingested,     \* batches in the owner's store
  starts, deaths

files == <<config, configured, plist, owner>>
onlineVars == <<files, job, lease, call, interrupted, worker, alerts, ingested, starts, deaths>>

Idle == [at |-> "idle"]
Open == {"reading", "queued", "done"}
------------------------------------------------------------------------------
OnlineInit ==
  /\ config = Nil /\ configured = {} /\ plist = 0 /\ owner = Nil /\ job = Nil
  /\ lease = Nil /\ call = Idle /\ interrupted = Nil
  /\ worker = Nil
  /\ alerts = [b \in Batches |-> "unsent"]
  /\ ingested = {}
  /\ starts = 0 /\ deaths = 0

End == call' = Idle /\ lease' = Nil

\* The operator takes the lease.  Maintenance, and with it configure, requires that
\* no job is loaded.
Begin ==
  /\ call = Idle /\ lease = Nil
  /\ lease' = "operator"
  /\ \/ /\ job = Nil
        /\ \E i \in Intents : call' = [at |-> "configure", intent |-> i]
     \/ starts < MaxStarts /\ call' = [at |-> "start"]
     \/ call' = [at |-> "stop"]
  /\ UNCHANGED <<files, job, interrupted, worker, alerts, ingested, starts, deaths>>

\* A configuration replaces the expected one, or is already there because a former
\* attempt died before its receipt.
Acceptable(i) == config = i.from \/ config = i.to

\* A request with a receipt is a replay; a conflict leaves everything as it is.
Configure ==
  /\ call.at = "configure"
  /\ IF call.intent \in configured \/ ~Acceptable(call.intent)
     THEN End
     ELSE call' = [call EXCEPT !.at = "publish"] /\ UNCHANGED lease
  /\ UNCHANGED <<files, job, interrupted, worker, alerts, ingested, starts, deaths>>

PublishConfiguration ==
  /\ call.at = "publish"
  /\ config' = call.intent.to
  /\ call' = [call EXCEPT !.at = "receipt"]
  /\ interrupted' = IF interrupted = call.intent THEN interrupted ELSE Nil
  /\ UNCHANGED <<configured, plist, owner, job, lease, worker, alerts, ingested, starts, deaths>>

WriteReceipt ==
  /\ call.at = "receipt"
  /\ configured' = configured \cup {call.intent}
  /\ End
  /\ UNCHANGED <<config, plist, owner, job, interrupted, worker, alerts, ingested, starts, deaths>>

\* readWorkerOwner: the plist has to be the one that owner.json was written for.
OwnerIntact == owner # Nil => plist = owner.nonce

\* A job that is loaded is left alone; otherwise a new plist is written in place.
Start ==
  /\ call.at = "start"
  /\ IF config = Nil \/ ~OwnerIntact \/ job # Nil
     THEN End /\ UNCHANGED <<plist, starts>>
     ELSE /\ starts' = starts + 1
          /\ plist' = 0
          /\ call' = [at |-> "plist", nonce |-> starts + 1]
          /\ UNCHANGED lease
  /\ UNCHANGED <<config, configured, owner, job, interrupted, worker, alerts, ingested, deaths>>

WritePlist ==
  /\ call.at = "plist"
  /\ plist' = call.nonce
  /\ call' = [call EXCEPT !.at = "owner"]
  /\ UNCHANGED <<config, configured, owner, job, lease, interrupted, worker, alerts, ingested, starts, deaths>>

WriteOwner ==
  /\ call.at = "owner"
  /\ owner' = [config |-> config, nonce |-> call.nonce]
  /\ call' = [at |-> "bootstrap"]
  /\ UNCHANGED <<config, configured, plist, job, lease, interrupted, worker, alerts, ingested, starts, deaths>>

Bootstrap ==
  /\ call.at = "bootstrap"
  /\ job' = owner
  /\ End
  /\ UNCHANGED <<files, interrupted, worker, alerts, ingested, starts, deaths>>

\* bootout: launchd forgets the job and sends SIGTERM to its process.
Bootout ==
  /\ call.at = "stop"
  /\ IF ~OwnerIntact \/ job = Nil
     THEN End /\ UNCHANGED <<job, worker>>
     ELSE /\ job' = Nil
          /\ worker' = IF worker = Nil THEN Nil ELSE [worker EXCEPT !.stopping = TRUE]
          /\ call' = [at |-> "await"]
          /\ UNCHANGED lease
  /\ UNCHANGED <<files, interrupted, alerts, ingested, starts, deaths>>

\* The worker is gone, or twenty seconds have passed.
StopEnds ==
  /\ call.at = "await"
  /\ End
  /\ UNCHANGED <<files, job, interrupted, worker, alerts, ingested, starts, deaths>>

OperatorDies ==
  /\ call # Idle
  /\ deaths < MaxDeaths /\ deaths' = deaths + 1
  /\ interrupted' = IF call.at \in {"publish", "receipt"} THEN call.intent ELSE interrupted
  /\ End
  /\ UNCHANGED <<files, job, worker, alerts, ingested, starts>>
------------------------------------------------------------------------------
\* The process is gone, and with it every connection and what its queue held.
Exit ==
  /\ worker' = Nil
  /\ lease' = IF lease = "worker" THEN Nil ELSE lease
  /\ alerts' = [b \in Batches |-> IF alerts[b] \in Open THEN "reset" ELSE alerts[b]]

\* launchd starts the process of a loaded job, again after it died.  It refuses to
\* run for another configuration or another owner.
Spawn ==
  /\ job # Nil /\ worker = Nil
  /\ config = job.config /\ owner = job
  /\ worker' = [config |-> job.config, stopping |-> FALSE, tick |-> FALSE, queue |-> <<>>, running |-> FALSE]
  /\ UNCHANGED <<files, job, lease, call, interrupted, alerts, ingested, starts, deaths>>

Serving == worker # Nil /\ ~worker.stopping

Room == Serving /\ Len(worker.queue) < QueueLimit

\* A sender posts a batch, for the first time or again after anything but a 200.
Post(b) ==
  /\ Serving
  /\ alerts[b] \notin Open \cup {"200"}
  /\ alerts' = [alerts EXCEPT ![b] = "reading"]
  /\ UNCHANGED <<files, job, lease, call, interrupted, worker, ingested, starts, deaths>>

\* The body has been read: enqueue() takes it, or refuses it as busy.
Receive(b) ==
  /\ worker # Nil /\ alerts[b] = "reading"
  /\ IF Room
     THEN worker' = [worker EXCEPT !.queue = Append(@, b)] /\ alerts' = [alerts EXCEPT ![b] = "queued"]
     ELSE alerts' = [alerts EXCEPT ![b] = "503"] /\ UNCHANGED worker
  /\ UNCHANGED <<files, job, lease, call, interrupted, ingested, starts, deaths>>

Tick ==
  /\ Room /\ ~worker.tick
  /\ worker' = [worker EXCEPT !.queue = Append(@, "tick"), !.tick = TRUE]
  /\ UNCHANGED <<files, job, lease, call, interrupted, alerts, ingested, starts, deaths>>

\* The first entry settles; what waits for it is told whether it succeeded.
Settle(b, success) ==
  /\ worker' = [worker EXCEPT !.queue = Tail(@), !.running = FALSE, !.tick = @ /\ b # "tick"]
  /\ lease' = IF lease = "worker" THEN Nil ELSE lease
  /\ alerts' = IF b \in Batches THEN [alerts EXCEPT ![b] = IF success THEN "done" ELSE "400"] ELSE alerts

\* withWorkspaceLease gives up after ten seconds.
EntryFails ==
  /\ worker # Nil /\ worker.queue # <<>> /\ ~worker.running
  /\ lease = "operator"
  /\ Settle(Head(worker.queue), FALSE)
  /\ UNCHANGED <<files, job, call, interrupted, ingested, starts, deaths>>

\* Mutant of EntryRuns: the configuration was compared when the entry was queued.
EntryRunsAnyway ==
  /\ worker # Nil /\ worker.queue # <<>> /\ ~worker.running
  /\ lease = Nil
  /\ worker' = [worker EXCEPT !.running = TRUE] /\ lease' = "worker" /\ UNCHANGED alerts
  /\ UNCHANGED <<files, job, call, interrupted, ingested, starts, deaths>>

\* The entry holds the lease; it goes on only for the configuration of its process.
EntryRuns ==
  /\ worker # Nil /\ worker.queue # <<>> /\ ~worker.running
  /\ lease = Nil
  /\ IF config = worker.config
     THEN worker' = [worker EXCEPT !.running = TRUE] /\ lease' = "worker" /\ UNCHANGED alerts
     ELSE Settle(Head(worker.queue), FALSE)
  /\ UNCHANGED <<files, job, call, interrupted, ingested, starts, deaths>>

\* ingest() commits its batch in the owner, or one of its checks fails; a tick is
\* the owner's own business.
EntryEnds ==
  /\ worker # Nil /\ worker.running
  /\ LET b == Head(worker.queue) IN
     \/ Settle(b, TRUE) /\ ingested' = IF b \in Batches THEN ingested \cup {b} ELSE ingested
     \/ Settle(b, FALSE) /\ UNCHANGED ingested
  /\ UNCHANGED <<files, job, call, interrupted, starts, deaths>>

Send(b) ==
  /\ alerts[b] = "done"
  /\ alerts' = [alerts EXCEPT ![b] = "200"]
  /\ UNCHANGED <<files, job, lease, call, interrupted, worker, ingested, starts, deaths>>

\* stop(): the queue has drained, the composition is closed, the process exits,
\* perhaps before an answer has left it.
Drained ==
  /\ worker # Nil /\ worker.stopping /\ worker.queue = <<>>
  /\ Exit
  /\ UNCHANGED <<files, job, call, interrupted, ingested, starts, deaths>>

WorkerDies ==
  /\ worker # Nil
  /\ deaths < MaxDeaths /\ deaths' = deaths + 1
  /\ Exit
  /\ UNCHANGED <<files, job, call, interrupted, ingested, starts>>
------------------------------------------------------------------------------
Operate == Configure \/ PublishConfiguration \/ WriteReceipt \/ Start \/ WritePlist \/ WriteOwner
           \/ Bootstrap \/ Bootout \/ StopEnds
Work == EntryFails \/ EntryRuns \/ EntryEnds \/ Drained

OnlineNext ==
  \/ Begin \/ Operate \/ OperatorDies
  \/ Spawn \/ Tick \/ Work \/ WorkerDies
  \/ \E b \in Batches : Post(b) \/ Receive(b) \/ Send(b)

\* The event loop of the worker and the operator's call go on.
OnlineSpec == OnlineInit /\ [][OnlineNext]_onlineVars
OnlineFairness ==
  /\ WF_onlineVars(Operate) /\ WF_onlineVars(Work)
  /\ \A b \in Batches : WF_onlineVars(Receive(b)) /\ WF_onlineVars(Send(b))
OnlineFairSpec == OnlineSpec /\ OnlineFairness
------------------------------------------------------------------------------
OnlineTypeOK ==
  /\ config \in Settings \cup {Nil} /\ configured \subseteq Intents
  /\ plist \in 0..MaxStarts
  /\ {owner, job} \subseteq {Nil} \cup [config : Settings, nonce : 1..MaxStarts]
  /\ lease \in {Nil, "operator", "worker"}
  /\ lease = "operator" <=> call # Idle
  /\ interrupted \in {Nil} \cup Intents
  /\ worker # Nil => worker.queue \in Seq(Batches \cup {"tick"})
  /\ alerts \in [Batches -> Open \cup {"unsent", "200", "400", "503", "reset"}]

(* An alert that is answered with success is in the owner's store, whether the worker
   was stopped, died, ran out of queue or lost the lease meanwhile. *)
AcceptedIsIngested == \A b \in Batches : alerts[b] = "200" => b \in ingested

(* The queue never holds more than its limit, one tick at most, and no batch twice. *)
QueueBounded ==
  worker # Nil =>
    /\ Len(worker.queue) <= QueueLimit
    /\ IsInjective(worker.queue)

(* Nothing runs for a configuration that has been replaced, although a stop may give up
   on a worker that still drains its queue, and the operator may configure then. *)
RunsAsConfigured == worker # Nil /\ worker.running => worker.config = config

(* A configure call that died anywhere after its checks can be made again, as long as
   nobody else has configured: it is never answered with a conflict. *)
ConfigureRepeatable == interrupted # Nil => interrupted \in configured \/ Acceptable(interrupted)

(* The online worker: an alert answered with success is in the owner's store, nothing
   runs for a configuration that has been replaced, the queue keeps its bound, and a
   configure call that died can be made again. *)
AlertsKept ==
  /\ AcceptedIsIngested /\ RunsAsConfigured
  /\ QueueBounded /\ ConfigureRepeatable /\ OnlineTypeOK

(* A stop makes the worker exit, although the operator that waits for it holds the lease
   that the entries of its queue wait for; and the operator's call ends. *)
StopCompletes ==
  /\ (worker # Nil /\ worker.stopping) ~> (worker = Nil)
  /\ (call # Idle) ~> (call = Idle)

(* Every batch that was read is answered or its connection is reset. *)
AlertsSettle == \A b \in Batches : (alerts[b] \in Open) ~> (alerts[b] \notin Open)
==============================================================================
