---------------------------- MODULE ServicesProofs ----------------------------
(***************************************************************************)
(* What MCServices checks of four parts on a small instance, for any       *)
(* configurations, batches, callers, outputs, lines, limits and number of  *)
(* deaths.  Each part has an inductive invariant of its own, which says    *)
(* for each process what is so while it is at a step.                      *)
(***************************************************************************)
EXTENDS Online, Collection, Reconstruction, Adapter, SequenceTheorems, FiniteSetTheorems, TLAPS

(* Online: an alert that was accepted is in the owner's store.  The two processes exclude
   each other by the Workspace lease: while an entry of the queue runs nobody configures,
   and while a configure call is on its way no entry runs. *)
Entries == Batches \cup {"tick"}
Owners == [config : Settings, nonce : 1 .. MaxStarts]
AlertStates == Open \cup {"unsent", "200", "400", "503", "reset"}
Workers == [config : Settings, stopping : BOOLEAN, tick : BOOLEAN, queue : Seq(Entries), running : BOOLEAN]

OnlineTypes ==
  /\ config \in Settings \cup {Nil} /\ configured \subseteq Intents
  /\ plist \in 0 .. MaxStarts /\ starts \in 0 .. MaxStarts
  /\ owner \in {Nil} \cup Owners /\ job \in {Nil} \cup Owners
  /\ lease \in {Nil, "operator", "worker"}
  /\ interrupted \in {Nil} \cup Intents
  /\ alerts \in [Batches -> AlertStates]

(* The operator's call holds the lease.  So what it has compared is still so when it
   publishes, and what it has published when it writes the receipt. *)
OperatorFits ==
  /\ \/ call = Idle
     \/ call \in [at : {"configure", "publish", "receipt"}, intent : Intents]
     \/ call \in [at : {"start", "stop", "bootstrap", "await"}]
     \/ call \in [at : {"plist", "owner"}, nonce : 1 .. MaxStarts]
  /\ lease = "operator" <=> call # Idle
  /\ call.at = "publish" => Acceptable(call.intent)
  /\ call.at = "receipt" => config = call.intent.to
  /\ call.at = "start" => starts < MaxStarts
  /\ call.at \in {"plist", "owner"} => config # Nil

(* The queue q of a worker that has a tick in it only if it says so, and else batches
   whose senders wait for them. *)
QueueFits(q, tick, known) ==
  /\ Len(q) <= QueueLimit
  /\ \A i, j \in 1 .. Len(q) : q[i] = q[j] => i = j
  /\ \A i \in 1 .. Len(q) : IF q[i] = "tick" THEN tick ELSE known[q[i]] = "queued"

(* The entry that runs holds the lease, so that nobody configures meanwhile. *)
WorkerFits ==
  worker # Nil =>
    /\ worker \in Workers
    /\ QueueFits(worker.queue, worker.tick, alerts)
    /\ worker.running => lease = "worker" /\ worker.queue # <<>> /\ worker.config = config

AlertsFit == \A b \in Batches : alerts[b] \in {"done", "200"} => b \in ingested

OnlineInv == OnlineTypes /\ OperatorFits /\ WorkerFits /\ AlertsFit /\ ConfigureRepeatable

LEMMA OnlineInitInv == OnlineInit => OnlineInv
  BY OnlineAssumption
    DEF OnlineInit, OnlineInv, OnlineTypes, OperatorFits, WorkerFits, AlertsFit, ConfigureRepeatable,
        AlertStates, Idle

LEMMA QueueGrows ==
  ASSUME NEW q \in Seq(Entries), NEW e \in Entries, NEW t, NEW u, NEW k, NEW l,
         QueueFits(q, t, k), Len(q) < QueueLimit,
         e = "tick" => ~t, e # "tick" => k[e] # "queued",
         IF e = "tick" THEN u ELSE (t => u) /\ l[e] = "queued",
         \A b \in Batches : b # e => l[b] = k[b]
  PROVE  Append(q, e) \in Seq(Entries) /\ QueueFits(Append(q, e), u, l)
<1> DEFINE p == Append(q, e)
<1>1. /\ p \in Seq(Entries) /\ Len(p) = Len(q) + 1 /\ Len(q) \in Nat
      /\ p[Len(q) + 1] = e /\ \A i \in 1 .. Len(q) : p[i] = q[i] /\ q[i] \in Entries
  BY AppendProperties, ElementOfSeq
<1> HIDE DEF p
<1>2. Len(p) <= QueueLimit
  BY <1>1, OnlineAssumption
<1>3. \A i \in 1 .. Len(q) : q[i] # e /\ IF q[i] = "tick" THEN u ELSE l[q[i]] = "queued"
  BY <1>1 DEF QueueFits, Entries
<1>4. \A i \in 1 .. Len(p) : i \in 1 .. Len(q) \/ i = Len(q) + 1
  BY <1>1
<1>5. \A i, j \in 1 .. Len(p) : p[i] = p[j] => i = j
  BY <1>1, <1>3, <1>4 DEF QueueFits
<1>6. \A i \in 1 .. Len(p) : IF p[i] = "tick" THEN u ELSE l[p[i]] = "queued"
  BY <1>1, <1>3, <1>4
<1> QED
  BY <1>1, <1>2, <1>5, <1>6 DEF QueueFits, p

LEMMA QueueShrinks ==
  ASSUME NEW q \in Seq(Entries), q # <<>>, NEW t, NEW u, NEW k, NEW l, QueueFits(q, t, k),
         t /\ Head(q) # "tick" => u,
         \A b \in Batches : b # Head(q) => l[b] = k[b]
  PROVE  Head(q) \in Entries /\ Tail(q) \in Seq(Entries) /\ QueueFits(Tail(q), u, l)
<1> DEFINE p == Tail(q)
<1>1. /\ p \in Seq(Entries) /\ Len(p) = Len(q) - 1 /\ Len(q) \in Nat /\ Len(q) > 0
      /\ Head(q) = q[1] /\ q[1] \in Entries /\ \A i \in 1 .. Len(p) : p[i] = q[i + 1] /\ p[i] \in Entries
  BY HeadTailProperties, ElementOfSeq
<1> HIDE DEF p
<1>2. \A i \in 1 .. Len(p) : i + 1 \in 1 .. Len(q) /\ i + 1 # 1
  BY <1>1
<1>3. \A i \in 1 .. Len(p) : p[i] # Head(q)
  BY <1>1, <1>2 DEF QueueFits
<1>4. \A i, j \in 1 .. Len(p) : p[i] = p[j] => i = j
  BY <1>1, <1>2 DEF QueueFits
<1>5. \A i \in 1 .. Len(p) : IF p[i] = "tick" THEN u ELSE l[p[i]] = "queued"
  BY <1>1, <1>2, <1>3 DEF QueueFits, Entries
<1>6. Len(p) <= QueueLimit
  BY <1>1, OnlineAssumption DEF QueueFits
<1> QED
  BY <1>1, <1>4, <1>5, <1>6 DEF QueueFits, p

(* The operator's steps leave the worker and its senders alone, and what the operator
   changes of the configuration and the lease is nothing that an entry runs with. *)
LEMMA OperatorKeeps ==
  ASSUME OnlineInv, call # Idle \/ lease = Nil, call' = Idle => lease' = Nil,
         call' # Idle => lease' = "operator",
         UNCHANGED <<alerts, ingested>>,
         worker' = worker \/ (worker # Nil /\ worker' = [worker EXCEPT !.stopping = TRUE])
  PROVE  WorkerFits' /\ AlertsFit' /\ lease' \in {Nil, "operator", "worker"}
<1>1. lease # "worker"
  BY OnlineAssumption DEF OnlineInv, OperatorFits
<1>2. AlertsFit' /\ lease' \in {Nil, "operator", "worker"}
  BY DEF OnlineInv, AlertsFit
<1>3. ASSUME worker # Nil PROVE /\ worker' \in Workers /\ ~worker'.running
                                /\ worker'.queue = worker.queue /\ worker'.tick = worker.tick
  BY <1>1, <1>3 DEF OnlineInv, WorkerFits, Workers
<1>4. WorkerFits'
  BY <1>3 DEF OnlineInv, WorkerFits
<1> QED
  BY <1>2, <1>4

LEMMA OperatorStepKeeps ==
  ASSUME OnlineInv, Begin \/ Operate \/ OperatorDies PROVE OnlineInv'
<1>0. OnlineTypes /\ OperatorFits /\ ConfigureRepeatable
  BY DEF OnlineInv
<1>1. CASE Begin
  <2>1. /\ call = Idle /\ lease = Nil /\ lease' = "operator"
        /\ UNCHANGED <<files, job, interrupted, worker, alerts, ingested, starts>>
        /\ \/ call' \in [at : {"configure"}, intent : Intents]
           \/ starts < MaxStarts /\ call' = [at |-> "start"]
           \/ call' = [at |-> "stop"]
    BY <1>1 DEF Begin
  <2>2. call' # Idle
    BY <2>1 DEF Idle
  <2>3. WorkerFits' /\ AlertsFit'
    BY <2>1, <2>2, OperatorKeeps
  <2>4. OperatorFits'
    BY <2>1, <2>2 DEF OperatorFits
  <2>5. OnlineTypes' /\ ConfigureRepeatable'
    BY <1>0, <2>1 DEF OnlineTypes, files, ConfigureRepeatable, Acceptable
  <2> QED
    BY <2>3, <2>4, <2>5 DEF OnlineInv
<1>2. ASSUME call # Idle, End, UNCHANGED <<alerts, ingested, worker>> PROVE WorkerFits' /\ AlertsFit' /\ OperatorFits'
  <2>1. WorkerFits' /\ AlertsFit'
    BY <1>2, OperatorKeeps DEF End
  <2>2. call'.at = "idle" /\ lease' # "operator"
    BY <1>2, OnlineAssumption DEF End, Idle
  <2>3. OperatorFits'
    BY <1>2, <2>2 DEF OperatorFits, End
  <2> QED
    BY <2>1, <2>3
<1>3. ASSUME call # Idle, call'.at # "idle", UNCHANGED <<lease, alerts, ingested>>,
             worker' = worker \/ (worker # Nil /\ worker' = [worker EXCEPT !.stopping = TRUE])
      PROVE  WorkerFits' /\ AlertsFit' /\ lease' = "operator" /\ call' # Idle
  <2>1. lease = "operator" /\ call' # Idle
    BY <1>0, <1>3 DEF OperatorFits, Idle
  <2> QED
    BY <1>3, <2>1, OperatorKeeps
<1>4. CASE Configure
  <2>1. /\ call.at = "configure" /\ call # Idle /\ call.intent \in Intents
        /\ call \in [at : {"configure"}, intent : Intents]
        /\ UNCHANGED <<files, job, interrupted, worker, alerts, ingested, starts>>
    BY <1>0, <1>4 DEF Configure, OperatorFits, Idle
  <2>2. OnlineTypes' /\ ConfigureRepeatable'
    <3>1. lease' \in {Nil, lease}
      BY <1>4 DEF Configure, End
    <3> QED
      BY <1>0, <2>1, <3>1 DEF OnlineTypes, files, ConfigureRepeatable, Acceptable
  <2>3. CASE End
    BY <1>2, <2>1, <2>2, <2>3 DEF OnlineInv
  <2>4. CASE call' = [call EXCEPT !.at = "publish"] /\ UNCHANGED lease /\ Acceptable(call.intent)
    <3>1. call' = [at |-> "publish", intent |-> call.intent]
      BY <2>1, <2>4
    <3>2. WorkerFits' /\ AlertsFit' /\ lease' = "operator" /\ call' # Idle
      BY <1>3, <2>1, <2>4, <3>1
    <3>3. OperatorFits'
      BY <2>1, <2>4, <3>1, <3>2 DEF OperatorFits, Acceptable, files
    <3> QED
      BY <2>2, <3>2, <3>3 DEF OnlineInv
  <2> QED
    BY <1>4, <2>3, <2>4 DEF Configure
<1>5. CASE PublishConfiguration
  <2>1. /\ call.at = "publish" /\ call # Idle /\ call.intent \in Intents /\ Acceptable(call.intent)
        /\ call \in [at : {"publish"}, intent : Intents]
        /\ config' = call.intent.to /\ call.intent.to \in Settings
        /\ interrupted' = IF interrupted = call.intent THEN interrupted ELSE Nil
        /\ UNCHANGED <<configured, plist, owner, job, lease, worker, alerts, ingested, starts>>
    BY <1>0, <1>5, OnlineAssumption DEF PublishConfiguration, OperatorFits, Idle
  <2>2. call' = [at |-> "receipt", intent |-> call.intent]
    BY <1>5, <2>1 DEF PublishConfiguration
  <2>3. WorkerFits' /\ AlertsFit' /\ lease' = "operator" /\ call' # Idle
    BY <1>3, <2>1, <2>2
  <2>4. OnlineTypes' /\ ConfigureRepeatable'
    BY <1>0, <2>1 DEF OnlineTypes, ConfigureRepeatable, Acceptable
  <2>5. OperatorFits'
    BY <2>1, <2>2, <2>3 DEF OperatorFits
  <2> QED
    BY <2>3, <2>4, <2>5 DEF OnlineInv
<1>6. CASE WriteReceipt
  <2>1. /\ call # Idle /\ call.intent \in Intents /\ configured' = configured \cup {call.intent} /\ End
        /\ UNCHANGED <<config, plist, owner, job, interrupted, worker, alerts, ingested, starts>>
    BY <1>0, <1>6 DEF WriteReceipt, OperatorFits, Idle
  <2>2. OnlineTypes' /\ ConfigureRepeatable'
    BY <1>0, <2>1 DEF OnlineTypes, ConfigureRepeatable, Acceptable, End
  <2> QED
    BY <1>2, <2>1, <2>2 DEF OnlineInv
<1>7. CASE Start
  <2>1. /\ call.at = "start" /\ call # Idle /\ starts < MaxStarts
        /\ UNCHANGED <<config, configured, owner, job, interrupted, worker, alerts, ingested>>
    BY <1>0, <1>7 DEF Start, OperatorFits, Idle
  <2>2. CASE End /\ UNCHANGED <<plist, starts>>
    <3>1. OnlineTypes' /\ ConfigureRepeatable'
      BY <1>0, <2>1, <2>2 DEF OnlineTypes, ConfigureRepeatable, Acceptable, End
    <3> QED
      BY <1>2, <2>1, <2>2, <3>1 DEF OnlineInv
  <2>3. CASE /\ config # Nil /\ starts' = starts + 1 /\ plist' = 0
             /\ call' = [at |-> "plist", nonce |-> starts + 1] /\ UNCHANGED lease
    <3>1. OnlineTypes' /\ ConfigureRepeatable' /\ starts + 1 \in 1 .. MaxStarts
      BY <1>0, <2>1, <2>3, OnlineAssumption DEF OnlineTypes, ConfigureRepeatable, Acceptable
    <3>2. WorkerFits' /\ AlertsFit' /\ lease' = "operator" /\ call' # Idle
      BY <1>3, <2>1, <2>3
    <3>3. OperatorFits'
      BY <2>1, <2>3, <3>1, <3>2 DEF OperatorFits
    <3> QED
      BY <3>1, <3>2, <3>3 DEF OnlineInv
  <2> QED
    BY <1>7, <2>2, <2>3 DEF Start
<1>8. CASE WritePlist \/ WriteOwner
  <2>1. /\ call.at \in {"plist", "owner"} /\ call # Idle /\ call.nonce \in 1 .. MaxStarts /\ config # Nil
        /\ call \in [at : {"plist", "owner"}, nonce : 1 .. MaxStarts]
        /\ UNCHANGED <<config, configured, job, lease, interrupted, worker, alerts, ingested, starts>>
    BY <1>0, <1>8 DEF WritePlist, WriteOwner, OperatorFits, Idle
  <2>2. call' \in {[at |-> "owner", nonce |-> call.nonce], [at |-> "bootstrap"]}
    BY <1>8, <2>1 DEF WritePlist, WriteOwner
  <2>3. plist' \in 0 .. MaxStarts /\ owner' \in {Nil} \cup Owners
    BY <1>0, <1>8, <2>1 DEF WritePlist, WriteOwner, OnlineTypes, Owners
  <2>4. OnlineTypes' /\ ConfigureRepeatable'
    BY <1>0, <2>1, <2>3 DEF OnlineTypes, ConfigureRepeatable, Acceptable
  <2>5. WorkerFits' /\ AlertsFit' /\ lease' = "operator" /\ call' # Idle
    BY <1>3, <2>1, <2>2
  <2>6. OperatorFits'
    BY <2>1, <2>2, <2>5 DEF OperatorFits
  <2> QED
    BY <2>4, <2>5, <2>6 DEF OnlineInv
<1>9. CASE Bootstrap \/ StopEnds
  <2>1. /\ call # Idle /\ End /\ job' \in {job, owner}
        /\ UNCHANGED <<files, interrupted, worker, alerts, ingested, starts>>
    BY <1>9 DEF Bootstrap, StopEnds, Idle
  <2>2. OnlineTypes' /\ ConfigureRepeatable'
    BY <1>0, <2>1 DEF OnlineTypes, ConfigureRepeatable, Acceptable, End, files
  <2> QED
    BY <1>2, <2>1, <2>2 DEF OnlineInv
<1>10. CASE Bootout
  <2>1. /\ call # Idle /\ job' \in {job, Nil} /\ lease' \in {lease, Nil}
        /\ UNCHANGED <<files, interrupted, alerts, ingested, starts>>
    BY <1>10 DEF Bootout, Idle, End
  <2>2. OnlineTypes' /\ ConfigureRepeatable'
    BY <1>0, <2>1 DEF OnlineTypes, ConfigureRepeatable, Acceptable, files
  <2>3. CASE End /\ UNCHANGED worker
    BY <1>2, <2>1, <2>2, <2>3 DEF OnlineInv
  <2>4. CASE /\ call' = [at |-> "await"] /\ UNCHANGED lease
             /\ worker' = IF worker = Nil THEN Nil ELSE [worker EXCEPT !.stopping = TRUE]
    <3>1. WorkerFits' /\ AlertsFit' /\ lease' = "operator" /\ call' # Idle
      BY <1>3, <2>1, <2>4
    <3>2. OperatorFits'
      BY <2>4, <3>1 DEF OperatorFits
    <3> QED
      BY <2>2, <3>1, <3>2 DEF OnlineInv
  <2> QED
    BY <1>10, <2>3, <2>4 DEF Bootout
<1>11. CASE OperatorDies
  <2>1. /\ call # Idle /\ End /\ UNCHANGED <<files, job, worker, alerts, ingested, starts>>
        /\ interrupted' = IF call.at \in {"publish", "receipt"} THEN call.intent ELSE interrupted
    BY <1>11 DEF OperatorDies
  <2>2. call.at \in {"publish", "receipt"} => call.intent \in Intents /\ Acceptable(call.intent)
    BY <1>0 DEF OperatorFits, Idle, Acceptable
  <2>3. OnlineTypes' /\ ConfigureRepeatable'
    BY <1>0, <2>1, <2>2 DEF OnlineTypes, ConfigureRepeatable, Acceptable, End, files
  <2> QED
    BY <1>2, <2>1, <2>3 DEF OnlineInv
<1> QED
  BY <1>1, <1>4, <1>5, <1>6, <1>7, <1>8, <1>9, <1>10, <1>11 DEF Operate

(* The worker's steps, and those of the senders, leave the operator alone. *)
LEMMA WorkerKeeps ==
  ASSUME OnlineInv, UNCHANGED <<files, job, call, interrupted, starts>>,
         lease' \in {lease, Nil, "worker"}, lease' = lease \/ lease # "operator",
         alerts' \in [Batches -> AlertStates], WorkerFits', AlertsFit'
  PROVE  OnlineInv'
<1>1. OnlineTypes'
  BY DEF OnlineInv, OnlineTypes, files
<1>2. lease' = "operator" <=> lease = "operator"
  BY OnlineAssumption
<1>3. OperatorFits'
  BY <1>2 DEF OnlineInv, OperatorFits, files, Acceptable
<1>4. ConfigureRepeatable'
  BY DEF OnlineInv, ConfigureRepeatable, files, Acceptable
<1> QED
  BY <1>1, <1>3, <1>4 DEF OnlineInv

LEMMA ExitKeeps ==
  ASSUME OnlineInv, Exit, UNCHANGED <<files, job, call, interrupted, ingested, starts>> PROVE OnlineInv'
<1>1. /\ worker' = Nil /\ lease' \in {lease, Nil} /\ (lease' = lease \/ lease # "operator")
      /\ alerts' = [b \in Batches |-> IF alerts[b] \in Open THEN "reset" ELSE alerts[b]]
  BY DEF Exit
<1>2. alerts' \in [Batches -> AlertStates]
  BY <1>1 DEF OnlineInv, OnlineTypes, AlertStates
<1>3. WorkerFits' /\ AlertsFit'
  BY <1>1 DEF OnlineInv, WorkerFits, AlertsFit, Open
<1> QED
  BY <1>1, <1>2, <1>3, WorkerKeeps

LEMMA SettleKeeps ==
  ASSUME OnlineInv, worker # Nil, worker.queue # <<>>, NEW success \in BOOLEAN,
         Settle(Head(worker.queue), success),
         UNCHANGED <<files, job, call, interrupted, starts>>,
         ingested' = ingested \/ (ingested' = ingested \cup {Head(worker.queue)}),
         success /\ Head(worker.queue) \in Batches => Head(worker.queue) \in ingested'
  PROVE  OnlineInv'
<1> DEFINE b == Head(worker.queue)
<1>0. worker \in Workers /\ QueueFits(worker.queue, worker.tick, alerts)
  BY DEF OnlineInv, WorkerFits
<1>1. /\ worker' = [worker EXCEPT !.queue = Tail(@), !.running = FALSE, !.tick = @ /\ b # "tick"]
      /\ lease' \in {lease, Nil} /\ (lease' = lease \/ lease # "operator")
      /\ alerts' = IF b \in Batches THEN [alerts EXCEPT ![b] = IF success THEN "done" ELSE "400"] ELSE alerts
  BY DEF Settle
<1>2. worker.queue \in Seq(Entries) /\ worker.tick \in BOOLEAN
  BY <1>0 DEF Workers
<1>3. alerts \in [Batches -> AlertStates]
  BY DEF OnlineInv, OnlineTypes
<1> HIDE DEF b
<1>4. alerts' \in [Batches -> AlertStates] /\ \A c \in Batches : c # b => alerts'[c] = alerts[c]
  BY <1>1, <1>3 DEF AlertStates, Open
<1>5. /\ Tail(worker.queue) \in Seq(Entries)
      /\ QueueFits(Tail(worker.queue), worker.tick /\ b # "tick", alerts')
  BY <1>0, <1>2, <1>4, QueueShrinks DEF b
<1>6. /\ worker' \in Workers /\ worker'.queue = Tail(worker.queue) /\ ~worker'.running
      /\ worker'.tick = (worker.tick /\ b # "tick")
  BY <1>0, <1>1, <1>5 DEF Workers
<1>7. WorkerFits'
  BY <1>5, <1>6 DEF WorkerFits
<1>8. AlertsFit'
  <2> SUFFICES ASSUME NEW c \in Batches, alerts'[c] \in {"done", "200"} PROVE c \in ingested'
    BY DEF AlertsFit
  <2>1. CASE c # b
    BY <1>4, <2>1 DEF OnlineInv, AlertsFit
  <2>2. CASE c = b
    <3>1. success
      BY <1>1, <1>3, <2>2
    <3> QED
      BY <2>2, <3>1 DEF b
  <2> QED
    BY <2>1, <2>2
<1> QED
  BY <1>1, <1>4, <1>7, <1>8, WorkerKeeps

LEMMA WorkerStepKeeps ==
  ASSUME OnlineInv, Spawn \/ Tick \/ Work \/ WorkerDies PROVE OnlineInv'
<1>0. /\ OnlineTypes /\ WorkerFits /\ AlertsFit /\ alerts \in [Batches -> AlertStates]
      /\ lease \in {Nil, "operator", "worker"}
  BY DEF OnlineInv, OnlineTypes
<1>1. CASE Spawn
  <2>1. /\ job \in Owners /\ UNCHANGED <<files, job, lease, call, interrupted, alerts, ingested, starts>>
        /\ worker' = [config |-> job.config, stopping |-> FALSE, tick |-> FALSE, queue |-> <<>>, running |-> FALSE]
    BY <1>0, <1>1 DEF Spawn, OnlineTypes
  <2>2. worker' \in Workers /\ QueueFits(worker'.queue, worker'.tick, alerts') /\ ~worker'.running
    BY <2>1, OnlineAssumption DEF Workers, Owners, QueueFits
  <2>3. WorkerFits' /\ AlertsFit'
    BY <1>0, <2>1, <2>2 DEF WorkerFits, AlertsFit
  <2> QED
    BY <1>0, <2>1, <2>3, WorkerKeeps
<1>2. CASE Tick
  <2>1. /\ worker # Nil /\ worker \in Workers /\ QueueFits(worker.queue, worker.tick, alerts)
        /\ Len(worker.queue) < QueueLimit /\ ~worker.tick
        /\ worker' = [worker EXCEPT !.queue = Append(@, "tick"), !.tick = TRUE]
        /\ UNCHANGED <<files, job, lease, call, interrupted, alerts, ingested, starts>>
    BY <1>0, <1>2 DEF Tick, Room, Serving, WorkerFits
  <2>2. worker.queue \in Seq(Entries) /\ "tick" \in Entries
    BY <2>1 DEF Workers, Entries
  <2>3. /\ Append(worker.queue, "tick") \in Seq(Entries) /\ QueueFits(Append(worker.queue, "tick"), TRUE, alerts)
        /\ Append(worker.queue, "tick") # <<>>
    BY <2>1, <2>2, QueueGrows, AppendProperties
  <2>4. /\ worker' \in Workers /\ worker'.queue = Append(worker.queue, "tick") /\ worker'.tick = TRUE
        /\ worker'.running = worker.running /\ worker'.config = worker.config
    BY <2>1, <2>3 DEF Workers
  <2>5. WorkerFits' /\ AlertsFit'
    BY <1>0, <2>1, <2>3, <2>4 DEF WorkerFits, AlertsFit, files
  <2> QED
    BY <1>0, <2>1, <2>5, WorkerKeeps
<1>3. CASE EntryFails
  BY <1>3, SettleKeeps DEF EntryFails
<1>4. CASE EntryRuns
  <2>1. CASE config = worker.config
    <3>1. /\ worker # Nil /\ worker \in Workers /\ QueueFits(worker.queue, worker.tick, alerts)
          /\ worker.queue # <<>> /\ lease = Nil /\ worker' = [worker EXCEPT !.running = TRUE] /\ lease' = "worker"
          /\ UNCHANGED <<files, job, call, interrupted, alerts, ingested, starts>>
      BY <1>0, <1>4, <2>1 DEF EntryRuns, WorkerFits
    <3>2. /\ worker' \in Workers /\ worker'.queue = worker.queue /\ worker'.tick = worker.tick
          /\ worker'.config = worker.config
      BY <3>1 DEF Workers
    <3>3. WorkerFits' /\ AlertsFit'
      BY <1>0, <2>1, <3>1, <3>2 DEF WorkerFits, AlertsFit, files
    <3> QED
      BY <1>0, <3>1, <3>3, OnlineAssumption, WorkerKeeps
  <2>2. CASE config # worker.config
    BY <1>4, <2>2, SettleKeeps DEF EntryRuns
  <2> QED
    BY <2>1, <2>2
<1>5. CASE EntryEnds
  <2>1. /\ worker # Nil /\ worker.queue # <<>> /\ UNCHANGED <<files, job, call, interrupted, starts>>
    BY <1>0, <1>5 DEF EntryEnds, WorkerFits
  <2>2. \/ /\ Settle(Head(worker.queue), TRUE)
           /\ ingested' = IF Head(worker.queue) \in Batches THEN ingested \cup {Head(worker.queue)} ELSE ingested
        \/ Settle(Head(worker.queue), FALSE) /\ UNCHANGED ingested
    BY <1>5 DEF EntryEnds
  <2> QED
    BY <2>1, <2>2, SettleKeeps
<1>6. CASE Drained \/ WorkerDies
  BY <1>6, ExitKeeps DEF Drained, WorkerDies
<1> QED
  BY <1>1, <1>2, <1>3, <1>4, <1>5, <1>6 DEF Work

LEMMA SenderStepKeeps ==
  ASSUME OnlineInv, NEW b \in Batches, Post(b) \/ Receive(b) \/ Send(b) PROVE OnlineInv'
<1>0. /\ WorkerFits /\ AlertsFit /\ alerts \in [Batches -> AlertStates] /\ b # "tick"
      /\ UNCHANGED <<files, job, lease, call, interrupted, ingested, starts>>
  BY OnlineAssumption DEF OnlineInv, OnlineTypes, Post, Receive, Send
<1>1. PICK s \in AlertStates : alerts' = [alerts EXCEPT ![b] = s] /\ (s = "200" => alerts[b] = "done") /\ s # "done"
  BY DEF Post, Receive, Send, AlertStates, Open
<1>2. alerts' \in [Batches -> AlertStates] /\ alerts'[b] = s /\ \A c \in Batches : c # b => alerts'[c] = alerts[c]
  BY <1>0, <1>1
<1>3. AlertsFit'
  BY <1>0, <1>1, <1>2 DEF AlertsFit
<1>4. WorkerFits'
  <2> SUFFICES ASSUME worker' # Nil
               PROVE /\ worker' \in Workers
                     /\ QueueFits(worker'.queue, worker'.tick, alerts')
                     /\ worker'.running => /\ lease' = "worker" /\ worker'.queue # <<>>
                                           /\ worker'.config = config'
    BY DEF WorkerFits
  <2>1. CASE UNCHANGED worker /\ alerts[b] # "queued"
    <3>1. worker \in Workers /\ QueueFits(worker.queue, worker.tick, alerts)
      BY <1>0, <2>1 DEF WorkerFits
    <3>2. \A i \in 1 .. Len(worker.queue) : worker.queue[i] \in Entries
      BY <3>1, ElementOfSeq DEF Workers
    <3>3. QueueFits(worker.queue, worker.tick, alerts')
      BY <1>2, <2>1, <3>1, <3>2 DEF QueueFits, Entries
    <3> QED
      BY <1>0, <2>1, <3>1, <3>3 DEF WorkerFits, files
  <2>2. CASE Receive(b) /\ Room
    <3>1. /\ worker # Nil /\ worker \in Workers /\ QueueFits(worker.queue, worker.tick, alerts)
          /\ Len(worker.queue) < QueueLimit /\ alerts[b] = "reading"
          /\ worker' = [worker EXCEPT !.queue = Append(@, b)] /\ alerts' = [alerts EXCEPT ![b] = "queued"]
      BY <1>0, <2>2 DEF Receive, Room, Serving, WorkerFits
    <3>2. worker.queue \in Seq(Entries) /\ b \in Entries /\ alerts'[b] = "queued"
      BY <1>0, <3>1 DEF Workers, Entries
    <3>3. /\ Append(worker.queue, b) \in Seq(Entries) /\ QueueFits(Append(worker.queue, b), worker.tick, alerts')
          /\ Append(worker.queue, b) # <<>>
      <4>1. /\ b # "tick" /\ alerts[b] # "queued"
            /\ \A c \in Batches : c # b => alerts'[c] = alerts[c]
        BY <1>0, <1>2, <3>1
      <4>2. Append(worker.queue, b) \in Seq(Entries) /\ QueueFits(Append(worker.queue, b), worker.tick, alerts')
        <5> DEFINE q == worker.queue
                   t == worker.tick
                   l == alerts'
        <5>1. /\ q \in Seq(Entries) /\ b \in Entries /\ QueueFits(q, t, alerts) /\ Len(q) < QueueLimit
              /\ (t => t) /\ l[b] = "queued" /\ \A c \in Batches : c # b => l[c] = alerts[c]
          BY <3>1, <3>2, <4>1
        <5> HIDE DEF q, t, l
        <5>2. Append(q, b) \in Seq(Entries) /\ QueueFits(Append(q, b), t, l)
          BY <4>1, <5>1, QueueGrows
        <5> QED
          BY <5>2 DEF q, t, l
      <4> QED
        BY <3>2, <4>2, AppendProperties
    <3>4. /\ worker' \in Workers /\ worker'.queue = Append(worker.queue, b) /\ worker'.tick = worker.tick
          /\ worker'.running = worker.running /\ worker'.config = worker.config
      BY <3>1, <3>3 DEF Workers
    <3> QED
      BY <1>0, <3>1, <3>3, <3>4 DEF WorkerFits, files
  <2> QED
    BY <2>1, <2>2 DEF Post, Receive, Send, Open
<1> QED
  BY <1>0, <1>2, <1>3, <1>4, WorkerKeeps

LEMMA OnlineStepInv == OnlineInv /\ [OnlineNext]_onlineVars => OnlineInv'
<1> SUFFICES ASSUME OnlineInv, [OnlineNext]_onlineVars PROVE OnlineInv'
  OBVIOUS
<1>1. CASE UNCHANGED onlineVars
  <2>1. alerts' \in [Batches -> AlertStates] /\ WorkerFits' /\ AlertsFit'
    BY <1>1 DEF onlineVars, files, OnlineInv, OnlineTypes, WorkerFits, AlertsFit
  <2> QED
    BY <1>1, <2>1, WorkerKeeps DEF onlineVars
<1> QED
  BY <1>1, OperatorStepKeeps, WorkerStepKeeps, SenderStepKeeps DEF OnlineNext

LEMMA OnlineInvariance == OnlineSpec => []OnlineInv
  BY OnlineInitInv, OnlineStepInv, PTL DEF OnlineSpec

(* The online worker, for any configurations, batches, limit of the queue, starts and
   deaths: a success that a sender sees stands for a batch in the owner's store, an entry
   runs under the configuration of its worker, the queue keeps its limit and holds nothing
   twice, and a configure call that died can be made again (worker.ts, lifecycle.ts and
   config.ts of integration/online). *)
THEOREM AlertsAreKept == OnlineSpec => []AlertsKept
<1>1. OnlineInv => AlertsKept
  <2> SUFFICES ASSUME OnlineInv PROVE AlertsKept
    OBVIOUS
  <2>1. OnlineTypeOK
    BY DEF OnlineInv, OnlineTypes, OperatorFits, WorkerFits, OnlineTypeOK, Workers, Owners, Entries, AlertStates
  <2>2. AcceptedIsIngested /\ ConfigureRepeatable /\ RunsAsConfigured
    BY DEF OnlineInv, AlertsFit, AcceptedIsIngested, WorkerFits, RunsAsConfigured
  <2>3. QueueBounded
    BY DEF OnlineInv, WorkerFits, QueueFits, QueueBounded, IsInjective, Workers
  <2> QED
    BY <2>1, <2>2, <2>3 DEF AlertsKept
<1> QED
  BY <1>1, OnlineInvariance, PTL
------------------------------------------------------------------------------
(* Collection: a clean result is of a recipe that ended.  Whoever makes the journal starts
   the one worker there ever is, so nothing starts a child again under a result, and what
   was verified after the child had ended stays so. *)
Results == [timedOut : BOOLEAN, interrupted : BOOLEAN, error : BOOLEAN, exited : BOOLEAN]
RunnerPlaces == {"none", "verify", "spawn", "watch", "copy", "publish", "gone"}

\* A result that tells of nothing that went wrong.
Clean(r) == ~r.error /\ ~r.timedOut /\ ~r.interrupted

CollectionTypes ==
  /\ pinned \in BOOLEAN
  /\ journal \subseteq {".", "request", "process", "cancel"}
  /\ left \subseteq Outputs /\ evidence \subseteq Outputs
  /\ outcome = {} \/ \E r \in Results : outcome = {r}
  /\ runner \in [at : RunnerPlaces, result : Results]
  /\ child \in {"none", "running", "exited", "killed"}
  /\ asking = [a \in Askers |-> asking[a]]
  /\ recorded \in {"RUNNING", "UNKNOWN", "DONE"}

(* The claim is attempted once: whoever made the journal starts the one worker. *)
OneAttempt ==
  /\ runner.at # "none" => "." \in journal
  /\ \A a \in Askers : asking[a].at = "ask" =>
       /\ "." \in journal /\ runner.at = "none"
       /\ \A b \in Askers : asking[b].at = "ask" => a = b

(* What the worker at s knows of its child: before it started one there is none; one that
   it has killed is in its result; and when it copies and publishes a clean result the
   child has ended under pins that nothing can break any more. *)
RunnerFits(s) ==
  /\ s.at # "gone" => outcome = {}
  /\ s.at \in {"none", "verify", "spawn"} => child = "none"
  /\ s.at = "watch" => child # "none" /\ (child = "killed" => ~Clean(s.result))
  /\ s.at = "copy" => pinned /\ child \in {"exited", "killed"}
  /\ s.at \in {"copy", "publish"} /\ Clean(s.result) => child = "exited" /\ s.result.exited /\ pinned
  /\ s.at = "publish" /\ Clean(s.result) => evidence = Outputs

CollectionInv ==
  /\ CollectionTypes
  /\ OneAttempt
  /\ RunnerFits(runner)
  /\ ResultOfRecipe

LEMMA CollectionInitInv == CollectionInit => CollectionInv
  BY DEF CollectionInit, CollectionInv, CollectionTypes, OneAttempt, RunnerFits, ResultOfRecipe,
         Fresh, Results, RunnerPlaces, Clean

(* Steps of a call leave the worker, its child and its result alone, and none of them but
   collect() and the start of the worker has to do with the attempt. *)
LEMMA CallsKeep ==
  ASSUME CollectionInv, NEW a \in Askers, NEW s, AskerStep(a, s), s.at # "ask",
         journal' \in {journal, journal \cup {"cancel"}},
         UNCHANGED <<pinned, left, evidence, outcome, runner, child, recorded>>
  PROVE  CollectionInv'
<1>1. CollectionTypes /\ OneAttempt /\ RunnerFits(runner) /\ ResultOfRecipe
  BY DEF CollectionInv
<1>2. /\ asking' = [b \in Askers |-> asking'[b]] /\ asking'[a] = s
      /\ \A b \in Askers \ {a} : asking'[b] = asking[b]
  BY <1>1 DEF AskerStep, CollectionTypes
<1>3. CollectionTypes'
  BY <1>1, <1>2 DEF CollectionTypes
<1>4. OneAttempt'
  BY <1>1, <1>2 DEF OneAttempt
<1>5. RunnerFits(runner)' /\ ResultOfRecipe'
  BY <1>1 DEF RunnerFits, ResultOfRecipe
<1> QED
  BY <1>3, <1>4, <1>5 DEF CollectionInv

LEMMA CollectKeeps == ASSUME CollectionInv, NEW a \in Askers, Collect(a) PROVE CollectionInv'
<1>1. CollectionTypes /\ OneAttempt /\ RunnerFits(runner) /\ ResultOfRecipe
  BY DEF CollectionInv
<1>2. CASE ~(pinned /\ "." \notin journal)
  BY <1>2, CallsKeep DEF Collect, Answered
<1>3. CASE pinned /\ "." \notin journal
  <2>1. /\ journal' = journal \cup {"."} /\ AskerStep(a, [at |-> "ask"])
        /\ UNCHANGED <<pinned, left, evidence, outcome, runner, child, recorded>>
    BY <1>3 DEF Collect
  <2>2. /\ asking' = [b \in Askers |-> asking'[b]] /\ asking'[a] = [at |-> "ask"]
        /\ \A b \in Askers \ {a} : asking'[b] = asking[b]
    BY <1>1, <2>1 DEF AskerStep, CollectionTypes
  <2>3. CollectionTypes'
    BY <1>1, <2>1, <2>2 DEF CollectionTypes
  <2>4. OneAttempt'
    BY <1>1, <1>3, <2>1, <2>2 DEF OneAttempt
  <2>5. RunnerFits(runner)' /\ ResultOfRecipe'
    BY <1>1, <2>1 DEF RunnerFits, ResultOfRecipe
  <2> QED
    BY <2>3, <2>4, <2>5 DEF CollectionInv
<1> QED
  BY <1>2, <1>3

LEMMA StartKeeps == ASSUME CollectionInv, NEW a \in Askers, StartWorker(a) PROVE CollectionInv'
<1>1. CollectionTypes /\ OneAttempt /\ RunnerFits(runner) /\ ResultOfRecipe
  BY DEF CollectionInv
<1>2. /\ asking[a].at = "ask" /\ journal' = journal \cup {"request"}
      /\ UNCHANGED <<pinned, left, evidence, outcome, child, recorded>>
      /\ "." \in journal /\ runner.at = "none" /\ \A b \in Askers \ {a} : asking[b].at # "ask"
  BY <1>1 DEF StartWorker, OneAttempt
<1>3. PICK s \in {[at |-> "poll"], Answered("refused")} : AskerStep(a, s)
  BY DEF StartWorker
<1>4. /\ asking' = [b \in Askers |-> asking'[b]] /\ asking'[a] = s /\ s.at # "ask"
      /\ \A b \in Askers \ {a} : asking'[b] = asking[b]
  BY <1>1, <1>3 DEF AskerStep, CollectionTypes, Answered
<1>5. runner' \in [at : {"none", "verify"}, result : Results]
  BY <1>1, <1>2 DEF StartWorker, CollectionTypes
<1>6. CollectionTypes' /\ OneAttempt'
  BY <1>1, <1>2, <1>4, <1>5 DEF CollectionTypes, OneAttempt, RunnerPlaces
<1>7. RunnerFits(runner)' /\ ResultOfRecipe'
  BY <1>1, <1>2, <1>5 DEF RunnerFits, ResultOfRecipe
<1> QED
  BY <1>6, <1>7 DEF CollectionInv

(* A step of the worker: what the invariant asks of the place it goes to. *)
LEMMA RunnerKeeps ==
  ASSUME CollectionInv, runner.at # "none",
         runner' \in [at : RunnerPlaces \ {"none"}, result : Results], RunnerFits(runner)',
         UNCHANGED <<pinned, left, asking, recorded>>,
         journal' \in {journal, journal \cup {"process"}},
         evidence' \subseteq Outputs, child' \in {"none", "running", "exited", "killed"},
         \/ UNCHANGED outcome /\ outcome = {}
         \/ UNCHANGED <<outcome, child, evidence>>
         \/ outcome' = {runner.result} /\ ResultOfRecipe'
  PROVE  CollectionInv'
<1>1. CollectionTypes /\ OneAttempt /\ ResultOfRecipe
  BY DEF CollectionInv
<1>2. CollectionTypes'
  BY <1>1 DEF CollectionTypes
<1>3. OneAttempt'
  BY <1>1 DEF OneAttempt
<1>4. ResultOfRecipe'
  BY <1>1 DEF ResultOfRecipe
<1> QED
  BY <1>2, <1>3, <1>4 DEF CollectionInv

LEMMA RunningKeeps ==
  ASSUME CollectionInv, Running \/ TimesOut \/ Floods \/ Interrupts \/ RunnerDies
  PROVE  CollectionInv'
<1>0. CollectionTypes /\ OneAttempt /\ RunnerFits(runner) /\ ResultOfRecipe
  BY DEF CollectionInv
<1>1. runner.at \in RunnerPlaces /\ runner.result \in Results /\ Fresh \in Results
  BY <1>0 DEF CollectionTypes, Fresh, Results
<1>2. \A r \in Results : [r EXCEPT !.error = TRUE] \in Results /\ ~Clean([r EXCEPT !.error = TRUE])
  BY DEF Results, Clean
<1>3. CASE VerifyFirst
  <2>1. /\ runner' \in [at : {"spawn", "publish"}, result : Results]
        /\ runner'.at = "publish" => ~Clean(runner'.result)
    BY <1>1, <1>2, <1>3 DEF VerifyFirst, RunnerGoes
  <2>2. /\ runner.at = "verify"
        /\ UNCHANGED <<pinned, journal, left, evidence, outcome, child, asking, recorded>>
    BY <1>3 DEF VerifyFirst
  <2>3. RunnerFits(runner)'
    BY <1>0, <2>1, <2>2 DEF RunnerFits
  <2> QED
    BY <1>0, <2>1, <2>2, <2>3, RunnerKeeps DEF CollectionTypes, RunnerPlaces
<1>4. CASE SpawnChild
  <2>1. /\ runner' \in [at : {"watch", "publish"}, result : Results]
        /\ runner'.at = "publish" => ~Clean(runner'.result)
    BY <1>1, <1>2, <1>4 DEF SpawnChild, RunnerGoes
  <2>2. /\ runner.at = "spawn" /\ child' = "running" /\ journal' \in {journal, journal \cup {"process"}}
        /\ UNCHANGED <<pinned, left, evidence, outcome, asking, recorded>>
    BY <1>4 DEF SpawnChild
  <2>3. RunnerFits(runner)' /\ outcome = {}
    BY <1>0, <2>1, <2>2 DEF RunnerFits
  <2> QED
    BY <1>0, <2>1, <2>2, <2>3, RunnerKeeps DEF CollectionTypes, RunnerPlaces
<1>5. ASSUME NEW r \in Results, Kill(r), ~Clean(r) PROVE CollectionInv'
  <2>1. /\ runner.at = "watch" /\ child' = "killed" /\ runner' = [at |-> "watch", result |-> r]
        /\ UNCHANGED <<pinned, journal, left, evidence, outcome, asking, recorded>>
    BY <1>5 DEF Kill, RunnerGoes
  <2>2. RunnerFits(runner)' /\ outcome = {}
    BY <1>0, <1>5, <2>1 DEF RunnerFits
  <2> QED
    BY <1>0, <2>1, <2>2, RunnerKeeps DEF CollectionTypes, RunnerPlaces
<1>6. CASE TimesOut \/ Floods \/ Interrupts
  <2>1. \A r \in {[runner.result EXCEPT !.timedOut = TRUE], [runner.result EXCEPT !.error = TRUE],
                  [runner.result EXCEPT !.interrupted = TRUE]} : r \in Results /\ ~Clean(r)
    BY <1>1 DEF Results, Clean
  <2> QED
    BY <1>5, <1>6, <2>1 DEF TimesOut, Floods, Interrupts
<1>7. CASE VerifyLast
  <2> DEFINE r == [runner.result EXCEPT !.exited = child = "exited"]
             failed == [r EXCEPT !.error = TRUE]
  <2>1. /\ r \in Results /\ (Clean(r) <=> Clean(runner.result)) /\ (r.exited <=> child = "exited")
        /\ failed \in Results /\ ~Clean(failed)
    BY <1>1 DEF Results, Clean
  <2>2. /\ runner.at = "watch" /\ child \in {"exited", "killed"}
        /\ UNCHANGED <<pinned, journal, left, evidence, outcome, child, asking, recorded>>
        /\ \/ pinned /\ runner' = [at |-> "copy", result |-> r]
           \/ runner' = [at |-> "publish", result |-> failed]
    BY <1>7 DEF VerifyLast, RunnerGoes
  <2> HIDE DEF r, failed
  <2>3. RunnerFits(runner)'
    BY <1>0, <2>1, <2>2 DEF RunnerFits
  <2>4. runner' \in [at : {"copy", "publish"}, result : Results]
    BY <2>1, <2>2
  <2> QED
    BY <1>0, <2>2, <2>3, <2>4, RunnerKeeps DEF CollectionTypes, RunnerPlaces
<1>8. CASE Copy
  <2> DEFINE r == [runner.result EXCEPT !.error = @ \/ left # Outputs]
  <2>1. /\ r \in Results /\ (Clean(r) => Clean(runner.result) /\ left = Outputs)
        /\ (r.exited <=> runner.result.exited)
    BY <1>1 DEF Results, Clean
  <2>2. /\ runner.at = "copy" /\ evidence' = left /\ runner' = [at |-> "publish", result |-> r]
        /\ UNCHANGED <<pinned, journal, left, outcome, child, asking, recorded>>
    BY <1>8 DEF Copy, RunnerGoes
  <2> HIDE DEF r
  <2>3. RunnerFits(runner)' /\ outcome = {}
    BY <1>0, <2>1, <2>2 DEF RunnerFits
  <2> QED
    BY <1>0, <2>1, <2>2, <2>3, RunnerKeeps DEF CollectionTypes, RunnerPlaces
<1>9. CASE Publish
  <2>1. /\ runner.at = "publish" /\ outcome' = {runner.result} /\ runner' = [at |-> "gone", result |-> Fresh]
        /\ UNCHANGED <<pinned, journal, left, evidence, child, asking, recorded>>
    BY <1>9 DEF Publish, RunnerGoes
  <2>2. RunnerFits(runner)' /\ ResultOfRecipe'
    BY <1>0, <2>1 DEF RunnerFits, ResultOfRecipe, Clean
  <2> QED
    BY <1>0, <1>1, <2>1, <2>2, RunnerKeeps DEF CollectionTypes, RunnerPlaces
<1>10. CASE RunnerDies
  <2>1. /\ runner.at # "none" /\ runner' = [at |-> "gone", result |-> Fresh]
        /\ UNCHANGED <<pinned, journal, left, evidence, outcome, child, asking, recorded>>
    BY <1>10 DEF RunnerDies, RunnerGoes
  <2>2. RunnerFits(runner)'
    BY <1>0, <2>1 DEF RunnerFits
  <2> QED
    BY <1>0, <1>1, <2>1, <2>2, RunnerKeeps DEF CollectionTypes, RunnerPlaces
<1> QED
  BY <1>3, <1>4, <1>6, <1>7, <1>8, <1>9, <1>10 DEF Running

LEMMA CollectionStepInv == CollectionInv /\ [CollectionNext]_collectionVars => CollectionInv'
<1> SUFFICES ASSUME CollectionInv, [CollectionNext]_collectionVars PROVE CollectionInv'
  OBVIOUS
<1>0. CollectionTypes /\ OneAttempt /\ RunnerFits(runner) /\ ResultOfRecipe
  BY DEF CollectionInv
<1>1. ASSUME NEW a \in Askers, Inspect(a) \/ Polling(a) \/ AskerLeaves(a) PROVE CollectionInv'
  BY <1>1, CallsKeep DEF Inspect, Polling, PollFinds, PollAborts, PollGivesUp, AskerLeaves, Answered
<1>2. CASE Record
  BY <1>0, <1>2 DEF Record, CollectionInv, CollectionTypes, OneAttempt, RunnerFits, ResultOfRecipe
<1>3. CASE ChildWrites
  <2>1. /\ child = "running" /\ left' \subseteq Outputs /\ pinned' \in BOOLEAN
        /\ UNCHANGED <<journal, evidence, outcome, runner, child, asking, recorded>>
    BY <1>0, <1>3 DEF ChildWrites, CollectionTypes
  <2>2. CollectionTypes' /\ OneAttempt'
    BY <1>0, <2>1 DEF CollectionTypes, OneAttempt
  <2>3. RunnerFits(runner)' /\ ResultOfRecipe'
    BY <1>0, <2>1 DEF RunnerFits, ResultOfRecipe
  <2> QED
    BY <2>2, <2>3 DEF CollectionInv
<1>4. CASE ChildExits
  <2>1. /\ child = "running" /\ child' = "exited"
        /\ UNCHANGED <<pinned, journal, left, evidence, outcome, runner, asking, recorded>>
    BY <1>4 DEF ChildExits
  <2>2. CollectionTypes' /\ OneAttempt'
    BY <1>0, <2>1 DEF CollectionTypes, OneAttempt
  <2>3. RunnerFits(runner)' /\ ResultOfRecipe'
    BY <1>0, <2>1 DEF RunnerFits, ResultOfRecipe
  <2> QED
    BY <2>2, <2>3 DEF CollectionInv
<1>5. CASE CancelRead \/ CancelWrite \/ UNCHANGED collectionVars
  <2>1. /\ journal' \in {journal, journal \cup {"cancel"}}
        /\ UNCHANGED <<pinned, left, evidence, outcome, runner, child, asking, recorded>>
    BY <1>5 DEF CancelRead, CancelWrite, collectionVars
  <2> QED
    BY <1>0, <2>1 DEF CollectionInv, CollectionTypes, OneAttempt, RunnerFits, ResultOfRecipe
<1> QED
  BY <1>1, <1>2, <1>3, <1>4, <1>5, CollectKeeps, StartKeeps, RunningKeeps DEF CollectionNext

LEMMA CollectionInvariance == CollectionSpec => []CollectionInv
  BY CollectionInitInv, CollectionStepInv, PTL DEF CollectionSpec

(* What a collection tells, for any callers, outputs and deaths: a result without an error
   is of a recipe that ended, under pins that held, with all of its outputs
   (collection/worker.ts). *)
THEOREM CollectionsAreFaithful == CollectionSpec => []ResultFaithful
<1>1. CollectionInv => ResultFaithful
  <2> SUFFICES ASSUME CollectionInv PROVE ResultFaithful
    OBVIOUS
  <2>1. Cardinality(outcome) <= 1
    <3>1. Cardinality({}) = 0 /\ \A r : Cardinality({r}) = 1
      BY FS_EmptySet, FS_Singleton
    <3>2. outcome = {} \/ \E r : outcome = {r}
      BY DEF CollectionInv, CollectionTypes
    <3>3. Cardinality(outcome) \in {0, 1}
      BY <3>1, <3>2, Zenon
    <3> QED
      BY <3>3
  <2> QED
    BY <2>1 DEF CollectionInv, CollectionTypes, RunnerPlaces, ResultFaithful, CollectionTypeOK
<1> QED
  BY <1>1, CollectionInvariance, PTL
------------------------------------------------------------------------------
(* Reconstruction: an answer is given about a claim that has left nothing behind.  The
   worker and the supervisor are each described by where they are; what relates them is
   that the supervisor exists only once the generation is done, and ends before the worker
   that waits for it goes on to a receipt. *)
MakerPlaces == {"none", "verify", "generate", "stages", "await", "outputs", "receipt", "gone"}
PhasePlaces == {"none", "prepare", "attach", "stages", "close", "report", "ended", "lost"}
Prefixes == {<<"generation">>, <<"generation", "build">>, Order}

ReconstructionTypes ==
  /\ adapter \in {"local", "codex", "state"}
  /\ request \in {"none", "made", "asked"} /\ cancel \in {"no", "cancel", "timeout"}
  /\ maker \in [at : MakerPlaces, why : {None, "FAILED", "CANCELLED"}]
  /\ generator \in {"none", "running", "done", "failed"}
  /\ phase \in [at : PhasePlaces, why : {None, "failed"}]
  /\ volume \in {"none", "image", "mounted", "uncertain", "closed"}
  /\ stage \in {None, "build", "run", "observe"}
  /\ completed \in {<<>>} \cup Prefixes
  /\ report \in {None, "ok", "failed"}
  /\ receipt \in {None, "SUCCEEDED", "FAILED", "CANCELLED"}

\* No process is left and no supervisor at work; and all of the work was done.
Settled == generator # "running" /\ stage = None /\ phase.at \in {"none", "ended"}
Whole == completed = Order /\ (adapter = "state" => report = "ok")

(* The worker, by where it is: nothing is left of the stages when it comes to its
   receipt, and a receipt is its last act. *)
MakerFits ==
  /\ request # "asked" => maker.at = "none"
  /\ maker.at \in {"none", "verify"} => generator = "none"
  /\ maker.at \in {"none", "verify", "generate"} => completed = <<>> /\ stage = None /\ phase.at = "none"
  /\ maker.at = "stages" =>
       /\ adapter # "state" /\ generator = "done" /\ completed \in Prefixes
       /\ stage # None => completed # Order /\ stage = Order[Len(completed) + 1]
  /\ maker.at \in {"await", "outputs"} => adapter = "state"
  /\ maker.at = "outputs" => phase.at = "ended" /\ report = "ok"
  /\ maker.at = "receipt" => Settled /\ (maker.why = None => Whole)
  /\ receipt # None => maker.at = "gone" /\ Settled /\ (receipt = "SUCCEEDED" => Whole)

(* The supervisor, by where it is: what it has of the volume, and that it reports only
   after its last stage has ended and the volume is closed. *)
PhaseFits ==
  /\ phase.at # "none" =>
       adapter = "state" /\ generator = "done" /\ maker.at \in {"await", "outputs", "receipt", "gone"}
  /\ phase.at \in {"none", "prepare"} => volume = "none"
  /\ phase.at = "attach" => volume = "image"
  /\ phase.at = "stages" => volume = "mounted" /\ stage \in {None, StateOrder[Len(completed)]}
  /\ phase.at = "close" => volume # "closed"
  /\ phase.at \in {"report", "ended"} => volume \in {"none", "image", "closed"}
  /\ phase.at \in {"prepare", "attach"} => completed = <<"generation">>
  /\ phase.at = "stages" => completed \in Prefixes
  /\ phase.at \in {"prepare", "attach", "close", "report", "ended"} => stage = None
  /\ phase.at = "close" /\ phase.why = None => completed = Order /\ volume = "mounted"
  /\ phase.at = "report" /\ phase.why = None => completed = Order /\ volume = "closed"
  /\ report # None => phase.at = "ended"
  /\ report = "ok" => completed = Order /\ volume = "closed"

RecoveryFits ==
  recovered => /\ phase.at = "lost" /\ volume = "none" /\ stage = None
               /\ generator = "done" /\ maker.at = "gone"

ReconstructionInv == ReconstructionTypes /\ MakerFits /\ PhaseFits /\ RecoveryFits

LEMMA TwoElements ==
  ASSUME NEW S, NEW s \in Seq(S), NEW b \in S, Len(s) = 1,
         NEW t \in Seq(S), Len(t) = 2, t[1] = s[1], t[2] = b
  PROVE  Append(s, b) = t
  OBVIOUS

LEMMA SecondAppended == \A a, b : Append(<<a>>, b) = <<a, b>>
<1> SUFFICES ASSUME NEW a, NEW b PROVE Append(<<a>>, b) = <<a, b>>
  OBVIOUS
<1> DEFINE S == {a, b}
           s == <<a>>
           t == <<a, b>>
<1>1. /\ s \in Seq(S) /\ Len(s) = 1 /\ s[1] = a /\ b \in S
      /\ t \in Seq(S) /\ Len(t) = 2 /\ t[1] = a /\ t[2] = b
  OBVIOUS
<1> HIDE DEF S, s, t
<1> QED
  BY <1>1, TwoElements DEF s, t

LEMMA PrefixGrows ==
  ASSUME NEW c \in Prefixes
  PROVE  /\ Len(c) \in 1 .. 3 /\ (Len(c) = 3 <=> c = Order) /\ c # <<>>
         /\ StateOrder[Len(c)] \in {"build", "run", "observe"}
         /\ StateOrder[Len(c)] = "observe" <=> c = Order
         /\ c # Order =>
              /\ Order[Len(c) + 1] = StateOrder[Len(c)]
              /\ Append(c, StateOrder[Len(c)]) \in Prefixes
<1>1. /\ StateOrder[1] = "build" /\ StateOrder[2] = "run" /\ StateOrder[3] = "observe"
      /\ Order[2] = "build" /\ Order[3] = "run" /\ Len(Order) = 3
      /\ Order = Append(<<"generation", "build">>, "run")
  BY DEF Order, StateOrder
<1>2. CASE c = <<"generation">>
  <2>1. Len(c) = 1 /\ Append(c, "build") = <<"generation", "build">>
    BY <1>2, SecondAppended
  <2> QED
    BY <1>1, <1>2, <2>1 DEF Prefixes
<1>3. CASE c = <<"generation", "build">>
  <2>1. Len(c) = 2 /\ Append(c, "run") = Order
    BY <1>1, <1>3
  <2> QED
    BY <1>1, <1>3, <2>1 DEF Prefixes
<1>4. CASE c = Order
  <2>1. Len(c) = 3 /\ c # <<>>
    BY <1>1, <1>4 DEF Order
  <2> QED
    BY <1>1, <1>4, <2>1 DEF Prefixes
<1> QED
  BY <1>2, <1>3, <1>4 DEF Prefixes

LEMMA ReconstructionInitInv == ReconstructionInit => ReconstructionInv
  BY ReconstructionAssumption
    DEF ReconstructionInit, ReconstructionInv, ReconstructionTypes, MakerFits, PhaseFits,
        RecoveryFits, MakerPlaces, PhasePlaces, Settled, Whole

LEMMA MakerStepKeeps ==
  ASSUME ReconstructionInv, Making PROVE ReconstructionInv'
<1>0. ReconstructionTypes /\ MakerFits /\ PhaseFits /\ RecoveryFits
  BY DEF ReconstructionInv
<1>1. /\ UNCHANGED <<adapter, request, cancel, volume, report, recovered>>
      /\ maker.at \in MakerPlaces \ {"none", "gone"} /\ request = "asked"
      /\ receipt = None /\ ~recovered
  BY <1>0 DEF Making, Verify, Materialize, MakerStage, MakerStageEnds, Collate, Await, PublishReceipt,
       keptByMaker, ReconstructionTypes, MakerPlaces, MakerFits, RecoveryFits
<1>2. RecoveryFits'
  BY <1>1 DEF RecoveryFits
<1>3. Cancelled \in {"FAILED", "CANCELLED"}
  BY DEF Cancelled
<1>4. \A why : MakerFails(why) => maker'.at = "receipt" /\ maker'.why = why /\ maker' = [at |-> "receipt", why |-> why]
  BY DEF MakerFails
<1>5. \A where \in MakerPlaces : MakerAt(where) =>
         maker' \in [at : MakerPlaces, why : {None, "FAILED", "CANCELLED"}] /\ maker'.at = where /\ maker'.why = maker.why
  BY <1>0 DEF MakerAt, ReconstructionTypes
<1>6. ASSUME NEW why \in {"FAILED", "CANCELLED"}, MakerFails(why), Settled',
             UNCHANGED <<receipt, phase, volume, report>>, generator' \in {"none", "done", "failed"},
             generator' = generator \/ phase.at = "none",
             completed' = completed,
             stage' = None
      PROVE  ReconstructionInv'
  <2>1. /\ maker' = [at |-> "receipt", why |-> why] /\ maker'.at = "receipt" /\ maker'.why # None
    BY <1>4, <1>6, ReconstructionAssumption
  <2>2. ReconstructionTypes'
    BY <1>0, <1>1, <1>6, <2>1 DEF ReconstructionTypes, MakerPlaces
  <2>3. MakerFits'
    BY <1>1, <1>6, <2>1 DEF MakerFits
  <2>4. PhaseFits'
    BY <1>0, <1>1, <1>6, <2>1 DEF PhaseFits
  <2> QED
    BY <1>2, <2>2, <2>3, <2>4 DEF ReconstructionInv
<1>7. CASE Verify
  <2>1. /\ maker.at = "verify" /\ generator = "none" /\ phase.at = "none" /\ completed = <<>> /\ stage = None
        /\ UNCHANGED <<phase, stage, completed, receipt, volume, report>>
    BY <1>0, <1>1, <1>7 DEF Verify, MakerFits
  <2>2. CASE (MakerFails("FAILED") \/ MakerFails(Cancelled)) /\ UNCHANGED generator
    BY <1>3, <1>6, <2>1, <2>2 DEF Settled
  <2>3. CASE MakerAt("generate") /\ generator' = "running"
    <3>1. maker' \in [at : MakerPlaces, why : {None, "FAILED", "CANCELLED"}] /\ maker'.at = "generate"
      BY <1>5, <2>3 DEF MakerPlaces
    <3>2. ReconstructionTypes' /\ MakerFits' /\ PhaseFits'
      BY <1>0, <1>1, <2>1, <2>3, <3>1 DEF ReconstructionTypes, MakerFits, PhaseFits
    <3> QED
      BY <1>2, <3>2 DEF ReconstructionInv
  <2> QED
    BY <1>7, <2>2, <2>3 DEF Verify
<1>8. CASE Materialize
  <2>1. /\ maker.at = "generate" /\ generator \in {"done", "failed"}
        /\ phase.at = "none" /\ completed = <<>> /\ stage = None /\ volume = "none" /\ report = None
        /\ UNCHANGED <<generator, stage, receipt, volume, report>>
    BY <1>0, <1>1, <1>8 DEF Materialize, MakerFits, PhaseFits
  <2>2. CASE generator = "failed"
    <3>1. MakerFailsOfProcess /\ UNCHANGED <<completed, phase>>
      BY <1>8, <2>2 DEF Materialize
    <3> QED
      BY <1>3, <1>6, <2>1, <3>1 DEF MakerFailsOfProcess, Settled
  <2>3. CASE generator = "done" /\ adapter = "state"
    <3>1. completed' = <<"generation">> /\ MakerAt("await") /\ phase' = [phase EXCEPT !.at = "prepare"]
      BY <1>8, <2>3 DEF Materialize
    <3>2. maker' \in [at : MakerPlaces, why : {None, "FAILED", "CANCELLED"}] /\ maker'.at = "await"
      BY <1>5, <3>1 DEF MakerPlaces
    <3>3. phase' \in [at : PhasePlaces, why : {None, "failed"}] /\ phase'.at = "prepare"
      BY <1>0, <3>1 DEF ReconstructionTypes, PhasePlaces
    <3>4. ReconstructionTypes' /\ MakerFits' /\ PhaseFits'
      BY <1>0, <1>1, <2>1, <2>3, <3>1, <3>2, <3>3, ReconstructionAssumption
        DEF ReconstructionTypes, MakerFits, PhaseFits, Prefixes
    <3> QED
      BY <1>2, <3>4 DEF ReconstructionInv
  <2>4. CASE generator = "done" /\ adapter # "state"
    <3>1. completed' = <<"generation">> /\ MakerAt("stages") /\ UNCHANGED phase
      BY <1>8, <2>4 DEF Materialize
    <3>2. maker' \in [at : MakerPlaces, why : {None, "FAILED", "CANCELLED"}] /\ maker'.at = "stages"
      BY <1>5, <3>1 DEF MakerPlaces
    <3>3. ReconstructionTypes' /\ MakerFits' /\ PhaseFits'
      BY <1>0, <1>1, <2>1, <2>4, <3>1, <3>2, ReconstructionAssumption
        DEF ReconstructionTypes, MakerFits, PhaseFits, Prefixes
    <3> QED
      BY <1>2, <3>3 DEF ReconstructionInv
  <2> QED
    BY <2>1, <2>2, <2>3, <2>4
<1>9. CASE MakerStage
  <2>1. /\ maker.at = "stages" /\ stage = None /\ Len(completed) < 3
        /\ adapter # "state" /\ generator = "done" /\ phase.at = "none" /\ completed \in Prefixes /\ completed # Order
        /\ UNCHANGED <<generator, phase, completed, receipt, volume, report>>
    BY <1>0, <1>1, <1>9, PrefixGrows DEF MakerStage, MakerFits, PhaseFits
  <2>2. CASE (MakerFails("FAILED") \/ MakerFails(Cancelled)) /\ UNCHANGED stage
    BY <1>3, <1>6, <2>1, <2>2 DEF Settled
  <2>3. CASE stage' = Order[Len(completed) + 1] /\ UNCHANGED maker
    <3>1. stage' \in {"build", "run", "observe"}
      BY <2>1, <2>3, PrefixGrows
    <3>2. ReconstructionTypes' /\ MakerFits' /\ PhaseFits'
      BY <1>0, <1>1, <2>1, <2>3, <3>1 DEF ReconstructionTypes, MakerFits, PhaseFits
    <3> QED
      BY <1>2, <3>2 DEF ReconstructionInv
  <2> QED
    BY <1>9, <2>2, <2>3 DEF MakerStage
<1>10. CASE MakerStageEnds
  <2>1. /\ maker.at = "stages" /\ stage # None /\ stage' = None /\ adapter # "state" /\ generator = "done"
        /\ phase.at = "none" /\ completed \in Prefixes /\ completed # Order /\ stage = Order[Len(completed) + 1]
        /\ UNCHANGED <<generator, phase, receipt, volume, report>>
    BY <1>0, <1>1, <1>10 DEF MakerStageEnds, MakerFits, PhaseFits
  <2>2. CASE MakerFailsOfProcess /\ UNCHANGED completed
    BY <1>3, <1>6, <2>1, <2>2 DEF MakerFailsOfProcess, Settled
  <2>3. CASE completed' = Append(completed, stage) /\ UNCHANGED maker
    <3>1. completed' \in Prefixes
      BY <2>1, <2>3, PrefixGrows
    <3>2. report = None
      BY <1>0, <2>1 DEF PhaseFits
    <3>3. ReconstructionTypes' /\ MakerFits' /\ PhaseFits'
      BY <1>0, <1>1, <2>1, <2>3, <3>1, <3>2, ReconstructionAssumption DEF ReconstructionTypes, MakerFits, PhaseFits
    <3> QED
      BY <1>2, <3>3 DEF ReconstructionInv
  <2> QED
    BY <1>10, <2>2, <2>3 DEF MakerStageEnds
<1>11. CASE Collate
  <2>1. /\ Settled /\ Whole /\ UNCHANGED <<generator, phase, stage, completed, receipt, volume, report>>
        /\ generator \in {"none", "done", "failed"}
    <3>1. UNCHANGED <<generator, phase, stage, completed, receipt, volume, report>>
      BY <1>1, <1>11 DEF Collate
    <3>2. CASE maker.at = "stages" /\ stage = None /\ Len(completed) = 3
      BY <1>0, <3>1, <3>2, PrefixGrows DEF MakerFits, PhaseFits, Settled, Whole
    <3>3. CASE maker.at = "outputs"
      BY <1>0, <3>1, <3>3 DEF MakerFits, PhaseFits, Settled, Whole
    <3> QED
      BY <1>11, <3>1, <3>2, <3>3 DEF Collate
  <2>2. CASE MakerFails("FAILED")
    BY <1>6, <2>1, <2>2 DEF Settled
  <2>3. CASE MakerAt("receipt")
    <3>1. maker' \in [at : MakerPlaces, why : {None, "FAILED", "CANCELLED"}] /\ maker'.at = "receipt"
      BY <1>5, <2>3 DEF MakerPlaces
    <3>2. Settled' /\ Whole'
      BY <1>1, <2>1 DEF Settled, Whole
    <3>3. ReconstructionTypes' /\ MakerFits' /\ PhaseFits'
      BY <1>0, <1>1, <2>1, <3>1, <3>2 DEF ReconstructionTypes, MakerFits, PhaseFits
    <3> QED
      BY <1>2, <3>3 DEF ReconstructionInv
  <2> QED
    BY <1>11, <2>2, <2>3 DEF Collate
<1>12. CASE Await
  <2>1. /\ maker.at = "await" /\ phase.at \in {"ended", "lost"} /\ adapter = "state" /\ generator = "done"
        /\ UNCHANGED <<generator, phase, stage, completed, receipt, volume, report>>
    BY <1>0, <1>1, <1>12 DEF Await, MakerFits, PhaseFits
  <2>2. CASE phase.at = "lost"
    <3>1. maker' \in [at : MakerPlaces, why : {None, "FAILED", "CANCELLED"}] /\ maker'.at = "gone"
      BY <1>0, <1>12, <2>2 DEF Await, ReconstructionTypes, MakerPlaces
    <3>2. ReconstructionTypes' /\ MakerFits' /\ PhaseFits'
      BY <1>0, <1>1, <2>1, <3>1 DEF ReconstructionTypes, MakerFits, PhaseFits
    <3> QED
      BY <1>2, <3>2 DEF ReconstructionInv
  <2>3. CASE phase.at = "ended" /\ report # "ok"
    <3>1. MakerFailsOfProcess /\ stage = None
      BY <1>0, <1>12, <2>3 DEF Await, PhaseFits
    <3> QED
      BY <1>3, <1>6, <2>1, <2>3, <3>1 DEF MakerFailsOfProcess, Settled
  <2>4. CASE phase.at = "ended" /\ report = "ok"
    <3>1. MakerAt("outputs")
      BY <1>12, <2>4 DEF Await
    <3>2. maker' \in [at : MakerPlaces, why : {None, "FAILED", "CANCELLED"}] /\ maker'.at = "outputs"
      BY <1>5, <3>1 DEF MakerPlaces
    <3>3. ReconstructionTypes' /\ MakerFits' /\ PhaseFits'
      BY <1>0, <1>1, <2>1, <2>4, <3>2 DEF ReconstructionTypes, MakerFits, PhaseFits
    <3> QED
      BY <1>2, <3>3 DEF ReconstructionInv
  <2> QED
    BY <2>1, <2>2, <2>3, <2>4
<1>13. CASE PublishReceipt
  <2>1. /\ maker.at = "receipt" /\ Settled /\ (maker.why = None => Whole)
        /\ receipt' \in (IF maker.why = None THEN {"SUCCEEDED", "FAILED"} ELSE {maker.why})
        /\ UNCHANGED <<generator, phase, stage, completed, volume, report>>
    BY <1>0, <1>1, <1>13 DEF PublishReceipt, MakerFits
  <2>2. /\ receipt' \in {"SUCCEEDED", "FAILED", "CANCELLED"}
        /\ receipt' = "SUCCEEDED" => Whole
    BY <1>0, <2>1 DEF ReconstructionTypes
  <2>3. maker' \in [at : MakerPlaces, why : {None, "FAILED", "CANCELLED"}] /\ maker'.at = "gone"
    BY <1>5, <1>13 DEF PublishReceipt, MakerPlaces
  <2>4. Settled' /\ (receipt' = "SUCCEEDED" => Whole')
    BY <1>1, <2>1, <2>2 DEF Settled, Whole
  <2>5. ReconstructionTypes' /\ MakerFits' /\ PhaseFits'
    BY <1>0, <1>1, <2>1, <2>2, <2>3, <2>4 DEF ReconstructionTypes, MakerFits, PhaseFits
  <2> QED
    BY <1>2, <2>5 DEF ReconstructionInv
<1> QED
  BY <1>7, <1>8, <1>9, <1>10, <1>11, <1>12, <1>13 DEF Making

LEMMA PhaseStepKeeps ==
  ASSUME ReconstructionInv, Phasing PROVE ReconstructionInv'
<1>0. ReconstructionTypes /\ MakerFits /\ PhaseFits /\ RecoveryFits
  BY DEF ReconstructionInv
<1>1. /\ UNCHANGED <<adapter, pins, request, cancel, maker, generator, receipt, unknown, recovered>>
      /\ phase.at \in PhasePlaces \ {"none", "ended", "lost"} /\ adapter = "state" /\ generator = "done"
      /\ maker.at \in {"await", "outputs", "receipt", "gone"} /\ maker.at \notin {"outputs", "receipt"}
      /\ receipt = None /\ ~recovered /\ report = None
  BY <1>0 DEF Phasing, PhaseRejects, CreateImage, Attach, PhaseStage, PhaseStageEnds, CloseVolume, PublishReport,
       keptByPhase, ReconstructionTypes, PhasePlaces, PhaseFits, MakerFits, RecoveryFits, Settled
<1>2. RecoveryFits' /\ MakerFits'
  BY <1>0, <1>1 DEF RecoveryFits, MakerFits
<1>3. \A where \in PhasePlaces : PhaseAt(where) =>
         phase' \in [at : PhasePlaces, why : {None, "failed"}] /\ phase'.at = where /\ phase'.why = phase.why
  BY <1>0 DEF PhaseAt, ReconstructionTypes
<1>4. ASSUME PhaseFails, stage' = None, UNCHANGED <<completed, report>>,
             volume' \in {"none", "image", "mounted", "uncertain"}
      PROVE  ReconstructionInv'
  <2>1. phase' = [at |-> "close", why |-> "failed"] /\ phase'.at = "close" /\ phase'.why # None
    BY <1>4, ReconstructionAssumption DEF PhaseFails
  <2>2. ReconstructionTypes' /\ PhaseFits'
    BY <1>0, <1>1, <1>4, <2>1, ReconstructionAssumption DEF ReconstructionTypes, PhaseFits, PhasePlaces
  <2> QED
    BY <1>2, <2>2 DEF ReconstructionInv
<1>5. CASE PhaseRejects
  <2>1. /\ phase.at = "prepare" /\ UNCHANGED <<volume, stage, completed, report>>
        /\ phase' \in [at : PhasePlaces, why : {None, "failed"}] /\ phase'.at = "lost"
    BY <1>3, <1>5 DEF PhaseRejects, PhasePlaces
  <2>2. ReconstructionTypes' /\ PhaseFits'
    BY <1>0, <1>1, <2>1, ReconstructionAssumption DEF ReconstructionTypes, PhaseFits
  <2> QED
    BY <1>2, <2>2 DEF ReconstructionInv
<1>6. CASE CreateImage
  <2>1. /\ phase.at = "prepare" /\ volume = "none" /\ stage = None /\ completed = <<"generation">>
        /\ UNCHANGED <<stage, completed, report>>
    BY <1>0, <1>6 DEF CreateImage, PhaseFits
  <2>2. CASE PhaseFails /\ UNCHANGED volume
    BY <1>4, <2>1, <2>2
  <2>3. CASE volume' = "image" /\ PhaseAt("attach")
    <3>1. phase' \in [at : PhasePlaces, why : {None, "failed"}] /\ phase'.at = "attach"
      BY <1>3, <2>3 DEF PhasePlaces
    <3>2. ReconstructionTypes' /\ PhaseFits'
      BY <1>0, <1>1, <2>1, <2>3, <3>1, ReconstructionAssumption DEF ReconstructionTypes, PhaseFits
    <3> QED
      BY <1>2, <3>2 DEF ReconstructionInv
  <2> QED
    BY <1>6, <2>2, <2>3 DEF CreateImage
<1>7. CASE Attach
  <2>1. /\ phase.at = "attach" /\ stage = None /\ completed = <<"generation">>
        /\ UNCHANGED <<stage, completed, report>>
    BY <1>0, <1>7 DEF Attach, PhaseFits
  <2>2. CASE PhaseFails /\ volume' = "uncertain"
    BY <1>4, <2>1, <2>2
  <2>3. CASE volume' = "mounted" /\ PhaseAt("stages")
    <3>1. phase' \in [at : PhasePlaces, why : {None, "failed"}] /\ phase'.at = "stages"
      BY <1>3, <2>3 DEF PhasePlaces
    <3>2. ReconstructionTypes' /\ PhaseFits'
      BY <1>0, <1>1, <2>1, <2>3, <3>1, ReconstructionAssumption DEF ReconstructionTypes, PhaseFits, Prefixes
    <3> QED
      BY <1>2, <3>2 DEF ReconstructionInv
  <2> QED
    BY <1>7, <2>2, <2>3 DEF Attach
<1>8. CASE PhaseStage
  <2>1. /\ phase.at = "stages" /\ stage = None /\ completed \in Prefixes /\ volume = "mounted"
        /\ UNCHANGED <<volume, completed, report>>
    BY <1>0, <1>8 DEF PhaseStage, PhaseFits
  <2>2. CASE PhaseFails /\ UNCHANGED stage
    BY <1>4, <2>1, <2>2
  <2>3. CASE stage' = StateOrder[Len(completed)] /\ UNCHANGED phase
    <3>1. stage' \in {"build", "run", "observe"}
      BY <2>1, <2>3, PrefixGrows
    <3>2. ReconstructionTypes' /\ PhaseFits'
      BY <1>0, <1>1, <2>1, <2>3, <3>1, ReconstructionAssumption DEF ReconstructionTypes, PhaseFits
    <3> QED
      BY <1>2, <3>2 DEF ReconstructionInv
  <2> QED
    BY <1>8, <2>2, <2>3 DEF PhaseStage
<1>9. CASE PhaseStageEnds
  <2>1. /\ phase.at = "stages" /\ stage # None /\ stage' = None /\ completed \in Prefixes /\ volume = "mounted"
        /\ stage = StateOrder[Len(completed)] /\ UNCHANGED <<volume, report>>
    BY <1>0, <1>9 DEF PhaseStageEnds, PhaseFits
  <2>2. CASE PhaseFails /\ UNCHANGED completed
    BY <1>4, <2>1, <2>2
  <2>3. CASE /\ completed' = IF stage = "observe" THEN completed ELSE Append(completed, stage)
             /\ IF stage = "observe" THEN phase' = [at |-> "close", why |-> None] ELSE UNCHANGED phase
    <3>1. CASE stage = "observe"
      <4>1. completed = Order /\ UNCHANGED completed /\ phase' = [at |-> "close", why |-> None]
        BY <2>1, <2>3, <3>1, PrefixGrows
      <4>2. ReconstructionTypes' /\ PhaseFits'
        BY <1>0, <1>1, <2>1, <4>1, ReconstructionAssumption DEF ReconstructionTypes, PhaseFits, PhasePlaces
      <4> QED
        BY <1>2, <4>2 DEF ReconstructionInv
    <3>2. CASE stage # "observe"
      <4>1. completed' \in Prefixes /\ UNCHANGED phase
        BY <2>1, <2>3, <3>2, PrefixGrows
      <4>2. ReconstructionTypes' /\ PhaseFits'
        BY <1>0, <1>1, <2>1, <4>1, ReconstructionAssumption DEF ReconstructionTypes, PhaseFits
      <4> QED
        BY <1>2, <4>2 DEF ReconstructionInv
    <3> QED
      BY <3>1, <3>2
  <2> QED
    BY <1>9, <2>2, <2>3 DEF PhaseStageEnds
<1>10. CASE CloseVolume
  <2>1. /\ phase.at = "close" /\ stage = None /\ volume # "closed" /\ UNCHANGED <<stage, completed, report>>
        /\ phase.why = None => completed = Order /\ volume = "mounted"
    BY <1>0, <1>10 DEF CloseVolume, PhaseFits
  <2>2. \/ PhaseAt("lost") /\ volume' \in {volume, "uncertain"}
        \/ volume = "mounted" /\ volume' = "closed" /\ PhaseAt("report")
        \/ volume \in {"none", "image"} /\ PhaseAt("report") /\ UNCHANGED volume
    BY <1>0, <1>10, <2>1 DEF CloseVolume, ReconstructionTypes
  <2>3. CASE PhaseAt("lost") /\ volume' \in {volume, "uncertain"}
    <3>1. phase' \in [at : PhasePlaces, why : {None, "failed"}] /\ phase'.at = "lost"
      BY <1>3, <2>3 DEF PhasePlaces
    <3>2. ReconstructionTypes' /\ PhaseFits'
      BY <1>0, <1>1, <2>1, <2>3, <3>1, ReconstructionAssumption DEF ReconstructionTypes, PhaseFits
    <3> QED
      BY <1>2, <3>2 DEF ReconstructionInv
  <2>4. CASE /\ PhaseAt("report")
             /\ \/ volume = "mounted" /\ volume' = "closed"
                \/ volume \in {"none", "image"} /\ UNCHANGED volume
    <3>1. phase' \in [at : PhasePlaces, why : {None, "failed"}] /\ phase'.at = "report" /\ phase'.why = phase.why
      BY <1>3, <2>4 DEF PhasePlaces
    <3>2. ReconstructionTypes' /\ PhaseFits'
      BY <1>0, <1>1, <2>1, <2>4, <3>1, ReconstructionAssumption DEF ReconstructionTypes, PhaseFits
    <3> QED
      BY <1>2, <3>2 DEF ReconstructionInv
  <2> QED
    BY <2>2, <2>3, <2>4
<1>11. CASE PublishReport
  <2>1. /\ phase.at = "report" /\ stage = None /\ UNCHANGED <<volume, stage, completed>>
        /\ phase.why = None => completed = Order /\ volume = "closed"
        /\ volume \in {"none", "image", "closed"}
        /\ report' = IF phase.why = None THEN "ok" ELSE "failed"
        /\ phase' \in [at : PhasePlaces, why : {None, "failed"}] /\ phase'.at = "ended"
    BY <1>0, <1>3, <1>11 DEF PublishReport, PhaseFits, PhasePlaces
  <2>2. ReconstructionTypes' /\ PhaseFits'
    BY <1>0, <1>1, <2>1, ReconstructionAssumption DEF ReconstructionTypes, PhaseFits
  <2> QED
    BY <1>2, <2>2 DEF ReconstructionInv
<1> QED
  BY <1>5, <1>6, <1>7, <1>8, <1>9, <1>10, <1>11 DEF Phasing

LEMMA ReconstructionStepInv ==
  ReconstructionInv /\ [ReconstructionNext]_reconstructionVars => ReconstructionInv'
<1> SUFFICES ASSUME ReconstructionInv, [ReconstructionNext]_reconstructionVars PROVE ReconstructionInv'
  OBVIOUS
<1>0. ReconstructionTypes /\ MakerFits /\ PhaseFits /\ RecoveryFits
  BY DEF ReconstructionInv
<1>1. CASE Execute
  <2>1. CASE pins
    <3>1. /\ maker.at = "none" /\ request' = "asked" /\ maker' = [maker EXCEPT !.at = "verify"]
          /\ UNCHANGED <<adapter, cancel, generator, phase, volume, stage, completed, report, receipt, recovered>>
      BY <1>0, <1>1, <2>1 DEF Execute, MakerFits
    <3>2. maker' \in [at : MakerPlaces, why : {None, "FAILED", "CANCELLED"}] /\ maker'.at = "verify"
      BY <1>0, <3>1 DEF ReconstructionTypes, MakerPlaces
    <3>3. ReconstructionTypes' /\ MakerFits' /\ PhaseFits' /\ RecoveryFits'
      BY <1>0, <3>1, <3>2 DEF ReconstructionTypes, MakerFits, PhaseFits, RecoveryFits
    <3> QED
      BY <3>3 DEF ReconstructionInv
  <2>2. CASE ~pins
    <3>1. /\ request' = "made" /\ UNCHANGED maker /\ maker.at = "none"
          /\ UNCHANGED <<adapter, cancel, generator, phase, volume, stage, completed, report, receipt, recovered>>
      BY <1>0, <1>1, <2>2 DEF Execute, MakerFits
    <3>2. ReconstructionTypes' /\ MakerFits' /\ PhaseFits' /\ RecoveryFits'
      BY <1>0, <3>1 DEF ReconstructionTypes, MakerFits, PhaseFits, RecoveryFits, Settled, Whole
    <3> QED
      BY <3>2 DEF ReconstructionInv
  <2> QED
    BY <2>1, <2>2
<1>2. CASE Drift \/ (\E r \in {"cancel", "timeout"} : Stop(r)) \/ UNCHANGED reconstructionVars
  <2>1. /\ UNCHANGED <<adapter, request, maker, generator, phase, volume, stage, completed, report, receipt, recovered>>
        /\ cancel' \in {"no", "cancel", "timeout"}
    BY <1>0, <1>2 DEF Drift, Stop, reconstructionVars, ReconstructionTypes
  <2>2. ReconstructionTypes' /\ MakerFits' /\ PhaseFits' /\ RecoveryFits'
    BY <1>0, <2>1 DEF ReconstructionTypes, MakerFits, PhaseFits, RecoveryFits, Settled, Whole
  <2> QED
    BY <2>2 DEF ReconstructionInv
<1>3. CASE GeneratorEnds
  <2>1. /\ generator = "running" /\ generator' \in {"failed", "done"}
        /\ UNCHANGED <<adapter, request, cancel, maker, phase, volume, stage, completed, report, receipt, recovered>>
    BY <1>3 DEF GeneratorEnds, keptByMaker
  <2>2. ReconstructionTypes' /\ MakerFits' /\ PhaseFits' /\ RecoveryFits'
    BY <1>0, <2>1 DEF ReconstructionTypes, MakerFits, PhaseFits, RecoveryFits, Settled
  <2> QED
    BY <2>2 DEF ReconstructionInv
<1>4. CASE MakerLost
  <2>1. /\ maker' = [maker EXCEPT !.at = "gone"] /\ maker.at \notin {"none", "gone"}
        /\ UNCHANGED <<adapter, request, cancel, generator, phase, volume, stage, completed, report, receipt, recovered>>
    BY <1>4 DEF MakerLost, MakerAt
  <2>2. /\ maker' \in [at : MakerPlaces, why : {None, "FAILED", "CANCELLED"}] /\ maker'.at = "gone"
        /\ receipt = None /\ request = "asked"
    BY <1>0, <2>1 DEF ReconstructionTypes, MakerPlaces, MakerFits
  <2>3. ReconstructionTypes' /\ MakerFits' /\ PhaseFits' /\ RecoveryFits'
    BY <1>0, <2>1, <2>2 DEF ReconstructionTypes, MakerFits, PhaseFits, RecoveryFits
  <2> QED
    BY <2>3 DEF ReconstructionInv
<1>5. CASE PhaseLost
  <2>1. /\ phase' = [phase EXCEPT !.at = "lost"] /\ phase.at \notin {"none", "ended", "lost"}
        /\ UNCHANGED <<adapter, request, cancel, maker, generator, volume, stage, completed, report, receipt, recovered>>
    BY <1>5 DEF PhaseLost, PhaseAt, keptByPhase
  <2>2. phase' \in [at : PhasePlaces, why : {None, "failed"}] /\ phase'.at = "lost"
    BY <1>0, <2>1 DEF ReconstructionTypes, PhasePlaces
  <2>3. ReconstructionTypes' /\ MakerFits' /\ PhaseFits' /\ RecoveryFits'
    BY <1>0, <2>1, <2>2 DEF ReconstructionTypes, MakerFits, PhaseFits, RecoveryFits, Settled
  <2> QED
    BY <2>3 DEF ReconstructionInv
<1>6. CASE OrphanEnds
  <2>1. /\ stage' = None
        /\ phase.at = "lost" \/ (adapter # "state" /\ maker.at = "gone")
        /\ UNCHANGED <<adapter, request, cancel, maker, generator, phase, volume, completed, report, receipt, recovered>>
    BY <1>6 DEF OrphanEnds, keptByPhase
  <2>2. ReconstructionTypes' /\ MakerFits' /\ PhaseFits' /\ RecoveryFits'
    BY <1>0, <2>1 DEF ReconstructionTypes, MakerFits, PhaseFits, RecoveryFits, Settled, Whole
  <2> QED
    BY <2>2 DEF ReconstructionInv
<1>7. CASE Recover
  <2>1. /\ phase.at = "lost" /\ volume = "none" /\ stage = None /\ generator = "done" /\ maker.at = "gone"
        /\ UNCHANGED <<adapter, request, cancel, maker, generator, phase, volume, stage, completed, report, receipt>>
    BY <1>7 DEF Recover
  <2>2. ReconstructionTypes' /\ MakerFits' /\ PhaseFits' /\ RecoveryFits'
    BY <1>0, <2>1 DEF ReconstructionTypes, MakerFits, PhaseFits, RecoveryFits, Settled, Whole
  <2> QED
    BY <2>2 DEF ReconstructionInv
<1> QED
  BY <1>1, <1>2, <1>3, <1>4, <1>5, <1>6, <1>7, MakerStepKeeps, PhaseStepKeeps DEF ReconstructionNext

LEMMA ReconstructionInvariance == ReconstructionSpec => []ReconstructionInv
  BY ReconstructionInitInv, ReconstructionStepInv, PTL DEF ReconstructionSpec

(* What a reconstruction tells, with any adapter and any number of lost workers and
   supervisors: an answer that ends the claim is about one that left no process and no
   volume behind, and a success about one whose stages have all been done, with their
   volume closed (integration/usability: worker, state supervisor and recovery). *)
THEOREM ReceiptsAreClean == ReconstructionSpec => []CleanBeforeReceipt
<1>1. ReconstructionInv => CleanBeforeReceipt
  <2> SUFFICES ASSUME ReconstructionInv PROVE CleanBeforeReceipt
    OBVIOUS
  <2>0. ReconstructionTypes /\ MakerFits /\ PhaseFits /\ RecoveryFits
    BY DEF ReconstructionInv
  <2>1. Told # None => receipt # None \/ recovered
    BY DEF Told
  <2>2. NothingLeftBehind
    BY <2>0, <2>1 DEF NothingLeftBehind, MakerFits, PhaseFits, RecoveryFits, Settled
  <2>3. SuccessIsWhole
    BY <2>0, ReconstructionAssumption DEF SuccessIsWhole, MakerFits, PhaseFits, Whole
  <2>4. Len(completed) <= 3
    <3>1. CASE completed \in Prefixes
      <4>1. Len(completed) \in 1 .. 3
        BY <3>1, PrefixGrows
      <4>2. \A n \in 1 .. 3 : n <= 3
        OBVIOUS
      <4> QED
        BY <4>1, <4>2, Zenon
    <3>2. CASE completed = <<>>
      BY <3>2
    <3>3. completed \in Prefixes \/ completed = <<>>
      BY <2>0 DEF ReconstructionTypes
    <3> QED
      BY <3>1, <3>2, <3>3
  <2> QED
    BY <2>0, <2>2, <2>3, <2>4
      DEF CleanBeforeReceipt, ReconstructionTypeOK, ReconstructionTypes, MakerPlaces, PhasePlaces
<1> QED
  BY <1>1, ReconstructionInvariance, PTL
------------------------------------------------------------------------------
(* Adapter: every line gets the reply it is due, and a session that is active has seen no
   maintenance since it was activated. *)
AdapterTypes ==
  /\ count \in 0 .. MaxLines /\ coming \in Nat
  /\ replies \in Seq(Nat) /\ Len(replies) <= count
  /\ dropping \in BOOLEAN /\ initialized \in BOOLEAN /\ sessionActive \in BOOLEAN /\ maintained \in BOOLEAN

(* The reader drops exactly the line that has become too long, and knows the size of
   any other. *)
ReaderFits ==
  /\ dropping <=> coming > InputLimit
  /\ size = IF dropping THEN 0 ELSE coming

AdapterInv ==
  /\ AdapterTypes /\ ReaderFits
  /\ replies = due
  /\ sessionActive => ~maintained

LEMMA RepliesGrow ==
  ASSUME NEW s \in Seq(Nat)
  PROVE  /\ s \o <<>> = s
         /\ \A n \in Nat : /\ s \o <<n>> = Append(s, n) /\ Append(s, n) \in Seq(Nat)
                           /\ Len(Append(s, n)) = Len(s) + 1
  BY ConcatEmptySeq, AppendIsConcat, AppendProperties

LEMMA AdapterInitInv == AdapterInit => AdapterInv
<1> SUFFICES ASSUME AdapterInit PROVE AdapterInv
  OBVIOUS
<1>1. AdapterTypes /\ replies = due
  <2>1. <<>> \in Seq(Nat) /\ Len(<<>>) = 0 /\ count \in 0 .. MaxLines /\ coming \in Nat
    BY AdapterAssumption DEF AdapterInit
  <2>2. /\ dropping \in BOOLEAN /\ initialized \in BOOLEAN /\ sessionActive \in BOOLEAN
        /\ maintained \in BOOLEAN /\ replies = <<>> /\ due = <<>> /\ count = 0
    BY DEF AdapterInit
  <2> QED
    BY <2>1, <2>2 DEF AdapterTypes
<1>2. ReaderFits
  BY AdapterAssumption DEF AdapterInit, ReaderFits
<1>3. sessionActive => ~maintained
  BY DEF AdapterInit
<1> QED
  BY <1>1, <1>2, <1>3 DEF AdapterInv

(* Whatever a line asks for, the session that goes on was not under maintenance. *)
LEMMA SessionGoesOn ==
  ASSUME AdapterInv, NEW id, NEW asks \in Asks, Call(id, asks)
  PROVE  /\ initialized' = initialized /\ sessionActive' \in BOOLEAN /\ maintained' \in BOOLEAN
         /\ sessionActive' => ~maintained'
         /\ forwarded' # forwarded => ~maintained
<1>0. sessionActive \in BOOLEAN /\ maintained \in BOOLEAN /\ (sessionActive => ~maintained)
  BY DEF AdapterInv, AdapterTypes
<1>1. CASE sessionActive' = TRUE /\ maintained' = FALSE /\ UNCHANGED <<initialized, forwarded>>
  BY <1>1
<1>2. CASE UNCHANGED sessionVars
  BY <1>0, <1>2 DEF sessionVars
<1>3. CASE sessionActive' = FALSE /\ maintained' \in BOOLEAN /\ UNCHANGED <<initialized, forwarded>>
  BY <1>3
<1>4. CASE /\ sessionActive /\ sessionActive' \in BOOLEAN
           /\ UNCHANGED <<initialized, maintained>>
  BY <1>0, <1>4
<1> QED
  BY <1>0, <1>1, <1>2, <1>3, <1>4 DEF Call, Maintain, sessionVars

LEMMA LineIsAnswered ==
  ASSUME AdapterInv, NEW asks \in Asks, Take(asks)
  PROVE  /\ count' \in 0 .. MaxLines /\ count' = count + 1 /\ coming' = 0
         /\ replies' \in Seq(Nat) /\ Len(replies') <= count'
         /\ replies' = due'
         /\ initialized' \in BOOLEAN /\ sessionActive' \in BOOLEAN /\ maintained' \in BOOLEAN
         /\ sessionActive' => ~maintained'
         /\ forwarded' # forwarded => ~maintained
<1>0. /\ AdapterTypes /\ ReaderFits /\ replies = due /\ (sessionActive => ~maintained)
  BY DEF AdapterInv
<1>1. /\ count' = count + 1 /\ count' \in 0 .. MaxLines /\ count' \in Nat /\ coming' = 0
      /\ due' = due \o Due(count', asks)
  BY <1>0, AdapterAssumption DEF Take, AdapterTypes
<1>2. CASE dropping
  <2>1. replies' = Append(replies, 0) /\ Due(count', asks) = <<0>> /\ UNCHANGED sessionVars
    BY <1>0, <1>2 DEF Take, Reply, NoId, Due, ReaderFits
  <2>2. replies' = due'
    BY <1>0, <1>1, <2>1, RepliesGrow DEF AdapterTypes
  <2> QED
    BY <1>0, <1>1, <2>1, <2>2, RepliesGrow DEF AdapterTypes, sessionVars
<1>3. CASE ~dropping
  <2>0. Handle(count', asks) /\ ~(coming > InputLimit)
    BY <1>0, <1>3 DEF Take, ReaderFits
  <2>1. \/ replies' = replies /\ Due(count', asks) = <<>>
        \/ replies' = Append(replies, 0) /\ Due(count', asks) = <<0>>
        \/ replies' = Append(replies, count') /\ Due(count', asks) = <<count'>>
    BY <2>0 DEF Handle, Reply, NoId, Due
  <2>2. replies' = due' /\ replies' \in Seq(Nat) /\ Len(replies') <= count'
    <3>1. replies \in Seq(Nat) /\ Len(replies) \in Nat /\ Len(replies) <= count /\ count \in Nat
      BY <1>0 DEF AdapterTypes
    <3>2. CASE replies' = replies /\ Due(count', asks) = <<>>
      BY <1>0, <1>1, <3>1, <3>2, RepliesGrow
    <3>3. ASSUME NEW n \in Nat, replies' = Append(replies, n), Due(count', asks) = <<n>>
          PROVE  replies' = due' /\ replies' \in Seq(Nat) /\ Len(replies') <= count'
      <4>1. /\ replies \o <<n>> = Append(replies, n) /\ Append(replies, n) \in Seq(Nat)
            /\ Len(Append(replies, n)) = Len(replies) + 1
        BY <3>1, RepliesGrow
      <4>2. due' = replies \o <<n>>
        BY <1>0, <1>1, <3>3
      <4>3. Len(replies) + 1 <= count'
        BY <1>1, <3>1
      <4> QED
        BY <3>3, <4>1, <4>2, <4>3
    <3> QED
      BY <1>1, <2>1, <3>2, <3>3
  <2>3. CASE initialized /\ asks \in Requests \ {"initialize", "ping"}
    BY <1>1, <2>0, <2>2, <2>3, <1>0, SessionGoesOn DEF Handle, AdapterTypes
  <2>4. CASE ~(initialized /\ asks \in Requests \ {"initialize", "ping"})
    BY <1>0, <1>1, <2>0, <2>2, <2>4 DEF Handle, AdapterTypes
  <2> QED
    BY <2>3, <2>4
<1> QED
  BY <1>2, <1>3

LEMMA AdapterStepInv == AdapterInv /\ [AdapterNext]_adapterVars => AdapterInv'
<1> SUFFICES ASSUME AdapterInv, [AdapterNext]_adapterVars PROVE AdapterInv'
  OBVIOUS
<1>1. CASE Part
  <2>0. coming \in Nat /\ coming' = coming + 1 /\ dropping \in BOOLEAN /\ InputLimit \in Nat
    BY <1>1, AdapterAssumption DEF Part, AdapterInv, AdapterTypes
  <2>1. coming' \in Nat /\ ReaderFits' /\ dropping' \in BOOLEAN
    <3>1. CASE dropping
      BY <1>1, <2>0, <3>1 DEF Part, AdapterInv, ReaderFits
    <3>2. CASE ~dropping /\ size + 1 > InputLimit
      BY <1>1, <2>0, <3>2 DEF Part, AdapterInv, ReaderFits
    <3>3. CASE ~dropping /\ ~(size + 1 > InputLimit)
      BY <1>1, <2>0, <3>3 DEF Part, AdapterInv, ReaderFits
    <3> QED
      BY <3>1, <3>2, <3>3
  <2>2. UNCHANGED <<count, due, replies, initialized, sessionActive, maintained>>
    BY <1>1 DEF Part, sessionVars
  <2> QED
    BY <2>1, <2>2 DEF AdapterInv, AdapterTypes
<1>2. ASSUME NEW asks \in Asks, Newline(asks) PROVE AdapterInv'
  <2>1. Take(asks) /\ size' = 0 /\ dropping' = FALSE
    BY <1>2 DEF Newline
  <2>2. /\ count' \in 0 .. MaxLines /\ coming' \in Nat /\ coming' = 0
        /\ replies' \in Seq(Nat) /\ Len(replies') <= count' /\ replies' = due'
        /\ initialized' \in BOOLEAN /\ sessionActive' \in BOOLEAN /\ maintained' \in BOOLEAN
        /\ sessionActive' => ~maintained'
    BY <2>1, LineIsAnswered
  <2>3. ReaderFits'
    BY <2>1, <2>2, AdapterAssumption DEF ReaderFits
  <2>4. dropping' \in BOOLEAN
    BY <2>1
  <2> QED
    BY <2>2, <2>3, <2>4 DEF AdapterInv, AdapterTypes
<1>3. CASE UNCHANGED adapterVars
  BY <1>3 DEF adapterVars, AdapterInv, AdapterTypes, ReaderFits
<1> QED
  BY <1>1, <1>2, <1>3 DEF AdapterNext

LEMMA AdapterInvariance == AdapterSpec => []AdapterInv
  BY AdapterInitInv, AdapterStepInv, PTL DEF AdapterSpec

(* The conversation of a chat, for lines of any length in chunks of any size: every line
   gets the one reply it is due, in order, and nothing is forwarded between a maintenance
   and the next activation (handle and the reader of plugins/codex/server.ts). *)
THEOREM ChatIsServed == AdapterSpec => ChatServed
<1>1. AdapterInv => RepliedInOrder /\ AdapterTypeOK
  BY AdapterAssumption DEF AdapterInv, AdapterTypes, ReaderFits, RepliedInOrder, AdapterTypeOK
<1>2. AdapterInv /\ [AdapterNext]_adapterVars => [forwarded' # forwarded => ~maintained]_adapterVars
  <2> SUFFICES ASSUME AdapterInv, AdapterNext PROVE forwarded' # forwarded => ~maintained
    OBVIOUS
  <2>1. CASE Part
    BY <2>1 DEF Part, sessionVars
  <2>2. ASSUME NEW asks \in Asks, Newline(asks) PROVE forwarded' # forwarded => ~maintained
    BY <2>2, LineIsAnswered DEF Newline
  <2> QED
    BY <2>1, <2>2 DEF AdapterNext
<1> QED
  BY <1>1, <1>2, AdapterInvariance, PTL
    DEF AdapterSpec, ChatServed, NothingForwardedAfterMaintenance
==============================================================================
