----------------------------- MODULE Connection -----------------------------
(***************************************************************************)
(* The shared local connection of one workspace: the detached daemon       *)
(* processes (integration/connection/daemon.ts), the control record they   *)
(* elect themselves with (control.ts) and the client operations that       *)
(* activate, call, stop, maintain and recover it (client.ts).              *)
(*                                                                         *)
(* The workspace lease is the abstract one of Lease, which WorkspaceLease  *)
(* implements.  Any process may die between two steps.  A daemon process   *)
(* runs once: Daemons is the pool of processes that may ever be spawned.   *)
(* What an operation returns is left out, except that a stop is done.      *)
(***************************************************************************)
CONSTANTS
  Clients,   \* processes that run one client operation at a time
  Daemons,   \* the daemon processes that can be spawned
  None       \* no process, no record

\* A control record.  twin: the temporary name of the exclusive write still
\* exists, so that instance.json has two links and no reader accepts it.
Records == [owner : Daemons, state : {"starting", "ready", "failed"}, twin : BOOLEAN]

ASSUME ConnectionAssumption ==
  /\ None \notin Clients \cup Daemons \cup Records
  /\ Clients \cap Daemons = {}

VARIABLES
  lease,    \* the process inside withWorkspaceLease, or None
  record,   \* instance.json, or None
  marker,   \* recovery.json exists
  phase,    \* where each daemon process is
  reqs,     \* requests that were sent and not yet answered
  task,     \* the operation each client runs
  pc,       \* where it is in it
  seen,     \* the daemon its read of the record named
  stopped,  \* auxiliary: daemons whose stop was reported done
  spawner,  \* auxiliary: the running activation that spawned a starting daemon
  late      \* auxiliary: daemons elected after that activation had ended

conn == <<lease, record, marker, phase, reqs>>
client == <<task, pc, seen>>
aux == <<stopped, spawner, late>>
vars == <<conn, client, aux>>

\* Not spawned; before writeRecord; RECOVERY_PENDING not found; record linked;
\* elected, composing; own record found; serving; a stop running; own record
\* found again, closed; a stop that failed; a startup that failed; gone.
Phases == {"unborn", "booting", "checked", "linked", "elected", "publishing",
           "ready", "closing", "unlinking", "wedged", "failed", "dead"}

\* The products' databases may be open in these phases.
OpenPhases == {"elected", "publishing", "ready", "closing", "wedged"}

Open(d) == phase[d] \in OpenPhases

\* A request on its way ("stop", "call"), counted in active ("entered", and for
\* native_project "leasing" and "holding"), or the stop that is being executed.
Requests == [from : Clients, to : Daemons,
             at : {"stop", "call", "entered", "leasing", "holding", "stopping"}]

Leased == {"activate", "stop", "maintain"}
Tasks == Leased \cup {"call", "recover", "none"}
Places == {"idle", "read", "poll", "health", "await", "verify", "callback",
           "lookup", "probe", "reread", "unlink", "unmark"}

TypeOK ==
  /\ lease \in Clients \cup Daemons \cup {None}
  /\ record \in Records \cup {None}
  /\ marker \in BOOLEAN
  /\ phase \in [Daemons -> Phases]
  /\ reqs \subseteq Requests
  /\ task \in [Clients -> Tasks]
  /\ pc \in [Clients -> Places]
  /\ seen \in [Clients -> Daemons \cup {None}]
  /\ stopped \subseteq Daemons
  /\ spawner \in [Daemons -> Clients \cup {None}]
  /\ late \subseteq Daemons

L == INSTANCE Lease WITH Proc <- Clients \cup Daemons, NoOne <- None, holder <- lease
------------------------------------------------------------------------------
Init ==
  /\ lease = None
  /\ record = None
  /\ marker = FALSE
  /\ phase = [d \in Daemons |-> "unborn"]
  /\ reqs = {}
  /\ task = [c \in Clients |-> "none"]
  /\ pc = [c \in Clients |-> "idle"]
  /\ seen = [c \in Clients |-> None]
  /\ stopped = {}
  /\ spawner = [d \in Daemons |-> None]
  /\ late = {}

\* What readRecord returns: null, CONTROL_INVALID or a record's state.
View ==
  IF record = None THEN "none" ELSE IF record.twin THEN "invalid" ELSE record.state

\* writeRecord and removeRecord of d find the record with d's own nonce.
OwnRecord(d) == record # None /\ ~record.twin /\ record.owner = d

Goto(c, to) == pc' = [pc EXCEPT ![c] = to]

\* c starts an operation at a place of it, having read a record of d or None.
Start(c, t, to, d) ==
  /\ pc[c] = "idle"
  /\ task' = [task EXCEPT ![c] = t]
  /\ Goto(c, to)
  /\ seen' = [seen EXCEPT ![c] = d]

\* c's operation is over; the lease it has, if any, is given up.
End(c) ==
  /\ task' = [task EXCEPT ![c] = "none"]
  /\ Goto(c, "idle")
  /\ seen' = [seen EXCEPT ![c] = None]
  /\ lease' = IF lease = c THEN None ELSE lease
  /\ spawner' = [d \in Daemons |-> IF spawner[d] = c THEN None ELSE spawner[d]]

\* Bound: a client has one request outstanding at a time, abandoned ones included.
Quiet(c) == \A r \in reqs : r.from # c
------------------------------------------------------------------------------
(* Client operations. *)

\* Mutant of Begin: an operation goes on without the lease another one has.
BeginUnleased(c) ==
  /\ lease' = IF lease = None THEN c ELSE lease
  /\ \E t \in Leased :
       /\ t # "activate" => Quiet(c)
       /\ Start(c, t, "read", None)
  /\ UNCHANGED <<record, marker, phase, reqs, aux>>

\* withWorkspaceLease admits an operation; WORKSPACE_BUSY changes nothing.
Begin(c) ==
  /\ L!Acquire(c)
  /\ \E t \in Leased :
       /\ t # "activate" => Quiet(c)
       /\ Start(c, t, "read", None)
  /\ UNCHANGED <<record, marker, phase, reqs, aux>>

\* activateVerifiedConnection: no record, so a detached daemon is spawned.
Spawn(c) ==
  /\ pc[c] = "read"
  /\ task[c] = "activate"
  /\ View = "none"
  /\ \E d \in Daemons :
       /\ phase[d] = "unborn"
       /\ phase' = [phase EXCEPT ![d] = "booting"]
       /\ spawner' = [spawner EXCEPT ![d] = c]
  /\ Goto(c, "poll")
  /\ UNCHANGED <<lease, record, marker, reqs, task, seen, stopped, late>>

\* A record exists: the polling loop reads it again.  Outside that loop an
\* unreadable record ends the activation.
Attach(c) ==
  /\ pc[c] = "read"
  /\ task[c] = "activate"
  /\ View \in {"starting", "ready", "failed"}
  /\ Goto(c, "poll")
  /\ UNCHANGED <<conn, task, seen, aux>>

\* SPAWN_FAILED, or CONTROL_INVALID outside the polling loop.
ActivateFails(c) ==
  /\ pc[c] = "read"
  /\ task[c] = "activate"
  /\ View \in {"none", "invalid"}
  /\ End(c)
  /\ UNCHANGED <<record, marker, phase, reqs, stopped, late>>

\* A pass of the polling loop finds a ready record.
Poll(c) ==
  /\ pc[c] = "poll"
  /\ View = "ready"
  /\ seen' = [seen EXCEPT ![c] = record.owner]
  /\ Goto(c, "health")
  /\ UNCHANGED <<conn, task, aux>>

\* A failed record, or STARTUP_TIMEOUT after passes that found no record, an
\* unreadable one or one that is starting.  The daemon process is neither
\* awaited nor killed.
PollEnds(c) ==
  /\ pc[c] = "poll"
  /\ View # "ready"
  /\ End(c)
  /\ UNCHANGED <<record, marker, phase, reqs, stopped, late>>

\* stopVerifiedConnection, alone or inside withWorkspaceMaintenance.
ReadToStop(c) ==
  /\ pc[c] = "read"
  /\ task[c] \in {"stop", "maintain"}
  /\ View = "ready"
  /\ seen' = [seen EXCEPT ![c] = record.owner]
  /\ Goto(c, "health")
  /\ UNCHANGED <<conn, task, aux>>

\* Nothing to stop: a maintenance goes on.
NothingToStop(c) ==
  /\ pc[c] = "read"
  /\ task[c] = "maintain"
  /\ View = "none"
  /\ Goto(c, "verify")
  /\ UNCHANGED <<conn, task, seen, aux>>

\* {stopped: false}, NOT_READY or CONTROL_INVALID.
StopEnds(c) ==
  /\ pc[c] = "read"
  /\ \/ task[c] = "stop" /\ View # "ready"
     \/ task[c] = "maintain" /\ View \notin {"ready", "none"}
  /\ End(c)
  /\ UNCHANGED <<record, marker, phase, reqs, stopped, late>>

\* The exact process answered the health request: an activation is done.
Healthy(c) ==
  /\ pc[c] = "health"
  /\ phase[seen[c]] = "ready"
  /\ task[c] = "activate"
  /\ End(c)
  /\ UNCHANGED <<record, marker, phase, reqs, stopped, late>>

\* ... and a stop is sent to it.
SendStop(c) ==
  /\ pc[c] = "health"
  /\ phase[seen[c]] = "ready"
  /\ task[c] # "activate"
  /\ reqs' = reqs \cup {[from |-> c, to |-> seen[c], at |-> "stop"]}
  /\ Goto(c, "await")
  /\ UNCHANGED <<lease, record, marker, phase, task, seen, aux>>

\* CLOSING, a refused or lost connection, or 1.5 seconds without an answer.
Unhealthy(c) ==
  /\ pc[c] = "health"
  /\ End(c)
  /\ UNCHANGED <<record, marker, phase, reqs, stopped, late>>

\* callConnection: a record that is not ready is INACTIVE, otherwise the
\* request goes to the process the record names.  No lease is taken.
Call(c) ==
  /\ View = "ready"
  /\ Quiet(c)
  /\ Start(c, "call", "await", record.owner)
  /\ reqs' = reqs \cup {[from |-> c, to |-> record.owner, at |-> "call"]}
  /\ UNCHANGED <<lease, record, marker, phase, aux>>

\* The transport's timer, a reset connection or an oversized reply: UNKNOWN.
\* The daemon may still execute what was sent.
GiveUp(c) ==
  /\ pc[c] = "await"
  /\ End(c)
  /\ UNCHANGED <<record, marker, phase, reqs, stopped, late>>

\* withWorkspaceMaintenance: readRecord(c) is null before the callback.
Verify(c) ==
  /\ pc[c] = "verify"
  /\ View = "none"
  /\ Goto(c, "callback")
  /\ UNCHANGED <<conn, task, seen, aux>>

\* WORKSPACE_BUSY, or the callback is over.
MaintenanceEnds(c) ==
  /\ \/ pc[c] = "verify" /\ View # "none"
     \/ pc[c] = "callback"
  /\ End(c)
  /\ UNCHANGED <<record, marker, phase, reqs, stopped, late>>
------------------------------------------------------------------------------
\* recoverRecord: recovery.json is created with O_EXCL, or RECOVERY_PENDING.
Mark(c) ==
  /\ ~marker
  /\ marker' = TRUE
  /\ Start(c, "recover", "lookup", None)
  /\ UNCHANGED <<lease, record, phase, reqs, aux>>

\* const r = readRecord(c)
Lookup(c) ==
  /\ pc[c] = "lookup"
  /\ \/ /\ View \in {"none", "invalid"}
        /\ Goto(c, "unmark")
        /\ UNCHANGED seen
     \/ /\ View \notin {"none", "invalid"}
        /\ Goto(c, "probe")
        /\ seen' = [seen EXCEPT ![c] = record.owner]
  /\ UNCHANGED <<conn, task, aux>>

\* Mutant of Probe: a process that does not answer counts as dead.
ProbeByAnswer(c) ==
  /\ pc[c] = "probe"
  /\ Goto(c, "reread")
  /\ UNCHANGED <<conn, task, seen, aux>>

\* processDead(r.pid): ESRCH, or PROCESS_NOT_PROVABLY_DEAD.  Another program
\* may have been given the identifier of a dead daemon.
Probe(c) ==
  /\ pc[c] = "probe"
  /\ \/ phase[seen[c]] = "dead" /\ Goto(c, "reread")
     \/ Goto(c, "unmark")
  /\ UNCHANGED <<conn, task, seen, aux>>

\* removeRecord: the record still has the nonce that was read, or OWNERSHIP.
Reread(c) ==
  /\ pc[c] = "reread"
  /\ Goto(c, IF OwnRecord(seen[c]) THEN "unlink" ELSE "unmark")
  /\ UNCHANGED <<conn, task, seen, aux>>

\* unlinkSync
Unlink(c) ==
  /\ pc[c] = "unlink"
  /\ record' = None
  /\ Goto(c, "unmark")
  /\ UNCHANGED <<lease, marker, phase, reqs, task, seen, aux>>

\* finally: the marker is still this process's own file.
Unmark(c) ==
  /\ pc[c] = "unmark"
  /\ marker' = FALSE
  /\ End(c)
  /\ UNCHANGED <<record, phase, reqs, stopped, late>>

\* A client process dies: its lease is freed, its marker and its requests stay.
ClientCrash(c) ==
  /\ pc[c] # "idle"
  /\ End(c)
  /\ UNCHANGED <<record, marker, phase, reqs, stopped, late>>
------------------------------------------------------------------------------
(* The daemon process. *)

Step(d, from, to) ==
  /\ phase[d] = from
  /\ phase' = [phase EXCEPT ![d] = to]

\* d's process is gone, with the requests it was sent and the lease it holds.
Gone(d) ==
  /\ phase' = [phase EXCEPT ![d] = "dead"]
  /\ reqs' = {r \in reqs : r.to # d}
  /\ lease' = IF lease = d THEN None ELSE lease
  /\ spawner' = [spawner EXCEPT ![d] = None]
  /\ late' = late \ {d}

\* writeRecord: recovery.json does not exist.
CheckRecovery(d) ==
  /\ ~marker
  /\ Step(d, "booting", "checked")
  /\ UNCHANGED <<lease, record, marker, reqs, client, aux>>

\* The temporary file becomes instance.json; d is late if its activation is over.
Publicize(d) ==
  /\ Step(d, "checked", "linked")
  /\ record' = [owner |-> d, state |-> "starting", twin |-> TRUE]
  /\ late' = IF spawner[d] = None THEN late \cup {d} ELSE late
  /\ spawner' = [spawner EXCEPT ![d] = None]
  /\ UNCHANGED <<lease, marker, reqs, client, stopped>>

\* The election: linkSync gives the complete record its name, or EEXIST.
Link(d) == record = None /\ Publicize(d)

\* RECOVERY_PENDING or EEXIST ends the process.
NotElected(d) ==
  /\ \/ phase[d] = "booting" /\ marker
     \/ phase[d] = "checked" /\ record # None
  /\ Gone(d)
  /\ UNCHANGED <<record, marker, client, stopped>>

\* unlinkSync(temporary); createComposition follows.
Unlinked(d) ==
  /\ Step(d, "linked", "elected")
  /\ record' = [record EXCEPT !.twin = FALSE]
  /\ UNCHANGED <<lease, marker, reqs, client, aux>>

\* Composed and listening; writeRecord finds its own nonce.
BeginPublish(d) ==
  /\ OwnRecord(d)
  /\ Step(d, "elected", "publishing")
  /\ UNCHANGED <<lease, record, marker, reqs, client, aux>>

\* renameSync over instance.json: the record is ready.
Publish(d) ==
  /\ Step(d, "publishing", "ready")
  /\ record' = [owner |-> d, state |-> "ready", twin |-> FALSE]
  /\ UNCHANGED <<lease, marker, reqs, client, aux>>

\* Anything thrown between the election and readiness: the server and the
\* composition are closed.
StartupFails(d) ==
  /\ \E from \in {"elected", "publishing"} : Step(d, from, "failed")
  /\ UNCHANGED <<lease, record, marker, reqs, client, aux>>

\* Mutant of WriteFailed: no diagnostic, and a handle keeps the process alive.
WriteNothing(d) == phase[d] = "failed" /\ UNCHANGED vars

\* The diagnostic replaces d's own record and the process ends.
WriteFailed(d) ==
  /\ phase[d] = "failed"
  /\ record' = IF OwnRecord(d)
               THEN [owner |-> d, state |-> "failed", twin |-> FALSE]
               ELSE record
  /\ Gone(d)
  /\ UNCHANGED <<marker, client, stopped>>

\* The process dies at any moment.
DaemonCrash(d) ==
  /\ phase[d] \notin {"unborn", "dead"}
  /\ Gone(d)
  /\ UNCHANGED <<record, marker, client, stopped>>
------------------------------------------------------------------------------
(* Requests inside the daemon. *)

\* The client that sent r is still waiting for it.
Awaited(r) == pc[r.from] = "await" /\ seen[r.from] = r.to

\* r is answered: the client takes the reply, or it has given up, or the reply
\* is lost and the client will time out.
Answer(r) ==
  \/ Awaited(r) /\ End(r.from)
  \/ UNCHANGED <<lease, client, spawner>>

Moves(r, to) == reqs' = (reqs \ {r}) \cup {[r EXCEPT !.at = to]}

\* An operation request passes the CLOSING guard and is counted in active;
\* native_project goes on to take the workspace lease.
Enter(r) ==
  /\ r.at = "call"
  /\ phase[r.to] = "ready"
  /\ \E to \in {"entered", "leasing"} : Moves(r, to)
  /\ UNCHANGED <<lease, record, marker, phase, client, aux>>

\* The composition answers, or WORKSPACE_BUSY after ten seconds; active is
\* decremented.
Execute(r) ==
  /\ \/ r.at = "entered"
     \/ r.at = "leasing" /\ lease # None
  /\ reqs' = reqs \ {r}
  /\ Answer(r)
  /\ UNCHANGED <<record, marker, phase, stopped, late>>

ProjectTakesLease(r) ==
  /\ r.at = "leasing"
  /\ L!Acquire(r.to)
  /\ Moves(r, "holding")
  /\ UNCHANGED <<record, marker, phase, client, aux>>

\* The project operation ends and its lease is given up; the reply follows.
ProjectDone(r) ==
  /\ r.at = "holding"
  /\ L!Release(r.to)
  /\ Moves(r, "entered")
  /\ UNCHANGED <<record, marker, phase, client, aux>>

\* Requests counted in active.
Active(d) == {r \in reqs : r.to = d /\ r.at \in {"entered", "leasing", "holding"}}

\* CLOSING; or active > 0 and a stop is BUSY, before anything is closed.
Refuse(r) ==
  /\ r.at \in {"stop", "call"}
  /\ \/ phase[r.to] = "wedged"
     \/ phase[r.to] = "ready" /\ r.at = "stop" /\ Active(r.to) # {}
  /\ reqs' = reqs \ {r}
  /\ Answer(r)
  /\ UNCHANGED <<record, marker, phase, stopped, late>>

\* A request whose client has given up may never reach the daemon.
Lose(r) ==
  /\ r.at \in {"stop", "call"}
  /\ ~Awaited(r)
  /\ reqs' = reqs \ {r}
  /\ UNCHANGED <<lease, record, marker, phase, client, aux>>

\* Mutant of StopCloses: the BUSY guard is missing.
StopClosesBusy(r) ==
  /\ r.at = "stop"
  /\ Step(r.to, "ready", "closing")
  /\ Moves(r, "stopping")
  /\ UNCHANGED <<lease, record, marker, client, aux>>

\* Mutant of StopCloses: the stop is answered before anything is closed.
StopAnswersEarly(r) ==
  /\ r.at = "stop"
  /\ Active(r.to) = {}
  /\ Step(r.to, "ready", "closing")
  /\ Moves(r, "stopping")
  /\ stopped' = IF Awaited(r) THEN stopped \cup {r.to} ELSE stopped
  /\ UNCHANGED <<lease, record, marker, client, spawner, late>>

\* closing = true; composition.close() follows.
StopCloses(r) ==
  /\ r.at = "stop"
  /\ Active(r.to) = {}
  /\ Step(r.to, "ready", "closing")
  /\ Moves(r, "stopping")
  /\ UNCHANGED <<lease, record, marker, client, aux>>

\* Mutant of StopFails: the record is removed whatever close() throws.
StopRemovesAnyway(r) ==
  /\ r.at = "stopping"
  /\ \E from \in {"closing", "unlinking"} : Step(r.to, from, "wedged")
  /\ reqs' = reqs \ {r}
  /\ record' = None
  /\ Answer(r)
  /\ UNCHANGED <<marker, stopped, late>>

\* composition.close() or removeRecord throws: closing stays true and the
\* record stays.
StopFails(r) ==
  /\ r.at = "stopping"
  /\ \E from \in {"closing", "unlinking"} : Step(r.to, from, "wedged")
  /\ reqs' = reqs \ {r}
  /\ Answer(r)
  /\ UNCHANGED <<record, marker, stopped, late>>

\* Closed; removeRecord finds the daemon's own nonce.
RereadOwn(r) ==
  /\ r.at = "stopping"
  /\ OwnRecord(r.to)
  /\ Step(r.to, "closing", "unlinking")
  /\ UNCHANGED <<lease, record, marker, reqs, client, aux>>

\* The record is unlinked, the server closed and the stop answered; a
\* maintenance that awaits it goes on.  The process ends once nothing is in
\* flight, and what it still refuses is UNKNOWN to its sender.
RemoveOwn(r) ==
  /\ r.at = "stopping"
  /\ phase[r.to] = "unlinking"
  /\ phase' = [phase EXCEPT ![r.to] = "dead"]
  /\ record' = None
  /\ reqs' = {q \in reqs : q.to # r.to}
  /\ \/ /\ Awaited(r)
        /\ stopped' = stopped \cup {r.to}
        /\ \/ /\ task[r.from] = "maintain"
              /\ Goto(r.from, "verify")
              /\ seen' = [seen EXCEPT ![r.from] = None]
              /\ UNCHANGED <<lease, task, spawner>>
           \/ task[r.from] # "maintain" /\ End(r.from)
     \/ UNCHANGED <<lease, client, stopped, spawner>>
  /\ late' = late \ {r.to}
  /\ UNCHANGED marker
------------------------------------------------------------------------------
ClientStep(c) ==
  \/ Spawn(c) \/ Attach(c) \/ ActivateFails(c) \/ Poll(c) \/ PollEnds(c)
  \/ ReadToStop(c) \/ NothingToStop(c) \/ StopEnds(c)
  \/ Healthy(c) \/ SendStop(c) \/ Unhealthy(c) \/ GiveUp(c)
  \/ Verify(c) \/ MaintenanceEnds(c)
  \/ Lookup(c) \/ Probe(c) \/ Reread(c) \/ Unlink(c) \/ Unmark(c)

DaemonStep(d) ==
  \/ CheckRecovery(d) \/ Link(d) \/ NotElected(d) \/ Unlinked(d)
  \/ BeginPublish(d) \/ Publish(d) \/ StartupFails(d) \/ WriteFailed(d)

RequestStep(r) ==
  \/ Enter(r) \/ Execute(r) \/ ProjectTakesLease(r) \/ ProjectDone(r)
  \/ Refuse(r) \/ Lose(r)
  \/ StopCloses(r) \/ StopFails(r) \/ RereadOwn(r) \/ RemoveOwn(r)

Next ==
  \/ \E c \in Clients : Begin(c) \/ Call(c) \/ Mark(c) \/ ClientStep(c) \/ ClientCrash(c)
  \/ \E d \in Daemons : DaemonStep(d) \/ DaemonCrash(d)
  \/ \E r \in reqs : RequestStep(r)

Spec == Init /\ [][Next]_vars

\* Node runs every process that is not blocked, polls and timers included; a
\* maintenance callback and an owner operation are assumed to settle.  Nothing
\* is assumed of callers, crashes and the outcome of a step that can fail.
Fairness ==
  /\ \A c \in Clients : WF_vars(ClientStep(c))
  /\ \A d \in Daemons : WF_vars(DaemonStep(d))
  /\ \A d \in Daemons : WF_vars(\E r \in reqs : r.to = d /\ RequestStep(r))

FairSpec == Spec /\ Fairness
------------------------------------------------------------------------------
(* A daemon whose products are open is the one the control record names, from
   its election until it has closed them (local-service.md: "It closes
   composition before removing its own control record"). *)
WriterIsRecorded ==
  \A d \in Daemons : Open(d) => record # None /\ record.owner = d

(* "Contenders cannot become second writers": the products of one workspace
   are never open in two daemons, whatever starts, stops, recoveries and deaths
   come before. *)
SingleWriter == \A d, e \in Daemons : Open(d) /\ Open(e) => d = e

(* Recovery runs without the lease, yet takes away only the record of a dead
   daemon; any other record is removed by its own daemon, closed. *)
RemovalIsSafe ==
  [][record # None /\ record' = None =>
       phase[record.owner] \in {"dead", "unlinking"}]_vars

(* The products are not closed under an operation that passed the CLOSING
   guard, even one that waits for the workspace lease. *)
NoCloseUnderRequest ==
  \A r \in reqs : r.at \in {"entered", "leasing", "holding"} => phase[r.to] = "ready"

(* A stop reported as done is final: the daemon is closed, the record does not
   name it, and neither a late start nor a late failure brings it back. *)
StopIsFinal ==
  \A d \in stopped : phase[d] = "dead" /\ (record # None => record.owner # d)

(* While a maintenance callback runs, a daemon can have the products open only
   if its activation had ended before it was elected: neither a daemon that was
   there before nor one that a client starts meanwhile. *)
OnlyLateDuringMaintenance ==
  \A c \in Clients, d \in Daemons : pc[c] = "callback" /\ Open(d) => d \in late

(* native-toolchain.md: "the Workspace maintenance lease prevents concurrent
   preparation or activation". *)
MaintenanceExcludesActivation ==
  \A c \in Clients, d \in Daemons : pc[c] = "callback" => phase[d] # "ready"

(* Liveness.  Every client operation ends: whatever daemons and other clients
   do, its deadlines return it to the caller and the lease to the others. *)
OperationsEnd == \A c \in Clients : pc[c] # "idle" ~> pc[c] = "idle"

(* Liveness.  A record does not stay at "starting" under a living daemon. *)
StartupResolves ==
  \A d \in Daemons :
    phase[d] = "linked" ~>
      \/ phase[d] = "dead"
      \/ record # None /\ record.owner = d /\ View \in {"ready", "failed"}
==============================================================================
