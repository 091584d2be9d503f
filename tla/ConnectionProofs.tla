-------------------------- MODULE ConnectionProofs --------------------------
(***************************************************************************)
(* What Connection promises for every number of clients and daemons.       *)
(***************************************************************************)
EXTENDS Connection, TLAPS

\* From its election to its death.
Elected == {"linked", "elected", "publishing", "ready", "closing", "unlinking",
            "wedged", "failed"}

Recovering == {"lookup", "probe", "reread", "unlink", "unmark"}

(* An elected daemon is the one the record names. *)
Recorded == \A d \in Daemons : phase[d] \in Elected => record # None /\ record.owner = d

(* Where a client has read a record, it knows which daemon it named. *)
SeenKnown ==
  \A c \in Clients : pc[c] \in {"health", "await", "probe", "reread", "unlink"} =>
    seen[c] \in Daemons

(* The marker admits one recovery at a time; past the probe the daemon it read
   about is dead, and at the unlink the record still names that daemon. *)
OneRecovery ==
  /\ \A c \in Clients : pc[c] \in Recovering => marker
  /\ \A b, c \in Clients : pc[b] \in Recovering /\ pc[c] \in Recovering => b = c
  /\ \A c \in Clients : pc[c] \in {"reread", "unlink"} => phase[seen[c]] = "dead"
  /\ \A c \in Clients : pc[c] = "unlink" => record # None /\ record.owner = seen[c]

(* A leased operation has the lease until it ends, and only a running
   activation counts as the spawner of a daemon. *)
LeaseHeld ==
  /\ \A c \in Clients :
       pc[c] \in {"read", "poll", "health", "verify", "callback"} => lease = c
  /\ \A c \in Clients : pc[c] = "await" /\ task[c] = "maintain" => lease = c
  /\ \A d \in Daemons :
       spawner[d] # None =>
         /\ pc[spawner[d]] \in {"poll", "health"}
         /\ task[spawner[d]] = "activate"
         /\ lease = spawner[d]

(* A daemon elected during a maintenance callback was not awaited any more. *)
CallbackAlone ==
  \A c \in Clients, d \in Daemons :
    pc[c] = "callback" /\ phase[d] \in Elected => d \in late

IInv ==
  /\ TypeOK
  /\ Recorded
  /\ SeenKnown
  /\ OneRecovery
  /\ LeaseHeld
  /\ CallbackAlone
  /\ NoCloseUnderRequest
  /\ StopIsFinal
------------------------------------------------------------------------------
(* The initial state satisfies the invariant. *)
LEMMA InitIInv == Init => IInv
  BY ConnectionAssumption
  DEF Init, IInv, TypeOK, Recorded, SeenKnown, OneRecovery, LeaseHeld, CallbackAlone,
      NoCloseUnderRequest, StopIsFinal, Records, Phases, Requests, Places, Tasks,
      Leased, Elected, Recovering

(* A record that a daemon writes is a record of its own, and not None. *)
LEMMA RecordWritten ==
  ASSUME NEW d \in Daemons, NEW s \in {"starting", "ready", "failed"}, NEW t \in BOOLEAN,
         NEW r, r = [owner |-> d, state |-> s, twin |-> t]
  PROVE  r \in Records /\ r # None /\ r.owner = d
<1>1. r \in Records /\ r.owner = d
  BY DEF Records
<1>2. None \notin Records
  BY ConnectionAssumption
<1> QED
  BY <1>1, <1>2

(* Every step keeps the invariant. *)
LEMMA NextIInv == IInv /\ [Next]_vars => IInv'
<1> SUFFICES ASSUME IInv, [Next]_vars PROVE IInv'
  OBVIOUS
<1> USE ConnectionAssumption
<1> USE DEF IInv, TypeOK, Recorded, SeenKnown, OneRecovery, LeaseHeld, CallbackAlone,
            NoCloseUnderRequest, StopIsFinal, Records, Phases, Requests, Places, Tasks,
            Leased, Elected, Recovering, View, OwnRecord, Goto, Start, End, Step, Gone,
            L!Acquire, L!Release, client, aux, conn
<1>1. ASSUME NEW c \in Clients, Begin(c) PROVE IInv'
  BY <1>1 DEF Begin
<1>2. ASSUME NEW c \in Clients, Call(c) PROVE IInv'
  BY <1>2 DEF Call
<1>3. ASSUME NEW c \in Clients, Mark(c) PROVE IInv'
  BY <1>3 DEF Mark
<1>4. ASSUME NEW c \in Clients, Spawn(c) PROVE IInv'
  BY <1>4 DEF Spawn
<1>5. ASSUME NEW c \in Clients, Attach(c) PROVE IInv'
  BY <1>5 DEF Attach
<1>6. ASSUME NEW c \in Clients, ActivateFails(c) PROVE IInv'
  BY <1>6 DEF ActivateFails
<1>7. ASSUME NEW c \in Clients, Poll(c) PROVE IInv'
  BY <1>7 DEF Poll
<1>8. ASSUME NEW c \in Clients, PollEnds(c) PROVE IInv'
  BY <1>8 DEF PollEnds
<1>9. ASSUME NEW c \in Clients, ReadToStop(c) PROVE IInv'
  BY <1>9 DEF ReadToStop
<1>10. ASSUME NEW c \in Clients, NothingToStop(c) PROVE IInv'
  BY <1>10 DEF NothingToStop
<1>11. ASSUME NEW c \in Clients, StopEnds(c) PROVE IInv'
  BY <1>11 DEF StopEnds
<1>12. ASSUME NEW c \in Clients, Healthy(c) PROVE IInv'
  BY <1>12 DEF Healthy
<1>13. ASSUME NEW c \in Clients, SendStop(c) PROVE IInv'
  BY <1>13 DEF SendStop
<1>14. ASSUME NEW c \in Clients, Unhealthy(c) PROVE IInv'
  BY <1>14 DEF Unhealthy
<1>15. ASSUME NEW c \in Clients, GiveUp(c) PROVE IInv'
  BY <1>15 DEF GiveUp
<1>16. ASSUME NEW c \in Clients, Verify(c) PROVE IInv'
  BY <1>16 DEF Verify
<1>17. ASSUME NEW c \in Clients, MaintenanceEnds(c) PROVE IInv'
  BY <1>17 DEF MaintenanceEnds
<1>18. ASSUME NEW c \in Clients, Lookup(c) PROVE IInv'
  BY <1>18 DEF Lookup
<1>19. ASSUME NEW c \in Clients, Probe(c) PROVE IInv'
  BY <1>19 DEF Probe
<1>20. ASSUME NEW c \in Clients, Reread(c) PROVE IInv'
  BY <1>20 DEF Reread
<1>21. ASSUME NEW c \in Clients, Unlink(c) PROVE IInv'
  BY <1>21 DEF Unlink
<1>22. ASSUME NEW c \in Clients, Unmark(c) PROVE IInv'
  <2>1. \A b \in Clients \ {c} : pc[b] \notin Recovering
    BY <1>22 DEF Unmark
  <2>2. /\ pc' = [pc EXCEPT ![c] = "idle"]
        /\ seen' = [seen EXCEPT ![c] = None]
        /\ task' = [task EXCEPT ![c] = "none"]
        /\ marker' = FALSE
        /\ lease' = IF lease = c THEN None ELSE lease
        /\ UNCHANGED <<record, phase, reqs, stopped, late>>
    BY <1>22 DEF Unmark
  <2>3. \A b \in Clients : pc'[b] \notin Recovering
    BY <2>1, <2>2
  <2>4. OneRecovery'
    BY <2>2, <2>3
  <2>5. LeaseHeld'
    BY <1>22 DEF Unmark
  <2>6. TypeOK' /\ SeenKnown'
    BY <1>22 DEF Unmark
  <2>7. Recorded' /\ CallbackAlone' /\ NoCloseUnderRequest' /\ StopIsFinal'
    BY <2>2
  <2> QED
    BY <2>4, <2>5, <2>6, <2>7
<1>23. ASSUME NEW c \in Clients, ClientCrash(c) PROVE IInv'
  BY <1>23 DEF ClientCrash
<1>24. ASSUME NEW d \in Daemons, CheckRecovery(d) PROVE IInv'
  BY <1>24 DEF CheckRecovery
<1>25. ASSUME NEW d \in Daemons, Link(d) PROVE IInv'
  <2>1. record' = [owner |-> d, state |-> "starting", twin |-> TRUE]
    BY <1>25 DEF Link, Publicize
  <2>2. record' \in Records /\ record' # None /\ record'.owner = d
    BY <2>1, RecordWritten
  <2>3. \A e \in Daemons : phase[e] \notin Elected
    BY <1>25 DEF Link
  <2>4. phase[d] = "checked" /\ phase' = [phase EXCEPT ![d] = "linked"]
    BY <1>25 DEF Link, Publicize
  <2>5. Recorded'
    BY <2>2, <2>3, <2>4
  <2>6. CallbackAlone'
    BY <1>25, <2>3, <2>4 DEF Link, Publicize
  <2>7. TypeOK'
    BY <1>25, <2>2 DEF Link, Publicize
  <2>8. OneRecovery'
    BY <1>25, <2>2, <2>4 DEF Link, Publicize
  <2>9. NoCloseUnderRequest' /\ StopIsFinal'
    BY <1>25, <2>2, <2>4 DEF Link, Publicize
  <2>10. LeaseHeld' /\ SeenKnown'
    BY <1>25 DEF Link, Publicize
  <2> QED
    BY <2>5, <2>6, <2>7, <2>8, <2>9, <2>10
<1>26. ASSUME NEW d \in Daemons, NotElected(d) PROVE IInv'
  BY <1>26 DEF NotElected
<1>27. ASSUME NEW d \in Daemons, Unlinked(d) PROVE IInv'
  <2>1. record \in Records /\ record.owner = d
    BY <1>27 DEF Unlinked
  <2>2. record' = [record EXCEPT !.twin = FALSE]
    BY <1>27 DEF Unlinked
  <2>3. record' \in Records /\ record'.owner = d
    BY <2>1, <2>2
  <2>4. record' # None
    <3>1. None \notin Records
      BY ConnectionAssumption
    <3> QED
      BY ONLY <2>3, <3>1
  <2>5. TypeOK'
    BY <1>27, <2>3 DEF Unlinked
  <2>6. Recorded' /\ SeenKnown'
    BY <1>27, <2>1, <2>3, <2>4 DEF Unlinked
  <2>7. OneRecovery'
    BY <1>27, <2>1, <2>3, <2>4 DEF Unlinked
  <2>8. LeaseHeld' /\ CallbackAlone'
    BY <1>27 DEF Unlinked
  <2>9. NoCloseUnderRequest' /\ StopIsFinal'
    BY <1>27, <2>1, <2>3 DEF Unlinked
  <2> QED
    BY <2>5, <2>6, <2>7, <2>8, <2>9
<1>28. ASSUME NEW d \in Daemons, BeginPublish(d) PROVE IInv'
  BY <1>28 DEF BeginPublish
<1>29. ASSUME NEW d \in Daemons, Publish(d) PROVE IInv'
  <2>1. record \in Records /\ record.owner = d
    BY <1>29 DEF Publish
  <2>2. record' = [owner |-> d, state |-> "ready", twin |-> FALSE]
    BY <1>29 DEF Publish
  <2>3. record' \in Records /\ record' # None /\ record'.owner = d
    BY <2>2, RecordWritten
  <2>4. TypeOK'
    BY <1>29, <2>3 DEF Publish
  <2>5. Recorded' /\ SeenKnown'
    BY <1>29, <2>1, <2>3 DEF Publish
  <2>6. OneRecovery'
    BY <1>29, <2>1, <2>3 DEF Publish
  <2>7. LeaseHeld' /\ CallbackAlone'
    BY <1>29 DEF Publish
  <2>8. NoCloseUnderRequest' /\ StopIsFinal'
    BY <1>29, <2>1, <2>3 DEF Publish
  <2> QED
    BY <2>4, <2>5, <2>6, <2>7, <2>8
<1>30. ASSUME NEW d \in Daemons, StartupFails(d) PROVE IInv'
  BY <1>30 DEF StartupFails
<1>31. ASSUME NEW d \in Daemons, WriteFailed(d) PROVE IInv'
  BY <1>31 DEF WriteFailed
<1>32. ASSUME NEW d \in Daemons, DaemonCrash(d) PROVE IInv'
  BY <1>32 DEF DaemonCrash
<1>33. ASSUME NEW r \in reqs, Enter(r) PROVE IInv'
  BY <1>33 DEF Enter, Moves
<1>34. ASSUME NEW r \in reqs, Execute(r) PROVE IInv'
  BY <1>34 DEF Execute, Answer, Awaited
<1>35. ASSUME NEW r \in reqs, ProjectTakesLease(r) PROVE IInv'
  BY <1>35 DEF ProjectTakesLease, Moves
<1>36. ASSUME NEW r \in reqs, ProjectDone(r) PROVE IInv'
  BY <1>36 DEF ProjectDone, Moves
<1>37. ASSUME NEW r \in reqs, Refuse(r) PROVE IInv'
  BY <1>37 DEF Refuse, Answer, Awaited, Active
<1>38. ASSUME NEW r \in reqs, Lose(r) PROVE IInv'
  BY <1>38 DEF Lose, Awaited
<1>39. ASSUME NEW r \in reqs, StopCloses(r) PROVE IInv'
  BY <1>39 DEF StopCloses, Moves, Active
<1>40. ASSUME NEW r \in reqs, StopFails(r) PROVE IInv'
  BY <1>40 DEF StopFails, Answer, Awaited
<1>41. ASSUME NEW r \in reqs, RereadOwn(r) PROVE IInv'
  BY <1>41 DEF RereadOwn
<1>42. ASSUME NEW r \in reqs, RemoveOwn(r) PROVE IInv'
  BY <1>42 DEF RemoveOwn, Awaited
<1>43. CASE UNCHANGED vars
  BY <1>43 DEF vars
<1> QED
  BY <1>1, <1>2, <1>3, <1>4, <1>5, <1>6, <1>7, <1>8, <1>9, <1>10, <1>11, <1>12, <1>13, <1>14, <1>15, <1>16, <1>17, <1>18, <1>19, <1>20, <1>21, <1>22, <1>23, <1>24, <1>25, <1>26, <1>27, <1>28, <1>29, <1>30, <1>31, <1>32, <1>33, <1>34, <1>35, <1>36, <1>37, <1>38, <1>39, <1>40, <1>41, <1>42, <1>43
  DEF Next, ClientStep, DaemonStep, RequestStep
------------------------------------------------------------------------------
(* The invariant holds in every reachable state. *)
LEMMA Invariance == Spec => []IInv
  BY InitIInv, NextIInv, PTL DEF Spec

(* Every variable keeps its type. *)
THEOREM TypeCorrect == Spec => []TypeOK
  BY Invariance, PTL DEF IInv

(* Products are open only in the daemon that the control record names. *)
THEOREM WritersRecorded == Spec => []WriterIsRecorded
<1>1. IInv => WriterIsRecorded
  BY DEF IInv, Recorded, WriterIsRecorded, Open, OpenPhases, Elected
<1> QED
  BY <1>1, Invariance, PTL

(* The election admits one writer, whatever recoveries, stops and deaths come
   before it. *)
THEOREM OneWriter == Spec => []SingleWriter
<1>1. IInv => SingleWriter
  BY DEF IInv, Recorded, SingleWriter, Open, OpenPhases, Elected
<1> QED
  BY <1>1, Invariance, PTL

(* No operation that was admitted sees its products closed by a stop. *)
THEOREM StopsWait == Spec => []NoCloseUnderRequest
  BY Invariance, PTL DEF IInv

(* A stop that was reported done is not undone. *)
THEOREM StopsAreFinal == Spec => []StopIsFinal
  BY Invariance, PTL DEF IInv

(* A maintenance callback meets no daemon but one that outlived its activation. *)
THEOREM MaintenanceMeetsOnlyLate == Spec => []OnlyLateDuringMaintenance
<1>1. IInv => OnlyLateDuringMaintenance
  BY DEF IInv, CallbackAlone, OnlyLateDuringMaintenance, Open, OpenPhases, Elected
<1> QED
  BY <1>1, Invariance, PTL

(* A step takes away only the record of a dead daemon or its own daemon's. *)
LEMMA RemovalStep ==
  IInv /\ [Next]_vars =>
    [record # None /\ record' = None => phase[record.owner] \in {"dead", "unlinking"}]_vars
<1> SUFFICES ASSUME IInv, [Next]_vars, record # None, record' = None
             PROVE  phase[record.owner] \in {"dead", "unlinking"}
  OBVIOUS
<1> USE ConnectionAssumption DEF conn
<1>1. ASSUME NEW c \in Clients, Begin(c) \/ Call(c) \/ Mark(c) \/ ClientCrash(c)
      PROVE  FALSE
  BY <1>1 DEF Begin, Call, Mark, ClientCrash
<1>2. ASSUME NEW c \in Clients, ClientStep(c), ~Unlink(c) PROVE FALSE
  BY <1>2 DEF ClientStep, Spawn, Attach, ActivateFails, Poll, PollEnds, ReadToStop,
              NothingToStop, StopEnds, Healthy, SendStop, Unhealthy, GiveUp, Verify,
              MaintenanceEnds, Lookup, Probe, Reread, Unmark
<1>3. ASSUME NEW c \in Clients, Unlink(c)
      PROVE  phase[record.owner] = "dead"
  BY <1>3 DEF Unlink, IInv, OneRecovery
<1>4. ASSUME NEW d \in Daemons, DaemonStep(d) PROVE FALSE
  <2>1. CASE Link(d)
    BY <2>1 DEF Link
  <2>2. CASE Unlinked(d)
    BY <2>2 DEF Unlinked, Step, IInv, TypeOK, Recorded, Records, Elected
  <2>3. CASE Publish(d)
    <3>1. record' = [owner |-> d, state |-> "ready", twin |-> FALSE]
      BY <2>3 DEF Publish
    <3>2. record' \in Records
      BY <3>1 DEF Records
    <3> QED
      BY <3>2
  <2>4. CASE WriteFailed(d)
    <3>1. [owner |-> d, state |-> "failed", twin |-> FALSE] \in Records
      BY DEF Records
    <3> QED
      BY <2>4, <3>1 DEF WriteFailed
  <2>5. CASE CheckRecovery(d) \/ NotElected(d) \/ BeginPublish(d) \/ StartupFails(d)
    BY <2>5 DEF CheckRecovery, NotElected, BeginPublish, StartupFails
  <2> QED
    BY <1>4, <2>1, <2>2, <2>3, <2>4, <2>5 DEF DaemonStep
<1>5. ASSUME NEW d \in Daemons, DaemonCrash(d) PROVE FALSE
  BY <1>5 DEF DaemonCrash
<1>6. ASSUME NEW r \in reqs, RequestStep(r), ~RemoveOwn(r) PROVE FALSE
  BY <1>6 DEF RequestStep, Enter, Execute, ProjectTakesLease, ProjectDone, Refuse, Lose,
              StopCloses, StopFails, RereadOwn
<1>7. ASSUME NEW r \in reqs, RemoveOwn(r) PROVE phase[record.owner] = "unlinking"
  BY <1>7 DEF RemoveOwn, IInv, TypeOK, Requests, Recorded, Elected
<1>8. ~UNCHANGED vars
  BY DEF vars
<1> QED
  BY <1>1, <1>2, <1>3, <1>4, <1>5, <1>6, <1>7, <1>8 DEF Next

(* Nobody takes away the record of a daemon that is alive and open. *)
THEOREM RemovalsAreSafe == Spec => RemovalIsSafe
  BY Invariance, RemovalStep, PTL DEF Spec, RemovalIsSafe
==============================================================================
