------------------------------- MODULE Project -------------------------------
(***************************************************************************)
(* integration/workspace/project.ts: the baselines and campaigns of one    *)
(* bound project, written by several processes under the transaction of    *)
(* project-lock.ts and read without it.                                    *)
(*                                                                         *)
(* A source is its digest.  An accepted baseline is the file of its        *)
(* request: the digests it goes from and to, and the hash of the event     *)
(* before it.  As that hash covers the one before it in turn, an event's   *)
(* hash is modelled as the whole path of steps up to it.                   *)
(***************************************************************************)
EXTENDS Naturals, Sequences, SequencesExt

CONSTANTS
  Proc,       \* the processes that call projectOperation
  NoOne,      \* no process
  Digests,    \* what the authorized source files can hash to
  None,       \* a file that is not there
  Requests,   \* request ids
  MaxDeaths   \* bound on process deaths

\* What is assumed of the constants.
ASSUME ProjectAssumption == NoOne \notin Proc /\ None \notin Digests /\ MaxDeaths \in Nat

VARIABLES
  source,     \* the digest of the source files now
  bound,      \* the baseline in project.json
  events,     \* baselines/REQUEST.json: the path it ends, or <<>> without one
  campaigns,  \* targets/ID/REQUEST.json of one target
  baselineHolder,  \* the process whose BEGIN IMMEDIATE succeeded
  pending,    \* number of pending-* files in .project-control
  call,       \* what each process is doing, and how its last call was answered
  deaths

projectFiles == <<bound, events, campaigns>>
projectVars == <<source, projectFiles, baselineHolder, pending, call, deaths>>

\* The writing operations; bind takes the source as it is.  Of what it says of its
\* criteria a campaign keeps whether its status is COMPLETE.
Operations == [op : {"bind"}]
     \cup [op : {"accept"}, from : Digests, to : Digests]
     \cup [op : {"campaign"}, on : Digests, complete : BOOLEAN]

Valid(in) == in.op = "accept" => in.from # in.to
------------------------------------------------------------------------------
Accepted == {r \in Requests : events[r] # <<>>}
DigestAfter(path) == IF path = <<>> THEN bound ELSE Last(path).to

\* readProjectHistory follows previousRevision from null and requires exactly one
\* successor, of the digest reached, until no event is left.
OneChain ==
  \A r \in Accepted :
    /\ Len(events[r]) > 1 => \E q \in Accepted : events[q] = Front(events[r])
    /\ Last(events[r]).from = DigestAfter(Front(events[r]))
    /\ \A q \in Accepted \ {r} : Front(events[q]) # Front(events[r])

\* The revision it returns, and the digest of the record.
Latest == IF Accepted = {} THEN <<>>
        ELSE events[CHOOSE r \in Accepted :
                      \A q \in Accepted : Len(events[q]) <= Len(events[r])]
Current == DigestAfter(Latest)
------------------------------------------------------------------------------
Unbound ==
  /\ bound = None
  /\ events = [r \in Requests |-> <<>>]
  /\ campaigns = [r \in Requests |-> None]
  /\ baselineHolder = NoOne
  /\ pending = 0
  /\ call = [p \in Proc |-> [at |-> "idle", answer |-> "none"]]
  /\ deaths = 0
ProjectInit == source \in Digests /\ Unbound

Goto(p, step) == call' = [call EXCEPT ![p] = step]

\* The call ends and with it the transaction it may hold.
EndCall(p, a) ==
  /\ Goto(p, [at |-> "idle", answer |-> a])
  /\ baselineHolder' = IF baselineHolder = p THEN NoOne ELSE baselineHolder

\* The checks of the schema have passed.  Only bind creates the project's folder.
Begin(p, r, in) ==
  /\ call[p].at = "idle"
  /\ Valid(in)
  /\ in.op # "bind" => bound # None
  /\ Goto(p, [at |-> "lock", request |-> r, in |-> in])
  /\ UNCHANGED <<source, projectFiles, baselineHolder, pending, deaths>>

\* BEGIN IMMEDIATE, the identity row, and the removal of what a dead writer left.
Lock(p) ==
  /\ call[p].at = "lock"
  /\ baselineHolder = NoOne
  /\ baselineHolder' = p
  /\ pending' = 0
  /\ Goto(p, [call[p] EXCEPT !.at = "decide"])
  /\ UNCHANGED <<source, projectFiles, deaths>>

\* Ten seconds of SQLITE_BUSY.
Busy(p) ==
  /\ call[p].at = "lock"
  /\ baselineHolder # NoOne
  /\ EndCall(p, "busy")
  /\ UNCHANGED <<source, projectFiles, pending, deaths>>

\* What the callback decides to put into the file of the request, or its answer.
NewFile(content) == [put |-> content]
Say(answer) == [say |-> answer]

Bind(r, in) == NewFile(source)

\* Mutant of Accept: the file of a former attempt is not looked for.
AcceptAfresh(r, in) ==
  IF ~OneChain THEN Say("corrupt")
  ELSE IF Current # in.from THEN Say("conflict")
  ELSE IF source # in.to THEN Say("changed")
  ELSE NewFile(Append(Latest, [from |-> in.from, to |-> in.to]))

\* A request with an event is a retry and has to be the same; a new one has to
\* continue the head and to name the source as it is now.
Accept(r, in) ==
  IF events[r] # <<>>
  THEN Say(IF Last(events[r]) = [from |-> in.from, to |-> in.to] THEN "ok" ELSE "conflict")
  ELSE IF ~OneChain THEN Say("corrupt")
  ELSE IF Current # in.from THEN Say("conflict")
  ELSE IF source # in.to THEN Say("changed")
  ELSE NewFile(Append(Latest, [from |-> in.from, to |-> in.to]))

\* A campaign is on the current baseline, and COMPLETE only if the source still
\* is.  The hashes of its evidence files are the caller's.
Campaign(r, in) ==
  IF ~OneChain THEN Say("corrupt")
  ELSE IF in.on # Current THEN Say("schema")
  ELSE IF in.complete /\ source # Current THEN Say("changed")
  ELSE NewFile(in)

File(c) == CASE c.in.op = "bind" -> bound
             [] c.in.op = "accept" -> events[c.request]
             [] c.in.op = "campaign" -> campaigns[c.request]
Absent(c) == File(c) = IF c.in.op = "accept" THEN <<>> ELSE None

Decision(c) == CASE c.in.op = "bind" -> Bind(c.request, c.in)
                 [] c.in.op = "accept" -> Accept(c.request, c.in)
                 [] c.in.op = "campaign" -> Campaign(c.request, c.in)

\* The callback up to putNew: content that is there must be identical, new content
\* goes to a pending file.
Decide(p) ==
  LET c == call[p]
      d == Decision(c)
  IN
  /\ c.at = "decide"
  /\ \/ /\ "say" \in DOMAIN d
        /\ IF d.say = "ok" THEN Goto(p, [c EXCEPT !.at = "commit"]) /\ UNCHANGED baselineHolder
                           ELSE EndCall(p, d.say)
        /\ UNCHANGED pending
     \/ /\ "put" \in DOMAIN d /\ ~Absent(c)
        /\ IF File(c) = d.put THEN Goto(p, [c EXCEPT !.at = "commit"]) /\ UNCHANGED baselineHolder
                              ELSE EndCall(p, "conflict")
        /\ UNCHANGED pending
     \/ /\ "put" \in DOMAIN d /\ Absent(c)
        /\ Goto(p, [at |-> "publish", request |-> c.request, in |-> c.in, put |-> d.put])
        /\ pending' = pending + 1
        /\ UNCHANGED baselineHolder
  /\ UNCHANGED <<source, projectFiles, deaths>>

\* The rename by which the complete file becomes part of the project.
Publish(p) ==
  LET c == call[p] IN
  /\ c.at = "publish"
  /\ Absent(c)
  /\ Goto(p, [at |-> "commit", request |-> c.request, in |-> c.in])
  /\ pending' = pending - 1
  /\ bound' = IF c.in.op = "bind" THEN c.put ELSE bound
  /\ events' = IF c.in.op = "accept" THEN [events EXCEPT ![c.request] = c.put] ELSE events
  /\ campaigns' = IF c.in.op = "campaign" THEN [campaigns EXCEPT ![c.request] = c.put] ELSE campaigns
  /\ UNCHANGED <<source, baselineHolder, deaths>>

Commit(p) ==
  /\ call[p].at = "commit"
  /\ EndCall(p, "ok")
  /\ UNCHANGED <<source, projectFiles, pending, deaths>>

\* COMMIT fails while a contender holds the shared lock: the transaction is rolled
\* back, the files that the callback wrote are not.
CommitFails(p) ==
  /\ call[p].at = "commit"
  /\ \E q \in Proc \ {p} : call[q].at = "lock"
  /\ EndCall(p, "commit_failed")
  /\ UNCHANGED <<source, projectFiles, pending, deaths>>

Crash(p) ==
  /\ call[p].at # "idle"
  /\ deaths < MaxDeaths
  /\ deaths' = deaths + 1
  /\ EndCall(p, "died")
  /\ UNCHANGED <<source, projectFiles, pending>>

\* The owner edits the source.
Edit ==
  /\ source' \in Digests \ {source}
  /\ UNCHANGED <<projectFiles, baselineHolder, pending, call, deaths>>
------------------------------------------------------------------------------
OwnStep(p) == Lock(p) \/ Busy(p) \/ Decide(p) \/ Publish(p) \/ Commit(p) \/ CommitFails(p)

ProjectNext ==
  \/ \E p \in Proc :
       \/ \E r \in Requests, in \in Operations : Begin(p, r, in)
       \/ OwnStep(p)
       \/ Crash(p)
  \/ Edit

ProjectSpec == ProjectInit /\ [][ProjectNext]_projectVars
------------------------------------------------------------------------------
(* The history of baselines is always one chain from project.json, so that no
   reader, with or without the lock, ever finds it corrupt: neither concurrent
   writers, nor deaths, nor failed commits fork it or lose a link of it. *)
HistoryReadable == OneChain

\* The request of c is in the project exactly as c asks for it.
Done(c) ==
  CASE c.in.op = "bind" -> bound # None
    [] c.in.op = "accept" -> events[c.request] # <<>>
                             /\ Last(events[c.request]) = [from |-> c.in.from, to |-> c.in.to]
    [] c.in.op = "campaign" -> campaigns[c.request] = c.in

(* A caller can rely on its answer.  "ok" means that the work is done; a baseline
   that has been accepted is never answered with a refusal again, whatever has been
   accepted since.  Only a busy lock, a failed COMMIT and a death leave it open. *)
AnswersTrue ==
  [][\A p \in Proc :
       call[p].at # "idle" /\ call'[p].at = "idle" =>
         /\ call'[p].answer = "ok" => Done(call[p])
         /\ call[p].in.op = "accept" /\ Done(call[p])
              => call'[p].answer \in {"ok", "busy", "commit_failed", "died"}]_projectVars

(* A campaign is only ever written on the baseline that is current at that moment,
   although the baseline was read before the file was prepared. *)
CampaignOnBaseline ==
  [][\A r \in Requests : campaigns'[r] # campaigns[r] => campaigns'[r].on = Current]_projectVars

(* The baselines of a project stay one chain, what a caller is told of its operation is
   true, and a campaign is written on the baseline of that moment. *)
ProjectKept == []HistoryReadable /\ AnswersTrue /\ CampaignOnBaseline
==============================================================================
