------------------------------ MODULE Feedback ------------------------------
(***************************************************************************)
(* compatibility/feedback/v1: the inbox an owner keeps of Runtime's events *)
(* (owner.mjs), its proposals and human decisions, and the store that      *)
(* makes every mutation a transaction with a receipt and an audit row      *)
(* (feedback.mjs).  One scope; deliverFeedback of native-composition.ts is *)
(* one of the callers.                                                     *)
(***************************************************************************)
EXTENDS Naturals

CONSTANTS
  Callers,      \* concurrent callers of feedback()
  Events,       \* events Runtime holds, by id; their content never changes
  RequestIds,
  Delivery,     \* the request id of deliverFeedback, by event
  Proposals,    \* mode, reference, rationale and changes
  Decisions,    \* APPROVE and REJECT
  Materials,    \* what the providers can return for the packages of a review
  Nothing,      \* no record, no review, no disposition, no receipt
  Limit         \* revisions of a store, 10000 in the code

VARIABLES
  material,     \* what the providers return now
  inbox,        \* per event Nothing, or its record: [review, disposition]
  receipts,     \* per request id Nothing, or its intent
  revision,     \* of the store, counted up with every receipt
  asks          \* what each caller waits for, with what it has read

store == <<inbox, receipts, revision>>
feedbackVars == <<material, store, asks>>

Reviews == [proposal : Proposals, material : Materials]
Dispositions == [review : Reviews, decision : Decisions]
Inputs == [op : {"ingest"}, event : Events]
     \cup [op : {"propose"}, event : Events, proposal : Proposals]
     \cup [op : {"decide"}, event : Events, review : Reviews, decision : Decisions]
\* What is assumed of the constants: a receipt is never taken for no receipt.
ASSUME FeedbackAssumption ==
  Limit \in Nat /\ Nothing \notin Inputs /\ Delivery \in [Events -> RequestIds]

Steps == {"idle", "source", "mutate", "answer"}
Answers == {"ok", "conflict", "limit", "immutable", "stale", "failed"}
------------------------------------------------------------------------------
Empty ==
  /\ inbox = [e \in Events |-> Nothing]
  /\ receipts = [i \in RequestIds |-> Nothing]
  /\ revision = 0
  /\ asks = [c \in Callers |-> [at |-> "idle"]]
FeedbackInit == material \in Materials /\ Empty

Become(c, state) == asks' = [asks EXCEPT ![c] = state]

Reply(c, a) == Become(c, [at |-> "answer", answer |-> a])

\* The request is well formed.  All but ingest read the record of the inbox before
\* they read anything else; a decision names the review that is in it.  The revision
\* expected is any number: the one there is, or that of a mutation still to come.
Ask(c, i, in, expected) ==
  /\ asks[c].at = "idle"
  /\ in.op # "ingest" => inbox[in.event] # Nothing
  /\ in.op = "decide" => inbox[in.event].review = in.review
  /\ Become(c, [at |-> "source", id |-> i, in |-> in, expected |-> expected])
  /\ UNCHANGED <<material, store>>

\* deliverFeedback: only what the inbox does not have, at the revision it has now.
Deliver(c, e) ==
  /\ inbox[e] = Nothing
  /\ Ask(c, Delivery[e], [op |-> "ingest", event |-> e], revision)

\* Runtime or the material provider fails or is late (feedbackBounded).
ProviderFails(c) ==
  /\ asks[c].at = "source"
  /\ Reply(c, "failed")
  /\ UNCHANGED <<material, store>>

\* source() has returned the event, which never changes, and review() the material as it
\* is now, which becomes part of the review.  A decision is refused unless that is what
\* the review it names was made of.
Review(c) ==
  LET a == asks[c] IN
  /\ a.at = "source"
  /\ CASE a.in.op = "ingest" -> Become(c, [a EXCEPT !.at = "mutate"])
       [] a.in.op = "decide" /\ a.in.review.material # material -> Reply(c, "stale")
       [] OTHER -> Become(c, [at |-> "mutate", id |-> a.id, in |-> a.in, expected |-> a.expected,
                              read |-> material])
  /\ UNCHANGED <<material, store>>

\* The function inside mutate(), given the record as it is in the transaction.
Applied(a, record, recheck) ==
  CASE a.in.op = "ingest" ->
         [ok |-> TRUE, record |-> IF record = Nothing THEN [review |-> Nothing, disposition |-> Nothing]
                                  ELSE record]
    [] a.in.op # "ingest" /\ record.disposition # Nothing -> [ok |-> FALSE, answer |-> "immutable"]
    [] a.in.op = "propose" /\ record.disposition = Nothing ->
         [ok |-> TRUE, record |-> [record EXCEPT !.review = [proposal |-> a.in.proposal, material |-> a.read]]]
    [] a.in.op = "decide" /\ record.disposition = Nothing ->
         IF recheck /\ record.review # a.in.review THEN [ok |-> FALSE, answer |-> "stale"]
         ELSE [ok |-> TRUE, record |-> [record EXCEPT !.disposition =
                                          [review |-> a.in.review, decision |-> a.in.decision]]]

Apply(a) == Applied(a, inbox[a.in.event], TRUE)

\* Mutant of Refusal: the revision is compared before the receipt is looked for.
RefusalFirst(a) ==
  IF revision # a.expected THEN "conflict"
  ELSE IF receipts[a.id] # Nothing THEN (IF receipts[a.id] = a.in THEN "ok" ELSE "conflict")
  ELSE IF revision >= Limit THEN "limit"
  ELSE "none"

\* mutate() up to the call of the function: a request that has a receipt is
\* answered from it, whatever happened since.
Refusal(a) ==
  IF receipts[a.id] # Nothing THEN (IF receipts[a.id] = a.in THEN "ok" ELSE "conflict")
  ELSE IF revision # a.expected THEN "conflict"
  ELSE IF revision >= Limit THEN "limit"
  ELSE "none"

\* BEGIN IMMEDIATE to COMMIT or ROLLBACK.
Mutate(c) ==
  LET a == asks[c] IN
  /\ a.at = "mutate"
  /\ IF Refusal(a) # "none" THEN Reply(c, Refusal(a)) /\ UNCHANGED store
     ELSE IF ~Apply(a).ok THEN Reply(c, Apply(a).answer) /\ UNCHANGED store
     ELSE /\ inbox' = [inbox EXCEPT ![a.in.event] = Apply(a).record]
          /\ revision' = revision + 1
          /\ receipts' = [receipts EXCEPT ![a.id] = a.in]
          /\ Reply(c, "ok")
  /\ UNCHANGED material

\* The caller has its answer, or the process has died on the way.
Leave(c) ==
  /\ asks[c].at # "idle"
  /\ Become(c, [at |-> "idle"])
  /\ UNCHANGED <<material, store>>

\* Another package is published or withdrawn for what a review reads.
Republish ==
  /\ material' \in Materials \ {material}
  /\ UNCHANGED <<store, asks>>
------------------------------------------------------------------------------
FeedbackNext ==
  \/ \E c \in Callers :
       \/ \E i \in RequestIds, in \in Inputs, n \in revision .. revision + 1 : Ask(c, i, in, n)
       \/ \E e \in Events : Deliver(c, e)
       \/ ProviderFails(c) \/ Review(c) \/ Mutate(c) \/ Leave(c)
  \/ Republish

FeedbackSpec == FeedbackInit /\ [][FeedbackNext]_feedbackVars
------------------------------------------------------------------------------
(* Every variable has its type; an ask keeps what its next step needs. *)
FeedbackTypeOK ==
  /\ material \in Materials \cup {Nothing}
  /\ inbox \in [Events -> {Nothing} \cup [review : {Nothing} \cup Reviews,
                                          disposition : {Nothing} \cup Dispositions]]
  /\ receipts \in [RequestIds -> {Nothing} \cup Inputs]
  /\ revision \in 0..Limit
  /\ \A c \in Callers :
       /\ asks[c].at \in Steps
       /\ asks[c].at \notin {"idle", "answer"} => asks[c].in \in Inputs /\ asks[c].id \in RequestIds
       /\ asks[c].at = "answer" => asks[c].answer \in Answers

(* A human decision stands on the review it named: that review is the one the record
   still shows, and a receipt says that the decision was asked for on exactly it.
   Proposals that overtake the decision while it waits for the providers, or come
   after it, never put another review under it. *)
DecidedAsReviewed ==
  \A e \in Events :
    inbox[e] # Nothing /\ inbox[e].disposition # Nothing =>
      /\ inbox[e].disposition.review = inbox[e].review
      /\ \E i \in RequestIds :
           receipts[i] = [op |-> "decide", event |-> e, review |-> inbox[e].review,
                          decision |-> inbox[e].disposition.decision]

(* A caller that lost its answer can ask again, whatever was done since: a request
   with a receipt is answered ok by the store, and ok is only answered with a receipt
   of that very request. *)
RetriesAreAnswered ==
  [][\A c \in Callers :
       asks[c].at = "mutate" /\ asks'[c].at = "answer" =>
         /\ asks'[c].answer = "ok" => receipts'[asks[c].id] = asks[c].in
         /\ receipts[asks[c].id] = asks[c].in =>
              asks'[c].answer = "ok" /\ receipts' = receipts]_feedbackVars

(* A decision on feedback stands on the review it named, and a caller that lost its
   answer can ask again. *)
FeedbackKept == []DecidedAsReviewed /\ RetriesAreAnswered /\ []FeedbackTypeOK
==============================================================================
