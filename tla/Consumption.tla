----------------------------- MODULE Consumption -----------------------------
(***************************************************************************)
(* The read-only asset service: consumption/http.ts admits and answers     *)
(* requests, consumption/assets.ts reads an asset with everything it       *)
(* depends on.  The owner rewrites the authorization file and publishes    *)
(* assets while requests are running.  The products' stores are external.  *)
(***************************************************************************)
EXTENDS Naturals, FiniteSets

CONSTANTS
  Requests,           \* the connections of one service client
  Assets, Depends,    \* the assets, and the manifest dependencies of each
  Grants,             \* what the owner may grant the client
  AssetLimit,         \* CONSUMPTION_LIMITS.assets
  RequestsPerMinute,  \* CONSUMPTION_LIMITS.requestsPerMinute
  Concurrency         \* CONSUMPTION_LIMITS.concurrency

\* What is assumed of the constants.
ASSUME ConsumptionAssumption ==
  /\ Depends \in [Assets -> SUBSET Assets] /\ Grants \subseteq SUBSET Assets
  /\ AssetLimit \in Nat /\ RequestsPerMinute \in Nat /\ Concurrency \in Nat

VARIABLES
  authorization,   \* the file: the assets granted, "disabled", or "broken"
  publications,    \* the assets that readPackage() finds in exactly one place
  bucket,          \* requests of this minute
  active,          \* slots taken
  request          \* each request: where it is, its grant, what it has read

consumptionVars == <<authorization, publications, bucket, active, request>>

Answer(status) == [at |-> "answered", status |-> status]
Serves(q) == q.at \in {"body", "visit", "snapshot", "deliver"}

\* The operations that read a record of the owner, of a reference or of an inventory,
\* besides packages, before or after the closure of each asset that they ask for.
Operations == {"discover", "export", "query", "compare", "assessment", "specification"}
ReadsAfter == {"query", "compare"}
ReadsBefore == {"assessment", "specification"}
------------------------------------------------------------------------------
ConsumptionInit ==
  /\ authorization \in [is : {"grant"}, assets : Grants]
  /\ publications = {}
  /\ bucket = 0 /\ active = 0
  /\ request = [r \in Requests |-> Answer("none")]

\* The owner grants other assets, disables the credential, or is caught rewriting.
Reauthorize ==
  /\ \/ \E granted \in Grants : authorization' = [is |-> "grant", assets |-> granted]
     \/ \E is \in {"disabled", "broken"} : authorization' = [is |-> is]
  /\ UNCHANGED <<publications, bucket, active, request>>

PublishAsset(a) ==
  /\ publications' = publications \cup {a}
  /\ UNCHANGED <<authorization, bucket, active, request>>

Minute ==
  /\ bucket' = 0
  /\ UNCHANGED <<authorization, publications, active, request>>

Becomes(r, next) == request' = [request EXCEPT ![r] = next]

\* The handler up to its first await: authenticate() with the file as it is now, the
\* rate, the slots, and then a slot is taken.
Arrive(r) ==
  /\ request[r].at = "answered"
  /\ IF authorization.is = "broken"
     THEN Becomes(r, Answer("unavailable")) /\ UNCHANGED <<bucket, active>>
     ELSE IF authorization.is = "disabled"
     THEN Becomes(r, Answer("unauthorized")) /\ UNCHANGED <<bucket, active>>
     ELSE /\ bucket <= RequestsPerMinute        \* no use counting further
          /\ bucket' = bucket + 1
          /\ IF bucket' > RequestsPerMinute \/ active >= Concurrency
             THEN Becomes(r, Answer("limit")) /\ UNCHANGED active
             ELSE \/ /\ Becomes(r, [at |-> "body", granted |-> authorization.assets])
                     /\ active' = active + 1
                  \/ Becomes(r, Answer("projects")) /\ UNCHANGED active
  /\ UNCHANGED <<authorization, publications>>

\* The answer, and the slot given back in the "finally".
Finish(r, status) ==
  /\ Serves(request[r])
  /\ Becomes(r, Answer(status))
  /\ active' = active - 1

\* What is next for a request whose last closure is complete: the closure of another
\* asset it asks for, or the answer.
Onward(q) ==
  IF q.roots = {} THEN {[q EXCEPT !.at = "deliver"]}
  ELSE {[q EXCEPT !.at = "visit", !.roots = @ \ {a}, !.need = {a}, !.packages = {}] : a \in q.roots}

Asking(q, operation, roots) ==
  [at |-> "visit", granted |-> q.granted, operation |-> operation, asked |-> roots, roots |-> roots,
   need |-> {}, packages |-> {}, read |-> {}]

\* The body is complete; consume() looks every root up among the granted assets.  A
\* page of discovery is of granted assets; what an assessment or a specification asks
\* for is only known from the record.
Parsed(r) ==
  LET q == request[r]
      Asks(operation, roots) ==
        IF roots \subseteq q.granted
        THEN (\E next \in Onward(Asking(q, operation, roots)) : Becomes(r, next)) /\ UNCHANGED active
        ELSE Finish(r, "forbidden")
  IN
  /\ q.at = "body"
  /\ \/ \E page \in SUBSET q.granted : Asks("discover", page)
     \/ \E root \in Assets, operation \in {"export", "query"} : Asks(operation, {root})
     \/ \E before \in Assets, after \in Assets : Asks("compare", {before, after})
     \/ \E operation \in ReadsBefore :
          Becomes(r, [Asking(q, operation, {}) EXCEPT !.at = "snapshot"]) /\ UNCHANGED active
  /\ UNCHANGED <<authorization, publications, bucket>>

\* The body is too long or no request, or it never comes and requestTimeout ends it.
BodyFails(r) ==
  /\ request[r].at = "body"
  /\ Finish(r, "refused")
  /\ UNCHANGED <<authorization, publications, bucket>>

\* A package has been read; the closure is complete when nothing is needed any more.
Have(r, q, packages, need) ==
  LET now == [q EXCEPT !.packages = packages, !.need = need,
                       !.read = IF need = {} THEN @ \cup packages ELSE @] IN
  IF need # {} THEN Becomes(r, now)
  ELSE IF q.operation \in ReadsAfter THEN Becomes(r, [now EXCEPT !.at = "snapshot"])
  ELSE \E next \in Onward(now) : Becomes(r, next)

\* closure(): one package after the other is read, and its dependencies are still to
\* be read.  Discovery only reads the assets of its page.
Visit(r) ==
  LET q == request[r] IN
  /\ q.at = "visit"
  /\ \E a \in q.need :
       IF a \in publications /\ Cardinality(q.packages) < AssetLimit
       THEN /\ UNCHANGED active
            /\ Have(r, q, q.packages \cup {a},
                    (q.need \cup (IF q.operation = "discover" THEN {} ELSE Depends[a]))
                      \ (q.packages \cup {a}))
       ELSE Finish(r, "unavailable")
  /\ UNCHANGED <<authorization, publications, bucket>>

\* The snapshot of the root, the assessment, or the record of an inventory: it may not
\* be what it should be, and the assets it names have to be granted.
Snapshot(r) ==
  LET q == request[r] IN
  /\ q.at = "snapshot"
  /\ \/ Finish(r, "drift")
     \/ /\ q.operation \in ReadsAfter
        /\ \E next \in Onward(q) : Becomes(r, next)
        /\ UNCHANGED active
     \/ /\ q.operation = "assessment"
        /\ \E reference \in Assets :
             IF reference \in q.granted
             THEN Becomes(r, [q EXCEPT !.at = "deliver", !.asked = {reference}, !.read = {reference}])
                  /\ UNCHANGED active
             ELSE Finish(r, "forbidden")
     \/ /\ q.operation = "specification"
        /\ \E named \in SUBSET Assets :
             IF named \subseteq q.granted
             THEN (\E next \in Onward(Asking(q, "specification", named)) : Becomes(r, next))
                  /\ UNCHANGED active
             ELSE Finish(r, "forbidden")
  /\ UNCHANGED <<authorization, publications, bucket>>

\* bounded(): the provider had five seconds, the request fifteen.
ReadTimesOut(r) ==
  /\ request[r].at \in {"visit", "snapshot"}
  /\ Finish(r, "timeout")
  /\ UNCHANGED <<authorization, publications, bucket>>

Serve(r) ==
  /\ Becomes(r, [at |-> "answered", status |-> "served", operation |-> request[r].operation,
                 asked |-> request[r].asked, read |-> request[r].read])
  /\ active' = active - 1

\* Mutant of Deliver: the credential is only looked at when the request arrives.
DeliverAnyway(r) ==
  /\ request[r].at = "deliver"
  /\ Serve(r)
  /\ UNCHANGED <<authorization, publications, bucket>>

\* The authorization file is read again; anything but the same grant prevents delivery.
Deliver(r) ==
  /\ request[r].at = "deliver"
  /\ IF authorization = [is |-> "grant", assets |-> request[r].granted]
     THEN Serve(r) ELSE Finish(r, "revoked")
  /\ UNCHANGED <<authorization, publications, bucket>>

ConsumptionNext ==
  \/ Reauthorize \/ Minute \/ \E a \in Assets : PublishAsset(a)
  \/ \E r \in Requests : \/ Arrive(r) \/ Parsed(r) \/ BodyFails(r) \/ Visit(r) \/ Snapshot(r)
                         \/ ReadTimesOut(r) \/ Deliver(r)

\* The timers fire and the handler goes on; a provider need not answer.
ConsumptionFairness ==
  \A r \in Requests : /\ WF_consumptionVars(BodyFails(r))
                      /\ WF_consumptionVars(ReadTimesOut(r)) /\ WF_consumptionVars(Deliver(r))
ConsumptionSpec == ConsumptionInit /\ [][ConsumptionNext]_consumptionVars /\ ConsumptionFairness
------------------------------------------------------------------------------
ConsumptionTypeOK ==
  /\ authorization.is \in {"grant", "disabled", "broken"}
  /\ publications \subseteq Assets
  /\ bucket \in 0 .. RequestsPerMinute + 1
  /\ \A r \in Requests : Serves(request[r]) \/ request[r].at = "answered"

(* What is delivered is each asset asked for with all it depends on, directly or not, and
   nothing else, although packages are read one by one while others are published.  A
   page of discovery and an assessment are about assets, without what they depend on. *)
DeliveredWhole ==
  \A r \in Requests : request[r].at = "answered" /\ request[r].status = "served" =>
    LET q == request[r]
        Closed(s) == \A a \in s : Depends[a] \subseteq s
    IN
    IF q.operation \in {"discover", "assessment"} THEN q.read = q.asked
    ELSE /\ q.asked \subseteq q.read /\ Closed(q.read)
         /\ \A s \in SUBSET q.read : q.asked \subseteq s /\ Closed(s) => s = q.read

(* Nothing is delivered unless, at that moment, the file grants what was asked for,
   whatever it granted when the request came in. *)
DeliveredAsGranted ==
  [][\A r \in Requests :
       Serves(request[r]) /\ request'[r].at = "answered" /\ request'[r].status = "served" =>
         authorization.is = "grant" /\ request'[r].asked \subseteq authorization.assets]_consumptionVars

(* The slots taken are the requests being served and never more than there are, so no
   failure of one request can shut the service for the others. *)
SlotsReturned ==
  /\ active = Cardinality({r \in Requests : Serves(request[r])})
  /\ active <= Concurrency

(* The asset service delivers an asset with all it depends on, gives every slot back, and
   delivers only what is granted at that moment. *)
Delivered == []DeliveredWhole /\ []SlotsReturned /\ []ConsumptionTypeOK /\ DeliveredAsGranted

(* A request that was admitted is answered, although neither its client nor a provider
   ever sends another byte. *)
AdmittedIsAnswered ==
  \A r \in Requests : Serves(request[r]) ~> (request[r].at = "answered")
==============================================================================
