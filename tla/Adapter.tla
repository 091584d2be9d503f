------------------------------- MODULE Adapter -------------------------------
(***************************************************************************)
(* The Codex adapter plugins/codex/server.ts: one process per chat reads   *)
(* JSON lines from a pipe in chunks of any size, handles one at a time and *)
(* writes the replies.  The session is a flag of the process; what it does *)
(* to the daemon and the workspace is Connection's and Maintenance's part. *)
(***************************************************************************)
EXTENDS Naturals, Sequences

CONSTANTS
  InputLimit,   \* INPUT, in parts of a line
  MaxLines

\* What is assumed of the constants.
ASSUME AdapterAssumption == InputLimit \in Nat \ {0} /\ MaxLines \in Nat

VARIABLES
  count,          \* complete lines so far
  coming,         \* parts of the line that is coming
  size, dropping, \* the reader's state
  initialized, sessionActive,
  due, replies,   \* the ids of the replies the lines are due, and of those written
  maintained,     \* maintenance was tried since the session was last activated
  forwarded       \* the last line whose call went to the daemon

adapterVars == <<count, coming, size, dropping, initialized, sessionActive, due, replies,
                 maintained, forwarded>>
sessionVars == <<initialized, sessionActive, maintained, forwarded>>

Requests == {"initialize", "ping", "activate", "deactivate", "product", "maintain", "restore"}
Asks == Requests \cup {"notification", "garbage"}
NoId == 0      \* the id of a reply to a line that could not be read
------------------------------------------------------------------------------
AdapterInit ==
  /\ count = 0 /\ coming = 0
  /\ due = <<>> /\ replies = <<>>
  /\ size = 0 /\ dropping = FALSE
  /\ initialized = FALSE /\ sessionActive = FALSE
  /\ maintained = FALSE /\ forwarded = 0

\* A chunk ends within a line: its part is kept, or the whole line is dropped.
Part ==
  /\ count < MaxLines /\ coming <= InputLimit + 1
  /\ coming' = coming + 1
  /\ IF dropping THEN UNCHANGED <<size, dropping>>
     ELSE IF size + 1 > InputLimit THEN dropping' = TRUE /\ size' = 0
     ELSE size' = size + 1 /\ UNCHANGED dropping
  /\ UNCHANGED <<count, due, replies, sessionVars>>

\* write(): one reply, its result or an error; one that is too long says so, or UNKNOWN
\* where the call may have written, and keeps the correlation.
Reply(id) == replies' = Append(replies, id)

\* Mutant of Maintain: the session ends with the maintenance, when that succeeds.
MaintainThenEnd ==
  /\ maintained' = TRUE
  /\ sessionActive' \in {FALSE, sessionActive}
  /\ UNCHANGED <<initialized, forwarded>>

\* Backup, restore, migrate, template upgrade, online_configure, toolchain_prepare:
\* whether it succeeds or throws, the session ends in the "finally".
Maintain ==
  /\ maintained' = TRUE
  /\ sessionActive' = FALSE
  /\ UNCHANGED <<initialized, forwarded>>

\* tools/call, by action.  Only a product operation goes to the daemon; one that finds
\* the daemon gone ends the session.
Call(id, asks) ==
  \/ /\ asks = "activate"
     /\ \/ sessionActive' = TRUE /\ maintained' = FALSE
        \/ UNCHANGED <<sessionActive, maintained>>
     /\ UNCHANGED <<initialized, forwarded>>
  \/ /\ asks = "deactivate" /\ sessionActive' = FALSE
     /\ UNCHANGED <<initialized, maintained, forwarded>>
  \/ /\ asks \in {"product", "maintain"} /\ ~sessionActive
     /\ UNCHANGED sessionVars
  \/ /\ asks = "product" /\ sessionActive
     /\ forwarded' = id /\ sessionActive' \in BOOLEAN
     /\ UNCHANGED <<initialized, maintained>>
  \/ /\ asks = "restore" \/ (asks = "maintain" /\ sessionActive)
     /\ Maintain

\* handle(): a notification does nothing and gets no reply, anything else gets one.
Handle(id, asks) ==
  /\ CASE asks = "notification" -> UNCHANGED replies
       [] asks = "garbage"      -> Reply(NoId)
       [] OTHER                 -> Reply(id)
  /\ IF initialized /\ asks \in Requests \ {"initialize", "ping"}
     THEN Call(id, asks)
     ELSE /\ initialized' = (initialized \/ asks = "initialize")
          /\ UNCHANGED <<sessionActive, maintained, forwarded>>

\* What a client may expect of a line, whatever chunks it came in.
Due(id, asks) == IF coming > InputLimit \/ asks = "garbage" THEN <<NoId>>
                 ELSE IF asks = "notification" THEN <<>> ELSE <<id>>

Take(asks) ==
  /\ count < MaxLines /\ coming > 0
  /\ count' = count + 1 /\ coming' = 0
  /\ due' = due \o Due(count', asks)
  /\ IF dropping THEN Reply(NoId) /\ UNCHANGED sessionVars ELSE Handle(count', asks)

\* The end of the line: the reader starts afresh once it is handled.
Newline(asks) == Take(asks) /\ size' = 0 /\ dropping' = FALSE

AdapterNext == Part \/ \E asks \in Asks : Newline(asks)
AdapterSpec == AdapterInit /\ [][AdapterNext]_adapterVars
------------------------------------------------------------------------------
AdapterTypeOK ==
  /\ size \in 0 .. InputLimit
  /\ initialized \in BOOLEAN /\ sessionActive \in BOOLEAN
  /\ count <= MaxLines /\ Len(replies) <= count

(* Every line gets the one reply it is due, in order and under its own id: an oversized
   or malformed line costs the client that line only, wherever the chunks end. *)
RepliedInOrder == replies = due

(* After any attempt at maintenance, failed ones included, nothing is forwarded to the
   daemon until the session has been activated again. *)
NothingForwardedAfterMaintenance ==
  [][forwarded' # forwarded => ~maintained]_adapterVars

(* The adapter gives every line the one reply it is due, in order, and forwards nothing
   after maintenance until the session has been activated again. *)
ChatServed == []RepliedInOrder /\ NothingForwardedAfterMaintenance /\ []AdapterTypeOK
==============================================================================
