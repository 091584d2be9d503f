----------------------------- MODULE Generation -----------------------------
(***************************************************************************)
(* The turn of the app server that generates a reconstruction: the events  *)
(* of usability/codex-generation.ts, and the replay of the journal they    *)
(* leave by which codex-recovery.ts believes a generation whose worker is  *)
(* gone.  Events of another thread are ignored and not shown.              *)
(***************************************************************************)
EXTENDS Naturals, Sequences

CONSTANTS
  Turns,        \* turn ids the server may name
  TokenLimit,   \* what the claim has left
  MaxTokens,    \* bound on the total the server reports
  MaxEvents,    \* bound on the events of one behaviour
  Unset

\* What is assumed of the constants.
ASSUME GenerationAssumption ==
  TokenLimit \in Nat /\ MaxTokens \in Nat /\ MaxEvents \in Nat /\ Unset \notin Turns \cup Nat

VARIABLES
  step,         \* "asked", "waiting" for the completion, "retained" or "failed"
  turn,         \* the turn of the claim, once an event or the answer named it
  events,       \* generation.events.jsonl
  live,         \* what the events have been folded to
  result        \* generation.result.json: Unset or [turn, tokens, heard], heard the events until then

generationVars == <<step, turn, events, live, result>>

Event == [m : {"started"}, turn : Turns]
    \cup [m : {"item"}, turn : Turns, item : {"message", "tool", "final"}]
    \cup [m : {"usage"}, turn : Turns, total : 0..MaxTokens]
    \cup [m : {"completed"}, turn : Turns, ok : BOOLEAN]
    \cup [m : {"error"}, retry : BOOLEAN]

Blank == [tokens |-> Unset, text |-> FALSE, terminal |-> FALSE, problem |-> FALSE]
------------------------------------------------------------------------------
GenerationInit ==
  step = "asked" /\ turn = Unset /\ events = <<>> /\ live = Blank /\ result = Unset

\* The total of tokens never falls.
Falls(before, total) == before # Unset /\ total < before

\* Mutant of Rejected: an event may be of any turn.
RejectedTurnless(e) ==
  CASE e.m = "error" -> ~e.retry
    [] e.m = "started" -> FALSE
    [] e.m = "item" -> e.item = "tool" \/ (e.item = "final" /\ live.text)
    [] e.m = "usage" -> Falls(live.tokens, e.total) \/ e.total > TokenLimit
    [] e.m = "completed" -> ~e.ok

\* The checks of event() for one event, after it has been written to the journal.
Rejected(e) ==
  CASE e.m = "error" -> ~e.retry
    [] e.m = "started" -> turn \notin {Unset, e.turn}
    [] e.m = "item" -> e.turn # turn \/ e.item = "tool" \/ (e.item = "final" /\ live.text)
    [] e.m = "usage" -> e.turn # turn \/ Falls(live.tokens, e.total) \/ e.total > TokenLimit
    [] e.m = "completed" -> e.turn # turn \/ ~e.ok

\* An event is heard until the process is closed, also after the completion; what is
\* heard after a problem is never used.
Hear(e) ==
  /\ step \in {"asked", "waiting", "retained"} /\ ~live.problem /\ Len(events) < MaxEvents
  /\ events' = Append(events, e)
  /\ turn' = IF e.m = "started" /\ ~Rejected(e) THEN e.turn ELSE turn
  /\ live' = IF Rejected(e) THEN [live EXCEPT !.problem = TRUE]
             ELSE [live EXCEPT !.tokens = IF e.m = "usage" THEN e.total ELSE @,
                               !.text = @ \/ (e.m = "item" /\ e.item = "final"),
                               !.terminal = @ \/ e.m = "completed"]
  /\ UNCHANGED <<step, result>>

\* The answer to turn/start: the turn that events may have named already.
TurnStarted(t) ==
  /\ step = "asked" /\ ~live.problem
  /\ IF turn \in {Unset, t} THEN turn' = t /\ step' = "waiting"
     ELSE step' = "failed" /\ UNCHANGED turn
  /\ UNCHANGED <<events, live, result>>

\* The completion has resolved; the bundle and the total have to be there.
RetainTurn ==
  /\ step = "waiting" /\ live.terminal
  /\ IF live.problem \/ ~live.text \/ live.tokens = Unset
     THEN step' = "failed" /\ UNCHANGED result
     ELSE step' = "retained" /\ result' = [turn |-> turn, tokens |-> live.tokens, heard |-> Len(events)]
  /\ UNCHANGED <<turn, events, live>>

\* A rejected event, the timer, the cancel file or the end of the process.
Abandon ==
  /\ step \in {"asked", "waiting"}
  /\ step' = "failed"
  /\ UNCHANGED <<turn, events, live, result>>
------------------------------------------------------------------------------
\* verifyGeneration: one event of the journal of turn t; the fold that is believed or refused.
Replayed(t, s, e) ==
  IF ~s.ok THEN s
  ELSE CASE e.m = "started" -> [s EXCEPT !.ok = e.turn = t]
         [] e.m = "completed" -> [s EXCEPT !.ok = e.turn = t /\ e.ok /\ ~s.terminal, !.terminal = TRUE]
         [] e.m = "error" -> [s EXCEPT !.ok = e.retry]
         [] e.m = "usage" -> [s EXCEPT !.ok = e.turn = t /\ ~Falls(s.tokens, e.total), !.tokens = e.total]
         [] e.m = "item" -> [s EXCEPT !.ok = e.turn = t /\ e.item # "tool" /\ ~(e.item = "final" /\ s.text),
                                      !.text = @ \/ e.item = "final"]

Unread == [ok |-> TRUE, tokens |-> Unset, text |-> FALSE, terminal |-> FALSE]
Replay(t, journal) ==
  LET after[n \in 0 .. Len(journal)] == IF n = 0 THEN Unread ELSE Replayed(t, after[n - 1], journal[n])
  IN after[Len(journal)]

\* The recovery also holds the total against the result and the claim.
Believed(journal) ==
  LET s == Replay(result.turn, journal) IN
  s.ok /\ s.terminal /\ s.text /\ s.tokens = result.tokens /\ result.tokens <= TokenLimit
------------------------------------------------------------------------------
GenerationNext ==
  \/ \E e \in Event : Hear(e)
  \/ \E t \in Turns : TurnStarted(t)
  \/ RetainTurn \/ Abandon

GenerationSpec == GenerationInit /\ [][GenerationNext]_generationVars
------------------------------------------------------------------------------
GenerationTypeOK ==
  /\ step \in {"asked", "waiting", "retained", "failed"} /\ turn \in Turns \cup {Unset}
  /\ events \in Seq(Event)
  /\ live \in [tokens : {Unset} \cup 0..MaxTokens, text : BOOLEAN, terminal : BOOLEAN, problem : BOOLEAN]

CompletedOnce(journal) ==
  \A i, j \in DOMAIN journal : journal[i].m = "completed" /\ journal[j].m = "completed" => i = j

(* The two validators of a generation agree: what the live turn retained is believed by
   the replay of the journal as it was then, unless the server completed the turn twice;
   and a journal that went on is believed only for the total that was retained. *)
ReplayAgrees ==
  /\ result # Unset =>
       LET then == SubSeq(events, 1, result.heard) IN
       /\ CompletedOnce(then) => Believed(then)
       /\ Believed(events) => \A i \in DOMAIN events :
            /\ "turn" \in DOMAIN events[i] => events[i].turn = result.turn
            /\ events[i].m = "usage" => events[i].total <= TokenLimit
  /\ GenerationTypeOK
==============================================================================
