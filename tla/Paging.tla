------------------------------- MODULE Paging --------------------------------
(***************************************************************************)
(* Reading an asset page by page: readability/v1/readability.mjs.  Nothing *)
(* is kept between two requests: a cursor carries the digest of what it    *)
(* was given for, and the owner may change the asset in between.  A digest *)
(* is modelled by the value it is taken of.                                *)
(***************************************************************************)
EXTENDS Naturals, Sequences, FiniteSetsExt

CONSTANTS
  Rows,         \* the identities a snapshot may have rows for, in their order
  RowVerdicts,  \* what a row may say
  Weight,       \* what a row contributes to the size of a comparison page
  PageWeight    \* and what such a page may weigh

\* What is assumed of the constants.
ASSUME PagingAssumption ==
  /\ Rows \in Seq({Rows[i] : i \in DOMAIN Rows}) /\ PageWeight \in Nat
  /\ Weight \in [{Rows[i] : i \in DOMAIN Rows} -> Nat]
  /\ "changes" \notin RowVerdicts     \* which marks the cursors of a comparison

Ids == {Rows[i] : i \in DOMAIN Rows}
Sides == {"before", "after"}
Filters == {"all"} \cup RowVerdicts
Absent == "absent"

VARIABLES
  records,     \* what the owner has for each version: [id -> verdict or Absent]
  reader,      \* the request of a reader: where it is, what it asks for, its cursor
  held         \* what the reader has collected since the first page

pagingVars == <<records, reader, held>>

NoRecords == [v \in Sides |-> [i \in Ids |-> Absent]]
NothingHeld == [items |-> <<>>, of |-> <<>>]
NoCursor == [of |-> <<>>, filter |-> "all", offset |-> 0]
AskingFor(cursor) == [at |-> "ask", cursor |-> cursor]
------------------------------------------------------------------------------
PagingInit ==
  /\ records \in [Sides -> [Ids -> RowVerdicts \cup {Absent}]]
  /\ reader = AskingFor(NoCursor)
  /\ held = NothingHeld

\* The owner records other results for a version.
RecordVerdict ==
  /\ \E v \in Sides, i \in Ids, w \in RowVerdicts \cup {Absent} : records' = [records EXCEPT ![v][i] = w]
  /\ UNCHANGED <<reader, held>>

\* The rows of some identities, in the order of all.
RowsOf(S) ==
  LET upTo[n \in 0 .. Len(Rows)] ==
        IF n = 0 THEN <<>> ELSE IF Rows[n] \in S THEN Append(upTo[n - 1], Rows[n]) ELSE upTo[n - 1]
  IN upTo[Len(Rows)]
MatchingRows(snapshot, filter) == RowsOf({i \in Ids : snapshot[i] # Absent /\ (filter = "all" \/ snapshot[i] = filter)})
ChangedRows(before, after) == RowsOf({i \in Ids : before[i] # after[i]})

\* The reader is given a page and a cursor for what follows it, and keeps both.
Paged(of, filter, all, offset, length) ==
  LET items == SubSeq(all, offset + 1, offset + length)  end == offset + length IN
  /\ held' = [items |-> (IF offset = 0 THEN <<>> ELSE held.items) \o items, of |-> of]
  /\ reader' = IF end < Len(all) THEN AskingFor([of |-> of, filter |-> filter, offset |-> end])
               ELSE [at |-> "whole", filter |-> filter]
  /\ UNCHANGED records
Drift == reader' = AskingFor(NoCursor) /\ held' = NothingHeld /\ UNCHANGED records

LeastOf(m, n) == IF m <= n THEN m ELSE n

\* Mutant of QueryPage: a cursor is an offset, into whatever the asset holds now.
QueryPageLoose(filter, limit) ==
  LET snapshot == records["after"]  all == MatchingRows(snapshot, filter) IN
  /\ reader.at = "ask"
  /\ IF reader.cursor.offset > Len(all) THEN Drift
     ELSE Paged(<<snapshot>>, filter, all, reader.cursor.offset, LeastOf(limit, Len(all) - reader.cursor.offset))

\* readable.query: the snapshot as it is now; a cursor of another snapshot or of another
\* filter is refused.
QueryPage(filter, limit) ==
  LET snapshot == records["after"]  all == MatchingRows(snapshot, filter)  c == reader.cursor IN
  /\ reader.at = "ask"
  /\ IF c # NoCursor /\ (c.of # <<snapshot>> \/ c.filter # filter) THEN Drift
     ELSE Paged(<<snapshot>>, filter, all, c.offset, LeastOf(limit, Len(all) - c.offset))

\* readable.compare reads the one version, then the other ...
CompareFirst ==
  /\ reader.at = "ask"
  /\ reader' = [at |-> "second", cursor |-> reader.cursor, before |-> records["before"]]
  /\ UNCHANGED <<records, held>>
CompareSecond ==
  /\ reader.at = "second"
  /\ reader' = [at |-> "compare", cursor |-> reader.cursor, before |-> reader.before, after |-> records["after"]]
  /\ UNCHANGED <<records, held>>

\* The longest page of at most "limit" changes that is not too heavy.
Weighs(all, offset, n) == MapThenSumSet(LAMBDA i : Weight[all[i]], offset + 1 .. offset + n)
FittingLength(all, offset, limit) ==
  LET fits == {n \in 1 .. LeastOf(limit, Len(all) - offset) : Weighs(all, offset, n) <= PageWeight}
  IN IF fits = {} THEN 0 ELSE CHOOSE n \in fits : \A m \in fits : m <= n

\* ... reads the first again, and pages through the changes: the page is shortened until
\* it is small enough, and refused when it is a single row.
ComparePage(limit) ==
  LET c == reader.cursor  of == <<reader.before, reader.after>>
      all == ChangedRows(reader.before, reader.after)
      n == FittingLength(all, c.offset, limit)
  IN
  /\ reader.at = "compare"
  /\ IF records["before"] # reader.before \/ (c # NoCursor /\ c.of # of) \/ (n = 0 /\ all # <<>>)
     THEN Drift
     ELSE Paged(of, "changes", all, c.offset, n)

\* The reader is done, and may begin with something else.
Restart == reader.at = "whole" /\ Drift

PagingNext ==
  \/ RecordVerdict
  \/ \E limit \in DOMAIN Rows : ComparePage(limit) \/ \E filter \in Filters : QueryPage(filter, limit)
  \/ CompareFirst \/ CompareSecond
  \/ Restart

PagingSpec == PagingInit /\ [][PagingNext]_pagingVars
------------------------------------------------------------------------------
PagingTypeOK ==
  /\ records \in [Sides -> [Ids -> RowVerdicts \cup {Absent}]]
  /\ reader.at \in {"ask", "second", "compare", "whole"}
  /\ held.items \in Seq(Ids)

(* A reader who follows the cursors to the end holds every row there is to the question,
   once and in order, of one snapshot (of one pair of them), although the asset changed
   and the lengths of the pages differed. *)
OneSnapshot ==
  reader.at = "whole" =>
    held.items = IF reader.filter = "changes" THEN ChangedRows(held.of[1], held.of[2])
                 ELSE MatchingRows(held.of[1], reader.filter)

(* The same, and the reader asks, compares or is done with rows that there may be. *)
WholeIsOneSnapshot == OneSnapshot /\ PagingTypeOK
==============================================================================
