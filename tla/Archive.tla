------------------------------- MODULE Archive -------------------------------
(***************************************************************************)
(* The two readers of tar archives: archiveEntries() of                    *)
(* scripts/verify-artifacts.mjs, for the packages built here, and          *)
(* readTarGz() of toolchain/archive.ts, for the pinned distributions.  One *)
(* archive is read block by block, by the one and then by the other.       *)
(***************************************************************************)
EXTENDS Naturals, Sequences, FiniteSetsExt

CONSTANTS
  Blocks,      \* the blocks an archive may be made of
  MaxBlocks,
  Below,       \* [path -> the paths below it]
  Unnamed      \* where a header gives no path

\* A block is a header with its data: extended metadata of the next member (x) or of all
\* that follow (g), a file (0), a link (2), a directory (5), the zeroes at the end (zero),
\* or one that is cut or has a wrong checksum (bad).
Types == {"x", "g", "0", "2", "5", "zero", "bad"}
\* What is assumed of the constants.
ASSUME ArchiveAssumption ==
  /\ MaxBlocks \in Nat
  /\ \A b \in Blocks : b.type \in Types /\ (b.type \notin {"zero", "bad"} => b.path \in DOMAIN Below \cup {Unnamed})
  /\ \A b \in Blocks : b.type = "2" => b.target \in DOMAIN Below

VARIABLES
  archive,     \* the blocks
  unpacking,   \* who reads: its next block, the metadata it holds, the members it has
  strict       \* what the strict reader made of the archive

archiveVars == <<archive, unpacking, strict>>

StartBy(by) == [by |-> by, next |-> 1, extended |-> Unnamed, headed |-> FALSE, global |-> Unnamed, members |-> {}]
Refused == [is |-> "refused"]
Pending == [is |-> "pending"]
------------------------------------------------------------------------------
ArchiveInit ==
  /\ archive \in UNION {[1 .. n -> Blocks] : n \in 0 .. MaxBlocks}
  /\ unpacking = StartBy("strict")
  /\ strict = Pending

Block == archive[unpacking.next]
At(by, types) == unpacking.by = by /\ unpacking.next \in DOMAIN archive /\ Block.type \in types
Over(by) == unpacking.by = by /\ unpacking.next \notin DOMAIN archive

Proceeds(next) == unpacking' = next /\ UNCHANGED <<archive, strict>>
StrictEnds(outcome) == strict' = outcome /\ unpacking' = StartBy("toolchain") /\ UNCHANGED archive
ToolchainEnds(outcome) == Proceeds([by |-> "done", outcome |-> outcome])

Named(path) == [unpacking EXCEPT !.next = @ + 1, !.extended = Unnamed, !.headed = FALSE,
                              !.members = @ \cup {[path |-> path, block |-> unpacking.next]}]
Taken(path) == \E m \in unpacking.members : m.path = path
FirstNamed(paths) ==
  LET named == {i \in DOMAIN paths : paths[i] # Unnamed} IN
  IF named = {} THEN Unnamed ELSE paths[Min(named)]

\* Mutant of StrictHeader: a second header is read over the first.
StrictHeaderMerges ==
  /\ At("strict", {"x"})
  /\ Proceeds([unpacking EXCEPT !.next = @ + 1, !.headed = TRUE,
                         !.extended = IF Block.path # Unnamed THEN Block.path ELSE @])

\* archiveEntries(): extended metadata, once before a member.
StrictHeader ==
  /\ At("strict", {"x"})
  /\ IF unpacking.headed THEN StrictEnds(Refused)
     ELSE Proceeds([unpacking EXCEPT !.next = @ + 1, !.headed = TRUE, !.extended = Block.path])

\* A file, named by the metadata or by itself, once.
StrictMember ==
  /\ At("strict", {"0"})
  /\ LET path == FirstNamed(<<unpacking.extended, Block.path>>) IN
     IF path = Unnamed \/ Taken(path) THEN StrictEnds(Refused) ELSE Proceeds(Named(path))

\* Anything else is forbidden.
StrictRefuses == At("strict", {"g", "2", "5", "bad"}) /\ StrictEnds(Refused)

\* The archive ends with zeroes, with nothing after them, no metadata left over and not
\* without a file.
StrictEnd ==
  /\ Over("strict") \/ At("strict", {"zero"})
  /\ LET ended == unpacking.next \in DOMAIN archive
                  /\ \A i \in DOMAIN archive : i > unpacking.next => archive[i].type = "zero" IN
     IF ended /\ ~unpacking.headed /\ unpacking.members # {}
     THEN StrictEnds([is |-> "accepted", members |-> unpacking.members])
     ELSE StrictEnds(Refused)
------------------------------------------------------------------------------
\* readTarGz(): metadata of the next member replaces what was held for it ...
ExtendedHeader == At("toolchain", {"x"}) /\ Proceeds([unpacking EXCEPT !.next = @ + 1, !.extended = Block.path])

\* ... that of all members adds to it.
GlobalHeader ==
  /\ At("toolchain", {"g"})
  /\ Proceeds([unpacking EXCEPT !.next = @ + 1, !.global = IF Block.path # Unnamed THEN Block.path ELSE @])

MemberPath == FirstNamed(<<unpacking.extended, unpacking.global, Block.path>>)

Member ==
  /\ At("toolchain", {"0", "2", "5"})
  /\ IF MemberPath = Unnamed \/ Taken(MemberPath) THEN ToolchainEnds(Refused) ELSE Proceeds(Named(MemberPath))

Damage == At("toolchain", {"bad"}) /\ ToolchainEnds(Refused)

OfType(type) == {m \in unpacking.members : archive[m.block].type = type}

\* Zeroes, or no more blocks.  A link leads to a member, and no file is below one.
End ==
  /\ Over("toolchain") \/ At("toolchain", {"zero"})
  /\ LET resolves(m) == Taken(archive[m.block].target) /\ \A f \in OfType("0") : f.path \notin Below[m.path] IN
     IF OfType("0") # {} /\ \A m \in OfType("2") : resolves(m)
     THEN ToolchainEnds([is |-> "accepted", members |-> unpacking.members])
     ELSE ToolchainEnds(Refused)

ArchiveNext ==
  \/ StrictHeader \/ StrictMember \/ StrictRefuses \/ StrictEnd
  \/ ExtendedHeader \/ GlobalHeader \/ Member \/ Damage \/ End

ArchiveSpec == ArchiveInit /\ [][ArchiveNext]_archiveVars
------------------------------------------------------------------------------
ArchiveTypeOK ==
  /\ Len(archive) <= MaxBlocks
  /\ unpacking.by \in {"strict", "toolchain", "done"}
  /\ strict.is \in {"pending", "accepted", "refused"}

\* What the format says: an archive ends at its first zeroes; a member is named by the
\* nearest header of its own, else by the nearest one for all, else by itself.
Members ==
  {i \in DOMAIN archive : archive[i].type \in {"0", "2", "5"}
                          /\ \A j \in 1 .. i : archive[j].type # "zero"}
Nearest(headers) == IF headers = {} THEN Unnamed ELSE archive[Max(headers)].path
PathOf(i) ==
  LET own == {j \in 1 .. i - 1 : archive[j].type = "x" /\ \A k \in j .. i - 1 : k \notin Members}
      all == {j \in 1 .. i - 1 : archive[j].type = "g" /\ archive[j].path # Unnamed}
  IN FirstNamed(<<Nearest(own), Nearest(all), archive[i].path>>)
Written == {[path |-> PathOf(i), block |-> i] : i \in Members}

(* What either reader accepts is what the format says the archive holds, each path once
   and none of them without one. *)
ReadAsWritten ==
  \A outcome \in {strict} \cup (IF unpacking.by = "done" THEN {unpacking.outcome} ELSE {}) :
    outcome.is = "accepted" =>
      /\ outcome.members = Written
      /\ \A m \in Written : m.path # Unnamed
      /\ \A m, o \in Written : m.path = o.path => m = o

(* A package that the strict reader accepts is the same package to the other. *)
ReadersAgree == unpacking.by = "done" /\ strict.is = "accepted" => unpacking.outcome = strict

(* What is accepted of an archive is what the format says it holds, for both readers. *)
ArchivesAsWritten == ReadAsWritten /\ ReadersAgree /\ ArchiveTypeOK
==============================================================================
