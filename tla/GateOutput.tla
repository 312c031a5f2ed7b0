------------------------------ MODULE GateOutput ------------------------------
(***************************************************************************)
(* From the output of the gates to the command that is published: every    *)
(* gate writes through a cappedWriter of its own into one shared buffer,   *)
(* extractMarkers runs over that buffer once all gates have ended, and the *)
(* task is named after the repository and the markers found.               *)
(*                                                                         *)
(* Text is a sequence of symbols: Tag is the fixed start of a marker       *)
(* ("GO-2024-", "CVE-2024-"), Digit a digit, and Other the rest.  A marker *)
(* is named by its number of digits, which is all that distinguishes two   *)
(* markers here.  os/exec hands the text to the writer in arbitrary pieces.*)
(* Names and seeds are sequences too, in which dashes and commas count.    *)
(***************************************************************************)
EXTENDS Integers, SequencesExt

CONSTANTS
  GateCount,   \* the number of gates
  Cap,         \* maxGateOutputBytes, in symbols
  MaxPrinted,  \* bound: symbols a gate prints
  MaxPiece,    \* bound: symbols of one Write
  Names        \* names of the owner's repositories

ASSUME GateCountAssumption == GateCount \in Nat \ {0}
ASSUME CapAssumption       == Cap \in Nat
\* repoNameCharset; its other symbols count as letters.
ASSUME NamesAssumption     == Names \subseteq Seq({"Letter", "Digit", "Dash"})

Symbols == {"Tag", "Digit", "Other"}
Gates   == 1..GateCount
Pieces  == BoundedSeq(Symbols, MaxPiece) \ {<<>>}

VARIABLES
  gate,       \* the gate that runs; 0 before the first
  buf,        \* combined
  remaining,  \* of the running gate's cappedWriter
  vulnIDs,    \* the markers Scan has extracted
  classified, \* it has done so
  repo,       \* the repository's name
  command,    \* the commands published for the scan: none or one
  printed     \* history: what each gate has printed

vars == <<gate, buf, remaining, vulnIDs, classified, repo, command, printed>>

Smaller(m, n) == IF m < n THEN m ELSE n

\* The matches of the patterns: a tag and the longest run of digits after it, at
\* least one.
Matches(text) ==
  {n \in 1..Len(text) :
     \E i \in 1..(Len(text) - n) :
       /\ text[i] = "Tag"
       /\ \A j \in (i + 1)..(i + n) : text[j] = "Digit"
       /\ i + n < Len(text) => text[i + n + 1] # "Digit"}

\* The members of a finite set of numbers, each once, in increasing order.
Sorted(ids) ==
  CHOOSE s \in [1..Cardinality(ids) -> ids] :
    /\ ToSet(s) = ids
    /\ \A i, j \in DOMAIN s : i < j => s[i] < s[j]

extractMarkers(text) == Sorted(Matches(text))

-----------------------------------------------------------------------------
(* The command.                                                            *)

\* Mutant: only sorted, by a caller that may repeat itself.
canonicalVulnIDs_Sorted(ids) == SortSeq(ids, LAMBDA m, n : m < n)

canonicalVulnIDs(ids) == Sorted(ToSet(ids))

\* A marker as it is spelled: letters, year, digits.
Spelled(n) == <<"Letter", "Dash", "Digit", "Dash">> \o [i \in 1..n |-> "Digit"]

\* What the identifier is a hash of, behind a fixed prefix and the owner.
Seed(name, ids) ==
  LET canonical == canonicalVulnIDs(ids)
  IN  name \o <<"Dash">> \o FlattenSeq([i \in 1..Len(canonical) |->
        IF i = 1 THEN Spelled(canonical[i]) ELSE <<"Comma">> \o Spelled(canonical[i])])

BuildCreateCommand(name, ids) ==
  [TaskIdentifier |-> Seed(name, ids), vuln_count |-> Len(ids), vulns |-> ids]

-----------------------------------------------------------------------------
Init ==
  /\ gate = 0
  /\ buf = <<>>
  /\ remaining = 0
  /\ vulnIDs = <<>>
  /\ classified = FALSE
  /\ repo \in Names
  /\ command = <<>>
  /\ printed = [g \in Gates |-> <<>>]

\* Mutant: the gates share one allowance.
StartGate_SharedCap ==
  /\ ~classified
  /\ gate < GateCount
  /\ gate' = gate + 1
  /\ remaining' = IF gate = 0 THEN Cap ELSE remaining
  /\ UNCHANGED <<buf, vulnIDs, classified, repo, command, printed>>

StartGate ==
  /\ ~classified
  /\ gate < GateCount
  /\ gate' = gate + 1
  /\ remaining' = Cap
  /\ UNCHANGED <<buf, vulnIDs, classified, repo, command, printed>>

Prints(piece) ==
  /\ gate > 0
  /\ ~classified
  /\ Len(printed[gate]) + Len(piece) <= MaxPrinted
  /\ printed' = [printed EXCEPT ![gate] = @ \o piece]

\* Mutant: a piece that does not fit is dropped as a whole.
Write_DropsPiece(piece) ==
  /\ Prints(piece)
  /\ IF Len(piece) <= remaining
       THEN buf' = buf \o piece /\ remaining' = remaining - Len(piece)
       ELSE UNCHANGED <<buf, remaining>>
  /\ UNCHANGED <<gate, vulnIDs, classified, repo, command>>

\* Mutant: the whole piece is charged.
Write_Overcharges(piece) ==
  /\ Prints(piece)
  /\ buf' = buf \o SubSeq(piece, 1, Smaller(Len(piece), remaining))
  /\ remaining' = remaining - Len(piece)
  /\ UNCHANGED <<gate, vulnIDs, classified, repo, command>>

\* cappedWriter.Write: what exceeds the allowance is dropped, and reported written.
Write(piece) ==
  /\ Prints(piece)
  /\ LET n == Smaller(Len(piece), remaining)
     IN  /\ buf' = buf \o SubSeq(piece, 1, n)
         /\ remaining' = remaining - n
  /\ UNCHANGED <<gate, vulnIDs, classified, repo, command>>

Classify ==
  /\ gate = GateCount
  /\ ~classified
  /\ vulnIDs' = extractMarkers(buf)
  /\ classified' = TRUE
  /\ UNCHANGED <<gate, buf, remaining, repo, command, printed>>

\* Without markers there is no candidate to publish.
Publish ==
  /\ vulnIDs # <<>>
  /\ command = <<>>
  /\ command' = <<BuildCreateCommand(repo, vulnIDs)>>
  /\ UNCHANGED <<gate, buf, remaining, vulnIDs, classified, repo, printed>>

Next == StartGate \/ Classify \/ Publish \/ \E piece \in Pieces : Write(piece)

Spec == Init /\ [][Next]_vars
-----------------------------------------------------------------------------
(* Properties.                                                             *)

TypeOK ==
  /\ gate \in 0..GateCount
  /\ buf \in Seq(Symbols)
  /\ remaining \in 0..Cap
  /\ vulnIDs \in Seq(Nat)
  /\ classified \in BOOLEAN
  /\ repo \in Names
  /\ printed \in [Gates -> Seq(Symbols)]

Leading(text) == SubSeq(text, 1, Smaller(Len(text), Cap))

\* However os/exec cuts a gate's output into pieces, the buffer holds exactly its
\* leading Cap symbols, behind those of the gates before it.
BufferIsLeading ==
  buf = FlattenSeq([g \in Gates |-> Leading(printed[g])])

AllPrinted == UNION {Matches(printed[g]) : g \in Gates}

Terminated(text) == text = <<>> \/ Last(text) = "Other"

\* When no gate exceeds its allowance and each ends its output with a line end,
\* the finding set is exactly the markers the gates printed, and the command
\* names and counts each of them once.
FindingsAreExact ==
  classified /\ (\A g \in Gates : Len(printed[g]) <= Cap /\ Terminated(printed[g])) =>
    /\ ToSet(vulnIDs) = AllPrinted
    /\ \A c \in ToSet(command) :
         ToSet(c.vulns) = AllPrinted /\ c.vuln_count = Cardinality(AllPrinted)

\* A task's identifier is that of its repository and set of findings, in whatever
\* order and how often the findings are named, and of no others: not even of a
\* repository whose name reads like a part of a seed.
OneTaskPerFindingSet ==
  \A c \in ToSet(command), name \in Names, ids \in BoundedSeq(1..(2 * Cap), 2) \ {<<>>} :
    Seed(name, ids) = c.TaskIdentifier <=> name = repo /\ ToSet(ids) = ToSet(vulnIDs)

\* ScanResult's comment: the marker list is the one found in the gate output.
OnlyPrintedMarkers == classified => ToSet(vulnIDs) \subseteq AllPrinted
=============================================================================
