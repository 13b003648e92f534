----------------------------- MODULE TuningPhase -----------------------------
(***************************************************************************)
(* sdhci_msm_find_appropriate_phase of Driver/SdhciMMCHSDxe/sdhci_msm.c:   *)
(* which of the phases that passed the tuning is used.  A table is the     *)
(* ascending sequence of these phases.                                     *)
(***************************************************************************)
EXTENDS Integers, Sequences, FiniteSets

CONSTANT MaxPhases                    \* MAX_PHASES, 16

ASSUME PhaseAssumption == MaxPhases \in Nat \ {0}

Phases == 0 .. MaxPhases - 1

(* The phases wrap around, and the table holds both ends of the range.     *)
NoLoop(table) == FALSE                \* faulty: the ends are not joined

FoundLoop(table) ==
  table[1] = 0 /\ table[Len(table)] = MaxPhases - 1 /\ Len(table) < MaxPhases

(* sub_phases: the runs of consecutive entries, each at its first index.   *)
RowStarts(table) ==
  {i \in DOMAIN table : i = 1 \/ table[i - 1] + 1 # table[i]}

RowEnd(table, i) ==
  CHOOSE j \in i .. Len(table) :
    /\ j = Len(table) \/ j + 1 \in RowStarts(table)
    /\ \A k \in i + 1 .. j : k \notin RowStarts(table)

SubPhases(table) ==
  LET Row(i) == SubSeq(table, i, RowEnd(table, i))
      last   == CHOOSE i \in RowStarts(table) : RowEnd(table, i) = Len(table)
  IN  [i \in RowStarts(table) |->
         IF ~FoundLoop(table) THEN Row(i)
         ELSE IF i = last THEN Row(i) \o Row(1)
         ELSE IF i = 1 THEN <<>> ELSE Row(i)]

(* The entry at three quarters of the first of the longest rows.           *)
ThreeQuarters(n) == IF n * 3 < 8 THEN 1 ELSE (n * 3) \div 4

SelectedPhase(table) ==
  LET rows == SubPhases(table)
      max  == CHOOSE i \in DOMAIN rows :
                \A j \in DOMAIN rows :
                  Len(rows[j]) < Len(rows[i]) \/ (Len(rows[j]) = Len(rows[i]) /\ i <= j)
  IN  rows[max][ThreeQuarters(Len(rows[max]))]

(***************************************************************************)
(* What is meant, on a circle of phases: a run of n phases from first on   *)
(* that cannot be extended, none longer, and the phase at its three        *)
(* quarters.                                                               *)
(***************************************************************************)
RunFrom(first, n) == {(first + k) % MaxPhases : k \in 0 .. n - 1}

Longest(passed) ==
  CHOOSE n \in 0 .. Cardinality(passed) :
    /\ \E first \in Phases : RunFrom(first, n) \subseteq passed
    /\ \A first \in Phases : n = Cardinality(passed) \/ ~(RunFrom(first, n + 1) \subseteq passed)

AtThreeQuarters(passed, phase) ==
  \E first \in Phases :
    /\ RunFrom(first, Longest(passed)) \subseteq passed
    /\ phase = (first + ThreeQuarters(Longest(passed)) - 1) % MaxPhases
==============================================================================
