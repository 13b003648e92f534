-------------------------- MODULE MmcCardInit_proofs --------------------------
(***************************************************************************)
(* The safety properties of MmcCardInit for every set of systems, number   *)
(* of phases and number of driver types.                                   *)
(***************************************************************************)
EXTENDS MmcCardInit, FiniteSetTheorems, SequenceTheorems, WellFoundedInduction, TLAPS

-----------------------------------------------------------------------------
(* The width and the mode of both ends at every point of the way.          *)
Narrow == host.width = 1 /\ card.width = 1
Slow == host.uhs = "none" /\ card.timing = "default" /\ ~card.ddr
High == host.uhs = "SDR25" /\ card.timing = "hs" /\ ~card.ddr
Refused == host.uhs = "SDR25" /\ card.timing = "default" /\ ~card.ddr

BusOK ==
  /\ pc \in {"reset", "sd", "identify_mmc", "identify_sd", "hs_mmc", "hs_sd"} => Narrow /\ Slow
  /\ pc \in {"identify_sd", "hs_sd", "scr", "ssr", "sd_width"} => sys.kind = "sd"
  /\ pc \in {"scr", "ssr", "sd_width"} => Narrow /\ (High \/ Refused)
  /\ pc \in {"ext_csd", "mode"} => Narrow /\ High
  /\ pc \in {"hs200_width", "hs_again", "ddr", "hs_width"} =>
       host.width = BusWidth /\ High
  /\ pc = "hs200" => host.width = BusWidth /\ card.width = BusWidth /\ High
  /\ pc \in Tuning => Agreed /\ host.uhs = "SDR104"
  /\ pc \in {"rst_n", "ready"} => Agreed \/ SlowSdCard \/ (NarrowDdr /\ BusWidth # 8)
  /\ pc \notin Tuning \cup {"failed"} => ~host.tuning

(* The types are tried up to the last; only the loop's end goes beyond it. *)
DriverOK ==
  \/ tune.drv <= MaxDriverType
  \/ pc \in {"restore", "select", "out", "rst_n", "ready", "failed"}

IInv == TypeOK /\ BusOK /\ DriverOK

(* The hits are noted in the order of the phases, in every round anew.     *)
Ascending(table) == \A i, j \in DOMAIN table : i < j => table[i] < table[j]

HitsInOrder ==
  /\ DOMAIN tune = {"phase", "hits", "buf", "drv", "changed", "cdr", "saved", "ret"}
  /\ tune.phase \in Nat /\ tune.hits \in Seq(Phases)
  /\ Ascending(tune.hits) /\ \A i \in DOMAIN tune.hits : tune.hits[i] < tune.phase
-----------------------------------------------------------------------------
(* What sdhci_msm_find_appropriate_phase returns.                          *)
Hits(table) == {table[i] : i \in DOMAIN table}

(* A set of natural numbers that is not empty has a least element.         *)
LEMMA Least ==
  ASSUME NEW S \in SUBSET Nat, S # {}
  PROVE  \E m \in S : \A n \in S : m <= n
<1>1. \E m \in S : \A n \in S : ~(<<n, m>> \in OpToRel(<, Nat))
  BY NatLessThanWellFounded, WFMin, Zenon
<1>2. PICK m \in S : \A n \in S : ~(<<n, m>> \in OpToRel(<, Nat))
  BY <1>1
<1>3. ASSUME NEW n \in S PROVE m <= n
  <2>1. ~(<<n, m>> \in OpToRel(<, Nat)) /\ n \in Nat /\ m \in Nat
    BY <1>2, <1>3
  <2>2. n < m => <<n, m>> \in OpToRel(<, Nat)
    BY <2>1 DEF OpToRel
  <2>3. ~(n < m)
    BY <2>1, <2>2, Zenon
  <2>4. n \in Nat /\ m \in Nat
    BY <2>1
  <2>5. QED
    BY <2>3, <2>4
<1>4. QED
  BY <1>3

(* Of bounded numbers there is a greatest one.                             *)
LEMMA Greatest ==
  ASSUME NEW b \in Nat, NEW S \in SUBSET (0 .. b), S # {}
  PROVE  \E m \in S : \A n \in S : n <= m
<1> DEFINE T == {b - n : n \in S}
<1>1. T \in SUBSET Nat /\ T # {}
  <2>1. PICK n \in S : TRUE
    OBVIOUS
  <2>2. b - n \in T
    BY <2>1
  <2>3. T \in SUBSET Nat
    OBVIOUS
  <2>4. QED
    BY <2>2, <2>3
<1>2. PICK t \in T : \A u \in T : t <= u
  BY <1>1, Least
<1>3. b - t \in S /\ t \in Nat
  BY <1>1
<1>4. ASSUME NEW n \in S PROVE n <= b - t
  <2>1. t <= b - n /\ n \in 0 .. b
    BY <1>2
  <2>2. QED
    BY <1>3, <2>1
<1>5. QED
  BY <1>3, <1>4

(* The end of a run is an entry of the table, at its start or behind it,   *)
(* with another run or nothing to follow.                                  *)
LEMMA RowEnds ==
  ASSUME NEW table \in Seq(Phases), NEW i \in DOMAIN table
  PROVE  /\ RowEnd(table, i) \in i .. Len(table)
         /\ RowEnd(table, i) = Len(table) \/ RowEnd(table, i) + 1 \in RowStarts(table)
         /\ \A k \in i + 1 .. RowEnd(table, i) : k \notin RowStarts(table)
<1> DEFINE Ends == {j \in i .. Len(table) : j = Len(table) \/ j + 1 \in RowStarts(table)}
<1>1. Ends \in SUBSET Nat /\ Len(table) \in Ends
  OBVIOUS
<1>2. PICK j \in Ends : \A k \in Ends : j <= k
  BY <1>1, Least
<1>3. \A k \in i + 1 .. j : k \notin RowStarts(table)
  <2>1. SUFFICES ASSUME NEW k \in i + 1 .. j, k \in RowStarts(table) PROVE FALSE
    OBVIOUS
  <2>2. k - 1 \in i .. Len(table) /\ (k - 1) + 1 \in RowStarts(table) /\ ~(j <= k - 1)
    BY <2>1
  <2>3. QED
    BY <2>2, <1>2
<1>4. QED
  BY <1>2, <1>3, Zenon DEF RowEnd

(* Every row holds nothing but entries of the table, some row holds one,   *)
(* and none is longer than the table taken twice.                          *)
LEMMA RowsOfTable ==
  ASSUME NEW table \in Seq(Phases), table # <<>>
  PROVE  LET rows == SubPhases(table)
         IN  /\ DOMAIN rows \subseteq DOMAIN table
             /\ \A i \in DOMAIN rows : /\ rows[i] \in Seq(Hits(table))
                                       /\ Len(rows[i]) <= 2 * Len(table)
             /\ \E i \in DOMAIN rows : rows[i] # <<>>
<1> DEFINE Starts == RowStarts(table)
           Entries == Hits(table)
           Row(i) == SubSeq(table, i, RowEnd(table, i))
           last == CHOOSE i \in Starts : RowEnd(table, i) = Len(table)
           rows == SubPhases(table)
<1>1. Starts \subseteq DOMAIN table /\ 1 \in Starts
  BY DEF RowStarts
<1>2. ASSUME NEW i \in Starts
      PROVE  Row(i) \in Seq(Entries) /\ Row(i) # <<>> /\ Len(Row(i)) <= Len(table)
  <2>1. i \in DOMAIN table /\ RowEnd(table, i) \in i .. Len(table)
    BY <1>1, RowEnds
  <2>2. \A k \in 1 .. Len(table) : table[k] \in Entries
    BY DEF Hits
  <2>3. /\ Row(i) \in Seq(Entries)
        /\ Len(Row(i)) = RowEnd(table, i) - i + 1
    BY <2>1, <2>2
  <2>4. Len(Row(i)) # 0 /\ Len(Row(i)) <= Len(table)
    BY <2>1, <2>3
  <2> HIDE DEF Row
  <2>5. QED
    BY <2>3, <2>4
<1>3. rows = [i \in Starts |->
                IF ~FoundLoop(table) THEN Row(i)
                ELSE IF i = last THEN Row(i) \o Row(1)
                ELSE IF i = 1 THEN <<>> ELSE Row(i)]
  BY DEF SubPhases
<1> HIDE DEF rows, Row, Entries, Starts, last
<1>4. ASSUME NEW i \in DOMAIN rows
      PROVE  rows[i] \in Seq(Entries) /\ Len(rows[i]) <= 2 * Len(table)
  <2>1. /\ Row(i) \in Seq(Entries) /\ Len(Row(i)) <= Len(table)
        /\ Row(1) \in Seq(Entries) /\ Len(Row(1)) <= Len(table)
    BY <1>1, <1>2, <1>3
  <2>2. /\ Row(i) \o Row(1) \in Seq(Entries)
        /\ Len(Row(i) \o Row(1)) = Len(Row(i)) + Len(Row(1))
    BY <2>1
  <2>3. rows[i] \in {Row(i), Row(i) \o Row(1), <<>>}
    BY <1>3, Zenon
  <2>4. <<>> \in Seq(Entries) /\ Len(<<>>) = 0
    OBVIOUS
  <2>5. Len(table) \in Nat /\ Len(Row(i)) \in Nat /\ Len(Row(1)) \in Nat
    BY <2>1
  <2>6. /\ Len(Row(i)) <= 2 * Len(table) /\ 0 <= 2 * Len(table)
        /\ Len(Row(i)) + Len(Row(1)) <= 2 * Len(table)
    BY <2>1, <2>5
  <2>7. CASE rows[i] = Row(i)
    BY <2>1, <2>6, <2>7, Zenon
  <2>8. CASE rows[i] = Row(i) \o Row(1)
    BY <2>2, <2>6, <2>8, Zenon
  <2>9. CASE rows[i] = <<>>
    BY <2>4, <2>6, <2>9, Zenon
  <2>10. QED
    BY <2>3, <2>7, <2>8, <2>9, Zenon
<1>5. last \in Starts
  <2>1. PICK i \in Starts : \A k \in Starts : k <= i
    <3>1. Starts \in SUBSET (0 .. Len(table)) /\ Len(table) \in Nat /\ Starts # {}
      BY <1>1
    <3>2. QED
      BY <3>1, Greatest
  <2>2. RowEnd(table, i) \in i .. Len(table) /\ i \in Nat
    BY <1>1, RowEnds
  <2>3. RowEnd(table, i) = Len(table) \/ RowEnd(table, i) + 1 \in Starts
    BY <1>1, RowEnds DEF Starts
  <2>4. RowEnd(table, i) = Len(table)
    BY <2>1, <2>2, <2>3
  <2>5. QED
    BY <2>4, Zenon DEF last
<1>6. \E i \in DOMAIN rows : rows[i] # <<>>
  <2>1. CASE ~FoundLoop(table)
    BY <1>1, <1>2, <1>3, <2>1
  <2>2. CASE FoundLoop(table) /\ last \in Starts
    <3>1. rows[last] = Row(last) \o Row(1)
      BY <1>3, <2>2
    <3>2. Row(last) \in Seq(Entries) /\ Row(1) \in Seq(Entries) /\ Row(1) # <<>>
      BY <1>1, <1>2, <2>2
    <3>3. Row(last) \o Row(1) # <<>>
      BY <3>2
    <3>4. QED
      BY <1>3, <2>2, <3>1, <3>3
  <2>3. QED
    BY <1>5, <2>1, <2>2
<1>7. QED
  BY <1>1, <1>3, <1>4, <1>6 DEF rows, Entries, Starts

(* The phase chosen is at three quarters of a row with none longer.        *)
LEMMA SelectedRow ==
  ASSUME NEW table \in Seq(Phases), table # <<>>
  PROVE  LET rows == SubPhases(table)
         IN  \E i \in DOMAIN rows :
               /\ rows[i] \in Seq(Hits(table)) /\ Len(rows[i]) \in Nat \ {0}
               /\ \A j \in DOMAIN rows : Len(rows[j]) <= Len(rows[i])
               /\ ThreeQuarters(Len(rows[i])) \in 1 .. Len(rows[i])
               /\ SelectedPhase(table) = rows[i][ThreeQuarters(Len(rows[i]))]
<1> DEFINE rows == SubPhases(table)
           Best(i) == \A j \in DOMAIN rows :
                        Len(rows[j]) < Len(rows[i]) \/ (Len(rows[j]) = Len(rows[i]) /\ i <= j)
           max == CHOOSE i \in DOMAIN rows : Best(i)
           n == Len(rows[max])
<1>1. /\ DOMAIN rows \subseteq DOMAIN table
      /\ \A i \in DOMAIN rows : /\ rows[i] \in Seq(Hits(table))
                                /\ Len(rows[i]) <= 2 * Len(table)
      /\ \E i \in DOMAIN rows : rows[i] # <<>>
  BY RowsOfTable
<1>2. SelectedPhase(table) = rows[max][ThreeQuarters(n)]
  BY DEF SelectedPhase
<1> HIDE DEF rows
<1>3. DOMAIN rows \in SUBSET Nat /\ \A i \in DOMAIN rows : Len(rows[i]) \in Nat
  BY <1>1
<1>4. \E i \in DOMAIN rows : Best(i)
  <2> DEFINE Lens == {Len(rows[i]) : i \in DOMAIN rows}
  <2>1. PICK b \in Nat : \A i \in DOMAIN rows : Len(rows[i]) <= b
    <3>1. 2 * Len(table) \in Nat
      OBVIOUS
    <3>2. QED
      BY <1>1, <3>1
  <2>2. Lens \in SUBSET (0 .. b) /\ Lens # {}
    <3>1. PICK i \in DOMAIN rows : TRUE
      BY <1>1
    <3>2. Len(rows[i]) \in Lens
      BY <3>1
    <3>3. Lens \in SUBSET (0 .. b)
      BY <1>3, <2>1
    <3>4. QED
      BY <3>2, <3>3
  <2>3. PICK m \in Lens : \A k \in Lens : k <= m
    BY <2>2, Greatest
  <2> DEFINE Longs == {i \in DOMAIN rows : Len(rows[i]) = m}
  <2>4. Longs \in SUBSET Nat /\ Longs # {}
    BY <1>3, <2>3
  <2>5. PICK i \in Longs : \A j \in Longs : i <= j
    BY <2>4, Least
  <2>6. Best(i)
    <3>1. SUFFICES ASSUME NEW j \in DOMAIN rows
                   PROVE  Len(rows[j]) < m \/ (Len(rows[j]) = m /\ i <= j)
      BY <2>5
    <3>2. Len(rows[j]) <= m /\ Len(rows[j]) \in Nat /\ m \in Nat
      BY <1>3, <2>3
    <3>3. Len(rows[j]) = m => i <= j
      BY <2>5
    <3>4. QED
      BY <3>2, <3>3
  <2>7. QED
    BY <2>5, <2>6
<1>5. max \in DOMAIN rows /\ Best(max)
  <2> HIDE DEF Best
  <2>1. QED
    BY <1>4, Zenon
<1> HIDE DEF max
<1>6. n \in Nat \ {0} /\ rows[max] \in Seq(Hits(table))
  <2>1. PICK i \in DOMAIN rows : rows[i] # <<>>
    BY <1>1
  <2>2. Len(rows[i]) > 0 /\ rows[max] \in Seq(Hits(table))
    BY <1>1, <1>5, <2>1
  <2>3. n \in Nat /\ (Len(rows[i]) < n \/ Len(rows[i]) = n)
    BY <1>3, <1>5
  <2>4. QED
    BY <1>3, <2>2, <2>3
<1>7. ThreeQuarters(n) \in 1 .. n
  <2> HIDE DEF n
  <2>1. QED
    BY <1>6 DEF ThreeQuarters
<1>8. \A j \in DOMAIN rows : Len(rows[j]) <= n
  <2>1. \A k, m \in Nat : k < m \/ k = m => k <= m
    OBVIOUS
  <2>2. QED
    BY <1>3, <1>5, <2>1
<1>9. QED
  BY <1>2, <1>5, <1>6, <1>7, <1>8 DEF rows

(* It is one of the table, whatever phases passed.                         *)
LEMMA SelectedIsHit ==
  ASSUME NEW table \in Seq(Phases), table # <<>>
  PROVE  SelectedPhase(table) \in Hits(table)
<1> DEFINE rows == SubPhases(table)
<1>1. PICK i \in DOMAIN rows :
        /\ rows[i] \in Seq(Hits(table))
        /\ ThreeQuarters(Len(rows[i])) \in 1 .. Len(rows[i])
        /\ SelectedPhase(table) = rows[i][ThreeQuarters(Len(rows[i]))]
  BY SelectedRow
<1>2. QED
  BY <1>1



-----------------------------------------------------------------------------
RowLen(table, i) == RowEnd(table, i) - i + 1

LEMMA TableEntries ==
  ASSUME NEW table \in Seq(Phases)
  PROVE  /\ DOMAIN table = 1 .. Len(table) /\ Len(table) \in Nat
         /\ \A k \in 1 .. Len(table) : table[k] \in Phases /\ table[k] \in Nat
<1>1. \A k \in 1 .. Len(table) : table[k] \in Phases
  BY ElementOfSeq
<1>2. Phases \subseteq Nat
  BY DEF Phases
<1>3. DOMAIN table = 1 .. Len(table) /\ Len(table) \in Nat
  OBVIOUS
<1>4. QED
  BY <1>1, <1>2, <1>3, Zenon

(* Where no run starts, each entry is the successor of the one before.     *)
LEMMA Climb ==
  ASSUME NEW table \in Seq(Phases), NEW i \in DOMAIN table, NEW j \in i .. Len(table),
         \A k \in i + 1 .. j : k \notin RowStarts(table)
  PROVE  \A k \in i .. j : table[k] = table[i] + (k - i)
<1> DEFINE Bad == {k \in i .. j : table[k] # table[i] + (k - i)}
<1>1. DOMAIN table = 1 .. Len(table) /\ \A k \in 1 .. Len(table) : table[k] \in Nat
  BY TableEntries
<1>2. i \in Nat /\ i .. j \subseteq DOMAIN table
  BY <1>1
<1>3. Bad \in SUBSET Nat
  BY <1>2
<1>4. SUFFICES ASSUME Bad # {} PROVE FALSE
  OBVIOUS
<1>5. PICK m \in Bad : \A n \in Bad : m <= n
  BY <1>3, <1>4, Least
<1>6. m # i /\ m \in i .. j
  <2>1. table[i] = table[i] + (i - i)
    BY <1>1, <1>2
  <2>2. QED
    BY <2>1
<1>7. m - 1 \in i .. j /\ m - 1 \notin Bad /\ m \in i + 1 .. j /\ m # 1
  BY <1>2, <1>5, <1>6
<1>8. table[m - 1] = table[i] + ((m - 1) - i)
  BY <1>7
<1>9. m \in DOMAIN table /\ m \notin RowStarts(table)
  BY <1>2, <1>6, <1>7
<1>10. table[m - 1] + 1 = table[m]
  BY <1>7, <1>9 DEF RowStarts
<1>11. table[i] \in Nat /\ table[m] \in Nat
  BY <1>1, <1>2, <1>6
<1>12. table[m] = table[i] + (m - i)
  BY <1>2, <1>6, <1>8, <1>10, <1>11
<1>13. QED
  BY <1>5, <1>12

(* Phases in a row that all passed are entries in a row.                   *)
LEMMA Follow ==
  ASSUME NEW table \in Seq(Phases), Ascending(table), NEW a \in DOMAIN table, NEW d \in Nat,
         \A k \in 0 .. d : table[a] + k \in Hits(table)
  PROVE  \A k \in 0 .. d : a + k \in DOMAIN table /\ table[a + k] = table[a] + k
<1> DEFINE OK(k) == a + k \in DOMAIN table /\ table[a + k] = table[a] + k
           Bad == {k \in 0 .. d : ~OK(k)}
<1>1. DOMAIN table = 1 .. Len(table) /\ \A k \in 1 .. Len(table) : table[k] \in Nat
  BY TableEntries
<1>2. a \in Nat /\ table[a] \in Nat /\ Len(table) \in Nat
  BY <1>1
<1>3. SUFFICES ASSUME Bad # {} PROVE FALSE
  OBVIOUS
<1>4. PICK m \in Bad : \A n \in Bad : m <= n
  <2>1. Bad \in SUBSET Nat
    OBVIOUS
  <2>2. QED
    BY <2>1, <1>3, Least
<1>5. m # 0
  BY <1>2, <1>4
<1>6. m \in Nat \ {0} /\ m - 1 \in 0 .. d /\ m - 1 \notin Bad
  BY <1>4, <1>5
<1>7. a + (m - 1) \in DOMAIN table /\ table[a + (m - 1)] = table[a] + (m - 1)
  BY <1>6
<1>8. PICK b \in DOMAIN table : table[b] = table[a] + m
  BY <1>4 DEF Hits
<1>9. a + (m - 1) < b
  <2>1. SUFFICES ASSUME ~(a + (m - 1) < b) PROVE FALSE
    OBVIOUS
  <2>2. b < a + (m - 1) \/ b = a + (m - 1)
    BY <2>1, <1>1, <1>2, <1>6, <1>8
  <2>3. table[b] <= table[a] + (m - 1)
    BY <2>2, <1>1, <1>2, <1>6, <1>7, <1>8 DEF Ascending
  <2>4. QED
    BY <2>3, <1>2, <1>6, <1>8
<1>10. a + m \in DOMAIN table /\ a + m <= b /\ a + (m - 1) < a + m
  BY <1>1, <1>2, <1>6, <1>8, <1>9
<1>11. table[a + (m - 1)] < table[a + m] /\ table[a + m] \in Nat
  BY <1>1, <1>7, <1>10 DEF Ascending
<1>12. table[a + m] <= table[b]
  <2>1. CASE a + m = b
    BY <2>1, <1>11
  <2>2. CASE a + m < b
    <3>1. table[a + m] < table[b] /\ table[b] \in Nat
      BY <2>2, <1>1, <1>8, <1>10 DEF Ascending
    <3>2. QED
      BY <3>1, <1>11
  <2>3. QED
    BY <2>1, <2>2, <1>1, <1>2, <1>6, <1>8, <1>10
<1>13. table[a + m] = table[a] + m
  <2>1. \A x, y, z, w \in Nat : x + (m - 1) = w /\ w < y /\ y <= z /\ z = x + m => y = x + m
    BY <1>6
  <2>2. table[a + (m - 1)] \in Nat /\ table[b] \in Nat
    BY <1>1, <1>7, <1>8
  <2>3. QED
    BY <2>1, <2>2, <1>2, <1>7, <1>8, <1>11, <1>12, Zenon
<1>14. QED
  BY <1>4, <1>10, <1>13

(* The rows lie one behind the other, and the last ends the table.         *)
LEMMA RowsApart ==
  ASSUME NEW table \in Seq(Phases), NEW i \in RowStarts(table), NEW s \in RowStarts(table), i < s
  PROVE  RowEnd(table, i) < s
<1>1. i \in DOMAIN table /\ s \in DOMAIN table
  BY DEF RowStarts
<1>2. /\ RowEnd(table, i) \in i .. Len(table)
      /\ \A k \in i + 1 .. RowEnd(table, i) : k \notin RowStarts(table)
  BY <1>1, RowEnds
<1>3. QED
  BY <1>1, <1>2

LEMMA RowBefore ==
  ASSUME NEW table \in Seq(Phases), NEW a \in DOMAIN table
  PROVE  \E s \in RowStarts(table) :
           s <= a /\ \A t \in RowStarts(table) : t <= a => t <= s
<1> DEFINE S == {t \in RowStarts(table) : t <= a}
<1>1. 1 \in S /\ S \in SUBSET (0 .. Len(table)) /\ Len(table) \in Nat
  BY DEF RowStarts
<1>2. PICK s \in S : \A t \in S : t <= s
  BY <1>1, Greatest
<1>3. QED
  BY <1>2

LastRow(table) == CHOOSE i \in RowStarts(table) : RowEnd(table, i) = Len(table)

LEMMA LastEnds ==
  ASSUME NEW table \in Seq(Phases), table # <<>>
  PROVE  LastRow(table) \in RowStarts(table) /\ RowEnd(table, LastRow(table)) = Len(table)
<1>1. Len(table) \in DOMAIN table /\ Len(table) \in Nat
  OBVIOUS
<1>2. PICK s \in RowStarts(table) :
        s <= Len(table) /\ \A t \in RowStarts(table) : t <= Len(table) => t <= s
  BY <1>1, RowBefore
<1>3. s \in DOMAIN table /\ RowStarts(table) \subseteq DOMAIN table
  BY DEF RowStarts
<1>4. RowEnd(table, s) \in s .. Len(table)
  BY <1>3, RowEnds
<1>5. RowEnd(table, s) = Len(table) \/ RowEnd(table, s) + 1 \in RowStarts(table)
  BY <1>3, RowEnds
<1>6. RowEnd(table, s) = Len(table)
  <2>1. SUFFICES ASSUME RowEnd(table, s) + 1 \in RowStarts(table) PROVE FALSE
    BY <1>5
  <2>2. RowEnd(table, s) + 1 <= s
    BY <2>1, <1>2, <1>3
  <2>3. QED
    BY <2>2, <1>3, <1>4
<1>7. QED
  BY <1>6, Zenon DEF LastRow

LEMMA LastIsUnique ==
  ASSUME NEW table \in Seq(Phases), table # <<>>,
         NEW s \in RowStarts(table), RowEnd(table, s) = Len(table)
  PROVE  s = LastRow(table)
<1> DEFINE last == LastRow(table)
<1>1. last \in RowStarts(table) /\ RowEnd(table, last) = Len(table)
  BY LastEnds
<1>2. s \in 1 .. Len(table) /\ last \in 1 .. Len(table)
  BY <1>1 DEF RowStarts
<1> HIDE DEF last
<1>3. ~(s < last) /\ ~(last < s)
  BY <1>1, <1>2, RowsApart
<1>4. QED
  BY <1>2, <1>3 DEF last

(* A run of phases that passed lies in one row of the table.               *)
LEMMA RunInRow ==
  ASSUME NEW table \in Seq(Phases), Ascending(table), NEW f \in Nat, NEW d \in Nat,
         \A k \in 0 .. d : f + k \in Hits(table)
  PROVE  \E s \in RowStarts(table), a \in DOMAIN table :
           /\ table[a] = f /\ s <= a /\ a + d <= RowEnd(table, s)
           /\ a + d \in DOMAIN table /\ table[a + d] = f + d
<1>1. PICK a \in DOMAIN table : table[a] = f
  <2>1. f + 0 \in Hits(table) /\ f + 0 = f
    OBVIOUS
  <2>2. QED
    BY <2>1 DEF Hits
<1>2. \A k \in 0 .. d : a + k \in DOMAIN table /\ table[a + k] = f + k
  BY <1>1, Follow
<1>3. PICK s \in RowStarts(table) : s <= a /\ \A t \in RowStarts(table) : t <= a => t <= s
  BY <1>1, RowBefore
<1>4. s \in DOMAIN table /\ s \in Nat /\ a \in Nat /\ DOMAIN table = 1 .. Len(table)
  BY DEF RowStarts
<1>5. \A k \in 1 .. d : a + k \notin RowStarts(table)
  <2>1. SUFFICES ASSUME NEW k \in 1 .. d PROVE a + k \notin RowStarts(table)
    OBVIOUS
  <2>2. k - 1 \in 0 .. d /\ k \in 0 .. d /\ a + (k - 1) = (a + k) - 1 /\ a + k # 1
    BY <1>4
  <2>3. table[(a + k) - 1] = f + (k - 1) /\ table[a + k] = f + k
    BY <1>2, <2>2
  <2>4. table[(a + k) - 1] + 1 = table[a + k]
    BY <2>3
  <2>5. QED
    BY <2>2, <2>4 DEF RowStarts
<1>6. a + d <= RowEnd(table, s)
  <2>1. /\ RowEnd(table, s) \in s .. Len(table)
        /\ RowEnd(table, s) = Len(table) \/ RowEnd(table, s) + 1 \in RowStarts(table)
    BY <1>4, RowEnds
  <2>2. a + d \in DOMAIN table
    BY <1>2
  <2>3. SUFFICES ASSUME RowEnd(table, s) < a + d PROVE FALSE
    BY <1>4, <2>1
  <2> DEFINE e == RowEnd(table, s) + 1
  <2>4. e \in RowStarts(table) /\ e > s /\ e <= a + d /\ e \in Nat
    BY <2>1, <2>2, <2>3, <1>4
  <2>5. e > a
    <3> HIDE DEF e
    <3> QED BY <2>4, <1>3, <1>4
  <2>6. e - a \in 1 .. d /\ a + (e - a) = e
    <3> HIDE DEF e
    <3> QED BY <2>4, <2>5, <1>4
  <2>7. QED
    BY <2>4, <2>6, <1>5
<1>7. d \in 0 .. d
  OBVIOUS
<1>8. QED
  BY <1>1, <1>2, <1>3, <1>6, <1>7

-----------------------------------------------------------------------------
(* The rows of the table and their lengths.                                *)
Row(table, i) == SubSeq(table, i, RowEnd(table, i))

LEMMA RowItself ==
  ASSUME NEW table \in Seq(Phases), NEW i \in RowStarts(table)
  PROVE  /\ i \in DOMAIN table /\ RowEnd(table, i) \in i .. Len(table)
         /\ Row(table, i) \in Seq(Phases)
         /\ Len(Row(table, i)) = RowLen(table, i) /\ RowLen(table, i) \in Nat \ {0}
         /\ \A k \in 1 .. RowLen(table, i) : Row(table, i)[k] = table[i] + (k - 1)
<1> DEFINE e == RowEnd(table, i)
<1>1. i \in DOMAIN table
  BY DEF RowStarts
<1>2. i \in 1 .. Len(table) /\ e \in i .. Len(table) /\ Len(table) \in Nat
  BY <1>1, RowEnds, TableEntries
<1>3. \A k \in i .. e : table[k] = table[i] + (k - i)
  BY <1>1, RowEnds, Climb
<1> HIDE DEF e
<1>4. \A k \in i .. e : table[k] \in Phases
  BY <1>2, TableEntries
<1>5. /\ SubSeq(table, i, e) \in Seq(Phases) /\ Len(SubSeq(table, i, e)) = e - i + 1
      /\ \A k \in 1 .. e - i + 1 : SubSeq(table, i, e)[k] = table[i + k - 1]
  BY <1>2, SubSeqProperties
<1>6. \A k \in 1 .. e - i + 1 : i + k - 1 \in i .. e /\ (i + k - 1) - i = k - 1
  BY <1>2
<1>7. \A k \in 1 .. e - i + 1 : SubSeq(table, i, e)[k] = table[i] + (k - 1)
  BY <1>3, <1>5, <1>6, Zenon
<1>8. e - i + 1 \in Nat \ {0}
  BY <1>2
<1>9. QED
  BY <1>1, <1>2, <1>5, <1>7, <1>8, Zenon DEF Row, RowLen, e

LEMMA Rows ==
  ASSUME NEW table \in Seq(Phases)
  PROVE  /\ DOMAIN SubPhases(table) = RowStarts(table)
         /\ \A i \in RowStarts(table) :
              SubPhases(table)[i] =
                IF ~FoundLoop(table) THEN Row(table, i)
                ELSE IF i = LastRow(table) THEN Row(table, i) \o Row(table, 1)
                ELSE IF i = 1 THEN <<>> ELSE Row(table, i)
  BY DEF SubPhases, Row, LastRow

(* A table with both ends of the range and a phase missing has two rows.   *)
LEMMA LoopOfTwo ==
  ASSUME NEW table \in Seq(Phases), table # <<>>, FoundLoop(table)
  PROVE  1 \in RowStarts(table) /\ 1 < LastRow(table) /\ RowEnd(table, 1) < LastRow(table)
<1> DEFINE n == Len(table)
<1>1. 1 \in DOMAIN table /\ n \in Nat \ {0} /\ MaxPhases \in Nat
  BY PhaseAssumption
<1>2. 1 \in RowStarts(table)
  BY <1>1 DEF RowStarts
<1>3. LastRow(table) \in RowStarts(table) /\ RowEnd(table, LastRow(table)) = n
  BY LastEnds
<1>4. LastRow(table) # 1
  <2>1. SUFFICES ASSUME RowEnd(table, 1) = n PROVE FALSE
    BY <1>3
  <2>2. \A k \in 1 .. n : table[k] = table[1] + (k - 1)
    BY <2>1, <1>1, RowEnds, Climb
  <2>3. table[n] = table[1] + (n - 1)
    BY <2>2, <1>1
  <2>4. QED
    BY <2>3, <1>1 DEF FoundLoop
<1>5. LastRow(table) \in Nat \ {0}
  BY <1>3, RowItself
<1>6. 1 < LastRow(table)
  BY <1>4, <1>5
<1>7. QED
  BY <1>2, <1>3, <1>6, RowsApart

(* The length of each row, and the phases in it.                           *)
LEMMA LoopRow ==
  ASSUME NEW table \in Seq(Phases), table # <<>>, FoundLoop(table)
  PROVE  LET last == LastRow(table)
             row  == Row(table, last) \o Row(table, 1)
         IN  /\ Len(row) = RowLen(table, last) + RowLen(table, 1)
             /\ Len(row) <= Len(table)
             /\ \A k \in 1 .. Len(row) : row[k] = (table[last] + (k - 1)) % MaxPhases
<1> DEFINE last == LastRow(table)
           p == Row(table, last)
           q == Row(table, 1)
           n == Len(table)
<1>1. /\ 1 \in RowStarts(table) /\ RowEnd(table, 1) < last
      /\ last \in RowStarts(table) /\ RowEnd(table, last) = n
  BY LoopOfTwo, LastEnds
<1>2. /\ p \in Seq(Phases) /\ q \in Seq(Phases)
      /\ Len(p) = RowLen(table, last) /\ Len(q) = RowLen(table, 1)
      /\ Len(p) \in Nat \ {0} /\ Len(q) \in Nat \ {0}
      /\ \A k \in 1 .. Len(p) : p[k] = table[last] + (k - 1)
      /\ \A k \in 1 .. Len(q) : q[k] = table[1] + (k - 1)
  BY <1>1, RowItself
<1>3. /\ last \in 1 .. n /\ n \in Nat /\ RowEnd(table, 1) \in 1 .. n
      /\ table[last] \in Phases /\ table[last] \in Nat
  BY <1>1, RowItself, TableEntries
<1>4. table[1] = 0 /\ table[n] = MaxPhases - 1 /\ MaxPhases \in Nat \ {0}
  BY PhaseAssumption DEF FoundLoop
<1>5. Len(p) = n - last + 1 /\ Len(q) = RowEnd(table, 1)
  <2>1. RowLen(table, last) = n - last + 1 /\ RowLen(table, 1) = RowEnd(table, 1) - 1 + 1
    BY <1>1 DEF RowLen
  <2>2. QED
    BY <2>1, <1>2, <1>3
<1>6. table[last] = MaxPhases - Len(p)
  <2>1. \A k \in last .. n : table[k] = table[last] + (k - last)
    BY <1>1, <1>3, RowEnds, Climb, TableEntries
  <2>2. table[n] = table[last] + (n - last)
    BY <2>1, <1>3
  <2>3. \A t, m, l, s \in Int : m - 1 = t + (s - l) => t = m - (s - l + 1)
    OBVIOUS
  <2>4. table[last] \in Int /\ MaxPhases \in Int /\ last \in Int /\ n \in Int
    BY <1>3, <1>4
  <2>5. table[last] = MaxPhases - (n - last + 1)
    <3> HIDE DEF last
    <3>1. MaxPhases - 1 = table[last] + (n - last)
      BY <2>2, <1>4
    <3>2. QED
      BY <3>1, <2>3, <2>4
  <2>6. QED
    BY <2>5, <1>5, Zenon
<1>7. Len(q) < MaxPhases
  <2>1. Len(q) < n /\ n < MaxPhases
    BY <1>1, <1>3, <1>5 DEF FoundLoop
  <2>2. QED
    BY <2>1, <1>2, <1>3, <1>4
<1> DEFINE row == p \o q
<1> HIDE DEF last, p, q
<1>8. /\ row \in Seq(Phases) /\ Len(row) = Len(p) + Len(q)
      /\ \A k \in 1 .. Len(p) + Len(q) : row[k] = IF k <= Len(p) THEN p[k] ELSE q[k - Len(p)]
  BY <1>2, ConcatProperties
<1>9. Len(row) <= n
  BY <1>1, <1>3, <1>5, <1>8
<1>10. ASSUME NEW k \in 1 .. Len(p) + Len(q)
       PROVE  row[k] = (table[last] + (k - 1)) % MaxPhases
  <2>1. CASE k <= Len(p)
    <3>1. row[k] = table[last] + (k - 1)
      BY <2>1, <1>2, <1>8
    <3>2. table[last] + (k - 1) \in 0 .. MaxPhases - 1
      BY <2>1, <1>2, <1>3, <1>4, <1>6, SMTT(20)
    <3>3. \A x \in 0 .. MaxPhases - 1 : x % MaxPhases = x
      BY <1>4
    <3>4. QED
      BY <3>1, <3>2, <3>3, Zenon
  <2>2. CASE ~(k <= Len(p))
    <3>1. k - Len(p) \in 1 .. Len(q)
      BY <2>2, <1>2
    <3>2. row[k] = table[1] + ((k - Len(p)) - 1)
      BY <2>2, <3>1, <1>2, <1>8
    <3>3. row[k] = k - Len(p) - 1
      BY <3>2, <1>2, <1>4
    <3>4. \A m \in Nat \ {0} : \A l \in Nat : \A x \in 0 .. m - 1 :
            k - l - 1 = x => ((m - l) + (k - 1)) % m = x
      OBVIOUS
    <3>5. k - Len(p) - 1 \in 0 .. MaxPhases - 1
      BY <3>1, <1>2, <1>4, <1>7
    <3>6. QED
      BY <3>3, <3>4, <3>5, <1>2, <1>4, <1>6
  <2>3. QED
    BY <2>1, <2>2
<1>11. QED
  BY <1>2, <1>8, <1>9, <1>10 DEF last, p, q

(* Every row is a run on the circle of phases.                             *)
LEMMA RowIsRun ==
  ASSUME NEW table \in Seq(Phases), table # <<>>, NEW i \in RowStarts(table),
         SubPhases(table)[i] # <<>>
  PROVE  /\ Len(SubPhases(table)[i]) <= Len(table)
         /\ \E first \in Phases : \A k \in 1 .. Len(SubPhases(table)[i]) :
              SubPhases(table)[i][k] = (first + (k - 1)) % MaxPhases
<1> DEFINE row == SubPhases(table)[i]
<1>1. /\ i \in DOMAIN table /\ RowEnd(table, i) \in i .. Len(table)
      /\ Row(table, i) \in Seq(Phases) /\ Len(Row(table, i)) = RowLen(table, i)
      /\ \A k \in 1 .. RowLen(table, i) : Row(table, i)[k] = table[i] + (k - 1)
  BY RowItself
<1>2. table[i] \in Phases
  BY <1>1, TableEntries
<1>3. CASE row = Row(table, i)
  <2>1. Len(row) = RowLen(table, i)
    BY <1>1, <1>3
  <2>2. Len(row) <= Len(table)
    <3>1. i \in Nat \ {0} /\ Len(table) \in Nat
      BY <1>1, TableEntries
    <3>2. QED
      BY <2>1, <3>1, <1>1 DEF RowLen
  <2>3. ASSUME NEW k \in 1 .. Len(row)
        PROVE  row[k] = (table[i] + (k - 1)) % MaxPhases
    <3>1. row[k] = table[i] + (k - 1)
      BY <2>1, <2>3, <1>1, <1>3, Zenon
    <3>2. row[k] \in Phases
      BY <2>3, <1>1, <1>3, ElementOfSeq
    <3>3. \A x \in Phases : x % MaxPhases = x
      BY PhaseAssumption DEF Phases
    <3>4. QED
      BY <3>1, <3>2, <3>3, Zenon
  <2>4. QED
    BY <2>2, <2>3, <1>2
<1>4. CASE FoundLoop(table) /\ i = LastRow(table)
  <2>1. row = Row(table, i) \o Row(table, 1)
    BY <1>4, Rows
  <2>2. QED
    BY <2>1, <1>2, <1>4, LoopRow, Zenon
<1>5. QED
  <2>1. row \in {Row(table, i), <<>>} \/ (FoundLoop(table) /\ i = LastRow(table))
    BY Rows, Zenon
  <2>2. QED
    BY <2>1, <1>3, <1>4

(* No row is lost where the ends of the table are joined.                  *)
LEMMA RowKept ==
  ASSUME NEW table \in Seq(Phases), table # <<>>, NEW s \in RowStarts(table)
  PROVE  \E i \in RowStarts(table) : RowLen(table, s) <= Len(SubPhases(table)[i])
<1>1. Len(Row(table, s)) = RowLen(table, s) /\ RowLen(table, s) \in Nat
  BY RowItself
<1>2. CASE SubPhases(table)[s] = Row(table, s)
  BY <1>1, <1>2
<1>3. CASE FoundLoop(table) /\ s \in {1, LastRow(table)}
  <2> DEFINE last == LastRow(table)
  <2>1. last \in RowStarts(table) /\ 1 \in RowStarts(table)
    BY <1>3, LastEnds, LoopOfTwo
  <2>2. Len(SubPhases(table)[last]) = RowLen(table, last) + RowLen(table, 1)
    BY <1>3, <2>1, Rows, LoopRow
  <2>3. RowLen(table, last) \in Nat /\ RowLen(table, 1) \in Nat
    BY <2>1, RowItself
  <2> HIDE DEF last
  <2>4. RowLen(table, last) <= Len(SubPhases(table)[last])
        /\ RowLen(table, 1) <= Len(SubPhases(table)[last])
    BY <2>2, <2>3
  <2>5. QED
    BY <2>1, <2>4, <1>3 DEF last
<1>4. QED
  <2>1. SubPhases(table)[s] = Row(table, s) \/ (FoundLoop(table) /\ s \in {1, LastRow(table)})
    BY Rows, Zenon
  <2>2. QED
    BY <2>1, <1>2, <1>3

(* The entries of the table are as many as the phases that passed.         *)
LEMMA HitCount ==
  ASSUME NEW table \in Seq(Phases), Ascending(table)
  PROVE  /\ IsFiniteSet(Hits(table)) /\ Cardinality(Hits(table)) = Len(table)
         /\ Hits(table) \subseteq Phases /\ Len(table) <= MaxPhases
         /\ Len(table) = MaxPhases => Hits(table) = Phases
<1> DEFINE n == Len(table)
<1>1. DOMAIN table = 1 .. n /\ n \in Nat /\ \A k \in 1 .. n : table[k] \in Phases /\ table[k] \in Nat
  BY TableEntries
<1>2. table \in Bijection(1 .. n, Hits(table))
  <2>1. \A i, j \in 1 .. n : table[i] = table[j] => i = j
    <3>1. SUFFICES ASSUME NEW i \in 1 .. n, NEW j \in 1 .. n, i < j
                   PROVE  table[i] # table[j]
      BY <1>1
    <3>2. table[i] < table[j] /\ table[i] \in Nat /\ table[j] \in Nat
      BY <3>1, <1>1 DEF Ascending
    <3>3. QED
      BY <3>2
  <2>2. table \in [1 .. n -> Hits(table)]
    BY <1>1 DEF Hits
  <2>3. \A y \in Hits(table) : \E i \in 1 .. n : table[i] = y
    BY <1>1 DEF Hits
  <2>4. QED
    BY <2>1, <2>2, <2>3 DEF Bijection, Injection, Surjection, IsInjective
<1>3. IsFiniteSet(Hits(table)) /\ Cardinality(Hits(table)) = n
  <2>1. ExistsBijection(1 .. n, Hits(table))
    BY <1>2 DEF ExistsBijection
  <2>2. QED
    BY <2>1, <1>1, FS_CountingElements, FS_NatBijection
<1>4. Hits(table) \subseteq Phases
  BY <1>1 DEF Hits
<1>5. IsFiniteSet(Phases) /\ Cardinality(Phases) = MaxPhases
  <2>1. MaxPhases - 1 \in Int /\ ~(0 > MaxPhases - 1) /\ MaxPhases - 1 - 0 + 1 = MaxPhases
    BY PhaseAssumption
  <2>2. QED
    BY <2>1, FS_Interval DEF Phases
<1>6. /\ Cardinality(Hits(table)) <= Cardinality(Phases)
      /\ Cardinality(Phases) = Cardinality(Hits(table)) => Phases = Hits(table)
  BY <1>4, <1>5, FS_Subset
<1>7. QED
  BY <1>3, <1>4, <1>5, <1>6

-----------------------------------------------------------------------------
(* What is meant by a longest run, and that it is well defined.            *)
IsLongest(passed, n) ==
  /\ n \in 0 .. Cardinality(passed)
  /\ \E first \in Phases : RunFrom(first, n) \subseteq passed
  /\ \A first \in Phases : n = Cardinality(passed) \/ ~(RunFrom(first, n + 1) \subseteq passed)

LEMMA LongestIs ==
  ASSUME NEW passed, IsFiniteSet(passed), NEW n, IsLongest(passed, n)
  PROVE  Longest(passed) = n
<1>1. Cardinality(passed) \in Nat
  BY FS_CardinalityType
<1>2. ASSUME NEW m \in 0 .. Cardinality(passed), NEW k \in 0 .. Cardinality(passed),
             NEW first \in Phases, RunFrom(first, k) \subseteq passed, m < k,
             RunFrom(first, m + 1) \subseteq passed => m = Cardinality(passed)
      PROVE  FALSE
  <2>1. 0 .. (m + 1) - 1 \subseteq 0 .. k - 1
    BY <1>1, <1>2
  <2>2. RunFrom(first, m + 1) \subseteq RunFrom(first, k)
    BY <2>1 DEF RunFrom
  <2>3. QED
    BY <2>2, <1>1, <1>2
<1>3. ASSUME NEW m, IsLongest(passed, m) PROVE m = n
  <2>1. m \in 0 .. Cardinality(passed) /\ n \in 0 .. Cardinality(passed)
    BY <1>3 DEF IsLongest
  <2>2. ~(m < n) /\ ~(n < m)
    BY <1>2, <1>3, <2>1 DEF IsLongest
  <2>3. QED
    BY <2>1, <2>2, <1>1
<1>4. Longest(passed) = CHOOSE m \in 0 .. Cardinality(passed) : IsLongest(passed, m)
  BY DEF Longest, IsLongest
<1>5. n \in 0 .. Cardinality(passed)
  BY DEF IsLongest
<1>6. QED
  BY <1>3, <1>4, <1>5, Zenon

(* A run of the circle longer than every row is not among the phases that  *)
(* passed, unless all of them did.                                         *)
LEMMA NoLongerRun ==
  ASSUME NEW table \in Seq(Phases), table # <<>>, Ascending(table),
         NEW n \in Nat \ {0}, n <= Len(table),
         \A i \in RowStarts(table) : Len(SubPhases(table)[i]) <= n,
         NEW first \in Phases, RunFrom(first, n + 1) \subseteq Hits(table)
  PROVE  n = Len(table)
<1> DEFINE m == MaxPhases
           Wraps == first + n - m
<1>1. /\ m \in Nat \ {0} /\ first \in 0 .. m - 1 /\ Len(table) \in Nat /\ Len(table) <= m
      /\ \A k \in 1 .. Len(table) : table[k] \in Nat /\ table[k] <= m - 1
      /\ DOMAIN table = 1 .. Len(table)
  BY PhaseAssumption, TableEntries, HitCount DEF Phases
<1>0. /\ m \in Nat \ {0} /\ first \in 0 .. m - 1 /\ Len(table) \in Nat /\ Len(table) <= m
      /\ \A x \in 0 .. m - 1 : x % m = x
  <2>1. /\ m \in Nat \ {0} /\ first \in 0 .. m - 1 /\ Len(table) \in Nat /\ Len(table) <= m
    BY <1>1
  <2>2. QED
    BY <2>1
<1>2. \A k \in 0 .. n : (first + k) % m \in Hits(table)
  BY DEF RunFrom
<1>3. ASSUME NEW s \in RowStarts(table) PROVE RowLen(table, s) <= n
  <2>1. PICK i \in RowStarts(table) : RowLen(table, s) <= Len(SubPhases(table)[i])
    BY RowKept
  <2>2. Len(SubPhases(table)[i]) <= n /\ Len(SubPhases(table)[i]) \in Nat
    <3>1. SubPhases(table)[i] \in Seq(Hits(table))
      BY RowsOfTable, Rows
    <3>2. QED
      BY <3>1
  <2>3. RowLen(table, s) \in Nat
    BY RowItself
  <2>4. QED
    BY <2>1, <2>2, <2>3
<1>4. ASSUME NEW f \in Nat, NEW d \in Nat, \A k \in 0 .. d : f + k \in Hits(table)
      PROVE  \E s \in RowStarts(table), a \in DOMAIN table :
               /\ table[a] = f /\ s <= a /\ a + d <= RowEnd(table, s)
               /\ a + d \in DOMAIN table /\ table[a + d] = f + d
               /\ d + 1 <= RowLen(table, s) /\ s \in Nat /\ s >= 1
               /\ RowEnd(table, s) \in s .. Len(table)
               /\ RowEnd(table, s) - a + 1 <= RowLen(table, s)
  <2>1. PICK s \in RowStarts(table), a \in DOMAIN table :
          /\ table[a] = f /\ s <= a /\ a + d <= RowEnd(table, s)
          /\ a + d \in DOMAIN table /\ table[a + d] = f + d
    BY <1>4, RunInRow
  <2>2. s \in 1 .. Len(table) /\ RowEnd(table, s) \in s .. Len(table) /\ a \in 1 .. Len(table)
    BY RowItself, <1>1
  <2>3. d + 1 <= RowLen(table, s) /\ RowEnd(table, s) - a + 1 <= RowLen(table, s)
    <3>1. \A x, y, e \in Int : x <= y /\ y + d <= e => d + 1 <= e - x + 1 /\ e - y + 1 <= e - x + 1
      OBVIOUS
    <3>2. s \in Int /\ a \in Int /\ RowEnd(table, s) \in Int
      BY <2>2, <1>0
    <3>3. QED
      BY <3>1, <3>2, <2>1 DEF RowLen
  <2>4. QED
    BY <2>1, <2>2, <2>3
<1>5. CASE first + n < m
  <2>1. \A k \in 0 .. n : first + k \in Hits(table)
    <3>1. SUFFICES ASSUME NEW k \in 0 .. n PROVE first + k \in Hits(table)
      OBVIOUS
    <3>2. first + k \in 0 .. m - 1
      <4> HIDE DEF m
      <4> QED BY <1>0, <1>5
    <3>3. (first + k) % m = first + k
      BY <3>2, <1>0
    <3>4. QED
      BY <3>3, <1>2
  <2>2. PICK s \in RowStarts(table) : n + 1 <= RowLen(table, s)
    <3>1. first \in Nat
      BY <1>0
    <3>2. QED
      BY <2>1, <3>1, <1>4
  <2>3. RowLen(table, s) <= n /\ RowLen(table, s) \in Nat
    BY <1>3, RowItself
  <2>4. QED
    BY <2>2, <2>3
<1>6. CASE first + n >= m
  <2>1. Wraps \in Nat /\ Wraps < m /\ m - 1 - first \in Nat /\ m - 1 - first <= n
    BY <1>1, <1>6
  <2>2. \A k \in 0 .. m - 1 - first : first + k \in Hits(table)
    <3>1. SUFFICES ASSUME NEW k \in 0 .. m - 1 - first PROVE first + k \in Hits(table)
      OBVIOUS
    <3>2. k \in 0 .. n /\ first + k \in 0 .. m - 1
      <4> HIDE DEF m
      <4> QED BY <1>0, <2>1
    <3>3. (first + k) % m = first + k
      BY <3>2, <1>0
    <3>4. QED
      BY <3>2, <3>3, <1>2
  <2>3. \A k \in 0 .. Wraps : 0 + k \in Hits(table)
    <3>1. SUFFICES ASSUME NEW k \in 0 .. Wraps PROVE 0 + k \in Hits(table)
      OBVIOUS
    <3>2. k + m - first \in 0 .. n /\ k \in 0 .. m - 1
      BY <1>1, <1>6, <2>1
    <3>3. first + (k + m - first) = k + m /\ (k + m) % m = k /\ 0 + k = k
      <4>1. \A p \in Nat \ {0} : \A x \in 0 .. p - 1 : (x + p) % p = x /\ 0 + x = x
        OBVIOUS
      <4>2. \A f, x, p \in Int : f + (x + p - f) = x + p
        OBVIOUS
      <4>3. first \in Int /\ k \in Int /\ m \in Int
        BY <1>0
      <4>4. QED
        BY <4>1, <4>2, <4>3, <3>2, <1>0, Zenon
    <3>4. QED
      BY <3>2, <3>3, <1>2
  <2>4. PICK s \in RowStarts(table), a \in DOMAIN table :
          /\ table[a] = first /\ a + (m - 1 - first) \in DOMAIN table
          /\ table[a + (m - 1 - first)] = first + (m - 1 - first)
          /\ a + (m - 1 - first) <= RowEnd(table, s)
          /\ m - 1 - first + 1 <= RowLen(table, s) /\ RowEnd(table, s) \in s .. Len(table)
    <3>1. first \in Nat
      BY <1>0
    <3> DEFINE d == m - 1 - first
    <3>2. d \in Nat /\ \A k \in 0 .. d : first + k \in Hits(table)
      BY <2>1, <2>2
    <3> HIDE DEF d
    <3>3. \E s \in RowStarts(table), a \in DOMAIN table :
            /\ table[a] = first /\ a + d \in DOMAIN table /\ table[a + d] = first + d
            /\ a + d <= RowEnd(table, s) /\ d + 1 <= RowLen(table, s)
            /\ RowEnd(table, s) \in s .. Len(table)
      BY <3>1, <3>2, <1>4
    <3>4. QED
      BY <3>3 DEF d
  <2>5. PICK t \in RowStarts(table), b \in DOMAIN table :
          /\ table[b] = 0 /\ t <= b /\ Wraps + 1 <= RowLen(table, t) /\ t \in Nat /\ t >= 1
    BY <2>1, <2>3, <1>4
  <2>6. a + (m - 1 - first) = Len(table) /\ table[Len(table)] = m - 1
    <3> DEFINE e == a + (m - 1 - first)
    <3>1. e \in 1 .. Len(table) /\ table[e] = m - 1
      BY <2>4, <1>1
    <3> HIDE DEF e
    <3>2. e < Len(table) => table[e] < table[Len(table)]
      <4>1. e \in DOMAIN table /\ Len(table) \in DOMAIN table
        BY <3>1, <1>1
      <4>2. QED
        BY <4>1 DEF Ascending
    <3>3. table[Len(table)] \in Nat /\ table[Len(table)] <= m - 1
      BY <3>1, <1>1
    <3>4. e = Len(table)
      <4>1. e \in Nat /\ e <= Len(table)
        BY <3>1, <1>0
      <4>2. ~(e < Len(table))
        <5>1. SUFFICES ASSUME m - 1 < table[Len(table)] PROVE FALSE
          BY <3>1, <3>2
        <5>2. \A x \in Nat, y \in Int : x <= y => ~(y < x)
          OBVIOUS
        <5>3. m - 1 \in Int
          BY <1>0
        <5>4. QED
          BY <5>1, <5>2, <5>3, <3>3, Zenon
      <4>3. QED
        BY <4>1, <4>2, <1>0
    <3>5. QED
      BY <3>1, <3>4 DEF e
  <2>7. b = 1
    <3>1. b \in 1 .. Len(table) /\ 1 \in 1 .. Len(table)
      BY <1>1
    <3>2. b # 1 => table[1] < table[b]
      BY <3>1, <1>1 DEF Ascending
    <3>3. QED
      BY <3>1, <3>2, <2>5, <1>1
  <2>8. t = 1 /\ table[1] = 0
    BY <2>5, <2>7
  <2>9. s = LastRow(table)
    <3>1. RowEnd(table, s) = Len(table)
      BY <2>4, <2>6, <1>1, RowItself, SMTT(20)
    <3>2. QED
      BY <3>1, LastIsUnique
  <2>10. CASE Len(table) < m
    <3>1. FoundLoop(table)
      BY <2>6, <2>8, <2>10 DEF FoundLoop
    <3>2. Len(SubPhases(table)[s]) = RowLen(table, s) + RowLen(table, 1)
      BY <3>1, <2>9, Rows, LoopRow
    <3>3. Len(SubPhases(table)[s]) <= n
      OBVIOUS
    <3>4. RowLen(table, s) \in Nat /\ RowLen(table, 1) \in Nat
      BY <2>8, RowItself
    <3>5. QED
      <4>1. RowLen(table, s) + RowLen(table, 1) <= n
        BY <3>2, <3>3
      <4>2. m - 1 - first + 1 <= RowLen(table, s) /\ first + n - m + 1 <= RowLen(table, 1)
        BY <2>4, <2>5, <2>8
      <4>3. \A x, y, f, p \in Int :
              x + y <= n /\ p - 1 - f + 1 <= x /\ f + n - p + 1 <= y => FALSE
        OBVIOUS
      <4>4. first \in Int /\ m \in Int
        BY <1>0
      <4>5. QED
        BY <4>1, <4>2, <4>3, <4>4, <3>4
  <2>11. CASE Len(table) = m
    <3>1. Hits(table) = 0 .. m - 1
      BY <2>11, HitCount DEF Phases
    <3>2. \A k \in 0 .. m - 1 : 0 + k \in Hits(table)
      BY <3>1
    <3>3. m - 1 \in Nat
      BY <1>1
    <3>4. PICK r \in RowStarts(table) : m - 1 + 1 <= RowLen(table, r)
      BY <3>2, <3>3, <1>4
    <3>5. RowLen(table, r) <= n /\ RowLen(table, r) \in Nat
      BY <1>3, RowItself
    <3>6. QED
      BY <3>4, <3>5, <2>11, <1>1
  <2>12. QED
    BY <2>10, <2>11, <1>0
<1>7. QED
  <2>1. first + n < m \/ first + n >= m
    <3> HIDE DEF m
    <3> QED BY <1>0
  <2>2. QED
    BY <2>1, <1>5, <1>6

(* The phase chosen is the one at three quarters of a longest run, joined  *)
(* over the end of the range where it has to be.                           *)
LEMMA SelectedAtThreeQuarters ==
  ASSUME NEW table \in Seq(Phases), table # <<>>, Ascending(table)
  PROVE  AtThreeQuarters(Hits(table), SelectedPhase(table))
<1> DEFINE rows == SubPhases(table)
<1>1. DOMAIN rows = RowStarts(table)
  BY Rows
<1>2. PICK i \in RowStarts(table) :
        /\ rows[i] \in Seq(Hits(table)) /\ Len(rows[i]) \in Nat \ {0}
        /\ \A j \in RowStarts(table) : Len(rows[j]) <= Len(rows[i])
        /\ ThreeQuarters(Len(rows[i])) \in 1 .. Len(rows[i])
        /\ SelectedPhase(table) = rows[i][ThreeQuarters(Len(rows[i]))]
  BY <1>1, SelectedRow
<1> DEFINE n == Len(rows[i])
<1>3. rows[i] # <<>>
  BY <1>2
<1>4. PICK first \in Phases : \A k \in 1 .. n : rows[i][k] = (first + (k - 1)) % MaxPhases
  BY <1>3, RowIsRun
<1>5. n <= Len(table)
  BY <1>3, RowIsRun
<1>6. IsFiniteSet(Hits(table)) /\ Cardinality(Hits(table)) = Len(table) /\ Len(table) \in Nat
  BY HitCount, TableEntries
<1>7. RunFrom(first, n) \subseteq Hits(table)
  <2>1. SUFFICES ASSUME NEW k \in 0 .. n - 1 PROVE (first + k) % MaxPhases \in Hits(table)
    BY DEF RunFrom
  <2>2. k + 1 \in 1 .. n /\ (k + 1) - 1 = k
    BY <1>2
  <2>3. rows[i][k + 1] = (first + k) % MaxPhases
    BY <2>2, <1>4
  <2>4. rows[i][k + 1] \in Hits(table)
    BY <2>2, <1>2, ElementOfSeq
  <2>5. QED
    BY <2>3, <2>4
<1>8. IsLongest(Hits(table), n)
  <2>1. n \in 0 .. Cardinality(Hits(table))
    BY <1>2, <1>5, <1>6
  <2>2. \A f \in Phases : RunFrom(f, n + 1) \subseteq Hits(table) => n = Len(table)
    BY <1>2, <1>5, NoLongerRun
  <2>3. QED
    BY <2>1, <2>2, <1>6, <1>7 DEF IsLongest
<1>9. Longest(Hits(table)) = n
  BY <1>6, <1>8, LongestIs
<1>10. SelectedPhase(table) = (first + ThreeQuarters(n) - 1) % MaxPhases
  <2>1. SelectedPhase(table) = (first + (ThreeQuarters(n) - 1)) % MaxPhases
    BY <1>2, <1>4
  <2>2. \A x, y \in Int : x + (y - 1) = x + y - 1
    OBVIOUS
  <2>3. first \in Int /\ ThreeQuarters(n) \in Int
    BY <1>2, PhaseAssumption DEF Phases
  <2>4. QED
    BY <2>1, <2>2, <2>3, Zenon
<1>11. QED
  BY <1>7, <1>9, <1>10 DEF AtThreeQuarters

-----------------------------------------------------------------------------
(* What a switch may end in outside of the tuning.                         *)
LEMMA Switched ==
  ASSUME ~host.tuning, NEW newCard, NEW newHost, NEW next, Switch(newCard, newHost, next)
  PROVE  \/ card' = newCard /\ host' = newHost /\ pc' = next
         \/ card' \in {card, newCard} /\ host' = host /\ pc' = "failed"
<1>1. ASSUME NEW r \in SwitchResults(host.tuning)
      PROVE  r.ret = 0 => r.applied
  <2>1. PICK cmd6 \in Outcomes, cmd13 \in Outcomes :
          r = [applied |-> Executed(cmd6),
               ret |-> IF (~host.tuning /\ Reported(cmd6) = 1) \/ cmd13 # "done" THEN 1 ELSE 0]
    BY <1>1 DEF SwitchResults
  <2>2. r.ret = 0 => cmd6 = "done"
    BY <2>1 DEF Reported
  <2>3. QED
    BY <2>1, <2>2 DEF Executed
<1>2. QED
  BY <1>1 DEF Switch

(* What a change of the driver type may end in.                            *)
LEMMA DriverSwitched ==
  ASSUME NEW drv, NEW r \in DriverTypeResults(drv), SetDriverType(drv, r),
         misreported \in BOOLEAN
  PROVE  /\ card' = card \/ (drv \in sys.drives /\ card' = [card EXCEPT !.drv = drv])
         /\ misreported' \in BOOLEAN
         /\ r.ret \in {0, 1}
<1>1. r.ret \in {0, 1}
  BY DEF DriverTypeResults, SwitchResults
<1>2. drv \notin sys.drives => r.ret = 0 /\ ~r.applied
  BY DEF DriverTypeResults
<1>3. misreported' \in BOOLEAN
  BY DEF SetDriverType
<1>4. QED
  BY <1>1, <1>2, <1>3 DEF SetDriverType

LEMMA InitInv == Init => IInv
<1> SUFFICES ASSUME Init PROVE IInv
  OBVIOUS
<1> USE PhaseAssumption, CardAssumption
<1>1. TypeOK
  <2>1. host \in Hosts /\ card \in Cards /\ tune \in Tunes
    BY DEF Init, Hosts, Cards, Tunes, Untuned, Modes, Phases, NoPhase
  <2>2. pc \in Labels /\ sys \in Systems /\ worked \subseteq Phases
    BY DEF Init, Labels
  <2>3. misreported \in BOOLEAN
    BY DEF Init
  <2>4. QED
    BY <2>1, <2>2, <2>3 DEF TypeOK
<1>2. BusOK
  BY DEF Init, BusOK, Narrow, Slow, Tuning
<1>3. DriverOK
  BY DEF Init, DriverOK, Untuned
<1>4. QED
  BY <1>1, <1>2, <1>3 DEF IInv

-----------------------------------------------------------------------------
(* What a step with a switch command ends in: it took effect at both ends, *)
(* or the card is given up.                                                *)
SwitchedTo(newCard, newHost, next) ==
  \/ card' = newCard /\ host' = newHost /\ pc' = next
  \/ card' \in {card, newCard} /\ host' = host /\ pc' = "failed"

LEMMA SwitchEffect ==
  ASSUME IInv
  PROVE  /\ SetHsInterface =>
              SwitchedTo([card EXCEPT !.timing = "hs"], [host EXCEPT !.uhs = "SDR25"],
                         IF pc = "hs_mmc" THEN "ext_csd" ELSE "hs_width")
         /\ SetBusWidth =>
              SwitchedTo([card EXCEPT !.width = BusWidth], host,
                         IF pc = "hs200_width" THEN "hs200" ELSE "rst_n")
         /\ SetDdrMode =>
              SwitchedTo([card EXCEPT !.width = 8, !.ddr = TRUE],
                         [host EXCEPT !.uhs = "DDR50"], "rst_n")
         /\ SetHs200Mode =>
              SwitchedTo([card EXCEPT !.timing = "hs200"],
                         [host EXCEPT !.uhs = "SDR104", !.tuning = TRUE], "init_dll")
         /\ EnableResetPin => SwitchedTo(card, host, "ready")
<1>1. ASSUME pc \notin Tuning \cup {"failed"} PROVE ~host.tuning
  BY <1>1 DEF IInv, BusOK
<1> USE Switched DEF SwitchedTo
<1>2. ASSUME SetHsInterface
      PROVE  SwitchedTo([card EXCEPT !.timing = "hs"], [host EXCEPT !.uhs = "SDR25"],
                        IF pc = "hs_mmc" THEN "ext_csd" ELSE "hs_width")
  BY <1>1, <1>2 DEF SetHsInterface, Tuning
<1>3. ASSUME SetBusWidth
      PROVE  SwitchedTo([card EXCEPT !.width = BusWidth], host,
                        IF pc = "hs200_width" THEN "hs200" ELSE "rst_n")
  BY <1>1, <1>3 DEF SetBusWidth, Tuning
<1>4. ASSUME SetDdrMode
      PROVE  SwitchedTo([card EXCEPT !.width = 8, !.ddr = TRUE],
                        [host EXCEPT !.uhs = "DDR50"], "rst_n")
  BY <1>1, <1>4 DEF SetDdrMode, Tuning
<1>5. ASSUME SetHs200Mode
      PROVE  SwitchedTo([card EXCEPT !.timing = "hs200"],
                        [host EXCEPT !.uhs = "SDR104", !.tuning = TRUE], "init_dll")
  BY <1>1, <1>5 DEF SetHs200Mode, Tuning
<1>6. ASSUME EnableResetPin PROVE SwitchedTo(card, host, "ready")
  <2>1. ~host.tuning
    BY <1>1, <1>6 DEF EnableResetPin, Tuning
  <2>2. Switch(card, host, "ready") => SwitchedTo(card, host, "ready")
    BY <2>1
  <2>3. QED
    BY <1>6, <2>2 DEF EnableResetPin
<1>7. QED
  BY <1>2, <1>3, <1>4, <1>5, <1>6

(* Both ends change together or not at all, but for the two ways.         *)
LEMMA BusStep ==
  ASSUME IInv, Next
  PROVE  BusOK'
<1> USE DEF IInv, TypeOK, Hosts, Cards, Tunes, BusOK, Narrow, Slow, High, Refused, Agreed, SlowSdCard, NarrowDdr,
           ModeOf, Tuning, BusWidth
<1>1. CASE ResetCard
  BY <1>1 DEF ResetCard
<1>2. CASE InitSdCard
  BY <1>2 DEF InitSdCard
<1>3. CASE IdentifyCard
  BY <1>3 DEF IdentifyCard
<1>4. CASE SetHsInterface
  <2>1. SwitchedTo([card EXCEPT !.timing = "hs"], [host EXCEPT !.uhs = "SDR25"],
                 IF pc = "hs_mmc" THEN "ext_csd" ELSE "hs_width")
    BY <1>4, SwitchEffect
  <2>2. QED
    BY <1>4, <2>1 DEF SetHsInterface, SwitchedTo
<1>5. CASE SdSetHs
  BY <1>5 DEF SdSetHs, Outcomes, Executed, Reported
<1>6. CASE ReadCardData
  BY <1>6 DEF ReadCardData
<1>7. CASE ChooseMode
  BY <1>7 DEF ChooseMode
<1>8. CASE SetBusWidth
  <2>1. SwitchedTo([card EXCEPT !.width = BusWidth], host,
                 IF pc = "hs200_width" THEN "hs200" ELSE "rst_n")
    BY <1>8, SwitchEffect
  <2>2. QED
    BY <1>8, <2>1 DEF SetBusWidth, SwitchedTo
<1>9. CASE SetDdrMode
  <2>1. SwitchedTo([card EXCEPT !.width = 8, !.ddr = TRUE],
                 [host EXCEPT !.uhs = "DDR50"], "rst_n")
    BY <1>9, SwitchEffect
  <2>2. pc = "ddr" /\ sys' = sys
    BY <1>9 DEF SetDdrMode
  <2>3. ASSUME card' = [card EXCEPT !.width = 8, !.ddr = TRUE],
               host' = [host EXCEPT !.uhs = "DDR50"]
        PROVE  /\ card'.width = 8 /\ card'.ddr /\ card'.timing = "hs"
               /\ host'.width = BusWidth /\ host'.uhs = "DDR50" /\ ~host'.tuning
    BY <2>2, <2>3
  <2>4. QED
    BY <2>1, <2>2, <2>3 DEF SwitchedTo
<1>10. CASE SetHs200Mode
  <2>1. SwitchedTo([card EXCEPT !.timing = "hs200"],
                 [host EXCEPT !.uhs = "SDR104", !.tuning = TRUE], "init_dll")
    BY <1>10, SwitchEffect
  <2>2. pc = "hs200" /\ sys' = sys
    BY <1>10 DEF SetHs200Mode
  <2>3. ASSUME card' = [card EXCEPT !.timing = "hs200"],
               host' = [host EXCEPT !.uhs = "SDR104", !.tuning = TRUE]
        PROVE  Agreed' /\ host'.uhs = "SDR104"
    <3>1. card'.width = BusWidth /\ card'.timing = "hs200"
      BY <2>2, <2>3
    <3>2. host'.width = BusWidth /\ host'.uhs = "SDR104"
      BY <2>2, <2>3
    <3>3. QED
      BY <3>1, <3>2
  <2>4. QED
    BY <2>1, <2>3 DEF SwitchedTo
<1>11. CASE SdSetBusWidth
  BY <1>11 DEF SdSetBusWidth, Outcomes, Executed, Reported
<1>12. CASE EnableResetPin
  <2>1. SwitchedTo(card, host, "ready")
    BY <1>12, SwitchEffect
  <2>2. QED
    BY <1>12, <2>1 DEF EnableResetPin, SwitchedTo
<1>13. CASE InitDll
  BY <1>13 DEF InitDll
<1>14. CASE TunePhase
  BY <1>14 DEF TunePhase
<1>15. CASE RoundDone
  BY <1>15 DEF RoundDone
<1>16. CASE NextStrength
  BY <1>16, DriverSwitched DEF NextStrength, Retry
<1>17. CASE RestoreStrength
  BY <1>17, DriverSwitched DEF RestoreStrength
<1>18. CASE SelectPhase
  BY <1>18 DEF SelectPhase
<1>19. CASE TuningOut
  BY <1>19 DEF TuningOut
<1>20. QED
  BY <1>1, <1>2, <1>3, <1>4, <1>5, <1>6, <1>7, <1>8, <1>9, <1>10, <1>11, <1>12, <1>13, <1>14, <1>15, <1>16, <1>17, <1>18, <1>19 DEF Next

(* Every step keeps the types.                                             *)
LEMMA TypeStep ==
  ASSUME IInv, Next
  PROVE  TypeOK'
<1> USE DEF IInv, TypeOK, Labels, Tuning, Modes, BusWidth, Hosts, Cards, Tunes
<1>1. CASE ResetCard
  BY <1>1 DEF ResetCard
<1>2. CASE InitSdCard
  BY <1>2 DEF InitSdCard
<1>3. CASE IdentifyCard
  BY <1>3 DEF IdentifyCard
<1>4. CASE SetHsInterface
  <2>1. SwitchedTo([card EXCEPT !.timing = "hs"], [host EXCEPT !.uhs = "SDR25"],
                 IF pc = "hs_mmc" THEN "ext_csd" ELSE "hs_width")
    BY <1>4, SwitchEffect
  <2>2. QED
    BY <1>4, <2>1 DEF SetHsInterface, SwitchedTo
<1>5. CASE SdSetHs
  BY <1>5 DEF SdSetHs, Outcomes, Executed, Reported
<1>6. CASE ReadCardData
  BY <1>6 DEF ReadCardData
<1>7. CASE ChooseMode
  BY <1>7 DEF ChooseMode
<1>8. CASE SetBusWidth
  <2>1. SwitchedTo([card EXCEPT !.width = BusWidth], host,
                 IF pc = "hs200_width" THEN "hs200" ELSE "rst_n")
    BY <1>8, SwitchEffect
  <2>2. QED
    BY <1>8, <2>1 DEF SetBusWidth, SwitchedTo
<1>9. CASE SetDdrMode
  <2>1. SwitchedTo([card EXCEPT !.width = 8, !.ddr = TRUE],
                 [host EXCEPT !.uhs = "DDR50"], "rst_n")
    BY <1>9, SwitchEffect
  <2>2. [card EXCEPT !.width = 8, !.ddr = TRUE] \in Cards /\ [host EXCEPT !.uhs = "DDR50"] \in Hosts
    OBVIOUS
  <2>3. card' \in Cards /\ host' \in Hosts /\ pc' \in {"rst_n", "failed"}
    BY <2>1, <2>2, Zenon DEF SwitchedTo
  <2>4. UNCHANGED <<sys, tune, worked, misreported>>
    BY <1>9 DEF SetDdrMode
  <2>5. QED
    BY <2>3, <2>4
<1>10. CASE SetHs200Mode
  <2>1. SwitchedTo([card EXCEPT !.timing = "hs200"],
                 [host EXCEPT !.uhs = "SDR104", !.tuning = TRUE], "init_dll")
    BY <1>10, SwitchEffect
  <2>2. [card EXCEPT !.timing = "hs200"] \in Cards /\ [host EXCEPT !.uhs = "SDR104", !.tuning = TRUE] \in Hosts
    OBVIOUS
  <2>3. card' \in Cards /\ host' \in Hosts /\ pc' \in {"init_dll", "failed"}
    BY <2>1, <2>2, Zenon DEF SwitchedTo
  <2>4. UNCHANGED <<sys, tune, worked, misreported>>
    BY <1>10 DEF SetHs200Mode
  <2>5. QED
    BY <2>3, <2>4
<1>11. CASE SdSetBusWidth
  BY <1>11, SMTT(20) DEF SdSetBusWidth, Outcomes, Executed, Reported
<1>12. CASE EnableResetPin
  <2>1. SwitchedTo(card, host, "ready")
    BY <1>12, SwitchEffect
  <2>2. QED
    BY <1>12, <2>1 DEF EnableResetPin, SwitchedTo
<1>13. CASE InitDll
  BY <1>13 DEF InitDll
<1>14. CASE TunePhase
  <2>1. pc' \in {"phase", "out"} /\ card' = card /\ sys' = sys /\ tune.phase \in Phases
    BY <1>14, PhaseAssumption DEF TunePhase, Phases
  <2>2. CASE pc' = "out"
    BY <1>14, <2>1, <2>2 DEF TunePhase
  <2>3. CASE pc' # "out"
    <3> DEFINE Buf(data) == Received(data, tune.buf)
               Hit(data) == data # "failure" /\ Buf(data) = "pattern"
    <3>1. PICK data \in {"right", "wrong", "nothing", "failure"} :
            /\ host' = [host EXCEPT !.phase = tune.phase]
            /\ tune' = [tune EXCEPT
                          !.phase = @ + 1, !.buf = Buf(data),
                          !.hits = IF Hit(data) THEN Append(@, tune.phase) ELSE @]
            /\ worked' = IF data = "right" THEN worked \cup {tune.phase} ELSE worked
            /\ misreported' = misreported
      BY <1>14, <2>3 DEF TunePhase
    <3>2. Buf(data) \in {"pattern", "other"}
      BY DEF Received
    <3> DEFINE hits == IF Hit(data) THEN Append(tune.hits, tune.phase) ELSE tune.hits
    <3>3. tune' = [tune EXCEPT !.phase = @ + 1, !.buf = Buf(data), !.hits = hits]
      BY <3>1
    <3> HIDE DEF Hit, Buf
    <3>4. hits \in Seq(Phases)
      BY <2>1
    <3> HIDE DEF hits
    <3>5. tune.phase + 1 \in 0 .. MaxPhases
      BY <2>1, PhaseAssumption DEF Phases
    <3>6. host' \in Hosts
      BY <2>1, <3>1
    <3>7. tune' \in Tunes
      BY <3>2, <3>3, <3>4, <3>5
    <3>8. worked' \subseteq Phases /\ misreported' \in BOOLEAN
      BY <2>1, <3>1
    <3>9. QED
      BY <2>1, <3>6, <3>7, <3>8
  <2>4. QED
    BY <2>2, <2>3
<1>15. CASE RoundDone
  BY <1>15 DEF RoundDone
<1>16. CASE NextStrength
  <2> DEFINE drv == tune.drv + 1
  <2>1. sys' = sys /\ host' = host /\ tune.drv \in Nat
    BY <1>16 DEF NextStrength
  <2>2. CASE drv <= MaxDriverType
    <3>1. PICK r \in DriverTypeResults(drv) :
            /\ SetDriverType(drv, r)
            /\ \/ Retry(drv)
               \/ /\ UNCHANGED <<pc, worked>>
                  /\ tune' = [tune EXCEPT !.drv = drv, !.changed = FALSE]
      BY <1>16, <2>2, CardAssumption DEF NextStrength
    <3>2. card' = card \/ card' = [card EXCEPT !.drv = drv]
      BY <3>1, DriverSwitched
    <3>3. misreported' \in BOOLEAN
      BY <3>1, DriverSwitched
    <3>4. drv \in 0 .. MaxDriverType /\ drv \in 0 .. MaxDriverType + 1
      BY <2>1, <2>2, CardAssumption
    <3> HIDE DEF drv
    <3>5. card' \in Cards /\ misreported' \in BOOLEAN
      BY <3>2, <3>3, <3>4
    <3>6. CASE Retry(drv)
      <4>1. <<>> \in Seq(Phases) /\ 0 \in 0 .. MaxPhases
        BY PhaseAssumption
      <4>2. tune' \in Tunes /\ worked' = {} /\ pc' = "phase"
        BY <3>4, <3>6, <4>1 DEF Retry
      <4>3. QED
        BY <2>1, <3>5, <4>2
    <3>7. CASE ~Retry(drv)
      <4>1. tune' \in Tunes /\ worked' = worked /\ pc' = pc
        BY <3>1, <3>4, <3>7
      <4>2. QED
        BY <2>1, <3>5, <4>1
    <3>8. QED
      BY <3>6, <3>7
  <2>3. CASE drv > MaxDriverType
    <3>1. /\ tune.drv <= MaxDriverType /\ pc' = "restore" /\ tune' = [tune EXCEPT !.drv = drv]
          /\ UNCHANGED <<card, worked, misreported>>
      BY <1>16, <2>3, CardAssumption DEF NextStrength, DriverOK
    <3>2. drv \in 0 .. MaxDriverType + 1
      BY <2>1, <3>1, CardAssumption
    <3> HIDE DEF drv
    <3>3. QED
      BY <2>1, <3>1, <3>2, SMTT(20)
  <2>4. QED
    BY <2>1, <2>2, <2>3, CardAssumption
<1>17. CASE RestoreStrength
  <2>1. pc' = "select" /\ sys' = sys /\ host' = host /\ tune' = tune /\ worked' = worked
    BY <1>17 DEF RestoreStrength
  <2>2. card' = card \/ card' = [card EXCEPT !.drv = 0]
    BY <1>17, DriverSwitched DEF RestoreStrength
  <2>3. misreported' \in BOOLEAN
    BY <1>17, DriverSwitched DEF RestoreStrength
  <2>4. 0 \in 0 .. MaxDriverType
    BY CardAssumption
  <2>5. card' \in Cards
    BY <2>2, <2>4
  <2>6. QED
    BY <2>1, <2>3, <2>5
<1>18. CASE SelectPhase
  <2>1. pc' = "out" /\ sys' = sys /\ card' = card /\ worked' = worked /\ AllPassed \in BOOLEAN
    BY <1>18 DEF SelectPhase, AllPassed
  <2>2. CASE tune.hits = <<>>
    BY <1>18, <2>1, <2>2 DEF SelectPhase
  <2>3. CASE tune.hits # <<>>
    <3> DEFINE phase == SelectedPhase(tune.hits)
    <3>1. phase \in Phases
      <4>1. phase \in Hits(tune.hits)
        BY <2>3, SelectedIsHit
      <4>2. tune.hits \in Seq(Phases)
        OBVIOUS
      <4>3. QED
        BY <4>1, <4>2 DEF Hits
    <3> HIDE DEF phase
    <3>2. /\ host' \in {host, [host EXCEPT !.phase = phase]}
          /\ tune' \in {[tune EXCEPT !.saved = phase, !.cdr = AllPassed],
                        [tune EXCEPT !.cdr = AllPassed]}
          /\ misreported' = misreported
      BY <1>18, <2>3 DEF SelectPhase, phase
    <3> HIDE DEF AllPassed
    <3>3. host' \in Hosts
      BY <3>1, <3>2
    <3>4. [tune EXCEPT !.saved = phase, !.cdr = AllPassed] \in Tunes
      BY <2>1, <3>1
    <3>5. [tune EXCEPT !.cdr = AllPassed] \in Tunes
      BY <2>1
    <3>6. tune' \in Tunes
      BY <3>2, <3>4, <3>5
    <3>7. QED
      BY <2>1, <3>2, <3>3, <3>6
  <2>4. QED
    BY <2>2, <2>3
<1>19. CASE TuningOut
  <2>1. [host EXCEPT !.tuning = FALSE] \in Hosts
    OBVIOUS
  <2>2. /\ host' = [host EXCEPT !.tuning = FALSE] /\ pc' \in {"failed", "rst_n"}
        /\ UNCHANGED <<sys, card, tune, worked, misreported>>
    BY <1>19 DEF TuningOut
  <2>3. QED
    BY <2>1, <2>2
<1>20. QED
  BY <1>1, <1>2, <1>3, <1>4, <1>5, <1>6, <1>7, <1>8, <1>9, <1>10, <1>11, <1>12, <1>13, <1>14, <1>15, <1>16, <1>17, <1>18, <1>19 DEF Next

(* Only a step of the tuning touches the driver type, and the loop over    *)
(* the types ends where it passes the last.                                *)
LEMMA DriverStep ==
  ASSUME IInv, Next
  PROVE  DriverOK'
<1> USE DEF IInv, TypeOK, Tunes, DriverOK
<1>1. CASE NextStrength
  <2> DEFINE drv == tune.drv + 1
  <2>1. \/ drv <= MaxDriverType /\ tune'.drv = drv
        \/ pc' = "restore"
    BY <1>1, CardAssumption DEF NextStrength, Retry
  <2>2. QED
    BY <2>1
<1>2. CASE TunePhase
  <2>1. tune'.drv = tune.drv /\ pc = "phase" /\ pc' \in {"phase", "out"}
    BY <1>2 DEF TunePhase
  <2>2. QED
    BY <2>1
<1>3. CASE InitDll \/ SelectPhase
  <2>1. tune'.drv = tune.drv /\ (pc = "select" => pc' = "out")
    BY <1>3 DEF InitDll, SelectPhase
  <2>2. QED
    BY <1>3, <2>1 DEF InitDll, SelectPhase
<1>4. CASE RoundDone \/ RestoreStrength \/ TuningOut
  BY <1>4 DEF RoundDone, RestoreStrength, TuningOut
<1>5. CASE EnableResetPin
  <2>1. pc' \in {"ready", "failed"}
    BY <1>5 DEF EnableResetPin, Switch
  <2>2. QED
    BY <2>1
<1>6. CASE \/ ResetCard \/ InitSdCard \/ IdentifyCard \/ SetHsInterface \/ SdSetHs
           \/ ReadCardData \/ ChooseMode \/ SetBusWidth \/ SetDdrMode \/ SetHs200Mode
           \/ SdSetBusWidth
  <2>1. /\ tune' = tune
        /\ pc \notin {"restore", "select", "out", "rst_n", "ready", "failed"}
    BY <1>6 DEF ResetCard, InitSdCard, IdentifyCard, SetHsInterface, SdSetHs, ReadCardData,
                ChooseMode, SetBusWidth, SetDdrMode, SetHs200Mode, SdSetBusWidth
  <2>2. QED
    BY <2>1
<1>7. QED
  BY <1>1, <1>2, <1>3, <1>4, <1>5, <1>6 DEF Next

(* A stutter changes nothing the invariant speaks of.                       *)
LEMMA StutterInv ==
  ASSUME IInv, UNCHANGED vars
  PROVE  IInv'
<1> USE DEF IInv, vars
<1>1. TypeOK'
  BY DEF TypeOK
<1>2. BusOK'
  BY DEF BusOK, Narrow, Slow, High, Refused, Agreed, SlowSdCard, NarrowDdr, ModeOf,
         BusWidth
<1>3. DriverOK'
  BY DEF DriverOK
<1>4. QED
  BY <1>1, <1>2, <1>3

LEMMA Invariance == Spec => []IInv
<1>1. ASSUME IInv, [Next]_vars PROVE IInv'
  <2>1. CASE Next
    <3>1. TypeOK' /\ BusOK' /\ DriverOK'
      BY <1>1, <2>1, TypeStep, BusStep, DriverStep
    <3>2. QED
      BY <3>1 DEF IInv
  <2>2. CASE UNCHANGED vars
    BY <1>1, <2>2, StutterInv
  <2>3. QED
    BY <1>1, <2>1, <2>2
<1>2. QED
  BY InitInv, <1>1, PTL DEF Spec

-----------------------------------------------------------------------------
(* For every set of cards and controllers, whatever command is lost or its *)
(* answer: mmc_card_init gives the card up before it goes on with a card   *)
(* in another mode, and an SD card that refuses its high speed and double  *)
(* data rate with fewer than eight lines are the only ways around that.    *)
THEOREM AgreedBus == Spec => []DataOnAgreedBus
<1>1. IInv => DataOnAgreedBus
  BY DEF IInv, BusOK, DataOnAgreedBus, OnTheBus, Narrow, Slow, High, Refused, Agreed,
         SlowSdCard, ModeOf, Tuning
<1>2. QED
  BY Invariance, <1>1, PTL

-----------------------------------------------------------------------------
(* The order of the hits needs no other part of the invariant.             *)
LEMMA OrderInit == Init => HitsInOrder
  BY DEF Init, HitsInOrder, Untuned, Ascending

LEMMA OrderOfRound ==
  ASSUME HitsInOrder, TunePhase
  PROVE  HitsInOrder'
<1>1. CASE tune' = [tune EXCEPT !.ret = 1]
  BY <1>1 DEF HitsInOrder, Ascending
<1>2. CASE tune' # [tune EXCEPT !.ret = 1]
  <2> DEFINE Buf(data) == Received(data, tune.buf)
             Hit(data) == data # "failure" /\ Buf(data) = "pattern"
  <2>1. PICK data \in {"right", "wrong", "nothing", "failure"} :
          tune' = [tune EXCEPT !.phase = @ + 1, !.buf = Buf(data),
                               !.hits = IF Hit(data) THEN Append(@, tune.phase) ELSE @]
    BY <1>2 DEF TunePhase
  <2> DEFINE hits == IF Hit(data) THEN Append(tune.hits, tune.phase) ELSE tune.hits
  <2>2. tune' = [tune EXCEPT !.phase = @ + 1, !.buf = Buf(data), !.hits = hits]
    BY <2>1
  <2> HIDE DEF Buf, hits
  <2>3. /\ DOMAIN tune' = {"phase", "hits", "buf", "drv", "changed", "cdr", "saved", "ret"}
        /\ tune'.phase = tune.phase + 1 /\ tune'.hits = hits
    BY <2>2 DEF HitsInOrder
  <2>4. tune.phase \in Phases
    BY PhaseAssumption DEF HitsInOrder, TunePhase, Phases
  <2> DEFINE n == Len(tune.hits)
  <2>5. /\ hits \in Seq(Phases) /\ n \in Nat /\ DOMAIN tune.hits = 1 .. n
        /\ \/ hits = tune.hits
           \/ /\ DOMAIN hits = 1 .. n + 1 /\ hits[n + 1] = tune.phase
              /\ \A i \in 1 .. n : hits[i] = tune.hits[i]
    BY <2>4, AppendProperties DEF HitsInOrder, hits
  <2>6. \A i \in 1 .. n : tune.hits[i] \in Nat /\ tune.hits[i] < tune.phase
    BY <2>5, TableEntries DEF HitsInOrder
  <2> HIDE DEF n
  <2>7. \A i \in DOMAIN hits : hits[i] < tune.phase + 1
    BY <2>4, <2>5, <2>6 DEF Phases
  <2>8. Ascending(hits)
    <3>1. CASE hits = tune.hits
      BY <3>1 DEF HitsInOrder
    <3>2. CASE hits # tune.hits
      <4>1. SUFFICES ASSUME NEW i \in 1 .. n + 1, NEW j \in 1 .. n + 1, i < j
                     PROVE  hits[i] < hits[j]
        BY <2>5, <3>2 DEF Ascending
      <4>2. i \in 1 .. n /\ hits[i] = tune.hits[i]
        BY <4>1, <2>5, <3>2
      <4>3. CASE j = n + 1
        BY <4>2, <4>3, <2>5, <2>6, <3>2
      <4>4. CASE j # n + 1
        <5>1. j \in 1 .. n /\ hits[j] = tune.hits[j]
          BY <4>4, <2>5, <3>2
        <5>2. QED
          BY <4>1, <4>2, <5>1, <2>5 DEF HitsInOrder, Ascending
      <4>5. QED
        BY <4>3, <4>4
    <3>3. QED
      BY <3>1, <3>2
  <2>9. QED
    BY <2>3, <2>5, <2>7, <2>8 DEF HitsInOrder
<1>3. QED
  BY <1>1, <1>2

LEMMA OrderNext == HitsInOrder /\ [Next]_vars => HitsInOrder'
<1> SUFFICES ASSUME HitsInOrder, [Next]_vars PROVE HitsInOrder'
  OBVIOUS
<1>1. CASE UNCHANGED tune
  BY <1>1 DEF HitsInOrder, Ascending
<1>2. CASE InitDll
  BY <1>2 DEF InitDll, HitsInOrder, Ascending
<1>3. CASE TunePhase
  BY <1>3, OrderOfRound
<1>4. CASE NextStrength
  <2> DEFINE drv == tune.drv + 1
  <2>1. \/ Retry(drv)
        \/ tune' = [tune EXCEPT !.drv = drv, !.changed = FALSE]
        \/ tune' = [tune EXCEPT !.drv = drv]
    BY <1>4 DEF NextStrength
  <2> HIDE DEF drv
  <2>2. CASE Retry(drv)
    <3>1. /\ DOMAIN tune' = DOMAIN tune /\ tune'.phase = 0 /\ tune'.hits = <<>>
      BY <2>2 DEF Retry, HitsInOrder
    <3>2. <<>> \in Seq(Phases) /\ DOMAIN <<>> = {}
      OBVIOUS
    <3>3. QED
      BY <3>1, <3>2 DEF HitsInOrder, Ascending
  <2>3. CASE tune' \in {[tune EXCEPT !.drv = drv, !.changed = FALSE], [tune EXCEPT !.drv = drv]}
    BY <2>3 DEF HitsInOrder, Ascending
  <2>4. QED
    BY <2>1, <2>2, <2>3
<1>5. CASE SelectPhase
  <2> DEFINE phase == SelectedPhase(tune.hits)
  <2>1. \/ tune' = [tune EXCEPT !.ret = 1]
        \/ tune' = [tune EXCEPT !.saved = phase, !.cdr = AllPassed]
        \/ tune' = [tune EXCEPT !.cdr = AllPassed]
    BY <1>5 DEF SelectPhase
  <2> HIDE DEF phase, AllPassed
  <2>2. QED
    BY <2>1 DEF HitsInOrder, Ascending
<1>6. QED
  <2>1. \/ UNCHANGED tune \/ InitDll \/ TunePhase \/ NextStrength \/ SelectPhase
    BY DEF Next, vars, ResetCard, InitSdCard, IdentifyCard, SetHsInterface, SdSetHs,
           ReadCardData, ChooseMode, SetBusWidth, SetDdrMode, SetHs200Mode, SdSetBusWidth,
           EnableResetPin, RoundDone, RestoreStrength, TuningOut
  <2>2. QED
    BY <2>1, <1>1, <1>2, <1>3, <1>4, <1>5

(* For every number of phases and every pattern of those that pass, the    *)
(* choice falls at three quarters of a longest run of them, also of one    *)
(* that goes over the end of the range.                                    *)
THEOREM LongestRun == Spec => []LongestRunChosen
<1>1. HitsInOrder => LongestRunChosen
  BY SelectedAtThreeQuarters DEF HitsInOrder, LongestRunChosen, Hits
<1>2. Spec => []HitsInOrder
  BY OrderInit, OrderNext, PTL DEF Spec
<1>3. QED
  BY <1>1, <1>2, PTL
=============================================================================
