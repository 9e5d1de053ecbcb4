----------------------- MODULE AcceptanceFilterProofs ------------------------
(***************************************************************************)
(* Proofs about the table of the acceptance filter, for every size of the  *)
(* RAM, every number of entries and every sequence of loads and removals.  *)
(***************************************************************************)
EXTENDS AcceptanceFilter, WellFoundedInduction, TLAPS, SequenceTheorems

\* The counters, the registers and the mode; what the RAM holds does not
\* matter to them.
CountTypes == /\ cnt \in [Sections -> Nat]
              /\ sa \in [Registers -> Int]
              /\ paired \in [{"FullCAN", "std"} -> Nat]
              /\ AFMR \in {Normal, AccOff, AccBP, eFCAN}
              /\ wiped \in BOOLEAN

\* The inductive invariant.
TableInv == CountTypes /\ RegistersFollow /\ TableFits /\ OnAfterSuccess

\* Entries of half a word: one more takes a new word or the second half of the
\* last word; one less gives a word back if it was alone in it.
LEMMA HalfWords ==
  ASSUME NEW n \in Nat
  PROVE  /\ (n + 1) \div 2 \in Nat
         /\ n % 2 \in {0, 1}
         /\ (n + 2) \div 2 + (n % 2) = (n + 1) \div 2 + 1
         /\ n \div 2 = (n + 1) \div 2 - (n % 2)
OBVIOUS

\* The sizes and starts of the sections are natural numbers.
LEMMA Sizes ==
  ASSUME NEW c \in [Sections -> Nat]
  PROVE  /\ FullWords(c) \in Nat /\ StdWords(c) \in Nat
         /\ c["gstd"] \in Nat /\ c["ext"] \in Nat /\ c["gext"] \in Nat
         /\ c["FullCAN"] \in Nat /\ c["std"] \in Nat
         /\ Total(c) = FullWords(c) + StdWords(c) + c["gstd"] + c["ext"]
                        + 2 * c["gext"] + 3 * c["FullCAN"]
BY HalfWords DEF Sections, FullWords, StdWords, Total, IdWords, GextStart, ExtStart, GstdStart

\* A counter changes by k and the others stay.
LEMMA Counted ==
  ASSUME CountTypes, NEW s \in Sections, NEW k \in {1, -1}, Count(s, k), cnt[s] + k >= 0
  PROVE  /\ cnt' \in [Sections -> Nat]
         /\ cnt'[s] = cnt[s] + k
         /\ \A t \in Sections : t # s => cnt'[t] = cnt[t]
BY DEF CountTypes, Count

\* The registers in S move by k words.
LEMMA Advanced ==
  ASSUME CountTypes, NEW S, NEW k \in Int, Advance(S, k)
  PROVE  /\ sa' \in [Registers -> Int]
         /\ \A r \in Registers : sa'[r] = IF r \in S THEN sa[r] + k ELSE sa[r]
BY DEF CountTypes, Advance

\* The registers follow if they move by what the sections before them grow: f
\* and h by their words and the words counted twice, g, x and y by their entries.
LEMMA StepAgrees ==
  ASSUME TableInv, cnt' \in [Sections -> Nat], sa' \in [Registers -> Int],
         paired' \in [{"FullCAN", "std"} -> Nat], UNCHANGED wiped,
         NEW f \in Int, NEW h \in Int, NEW g \in Int, NEW x \in Int, NEW y \in Int,
         FullWords(cnt') + paired'["FullCAN"] = FullWords(cnt) + paired["FullCAN"] + f,
         StdWords(cnt') + paired'["std"] = StdWords(cnt) + paired["std"] + h,
         cnt'["gstd"] = cnt["gstd"] + g,
         cnt'["ext"] = cnt["ext"] + x,
         cnt'["gext"] = cnt["gext"] + y,
         sa'["SFF"] = sa["SFF"] + f,
         sa'["SFF_GRP"] = sa["SFF_GRP"] + f + h,
         sa'["EFF"] = sa["EFF"] + f + h + g,
         sa'["EFF_GRP"] = sa["EFF_GRP"] + f + h + g + x,
         sa'["END"] = sa["END"] + f + h + g + x + 2 * y
  PROVE  RegistersFollow'
<1>. SUFFICES ASSUME RegistersExact PROVE RegistersExact'
  BY DEF TableInv, RegistersFollow
<1>1. /\ FullWords(cnt)' = FullWords(cnt') /\ StdWords(cnt)' = StdWords(cnt')
  BY DEF FullWords, StdWords
<1>2. /\ FullWords(cnt) \in Nat /\ StdWords(cnt) \in Nat
      /\ cnt["gstd"] \in Nat /\ cnt["ext"] \in Nat /\ cnt["gext"] \in Nat
  BY Sizes DEF TableInv, CountTypes
<1>3. /\ FullWords(cnt') \in Nat /\ StdWords(cnt') \in Nat
      /\ cnt'["gstd"] \in Nat /\ cnt'["ext"] \in Nat /\ cnt'["gext"] \in Nat
  BY Sizes
<1>4. /\ sa["SFF"] \in Int /\ sa["SFF_GRP"] \in Int /\ sa["EFF"] \in Int
      /\ sa["EFF_GRP"] \in Int /\ sa["END"] \in Int
      /\ sa'["SFF"] \in Int /\ sa'["SFF_GRP"] \in Int /\ sa'["EFF"] \in Int
      /\ sa'["EFF_GRP"] \in Int /\ sa'["END"] \in Int
  BY DEF TableInv, CountTypes, Registers
<1>5. /\ paired["FullCAN"] \in Nat /\ paired["std"] \in Nat
      /\ paired'["FullCAN"] \in Nat /\ paired'["std"] \in Nat
  BY DEF TableInv, CountTypes
<1>6. sa'["SFF"] = FullWords(cnt') + paired'["FullCAN"]
  BY <1>2, <1>3, <1>4, <1>5 DEF RegistersExact
<1>7. sa'["SFF_GRP"] = sa'["SFF"] + StdWords(cnt') + paired'["std"]
  <2>1. sa["SFF_GRP"] = sa["SFF"] + StdWords(cnt) + paired["std"]
    BY DEF RegistersExact
  <2>2. sa'["SFF_GRP"] = (sa["SFF"] + f) + (StdWords(cnt) + paired["std"] + h)
    BY <1>2, <1>4, <1>5, <2>1
  <2>3. sa'["SFF_GRP"] = sa'["SFF"] + (StdWords(cnt') + paired'["std"])
    BY <2>2
  <2> QED
    BY <1>3, <1>4, <1>5, <2>3
<1>8. /\ sa'["EFF"] = sa'["SFF_GRP"] + cnt'["gstd"]
      /\ sa'["EFF_GRP"] = sa'["EFF"] + cnt'["ext"]
      /\ sa'["END"] = sa'["EFF_GRP"] + 2 * cnt'["gext"]
  <2>1. /\ sa["EFF"] = sa["SFF_GRP"] + cnt["gstd"]
        /\ sa["EFF_GRP"] = sa["EFF"] + cnt["ext"]
        /\ sa["END"] = sa["EFF_GRP"] + 2 * cnt["gext"]
    BY DEF RegistersExact
  <2>2. sa'["EFF"] = sa'["SFF_GRP"] + cnt'["gstd"]
    BY <1>2, <1>4, <2>1
  <2>3. sa'["EFF_GRP"] = sa'["EFF"] + cnt'["ext"]
    BY <1>2, <1>4, <2>1
  <2>4. sa'["END"] = sa'["EFF_GRP"] + 2 * cnt'["gext"]
    BY <1>2, <1>4, <2>1
  <2> QED
    BY <2>2, <2>3, <2>4
<1> QED
  BY <1>1, <1>6, <1>7, <1>8 DEF RegistersExact

\* A load: the entry is counted in its section and the registers behind it
\* advance, by a word even where the entry shares the word of the one before.
LEMMA LoadStep ==
  ASSUME TableInv, NEW s \in Sections, NEW S \in SUBSET Registers, NEW k \in {1, 2},
         Count(s, 1), Advance(S, k), UNCHANGED wiped,
         \/ s = "FullCAN" /\ S = Registers /\ k = 1 /\ Pair("FullCAN")
               /\ Total(cnt) < RamSize - 4
         \/ s = "std" /\ S = AfterStd /\ k = 1 /\ Pair("std") /\ Total(cnt) < RamSize
         \/ s = "gstd" /\ S = {"EFF", "EFF_GRP", "END"} /\ k = 1 /\ UNCHANGED paired
               /\ Total(cnt) < RamSize
         \/ s = "ext" /\ S = {"EFF_GRP", "END"} /\ k = 1 /\ UNCHANGED paired
               /\ Total(cnt) < RamSize
         \/ s = "gext" /\ S = {"END"} /\ k = 2 /\ UNCHANGED paired
               /\ Total(cnt) < RamSize - 1
  PROVE  /\ cnt' \in [Sections -> Nat] /\ sa' \in [Registers -> Int]
         /\ paired' \in [{"FullCAN", "std"} -> Nat]
         /\ RegistersFollow' /\ TableFits'
<1>1. CountTypes /\ cnt[s] + 1 >= 0
  BY DEF TableInv, CountTypes
<1>2. /\ cnt' \in [Sections -> Nat] /\ cnt'[s] = cnt[s] + 1
      /\ \A t \in Sections : t # s => cnt'[t] = cnt[t]
  BY <1>1, Counted
<1>3. /\ sa' \in [Registers -> Int]
      /\ \A r \in Registers : sa'[r] = IF r \in S THEN sa[r] + k ELSE sa[r]
  BY <1>1, Advanced DEF CountTypes
<1>4. paired' \in [{"FullCAN", "std"} -> Nat]
  BY <1>1, HalfWords DEF CountTypes, Pair, Sections
<1>5. FullWords(cnt') = IF s = "FullCAN" THEN (cnt["FullCAN"] + 2) \div 2 ELSE FullWords(cnt)
  BY <1>1, <1>2 DEF FullWords, Sections, CountTypes
<1>6. StdWords(cnt') = IF s = "std" THEN (cnt["std"] + 2) \div 2 ELSE StdWords(cnt)
  BY <1>1, <1>2 DEF StdWords, Sections, CountTypes
<1>7. /\ \A t \in Sections : cnt'[t] = cnt[t] + IF t = s THEN 1 ELSE 0
      /\ \A t \in Sections : cnt[t] \in Nat /\ cnt'[t] \in Nat
  BY <1>1, <1>2 DEF CountTypes
<1>8. /\ FullWords(cnt) \in Nat /\ StdWords(cnt) \in Nat
      /\ FullWords(cnt') \in Nat /\ StdWords(cnt') \in Nat
  BY <1>1, <1>2, Sizes DEF CountTypes
<1>9. FullWords(cnt') + paired'["FullCAN"]
        = FullWords(cnt) + paired["FullCAN"] + IF s = "FullCAN" THEN 1 ELSE 0
  <2>1. CASE s = "FullCAN"
    <3>1. paired'["FullCAN"] = paired["FullCAN"] + (cnt["FullCAN"] % 2)
      BY <1>1, <2>1 DEF Pair, CountTypes
    <3> QED
      BY <1>1, <1>5, <1>7, <2>1, <3>1, HalfWords DEF FullWords, CountTypes, Sections
  <2>2. CASE s # "FullCAN"
    <3>1. paired'["FullCAN"] = paired["FullCAN"]
      BY <1>1, <2>2 DEF Pair, CountTypes
    <3> QED
      BY <1>1, <1>5, <1>8, <2>2, <3>1 DEF CountTypes
  <2> QED
    BY <2>1, <2>2
<1>10. StdWords(cnt') + paired'["std"]
         = StdWords(cnt) + paired["std"] + IF s = "std" THEN 1 ELSE 0
  <2>1. CASE s = "std"
    <3>1. paired'["std"] = paired["std"] + (cnt["std"] % 2)
      BY <1>1, <2>1 DEF Pair, CountTypes
    <3> QED
      BY <1>1, <1>6, <1>7, <2>1, <3>1, HalfWords DEF StdWords, CountTypes, Sections
  <2>2. CASE s # "std"
    <3>1. paired'["std"] = paired["std"]
      BY <1>1, <2>2 DEF Pair, CountTypes
    <3> QED
      BY <1>1, <1>6, <1>8, <2>2, <3>1 DEF CountTypes
  <2> QED
    BY <2>1, <2>2
<1>11. RegistersFollow'
  <2> DEFINE f == IF s = "FullCAN" THEN 1 ELSE 0
             h == IF s = "std" THEN 1 ELSE 0
             g == IF s = "gstd" THEN 1 ELSE 0
             x == IF s = "ext" THEN 1 ELSE 0
             y == IF s = "gext" THEN 1 ELSE 0
  <2>1. f \in Int /\ h \in Int /\ g \in Int /\ x \in Int /\ y \in Int
    OBVIOUS
  <2>2. /\ FullWords(cnt') + paired'["FullCAN"] = FullWords(cnt) + paired["FullCAN"] + f
        /\ StdWords(cnt') + paired'["std"] = StdWords(cnt) + paired["std"] + h
    BY <1>9, <1>10
  <2>3. cnt'["gstd"] = cnt["gstd"] + g /\ cnt'["ext"] = cnt["ext"] + x
        /\ cnt'["gext"] = cnt["gext"] + y
    BY <1>7 DEF Sections
  <2>4. /\ sa["SFF"] \in Int /\ sa["SFF_GRP"] \in Int /\ sa["EFF"] \in Int
        /\ sa["EFF_GRP"] \in Int /\ sa["END"] \in Int
    BY <1>1 DEF CountTypes, Registers
  <2>5. sa'["SFF"] = sa["SFF"] + f /\ sa'["SFF_GRP"] = sa["SFF_GRP"] + f + h
    BY <1>3, <2>4 DEF Registers, AfterStd
  <2>6. /\ sa'["EFF"] = sa["EFF"] + f + h + g
        /\ sa'["EFF_GRP"] = sa["EFF_GRP"] + f + h + g + x
        /\ sa'["END"] = sa["END"] + f + h + g + x + 2 * y
    BY <1>3, <2>4 DEF Registers, AfterStd
  <2> HIDE DEF f, h, g, x, y
  <2> QED
    BY <1>2, <1>3, <1>4, <2>1, <2>2, <2>3, <2>5, <2>6, StepAgrees
<1>12. TableFits'
  <2>1. Total(cnt') = FullWords(cnt') + StdWords(cnt') + cnt'["gstd"] + cnt'["ext"]
                        + 2 * cnt'["gext"] + 3 * cnt'["FullCAN"]
    BY <1>2, Sizes
  <2>2. Total(cnt) = FullWords(cnt) + StdWords(cnt) + cnt["gstd"] + cnt["ext"]
                        + 2 * cnt["gext"] + 3 * cnt["FullCAN"]
    BY <1>1, Sizes DEF CountTypes
  <2>3. FullWords(cnt') <= FullWords(cnt) + (IF s = "FullCAN" THEN 1 ELSE 0)
    BY <1>1, <1>5, <1>8, HalfWords DEF FullWords, CountTypes, Sections
  <2>4. StdWords(cnt') <= StdWords(cnt) + (IF s = "std" THEN 1 ELSE 0)
    BY <1>1, <1>6, <1>8, HalfWords DEF StdWords, CountTypes, Sections
  <2>5. Total(cnt') <= RamSize
    BY <1>7, <1>8, <2>1, <2>2, <2>3, <2>4, AfAssumption DEF Sections
  <2> QED
    BY <2>5 DEF TableFits, Total, IdWords, GextStart, ExtStart, GstdStart, FullWords,
                StdWords
<1> QED
  BY <1>2, <1>3, <1>4, <1>11, <1>12

\* A removal: the registers behind the section go back, by the word the entry
\* leaves free.
LEMMA RemoveStep ==
  ASSUME TableInv, NEW s \in Sections, NEW S \in SUBSET Registers, NEW k \in Int,
         Count(s, -1), cnt[s] > 0, Advance(S, k), UNCHANGED <<paired, wiped>>,
         \/ s = "FullCAN" /\ S = Registers /\ k = -(cnt[s] % 2)
         \/ s = "std" /\ S = AfterStd /\ k = -(cnt[s] % 2)
         \/ s = "gstd" /\ S = {"EFF", "EFF_GRP", "END"} /\ k = -1
         \/ s = "ext" /\ S = {"EFF_GRP", "END"} /\ k = -1
         \/ s = "gext" /\ S = {"END"} /\ k = -2
  PROVE  /\ cnt' \in [Sections -> Nat] /\ sa' \in [Registers -> Int]
         /\ RegistersFollow' /\ TableFits'
<1>1. CountTypes /\ cnt[s] \in Nat /\ cnt[s] + (-1) >= 0
  BY DEF TableInv, CountTypes
<1>2. /\ cnt' \in [Sections -> Nat] /\ cnt'[s] = cnt[s] + (-1)
      /\ \A t \in Sections : t # s => cnt'[t] = cnt[t]
  BY <1>1, Counted
<1>3. /\ sa' \in [Registers -> Int]
      /\ \A r \in Registers : sa'[r] = IF r \in S THEN sa[r] + k ELSE sa[r]
  BY <1>1, Advanced
<1>4. paired' \in [{"FullCAN", "std"} -> Nat]
  BY <1>1 DEF CountTypes
<1>5. FullWords(cnt') = FullWords(cnt) + IF s = "FullCAN" THEN k ELSE 0
  <2>1. CASE s = "FullCAN"
    <3>1. FullWords(cnt') = cnt[s] \div 2 /\ FullWords(cnt) = (cnt[s] + 1) \div 2
      BY <1>1, <1>2, <2>1 DEF FullWords
    <3> QED
      BY <1>1, <2>1, <3>1, HalfWords
  <2>2. CASE s # "FullCAN"
    BY <1>1, <1>2, <2>2, Sizes DEF FullWords, CountTypes, Sections
  <2> QED
    BY <2>1, <2>2
<1>6. StdWords(cnt') = StdWords(cnt) + IF s = "std" THEN k ELSE 0
  <2>1. CASE s = "std"
    <3>1. StdWords(cnt') = cnt[s] \div 2 /\ StdWords(cnt) = (cnt[s] + 1) \div 2
      BY <1>1, <1>2, <2>1 DEF StdWords
    <3> QED
      BY <1>1, <2>1, <3>1, HalfWords
  <2>2. CASE s # "std"
    BY <1>1, <1>2, <2>2, Sizes DEF StdWords, CountTypes, Sections
  <2> QED
    BY <2>1, <2>2
<1>7. /\ \A t \in Sections : cnt'[t] = cnt[t] + IF t = s THEN -1 ELSE 0
      /\ \A t \in Sections : cnt[t] \in Nat /\ cnt'[t] \in Nat
  BY <1>1, <1>2 DEF CountTypes
<1>8. /\ FullWords(cnt) \in Nat /\ StdWords(cnt) \in Nat
      /\ FullWords(cnt') \in Nat /\ StdWords(cnt') \in Nat
      /\ paired["FullCAN"] \in Nat /\ paired["std"] \in Nat
  BY <1>1, <1>2, Sizes DEF CountTypes
<1>9. k <= 0
  BY <1>1, HalfWords
<1>10. RegistersFollow'
  <2> DEFINE f == IF s = "FullCAN" THEN k ELSE 0
             h == IF s = "std" THEN k ELSE 0
             g == IF s = "gstd" THEN -1 ELSE 0
             x == IF s = "ext" THEN -1 ELSE 0
             y == IF s = "gext" THEN -1 ELSE 0
  <2>1. f \in Int /\ h \in Int /\ g \in Int /\ x \in Int /\ y \in Int
    OBVIOUS
  <2>2. /\ FullWords(cnt') + paired'["FullCAN"] = FullWords(cnt) + paired["FullCAN"] + f
        /\ StdWords(cnt') + paired'["std"] = StdWords(cnt) + paired["std"] + h
    BY <1>5, <1>6, <1>8
  <2>3. cnt'["gstd"] = cnt["gstd"] + g /\ cnt'["ext"] = cnt["ext"] + x
        /\ cnt'["gext"] = cnt["gext"] + y
    BY <1>7 DEF Sections
  <2>4. /\ sa["SFF"] \in Int /\ sa["SFF_GRP"] \in Int /\ sa["EFF"] \in Int
        /\ sa["EFF_GRP"] \in Int /\ sa["END"] \in Int
    BY <1>1 DEF CountTypes, Registers
  <2>5. sa'["SFF"] = sa["SFF"] + f /\ sa'["SFF_GRP"] = sa["SFF_GRP"] + f + h
    BY <1>3, <2>4 DEF Registers, AfterStd
  <2>6. /\ sa'["EFF"] = sa["EFF"] + f + h + g
        /\ sa'["EFF_GRP"] = sa["EFF_GRP"] + f + h + g + x
        /\ sa'["END"] = sa["END"] + f + h + g + x + 2 * y
    BY <1>3, <2>4 DEF Registers, AfterStd
  <2> HIDE DEF f, h, g, x, y
  <2> QED
    BY <1>2, <1>3, <1>4, <2>1, <2>2, <2>3, <2>5, <2>6, StepAgrees
<1>11. TableFits'
  <2>1. Total(cnt') = FullWords(cnt') + StdWords(cnt') + cnt'["gstd"] + cnt'["ext"]
                        + 2 * cnt'["gext"] + 3 * cnt'["FullCAN"]
    BY <1>2, Sizes
  <2>2. Total(cnt) = FullWords(cnt) + StdWords(cnt) + cnt["gstd"] + cnt["ext"]
                        + 2 * cnt["gext"] + 3 * cnt["FullCAN"]
    BY <1>1, Sizes DEF CountTypes
  <2>3. FullWords(cnt') <= FullWords(cnt) /\ StdWords(cnt') <= StdWords(cnt)
    BY <1>5, <1>6, <1>8, <1>9
  <2>4. \A t \in Sections : cnt'[t] <= cnt[t]
    BY <1>7
  <2>5. Total(cnt') <= Total(cnt) /\ Total(cnt) \in Int /\ Total(cnt') \in Int
    BY <1>7, <1>8, <2>1, <2>2, <2>3, <2>4 DEF Sections
  <2>6. Total(cnt') <= RamSize
    BY <2>5, AfAssumption DEF TableInv, TableFits
  <2> QED
    BY <2>6 DEF TableFits, Total, IdWords, GextStart, ExtStart, GstdStart, FullWords,
                StdWords
<1> QED
  BY <1>2, <1>3, <1>10, <1>11

\* A call that returns with an error, or that only writes the mode.
LEMMA CountsStay ==
  ASSUME TableInv, UNCHANGED <<cnt, sa, paired, wiped>>, ret' # "CAN_OK",
         AFMR' \in {Normal, AccOff, AccBP, eFCAN}
  PROVE  TableInv'
BY DEF TableInv, CountTypes, RegistersFollow, RegistersExact, TableFits, OnAfterSuccess,
       Total, IdWords, GextStart, ExtStart, GstdStart, FullWords, StdWords

\* Every load and every removal keeps the counters, the registers and the mode
\* in step, also when it fails.
LEMMA TableStep == TableInv /\ [Next]_vars => TableInv'
<1> SUFFICES ASSUME TableInv, [Next]_vars
             PROVE  TableInv'
  OBVIOUS
<1> USE DEF Sections, Registers, AfterStd
<1>1. ASSUME NEW error \in Results, error # "CAN_OK",
             NEW mode \in {Normal, AccOff, AccBP, eFCAN}, Refuse(error, mode)
      PROVE  TableInv'
  BY <1>1, CountsStay DEF Refuse
<1>2. AFMR \in {Normal, AccOff, AccBP, eFCAN}
  BY DEF TableInv, CountTypes
<1>3. ASSUME NEW l \in StdLoads, CAN_LoadExplicitStd(l[1], l[2])
      PROVE  TableInv'
  <2>1. CASE Refuse("CAN_OBJECTS_FULL_ERROR", AFMR)
    BY <1>1, <1>2, <2>1 DEF Results
  <2>2. CASE ~Refuse("CAN_OBJECTS_FULL_ERROR", AFMR)
    <3>1. /\ Total(cnt) < RamSize /\ Count("std", 1) /\ Advance(AfterStd, 1)
          /\ Pair("std") /\ UNCHANGED wiped
          /\ AFMR' = IF cnt["FullCAN"] = 0 THEN Normal ELSE eFCAN
      BY <1>3, <2>2 DEF CAN_LoadExplicitStd
    <3>2. /\ cnt' \in [Sections -> Nat] /\ sa' \in [Registers -> Int]
          /\ paired' \in [{"FullCAN", "std"} -> Nat]
          /\ RegistersFollow' /\ TableFits'
      BY <3>1, LoadStep
    <3>3. cnt'["FullCAN"] = cnt["FullCAN"] /\ cnt["FullCAN"] \in Nat
      BY <3>1 DEF Count, TableInv, CountTypes
    <3>4. OnAfterSuccess' /\ AFMR' \in {Normal, AccOff, AccBP, eFCAN}
      BY <3>1, <3>3 DEF OnAfterSuccess
    <3>5. wiped' \in BOOLEAN
      BY <3>1 DEF TableInv, CountTypes
    <3> QED
      BY <3>2, <3>4, <3>5 DEF TableInv, CountTypes
  <2> QED
    BY <2>1, <2>2
<1>4. ASSUME NEW l \in ExtLoads, CAN_LoadExplicitExt(l[1], l[2])
      PROVE  TableInv'
  <2>1. CASE Refuse("CAN_OBJECTS_FULL_ERROR", AFMR)
    BY <1>1, <1>2, <2>1 DEF Results
  <2>2. CASE ~Refuse("CAN_OBJECTS_FULL_ERROR", AFMR)
    <3>1. /\ Total(cnt) < RamSize /\ Count("ext", 1) /\ Advance({"EFF_GRP", "END"}, 1)
          /\ UNCHANGED <<paired, wiped>>
          /\ AFMR' = IF cnt["FullCAN"] = 0 THEN Normal ELSE eFCAN
      BY <1>4, <2>2 DEF CAN_LoadExplicitExt
    <3>2. /\ cnt' \in [Sections -> Nat] /\ sa' \in [Registers -> Int]
          /\ paired' \in [{"FullCAN", "std"} -> Nat]
          /\ RegistersFollow' /\ TableFits'
      BY <3>1, LoadStep
    <3>3. cnt'["FullCAN"] = cnt["FullCAN"] /\ cnt["FullCAN"] \in Nat
      BY <3>1 DEF Count, TableInv, CountTypes
    <3>4. OnAfterSuccess' /\ AFMR' \in {Normal, AccOff, AccBP, eFCAN}
      BY <3>1, <3>3 DEF OnAfterSuccess
    <3>5. wiped' \in BOOLEAN
      BY <3>1 DEF TableInv, CountTypes
    <3> QED
      BY <3>2, <3>4, <3>5 DEF TableInv, CountTypes
  <2> QED
    BY <2>1, <2>2
<1>5. ASSUME NEW l \in FullLoads, CAN_LoadFullCANEntry(l[1], l[2])
      PROVE  TableInv'
  <2>1. CASE Refuse("CAN_OBJECTS_FULL_ERROR", AFMR)
    BY <1>1, <1>2, <2>1 DEF Results
  <2>2. CASE ~Refuse("CAN_OBJECTS_FULL_ERROR", AFMR)
    <3>1. /\ Total(cnt) < RamSize - 4 /\ Count("FullCAN", 1) /\ Advance(Registers, 1)
          /\ Pair("FullCAN") /\ UNCHANGED wiped /\ AFMR' = eFCAN
      BY <1>5, <2>2 DEF CAN_LoadFullCANEntry
    <3>2. /\ cnt' \in [Sections -> Nat] /\ sa' \in [Registers -> Int]
          /\ paired' \in [{"FullCAN", "std"} -> Nat]
          /\ RegistersFollow' /\ TableFits'
      BY <3>1, LoadStep
    <3> QED
      BY <3>1, <3>2 DEF TableInv, CountTypes, OnAfterSuccess
  <2> QED
    BY <2>1, <2>2
<1>6. ASSUME NEW q \in StdGroups, CAN_LoadGroupStd(q[1], q[2], q[3])
      PROVE  TableInv'
  <2>1. CASE \E error \in Results \ {"CAN_OK"}, mode \in {AFMR, AccOff} : Refuse(error, mode)
    BY <1>1, <1>2, <2>1
  <2>2. CASE ~\E error \in Results \ {"CAN_OK"}, mode \in {AFMR, AccOff} : Refuse(error, mode)
    <3>1. /\ Total(cnt) < RamSize /\ Count("gstd", 1)
          /\ Advance({"EFF", "EFF_GRP", "END"}, 1) /\ UNCHANGED <<paired, wiped>> /\ AFMR' = eFCAN
      BY <1>6, <2>2 DEF CAN_LoadGroupStd, Results
    <3>2. /\ cnt' \in [Sections -> Nat] /\ sa' \in [Registers -> Int]
          /\ paired' \in [{"FullCAN", "std"} -> Nat]
          /\ RegistersFollow' /\ TableFits'
      BY <3>1, LoadStep
    <3> QED
      BY <3>1, <3>2 DEF TableInv, CountTypes, OnAfterSuccess
  <2> QED
    BY <2>1, <2>2
<1>7. ASSUME NEW q \in ExtGroups, CAN_LoadGroupExt(q[1], q[2], q[3])
      PROVE  TableInv'
  <2>1. CASE \E error \in Results \ {"CAN_OK"}, mode \in {AFMR, AccOff} : Refuse(error, mode)
    BY <1>1, <1>2, <2>1
  <2>2. CASE ~\E error \in Results \ {"CAN_OK"}, mode \in {AFMR, AccOff} : Refuse(error, mode)
    <3>1. /\ ~NoRoomForPair(Total(cnt)) /\ Count("gext", 1)
          /\ Advance({"END"}, 2) /\ UNCHANGED <<paired, wiped>> /\ AFMR' = eFCAN
      BY <1>7, <2>2 DEF CAN_LoadGroupExt, Results
    <3>2. Total(cnt) < RamSize - 1
      BY <3>1, Sizes, AfAssumption DEF NoRoomForPair, TableInv, CountTypes
    <3>3. /\ cnt' \in [Sections -> Nat] /\ sa' \in [Registers -> Int]
          /\ paired' \in [{"FullCAN", "std"} -> Nat]
          /\ RegistersFollow' /\ TableFits'
      BY <3>1, <3>2, LoadStep
    <3> QED
      BY <3>1, <3>3 DEF TableInv, CountTypes, OnAfterSuccess
  <2> QED
    BY <2>1, <2>2
<1>8. ASSUME NEW s \in Sections, NEW p \in Nat, Removal(s, p)
      PROVE  cnt[s] > 0 /\ Count(s, -1) /\ UNCHANGED <<paired, wiped>> /\ AFMR' = eFCAN
  BY <1>8 DEF Removal, TableInv, CountTypes
<1>9. ASSUME cnt' \in [Sections -> Nat], sa' \in [Registers -> Int],
             UNCHANGED <<paired, wiped>>, RegistersFollow', TableFits', AFMR' = eFCAN
      PROVE  TableInv'
  BY <1>9 DEF TableInv, CountTypes, OnAfterSuccess
<1>10. ASSUME NEW p \in 0 .. MaxEntries, CAN_RemoveFullCAN(p)
       PROVE  TableInv'
  <2>1. Removal("FullCAN", p) /\ Advance(Registers, -(cnt["FullCAN"] % 2)) /\ p \in Nat
    BY <1>10, AfAssumption DEF CAN_RemoveFullCAN
  <2>2. -(cnt["FullCAN"] % 2) \in Int
    BY HalfWords DEF TableInv, CountTypes
  <2> QED
    BY <1>8, <1>9, <2>1, <2>2, RemoveStep
<1>11. ASSUME NEW p \in 0 .. MaxEntries, CAN_RemoveExplicitStd(p)
       PROVE  TableInv'
  <2>1. Removal("std", p) /\ Advance(AfterStd, -(cnt["std"] % 2)) /\ p \in Nat
    BY <1>11, AfAssumption DEF CAN_RemoveExplicitStd
  <2>2. -(cnt["std"] % 2) \in Int
    BY HalfWords DEF TableInv, CountTypes
  <2> QED
    BY <1>8, <1>9, <2>1, <2>2, RemoveStep
<1>12. ASSUME NEW p \in 0 .. MaxEntries, CAN_RemoveGroupStd(p)
       PROVE  TableInv'
  <2>1. Removal("gstd", p) /\ Advance({"EFF", "EFF_GRP", "END"}, -1) /\ p \in Nat
    BY <1>12, AfAssumption DEF CAN_RemoveGroupStd
  <2> QED
    BY <1>8, <1>9, <2>1, RemoveStep
<1>13. ASSUME NEW p \in 0 .. MaxEntries, CAN_RemoveExplicitExt(p)
       PROVE  TableInv'
  <2>1. Removal("ext", p) /\ Advance({"EFF_GRP", "END"}, -1) /\ p \in Nat
    BY <1>13, AfAssumption DEF CAN_RemoveExplicitExt
  <2> QED
    BY <1>8, <1>9, <2>1, RemoveStep
<1>14. ASSUME NEW p \in 0 .. MaxEntries, CAN_RemoveGroupExt(p)
       PROVE  TableInv'
  <2>1. Removal("gext", p) /\ Advance({"END"}, -2) /\ p \in Nat
    BY <1>14, AfAssumption DEF CAN_RemoveGroupExt
  <2> QED
    BY <1>8, <1>9, <2>1, RemoveStep
<1>15. ASSUME NEW s \in Sections, NEW p, RemoveNothing(s, p)
       PROVE  TableInv'
  BY <1>1, <1>15 DEF RemoveNothing, Results
<1>16. ASSUME NEW mode \in {Normal, AccOff, AccBP, eFCAN}, CAN_SetAFMode(mode)
       PROVE  TableInv'
  BY <1>16, CountsStay DEF CAN_SetAFMode
<1>17. CASE CAN_Init
  <2>1. /\ cnt' = cnt /\ sa' = [r \in Registers |-> 0]
        /\ paired' = [s \in {"FullCAN", "std"} |-> 0] /\ wiped' \in BOOLEAN
        /\ AFMR' = Normal /\ ret' = "none"
    BY <1>17 DEF CAN_Init
  <2>2. RegistersFollow'
    <3>1. CASE cnt # [s \in Sections |-> 0]
      BY <1>17, <3>1 DEF CAN_Init, RegistersFollow
    <3>2. CASE cnt = [s \in Sections |-> 0]
      <4>1. \A s \in Sections : cnt'[s] = 0
        BY <2>1, <3>2
      <4>2. FullWords(cnt)' = 0 /\ StdWords(cnt)' = 0
        BY <4>1 DEF FullWords, StdWords
      <4>. QED
        BY <2>1, <4>1, <4>2 DEF RegistersFollow, RegistersExact
    <3>. QED
      BY <3>1, <3>2
  <2>3. TableFits'
    BY <2>1 DEF TableInv, TableFits, Total, IdWords, GextStart, ExtStart,
                GstdStart, FullWords, StdWords
  <2> QED
    BY <2>1, <2>2, <2>3 DEF TableInv, CountTypes, OnAfterSuccess
<1>18. CASE UNCHANGED vars
  BY <1>18 DEF vars, TableInv, CountTypes, RegistersFollow, RegistersExact, TableFits,
               OnAfterSuccess, Total, IdWords, GextStart, ExtStart, GstdStart, FullWords,
               StdWords
<1>19. CASE Load
  BY <1>19, <1>3, <1>4, <1>5, <1>6, <1>7 DEF Load
<1> QED
  BY <1>10, <1>11, <1>12, <1>13, <1>14, <1>15, <1>16, <1>17, <1>18, <1>19 DEF Next

\* The invariant holds when the filter's RAM is cleared, and ever after.
LEMMA TableHolds == Spec => []TableInv
<1>1. Init => TableInv
  <2> SUFFICES ASSUME Init
               PROVE  TableInv
    OBVIOUS
  <2>1. CountTypes
    <3>1. wiped \in BOOLEAN
      BY DEF Init
    <3> QED
      BY <3>1 DEF Init, CountTypes
  <2>2. FullWords(cnt) = 0 /\ StdWords(cnt) = 0
    BY DEF Init, FullWords, StdWords, Sections
  <2>3. RegistersFollow
    BY <2>2 DEF Init, RegistersFollow, RegistersExact, Registers, Sections
  <2>4. TableFits
    BY <2>1, <2>2, Sizes, AfAssumption DEF CountTypes, TableFits, Init, Sections
  <2> QED
    BY <2>1, <2>3, <2>4 DEF TableInv, OnAfterSuccess, Init
<1> QED
  BY <1>1, TableStep, PTL DEF Spec

\* SFF_sa .. ENDofTable follow the sections through every sequence of loads and
\* removals, up to a word for each entry loaded into the second half of a word,
\* and leave them only where CAN_Init is called while entries are counted.
THEOREM RegistersAlwaysFollow == Spec => []RegistersFollow
<1>1. TableInv => RegistersFollow
  BY DEF TableInv
<1> QED
  BY <1>1, TableHolds, PTL

\* The tests for a full RAM keep the table with its FullCAN objects inside it,
\* for every size of the RAM and every mix of the five kinds of entries.
THEOREM TableAlwaysFits == Spec => []TableFits
<1>1. TableInv => TableFits
  BY DEF TableInv
<1> QED
  BY <1>1, TableHolds, PTL

\* A call that returns CAN_OK leaves the filter on, in FullCAN mode if there are
\* FullCAN entries.
THEOREM SuccessLeavesOn == Spec => []OnAfterSuccess
<1>1. TableInv => OnAfterSuccess
  BY DEF TableInv
<1> QED
  BY <1>1, TableHolds, PTL

-----------------------------------------------------------------------------
(* What the RAM holds, and the memory behind it that the loops reach.      *)

Ram == [0 .. MemSize - 1 -> Word]
HalfWord == 0 .. Half - 1

\* The least element of a set of numbers is one of them, and none is less.
LEMMA MinTyped ==
  ASSUME NEW S \in SUBSET Nat, S # {}
  PROVE  Min(S) \in S /\ \A y \in S : Min(S) <= y
<1>1. \E x \in S : \A y \in S : <<y, x>> \notin OpToRel(<, Nat)
  BY NatLessThanWellFounded, WFMin, Zenon
<1>2. \A x, y \in Nat : <<y, x>> \notin OpToRel(<, Nat) => ~(y < x)
  BY Zenon DEF OpToRel
<1>3. \A x, y \in Nat : ~(y < x) => x <= y
  OBVIOUS
<1>4. \E x \in S : \A y \in S : x <= y
  BY <1>1, <1>2, <1>3
<1>. QED
  BY <1>4 DEF Min

\* Two half-words make a word, and a word is two half-words.
LEMMA WordParts ==
  /\ Half \in Nat \ {0} /\ Half * Half \in Nat /\ Half <= Half * Half
  /\ \A a, b \in HalfWord : a * Half + b \in Word
  /\ \A w \in Word : w \div Half \in HalfWord /\ w % Half \in HalfWord
<1>1. Half \in Nat \ {0}
  BY AfAssumption DEF Half
<1>. PICK H \in Nat \ {0} : H = Half
  BY <1>1
<1>2. H * H \in Nat /\ H <= H * H
  OBVIOUS
<1>3. ASSUME NEW a \in 0 .. H - 1, NEW b \in 0 .. H - 1
      PROVE  a * H + b \in 0 .. H * H - 1
  <2>1. a * H <= (H - 1) * H /\ (H - 1) * H = H * H - H /\ a * H \in Nat
    OBVIOUS
  <2>. PICK x \in Nat, y \in Nat : x = a * H /\ y = H * H
    BY <2>1
  <2>. QED
    BY <2>1
<1>4. ASSUME NEW w \in 0 .. H * H - 1
      PROVE  w \div H \in 0 .. H - 1 /\ w % H \in 0 .. H - 1
  <2>1. w \in Nat /\ w < H * H
    BY <1>2
  <2>2. w \div H \in Nat /\ w % H \in 0 .. H - 1 /\ w = H * (w \div H) + (w % H)
    BY <2>1
  <2>. PICK q \in Nat, r \in 0 .. H - 1 : q = w \div H /\ w = H * q + r
    BY <2>2
  <2>3. q < H
    <3>. SUFFICES ASSUME q >= H PROVE FALSE
      OBVIOUS
    <3>1. H * q >= H * H
      OBVIOUS
    <3>. PICK x \in Nat, y \in Nat : x = H * q /\ y = H * H
      OBVIOUS
    <3>. QED
      BY <2>1, <3>1
  <2>. QED
    BY <2>2, <2>3
<1>. QED
  BY <1>2, <1>3, <1>4 DEF Word, HalfWord

\* Entries fit the words and half-words they are stored in.
LEMMA EntriesFit ==
  /\ \A c \in Ctrl, id \in StdIds :
       StdEntry(c, id) \in HalfWord /\ FullEntry(c, id) \in HalfWord
  /\ \A c \in Ctrl, id \in ExtIds : ExtEntry(c, id) \in Word
  /\ \A c \in Ctrl, lower, upper \in StdIds :
       GroupEntry(c, lower, upper) \in Word
<1>1. ASSUME NEW c \in Ctrl, NEW id \in StdIds
      PROVE  StdEntry(c, id) \in HalfWord /\ FullEntry(c, id) \in HalfWord
  BY AfAssumption DEF Ctrl, StdIds, StdEntry, FullEntry, HalfWord, Half
<1>2. ASSUME NEW c \in Ctrl, NEW id \in ExtIds PROVE ExtEntry(c, id) \in Word
  <2>. PICK n \in Nat : n = Half * Half
    BY WordParts
  <2>1. n \div 8 \in Nat /\ 8 * (n \div 8) <= n
    OBVIOUS
  <2>. PICK x \in Nat : x = ExtRange /\ 8 * x <= n
    BY <2>1 DEF ExtRange
  <2>. QED
    BY DEF Ctrl, ExtIds, ExtEntry, Word
<1>. QED
  BY <1>1, <1>2, WordParts DEF GroupEntry

\* What is read is a word or a half-word, wherever it is read.
LEMMA Reads ==
  ASSUME NEW m \in Ram, NEW i
  PROVE  WordAt(m, i) \in Word /\ HalfAt(m, i) \in HalfWord
<1>1. \A w : WordAt(m, w) \in Word
  BY WordParts DEF WordAt, Ram, Word
<1>. QED
  BY <1>1, WordParts DEF HalfAt

\* Words that move up are words.
LEMMA MoveUpWrites ==
  ASSUME NEW m \in Ram, NEW a \in Nat, NEW to, NEW k \in Nat
  PROVE  MoveUp(m, a, to, k) \in Ram
<1>1. DOMAIN m = 0 .. MemSize - 1 /\ MemSize \in Nat
  BY AfAssumption DEF Ram
<1>2. \A w \in 0 .. MemSize - 1 : a + k <= w => w - k \in 0 .. MemSize - 1
  BY <1>1
<1>. QED
  BY <1>1, <1>2 DEF MoveUp, Ram

\* So are words that move down: past the RAM there are zeros.
LEMMA MoveDownWrites ==
  ASSUME NEW m \in Ram, NEW a, NEW to, NEW k
  PROVE  MoveDown(m, a, to, k) \in Ram
<1>1. DOMAIN m = 0 .. MemSize - 1 /\ \A w \in DOMAIN m : m[w] \in Word
  BY DEF Ram
<1>2. \A w : WordAt(m, w) \in Word
  BY Reads
<1>. QED
  BY <1>1, <1>2 DEF MoveDown, Ram

\* A word is put into the RAM, or past its end.
LEMMA PutWrites ==
  ASSUME NEW m \in Ram, NEW a, NEW e \in Word
  PROVE  Put(m, a, e) \in Ram
  BY DEF Put, Ram

\* The word that takes the place of one taken out is a word.
LEMMA DropWrites ==
  ASSUME NEW m \in Ram, NEW a, NEW end
  PROVE  Drop(m, a, end) \in Ram
<1>1. 0 \in Word
  BY WordParts DEF Word
<1>. QED
  BY <1>1, MoveDownWrites, PutWrites DEF Drop

\* Half-words are written in pairs, and make words.
LEMMA HalfWrites ==
  ASSUME NEW m \in Ram, NEW o \in Nat, NEW k \in Nat,
         NEW h \in [0 .. 2 * k - 1 -> HalfWord]
  PROVE  PutHalves(m, o, k, h) \in Ram
<1>1. ASSUME NEW w \in 0 .. MemSize - 1, o <= w, w < o + k
      PROVE  h[2 * (w - o)] * Half + h[2 * (w - o) + 1] \in Word
  <2>1. w \in Nat /\ 2 * (w - o) \in 0 .. 2 * k - 1
          /\ 2 * (w - o) + 1 \in 0 .. 2 * k - 1
    BY <1>1, AfAssumption
  <2>. QED
    BY <2>1, WordParts
<1>. QED
  BY <1>1 DEF PutHalves, Ram

\* The place of a half-word is a number.
LEMMA HalfPlaceTyped ==
  ASSUME NEW m, NEW o, NEW n \in Nat, NEW e
  PROVE  HalfPlace(m, o, n, e) \in 0 .. n
<1> DEFINE S == {j \in 0 .. n - 1 : HalfAt(m, 2 * o + j) > e} \cup {n}
<1>1. S \in SUBSET (0 .. n) /\ S \in SUBSET Nat /\ S # {}
  OBVIOUS
<1>2. HalfPlace(m, o, n, e) = Min(S)
  BY DEF HalfPlace
<1> HIDE DEF S
<1>. QED
  BY <1>1, <1>2, MinTyped

\* Inserting and removing half-words.
LEMMA HalfMoves ==
  ASSUME NEW m \in Ram, NEW o \in Nat, NEW n \in Nat
  PROVE  /\ \A e \in HalfWord : HalfInsert(m, o, n, e) \in Ram
         /\ \A e \in HalfWord : HalfLoad(m, o, n, e) \in Ram
         /\ \A p \in Nat : HalfRemove(m, o, n, p) \in Ram
<1>0. Filler \in HalfWord /\ 0 \in HalfWord /\ \A i : HalfAt(m, i) \in HalfWord
  BY Reads, WordParts DEF Filler, HalfWord
<1>1. ASSUME NEW e \in HalfWord PROVE HalfInsert(m, o, n, e) \in Ram
  <2> DEFINE p == HalfPlace(m, o, n, e)
             k == (n + 2) \div 2
             h == [j \in 0 .. 2 * k - 1 |->
                     CASE j < p            -> HalfAt(m, 2 * o + j)
                       [] j = p            -> e
                       [] p < j /\ j <= n  -> HalfAt(m, 2 * o + j - 1)
                       [] OTHER            -> Filler]
  <2>1. HalfInsert(m, o, n, e) = PutHalves(m, o, k, h)
    BY DEF HalfInsert
  <2>2. k \in Nat /\ p \in Nat
    BY HalfPlaceTyped
  <2> HIDE DEF p, k
  <2>3. \A j \in 0 .. 2 * k - 1 : h[j] \in HalfWord
    BY <1>0, <2>2
  <2>4. h \in [0 .. 2 * k - 1 -> HalfWord]
    BY <2>3
  <2> HIDE DEF h
  <2>. QED
    BY <2>1, <2>2, <2>4, HalfWrites
<1>2. ASSUME NEW p \in Nat PROVE HalfRemove(m, o, n, p) \in Ram
  <2> DEFINE k == (n + 1) \div 2
             old(j) == HalfAt(m, 2 * o + j)
             h == [j \in 0 .. 2 * k - 1 |->
                     CASE j < p -> old(j)
                       [] j >= p /\ j >= n - 1 -> Filler
                       [] j >= p /\ j = n - 2 /\ n % 2 = 1 /\ p % 2 = 1
                            -> IF p = n - 2 THEN old(j) ELSE 0
                       [] OTHER -> old(j + 1)]
  <2>1. HalfRemove(m, o, n, p) = PutHalves(m, o, k, h)
    BY DEF HalfRemove
  <2>2. k \in Nat
    BY HalfWords
  <2> HIDE DEF k
  <2>3. \A j \in 0 .. 2 * k - 1 : h[j] \in HalfWord
    BY <1>0, <2>2
  <2>4. h \in [0 .. 2 * k - 1 -> HalfWord]
    BY <2>3
  <2> HIDE DEF h
  <2>. QED
    BY <2>1, <2>2, <2>4, HalfWrites
<1>3. ASSUME NEW e \in HalfWord PROVE HalfLoad(m, o, n, e) \in Ram
  <2> DEFINE w == o + (n + 1) \div 2
             v == (WordAt(m, w) \div Half) * Half + e
  <2>1. v \in Word
    <3>1. WordAt(m, w) \div Half \in HalfWord
      BY Reads, WordParts
    <3>. QED
      BY <3>1, WordParts
  <2>2. HalfLoad(m, o, n, e) = IF Overlooked(m, o, n, e) THEN Put(m, w, v)
                                                         ELSE HalfInsert(m, o, n, e)
    BY DEF HalfLoad
  <2> HIDE DEF v, w
  <2>. QED
    BY <1>1, <2>1, <2>2, PutWrites
<1>. QED
  BY <1>1, <1>2, <1>3

\* The RAM holds words, and what the callers see is a documented result.
RamInv == mask \in Ram /\ ret \in Results /\ removed \in Nat

\* A load writes words, or it is refused.
LEMMA LoadKeepsRam ==
  ASSUME TableInv, RamInv, Load
  PROVE  RamInv'
<1>1. mask \in Ram /\ ret \in Results /\ removed \in Nat
  BY DEF RamInv
<1>. PICK m \in Ram : m = mask
  BY <1>1
<1>2. /\ FullWords(cnt) \in Nat /\ StdWords(cnt) \in Nat
      /\ GstdStart(cnt) \in Nat /\ ExtStart(cnt) \in Nat
      /\ GextStart(cnt) \in Nat /\ IdWords(cnt) \in Nat /\ Total(cnt) \in Nat
      /\ \A s \in Sections : cnt[s] \in Nat
      /\ Total(cnt) = IdWords(cnt) + 3 * cnt["FullCAN"]
  BY Sizes DEF TableInv, CountTypes, GstdStart, ExtStart, GextStart, IdWords,
               Total, Sections
<1>3. ASSUME NEW error \in Results, NEW mode, Refuse(error, mode) PROVE RamInv'
  BY <1>1, <1>3 DEF Refuse, RamInv
<1>4. ASSUME mask' \in Ram, ret' = "CAN_OK", UNCHANGED removed PROVE RamInv'
  BY <1>1, <1>4 DEF RamInv, Results
<1>5. ASSUME NEW S, NEW n \in Nat, S \subseteq 0 .. n - 1
      PROVE  Min(S \cup {n}) \in Nat
  <2>1. S \cup {n} \in SUBSET Nat /\ S \cup {n} # {}
    BY <1>5
  <2>. QED
    BY <2>1, MinTyped
<1>6. "CAN_OBJECTS_FULL_ERROR" \in Results /\ "CAN_CONFLICT_ID_ERROR" \in Results
  BY DEF Results
<1>7. ASSUME NEW l \in StdLoads, CAN_LoadExplicitStd(l[1], l[2])
      PROVE  RamInv'
  <2>1. CASE Refuse("CAN_OBJECTS_FULL_ERROR", AFMR)
    BY <1>3, <1>6, <2>1
  <2>2. CASE ~Refuse("CAN_OBJECTS_FULL_ERROR", AFMR)
    <3> DEFINE r == IF cnt["std"] % 2 = 0
                    THEN MoveUp(mask, GstdStart(cnt), Total(cnt), 1) ELSE mask
    <3>1. /\ mask' = HalfLoad(r, FullWords(cnt), cnt["std"],
                              StdEntry(l[1], l[2]))
          /\ ret' = "CAN_OK" /\ UNCHANGED removed
      BY <1>7, <2>2 DEF CAN_LoadExplicitStd
    <3>2. r \in Ram
      BY <1>1, <1>2, MoveUpWrites
    <3>3. StdEntry(l[1], l[2]) \in HalfWord /\ cnt["std"] \in Nat
      BY <1>2, EntriesFit, AfAssumption DEF Sections
    <3> HIDE DEF r
    <3>4. mask' \in Ram
      BY <1>2, <3>1, <3>2, <3>3, HalfMoves
    <3>. QED
      BY <1>4, <3>1, <3>4
  <2>. QED
    BY <2>1, <2>2
<1>8. ASSUME NEW l \in ExtLoads, CAN_LoadExplicitExt(l[1], l[2])
      PROVE  RamInv'
  <2>1. CASE Refuse("CAN_OBJECTS_FULL_ERROR", AFMR)
    BY <1>3, <1>6, <2>1
  <2>2. CASE ~Refuse("CAN_OBJECTS_FULL_ERROR", AFMR)
    <3> DEFINE e == ExtEntry(l[1], l[2])
               p == ExtPlace(mask, e)
               S == {j \in 0 .. cnt["ext"] - 1 :
                       WordAt(mask, ExtStart(cnt) + j) > e}
    <3>1. /\ mask' = Put(MoveUp(mask, p, ExtStart(cnt) + Total(cnt), 1), p, e)
          /\ ret' = "CAN_OK" /\ UNCHANGED removed
      BY <1>8, <2>2 DEF CAN_LoadExplicitExt
    <3>2. e \in Word /\ cnt["ext"] \in Nat
      BY <1>2, EntriesFit, AfAssumption DEF Sections
    <3>3. p = ExtStart(cnt) + Min(S \cup {cnt["ext"]})
      BY DEF ExtPlace
    <3>4. S \subseteq 0 .. cnt["ext"] - 1
      OBVIOUS
    <3> HIDE DEF S, p, e
    <3>5. p \in Nat
      <4>1. Min(S \cup {cnt["ext"]}) \in Nat
        BY <1>5, <3>2, <3>4
      <4>. QED
        BY <1>2, <3>3, <4>1
    <3>6. MoveUp(mask, p, ExtStart(cnt) + Total(cnt), 1) \in Ram
      BY <1>1, <1>2, <3>5, MoveUpWrites
    <3>7. mask' \in Ram
      BY <3>1, <3>2, <3>5, <3>6, PutWrites
    <3>. QED
      BY <1>4, <3>1, <3>7
  <2>. QED
    BY <2>1, <2>2
<1>9. ASSUME NEW l \in FullLoads, CAN_LoadFullCANEntry(l[1], l[2])
      PROVE  RamInv'
  <2>1. CASE Refuse("CAN_OBJECTS_FULL_ERROR", AFMR)
    BY <1>3, <1>6, <2>1
  <2>2. CASE ~Refuse("CAN_OBJECTS_FULL_ERROR", AFMR)
    <3> DEFINE t == Total(cnt)
               n == cnt["FullCAN"]
               e == FullEntry(l[1], l[2])
               r == IF n % 2 = 0 /\ t # 0
                    THEN MoveUp(mask, n \div 2, n \div 2 + t, 1) ELSE mask
               p == IF n < 2 THEN 0 ELSE HalfPlace(mask, 0, n, e)
               at == t - 3 * n + 3 * p + 1
               obj == MoveUp(HalfLoad(r, 0, n, e), at, at + 3 * (n - p) + 2, 3)
    <3>1. /\ mask' = [w \in DOMAIN mask |->
                        IF w \in at .. at + 2 THEN 0 ELSE obj[w]]
          /\ ret' = "CAN_OK" /\ UNCHANGED removed
      BY <1>9, <2>2 DEF CAN_LoadFullCANEntry
    <3>2. e \in HalfWord /\ n \in Nat /\ t \in Nat /\ t - 3 * n \in Nat
      BY <1>2, EntriesFit, AfAssumption DEF Sections
    <3>3. r \in Ram
      <4>1. n \div 2 \in Nat /\ n \div 2 + t \in Int
        BY <3>2
      <4>. QED
        BY <1>1, <4>1, MoveUpWrites
    <3>4. p \in Nat
      BY <3>2, HalfPlaceTyped
    <3> HIDE DEF t, n, e, r, p
    <3>5. HalfLoad(r, 0, n, e) \in Ram
      BY <3>2, <3>3, HalfMoves
    <3>6. at \in Nat /\ at + 3 * (n - p) + 2 \in Int
      BY <3>2, <3>4
    <3>7. obj \in Ram
      BY <3>5, <3>6, MoveUpWrites
    <3>8. 0 \in Word
      BY WordParts DEF Word
    <3> HIDE DEF obj, at
    <3>9. mask' \in Ram
      BY <1>1, <3>1, <3>7, <3>8 DEF Ram
    <3>. QED
      BY <1>4, <3>1, <3>9
  <2>. QED
    BY <2>1, <2>2
<1>10. ASSUME NEW n \in Nat, NEW lid, NEW uid, NEW lower, NEW upper
       PROVE  GroupPlace(n, lid, uid, lower, upper) \in Nat
  <2> DEFINE S == {j \in 0 .. n - 1 : upper <= lid[j] \/ lower < uid[j]}
  <2>1. GroupPlace(n, lid, uid, lower, upper) = Min(S \cup {n})
    BY DEF GroupPlace
  <2>2. S \subseteq 0 .. n - 1
    OBVIOUS
  <2> HIDE DEF S
  <2>. QED
    BY <1>5, <2>1, <2>2
<1>11. ASSUME NEW g \in StdGroups, CAN_LoadGroupStd(g[1], g[2], g[3])
       PROVE  RamInv'
  <2>1. CASE \E error \in Results, mode \in {AFMR, AccOff} : Refuse(error, mode)
    BY <1>3, <2>1
  <2>2. CASE ~\E error \in Results, mode \in {AFMR, AccOff} : Refuse(error, mode)
    <3> DEFINE n == cnt["gstd"]
               word(j) == WordAt(mask, GstdStart(cnt) + j)
               lid == [j \in 0 .. n - 1 |-> (word(j) \div Half) % StdRange]
               uid == [j \in 0 .. n - 1 |-> word(j) % StdRange]
               p == GroupPlace(n, lid, uid, g[2], g[3])
               at == GstdStart(cnt) + p
               r == IF n = 0 THEN mask ELSE MoveUp(mask, at, Total(cnt), 1)
    <3>1. /\ mask' = Put(r, at, GroupEntry(g[1], g[2], g[3]))
          /\ ret' = "CAN_OK" /\ UNCHANGED removed
      BY <1>6, <1>11, <2>2 DEF CAN_LoadGroupStd
    <3>2. GroupEntry(g[1], g[2], g[3]) \in Word /\ n \in Nat
      BY <1>2, EntriesFit, AfAssumption DEF Sections
    <3>3. p \in Nat
      BY <1>10, <3>2
    <3> HIDE DEF p, lid, uid
    <3>4. at \in Nat
      BY <1>2, <3>3
    <3> HIDE DEF at
    <3>5. r \in Ram
      BY <1>1, <1>2, <3>4, MoveUpWrites
    <3> HIDE DEF r
    <3>6. mask' \in Ram
      BY <3>1, <3>2, <3>4, <3>5, PutWrites
    <3>. QED
      BY <1>4, <3>1, <3>6
  <2>. QED
    BY <2>1, <2>2
<1>12. ASSUME NEW g \in ExtGroups, CAN_LoadGroupExt(g[1], g[2], g[3])
       PROVE  RamInv'
  <2>1. CASE \E error \in Results, mode \in {AFMR, AccOff} : Refuse(error, mode)
    BY <1>3, <2>1
  <2>2. CASE ~\E error \in Results, mode \in {AFMR, AccOff} : Refuse(error, mode)
    <3> DEFINE n == cnt["gext"]
               t == Total(cnt)
               word(j) == WordAt(mask, GextStart(cnt) + j)
               lid == [j \in 0 .. n - 1 |-> word(2 * j) % ExtRange]
               uid == [j \in 0 .. n - 1 |-> word(2 * j + 1) % ExtRange]
               p == GroupPlace(n, lid, uid, g[2], g[3])
               at == GextStart(cnt) + 2 * p
               end == at + 2 * ((t - at + 1) \div 2) + 1
               r == IF n = 0 THEN mask ELSE MoveUp(mask, at, end, 2)
    <3>1. /\ mask' = Put(Put(r, at, ExtEntry(g[1], g[2])), at + 1,
                         ExtEntry(g[1], g[3]))
          /\ ret' = "CAN_OK" /\ UNCHANGED removed
      BY <1>6, <1>12, <2>2 DEF CAN_LoadGroupExt
    <3>2. /\ ExtEntry(g[1], g[2]) \in Word /\ ExtEntry(g[1], g[3]) \in Word
          /\ n \in Nat /\ t \in Nat
      BY <1>2, EntriesFit, AfAssumption DEF Sections
    <3>3. p \in Nat
      BY <1>10, <3>2
    <3> HIDE DEF p, lid, uid, t
    <3>4. at \in Nat
      BY <1>2, <3>3
    <3> HIDE DEF at
    <3>5. end \in Int
      BY <3>2, <3>4
    <3> HIDE DEF end
    <3>6. r \in Ram
      BY <1>1, <3>4, <3>5, MoveUpWrites
    <3> HIDE DEF r
    <3>7. Put(r, at, ExtEntry(g[1], g[2])) \in Ram
      BY <3>2, <3>4, <3>6, PutWrites
    <3>8. at + 1 \in Int
      BY <3>4
    <3>9. mask' \in Ram
      BY <3>1, <3>2, <3>7, <3>8, PutWrites
    <3>. QED
      BY <1>4, <3>1, <3>9
  <2>. QED
    BY <2>1, <2>2
<1>. QED
  BY <1>7, <1>8, <1>9, <1>11, <1>12 DEF Load

\* A removal writes words.
LEMMA RemovalKeepsRam ==
  ASSUME TableInv, RamInv, NEW p \in 0 .. MaxEntries,
         \/ CAN_RemoveFullCAN(p) \/ CAN_RemoveExplicitStd(p)
         \/ CAN_RemoveGroupStd(p) \/ CAN_RemoveExplicitExt(p)
         \/ CAN_RemoveGroupExt(p)
  PROVE  RamInv'
<1>1. mask \in Ram /\ p \in Nat /\ removed \in Nat
  BY AfAssumption DEF RamInv
<1>2. FullWords(cnt) \in Nat /\ \A s \in Sections : cnt[s] \in Nat
  BY Sizes DEF TableInv, CountTypes
<1>3. ASSUME NEW s, Removal(s, p), mask' \in Ram PROVE RamInv'
  BY <1>1, <1>3 DEF Removal, RamInv, Results
<1>4. CASE CAN_RemoveFullCAN(p)
  <2> DEFINE n == cnt["FullCAN"]
             i == IdWords(cnt)
             h == HalfRemove(mask, 0, n, p)
             m == IF n % 2 = 0 THEN h ELSE Drop(h, FullWords(cnt) - 1, Total(cnt))
  <2>1. /\ Removal("FullCAN", p)
        /\ mask' = MoveDown(m, i + 3 * p + 3, i + 3 * n + 2, 3)
    BY <1>4 DEF CAN_RemoveFullCAN
  <2>2. n \in Nat
    BY <1>2 DEF Sections
  <2>3. h \in Ram
    BY <1>1, <2>2, HalfMoves
  <2> HIDE DEF h
  <2>4. m \in Ram
    BY <2>3, DropWrites
  <2> HIDE DEF m
  <2>. QED
    BY <1>3, <2>1, <2>4, MoveDownWrites
<1>5. CASE CAN_RemoveExplicitStd(p)
  <2> DEFINE n == cnt["std"]
             h == HalfRemove(mask, FullWords(cnt), n, p)
             m == IF n % 2 = 0 THEN h ELSE Drop(h, GstdStart(cnt) - 1, Total(cnt))
  <2>1. Removal("std", p) /\ mask' = m
    BY <1>5 DEF CAN_RemoveExplicitStd
  <2>2. n \in Nat
    BY <1>2 DEF Sections
  <2>3. h \in Ram
    BY <1>1, <1>2, <2>2, HalfMoves
  <2> HIDE DEF h
  <2>4. m \in Ram
    BY <2>3, DropWrites
  <2>. QED
    BY <1>3, <2>1, <2>4
<1>6. CASE CAN_RemoveGroupStd(p)
  BY <1>1, <1>3, <1>6, DropWrites DEF CAN_RemoveGroupStd
<1>7. CASE CAN_RemoveExplicitExt(p)
  BY <1>1, <1>3, <1>7, DropWrites DEF CAN_RemoveExplicitExt
<1>8. CASE CAN_RemoveGroupExt(p)
  BY <1>1, <1>3, <1>8, MoveDownWrites DEF CAN_RemoveGroupExt
<1>. QED
  BY <1>4, <1>5, <1>6, <1>7, <1>8

\* Every call keeps the RAM a RAM of words.
LEMMA RamStep == TableInv /\ RamInv /\ [Next]_vars => RamInv'
<1>. SUFFICES ASSUME TableInv, RamInv, [Next]_vars PROVE RamInv'
  OBVIOUS
<1>1. ASSUME NEW s, NEW p, RemoveNothing(s, p) PROVE RamInv'
  BY <1>1 DEF RemoveNothing, Refuse, RamInv, Results
<1>2. ASSUME NEW mode, CAN_SetAFMode(mode) PROVE RamInv'
  BY <1>2 DEF CAN_SetAFMode, RamInv, Results
<1>3. CASE CAN_Init
  <2>1. 0 \in Word
    BY WordParts DEF Word
  <2>. QED
    BY <1>3, <2>1 DEF CAN_Init, RamInv, Ram, Results
<1>4. CASE UNCHANGED vars
  BY <1>4 DEF vars, RamInv
<1>. QED
  BY <1>1, <1>2, <1>3, <1>4, LoadKeepsRam, RemovalKeepsRam DEF Next

\* The RAM holds words ever after.
LEMMA RamHolds == Spec => []RamInv
<1>1. Init => RamInv
  <2>1. 0 \in Word
    BY WordParts DEF Word
  <2>2. [w \in 0 .. MemSize - 1 |-> IF w < RamSize THEN 0 ELSE Beyond[w]] \in Ram
    BY <2>1, AfAssumption, BeyondAssumption DEF Ram
  <2>. QED
    BY <2>2 DEF Init, RamInv, Results
<1>. QED
  BY <1>1, RamStep, TableHolds, PTL DEF Spec

\* Type correctness, for every size of the RAM and every sequence of calls: no
\* load or removal writes a value that is not a word of two half-words, loses
\* count of a section or returns anything but a documented result.
THEOREM TypeCorrect == Spec => []TypeOK
<1>1. TableInv /\ RamInv => TypeOK
  BY DEF TableInv, CountTypes, RamInv, Ram, TypeOK
<1>. QED
  BY <1>1, RamHolds, TableHolds, PTL

-----------------------------------------------------------------------------
(* Entries are taken out of a section and put into it.                     *)

\* A section without its i-th entry.
LEMMA RemoveAtValue ==
  ASSUME NEW S, NEW f \in Seq(S), NEW i \in 1 .. Len(f)
  PROVE  RemoveAt(f, i)
           = [j \in 1 .. Len(f) - 1 |-> IF j < i THEN f[j] ELSE f[j + 1]]
<1>. PICK n \in Nat : n = Len(f)
  BY LenProperties
<1>0. i \in 1 .. n
  OBVIOUS
<1>1. f \in [1 .. n -> S] /\ i \in 1 .. n
  BY LenProperties
<1>2. PICK a : a = [j \in 1 .. i - 1 |-> f[j]]
  OBVIOUS
<1>3. PICK b : b = [j \in 1 .. n - i |-> f[i + j]]
  OBVIOUS
<1>4. a \in Seq(S) /\ Len(a) = i - 1
  BY <1>1, <1>2
<1>5. b \in Seq(S) /\ Len(b) = n - i
  BY <1>1, <1>3
<1>6. SubSeq(f, 1, i - 1) = a
  BY <1>1, <1>2
<1>7. SubSeq(f, i + 1, n) = b
  BY <1>1, <1>3
<1>8. RemoveAt(f, i) = a \o b
  BY <1>6, <1>7 DEF RemoveAt
<1>. PICK q : q = a \o b
  OBVIOUS
<1>9. /\ q \in Seq(S) /\ Len(q) = Len(a) + Len(b)
      /\ \A j \in 1 .. Len(a) + Len(b) :
           q[j] = IF j <= Len(a) THEN a[j] ELSE b[j - Len(a)]
  BY <1>4, <1>5, ConcatProperties
<1>10. q \in Seq(S) /\ Len(q) = n - 1
  BY <1>0, <1>4, <1>5, <1>9
<1>11. ASSUME NEW j \in 1 .. n - 1
       PROVE  q[j] = IF j < i THEN f[j] ELSE f[j + 1]
  <2>1. CASE j < i
    BY <1>1, <1>2, <1>4, <1>5, <1>9, <2>1
  <2>2. CASE j >= i
    <3>1. j - (i - 1) \in 1 .. n - i /\ i + (j - (i - 1)) = j + 1
      BY <1>0, <2>2
    <3>2. q[j] = b[j - (i - 1)]
      BY <1>1, <1>4, <1>5, <1>9, <2>2
    <3>3. b[j - (i - 1)] = f[i + (j - (i - 1))]
      BY <1>3, <3>1
    <3>. QED
      BY <1>0, <2>2, <3>1, <3>2, <3>3
  <2>3. j < i \/ j >= i
    BY <1>0
  <2>. QED
    BY <2>1, <2>2, <2>3, Zenon
<1>12. q = [j \in 1 .. n - 1 |-> q[j]]
  BY <1>10, LenProperties
<1>. QED
  BY <1>8, <1>11, <1>12

\* A section with e at position i.
LEMMA InsertAtValue ==
  ASSUME NEW S, NEW f \in Seq(S), NEW i \in 1 .. Len(f) + 1, NEW e \in S
  PROVE  InsertAt(f, i, e)
           = [j \in 1 .. Len(f) + 1 |-> IF j < i THEN f[j]
                                        ELSE IF j = i THEN e ELSE f[j - 1]]
<1>. PICK n \in Nat : n = Len(f)
  BY LenProperties
<1>0. i \in 1 .. n + 1
  OBVIOUS
<1>1. f \in [1 .. n -> S] /\ i \in 1 .. n + 1
  BY LenProperties
<1>2. PICK a : a = [j \in 1 .. i - 1 |-> f[j]]
  OBVIOUS
<1>3. PICK b : b = [j \in 1 .. n - i + 1 |-> f[i + j - 1]]
  OBVIOUS
<1>4. a \in Seq(S) /\ Len(a) = i - 1
  BY <1>1, <1>2
<1>5. b \in Seq(S) /\ Len(b) = n - i + 1
  BY <1>1, <1>3
<1>6. SubSeq(f, 1, i - 1) = a
  BY <1>1, <1>2
<1>7. SubSeq(f, i, n) = b
  BY <1>1, <1>3
<1>8. PICK c : c = a \o <<e>>
  OBVIOUS
<1>9. InsertAt(f, i, e) = c \o b
  BY <1>6, <1>7, <1>8 DEF InsertAt
<1>10. PICK g : g = <<e>> /\ g \in Seq(S) /\ Len(g) = 1 /\ g[1] = e
  <2>1. <<e>> \in Seq(S) /\ Len(<<e>>) = 1 /\ <<e>>[1] = e
    OBVIOUS
  <2>. QED
    BY <2>1
<1>11. /\ c \in Seq(S) /\ Len(c) = Len(a) + Len(g)
       /\ \A j \in 1 .. Len(a) + Len(g) :
            c[j] = IF j <= Len(a) THEN a[j] ELSE g[j - Len(a)]
  BY <1>4, <1>8, <1>10, ConcatProperties
<1>12. c \in Seq(S) /\ Len(c) = i
  BY <1>1, <1>4, <1>10, <1>11
<1>13. ASSUME NEW j \in 1 .. i PROVE c[j] = IF j < i THEN f[j] ELSE e
  <2>1. CASE j < i
    BY <1>1, <1>2, <1>4, <1>10, <1>11, <2>1
  <2>2. CASE j = i
    <3>1. j \in 1 .. Len(a) + Len(g) /\ ~(j <= Len(a)) /\ j - Len(a) = 1
      BY <1>1, <1>4, <1>10, <2>2
    <3>. QED
      BY <1>10, <1>11, <2>2, <3>1
  <2>. QED
    BY <1>0, <2>1, <2>2
<1>. PICK q : q = c \o b
  OBVIOUS
<1>14. /\ q \in Seq(S) /\ Len(q) = Len(c) + Len(b)
       /\ \A j \in 1 .. Len(c) + Len(b) :
            q[j] = IF j <= Len(c) THEN c[j] ELSE b[j - Len(c)]
  BY <1>5, <1>12, ConcatProperties
<1>15. q \in Seq(S) /\ Len(q) = n + 1
  BY <1>0, <1>5, <1>12, <1>14
<1>16. ASSUME NEW j \in 1 .. n + 1
       PROVE  q[j] = IF j < i THEN f[j] ELSE IF j = i THEN e ELSE f[j - 1]
  <2>1. CASE j <= i
    BY <1>1, <1>5, <1>12, <1>13, <1>14, <2>1
  <2>2. CASE j > i
    <3>1. j - i \in 1 .. n - i + 1 /\ i + (j - i) - 1 = j - 1
      BY <1>0, <2>2
    <3>2. q[j] = b[j - i]
      BY <1>1, <1>5, <1>12, <1>14, <2>2
    <3>3. b[j - i] = f[i + (j - i) - 1]
      BY <1>3, <3>1
    <3>. QED
      BY <1>0, <2>2, <3>1, <3>2, <3>3
  <2>3. j <= i \/ j > i
    BY <1>0
  <2>. QED
    BY <2>1, <2>2, <2>3, Zenon
<1>17. q = [j \in 1 .. n + 1 |-> q[j]]
  BY <1>15, LenProperties
<1>. QED
  BY <1>9, <1>16, <1>17

-----------------------------------------------------------------------------
(* What the sections hold, and what a move of words does to it.            *)

\* The first word of section s and the word behind it.
First(c, s) == CASE s = "FullCAN" -> 0
                 [] s = "std"     -> FullWords(c)
                 [] s = "gstd"    -> GstdStart(c)
                 [] s = "ext"     -> ExtStart(c)
                 [] s = "gext"    -> GextStart(c)
Behind(c, s) == CASE s = "FullCAN" -> FullWords(c)
                  [] s = "std"     -> GstdStart(c)
                  [] s = "gstd"    -> ExtStart(c)
                  [] s = "ext"     -> GextStart(c)
                  [] s = "gext"    -> IdWords(c)

\* The contents are the five sections, before and after a step.
LEMMA ContentsValue ==
  /\ Contents = [s \in Sections |-> Section(mask, cnt, s)]
  /\ Contents' = [s \in Sections |-> Section(mask', cnt', s)]
<1>1. \A s : Section(mask, cnt, s)' = Section(mask', cnt', s)
  BY DEF Section, Halves, Singles, Pairs, HalfAt, WordAt, FullWords, StdWords,
         GstdStart, ExtStart, GextStart
<1>. QED
  BY <1>1 DEF Contents

\* Words that are read at another place hold what they held.
LEMMA HalvesMove ==
  ASSUME NEW m, NEW r, NEW o \in Nat, NEW x \in Nat, NEW n \in Nat,
         \A w \in 0 .. ((n + 1) \div 2) - 1 : WordAt(r, x + w) = WordAt(m, o + w)
  PROVE  Halves(r, x, n) = Halves(m, o, n)
<1>1. ASSUME NEW j \in 1 .. n
      PROVE  HalfAt(r, 2 * x + j - 1) = HalfAt(m, 2 * o + j - 1)
  <2>. PICK w \in Nat : w = (j - 1) \div 2
    OBVIOUS
  <2>1. w \in 0 .. ((n + 1) \div 2) - 1
    OBVIOUS
  <2>2. /\ (2 * x + j - 1) \div 2 = x + w /\ (2 * o + j - 1) \div 2 = o + w
        /\ (2 * x + j - 1) % 2 = (2 * o + j - 1) % 2
    OBVIOUS
  <2>3. WordAt(r, x + w) = WordAt(m, o + w)
    BY <2>1
  <2>. QED
    BY <2>2, <2>3 DEF HalfAt
<1>. QED
  BY <1>1 DEF Halves

\* The same for words.
LEMMA SinglesMove ==
  ASSUME NEW m, NEW r, NEW o \in Nat, NEW x \in Nat, NEW n \in Nat,
         \A w \in 0 .. n - 1 : WordAt(r, x + w) = WordAt(m, o + w)
  PROVE  Singles(r, x, n) = Singles(m, o, n)
<1>1. ASSUME NEW j \in 1 .. n
      PROVE  WordAt(r, x + j - 1) = WordAt(m, o + j - 1)
  <2>1. j - 1 \in 0 .. n - 1 /\ x + (j - 1) = x + j - 1 /\ o + (j - 1) = o + j - 1
    OBVIOUS
  <2>2. WordAt(r, x + (j - 1)) = WordAt(m, o + (j - 1))
    BY <2>1
  <2>. QED
    BY <2>1, <2>2
<1>. QED
  BY <1>1 DEF Singles

\* The words of pairs, read at another place.
LEMMA PairsMove ==
  ASSUME NEW m, NEW r, NEW o \in Nat, NEW x \in Nat, NEW n \in Nat,
         \A w \in 0 .. 2 * n - 1 : WordAt(r, x + w) = WordAt(m, o + w)
  PROVE  Pairs(r, x, n) = Pairs(m, o, n)
<1>1. ASSUME NEW j \in 1 .. n
      PROVE  /\ WordAt(r, x + 2 * j - 2) = WordAt(m, o + 2 * j - 2)
             /\ WordAt(r, x + 2 * j - 1) = WordAt(m, o + 2 * j - 1)
  <2>1. /\ 2 * j - 2 \in 0 .. 2 * n - 1 /\ 2 * j - 1 \in 0 .. 2 * n - 1
        /\ x + (2 * j - 2) = x + 2 * j - 2 /\ o + (2 * j - 2) = o + 2 * j - 2
        /\ x + (2 * j - 1) = x + 2 * j - 1 /\ o + (2 * j - 1) = o + 2 * j - 1
    OBVIOUS
  <2>2. /\ WordAt(r, x + (2 * j - 2)) = WordAt(m, o + (2 * j - 2))
        /\ WordAt(r, x + (2 * j - 1)) = WordAt(m, o + (2 * j - 1))
    BY <2>1
  <2>. QED
    BY <2>1, <2>2
<1>. QED
  BY <1>1 DEF Pairs

\* Where the sections lie.
LEMMA Layout ==
  ASSUME NEW c \in [Sections -> Nat]
  PROVE  /\ \A s \in Sections : c[s] \in Nat
         /\ FullWords(c) = (c["FullCAN"] + 1) \div 2 /\ FullWords(c) \in Nat
         /\ StdWords(c) = (c["std"] + 1) \div 2 /\ StdWords(c) \in Nat
         /\ GstdStart(c) = FullWords(c) + StdWords(c) /\ GstdStart(c) \in Nat
         /\ ExtStart(c) = GstdStart(c) + c["gstd"] /\ ExtStart(c) \in Nat
         /\ GextStart(c) = ExtStart(c) + c["ext"] /\ GextStart(c) \in Nat
         /\ IdWords(c) = GextStart(c) + 2 * c["gext"] /\ IdWords(c) \in Nat
         /\ Total(c) = IdWords(c) + 3 * c["FullCAN"] /\ Total(c) \in Nat
<1>1. /\ \A s \in Sections : c[s] \in Nat
      /\ FullWords(c) \in Nat /\ StdWords(c) \in Nat
  BY Sizes DEF Sections
<1>. QED
  BY <1>1 DEF Sections, FullWords, StdWords, GstdStart, ExtStart, GextStart,
              IdWords, Total

\* The sections by name.
LEMMA Places ==
  ASSUME NEW c
  PROVE  /\ First(c, "FullCAN") = 0 /\ Behind(c, "FullCAN") = FullWords(c)
         /\ First(c, "std") = FullWords(c) /\ Behind(c, "std") = GstdStart(c)
         /\ First(c, "gstd") = GstdStart(c) /\ Behind(c, "gstd") = ExtStart(c)
         /\ First(c, "ext") = ExtStart(c) /\ Behind(c, "ext") = GextStart(c)
         /\ First(c, "gext") = GextStart(c) /\ Behind(c, "gext") = IdWords(c)
BY DEF First, Behind

\* The sections by the size of their entries.
LEMMA Kinds ==
  ASSUME NEW m, NEW c, NEW s \in Sections
  PROVE  /\ s \in {"FullCAN", "std"} =>
              Section(m, c, s) = Halves(m, First(c, s), c[s])
         /\ s \in {"gstd", "ext"} =>
              Section(m, c, s) = Singles(m, First(c, s), c[s])
         /\ s = "gext" => Section(m, c, s) = Pairs(m, First(c, s), c[s])
BY DEF First, Section, Sections

\* Sections lie one behind the other: when s changes, the sections before it
\* keep their place and those behind it move with their first word.
LEMMA SectionsFollow ==
  ASSUME NEW c \in [Sections -> Nat], NEW x \in [Sections -> Nat],
         NEW s \in Sections, NEW d \in Int,
         \A u \in Sections : u # s => x[u] = c[u],
         Behind(x, s) = Behind(c, s) + d,
         NEW t \in Sections, t # s
  PROVE  /\ First(c, t) \in Nat /\ First(x, t) \in Nat
         /\ \/ First(x, t) = First(c, t) /\ Behind(c, t) <= First(c, s)
            \/ /\ First(x, t) = First(c, t) + d
               /\ Behind(c, s) <= First(c, t) /\ Behind(c, t) <= IdWords(c)
<1>1. /\ \A u \in Sections : c[u] \in Nat
      /\ FullWords(c) \in Nat /\ StdWords(c) \in Nat
      /\ GstdStart(c) = FullWords(c) + StdWords(c)
      /\ ExtStart(c) = GstdStart(c) + c["gstd"]
      /\ GextStart(c) = ExtStart(c) + c["ext"]
      /\ IdWords(c) = GextStart(c) + 2 * c["gext"]
  BY Layout
<1>2. /\ FullWords(x) \in Nat /\ StdWords(x) \in Nat
      /\ GstdStart(x) = FullWords(x) + StdWords(x)
      /\ ExtStart(x) = GstdStart(x) + x["gstd"]
      /\ GextStart(x) = ExtStart(x) + x["ext"]
      /\ IdWords(x) = GextStart(x) + 2 * x["gext"]
  BY Layout
<1>3. /\ s # "FullCAN" => FullWords(x) = FullWords(c)
      /\ s # "std" => StdWords(x) = StdWords(c)
  BY DEF FullWords, StdWords, Sections
<1>4. /\ c["gstd"] \in Nat /\ c["ext"] \in Nat /\ c["gext"] \in Nat
      /\ s # "gstd" => x["gstd"] = c["gstd"]
      /\ s # "ext" => x["ext"] = c["ext"]
      /\ s # "gext" => x["gext"] = c["gext"]
      /\ x["gstd"] \in Nat /\ x["ext"] \in Nat /\ x["gext"] \in Nat
  BY <1>1 DEF Sections
<1>0. /\ First(c, "FullCAN") = 0 /\ Behind(c, "FullCAN") = FullWords(c)
      /\ First(c, "std") = FullWords(c) /\ Behind(c, "std") = GstdStart(c)
      /\ First(c, "gstd") = GstdStart(c) /\ Behind(c, "gstd") = ExtStart(c)
      /\ First(c, "ext") = ExtStart(c) /\ Behind(c, "ext") = GextStart(c)
      /\ First(c, "gext") = GextStart(c) /\ Behind(c, "gext") = IdWords(c)
      /\ First(x, "FullCAN") = 0 /\ Behind(x, "FullCAN") = FullWords(x)
      /\ First(x, "std") = FullWords(x) /\ Behind(x, "std") = GstdStart(x)
      /\ First(x, "gstd") = GstdStart(x) /\ Behind(x, "gstd") = ExtStart(x)
      /\ First(x, "ext") = ExtStart(x) /\ Behind(x, "ext") = GextStart(x)
      /\ First(x, "gext") = GextStart(x) /\ Behind(x, "gext") = IdWords(x)
  BY Places
<1>5. CASE t = "FullCAN"
  BY <1>0, <1>1, <1>2, <1>3, <1>4, <1>5 DEF Sections
<1>6. CASE t = "std"
  BY <1>0, <1>1, <1>2, <1>3, <1>4, <1>6 DEF Sections
<1>7. CASE t = "gstd"
  BY <1>0, <1>1, <1>2, <1>3, <1>4, <1>7 DEF Sections
<1>8. CASE t = "ext"
  BY <1>0, <1>1, <1>2, <1>3, <1>4, <1>8 DEF Sections
<1>9. CASE t = "gext"
  BY <1>0, <1>1, <1>2, <1>3, <1>4, <1>9 DEF Sections
<1>. QED
  BY <1>5, <1>6, <1>7, <1>8, <1>9 DEF Sections

\* The words of a section.
LEMMA Extent ==
  ASSUME NEW c \in [Sections -> Nat], NEW s \in Sections
  PROVE  /\ c[s] \in Nat /\ First(c, s) \in Nat /\ Behind(c, s) \in Nat
         /\ Behind(c, s) <= IdWords(c) /\ IdWords(c) \in Nat
         /\ s \in {"FullCAN", "std"} =>
              Behind(c, s) = First(c, s) + ((c[s] + 1) \div 2)
         /\ s \in {"gstd", "ext"} => Behind(c, s) = First(c, s) + c[s]
         /\ s = "gext" => Behind(c, s) = First(c, s) + 2 * c[s]
<1>1. /\ \A t \in Sections : c[t] \in Nat
      /\ FullWords(c) = (c["FullCAN"] + 1) \div 2 /\ FullWords(c) \in Nat
      /\ StdWords(c) = (c["std"] + 1) \div 2 /\ StdWords(c) \in Nat
      /\ GstdStart(c) = FullWords(c) + StdWords(c)
      /\ ExtStart(c) = GstdStart(c) + c["gstd"]
      /\ GextStart(c) = ExtStart(c) + c["ext"]
      /\ IdWords(c) = GextStart(c) + 2 * c["gext"]
  BY Layout
<1>2. c["gstd"] \in Nat /\ c["ext"] \in Nat /\ c["gext"] \in Nat
  BY <1>1 DEF Sections
<1>3. CASE s = "FullCAN"
  BY <1>1, <1>2, <1>3, Places
<1>4. CASE s = "std"
  BY <1>1, <1>2, <1>4, Places
<1>5. CASE s = "gstd"
  BY <1>1, <1>2, <1>5, Places
<1>6. CASE s = "ext"
  BY <1>1, <1>2, <1>6, Places
<1>7. CASE s = "gext"
  BY <1>1, <1>2, <1>7, Places
<1>. QED
  BY <1>3, <1>4, <1>5, <1>6, <1>7 DEF Sections

\* A call that changes section s, leaves the words before it alone and moves
\* the words behind it by d changes no other section.
LEMMA OthersStay ==
  ASSUME NEW m, NEW r, NEW c \in [Sections -> Nat], NEW x \in [Sections -> Nat],
         NEW s \in Sections, NEW d \in Int,
         \A t \in Sections : t # s => x[t] = c[t],
         Behind(x, s) = Behind(c, s) + d,
         \A w \in 0 .. First(c, s) - 1 : WordAt(r, w) = WordAt(m, w),
         \A w \in Behind(c, s) .. IdWords(c) - 1 : WordAt(r, w + d) = WordAt(m, w),
         NEW t \in Sections, t # s
  PROVE  Section(r, x, t) = Section(m, c, t)
<1>1. x[t] = c[t]
  OBVIOUS
<1> DEFINE o == First(c, t)
           y == First(x, t)
           n == Behind(c, t) - First(c, t)
<1>2. /\ o \in Nat /\ y \in Nat
      /\ \/ y = o /\ Behind(c, t) <= First(c, s)
         \/ y = o + d /\ Behind(c, s) <= o /\ Behind(c, t) <= IdWords(c)
  BY SectionsFollow
<1>3. /\ First(c, s) \in Nat /\ Behind(c, s) \in Nat /\ Behind(c, t) \in Nat
      /\ IdWords(c) \in Nat /\ c[t] \in Nat
  BY Extent
<1>4. /\ t \in {"FullCAN", "std"} => n = (c[t] + 1) \div 2
      /\ t \in {"gstd", "ext"} => n = c[t]
      /\ t = "gext" => n = 2 * c[t]
  BY <1>2, <1>3, Extent
<1>. o + n = Behind(c, t) /\ n \in Int
  BY <1>2, <1>3
<1> HIDE DEF o, y, n
<1>5. \A w \in 0 .. n - 1 : WordAt(r, y + w) = WordAt(m, o + w)
  <2>1. CASE y = o /\ Behind(c, t) <= First(c, s)
    <3>1. \A w \in 0 .. n - 1 : o + w \in 0 .. First(c, s) - 1
      BY <1>2, <1>3, <2>1
    <3>. QED
      BY <2>1, <3>1
  <2>2. CASE y = o + d /\ Behind(c, s) <= o /\ Behind(c, t) <= IdWords(c)
    <3>1. \A w \in 0 .. n - 1 : /\ o + w \in Behind(c, s) .. IdWords(c) - 1
                                /\ y + w = (o + w) + d
      BY <1>2, <1>3, <2>2
    <3>. QED
      BY <2>2, <3>1
  <2>. QED
    BY <1>2, <2>1, <2>2
<1>7. CASE t = "FullCAN" \/ t = "std"
  <2>1. n = (c[t] + 1) \div 2
    BY <1>4, <1>7
  <2>2. Halves(r, y, c[t]) = Halves(m, o, c[t])
    BY <1>2, <1>3, <1>5, <2>1, HalvesMove
  <2>. QED
    BY <1>1, <1>7, <2>2, Kinds DEF o, y
<1>8. CASE t = "gstd" \/ t = "ext"
  <2>1. n = c[t]
    BY <1>4, <1>8
  <2>2. Singles(r, y, c[t]) = Singles(m, o, c[t])
    BY <1>2, <1>3, <1>5, <2>1, SinglesMove
  <2>. QED
    BY <1>1, <1>8, <2>2, Kinds DEF o, y
<1>9. CASE t = "gext"
  <2>1. n = 2 * c[t]
    BY <1>4, <1>9
  <2>2. Pairs(r, y, c[t]) = Pairs(m, o, c[t])
    <3>1. \A w \in 0 .. 2 * c[t] - 1 : WordAt(r, y + w) = WordAt(m, o + w)
      BY <1>5, <2>1
    <3>. PICK k \in Nat : k = c[t]
      BY <1>3
    <3>2. Pairs(r, y, k) = Pairs(m, o, k)
      BY <1>2, <3>1, PairsMove
    <3>. QED
      BY <3>2
  <2>. QED
    BY <1>1, <1>9, <2>2, Kinds DEF o, y
<1>. QED
  BY <1>7, <1>8, <1>9 DEF Sections

\* A word of the RAM is read where it is.
LEMMA WordRead ==
  ASSUME NEW m \in Ram, NEW w \in 0 .. MemSize - 1
  PROVE  WordAt(m, w) = m[w]
BY DEF WordAt, Ram

\* The words that MoveDown leaves behind.
LEMMA MoveDownMoves ==
  ASSUME NEW m \in Ram, NEW a \in Nat, NEW k \in Nat, NEW to \in Int,
         NEW w \in 0 .. MemSize - 1
  PROVE  WordAt(MoveDown(m, a, to, k), w) =
           IF a - k <= w /\ w <= to - k THEN WordAt(m, w + k) ELSE WordAt(m, w)
<1>1. MoveDown(m, a, to, k) \in Ram
  BY MoveDownWrites
<1>2. WordAt(MoveDown(m, a, to, k), w) = MoveDown(m, a, to, k)[w] /\ WordAt(m, w) = m[w]
  BY <1>1, WordRead
<1>3. DOMAIN m = 0 .. MemSize - 1
  BY DEF Ram
<1>. QED
  BY <1>2, <1>3 DEF MoveDown

\* The words that MoveUp leaves behind.
LEMMA MoveUpMoves ==
  ASSUME NEW m \in Ram, NEW a \in Nat, NEW k \in Nat, NEW to \in Int,
         NEW w \in 0 .. MemSize - 1
  PROVE  WordAt(MoveUp(m, a, to, k), w) =
           IF a + k <= w /\ w <= to THEN WordAt(m, w - k) ELSE WordAt(m, w)
<1>1. MoveUp(m, a, to, k) \in Ram
  BY MoveUpWrites
<1>2. WordAt(MoveUp(m, a, to, k), w) = MoveUp(m, a, to, k)[w] /\ WordAt(m, w) = m[w]
  BY <1>1, WordRead
<1>3. DOMAIN m = 0 .. MemSize - 1
  BY DEF Ram
<1>4. a + k <= w => w - k \in 0 .. MemSize - 1
  BY AfAssumption
<1>5. a + k <= w => WordAt(m, w - k) = m[w - k]
  BY <1>4, WordRead
<1>. QED
  BY <1>2, <1>3, <1>5 DEF MoveUp

\* The words that Put leaves behind.
LEMMA PutMoves ==
  ASSUME NEW m \in Ram, NEW a, NEW e \in Word, NEW w \in 0 .. MemSize - 1
  PROVE  WordAt(Put(m, a, e), w) = IF w = a THEN e ELSE WordAt(m, w)
<1>1. WordAt(Put(m, a, e), w) = Put(m, a, e)[w] /\ WordAt(m, w) = m[w]
  BY PutWrites, WordRead
<1>2. DOMAIN m = 0 .. MemSize - 1
  BY DEF Ram
<1>. QED
  BY <1>1, <1>2 DEF Put

\* The words that Drop leaves behind.
LEMMA DropMoves ==
  ASSUME NEW m \in Ram, NEW a \in Nat, NEW end \in Nat, end <= MemSize,
         NEW w \in 0 .. end - 2
  PROVE  WordAt(Drop(m, a, end), w) =
           IF a <= w THEN WordAt(m, w + 1) ELSE WordAt(m, w)
<1>1. w \in 0 .. MemSize - 1 /\ w # end - 1 /\ a + 1 \in Nat /\ end - 1 \in Int
  BY AfAssumption
<1>2. MoveDown(m, a + 1, end - 1, 1) \in Ram /\ 0 \in Word
  BY MoveDownWrites, WordParts DEF Word
<1>3. WordAt(Drop(m, a, end), w) = WordAt(MoveDown(m, a + 1, end - 1, 1), w)
  BY <1>1, <1>2, PutMoves DEF Drop
<1>4. WordAt(MoveDown(m, a + 1, end - 1, 1), w) =
        IF (a + 1) - 1 <= w /\ w <= (end - 1) - 1 THEN WordAt(m, w + 1)
        ELSE WordAt(m, w)
  <2>. PICK x \in Nat, y \in Int : x = a + 1 /\ y = end - 1
    BY <1>1
  <2>1. WordAt(MoveDown(m, x, y, 1), w) =
          IF x - 1 <= w /\ w <= y - 1 THEN WordAt(m, w + 1) ELSE WordAt(m, w)
    BY <1>1, MoveDownMoves
  <2>. QED
    BY <2>1
<1>. QED
  BY <1>3, <1>4

\* A word of two half-words is read as these.
LEMMA Decode ==
  ASSUME NEW H \in Nat \ {0}, NEW a \in Nat, NEW b \in 0 .. H - 1
  PROVE  (a * H + b) \div H = a /\ (a * H + b) % H = b
<1>1. a * H \in Nat
  OBVIOUS
<1>. PICK x \in Nat : x = a * H + b
  BY <1>1
<1>2. /\ x \div H \in Nat /\ x % H \in 0 .. H - 1
      /\ x = H * (x \div H) + (x % H)
  OBVIOUS
<1>. PICK q \in Nat, r \in 0 .. H - 1 : q = x \div H /\ r = x % H /\ x = H * q + r
  BY <1>2
<1>3. q = a
  <2>1. CASE q >= a + 1
    <3>1. H * q >= H * (a + 1) /\ H * (a + 1) = a * H + H
      BY <2>1
    <3>. QED
      BY <1>1, <3>1
  <2>2. CASE a >= q + 1
    <3>1. a * H >= (q + 1) * H /\ (q + 1) * H = H * q + H
      BY <2>2
    <3>. QED
      BY <1>1, <3>1
  <2>. QED
    BY <2>1, <2>2
<1>4. r = b
  <2>1. H * q = a * H
    BY <1>3
  <2>. QED
    BY <1>1, <2>1
<1>. QED
  BY <1>3, <1>4

\* So are the two halves of a word.
LEMMA HalfDecode ==
  \A a, b \in HalfWord : (a * Half + b) \div Half = a /\ (a * Half + b) % Half = b
<1>. SUFFICES ASSUME NEW a \in HalfWord, NEW b \in HalfWord
              PROVE  (a * Half + b) \div Half = a /\ (a * Half + b) % Half = b
  OBVIOUS
<1>. PICK H \in Nat \ {0} : H = Half
  BY WordParts
<1>1. a \in Nat /\ b \in 0 .. H - 1
  BY DEF HalfWord
<1>2. (a * H + b) \div H = a /\ (a * H + b) % H = b
  BY <1>1, Decode
<1>. QED
  BY <1>2

\* The words outside a .. b - 1 are as before.
Outside(m, r, a, b) ==
  \A w \in 0 .. MemSize - 1 : ~(a <= w /\ w < b) => WordAt(r, w) = WordAt(m, w)

\* Half-words are read back, and the words around them are as before.
LEMMA PutHalvesReads ==
  ASSUME NEW m \in Ram, NEW o \in Nat, NEW k \in Nat, o + k <= MemSize,
         NEW h \in [0 .. 2 * k - 1 -> HalfWord]
  PROVE  /\ \A j \in 0 .. 2 * k - 1 : HalfAt(PutHalves(m, o, k, h), 2 * o + j) = h[j]
         /\ Outside(m, PutHalves(m, o, k, h), o, o + k)
<1>1. /\ PutHalves(m, o, k, h) \in Ram /\ DOMAIN m = 0 .. MemSize - 1
      /\ MemSize \in Nat
  BY HalfWrites, AfAssumption DEF Ram
<1>2. Outside(m, PutHalves(m, o, k, h), o, o + k)
  BY <1>1, WordRead DEF PutHalves, Outside
<1>3. ASSUME NEW j \in 0 .. 2 * k - 1
      PROVE  HalfAt(PutHalves(m, o, k, h), 2 * o + j) = h[j]
  <2>. PICK v \in Nat : v = j \div 2
    OBVIOUS
  <2>1. /\ 2 * v \in 0 .. 2 * k - 1 /\ 2 * v + 1 \in 0 .. 2 * k - 1
        /\ o + v \in 0 .. MemSize - 1 /\ o <= o + v /\ o + v < o + k
        /\ (o + v) - o = v
    BY <1>1
  <2>2. WordAt(PutHalves(m, o, k, h), o + v) = h[2 * v] * Half + h[2 * v + 1]
    <3>1. WordAt(PutHalves(m, o, k, h), o + v) = PutHalves(m, o, k, h)[o + v]
      BY <1>1, <2>1, WordRead
    <3>2. PutHalves(m, o, k, h)[o + v]
            = h[2 * ((o + v) - o)] * Half + h[2 * ((o + v) - o) + 1]
      BY <1>1, <2>1 DEF PutHalves
    <3>. QED
      BY <2>1, <3>1, <3>2
  <2>3. /\ h[2 * v] \in HalfWord /\ h[2 * v + 1] \in HalfWord
        /\ Half \in Nat \ {0}
    BY <2>1, WordParts
  <2>. PICK a \in HalfWord, b \in HalfWord : a = h[2 * v] /\ b = h[2 * v + 1]
    BY <2>3
  <2>4. (a * Half + b) \div Half = a /\ (a * Half + b) % Half = b
    BY HalfDecode
  <2>5. /\ (2 * o + j) \div 2 = o + v
        /\ \/ j = 2 * v /\ (2 * o + j) % 2 = 0
           \/ j = 2 * v + 1 /\ (2 * o + j) % 2 = 1
    OBVIOUS
  <2>. QED
    BY <2>2, <2>4, <2>5 DEF HalfAt
<1>. QED
  BY <1>2, <1>3

-----------------------------------------------------------------------------
(* Removals.                                                               *)

\* The sections as sequences.
LEMMA SectionTyped ==
  ASSUME NEW m \in Ram, NEW o, NEW n \in Nat
  PROVE  /\ Halves(m, o, n) \in Seq(HalfWord) /\ Len(Halves(m, o, n)) = n
         /\ Singles(m, o, n) \in Seq(Word) /\ Len(Singles(m, o, n)) = n
         /\ Pairs(m, o, n) \in Seq(Word \X Word) /\ Len(Pairs(m, o, n)) = n
<1>1. \A i : WordAt(m, i) \in Word /\ HalfAt(m, i) \in HalfWord
  BY Reads
<1>2. Halves(m, o, n) \in [1 .. n -> HalfWord]
  BY <1>1 DEF Halves
<1>3. Singles(m, o, n) \in [1 .. n -> Word]
  BY <1>1 DEF Singles
<1>4. Pairs(m, o, n) \in [1 .. n -> Word \X Word]
  BY <1>1 DEF Pairs
<1>. QED
  BY <1>2, <1>3, <1>4

\* Half-words that close up behind half-word p.
HalvesClose(m, r, o, n, p) ==
  \A j \in 0 .. n - 2 : HalfAt(r, 2 * o + j) =
    IF j < p THEN HalfAt(m, 2 * o + j) ELSE HalfAt(m, 2 * o + j + 1)

\* Then entry p is gone from the section.
LEMMA HalvesRemoved ==
  ASSUME NEW m \in Ram, NEW r, NEW o \in Nat, NEW n \in Nat, NEW p \in Nat, p < n,
         HalvesClose(m, r, o, n, p)
  PROVE  Halves(r, o, n - 1) = RemoveAt(Halves(m, o, n), p + 1)
<1>1. Halves(m, o, n) \in Seq(HalfWord) /\ Len(Halves(m, o, n)) = n
  BY SectionTyped
<1>0. PICK f \in Seq(HalfWord), i \in 1 .. n : f = Halves(m, o, n) /\ i = p + 1
  BY <1>1
<1>. Len(f) = n
  BY <1>0, <1>1
<1>2. RemoveAt(f, i) = [j \in 1 .. n - 1 |-> IF j < i THEN f[j] ELSE f[j + 1]]
  BY RemoveAtValue
<1>3. \A j \in 1 .. n : f[j] = HalfAt(m, 2 * o + j - 1)
  BY <1>0 DEF Halves
<1>4. ASSUME NEW j \in 1 .. n - 1
      PROVE  HalfAt(r, 2 * o + j - 1) = IF j < i THEN f[j] ELSE f[j + 1]
  <2>1. j - 1 \in 0 .. n - 2 /\ (j - 1 < p <=> j < i) /\ j + 1 \in 1 .. n
    BY <1>0
  <2>2. /\ 2 * o + (j - 1) = 2 * o + j - 1
        /\ 2 * o + (j - 1) + 1 = 2 * o + (j + 1) - 1
    OBVIOUS
  <2>3. HalfAt(r, 2 * o + (j - 1)) = IF j - 1 < p THEN HalfAt(m, 2 * o + (j - 1))
                                     ELSE HalfAt(m, 2 * o + (j - 1) + 1)
    BY <2>1 DEF HalvesClose
  <2>4. f[j] = HalfAt(m, 2 * o + j - 1) /\ f[j + 1] = HalfAt(m, 2 * o + (j + 1) - 1)
    BY <1>3, <2>1
  <2>. QED
    BY <2>1, <2>2, <2>3, <2>4
<1>. QED
  BY <1>0, <1>2, <1>4 DEF Halves

\* Words that close up behind word p.
SinglesClose(m, r, o, n, p) ==
  \A j \in 0 .. n - 2 : WordAt(r, o + j) =
    IF j < p THEN WordAt(m, o + j) ELSE WordAt(m, o + j + 1)

\* Then word p is gone from the section.
LEMMA SinglesRemoved ==
  ASSUME NEW m \in Ram, NEW r, NEW o \in Nat, NEW n \in Nat, NEW p \in Nat, p < n,
         SinglesClose(m, r, o, n, p)
  PROVE  Singles(r, o, n - 1) = RemoveAt(Singles(m, o, n), p + 1)
<1>1. Singles(m, o, n) \in Seq(Word) /\ Len(Singles(m, o, n)) = n
  BY SectionTyped
<1>0. PICK f \in Seq(Word), i \in 1 .. n : f = Singles(m, o, n) /\ i = p + 1
  BY <1>1
<1>. Len(f) = n
  BY <1>0, <1>1
<1>2. RemoveAt(f, i) = [j \in 1 .. n - 1 |-> IF j < i THEN f[j] ELSE f[j + 1]]
  BY RemoveAtValue
<1>3. \A j \in 1 .. n : f[j] = WordAt(m, o + j - 1)
  BY <1>0 DEF Singles
<1>4. ASSUME NEW j \in 1 .. n - 1
      PROVE  WordAt(r, o + j - 1) = IF j < i THEN f[j] ELSE f[j + 1]
  <2>1. j - 1 \in 0 .. n - 2 /\ (j - 1 < p <=> j < i) /\ j + 1 \in 1 .. n
    BY <1>0
  <2>2. o + (j - 1) = o + j - 1 /\ o + (j - 1) + 1 = o + (j + 1) - 1
    OBVIOUS
  <2>3. WordAt(r, o + (j - 1)) = IF j - 1 < p THEN WordAt(m, o + (j - 1))
                                 ELSE WordAt(m, o + (j - 1) + 1)
    BY <2>1 DEF SinglesClose
  <2>4. f[j] = WordAt(m, o + j - 1) /\ f[j + 1] = WordAt(m, o + (j + 1) - 1)
    BY <1>3, <2>1
  <2>. QED
    BY <2>1, <2>2, <2>3, <2>4
<1>. QED
  BY <1>0, <1>2, <1>4 DEF Singles

\* Pairs of words that close up behind pair p.
PairsClose(m, r, o, n, p) ==
  \A w \in 0 .. 2 * n - 3 : WordAt(r, o + w) =
    IF w < 2 * p THEN WordAt(m, o + w) ELSE WordAt(m, o + w + 2)

\* Then pair p is gone from the section.
LEMMA PairsRemoved ==
  ASSUME NEW m \in Ram, NEW r, NEW o \in Nat, NEW n \in Nat, NEW p \in Nat, p < n,
         PairsClose(m, r, o, n, p)
  PROVE  Pairs(r, o, n - 1) = RemoveAt(Pairs(m, o, n), p + 1)
<1>1. Pairs(m, o, n) \in Seq(Word \X Word) /\ Len(Pairs(m, o, n)) = n
  BY SectionTyped
<1>0. PICK f \in Seq(Word \X Word), i \in 1 .. n : f = Pairs(m, o, n) /\ i = p + 1
  BY <1>1
<1>. Len(f) = n
  BY <1>0, <1>1
<1>2. RemoveAt(f, i) = [j \in 1 .. n - 1 |-> IF j < i THEN f[j] ELSE f[j + 1]]
  BY RemoveAtValue
<1>3. \A j \in 1 .. n : f[j] = <<WordAt(m, o + 2 * j - 2), WordAt(m, o + 2 * j - 1)>>
  BY <1>0 DEF Pairs
<1>4. ASSUME NEW j \in 1 .. n - 1
      PROVE  <<WordAt(r, o + 2 * j - 2), WordAt(r, o + 2 * j - 1)>>
               = IF j < i THEN f[j] ELSE f[j + 1]
  <2>1. /\ 2 * j - 2 \in 0 .. 2 * n - 3 /\ 2 * j - 1 \in 0 .. 2 * n - 3
        /\ (2 * j - 2 < 2 * p <=> j < i) /\ (2 * j - 1 < 2 * p <=> j < i)
        /\ j + 1 \in 1 .. n
    BY <1>0
  <2>2. /\ o + (2 * j - 2) = o + 2 * j - 2 /\ o + (2 * j - 1) = o + 2 * j - 1
        /\ o + (2 * j - 2) + 2 = o + 2 * (j + 1) - 2
        /\ o + (2 * j - 1) + 2 = o + 2 * (j + 1) - 1
    OBVIOUS
  <2>3. /\ WordAt(r, o + (2 * j - 2)) =
             IF 2 * j - 2 < 2 * p THEN WordAt(m, o + (2 * j - 2))
             ELSE WordAt(m, o + (2 * j - 2) + 2)
        /\ WordAt(r, o + (2 * j - 1)) =
             IF 2 * j - 1 < 2 * p THEN WordAt(m, o + (2 * j - 1))
             ELSE WordAt(m, o + (2 * j - 1) + 2)
    BY <2>1 DEF PairsClose
  <2>4. /\ f[j] = <<WordAt(m, o + 2 * j - 2), WordAt(m, o + 2 * j - 1)>>
        /\ f[j + 1] = <<WordAt(m, o + 2 * (j + 1) - 2),
                        WordAt(m, o + 2 * (j + 1) - 1)>>
    <3>1. PICK k \in 1 .. n : k = j + 1
      BY <2>1
    <3>2. j \in 1 .. n /\ f[k] = <<WordAt(m, o + 2 * k - 2), WordAt(m, o + 2 * k - 1)>>
      BY <1>3
    <3>. QED
      BY <1>3, <3>1, <3>2
  <2>. QED
    BY <2>1, <2>2, <2>3, <2>4
<1>. QED
  BY <1>0, <1>2, <1>4 DEF Pairs

\* The call takes entry p out of section s and leaves the others alone.
Gone(m, c, r, x, s, p) ==
  \A t \in Sections :
    Section(r, x, t) = IF t = s THEN RemoveAt(Section(m, c, s), p + 1)
                       ELSE Section(m, c, t)

\* That is what the property calls Deleted.
LEMMA GoneIsDeleted ==
  ASSUME NEW s \in Sections, NEW p, Gone(mask, cnt, mask', cnt', s, p)
  PROVE  Deleted(s, p)
<1>1. \A t \in Sections : Contents'[t] = [Contents EXCEPT ![s] = RemoveAt(@, p + 1)][t]
  BY ContentsValue DEF Gone
<1>2. Contents' = [t \in Sections |-> Contents'[t]]
  BY ContentsValue
<1>3. [Contents EXCEPT ![s] = RemoveAt(@, p + 1)]
        = [t \in Sections |-> [Contents EXCEPT ![s] = RemoveAt(@, p + 1)][t]]
  BY ContentsValue
<1>. QED
  BY <1>1, <1>2, <1>3 DEF Deleted

\* When only the number of entries of section s changes, it stays where it is
\* and what is behind it moves with the word behind it.
LEMMA OneChanges ==
  ASSUME NEW c \in [Sections -> Nat], NEW x \in [Sections -> Nat],
         NEW s \in Sections, \A t \in Sections : t # s => x[t] = c[t]
  PROVE  /\ First(x, s) = First(c, s)
         /\ IdWords(x) = IdWords(c) + Behind(x, s) - Behind(c, s)
<1>1. /\ FullWords(c) \in Nat /\ StdWords(c) \in Nat
      /\ GstdStart(c) = FullWords(c) + StdWords(c)
      /\ ExtStart(c) = GstdStart(c) + c["gstd"]
      /\ GextStart(c) = ExtStart(c) + c["ext"]
      /\ IdWords(c) = GextStart(c) + 2 * c["gext"]
      /\ FullWords(x) \in Nat /\ StdWords(x) \in Nat
      /\ GstdStart(x) = FullWords(x) + StdWords(x)
      /\ ExtStart(x) = GstdStart(x) + x["gstd"]
      /\ GextStart(x) = ExtStart(x) + x["ext"]
      /\ IdWords(x) = GextStart(x) + 2 * x["gext"]
  BY Layout
<1>2. /\ s # "FullCAN" => FullWords(x) = FullWords(c)
      /\ s # "std" => StdWords(x) = StdWords(c)
  BY DEF FullWords, StdWords, Sections
<1>3. /\ c["gstd"] \in Nat /\ c["ext"] \in Nat /\ c["gext"] \in Nat
      /\ s # "gstd" => x["gstd"] = c["gstd"]
      /\ s # "ext" => x["ext"] = c["ext"]
      /\ s # "gext" => x["gext"] = c["gext"]
      /\ x["gstd"] \in Nat /\ x["ext"] \in Nat /\ x["gext"] \in Nat
  BY DEF Sections
<1>4. CASE s = "FullCAN"
  BY <1>1, <1>2, <1>3, <1>4, Places
<1>5. CASE s = "std"
  BY <1>1, <1>2, <1>3, <1>5, Places
<1>6. CASE s = "gstd"
  BY <1>1, <1>2, <1>3, <1>6, Places
<1>7. CASE s = "ext"
  BY <1>1, <1>2, <1>3, <1>7, Places
<1>8. CASE s = "gext"
  BY <1>1, <1>2, <1>3, <1>8, Places
<1>. QED
  BY <1>4, <1>5, <1>6, <1>7, <1>8 DEF Sections

\* A standard group or an explicit extended entry: its word is dropped.
LEMMA DropDeletes ==
  ASSUME NEW m \in Ram, NEW c \in [Sections -> Nat], NEW x \in [Sections -> Nat],
         NEW s \in {"gstd", "ext"}, NEW p \in Nat, p < c[s],
         x[s] = c[s] - 1, \A t \in Sections : t # s => x[t] = c[t],
         Total(c) <= MemSize
  PROVE  Gone(m, c, Drop(m, First(c, s) + p, Total(c)), x, s, p)
<1>0. s \in Sections
  BY DEF Sections
<1>1. /\ c[s] \in Nat /\ First(c, s) \in Nat /\ Behind(c, s) = First(c, s) + c[s]
      /\ Behind(c, s) <= IdWords(c) /\ IdWords(c) \in Nat
  BY <1>0, Extent
<1>2. First(x, s) = First(c, s) /\ Behind(x, s) = First(x, s) + x[s]
  BY <1>0, OneChanges, Extent
<1>3. Total(c) \in Nat /\ IdWords(c) <= Total(c)
  <2>1. Total(c) = IdWords(c) + 3 * c["FullCAN"] /\ c["FullCAN"] \in Nat
    BY Layout DEF Sections
  <2>. QED
    BY <1>1, <2>1
<1>. PICK o \in Nat, n \in Nat, i \in Nat, end \in Nat :
       o = First(c, s) /\ n = c[s] /\ i = IdWords(c) /\ end = Total(c)
  BY <1>1, <1>3
<1>. PICK r : r = Drop(m, o + p, end)
  OBVIOUS
<1>4. o + p \in Nat /\ o + n <= i /\ i <= end /\ p < n
  BY <1>1, <1>3
<1>5. \A w \in 0 .. end - 2 :
        WordAt(r, w) = IF o + p <= w THEN WordAt(m, w + 1) ELSE WordAt(m, w)
  BY <1>4, DropMoves
<1>6. \A w \in 0 .. o - 1 : WordAt(r, w) = WordAt(m, w)
  BY <1>4, <1>5
<1>7. \A w \in o + n .. i - 1 : WordAt(r, w + (-1)) = WordAt(m, w)
  <2>. SUFFICES ASSUME NEW w \in o + n .. i - 1
                PROVE  WordAt(r, w + (-1)) = WordAt(m, w)
    OBVIOUS
  <2>. PICK v \in Int : v = w + (-1)
    OBVIOUS
  <2>1. v \in 0 .. end - 2 /\ o + p <= v /\ v + 1 = w
    BY <1>4
  <2>. QED
    BY <1>5, <2>1
<1>8. \A t \in Sections : t # s => Section(r, x, t) = Section(m, c, t)
  <2>1. Behind(x, s) = Behind(c, s) + (-1)
    BY <1>1, <1>2
  <2>2. \A w \in 0 .. First(c, s) - 1 : WordAt(r, w) = WordAt(m, w)
    BY <1>6
  <2>3. \A w \in Behind(c, s) .. IdWords(c) - 1 : WordAt(r, w + (-1)) = WordAt(m, w)
    BY <1>1, <1>7
  <2>. QED
    BY <1>0, <2>1, <2>2, <2>3, OthersStay
<1>9. Singles(r, o, n - 1) = RemoveAt(Singles(m, o, n), p + 1)
  <2>1. ASSUME NEW j \in 0 .. n - 2
        PROVE  WordAt(r, o + j) = IF j < p THEN WordAt(m, o + j)
                                  ELSE WordAt(m, o + j + 1)
    <3>1. o + j \in 0 .. end - 2 /\ (o + p <= o + j <=> ~(j < p))
      BY <1>4
    <3>. QED
      BY <1>5, <3>1
  <2>2. SinglesClose(m, r, o, n, p)
    BY <2>1 DEF SinglesClose
  <2>3. p < n
    BY <1>4
  <2>. QED
    BY <2>2, <2>3, SinglesRemoved
<1>10. Section(r, x, s) = RemoveAt(Section(m, c, s), p + 1)
  BY <1>0, <1>2, <1>9, Kinds
<1>. QED
  BY <1>8, <1>10 DEF Gone

\* An extended group: its two words are taken out.
LEMMA PairDeletes ==
  ASSUME NEW m \in Ram, NEW c \in [Sections -> Nat], NEW x \in [Sections -> Nat],
         NEW p \in Nat, p < c["gext"], x["gext"] = c["gext"] - 1,
         \A t \in Sections : t # "gext" => x[t] = c[t],
         Total(c) <= MemSize, NEW a \in Nat, a = GextStart(c) + 2 * p,
         NEW k \in Int, k >= Total(c) - a
  PROVE  Gone(m, c, MoveDown(m, a + 2, a + k + 1, 2), x, "gext", p)
<1>. PICK s \in Sections : s = "gext"
  BY DEF Sections
<1>1. /\ c[s] \in Nat /\ First(c, s) \in Nat /\ Behind(c, s) = First(c, s) + 2 * c[s]
      /\ Behind(c, s) = IdWords(c) /\ IdWords(c) \in Nat /\ First(c, s) = GextStart(c)
  BY Extent, Places
<1>2. First(x, s) = First(c, s) /\ Behind(x, s) = First(x, s) + 2 * x[s]
  BY OneChanges, Extent
<1>3. Total(c) \in Nat /\ IdWords(c) <= Total(c)
  <2>1. Total(c) = IdWords(c) + 3 * c["FullCAN"] /\ c["FullCAN"] \in Nat
    BY Layout DEF Sections
  <2>. QED
    BY <1>1, <2>1
<1>. PICK o \in Nat, n \in Nat, end \in Nat :
       o = First(c, s) /\ n = c[s] /\ end = Total(c)
  BY <1>1, <1>3
<1>. PICK r : r = MoveDown(m, a + 2, a + k + 1, 2)
  OBVIOUS
<1>4. a = o + 2 * p /\ o + 2 * n <= end /\ p < n /\ k >= end - a /\ end <= MemSize
  BY <1>1, <1>3
<1>5. \A w \in 0 .. MemSize - 1 : WordAt(r, w) =
        IF a <= w /\ w <= a + k - 1 THEN WordAt(m, w + 2) ELSE WordAt(m, w)
  <2>. PICK y \in Nat, z \in Int : y = a + 2 /\ z = a + k + 1
    OBVIOUS
  <2>1. \A w \in 0 .. MemSize - 1 : WordAt(MoveDown(m, y, z, 2), w) =
          IF y - 2 <= w /\ w <= z - 2 THEN WordAt(m, w + 2) ELSE WordAt(m, w)
    BY MoveDownMoves
  <2>. QED
    BY <2>1, AfAssumption
<1>6. \A w \in 0 .. o - 1 : WordAt(r, w) = WordAt(m, w)
  BY <1>4, <1>5, AfAssumption
<1>8. \A t \in Sections : t # s => Section(r, x, t) = Section(m, c, t)
  <2>1. Behind(x, s) = Behind(c, s) + (-2)
    BY <1>1, <1>2
  <2>2. \A w \in 0 .. First(c, s) - 1 : WordAt(r, w) = WordAt(m, w)
    BY <1>6
  <2>3. \A w \in Behind(c, s) .. IdWords(c) - 1 : WordAt(r, w + (-2)) = WordAt(m, w)
    BY <1>1
  <2>. QED
    BY <2>1, <2>2, <2>3, OthersStay
<1>9. Pairs(r, o, n - 1) = RemoveAt(Pairs(m, o, n), p + 1)
  <2>1. ASSUME NEW w \in 0 .. 2 * n - 3
        PROVE  WordAt(r, o + w) = IF w < 2 * p THEN WordAt(m, o + w)
                                  ELSE WordAt(m, o + w + 2)
    <3>1. /\ o + w \in 0 .. MemSize - 1
          /\ (a <= o + w /\ o + w <= a + k - 1) <=> ~(w < 2 * p)
      BY <1>4, AfAssumption
    <3>. QED
      BY <1>5, <3>1
  <2>2. PairsClose(m, r, o, n, p)
    BY <2>1 DEF PairsClose
  <2>. QED
    BY <1>4, <2>2, PairsRemoved
<1>10. Section(r, x, s) = RemoveAt(Section(m, c, s), p + 1)
  BY <1>2, <1>9, Kinds
<1>. QED
  BY <1>8, <1>10 DEF Gone

\* HalfRemove takes half-word p out, but for the case the property excepts.
LEMMA HalfRemoveReads ==
  ASSUME NEW m \in Ram, NEW o \in Nat, NEW n \in Nat, NEW p \in Nat, p < n,
         ~(n % 2 = 1 /\ p % 2 = 1), o + ((n + 1) \div 2) <= MemSize
  PROVE  /\ HalvesClose(m, HalfRemove(m, o, n, p), o, n, p)
         /\ Outside(m, HalfRemove(m, o, n, p), o, o + ((n + 1) \div 2))
<1>. PICK k \in Nat : k = (n + 1) \div 2
  OBVIOUS
<1> DEFINE old(j) == HalfAt(m, 2 * o + j)
           h == [j \in 0 .. 2 * k - 1 |->
                   CASE j < p -> old(j)
                     [] j >= p /\ j >= n - 1 -> Filler
                     [] j >= p /\ j = n - 2 /\ n % 2 = 1 /\ p % 2 = 1
                          -> IF p = n - 2 THEN old(j) ELSE 0
                     [] OTHER -> old(j + 1)]
<1>1. HalfRemove(m, o, n, p) = PutHalves(m, o, k, h)
  BY DEF HalfRemove
<1>2. Filler \in HalfWord /\ 0 \in HalfWord /\ \A i : HalfAt(m, i) \in HalfWord
  BY Reads, WordParts DEF Filler, HalfWord
<1>3. h \in [0 .. 2 * k - 1 -> HalfWord]
  <2>1. \A j \in 0 .. 2 * k - 1 : h[j] \in HalfWord
    BY <1>2
  <2>. QED
    BY <2>1
<1>4. \A j \in 0 .. n - 2 : /\ j \in 0 .. 2 * k - 1
                            /\ h[j] = IF j < p THEN old(j) ELSE old(j + 1)
  BY SMTT(60)
<1>5. \A j \in 0 .. n - 2 : 2 * o + (j + 1) = 2 * o + j + 1
  OBVIOUS
<1> HIDE DEF h
<1>6. /\ \A j \in 0 .. 2 * k - 1 : HalfAt(PutHalves(m, o, k, h), 2 * o + j) = h[j]
      /\ Outside(m, PutHalves(m, o, k, h), o, o + k)
  BY <1>3, PutHalvesReads
<1>. QED
  BY <1>1, <1>4, <1>5, <1>6 DEF HalvesClose

\* A FullCAN or an explicit standard entry: its half-word is taken out, and the
\* word that becomes free.  What is behind the identifiers does not matter.
LEMMA HalfDeletes ==
  ASSUME NEW m \in Ram, NEW c \in [Sections -> Nat], NEW x \in [Sections -> Nat],
         NEW s \in {"FullCAN", "std"}, NEW p \in Nat, p < c[s],
         x[s] = c[s] - 1, \A t \in Sections : t # s => x[t] = c[t],
         Total(c) <= MemSize, ~(c[s] % 2 = 1 /\ p % 2 = 1),
         NEW h, h = HalfRemove(m, First(c, s), c[s], p), NEW r,
         \A w \in 0 .. IdWords(x) - 1 : WordAt(r, w) =
           WordAt(IF c[s] % 2 = 0 THEN h ELSE Drop(h, Behind(c, s) - 1, Total(c)), w)
  PROVE  Gone(m, c, r, x, s, p)
<1>0. s \in Sections
  BY DEF Sections
<1>1. /\ c[s] \in Nat /\ First(c, s) \in Nat
      /\ Behind(c, s) = First(c, s) + ((c[s] + 1) \div 2)
      /\ Behind(c, s) <= IdWords(c) /\ IdWords(c) \in Nat
  BY <1>0, Extent
<1>2. First(x, s) = First(c, s) /\ Behind(x, s) = First(x, s) + ((x[s] + 1) \div 2)
  BY <1>0, OneChanges, Extent
<1>3. Total(c) \in Nat /\ IdWords(c) <= Total(c)
  <2>1. Total(c) = IdWords(c) + 3 * c["FullCAN"] /\ c["FullCAN"] \in Nat
    BY Layout DEF Sections
  <2>. QED
    BY <1>1, <2>1
<1>4. /\ IdWords(x) = IdWords(c) + Behind(x, s) - Behind(c, s)
      /\ IdWords(x) \in Nat /\ Behind(x, s) \in Nat /\ Behind(x, s) <= IdWords(x)
  BY <1>0, OneChanges, Extent
<1>5. PICK o \in Nat, n \in Nat, i \in Nat, end \in Nat, b \in Nat :
        /\ o = First(c, s) /\ n = c[s] /\ i = IdWords(c) /\ end = Total(c)
        /\ b = Behind(c, s)
  BY <1>0, <1>1, <1>3, Extent
<1>. PICK d \in {0, -1} : d = -(n % 2)
  OBVIOUS
<1>6. /\ b = o + ((n + 1) \div 2) /\ b <= i /\ i <= end /\ end <= MemSize
      /\ p < n /\ ~(n % 2 = 1 /\ p % 2 = 1) /\ o + (n \div 2) = b + d
      /\ d = -(n % 2) /\ b >= o + 1
  <2>1. b = o + ((n + 1) \div 2) /\ p < n /\ d = -(n % 2)
    BY <1>1, <1>5
  <2>2. o + (n \div 2) = b + d /\ b >= o + 1
    BY <2>1
  <2>. QED
    BY <1>1, <1>3, <1>5, <2>1, <2>2
<1>7. Behind(x, s) = b + d /\ IdWords(x) = i + d /\ b + d <= i + d
  <2>1. Behind(x, s) = o + (((n - 1) + 1) \div 2)
    BY <1>2, <1>5
  <2>2. Behind(x, s) = b + d
    BY <1>6, <2>1
  <2>. QED
    BY <1>4, <1>5, <1>6, <2>2
<1>8. h = HalfRemove(m, o, n, p) /\ h \in Ram
  BY <1>5, HalfMoves
<1>9. HalvesClose(m, h, o, n, p) /\ Outside(m, h, o, b)
  <2>1. o + ((n + 1) \div 2) <= MemSize
    BY <1>6, AfAssumption
  <2>. QED
    BY <1>6, <1>8, <2>1, HalfRemoveReads
<1>10. \A w \in 0 .. i + d - 1 :
         WordAt(r, w) = IF b + d <= w THEN WordAt(h, w - d) ELSE WordAt(h, w)
  <2>. SUFFICES ASSUME NEW w \in 0 .. i + d - 1
                PROVE  WordAt(r, w) = IF b + d <= w THEN WordAt(h, w - d)
                                      ELSE WordAt(h, w)
    OBVIOUS
  <2>1. WordAt(r, w) = WordAt(IF n % 2 = 0 THEN h ELSE Drop(h, b - 1, end), w)
    BY <1>5, <1>7
  <2>2. CASE n % 2 = 0
    <3>1. d = 0 /\ w - d = w
      BY <1>6, <2>2
    <3>. QED
      BY <2>1, <2>2, <3>1
  <2>3. CASE n % 2 # 0
    <3>1. d = -1 /\ n % 2 = 1
      BY <1>6, <2>3
    <3>2. /\ b - 1 \in Nat /\ w \in 0 .. end - 2 /\ w - d = w + 1
          /\ b + d = b - 1
      BY <1>6, <3>1
    <3>3. WordAt(Drop(h, b - 1, end), w) =
            IF b - 1 <= w THEN WordAt(h, w + 1) ELSE WordAt(h, w)
      BY <1>6, <1>8, <3>2, DropMoves
    <3>. QED
      BY <2>1, <2>3, <3>2, <3>3
  <2>. QED
    BY <2>2, <2>3
<1>11. \A t \in Sections : t # s => Section(r, x, t) = Section(m, c, t)
  <2>1. \A w \in 0 .. o - 1 : WordAt(r, w) = WordAt(m, w)
    <3>1. \A w \in 0 .. o - 1 : /\ w \in 0 .. i + d - 1 /\ ~(b + d <= w)
                                /\ w \in 0 .. MemSize - 1 /\ ~(o <= w)
      BY <1>6, AfAssumption
    <3>. QED
      BY <1>9, <1>10, <3>1 DEF Outside
  <2>2. \A w \in b .. i - 1 : WordAt(r, w + d) = WordAt(m, w)
    <3>1. \A w \in b .. i - 1 : /\ w + d \in 0 .. i + d - 1 /\ b + d <= w + d
                                /\ (w + d) - d = w
                                /\ w \in 0 .. MemSize - 1 /\ ~(w < b)
      BY <1>6, AfAssumption
    <3>. QED
      BY <1>9, <1>10, <3>1 DEF Outside
  <2>3. /\ \A w \in 0 .. First(c, s) - 1 : WordAt(r, w) = WordAt(m, w)
        /\ \A w \in Behind(c, s) .. IdWords(c) - 1 : WordAt(r, w + d) = WordAt(m, w)
        /\ Behind(x, s) = Behind(c, s) + d
    BY <1>5, <1>7, <2>1, <2>2
  <2>. QED
    BY <1>0, <2>3, OthersStay
<1>12. Halves(h, o, n - 1) = RemoveAt(Halves(m, o, n), p + 1)
  BY <1>6, <1>9, HalvesRemoved
<1>13. Halves(r, o, n - 1) = Halves(h, o, n - 1)
  <2>1. PICK l \in Nat : l = n - 1
    BY <1>6
  <2>2. \A w \in 0 .. ((l + 1) \div 2) - 1 : WordAt(r, o + w) = WordAt(h, o + w)
    <3>1. ((l + 1) \div 2) = n \div 2
      BY <2>1
    <3>2. \A w \in 0 .. (n \div 2) - 1 : o + w \in 0 .. i + d - 1 /\ ~(b + d <= o + w)
      BY <1>6
    <3>. QED
      BY <1>10, <3>1, <3>2
  <2>3. Halves(r, o, l) = Halves(h, o, l)
    BY <2>2, HalvesMove
  <2>. QED
    BY <2>1, <2>3
<1>14. Section(r, x, s) = RemoveAt(Section(m, c, s), p + 1)
  BY <1>0, <1>2, <1>5, <1>12, <1>13, Kinds
<1>. QED
  BY <1>11, <1>14 DEF Gone

\* The memory of the model is larger than the RAM.
LEMMA InsideMemory ==
  ASSUME cnt \in [Sections -> Nat]
  PROVE  /\ Total(cnt) <= RamSize => Total(cnt) <= MemSize
         /\ Total(cnt) < RamSize => Total(cnt) < MemSize
         /\ Total(cnt) < RamSize - 4 => Total(cnt) < MemSize - 4
         /\ Total(cnt) \in Nat
<1>1. Total(cnt) \in Nat
  BY Sizes
<1>. QED
  BY <1>1, AfAssumption

\* What a removal does to the counters.
LEMMA RemovalCounts ==
  ASSUME TableInv, NEW s \in Sections, NEW p \in Nat, Removal(s, p)
  PROVE  /\ cnt \in [Sections -> Nat] /\ cnt' \in [Sections -> Nat]
         /\ p < cnt[s] /\ cnt'[s] = cnt[s] - 1
         /\ \A t \in Sections : t # s => cnt'[t] = cnt[t]
         /\ Total(cnt) <= MemSize
<1>1. CountTypes /\ cnt[s] \in Nat /\ p < cnt[s] /\ Count(s, -1) /\ TableFits
  BY DEF TableInv, CountTypes, Removal
<1>2. cnt[s] + (-1) >= 0 /\ cnt[s] + (-1) = cnt[s] - 1
  BY <1>1
<1>3. Total(cnt) <= MemSize
  BY <1>1, InsideMemory DEF CountTypes, TableFits
<1>. QED
  BY <1>1, <1>2, <1>3, Counted DEF CountTypes

\* What the property says of the five removals.
RemovalsDelete ==
  \A p \in 0 .. MaxEntries :
    /\ CAN_RemoveFullCAN(p) =>
         Deleted("FullCAN", p) \/ (cnt["FullCAN"] % 2 = 1 /\ p % 2 = 1)
    /\ CAN_RemoveExplicitStd(p) =>
         Deleted("std", p) \/ (cnt["std"] % 2 = 1 /\ p % 2 = 1)
    /\ CAN_RemoveGroupStd(p) => Deleted("gstd", p)
    /\ CAN_RemoveExplicitExt(p) => Deleted("ext", p)
    /\ CAN_RemoveGroupExt(p) => Deleted("gext", p)

\* Each of them takes out its entry.
LEMMA RemovalStep == TableInv /\ RamInv => RemovalsDelete
<1>. SUFFICES ASSUME TableInv, RamInv, NEW p \in 0 .. MaxEntries
              PROVE  /\ CAN_RemoveFullCAN(p) =>
                          Deleted("FullCAN", p) \/ (cnt["FullCAN"] % 2 = 1 /\ p % 2 = 1)
                     /\ CAN_RemoveExplicitStd(p) =>
                          Deleted("std", p) \/ (cnt["std"] % 2 = 1 /\ p % 2 = 1)
                     /\ CAN_RemoveGroupStd(p) => Deleted("gstd", p)
                     /\ CAN_RemoveExplicitExt(p) => Deleted("ext", p)
                     /\ CAN_RemoveGroupExt(p) => Deleted("gext", p)
  BY DEF RemovalsDelete
<1>1. mask \in Ram /\ p \in Nat
  BY AfAssumption DEF RamInv
<1>2. "FullCAN" \in Sections /\ "std" \in Sections /\ "gstd" \in Sections
      /\ "ext" \in Sections /\ "gext" \in Sections
  BY DEF Sections
<1>3. /\ First(cnt, "FullCAN") = 0 /\ Behind(cnt, "FullCAN") = FullWords(cnt)
      /\ First(cnt, "std") = FullWords(cnt) /\ Behind(cnt, "std") = GstdStart(cnt)
      /\ First(cnt, "gstd") = GstdStart(cnt) /\ First(cnt, "ext") = ExtStart(cnt)
  BY Places
<1>4. ASSUME CAN_RemoveFullCAN(p), ~(cnt["FullCAN"] % 2 = 1 /\ p % 2 = 1)
      PROVE  Deleted("FullCAN", p)
  <2> DEFINE n == cnt["FullCAN"]
             i == IdWords(cnt)
             h == HalfRemove(mask, 0, n, p)
             g == IF n % 2 = 0 THEN h ELSE Drop(h, FullWords(cnt) - 1, Total(cnt))
  <2>1. /\ Removal("FullCAN", p)
        /\ mask' = MoveDown(g, i + 3 * p + 3, i + 3 * n + 2, 3)
    BY <1>4 DEF CAN_RemoveFullCAN
  <2>2. /\ cnt \in [Sections -> Nat] /\ cnt' \in [Sections -> Nat]
        /\ p < cnt["FullCAN"] /\ cnt'["FullCAN"] = cnt["FullCAN"] - 1
        /\ \A t \in Sections : t # "FullCAN" => cnt'[t] = cnt[t]
        /\ Total(cnt) <= MemSize
    BY <1>1, <1>2, <2>1, RemovalCounts
  <2>3. n \in Nat /\ i \in Nat /\ i <= Total(cnt) /\ Total(cnt) \in Nat
    BY <2>2, Layout DEF Sections
  <2>4. g \in Ram
    <3>1. h \in Ram
      BY <1>1, <2>3, HalfMoves
    <3> HIDE DEF h
    <3>. QED
      BY <3>1, DropWrites
  <2>5. IdWords(cnt') <= i /\ IdWords(cnt') \in Nat
    <3>1. /\ IdWords(cnt') = i + Behind(cnt', "FullCAN") - Behind(cnt, "FullCAN")
          /\ IdWords(cnt') \in Nat
          /\ First(cnt', "FullCAN") = 0
      BY <1>2, <2>2, OneChanges, Extent, Places
    <3>2. /\ Behind(cnt, "FullCAN") = 0 + ((n + 1) \div 2)
          /\ Behind(cnt', "FullCAN") = 0 + ((cnt'["FullCAN"] + 1) \div 2)
      BY <1>2, <1>3, <2>2, <3>1, Extent
    <3>3. Behind(cnt', "FullCAN") <= Behind(cnt, "FullCAN")
          /\ Behind(cnt, "FullCAN") \in Int /\ Behind(cnt', "FullCAN") \in Int
      BY <2>2, <2>3, <3>2
    <3>. QED
      BY <2>3, <3>1, <3>3
  <2> HIDE DEF g
  <2>6. \A w \in 0 .. IdWords(cnt') - 1 : WordAt(mask', w) = WordAt(g, w)
    <3>. SUFFICES ASSUME NEW w \in 0 .. IdWords(cnt') - 1
                  PROVE  WordAt(mask', w) = WordAt(g, w)
      OBVIOUS
    <3>1. PICK a \in Nat, to \in Int : a = i + 3 * p + 3 /\ to = i + 3 * n + 2
      BY <1>1, <2>3
    <3>2. w \in 0 .. MemSize - 1 /\ ~(a - 3 <= w)
      BY <1>1, <2>2, <2>3, <2>5, <3>1, AfAssumption
    <3>3. mask' = MoveDown(g, a, to, 3)
      BY <2>1, <3>1
    <3>. QED
      BY <2>4, <3>2, <3>3, MoveDownMoves
  <2>7. \A w \in 0 .. IdWords(cnt') - 1 : WordAt(mask', w) =
          WordAt(IF n % 2 = 0 THEN h
                 ELSE Drop(h, Behind(cnt, "FullCAN") - 1, Total(cnt)), w)
    BY <1>3, <2>6 DEF g
  <2>8. h = HalfRemove(mask, First(cnt, "FullCAN"), cnt["FullCAN"], p)
    BY <1>3
  <2> HIDE DEF h
  <2>9. Gone(mask, cnt, mask', cnt', "FullCAN", p)
    BY <1>1, <1>4, <2>2, <2>7, <2>8, HalfDeletes
  <2>. QED
    BY <1>2, <2>9, GoneIsDeleted
<1>5. ASSUME CAN_RemoveExplicitStd(p), ~(cnt["std"] % 2 = 1 /\ p % 2 = 1)
      PROVE  Deleted("std", p)
  <2> DEFINE n == cnt["std"]
             h == HalfRemove(mask, FullWords(cnt), n, p)
  <2>1. /\ Removal("std", p)
        /\ mask' = IF n % 2 = 0 THEN h ELSE Drop(h, GstdStart(cnt) - 1, Total(cnt))
    BY <1>5 DEF CAN_RemoveExplicitStd
  <2>2. /\ cnt \in [Sections -> Nat] /\ cnt' \in [Sections -> Nat]
        /\ p < cnt["std"] /\ cnt'["std"] = cnt["std"] - 1
        /\ \A t \in Sections : t # "std" => cnt'[t] = cnt[t]
        /\ Total(cnt) <= MemSize
    BY <1>1, <1>2, <2>1, RemovalCounts
  <2>7. \A w \in 0 .. IdWords(cnt') - 1 : WordAt(mask', w) =
          WordAt(IF n % 2 = 0 THEN h
                 ELSE Drop(h, Behind(cnt, "std") - 1, Total(cnt)), w)
    BY <1>3, <2>1
  <2>8. h = HalfRemove(mask, First(cnt, "std"), cnt["std"], p)
    BY <1>3
  <2> HIDE DEF h
  <2>9. Gone(mask, cnt, mask', cnt', "std", p)
    BY <1>1, <1>5, <2>2, <2>7, <2>8, HalfDeletes
  <2>. QED
    BY <1>2, <2>9, GoneIsDeleted
<1>6. ASSUME NEW s \in {"gstd", "ext"}, Removal(s, p),
             mask' = Drop(mask, First(cnt, s) + p, Total(cnt))
      PROVE  Deleted(s, p)
  <2>1. s \in Sections
    BY <1>2, <1>6
  <2>2. /\ cnt \in [Sections -> Nat] /\ cnt' \in [Sections -> Nat]
        /\ p < cnt[s] /\ cnt'[s] = cnt[s] - 1
        /\ \A t \in Sections : t # s => cnt'[t] = cnt[t]
        /\ Total(cnt) <= MemSize
    BY <1>1, <1>6, <2>1, RemovalCounts
  <2>3. Gone(mask, cnt, Drop(mask, First(cnt, s) + p, Total(cnt)), cnt', s, p)
    BY <1>1, <2>2, DropDeletes
  <2>. QED
    BY <1>6, <2>1, <2>3, GoneIsDeleted
<1>7. CAN_RemoveGroupStd(p) => Deleted("gstd", p)
  BY <1>3, <1>6 DEF CAN_RemoveGroupStd
<1>8. CAN_RemoveExplicitExt(p) => Deleted("ext", p)
  BY <1>3, <1>6 DEF CAN_RemoveExplicitExt
<1>9. ASSUME CAN_RemoveGroupExt(p) PROVE Deleted("gext", p)
  <2>1. Removal("gext", p)
    BY <1>9 DEF CAN_RemoveGroupExt
  <2>2. /\ cnt \in [Sections -> Nat] /\ cnt' \in [Sections -> Nat]
        /\ p < cnt["gext"] /\ cnt'["gext"] = cnt["gext"] - 1
        /\ \A t \in Sections : t # "gext" => cnt'[t] = cnt[t]
        /\ Total(cnt) <= MemSize
    BY <1>1, <1>2, <2>1, RemovalCounts
  <2>3. GextStart(cnt) + 2 * p \in Nat /\ Total(cnt) \in Nat
    BY <1>1, <2>2, Layout
  <2>. PICK a \in Nat : a = GextStart(cnt) + 2 * p
    BY <2>3
  <2>. PICK k \in Int : k = 2 * ((Total(cnt) - a + 1) \div 2)
    BY <2>3
  <2>4. k >= Total(cnt) - a
    BY <2>3
  <2>5. mask' = MoveDown(mask, a + 2, a + k + 1, 2)
    BY <1>9 DEF CAN_RemoveGroupExt
  <2>6. Gone(mask, cnt, MoveDown(mask, a + 2, a + k + 1, 2), cnt', "gext", p)
    BY <1>1, <2>2, <2>4, PairDeletes
  <2>. QED
    BY <1>2, <2>5, <2>6, GoneIsDeleted
<1>. QED
  BY <1>4, <1>5, <1>7, <1>8, <1>9

\* CAN_RemoveEntry takes the entry at the position it is given out of its
\* section and leaves every other entry of the table as it was, for every size
\* of the RAM and every sequence of calls, where position and number of entries
\* in a section of half-words are not both odd.
THEOREM RemovalsAreExact == Spec => RemoveDeletes
<1>1. TableInv /\ RamInv => [RemovalsDelete]_vars
  BY RemovalStep
<1>. QED
  BY <1>1, RamHolds, TableHolds, PTL DEF RemoveDeletes, RemovalsDelete

-----------------------------------------------------------------------------
(* Loads.                                                                  *)

\* The call puts entry e at position p of section s, between entries it may
\* stand between, and leaves the other sections alone.
Arrived(m, c, r, x, s, p, e) ==
  /\ \A t \in Sections :
       Section(r, x, t) = IF t = s THEN InsertAt(Section(m, c, s), p + 1, e)
                          ELSE Section(m, c, t)
  /\ p > 0 => Follows(s, Section(m, c, s)[p], e)
  /\ p < c[s] => Follows(s, e, Section(m, c, s)[p + 1])

\* The type of the entries of section s.
EntryType(s) == CASE s \in {"FullCAN", "std"} -> HalfWord
                  [] s \in {"gstd", "ext"}    -> Word
                  [] s = "gext"               -> Word \X Word

\* Every section is a sequence of them, as long as its counter says.
LEMMA SectionSeq ==
  ASSUME NEW m \in Ram, NEW c \in [Sections -> Nat], NEW s \in Sections
  PROVE  Section(m, c, s) \in Seq(EntryType(s)) /\ Len(Section(m, c, s)) = c[s]
<1>1. c[s] \in Nat
  OBVIOUS
<1>2. CASE s \in {"FullCAN", "std"}
  BY <1>1, <1>2, Kinds, SectionTyped DEF EntryType
<1>3. CASE s \in {"gstd", "ext"}
  BY <1>1, <1>3, Kinds, SectionTyped DEF EntryType
<1>4. CASE s = "gext"
  BY <1>1, <1>4, Kinds, SectionTyped DEF EntryType
<1>. QED
  BY <1>2, <1>3, <1>4 DEF Sections

\* An entry between entries it may stand between keeps the order.
LEMMA OrderKept ==
  ASSUME NEW S, NEW f \in Seq(S), NEW i \in 1 .. Len(f) + 1, NEW e \in S, NEW s,
         \A j \in 1 .. Len(f) - 1 : Follows(s, f[j], f[j + 1]),
         i > 1 => Follows(s, f[i - 1], e),
         i < Len(f) + 1 => Follows(s, e, f[i])
  PROVE  \A j \in 1 .. Len(f) :
           Follows(s, InsertAt(f, i, e)[j], InsertAt(f, i, e)[j + 1])
<1>1. PICK n \in Nat : n = Len(f)
  BY LenProperties
<1>2. PICK g : g = InsertAt(f, i, e)
  OBVIOUS
<1>3. g = [j \in 1 .. Len(f) + 1 |-> IF j < i THEN f[j]
                                     ELSE IF j = i THEN e ELSE f[j - 1]]
  BY <1>2, InsertAtValue
<1>4. \A j \in 1 .. n + 1 : g[j] = IF j < i THEN f[j]
                                   ELSE IF j = i THEN e ELSE f[j - 1]
  BY <1>1, <1>3
<1>5. i \in 1 .. n + 1
  BY <1>1
<1>6. ASSUME NEW j \in 1 .. n PROVE Follows(s, g[j], g[j + 1])
  <2>1. /\ g[j] = IF j < i THEN f[j] ELSE IF j = i THEN e ELSE f[j - 1]
        /\ g[j + 1] = IF j + 1 < i THEN f[j + 1]
                      ELSE IF j + 1 = i THEN e ELSE f[(j + 1) - 1]
    <3>1. j \in 1 .. n + 1 /\ j + 1 \in 1 .. n + 1
      OBVIOUS
    <3>. QED
      BY <1>4, <3>1
  <2>2. CASE j + 1 < i
    <3>1. j \in 1 .. n - 1 /\ j < i
      BY <1>5, <2>2
    <3>. QED
      BY <1>1, <2>1, <2>2, <3>1
  <2>3. CASE j + 1 = i
    <3>1. j < i /\ i - 1 = j /\ i > 1 /\ ~(j + 1 < i)
      BY <1>5, <2>3
    <3>. QED
      BY <2>1, <2>3, <3>1
  <2>4. CASE j = i
    <3>1. i < n + 1 /\ ~(j + 1 < i) /\ ~(j + 1 = i) /\ (j + 1) - 1 = i /\ ~(j < i)
      BY <1>5, <2>4
    <3>. QED
      BY <1>1, <2>1, <2>4, <3>1
  <2>5. CASE j > i
    <3>1. /\ j - 1 \in 1 .. n - 1 /\ (j - 1) + 1 = j /\ (j + 1) - 1 = j
          /\ ~(j < i) /\ j # i /\ ~(j + 1 < i) /\ j + 1 # i
      BY <1>5, <2>5
    <3>2. Follows(s, f[j - 1], f[(j - 1) + 1])
      BY <1>1, <3>1
    <3>. QED
      BY <2>1, <3>1, <3>2
  <2>6. j + 1 < i \/ j + 1 = i \/ j = i \/ j > i
    BY <1>5
  <2>. QED
    BY <2>2, <2>3, <2>4, <2>5, <2>6
<1>. QED
  BY <1>1, <1>2, <1>6

\* That is what the property calls Inserted.
LEMMA ArrivedIsInserted ==
  ASSUME mask \in Ram, cnt \in [Sections -> Nat], NEW s \in Sections,
         cnt'[s] = cnt[s] + 1, NEW p \in 0 .. cnt[s], NEW e \in EntryType(s),
         Arrived(mask, cnt, mask', cnt', s, p, e)
  PROVE  Inserted(s, e)
<1>1. cnt[s] \in Nat /\ p + 1 \in 1 .. cnt[s] + 1 /\ p \in Nat
  OBVIOUS
<1>2. PICK f : f = Section(mask, cnt, s)
  OBVIOUS
<1>3. f \in Seq(EntryType(s)) /\ Len(f) = cnt[s] /\ Contents[s] = f
  BY <1>2, SectionSeq, ContentsValue
<1>4. /\ \A t \in Sections : Section(mask', cnt', t) =
           IF t = s THEN InsertAt(f, p + 1, e) ELSE Section(mask, cnt, t)
      /\ p > 0 => Follows(s, f[p], e)
      /\ p < cnt[s] => Follows(s, e, f[p + 1])
  BY <1>2 DEF Arrived
<1>5. Contents' = [Contents EXCEPT ![s] = InsertAt(@, p + 1, e)]
  <2>1. \A t \in Sections :
          Contents'[t] = [Contents EXCEPT ![s] = InsertAt(@, p + 1, e)][t]
    BY <1>2, <1>4, ContentsValue
  <2>2. Contents' = [t \in Sections |-> Contents'[t]]
    BY ContentsValue
  <2>3. [Contents EXCEPT ![s] = InsertAt(@, p + 1, e)]
          = [t \in Sections |-> [Contents EXCEPT ![s] = InsertAt(@, p + 1, e)][t]]
    BY ContentsValue
  <2>. QED
    BY <2>1, <2>2, <2>3
<1>6. ASSUME Ascending(s) PROVE Ascending(s)'
  <2>1. \A j \in 1 .. Len(f) - 1 : Follows(s, f[j], f[j + 1])
    BY <1>3, <1>6 DEF Ascending
  <2>2. PICK i \in 1 .. Len(f) + 1 : i = p + 1
    BY <1>1, <1>3
  <2>3. /\ i > 1 => Follows(s, f[i - 1], e)
        /\ i < Len(f) + 1 => Follows(s, e, f[i])
    <3>1. /\ i - 1 = p /\ (i > 1 => p > 0)
          /\ (i < cnt[s] + 1 => p < cnt[s])
      BY <1>1, <2>2
    <3>. QED
      BY <1>3, <1>4, <2>2, <3>1
  <2>4. \A j \in 1 .. Len(f) :
          Follows(s, InsertAt(f, i, e)[j], InsertAt(f, i, e)[j + 1])
    BY <1>3, <2>1, <2>3, OrderKept
  <2>5. Contents'[s] = InsertAt(f, i, e)
    BY <1>4, <2>2, ContentsValue
  <2>6. \A j \in 1 .. cnt'[s] - 1 : Follows(s, Contents'[s][j], Contents'[s][j + 1])
    BY <1>1, <1>3, <2>4, <2>5
  <2>. QED
    BY <2>6 DEF Ascending, Follows, Half, ExtRange
<1>. QED
  BY <1>1, <1>5, <1>6 DEF Inserted

\* The first element of a set of places 0 .. n - 1, or n.
LEMMA FirstOf ==
  ASSUME NEW n \in Nat, NEW Q, Q \subseteq 0 .. n - 1, NEW p, p = Min(Q \cup {n})
  PROVE  p \in 0 .. n /\ (p < n => p \in Q) /\ \A j \in 0 .. p - 1 : j \notin Q
<1>1. Q \cup {n} \in SUBSET Nat /\ Q \cup {n} # {}
  OBVIOUS
<1>2. p \in Q \cup {n} /\ \A y \in Q \cup {n} : p <= y
  BY <1>1, MinTyped
<1>. QED
  BY <1>2

\* Entries that open a place p for e.
HalvesOpen(m, r, o, n, p, e) ==
  \A j \in 0 .. n : HalfAt(r, 2 * o + j) =
    IF j < p THEN HalfAt(m, 2 * o + j)
    ELSE IF j = p THEN e ELSE HalfAt(m, 2 * o + j - 1)
SinglesOpen(m, r, o, n, p, e) ==
  \A j \in 0 .. n : WordAt(r, o + j) =
    IF j < p THEN WordAt(m, o + j) ELSE IF j = p THEN e ELSE WordAt(m, o + j - 1)
PairsOpen(m, r, o, n, p, e) ==
  \A j \in 0 .. n :
    <<WordAt(r, o + 2 * j), WordAt(r, o + 2 * j + 1)>> =
      IF j < p THEN <<WordAt(m, o + 2 * j), WordAt(m, o + 2 * j + 1)>>
      ELSE IF j = p THEN e
      ELSE <<WordAt(m, o + 2 * j - 2), WordAt(m, o + 2 * j - 1)>>

\* Then the section has e at that place.
LEMMA HalvesInserted ==
  ASSUME NEW m \in Ram, NEW r, NEW o \in Nat, NEW n \in Nat, NEW p \in 0 .. n,
         NEW e \in HalfWord, HalvesOpen(m, r, o, n, p, e)
  PROVE  Halves(r, o, n + 1) = InsertAt(Halves(m, o, n), p + 1, e)
<1>1. Halves(m, o, n) \in Seq(HalfWord) /\ Len(Halves(m, o, n)) = n
  BY SectionTyped
<1>0. PICK f \in Seq(HalfWord), i \in 1 .. n + 1 : f = Halves(m, o, n) /\ i = p + 1
  BY <1>1
<1>5. Len(f) = n
  BY <1>0, <1>1
<1>6. i \in 1 .. Len(f) + 1
  BY <1>5
<1>7. InsertAt(f, i, e)
        = [j \in 1 .. Len(f) + 1 |-> IF j < i THEN f[j]
                                     ELSE IF j = i THEN e ELSE f[j - 1]]
  BY <1>6, InsertAtValue
<1>2. InsertAt(f, i, e) = [j \in 1 .. n + 1 |-> IF j < i THEN f[j]
                                                ELSE IF j = i THEN e ELSE f[j - 1]]
  BY <1>5, <1>7
<1>3. \A j \in 1 .. n : f[j] = HalfAt(m, 2 * o + j - 1)
  BY <1>0 DEF Halves
<1>4. ASSUME NEW j \in 1 .. n + 1
      PROVE  HalfAt(r, 2 * o + j - 1) = IF j < i THEN f[j]
                                        ELSE IF j = i THEN e ELSE f[j - 1]
  <2>1. /\ j - 1 \in 0 .. n /\ (j - 1 < p <=> j < i) /\ (j - 1 = p <=> j = i)
        /\ (j < i => j \in 1 .. n) /\ (j > i => j - 1 \in 1 .. n)
        /\ 2 * o + (j - 1) = 2 * o + j - 1
    BY <1>0
  <2>2. HalfAt(r, 2 * o + (j - 1)) =
          IF j - 1 < p THEN HalfAt(m, 2 * o + (j - 1))
          ELSE IF j - 1 = p THEN e ELSE HalfAt(m, 2 * o + (j - 1) - 1)
    BY <2>1 DEF HalvesOpen
  <2>3. /\ j < i => f[j] = HalfAt(m, 2 * o + j - 1)
        /\ j > i => f[j - 1] = HalfAt(m, 2 * o + (j - 1) - 1)
    BY <1>3, <2>1
  <2>. QED
    BY <2>1, <2>2, <2>3
<1>. QED
  BY <1>0, <1>2, <1>4 DEF Halves

\* Then word p is gone from the section.
LEMMA SinglesInserted ==
  ASSUME NEW m \in Ram, NEW r, NEW o \in Nat, NEW n \in Nat, NEW p \in 0 .. n,
         NEW e \in Word, SinglesOpen(m, r, o, n, p, e)
  PROVE  Singles(r, o, n + 1) = InsertAt(Singles(m, o, n), p + 1, e)
<1>1. Singles(m, o, n) \in Seq(Word) /\ Len(Singles(m, o, n)) = n
  BY SectionTyped
<1>0. PICK f \in Seq(Word), i \in 1 .. n + 1 : f = Singles(m, o, n) /\ i = p + 1
  BY <1>1
<1>5. Len(f) = n
  BY <1>0, <1>1
<1>6. i \in 1 .. Len(f) + 1
  BY <1>5
<1>7. InsertAt(f, i, e)
        = [j \in 1 .. Len(f) + 1 |-> IF j < i THEN f[j]
                                     ELSE IF j = i THEN e ELSE f[j - 1]]
  BY <1>6, InsertAtValue
<1>2. InsertAt(f, i, e) = [j \in 1 .. n + 1 |-> IF j < i THEN f[j]
                                                ELSE IF j = i THEN e ELSE f[j - 1]]
  BY <1>5, <1>7
<1>3. \A j \in 1 .. n : f[j] = WordAt(m, o + j - 1)
  BY <1>0 DEF Singles
<1>4. ASSUME NEW j \in 1 .. n + 1
      PROVE  WordAt(r, o + j - 1) = IF j < i THEN f[j]
                                    ELSE IF j = i THEN e ELSE f[j - 1]
  <2>1. /\ j - 1 \in 0 .. n /\ (j - 1 < p <=> j < i) /\ (j - 1 = p <=> j = i)
        /\ (j < i => j \in 1 .. n) /\ (j > i => j - 1 \in 1 .. n)
        /\ o + (j - 1) = o + j - 1
    BY <1>0
  <2>2. WordAt(r, o + (j - 1)) =
          IF j - 1 < p THEN WordAt(m, o + (j - 1))
          ELSE IF j - 1 = p THEN e ELSE WordAt(m, o + (j - 1) - 1)
    BY <2>1 DEF SinglesOpen
  <2>3. /\ j < i => f[j] = WordAt(m, o + j - 1)
        /\ j > i => f[j - 1] = WordAt(m, o + (j - 1) - 1)
    BY <1>3, <2>1
  <2>. QED
    BY <2>1, <2>2, <2>3
<1>. QED
  BY <1>0, <1>2, <1>4 DEF Singles

\* The same for a section of pairs.
LEMMA PairsInserted ==
  ASSUME NEW m \in Ram, NEW r, NEW o \in Nat, NEW n \in Nat, NEW p \in 0 .. n,
         NEW e \in Word \X Word, PairsOpen(m, r, o, n, p, e)
  PROVE  Pairs(r, o, n + 1) = InsertAt(Pairs(m, o, n), p + 1, e)
<1>1. Pairs(m, o, n) \in Seq(Word \X Word) /\ Len(Pairs(m, o, n)) = n
  BY SectionTyped
<1>0. PICK f \in Seq(Word \X Word), i \in 1 .. n + 1 :
        f = Pairs(m, o, n) /\ i = p + 1
  BY <1>1
<1>5. Len(f) = n
  BY <1>0, <1>1
<1>6. i \in 1 .. Len(f) + 1
  BY <1>5
<1>7. InsertAt(f, i, e)
        = [j \in 1 .. Len(f) + 1 |-> IF j < i THEN f[j]
                                     ELSE IF j = i THEN e ELSE f[j - 1]]
  <2>1. PICK S : S = Word \X Word /\ f \in Seq(S) /\ e \in S
    OBVIOUS
  <2>. QED
    BY <1>6, <2>1, InsertAtValue
<1>2. InsertAt(f, i, e) = [j \in 1 .. n + 1 |-> IF j < i THEN f[j]
                                                ELSE IF j = i THEN e ELSE f[j - 1]]
  BY <1>5, <1>7
<1>3. \A j \in 1 .. n : f[j] = <<WordAt(m, o + 2 * j - 2), WordAt(m, o + 2 * j - 1)>>
  BY <1>0 DEF Pairs
<1>4. ASSUME NEW j \in 1 .. n + 1
      PROVE  <<WordAt(r, o + 2 * j - 2), WordAt(r, o + 2 * j - 1)>>
               = IF j < i THEN f[j] ELSE IF j = i THEN e ELSE f[j - 1]
  <2>0. PICK k \in 0 .. n : k = j - 1
    OBVIOUS
  <2>1. /\ (k < p <=> j < i) /\ (k = p <=> j = i)
        /\ (j < i => j \in 1 .. n) /\ (j > i => k \in 1 .. n)
        /\ o + 2 * k = o + 2 * j - 2 /\ o + 2 * k + 1 = o + 2 * j - 1
    BY <1>0, <2>0
  <2>2. <<WordAt(r, o + 2 * k), WordAt(r, o + 2 * k + 1)>> =
          IF k < p THEN <<WordAt(m, o + 2 * k), WordAt(m, o + 2 * k + 1)>>
          ELSE IF k = p THEN e
          ELSE <<WordAt(m, o + 2 * k - 2), WordAt(m, o + 2 * k - 1)>>
    BY DEF PairsOpen
  <2>3. j < i => f[j] = <<WordAt(m, o + 2 * j - 2), WordAt(m, o + 2 * j - 1)>>
    BY <1>3, <2>1
  <2>4. j > i => f[k] = <<WordAt(m, o + 2 * k - 2), WordAt(m, o + 2 * k - 1)>>
    BY <1>3, <2>1
  <2>5. CASE j < i
    BY <2>1, <2>2, <2>3, <2>5
  <2>6. CASE j = i
    BY <2>1, <2>2, <2>6
  <2>7. CASE j > i
    <3>1. ~(j < i) /\ j # i
      BY <1>0, <2>7
    <3>. QED
      BY <2>0, <2>1, <2>2, <2>4, <2>7, <3>1
  <2>. QED
    BY <1>0, <2>5, <2>6, <2>7, SMTT(30)
<1>. QED
  BY <1>0, <1>2, <1>4 DEF Pairs

\* HalfInsert opens the place that HalfPlace finds: before the first half-word
\* that is greater.
LEMMA HalfInsertReads ==
  ASSUME NEW m \in Ram, NEW o \in Nat, NEW n \in Nat, NEW e \in HalfWord,
         o + ((n + 2) \div 2) <= MemSize, NEW p, p = HalfPlace(m, o, n, e)
  PROVE  /\ p \in 0 .. n
         /\ p < n => e <= HalfAt(m, 2 * o + p)
         /\ p > 0 => HalfAt(m, 2 * o + p - 1) <= e
         /\ HalvesOpen(m, HalfInsert(m, o, n, e), o, n, p, e)
         /\ Outside(m, HalfInsert(m, o, n, e), o, o + ((n + 2) \div 2))
<1>1. Filler \in HalfWord /\ \A i : HalfAt(m, i) \in HalfWord
  BY Reads, WordParts DEF Filler, HalfWord
<1>2. HalfWord \subseteq Int
  BY DEF HalfWord
<1>3. /\ p \in 0 .. n
      /\ p < n => e <= HalfAt(m, 2 * o + p)
      /\ p > 0 => HalfAt(m, 2 * o + p - 1) <= e
  <2> DEFINE Q == {j \in 0 .. n - 1 : HalfAt(m, 2 * o + j) > e}
  <2>1. p = Min(Q \cup {n}) /\ Q \subseteq 0 .. n - 1
    BY DEF HalfPlace
  <2>2. \A j \in 0 .. n - 1 : j \in Q <=> HalfAt(m, 2 * o + j) > e
    OBVIOUS
  <2> HIDE DEF Q
  <2>3. p \in 0 .. n /\ (p < n => p \in Q) /\ \A j \in 0 .. p - 1 : j \notin Q
    BY <2>1, FirstOf
  <2>4. p < n => e <= HalfAt(m, 2 * o + p)
    <3>1. p < n => p \in 0 .. n - 1
      BY <2>3
    <3>2. PICK v \in HalfWord : v = HalfAt(m, 2 * o + p)
      BY <1>1
    <3>3. p < n => v > e
      BY <2>2, <2>3, <3>1, <3>2
    <3>4. v > e => e <= v
      BY <1>2
    <3>. QED
      BY <3>2, <3>3, <3>4
  <2>5. p > 0 => HalfAt(m, 2 * o + p - 1) <= e
    <3>1. p > 0 => p - 1 \in 0 .. p - 1 /\ p - 1 \in 0 .. n - 1
                   /\ 2 * o + (p - 1) = 2 * o + p - 1
      BY <2>3
    <3>2. p > 0 => ~(HalfAt(m, 2 * o + (p - 1)) > e)
      BY <2>2, <2>3, <3>1
    <3>3. PICK v \in HalfWord : v = HalfAt(m, 2 * o + p - 1)
      BY <1>1
    <3>4. ~(v > e) => v <= e
      BY <1>2
    <3>. QED
      BY <3>1, <3>2, <3>3, <3>4
  <2>. QED
    BY <2>3, <2>4, <2>5
<1>4. PICK k \in Nat : k = (n + 2) \div 2
  OBVIOUS
<1> DEFINE h == [j \in 0 .. 2 * k - 1 |->
                   CASE j < p            -> HalfAt(m, 2 * o + j)
                     [] j = p            -> e
                     [] p < j /\ j <= n  -> HalfAt(m, 2 * o + j - 1)
                     [] OTHER            -> Filler]
<1>5. HalfInsert(m, o, n, e) = PutHalves(m, o, k, h)
  BY <1>4 DEF HalfInsert
<1>6. h \in [0 .. 2 * k - 1 -> HalfWord]
  <2>1. \A j \in 0 .. 2 * k - 1 : h[j] \in HalfWord
    BY <1>1, <1>3
  <2>. QED
    BY <2>1
<1>7. \A j \in 0 .. n :
        /\ j \in 0 .. 2 * k - 1
        /\ h[j] = IF j < p THEN HalfAt(m, 2 * o + j)
                  ELSE IF j = p THEN e ELSE HalfAt(m, 2 * o + j - 1)
  BY <1>3, <1>4, SMTT(30)
<1> HIDE DEF h
<1>8. /\ \A j \in 0 .. 2 * k - 1 : HalfAt(PutHalves(m, o, k, h), 2 * o + j) = h[j]
      /\ Outside(m, PutHalves(m, o, k, h), o, o + k)
  BY <1>4, <1>6, PutHalvesReads
<1>. QED
  BY <1>3, <1>4, <1>5, <1>7, <1>8 DEF HalvesOpen

\* The words from a on, up to word i, have moved up by k; those before a stay.
Opens(m, r, a, i, k) == /\ \A w \in 0 .. a - 1 : WordAt(r, w) = WordAt(m, w)
                        /\ \A w \in a .. i - 1 : WordAt(r, w + k) = WordAt(m, w)

\* A standard group or an explicit extended entry has a word opened for it.
LEMMA SingleArrives ==
  ASSUME NEW m \in Ram, NEW c \in [Sections -> Nat], NEW x \in [Sections -> Nat],
         NEW s \in {"gstd", "ext"}, NEW p \in 0 .. c[s], NEW e \in Word,
         x[s] = c[s] + 1, \A t \in Sections : t # s => x[t] = c[t], NEW r,
         Opens(m, r, First(c, s) + p, IdWords(c), 1),
         WordAt(r, First(c, s) + p) = e,
         p > 0 => Follows(s, WordAt(m, First(c, s) + p - 1), e),
         p < c[s] => Follows(s, e, WordAt(m, First(c, s) + p))
  PROVE  Arrived(m, c, r, x, s, p, e)
<1>0. s \in Sections
  BY DEF Sections
<1>1. /\ c[s] \in Nat /\ First(c, s) \in Nat /\ Behind(c, s) = First(c, s) + c[s]
      /\ Behind(c, s) <= IdWords(c) /\ IdWords(c) \in Nat
  BY <1>0, Extent
<1>2. First(x, s) = First(c, s) /\ Behind(x, s) = First(x, s) + x[s]
  BY <1>0, OneChanges, Extent
<1>3. PICK o \in Nat, n \in Nat, i \in Nat :
        o = First(c, s) /\ n = c[s] /\ i = IdWords(c)
  BY <1>1
<1>4. p \in 0 .. n /\ p \in Nat /\ o + n <= i
  BY <1>1, <1>3
<1>5. /\ \A w \in 0 .. o + p - 1 : WordAt(r, w) = WordAt(m, w)
      /\ WordAt(r, o + p) = e
      /\ \A w \in o + p .. i - 1 : WordAt(r, w + 1) = WordAt(m, w)
  BY <1>3 DEF Opens
<1>6. \A t \in Sections : t # s => Section(r, x, t) = Section(m, c, t)
  <2>1. Behind(x, s) = Behind(c, s) + 1
    BY <1>1, <1>2
  <2>2. \A w \in 0 .. o - 1 : WordAt(r, w) = WordAt(m, w)
    BY <1>4, <1>5
  <2>3. \A w \in o + n .. i - 1 : WordAt(r, w + 1) = WordAt(m, w)
    BY <1>4, <1>5
  <2>4. /\ \A w \in 0 .. First(c, s) - 1 : WordAt(r, w) = WordAt(m, w)
        /\ \A w \in Behind(c, s) .. IdWords(c) - 1 : WordAt(r, w + 1) = WordAt(m, w)
    BY <1>1, <1>3, <2>2, <2>3
  <2>. QED
    BY <1>0, <2>1, <2>4, OthersStay
<1>7. SinglesOpen(m, r, o, n, p, e)
  <2>1. ASSUME NEW j \in 0 .. n
        PROVE  WordAt(r, o + j) = IF j < p THEN WordAt(m, o + j)
                                  ELSE IF j = p THEN e ELSE WordAt(m, o + j - 1)
    <3>1. CASE j < p
      <4>1. o + j \in 0 .. o + p - 1
        BY <1>4, <3>1
      <4>. QED
        BY <1>5, <3>1, <4>1
    <3>2. CASE j = p
      BY <1>4, <1>5, <3>2
    <3>3. CASE j > p
      <4>1. o + j - 1 \in o + p .. i - 1 /\ (o + j - 1) + 1 = o + j
            /\ ~(j < p) /\ j # p
        BY <1>4, <3>3
      <4>2. WordAt(r, (o + j - 1) + 1) = WordAt(m, o + j - 1)
        BY <1>5, <4>1
      <4>. QED
        BY <4>1, <4>2
    <3>. QED
      BY <1>4, <3>1, <3>2, <3>3
  <2>. QED
    BY <2>1 DEF SinglesOpen
<1>8. Singles(r, o, n + 1) = InsertAt(Singles(m, o, n), p + 1, e)
  BY <1>4, <1>7, SinglesInserted
<1>9. Section(m, c, s) = Singles(m, o, n) /\ Section(r, x, s) = Singles(r, o, n + 1)
  BY <1>0, <1>2, <1>3, Kinds
<1>10. /\ p > 0 => Follows(s, Section(m, c, s)[p], e)
       /\ p < c[s] => Follows(s, e, Section(m, c, s)[p + 1])
  <2>1. /\ p > 0 => p \in 1 .. n
        /\ p < n => p + 1 \in 1 .. n /\ o + (p + 1) - 1 = o + p
    BY <1>4
  <2>2. /\ p > 0 => Singles(m, o, n)[p] = WordAt(m, o + p - 1)
        /\ p < n => Singles(m, o, n)[p + 1] = WordAt(m, o + p)
    BY <2>1 DEF Singles
  <2>. QED
    BY <1>3, <1>9, <2>2
<1>. QED
  BY <1>6, <1>8, <1>9, <1>10 DEF Arrived

\* An extended group has two words opened for it.
LEMMA PairArrives ==
  ASSUME NEW m \in Ram, NEW c \in [Sections -> Nat], NEW x \in [Sections -> Nat],
         NEW s, s = "gext", NEW p \in 0 .. c[s], NEW a \in Word, NEW b \in Word,
         x[s] = c[s] + 1, \A t \in Sections : t # s => x[t] = c[t], NEW r,
         Opens(m, r, First(c, s) + 2 * p, IdWords(c), 2),
         WordAt(r, First(c, s) + 2 * p) = a, WordAt(r, First(c, s) + 2 * p + 1) = b,
         p > 0 => WordAt(m, First(c, s) + 2 * p - 1) % ExtRange <= a % ExtRange,
         p < c[s] => b % ExtRange <= WordAt(m, First(c, s) + 2 * p) % ExtRange
  PROVE  Arrived(m, c, r, x, s, p, <<a, b>>)
<1>0. s \in Sections
  BY DEF Sections
<1>1. /\ c[s] \in Nat /\ First(c, s) \in Nat /\ Behind(c, s) = First(c, s) + 2 * c[s]
      /\ Behind(c, s) <= IdWords(c) /\ IdWords(c) \in Nat
  BY <1>0, Extent
<1>2. First(x, s) = First(c, s) /\ Behind(x, s) = First(x, s) + 2 * x[s]
  BY <1>0, OneChanges, Extent
<1>3. PICK o \in Nat, n \in Nat, i \in Nat :
        o = First(c, s) /\ n = c[s] /\ i = IdWords(c)
  BY <1>1
<1>4. p \in 0 .. n /\ p \in Nat /\ o + 2 * n <= i
  BY <1>1, <1>3
<1>5. /\ \A w \in 0 .. o + 2 * p - 1 : WordAt(r, w) = WordAt(m, w)
      /\ WordAt(r, o + 2 * p) = a /\ WordAt(r, o + 2 * p + 1) = b
      /\ \A w \in o + 2 * p .. i - 1 : WordAt(r, w + 2) = WordAt(m, w)
  BY <1>3 DEF Opens
<1>6. \A t \in Sections : t # s => Section(r, x, t) = Section(m, c, t)
  <2>1. Behind(x, s) = Behind(c, s) + 2
    BY <1>1, <1>2
  <2>2. \A w \in 0 .. o - 1 : WordAt(r, w) = WordAt(m, w)
    BY <1>4, <1>5
  <2>3. \A w \in o + 2 * n .. i - 1 : WordAt(r, w + 2) = WordAt(m, w)
    BY <1>4, <1>5
  <2>4. /\ \A w \in 0 .. First(c, s) - 1 : WordAt(r, w) = WordAt(m, w)
        /\ \A w \in Behind(c, s) .. IdWords(c) - 1 : WordAt(r, w + 2) = WordAt(m, w)
    BY <1>1, <1>3, <2>2, <2>3
  <2>. QED
    BY <1>0, <2>1, <2>4, OthersStay
<1>7. PairsOpen(m, r, o, n, p, <<a, b>>)
  <2>1. ASSUME NEW j \in 0 .. n
        PROVE  <<WordAt(r, o + 2 * j), WordAt(r, o + 2 * j + 1)>> =
                 IF j < p THEN <<WordAt(m, o + 2 * j), WordAt(m, o + 2 * j + 1)>>
                 ELSE IF j = p THEN <<a, b>>
                 ELSE <<WordAt(m, o + 2 * j - 2), WordAt(m, o + 2 * j - 1)>>
    <3>1. CASE j < p
      <4>1. o + 2 * j \in 0 .. o + 2 * p - 1 /\ o + 2 * j + 1 \in 0 .. o + 2 * p - 1
        BY <1>4, <3>1
      <4>2. /\ WordAt(r, o + 2 * j) = WordAt(m, o + 2 * j)
            /\ WordAt(r, o + 2 * j + 1) = WordAt(m, o + 2 * j + 1)
        BY <1>5, <4>1
      <4>. QED
        BY <3>1, <4>2
    <3>2. CASE j = p
      <4>1. ~(j < p)
        BY <1>4, <3>2
      <4>. QED
        BY <1>5, <3>2, <4>1
    <3>3. CASE j > p
      <4>1. /\ o + 2 * j - 2 \in o + 2 * p .. i - 1 /\ (o + 2 * j - 2) + 2 = o + 2 * j
            /\ o + 2 * j - 1 \in o + 2 * p .. i - 1
            /\ (o + 2 * j - 1) + 2 = o + 2 * j + 1 /\ ~(j < p) /\ j # p
        BY <1>4, <3>3
      <4>2. /\ WordAt(r, (o + 2 * j - 2) + 2) = WordAt(m, o + 2 * j - 2)
            /\ WordAt(r, (o + 2 * j - 1) + 2) = WordAt(m, o + 2 * j - 1)
        BY <1>5, <4>1
      <4>. QED
        BY <4>1, <4>2
    <3>. QED
      BY <1>4, <3>1, <3>2, <3>3
  <2>. QED
    BY <2>1 DEF PairsOpen
<1>8. Pairs(r, o, n + 1) = InsertAt(Pairs(m, o, n), p + 1, <<a, b>>)
  <2>1. <<a, b>> \in Word \X Word
    OBVIOUS
  <2>. QED
    BY <1>4, <1>7, <2>1, PairsInserted
<1>9. Section(m, c, s) = Pairs(m, o, n) /\ Section(r, x, s) = Pairs(r, o, n + 1)
  BY <1>0, <1>2, <1>3, Kinds
<1>10. /\ p > 0 => Follows(s, Section(m, c, s)[p], <<a, b>>)
       /\ p < c[s] => Follows(s, <<a, b>>, Section(m, c, s)[p + 1])
  <2>1. /\ p > 0 => p \in 1 .. n
        /\ p < n => p + 1 \in 1 .. n /\ o + 2 * (p + 1) - 2 = o + 2 * p
    BY <1>4
  <2>2. /\ p > 0 => Pairs(m, o, n)[p][2] = WordAt(m, o + 2 * p - 1)
        /\ p < n => Pairs(m, o, n)[p + 1][1] = WordAt(m, o + 2 * p)
    BY <2>1 DEF Pairs
  <2>3. \A y, z : Follows(s, y, z) <=> y[2] % ExtRange <= z[1] % ExtRange
    BY DEF Follows
  <2>. QED
    BY <1>3, <1>9, <2>2, <2>3
<1>. QED
  BY <1>6, <1>8, <1>9, <1>10 DEF Arrived

\* The words a .. b - 1 are as before.
Agree(m, r, a, b) == \A w \in a .. b - 1 : WordAt(r, w) = WordAt(m, w)

\* The half-words in such words are as before.
LEMMA HalvesStay ==
  ASSUME NEW m, NEW r, NEW o \in Nat, NEW n \in Nat, Agree(m, r, o, o + ((n + 1) \div 2))
  PROVE  Halves(r, o, n) = Halves(m, o, n)
<1>1. PICK k \in Nat : k = (n + 1) \div 2
  OBVIOUS
<1>2. \A w \in 0 .. k - 1 : o + w \in o .. (o + k) - 1
  OBVIOUS
<1>3. \A w \in 0 .. k - 1 : WordAt(r, o + w) = WordAt(m, o + w)
  BY <1>1, <1>2 DEF Agree
<1>. QED
  BY <1>1, <1>3, HalvesMove

\* A FullCAN or an explicit standard entry gets its half-word, in a new word or
\* in the second half of the last.  g is the RAM with the new word opened; what
\* is behind the identifiers does not matter.
LEMMA HalfArrives ==
  ASSUME NEW m \in Ram, NEW c \in [Sections -> Nat], NEW x \in [Sections -> Nat],
         NEW s \in {"FullCAN", "std"}, NEW e \in HalfWord,
         x[s] = c[s] + 1, \A t \in Sections : t # s => x[t] = c[t],
         Total(c) < MemSize, NEW g \in Ram,
         c[s] % 2 = 1 => g = m,
         c[s] % 2 = 0 => Opens(m, g, Behind(c, s), IdWords(c), 1),
         NEW h, h = HalfInsert(g, First(c, s), c[s], e), NEW r,
         \A w \in 0 .. IdWords(x) - 1 : WordAt(r, w) = WordAt(h, w)
  PROVE  \E p \in 0 .. c[s] : Arrived(m, c, r, x, s, p, e)
<1>0. s \in Sections
  BY DEF Sections
<1>1. /\ c[s] \in Nat /\ First(c, s) \in Nat
      /\ Behind(c, s) = First(c, s) + ((c[s] + 1) \div 2)
      /\ Behind(c, s) <= IdWords(c) /\ IdWords(c) \in Nat
  BY <1>0, Extent
<1>2. First(x, s) = First(c, s) /\ Behind(x, s) = First(x, s) + ((x[s] + 1) \div 2)
  BY <1>0, OneChanges, Extent
<1>3. Total(c) \in Nat /\ IdWords(c) <= Total(c)
  <2>1. Total(c) = IdWords(c) + 3 * c["FullCAN"] /\ c["FullCAN"] \in Nat
    BY Layout DEF Sections
  <2>. QED
    BY <1>1, <2>1
<1>4. /\ IdWords(x) = IdWords(c) + Behind(x, s) - Behind(c, s)
      /\ IdWords(x) \in Nat /\ Behind(x, s) \in Nat /\ Behind(x, s) <= IdWords(x)
  BY <1>0, OneChanges, Extent
<1>5. PICK o \in Nat, n \in Nat, i \in Nat, b \in Nat :
        o = First(c, s) /\ n = c[s] /\ i = IdWords(c) /\ b = Behind(c, s)
  BY <1>0, <1>1, Extent
<1>6. PICK d \in {0, 1}, k \in Nat : d = 1 - (n % 2) /\ k = (n + 2) \div 2
  OBVIOUS
<1>7. b = o + ((n + 1) \div 2) /\ b <= i /\ i < MemSize /\ o + k = b + d
  <2>1. b = o + ((n + 1) \div 2)
    BY <1>1, <1>5
  <2>2. o + k = b + d
    BY <1>6, <2>1
  <2>. QED
    BY <1>1, <1>3, <1>5, <2>1, <2>2, AfAssumption
<1>8. Behind(x, s) = b + d /\ IdWords(x) = i + d
  <2>1. Behind(x, s) = o + ((n + 2) \div 2)
    <3>1. x[s] + 1 = n + 2
      BY <1>5
    <3>. QED
      BY <1>2, <1>5, <3>1
  <2>. QED
    BY <1>4, <1>5, <1>6, <1>7, <2>1
<1>9. \A w \in 0 .. i + d - 1 : WordAt(r, w) = WordAt(h, w)
  BY <1>8
<1>10. /\ \A w \in 0 .. b - 1 : WordAt(g, w) = WordAt(m, w)
       /\ \A w \in b .. i - 1 : WordAt(g, w + d) = WordAt(m, w)
  <2>1. CASE n % 2 = 1
    <3>1. g = m /\ d = 0
      BY <1>5, <1>6, <2>1
    <3>2. \A w \in b .. i - 1 : w + d = w
      BY <3>1
    <3>. QED
      BY <3>1, <3>2
  <2>2. CASE n % 2 = 0
    <3>1. Opens(m, g, b, i, 1) /\ d = 1
      BY <1>5, <1>6, <2>2
    <3>. QED
      BY <3>1 DEF Opens
  <2>. QED
    BY <2>1, <2>2
<1>11. PICK p : p = HalfPlace(g, o, n, e)
  OBVIOUS
<1>12. /\ p \in 0 .. n
       /\ p < n => e <= HalfAt(g, 2 * o + p)
       /\ p > 0 => HalfAt(g, 2 * o + p - 1) <= e
       /\ HalvesOpen(g, h, o, n, p, e)
       /\ Outside(g, h, o, o + k)
  <2>1. o + ((n + 2) \div 2) <= MemSize
    BY <1>6, <1>7, AfAssumption
  <2>2. h = HalfInsert(g, o, n, e)
    BY <1>5
  <2>. QED
    BY <1>6, <1>11, <2>1, <2>2, HalfInsertReads
<1>13. \A t \in Sections : t # s => Section(r, x, t) = Section(m, c, t)
  <2>1. \A w \in 0 .. o - 1 : WordAt(r, w) = WordAt(m, w)
    <3>1. \A w \in 0 .. o - 1 : /\ w \in 0 .. i + d - 1 /\ w \in 0 .. b - 1
                                /\ w \in 0 .. MemSize - 1 /\ ~(o <= w)
      BY <1>7, AfAssumption
    <3>. QED
      BY <1>9, <1>10, <1>12, <3>1 DEF Outside
  <2>2. \A w \in b .. i - 1 : WordAt(r, w + d) = WordAt(m, w)
    <3>1. \A w \in b .. i - 1 : /\ w + d \in 0 .. i + d - 1
                                /\ w + d \in 0 .. MemSize - 1 /\ ~(w + d < o + k)
      BY <1>7, AfAssumption
    <3>. QED
      BY <1>9, <1>10, <1>12, <3>1 DEF Outside
  <2>3. /\ \A w \in 0 .. First(c, s) - 1 : WordAt(r, w) = WordAt(m, w)
        /\ \A w \in Behind(c, s) .. IdWords(c) - 1 : WordAt(r, w + d) = WordAt(m, w)
        /\ Behind(x, s) = Behind(c, s) + d
    BY <1>5, <1>8, <2>1, <2>2
  <2>. QED
    BY <1>0, <2>3, OthersStay
<1>14. Halves(h, o, n + 1) = InsertAt(Halves(g, o, n), p + 1, e)
  BY <1>12, HalvesInserted
<1>15. Halves(g, o, n) = Halves(m, o, n)
  <2>1. Agree(m, g, o, o + ((n + 1) \div 2))
    BY <1>7, <1>10 DEF Agree
  <2>. QED
    BY <2>1, HalvesStay
<1>16. Halves(r, o, n + 1) = Halves(h, o, n + 1)
  <2>1. PICK l \in Nat : l = n + 1
    OBVIOUS
  <2>2. o + ((l + 1) \div 2) = b + d
    <3>1. (l + 1) \div 2 = k
      BY <1>6, <2>1
    <3>. QED
      BY <1>7, <3>1
  <2>3. Agree(h, r, o, o + ((l + 1) \div 2))
    <3>1. \A w \in o .. (b + d) - 1 : w \in 0 .. i + d - 1
      BY <1>7
    <3>. QED
      BY <1>9, <2>2, <3>1 DEF Agree
  <2>4. Halves(r, o, l) = Halves(h, o, l)
    BY <2>3, HalvesStay
  <2>. QED
    BY <2>1, <2>4
<1>17. Section(m, c, s) = Halves(g, o, n) /\ Section(r, x, s) = Halves(r, o, n + 1)
  BY <1>0, <1>2, <1>5, <1>15, Kinds
<1>18. /\ p > 0 => Follows(s, Section(m, c, s)[p], e)
       /\ p < c[s] => Follows(s, e, Section(m, c, s)[p + 1])
  <2>1. /\ p > 0 => p \in 1 .. n
        /\ p < n => p + 1 \in 1 .. n /\ 2 * o + (p + 1) - 1 = 2 * o + p
    BY <1>12
  <2>2. /\ p > 0 => Halves(g, o, n)[p] = HalfAt(g, 2 * o + p - 1)
        /\ p < n => Halves(g, o, n)[p + 1] = HalfAt(g, 2 * o + p)
    BY <2>1 DEF Halves
  <2>3. \A y, z : Follows(s, y, z) <=> y <= z
    BY DEF Follows
  <2>. QED
    BY <1>5, <1>12, <1>17, <2>2, <2>3
<1>. QED
  BY <1>5, <1>12, <1>13, <1>14, <1>16, <1>17, <1>18 DEF Arrived

\* What the identifiers of the entries are read as.
LEMMA EntriesRead ==
  /\ \A c \in Ctrl, id \in ExtIds : ExtEntry(c, id) % ExtRange = id
  /\ \A c \in Ctrl, lower, upper \in StdIds :
       /\ GroupEntry(c, lower, upper) % StdRange = upper
       /\ (GroupEntry(c, lower, upper) \div Half) % StdRange = lower
<1>1. ASSUME NEW c \in Ctrl, NEW id \in ExtIds PROVE ExtEntry(c, id) % ExtRange = id
  <2>1. ExtRange \in Nat
    BY WordParts DEF ExtRange
  <2>2. PICK R \in Nat : R = ExtRange
    BY <2>1
  <2>3. R # 0 /\ id \in 0 .. R - 1 /\ c \in Nat
    BY <2>2 DEF ExtIds, Ctrl
  <2>4. (c * R + id) % R = id
    BY <2>3, Decode
  <2>. QED
    BY <2>2, <2>4 DEF ExtEntry
<1>2. ASSUME NEW c \in Ctrl, NEW lower \in StdIds, NEW upper \in StdIds
      PROVE  /\ GroupEntry(c, lower, upper) % StdRange = upper
             /\ (GroupEntry(c, lower, upper) \div Half) % StdRange = lower
  <2>1. PICK R \in Nat \ {0} : R = StdRange
    BY AfAssumption
  <2>2. lower \in 0 .. R - 1 /\ upper \in 0 .. R - 1 /\ c \in Nat
    BY <2>1 DEF StdIds, Ctrl
  <2>3. PICK a \in HalfWord, b \in HalfWord :
          /\ a = StdEntry(c, lower) /\ b = StdEntry(c, upper)
    BY EntriesFit
  <2>0. PICK q \in Nat : q = 4 * c
    BY <2>2
  <2>4. a = q * R + lower /\ b = q * R + upper
    BY <2>0, <2>1, <2>2, <2>3 DEF StdEntry
  <2>5. a % R = lower
    BY <2>2, <2>4, Decode
  <2>6. (a * Half + b) \div Half = a
    BY HalfDecode
  <2>7. (a * Half + b) % R = upper
    <3>1. a * Half + b = (32 * a + q) * R + upper
      <4>1. Half = 32 * R
        BY <2>1 DEF Half
      <4>2. a \in Nat
        BY WordParts DEF HalfWord
      <4>. QED
        BY <2>2, <2>4, <4>1, <4>2
    <3>2. 32 * a + q \in Nat
      BY <2>2, WordParts DEF HalfWord
    <3>. QED
      BY <2>2, <3>1, <3>2, Decode
  <2>. QED
    BY <2>1, <2>3, <2>5, <2>6, <2>7 DEF GroupEntry
<1>. QED
  BY <1>1, <1>2

\* The loop that moves words up opens k words at a.
LEMMA MoveUpOpens ==
  ASSUME NEW m \in Ram, NEW a \in Nat, NEW i \in Nat, NEW k \in Nat, NEW to \in Int,
         a <= i, i + k <= MemSize, to >= i - 1 + k
  PROVE  Opens(m, MoveUp(m, a, to, k), a, i, k)
<1>1. \A w \in 0 .. a - 1 : w \in 0 .. MemSize - 1 /\ ~(a + k <= w)
  BY AfAssumption
<1>2. \A w \in a .. i - 1 : /\ w + k \in 0 .. MemSize - 1 /\ a + k <= w + k
                            /\ w + k <= to /\ (w + k) - k = w
  BY AfAssumption
<1>3. \A w \in 0 .. MemSize - 1 : WordAt(MoveUp(m, a, to, k), w) =
        IF a + k <= w /\ w <= to THEN WordAt(m, w - k) ELSE WordAt(m, w)
  BY MoveUpMoves
<1>. QED
  BY <1>1, <1>2, <1>3 DEF Opens

\* Where nothing lies behind a, nothing has to move.
LEMMA NothingMoves ==
  ASSUME NEW m, NEW a \in Nat, NEW k
  PROVE  Opens(m, m, a, a, k)
BY DEF Opens

\* The opened words are written.
LEMMA PutOpens ==
  ASSUME NEW m \in Ram, NEW g \in Ram, NEW a \in Nat, NEW i \in Nat, NEW k \in Nat,
         a <= i, i + k <= MemSize, NEW y \in a .. a + k - 1, NEW e \in Word,
         Opens(m, g, a, i, k)
  PROVE  /\ Opens(m, Put(g, y, e), a, i, k)
         /\ WordAt(Put(g, y, e), y) = e
         /\ \A w \in a .. a + k - 1 : w # y => WordAt(Put(g, y, e), w) = WordAt(g, w)
<1>1. \A w \in 0 .. MemSize - 1 :
        WordAt(Put(g, y, e), w) = IF w = y THEN e ELSE WordAt(g, w)
  BY PutMoves
<1>2. y \in 0 .. MemSize - 1 /\ \A w \in a .. a + k - 1 : w \in 0 .. MemSize - 1
  BY AfAssumption
<1>3. \A w \in 0 .. a - 1 : w \in 0 .. MemSize - 1 /\ w # y
  BY AfAssumption
<1>4. \A w \in a .. i - 1 : w + k \in 0 .. MemSize - 1 /\ w + k # y
  BY AfAssumption
<1>. QED
  BY <1>1, <1>2, <1>3, <1>4 DEF Opens

\* What a load does to the counters.
LEMMA LoadCounts ==
  ASSUME TableInv, NEW s \in Sections, Count(s, 1)
  PROVE  /\ cnt \in [Sections -> Nat] /\ cnt' \in [Sections -> Nat]
         /\ cnt'[s] = cnt[s] + 1
         /\ \A t \in Sections : t # s => cnt'[t] = cnt[t]
<1>1. CountTypes /\ cnt[s] + 1 >= 0
  BY DEF TableInv, CountTypes
<1>. QED
  BY <1>1, Counted DEF CountTypes

\* Only an odd number of half-words can hide the place of an entry; the words
\* behind them have not been moved then.
LEMMA NotOverlooked ==
  ASSUME NEW m, NEW g, NEW o, NEW n, n % 2 = 1 => g = m, NEW e,
         ~Overlooked(m, o, n, e)
  PROVE  HalfLoad(g, o, n, e) = HalfInsert(g, o, n, e)
BY DEF HalfLoad, Overlooked

\* Loads of explicit standard entries, where the place is not overlooked.
LEMMA StdArrives ==
  ASSUME TableInv, RamInv, NEW l \in StdLoads, CAN_LoadExplicitStd(l[1], l[2]),
         ret' = "CAN_OK",
         ~Overlooked(mask, FullWords(cnt), cnt["std"], StdEntry(l[1], l[2]))
  PROVE  Inserted("std", StdEntry(l[1], l[2]))
<1>1. mask \in Ram /\ "std" \in Sections
  BY DEF RamInv, Sections
<1> DEFINE g == IF cnt["std"] % 2 = 0
                THEN MoveUp(mask, GstdStart(cnt), Total(cnt), 1) ELSE mask
           e == StdEntry(l[1], l[2])
<1>2. /\ Total(cnt) < RamSize /\ Count("std", 1)
      /\ mask' = HalfLoad(g, FullWords(cnt), cnt["std"], e)
      /\ ~Overlooked(mask, FullWords(cnt), cnt["std"], e)
  BY DEF CAN_LoadExplicitStd, Refuse
<1>3. e \in HalfWord /\ e \in EntryType("std")
  <2>1. e \in HalfWord
    BY EntriesFit, AfAssumption
  <2> HIDE DEF e
  <2>. QED
    BY <2>1 DEF EntryType
<1> HIDE DEF e
<1>4. /\ cnt \in [Sections -> Nat] /\ cnt' \in [Sections -> Nat]
      /\ cnt'["std"] = cnt["std"] + 1
      /\ \A t \in Sections : t # "std" => cnt'[t] = cnt[t]
  BY <1>1, <1>2, LoadCounts
<1>5. PICK a \in Nat, i \in Nat, z \in Nat :
        /\ a = GstdStart(cnt) /\ a = Behind(cnt, "std") /\ i = IdWords(cnt)
        /\ z = Total(cnt) /\ a <= i /\ i <= z /\ z < MemSize
  <2>1. /\ Behind(cnt, "std") = GstdStart(cnt) /\ Behind(cnt, "std") \in Nat
        /\ Behind(cnt, "std") <= IdWords(cnt) /\ IdWords(cnt) \in Nat
    BY <1>1, <1>4, Extent, Places
  <2>2. Total(cnt) = IdWords(cnt) + 3 * cnt["FullCAN"] /\ cnt["FullCAN"] \in Nat
    BY <1>4, Layout DEF Sections
  <2>3. Total(cnt) \in Nat /\ IdWords(cnt) <= Total(cnt)
    BY <2>1, <2>2
  <2>5. Total(cnt) < MemSize
    BY <1>2, <1>4, InsideMemory
  <2>. QED
    BY <2>1, <2>3, <2>5
<1>6. /\ g \in Ram
      /\ cnt["std"] % 2 = 1 => g = mask
      /\ cnt["std"] % 2 = 0 => Opens(mask, g, Behind(cnt, "std"), IdWords(cnt), 1)
  <2>1. MoveUp(mask, a, z, 1) \in Ram
    BY <1>1, MoveUpWrites
  <2>2. Opens(mask, MoveUp(mask, a, z, 1), a, i, 1)
    <3>1. i + 1 <= MemSize /\ z >= i - 1 + 1
      BY <1>5, AfAssumption
    <3>. QED
      BY <1>1, <1>5, <3>1, MoveUpOpens
  <2>. QED
    BY <1>1, <1>5, <2>1, <2>2
<1> HIDE DEF g
<1>7. First(cnt, "std") = FullWords(cnt)
  BY Places
<1>8. mask' = HalfInsert(g, First(cnt, "std"), cnt["std"], e)
  BY <1>1, <1>2, <1>4, <1>6, <1>7, NotOverlooked
<1>9. \E p \in 0 .. cnt["std"] : Arrived(mask, cnt, mask', cnt', "std", p, e)
  <2>1. Total(cnt) < MemSize
    BY <1>5
  <2>. QED
    BY <1>1, <1>3, <1>4, <1>6, <1>8, <2>1, HalfArrives
<1>. QED
  BY <1>1, <1>3, <1>4, <1>9, ArrivedIsInserted DEF e

\* Loads of FullCAN entries, where the place is not overlooked.
LEMMA FullArrives ==
  ASSUME TableInv, RamInv, NEW l \in FullLoads, CAN_LoadFullCANEntry(l[1], l[2]),
         ret' = "CAN_OK",
         ~Overlooked(mask, 0, cnt["FullCAN"], FullEntry(l[1], l[2]))
  PROVE  Inserted("FullCAN", FullEntry(l[1], l[2]))
<1>1. mask \in Ram /\ "FullCAN" \in Sections
  BY DEF RamInv, Sections
<1> DEFINE n == cnt["FullCAN"]
           t == Total(cnt)
           e == FullEntry(l[1], l[2])
           g == IF n % 2 = 0 /\ t # 0 THEN MoveUp(mask, n \div 2, n \div 2 + t, 1)
                                      ELSE mask
           p == IF n < 2 THEN 0 ELSE HalfPlace(mask, 0, n, e)
           at == t - 3 * n + 3 * p + 1
           h == HalfLoad(g, 0, n, e)
           obj == MoveUp(h, at, at + 3 * (n - p) + 2, 3)
<1>2. /\ t < RamSize - 4 /\ Count("FullCAN", 1)
      /\ mask' = [w \in DOMAIN mask |-> IF w \in at .. at + 2 THEN 0 ELSE obj[w]]
      /\ ~Overlooked(mask, 0, n, e)
  BY DEF CAN_LoadFullCANEntry, Refuse
<1>3. e \in HalfWord /\ e \in EntryType("FullCAN")
  <2>1. e \in HalfWord
    BY EntriesFit, AfAssumption
  <2> HIDE DEF e
  <2>. QED
    BY <2>1 DEF EntryType
<1> HIDE DEF e
<1>4. /\ cnt \in [Sections -> Nat] /\ cnt' \in [Sections -> Nat]
      /\ cnt'["FullCAN"] = cnt["FullCAN"] + 1
      /\ \A u \in Sections : u # "FullCAN" => cnt'[u] = cnt[u]
  BY <1>1, <1>2, LoadCounts
<1>5. /\ n \in Nat /\ First(cnt, "FullCAN") = 0
      /\ Behind(cnt, "FullCAN") = (n + 1) \div 2
      /\ Behind(cnt, "FullCAN") <= IdWords(cnt) /\ IdWords(cnt) \in Nat
      /\ t = IdWords(cnt) + 3 * n
  <2>1. Behind(cnt, "FullCAN") = FullWords(cnt) /\ FullWords(cnt) = (n + 1) \div 2
    BY <1>4, Places, Layout
  <2>. QED
    BY <1>1, <1>4, <2>1, Extent, Places, Layout
<1>6. PICK a \in Nat, i \in Nat, z \in Nat :
        /\ a = Behind(cnt, "FullCAN") /\ i = IdWords(cnt) /\ z = t
        /\ a = (n + 1) \div 2 /\ a <= i /\ z = i + 3 * n /\ z < MemSize - 4
        /\ n \in Nat
  <2>1. (n + 1) \div 2 \in Nat /\ t \in Nat
    BY <1>5
  <2>2. t < MemSize - 4
    BY <1>2, <1>4, InsideMemory
  <2>. QED
    BY <1>5, <2>1, <2>2
<1>7. i <= z /\ z < MemSize /\ i + 1 <= MemSize
  BY <1>6, AfAssumption
<1>8. /\ g \in Ram
      /\ n % 2 = 1 => g = mask
      /\ n % 2 = 0 => Opens(mask, g, a, i, 1)
  <2>1. CASE n % 2 = 1
    BY <1>1, <2>1
  <2>2. CASE n % 2 = 0 /\ z = 0
    <3>1. g = mask /\ i = 0 /\ a = 0 /\ ~(n % 2 = 1)
      BY <1>6, <1>7, <2>2
    <3>. QED
      BY <1>1, <3>1, NothingMoves
  <2>3. CASE n % 2 = 0 /\ z # 0
    <3>0. n \div 2 = a
      BY <1>6, <2>3
    <3>1. PICK to \in Int : to = a + z
      OBVIOUS
    <3>2. to >= i - 1 + 1
      BY <1>7, <3>1
    <3>3. g = MoveUp(mask, a, to, 1)
      BY <1>6, <2>3, <3>0, <3>1
    <3>4. Opens(mask, MoveUp(mask, a, to, 1), a, i, 1)
      BY <1>1, <1>6, <1>7, <3>2, MoveUpOpens
    <3>5. MoveUp(mask, a, to, 1) \in Ram
      BY <1>1, MoveUpWrites
    <3>. QED
      BY <2>3, <3>3, <3>4, <3>5
  <2>. QED
    BY <1>6, <2>1, <2>2, <2>3
<1>9. p \in Nat
  BY <1>6, HalfPlaceTyped
<1>10. at \in Nat /\ at >= i + 1 /\ at + 3 * (n - p) + 2 \in Int
  <2> HIDE DEF p
  <2>. QED
    BY <1>6, <1>9
<1> HIDE DEF g, p, at
<1>11. h \in Ram
  BY <1>3, <1>6, <1>8, HalfMoves
<1>12. h = HalfInsert(g, First(cnt, "FullCAN"), cnt["FullCAN"], e)
  BY <1>2, <1>5, <1>8, NotOverlooked
<1> HIDE DEF h
<1>13. IdWords(cnt') <= i + 1 /\ IdWords(cnt') \in Nat
  <2>1. /\ IdWords(cnt') = IdWords(cnt) + Behind(cnt', "FullCAN") - Behind(cnt, "FullCAN")
        /\ IdWords(cnt') \in Nat
    BY <1>1, <1>4, OneChanges, Extent
  <2>2. Behind(cnt', "FullCAN") = (cnt'["FullCAN"] + 1) \div 2
    BY <1>4, Places, Layout
  <2>3. Behind(cnt', "FullCAN") = (n + 1 + 1) \div 2
    BY <1>4, <2>2
  <2>4. Behind(cnt', "FullCAN") <= a + 1 /\ Behind(cnt', "FullCAN") \in Int
    BY <1>6, <2>3
  <2>. QED
    BY <1>6, <2>1, <2>4
<1>14. \A w \in 0 .. IdWords(cnt') - 1 : WordAt(mask', w) = WordAt(h, w)
  <2>. SUFFICES ASSUME NEW w \in 0 .. IdWords(cnt') - 1
                PROVE  WordAt(mask', w) = WordAt(h, w)
    OBVIOUS
  <2>1. w \in 0 .. MemSize - 1 /\ w < at
    BY <1>7, <1>10, <1>13, AfAssumption
  <2>2. ~(w \in at .. at + 2) /\ ~(at + 3 <= w)
    BY <1>10, <2>1
  <2>3. PICK to \in Int : to = at + 3 * (n - p) + 2
    BY <1>10
  <2>4. WordAt(obj, w) = WordAt(h, w)
    BY <1>10, <1>11, <2>1, <2>2, <2>3, MoveUpMoves
  <2>5. obj \in Ram
    BY <1>10, <1>11, MoveUpWrites
  <2> HIDE DEF obj
  <2>6. mask'[w] = obj[w] /\ DOMAIN mask' = 0 .. MemSize - 1
    BY <1>1, <1>2, <2>1, <2>2 DEF Ram
  <2>7. WordAt(mask', w) = mask'[w] /\ WordAt(obj, w) = obj[w]
    BY <2>1, <2>5, <2>6, WordRead DEF WordAt
  <2>. QED
    BY <2>4, <2>6, <2>7
<1>15. /\ Total(cnt) < MemSize
       /\ cnt["FullCAN"] % 2 = 1 => g = mask
       /\ cnt["FullCAN"] % 2 = 0 =>
            Opens(mask, g, Behind(cnt, "FullCAN"), IdWords(cnt), 1)
  BY <1>6, <1>7, <1>8
<1>16. \E q \in 0 .. cnt["FullCAN"] : Arrived(mask, cnt, mask', cnt', "FullCAN", q, e)
  BY <1>1, <1>3, <1>4, <1>8, <1>12, <1>14, <1>15, HalfArrives
<1>. QED
  BY <1>1, <1>3, <1>4, <1>16, ArrivedIsInserted DEF e

\* The place of an extended entry: before the first word that is greater.
WordPlace(m, o, n, e) == Min({j \in 0 .. n - 1 : WordAt(m, o + j) > e} \cup {n})

\* The word at that place is greater and the one before it is not.
LEMMA WordFirst ==
  ASSUME NEW m, NEW o, NEW n \in Nat, NEW e, NEW p, p = WordPlace(m, o, n, e)
  PROVE  /\ p \in 0 .. n
         /\ p < n => WordAt(m, o + p) > e
         /\ p > 0 => ~(WordAt(m, o + (p - 1)) > e)
<1> DEFINE Q == {j \in 0 .. n - 1 : WordAt(m, o + j) > e}
<1>1. p = Min(Q \cup {n}) /\ Q \subseteq 0 .. n - 1
  BY DEF WordPlace
<1>2. \A j \in 0 .. n - 1 : j \in Q <=> WordAt(m, o + j) > e
  OBVIOUS
<1> HIDE DEF Q
<1>3. p \in 0 .. n /\ (p < n => p \in Q) /\ \A j \in 0 .. p - 1 : j \notin Q
  BY <1>1, FirstOf
<1>4. /\ p < n => p \in 0 .. n - 1
      /\ p > 0 => p - 1 \in 0 .. p - 1 /\ p - 1 \in 0 .. n - 1
  BY <1>3
<1>. QED
  BY <1>2, <1>3, <1>4

\* Loads of explicit extended entries.
LEMMA ExtArrives ==
  ASSUME TableInv, RamInv, NEW l \in ExtLoads, CAN_LoadExplicitExt(l[1], l[2]),
         ret' = "CAN_OK"
  PROVE  Inserted("ext", ExtEntry(l[1], l[2]))
<1>1. mask \in Ram /\ "ext" \in Sections
  BY DEF RamInv, Sections
<1> DEFINE n == cnt["ext"]
           e == ExtEntry(l[1], l[2])
           p == WordPlace(mask, ExtStart(cnt), n, e)
           at == ExtStart(cnt) + p
<1>2. /\ Total(cnt) < RamSize /\ Count("ext", 1)
      /\ mask' = Put(MoveUp(mask, at, ExtStart(cnt) + Total(cnt), 1), at, e)
  BY DEF CAN_LoadExplicitExt, ExtPlace, WordPlace, Refuse
<1>3. e \in Word /\ e \in EntryType("ext") /\ Word \subseteq Int
  <2>1. e \in Word
    BY EntriesFit, AfAssumption
  <2> HIDE DEF e
  <2>. QED
    BY <2>1 DEF EntryType, Word
<1> HIDE DEF e
<1>4. /\ cnt \in [Sections -> Nat] /\ cnt' \in [Sections -> Nat]
      /\ cnt'["ext"] = cnt["ext"] + 1
      /\ \A t \in Sections : t # "ext" => cnt'[t] = cnt[t]
  BY <1>1, <1>2, LoadCounts
<1>5. PICK o \in Nat, i \in Nat, z \in Nat :
        /\ o = ExtStart(cnt) /\ o = First(cnt, "ext") /\ i = IdWords(cnt)
        /\ z = Total(cnt) /\ n \in Nat /\ o + n <= i /\ i <= z /\ z < MemSize
  <2>1. /\ First(cnt, "ext") = ExtStart(cnt) /\ First(cnt, "ext") \in Nat
        /\ Behind(cnt, "ext") = First(cnt, "ext") + n /\ n \in Nat
        /\ Behind(cnt, "ext") <= IdWords(cnt) /\ IdWords(cnt) \in Nat
    BY <1>1, <1>4, Extent, Places
  <2>2. Total(cnt) = IdWords(cnt) + 3 * cnt["FullCAN"] /\ cnt["FullCAN"] \in Nat
    BY <1>4, Layout DEF Sections
  <2>3. Total(cnt) \in Nat /\ IdWords(cnt) <= Total(cnt)
    BY <2>1, <2>2
  <2>5. Total(cnt) < MemSize
    BY <1>2, <1>4, InsideMemory
  <2>. QED
    BY <2>1, <2>3, <2>5
<1>8. /\ p \in 0 .. n
      /\ p < n => WordAt(mask, o + p) > e
      /\ p > 0 => ~(WordAt(mask, o + (p - 1)) > e)
  BY <1>5, WordFirst
<1> HIDE DEF p
<1>9. at = o + p /\ at \in Nat /\ at <= i /\ i + 1 <= MemSize
  BY <1>5, <1>8, AfAssumption
<1> HIDE DEF at
<1>10. PICK to \in Int : to = ExtStart(cnt) + Total(cnt) /\ to >= i - 1 + 1
  BY <1>5
<1>11. PICK g \in Ram : g = MoveUp(mask, at, to, 1)
  BY <1>1, <1>9, MoveUpWrites
<1>12. Opens(mask, g, at, i, 1)
  BY <1>1, <1>9, <1>10, <1>11, MoveUpOpens
<1>13. mask' = Put(g, at, e)
  BY <1>2, <1>10, <1>11
<1>14. Opens(mask, mask', at, i, 1) /\ WordAt(mask', at) = e
  <2>1. at \in at .. at + 1 - 1
    BY <1>9
  <2>. QED
    BY <1>1, <1>3, <1>9, <1>12, <1>13, <2>1, PutOpens
<1>15. /\ p > 0 => WordAt(mask, o + p - 1) <= e
       /\ p < n => e <= WordAt(mask, o + p)
  <2>1. PICK y \in Word, v \in Word :
          y = WordAt(mask, o + p - 1) /\ v = WordAt(mask, o + p)
    BY <1>1, Reads
  <2>2. p > 0 => o + (p - 1) = o + p - 1
    BY <1>5, <1>8
  <2>3. p > 0 => ~(y > e)
    BY <1>8, <2>1, <2>2
  <2>4. p < n => v > e
    BY <1>8, <2>1
  <2>5. (~(y > e) => y <= e) /\ (v > e => e <= v)
    BY <1>3
  <2>. QED
    BY <2>1, <2>3, <2>4, <2>5
<1>16. \A y, v : Follows("ext", y, v) <=> y <= v
  BY DEF Follows
<1>17. /\ Opens(mask, mask', First(cnt, "ext") + p, IdWords(cnt), 1)
       /\ WordAt(mask', First(cnt, "ext") + p) = e
       /\ p > 0 => Follows("ext", WordAt(mask, First(cnt, "ext") + p - 1), e)
       /\ p < cnt["ext"] => Follows("ext", e, WordAt(mask, First(cnt, "ext") + p))
       /\ p \in 0 .. cnt["ext"]
  BY <1>5, <1>8, <1>9, <1>14, <1>15, <1>16
<1>18. Arrived(mask, cnt, mask', cnt', "ext", p, e)
  BY <1>1, <1>3, <1>4, <1>17, SingleArrives
<1>. QED
  BY <1>1, <1>3, <1>4, <1>17, <1>18, ArrivedIsInserted DEF e

\* The place of a group: it does not begin before the group in front of it ends.
LEMMA GroupFirst ==
  ASSUME NEW n \in Nat, NEW lid \in [0 .. n - 1 -> Nat], NEW uid \in [0 .. n - 1 -> Nat],
         NEW lower \in Nat, NEW upper, NEW p, p = GroupPlace(n, lid, uid, lower, upper)
  PROVE  p \in 0 .. n /\ (p > 0 => uid[p - 1] <= lower)
<1> DEFINE Q == {j \in 0 .. n - 1 : upper <= lid[j] \/ lower < uid[j]}
<1>1. p = Min(Q \cup {n}) /\ Q \subseteq 0 .. n - 1
  BY DEF GroupPlace
<1>2. \A j \in 0 .. n - 1 : j \notin Q => ~(lower < uid[j])
  OBVIOUS
<1> HIDE DEF Q
<1>3. p \in 0 .. n /\ \A j \in 0 .. p - 1 : j \notin Q
  BY <1>1, FirstOf
<1>4. p > 0 => p - 1 \in 0 .. p - 1 /\ p - 1 \in 0 .. n - 1
  BY <1>3
<1>5. p > 0 => ~(lower < uid[p - 1]) /\ uid[p - 1] \in Nat
  BY <1>2, <1>3, <1>4
<1>. QED
  BY <1>3, <1>5

\* Loads of standard groups, but for the first group when extended entries are
\* behind it.
LEMMA GstdArrives ==
  ASSUME TableInv, RamInv, NEW q \in StdGroups, CAN_LoadGroupStd(q[1], q[2], q[3]),
         ret' = "CAN_OK", ~(cnt["gstd"] = 0 /\ cnt["ext"] + cnt["gext"] > 0)
  PROVE  Inserted("gstd", GroupEntry(q[1], q[2], q[3]))
<1>1. mask \in Ram /\ "gstd" \in Sections
  BY DEF RamInv, Sections
<1> DEFINE n == cnt["gstd"]
           lower == q[2]
           upper == q[3]
           e == GroupEntry(q[1], lower, upper)
           word(j) == WordAt(mask, GstdStart(cnt) + j)
           lid == [j \in 0 .. n - 1 |-> (word(j) \div Half) % StdRange]
           uid == [j \in 0 .. n - 1 |-> word(j) % StdRange]
           p == GroupPlace(n, lid, uid, lower, upper)
           at == GstdStart(cnt) + p
           g == IF n = 0 THEN mask ELSE MoveUp(mask, at, Total(cnt), 1)
<1>2. /\ Total(cnt) < RamSize /\ Count("gstd", 1)
      /\ p < n => upper <= lid[p]
      /\ mask' = Put(g, at, e)
  BY DEF CAN_LoadGroupStd, Refuse
<1>3. /\ q[1] \in Ctrl /\ lower \in StdIds /\ upper \in StdIds
      /\ lower \in Nat /\ upper \in Nat
  BY AfAssumption DEF StdIds
<1>4. /\ e \in Word /\ e % StdRange = upper /\ (e \div Half) % StdRange = lower
  BY <1>3, EntriesFit, EntriesRead
<1> HIDE DEF e
<1>5. e \in EntryType("gstd")
  BY <1>4 DEF EntryType
<1>6. /\ cnt \in [Sections -> Nat] /\ cnt' \in [Sections -> Nat]
      /\ cnt'["gstd"] = cnt["gstd"] + 1
      /\ \A t \in Sections : t # "gstd" => cnt'[t] = cnt[t]
  BY <1>1, <1>2, LoadCounts
<1>7. PICK o \in Nat, i \in Nat, z \in Nat :
        /\ o = GstdStart(cnt) /\ o = First(cnt, "gstd") /\ i = IdWords(cnt)
        /\ z = Total(cnt) /\ n \in Nat /\ o + n <= i /\ i <= z /\ z < MemSize
        /\ (n = 0 => i = o)
  <2>1. /\ First(cnt, "gstd") = GstdStart(cnt) /\ First(cnt, "gstd") \in Nat
        /\ Behind(cnt, "gstd") = First(cnt, "gstd") + n /\ n \in Nat
        /\ Behind(cnt, "gstd") <= IdWords(cnt) /\ IdWords(cnt) \in Nat
    BY <1>1, <1>6, Extent, Places
  <2>2. /\ Total(cnt) = IdWords(cnt) + 3 * cnt["FullCAN"] /\ cnt["FullCAN"] \in Nat
        /\ IdWords(cnt) = GstdStart(cnt) + n + cnt["ext"] + 2 * cnt["gext"]
        /\ cnt["ext"] \in Nat /\ cnt["gext"] \in Nat
    BY <1>6, Layout DEF Sections
  <2>3. Total(cnt) \in Nat /\ IdWords(cnt) <= Total(cnt)
    BY <2>1, <2>2
  <2>4. n = 0 => IdWords(cnt) = GstdStart(cnt)
    BY <2>1, <2>2
  <2>5. Total(cnt) < MemSize
    BY <1>2, <1>6, InsideMemory
  <2>. QED
    BY <2>1, <2>3, <2>5, <2>4
<1>8. \A j \in 0 .. n - 1 : /\ lid[j] = (WordAt(mask, o + j) \div Half) % StdRange
                            /\ uid[j] = WordAt(mask, o + j) % StdRange
  BY <1>7
<1>9. lid \in [0 .. n - 1 -> Nat] /\ uid \in [0 .. n - 1 -> Nat]
  <2>1. \A w \in Word : w % StdRange \in Nat /\ (w \div Half) % StdRange \in Nat
    <3>1. PICK R \in Nat \ {0} : R = StdRange
      BY AfAssumption
    <3>2. \A w \in Word : w \in Nat /\ w \div Half \in Nat
      <4>1. Word \subseteq Nat /\ HalfWord \subseteq Nat
        BY DEF Word, HalfWord
      <4>. QED
        BY <4>1, WordParts, Zenon
    <3>3. \A y \in Nat : y % R \in Nat
      OBVIOUS
    <3>4. \A w \in Word : w % R \in Nat /\ (w \div Half) % R \in Nat
      BY <3>2, <3>3, Zenon
    <3>. QED
      BY <3>1, <3>4
  <2>2. \A j : word(j) \in Word
    BY <1>1, Reads
  <2> HIDE DEF word
  <2>. QED
    BY <2>1, <2>2
<1> HIDE DEF lid, uid, lower, upper
<1>10. p \in 0 .. n /\ (p > 0 => uid[p - 1] <= lower)
  BY <1>3, <1>7, <1>9, GroupFirst
<1> HIDE DEF p
<1>11. at = o + p /\ at \in Nat /\ at <= i /\ i + 1 <= MemSize
  BY <1>7, <1>10, AfAssumption
<1> HIDE DEF at
<1>12. g \in Ram /\ Opens(mask, g, at, i, 1)
  <2>1. CASE n = 0
    <3>1. g = mask /\ at = i
      BY <1>7, <1>10, <1>11, <2>1
    <3>. QED
      BY <1>1, <1>11, <3>1, NothingMoves
  <2>2. CASE n # 0
    <3>1. g = MoveUp(mask, at, z, 1) /\ z >= i - 1 + 1 /\ z \in Int
      BY <1>7, <2>2
    <3>2. MoveUp(mask, at, z, 1) \in Ram
      BY <1>1, <1>11, MoveUpWrites
    <3>3. Opens(mask, MoveUp(mask, at, z, 1), at, i, 1)
      BY <1>1, <1>11, <3>1, MoveUpOpens
    <3>. QED
      BY <3>1, <3>2, <3>3
  <2>. QED
    BY <2>1, <2>2
<1> HIDE DEF g
<1>13. Opens(mask, mask', at, i, 1) /\ WordAt(mask', at) = e
  <2>1. at \in at .. at + 1 - 1
    BY <1>11
  <2>. QED
    BY <1>1, <1>2, <1>4, <1>11, <1>12, <2>1, PutOpens
<1>14. \A y, v : Follows("gstd", y, v) <=> y % StdRange <= (v \div Half) % StdRange
  BY DEF Follows
<1>15. p > 0 => Follows("gstd", WordAt(mask, o + p - 1), e)
  <2>1. p > 0 => p - 1 \in 0 .. n - 1 /\ o + (p - 1) = o + p - 1
    BY <1>7, <1>10
  <2>2. p > 0 => uid[p - 1] = WordAt(mask, o + p - 1) % StdRange
    BY <1>8, <2>1
  <2>. QED
    BY <1>4, <1>10, <1>14, <2>2
<1>16. p < n => Follows("gstd", e, WordAt(mask, o + p))
  <2>1. p < n => p \in 0 .. n - 1
    BY <1>7, <1>10
  <2>2. p < n => lid[p] = (WordAt(mask, o + p) \div Half) % StdRange
    BY <1>8, <2>1
  <2>. QED
    BY <1>2, <1>4, <1>14, <2>2
<1>17. /\ Opens(mask, mask', First(cnt, "gstd") + p, IdWords(cnt), 1)
       /\ WordAt(mask', First(cnt, "gstd") + p) = e
       /\ p > 0 => Follows("gstd", WordAt(mask, First(cnt, "gstd") + p - 1), e)
       /\ p < cnt["gstd"] => Follows("gstd", e, WordAt(mask, First(cnt, "gstd") + p))
       /\ p \in 0 .. cnt["gstd"]
  BY <1>7, <1>10, <1>11, <1>13, <1>15, <1>16
<1>18. Arrived(mask, cnt, mask', cnt', "gstd", p, e)
  BY <1>1, <1>4, <1>6, <1>17, SingleArrives
<1>. QED
  BY <1>1, <1>5, <1>6, <1>17, <1>18, ArrivedIsInserted DEF e, lower, upper

\* Loads of extended groups.
LEMMA GextArrives ==
  ASSUME TableInv, RamInv, NEW q \in ExtGroups, CAN_LoadGroupExt(q[1], q[2], q[3]),
         ret' = "CAN_OK"
  PROVE  Inserted("gext", <<ExtEntry(q[1], q[2]), ExtEntry(q[1], q[3])>>)
<1>1. mask \in Ram /\ "gext" \in Sections
  BY DEF RamInv, Sections
<1> DEFINE n == cnt["gext"]
           t == Total(cnt)
           lower == q[2]
           upper == q[3]
           a == ExtEntry(q[1], lower)
           b == ExtEntry(q[1], upper)
           word(j) == WordAt(mask, GextStart(cnt) + j)
           lid == [j \in 0 .. n - 1 |-> word(2 * j) % ExtRange]
           uid == [j \in 0 .. n - 1 |-> word(2 * j + 1) % ExtRange]
           p == GroupPlace(n, lid, uid, lower, upper)
           at == GextStart(cnt) + 2 * p
           end == at + 2 * ((t - at + 1) \div 2) + 1
           g == IF n = 0 THEN mask ELSE MoveUp(mask, at, end, 2)
<1>2. /\ ~NoRoomForPair(t) /\ Count("gext", 1)
      /\ p < n => upper <= lid[p]
      /\ mask' = Put(Put(g, at, a), at + 1, b)
  BY DEF CAN_LoadGroupExt, Refuse
<1>3. /\ q[1] \in Ctrl /\ lower \in ExtIds /\ upper \in ExtIds
      /\ lower \in Nat /\ upper \in Nat
  BY AfAssumption DEF ExtIds
<1>4. a \in Word /\ b \in Word /\ a % ExtRange = lower /\ b % ExtRange = upper
  BY <1>3, EntriesFit, EntriesRead
<1> HIDE DEF a, b
<1>5. <<a, b>> \in EntryType("gext")
  BY <1>4 DEF EntryType
<1>6. /\ cnt \in [Sections -> Nat] /\ cnt' \in [Sections -> Nat]
      /\ cnt'["gext"] = cnt["gext"] + 1
      /\ \A u \in Sections : u # "gext" => cnt'[u] = cnt[u]
  BY <1>1, <1>2, LoadCounts
<1>7. PICK o \in Nat, i \in Nat, z \in Nat :
        /\ o = GextStart(cnt) /\ o = First(cnt, "gext") /\ i = IdWords(cnt)
        /\ z = t /\ n \in Nat /\ i = o + 2 * n /\ i <= z /\ z + 1 < MemSize
  <2>1. /\ First(cnt, "gext") = GextStart(cnt) /\ First(cnt, "gext") \in Nat
        /\ Behind(cnt, "gext") = First(cnt, "gext") + 2 * n /\ n \in Nat
        /\ Behind(cnt, "gext") = IdWords(cnt) /\ IdWords(cnt) \in Nat
    BY <1>1, <1>6, Extent, Places
  <2>2. t = IdWords(cnt) + 3 * cnt["FullCAN"] /\ cnt["FullCAN"] \in Nat
    BY <1>6, Layout DEF Sections
  <2>3. t \in Nat /\ IdWords(cnt) <= t
    BY <2>1, <2>2
  <2>4. t + 1 < MemSize
    BY <1>2, <2>3, AfAssumption DEF NoRoomForPair
  <2>. QED
    BY <2>1, <2>3, <2>4
<1>8. \A j \in 0 .. n - 1 : /\ lid[j] = WordAt(mask, o + 2 * j) % ExtRange
                            /\ uid[j] = WordAt(mask, o + (2 * j + 1)) % ExtRange
  BY <1>7
<1>9. lid \in [0 .. n - 1 -> Nat] /\ uid \in [0 .. n - 1 -> Nat]
  <2>1. \A w \in Word : w % ExtRange \in Nat
    <3>1. ExtRange \in Nat /\ ExtRange > 0
      <4>1. PICK R \in Nat \ {0} : R = StdRange
        BY AfAssumption
      <4>2. Half * Half = 1024 * (R * R) /\ R * R \in Nat \ {0}
        BY <4>1 DEF Half
      <4>3. PICK S \in Nat \ {0} : S = R * R
        BY <4>2
      <4>4. ExtRange = 128 * S
        BY <4>2, <4>3 DEF ExtRange
      <4>. QED
        BY <4>3, <4>4
    <3>2. \A w \in Word : w \in Nat
      BY DEF Word
    <3>. QED
      BY <3>1, <3>2
  <2>2. \A j : word(j) \in Word
    BY <1>1, Reads
  <2> HIDE DEF word
  <2>. QED
    BY <2>1, <2>2
<1> HIDE DEF lid, uid, lower, upper
<1>10. p \in 0 .. n /\ (p > 0 => uid[p - 1] <= lower)
  BY <1>3, <1>7, <1>9, GroupFirst
<1> HIDE DEF p
<1>11. at = o + 2 * p /\ at \in Nat /\ at <= i /\ i + 2 <= MemSize
  BY <1>7, <1>10, AfAssumption
<1> HIDE DEF at
<1>12. end \in Int /\ end >= i - 1 + 2
  <2>1. end = at + 2 * ((z - at + 1) \div 2) + 1
    BY <1>7
  <2>2. 2 * ((z - at + 1) \div 2) >= z - at
    BY <1>11
  <2>. QED
    BY <1>7, <1>11, <2>1, <2>2
<1> HIDE DEF end
<1>13. g \in Ram /\ Opens(mask, g, at, i, 2)
  <2>1. CASE n = 0
    <3>1. g = mask /\ at = i
      BY <1>7, <1>10, <1>11, <2>1
    <3>. QED
      BY <1>1, <1>11, <3>1, NothingMoves
  <2>2. CASE n # 0
    <3>1. g = MoveUp(mask, at, end, 2)
      BY <2>2
    <3>2. MoveUp(mask, at, end, 2) \in Ram
      BY <1>1, <1>11, MoveUpWrites
    <3>3. Opens(mask, MoveUp(mask, at, end, 2), at, i, 2)
      BY <1>1, <1>11, <1>12, MoveUpOpens
    <3>. QED
      BY <3>1, <3>2, <3>3
  <2>. QED
    BY <2>1, <2>2
<1> HIDE DEF g
<1>14. /\ Opens(mask, mask', at, i, 2)
       /\ WordAt(mask', at) = a /\ WordAt(mask', at + 1) = b
  <2>1. at \in at .. at + 2 - 1 /\ at + 1 \in at .. at + 2 - 1 /\ at # at + 1
    BY <1>11
  <2>2. PICK h \in Ram : h = Put(g, at, a)
    BY <1>4, <1>13, PutWrites
  <2>3. Opens(mask, h, at, i, 2) /\ WordAt(h, at) = a
    BY <1>1, <1>4, <1>11, <1>13, <2>1, <2>2, PutOpens
  <2>4. mask' = Put(h, at + 1, b)
    BY <1>2, <2>2
  <2>5. /\ Opens(mask, Put(h, at + 1, b), at, i, 2)
        /\ WordAt(Put(h, at + 1, b), at + 1) = b
        /\ \A w \in at .. at + 2 - 1 : w # at + 1 =>
             WordAt(Put(h, at + 1, b), w) = WordAt(h, w)
    BY <1>1, <1>4, <1>11, <2>1, <2>3, PutOpens, SMTT(30)
  <2>. QED
    BY <2>1, <2>3, <2>4, <2>5
<1>15. p > 0 => WordAt(mask, o + 2 * p - 1) % ExtRange <= a % ExtRange
  <2>1. p > 0 => p - 1 \in 0 .. n - 1 /\ o + (2 * (p - 1) + 1) = o + 2 * p - 1
    BY <1>7, <1>10
  <2>2. p > 0 => uid[p - 1] = WordAt(mask, o + 2 * p - 1) % ExtRange
    BY <1>8, <2>1
  <2>. QED
    BY <1>4, <1>10, <2>2
<1>16. p < n => b % ExtRange <= WordAt(mask, o + 2 * p) % ExtRange
  <2>1. p < n => p \in 0 .. n - 1
    BY <1>7, <1>10
  <2>2. p < n => lid[p] = WordAt(mask, o + 2 * p) % ExtRange
    BY <1>8, <2>1
  <2>. QED
    BY <1>2, <1>4, <2>2
<1>17. /\ Opens(mask, mask', First(cnt, "gext") + 2 * p, IdWords(cnt), 2)
       /\ WordAt(mask', First(cnt, "gext") + 2 * p) = a
       /\ WordAt(mask', First(cnt, "gext") + 2 * p + 1) = b
       /\ p > 0 =>
            WordAt(mask, First(cnt, "gext") + 2 * p - 1) % ExtRange <= a % ExtRange
       /\ p < cnt["gext"] =>
            b % ExtRange <= WordAt(mask, First(cnt, "gext") + 2 * p) % ExtRange
       /\ p \in 0 .. cnt["gext"]
  BY <1>7, <1>10, <1>11, <1>14, <1>15, <1>16
<1>18. Arrived(mask, cnt, mask', cnt', "gext", p, <<a, b>>)
  BY <1>1, <1>4, <1>6, <1>17, PairArrives
<1>19. Inserted("gext", <<a, b>>)
  BY <1>1, <1>5, <1>6, <1>17, <1>18, ArrivedIsInserted
<1>. QED
  BY <1>19 DEF a, b, lower, upper

\* What the property says of the five loads.
LoadsInsert ==
  ret' = "CAN_OK" =>
    /\ \A l \in StdLoads : CAN_LoadExplicitStd(l[1], l[2]) =>
         \/ Inserted("std", StdEntry(l[1], l[2]))
         \/ Overlooked(mask, FullWords(cnt), cnt["std"], StdEntry(l[1], l[2]))
    /\ \A l \in FullLoads : CAN_LoadFullCANEntry(l[1], l[2]) =>
         \/ Inserted("FullCAN", FullEntry(l[1], l[2]))
         \/ Overlooked(mask, 0, cnt["FullCAN"], FullEntry(l[1], l[2]))
    /\ \A l \in ExtLoads : CAN_LoadExplicitExt(l[1], l[2]) =>
         Inserted("ext", ExtEntry(l[1], l[2]))
    /\ \A g \in StdGroups : CAN_LoadGroupStd(g[1], g[2], g[3]) =>
         \/ Inserted("gstd", GroupEntry(g[1], g[2], g[3]))
         \/ cnt["gstd"] = 0 /\ cnt["ext"] + cnt["gext"] > 0
    /\ \A g \in ExtGroups : CAN_LoadGroupExt(g[1], g[2], g[3]) =>
         Inserted("gext", <<ExtEntry(g[1], g[2]), ExtEntry(g[1], g[3])>>)

\* A load that succeeds puts its entry into its section, in order, and changes
\* no entry of another section, for every size of the RAM and every sequence of
\* calls, however far its loops run past the RAM, but for the first standard
\* group where extended entries lie behind it, and for the place overlooked in a
\* table that CAN_Init cleared.  An identifier that is there already is put in
\* once more.
THEOREM LoadsAreExact == Spec => LoadInserts
<1>1. ASSUME TableInv, RamInv PROVE LoadsInsert
  BY <1>1, StdArrives, FullArrives, ExtArrives, GstdArrives, GextArrives
     DEF LoadsInsert
<1>2. TableInv /\ RamInv => [LoadsInsert]_vars
  BY <1>1
<1>. QED
  BY <1>2, RamHolds, TableHolds, PTL DEF LoadInserts, LoadsInsert
==============================================================================
