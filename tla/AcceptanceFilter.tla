-------------------------- MODULE AcceptanceFilter ---------------------------
(***************************************************************************)
(* The look-up table of the CAN acceptance filter (lpc17xx_can.c): five    *)
(* sections one after the other in the filter's RAM, each in ascending     *)
(* order, grown and shrunk in place by CAN_LoadFullCANEntry,               *)
(* CAN_LoadExplicitEntry, CAN_LoadGroupEntry and CAN_RemoveEntry; five     *)
(* registers tell the hardware where the sections begin.  The callers are  *)
(* those the driver's interface documents: any sequence of calls, CAN_Init *)
(* again included.  canpt_init is the only caller in this repository.      *)
(*                                                                         *)
(* Words and half-words keep the driver's layout, scaled by StdRange (2^11 *)
(* in the driver): an explicit standard or FullCAN entry is half a word,   *)
(* two of them share a word, and the unused half of the last word holds    *)
(* Filler.  Some loops run past the end of the RAM: the memory behind it   *)
(* belongs to the model, and is taken to keep what is written to it.       *)
(***************************************************************************)
EXTENDS Integers, SequencesExt

CONSTANTS RamSize,     \* words of LPC_CANAF_RAM->mask: 512
          MemSize,     \* words with the memory behind it that the loops reach
          Beyond,      \* what that memory holds at first
          FullMax,     \* largest number of FullCAN entries: 64
          StdRange,    \* number of standard identifiers: 2^11
          StdLoads,    \* <<controller, identifier>> of explicit standard loads,
          FullLoads,   \*   of FullCAN loads,
          ExtLoads,    \*   of explicit extended loads
          StdGroups,   \* <<controller, lower, upper>> of standard group loads,
          ExtGroups,   \*   of extended group loads
          MaxEntries,  \* bound: entries in the table
          MaxRemoved   \* bound: entries removed

Half     == 32 * StdRange              \* 2^16: values of a half-word
Filler   == Half - 1                   \* 0xFFFF
Word     == 0 .. Half * Half - 1       \* 32 bits
ExtRange == (Half * Half) \div 8       \* 2^29: extended identifiers

Ctrl   == {0, 1}                       \* CAN1, CAN2
StdIds == 0 .. StdRange - 1
ExtIds == 0 .. ExtRange - 1

ASSUME AfAssumption ==
  /\ RamSize \in Nat /\ RamSize > 4
  /\ MemSize \in Nat /\ MemSize >= 2 * RamSize + 3
  /\ FullMax \in Nat
  /\ StdRange \in Nat \ {0}
  /\ StdLoads \subseteq Ctrl \X StdIds /\ FullLoads \subseteq Ctrl \X StdIds
  /\ ExtLoads \subseteq Ctrl \X ExtIds
  /\ StdGroups \subseteq Ctrl \X StdIds \X StdIds
  /\ ExtGroups \subseteq Ctrl \X ExtIds \X ExtIds
  /\ MaxEntries \in Nat /\ MaxRemoved \in Nat

ASSUME BeyondAssumption == Beyond \in [RamSize .. MemSize - 1 -> Word]

VARIABLES mask,    \* LPC_CANAF_RAM->mask, and what lies behind it
          cnt,     \* CANAF_FullCAN_cnt, CANAF_std_cnt, ...: entries per section
          sa,      \* SFF_sa, SFF_GRP_sa, EFF_sa, EFF_GRP_sa, ENDofTable, in words
          AFMR,    \* mode of the filter
          ret,     \* result of the latest call
          paired,  \* entries that were loaded into the second half of a word
          removed, \* entries that were removed
          wiped    \* history: CAN_Init has cleared a table that is still counted

vars == <<mask, cnt, sa, AFMR, ret, paired, removed, wiped>>

Sections  == {"FullCAN", "std", "gstd", "ext", "gext"}
Registers == {"SFF", "SFF_GRP", "EFF", "EFF_GRP", "END"}

\* AFMR: normal operation, off, bypass, FullCAN mode.
Normal == 0
AccOff == 1
AccBP  == 2
eFCAN  == 4

\* CAN_ID_EXIT_ERROR, which the comments at lpc17xx_can.c:520 and 729 announce
\* for an identifier that is in the table already, is returned nowhere.
Results == {"none", "CAN_OK", "CAN_OBJECTS_FULL_ERROR",
            "CAN_CONFLICT_ID_ERROR", "CAN_ENTRY_NOT_EXIT_ERROR"}

TypeOK == /\ mask \in [0 .. MemSize - 1 -> Word]
          /\ cnt \in [Sections -> Nat]
          /\ sa \in [Registers -> Int]
          /\ AFMR \in {Normal, AccOff, AccBP, eFCAN}
          /\ ret \in Results
          /\ paired \in [{"FullCAN", "std"} -> Nat]
          /\ removed \in Nat
          /\ wiped \in BOOLEAN

-----------------------------------------------------------------------------
(* Where the sections lie, in words.                                       *)

FullWords(c) == (c["FullCAN"] + 1) \div 2
StdWords(c)  == (c["std"] + 1) \div 2
GstdStart(c) == FullWords(c) + StdWords(c)
ExtStart(c)  == GstdStart(c) + c["gstd"]
GextStart(c) == ExtStart(c) + c["ext"]
IdWords(c)   == GextStart(c) + 2 * c["gext"]
Total(c)     == IdWords(c) + 3 * c["FullCAN"]    \* with the FullCAN objects

\* No call reads outside the memory of the model (MemSize); the other branch
\* only makes the operator total.
WordAt(m, w) == IF w \in DOMAIN m THEN m[w] ELSE 0
HalfAt(m, j) == IF j % 2 = 0 THEN WordAt(m, j \div 2) \div Half
                             ELSE WordAt(m, j \div 2) % Half

StdEntry(c, id)  == c * 4 * StdRange + id        \* controller in bits 13 .. 15
FullEntry(c, id) == StdEntry(c, id) + StdRange   \* and bit 11
ExtEntry(c, id)  == c * ExtRange + id            \* controller in bits 29 .. 31
GroupEntry(c, lower, upper) == StdEntry(c, lower) * Half + StdEntry(c, upper)

-----------------------------------------------------------------------------
(* The loops that move words, in the RAM and behind it.                    *)

\* Words from .. to - k move up by k.
MoveUp(m, from, to, k) ==
  [w \in DOMAIN m |-> IF from + k <= w /\ w <= to THEN m[w - k] ELSE m[w]]

\* Words from .. to move down by k.
MoveDown(m, from, to, k) ==
  [w \in DOMAIN m |-> IF from - k <= w /\ w <= to - k THEN WordAt(m, w + k)
                                                      ELSE m[w]]

Put(m, at, e) == [w \in DOMAIN m |-> IF w = at THEN e ELSE m[w]]

\* Mutant of Drop: the last word of the table stays where it is.
DropShort(m, at, end) == MoveDown(m, at + 1, end - 2, 1)

\* A word is taken out of the table and its last word is cleared.
Drop(m, at, end) == Put(MoveDown(m, at + 1, end - 1, 1), end - 1, 0)

\* The half-words h[0], h[1], ... fill k words from word o on.
PutHalves(m, o, k, h) ==
  [w \in DOMAIN m |-> IF o <= w /\ w < o + k
                      THEN h[2 * (w - o)] * Half + h[2 * (w - o) + 1]
                      ELSE m[w]]

\* The first of n half-words from word o on that is greater than e.
HalfPlace(m, o, n, e) ==
  Min({j \in 0 .. n - 1 : HalfAt(m, 2 * o + j) > e} \cup {n})

\* e goes into its place among n half-words from word o on; when it opens a
\* new word, the other half of that word becomes Filler.
HalfInsert(m, o, n, e) ==
  LET p == HalfPlace(m, o, n, e)
      k == (n + 2) \div 2
      h == [j \in 0 .. 2 * k - 1 |->
              CASE j < p            -> HalfAt(m, 2 * o + j)
                [] j = p            -> e
                [] p < j /\ j <= n  -> HalfAt(m, 2 * o + j - 1)
                [] OTHER            -> Filler]
  IN  PutHalves(m, o, k, h)

\* The driver looks for the place among whole words.  Of an odd number of
\* entries, more than the one that has a case of its own, the unused half is
\* looked at as well: it counts as one behind the last entry as long as it
\* holds Filler, and is passed over if it does not.
Overlooked(m, o, n, e) == /\ n % 2 = 1 /\ n > 1
                          /\ HalfPlace(m, o, n, e) = n
                          /\ HalfAt(m, 2 * o + n) <= e

\* e is loaded; where its place was passed over, it goes into the second half
\* of the word behind the section.
HalfLoad(m, o, n, e) ==
  LET w == o + (n + 1) \div 2
  IN  IF Overlooked(m, o, n, e)
      THEN Put(m, w, (WordAt(m, w) \div Half) * Half + e)
      ELSE HalfInsert(m, o, n, e)

\* Mutant of HalfRemove: the half-word that becomes unused keeps its value.
HalfRemoveKeeps(m, o, n, p) ==
  LET k == (n + 1) \div 2
      h == [j \in 0 .. 2 * k - 1 |->
              IF p <= j /\ j < n - 1 THEN HalfAt(m, 2 * o + j + 1)
                                     ELSE HalfAt(m, 2 * o + j)]
  IN  PutHalves(m, o, k, h)

\* Half-word p of n is taken out.  Where n and p are odd the loop runs once
\* too few and the last half-word, in the word that goes, is lost instead.
HalfRemove(m, o, n, p) ==
  LET k == (n + 1) \div 2
      old(j) == HalfAt(m, 2 * o + j)
      h == [j \in 0 .. 2 * k - 1 |->
              CASE j < p -> old(j)
                [] j >= p /\ j >= n - 1 -> Filler
                [] j >= p /\ j = n - 2 /\ n % 2 = 1 /\ p % 2 = 1
                     -> IF p = n - 2 THEN old(j) ELSE 0
                [] OTHER -> old(j + 1)]
  IN  PutHalves(m, o, k, h)

-----------------------------------------------------------------------------
(* The operations.                                                         *)

\* Registers in S advance by k words.
Advance(S, k) == sa' = [r \in Registers |-> IF r \in S THEN sa[r] + k ELSE sa[r]]

Count(s, k) == cnt' = [cnt EXCEPT ![s] = @ + k]

\* An error return; the mode register keeps what was last written to it.
Refuse(error, mode) == /\ ret' = error
                       /\ AFMR' = mode
                       /\ UNCHANGED <<mask, cnt, sa, paired, removed, wiped>>

AfterStd == {"SFF_GRP", "EFF", "EFF_GRP", "END"}

\* Whether entry s shares the word of the entry loaded before it.
Pair(s) == paired' = [paired EXCEPT ![s] = @ + (cnt[s] % 2)]

CAN_LoadExplicitStd(c, id) ==
  LET t == Total(cnt)
      m == IF cnt["std"] % 2 = 0 THEN MoveUp(mask, GstdStart(cnt), t, 1) ELSE mask
  IN  \/ t >= RamSize /\ Refuse("CAN_OBJECTS_FULL_ERROR", AFMR)
      \/ /\ t < RamSize
         /\ Count("std", 1)
         /\ mask' = HalfLoad(m, FullWords(cnt), cnt["std"], StdEntry(c, id))
         /\ Advance(AfterStd, 1)
         /\ Pair("std")
         /\ AFMR' = IF cnt["FullCAN"] = 0 THEN Normal ELSE eFCAN
         /\ ret' = "CAN_OK"
         /\ UNCHANGED <<removed, wiped>>

ExtPlace(m, e) ==
  ExtStart(cnt) + Min({j \in 0 .. cnt["ext"] - 1 : WordAt(m, ExtStart(cnt) + j) > e}
                        \cup {cnt["ext"]})

\* Mutant of CAN_LoadExplicitExt: only the section's own words are moved.
CAN_LoadExplicitExtShort(c, id) ==
  LET e == ExtEntry(c, id)
      p == ExtPlace(mask, e)
  IN  \/ Total(cnt) >= RamSize /\ Refuse("CAN_OBJECTS_FULL_ERROR", AFMR)
      \/ /\ Total(cnt) < RamSize
         /\ Count("ext", 1)
         /\ mask' = Put(MoveUp(mask, p, GextStart(cnt), 1), p, e)
         /\ Advance({"EFF_GRP", "END"}, 1)
         /\ AFMR' = IF cnt["FullCAN"] = 0 THEN Normal ELSE eFCAN
         /\ ret' = "CAN_OK"
         /\ UNCHANGED <<paired, removed, wiped>>

\* The loop moves as many words as the whole table has, from the new entry on.
CAN_LoadExplicitExt(c, id) ==
  LET t == Total(cnt)
      e == ExtEntry(c, id)
      p == ExtPlace(mask, e)
  IN  \/ t >= RamSize /\ Refuse("CAN_OBJECTS_FULL_ERROR", AFMR)
      \/ /\ t < RamSize
         /\ Count("ext", 1)
         /\ mask' = Put(MoveUp(mask, p, ExtStart(cnt) + t, 1), p, e)
         /\ Advance({"EFF_GRP", "END"}, 1)
         /\ AFMR' = IF cnt["FullCAN"] = 0 THEN Normal ELSE eFCAN
         /\ ret' = "CAN_OK"
         /\ UNCHANGED <<paired, removed, wiped>>

\* Three words for the object of the new entry are opened at its place among
\* the objects; the place stays 0 for the first two entries.
CAN_LoadFullCANEntry(c, id) ==
  LET t == Total(cnt)
      n == cnt["FullCAN"]
      e == FullEntry(c, id)
      m == IF n % 2 = 0 /\ t # 0 THEN MoveUp(mask, n \div 2, n \div 2 + t, 1) ELSE mask
      p == IF n < 2 THEN 0 ELSE HalfPlace(mask, 0, n, e)
      at == t - 3 * n + 3 * p + 1
      obj == MoveUp(HalfLoad(m, 0, n, e), at, at + 3 * (n - p) + 2, 3)
  IN  \/ (t >= RamSize - 4 \/ n >= FullMax) /\ Refuse("CAN_OBJECTS_FULL_ERROR", AFMR)
      \/ /\ t < RamSize - 4 /\ n < FullMax
         /\ Count("FullCAN", 1)
         /\ mask' = [w \in DOMAIN mask |-> IF w \in at .. at + 2 THEN 0 ELSE obj[w]]
         /\ Advance(Registers, 1)
         /\ Pair("FullCAN")
         /\ AFMR' = eFCAN
         /\ ret' = "CAN_OK"
         /\ UNCHANGED <<removed, wiped>>

\* The place of a group among n groups with bounds lid[j] .. uid[j]: before the
\* first that does not lie entirely below it.
GroupPlace(n, lid, uid, lower, upper) ==
  Min({j \in 0 .. n - 1 : upper <= lid[j] \/ lower < uid[j]} \cup {n})

CAN_LoadGroupStd(c, lower, upper) ==
  LET t == Total(cnt)
      n == cnt["gstd"]
      word(j) == WordAt(mask, GstdStart(cnt) + j)
      lid == [j \in 0 .. n - 1 |-> (word(j) \div Half) % StdRange]
      uid == [j \in 0 .. n - 1 |-> word(j) % StdRange]
      p == GroupPlace(n, lid, uid, lower, upper)
      at == GstdStart(cnt) + p
      m == IF n = 0 THEN mask ELSE MoveUp(mask, at, t, 1)
  IN  \/ lower > upper /\ Refuse("CAN_CONFLICT_ID_ERROR", AFMR)
      \/ lower <= upper /\ t >= RamSize /\ Refuse("CAN_OBJECTS_FULL_ERROR", AccOff)
      \/ /\ lower <= upper /\ t < RamSize
         /\ p < n /\ upper > lid[p]
         /\ Refuse("CAN_CONFLICT_ID_ERROR", AccOff)
      \/ /\ lower <= upper /\ t < RamSize
         /\ p < n => upper <= lid[p]
         /\ Count("gstd", 1)
         /\ mask' = Put(m, at, GroupEntry(c, lower, upper))
         /\ Advance({"EFF", "EFF_GRP", "END"}, 1)
         /\ AFMR' = eFCAN
         /\ ret' = "CAN_OK"
         /\ UNCHANGED <<paired, removed, wiped>>

\* Mutant of NoRoomForPair: the test of the entries that take one word.
NoRoomForWord(t) == t >= RamSize

NoRoomForPair(t) == t >= RamSize - 1

CAN_LoadGroupExt(c, lower, upper) ==
  LET t == Total(cnt)
      n == cnt["gext"]
      word(j) == WordAt(mask, GextStart(cnt) + j)
      lid == [j \in 0 .. n - 1 |-> word(2 * j) % ExtRange]
      uid == [j \in 0 .. n - 1 |-> word(2 * j + 1) % ExtRange]
      p == GroupPlace(n, lid, uid, lower, upper)
      at == GextStart(cnt) + 2 * p
      end == at + 2 * ((t - at + 1) \div 2) + 1    \* moved two by two
      m == IF n = 0 THEN mask ELSE MoveUp(mask, at, end, 2)
  IN  \/ lower > upper /\ Refuse("CAN_CONFLICT_ID_ERROR", AFMR)
      \/ lower <= upper /\ NoRoomForPair(t) /\ Refuse("CAN_OBJECTS_FULL_ERROR", AccOff)
      \/ /\ lower <= upper /\ ~NoRoomForPair(t)
         /\ p < n /\ upper > lid[p]
         /\ Refuse("CAN_CONFLICT_ID_ERROR", AccOff)
      \/ /\ lower <= upper /\ ~NoRoomForPair(t)
         /\ p < n => upper <= lid[p]
         /\ Count("gext", 1)
         /\ mask' = Put(Put(m, at, ExtEntry(c, lower)), at + 1, ExtEntry(c, upper))
         /\ Advance({"END"}, 2)
         /\ AFMR' = eFCAN
         /\ ret' = "CAN_OK"
         /\ UNCHANGED <<paired, removed, wiped>>

\* Mutants of Removal: no test of the position, and the filter stays off.
RemovalUnchecked(s, p) == /\ removed < MaxRemoved
                          /\ removed' = removed + 1
                          /\ Count(s, -1)
                          /\ AFMR' = eFCAN
                          /\ ret' = "CAN_OK"
                          /\ UNCHANGED <<paired, wiped>>
RemovalLeavesOff(s, p) == /\ p < cnt[s]
                          /\ removed < MaxRemoved
                          /\ removed' = removed + 1
                          /\ Count(s, -1)
                          /\ AFMR' = AccOff
                          /\ ret' = "CAN_OK"
                          /\ UNCHANGED <<paired, wiped>>

\* The part CAN_RemoveEntry has in common for all five types of entry.
Removal(s, p) == /\ p < cnt[s]
                 /\ removed < MaxRemoved
                 /\ removed' = removed + 1
                 /\ Count(s, -1)
                 /\ AFMR' = eFCAN
                 /\ ret' = "CAN_OK"
                 /\ UNCHANGED <<paired, wiped>>

RemoveNothing(s, p) == p >= cnt[s] /\ Refuse("CAN_ENTRY_NOT_EXIT_ERROR", AccOff)

\* The object of the entry is taken out from where the objects began before.
CAN_RemoveFullCAN(p) ==
  LET n == cnt["FullCAN"]
      i == IdWords(cnt)
      h == HalfRemove(mask, 0, n, p)
      m == IF n % 2 = 0 THEN h ELSE Drop(h, FullWords(cnt) - 1, Total(cnt))
  IN  /\ Removal("FullCAN", p)
      /\ mask' = MoveDown(m, i + 3 * p + 3, i + 3 * n + 2, 3)
      /\ Advance(Registers, -(n % 2))

\* Mutant of CAN_RemoveExplicitStd: the registers move for every entry.
CAN_RemoveExplicitStdAlways(p) ==
  LET n == cnt["std"]
      h == HalfRemove(mask, FullWords(cnt), n, p)
  IN  /\ Removal("std", p)
      /\ mask' = IF n % 2 = 0 THEN h ELSE Drop(h, GstdStart(cnt) - 1, Total(cnt))
      /\ Advance(AfterStd, -1)

CAN_RemoveExplicitStd(p) ==
  LET n == cnt["std"]
      h == HalfRemove(mask, FullWords(cnt), n, p)
  IN  /\ Removal("std", p)
      /\ mask' = IF n % 2 = 0 THEN h ELSE Drop(h, GstdStart(cnt) - 1, Total(cnt))
      /\ Advance(AfterStd, -(n % 2))

CAN_RemoveGroupStd(p) ==
  /\ Removal("gstd", p)
  /\ mask' = Drop(mask, GstdStart(cnt) + p, Total(cnt))
  /\ Advance({"EFF", "EFF_GRP", "END"}, -1)

CAN_RemoveExplicitExt(p) ==
  /\ Removal("ext", p)
  /\ mask' = Drop(mask, ExtStart(cnt) + p, Total(cnt))
  /\ Advance({"EFF_GRP", "END"}, -1)

CAN_RemoveGroupExt(p) ==
  LET at == GextStart(cnt) + 2 * p
      k  == 2 * ((Total(cnt) - at + 1) \div 2)
  IN  /\ Removal("gext", p)
      /\ mask' = MoveDown(mask, at + 2, at + k + 1, 2)
      /\ Advance({"END"}, -2)

CAN_SetAFMode(mode) == /\ AFMR' = mode
                       /\ ret' = "none"
                       /\ UNCHANGED <<mask, cnt, sa, paired, removed, wiped>>

\* CAN_Init clears the RAM and the registers, whatever they hold, and leaves
\* the counters alone.
CAN_Init == /\ mask' = [w \in DOMAIN mask |-> IF w < RamSize THEN 0 ELSE mask[w]]
            /\ sa' = [r \in Registers |-> 0]
            /\ AFMR' = Normal
            /\ ret' = "none"
            /\ paired' = [s \in {"FullCAN", "std"} |-> 0]
            /\ wiped' = (cnt # [s \in Sections |-> 0])
            /\ UNCHANGED <<cnt, removed>>

Init == /\ mask = [w \in 0 .. MemSize - 1 |-> IF w < RamSize THEN 0 ELSE Beyond[w]]
        /\ cnt = [s \in Sections |-> 0]
        /\ sa = [r \in Registers |-> 0]
        /\ AFMR = Normal
        /\ ret = "none"
        /\ paired = [s \in {"FullCAN", "std"} |-> 0]
        /\ removed = 0
        /\ wiped = FALSE

Entries == cnt["FullCAN"] + cnt["std"] + cnt["gstd"] + cnt["ext"] + cnt["gext"]

Load == /\ Entries < MaxEntries
        /\ \/ \E l \in StdLoads : CAN_LoadExplicitStd(l[1], l[2])
           \/ \E l \in ExtLoads : CAN_LoadExplicitExt(l[1], l[2])
           \/ \E l \in FullLoads : CAN_LoadFullCANEntry(l[1], l[2])
           \/ \E g \in StdGroups : CAN_LoadGroupStd(g[1], g[2], g[3])
           \/ \E g \in ExtGroups : CAN_LoadGroupExt(g[1], g[2], g[3])

Next == \/ Load
        \/ \E p \in 0 .. MaxEntries :
             \/ \E s \in Sections : RemoveNothing(s, p)
             \/ CAN_RemoveFullCAN(p)
             \/ CAN_RemoveExplicitStd(p)
             \/ CAN_RemoveGroupStd(p)
             \/ CAN_RemoveExplicitExt(p)
             \/ CAN_RemoveGroupExt(p)
        \/ \E mode \in {Normal, AccOff, AccBP, eFCAN} : CAN_SetAFMode(mode)
        \/ CAN_Init

Spec == Init /\ [][Next]_vars

-----------------------------------------------------------------------------
(* Properties.                                                             *)

\* n half-words, n words and n pairs of words from word o on.
Halves(m, o, n)  == [j \in 1 .. n |-> HalfAt(m, 2 * o + j - 1)]
Singles(m, o, n) == [j \in 1 .. n |-> WordAt(m, o + j - 1)]
Pairs(m, o, n)   == [j \in 1 .. n |-> <<WordAt(m, o + 2 * j - 2),
                                       WordAt(m, o + 2 * j - 1)>>]

\* What section s holds in a RAM m with the counters c.
Section(m, c, s) ==
  CASE s = "FullCAN" -> Halves(m, 0, c["FullCAN"])
    [] s = "std"     -> Halves(m, FullWords(c), c["std"])
    [] s = "gstd"    -> Singles(m, GstdStart(c), c["gstd"])
    [] s = "ext"     -> Singles(m, ExtStart(c), c["ext"])
    [] s = "gext"    -> Pairs(m, GextStart(c), c["gext"])

\* What the sections hold, read from the RAM with the driver's counters.
Contents == [s \in Sections |-> Section(mask, cnt, s)]

\* Entry b may follow entry a in section s: explicit entries ascend, a group
\* ends where the next begins or before.
Follows(s, a, b) ==
  CASE s = "gstd" -> a % StdRange <= (b \div Half) % StdRange
    [] s = "gext" -> a[2] % ExtRange <= b[1] % ExtRange
    [] OTHER      -> a <= b

\* Section s is in the order the driver keeps.
Ascending(s) ==
  \A j \in 1 .. cnt[s] - 1 : Follows(s, Contents[s][j], Contents[s][j + 1])

\* The step puts entry e into section s, in order, and leaves the others alone.
Inserted(s, e) ==
  /\ \E p \in 1 .. cnt[s] + 1 :
       Contents' = [Contents EXCEPT ![s] = InsertAt(@, p, e)]
  /\ Ascending(s) => Ascending(s)'

\* The step takes the entry at position p (from 0) out of section s.
Deleted(s, p) == Contents' = [Contents EXCEPT ![s] = RemoveAt(@, p + 1)]

\* A load that returns CAN_OK puts its entry at its place in its section and
\* changes no entry of any other section, whatever the sections' sizes and
\* however far its loops run past the end of the RAM.  That includes an
\* identifier that is there already: it is put in once more, although the
\* comments at lpc17xx_can.c:520 and 729 announce CAN_ID_EXIT_ERROR for it.  The
\* exceptions: the first standard group does not move the sections behind it
\* and overwrites an extended entry; and a place is overlooked where an unused
\* half-word does not hold Filler, which needs a cleared table (FillerKept).
LoadInserts ==
  [][ret' = "CAN_OK" =>
      /\ \A l \in StdLoads : CAN_LoadExplicitStd(l[1], l[2]) =>
           \/ Inserted("std", StdEntry(l[1], l[2]))
           \/ Overlooked(mask, FullWords(cnt), cnt["std"], StdEntry(l[1], l[2]))
      /\ \A l \in FullLoads : CAN_LoadFullCANEntry(l[1], l[2]) =>
           \/ Inserted("FullCAN", FullEntry(l[1], l[2]))
           \/ Overlooked(mask, 0, cnt["FullCAN"], FullEntry(l[1], l[2]))
      /\ \A l \in ExtLoads : CAN_LoadExplicitExt(l[1], l[2]) =>
           Inserted("ext", ExtEntry(l[1], l[2]))
      /\ \A g \in StdGroups : CAN_LoadGroupStd(g[1], g[2], g[3]) =>
           \/ Inserted("gstd", GroupEntry(g[1], g[2], g[3]))
           \/ cnt["gstd"] = 0 /\ cnt["ext"] + cnt["gext"] > 0
      /\ \A g \in ExtGroups : CAN_LoadGroupExt(g[1], g[2], g[3]) =>
           Inserted("gext", <<ExtEntry(g[1], g[2]), ExtEntry(g[1], g[3])>>)]_vars

\* CAN_RemoveEntry takes out "the position of this entry in its section"
\* (lpc17xx_can.c:1092) and nothing else.  The exception: where position and
\* number of entries are odd in a section of half-words, another is lost.
RemoveDeletes ==
  [][\A p \in 0 .. MaxEntries :
       /\ CAN_RemoveFullCAN(p) =>
            Deleted("FullCAN", p) \/ (cnt["FullCAN"] % 2 = 1 /\ p % 2 = 1)
       /\ CAN_RemoveExplicitStd(p) =>
            Deleted("std", p) \/ (cnt["std"] % 2 = 1 /\ p % 2 = 1)
       /\ CAN_RemoveGroupStd(p) => Deleted("gstd", p)
       /\ CAN_RemoveExplicitExt(p) => Deleted("ext", p)
       /\ CAN_RemoveGroupExt(p) => Deleted("gext", p)]_vars

\* The unused half-word behind an odd number of entries holds Filler, which is
\* greater than any entry, wherever loads and removals move it: the search for
\* an entry's place stops there.  Only CAN_Init, called while entries are
\* counted, takes it away.
FillerKept ==
  \/ wiped
  \/ /\ cnt["FullCAN"] % 2 = 1 => HalfAt(mask, cnt["FullCAN"]) = Filler
     /\ cnt["std"] % 2 = 1 =>
          HalfAt(mask, 2 * FullWords(cnt) + cnt["std"]) = Filler

\* The two group sections and the explicit extended section have the length
\* their counters say; the standard and FullCAN sections appear longer by a
\* word for every entry that was ever loaded into the second half of a word.
RegistersExact ==
  /\ sa["SFF"] = FullWords(cnt) + paired["FullCAN"]
  /\ sa["SFF_GRP"] = sa["SFF"] + StdWords(cnt) + paired["std"]
  /\ sa["EFF"] = sa["SFF_GRP"] + cnt["gstd"]
  /\ sa["EFF_GRP"] = sa["EFF"] + cnt["ext"]
  /\ sa["END"] = sa["EFF_GRP"] + 2 * cnt["gext"]

\* The registers follow the sections through every sequence of loads and
\* removals, up to the words counted twice, and are exact for the loads of
\* canpt_init.  The exception: CAN_Init, called while entries are counted,
\* clears the registers and not the counters, and they stay apart until it is
\* called with none.
RegistersFollow == wiped \/ RegistersExact

\* The tests for a full RAM, each for its kind of entry, keep the table and the
\* FullCAN objects inside it up to the last word.
TableFits == Total(cnt) <= RamSize

\* A call that reports success never leaves the filter off, where the
\* controllers receive nothing, and leaves it in FullCAN mode if there are
\* FullCAN entries, whichever calls came before; the error returns of
\* CAN_LoadGroupEntry and CAN_RemoveEntry leave it off.
OnAfterSuccess ==
  ret = "CAN_OK" => IF cnt["FullCAN"] > 0 THEN AFMR = eFCAN
                                          ELSE AFMR \in {Normal, eFCAN}
==============================================================================
