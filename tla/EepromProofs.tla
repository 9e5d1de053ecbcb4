----------------------------- MODULE EepromProofs ------------------------------
(***************************************************************************)
(* Proofs about eeprom_write, for every size of the chip and its pages and *)
(* every buffer.                                                           *)
(***************************************************************************)
EXTENDS Eeprom, TLAPS

P == eeprom_page_size

-----------------------------------------------------------------------------
(* Arithmetic of pages.                                                    *)

\* The remainder of an offset lies within the page.
LEMMA RemainderRange == \A o \in Nat : o % P \in 0 .. P - 1
  BY SizeAssumption DEF P

\* An offset is a number of whole pages and a remainder.
LEMMA Division == \A o \in Nat : \E q \in Nat : o = (P * q) + (o % P)
<1>. SUFFICES ASSUME NEW o \in Nat PROVE \E q \in Nat : o = (P * q) + (o % P)
  OBVIOUS
<1>1. P \in Nat \ {0}
  BY SizeAssumption DEF P
<1>2. o = (P * (o \div P)) + (o % P) /\ o \div P \in Nat
  BY <1>1
<1>. QED
  BY <1>2

\* A whole number of pages leaves no remainder.
LEMMA WholePages == \A q \in Nat : (P * q) % P = 0
<1>. SUFFICES ASSUME NEW q \in Nat PROVE (P * q) % P = 0
  OBVIOUS
<1>. DEFINE m == P * q
            d == m % P
<1>1. P \in Nat \ {0}
  BY SizeAssumption DEF P
<1>2. m \in Nat
  BY <1>1
<1>. HIDE DEF m
<1>3. PICK r \in Nat : m = (P * r) + d
  BY <1>2, Division
<1>4. d \in 0 .. P - 1
  BY <1>2, RemainderRange
<1>. HIDE DEF d
<1>5. PICK t \in Int : t = q - r
  OBVIOUS
<1>6. P * t = (P * q) - (P * r)
  BY <1>1, <1>5
<1>7. d = P * t
  BY <1>1, <1>2, <1>3, <1>4, <1>6 DEF m
<1>8. t = 0
  <2>1. ~(t >= 1)
    <3>1. t >= 1 => P * t >= P
      BY <1>1
    <3>. QED
      BY <3>1, <1>1, <1>4, <1>7
  <2>2. ~(t <= -1)
    <3>1. t <= -1 => P * t <= -P
      BY <1>1
    <3>. QED
      BY <3>1, <1>1, <1>4, <1>7
  <2>. QED
    BY <2>1, <2>2
<1>9. d = 0
  BY <1>1, <1>7, <1>8
<1>. QED
  BY <1>9 DEF d, m

\* What is left of the page after an offset leads to the start of a page.
LEMMA NextPage == \A o \in Nat : (o + (P - (o % P))) % P = 0
<1>. SUFFICES ASSUME NEW o \in Nat PROVE (o + (P - (o % P))) % P = 0
  OBVIOUS
<1>1. P \in Nat \ {0}
  BY SizeAssumption DEF P
<1>2. PICK q \in Nat : o = (P * q) + (o % P)
  BY Division
<1>3. o + (P - (o % P)) = P * (q + 1)
  <2>1. P * (q + 1) = (P * q) + P /\ P * q \in Nat
    BY <1>1
  <2>2. o % P \in Nat
    BY <1>1, RemainderRange
  <2>. QED
    BY <1>1, <1>2, <2>1, <2>2
<1>4. (P * (q + 1)) % P = 0
  BY WholePages
<1>. QED
  BY <1>3, <1>4

\* A transfer that stays in its page does not wrap around.
LEMMA NoWrap ==
  ASSUME NEW o \in Nat, NEW n \in Nat, n <= P - (o % P)
  PROVE  \A k \in 0 .. n - 1 : PageCell(o, k) = o + k
<1>1. P \in Nat \ {0} /\ o % P \in 0 .. P - 1
  BY SizeAssumption, RemainderRange DEF P
<1>2. \A x \in 0 .. P - 1 : x % P = x
  BY <1>1
<1>3. \A k \in 0 .. n - 1 : (o % P) + k \in 0 .. P - 1
  BY <1>1
<1>4. \A k \in 0 .. n - 1 : ((o % P) + k) % P = (o % P) + k
  BY <1>2, <1>3
<1>. QED
  BY <1>1, <1>4 DEF PageCell, P

-----------------------------------------------------------------------------
(* The invariant of the write loop.                                        *)

\* In the loop: what is done and what is left make up the call, and the next
\* transfer is either all that is left or ends at the end of a page.
LoopInv ==
  pc = "write" =>
    /\ buf = start.buf
    /\ off = start.off + written /\ off + len <= eeprom_total_size
    /\ wLen <= len /\ wLen <= P - (off % P)
    /\ wLen = len \/ wLen = P - (off % P)

IInv == TypeOK /\ LoopInv /\ WritesInPlace

\* The smaller of two numbers is below both and is one of them.
LEMMA SmallerIs ==
  \A x, y \in Nat : /\ Smaller(x, y) \in Nat
                    /\ Smaller(x, y) <= x /\ Smaller(x, y) <= y
                    /\ Smaller(x, y) \in {x, y}
  BY DEF Smaller

\* A transfer that does not leave its page adds its bytes to those in place.
LEMMA TransferInPlace ==
  ASSUME IInv, pc = "write", ~failed
  PROVE  Programmed(off, written, wLen) = Stored(written + wLen)
<1>1. /\ off \in Nat /\ written \in Nat /\ wLen \in Nat /\ start.off \in Nat
      /\ off = start.off + written /\ buf = start.buf
      /\ wLen <= P - (off % P) /\ mem = Stored(written)
  BY SizeAssumption DEF IInv, TypeOK, LoopInv, WritesInPlace, P
<1>2. \A k \in 0 .. wLen - 1 : PageCell(off, k) = off + k
  BY <1>1, NoWrap
<1>3. ASSUME NEW c \in Offsets
      PROVE  Programmed(off, written, wLen)[c] = Stored(written + wLen)[c]
  <2>0. c \in Nat
    BY SizeAssumption DEF Offsets
  <2>1. CASE c \in off .. off + wLen - 1
    <3>. DEFINE k0 == CHOOSE k \in 0 .. wLen - 1 : c = PageCell(off, k)
    <3>1. c - off \in 0 .. wLen - 1 /\ c = PageCell(off, c - off)
      BY <1>1, <1>2, <2>0, <2>1
    <3>2. k0 \in 0 .. wLen - 1 /\ c = PageCell(off, k0)
      BY <3>1
    <3>. HIDE DEF k0
    <3>3. k0 = c - off
      BY <1>1, <1>2, <2>0, <3>2
    <3>4. Programmed(off, written, wLen)[c] = buf[written + k0]
      BY <3>1 DEF Programmed, k0
    <3>5. Stored(written + wLen)[c] = start.buf[c - start.off]
      BY <1>1, <2>0, <2>1 DEF Stored
    <3>6. written + k0 = c - start.off
      BY <1>1, <2>0, <3>3
    <3>. QED
      BY <1>1, <3>4, <3>5, <3>6
  <2>2. CASE c \notin off .. off + wLen - 1
    <3>1. ~ \E k \in 0 .. wLen - 1 : c = PageCell(off, k)
      BY <1>1, <1>2, <2>0, <2>2
    <3>2. Programmed(off, written, wLen)[c] = mem[c]
      BY <3>1 DEF Programmed
    <3>3. c \in start.off .. start.off + (written + wLen) - 1
            <=> c \in start.off .. start.off + written - 1
      BY <1>1, <2>0, <2>2
    <3>4. Stored(written + wLen)[c] = Stored(written)[c]
      BY <3>3 DEF Stored
    <3>. QED
      BY <1>1, <3>2, <3>4
  <2>. QED
    BY <2>1, <2>2
<1>4. /\ Programmed(off, written, wLen)
           = [c \in Offsets |-> Programmed(off, written, wLen)[c]]
      /\ Stored(written + wLen) = [c \in Offsets |-> Stored(written + wLen)[c]]
  BY Zenon DEF Programmed, Stored
<1>. QED
  BY <1>3, <1>4

\* A transfer leaves bytes in every cell of the chip.
LEMMA ProgrammedType ==
  ASSUME IInv, pc = "write"
  PROVE  Programmed(off, written, wLen) \in [Offsets -> Byte]
<1>1. /\ off \in Nat /\ written \in Nat /\ wLen \in Nat /\ len \in Nat
      /\ start.off \in Nat /\ eeprom_total_size \in Nat
      /\ off = start.off + written /\ off + len <= eeprom_total_size
      /\ wLen <= len
  BY SizeAssumption DEF IInv, TypeOK, LoopInv
<1>2. mem \in [Offsets -> Byte] /\ buf \in [Offsets -> Byte]
  BY DEF IInv, TypeOK
<1>3. ASSUME NEW c \in Offsets, \E k \in 0 .. wLen - 1 : c = PageCell(off, k)
      PROVE  buf[written + (CHOOSE k \in 0 .. wLen - 1 : c = PageCell(off, k))]
               \in Byte
  <2>. DEFINE k0 == CHOOSE k \in 0 .. wLen - 1 : c = PageCell(off, k)
  <2>1. k0 \in 0 .. wLen - 1
    BY <1>3
  <2>. HIDE DEF k0
  <2>2. written + k0 \in Offsets
    BY <1>1, <2>1 DEF Offsets
  <2>3. buf[written + k0] \in Byte
    BY <1>2, <2>2
  <2>. QED
    BY <2>3 DEF k0
<1>. QED
  BY <1>2, <1>3 DEF Programmed

-----------------------------------------------------------------------------
(* The invariant is inductive.                                             *)

\* The invariant holds at the start.
LEMMA InitInv == Init => IInv
<1>. SUFFICES ASSUME Init PROVE IInv
  OBVIOUS
<1>1. mem \in [Offsets -> Byte]
  BY BufferAssumption DEF Init
<1>2. eeprom_total_size \in Nat /\ eeprom_page_size \in Nat
  BY SizeAssumption
<1>3. TypeOK
  <2>1. start \in [mem : [Offsets -> Byte], buf : [Offsets -> Byte], off : Nat,
                   len : Nat]
    BY <1>1 DEF Init
  <2>2. /\ off \in 0 .. eeprom_total_size /\ len \in 0 .. eeprom_total_size
        /\ written \in 0 .. eeprom_total_size /\ wLen \in 0 .. eeprom_page_size
        /\ result \in -1 .. eeprom_total_size /\ calls \in 0 .. MaxCalls
    BY <1>2, BoundAssumption DEF Init
  <2>. QED
    BY <1>1, <2>1, <2>2 DEF Init, TypeOK
<1>. QED
  BY <1>3 DEF Init, IInv, LoopInv, WritesInPlace

\* A call that is accepted starts the loop, with nothing written.
LEMMA CallInv ==
  ASSUME IInv, NEW op \in {"write", "read"}, NEW b \in Buffers,
         NEW o \in Offsets, NEW n \in 0 .. eeprom_total_size + 1,
         InRange(o, n), Call(op, b, o, n)
  PROVE  IInv'
<1>1. /\ o \in Nat /\ n \in Nat /\ n <= eeprom_total_size
      /\ o + n <= eeprom_total_size /\ P \in Nat \ {0}
      /\ eeprom_total_size \in Nat
  BY SizeAssumption DEF InRange, Offsets, P
<1>2. o % P \in 0 .. P - 1 /\ P - (o % P) \in Nat
  BY <1>1, RemainderRange
<1>3. /\ FirstChunk(o, n) \in 0 .. P /\ FirstChunk(o, n) <= n
      /\ FirstChunk(o, n) <= P - (o % P)
      /\ FirstChunk(o, n) = n \/ FirstChunk(o, n) = P - (o % P)
  BY <1>1, <1>2 DEF FirstChunk, Smaller, P
<1>4. b \in [Offsets -> Byte] /\ mem \in [Offsets -> Byte]
  BY BufferAssumption DEF IInv, TypeOK
<1>5. TypeOK'
  <2>1. start' \in [mem : [Offsets -> Byte], buf : [Offsets -> Byte], off : Nat,
                    len : Nat]
    BY <1>1, <1>4 DEF Call
  <2>2. wLen' \in 0 .. eeprom_page_size
    BY <1>1, <1>3 DEF Call, P
  <2>3. calls' \in 0 .. MaxCalls
    BY BoundAssumption DEF Call, IInv, TypeOK
  <2>4. off' \in 0 .. eeprom_total_size /\ len' \in 0 .. eeprom_total_size
        /\ written' \in 0 .. eeprom_total_size
    BY <1>1 DEF Call
  <2>. QED
    BY <1>4, <2>1, <2>2, <2>3, <2>4 DEF Call, IInv, TypeOK
<1>6. LoopInv'
  BY <1>1, <1>2, <1>3 DEF Call, LoopInv
<1>7. WritesInPlace'
  <2>1. mem' = [c \in Offsets |-> mem[c]]
    BY <1>4 DEF Call
  <2>2. \A c \in Offsets : c \notin o .. o + 0 - 1
    BY <1>1
  <2>3. Stored(written)' = [c \in Offsets |-> mem[c]]
    BY <2>2 DEF Stored, Call
  <2>4. (mem = Stored(written))'
    BY <2>1, <2>3
  <2>. QED
    BY <2>4 DEF WritesInPlace
<1>. QED
  BY <1>5, <1>6, <1>7 DEF IInv

\* A turn of the loop keeps the bytes in place and the next transfer in its
\* page.
LEMMA ChunkInv ==
  ASSUME IInv, NEW r \in Transfers, WriteChunk(r)
  PROVE  IInv'
<1>1. /\ off \in Nat /\ written \in Nat /\ wLen \in Nat /\ len \in Nat
      /\ start.off \in Nat /\ eeprom_total_size \in Nat /\ P \in Nat \ {0}
      /\ off = start.off + written /\ off + len <= eeprom_total_size
      /\ wLen <= len /\ buf = start.buf /\ pc = "write"
      /\ wLen = len \/ wLen = P - (off % P)
  BY SizeAssumption DEF IInv, TypeOK, LoopInv, P, WriteChunk
<1>2. /\ off' = off + wLen /\ written' = written + wLen /\ len' = len - wLen
      /\ wLen' = NextChunk(len - wLen) /\ pc' = "write" /\ start' = start
      /\ buf' = buf
  BY <1>1 DEF WriteChunk
<1>3. len' \in Nat /\ off' \in Nat
  BY <1>1, <1>2
<1>4. wLen' \in 0 .. P /\ wLen' <= len' /\ (wLen' = len' \/ wLen' = P)
  BY <1>1, <1>2, <1>3 DEF NextChunk, Smaller, P
<1>5. wLen' <= P - (off' % P) /\ (wLen' = len' \/ wLen' = P - (off' % P))
  <2>1. CASE wLen = len
    <3>1. len' = 0 /\ wLen' = 0
      BY <1>1, <1>2, <1>4, <2>1
    <3>2. off' % P \in 0 .. P - 1
      BY <1>3, RemainderRange
    <3>. QED
      BY <1>1, <3>1, <3>2
  <2>2. CASE wLen = P - (off % P)
    <3>1. off' % P = 0
      BY <1>1, <1>2, <2>2, NextPage
    <3>. QED
      BY <1>1, <1>4, <3>1
  <2>. QED
    BY <1>1, <2>1, <2>2
<1>6. TypeOK'
  <2>1. mem' \in [Offsets -> Byte]
    BY <1>1, ProgrammedType DEF WriteChunk, IInv, TypeOK
  <2>2. off' \in 0 .. eeprom_total_size /\ len' \in 0 .. eeprom_total_size
        /\ written' \in 0 .. eeprom_total_size
    BY <1>1, <1>2, <1>3
  <2>3. wLen' \in 0 .. eeprom_page_size
    BY <1>4 DEF P
  <2>4. failed' \in BOOLEAN
    BY DEF WriteChunk
  <2>. QED
    BY <2>1, <2>2, <2>3, <2>4 DEF WriteChunk, IInv, TypeOK
<1>7. LoopInv'
  <2>1. off' = start'.off + written' /\ off' + len' <= eeprom_total_size
    BY <1>1, <1>2
  <2>. QED
    BY <1>1, <1>2, <1>4, <1>5, <2>1 DEF LoopInv
<1>8. WritesInPlace'
  <2>. SUFFICES ASSUME ~failed' PROVE mem' = Stored(written)'
    BY DEF WritesInPlace
  <2>1. ~failed /\ mem' = Programmed(off, written, wLen)
    BY DEF WriteChunk
  <2>2. mem' = Stored(written + wLen)
    BY <1>1, <2>1, TransferInPlace
  <2>3. Stored(written)' = Stored(written + wLen)
    BY <1>2 DEF Stored
  <2>. QED
    BY <2>2, <2>3
<1>. QED
  BY <1>6, <1>7, <1>8 DEF IInv

\* A read changes nothing of the chip.
LEMMA ReadInv ==
  ASSUME IInv, NEW r \in Transfers, Read(r)
  PROVE  IInv'
<1>1. ASSUME NEW o \in Nat PROVE Fetched(buf, o) \in [Offsets -> Byte]
  <2>1. ASSUME NEW k \in Offsets PROVE (o + k) % eeprom_total_size \in Offsets
    BY SizeAssumption DEF Offsets
  <2>. QED
    BY <2>1 DEF Fetched, IInv, TypeOK
<1>2. buf' \in [Offsets -> Byte]
  <2>1. off \in Nat /\ \A o \in Offsets : o \in Nat
    BY SizeAssumption DEF IInv, TypeOK, Offsets
  <2>. QED
    BY <1>1, <2>1 DEF Read, IInv, TypeOK
<1>3. result' \in -1 .. eeprom_total_size
  BY SizeAssumption DEF Read, IInv, TypeOK
<1>4. TypeOK'
  BY <1>2, <1>3 DEF Read, IInv, TypeOK
<1>. QED
  BY <1>4 DEF Read, IInv, LoopInv, WritesInPlace

\* Every step keeps the invariant.
LEMMA NextInv == IInv /\ [Next]_vars => IInv'
<1>. SUFFICES ASSUME IInv, [Next]_vars PROVE IInv'
  OBVIOUS
<1>1. ASSUME NEW b \in Buffers, NEW o \in Offsets,
             NEW n \in 0 .. eeprom_total_size + 1,
             eeprom_write(b, o, n) \/ eeprom_read(b, o, n)
      PROVE  IInv'
  BY <1>1, CallInv DEF eeprom_write, eeprom_read
<1>2. ASSUME NEW o \in Offsets, NEW n \in 0 .. eeprom_total_size + 1,
             Reject(o, n)
      PROVE  IInv'
  <2>1. result' \in -1 .. eeprom_total_size /\ calls' \in 0 .. MaxCalls
    BY <1>2, SizeAssumption, BoundAssumption DEF Reject, IInv, TypeOK
  <2>2. TypeOK'
    BY <1>2, <2>1 DEF Reject, local, IInv, TypeOK
  <2>. QED
    BY <1>2, <2>2 DEF Reject, IInv, LoopInv, WritesInPlace
<1>3. ASSUME NEW r \in Transfers, WriteChunk(r) PROVE IInv'
  BY <1>3, ChunkInv
<1>4. ASSUME NEW r \in Transfers, Read(r) PROVE IInv'
  BY <1>4, ReadInv
<1>5. CASE WriteReturns
  <2>1. TypeOK'
    BY <1>5, SizeAssumption DEF WriteReturns, local, IInv, TypeOK
  <2>. QED
    BY <1>5, <2>1 DEF WriteReturns, IInv, LoopInv, WritesInPlace
<1>6. CASE UNCHANGED vars
  <2>1. TypeOK' /\ LoopInv'
    BY <1>6 DEF vars, local, IInv, TypeOK, LoopInv
  <2>2. WritesInPlace'
    BY <1>6 DEF vars, local, IInv, WritesInPlace, Stored
  <2>. QED
    BY <2>1, <2>2 DEF IInv
<1>. QED
  BY <1>1, <1>2, <1>3, <1>4, <1>5, <1>6 DEF Next

\* For every size of the chip and of its pages: as long as its transfers
\* succeed, eeprom_write has stored exactly the bytes it has counted, at their
\* places, and nothing wraps around in a page.
THEOREM WritesAreInPlace == Spec => []WritesInPlace
<1>1. IInv => WritesInPlace
  BY DEF IInv
<1>. QED
  BY <1>1, InitInv, NextInv, PTL DEF Spec

\* The variables of the driver keep their types: the offsets and lengths stay
\* in the chip and a transfer is never longer than a page.
THEOREM TypeCorrect == Spec => []TypeOK
<1>1. IInv => TypeOK
  BY DEF IInv
<1>. QED
  BY <1>1, InitInv, NextInv, PTL DEF Spec
=============================================================================
