------------------------------- MODULE Eeprom ---------------------------------
(***************************************************************************)
(* The EEPROM driver, Lib_Board/src/eeprom.c.  eeprom_write cuts a write   *)
(* into transfers that do not leave a page of the chip, because the chip   *)
(* wraps around at the end of a page; eeprom_read reads across pages.      *)
(*                                                                         *)
(* The chip itself, and the I2C transfer that may fail, are external:      *)
(* a failed transfer changes nothing in the chip or in the caller's        *)
(* buffer.                                                                 *)
(***************************************************************************)
EXTENDS Integers

CONSTANTS eeprom_total_size,
          eeprom_page_size,
          Byte,
          Buffers,       \* buffers that callers write, or read into
          Transfers,     \* results of an I2C transfer: subset of {"ok", "failed"}
          MaxCalls       \* bound: calls of the driver

Offsets == 0 .. eeprom_total_size - 1

ASSUME SizeAssumption ==
  /\ eeprom_page_size \in Nat \ {0} /\ eeprom_total_size \in Nat
  /\ \E n \in 0 .. eeprom_total_size : eeprom_total_size = n * eeprom_page_size
ASSUME BoundAssumption == MaxCalls \in Nat
ASSUME BufferAssumption == Buffers \subseteq [Offsets -> Byte]

VARIABLES mem,                        \* the cells of the chip
          pc,                         \* "idle", "write" or "read"
          buf, off, len, written, wLen,
          result,                     \* value the last call returned
          start,                      \* history: chip and call when it began
          failed,                     \* history: a transfer of the call failed
          calls

local == <<buf, off, len, written, wLen>>
vars == <<mem, pc, local, result, start, failed, calls>>

TypeOK ==
  /\ mem \in [Offsets -> Byte] /\ buf \in [Offsets -> Byte]
  /\ pc \in {"idle", "write", "read"}
  /\ off \in 0 .. eeprom_total_size /\ len \in 0 .. eeprom_total_size
  /\ written \in 0 .. eeprom_total_size
  /\ wLen \in 0 .. eeprom_page_size
  /\ result \in -1 .. eeprom_total_size
  /\ start \in [mem : [Offsets -> Byte], buf : [Offsets -> Byte], off : Nat,
                len : Nat]
  /\ failed \in BOOLEAN /\ calls \in 0 .. MaxCalls

Init ==
  /\ mem \in Buffers /\ buf = mem
  /\ pc = "idle" /\ off = 0 /\ len = 0 /\ written = 0 /\ wLen = 0
  /\ result = 0
  /\ start = [mem |-> mem, buf |-> mem, off |-> 0, len |-> 0]
  /\ failed = FALSE /\ calls = 0

-----------------------------------------------------------------------------
(* The chip.                                                               *)

\* The cell that byte k of a transfer to offset o goes to
PageCell(o, k) == (o - (o % eeprom_page_size))
                    + (((o % eeprom_page_size) + k) % eeprom_page_size)

\* n bytes of the buffer, from position w, are written at offset o.
Programmed(o, w, n) ==
  [c \in Offsets |->
     IF \E k \in 0 .. n - 1 : c = PageCell(o, k)
     THEN buf[w + (CHOOSE k \in 0 .. n - 1 : c = PageCell(o, k))]
     ELSE mem[c]]

-----------------------------------------------------------------------------
(* The driver.                                                             *)

\* Mutant of InRange: the offset is not looked at.
InRangeByLength(o, n) == n <= eeprom_total_size

InRange(o, n) == n <= eeprom_total_size /\ o + n <= eeprom_total_size

Smaller(x, y) == IF x < y THEN x ELSE y

\* Mutant of FirstChunk: the offset within the page is not looked at.
FirstChunkWholePage(o, n) == Smaller(eeprom_page_size, n)

FirstChunk(o, n) == Smaller(eeprom_page_size - (o % eeprom_page_size), n)

Call(op, b, o, n) ==
  /\ pc = "idle" /\ calls < MaxCalls /\ calls' = calls + 1
  /\ start' = [mem |-> mem, buf |-> b, off |-> o, len |-> n]
  /\ failed' = FALSE
  /\ buf' = b /\ off' = o /\ len' = n /\ written' = 0
  /\ wLen' = IF op = "write" THEN FirstChunk(o, n) ELSE 0
  /\ pc' = op
  /\ UNCHANGED <<mem, result>>

Reject(o, n) ==
  /\ pc = "idle" /\ calls < MaxCalls /\ calls' = calls + 1
  /\ ~InRange(o, n)
  /\ result' = -1
  /\ UNCHANGED <<mem, pc, local, start, failed>>

eeprom_write(b, o, n) == InRange(o, n) /\ Call("write", b, o, n)
eeprom_read(b, o, n) == InRange(o, n) /\ Call("read", b, o, n)

\* Mutant of NextChunk: only what is left of a page is counted.
NextChunkRemainder(n) == n % eeprom_page_size

NextChunk(n) == Smaller(eeprom_page_size, n)

\* One turn of the loop: the result of I2CWrite is not looked at.
WriteChunk(r) ==
  /\ pc = "write" /\ len # 0
  /\ mem' = IF r = "ok" THEN Programmed(off, written, wLen) ELSE mem
  /\ failed' = (failed \/ r # "ok")
  /\ len' = len - wLen /\ written' = written + wLen /\ off' = off + wLen
  /\ wLen' = NextChunk(len - wLen)
  /\ UNCHANGED <<pc, buf, result, start, calls>>

WriteReturns ==
  /\ pc = "write" /\ len = 0
  /\ result' = written /\ pc' = "idle"
  /\ UNCHANGED <<mem, local, start, failed, calls>>

\* The len bytes from cell o on, over the buffer b
Fetched(b, o) ==
  [k \in Offsets |-> IF k < len THEN mem[(o + k) % eeprom_total_size] ELSE b[k]]

\* The offset is written, then the cells are read; the results of I2CWrite and
\* I2CRead are not looked at.  If only the first fails, the chip reads from
\* where it stands.
Read(r) ==
  /\ pc = "read"
  /\ \/ r = "ok" /\ buf' = Fetched(buf, off)
     \/ r # "ok" /\ \/ buf' = buf
                    \/ \E o \in Offsets : buf' = Fetched(buf, o)
  /\ failed' = (r # "ok")
  /\ result' = len /\ pc' = "idle"
  /\ UNCHANGED <<mem, off, len, written, wLen, start, calls>>

Next ==
  \/ \E b \in Buffers, o \in Offsets, n \in 0 .. eeprom_total_size + 1 :
       eeprom_write(b, o, n) \/ eeprom_read(b, o, n)
  \/ \E o \in Offsets, n \in 0 .. eeprom_total_size + 1 : Reject(o, n)
  \/ \E r \in Transfers : WriteChunk(r) \/ Read(r)
  \/ WriteReturns

Spec == Init /\ [][Next]_vars
FairSpec == Spec /\ WF_vars(WriteReturns \/ \E r \in Transfers : WriteChunk(r))

-----------------------------------------------------------------------------
(* Correctness.                                                            *)

\* The chip with the first n bytes of the caller's buffer in place
Stored(n) == [c \in Offsets |-> IF c \in start.off .. start.off + n - 1
                                THEN start.buf[c - start.off]
                                ELSE start.mem[c]]

\* As long as the transfers succeed, a write has at every turn of its loop
\* stored exactly the bytes it has counted, at their places, and nothing else:
\* no transfer wraps around in a page.
WritesInPlace == pc = "write" /\ ~failed => mem = Stored(written)

\* A write ends, whatever the results of its transfers.
WriteEnds == pc = "write" ~> pc = "idle"
=============================================================================
