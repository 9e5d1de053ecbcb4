------------------------------- MODULE RfUart --------------------------------
(***************************************************************************)
(* The receive queue of the radio UART, Lib_Board/src/board.c: the UART1   *)
(* interrupt puts each received byte into rxq, and the driver of the radio *)
(* module takes bytes out in the main loop.  The two indices are uint8_t   *)
(* and rxq has 512 bytes, so an index wraps in the middle of the array,    *)
(* where the test for a full queue does not expect it.                     *)
(*                                                                         *)
(* The interrupt handler is one action.  The main loop tests, reads and    *)
(* advances in separate steps, and the handler may run between them.       *)
(***************************************************************************)
EXTENDS Integers

CONSTANTS RX_BUF_SIZE,  \* bytes of rxq (512)
          IndexMod,     \* the indices count modulo this (2^8)
          Byte          \* what is received; 0 is one of them

ASSUME QueueAssumption == /\ RX_BUF_SIZE \in Nat \ {0}
                          /\ IndexMod \in Nat \ {0}
                          /\ 0 \in Byte

Index == 0 .. IndexMod - 1
Cells == 0 .. RX_BUF_SIZE - 1

VARIABLES rxq, rxqIn, rxqOut,
          rpc,      \* where rf_uart_receive is
          d,        \* the byte rxq_get has read
          overrun   \* history: a stored byte was lost, or one was not stored

uartVars == <<rxq, rxqIn, rxqOut, rpc, d, overrun>>

UartTypeOK ==
  /\ rxq \in [Cells -> Byte]
  /\ rxqIn \in Index /\ rxqOut \in Index
  /\ rpc \in {"idle", "get", "advance", "done"}
  /\ d \in Byte
  /\ overrun \in BOOLEAN

UartInit ==
  /\ rxq = [i \in Cells |-> 0]
  /\ rxqIn = 0 /\ rxqOut = 0
  /\ rpc = "idle" /\ d = 0
  /\ overrun = FALSE

\* (i + 1) % RX_BUF_SIZE, assigned to a uint8_t
Advance(i) == ((i + 1) % RX_BUF_SIZE) % IndexMod

\* The comparison is made in int, before anything is cut to uint8_t.
RxqFull == rxqOut = (rxqIn + 1) % RX_BUF_SIZE
rxq_isEmpty == rxqIn = rxqOut

rxq_put(data) ==
  /\ IF RxqFull
     THEN /\ overrun' = TRUE
          /\ UNCHANGED <<rxq, rxqIn>>
     ELSE /\ rxq' = [rxq EXCEPT ![rxqIn] = data]
          /\ rxqIn' = Advance(rxqIn)
          /\ overrun' = (overrun \/ rxqIn' = rxqOut)
  /\ UNCHANGED <<rxqOut, rpc, d>>

\* rf_uart_receive(&data, 1): test, then rxq_get, which tests once more
Receive ==
  /\ rpc = "idle" /\ ~rxq_isEmpty
  /\ rpc' = "get"
  /\ UNCHANGED <<rxq, rxqIn, rxqOut, d, overrun>>

rxq_get ==
  /\ rpc = "get"
  /\ \/ /\ rxq_isEmpty
        /\ d' = 0 /\ rpc' = "done"
     \/ /\ ~rxq_isEmpty
        /\ d' = rxq[rxqOut] /\ rpc' = "advance"
  /\ UNCHANGED <<rxq, rxqIn, rxqOut, overrun>>

\* Mutant of rxq_getAdvance: rxqOut stays.
rxq_getNoAdvance ==
  /\ rpc = "advance" /\ rpc' = "done"
  /\ UNCHANGED <<rxq, rxqIn, rxqOut, d, overrun>>

rxq_getAdvance ==
  /\ rpc = "advance"
  /\ rxqOut' = Advance(rxqOut) /\ rpc' = "done"
  /\ UNCHANGED <<rxq, rxqIn, d, overrun>>

Fetch == Receive \/ rxq_get \/ rxq_getAdvance
==============================================================================
