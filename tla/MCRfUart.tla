------------------------------ MODULE MCRfUart -------------------------------
(***************************************************************************)
(* The queue of the radio UART on its own.  The bytes are numbered in the  *)
(* order in which they arrive, so that a lost, repeated or late byte shows *)
(* in what the main loop gets.                                             *)
(***************************************************************************)
EXTENDS RfUart

CONSTANT MaxBytes  \* bound: bytes received

ASSUME NumberAssumption == MaxBytes \in Nat /\ 0 .. MaxBytes \subseteq Byte

VARIABLES arrived,  \* number of the latest byte received
          stored,   \* number of the latest byte that was not dropped
          latest    \* number of the latest byte the main loop got

vars == <<uartVars, arrived, stored, latest>>

Init == UartInit /\ arrived = 0 /\ stored = 0 /\ latest = 0

Interrupt == /\ arrived < MaxBytes
             /\ arrived' = arrived + 1
             /\ rxq_put(arrived')
             /\ stored' = IF RxqFull THEN stored ELSE arrived'
             /\ UNCHANGED latest

\* The caller of rf_uart_receive has the byte and calls again.
Consume == /\ rpc = "done"
           /\ rpc' = "idle"
           /\ latest' = IF d = 0 THEN latest ELSE d
           /\ UNCHANGED <<rxq, rxqIn, rxqOut, d, overrun, arrived, stored>>

Next == \/ Interrupt
        \/ Fetch /\ UNCHANGED <<arrived, stored, latest>>
        \/ Consume

Spec == Init /\ [][Next]_vars

TypeOK == UartTypeOK

\* The main loop gets every byte in the order in which they were received,
\* until the handler laps it or drops a byte; after such an overrun bytes may
\* be missing, or the byte 0 that rxq_get returns for an empty queue is passed
\* on, but no byte is late or comes twice.
BytesInOrder ==
  [][Consume => IF overrun THEN d = 0 \/ d > latest ELSE d = latest + 1]_vars

\* The indices run through the cells below both limits and start again at 0.
Span == IF RX_BUF_SIZE <= IndexMod THEN RX_BUF_SIZE ELSE IndexMod

\* Cells from o on, up to and without i.
CountOf(i, o) == IF i >= o THEN i - o ELSE i - o + Span

\* Between two calls of rf_uart_receive the distance of the indices is the
\* number of bytes that were stored and not yet taken, although they wrap in
\* the middle of the array and the handler moves one of them at any moment,
\* until it laps the main loop or drops a byte.
IndicesCount ==
  ~overrun /\ rpc = "idle" => CountOf(rxqIn, rxqOut) = stored - latest

\* rxq_isEmpty tells, as its comment says, that the queue is empty: every
\* byte that was stored has been taken.
EmptyMeansTaken == rpc = "idle" /\ rxq_isEmpty => latest = stored
==============================================================================
