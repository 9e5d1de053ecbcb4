---------------------------- MODULE RfUartProofs -----------------------------
(***************************************************************************)
(* Proofs about the receive queue of the radio UART, for every size of rxq *)
(* and every width of the indices: the array may be larger than the range  *)
(* of the indices, as in the code, or not.                                 *)
(***************************************************************************)
EXTENDS MCRfUart, TLAPS

-----------------------------------------------------------------------------
(* The cells the indices run through.                                      *)

\* The cells the indices run through, and the one after cell i.
Ring == 0 .. Span - 1
Following(i) == IF i = Span - 1 THEN 0 ELSE i + 1

\* The cell at distance k from o.
PosOf(o, k) == IF o + k < Span THEN o + k ELSE o + k - Span

\* The index arithmetic of rxq_put and rxq_get, without the remainders: it
\* starts again at the end of the array or of the uint8_t, whichever is first.
LEMMA AdvanceValue ==
  ASSUME NEW i \in Ring
  PROVE  Advance(i) = Following(i) /\ Following(i) \in Ring
  <1>1. /\ RX_BUF_SIZE \in Nat \ {0} /\ IndexMod \in Nat \ {0}
        /\ Span \in Nat \ {0} /\ Span <= RX_BUF_SIZE /\ Span <= IndexMod
        /\ Span = RX_BUF_SIZE \/ Span = IndexMod
    BY QueueAssumption DEF Span
  <1>2. i \in 0 .. Span - 1
    BY DEF Ring
  <1>3. CASE i + 1 = RX_BUF_SIZE
    <2>1. (i + 1) % RX_BUF_SIZE = 0 /\ 0 % IndexMod = 0
      BY <1>1, <1>3
    <2>2. i = Span - 1
      BY <1>1, <1>2, <1>3
    <2>3. QED
      BY <1>1, <2>1, <2>2 DEF Advance, Following, Ring
  <1>4. CASE i + 1 # RX_BUF_SIZE
    <2>1. i + 1 \in 0 .. RX_BUF_SIZE - 1
      BY <1>1, <1>2, <1>4
    <2>2. (i + 1) % RX_BUF_SIZE = i + 1
      BY <1>1, <2>1
    <2>3. CASE i + 1 = IndexMod
      <3>1. (i + 1) % IndexMod = 0 /\ i = Span - 1
        BY <1>1, <1>2, <2>3
      <3>2. QED
        BY <1>1, <2>2, <3>1 DEF Advance, Following, Ring
    <2>4. CASE i + 1 # IndexMod
      <3>1. i + 1 \in 0 .. IndexMod - 1 /\ i # Span - 1
        BY <1>1, <1>2, <1>4, <2>4
      <3>2. (i + 1) % IndexMod = i + 1
        BY <1>1, <3>1
      <3>3. QED
        BY <1>1, <1>2, <2>2, <3>1, <3>2 DEF Advance, Following, Ring
    <2>5. QED
      BY <2>3, <2>4
  <1>5. QED
    BY <1>3, <1>4

\* Cells of the ring are cells of the array and values of the index type.
LEMMA RingCells ==
  Span \in Nat \ {0} /\ Ring \subseteq Cells /\ Ring \subseteq Index
  BY QueueAssumption DEF Span, Ring, Cells, Index

\* No two cells have the same successor.
LEMMA FollowingInjective ==
  \A i, j \in Ring : Following(i) = Following(j) => i = j
  BY RingCells DEF Following, Ring

\* The number of cells between two indices, and where they are.
LEMMA CountType ==
  ASSUME NEW i \in Ring, NEW o \in Ring
  PROVE  /\ CountOf(i, o) \in 0 .. Span - 1
         /\ \A k \in 0 .. Span - 1 : PosOf(o, k) \in Ring
         /\ CountOf(i, o) = 0 <=> i = o
  BY RingCells DEF CountOf, PosOf, Ring

\* Storing: the free cell is right behind the last one to be read.
LEMMA StoreArithmetic ==
  ASSUME NEW i \in Ring, NEW o \in Ring
  PROVE  /\ Following(i) # o => CountOf(Following(i), o) = CountOf(i, o) + 1
         /\ PosOf(o, CountOf(i, o)) = i
         /\ \A k \in 0 .. CountOf(i, o) - 1 : PosOf(o, k) # i
  BY RingCells DEF CountOf, PosOf, Ring, Following

\* Reading: what is left moves up by one position.
LEMMA TakeArithmetic ==
  ASSUME NEW i \in Ring, NEW o \in Ring, i # o
  PROVE  /\ CountOf(i, Following(o)) = CountOf(i, o) - 1
         /\ PosOf(o, 0) = o
         /\ \A k \in 0 .. Span - 2 : PosOf(Following(o), k) = PosOf(o, k + 1)
  BY RingCells DEF CountOf, PosOf, Ring, Following

-----------------------------------------------------------------------------
(* The inductive invariant.                                                *)

\* The cell the main loop reads next, how many there are to read, and the
\* latest byte it has read.
Start == IF rpc = "advance" THEN Following(rxqOut) ELSE rxqOut
Unread == CountOf(rxqIn, Start)
Got == IF rpc \in {"advance", "done"} /\ d # 0 THEN d ELSE latest

\* The types, with what they need: the indices stay below the size of the array
\* although they are not reduced by it, and every byte has a number.
TypeInv ==
  /\ rxq \in [Cells -> 0 .. MaxBytes]
  /\ rxqIn \in Ring /\ rxqOut \in Ring
  /\ rpc \in {"idle", "get", "advance", "done"}
  /\ d \in 0 .. MaxBytes
  /\ overrun \in BOOLEAN
  /\ arrived \in 0 .. MaxBytes /\ latest \in 0 .. MaxBytes

\* What is left to read is in order and comes after what was read.  Nothing is
\* missing before the first overrun.  The main loop finds the queue empty
\* after its first test only if the handler has lapped it.
ReadInv ==
  /\ Got <= arrived
  /\ \A k \in 0 .. Unread - 1 : Got < rxq[PosOf(Start, k)]
                                /\ rxq[PosOf(Start, k)] <= arrived
  /\ \A k \in 0 .. Unread - 1 : \A j \in 0 .. k - 1 :
       rxq[PosOf(Start, j)] < rxq[PosOf(Start, k)]
  /\ ~overrun => /\ arrived = Got + Unread
                 /\ \A k \in 0 .. Unread - 1 :
                      rxq[PosOf(Start, k)] = Got + 1 + k
  /\ rpc \in {"get", "advance"} => rxqIn # rxqOut \/ overrun
  /\ rpc = "advance" => d # 0
  /\ rpc \in {"advance", "done"} => IF d = 0 THEN overrun ELSE d > latest
  /\ rpc \in {"advance", "done"} /\ ~overrun => d = latest + 1

\* TypeInv is as strong as the type invariant.
LEMMA TypeInvSuffices == TypeInv => TypeOK
  BY NumberAssumption, RingCells DEF TypeInv, TypeOK, UartTypeOK

\* TypeInv holds at the start.
LEMMA InitType == Init => TypeInv
  <1> SUFFICES ASSUME Init PROVE TypeInv
    OBVIOUS
  <1>1. 0 \in Ring /\ 0 \in 0 .. MaxBytes
    BY NumberAssumption, RingCells DEF Ring
  <1>2. rxq \in [Cells -> 0 .. MaxBytes]
    BY <1>1 DEF Init, UartInit
  <1>3. QED
    BY <1>1, <1>2 DEF Init, UartInit, TypeInv

\* The interrupt handler keeps the types.
LEMMA InterruptType ==
  ASSUME TypeInv, Interrupt
  PROVE  TypeInv'
  <1>1. arrived' \in 0 .. MaxBytes /\ UNCHANGED <<rxqOut, rpc, d, latest>>
    BY NumberAssumption DEF Interrupt, rxq_put, TypeInv
  <1>2. rxq' \in [Cells -> 0 .. MaxBytes]
    BY <1>1 DEF Interrupt, rxq_put, TypeInv
  <1>3. rxqIn' \in Ring
    BY AdvanceValue DEF Interrupt, rxq_put, TypeInv
  <1>4. overrun' \in BOOLEAN
    BY DEF Interrupt, rxq_put, TypeInv
  <1>5. QED
    BY <1>1, <1>2, <1>3, <1>4 DEF TypeInv

\* The steps of the main loop keep the types.
LEMMA LoopType ==
  ASSUME TypeInv, (Fetch /\ UNCHANGED <<arrived, stored, latest>>) \/ Consume
  PROVE  TypeInv'
  <1>1. CASE Receive /\ UNCHANGED <<arrived, stored, latest>>
    BY <1>1 DEF Receive, TypeInv
  <1>2. CASE rxq_get /\ UNCHANGED <<arrived, stored, latest>>
    <2>1. rxq[rxqOut] \in 0 .. MaxBytes /\ 0 \in 0 .. MaxBytes
      BY RingCells, NumberAssumption DEF TypeInv
    <2>2. d' \in 0 .. MaxBytes /\ rpc' \in {"advance", "done"}
      BY <1>2, <2>1 DEF rxq_get
    <2>3. QED
      BY <1>2, <2>2 DEF rxq_get, TypeInv
  <1>3. CASE rxq_getAdvance /\ UNCHANGED <<arrived, stored, latest>>
    BY <1>3, AdvanceValue DEF rxq_getAdvance, TypeInv
  <1>4. CASE Consume
    BY <1>4 DEF Consume, TypeInv
  <1>5. QED
    BY <1>1, <1>2, <1>3, <1>4 DEF Fetch

\* Every step keeps the types.
LEMMA NextType == TypeInv /\ [Next]_vars => TypeInv'
  <1> SUFFICES ASSUME TypeInv, [Next]_vars PROVE TypeInv'
    OBVIOUS
  <1>1. CASE UNCHANGED vars
    BY <1>1 DEF vars, uartVars, TypeInv
  <1>2. QED
    BY <1>1, InterruptType, LoopType DEF Next

\* Type correctness: the indices stay in the range of uint8_t,
\* for every size of rxq, and what the main loop reads is a byte.
THEOREM TypeCorrect == Spec => []TypeOK
  <1>1. Spec => []TypeInv
    BY InitType, NextType, PTL DEF Spec
  <1>2. QED
    BY <1>1, TypeInvSuffices, PTL

-----------------------------------------------------------------------------
(* The order of the bytes.                                                 *)

\* The numbers involved are naturals.
LEMMA ReadType ==
  ASSUME TypeInv
  PROVE  /\ Start \in Ring /\ Unread \in 0 .. Span - 1
         /\ Got \in Nat /\ arrived \in Nat /\ latest \in Nat /\ d \in Nat
         /\ \A k \in 0 .. Span - 1 : /\ PosOf(Start, k) \in Ring
                                     /\ PosOf(Start, k) \in Cells
                                     /\ rxq[PosOf(Start, k)] \in Nat
  <1>1. Start \in Ring
    BY AdvanceValue DEF TypeInv, Start
  <1>2. /\ Unread \in 0 .. Span - 1
        /\ \A k \in 0 .. Span - 1 : PosOf(Start, k) \in Ring
    BY <1>1, CountType DEF TypeInv, Unread
  <1>3. Got \in Nat /\ arrived \in Nat /\ latest \in Nat /\ d \in Nat
    BY DEF TypeInv, Got
  <1>4. QED
    BY <1>1, <1>2, <1>3, RingCells DEF TypeInv

\* ReadInv holds at the start.
LEMMA InitRead == Init => ReadInv
  <1> SUFFICES ASSUME Init PROVE ReadInv
    OBVIOUS
  <1>1. Start = 0 /\ Unread = 0 /\ Got = 0 /\ arrived = 0 /\ rpc = "idle"
    BY DEF Init, UartInit, Start, Unread, CountOf, Got
  <1>2. QED
    BY <1>1 DEF ReadInv

\* A byte that is stored is the latest, and is read last; one that is dropped,
\* or stored over bytes that were not read, is an overrun.
LEMMA InterruptRead ==
  ASSUME TypeInv, ReadInv, Interrupt
  PROVE  ReadInv'
  <1>1. /\ UNCHANGED <<rxqOut, rpc, d, latest>> /\ arrived' = arrived + 1
        /\ Start \in Ring /\ rxqIn \in Ring /\ rxqOut \in Ring
        /\ Unread \in 0 .. Span - 1 /\ Span \in Nat
        /\ Got \in Nat /\ arrived \in Nat
    BY ReadType, RingCells DEF Interrupt, rxq_put, TypeInv
  <1>2. Start' = Start /\ Got' = Got
    BY <1>1 DEF Start, Got, Following
  <1>3. CASE RxqFull
    <2>1. overrun' /\ UNCHANGED <<rxq, rxqIn>>
      BY <1>3 DEF Interrupt, rxq_put
    <2>2. Unread' = Unread
      BY <1>2, <2>1 DEF Unread, CountOf
    <2>3. \A k \in 0 .. Unread - 1 : /\ PosOf(Start, k)' = PosOf(Start, k)
                                     /\ rxq[PosOf(Start, k)] \in Nat
      BY <1>1, <1>2, ReadType DEF PosOf
    <2>4. Got' <= arrived'
      BY <1>1, <1>2 DEF ReadInv
    <2>5. \A k \in 0 .. Unread' - 1 : /\ Got' < rxq'[PosOf(Start', k)]
                                      /\ rxq'[PosOf(Start', k)] <= arrived'
      BY <1>1, <1>2, <2>1, <2>2, <2>3 DEF ReadInv
    <2>6. \A k \in 0 .. Unread' - 1 : \A j \in 0 .. k - 1 :
            rxq'[PosOf(Start', j)] < rxq'[PosOf(Start', k)]
      BY <1>2, <2>1, <2>2 DEF ReadInv
    <2>7. rpc' \in {"advance", "done"} =>
            IF d' = 0 THEN overrun' ELSE d' > latest'
      BY <1>1, <2>1 DEF ReadInv
    <2>8. QED
      BY <1>1, <2>1, <2>4, <2>5, <2>6, <2>7 DEF ReadInv, PosOf
  <1>4. CASE ~RxqFull
    <2>1. /\ rxq' = [rxq EXCEPT ![rxqIn] = arrived + 1]
          /\ rxqIn' = Following(rxqIn) /\ rxqIn' \in Ring
      BY <1>1, <1>4, AdvanceValue DEF Interrupt, rxq_put
    <2>2. overrun \/ rxqIn' = rxqOut => overrun'
      BY <1>4 DEF Interrupt, rxq_put
    <2>3. Got' <= arrived'
      BY <1>1, <1>2 DEF ReadInv
    <2>4. rpc' \in {"get", "advance"} => rxqIn' # rxqOut' \/ overrun'
      BY <1>1, <2>2
    <2>5. rpc' \in {"advance", "done"} =>
            IF d' = 0 THEN overrun' ELSE d' > latest'
      BY <1>1, <2>2 DEF ReadInv
    <2>6. rpc' \in {"advance", "done"} /\ ~overrun' => d' = latest' + 1
      BY <1>1, <2>2 DEF ReadInv
    <2>7. CASE rxqIn' = Start
      <3>1. Unread' = 0
        <4>1. CountOf(Start, Start) = 0
          BY <1>1, CountType
        <4>2. QED
          BY <1>2, <2>7, <4>1 DEF Unread
      <3>2. overrun'
        <4>1. CASE rpc = "advance"
          <5>1. rxqIn = rxqOut
            BY <1>1, <2>1, <2>7, <4>1, FollowingInjective DEF Start
          <5>2. QED
            BY <2>2, <4>1, <5>1 DEF ReadInv
        <4>2. CASE rpc # "advance"
          BY <2>2, <2>7, <4>2 DEF Start
        <4>3. QED
          BY <4>1, <4>2
      <3>3. QED
        BY <1>1, <2>3, <2>4, <2>5, <2>6, <3>1, <3>2 DEF ReadInv
    <2>8. CASE rxqIn' # Start
      <3>1. Unread' = Unread + 1 /\ PosOf(Start, Unread) = rxqIn
            /\ \A k \in 0 .. Unread - 1 : PosOf(Start, k) # rxqIn
        <4>1. CountOf(rxqIn', Start) = CountOf(rxqIn, Start) + 1
          BY <1>1, <2>1, <2>8, StoreArithmetic
        <4>2. Unread' = CountOf(rxqIn', Start)
          BY <1>2 DEF Unread
        <4>3. QED
          BY <1>1, <4>1, <4>2, StoreArithmetic DEF Unread
      <3>2. \A k \in 0 .. Unread - 1 :
              /\ rxq'[PosOf(Start, k)] = rxq[PosOf(Start, k)]
              /\ rxq[PosOf(Start, k)] \in Nat
        <4> SUFFICES ASSUME NEW k \in 0 .. Unread - 1
                     PROVE  /\ rxq'[PosOf(Start, k)] = rxq[PosOf(Start, k)]
                            /\ rxq[PosOf(Start, k)] \in Nat
          OBVIOUS
        <4>1. k \in 0 .. Span - 1 /\ PosOf(Start, k) # rxqIn
          BY <1>1, <3>1
        <4>2. PosOf(Start, k) \in Cells /\ rxq[PosOf(Start, k)] \in Nat
          BY <4>1, ReadType
        <4>3. QED
          BY <2>1, <4>1, <4>2 DEF TypeInv
      <3>3. rxq'[PosOf(Start, Unread)] = arrived + 1
        BY <1>1, <2>1, <3>1, RingCells DEF TypeInv
      <3>4. \A k \in 0 .. Unread' - 1 : k \in 0 .. Unread - 1 \/ k = Unread
        BY <1>1, <3>1
      <3>5. \A k \in 0 .. Unread' - 1 : /\ Got < rxq'[PosOf(Start, k)]
                                        /\ rxq'[PosOf(Start, k)] <= arrived + 1
        BY <1>1, <3>2, <3>3, <3>4 DEF ReadInv
      <3>6. \A k \in 0 .. Unread' - 1 : \A j \in 0 .. k - 1 :
              rxq'[PosOf(Start, j)] < rxq'[PosOf(Start, k)]
        <4> SUFFICES ASSUME NEW k \in 0 .. Unread' - 1, NEW j \in 0 .. k - 1
                     PROVE  rxq'[PosOf(Start, j)] < rxq'[PosOf(Start, k)]
          OBVIOUS
        <4>1. j \in 0 .. Unread - 1
          BY <1>1, <3>1
        <4>2. CASE k \in 0 .. Unread - 1
          BY <3>2, <4>1, <4>2 DEF ReadInv
        <4>3. CASE k = Unread
          BY <1>1, <3>2, <3>3, <4>1, <4>3 DEF ReadInv
        <4>4. QED
          BY <3>4, <4>2, <4>3
      <3>7. ~overrun' => /\ arrived + 1 = Got + Unread'
                         /\ \A k \in 0 .. Unread' - 1 :
                              rxq'[PosOf(Start, k)] = Got + 1 + k
        <4> SUFFICES ASSUME ~overrun'
                     PROVE  /\ arrived + 1 = Got + Unread'
                            /\ \A k \in 0 .. Unread' - 1 :
                                 rxq'[PosOf(Start, k)] = Got + 1 + k
          OBVIOUS
        <4>1. /\ arrived = Got + Unread
              /\ \A k \in 0 .. Unread - 1 : rxq[PosOf(Start, k)] = Got + 1 + k
          BY <2>2 DEF ReadInv
        <4>2. QED
          BY <1>1, <3>1, <3>2, <3>3, <3>4, <4>1
      <3>8. QED
        BY <1>1, <1>2, <2>3, <2>4, <2>5, <2>6, <3>5, <3>6, <3>7
        DEF ReadInv, PosOf
    <2>9. QED
      BY <2>7, <2>8
  <1>5. QED
    BY <1>3, <1>4

\* The main loop reads the next byte, or finds that it was lapped.
LEMMA GetRead ==
  ASSUME TypeInv, ReadInv, rxq_get, UNCHANGED <<arrived, stored, latest>>
  PROVE  ReadInv'
  <1>1. /\ UNCHANGED <<rxq, rxqIn, rxqOut, overrun, arrived, latest>>
        /\ rpc = "get" /\ Start = rxqOut /\ Got = latest
        /\ rxqIn \in Ring /\ rxqOut \in Ring
        /\ Unread \in 0 .. Span - 1 /\ Span \in Nat
        /\ arrived \in Nat /\ latest \in Nat
    BY ReadType, RingCells DEF rxq_get, Start, Got, TypeInv
  <1>2. CASE rxq_isEmpty
    <2>1. d' = 0 /\ rpc' = "done" /\ overrun
      BY <1>1, <1>2 DEF rxq_get, ReadInv, rxq_isEmpty
    <2>2. Start' = Start /\ Unread' = Unread /\ Got' = Got
      BY <1>1, <2>1 DEF Start, Unread, Got, CountOf
    <2>3. QED
      BY <1>1, <2>1, <2>2 DEF ReadInv, PosOf
  <1>3. CASE ~rxq_isEmpty
    <2>1. d' = rxq[rxqOut] /\ rpc' = "advance" /\ rxqIn # rxqOut
      BY <1>3 DEF rxq_get, rxq_isEmpty
    <2>2. /\ PosOf(Start, 0) = rxqOut /\ Unread > 0
          /\ CountOf(rxqIn, Following(rxqOut)) = Unread - 1
          /\ \A k \in 0 .. Span - 2 :
               PosOf(Following(rxqOut), k) = PosOf(Start, k + 1)
      BY <1>1, <2>1, TakeArithmetic, CountType DEF Unread
    <2>3. 0 \in 0 .. Unread - 1 /\ d' \in Nat
      BY <1>1, <2>1, <2>2, RingCells DEF TypeInv
    <2>4. /\ latest < d' /\ d' <= arrived /\ d' # 0
          /\ ~overrun => d' = latest + 1 /\ arrived = latest + Unread
      BY <1>1, <2>1, <2>2, <2>3 DEF ReadInv
    <2>5. Start' = Following(rxqOut) /\ Got' = d' /\ Unread' = Unread - 1
      BY <1>1, <2>1, <2>2, <2>4 DEF Start, Got, Unread, Following, CountOf
    <2>6. \A k \in 0 .. Unread' - 1 :
            /\ k + 1 \in 0 .. Unread - 1
            /\ PosOf(Start', k) = PosOf(Start, k + 1)
            /\ rxq[PosOf(Start, k + 1)] \in Nat
      <3> SUFFICES ASSUME NEW k \in 0 .. Unread' - 1
                   PROVE  /\ k + 1 \in 0 .. Unread - 1
                          /\ PosOf(Start', k) = PosOf(Start, k + 1)
                          /\ rxq[PosOf(Start, k + 1)] \in Nat
        OBVIOUS
      <3>1. /\ k + 1 \in 0 .. Unread - 1
            /\ k \in 0 .. Span - 2 /\ k + 1 \in 0 .. Span - 1
        BY <1>1, <2>5
      <3>2. QED
        BY <2>2, <2>5, <3>1, ReadType
    <2>7. \A k \in 0 .. Unread' - 1 : /\ Got' < rxq[PosOf(Start', k)]
                                      /\ rxq[PosOf(Start', k)] <= arrived
      <3> SUFFICES ASSUME NEW k \in 0 .. Unread' - 1
                   PROVE  /\ d' < rxq[PosOf(Start, k + 1)]
                          /\ rxq[PosOf(Start, k + 1)] <= arrived
        BY <2>5, <2>6
      <3>1. k + 1 \in 0 .. Unread - 1 /\ 0 \in 0 .. (k + 1) - 1
        BY <1>1, <2>5, <2>6
      <3>2. rxq[PosOf(Start, 0)] < rxq[PosOf(Start, k + 1)]
            /\ rxq[PosOf(Start, k + 1)] <= arrived
        BY <3>1 DEF ReadInv
      <3>3. QED
        BY <2>1, <2>2, <3>2
    <2>8. \A k \in 0 .. Unread' - 1 : \A j \in 0 .. k - 1 :
            rxq[PosOf(Start', j)] < rxq[PosOf(Start', k)]
      <3> SUFFICES ASSUME NEW k \in 0 .. Unread' - 1, NEW j \in 0 .. k - 1
                   PROVE  rxq[PosOf(Start', j)] < rxq[PosOf(Start', k)]
        OBVIOUS
      <3>1. j \in 0 .. Unread' - 1 /\ j + 1 \in 0 .. (k + 1) - 1
        BY <1>1, <2>5
      <3>2. /\ PosOf(Start', k) = PosOf(Start, k + 1)
            /\ PosOf(Start', j) = PosOf(Start, j + 1)
            /\ k + 1 \in 0 .. Unread - 1
        BY <2>6, <3>1
      <3>3. QED
        BY <3>1, <3>2 DEF ReadInv
    <2>9. ~overrun => /\ arrived = Got' + Unread'
                      /\ \A k \in 0 .. Unread' - 1 :
                           rxq[PosOf(Start', k)] = Got' + 1 + k
      <3> SUFFICES ASSUME ~overrun
                   PROVE  /\ arrived = Got' + Unread'
                          /\ \A k \in 0 .. Unread' - 1 :
                               rxq[PosOf(Start', k)] = Got' + 1 + k
        OBVIOUS
      <3>1. arrived = Got' + Unread'
        BY <1>1, <2>4, <2>5
      <3>2. ASSUME NEW k \in 0 .. Unread' - 1
            PROVE  rxq[PosOf(Start', k)] = Got' + 1 + k
        <4>1. rxq[PosOf(Start', k)] = latest + 1 + (k + 1)
          BY <1>1, <2>6, <3>2 DEF ReadInv
        <4>2. k \in Int
          BY <3>2
        <4>3. QED
          BY <1>1, <2>4, <2>5, <4>1, <4>2
      <3>3. QED
        BY <3>1, <3>2
    <2>10. QED
      BY <1>1, <2>1, <2>4, <2>5, <2>7, <2>8, <2>9 DEF ReadInv, PosOf
  <1>4. QED
    BY <1>2, <1>3

\* The other steps of the main loop leave what is to be read alone.
LEMMA LoopRead ==
  ASSUME TypeInv, ReadInv,
         \/ /\ Receive \/ rxq_getAdvance
            /\ UNCHANGED <<arrived, stored, latest>>
         \/ Consume
  PROVE  ReadInv'
  <1>1. UNCHANGED <<rxq, rxqIn, d, overrun, arrived>> /\ rxqOut \in Ring
    BY DEF Receive, rxq_getAdvance, Consume, TypeInv
  <1>2. Start' = Start /\ Got' = Got
    <2>1. CASE Receive /\ UNCHANGED <<arrived, stored, latest>>
      BY <2>1 DEF Receive, Start, Got
    <2>2. CASE rxq_getAdvance /\ UNCHANGED <<arrived, stored, latest>>
      BY <1>1, <2>2, AdvanceValue DEF rxq_getAdvance, Start, Got
    <2>3. CASE Consume
      BY <2>3 DEF Consume, Start, Got
    <2>4. QED
      BY <2>1, <2>2, <2>3
  <1>3. Unread' = Unread
    BY <1>1, <1>2 DEF Unread, CountOf
  <1>4. /\ rpc' = "get" => rxqIn' # rxqOut'
        /\ rpc' # "advance"
        /\ rpc' = "done" => rpc = "advance" /\ latest' = latest
    BY DEF Receive, rxq_getAdvance, Consume, rxq_isEmpty
  <1>5. /\ Got' <= arrived'
        /\ \A k \in 0 .. Unread' - 1 : Got' < rxq'[PosOf(Start', k)]
                                       /\ rxq'[PosOf(Start', k)] <= arrived'
        /\ \A k \in 0 .. Unread' - 1 : \A j \in 0 .. k - 1 :
             rxq'[PosOf(Start', j)] < rxq'[PosOf(Start', k)]
        /\ ~overrun' => /\ arrived' = Got' + Unread'
                        /\ \A k \in 0 .. Unread' - 1 :
                             rxq'[PosOf(Start', k)] = Got' + 1 + k
    BY <1>1, <1>2, <1>3 DEF ReadInv
  <1>6. rpc' = "done" => /\ IF d' = 0 THEN overrun' ELSE d' > latest'
                         /\ ~overrun' => d' = latest' + 1
    BY <1>1, <1>4 DEF ReadInv
  <1>7. QED
    BY <1>4, <1>5, <1>6 DEF ReadInv, PosOf

\* Every step keeps ReadInv.
LEMMA NextRead == TypeInv /\ ReadInv /\ [Next]_vars => ReadInv'
  <1> SUFFICES ASSUME TypeInv, ReadInv, [Next]_vars PROVE ReadInv'
    OBVIOUS
  <1>1. CASE UNCHANGED vars
    <2>1. UNCHANGED <<rxq, rxqIn, rxqOut, rpc, d, overrun, arrived, latest>>
      BY <1>1 DEF vars, uartVars
    <2>2. UNCHANGED <<Start, Got, Unread>>
      BY <2>1 DEF Start, Got, Unread, CountOf, Following
    <2>3. QED
      BY <2>1, <2>2 DEF ReadInv, PosOf
  <1>2. QED
    BY <1>1, InterruptRead, GetRead, LoopRead DEF Next, Fetch

\* The main loop gets the bytes of the radio module in order: all of them
\* until the interrupt handler has lapped it or dropped one, and none late or
\* twice after that, for every size of rxq and every width of its indices.
THEOREM BytesComeInOrder == Spec => BytesInOrder
  <1> DEFINE Ordered ==
        Consume => IF overrun THEN d = 0 \/ d > latest ELSE d = latest + 1
  <1>1. TypeInv /\ ReadInv => Ordered
    <2> SUFFICES ASSUME TypeInv, ReadInv, Consume PROVE Ordered
      OBVIOUS
    <2>1. rpc = "done"
      BY DEF Consume
    <2>2. overrun => d = 0 \/ d > latest
      BY <2>1 DEF ReadInv
    <2>3. ~overrun => d = latest + 1
      BY <2>1 DEF ReadInv
    <2>4. QED
      BY <2>2, <2>3
  <1>2. Spec => [](TypeInv /\ ReadInv)
    BY InitType, InitRead, NextType, NextRead, PTL DEF Spec
  <1>3. Spec => [][Ordered]_vars
    BY <1>1, <1>2, PTL DEF Spec
  <1>4. QED
    BY <1>3 DEF BytesInOrder

\* Until an overrun the distance of the indices is the number of bytes that
\* wait, for every size of rxq and every width of its indices: at that point
\* ReadInv counts from rxqOut and from the byte taken last.
THEOREM IndicesTellTheCount == Spec => []IndicesCount
  <1> DEFINE StoredInv == ~overrun => stored = arrived
  <1>1. Init => StoredInv
    BY DEF Init
  <1>2. TypeInv /\ StoredInv /\ [Next]_vars => StoredInv'
    BY DEF TypeInv, Next, Interrupt, rxq_put, Fetch, Receive, rxq_get,
           rxq_getAdvance, Consume, vars, uartVars
  <1>3. TypeInv /\ ReadInv /\ StoredInv => IndicesCount
    <2> SUFFICES ASSUME TypeInv, ReadInv, stored = arrived, ~overrun, rpc = "idle"
                 PROVE  CountOf(rxqIn, rxqOut) = stored - latest
      BY DEF IndicesCount
    <2>1. Start = rxqOut /\ Got = latest
      BY DEF Start, Got
    <2>2. arrived = latest + CountOf(rxqIn, rxqOut)
      BY <2>1 DEF ReadInv, Unread
    <2>3. CountOf(rxqIn, rxqOut) \in Int /\ latest \in Int
      BY <2>1, ReadType DEF Unread
    <2>4. QED
      BY <2>2, <2>3
  <1>4. QED
    BY <1>1, <1>2, <1>3, InitType, InitRead, NextType, NextRead, PTL DEF Spec
==============================================================================
