------------------------- MODULE XbeeReceiverProofs --------------------------
(***************************************************************************)
(* Proofs about the receiver of API frames, for every size of the queue    *)
(* and of rfBuf, every width of a byte and any frames.                     *)
(***************************************************************************)
EXTENDS XbeeReceiver, SequenceTheorems, WellFoundedInduction, TLAPS

-----------------------------------------------------------------------------
(* The checksum.                                                           *)

\* A set of natural numbers that is not empty has a least element.
LEMMA Least ==
  ASSUME NEW S \in SUBSET Nat, S # {}
  PROVE  \E x \in S : \A y \in S : x <= y
<1>1. \E x \in S : \A y \in S : <<y, x>> \notin OpToRel(<, Nat)
  BY NatLessThanWellFounded, WFMin, Zenon
<1>2. \A x, y \in Nat : <<y, x>> \notin OpToRel(<, Nat) => ~(y < x)
  BY Zenon DEF OpToRel
<1>3. \A x, y \in Nat : ~(y < x) => x <= y
  OBVIOUS
<1>. QED
  BY <1>1, <1>2, <1>3

\* What the loop of checksum has summed up before each byte, up to byte n.
Sums(s, n, f) ==
  /\ f \in [0 .. n -> Byte] /\ f[0] = 0
  /\ \A i \in 1 .. n : f[i] = (f[i - 1] + s[i]) % ByteMod

\* A sum is a byte.
LEMMA SumIsByte ==
  /\ 0 \in Byte
  /\ \A a, b \in Byte : (a + b) % ByteMod \in Byte
  BY ByteAssumption

\* The loop of checksum can be run over any sequence of bytes.
LEMMA SumsExist ==
  ASSUME NEW s \in Seq(Byte), NEW n \in 0 .. Len(s)
  PROVE  \E f : Sums(s, n, f)
<1> DEFINE Bad == {k \in 0 .. Len(s) : ~\E f : Sums(s, k, f)}
<1>. SUFFICES ASSUME Bad # {} PROVE FALSE
  OBVIOUS
<1>1. PICK k \in Bad : \A j \in Bad : k <= j
  <2>1. Bad \in SUBSET Nat
    OBVIOUS
  <2> HIDE DEF Bad
  <2>. QED
    BY <2>1, Least
<1>2. k \in 0 .. Len(s) /\ ~\E f : Sums(s, k, f)
  BY <1>1
<1>3. CASE k = 0
  <2>1. Sums(s, 0, [i \in 0 .. 0 |-> 0])
    BY SumIsByte DEF Sums
  <2>. QED
    BY <1>2, <1>3, <2>1
<1>4. CASE k > 0
  <2>1. k - 1 \in 0 .. Len(s) /\ k - 1 \notin Bad
    BY <1>1, <1>2, <1>4
  <2>2. PICK f : Sums(s, k - 1, f)
    BY <2>1
  <2> DEFINE g == [i \in 0 .. k |->
                     IF i = k THEN (f[k - 1] + s[k]) % ByteMod ELSE f[i]]
  <2>3. s[k] \in Byte /\ f[k - 1] \in Byte
    BY <1>2, <1>4, <2>2 DEF Sums
  <2>4. g \in [0 .. k -> Byte] /\ g[0] = 0
    BY <1>2, <1>4, <2>2, <2>3, SumIsByte DEF Sums
  <2>5. ASSUME NEW i \in 1 .. k PROVE g[i] = (g[i - 1] + s[i]) % ByteMod
    <3>1. i - 1 \in 0 .. k /\ i - 1 # k /\ g[i - 1] = f[i - 1]
      BY <1>2
    <3>2. CASE i = k
      BY <1>2, <3>1, <3>2
    <3>3. CASE i # k
      <4>1. i \in 1 .. k - 1 /\ g[i] = f[i]
        BY <1>2, <3>3
      <4>. QED
        BY <2>2, <3>1, <4>1 DEF Sums
    <3>. QED
      BY <3>2, <3>3
  <2>6. Sums(s, k, g)
    BY <2>4, <2>5 DEF Sums
  <2>. QED
    BY <1>2, <2>6
<1>. QED
  BY <1>2, <1>3, <1>4

\* The sums of n bytes are determined by the bytes.
LEMMA SameSums ==
  ASSUME NEW s, NEW n \in Nat, NEW f, Sums(s, n, f), NEW g, g[0] = 0,
         \A i \in 1 .. n : g[i] = (g[i - 1] + s[i]) % ByteMod
  PROVE  \A i \in 0 .. n : g[i] = f[i]
<1> DEFINE Bad == {i \in 0 .. n : g[i] # f[i]}
<1>. SUFFICES ASSUME Bad # {} PROVE FALSE
  OBVIOUS
<1>1. PICK k \in Bad : \A j \in Bad : k <= j
  <2>1. Bad \in SUBSET Nat
    OBVIOUS
  <2> HIDE DEF Bad
  <2>. QED
    BY <2>1, Least
<1>2. k \in 0 .. n /\ g[k] # f[k] /\ k # 0
  BY <1>1 DEF Sums
<1>3. k \in 1 .. n /\ k - 1 \in 0 .. n /\ k - 1 \notin Bad
  BY <1>1, <1>2
<1>4. g[k - 1] = f[k - 1]
  BY <1>3
<1>5. g[k] = f[k]
  BY <1>3, <1>4 DEF Sums
<1>. QED
  BY <1>2, <1>5

\* RunningSum is what the loop sums up.
LEMMA RunningSumValue ==
  ASSUME NEW s \in Seq(Byte)
  PROVE  Sums(s, Len(s), RunningSum(s))
<1> DEFINE P(f) == f = [i \in 0 .. Len(s) |->
                          IF i = 0 THEN 0 ELSE (f[i - 1] + s[i]) % ByteMod]
<1>0. Len(s) \in Nat
  OBVIOUS
<1>1. PICK f : Sums(s, Len(s), f)
  BY <1>0, SumsExist
<1>2. P(f)
  BY <1>0, <1>1 DEF Sums
<1>3. RunningSum(s) = CHOOSE g : P(g)
  BY DEF RunningSum
<1>4. P(RunningSum(s))
  BY <1>2, <1>3
<1>5. PICK g : g = RunningSum(s)
  OBVIOUS
<1>6. DOMAIN g = 0 .. Len(s) /\ g[0] = 0
  BY <1>0, <1>4, <1>5
<1>7. \A i \in 1 .. Len(s) : g[i] = (g[i - 1] + s[i]) % ByteMod
  BY <1>0, <1>4, <1>5
<1>8. \A i \in 0 .. Len(s) : g[i] = f[i]
  BY <1>1, <1>6, <1>7, SameSums
<1>9. g = [i \in 0 .. Len(s) |-> g[i]]
  BY <1>0, <1>4, <1>5
<1>10. g \in [0 .. Len(s) -> Byte]
  BY <1>1, <1>8, <1>9 DEF Sums
<1>. QED
  BY <1>5, <1>6, <1>7, <1>10 DEF Sums

\* A sequence and what it is when a byte is appended have the same sums.
LEMMA AppendSum ==
  ASSUME NEW s \in Seq(Byte), NEW b \in Byte
  PROVE  /\ RunningSum(s)[Len(s)] \in Byte
         /\ RunningSum(s \o <<b>>)[Len(s) + 1]
              = (RunningSum(s)[Len(s)] + b) % ByteMod
<1>. PICK n \in Nat : n = Len(s)
  OBVIOUS
<1>. PICK q : q = s \o <<b>>
  OBVIOUS
<1>1. /\ q \in Seq(Byte) /\ Len(q) = n + 1 /\ q[n + 1] = b
      /\ \A i \in 1 .. n : q[i] = s[i]
  BY AppendIsConcat, AppendProperties
<1>. PICK f : f = RunningSum(s)
  OBVIOUS
<1>. PICK g : g = RunningSum(q)
  OBVIOUS
<1>2. Sums(s, n, f)
  BY RunningSumValue
<1>3. Sums(q, n + 1, g)
  BY <1>1, RunningSumValue
<1>4. g[0] = 0 /\ \A i \in 1 .. n : g[i] = (g[i - 1] + s[i]) % ByteMod
  BY <1>1, <1>3 DEF Sums
<1>5. \A i \in 0 .. n : g[i] = f[i]
  BY <1>2, <1>4, SameSums
<1>6. f[n] \in Byte /\ g[n] = f[n]
  BY <1>2, <1>5 DEF Sums
<1>7. g[n + 1] = (g[n] + b) % ByteMod
  BY <1>1, <1>3 DEF Sums
<1>. QED
  BY <1>1, <1>6, <1>7

\* The checksum is a byte, and a frame with its checksum has checksum 0.
LEMMA ChecksumValue ==
  ASSUME NEW s \in Seq(Byte)
  PROVE  checksum(s) \in Byte /\ checksum(s \o <<checksum(s)>>) = 0
<1>. PICK c : c = checksum(s)
  OBVIOUS
<1>. PICK x : x = RunningSum(s)[Len(s)]
  OBVIOUS
<1>1. x \in Byte /\ c = ByteMod - 1 - x
  BY AppendSum, SumIsByte DEF checksum
<1>2. c \in Byte /\ x + c = ByteMod - 1
  BY <1>1, ByteAssumption
<1>3. (x + c) % ByteMod = ByteMod - 1
  BY <1>2, ByteAssumption
<1>. PICK q : q = s \o <<c>>
  OBVIOUS
<1>4. Len(q) = Len(s) + 1
  BY <1>2, AppendIsConcat, AppendProperties
<1>5. RunningSum(q)[Len(q)] = ByteMod - 1
  BY <1>2, <1>3, <1>4, AppendSum
<1>6. checksum(q) = 0
  BY <1>5, ByteAssumption DEF checksum
<1>. QED
  BY <1>2, <1>6

-----------------------------------------------------------------------------
(* The cells the indices run through.                                      *)

\* The indices run through the cells below both limits and start again at 0.
Span == IF RX_BUF_SIZE <= IndexMod THEN RX_BUF_SIZE ELSE IndexMod
Ring == 0 .. Span - 1
Following(i) == IF i = Span - 1 THEN 0 ELSE i + 1

\* Cells from o on, up to and without i.
CountOf(i, o) == IF i >= o THEN i - o ELSE i - o + Span

\* The index arithmetic of rxq_put and rxq_get, without the remainders: it
\* starts again at the end of the array or of the uint8_t, whichever is first.
LEMMA AdvanceValue ==
  ASSUME NEW i \in Ring
  PROVE  Advance(i) = Following(i) /\ Following(i) \in Ring
<1>1. /\ RX_BUF_SIZE \in Nat \ {0} /\ IndexMod \in Nat \ {0}
      /\ Span \in Nat \ {0} /\ Span <= RX_BUF_SIZE /\ Span <= IndexMod
      /\ Span = RX_BUF_SIZE \/ Span = IndexMod
  BY QueueAssumption DEF Span
<1>2. i \in 0 .. Span - 1
  BY DEF Ring
<1>3. CASE i + 1 = RX_BUF_SIZE
  <2>1. (i + 1) % RX_BUF_SIZE = 0 /\ 0 % IndexMod = 0
    BY <1>1, <1>3
  <2>2. i = Span - 1
    BY <1>1, <1>2, <1>3
  <2>3. QED
    BY <1>1, <2>1, <2>2 DEF Advance, Following, Ring
<1>4. CASE i + 1 # RX_BUF_SIZE
  <2>1. i + 1 \in 0 .. RX_BUF_SIZE - 1
    BY <1>1, <1>2, <1>4
  <2>2. (i + 1) % RX_BUF_SIZE = i + 1
    BY <1>1, <2>1
  <2>3. CASE i + 1 = IndexMod
    <3>1. (i + 1) % IndexMod = 0 /\ i = Span - 1
      BY <1>1, <1>2, <2>3
    <3>2. QED
      BY <1>1, <2>2, <3>1 DEF Advance, Following, Ring
  <2>4. CASE i + 1 # IndexMod
    <3>1. i + 1 \in 0 .. IndexMod - 1 /\ i # Span - 1
      BY <1>1, <1>2, <1>4, <2>4
    <3>2. (i + 1) % IndexMod = i + 1
      BY <1>1, <3>1
    <3>3. QED
      BY <1>1, <1>2, <2>2, <3>1, <3>2 DEF Advance, Following, Ring
  <2>5. QED
    BY <2>3, <2>4
<1>5. QED
  BY <1>3, <1>4

\* Cells of the ring are cells of the array and values of the index type.
LEMMA RingCells ==
  Span \in Nat \ {0} /\ Ring \subseteq Cells /\ Ring \subseteq Index
  BY QueueAssumption DEF Span, Ring, Cells, Index

\* No two cells have the same successor.
LEMMA FollowingInjective ==
  \A i, j \in Ring : Following(i) = Following(j) => i = j
  BY RingCells DEF Following, Ring

-----------------------------------------------------------------------------
(* Types.                                                                  *)

\* The indices stay in the ring, as in RfUart.
UartInv ==
  /\ rxq \in [Cells -> Byte]
  /\ rxqIn \in Ring /\ rxqOut \in Ring
  /\ rpc \in {"idle", "get", "advance", "done"}
  /\ d \in Byte
  /\ overrun \in BOOLEAN

\* The first length byte leaves room for the second.
ParserType ==
  /\ rfState \in {"XBEE_FRAME", "XBEE_LENGTH", "XBEE_DATA"}
  /\ rfPos \in Nat
  /\ rfFrameLen \in 0 .. ByteMod * ByteMod - 1
  /\ rfState = "XBEE_LENGTH"
       => \/ rfPos = 0 /\ rfFrameLen = 0
          \/ rfPos = 1 /\ rfFrameLen <= (ByteMod - 1) * ByteMod
  /\ rfState = "XBEE_DATA" => rfFrameLen <= XBEE_BUF_SZ /\ rfPos <= rfFrameLen
  /\ rfBuf \in [BufCells -> Byte]
  /\ rfFrameTimer \in 0 .. TimeMod - 1
  /\ initialized \in BOOLEAN
  /\ delivered \in Seq(Seq(Byte))

EnvType ==
  /\ time \in 0 .. TimeMod - 1 /\ expired \in BOOLEAN
  /\ line \in Seq(Byte) /\ sent \in Seq(Payloads)

TypeInv == UartInv /\ ParserType /\ EnvType

\* TypeInv is as strong as the type invariant.
LEMMA TypeInvSuffices == TypeInv => TypeOK
<1>. SUFFICES ASSUME TypeInv PROVE TypeOK
  OBVIOUS
<1>1. UartTypeOK
  BY RingCells DEF TypeInv, UartInv, UartTypeOK
<1>. QED
  BY <1>1 DEF TypeInv, ParserType, EnvType, TypeOK

\* The sizes are numbers.
LEMMA Numbers ==
  /\ ByteMod \in Nat /\ ByteMod > 0 /\ XBEE_BUF_SZ \in Nat
  /\ XBEE_BUF_SZ < ByteMod * ByteMod /\ ByteMod * ByteMod \in Nat
  /\ \A b \in Byte : b \in Nat /\ b <= ByteMod - 1
  BY ByteAssumption, BufAssumption

\* TypeInv holds at the start.
LEMMA InitType == Init => TypeInv
<1>. SUFFICES ASSUME Init PROVE TypeInv
  OBVIOUS
<1>1. 0 \in Ring /\ 0 \in Byte /\ 0 \in 0 .. TimeMod - 1
  BY RingCells, QueueAssumption, TimeAssumption DEF Ring
<1>2. UartInv
  BY <1>1 DEF Init, UartInit, UartInv
<1>3. /\ 0 \in 0 .. ByteMod * ByteMod - 1 /\ 0 \in Nat
      /\ [i \in BufCells |-> 0] \in [BufCells -> Byte]
  BY <1>1, Numbers
<1>4. \A S : <<>> \in Seq(S)
  BY EmptySeq
<1>5. ParserType
  <2>1. delivered \in Seq(Seq(Byte)) /\ initialized \in BOOLEAN
    BY <1>4, Zenon DEF Init
  <2>. QED
    BY <1>1, <1>3, <2>1 DEF Init, ParserType
<1>6. EnvType
  <2>1. line \in Seq(Byte) /\ sent \in Seq(Payloads) /\ expired \in BOOLEAN
    BY <1>4, Zenon DEF Init
  <2>. QED
    BY <1>1, <2>1 DEF Init, EnvType
<1>. QED
  BY <1>2, <1>5, <1>6 DEF TypeInv

\* Quotient and remainder.
LEMMA Division ==
  ASSUME NEW n \in Nat, NEW m \in Nat \ {0}
  PROVE  /\ n \div m \in Nat /\ n % m \in 0 .. m - 1
         /\ n = (n \div m) * m + (n % m)
  OBVIOUS

\* A frame on the line is a delimiter, two bytes of length, the data and the
\* checksum.
LEMMA EncodeValue ==
  ASSUME NEW p \in Payloads
  PROVE  /\ p \in Seq(Byte) /\ Len(p) \in 1 .. XBEE_BUF_SZ
         /\ Encode(p) \in Seq(Byte) /\ Len(Encode(p)) = Len(p) + 4
         /\ Encode(p)[1] = XBEE_START_DEL
         /\ Encode(p)[2] = Len(p) \div ByteMod
         /\ Encode(p)[3] = Len(p) % ByteMod
         /\ \A i \in 1 .. Len(p) : Encode(p)[i + 3] = p[i]
         /\ Encode(p)[Len(p) + 4] = checksum(p)
         /\ Len(p) = (Len(p) \div ByteMod) * ByteMod + (Len(p) % ByteMod)
         /\ Len(p) \div ByteMod \in Byte /\ Len(p) % ByteMod \in Byte
<1>1. p \in Seq(Byte) /\ Len(p) \in 1 .. XBEE_BUF_SZ
  BY PayloadAssumption
<1>2. PICK n \in Nat : n = Len(p) /\ n < ByteMod * ByteMod
  BY <1>1, Numbers
<1>3. /\ n = (n \div ByteMod) * ByteMod + (n % ByteMod)
      /\ n \div ByteMod \in Nat /\ n % ByteMod \in 0 .. ByteMod - 1
  <2>1. ByteMod \in Nat \ {0}
    BY ByteAssumption
  <2>. QED
    BY <2>1, Division
<1>4. n \div ByteMod \in Byte /\ n % ByteMod \in Byte
  <2>1. n \div ByteMod <= ByteMod - 1
    <3>. PICK q \in Nat : q = n \div ByteMod
      BY <1>3
    <3>. SUFFICES ASSUME q >= ByteMod PROVE FALSE
      BY Numbers
    <3>1. q * ByteMod >= ByteMod * ByteMod
      BY Numbers
    <3>. QED
      BY <1>2, <1>3, <3>1, Numbers
  <2>. QED
    BY <1>3, <2>1, ByteAssumption
<1>5. checksum(p) \in Byte
  BY <1>1, ChecksumValue
<1>. PICK h : h = <<XBEE_START_DEL, n \div ByteMod, n % ByteMod>>
  OBVIOUS
<1>6. /\ h \in Seq(Byte) /\ Len(h) = 3 /\ h[1] = XBEE_START_DEL
      /\ h[2] = n \div ByteMod /\ h[3] = n % ByteMod
  BY <1>4, ByteAssumption
<1>. PICK t : t = <<checksum(p)>>
  OBVIOUS
<1>7. t \in Seq(Byte) /\ Len(t) = 1 /\ t[1] = checksum(p)
  BY <1>5
<1>. PICK hp : hp = h \o p
  OBVIOUS
<1>8. /\ hp \in Seq(Byte) /\ Len(hp) = n + 3
      /\ \A i \in 1 .. n + 3 : hp[i] = IF i <= 3 THEN h[i] ELSE p[i - 3]
  BY <1>1, <1>2, <1>6, ConcatProperties
<1>. PICK e : e = hp \o t
  OBVIOUS
<1>9. /\ e \in Seq(Byte) /\ Len(e) = n + 4
      /\ \A i \in 1 .. n + 4 :
           e[i] = IF i <= n + 3 THEN hp[i] ELSE t[i - (n + 3)]
  BY <1>2, <1>7, <1>8, ConcatProperties
<1>10. Encode(p) = e
  BY <1>2 DEF Encode
<1>11. /\ e[1] = XBEE_START_DEL /\ e[2] = n \div ByteMod /\ e[3] = n % ByteMod
       /\ \A i \in 1 .. n : e[i + 3] = p[i]
       /\ e[n + 4] = checksum(p)
  <2>1. e[1] = XBEE_START_DEL /\ e[2] = n \div ByteMod /\ e[3] = n % ByteMod
    BY <1>6, <1>8, <1>9
  <2>2. ASSUME NEW i \in 1 .. n PROVE e[i + 3] = p[i]
    <3>1. i + 3 \in 1 .. n + 4 /\ i + 3 \in 1 .. n + 3 /\ i + 3 - 3 = i
      OBVIOUS
    <3>. QED
      BY <1>8, <1>9, <3>1
  <2>3. e[n + 4] = checksum(p)
    <3>1. n + 4 \in 1 .. n + 4 /\ ~(n + 4 <= n + 3) /\ n + 4 - (n + 3) = 1
      OBVIOUS
    <3>. PICK m \in Nat : m = n + 4
      OBVIOUS
    <3>2. e[m] = IF m <= n + 3 THEN hp[m] ELSE t[m - (n + 3)]
      <4>1. m \in 1 .. n + 4
        BY <3>1
      <4>. QED
        BY <1>9, <4>1, Zenon
    <3>3. e[m] = t[1]
      <4>1. ~(m <= n + 3) /\ m - (n + 3) = 1
        BY <3>1
      <4>. QED
        BY <3>2, <4>1, Zenon
    <3>. QED
      BY <1>7, <3>3
  <2>. QED
    BY <2>1, <2>2, <2>3
<1>. QED
  BY <1>1, <1>2, <1>3, <1>4, <1>9, <1>10, <1>11

\* The steps outside the parser keep the types.
LEMMA EnvKeepsType ==
  ASSUME TypeInv,
         (\E p \in Payloads : SendFrame(p)) \/ UART1_IRQHandler \/ Tick
         \/ xbee_task \/ FetchByte \/ UNCHANGED vars
  PROVE  TypeInv'
<1>. USE DEF TypeInv
<1>1. ASSUME NEW p \in Payloads, SendFrame(p) PROVE TypeInv'
  <2>1. line' \in Seq(Byte)
    BY <1>1, EncodeValue DEF SendFrame
  <2>2. sent' \in Seq(Payloads)
    BY <1>1, AppendProperties DEF SendFrame, EnvType
  <2>3. UartInv'
    BY <1>1 DEF SendFrame, UartInv, uartVars
  <2>4. ParserType'
    BY <1>1 DEF SendFrame, ParserType, rxVars
  <2>. QED
    BY <1>1, <2>1, <2>2, <2>3, <2>4 DEF SendFrame, EnvType
<1>2. CASE UART1_IRQHandler
  <2>1. Head(line) \in Byte /\ line' \in Seq(Byte)
    BY <1>2, HeadTailProperties DEF UART1_IRQHandler, EnvType
  <2>2. UartInv'
    <3>1. rxqIn' \in Ring
      BY <1>2, AdvanceValue DEF UART1_IRQHandler, rxq_put, UartInv
    <3>2. rxq' \in [Cells -> Byte] /\ overrun' \in BOOLEAN
      BY <1>2, <2>1 DEF UART1_IRQHandler, rxq_put, UartInv
    <3>. QED
      BY <1>2, <3>1, <3>2 DEF UART1_IRQHandler, rxq_put, UartInv
  <2>3. ParserType'
    BY <1>2 DEF UART1_IRQHandler, ParserType, rxVars
  <2>. QED
    BY <1>2, <2>1, <2>2, <2>3 DEF UART1_IRQHandler, EnvType
<1>3. CASE Tick
  <2>1. time' \in 0 .. TimeMod - 1
    BY <1>3, TimeAssumption DEF Tick, EnvType
  <2>2. UartInv' /\ ParserType'
    BY <1>3 DEF Tick, UartInv, ParserType, rxVars, uartVars
  <2>. QED
    BY <1>3, <2>1, <2>2 DEF Tick, EnvType
<1>4. CASE xbee_task
  <2>1. UartInv'
    BY <1>4 DEF xbee_task, Receive, UartInv, uartVars
  <2>2. ParserType'
    <3>1. /\ rfState' \in {rfState, "XBEE_FRAME"}
          /\ rfFrameTimer' \in {rfFrameTimer, 0}
      BY <1>4 DEF xbee_task
    <3>2. UNCHANGED <<rfFrameLen, rfPos, rfBuf, initialized, delivered>>
      BY <1>4 DEF xbee_task
    <3>. QED
      BY <3>1, <3>2, TimeAssumption DEF ParserType
  <2>3. EnvType'
    BY <1>4 DEF xbee_task, EnvType
  <2>. QED
    BY <2>1, <2>2, <2>3
<1>5. CASE FetchByte
  <2>1. UartInv'
    <3>1. CASE rxq_get
      <4>1. rxq[rxqOut] \in Byte /\ 0 \in Byte
        BY RingCells, SumIsByte DEF UartInv
      <4>2. d' \in Byte /\ rpc' \in {"advance", "done"}
        BY <3>1, <4>1 DEF rxq_get
      <4>. QED
        BY <3>1, <4>2 DEF rxq_get, UartInv
    <3>2. CASE rxq_getAdvance
      BY <3>2, AdvanceValue DEF rxq_getAdvance, UartInv
    <3>. QED
      BY <1>5, <3>1, <3>2 DEF FetchByte
  <2>2. ParserType' /\ EnvType'
    BY <1>5 DEF FetchByte, ParserType, EnvType, rxVars
  <2>. QED
    BY <2>1, <2>2
<1>6. CASE UNCHANGED vars
  BY <1>6 DEF vars, uartVars, rxVars, UartInv, ParserType, EnvType
<1>. QED
  BY <1>1, <1>2, <1>3, <1>4, <1>5, <1>6

\* The start of a buffer is a sequence of bytes.
LEMMA PrefixTyped ==
  ASSUME NEW b \in [BufCells -> Byte], NEW n \in 0 .. XBEE_BUF_SZ + 1
  PROVE  /\ Prefix(b, n) \in Seq(Byte) /\ Len(Prefix(b, n)) = n
         /\ \A i \in 1 .. n : Prefix(b, n)[i] = b[i - 1]
<1>1. n \in Nat /\ \A i \in 1 .. n : b[i - 1] \in Byte
  BY Numbers DEF BufCells
<1>2. Prefix(b, n) \in [1 .. n -> Byte]
  BY <1>1 DEF Prefix
<1>. QED
  BY <1>1, <1>2 DEF Prefix

\* A frame is passed on, or it is not.
LEMMA ProcessFrameType ==
  ASSUME NEW b \in [BufCells -> Byte], NEW n \in 1 .. XBEE_BUF_SZ + 1,
         processFrame(b, n), initialized \in BOOLEAN,
         delivered \in Seq(Seq(Byte))
  PROVE  initialized' \in BOOLEAN /\ delivered' \in Seq(Seq(Byte))
<1>1. CASE n < 2 \/ checksum(Prefix(b, n)) # 0
  BY <1>1 DEF processFrame
<1>2. CASE ~(n < 2 \/ checksum(Prefix(b, n)) # 0)
  <2>1. n - 1 \in 0 .. XBEE_BUF_SZ + 1
    BY Numbers
  <2>2. Prefix(b, n - 1) \in Seq(Byte)
    BY <2>1, PrefixTyped
  <2>3. delivered' \in Seq(Seq(Byte))
    <3>1. delivered' = Append(delivered, Prefix(b, n - 1))
      BY <1>2 DEF processFrame
    <3>. PICK x \in Seq(Byte) : x = Prefix(b, n - 1)
      BY <2>2
    <3>. PICK S : S = Seq(Byte)
      OBVIOUS
    <3>. QED
      BY <3>1, AppendProperties
  <2>4. initialized' \in BOOLEAN
    BY <1>2 DEF processFrame, handleModemStatus
  <2>. QED
    BY <2>3, <2>4
<1>. QED
  BY <1>1, <1>2

\* The parser keeps the types.
LEMMA ParserKeepsType ==
  ASSUME TypeInv, processByte
  PROVE  TypeInv'
<1>. USE DEF TypeInv
<1>1. UartInv' /\ EnvType'
  BY DEF processByte, UartInv, EnvType
<1>2. d \in Nat /\ d <= ByteMod - 1 /\ d \in Byte
  BY Numbers DEF UartInv
<1>3. CASE StartOfFrame
  <2>1. (time + XBEE_RECV_FRAME_TO) % TimeMod \in 0 .. TimeMod - 1
    BY TimeAssumption DEF EnvType
  <2>. QED
    BY <1>1, <1>3, <2>1, Numbers DEF StartOfFrame, ParserType
<1>4. CASE LengthByte
  <2>0. UNCHANGED <<rfBuf, rfFrameTimer, initialized, delivered>>
    BY <1>4 DEF LengthByte
  <2>1. CASE rfPos = 0
    <3>1. rfFrameLen = 0
      BY <1>4, <2>1 DEF ParserType, LengthByte
    <3>2. rfPos' = 1 /\ rfFrameLen' = d * ByteMod /\ rfState' = rfState
      <4>1. rfPos' = rfPos + 1 /\ rfState' = rfState
              /\ rfFrameLen' = rfFrameLen + d * ByteMod
        BY <1>4, <2>1 DEF LengthByte
      <4>. QED
        BY <1>2, <2>1, <3>1, <4>1, Numbers
    <3>3. d * ByteMod \in Nat /\ d * ByteMod <= (ByteMod - 1) * ByteMod
      BY <1>2, Numbers
    <3>4. (ByteMod - 1) * ByteMod <= ByteMod * ByteMod - 1
      BY Numbers
    <3>5. d * ByteMod \in 0 .. ByteMod * ByteMod - 1
      <4>. PICK x \in Nat, y \in Int, z \in Nat :
             /\ x = d * ByteMod /\ y = (ByteMod - 1) * ByteMod
             /\ z = ByteMod * ByteMod
        BY <3>3, Numbers
      <4>. QED
        BY <3>3, <3>4
    <3>. QED
      BY <1>1, <1>4, <2>0, <3>2, <3>3, <3>5 DEF LengthByte, ParserType
  <2>2. CASE rfPos = 1
    <3>1. /\ rfPos' = 0 /\ rfState' = "XBEE_DATA"
          /\ rfFrameLen' = Clamp(rfFrameLen + d)
      BY <1>4, <2>2 DEF LengthByte
    <3>2. rfFrameLen + d \in Nat
      BY <1>2 DEF ParserType
    <3>3. rfFrameLen' \in Nat /\ rfFrameLen' <= XBEE_BUF_SZ
      BY <3>1, <3>2, Numbers DEF Clamp
    <3>4. rfFrameLen' \in 0 .. ByteMod * ByteMod - 1
      BY <3>3, Numbers
    <3>. QED
      BY <1>1, <2>0, <3>1, <3>3, <3>4 DEF ParserType
  <2>. QED
    BY <1>4, <2>1, <2>2 DEF ParserType, LengthByte
<1>5. CASE DataByte
  <2>1. /\ rfPos \in Nat /\ rfPos <= rfFrameLen /\ rfFrameLen \in Nat
        /\ rfFrameLen <= XBEE_BUF_SZ /\ rfFrameLen' = rfFrameLen
        /\ rfPos' = rfPos + 1 /\ rfState = "XBEE_DATA"
    BY <1>5, Numbers DEF ParserType, DataByte
  <2>2. rfBuf' \in [BufCells -> Byte]
    BY <1>2, <1>5 DEF ParserType, DataByte
  <2>3. CASE LastByte
    <3>1. rfPos' \in 1 .. XBEE_BUF_SZ + 1
      BY <2>1, Numbers
    <3>2. /\ rfState' = "XBEE_FRAME" /\ rfFrameTimer' = 0
          /\ processFrame(rfBuf', rfPos')
      BY <1>5, <2>3 DEF DataByte
    <3>3. initialized' \in BOOLEAN /\ delivered' \in Seq(Seq(Byte))
      <4>. PICK b \in [BufCells -> Byte], n \in 1 .. XBEE_BUF_SZ + 1 :
             b = rfBuf' /\ n = rfPos'
        BY <2>2, <3>1
      <4>. QED
        BY <3>2, ProcessFrameType DEF ParserType
    <3>. QED
      BY <1>1, <2>1, <2>2, <3>2, <3>3, TimeAssumption DEF ParserType
  <2>4. CASE ~LastByte
    <3>1. rfPos + 1 <= rfFrameLen
      BY <2>1, <2>4 DEF LastByte
    <3>2. UNCHANGED <<rfState, rfFrameTimer, initialized, delivered>>
      BY <1>5, <2>4 DEF DataByte
    <3>. QED
      BY <1>1, <2>1, <2>2, <3>1, <3>2 DEF ParserType
  <2>. QED
    BY <2>3, <2>4
<1>. QED
  BY <1>3, <1>4, <1>5 DEF processByte

\* Every step keeps the types.
LEMMA NextType == TypeInv /\ [Next]_vars => TypeInv'
  BY EnvKeepsType, ParserKeepsType DEF Next

\* The types hold in every reachable state.
LEMMA TypeHolds == Spec => []TypeInv
  BY InitType, NextType, PTL DEF Spec

\* Type correctness: whatever the radio module sends and whatever gets lost,
\* the receiver writes only to rfBuf (and the cell behind it), and the length
\* of a frame, the indices of the queue and the timer stay in their ranges.
THEOREM TypeCorrect == Spec => []TypeOK
<1>1. Spec => []TypeInv
  BY TypeHolds
<1>. QED
  BY <1>1, TypeInvSuffices, PTL

-----------------------------------------------------------------------------
(* The bytes of the frames.                                                *)
(*                                                                         *)
(* The bytes the module sends are named by the number of their frame and   *)
(* their place in it, <<k, j>>.                                            *)

FrameLen(q, k) == Len(q[k]) + 4
IsByte(q, g) == /\ g \in Nat \X Nat
                /\ g[1] \in 1 .. Len(q) /\ g[2] \in 1 .. FrameLen(q, g[1])
ByteAt(q, g) == Encode(q[g[1]])[g[2]]
After(q, g) == IF g[2] < FrameLen(q, g[1]) THEN <<g[1], g[2] + 1>>
                                           ELSE <<g[1] + 1, 1>>

\* The cells that are in use when the indices are in and out
Queued(in, out) == {i \in Ring : CountOf(i, out) < CountOf(in, out)}

\* The queue holds the bytes from next on, one after the other, up to and
\* without end.
Carries(tag, q, buf, in, out, next, end) ==
  /\ \A i \in Queued(in, out) :
       /\ IsByte(q, tag[i]) /\ buf[i] = ByteAt(q, tag[i])
       /\ After(q, tag[i]) = IF Following(i) = in THEN end
                                                   ELSE tag[Following(i)]
  /\ next = IF in = out THEN end ELSE tag[out]

\* What names a byte names it still when another frame is sent.
LEMMA ByteStays ==
  ASSUME NEW q \in Seq(Payloads), NEW p \in Payloads, NEW g, IsByte(q, g)
  PROVE  /\ IsByte(Append(q, p), g) /\ ByteAt(Append(q, p), g) = ByteAt(q, g)
         /\ After(Append(q, p), g) = After(q, g)
<1>. PICK r : r = Append(q, p)
  OBVIOUS
<1>. PICK k : k = g[1]
  OBVIOUS
<1>1. k \in 1 .. Len(q) /\ Len(q) \in Nat
  BY DEF IsByte
<1>2. Len(r) = Len(q) + 1 /\ r[k] = q[k]
  BY <1>1, AppendProperties
<1>3. k \in 1 .. Len(r)
  BY <1>1, <1>2
<1>4. FrameLen(r, k) = FrameLen(q, k) /\ Encode(r[k]) = Encode(q[k])
  BY <1>2 DEF FrameLen
<1>5. IsByte(r, g)
  BY <1>3, <1>4 DEF IsByte
<1>6. ByteAt(r, g) = ByteAt(q, g)
  BY <1>4 DEF ByteAt
<1>7. After(r, g) = After(q, g)
  BY <1>4 DEF After
<1>. QED
  BY <1>5, <1>6, <1>7

\* The queue carries the same bytes when another frame is sent.
LEMMA CarriesStays ==
  ASSUME NEW q \in Seq(Payloads), NEW p \in Payloads, NEW tag, NEW buf,
         NEW in, NEW out, NEW next, NEW end,
         Carries(tag, q, buf, in, out, next, end)
  PROVE  Carries(tag, Append(q, p), buf, in, out, next, end)
<1>. PICK r : r = Append(q, p)
  OBVIOUS
<1>1. ASSUME NEW i \in Queued(in, out)
      PROVE  /\ IsByte(r, tag[i]) /\ buf[i] = ByteAt(r, tag[i])
             /\ After(r, tag[i]) = IF Following(i) = in THEN end
                                                         ELSE tag[Following(i)]
  <2>1. /\ IsByte(q, tag[i]) /\ buf[i] = ByteAt(q, tag[i])
        /\ After(q, tag[i]) = IF Following(i) = in THEN end
                                                    ELSE tag[Following(i)]
    BY DEF Carries
  <2>. QED
    BY <2>1, ByteStays, Zenon
<1>. QED
  BY <1>1, Zenon DEF Carries

\* The cells in use after a put that does not fill the ring, and after a get.
LEMMA QueuedAfterPut ==
  ASSUME NEW in \in Ring, NEW out \in Ring, Following(in) # out
  PROVE  /\ in \notin Queued(in, out)
         /\ Queued(Following(in), out) = Queued(in, out) \cup {in}
         /\ \A i \in Queued(in, out) : i # in /\ Following(i) # Following(in)
         /\ \A i \in Queued(in, out) : Following(i) # in
              => Following(i) \in Queued(in, out)
<1>1. in \notin Queued(in, out)
  BY RingCells DEF Queued, CountOf, Ring
<1>2. Queued(Following(in), out) = Queued(in, out) \cup {in}
  BY RingCells DEF Queued, CountOf, Ring, Following
<1>3. \A i \in Queued(in, out) : i # in /\ Following(i) # Following(in)
  BY <1>1, FollowingInjective DEF Queued
<1>4. \A i \in Queued(in, out) : Following(i) # in
        => Following(i) \in Queued(in, out)
  BY RingCells DEF Queued, CountOf, Ring, Following
<1>. QED
  BY <1>1, <1>2, <1>3, <1>4

\* What is put is carried last.
LEMMA PutCarries ==
  ASSUME NEW q, NEW tag \in [Ring -> Nat \X Nat], NEW buf \in [Cells -> Byte],
         NEW in \in Ring, NEW out \in Ring, NEW next, NEW end,
         Carries(tag, q, buf, in, out, next, end),
         IsByte(q, end), Following(in) # out
  PROVE  \E t \in [Ring -> Nat \X Nat] :
           Carries(t, q, [buf EXCEPT ![in] = ByteAt(q, end)], Following(in),
                   out, next, After(q, end))
<1>. DEFINE t == [tag EXCEPT ![in] = end]
            b == [buf EXCEPT ![in] = ByteAt(q, end)]
<1>1. t \in [Ring -> Nat \X Nat]
  BY DEF IsByte
<1>2. \A i \in Ring : t[i] = IF i = in THEN end ELSE tag[i]
  OBVIOUS
<1>3. \A i \in Ring : b[i] = IF i = in THEN ByteAt(q, end) ELSE buf[i]
  BY RingCells
<1> HIDE DEF t, b
<1>4. ASSUME NEW i \in Queued(Following(in), out)
      PROVE  /\ IsByte(q, t[i]) /\ b[i] = ByteAt(q, t[i])
             /\ After(q, t[i]) = IF Following(i) = Following(in)
                                 THEN After(q, end) ELSE t[Following(i)]
  <2>1. CASE i = in
    BY <1>2, <1>3, <2>1
  <2>2. CASE i # in
    <3>1. i \in Queued(in, out) /\ i \in Ring
      BY <2>2, QueuedAfterPut DEF Queued
    <3>2. t[i] = tag[i] /\ b[i] = buf[i] /\ Following(i) # Following(in)
      BY <1>2, <1>3, <2>2, <3>1, QueuedAfterPut
    <3>3. /\ IsByte(q, tag[i]) /\ buf[i] = ByteAt(q, tag[i])
          /\ After(q, tag[i]) = IF Following(i) = in THEN end
                                                      ELSE tag[Following(i)]
      BY <3>1 DEF Carries
    <3>4. Following(i) \in Ring
      BY <3>1, AdvanceValue
    <3>5. t[Following(i)] = IF Following(i) = in THEN end
                                                  ELSE tag[Following(i)]
      BY <1>2, <3>4
    <3>. QED
      BY <3>2, <3>3, <3>5
  <2>. QED
    BY <2>1, <2>2
<1>5. next = IF Following(in) = out THEN After(q, end) ELSE t[out]
  BY <1>2 DEF Carries
<1>6. Carries(t, q, b, Following(in), out, next, After(q, end))
  BY <1>4, <1>5, Zenon DEF Carries
<1>. QED
  BY <1>1, <1>6 DEF b

\* What is taken out is the next byte, and the byte after it is next.
LEMMA GetCarries ==
  ASSUME NEW q, NEW tag, NEW buf, NEW in \in Ring, NEW out \in Ring,
         NEW next, NEW end, Carries(tag, q, buf, in, out, next, end), in # out
  PROVE  /\ IsByte(q, next) /\ buf[out] = ByteAt(q, next)
         /\ Carries(tag, q, buf, in, Following(out), After(q, next), end)
<1>1. out \in Queued(in, out)
  BY RingCells DEF Queued, CountOf, Ring
<1>2. next = tag[out]
  BY DEF Carries
<1>3. /\ IsByte(q, tag[out]) /\ buf[out] = ByteAt(q, tag[out])
      /\ After(q, tag[out]) = IF Following(out) = in THEN end
                                                      ELSE tag[Following(out)]
  BY <1>1 DEF Carries
<1>4. Queued(in, Following(out)) \subseteq Queued(in, out)
  BY RingCells DEF Queued, CountOf, Ring, Following
<1>5. Carries(tag, q, buf, in, Following(out), After(q, next), end)
  <2>1. ASSUME NEW i \in Queued(in, Following(out))
        PROVE  /\ IsByte(q, tag[i]) /\ buf[i] = ByteAt(q, tag[i])
               /\ After(q, tag[i]) = IF Following(i) = in THEN end
                                                     ELSE tag[Following(i)]
    BY <1>4 DEF Carries
  <2>2. After(q, next) = IF in = Following(out) THEN end
                                                ELSE tag[Following(out)]
    BY <1>2, <1>3
  <2>. QED
    BY <2>1, <2>2, Zenon DEF Carries
<1>. QED
  BY <1>2, <1>3, <1>5

-----------------------------------------------------------------------------
(* From the line to the handlers.                                          *)

\* No byte was lost and no frame given up.
Good == ~overrun /\ ~expired

\* The module sends its last frame byte by byte.
LineInv ==
  line # <<>> =>
    /\ Len(sent) > 0 /\ Len(line) <= FrameLen(sent, Len(sent))
    /\ \A i \in 1 .. Len(line) :
         line[i] = Encode(sent[Len(sent)])
                         [FrameLen(sent, Len(sent)) - Len(line) + i]

\* The byte the module sends next
LineByte == IF line = <<>> THEN <<Len(sent) + 1, 1>>
            ELSE <<Len(sent), FrameLen(sent, Len(sent)) - Len(line) + 1>>

\* The byte the parser waits for
Place == CASE rfState = "XBEE_FRAME" -> 1
           [] rfState = "XBEE_LENGTH" -> rfPos + 2
           [] OTHER -> rfPos + 4
Expected == <<Len(delivered) + 1, Place>>

\* The frames before the one the parser works on were passed on as sent.
DeliveredInv ==
  /\ Len(delivered) <= Len(sent)
  /\ \A i \in 1 .. Len(delivered) : delivered[i] = sent[i]
  /\ rfState # "XBEE_FRAME" => Len(delivered) < Len(sent)

\* What the parser knows of frame p
ParserKnows(p) ==
  /\ rfState = "XBEE_LENGTH" =>
       \/ rfPos = 0 /\ rfFrameLen = 0
       \/ rfPos = 1 /\ rfFrameLen = (Len(p) \div ByteMod) * ByteMod
  /\ rfState = "XBEE_DATA" =>
       /\ rfFrameLen = Len(p) /\ rfPos <= Len(p)
       /\ \A i \in 1 .. rfPos : rfBuf[i - 1] = p[i]

\* The byte that xbee_task has in hand
HandInv ==
  /\ rpc = "done" => IsByte(sent, Expected) /\ d = ByteAt(sent, Expected)
  /\ rpc = "advance" => rxqIn # rxqOut /\ d = rxq[rxqOut]
  /\ rpc = "get" => rxqIn # rxqOut

\* The byte that xbee_task takes out of the queue next
NextByte == IF rpc = "done" THEN After(sent, Expected) ELSE Expected

QueueInv == \E tag \in [Ring -> Nat \X Nat] :
              Carries(tag, sent, rxq, rxqIn, rxqOut, NextByte, LineByte)

FlowInv == /\ DeliveredInv /\ ParserKnows(sent[Len(delivered) + 1])
           /\ HandInv /\ QueueInv

FrameInv == TypeInv /\ LineInv /\ (Good => FlowInv)

\* FrameInv says that the frames are intact.
LEMMA FrameInvSuffices == FrameInv => FramesIntact
<1>. SUFFICES ASSUME FrameInv, Good PROVE IsPrefix(delivered, sent)
  BY DEF FramesIntact, Good
<1>1. delivered \in Seq(Seq(Byte)) /\ sent \in Seq(Payloads)
  BY DEF FrameInv, TypeInv, ParserType, EnvType
<1>2. /\ Len(delivered) <= Len(sent)
      /\ \A i \in 1 .. Len(delivered) : delivered[i] = sent[i]
  BY DEF FrameInv, FlowInv, DeliveredInv
<1>. PICK n \in Nat : n = Len(delivered)
  BY <1>1
<1>3. SubSeq(delivered, 1, n) = [i \in 1 .. n |-> delivered[i]]
  BY <1>1
<1>4. SubSeq(sent, 1, n) = [i \in 1 .. n |-> sent[i]]
  BY <1>1
<1>5. SubSeq(delivered, 1, n) = SubSeq(sent, 1, n)
  BY <1>2, <1>3, <1>4
<1>. QED
  BY <1>2, <1>5 DEF IsPrefix

\* FrameInv holds at the start.
LEMMA InitFrame == Init => FrameInv
<1>. SUFFICES ASSUME Init PROVE FrameInv
  OBVIOUS
<1>1. TypeInv
  BY InitType
<1>2. /\ line = <<>> /\ sent = <<>> /\ delivered = <<>> /\ rpc = "idle"
      /\ rfState = "XBEE_FRAME" /\ rxqIn = 0 /\ rxqOut = 0
  BY DEF Init, UartInit
<1>3. Len(sent) = 0 /\ Len(delivered) = 0
  BY <1>2
<1>4. LineInv
  BY <1>2 DEF LineInv
<1>5. DeliveredInv /\ ParserKnows(sent[Len(delivered) + 1]) /\ HandInv
  BY <1>2, <1>3 DEF DeliveredInv, ParserKnows, HandInv
<1>6. NextByte = LineByte
  BY <1>2, <1>3 DEF NextByte, LineByte, Expected, Place
<1>7. QueueInv
  <2>1. [i \in Ring |-> <<0, 0>>] \in [Ring -> Nat \X Nat]
    OBVIOUS
  <2>2. Queued(0, 0) = {}
    BY RingCells DEF Queued, CountOf, Ring
  <2>3. Carries([i \in Ring |-> <<0, 0>>], sent, rxq, rxqIn, rxqOut, NextByte,
                LineByte)
    BY <1>2, <1>6, <2>2 DEF Carries
  <2>. QED
    BY <2>1, <2>3 DEF QueueInv
<1>. QED
  BY <1>1, <1>4, <1>5, <1>7 DEF FrameInv, FlowInv

\* A frame that the module begins to send is the one after the last.
LEMMA SendKeepsFrames ==
  ASSUME FrameInv, TypeInv', NEW p \in Payloads, SendFrame(p)
  PROVE  FrameInv'
<1>. PICK q \in Seq(Payloads) : q = sent
  BY DEF FrameInv, TypeInv, EnvType
<1>. PICK r : r = Append(q, p)
  OBVIOUS
<1>. PICK n \in Nat : n = Len(q)
  OBVIOUS
<1>1. /\ sent' = r /\ line = <<>> /\ line' = Encode(p)
      /\ UNCHANGED <<uartVars, rxVars, expired>>
  BY DEF SendFrame
<1>2. r \in Seq(Payloads) /\ Len(r) = n + 1 /\ r[n + 1] = p
        /\ \A i \in 1 .. n : r[i] = q[i]
  BY AppendProperties
<1>3. Len(line') = Len(p) + 4 /\ Len(p) \in Nat
  BY <1>1, EncodeValue
<1>4. FrameLen(r, n + 1) = Len(p) + 4
  BY <1>2 DEF FrameLen
<1>5. LineInv'
  <2>1. ASSUME NEW i \in 1 .. Len(p) + 4
        PROVE  line'[i] = Encode(r[n + 1])
                                [FrameLen(r, n + 1) - (Len(p) + 4) + i]
    <3>1. FrameLen(r, n + 1) - (Len(p) + 4) + i = i
      BY <1>3, <1>4
    <3>. QED
      BY <1>1, <1>2, <3>1
  <2>2. n + 1 > 0 /\ Len(p) + 4 <= FrameLen(r, n + 1)
    BY <1>3, <1>4
  <2>. QED
    BY <1>1, <1>2, <1>3, <2>1, <2>2 DEF LineInv
<1>6. LineByte' = LineByte
  <2>1. LineByte = <<n + 1, 1>>
    BY <1>1 DEF LineByte
  <2>2. line' # <<>>
    BY <1>3
  <2>3. LineByte' = <<n + 1, FrameLen(r, n + 1) - (Len(p) + 4) + 1>>
    BY <1>1, <1>2, <1>3, <2>2 DEF LineByte
  <2>. QED
    BY <1>3, <1>4, <2>1, <2>3
<1>7. ASSUME Good' PROVE FlowInv'
  <2>1. Good /\ FlowInv
    BY <1>1, <1>7 DEF FrameInv, Good, uartVars
  <2>2. /\ delivered' = delivered /\ rfState' = rfState /\ rfPos' = rfPos
        /\ rfFrameLen' = rfFrameLen /\ rfBuf' = rfBuf /\ rpc' = rpc /\ d' = d
        /\ rxq' = rxq /\ rxqIn' = rxqIn /\ rxqOut' = rxqOut
    BY <1>1 DEF uartVars, rxVars
  <2>3. Expected' = Expected
    BY <2>2 DEF Expected, Place
  <2>4. DeliveredInv'
    <3>1. Len(delivered) \in Nat
      BY DEF FrameInv, TypeInv, ParserType
    <3>. QED
      BY <1>1, <1>2, <2>1, <2>2, <3>1 DEF FlowInv, DeliveredInv
  <2>5. ParserKnows(sent[Len(delivered) + 1])'
    <3>1. CASE rfState = "XBEE_FRAME"
      BY <2>2, <3>1 DEF ParserKnows
    <3>2. CASE rfState # "XBEE_FRAME"
      <4>1. Len(delivered) + 1 \in 1 .. n
        BY <2>1, <3>2 DEF FlowInv, DeliveredInv, FrameInv, TypeInv, ParserType
      <4>2. sent'[Len(delivered) + 1] = sent[Len(delivered) + 1]
        BY <1>1, <1>2, <4>1
      <4>. QED
        BY <2>1, <2>2, <4>2 DEF FlowInv, ParserKnows
    <3>. QED
      BY <3>1, <3>2
  <2>6. rpc = "done" => /\ IsByte(r, Expected)
                        /\ ByteAt(r, Expected) = ByteAt(q, Expected)
                        /\ After(r, Expected) = After(q, Expected)
    <3>1. rpc = "done" => IsByte(q, Expected)
      BY <2>1 DEF FlowInv, HandInv
    <3>. PICK g : g = Expected
      OBVIOUS
    <3>. QED
      BY <3>1, ByteStays
  <2>7. HandInv'
    BY <1>1, <2>1, <2>2, <2>3, <2>6 DEF FlowInv, HandInv
  <2>8. NextByte' = NextByte
    BY <1>1, <2>2, <2>3, <2>6 DEF NextByte
  <2>9. QueueInv'
    <3>1. PICK tag \in [Ring -> Nat \X Nat] :
            Carries(tag, sent, rxq, rxqIn, rxqOut, NextByte, LineByte)
      BY <2>1 DEF FlowInv, QueueInv
    <3>2. Carries(tag, r, rxq, rxqIn, rxqOut, NextByte, LineByte)
      BY <3>1, CarriesStays
    <3>3. Carries(tag, sent', rxq', rxqIn', rxqOut', NextByte', LineByte')
      BY <1>1, <1>6, <2>2, <2>8, <3>2
    <3>. QED
      BY <3>3 DEF QueueInv
  <2>. QED
    BY <2>4, <2>5, <2>7, <2>9 DEF FlowInv
<1>. QED
  BY <1>5, <1>7 DEF FrameInv

\* The byte on the line is the one that the module sends next.
LEMMA LineHead ==
  ASSUME LineInv, line \in Seq(Byte), sent \in Seq(Payloads), line # <<>>
  PROVE  /\ IsByte(sent, LineByte) /\ Head(line) = ByteAt(sent, LineByte)
         /\ \A n \in Nat, m \in Nat : n = Len(sent) /\ m = Len(line)
              => After(sent, LineByte)
                   = IF m = 1 THEN <<n + 1, 1>>
                     ELSE <<n, FrameLen(sent, n) - (m - 1) + 1>>
<1>. PICK n \in Nat : n = Len(sent)
  OBVIOUS
<1>. PICK m \in Nat : m = Len(line)
  OBVIOUS
<1>1. n > 0 /\ m > 0 /\ n \in 1 .. n
  BY DEF LineInv
<1>2. sent[n] \in Payloads
  BY <1>1
<1>3. PICK f \in Nat : f = FrameLen(sent, n)
  BY <1>2, EncodeValue DEF FrameLen
<1>4. m <= f
  BY <1>3 DEF LineInv
<1>5. LineByte = <<n, f - m + 1>>
  BY <1>3 DEF LineByte
<1>6. f - m + 1 \in 1 .. f /\ f - m + 1 \in Nat
  BY <1>1, <1>4
<1>7. IsByte(sent, LineByte)
  BY <1>1, <1>3, <1>5, <1>6 DEF IsByte
<1>8. Head(line) = line[1]
  BY HeadTailProperties
<1>9. line[1] = Encode(sent[n])[f - m + 1]
  BY <1>1, <1>3 DEF LineInv
<1>10. Head(line) = ByteAt(sent, LineByte)
  BY <1>5, <1>8, <1>9 DEF ByteAt
<1>11. After(sent, LineByte) = IF m = 1 THEN <<n + 1, 1>>
                               ELSE <<n, FrameLen(sent, n) - (m - 1) + 1>>
  <2>1. LineByte[1] = n /\ LineByte[2] = f - m + 1
    BY <1>5
  <2>2. CASE m = 1
    <3>1. ~(f - m + 1 < f)
      BY <2>2
    <3>. QED
      BY <1>3, <2>1, <2>2, <3>1 DEF After
  <2>3. CASE m # 1
    <3>1. f - m + 1 < f /\ f - m + 1 + 1 = f - (m - 1) + 1
      BY <1>1, <2>3
    <3>. QED
      BY <1>3, <2>1, <2>3, <3>1 DEF After
  <2>. QED
    BY <2>2, <2>3
<1>. QED
  BY <1>7, <1>10, <1>11

\* The interrupt handler puts the next byte behind those in the queue.
LEMMA PutKeepsFrames ==
  ASSUME FrameInv, TypeInv', UART1_IRQHandler
  PROVE  FrameInv'
<1>. PICK n \in Nat : n = Len(sent)
  BY DEF FrameInv, TypeInv, EnvType
<1>. PICK m \in Nat : m = Len(line)
  BY DEF FrameInv, TypeInv, EnvType
<1>1. /\ line # <<>> /\ line' = Tail(line) /\ rxq_put(Head(line))
      /\ UNCHANGED <<rxVars, sent, expired>>
  BY DEF UART1_IRQHandler
<1>2. /\ line \in Seq(Byte) /\ sent \in Seq(Payloads)
      /\ rxqIn \in Ring /\ rxqOut \in Ring /\ rxq \in [Cells -> Byte]
  BY DEF FrameInv, TypeInv, EnvType, UartInv
<1>3. /\ m > 0 /\ Len(line') = m - 1 /\ line' \in Seq(Byte)
      /\ \A i \in 1 .. m - 1 : line'[i] = line[i + 1]
  BY <1>1, <1>2, HeadTailProperties
<1>4. /\ IsByte(sent, LineByte) /\ Head(line) = ByteAt(sent, LineByte)
      /\ After(sent, LineByte) = IF m = 1 THEN <<n + 1, 1>>
                                 ELSE <<n, FrameLen(sent, n) - (m - 1) + 1>>
  BY <1>1, <1>2, LineHead DEF FrameInv
<1>5. line' = <<>> <=> m = 1
  BY <1>3, EmptySeq
<1>6. LineByte' = After(sent, LineByte)
  BY <1>1, <1>3, <1>4, <1>5 DEF LineByte
<1>7. LineInv'
  <2>. SUFFICES ASSUME line' # <<>> PROVE LineInv'
    BY DEF LineInv
  <2>1. /\ n > 0 /\ m <= FrameLen(sent, n)
        /\ \A i \in 1 .. m :
             line[i] = Encode(sent[n])[FrameLen(sent, n) - m + i]
    BY <1>1 DEF FrameInv, LineInv
  <2>2. PICK f \in Nat : f = FrameLen(sent, n)
    <3>1. sent[n] \in Payloads
      BY <1>2, <2>1
    <3>. QED
      BY <3>1, EncodeValue DEF FrameLen
  <2>3. ASSUME NEW i \in 1 .. m - 1
        PROVE  line'[i] = Encode(sent[n])[f - (m - 1) + i]
    <3>1. i + 1 \in 1 .. m /\ f - m + (i + 1) = f - (m - 1) + i
      BY <1>3
    <3>2. line[i + 1] = Encode(sent[n])[f - m + (i + 1)]
      BY <2>1, <2>2, <3>1
    <3>. QED
      BY <1>3, <3>1, <3>2
  <2>4. m - 1 <= f
    BY <1>3, <2>1, <2>2
  <2>. QED
    BY <1>1, <1>3, <2>1, <2>2, <2>3, <2>4 DEF LineInv
<1>8. ASSUME Good' PROVE FlowInv'
  <2>1. ~RxqFull /\ ~overrun /\ ~expired /\ rxqIn' # rxqOut
    BY <1>1, <1>8 DEF Good, rxq_put
  <2>2. /\ rxq' = [rxq EXCEPT ![rxqIn] = Head(line)]
        /\ rxqIn' = Following(rxqIn) /\ UNCHANGED <<rxqOut, rpc, d>>
    BY <1>1, <1>2, <2>1, AdvanceValue DEF rxq_put
  <2>3. FlowInv
    BY <2>1 DEF FrameInv, Good
  <2>4. /\ UNCHANGED <<delivered, rfState, rfPos, rfFrameLen, rfBuf, sent>>
        /\ Expected' = Expected
    BY <1>1 DEF rxVars, Expected, Place
  <2>5. DeliveredInv' /\ ParserKnows(sent[Len(delivered) + 1])'
    BY <2>3, <2>4 DEF FlowInv, DeliveredInv, ParserKnows
  <2>6. HandInv'
    <3>1. rxqIn # rxqOut => rxq'[rxqOut] = rxq[rxqOut]
      BY <1>2, <2>2, RingCells
    <3>. QED
      BY <2>1, <2>2, <2>3, <2>4, <3>1 DEF FlowInv, HandInv
  <2>7. NextByte' = NextByte
    BY <2>2, <2>4 DEF NextByte
  <2>8. QueueInv'
    <3>1. PICK tag \in [Ring -> Nat \X Nat] :
            Carries(tag, sent, rxq, rxqIn, rxqOut, NextByte, LineByte)
      BY <2>3 DEF FlowInv, QueueInv
    <3>2. Following(rxqIn) # rxqOut
      BY <2>1, <2>2
    <3>3. PICK t \in [Ring -> Nat \X Nat] :
            Carries(t, sent, [rxq EXCEPT ![rxqIn] = ByteAt(sent, LineByte)],
                    Following(rxqIn), rxqOut, NextByte, After(sent, LineByte))
      BY <1>2, <1>4, <3>1, <3>2, PutCarries
    <3>4. Carries(t, sent', rxq', rxqIn', rxqOut', NextByte', LineByte')
      BY <1>4, <1>6, <2>2, <2>4, <2>7, <3>3
    <3>. QED
      BY <3>4 DEF QueueInv
  <2>. QED
    BY <2>5, <2>6, <2>8 DEF FlowInv
<1>. QED
  BY <1>7, <1>8 DEF FrameInv

\* xbee_task takes the next byte out of the queue.
LEMMA FetchKeepsFrames ==
  ASSUME FrameInv, TypeInv', xbee_task \/ FetchByte
  PROVE  FrameInv'
<1>1. UNCHANGED <<rxq, rxqIn, overrun, line, sent, delivered, rfPos,
                  rfFrameLen, rfBuf>>
  BY DEF xbee_task, FetchByte, Receive, rxq_get, rxq_getAdvance, uartVars,
         rxVars
<1>2. LineInv' /\ LineByte' = LineByte
  BY <1>1 DEF FrameInv, LineInv, LineByte
<1>3. rxqIn \in Ring /\ rxqOut \in Ring
  BY DEF FrameInv, TypeInv, UartInv
<1>4. ASSUME Good' PROVE FlowInv'
  <2>1. Good /\ UNCHANGED rfState
    BY <1>1, <1>4 DEF xbee_task, FetchByte, Good, rxVars, FrameInv, TypeInv,
                      EnvType
  <2>2. FlowInv
    BY <2>1 DEF FrameInv
  <2>3. /\ DeliveredInv' /\ ParserKnows(sent[Len(delivered) + 1])'
        /\ Expected' = Expected
    BY <1>1, <2>1, <2>2 DEF FlowInv, DeliveredInv, ParserKnows, Expected, Place
  <2>4. PICK tag \in [Ring -> Nat \X Nat] :
          Carries(tag, sent, rxq, rxqIn, rxqOut, NextByte, LineByte)
    BY <2>2 DEF FlowInv, QueueInv
  <2>5. CASE xbee_task \/ rxq_get
    <3>1. rxqOut' = rxqOut
      BY <2>5 DEF xbee_task, Receive, rxq_get, uartVars
    <3>2. HandInv' /\ NextByte' = NextByte
      <4>1. CASE xbee_task /\ Receive
        BY <1>1, <3>1, <4>1, <2>3
           DEF Receive, HandInv, NextByte, rxq_isEmpty
      <4>2. CASE UNCHANGED uartVars
        BY <1>1, <2>2, <2>3, <4>2 DEF uartVars, FlowInv, HandInv, NextByte
      <4>3. CASE rxq_get
        <5>1. rxqIn # rxqOut
          BY <2>2, <4>3 DEF FlowInv, HandInv, rxq_get
        <5>2. d' = rxq[rxqOut] /\ rpc = "get" /\ rpc' = "advance"
          BY <4>3, <5>1 DEF rxq_get, rxq_isEmpty
        <5>. QED
          BY <1>1, <2>3, <3>1, <5>1, <5>2 DEF HandInv, NextByte
      <4>. QED
        BY <2>5, <4>1, <4>2, <4>3 DEF xbee_task
    <3>3. Carries(tag, sent', rxq', rxqIn', rxqOut', NextByte', LineByte')
      BY <1>1, <1>2, <2>4, <3>1, <3>2
    <3>4. QueueInv'
      BY <3>3 DEF QueueInv
    <3>. QED
      BY <2>3, <3>2, <3>4 DEF FlowInv
  <2>6. CASE rxq_getAdvance
    <3>1. /\ rpc = "advance" /\ rpc' = "done" /\ d' = d
          /\ rxqOut' = Following(rxqOut)
      BY <1>3, <2>6, AdvanceValue DEF rxq_getAdvance
    <3>2. rxqIn # rxqOut /\ d = rxq[rxqOut] /\ NextByte = Expected
      BY <2>2, <3>1 DEF FlowInv, HandInv, NextByte
    <3>3. /\ IsByte(sent, Expected) /\ rxq[rxqOut] = ByteAt(sent, Expected)
          /\ Carries(tag, sent, rxq, rxqIn, Following(rxqOut),
                     After(sent, Expected), LineByte)
      BY <1>3, <2>4, <3>2, GetCarries
    <3>4. NextByte' = After(sent, Expected)
      BY <1>1, <2>3, <3>1 DEF NextByte
    <3>5. HandInv'
      BY <1>1, <2>3, <3>1, <3>2, <3>3 DEF HandInv
    <3>6. Carries(tag, sent', rxq', rxqIn', rxqOut', NextByte', LineByte')
      BY <1>1, <1>2, <3>1, <3>3, <3>4
    <3>7. QueueInv'
      BY <3>6 DEF QueueInv
    <3>. QED
      BY <2>3, <3>5, <3>7 DEF FlowInv
  <2>. QED
    BY <2>5, <2>6 DEF FetchByte
<1>. QED
  BY <1>2, <1>4 DEF FrameInv

\* The buffer of a complete frame holds its data and a checksum that fits.
LEMMA CompleteFrame ==
  ASSUME NEW p \in Payloads, NEW b \in [BufCells -> Byte],
         \A i \in 1 .. Len(p) : b[i - 1] = p[i], b[Len(p)] = checksum(p)
  PROVE  /\ Prefix(b, Len(p)) = p
         /\ checksum(Prefix(b, Len(p) + 1)) = 0
<1>1. p \in Seq(Byte) /\ Len(p) \in 1 .. XBEE_BUF_SZ
  BY EncodeValue
<1>. PICK n \in Nat : n = Len(p)
  BY <1>1
<1>2. n \in 0 .. XBEE_BUF_SZ + 1 /\ n + 1 \in 0 .. XBEE_BUF_SZ + 1
  BY <1>1, Numbers
<1>3. Prefix(b, n) = p
  <2>. PICK s : s = Prefix(b, n)
    OBVIOUS
  <2>1. s \in Seq(Byte) /\ Len(s) = n /\ \A i \in 1 .. n : s[i] = b[i - 1]
    BY <1>2, PrefixTyped
  <2>. QED
    BY <1>1, <2>1, SeqEqual
<1>4. Prefix(b, n + 1) = p \o <<checksum(p)>>
  <2>. PICK s : s = Prefix(b, n + 1)
    OBVIOUS
  <2>. PICK c : c = checksum(p)
    OBVIOUS
  <2>. PICK t : t = p \o <<c>>
    OBVIOUS
  <2>1. /\ s \in Seq(Byte) /\ Len(s) = n + 1
        /\ \A i \in 1 .. n + 1 : s[i] = b[i - 1]
    BY <1>2, PrefixTyped
  <2>2. c \in Byte
    BY <1>1, ChecksumValue
  <2>3. /\ t \in Seq(Byte) /\ Len(t) = n + 1 /\ t[n + 1] = c
        /\ \A i \in 1 .. n : t[i] = p[i]
    BY <1>1, <2>2, AppendIsConcat, AppendProperties
  <2>4. ASSUME NEW i \in 1 .. n + 1 PROVE s[i] = t[i]
    <3>1. CASE i \in 1 .. n
      BY <2>1, <2>3, <3>1
    <3>2. CASE i = n + 1
      <4>1. i - 1 = n
        BY <3>2
      <4>. QED
        BY <2>1, <2>3, <3>2, <4>1
    <3>. QED
      BY <3>1, <3>2
  <2>. QED
    BY <2>1, <2>3, <2>4, SeqEqual
<1>. QED
  BY <1>1, <1>3, <1>4, ChecksumValue

\* The parser takes the byte it expects and expects the one after it.
LEMMA ParserFollows ==
  ASSUME TypeInv, FlowInv, processByte
  PROVE  /\ DeliveredInv' /\ ParserKnows(sent[Len(delivered) + 1])'
         /\ Expected' = After(sent, Expected)
<1>1. /\ delivered \in Seq(Seq(Byte)) /\ sent \in Seq(Payloads)
      /\ rfPos \in Nat /\ rfBuf \in [BufCells -> Byte]
      /\ sent' = sent /\ d \in Byte
      /\ rfState \in {"XBEE_FRAME", "XBEE_LENGTH", "XBEE_DATA"}
  BY DEF TypeInv, ParserType, EnvType, UartInv, processByte
<1>. PICK m \in Nat : m = Len(delivered)
  BY <1>1
<1>. PICK j : j = Place
  OBVIOUS
<1>2. IsByte(sent, <<m + 1, j>>) /\ d = ByteAt(sent, <<m + 1, j>>)
  BY DEF FlowInv, HandInv, processByte, Expected
<1>3. m + 1 \in 1 .. Len(sent) /\ j \in 1 .. FrameLen(sent, m + 1)
  BY <1>2 DEF IsByte
<1>4. PICK p \in Payloads : p = sent[m + 1]
  BY <1>1, <1>3
<1>5. PICK n \in Nat : /\ n = Len(p) /\ n >= 1 /\ n <= XBEE_BUF_SZ
                       /\ FrameLen(sent, m + 1) = n + 4
  BY <1>4, EncodeValue DEF FrameLen
<1>6. d = Encode(p)[j] /\ j \in Nat /\ j <= n + 4
  BY <1>2, <1>3, <1>4, <1>5 DEF ByteAt
<1>7. After(sent, Expected) = IF j < n + 4 THEN <<m + 1, j + 1>>
                                           ELSE <<m + 2, 1>>
  BY <1>5 DEF Expected, After
<1>8. /\ m < Len(sent) /\ \A i \in 1 .. m : delivered[i] = sent[i]
      /\ ParserKnows(p)
  BY <1>1, <1>3, <1>4 DEF FlowInv, DeliveredInv
<1>9. ASSUME delivered' = delivered PROVE DeliveredInv'
  BY <1>1, <1>8, <1>9 DEF DeliveredInv
<1>10. ASSUME delivered' = delivered, Place' = j + 1, j < n + 4
       PROVE  Expected' = After(sent, Expected)
  BY <1>7, <1>10 DEF Expected
<1>11. CASE StartOfFrame
  <2>1. j = 1 /\ rfState = "XBEE_FRAME"
    BY <1>11 DEF Place, StartOfFrame
  <2>2. d = XBEE_START_DEL
    BY <1>6, <2>1, EncodeValue
  <2>3. /\ rfPos' = 0 /\ rfFrameLen' = 0 /\ rfState' = "XBEE_LENGTH"
        /\ delivered' = delivered
    BY <1>11, <2>2 DEF StartOfFrame
  <2>4. Place' = j + 1 /\ j < n + 4
    BY <1>5, <2>1, <2>3 DEF Place
  <2>5. ParserKnows(sent[Len(delivered) + 1])'
    BY <2>3 DEF ParserKnows
  <2>. QED
    BY <1>9, <1>10, <2>3, <2>4, <2>5
<1>12. CASE LengthByte
  <2>1. rfState = "XBEE_LENGTH" /\ j = rfPos + 2 /\ delivered' = delivered
    BY <1>12 DEF Place, LengthByte
  <2>2. CASE rfPos = 0
    <3>1. d = n \div ByteMod /\ rfFrameLen = 0
      BY <1>5, <1>6, <1>8, <2>1, <2>2, EncodeValue DEF ParserKnows
    <3>2. /\ rfPos' = 1 /\ rfState' = "XBEE_LENGTH"
          /\ rfFrameLen' = 0 + d * ByteMod
      BY <1>12, <2>1, <2>2, <3>1 DEF LengthByte
    <3>3. d * ByteMod \in Nat
      BY <1>1, Numbers
    <3>4. rfFrameLen' = (n \div ByteMod) * ByteMod
      BY <3>1, <3>2, <3>3
    <3>5. Place' = j + 1 /\ j < n + 4
      BY <1>5, <2>1, <2>2, <3>2 DEF Place
    <3>6. ParserKnows(p)'
      BY <1>5, <3>2, <3>4 DEF ParserKnows
    <3>. QED
      BY <1>1, <1>4, <1>9, <1>10, <2>1, <3>5, <3>6
  <2>3. CASE rfPos = 1
    <3>1. /\ d = n % ByteMod /\ rfFrameLen = (n \div ByteMod) * ByteMod
          /\ n = (n \div ByteMod) * ByteMod + (n % ByteMod)
      BY <1>5, <1>6, <1>8, <2>1, <2>3, EncodeValue DEF ParserKnows
    <3>2. /\ rfPos' = 0 /\ rfState' = "XBEE_DATA"
          /\ rfFrameLen' = Clamp(rfFrameLen + d)
      BY <1>12, <2>3 DEF LengthByte
    <3>3. rfFrameLen' = n
      <4>1. rfFrameLen + d = n
        BY <3>1
      <4>. QED
        BY <1>5, <3>2, <4>1, Numbers DEF Clamp
    <3>4. Place' = j + 1 /\ j < n + 4
      BY <1>5, <2>1, <2>3, <3>2 DEF Place
    <3>5. ParserKnows(p)'
      BY <1>5, <3>2, <3>3 DEF ParserKnows
    <3>. QED
      BY <1>1, <1>4, <1>9, <1>10, <2>1, <3>4, <3>5
  <2>. QED
    BY <1>8, <2>1, <2>2, <2>3 DEF ParserKnows
<1>13. CASE DataByte
  <2>1. /\ rfState = "XBEE_DATA" /\ j = rfPos + 4 /\ rfFrameLen = n
        /\ rfPos <= n /\ \A i \in 1 .. rfPos : rfBuf[i - 1] = p[i]
    BY <1>5, <1>8, <1>13 DEF Place, DataByte, ParserKnows
  <2>2. /\ rfBuf' = [rfBuf EXCEPT ![rfPos] = d] /\ rfPos' = rfPos + 1
        /\ rfFrameLen' = n
    BY <1>13, <2>1 DEF DataByte
  <2>3. /\ rfBuf' \in [BufCells -> Byte] /\ rfBuf'[rfPos] = d
        /\ \A i \in 1 .. rfPos : rfBuf'[i - 1] = p[i]
    <3>1. rfPos \in BufCells /\ \A i \in 1 .. rfPos : i - 1 \in BufCells
      BY <1>1, <1>5, <2>1, Numbers DEF BufCells
    <3>. PICK b : b = rfBuf'
      OBVIOUS
    <3>2. b \in [BufCells -> Byte] /\ b[rfPos] = d
      BY <1>1, <2>2, <3>1
    <3>3. ASSUME NEW i \in 1 .. rfPos PROVE b[i - 1] = p[i]
      <4>1. i - 1 # rfPos /\ i - 1 \in BufCells
        BY <1>1, <3>1
      <4>2. b[i - 1] = rfBuf[i - 1]
        BY <1>1, <2>2, <4>1
      <4>. QED
        BY <2>1, <4>2
    <3>. QED
      BY <3>2, <3>3
  <2>4. CASE rfPos < n
    <3>1. ~LastByte
      BY <1>1, <2>1, <2>4 DEF LastByte
    <3>2. rfState' = "XBEE_DATA" /\ delivered' = delivered
      BY <1>13, <2>1, <3>1 DEF DataByte
    <3>3. Place' = j + 1 /\ j < n + 4
      BY <1>1, <2>1, <2>2, <2>4, <3>2 DEF Place
    <3>4. d = p[rfPos + 1]
      <4>1. rfPos + 1 \in 1 .. Len(p) /\ (rfPos + 1) + 3 = j
        BY <1>1, <1>5, <2>1, <2>4
      <4>. PICK k \in 1 .. Len(p) : k = rfPos + 1
        BY <4>1
      <4>2. Encode(p)[k + 3] = p[k]
        BY EncodeValue
      <4>. QED
        BY <1>6, <4>1, <4>2
    <3>5. ASSUME NEW i \in 1 .. rfPos + 1 PROVE rfBuf'[i - 1] = p[i]
      <4>1. CASE i \in 1 .. rfPos
        BY <2>3, <4>1
      <4>2. CASE i = rfPos + 1
        <5>1. i - 1 = rfPos
          BY <1>1, <4>2
        <5>. QED
          BY <2>3, <3>4, <4>2, <5>1
      <4>. QED
        BY <1>1, <4>1, <4>2
    <3>6. ParserKnows(p)'
      <4>1. rfPos + 1 <= n
        BY <1>1, <2>4
      <4>. QED
        BY <1>5, <2>2, <3>2, <3>5, <4>1 DEF ParserKnows
    <3>. QED
      BY <1>1, <1>4, <1>9, <1>10, <3>2, <3>3, <3>6
  <2>5. CASE rfPos = n
    <3>1. LastByte
      BY <2>1, <2>5 DEF LastByte
    <3>2. rfState' = "XBEE_FRAME" /\ processFrame(rfBuf', n + 1)
      BY <1>13, <2>2, <2>5, <3>1 DEF DataByte
    <3>3. d = checksum(p)
      BY <1>5, <1>6, <2>1, <2>5, EncodeValue
    <3>4. Prefix(rfBuf', n) = p /\ checksum(Prefix(rfBuf', n + 1)) = 0
      <4>. PICK b : b = rfBuf'
        OBVIOUS
      <4>. QED
        BY <1>5, <2>3, <2>5, <3>3, CompleteFrame
    <3>5. delivered' = Append(delivered, p)
      <4>1. ~(n + 1 < 2) /\ n + 1 - 1 = n
        BY <1>5
      <4>. QED
        BY <3>2, <3>4, <4>1 DEF processFrame
    <3>6. /\ Len(delivered') = m + 1 /\ delivered'[m + 1] = p
          /\ \A i \in 1 .. m : delivered'[i] = delivered[i]
      <4>1. p \in Seq(Byte)
        BY EncodeValue
      <4>. PICK S : S = Seq(Byte)
        OBVIOUS
      <4>. QED
        BY <1>1, <3>5, <4>1, AppendProperties
    <3>7. DeliveredInv'
      <4>1. ASSUME NEW i \in 1 .. m + 1 PROVE delivered'[i] = sent[i]
        <5>1. CASE i \in 1 .. m
          BY <1>8, <3>6, <5>1
        <5>2. CASE i = m + 1
          BY <1>4, <3>6, <5>2
        <5>. QED
          BY <5>1, <5>2
      <4>. QED
        BY <1>1, <1>3, <3>2, <3>6, <4>1 DEF DeliveredInv
    <3>8. ParserKnows(sent[Len(delivered) + 1])'
      BY <3>2 DEF ParserKnows
    <3>9. Expected' = <<m + 2, 1>>
      BY <3>2, <3>6 DEF Expected, Place
    <3>10. ~(j < n + 4)
      BY <2>1, <2>5
    <3>. QED
      BY <1>7, <3>7, <3>8, <3>9, <3>10
  <2>. QED
    BY <1>1, <2>1, <2>4, <2>5
<1>. QED
  BY <1>11, <1>12, <1>13 DEF processByte

\* The parser keeps the frames as they are.
LEMMA ParserKeepsFrames ==
  ASSUME FrameInv, TypeInv', processByte
  PROVE  FrameInv'
<1>1. /\ rpc = "done" /\ rpc' = "idle"
      /\ UNCHANGED <<rxq, rxqIn, rxqOut, overrun, line, sent, expired>>
  BY DEF processByte
<1>2. LineInv' /\ LineByte' = LineByte
  BY <1>1 DEF FrameInv, LineInv, LineByte
<1>3. ASSUME Good' PROVE FlowInv'
  <2>1. FlowInv
    BY <1>1, <1>3 DEF Good, FrameInv
  <2>2. /\ DeliveredInv' /\ ParserKnows(sent[Len(delivered) + 1])'
        /\ Expected' = After(sent, Expected)
    BY <2>1, ParserFollows DEF FrameInv
  <2>3. HandInv'
    BY <1>1 DEF HandInv
  <2>4. NextByte' = NextByte
    BY <1>1, <2>2 DEF NextByte
  <2>5. PICK tag \in [Ring -> Nat \X Nat] :
          Carries(tag, sent, rxq, rxqIn, rxqOut, NextByte, LineByte)
    BY <2>1 DEF FlowInv, QueueInv
  <2>6. Carries(tag, sent', rxq', rxqIn', rxqOut', NextByte', LineByte')
    BY <1>1, <1>2, <2>4, <2>5
  <2>7. QueueInv'
    BY <2>6 DEF QueueInv
  <2>. QED
    BY <2>2, <2>3, <2>7 DEF FlowInv
<1>. QED
  BY <1>2, <1>3 DEF FrameInv

\* A step that changes nothing the invariant is about keeps it.
LEMMA StutterKeepsFrames ==
  ASSUME FrameInv, TypeInv',
         UNCHANGED <<uartVars, rxVars, line, sent, expired>>
  PROVE  FrameInv'
<1>1. UNCHANGED <<rxq, rxqIn, rxqOut, rpc, d, overrun, rfState, rfFrameLen,
                  rfPos, rfBuf, delivered, line, sent, expired>>
  BY DEF uartVars, rxVars
<1>2. /\ LineInv' /\ LineByte' = LineByte /\ Expected' = Expected
      /\ NextByte' = NextByte
  BY <1>1 DEF FrameInv, LineInv, LineByte, Expected, Place, NextByte
<1>3. ASSUME Good' PROVE FlowInv'
  <2>1. FlowInv
    BY <1>1, <1>3 DEF Good, FrameInv
  <2>2. DeliveredInv' /\ ParserKnows(sent[Len(delivered) + 1])' /\ HandInv'
    BY <1>1, <1>2, <2>1 DEF FlowInv, DeliveredInv, ParserKnows, HandInv
  <2>3. QueueInv'
    BY <1>1, <1>2, <2>1 DEF FlowInv, QueueInv
  <2>. QED
    BY <2>2, <2>3 DEF FlowInv
<1>. QED
  BY <1>2, <1>3 DEF FrameInv

\* Every step keeps FrameInv.
LEMMA NextFrame == FrameInv /\ [Next]_vars => FrameInv'
<1>. SUFFICES ASSUME FrameInv, [Next]_vars PROVE FrameInv'
  OBVIOUS
<1>1. TypeInv'
  BY NextType DEF FrameInv
<1>2. Tick \/ UNCHANGED vars
        => UNCHANGED <<uartVars, rxVars, line, sent, expired>>
  BY DEF Tick, vars
<1>. QED
  BY <1>1, <1>2, SendKeepsFrames, PutKeepsFrames, FetchKeepsFrames,
     ParserKeepsFrames, StutterKeepsFrames DEF Next

\* Frames arrive intact: for every size of the queue and of rfBuf, any frames
\* that fit (the start delimiter in their data included) and any interleaving
\* of the UART interrupt with the main loop, the handlers see exactly the
\* frames the module sent, in order, as long as the queue has not overrun and
\* the frame timer has not expired.
THEOREM FramesArriveIntact == Spec => []FramesIntact
<1>1. Spec => []FrameInv
  BY InitFrame, NextFrame, PTL DEF Spec
<1>. QED
  BY <1>1, FrameInvSuffices, PTL
=============================================================================
