--------------------------- MODULE CanBridgeProofs ---------------------------
(***************************************************************************)
(* Properties of the CAN bridge for every ring size, every clock width and *)
(* timeout, every number of frames: types, the slot being sent, the copy   *)
(* into a transmit buffer, the ring as a queue, the results of sendMessage *)
(* and the order of the frames on the buses.                               *)
(***************************************************************************)
EXTENDS CanBridge, TLAPS

-----------------------------------------------------------------------------
(* Index arithmetic of the ring.                                           *)

\* The next index of q_put and q_get, without the remainder.
LEMMA SuccValue ==
  \A i \in Slots : Succ(i) = IF i = NUM_RX_MSGS - 1 THEN 0 ELSE i + 1
  BY RingAssumption DEF Succ, Slots

\* Succ stays within the ring and is injective.
LEMMA SuccInjective ==
  /\ \A i \in Slots : Succ(i) \in Slots
  /\ \A i, j \in Slots : Succ(i) = Succ(j) => i = j
  /\ \A i \in Slots : Succ(i) # i
  BY SuccValue, RingAssumption DEF Slots

\* The remainder of an index that is at most one lap ahead.
LEMMA OneLap ==
  \A x \in 0 .. 2 * NUM_RX_MSGS - 1 :
    x % NUM_RX_MSGS = IF x < NUM_RX_MSGS THEN x ELSE x - NUM_RX_MSGS
  BY RingAssumption

\* Whatever CAN_SendMsg shifts, it selects buffer 1 when that one is free.
LEMMA SelectsOnlyOne ==
  \A b \in Buffers : Selects(b) <=> b = 1 /\ 1 \notin pending[dst]
  BY DEF Selects, Buffers, TBS1

-----------------------------------------------------------------------------
(* Type correctness.                                                       *)

\* A message made of one frame is a message.
LEMMA WholeType == \A f \in Frame : Whole(f) \in Msg
  BY DEF Whole, Msg

\* The frame that stands for no frame has the type of a frame.
LEMMA NoFrameType == NoFrame \in Frame
  BY FrameAssumption DEF NoFrame, Frame

\* The types hold at the start.
LEMMA InitType == Init => TypeOK
  <1> SUFFICES ASSUME Init PROVE TypeOK
    OBVIOUS
  <1>1. Whole(NoFrame) \in Msg
    BY WholeType, NoFrameType
  <1>2. QED
    BY <1>1, RingAssumption, ClockAssumption, FrameAssumption
    DEF Init, TypeOK, Can, Buffers, Slots, Time

\* A received frame keeps the types.
LEMMA ArriveType ==
  ASSUME TypeOK, NEW c \in Can, NEW t \in Types, Arrive(c, t)
  PROVE  TypeOK'
  <1> DEFINE f == [src |-> c, n |-> nframes + 1, type |-> t]
  <1>1. f \in Frame
    BY FrameAssumption DEF Arrive, TypeOK, Frame
  <1>2. rbuf' \in [Can -> Seq(Frame)] /\ nframes' \in 0 .. MaxFrames
    BY <1>1, FrameAssumption DEF Arrive, TypeOK
  <1>3. QED
    BY <1>2 DEF Arrive, TypeOK, queueVars, hwVars, mainVars

\* A completed transmission keeps the types.
LEMMA TransmitType ==
  ASSUME TypeOK, NEW c \in Can, NEW b \in Buffers, Transmit(c, b)
  PROVE  TypeOK'
  <1>1. txReg[c][b] \in Msg
    BY DEF TypeOK
  <1>2. bus' \in [Can -> Seq(Msg)] /\ pending' \in [Can -> SUBSET Buffers]
    BY <1>1 DEF Transmit, TypeOK
  <1>3. QED
    BY <1>2 DEF Transmit, TypeOK, queueVars, mainVars

\* The clock keeps the types: it wraps.
LEMMA TickType ==
  ASSUME TypeOK, Tick
  PROVE  TypeOK'
  <1>1. time' \in Time
    BY ClockAssumption DEF Tick, TypeOK, Time
  <1>2. QED
    BY <1>1 DEF Tick, TypeOK, queueVars, hwVars, mainVars

\* What CAN_ReceiveMsg leaves in rxMsg is a message.
LEMMA ReceiveType ==
  ASSUME TypeOK, NEW c \in Can, Interrupting(c), CAN_ReceiveMsg(c)
  PROVE  rxMsg' \in Msg /\ rbuf' \in [Can -> Seq(Frame)]
  <1>1. Head(rbuf[c]) \in Frame /\ Tail(rbuf[c]) \in Seq(Frame)
    BY DEF TypeOK, Interrupting
  <1>2. QED
    BY <1>1, WholeType DEF CAN_ReceiveMsg, TypeOK, Msg

\* The interrupt handler keeps the types: rxMsgIn stays in the ring.
LEMMA IrqType ==
  ASSUME TypeOK, CAN_IRQHandler
  PROVE  TypeOK'
  <1>1. PICK c \in Can : Interrupting(c) /\ CAN_ReceiveMsg(c)
    BY DEF CAN_IRQHandler
  <1>2. rxMsg' \in Msg /\ rbuf' \in [Can -> Seq(Frame)]
    BY <1>1, ReceiveType
  <1>3. q_put(rxMsg') /\ UNCHANGED <<txMsg, hwVars, mainVars, time, nframes,
                                     ret, wrapped>>
    BY DEF CAN_IRQHandler
  <1>4. /\ rxMsgs' \in [Slots -> Msg] /\ rxMsgIn' \in Slots
        /\ last' \in {"stored", "dropped"} /\ UNCHANGED <<rxMsgOut, got>>
    BY <1>2, <1>3, SuccInjective DEF q_put, TypeOK
  <1>5. QED
    BY <1>2, <1>3, <1>4 DEF TypeOK, hwVars, mainVars

\* A deadline is a time, since it wraps like the clock.
LEMMA DeadlineType == time \in Time => Deadline \in Time
  BY ClockAssumption DEF Deadline, Time

\* What CAN_SendMsg copies from is a message.
LEMMA SourceType == TypeOK => Source \in Msg
  BY RingAssumption DEF Source, TypeOK, Slots

\* The steps of the main loop keep the types.
LEMMA MainType ==
  ASSUME TypeOK, Main
  PROVE  TypeOK'
  <1>1. CASE canpt_task
    <2>1. rxMsgOut' \in Slots /\ got' \in Msg /\ msg' \in 0 .. NUM_RX_MSGS
      BY <1>1, SuccInjective, RingAssumption DEF canpt_task, TypeOK, Slots
    <2>2. to' \in Time
      BY <1>1, DeadlineType DEF canpt_task, TypeOK
    <2>3. QED
      BY <1>1, <2>1, <2>2 DEF canpt_task, TypeOK, Can, hwVars
  <1>2. ASSUME NEW c \in Targets, sendMessage(c) PROVE TypeOK'
    <2> DEFINE f == [src |-> "app", n |-> nframes + 1, type |-> "DATA_FRAME"]
    <2>1. f \in Frame /\ nframes' \in 0 .. MaxFrames
      BY <1>2, FrameAssumption DEF sendMessage, TypeOK, Frame
    <2>2. txMsg' \in Msg
      BY <1>2, <2>1, WholeType DEF sendMessage
    <2>3. to' \in Time /\ dst' \in Can /\ msg' \in 0 .. NUM_RX_MSGS
      BY <1>2, DeadlineType, FrameAssumption, RingAssumption
      DEF sendMessage, TypeOK, Can
    <2>4. QED
      BY <1>2, <2>1, <2>2, <2>3 DEF sendMessage, TypeOK, queueVars, hwVars
  <1>3. CASE SelectBuffer
    BY <1>3 DEF SelectBuffer, Return, TypeOK, Words, queueVars, hwVars
  <1>4. CASE WriteWord
    <2>1. Source[pc] \in Frame
      BY <1>4, SourceType DEF WriteWord, Msg
    <2>2. txReg' \in [Can -> [Buffers -> Msg]]
      BY <1>4, <2>1 DEF WriteWord, TypeOK, Msg
    <2>3. pc' \in Words \cup {"CMR"}
      BY <1>4 DEF WriteWord, After, Words
    <2>4. QED
      BY <1>4, <2>2, <2>3 DEF WriteWord, TypeOK, queueVars
  <1>5. CASE RequestTransmission
    BY <1>5 DEF RequestTransmission, TypeOK, queueVars
  <1>6. CASE EndWait
    BY <1>6 DEF EndWait, TypeOK, queueVars, hwVars
  <1>7. CASE CheckLate
    BY <1>7 DEF CheckLate, Return, TypeOK, queueVars, hwVars
  <1>8. QED
    BY <1>1, <1>2, <1>3, <1>4, <1>5, <1>6, <1>7 DEF Main

\* Every step keeps the types.
LEMMA NextType == TypeOK /\ [Next]_vars => TypeOK'
  <1> SUFFICES ASSUME TypeOK, [Next]_vars PROVE TypeOK'
    OBVIOUS
  <1>1. CASE UNCHANGED vars
    BY <1>1 DEF vars, TypeOK, queueVars, hwVars, mainVars
  <1>2. CASE Next
    BY <1>2, ArriveType, TransmitType, TickType, IrqType, MainType DEF Next
  <1>3. QED
    BY <1>1, <1>2

\* Type correctness: the two indices of the ring stay below NUM_RX_MSGS
\* under the uint8_t arithmetic of q_put and q_get, every pointer canpt_task
\* sends from is a slot of the ring or txMsg, and the deadline is a clock
\* value.
THEOREM TypeCorrect == Spec => []TypeOK
  <1>1. QED
    BY InitType, NextType, PTL DEF Spec

-----------------------------------------------------------------------------
(* The slot that is being sent.                                            *)

\* SlotStable is not inductive as it stands: the slot is safe because
\* rxMsgOut is the index right behind it and q_put never fills the slot
\* before rxMsgOut.
SlotInv == /\ SlotStable
           /\ msg # NUM_RX_MSGS => rxMsgOut = Succ(msg)

\* q_put does not write the slot canpt_task is reading.
LEMMA IrqSlot ==
  ASSUME TypeOK, SlotInv, CAN_IRQHandler
  PROVE  SlotInv' /\ (msg # NUM_RX_MSGS => rxMsgs'[msg] = rxMsgs[msg])
  <1>1. q_put(rxMsg') /\ UNCHANGED <<msg, rxMsgOut, got>>
    BY DEF CAN_IRQHandler, mainVars, q_put
  <1>2. msg # NUM_RX_MSGS => msg \in Slots
    BY RingAssumption DEF TypeOK, Slots
  <1>3. msg # NUM_RX_MSGS /\ ~Full => msg # rxMsgIn
    BY <1>2, SuccInjective DEF SlotInv, Full, TypeOK
  <1>4. msg # NUM_RX_MSGS => rxMsgs'[msg] = rxMsgs[msg]
    BY <1>1, <1>2, <1>3 DEF q_put, TypeOK
  <1>5. QED
    BY <1>1, <1>4 DEF SlotInv, SlotStable, Succ

\* q_get leaves rxMsgOut right behind the slot it returns.
LEMMA MainSlot ==
  ASSUME TypeOK, SlotInv, Main
  PROVE  SlotInv'
  <1>1. CASE canpt_task
    BY <1>1 DEF canpt_task, SlotInv, SlotStable, Succ
  <1>2. ASSUME NEW c \in Targets, sendMessage(c) PROVE SlotInv'
    BY <1>2 DEF sendMessage, SlotInv, SlotStable
  <1>3. CASE SelectBuffer \/ WriteWord \/ RequestTransmission \/ EndWait
             \/ CheckLate
    BY <1>3 DEF SelectBuffer, WriteWord, RequestTransmission, EndWait,
      CheckLate, SlotInv, SlotStable, Succ, queueVars
  <1>4. QED
    BY <1>1, <1>2, <1>3 DEF Main

\* Every step keeps SlotInv.
LEMMA NextSlot == TypeOK /\ SlotInv /\ [Next]_vars => SlotInv'
  <1> SUFFICES ASSUME TypeOK, SlotInv, [Next]_vars PROVE SlotInv'
    OBVIOUS
  <1>1. CASE UNCHANGED <<queueVars, msg>>
    BY <1>1 DEF SlotInv, SlotStable, Succ, queueVars
  <1>2. ASSUME NEW c \in Can, NEW t \in Types, Arrive(c, t) PROVE SlotInv'
    BY <1>1, <1>2 DEF Arrive, mainVars
  <1>3. ASSUME NEW c \in Can, NEW b \in Buffers, Transmit(c, b) PROVE SlotInv'
    BY <1>1, <1>3 DEF Transmit, mainVars
  <1>4. CASE Tick
    BY <1>1, <1>4 DEF Tick, mainVars
  <1>5. CASE UNCHANGED vars
    BY <1>1, <1>5 DEF vars, mainVars
  <1>6. QED
    BY <1>2, <1>3, <1>4, <1>5, IrqSlot, MainSlot DEF Next

\* The interrupt handler never overwrites the slot whose address q_get has
\* handed to canpt_task, for every size of the ring.
THEOREM SlotIsStable == Spec => []SlotStable
  <1>1. Init => SlotInv
    BY DEF Init, SlotInv, SlotStable
  <1>2. Spec => []SlotInv
    BY <1>1, TypeCorrect, NextSlot, PTL DEF Spec
  <1>3. SlotInv => SlotStable
    BY DEF SlotInv
  <1>4. QED
    BY <1>2, <1>3, PTL

-----------------------------------------------------------------------------
(* What is written into the transmit buffers.                              *)

\* The words CAN_SendMsg has copied when it is about to do step p.
Copied(p) == [TFI |-> {}, TID |-> {"TFI"}, TDA |-> {"TFI", "TID"},
              TDB |-> {"TFI", "TID", "TDA"}, CMR |-> Words][p]

Copying == pc \in Words \cup {"CMR"}

\* Every message in memory is one frame, the buffer being written is not
\* pending, and the words copied so far are those of the source, which does
\* not change under the copy.
CopyInv ==
  /\ OneFrame(rxMsg) /\ OneFrame(txMsg)
  /\ \A i \in Slots : OneFrame(rxMsgs[i])
  /\ \A c \in Can : \A b \in pending[c] : OneFrame(txReg[c][b])
  /\ WholeOnBus
  /\ Copying => /\ buf \notin pending[dst]
                /\ \A w \in Copied(pc) : txReg[dst][buf][w] = Source[w]

\* A message made of one frame is one frame.
LEMMA WholeIsOneFrame == \A f \in Frame : OneFrame(Whole(f))
  BY DEF OneFrame, Whole, Words

\* What CAN_SendMsg copies from is one frame.
LEMMA SourceIsOneFrame == TypeOK /\ CopyInv => OneFrame(Source)
  BY RingAssumption DEF CopyInv, Source, TypeOK, Slots

\* CopyInv holds at the start.
LEMMA InitCopy == Init => CopyInv
  <1> SUFFICES ASSUME Init PROVE CopyInv
    OBVIOUS
  <1>1. OneFrame(Whole(NoFrame))
    BY NoFrameType, WholeIsOneFrame
  <1>2. WholeOnBus
    BY DEF Init, WholeOnBus
  <1>3. QED
    BY <1>1, <1>2 DEF Init, CopyInv, Copying, Words

\* What a transmission puts on the bus is one frame.
LEMMA TransmitCopy ==
  ASSUME TypeOK, CopyInv, NEW c \in Can, NEW b \in Buffers, Transmit(c, b)
  PROVE  CopyInv'
  <1>1. OneFrame(txReg[c][b]) /\ txReg[c][b] \in Msg
    BY DEF Transmit, CopyInv, TypeOK
  <1>2. WholeOnBus'
    <2>1. ASSUME NEW d \in Can, NEW i \in 1 .. Len(bus'[d])
          PROVE  OneFrame(bus'[d][i])
      <3>1. CASE d = c /\ i = Len(bus[c]) + 1
        BY <1>1, <3>1 DEF Transmit, TypeOK
      <3>2. CASE ~(d = c /\ i = Len(bus[c]) + 1)
        <4>1. i \in 1 .. Len(bus[d]) /\ bus'[d][i] = bus[d][i]
          BY <1>1, <2>1, <3>2 DEF Transmit, TypeOK
        <4>2. QED
          BY <4>1 DEF CopyInv, WholeOnBus
      <3>3. QED
        BY <3>1, <3>2
    <2>2. QED
      BY <2>1 DEF WholeOnBus, OneFrame
  <1>3. /\ UNCHANGED <<rxMsg, txMsg, rxMsgs, txReg, pc, buf, dst, msg>>
        /\ \A d \in Can : pending'[d] \subseteq pending[d]
    BY DEF Transmit, TypeOK, queueVars, mainVars
  <1>4. Source' = Source /\ Copying' = Copying /\ Copied(pc)' = Copied(pc)
    BY <1>3 DEF Source, Copying, Copied
  <1>5. dst \in Can
    BY DEF TypeOK
  <1>6. QED
    BY <1>2, <1>3, <1>4, <1>5 DEF CopyInv, OneFrame

\* The handler stores whole frames and does not disturb a copy under way.
LEMMA IrqCopy ==
  ASSUME TypeOK, SlotInv, CopyInv, CAN_IRQHandler
  PROVE  CopyInv'
  <1>1. PICK c \in Can : Interrupting(c) /\ CAN_ReceiveMsg(c)
    BY DEF CAN_IRQHandler
  <1>2. Head(rbuf[c]) \in Frame
    BY <1>1 DEF TypeOK, Interrupting
  <1>3. OneFrame(rxMsg')
    <2>1. CASE Head(rbuf[c]).type = "DATA_FRAME"
      BY <1>1, <1>2, <2>1, WholeIsOneFrame DEF CAN_ReceiveMsg
    <2>2. CASE Head(rbuf[c]).type # "DATA_FRAME"
      BY <1>1, <2>2 DEF CAN_ReceiveMsg, OneFrame, TypeOK, Msg, Words
    <2>3. QED
      BY <2>1, <2>2
  <1>4. q_put(rxMsg') /\ UNCHANGED <<txMsg, txReg, pending, bus, pc, msg, dst,
                                     buf>>
    BY DEF CAN_IRQHandler, hwVars, mainVars
  <1>5. \A i \in Slots : OneFrame(rxMsgs'[i])
    BY <1>3, <1>4 DEF q_put, CopyInv, TypeOK
  <1>6. Source' = Source
    BY <1>4, IrqSlot DEF Source
  <1>7. /\ Copying' = Copying /\ Copied(pc)' = Copied(pc)
        /\ WholeOnBus' = WholeOnBus
    BY <1>4 DEF Copying, Copied, WholeOnBus, OneFrame
  <1>8. QED
    BY <1>3, <1>4, <1>5, <1>6, <1>7 DEF CopyInv, OneFrame

\* The steps of the main loop that leave the transmit buffers alone.
LEMMA CallCopy ==
  ASSUME TypeOK, CopyInv, canpt_task \/ \E c \in Targets : sendMessage(c)
  PROVE  CopyInv'
  <1>1. ~Copying'
    BY DEF canpt_task, sendMessage, Copying, Words
  <1>2. UNCHANGED <<rxMsg, rxMsgs, txReg, pending, bus>>
    BY DEF canpt_task, sendMessage, queueVars, hwVars
  <1>3. OneFrame(txMsg')
    <2>1. CASE canpt_task
      BY <2>1 DEF canpt_task, CopyInv
    <2>2. ASSUME NEW c \in Targets, sendMessage(c) PROVE OneFrame(txMsg')
      <3>1. [src |-> "app", n |-> nframes + 1, type |-> "DATA_FRAME"] \in Frame
        BY <2>2, FrameAssumption DEF sendMessage, TypeOK, Frame
      <3>2. QED
        BY <2>2, <3>1, WholeIsOneFrame DEF sendMessage
    <2>3. QED
      BY <2>1, <2>2
  <1>4. QED
    BY <1>1, <1>2, <1>3 DEF CopyInv, WholeOnBus, OneFrame

\* CAN_SendMsg starts to copy into a buffer that is not pending.
LEMMA SelectCopy ==
  ASSUME TypeOK, CopyInv, SelectBuffer
  PROVE  CopyInv'
  <1>1. /\ UNCHANGED <<rxMsg, rxMsgs, txMsg, txReg, pending, bus, dst, msg>>
        /\ pc' \in {"TFI", "loop"}
    BY DEF SelectBuffer, Return, queueVars, hwVars
  <1>2. pc' = "TFI" => buf' \notin pending[dst]
    BY SelectsOnlyOne DEF SelectBuffer, Return
  <1>3. Copying' => pc' = "TFI" /\ Copied(pc') = {}
    BY <1>1 DEF Copying, Copied, Words
  <1>4. QED
    BY <1>1, <1>2, <1>3 DEF CopyInv, WholeOnBus, OneFrame

\* Each word written adds a word of the source to the copy.
LEMMA WriteCopy ==
  ASSUME TypeOK, CopyInv, WriteWord
  PROVE  CopyInv'
  <1>1. UNCHANGED <<rxMsg, rxMsgs, txMsg, pending, bus, dst, buf, msg>>
    BY DEF WriteWord, queueVars
  <1>2. Copying /\ buf \notin pending[dst] /\ dst \in Can /\ buf \in Buffers
    BY DEF WriteWord, CopyInv, Copying, TypeOK
  <1>3. \A c \in Can : \A b \in pending[c] : txReg'[c][b] = txReg[c][b]
    BY <1>2 DEF WriteWord, TypeOK
  <1>4. /\ txReg'[dst][buf][pc] = Source[pc]
        /\ \A w \in Words : w # pc => txReg'[dst][buf][w] = txReg[dst][buf][w]
    BY <1>2 DEF WriteWord, TypeOK, Msg
  <1>5. Copied(pc') = Copied(pc) \cup {pc} /\ Copied(pc) \subseteq Words
    BY DEF WriteWord, Copied, After, Words
  <1>6. \A w \in Copied(pc') : txReg'[dst][buf][w] = Source[w]
    BY <1>2, <1>4, <1>5 DEF CopyInv
  <1>7. Source' = Source /\ WholeOnBus' = WholeOnBus
    BY <1>1 DEF Source, WholeOnBus, OneFrame
  <1>8. QED
    BY <1>1, <1>2, <1>3, <1>6, <1>7 DEF CopyInv, OneFrame

\* When transmission is requested, the transmit buffer holds the source:
\* all its words were copied from there.
LEMMA RequestSource ==
  ASSUME TypeOK, CopyInv, RequestTransmission
  PROVE  txReg[dst][buf] = Source
  <1>1. \A w \in Words : txReg[dst][buf][w] = Source[w]
    BY DEF RequestTransmission, CopyInv, Copying, Copied
  <1>2. txReg[dst][buf] \in Msg /\ Source \in Msg
    BY SourceType DEF TypeOK
  <1>3. QED
    BY <1>1, <1>2 DEF Msg

\* What is requested is one frame.
LEMMA RequestCopy ==
  ASSUME TypeOK, CopyInv, RequestTransmission
  PROVE  CopyInv'
  <1>1. /\ UNCHANGED <<rxMsg, rxMsgs, txMsg, txReg, bus, dst, buf, msg>>
        /\ ~Copying'
    BY DEF RequestTransmission, queueVars, Copying, Words
  <1>2. txReg[dst][buf] = Source
    BY RequestSource
  <1>3. \A c \in Can : \A b \in pending'[c] :
          b \in pending[c] \/ (c = dst /\ b = buf)
    BY DEF RequestTransmission, TypeOK
  <1>4. \A c \in Can : \A b \in pending'[c] : OneFrame(txReg[c][b])
    BY <1>2, <1>3, SourceIsOneFrame DEF CopyInv
  <1>5. QED
    BY <1>1, <1>4 DEF CopyInv, WholeOnBus, OneFrame

\* Every step keeps CopyInv.
LEMMA NextCopy ==
  TypeOK /\ SlotInv /\ CopyInv /\ [Next]_vars => CopyInv'
  <1> SUFFICES ASSUME TypeOK, SlotInv, CopyInv, [Next]_vars PROVE CopyInv'
    OBVIOUS
  <1>1. ASSUME UNCHANGED <<rxMsg, rxMsgs, txMsg, txReg, pending, bus>>,
               UNCHANGED <<pc, dst, buf, msg>> \/ ~Copying'
        PROVE  CopyInv'
    <2>1. WholeOnBus' = WholeOnBus
      BY <1>1 DEF WholeOnBus, OneFrame
    <2>2. Copying' => /\ Copying /\ UNCHANGED <<Source, dst, buf>>
                      /\ Copied(pc') = Copied(pc)
      BY <1>1 DEF Copying, Copied, Source
    <2>3. QED
      BY <1>1, <2>1, <2>2 DEF CopyInv, OneFrame
  <1>2. ASSUME NEW c \in Can, NEW t \in Types, Arrive(c, t) PROVE CopyInv'
    BY <1>1, <1>2 DEF Arrive, queueVars, hwVars, mainVars
  <1>3. CASE Tick
    BY <1>1, <1>3 DEF Tick, queueVars, hwVars, mainVars
  <1>4. CASE EndWait \/ CheckLate
    <2>1. UNCHANGED <<rxMsg, rxMsgs, txMsg, txReg, pending, bus>> /\ ~Copying'
      BY <1>4 DEF EndWait, CheckLate, Return, queueVars, hwVars, Copying, Words
    <2>2. QED
      BY <1>1, <2>1
  <1>5. CASE UNCHANGED vars
    BY <1>1, <1>5 DEF vars, queueVars, hwVars, mainVars
  <1>6. CASE Main
    BY <1>4, <1>6, CallCopy, SelectCopy, WriteCopy, RequestCopy DEF Main
  <1>7. QED
    BY <1>2, <1>3, <1>5, <1>6, TransmitCopy, IrqCopy DEF Next

\* The three invariants hold in every reachable state.
LEMMA CopyAlways == Spec => [](TypeOK /\ SlotInv /\ CopyInv)
  <1>1. Init => TypeOK /\ SlotInv /\ CopyInv
    BY InitType, InitCopy DEF Init, SlotInv, SlotStable
  <1>2. QED
    BY <1>1, NextType, NextSlot, NextCopy, PTL DEF Spec

\* No message on a bus is mixed from two frames, whatever the interrupt
\* handler does between the four writes of CAN_SendMsg.
THEOREM BusHoldsWholeFrames == Spec => []WholeOnBus
  <1>1. CopyInv => WholeOnBus
    BY DEF CopyInv
  <1>2. QED
    BY <1>1, CopyAlways, PTL

\* CAN_SendMsg leaves a transmit buffer alone until its request is served,
\* also when canpt_task stopped waiting for it.
THEOREM PendingIsUntouched == Spec => PendingUntouched
  <1> DEFINE Same == \A c \in Can : \A b \in pending[c] :
                       txReg'[c][b] = txReg[c][b]
  <1>1. TypeOK /\ CopyInv /\ [Next]_vars => Same
    <2> SUFFICES ASSUME TypeOK, CopyInv, [Next]_vars PROVE Same
      OBVIOUS
    <2>1. CASE WriteWord
      <3>1. buf \notin pending[dst] /\ dst \in Can /\ buf \in Buffers
        BY <2>1 DEF WriteWord, CopyInv, Copying, TypeOK
      <3>2. QED
        BY <2>1, <3>1 DEF WriteWord, TypeOK
    <2>2. CASE UNCHANGED txReg
      BY <2>2
    <2>3. [Next]_vars => WriteWord \/ UNCHANGED txReg
      BY DEF Next, vars, Arrive, Transmit, Tick, CAN_IRQHandler, Main,
        canpt_task, sendMessage, SelectBuffer, RequestTransmission, EndWait,
        CheckLate, hwVars
    <2>4. QED
      BY <2>1, <2>2, <2>3
  <1>2. Spec => [][Same]_vars
    BY <1>1, CopyAlways, PTL DEF Spec
  <1>3. QED
    BY <1>2 DEF PendingUntouched

-----------------------------------------------------------------------------
(* The ring implements the bounded queue.                                  *)

\* How many messages lie between the two indices, and the slot of the one at
\* position k counted from 0: the code's remainders, without the remainder.
CountOf(i, o) == IF i >= o THEN i - o ELSE i - o + NUM_RX_MSGS
PosOf(o, k) == IF o + k < NUM_RX_MSGS THEN o + k ELSE o + k - NUM_RX_MSGS

\* The number of messages in the ring, without the remainder.
LEMMA CountOfRemainder ==
  ASSUME NEW i \in Slots, NEW o \in Slots
  PROVE  /\ (i - o + NUM_RX_MSGS) % NUM_RX_MSGS = CountOf(i, o)
         /\ CountOf(i, o) \in 0 .. NUM_RX_MSGS - 1
  <1>1. i - o + NUM_RX_MSGS \in 0 .. 2 * NUM_RX_MSGS - 1
    BY RingAssumption DEF Slots
  <1>2. QED
    BY <1>1, OneLap, RingAssumption DEF CountOf, Slots

\* The slot of a message, without the remainder.
LEMMA PosOfRemainder ==
  ASSUME NEW o \in Slots, NEW k \in 0 .. NUM_RX_MSGS - 1
  PROVE  (o + k) % NUM_RX_MSGS = PosOf(o, k) /\ PosOf(o, k) \in Slots
  <1>1. o + k \in 0 .. 2 * NUM_RX_MSGS - 1
    BY RingAssumption DEF Slots
  <1>2. QED
    BY <1>1, OneLap, RingAssumption DEF PosOf, Slots

\* Storing: the free slot is right behind the last message.
LEMMA StoreArithmetic ==
  ASSUME NEW i \in Slots, NEW o \in Slots, o # Succ(i)
  PROVE  /\ CountOf(i, o) < NUM_RX_MSGS - 1
         /\ CountOf(Succ(i), o) = CountOf(i, o) + 1
         /\ PosOf(o, CountOf(i, o)) = i
         /\ \A k \in 0 .. CountOf(i, o) - 1 : PosOf(o, k) # i
  BY SuccValue, RingAssumption DEF CountOf, PosOf, Slots

\* A full ring holds NUM_RX_MSGS - 1 messages.
LEMMA FullArithmetic ==
  ASSUME NEW i \in Slots, NEW o \in Slots, o = Succ(i)
  PROVE  CountOf(i, o) = NUM_RX_MSGS - 1
  BY SuccValue, RingAssumption DEF CountOf, Slots

\* Taking: every remaining message moves up by one position.
LEMMA TakeArithmetic ==
  ASSUME NEW i \in Slots, NEW o \in Slots, i # o
  PROVE  /\ CountOf(i, o) > 0
         /\ CountOf(i, Succ(o)) = CountOf(i, o) - 1
         /\ PosOf(o, 0) = o
         /\ \A k \in 0 .. NUM_RX_MSGS - 2 : PosOf(Succ(o), k) = PosOf(o, k + 1)
  BY SuccValue, RingAssumption DEF CountOf, PosOf, Slots

\* What the type invariant says of the ring.
RingOK == /\ rxMsgs \in [Slots -> Msg]
          /\ rxMsgIn \in Slots /\ rxMsgOut \in Slots

\* The abstract queue, spelled out.
Held == CountOf(rxMsgIn, rxMsgOut)
ItemsAre == /\ Held \in 0 .. NUM_RX_MSGS - 1
            /\ QueueItems \in Seq(Msg)
            /\ Len(QueueItems) = Held
            /\ \A i \in 1 .. Held :
                 QueueItems[i] = rxMsgs[PosOf(rxMsgOut, i - 1)]

\* QueueItems is the sequence ItemsAre spells out.
LEMMA QueueSeq == RingOK => ItemsAre
  <1> SUFFICES ASSUME RingOK PROVE ItemsAre
    OBVIOUS
  <1>1. Count = Held /\ Held \in 0 .. NUM_RX_MSGS - 1
    BY CountOfRemainder DEF Count, RingOK, Held
  <1>2. ASSUME NEW i \in 1 .. Held
        PROVE  /\ rxMsgs[(rxMsgOut + i - 1) % NUM_RX_MSGS]
                    = rxMsgs[PosOf(rxMsgOut, i - 1)]
               /\ rxMsgs[(rxMsgOut + i - 1) % NUM_RX_MSGS] \in Msg
    <2>1. i - 1 \in 0 .. NUM_RX_MSGS - 1 /\ rxMsgOut \in Slots
      BY <1>1, <1>2, RingAssumption DEF RingOK
    <2>2. rxMsgOut + i - 1 = rxMsgOut + (i - 1)
      BY <2>1 DEF Slots
    <2>3. QED
      BY <2>1, <2>2, PosOfRemainder DEF RingOK
  <1>3. QueueItems \in Seq(Msg) /\ Len(QueueItems) = Held
    BY <1>1, <1>2, RingAssumption DEF QueueItems
  <1>4. \A i \in 1 .. Held : QueueItems[i] = rxMsgs[PosOf(rxMsgOut, i - 1)]
    BY <1>1, <1>2 DEF QueueItems
  <1>5. QED
    BY <1>1, <1>3, <1>4 DEF ItemsAre

\* The same in the next state.
LEMMA QueueSeqNext == RingOK' => ItemsAre'
  BY QueueSeq, PTL

\* q_put into a ring with room appends the message to the queue.
LEMMA StoreItems ==
  ASSUME RingOK, RingOK', NEW d \in Msg, q_put(d), ~Full
  PROVE  /\ QueueItems \in Seq(Msg) /\ QueueItems' = Append(QueueItems, d)
         /\ Len(QueueItems) < NUM_RX_MSGS - 1
  <1>1. /\ rxMsgs' = [rxMsgs EXCEPT ![rxMsgIn] = d]
        /\ rxMsgIn' = Succ(rxMsgIn) /\ last' = "stored"
        /\ rxMsgOut' = rxMsgOut /\ got' = got
    BY DEF q_put
  <1>2. /\ Held < NUM_RX_MSGS - 1 /\ Held' = Held + 1
        /\ PosOf(rxMsgOut, Held) = rxMsgIn
        /\ \A k \in 0 .. Held - 1 : PosOf(rxMsgOut, k) # rxMsgIn
    BY <1>1, StoreArithmetic DEF Full, RingOK, Held
  <1>3. ItemsAre /\ ItemsAre'
    BY QueueSeq, QueueSeqNext
  <1>4. Held \in 0 .. NUM_RX_MSGS - 1 /\ NUM_RX_MSGS \in Nat
    BY <1>3, RingAssumption DEF ItemsAre
  <1>5. ASSUME NEW i \in 1 .. Held PROVE QueueItems'[i] = QueueItems[i]
    <2>1. i \in 1 .. Held' /\ i - 1 \in 0 .. Held - 1
          /\ i - 1 \in 0 .. NUM_RX_MSGS - 1
      BY <1>2, <1>4
    <2>2. PosOf(rxMsgOut, i - 1) \in Slots /\ PosOf(rxMsgOut, i - 1) # rxMsgIn
      BY <1>2, <2>1, PosOfRemainder DEF RingOK
    <2>3. QueueItems'[i] = rxMsgs'[PosOf(rxMsgOut, i - 1)]
      BY <1>1, <1>3, <2>1 DEF ItemsAre, PosOf
    <2>4. QED
      BY <1>1, <1>3, <2>2, <2>3 DEF ItemsAre, RingOK
  <1>6. QueueItems'[Held + 1] = d
    <2>1. Held + 1 \in 1 .. Held' /\ (Held + 1) - 1 = Held
      BY <1>2, <1>4
    <2>2. QueueItems'[Held + 1] = rxMsgs'[PosOf(rxMsgOut, Held)]
      BY <1>1, <1>3, <2>1 DEF ItemsAre, PosOf
    <2>3. QED
      BY <1>1, <1>2, <2>2 DEF RingOK
  <1>7. /\ QueueItems \in Seq(Msg) /\ Len(QueueItems) = Held
        /\ QueueItems' \in Seq(Msg) /\ Len(QueueItems') = Held + 1
    BY <1>2, <1>3 DEF ItemsAre
  <1>8. QueueItems' = Append(QueueItems, d)
    BY <1>4, <1>5, <1>6, <1>7
  <1>9. QED
    BY <1>2, <1>7, <1>8

\* So it is a step of the abstract queue.
LEMMA StoreStep ==
  ASSUME RingOK, RingOK', NEW d \in Msg, q_put(d), ~Full
  PROVE  Fifo!Store
  <1>1. last' = "stored" /\ got' = got
    BY DEF q_put
  <1>2. /\ QueueItems \in Seq(Msg) /\ QueueItems' = Append(QueueItems, d)
        /\ Len(QueueItems) < NUM_RX_MSGS - 1
    BY StoreItems
  <1>3. /\ Len(QueueItems') = Len(QueueItems) + 1
        /\ QueueItems'[Len(QueueItems) + 1] = d
    BY <1>2
  <1>4. QED
    BY <1>1, <1>2, <1>3 DEF Fifo!Store

\* q_put into a full ring drops the message.
LEMMA DropStep ==
  ASSUME RingOK, NEW d \in Msg, q_put(d), Full
  PROVE  Fifo!Drop
  <1>1. UNCHANGED <<rxMsgs, rxMsgIn, rxMsgOut, got>> /\ last' = "dropped"
    BY DEF q_put
  <1>2. QueueItems' = QueueItems
    BY <1>1 DEF QueueItems, Count
  <1>3. Held = NUM_RX_MSGS - 1
    BY FullArithmetic DEF Full, RingOK, Held
  <1>4. QED
    BY <1>1, <1>2, <1>3, QueueSeq DEF Fifo!Drop, ItemsAre

\* q_get takes the message at the front of the queue.
LEMMA TakeStep ==
  ASSUME RingOK, RingOK', canpt_task
  PROVE  Fifo!Take
  <1>1. /\ rxMsgOut' = Succ(rxMsgOut) /\ rxMsgIn # rxMsgOut
        /\ got' = rxMsgs[rxMsgOut] /\ last' = "taken"
        /\ rxMsgs' = rxMsgs /\ rxMsgIn' = rxMsgIn
    BY DEF canpt_task, q_isEmpty
  <1>2. /\ Held > 0 /\ Held' = Held - 1 /\ PosOf(rxMsgOut, 0) = rxMsgOut
        /\ \A k \in 0 .. NUM_RX_MSGS - 2 :
             PosOf(Succ(rxMsgOut), k) = PosOf(rxMsgOut, k + 1)
    BY <1>1, TakeArithmetic DEF RingOK, Held
  <1>3. ItemsAre /\ ItemsAre'
    BY QueueSeq, QueueSeqNext
  <1>4. Held \in 1 .. NUM_RX_MSGS - 1 /\ NUM_RX_MSGS \in Nat
    BY <1>2, <1>3, RingAssumption DEF ItemsAre
  <1>5. QueueItems[1] = rxMsgs[rxMsgOut]
    <2>1. 1 \in 1 .. Held /\ 1 - 1 = 0
      BY <1>4
    <2>2. QED
      BY <1>2, <1>3, <2>1 DEF ItemsAre
  <1>6. ASSUME NEW i \in 1 .. Held - 1
        PROVE  QueueItems'[i] = QueueItems[i + 1]
    <2>1. /\ i \in 1 .. Held' /\ i + 1 \in 1 .. Held /\ (i + 1) - 1 = i
          /\ i - 1 \in 0 .. NUM_RX_MSGS - 2 /\ (i - 1) + 1 = i
      BY <1>2, <1>4
    <2>2. QueueItems'[i] = rxMsgs[PosOf(Succ(rxMsgOut), i - 1)]
      BY <1>1, <1>3, <2>1 DEF ItemsAre, PosOf
    <2>3. QueueItems[i + 1] = rxMsgs[PosOf(rxMsgOut, i)]
      BY <1>3, <2>1 DEF ItemsAre
    <2>4. QED
      BY <1>2, <2>1, <2>2, <2>3
  <1>7. /\ QueueItems \in Seq(Msg) /\ Len(QueueItems) = Held
        /\ QueueItems' \in Seq(Msg) /\ Len(QueueItems') = Held - 1
    BY <1>2, <1>3 DEF ItemsAre
  <1>8. QueueItems # <<>> /\ Head(QueueItems) = rxMsgs[rxMsgOut]
    BY <1>4, <1>5, <1>7
  <1>9. QueueItems' = Tail(QueueItems)
    BY <1>4, <1>6, <1>7
  <1>10. QED
    BY <1>1, <1>8, <1>9 DEF Fifo!Take

\* The types of the ring are part of the type invariant.
LEMMA RingType == TypeOK => RingOK
  BY DEF TypeOK, RingOK

\* The same in the next state.
LEMMA RingTypeNext == TypeOK' => RingOK'
  BY RingType, PTL

\* The ring shared by the interrupt handler and the main loop implements a
\* first-in first-out queue of NUM_RX_MSGS - 1 messages that drops a message
\* only when it is full, for every NUM_RX_MSGS >= 2.
THEOREM RingIsFifo == Spec => QueueIsFifo
  <1>1. Init => Fifo!FifoInit
    <2> SUFFICES ASSUME Init PROVE Fifo!FifoInit
      OBVIOUS
    <2>1. TypeOK
      BY InitType
    <2>2. QueueItems \in Seq(Msg) /\ Len(QueueItems) = 0
      BY <2>1, RingType, QueueSeq DEF Init, ItemsAre, Held, CountOf
    <2>3. QED
      BY <2>1, <2>2 DEF Init, TypeOK, Fifo!FifoInit
  <1>2. TypeOK /\ TypeOK' /\ [Next]_vars => [Fifo!FifoNext]_(Fifo!fifoVars)
    <2> SUFFICES ASSUME TypeOK, TypeOK', [Next]_vars
                 PROVE  [Fifo!FifoNext]_(Fifo!fifoVars)
      OBVIOUS
    <2>1. CASE UNCHANGED queueVars
      BY <2>1 DEF queueVars, QueueItems, Count, Fifo!fifoVars
    <2>2. CASE CAN_IRQHandler
      <3>1. q_put(rxMsg') /\ rxMsg' \in Msg
        BY <2>2 DEF CAN_IRQHandler, TypeOK
      <3>2. QED
        BY <3>1, RingType, RingTypeNext, StoreStep, DropStep DEF Fifo!FifoNext
    <2>3. CASE canpt_task
      BY <2>3, RingType, RingTypeNext, TakeStep DEF Fifo!FifoNext
    <2>4. [Next]_vars => \/ CAN_IRQHandler \/ canpt_task
                         \/ UNCHANGED queueVars
      BY DEF Next, vars, Arrive, Transmit, Tick, Main, sendMessage,
        SelectBuffer, WriteWord, RequestTransmission, EndWait, CheckLate,
        queueVars
    <2>5. QED
      BY <2>1, <2>2, <2>3, <2>4
  <1>3. QED
    BY <1>1, <1>2, TypeCorrect, PTL DEF Spec, QueueIsFifo, Fifo!FifoSpec

-----------------------------------------------------------------------------
(* Numbers of frames, results of sendMessage, order on the buses.          *)

\* The frame a message was read from: the word all messages have in common.
Id(m) == m["TFI"]

\* Frames are numbered as they come, so no number in memory is ahead of the
\* counter; what the interrupt handler stores was received by a controller.
NumberInv ==
  /\ \A c \in Can : \A i \in 1 .. Len(rbuf[c]) :
       rbuf[c][i].src = c /\ rbuf[c][i].n <= nframes
  /\ Id(rxMsg).n <= nframes /\ Id(txMsg).n <= nframes
  /\ \A i \in Slots : Id(rxMsgs[i]).n <= nframes /\ Id(rxMsgs[i]).src # "app"
  /\ \A c \in Can, b \in Buffers : Id(txReg[c][b]).n <= nframes
  /\ \A c \in Can : \A i \in 1 .. Len(bus[c]) : Id(bus[c][i]).n <= nframes

\* A message of sendMessage is new until CAN_SendMsg starts to copy it; once
\* it is requested it is in its transmit buffer or on the bus; and the wait
\* ends when it was sent or the deadline is over.
Sending == msg = NUM_RX_MSGS
SendInv ==
  /\ pc = "SR" /\ Sending =>
       \A c \in Can : /\ ~OnBus(c, txMsg)
                      /\ \A b \in Buffers : txReg[c][b] # txMsg
  /\ pc \in {"wait", "late"} /\ Sending =>
       \/ OnBus(dst, txMsg)
       \/ buf \in pending[dst] /\ txReg[dst][buf] = txMsg
  /\ pc = "late" => TCS \/ wrapped \/ to <= time

\* Frame f left the same origin before frame g.
Precedes(f, g) == f.src = g.src => f.n < g.n

\* The message CAN_SendMsg has not requested yet.
Unsent == pc \in {"SR", "CMR"} \cup Words

\* The receive buffer is held by a remote frame, which is never released: the
\* interrupt stays pending and the main loop does not run any more.
Stuck == \E c \in Can : rbuf[c] # <<>> /\ rbuf[c][1].type = "REMOTE_FRAME"

\* Frame f comes after everything that is on a bus, requested or unsent.
AfterSent(f) ==
  /\ \A c \in Can : \A i \in 1 .. Len(bus[c]) : Precedes(Id(bus[c][i]), f)
  /\ \A c \in Can : \A b \in pending[c] : Precedes(Id(txReg[c][b]), f)
  /\ Unsent => Precedes(Id(Source), f)

\* The frames of one origin are in order along their way: those on a bus come
\* before the one in the transmit buffer (only the first is ever used), and
\* that one before the message being sent.
SentInv ==
  /\ InOrderOnce
  /\ \A c \in Can : pending[c] \subseteq {1}
  /\ Copying => buf = 1
  /\ \A c \in Can : \A b \in pending[c] : \A i \in 1 .. Len(bus[c]) :
       Precedes(Id(bus[c][i]), Id(txReg[c][b]))
  /\ Unsent => \A c \in Can :
       /\ \A i \in 1 .. Len(bus[c]) : Precedes(Id(bus[c][i]), Id(Source))
       /\ \A b \in pending[c] : Precedes(Id(txReg[c][b]), Id(Source))

\* As long as the main loop runs, the frames in the ring come next, in order,
\* and those in the receive buffers last.
WaitingInv ==
  /\ \A k \in 1 .. Len(QueueItems) : AfterSent(Id(QueueItems[k]))
  /\ \A j, k \in 1 .. Len(QueueItems) :
       j < k => Precedes(Id(QueueItems[j]), Id(QueueItems[k]))
  /\ \A c \in Can : \A i \in 1 .. Len(rbuf[c]) :
       /\ AfterSent(rbuf[c][i])
       /\ \A k \in 1 .. Len(QueueItems) :
            Precedes(Id(QueueItems[k]), rbuf[c][i])
       /\ \A j \in 1 .. i - 1 : rbuf[c][j].n < rbuf[c][i].n

OrderInv == SentInv /\ (~Stuck => WaitingInv)

\* What the type invariant says of the numbers: they are naturals.
LEMMA IdType == \A m \in Msg : Id(m) \in Frame /\ Id(m).n \in Nat
  BY FrameAssumption DEF Id, Msg, Frame, Words

\* So are those of the frames in the receive buffers.
LEMMA ReceivedType ==
  ASSUME TypeOK, NEW c \in Can, NEW i \in 1 .. Len(rbuf[c])
  PROVE  rbuf[c][i] \in Frame /\ rbuf[c][i].n \in Nat
  <1>1. rbuf[c] \in Seq(Frame)
    BY DEF TypeOK
  <1>2. rbuf[c][i] \in Frame
    BY <1>1
  <1>3. QED
    BY <1>2, FrameAssumption DEF Frame

\* NumberInv holds at the start.
LEMMA InitNumber == Init => NumberInv
  <1> SUFFICES ASSUME Init PROVE NumberInv
    OBVIOUS
  <1>1. Id(Whole(NoFrame)).n = 0 /\ Id(Whole(NoFrame)).src = "none"
    BY DEF Id, Whole, NoFrame, Words
  <1>2. QED
    BY <1>1 DEF Init, NumberInv, Can, Buffers, Slots

\* A frame that arrives takes the next number.
LEMMA ArriveNumber ==
  ASSUME TypeOK, NumberInv, NEW c \in Can, NEW t \in Types, Arrive(c, t)
  PROVE  NumberInv'
  <1> DEFINE f == [src |-> c, n |-> nframes + 1, type |-> t]
  <1>1. nframes \in Nat /\ nframes' = nframes + 1
    BY DEF Arrive, TypeOK
  <1>2. f.src = c /\ f.n = nframes' /\ f \in Frame
    BY <1>1, FrameAssumption DEF Arrive, TypeOK, Frame
  <1>3. UNCHANGED <<rxMsg, txMsg, rxMsgs, txReg, bus>>
    BY DEF Arrive, queueVars, hwVars
  <1>4. \/ rbuf' = rbuf
        \/ rbuf' = [rbuf EXCEPT ![c] = Append(@, f)]
    BY DEF Arrive
  <1>5. ASSUME NEW e \in Can, NEW i \in 1 .. Len(rbuf'[e])
        PROVE  rbuf'[e][i].src = e /\ rbuf'[e][i].n <= nframes'
    <2> HIDE DEF f
    <2>0. rbuf[e] \in Seq(Frame) /\ rbuf[c] \in Seq(Frame)
      BY DEF TypeOK
    <2>1. \/ rbuf'[e][i] = f /\ e = c
          \/ i \in 1 .. Len(rbuf[e]) /\ rbuf'[e][i] = rbuf[e][i]
      <3>1. CASE rbuf'[e] = rbuf[e]
        BY <1>5, <3>1
      <3>2. CASE rbuf'[e] # rbuf[e]
        <4>1. e = c /\ rbuf'[e] = Append(rbuf[c], f)
          BY <1>4, <3>2 DEF TypeOK
        <4>2. QED
          BY <1>2, <1>5, <2>0, <4>1
      <3>3. QED
        BY <3>1, <3>2
    <2>2. CASE rbuf'[e][i] = f /\ e = c
      BY <1>1, <1>2, <2>2
    <2>3. CASE i \in 1 .. Len(rbuf[e]) /\ rbuf'[e][i] = rbuf[e][i]
      <3>1. rbuf[e][i] \in Frame /\ rbuf[e][i].n \in Nat
        BY <2>0, <2>3, ReceivedType
      <3>2. rbuf[e][i].src = e /\ rbuf[e][i].n <= nframes
        BY <2>3 DEF NumberInv
      <3>3. QED
        BY <1>1, <2>3, <3>1, <3>2
    <2>4. QED
      BY <2>1, <2>2, <2>3
  <1>6. ASSUME NEW m \in Msg, Id(m).n <= nframes PROVE Id(m).n <= nframes'
    BY <1>1, <1>6, IdType
  <1>7. Id(rxMsg').n <= nframes' /\ Id(txMsg').n <= nframes'
    BY <1>3, <1>6 DEF NumberInv, TypeOK
  <1>8. \A i \in Slots :
          Id(rxMsgs'[i]).n <= nframes' /\ Id(rxMsgs'[i]).src # "app"
    BY <1>3, <1>6 DEF NumberInv, TypeOK
  <1>9. \A e \in Can, b \in Buffers : Id(txReg'[e][b]).n <= nframes'
    BY <1>3, <1>6 DEF NumberInv, TypeOK
  <1>10. \A e \in Can : \A i \in 1 .. Len(bus'[e]) :
          Id(bus'[e][i]).n <= nframes'
    BY <1>3, <1>6 DEF NumberInv, TypeOK
  <1>11. QED
    BY <1>5, <1>7, <1>8, <1>9, <1>10 DEF NumberInv, Id

\* A transmission appends the message in the transmit buffer to the bus.
LEMMA TransmitBus ==
  ASSUME TypeOK, NEW c \in Can, NEW b \in Buffers, Transmit(c, b),
         NEW e \in Can
  PROVE  /\ e # c => bus'[e] = bus[e]
         /\ Len(bus'[c]) = Len(bus[c]) + 1 /\ Len(bus[c]) \in Nat
         /\ bus'[c][Len(bus[c]) + 1] = txReg[c][b]
         /\ \A i \in 1 .. Len(bus[c]) : bus'[c][i] = bus[c][i]
  <1>1. txReg[c][b] \in Msg /\ bus[c] \in Seq(Msg) /\ bus[e] \in Seq(Msg)
    BY DEF TypeOK
  <1>2. bus' = [bus EXCEPT ![c] = Append(bus[c], txReg[c][b])]
    BY DEF Transmit
  <1>3. bus'[c] = Append(bus[c], txReg[c][b]) /\ (e # c => bus'[e] = bus[e])
    BY <1>2 DEF TypeOK
  <1>4. QED
    BY <1>1, <1>3

\* Transmission makes no new number.
LEMMA TransmitNumber ==
  ASSUME TypeOK, NumberInv, NEW c \in Can, NEW b \in Buffers, Transmit(c, b)
  PROVE  NumberInv'
  <1>1. UNCHANGED <<rbuf, rxMsg, txMsg, rxMsgs, txReg, nframes>>
    BY DEF Transmit, queueVars
  <1>2. ASSUME NEW e \in Can, NEW i \in 1 .. Len(bus'[e])
        PROVE  Id(bus'[e][i]).n <= nframes
    <2>1. \/ i \in 1 .. Len(bus[e]) /\ bus'[e][i] = bus[e][i]
          \/ bus'[e][i] = txReg[c][b]
      BY <1>2, TransmitBus
    <2>2. QED
      BY <2>1 DEF NumberInv
  <1>3. QED
    BY <1>1, <1>2 DEF NumberInv, Id

\* What CAN_ReceiveMsg leaves behind: the message is the frame at the head of
\* the receive buffer, and that frame leaves it unless it is a remote frame.
LEMMA ReceiveHead ==
  ASSUME TypeOK, NEW c \in Can, Interrupting(c), CAN_ReceiveMsg(c)
  PROVE  /\ Len(rbuf[c]) \in Nat \ {0} /\ rbuf[c][1] \in Frame
         /\ Id(rxMsg') = rbuf[c][1]
         /\ \A e \in Can : e # c => rbuf'[e] = rbuf[e]
         /\ \/ rbuf' = rbuf /\ rbuf[c][1].type = "REMOTE_FRAME"
            \/ /\ Len(rbuf'[c]) = Len(rbuf[c]) - 1
               /\ \A i \in 1 .. Len(rbuf'[c]) : rbuf'[c][i] = rbuf[c][i + 1]
  <1>1. rbuf[c] \in Seq(Frame) /\ rbuf[c] # <<>>
    BY DEF TypeOK, Interrupting
  <1>2. /\ Len(rbuf[c]) \in Nat \ {0} /\ rbuf[c][1] \in Frame
        /\ Head(rbuf[c]) = rbuf[c][1]
    BY <1>1
  <1>3. CASE rbuf[c][1].type = "DATA_FRAME"
    <2>1. /\ rxMsg' = Whole(rbuf[c][1])
          /\ rbuf' = [rbuf EXCEPT ![c] = Tail(rbuf[c])]
      BY <1>2, <1>3 DEF CAN_ReceiveMsg
    <2>2. /\ rbuf'[c] = Tail(rbuf[c])
          /\ \A e \in Can : e # c => rbuf'[e] = rbuf[e]
      BY <2>1 DEF TypeOK
    <2>3. Id(rxMsg') = rbuf[c][1]
      BY <2>1 DEF Id, Whole, Words
    <2>4. QED
      BY <1>1, <1>2, <2>2, <2>3
  <1>4. CASE rbuf[c][1].type # "DATA_FRAME"
    <2>1. rbuf[c][1].type = "REMOTE_FRAME"
      BY <1>2, <1>4 DEF Frame
    <2>2. rbuf' = rbuf /\ Id(rxMsg') = rbuf[c][1]
      BY <1>2, <1>4 DEF CAN_ReceiveMsg, Id, TypeOK, Msg, Words
    <2>3. QED
      BY <1>2, <2>1, <2>2
  <1>5. QED
    BY <1>3, <1>4

\* The interrupt handler passes numbers on.
LEMMA IrqNumber ==
  ASSUME TypeOK, NumberInv, CAN_IRQHandler
  PROVE  NumberInv'
  <1>1. PICK c \in Can : Interrupting(c) /\ CAN_ReceiveMsg(c)
    BY DEF CAN_IRQHandler
  <1>2. q_put(rxMsg') /\ UNCHANGED <<txMsg, txReg, bus, nframes>>
    BY DEF CAN_IRQHandler, hwVars
  <1>3. /\ Len(rbuf[c]) \in Nat \ {0} /\ Id(rxMsg') = rbuf[c][1]
        /\ \A e \in Can : e # c => rbuf'[e] = rbuf[e]
        /\ \/ rbuf' = rbuf
           \/ /\ Len(rbuf'[c]) = Len(rbuf[c]) - 1
              /\ \A i \in 1 .. Len(rbuf'[c]) : rbuf'[c][i] = rbuf[c][i + 1]
    BY <1>1, ReceiveHead
  <1>4. Id(rxMsg').n <= nframes /\ Id(rxMsg').src # "app"
    <2>1. rbuf[c][1].src = c /\ rbuf[c][1].n <= nframes
      BY <1>3 DEF NumberInv
    <2>2. QED
      BY <1>3, <2>1 DEF Can
  <1>5. ASSUME NEW e \in Can, NEW i \in 1 .. Len(rbuf'[e])
        PROVE  rbuf'[e][i].src = e /\ rbuf'[e][i].n <= nframes
    <2>1. \/ i \in 1 .. Len(rbuf[e]) /\ rbuf'[e][i] = rbuf[e][i]
          \/ i + 1 \in 1 .. Len(rbuf[e]) /\ rbuf'[e][i] = rbuf[e][i + 1]
      BY <1>3, <1>5
    <2>2. QED
      BY <2>1 DEF NumberInv
  <1>6. \A i \in Slots :
          Id(rxMsgs'[i]).n <= nframes /\ Id(rxMsgs'[i]).src # "app"
    BY <1>2, <1>4 DEF q_put, NumberInv, TypeOK
  <1>7. QED
    BY <1>2, <1>4, <1>5, <1>6 DEF NumberInv, Id

\* A message of the application takes the next number.
LEMMA SendNumber ==
  ASSUME TypeOK, NumberInv, NEW c \in Targets, sendMessage(c)
  PROVE  NumberInv' /\ Id(txMsg').src = "app" /\ Id(txMsg').n = nframes + 1
  <1>1. nframes \in Nat /\ nframes' = nframes + 1
    BY DEF sendMessage, TypeOK
  <1>2. UNCHANGED <<rbuf, rxMsg, rxMsgs, txReg, bus>>
    BY DEF sendMessage, queueVars, hwVars
  <1>3. Id(txMsg').src = "app" /\ Id(txMsg').n = nframes + 1
    BY DEF sendMessage, Id, Whole, Words
  <1>4. ASSUME NEW m \in Msg, Id(m).n <= nframes PROVE Id(m).n <= nframes'
    BY <1>1, <1>4, IdType
  <1>5. Id(rxMsg').n <= nframes'
    BY <1>2, <1>4 DEF NumberInv, TypeOK
  <1>6. \A i \in Slots :
          Id(rxMsgs'[i]).n <= nframes' /\ Id(rxMsgs'[i]).src # "app"
    BY <1>2, <1>4 DEF NumberInv, TypeOK
  <1>7. \A e \in Can, b \in Buffers : Id(txReg'[e][b]).n <= nframes'
    BY <1>2, <1>4 DEF NumberInv, TypeOK
  <1>8. \A e \in Can : \A i \in 1 .. Len(bus'[e]) :
          Id(bus'[e][i]).n <= nframes'
    BY <1>2, <1>4 DEF NumberInv, TypeOK
  <1>9. ASSUME NEW e \in Can, NEW i \in 1 .. Len(rbuf'[e])
        PROVE  rbuf'[e][i].src = e /\ rbuf'[e][i].n <= nframes'
    <2>1. rbuf[e][i] \in Frame /\ rbuf[e][i].n \in Nat
      BY <1>2, ReceivedType
    <2>2. rbuf[e][i].src = e /\ rbuf[e][i].n <= nframes
      BY <1>2 DEF NumberInv
    <2>3. QED
      BY <1>1, <1>2, <2>1, <2>2
  <1>10. QED
    BY <1>1, <1>3, <1>5, <1>6, <1>7, <1>8, <1>9 DEF NumberInv, Id

\* CAN_SendMsg copies numbers that are already there.
LEMMA WriteNumber ==
  ASSUME TypeOK, NumberInv, WriteWord
  PROVE  NumberInv'
  <1>1. UNCHANGED <<rbuf, rxMsg, rxMsgs, txMsg, bus, nframes>>
    BY DEF WriteWord, queueVars
  <1>2. Id(Source).n <= nframes
    BY RingAssumption DEF NumberInv, Source, TypeOK, Slots
  <1>3. \A e \in Can, b \in Buffers :
          Id(txReg'[e][b]) \in {Id(txReg[e][b]), Id(Source)}
    BY DEF WriteWord, TypeOK, Id, Msg, Words
  <1>4. QED
    BY <1>1, <1>2, <1>3 DEF NumberInv, Id

\* Every step keeps NumberInv.
LEMMA NextNumber == TypeOK /\ NumberInv /\ [Next]_vars => NumberInv'
  <1> SUFFICES ASSUME TypeOK, NumberInv, [Next]_vars PROVE NumberInv'
    OBVIOUS
  <1>1. CASE UNCHANGED <<rbuf, rxMsg, txMsg, rxMsgs, txReg, bus, nframes>>
    BY <1>1 DEF NumberInv, Id
  <1>2. CASE Tick \/ canpt_task \/ SelectBuffer \/ RequestTransmission
             \/ EndWait \/ CheckLate \/ UNCHANGED vars
    BY <1>1, <1>2 DEF Tick, canpt_task, SelectBuffer, RequestTransmission,
      EndWait, CheckLate, vars, queueVars, hwVars
  <1>3. QED
    BY <1>2, ArriveNumber, TransmitNumber, IrqNumber, SendNumber, WriteNumber
    DEF Next, Main

\* SendInv holds at the start.
LEMMA InitSend == Init => SendInv
  BY DEF Init, SendInv

\* A transmission moves a message from its buffer to the bus.
LEMMA TransmitSend ==
  ASSUME TypeOK, SendInv,
         NEW c \in Can, NEW b \in Buffers, Transmit(c, b)
  PROVE  SendInv'
  <1>1. /\ UNCHANGED <<txMsg, txReg, pc, msg, dst, buf, to, time, wrapped>>
        /\ b \in pending[c] /\ pending' = [pending EXCEPT ![c] = @ \ {b}]
        /\ dst \in Can /\ buf \in Buffers
    BY DEF Transmit, mainVars, TypeOK
  <1>2. \A e \in Can : OnBus(e, txMsg) => OnBus(e, txMsg)'
    <2> SUFFICES ASSUME NEW e \in Can, NEW i \in 1 .. Len(bus[e]),
                        bus[e][i] = txMsg
                 PROVE  OnBus(e, txMsg)'
      BY DEF OnBus
    <2>1. i \in 1 .. Len(bus'[e]) /\ bus'[e][i] = bus[e][i]
      BY TransmitBus
    <2>2. QED
      BY <1>1, <2>1 DEF OnBus
  <1>3. OnBus(c, txReg[c][b])'
    <2>1. /\ Len(bus[c]) + 1 \in 1 .. Len(bus'[c])
          /\ bus'[c][Len(bus[c]) + 1] = txReg[c][b]
      BY TransmitBus
    <2>2. QED
      BY <1>1, <2>1 DEF OnBus
  <1>4. ASSUME pc = "SR", Sending, NEW e \in Can
        PROVE  ~OnBus(e, txMsg)'
    <2> SUFFICES ASSUME NEW i \in 1 .. Len(bus'[e]), bus'[e][i] = txMsg
                 PROVE  FALSE
      BY <1>1 DEF OnBus
    <2>1. \/ i \in 1 .. Len(bus[e]) /\ bus'[e][i] = bus[e][i]
          \/ bus'[e][i] = txReg[c][b]
      BY TransmitBus
    <2>2. QED
      BY <1>4, <2>1 DEF SendInv, OnBus
  <1>5. (pc = "SR" /\ Sending)' =>
          \A e \in Can : /\ ~OnBus(e, txMsg)'
                         /\ \A a \in Buffers : txReg'[e][a] # txMsg'
    BY <1>1, <1>4 DEF SendInv, Sending
  <1>6. (pc \in {"wait", "late"} /\ Sending)' =>
          \/ OnBus(dst, txMsg)'
          \/ buf' \in pending'[dst'] /\ txReg'[dst'][buf'] = txMsg'
    <2> SUFFICES ASSUME pc \in {"wait", "late"}, Sending
                 PROVE  \/ OnBus(dst, txMsg)'
                        \/ buf \in pending'[dst] /\ txReg[dst][buf] = txMsg
      BY <1>1 DEF Sending
    <2>1. CASE OnBus(dst, txMsg)
      <3>1. \E i \in 1 .. Len(bus'[dst]) : bus'[dst][i] = txMsg
        BY <1>1, <1>2, <2>1 DEF OnBus
      <3>2. QED
        BY <1>1, <3>1 DEF OnBus
    <2>2. CASE /\ buf \in pending[dst] /\ txReg[dst][buf] = txMsg
               /\ c = dst /\ b = buf
      <3>1. \E i \in 1 .. Len(bus'[dst]) : bus'[dst][i] = txMsg
        BY <1>1, <1>3, <2>2 DEF OnBus
      <3>2. QED
        BY <1>1, <3>1 DEF OnBus
    <2>3. CASE /\ buf \in pending[dst] /\ txReg[dst][buf] = txMsg
               /\ ~(c = dst /\ b = buf)
      BY <1>1, <2>3 DEF TypeOK
    <2>4. QED
      BY <2>1, <2>2, <2>3 DEF SendInv
  <1>7. (pc = "late")' => (TCS \/ wrapped \/ to <= time)'
    BY <1>1 DEF SendInv, TCS, TypeOK
  <1>8. QED
    BY <1>5, <1>6, <1>7 DEF SendInv

\* A counter modulo m goes up by one or starts again at 0.
LEMMA NextRemainder ==
  ASSUME NEW m \in Nat \ {0}, NEW t \in 0 .. m - 1
  PROVE  (t + 1) % m = 0 \/ (t + 1) % m = t + 1
  <1>1. CASE t + 1 = m
    BY <1>1
  <1>2. CASE t + 1 < m
    BY <1>2
  <1>3. QED
    BY <1>1, <1>2

\* The clock: a deadline that is over stays over until the clock wraps.
LEMMA TickSend ==
  ASSUME TypeOK, SendInv, Tick
  PROVE  SendInv'
  <1>1. UNCHANGED <<txMsg, txReg, pending, bus, pc, msg, dst, buf, to>>
    BY DEF Tick, hwVars, mainVars
  <1>2. /\ OnBus(dst, txMsg)' = OnBus(dst, txMsg) /\ TCS' = TCS
        /\ Sending' = Sending
        /\ \A c \in Can : OnBus(c, txMsg)' = OnBus(c, txMsg)
    BY <1>1 DEF OnBus, TCS, Sending
  <1>3. ASSUME pc = "late" PROVE (TCS \/ wrapped \/ to <= time)'
    <2>1. wrapped \/ time' = 0 => wrapped'
      BY <1>3 DEF Tick
    <2>2. time' = 0 \/ time' = time + 1
      <3>1. time' = (time + 1) % TimeMod
        BY DEF Tick
      <3>2. time \in 0 .. TimeMod - 1 /\ TimeMod \in Nat \ {0}
        BY ClockAssumption DEF TypeOK, Time
      <3>3. QED
        BY <3>1, <3>2, NextRemainder
    <2>3. time \in Nat /\ to \in Nat
      BY DEF TypeOK, Time
    <2>4. to <= time => to <= time + 1
      BY <2>3
    <2>5. QED
      BY <1>1, <1>2, <1>3, <2>1, <2>2, <2>4 DEF SendInv
  <1>4. QED
    BY <1>1, <1>2, <1>3 DEF SendInv

\* A step that starts a call, or ends one: the message is new, and nothing
\* is waited for.
LEMMA CallSend ==
  ASSUME TypeOK, NumberInv, canpt_task \/ \E c \in Targets : sendMessage(c)
  PROVE  SendInv'
  <1>1. CASE canpt_task
    <2>1. msg' # NUM_RX_MSGS /\ pc' = "SR"
      BY <1>1, RingAssumption DEF canpt_task, TypeOK, Slots
    <2>2. QED
      BY <2>1 DEF SendInv, Sending
  <1>2. ASSUME NEW c \in Targets, sendMessage(c) PROVE SendInv'
    <2>1. nframes \in Nat /\ pc' = "SR" /\ UNCHANGED <<bus, txReg>>
      BY <1>2 DEF sendMessage, TypeOK, hwVars
    <2>2. Id(txMsg').n = nframes + 1
      BY <1>2, SendNumber
    <2>3. ASSUME NEW m \in Msg, Id(m).n <= nframes PROVE m # txMsg'
      BY <2>1, <2>2, <2>3, IdType
    <2>4. \A e \in Can : ~OnBus(e, txMsg)'
      <3> SUFFICES ASSUME NEW e \in Can, NEW i \in 1 .. Len(bus[e]),
                          bus[e][i] = txMsg'
                   PROVE  FALSE
        BY <2>1 DEF OnBus
      <3>1. bus[e][i] \in Msg /\ Id(bus[e][i]).n <= nframes
        BY DEF TypeOK, NumberInv
      <3>2. QED
        BY <2>3, <3>1
    <2>5. \A e \in Can, b \in Buffers : txReg'[e][b] # txMsg'
      BY <2>1, <2>3 DEF TypeOK, NumberInv
    <2>6. QED
      BY <2>1, <2>4, <2>5 DEF SendInv
  <1>3. QED
    BY <1>1, <1>2

\* The steps of CAN_SendMsg and of the wait.
LEMMA MainSend ==
  ASSUME TypeOK, NumberInv, CopyInv, SendInv, Main
  PROVE  SendInv'
  <1>1. CASE SelectBuffer \/ WriteWord \/ CheckLate
    <2>1. pc' \notin {"SR", "wait", "late"}
      BY <1>1 DEF SelectBuffer, WriteWord, CheckLate, Return, After, Words
    <2>2. QED
      BY <2>1 DEF SendInv
  <1>2. CASE RequestTransmission
    <2>1. /\ pc' = "wait" /\ UNCHANGED <<txReg, txMsg, dst, buf, msg>>
          /\ pending' = [pending EXCEPT ![dst] = @ \cup {buf}]
      BY <1>2 DEF RequestTransmission
    <2>2. buf' \in pending'[dst'] /\ (Sending => txReg'[dst'][buf'] = txMsg')
      BY <1>2, <2>1, RequestSource DEF Source, Sending, TypeOK
    <2>3. QED
      BY <2>1, <2>2 DEF SendInv, Sending
  <1>3. CASE EndWait
    <2>1. /\ pc = "wait" /\ pc' = "late" /\ (TCS \/ to <= time)
          /\ UNCHANGED <<txReg, txMsg, pending, bus, dst, buf, msg, to, time>>
      BY <1>3 DEF EndWait, hwVars
    <2>2. OnBus(dst, txMsg)' = OnBus(dst, txMsg) /\ TCS' = TCS
      BY <2>1 DEF OnBus, TCS
    <2>3. QED
      BY <2>1, <2>2 DEF SendInv, Sending
  <1>4. QED
    BY <1>1, <1>2, <1>3, CallSend DEF Main

\* Every step keeps SendInv.
LEMMA NextSend ==
  TypeOK /\ NumberInv /\ CopyInv /\ SendInv /\ [Next]_vars => SendInv'
  <1> SUFFICES ASSUME TypeOK, NumberInv, CopyInv, SendInv, [Next]_vars
               PROVE  SendInv'
    OBVIOUS
  <1>1. CASE UNCHANGED <<txMsg, hwVars, mainVars, time, wrapped>>
    <2>1. UNCHANGED <<txMsg, txReg, pending, bus, pc, msg, dst, buf, to, time,
                      wrapped>>
      BY <1>1 DEF hwVars, mainVars
    <2>2. /\ OnBus(dst, txMsg)' = OnBus(dst, txMsg) /\ TCS' = TCS
          /\ \A c \in Can : OnBus(c, txMsg)' = OnBus(c, txMsg)
      BY <2>1 DEF OnBus, TCS
    <2>3. QED
      BY <2>1, <2>2 DEF SendInv, Sending
  <1>2. CASE CAN_IRQHandler \/ (\E c \in Can, t \in Types : Arrive(c, t))
             \/ UNCHANGED vars
    BY <1>1, <1>2 DEF CAN_IRQHandler, Arrive, vars
  <1>3. QED
    BY <1>2, TransmitSend, TickSend, MainSend DEF Next

\* What sendMessage returns tells the truth, for every timeout and width of
\* the clock: after ERR_OK the frame is on the bus unless the clock wrapped
\* during the wait, after ERR_CAN_SEND it is not and will not be.
THEOREM ResultIsTrue == Spec => SendResult
  <1> DEFINE Truth ==
        ret' # ret =>
          /\ ret' = "ERR_OK" /\ ~wrapped => OnBus(dst, txMsg)
          /\ ret' = "ERR_CAN_SEND" =>
               \A c \in Can : /\ ~OnBus(c, txMsg)
                              /\ \A b \in pending[c] : txReg[c][b] # txMsg
  <1>1. TypeOK /\ SendInv /\ [Next]_vars => Truth
    <2> SUFFICES ASSUME TypeOK, SendInv, [Next]_vars, ret' # ret PROVE Truth
      OBVIOUS
    <2>1. \/ ret' = "none"
          \/ SelectBuffer /\ Sending /\ ret' = "ERR_CAN_SEND"
          \/ CheckLate /\ Sending /\ ret' # "ERR_CAN_SEND"
      BY DEF Next, vars, Arrive, Transmit, Tick, CAN_IRQHandler, Main,
        canpt_task, sendMessage, SelectBuffer, WriteWord, RequestTransmission,
        EndWait, CheckLate, Return, Sending
    <2>2. CASE ret' = "none"
      BY <2>2
    <2>3. CASE SelectBuffer /\ Sending /\ ret' = "ERR_CAN_SEND"
      BY <2>3 DEF SelectBuffer, SendInv, TypeOK
    <2>4. CASE CheckLate /\ Sending /\ ret' # "ERR_CAN_SEND"
      <3>1. pc = "late" /\ (ret' = "ERR_OK" => ~(to <= time))
        BY <2>4 DEF CheckLate, Return, Sending
      <3>2. ret' = "ERR_OK" /\ ~wrapped => TCS
        BY <3>1 DEF SendInv
      <3>3. ret' = "ERR_OK" /\ ~wrapped => OnBus(dst, txMsg)
        BY <2>4, <3>1, <3>2 DEF SendInv, TCS
      <3>4. QED
        BY <2>4, <3>3
    <2>5. QED
      BY <2>1, <2>2, <2>3, <2>4
  <1>2. Spec => [](TypeOK /\ SendInv)
    <2>1. Init => TypeOK /\ NumberInv /\ SendInv
      BY InitType, InitNumber, InitSend
    <2>2. Spec => [](TypeOK /\ NumberInv /\ SendInv)
      BY <2>1, CopyAlways, NextType, NextNumber, NextSend, PTL DEF Spec
    <2>3. QED
      BY <2>2, PTL
  <1>3. Spec => [][Truth]_vars
    BY <1>1, <1>2, PTL DEF Spec
  <1>4. QED
    BY <1>3 DEF SendResult

\* OrderInv holds at the start.
LEMMA InitOrder == Init => OrderInv
  <1> SUFFICES ASSUME Init PROVE OrderInv
    OBVIOUS
  <1>1. Len(QueueItems) = 0
    BY InitType, RingType, QueueSeq DEF Init, ItemsAre, Held, CountOf
  <1>2. /\ \A c \in Can : bus[c] = <<>> /\ rbuf[c] = <<>> /\ pending[c] = {}
        /\ pc = "loop"
    BY DEF Init
  <1>3. ~Copying /\ ~Unsent /\ InOrderOnce
    BY <1>2 DEF Copying, Unsent, InOrderOnce, Words
  <1>4. QED
    BY <1>1, <1>2, <1>3 DEF OrderInv, SentInv, WaitingInv

\* What QueueItems holds are messages; it does not change unless the ring does.
LEMMA QueueType == TypeOK => /\ QueueItems \in Seq(Msg)
                             /\ Len(QueueItems) \in Nat
                             /\ \A k \in 1 .. Len(QueueItems) :
                                  /\ QueueItems[k] \in Msg
                                  /\ Id(QueueItems[k]) \in Frame
  <1> SUFFICES ASSUME TypeOK
               PROVE  /\ QueueItems \in Seq(Msg)
                      /\ Len(QueueItems) \in Nat
                      /\ \A k \in 1 .. Len(QueueItems) :
                           /\ QueueItems[k] \in Msg
                           /\ Id(QueueItems[k]) \in Frame
    OBVIOUS
  <1>1. QueueItems \in Seq(Msg)
    BY RingType, QueueSeq DEF ItemsAre
  <1>2. QED
    BY <1>1, IdType

\* A remote frame at the head of a receive buffer stays there.
LEMMA StuckForGood == TypeOK /\ Stuck /\ [Next]_vars => Stuck'
  <1> SUFFICES ASSUME TypeOK, [Next]_vars, NEW c \in Can,
                      rbuf[c] # <<>>, rbuf[c][1].type = "REMOTE_FRAME"
               PROVE  rbuf'[c] # <<>> /\ rbuf'[c][1].type = "REMOTE_FRAME"
    BY DEF Stuck
  <1>1. CASE UNCHANGED rbuf
    BY <1>1
  <1>2. ASSUME NEW e \in Can, NEW t \in Types, Arrive(e, t)
        PROVE  rbuf'[c] # <<>> /\ rbuf'[c][1] = rbuf[c][1]
    <2> DEFINE f == [src |-> e, n |-> nframes + 1, type |-> t]
    <2>1. f \in Frame
      BY <1>2, FrameAssumption DEF Arrive, TypeOK, Frame
    <2> HIDE DEF f
    <2>2. rbuf[c] \in Seq(Frame)
      BY DEF TypeOK
    <2>3. rbuf'[c] = rbuf[c] \/ rbuf'[c] = Append(rbuf[c], f)
      BY <1>2 DEF Arrive, TypeOK, f
    <2>4. QED
      BY <2>1, <2>2, <2>3
  <1>3. CASE CAN_IRQHandler
    <2>1. PICK e \in Can : Interrupting(e) /\ CAN_ReceiveMsg(e)
      BY <1>3 DEF CAN_IRQHandler
    <2>2. CASE e # c
      BY <2>1, <2>2, ReceiveHead
    <2>3. CASE e = c
      BY <2>1, <2>3 DEF CAN_ReceiveMsg, TypeOK
    <2>4. QED
      BY <2>2, <2>3
  <1>4. [Next]_vars => \/ \E e \in Can, t \in Types : Arrive(e, t)
                       \/ CAN_IRQHandler \/ UNCHANGED rbuf
    BY DEF Next, vars, Transmit, Tick, Main, canpt_task, sendMessage,
      SelectBuffer, WriteWord, RequestTransmission, EndWait, CheckLate
  <1>5. QED
    BY <1>1, <1>2, <1>3, <1>4

-----------------------------------------------------------------------------
(* What is sent stays in order.                                            *)

SentSame == UNCHANGED <<bus, pending, txReg, pc, buf, Source>>

\* A step that leaves the buses, the transmit buffers and the message being
\* sent alone keeps their order.
LEMMA SameSent ==
  ASSUME SentInv, SentSame
  PROVE  SentInv' /\ \A f : AfterSent(f) => AfterSent(f)'
  <1>1. /\ InOrderOnce' = InOrderOnce /\ Copying' = Copying /\ Unsent' = Unsent
        /\ Id(Source)' = Id(Source)
    BY DEF SentSame, InOrderOnce, Copying, Unsent, Id
  <1>2. QED
    BY <1>1 DEF SentInv, SentSame, AfterSent, Id

\* A transmission moves the only pending message to the end of the bus.
LEMMA TransmitSent ==
  ASSUME TypeOK, SentInv, NEW c \in Can, NEW b \in Buffers, Transmit(c, b)
  PROVE  SentInv' /\ \A f : AfterSent(f) => AfterSent(f)'
  <1>1. /\ UNCHANGED <<txReg, pc, buf, Source>>
        /\ b \in pending[c] /\ pending' = [pending EXCEPT ![c] = @ \ {b}]
    BY DEF Transmit, mainVars, queueVars, Source
  <1>2. /\ Copying' = Copying /\ Unsent' = Unsent /\ Id(Source)' = Id(Source)
        /\ \A e \in Can, a \in Buffers : Id(txReg[e][a])' = Id(txReg[e][a])
    BY <1>1 DEF Copying, Unsent, Id
  <1>3. b = 1 /\ pending'[c] = {}
        /\ \A e \in Can : pending'[e] \subseteq pending[e]
    BY <1>1 DEF SentInv, TypeOK
  <1>4. \A e \in Can : \A i \in 1 .. Len(bus'[e]) :
          \/ i \in 1 .. Len(bus[e]) /\ bus'[e][i] = bus[e][i]
          \/ e = c /\ i = Len(bus[c]) + 1 /\ bus'[e][i] = txReg[c][b]
    BY TransmitBus
  <1>5. \A e \in Can : Len(bus[e]) \in Nat
    BY DEF TypeOK
  <1>6. ASSUME NEW e \in Can, NEW i \in 1 .. Len(bus'[e]),
               NEW j \in 1 .. Len(bus'[e]), i < j
        PROVE  Precedes(Id(bus'[e][i]), Id(bus'[e][j]))
    <2>1. i \in 1 .. Len(bus[e]) /\ bus'[e][i] = bus[e][i]
      BY <1>4, <1>5, <1>6, TransmitBus
    <2>2. CASE j \in 1 .. Len(bus[e]) /\ bus'[e][j] = bus[e][j]
      BY <1>6, <2>1, <2>2 DEF SentInv, InOrderOnce, Precedes, Id
    <2>3. CASE e = c /\ bus'[e][j] = txReg[c][b]
      BY <1>1, <2>1, <2>3 DEF SentInv
    <2>4. QED
      BY <1>4, <2>2, <2>3
  <1>7. InOrderOnce'
    BY <1>6 DEF InOrderOnce, Precedes, Id
  <1>8. ASSUME NEW e \in Can, NEW a \in pending'[e],
               NEW i \in 1 .. Len(bus'[e])
        PROVE  Precedes(Id(bus'[e][i]), Id(txReg'[e][a]))
    <2>1. /\ e # c /\ a \in pending[e]
          /\ i \in 1 .. Len(bus[e]) /\ bus'[e][i] = bus[e][i]
      BY <1>3, <1>4, <1>8
    <2>2. QED
      BY <1>1, <2>1 DEF SentInv
  <1>9. ASSUME Unsent, NEW e \in Can
        PROVE  /\ \A i \in 1 .. Len(bus'[e]) :
                    Precedes(Id(bus'[e][i]), Id(Source))
               /\ \A a \in pending'[e] : Precedes(Id(txReg[e][a]), Id(Source))
    BY <1>1, <1>3, <1>4, <1>9 DEF SentInv
  <1>10. SentInv'
    BY <1>1, <1>2, <1>3, <1>7, <1>8, <1>9 DEF SentInv, Id
  <1>11. ASSUME NEW f, AfterSent(f) PROVE AfterSent(f)'
    <2>1. \A e \in Can : \A i \in 1 .. Len(bus'[e]) :
            Precedes(Id(bus'[e][i]), f)
      BY <1>1, <1>4, <1>11 DEF AfterSent
    <2>2. \A e \in Can : \A a \in pending'[e] : Precedes(Id(txReg'[e][a]), f)
      BY <1>1, <1>3, <1>11 DEF AfterSent
    <2>3. Unsent' => Precedes(Id(Source)', f)
      BY <1>2, <1>11 DEF AfterSent
    <2>4. QED
      BY <2>1, <2>2, <2>3 DEF AfterSent, Id, Precedes
  <1>12. QED
    BY <1>10, <1>11

\* CAN_SendMsg selects the first transmit buffer, or gives up.
LEMMA SelectSent ==
  ASSUME TypeOK, SentInv, SelectBuffer
  PROVE  SentInv' /\ \A f : AfterSent(f) => AfterSent(f)'
  <1>1. UNCHANGED <<bus, pending, txReg, Source>> /\ pc = "SR"
    BY DEF SelectBuffer, hwVars, queueVars, Source
  <1>2. (pc' = "TFI" /\ buf' = 1) \/ pc' = "loop"
    BY SelectsOnlyOne DEF SelectBuffer, Return
  <1>3. /\ InOrderOnce' = InOrderOnce /\ (Copying' => buf' = 1)
        /\ (Unsent' => Unsent) /\ Id(Source)' = Id(Source)
    BY <1>1, <1>2 DEF InOrderOnce, Copying, Unsent, Id, Words
  <1>4. QED
    BY <1>1, <1>3 DEF SentInv, AfterSent, Id

\* CAN_SendMsg writes to a transmit buffer that is not pending.
LEMMA WriteSent ==
  ASSUME TypeOK, CopyInv, SentInv, WriteWord
  PROVE  SentInv' /\ \A f : AfterSent(f) => AfterSent(f)'
  <1>1. UNCHANGED <<bus, pending, buf, Source>> /\ Unsent /\ Copying
    BY DEF WriteWord, queueVars, Source, Unsent, Copying
  <1>2. \A c \in Can : \A b \in pending[c] : txReg'[c][b] = txReg[c][b]
    <2>1. buf \notin pending[dst] /\ dst \in Can /\ buf \in Buffers
      BY <1>1 DEF CopyInv, TypeOK
    <2>2. QED
      BY <2>1 DEF WriteWord, TypeOK
  <1>3. InOrderOnce' = InOrderOnce /\ Id(Source)' = Id(Source) /\ buf' = 1
    BY <1>1 DEF InOrderOnce, Id, SentInv
  <1>4. QED
    BY <1>1, <1>2, <1>3 DEF SentInv, AfterSent, Id

\* The message being sent becomes the pending one.
LEMMA RequestSent ==
  ASSUME TypeOK, CopyInv, SentInv, RequestTransmission
  PROVE  SentInv' /\ \A f : AfterSent(f) => AfterSent(f)'
  <1>1. /\ UNCHANGED <<bus, txReg, buf>> /\ Unsent /\ Copying
        /\ pending' = [pending EXCEPT ![dst] = @ \cup {buf}]
        /\ ~Unsent' /\ ~Copying'
    BY DEF RequestTransmission, Unsent, Copying, Words
  <1>2. \A c \in Can : \A b \in pending'[c] :
          \/ b \in pending[c]
          \/ b = 1 /\ Id(txReg[c][b]) = Id(Source)
    BY <1>1, RequestSource DEF TypeOK, SentInv
  <1>3. InOrderOnce' = InOrderOnce
    BY <1>1 DEF InOrderOnce
  <1>4. \A c \in Can : \A b \in pending'[c] : \A i \in 1 .. Len(bus[c]) :
          Precedes(Id(bus[c][i]), Id(txReg[c][b]))
    BY <1>1, <1>2 DEF SentInv
  <1>5. \A c \in Can : pending'[c] \subseteq {1}
    BY <1>2 DEF SentInv
  <1>6. SentInv'
    BY <1>1, <1>3, <1>4, <1>5 DEF SentInv, Id
  <1>7. ASSUME NEW f, AfterSent(f) PROVE AfterSent(f)'
    <2>1. \A c \in Can : \A b \in pending'[c] : Precedes(Id(txReg[c][b]), f)
      BY <1>1, <1>2, <1>7 DEF AfterSent
    <2>2. QED
      BY <1>1, <1>7, <2>1 DEF AfterSent, Id
  <1>8. QED
    BY <1>6, <1>7

\* The wait.
LEMMA WaitSent ==
  ASSUME SentInv, EndWait \/ CheckLate
  PROVE  SentInv' /\ \A f : AfterSent(f) => AfterSent(f)'
  <1>1. UNCHANGED <<bus, pending, txReg, buf>> /\ ~Unsent' /\ ~Copying'
    BY DEF EndWait, CheckLate, Return, hwVars, Unsent, Copying, Words
  <1>2. InOrderOnce' = InOrderOnce
    BY <1>1 DEF InOrderOnce
  <1>3. QED
    BY <1>1, <1>2 DEF SentInv, AfterSent, Id

-----------------------------------------------------------------------------
(* What waits stays in order.                                              *)

\* A step of the sending side that starts no call leaves the waiting frames
\* where they are.
LEMMA SameWaiting ==
  ASSUME TypeOK, WaitingInv, UNCHANGED <<queueVars, rbuf>>,
         \A f : AfterSent(f) => AfterSent(f)'
  PROVE  WaitingInv'
  <1>1. QueueItems' = QueueItems /\ rbuf' = rbuf
    BY DEF queueVars, QueueItems, Count
  <1>2. \A k \in 1 .. Len(QueueItems) : AfterSent(Id(QueueItems[k]))'
    <2> SUFFICES ASSUME NEW k \in 1 .. Len(QueueItems)
                 PROVE  AfterSent(Id(QueueItems[k]))'
      OBVIOUS
    <2>1. PICK f : f = Id(QueueItems[k])
      OBVIOUS
    <2>2. AfterSent(f)'
      BY <2>1 DEF WaitingInv
    <2>3. Id(QueueItems[k])' = f
      BY <1>1, <2>1 DEF Id
    <2>4. QED
      BY <2>2, <2>3 DEF AfterSent
  <1>3. \A c \in Can : \A i \in 1 .. Len(rbuf[c]) : AfterSent(rbuf[c][i])'
    <2> SUFFICES ASSUME NEW c \in Can, NEW i \in 1 .. Len(rbuf[c])
                 PROVE  AfterSent(rbuf[c][i])'
      OBVIOUS
    <2>1. PICK f : f = rbuf[c][i]
      OBVIOUS
    <2>2. AfterSent(f)'
      BY <2>1 DEF WaitingInv
    <2>3. QED
      BY <1>1, <2>1, <2>2 DEF AfterSent
  <1>4. QED
    BY <1>1, <1>2, <1>3 DEF WaitingInv, Id

\* What is queued is in a slot of the ring, so its number is not ahead.
LEMMA QueueNumber ==
  ASSUME TypeOK, NumberInv, NEW k \in 1 .. Len(QueueItems)
  PROVE  Id(QueueItems[k]).n <= nframes /\ Id(QueueItems[k]).src # "app"
  <1>1. ItemsAre /\ RingOK
    BY RingType, QueueSeq
  <1>2. /\ k \in 1 .. Held /\ k - 1 \in 0 .. NUM_RX_MSGS - 1
        /\ QueueItems[k] = rxMsgs[PosOf(rxMsgOut, k - 1)]
    BY <1>1, RingAssumption DEF ItemsAre
  <1>3. PosOf(rxMsgOut, k - 1) \in Slots
    BY <1>1, <1>2, PosOfRemainder DEF RingOK
  <1>4. QED
    BY <1>2, <1>3 DEF NumberInv

\* A frame with a new number comes after all others.
LEMMA NewIsLast ==
  ASSUME TypeOK, NumberInv, NEW f, f.n = nframes + 1
  PROVE  /\ AfterSent(f)
         /\ \A k \in 1 .. Len(QueueItems) : Precedes(Id(QueueItems[k]), f)
  <1>1. ASSUME NEW g \in Frame, g.n <= nframes PROVE Precedes(g, f)
    <2>1. g.n \in Nat /\ nframes \in Nat
      BY FrameAssumption DEF Frame, TypeOK
    <2>2. QED
      BY <1>1, <2>1 DEF Precedes
  <1>2. \A c \in Can : \A i \in 1 .. Len(bus[c]) : Precedes(Id(bus[c][i]), f)
    BY <1>1, IdType DEF NumberInv, TypeOK
  <1>3. \A c \in Can : \A b \in pending[c] : Precedes(Id(txReg[c][b]), f)
    BY <1>1, IdType DEF NumberInv, TypeOK
  <1>4. Precedes(Id(Source), f)
    <2>1. Source \in Msg /\ Id(Source).n <= nframes
      BY SourceType, RingAssumption DEF NumberInv, Source, TypeOK, Slots
    <2>2. QED
      BY <1>1, <2>1, IdType
  <1>5. \A k \in 1 .. Len(QueueItems) : Precedes(Id(QueueItems[k]), f)
    BY <1>1, QueueNumber, QueueType
  <1>6. QED
    BY <1>2, <1>3, <1>4, <1>5 DEF AfterSent

\* A frame that arrives queues up behind the others of its controller.
LEMMA ArriveOrder ==
  ASSUME TypeOK, NumberInv, OrderInv, NEW c \in Can, NEW t \in Types,
         Arrive(c, t)
  PROVE  SentInv' /\ (WaitingInv => WaitingInv')
  <1> DEFINE f == [src |-> c, n |-> nframes + 1, type |-> t]
  <1>1. f.n = nframes + 1 /\ f \in Frame
    BY FrameAssumption DEF Arrive, TypeOK, Frame
  <1>2. rbuf' = rbuf \/ rbuf' = [rbuf EXCEPT ![c] = Append(@, f)]
    BY DEF Arrive
  <1> HIDE DEF f
  <1>3. SentSame /\ QueueItems' = QueueItems
    BY DEF Arrive, SentSame, hwVars, mainVars, queueVars, Source, QueueItems,
      Count
  <1>4. SentInv' /\ \A g : AfterSent(g) => AfterSent(g)'
    BY <1>3, SameSent DEF OrderInv
  <1>5. ASSUME WaitingInv PROVE WaitingInv'
    <2>1. ASSUME NEW e \in Can, NEW i \in 1 .. Len(rbuf'[e])
          PROVE  \/ i \in 1 .. Len(rbuf[e]) /\ rbuf'[e][i] = rbuf[e][i]
                 \/ e = c /\ i = Len(rbuf[e]) + 1 /\ rbuf'[e][i] = f
      <3>1. rbuf[e] \in Seq(Frame) /\ rbuf[c] \in Seq(Frame)
        BY DEF TypeOK
      <3>2. rbuf'[e] = rbuf[e] \/ (e = c /\ rbuf'[e] = Append(rbuf[e], f))
        BY <1>2 DEF TypeOK
      <3>3. QED
        BY <1>1, <2>1, <3>1, <3>2
    <2>2. ASSUME NEW e \in Can, NEW i \in 1 .. Len(rbuf'[e])
          PROVE  /\ AfterSent(rbuf[e][i])'
                 /\ \A k \in 1 .. Len(QueueItems) :
                      Precedes(Id(QueueItems[k]), rbuf'[e][i])
      <3>1. PICK g : g = rbuf'[e][i]
        OBVIOUS
      <3>2. /\ AfterSent(g)
            /\ \A k \in 1 .. Len(QueueItems) : Precedes(Id(QueueItems[k]), g)
        BY <1>1, <1>5, <2>1, <3>1, NewIsLast DEF WaitingInv
      <3>3. AfterSent(g)'
        BY <1>4, <3>2
      <3>4. QED
        BY <3>1, <3>2, <3>3 DEF AfterSent
    <2>3. ASSUME NEW e \in Can, NEW i \in 1 .. Len(rbuf'[e]),
                 NEW j \in 1 .. i - 1
          PROVE  rbuf'[e][j].n < rbuf'[e][i].n
      <3>1. Len(rbuf[e]) \in Nat
        BY DEF TypeOK
      <3>2. i \in 1 .. Len(rbuf[e]) \/ (e = c /\ i = Len(rbuf[e]) + 1)
        BY <2>1
      <3>3. j \in 1 .. Len(rbuf[e]) /\ j \in 1 .. Len(rbuf'[e])
        BY <2>3, <3>1, <3>2
      <3>4. rbuf'[e][j] = rbuf[e][j]
        BY <2>1, <3>1, <3>3
      <3>5. CASE i \in 1 .. Len(rbuf[e]) /\ rbuf'[e][i] = rbuf[e][i]
        BY <1>5, <2>3, <3>4, <3>5 DEF WaitingInv
      <3>6. CASE rbuf'[e][i] = f
        <4>1. /\ rbuf[e][j].n \in Nat /\ nframes \in Nat
              /\ rbuf[e][j].n <= nframes
          BY <3>3, ReceivedType DEF NumberInv, TypeOK
        <4>2. QED
          BY <1>1, <3>4, <3>6, <4>1
      <3>7. QED
        BY <2>1, <3>5, <3>6
    <2>4. \A k \in 1 .. Len(QueueItems) : AfterSent(Id(QueueItems[k]))'
      <3> SUFFICES ASSUME NEW k \in 1 .. Len(QueueItems)
                   PROVE  AfterSent(Id(QueueItems[k]))'
        OBVIOUS
      <3>1. PICK g : g = Id(QueueItems[k])
        OBVIOUS
      <3>2. AfterSent(g)'
        BY <1>4, <1>5, <3>1 DEF WaitingInv
      <3>3. Id(QueueItems[k])' = g
        BY <1>3, <3>1 DEF Id
      <3>4. QED
        BY <3>2, <3>3 DEF AfterSent
    <2>5. \A j, k \in 1 .. Len(QueueItems) :
            j < k => Precedes(Id(QueueItems[j]), Id(QueueItems[k]))
      BY <1>5 DEF WaitingInv
    <2>6. QED
      BY <1>3, <2>2, <2>3, <2>4, <2>5 DEF WaitingInv, Id
  <1>6. QED
    BY <1>4, <1>5

\* The interrupt handler moves the oldest frame of a controller to the end of
\* the ring, or drops it.
LEMMA IrqOrder ==
  ASSUME TypeOK, TypeOK', SlotInv, NumberInv, OrderInv, CAN_IRQHandler
  PROVE  SentInv' /\ (~Stuck /\ WaitingInv => WaitingInv')
  <1>1. PICK c \in Can : Interrupting(c) /\ CAN_ReceiveMsg(c)
    BY DEF CAN_IRQHandler
  <1>2. q_put(rxMsg') /\ UNCHANGED <<txMsg, bus, pending, txReg, pc, msg, buf>>
    BY DEF CAN_IRQHandler, hwVars, mainVars
  <1>3. SentSame
    BY <1>2, IrqSlot DEF SentSame, Source
  <1>4. SentInv' /\ \A g : AfterSent(g) => AfterSent(g)'
    BY <1>3, SameSent DEF OrderInv
  <1>5. ASSUME ~Stuck, WaitingInv PROVE WaitingInv'
    <2>1. /\ Len(rbuf[c]) \in Nat \ {0} /\ rbuf[c][1] \in Frame
          /\ Id(rxMsg') = rbuf[c][1]
          /\ \A e \in Can : e # c => rbuf'[e] = rbuf[e]
          /\ \/ rbuf' = rbuf /\ rbuf[c][1].type = "REMOTE_FRAME"
             \/ /\ Len(rbuf'[c]) = Len(rbuf[c]) - 1
                /\ \A i \in 1 .. Len(rbuf'[c]) : rbuf'[c][i] = rbuf[c][i + 1]
      BY <1>1, ReceiveHead
    <2>2. rbuf[c][1].type # "REMOTE_FRAME"
      BY <1>1, <1>5 DEF Stuck, Interrupting
    <2>3. /\ Len(rbuf'[c]) = Len(rbuf[c]) - 1
          /\ \A i \in 1 .. Len(rbuf'[c]) : rbuf'[c][i] = rbuf[c][i + 1]
      BY <2>1, <2>2
    <2> DEFINE m == rxMsg'
    <2>4. m \in Msg /\ Id(m) = rbuf[c][1]
      BY <2>1 DEF TypeOK
    <2>5. QueueItems \in Seq(Msg) /\ Len(QueueItems) \in Nat
          /\ (QueueItems' = QueueItems \/ QueueItems' = Append(QueueItems, m))
      <3>1. QueueItems \in Seq(Msg) /\ Len(QueueItems) \in Nat
        BY QueueType
      <3>2. CASE Full
        <4>1. UNCHANGED <<rxMsgs, rxMsgIn, rxMsgOut>>
          BY <1>2, <3>2 DEF q_put
        <4>2. QED
          BY <3>1, <4>1 DEF QueueItems, Count
      <3>3. CASE ~Full
        BY <1>2, <2>4, <3>1, <3>3, RingType, RingTypeNext, StoreItems
      <3>4. QED
        BY <3>2, <3>3
    <2> HIDE DEF m
    <2>6. ASSUME NEW k \in 1 .. Len(QueueItems')
          PROVE  \/ k \in 1 .. Len(QueueItems) /\ QueueItems'[k] = QueueItems[k]
                 \/ k = Len(QueueItems) + 1 /\ Id(QueueItems'[k]) = rbuf[c][1]
      BY <2>4, <2>5, <2>6
    <2>7. ASSUME NEW e \in Can, NEW i \in 1 .. Len(rbuf'[e])
          PROVE  \/ e # c /\ i \in 1 .. Len(rbuf[e]) /\ rbuf'[e][i] = rbuf[e][i]
                 \/ /\ e = c /\ i + 1 \in 2 .. Len(rbuf[e])
                    /\ rbuf'[e][i] = rbuf[e][i + 1]
      BY <2>1, <2>3, <2>7
    <2>8. \A k \in 1 .. Len(QueueItems') : AfterSent(Id(QueueItems[k]))'
      <3> SUFFICES ASSUME NEW k \in 1 .. Len(QueueItems')
                   PROVE  AfterSent(Id(QueueItems[k]))'
        OBVIOUS
      <3>1. PICK g : g = Id(QueueItems'[k])
        OBVIOUS
      <3>2. AfterSent(g)
        BY <1>5, <2>1, <2>6, <3>1 DEF WaitingInv
      <3>3. AfterSent(g)' /\ Id(QueueItems[k])' = g
        BY <1>4, <3>1, <3>2 DEF Id
      <3>4. QED
        BY <3>3 DEF AfterSent
    <2>9. ASSUME NEW j \in 1 .. Len(QueueItems'),
                 NEW k \in 1 .. Len(QueueItems'),
                 j < k
          PROVE  Precedes(Id(QueueItems'[j]), Id(QueueItems'[k]))
      <3>1. j \in 1 .. Len(QueueItems) /\ QueueItems'[j] = QueueItems[j]
        BY <2>5, <2>6, <2>9
      <3>2. CASE k \in 1 .. Len(QueueItems) /\ QueueItems'[k] = QueueItems[k]
        BY <1>5, <2>9, <3>1, <3>2 DEF WaitingInv
      <3>3. CASE Id(QueueItems'[k]) = rbuf[c][1]
        BY <1>5, <2>1, <3>1, <3>3 DEF WaitingInv
      <3>4. QED
        BY <2>6, <3>2, <3>3
    <2>10. ASSUME NEW e \in Can, NEW i \in 1 .. Len(rbuf'[e])
           PROVE  AfterSent(rbuf[e][i])'
      <3>1. PICK g : g = rbuf'[e][i]
        OBVIOUS
      <3>2. AfterSent(g)
        BY <1>5, <2>1, <2>7, <3>1 DEF WaitingInv
      <3>3. AfterSent(g)'
        BY <1>4, <3>2
      <3>4. QED
        BY <3>1, <3>3 DEF AfterSent
    <2>11. ASSUME NEW e \in Can, NEW i \in 1 .. Len(rbuf'[e]),
                  NEW k \in 1 .. Len(QueueItems')
           PROVE  Precedes(Id(QueueItems'[k]), rbuf'[e][i])
      <3>1. CASE k \in 1 .. Len(QueueItems) /\ QueueItems'[k] = QueueItems[k]
        <4>1. \E h \in 1 .. Len(rbuf[e]) : rbuf'[e][i] = rbuf[e][h]
          <5>1. CASE e # c
            BY <2>7, <5>1
          <5>2. CASE e = c
            <6>1. /\ i + 1 \in 1 .. Len(rbuf[e])
                  /\ rbuf'[e][i] = rbuf[e][i + 1]
              BY <2>1, <2>7, <5>2
            <6>2. QED
              BY <6>1
          <5>3. QED
            BY <5>1, <5>2
        <4>2. QED
          BY <1>5, <3>1, <4>1 DEF WaitingInv
      <3>2. CASE Id(QueueItems'[k]) = rbuf[c][1] /\ e = c
        <4>1. /\ i + 1 \in 1 .. Len(rbuf[c]) /\ 1 \in 1 .. (i + 1) - 1
              /\ rbuf'[e][i] = rbuf[c][i + 1]
          BY <2>1, <2>7, <3>2
        <4>2. rbuf[c][1].n < rbuf[c][i + 1].n
          BY <1>5, <4>1 DEF WaitingInv
        <4>3. QED
          BY <3>2, <4>1, <4>2 DEF Precedes
      <3>3. CASE Id(QueueItems'[k]) = rbuf[c][1] /\ e # c
        <4>1. rbuf'[e][i].src = e /\ rbuf[c][1].src = c
          BY <2>1, <2>7, <3>3 DEF NumberInv
        <4>2. QED
          BY <3>3, <4>1 DEF Precedes
      <3>4. QED
        BY <2>6, <3>1, <3>2, <3>3
    <2>12. ASSUME NEW e \in Can, NEW i \in 1 .. Len(rbuf'[e]),
                  NEW j \in 1 .. i - 1
           PROVE  rbuf'[e][j].n < rbuf'[e][i].n
      <3>1. j \in 1 .. Len(rbuf'[e])
        BY <2>12 DEF TypeOK
      <3>2. CASE e = c
        <4>1. /\ rbuf'[e][i] = rbuf[c][i + 1] /\ rbuf'[e][j] = rbuf[c][j + 1]
              /\ i + 1 \in 1 .. Len(rbuf[c]) /\ j + 1 \in 1 .. (i + 1) - 1
          BY <2>1, <2>7, <2>12, <3>1, <3>2
        <4>2. QED
          BY <1>5, <4>1 DEF WaitingInv
      <3>3. CASE e # c
        BY <1>5, <2>7, <2>12, <3>1, <3>3 DEF WaitingInv
      <3>4. QED
        BY <3>2, <3>3
    <2>13. QED
      BY <2>8, <2>9, <2>10, <2>11, <2>12 DEF WaitingInv, Id
  <1>6. QED
    BY <1>4, <1>5

\* No receive interrupt is pending while the main loop runs.
LEMMA MainRunsClear == MainRuns => ~Stuck /\ \A c \in Can : rbuf[c] = <<>>
  BY DEF MainRuns, Interrupting, Stuck

\* canpt_task starts to send the oldest message of the ring.
LEMMA TaskOrder ==
  ASSUME TypeOK, TypeOK', OrderInv, canpt_task
  PROVE  OrderInv'
  <1>1. /\ UNCHANGED <<rbuf, bus, pending, txReg, rxMsgs>>
        /\ pc' = "SR" /\ msg' = rxMsgOut /\ got' = rxMsgs[rxMsgOut] /\ MainRuns
    BY DEF canpt_task, hwVars
  <1>2. /\ QueueItems # <<>> /\ got' = Head(QueueItems)
        /\ QueueItems' = Tail(QueueItems)
    BY RingType, RingTypeNext, TakeStep DEF Fifo!Take
  <1>3. QueueItems \in Seq(Msg) /\ Len(QueueItems) \in Nat
    BY QueueType
  <1>4. /\ Len(QueueItems) >= 1 /\ got' = QueueItems[1]
        /\ Len(QueueItems') = Len(QueueItems) - 1
        /\ \A k \in 1 .. Len(QueueItems') : QueueItems'[k] = QueueItems[k + 1]
    BY <1>2, <1>3
  <1>5. Source' = got'
    BY <1>1, RingAssumption DEF Source, TypeOK, Slots
  <1>6. WaitingInv /\ SentInv /\ \A c \in Can : rbuf[c] = <<>>
    BY <1>1, MainRunsClear DEF OrderInv
  <1>7. AfterSent(Id(QueueItems[1]))
    BY <1>4, <1>6 DEF WaitingInv
  <1>8. InOrderOnce' = InOrderOnce /\ ~Copying' /\ Unsent'
    BY <1>1 DEF InOrderOnce, Copying, Unsent, Words
  <1>9. Id(Source)' = Id(QueueItems[1])
    BY <1>4, <1>5 DEF Id
  <1>10. SentInv'
    BY <1>1, <1>6, <1>7, <1>8, <1>9 DEF SentInv, AfterSent, Id
  <1>11. ASSUME NEW k \in 1 .. Len(QueueItems')
         PROVE  AfterSent(Id(QueueItems[k]))'
    <2>1. /\ k + 1 \in 1 .. Len(QueueItems) /\ 1 < k + 1
          /\ 1 \in 1 .. Len(QueueItems)
          /\ QueueItems'[k] = QueueItems[k + 1]
      BY <1>3, <1>4
    <2>2. PICK g : g = Id(QueueItems[k + 1])
      OBVIOUS
    <2>3. AfterSent(g) /\ Precedes(Id(QueueItems[1]), g)
      BY <1>6, <2>1, <2>2 DEF WaitingInv
    <2>4. AfterSent(g)'
      BY <1>1, <1>9, <2>3 DEF AfterSent, Id
    <2>5. Id(QueueItems[k])' = g
      BY <2>1, <2>2 DEF Id
    <2>6. QED
      BY <2>4, <2>5 DEF AfterSent
  <1>12. ASSUME NEW j \in 1 .. Len(QueueItems'),
                NEW k \in 1 .. Len(QueueItems'),
                j < k
         PROVE  Precedes(Id(QueueItems'[j]), Id(QueueItems'[k]))
    <2>1. /\ j + 1 \in 1 .. Len(QueueItems) /\ k + 1 \in 1 .. Len(QueueItems)
          /\ j + 1 < k + 1
          /\ QueueItems'[j] = QueueItems[j + 1]
          /\ QueueItems'[k] = QueueItems[k + 1]
      BY <1>3, <1>4, <1>12
    <2>2. QED
      BY <1>6, <2>1 DEF WaitingInv
  <1>13. WaitingInv'
    BY <1>1, <1>6, <1>11, <1>12 DEF WaitingInv, Id
  <1>14. QED
    BY <1>10, <1>13 DEF OrderInv

\* sendMessage starts to send a message that is newer than all others.
LEMMA SendOrder ==
  ASSUME TypeOK, NumberInv, OrderInv, NEW c \in Targets, sendMessage(c)
  PROVE  OrderInv'
  <1>1. /\ UNCHANGED <<rbuf, bus, pending, txReg>> /\ UNCHANGED queueVars
        /\ pc' = "SR" /\ msg' = NUM_RX_MSGS /\ MainRuns
    BY DEF sendMessage, hwVars
  <1>2. QueueItems' = QueueItems
    BY <1>1 DEF queueVars, QueueItems, Count
  <1>3. /\ Source' = txMsg' /\ Id(txMsg').n = nframes + 1
        /\ Id(txMsg').src = "app"
    BY <1>1, SendNumber DEF Source
  <1>4. AfterSent(Id(txMsg'))
    BY <1>3, NewIsLast
  <1>5. WaitingInv /\ SentInv /\ \A e \in Can : rbuf[e] = <<>>
    BY <1>1, MainRunsClear DEF OrderInv
  <1>6. InOrderOnce' = InOrderOnce /\ ~Copying' /\ Unsent'
    BY <1>1 DEF InOrderOnce, Copying, Unsent, Words
  <1>7. Id(Source)' = Id(txMsg')
    BY <1>3 DEF Id
  <1>8. SentInv'
    BY <1>1, <1>4, <1>5, <1>6, <1>7 DEF SentInv, AfterSent, Id
  <1>9. ASSUME NEW k \in 1 .. Len(QueueItems)
        PROVE  AfterSent(Id(QueueItems[k]))'
    <2>1. PICK g : g = Id(QueueItems[k])
      OBVIOUS
    <2>2. AfterSent(g) /\ Precedes(Id(txMsg'), g)
      BY <1>3, <1>5, <2>1, QueueNumber DEF WaitingInv, Precedes
    <2>3. AfterSent(g)'
      BY <1>1, <1>7, <2>2 DEF AfterSent, Id
    <2>4. Id(QueueItems[k])' = g
      BY <1>2, <2>1 DEF Id
    <2>5. QED
      BY <2>3, <2>4 DEF AfterSent
  <1>10. WaitingInv'
    BY <1>1, <1>2, <1>5, <1>9 DEF WaitingInv, Id
  <1>11. QED
    BY <1>8, <1>10 DEF OrderInv

\* Every step keeps OrderInv.
LEMMA NextOrder ==
  ASSUME TypeOK, TypeOK', SlotInv, CopyInv, NumberInv, OrderInv, [Next]_vars
  PROVE  OrderInv'
  <1>1. ASSUME SentInv', UNCHANGED <<queueVars, rbuf>>,
               \A f : AfterSent(f) => AfterSent(f)'
        PROVE  OrderInv'
    BY <1>1, SameWaiting, StuckForGood DEF OrderInv
  <1>2. CASE \E c \in Can, t \in Types : Arrive(c, t)
    BY <1>2, ArriveOrder, StuckForGood DEF OrderInv
  <1>3. CASE CAN_IRQHandler
    BY <1>3, IrqOrder, StuckForGood DEF OrderInv
  <1>4. ASSUME NEW c \in Can, NEW b \in Buffers, Transmit(c, b)
        PROVE  OrderInv'
    BY <1>1, <1>4, TransmitSent DEF Transmit, OrderInv
  <1>5. CASE Tick \/ UNCHANGED vars
    <2>1. SentSame /\ UNCHANGED <<queueVars, rbuf>>
      BY <1>5 DEF Tick, vars, SentSame, hwVars, mainVars, queueVars, Source
    <2>2. QED
      BY <1>1, <2>1, SameSent DEF OrderInv
  <1>6. CASE SelectBuffer
    BY <1>1, <1>6, SelectSent DEF SelectBuffer, OrderInv
  <1>7. CASE WriteWord
    BY <1>1, <1>7, WriteSent DEF WriteWord, OrderInv
  <1>8. CASE RequestTransmission
    BY <1>1, <1>8, RequestSent DEF RequestTransmission, OrderInv
  <1>9. CASE EndWait \/ CheckLate
    BY <1>1, <1>9, WaitSent DEF EndWait, CheckLate, OrderInv
  <1>10. QED
    BY <1>2, <1>3, <1>4, <1>5, <1>6, <1>7, <1>8, <1>9, TaskOrder, SendOrder
    DEF Next, Main

\* The frames of one origin leave on a bus in the order in which they came,
\* none of them twice, for every size of the ring and every traffic, also
\* when frames are dropped, the wait times out or a remote frame is received
\* (the main loop does not run again after that, so it is never sent twice).
THEOREM FramesLeaveInOrder == Spec => []InOrderOnce
  <1>1. Init => NumberInv /\ OrderInv
    BY InitNumber, InitOrder
  <1>2. /\ TypeOK /\ SlotInv /\ CopyInv /\ TypeOK'
        /\ NumberInv /\ OrderInv /\ [Next]_vars
        => NumberInv' /\ OrderInv'
    BY NextNumber, NextOrder
  <1>3. Spec => [](NumberInv /\ OrderInv)
    BY <1>1, <1>2, CopyAlways, PTL DEF Spec
  <1>4. OrderInv => InOrderOnce
    BY DEF OrderInv, SentInv
  <1>5. QED
    BY <1>3, <1>4, PTL
==============================================================================
