------------------------------ MODULE CanBridge ------------------------------
(***************************************************************************)
(* The CAN bridge of the gateway: Lib_Board/src/canpt.c on top of the      *)
(* driver Lib_MCU/src/lpc17xx_can.c.  CAN_IRQHandler moves a received      *)
(* frame of CAN1 or CAN2 into the ring rxMsgs; canpt_task, called from the *)
(* main loop, takes one frame per call, copies it word by word into a      *)
(* transmit buffer of CAN2 and waits until it is sent or 500 ms are over.  *)
(* sendMessage sends a frame of the application along the same path.       *)
(*                                                                         *)
(* The interrupt handler preempts the main loop between any two of its     *)
(* steps and runs to its end, so it is one action.  A frame is its origin, *)
(* a number that makes it unique and its type; a message in memory is the  *)
(* frame each of its four register-sized words comes from, which makes a   *)
(* message mixed from two frames visible.                                  *)
(***************************************************************************)
EXTENDS Integers, Sequences

CONSTANTS NUM_RX_MSGS,   \* slots of the ring rxMsgs
          RxDepth,       \* receive buffers of a controller (hardware)
          SendTimeout,   \* the 500 ms canpt_task and sendMessage wait
          TimeMod,       \* time_get() counts modulo this (2^32 in the code)
          ClockRuns,     \* time_init was called, so time_get() advances
          Targets,       \* controllers the application calls sendMessage for
          Types,         \* types of the frames on the two buses
          MaxFrames      \* bound: frames received and sent by the application

ASSUME RingAssumption == NUM_RX_MSGS \in Nat /\ NUM_RX_MSGS >= 2
ASSUME HardwareAssumption == RxDepth \in Nat \ {0}
ASSUME ClockAssumption == /\ TimeMod \in Nat \ {0}
                          /\ SendTimeout \in 0 .. TimeMod - 1
                          /\ ClockRuns \in BOOLEAN
ASSUME FrameAssumption == /\ Types \subseteq {"DATA_FRAME", "REMOTE_FRAME"}
                          /\ Targets \subseteq {"CAN1", "CAN2"}
                          /\ MaxFrames \in Nat

Can == {"CAN1", "CAN2"}
Buffers == 1 .. 3
Words == {"TFI", "TID", "TDA", "TDB"}
Slots == 0 .. NUM_RX_MSGS - 1
Time == 0 .. TimeMod - 1

Frame == [src : Can \cup {"app", "none"}, n : 0 .. MaxFrames,
          type : {"DATA_FRAME", "REMOTE_FRAME"}]
NoFrame == [src |-> "none", n |-> 0, type |-> "DATA_FRAME"]
Msg == [Words -> Frame]
Whole(f) == [w \in Words |-> f]
Received == [src : Can, n : 1 .. MaxFrames, type : Types]

VARIABLES
  rbuf,      \* frames in the receive buffers of each controller (hardware)
  rxMsg,     \* the message CAN_IRQHandler receives into
  rxMsgs, rxMsgIn, rxMsgOut,
  txMsg,     \* the message sendMessage sends
  txReg,     \* transmit buffer registers of each controller (hardware)
  pending,   \* transmit buffers with a request the bus has not served yet
  time,      \* time_get()
  pc,        \* where the main loop is
  msg,       \* the slot canpt_task sends, or NUM_RX_MSGS for txMsg
  dst, buf,  \* controller and transmit buffer being written
  to,        \* deadline of the wait
  nframes,   \* frames numbered so far
  bus,       \* history: messages each controller has put on its bus
  got,       \* history: what the slot held when q_get returned it
  last,      \* history: outcome of the latest queue operation
  ret,       \* result of the latest call of sendMessage
  wrapped    \* history: time_get() wrapped since the deadline was computed

queueVars == <<rxMsgs, rxMsgIn, rxMsgOut, got, last>>
hwVars == <<txReg, pending, bus>>
mainVars == <<pc, msg, dst, buf, to>>
vars == <<rbuf, rxMsg, queueVars, txMsg, hwVars, mainVars, time, nframes,
          ret, wrapped>>

TypeOK ==
  /\ rbuf \in [Can -> Seq(Frame)]
  /\ rxMsg \in Msg /\ txMsg \in Msg /\ got \in Msg
  /\ rxMsgs \in [Slots -> Msg] /\ rxMsgIn \in Slots /\ rxMsgOut \in Slots
  /\ txReg \in [Can -> [Buffers -> Msg]]
  /\ pending \in [Can -> SUBSET Buffers]
  /\ time \in Time /\ to \in Time
  /\ pc \in Words \cup {"loop", "SR", "CMR", "wait", "late"}
  /\ msg \in 0 .. NUM_RX_MSGS /\ dst \in Can /\ buf \in Buffers
  /\ nframes \in 0 .. MaxFrames
  /\ bus \in [Can -> Seq(Msg)]
  /\ last \in {"none", "stored", "dropped", "taken"}
  /\ ret \in {"none", "ERR_OK", "ERR_CAN_SEND", "ERR_TIMEOUT"}
  /\ wrapped \in BOOLEAN

Init ==
  /\ rbuf = [c \in Can |-> <<>>]
  /\ rxMsg = Whole(NoFrame) /\ txMsg = Whole(NoFrame)
  /\ rxMsgs = [i \in Slots |-> Whole(NoFrame)]
  /\ rxMsgIn = 0 /\ rxMsgOut = 0
  /\ txReg = [c \in Can |-> [b \in Buffers |-> Whole(NoFrame)]]
  /\ pending = [c \in Can |-> {}]
  /\ time = 0
  /\ pc = "loop" /\ msg = NUM_RX_MSGS /\ dst = "CAN2" /\ buf = 1 /\ to = 0
  /\ nframes = 0
  /\ bus = [c \in Can |-> <<>>]
  /\ got = Whole(NoFrame) /\ last = "none" /\ ret = "none" /\ wrapped = FALSE

-----------------------------------------------------------------------------
(* The hardware.                                                           *)

\* A frame is received; a controller whose buffers are full loses it.
Arrive(c, t) ==
  LET f == [src |-> c, n |-> nframes + 1, type |-> t]
  IN  /\ nframes < MaxFrames
      /\ nframes' = nframes + 1
      /\ rbuf' = IF Len(rbuf[c]) < RxDepth
                 THEN [rbuf EXCEPT ![c] = Append(@, f)] ELSE rbuf
      /\ UNCHANGED <<rxMsg, queueVars, txMsg, hwVars, mainVars, time, ret,
                     wrapped>>

\* A requested transmission wins the bus and is acknowledged.
Transmit(c, b) ==
  /\ b \in pending[c]
  /\ pending' = [pending EXCEPT ![c] = @ \ {b}]
  /\ bus' = [bus EXCEPT ![c] = Append(@, txReg[c][b])]
  /\ UNCHANGED <<rbuf, rxMsg, queueVars, txMsg, txReg, mainVars, time,
                 nframes, ret, wrapped>>

\* TIMER1_IRQHandler
Tick ==
  /\ ClockRuns
  /\ time' = (time + 1) % TimeMod
  /\ wrapped' = (pc # "loop" /\ (wrapped \/ time' = 0))
  /\ UNCHANGED <<rbuf, rxMsg, queueVars, txMsg, hwVars, mainVars, nframes,
                 ret>>

-----------------------------------------------------------------------------
(* The interrupt handler.                                                  *)

\* Mutant of Succ: the index does not wrap.
SuccNoWrap(i) == i + 1

Succ(i) == (i + 1) % NUM_RX_MSGS
\* Mutants of Full: no test, and a test that is one slot too early.
NeverFull == FALSE
FullTooEarly == rxMsgOut \in {Succ(rxMsgIn), Succ(Succ(rxMsgIn))}

Full == rxMsgOut = Succ(rxMsgIn)
q_isEmpty == rxMsgIn = rxMsgOut

q_put(d) ==
  /\ IF Full
     THEN /\ last' = "dropped"
          /\ UNCHANGED <<rxMsgs, rxMsgIn>>
     ELSE /\ rxMsgs' = [rxMsgs EXCEPT ![rxMsgIn] = d]
          /\ rxMsgIn' = Succ(rxMsgIn)
          /\ last' = "stored"
  /\ UNCHANGED <<rxMsgOut, got>>

\* A remote frame has no data, so the data words keep what they held, and
\* the receive buffer is released for data frames only.
CAN_ReceiveMsg(c) ==
  LET f == Head(rbuf[c])
  IN  IF f.type = "DATA_FRAME"
      THEN /\ rxMsg' = Whole(f)
           /\ rbuf' = [rbuf EXCEPT ![c] = Tail(@)]
      ELSE /\ rxMsg' = [rxMsg EXCEPT !["TFI"] = f, !["TID"] = f]
           /\ UNCHANGED rbuf

\* The receive interrupt stays pending while a controller holds a frame.
Interrupting(c) == rbuf[c] # <<>>

CAN_IRQHandler ==
  \E c \in Can :
    /\ Interrupting(c)
    /\ c = "CAN2" => ~Interrupting("CAN1")
    /\ CAN_ReceiveMsg(c)
    /\ q_put(rxMsg')
    /\ UNCHANGED <<txMsg, hwVars, mainVars, time, nframes, ret, wrapped>>

-----------------------------------------------------------------------------
(* The main loop.  It runs while no receive interrupt is pending.          *)

MainRuns == \A c \in Can : ~Interrupting(c)

Deadline == (time + SendTimeout) % TimeMod

\* Mutant of canpt_task: q_get does not advance rxMsgOut.
canpt_taskNoAdvance ==
  /\ MainRuns /\ pc = "loop" /\ ~q_isEmpty
  /\ msg' = rxMsgOut
  /\ got' = rxMsgs[rxMsgOut] /\ last' = "taken"
  /\ to' = Deadline /\ wrapped' = FALSE
  /\ dst' = "CAN2" /\ pc' = "SR"
  /\ UNCHANGED <<rbuf, rxMsg, rxMsgs, rxMsgIn, rxMsgOut, txMsg, hwVars, buf,
                 time, nframes, ret>>

\* canpt_task up to its call of CAN_SendMsg
canpt_task ==
  /\ MainRuns /\ pc = "loop" /\ ~q_isEmpty
  /\ msg' = rxMsgOut
  /\ rxMsgOut' = Succ(rxMsgOut)
  /\ got' = rxMsgs[rxMsgOut] /\ last' = "taken"
  /\ to' = Deadline /\ wrapped' = FALSE
  /\ dst' = "CAN2" /\ pc' = "SR"
  /\ UNCHANGED <<rbuf, rxMsg, rxMsgs, rxMsgIn, txMsg, hwVars, buf, time,
                 nframes, ret>>

\* sendMessage up to its call of CAN_SendMsg
sendMessage(c) ==
  /\ MainRuns /\ pc = "loop" /\ nframes < MaxFrames
  /\ nframes' = nframes + 1
  /\ txMsg' = Whole([src |-> "app", n |-> nframes + 1, type |-> "DATA_FRAME"])
  /\ msg' = NUM_RX_MSGS
  /\ to' = Deadline /\ wrapped' = FALSE
  /\ dst' = c /\ pc' = "SR" /\ ret' = "none"
  /\ UNCHANGED <<rbuf, rxMsg, queueVars, hwVars, buf, time>>

\* Bit 2 of SR tells that transmit buffer 1 is free.  CAN_SendMsg shifts that
\* same bit by 2, 10 and 18 to find out about the buffers 1, 2 and 3.
TBS1 == IF 1 \in pending[dst] THEN 0 ELSE 4
\* Mutant of Selects: buffer 1 is used without a look at SR.
SelectsBlindly(b) == b = 1
Selects(b) == TBS1 \div <<2^2, 2^10, 2^18>>[b] # 0

\* The value of error_t the caller returns; canpt_task drops it.
Return(err) ==
  /\ pc' = "loop"
  /\ ret' = IF msg = NUM_RX_MSGS THEN err ELSE ret

SelectBuffer ==
  /\ MainRuns /\ pc = "SR"
  /\ \/ \E b \in Buffers :
          /\ Selects(b) /\ \A a \in 1 .. b - 1 : ~Selects(a)
          /\ buf' = b /\ pc' = "TFI"
          /\ UNCHANGED ret
     \/ /\ \A b \in Buffers : ~Selects(b)
        /\ Return("ERR_CAN_SEND")
        /\ UNCHANGED buf
  /\ UNCHANGED <<rbuf, rxMsg, queueVars, txMsg, hwVars, msg, dst, to, time,
                 nframes, wrapped>>

After == [TFI |-> "TID", TID |-> "TDA", TDA |-> "TDB", TDB |-> "CMR"]

\* *msg, read when the word is written
Source == IF msg = NUM_RX_MSGS THEN txMsg ELSE rxMsgs[msg]

WriteWord ==
  /\ MainRuns /\ pc \in Words
  /\ txReg' = [txReg EXCEPT ![dst][buf][pc] = Source[pc]]
  /\ pc' = After[pc]
  /\ UNCHANGED <<rbuf, rxMsg, queueVars, txMsg, pending, bus, msg, dst, buf,
                 to, time, nframes, ret, wrapped>>

\* Mutant of RequestTransmission: the command is not written.
RequestMissed ==
  /\ MainRuns /\ pc = "CMR"
  /\ pc' = "wait"
  /\ UNCHANGED <<rbuf, rxMsg, queueVars, txMsg, hwVars, msg, dst, buf, to,
                 time, nframes, ret, wrapped>>

RequestTransmission ==
  /\ MainRuns /\ pc = "CMR"
  /\ pending' = [pending EXCEPT ![dst] = @ \cup {buf}]
  /\ pc' = "wait"
  /\ UNCHANGED <<rbuf, rxMsg, queueVars, txMsg, txReg, bus, msg, dst, buf, to,
                 time, nframes, ret, wrapped>>

\* GSR bit 3: every requested transmission is complete
TCS == pending[dst] = {}

\* Mutants of EndWait: the wait gives up at once, and only TCS ends it.
EndWaitAtOnce ==
  /\ MainRuns /\ pc = "wait"
  /\ pc' = "late"
  /\ UNCHANGED <<rbuf, rxMsg, queueVars, txMsg, hwVars, msg, dst, buf, to,
                 time, nframes, ret, wrapped>>
EndWaitNoTimeout ==
  /\ MainRuns /\ pc = "wait" /\ TCS
  /\ pc' = "late"
  /\ UNCHANGED <<rbuf, rxMsg, queueVars, txMsg, hwVars, msg, dst, buf, to,
                 time, nframes, ret, wrapped>>

\* The loop condition is false: sent, or the deadline has passed.
EndWait ==
  /\ MainRuns /\ pc = "wait"
  /\ TCS \/ to <= time
  /\ pc' = "late"
  /\ UNCHANGED <<rbuf, rxMsg, queueVars, txMsg, hwVars, msg, dst, buf, to,
                 time, nframes, ret, wrapped>>

\* The deadline is tested once more, whatever ended the loop.
CheckLate ==
  /\ MainRuns /\ pc = "late"
  /\ Return(IF to <= time THEN "ERR_TIMEOUT" ELSE "ERR_OK")
  /\ UNCHANGED <<rbuf, rxMsg, queueVars, txMsg, hwVars, msg, dst, buf, to,
                 time, nframes, wrapped>>

-----------------------------------------------------------------------------
Main == \/ canpt_task
        \/ \E c \in Targets : sendMessage(c)
        \/ SelectBuffer \/ WriteWord \/ RequestTransmission
        \/ EndWait \/ CheckLate

Next == \/ \E c \in Can, t \in Types : Arrive(c, t)
        \/ \E c \in Can, b \in Buffers : Transmit(c, b)
        \/ Tick
        \/ CAN_IRQHandler
        \/ Main

Spec == Init /\ [][Next]_vars

\* The handler runs whenever it is pending and the main loop keeps running;
\* that sendMessage is called is up to the application.  The wait polls many
\* times in a millisecond, so it sees a deadline that has passed although the
\* clock may wrap and pass it again: strong fairness.
Scheduling == /\ WF_vars(CAN_IRQHandler)
              /\ WF_vars(canpt_task)
              /\ WF_vars(SelectBuffer) /\ WF_vars(WriteWord)
              /\ WF_vars(RequestTransmission)
              /\ SF_vars(EndWait) /\ WF_vars(CheckLate)

FairSpec == Spec /\ Scheduling

\* What the two liveness properties assume besides.
ClockTicks == WF_vars(Tick)
BusesServe == \A c \in Can, b \in Buffers : WF_vars(Transmit(c, b))

-----------------------------------------------------------------------------
(* Correctness.                                                            *)

\* The slot q_get returned keeps its message for as long as canpt_task may
\* read it, although rxMsgOut has already been advanced past it and the
\* interrupt handler goes on storing frames.
SlotStable == msg # NUM_RX_MSGS => rxMsgs[msg] = got

\* A message is one frame.  The data words of a remote frame are not sent.
OneFrame(m) == /\ m["TID"] = m["TFI"]
               /\ m["TFI"].type = "DATA_FRAME" => m = Whole(m["TFI"])

\* What goes out on a bus is one frame: CAN_SendMsg never mixes the words of
\* two frames, although it copies word by word and can be interrupted.
WholeOnBus == \A c \in Can : \A i \in 1 .. Len(bus[c]) : OneFrame(bus[c][i])

\* CAN_SendMsg never writes a transmit buffer whose request is outstanding,
\* also after a wait that timed out and left the request behind.
PendingUntouched ==
  [][\A c \in Can : \A b \in pending[c] : txReg'[c][b] = txReg[c][b]]_vars

\* The ring as a sequence, oldest message first.
Count == (rxMsgIn - rxMsgOut + NUM_RX_MSGS) % NUM_RX_MSGS
QueueItems ==
  [i \in 1 .. Count |-> rxMsgs[(rxMsgOut + i - 1) % NUM_RX_MSGS]]

Fifo == INSTANCE BoundedFifo WITH
          Item <- Msg, Capacity <- NUM_RX_MSGS - 1,
          items <- QueueItems, last <- last, out <- got

\* The ring, its two indices, q_put in the interrupt handler and q_get in the
\* main loop implement a first-in first-out queue of NUM_RX_MSGS - 1 messages
\* that drops a message only when it is full.
QueueIsFifo == Fifo!FifoSpec

OnBus(c, m) == \E i \in 1 .. Len(bus[c]) : bus[c][i] = m

\* What sendMessage returns tells the truth.  ERR_OK: the frame is on the bus,
\* unless time_get() wrapped to 0 during the wait.  ERR_CAN_SEND: the frame is
\* not, and no transmit buffer will send it later.
SendResult ==
  [][ret' # ret =>
       /\ ret' = "ERR_OK" /\ ~wrapped => OnBus(dst, txMsg)
       /\ ret' = "ERR_CAN_SEND" =>
            \A c \in Can : /\ ~OnBus(c, txMsg)
                           /\ \A b \in pending[c] : txReg[c][b] # txMsg]_vars

\* Frames of one origin leave in the order in which they came, none of them
\* twice, whatever was dropped in between.
InOrderOnce ==
  \A c \in Can : \A i, j \in 1 .. Len(bus[c]) :
    LET f == bus[c][i]["TFI"]
        g == bus[c][j]["TFI"]
    IN  i < j /\ f.src = g.src => f.n < g.n

InQueue(f) == \E i \in 1 .. Count : QueueItems[i]["TFI"] = f

\* A queued frame is taken by the main loop as long as the clock runs, even if
\* no bus ever acknowledges a transmission: the timeout lets the bridge go on.
QueueDrains ==
  ClockTicks => \A f \in Received : InQueue(f) ~> got["TFI"] = f

\* As long as the buses serve requests and no wait ends by its timeout, every
\* queued frame is put on the bus of CAN2; nothing is assumed of the clock.
QueuedIsForwarded ==
  BusesServe /\ [](pc = "late" => TCS) =>
    \A f \in Received :
      InQueue(f) ~> \E i \in 1 .. Len(bus["CAN2"]) : bus["CAN2"][i]["TFI"] = f

\* CAN_ReceiveMsg has received the message when it returns: a frame enters
\* the queue once.
QueuedOnce ==
  \A i, j \in 1 .. Count :
    QueueItems[i]["TFI"] = QueueItems[j]["TFI"] => i = j
==============================================================================
