---------------------------- MODULE XbeeReceiver -----------------------------
(***************************************************************************)
(* The receiving half of the radio driver, Lib_Board/src/xbee.c: xbee_task *)
(* takes one byte per call from the queue of the radio UART (RfUart) and   *)
(* processByte puts API frames together: a start delimiter, two length     *)
(* bytes, the frame data, a checksum.  A frame that stays incomplete for   *)
(* XBEE_RECV_FRAME_TO ms is given up.                                      *)
(*                                                                         *)
(* Bytes keep their arithmetic and lose their size: ByteMod stands for     *)
(* 2^8, and the API identifiers and modem states are small numbers.        *)
(***************************************************************************)
EXTENDS RfUart, Sequences, SequencesExt

CONSTANTS ByteMod,             \* bytes count modulo this
          XBEE_START_DEL,
          XBEE_API_ID_MOD_STAT,
          XBEE_MOD_STAT_COORD_START,
          XBEE_MOD_STAT_ASSOC,
          XBEE_MOD_STAT_DIASSOC,
          XBEE_BUF_SZ,         \* bytes of rfBuf
          XBEE_RECV_FRAME_TO,  \* ms an incomplete frame is kept
          isCoordinator,       \* xbee_init(XBEE_COORDINATOR, ...) was called
          TimeMod,             \* time_get() counts modulo this (2^32)
          Payloads,            \* frame data the radio module may send
          MaxFrames            \* bound: frames the radio module sends

ASSUME ByteAssumption == /\ ByteMod \in Nat \ {0}
                         /\ Byte = 0 .. ByteMod - 1 /\ XBEE_START_DEL \in Byte
ASSUME TimeAssumption == TimeMod \in Nat \ {0} /\ XBEE_RECV_FRAME_TO \in Nat

\* The length of a frame that fits rfBuf (200 bytes) fits two bytes.
ASSUME BufAssumption == XBEE_BUF_SZ \in Nat /\ XBEE_BUF_SZ < ByteMod * ByteMod
ASSUME PayloadAssumption ==
  \A p \in Payloads : p \in Seq(Byte) /\ Len(p) \in 1 .. XBEE_BUF_SZ

VARIABLES rfState, rfFrameLen, rfPos, rfBuf, rfFrameTimer, initialized,
          time,       \* time_get()
          line,       \* bytes the radio module has still to send
          sent,       \* history: frames the module has begun to send
          delivered,  \* history: frames passed to the handlers
          expired     \* history: the frame timer has expired

rxVars == <<rfState, rfFrameLen, rfPos, rfBuf, rfFrameTimer, initialized,
            delivered>>
vars == <<uartVars, rxVars, time, line, sent, expired>>

\* The checksum of a frame with XBEE_BUF_SZ bytes of data is written to
\* rfBuf[XBEE_BUF_SZ], one cell past the array: the model gives it a cell.
BufCells == 0 .. XBEE_BUF_SZ

TypeOK ==
  /\ UartTypeOK
  /\ rfState \in {"XBEE_FRAME", "XBEE_LENGTH", "XBEE_DATA"}
  /\ rfFrameLen \in 0 .. ByteMod * ByteMod - 1
  /\ rfState = "XBEE_DATA" => rfFrameLen <= XBEE_BUF_SZ /\ rfPos <= rfFrameLen
  /\ rfState = "XBEE_LENGTH" => rfPos \in 0 .. 1
  /\ rfBuf \in [BufCells -> Byte]
  /\ rfFrameTimer \in 0 .. TimeMod - 1 /\ time \in 0 .. TimeMod - 1
  /\ initialized \in BOOLEAN /\ expired \in BOOLEAN
  /\ line \in Seq(Byte) /\ sent \in Seq(Payloads)
  /\ delivered \in Seq(Seq(Byte))

Init ==
  /\ UartInit
  /\ rfState = "XBEE_FRAME" /\ rfFrameLen = 0 /\ rfPos = 0
  /\ rfBuf = [i \in BufCells |-> 0]
  /\ rfFrameTimer = 0 /\ initialized = FALSE
  /\ time = 0 /\ line = <<>> /\ sent = <<>> /\ delivered = <<>>
  /\ expired = FALSE

-----------------------------------------------------------------------------
(* The radio module, the UART interrupt and the clock.                     *)

\* The sum of the bytes, in uint8_t
RunningSum(s) ==
  LET cs[i \in 0 .. Len(s)] ==
        IF i = 0 THEN 0 ELSE (cs[i - 1] + s[i]) % ByteMod
  IN  cs
checksum(s) == (ByteMod - 1) - RunningSum(s)[Len(s)]

Encode(p) == <<XBEE_START_DEL, Len(p) \div ByteMod, Len(p) % ByteMod>>
               \o p \o <<checksum(p)>>

SendFrame(p) ==
  /\ line = <<>> /\ Len(sent) < MaxFrames
  /\ line' = Encode(p) /\ sent' = Append(sent, p)
  /\ UNCHANGED <<uartVars, rxVars, time, expired>>

\* UART1_IRQHandler, which calls rf_uartRecvCb
UART1_IRQHandler ==
  /\ line # <<>>
  /\ rxq_put(Head(line))
  /\ line' = Tail(line)
  /\ UNCHANGED <<rxVars, time, sent, expired>>

Tick == /\ time' = (time + 1) % TimeMod
        /\ UNCHANGED <<uartVars, rxVars, line, sent, expired>>

-----------------------------------------------------------------------------
(* The main loop.                                                          *)

\* Mutant of TimerExpired: xbee_task does not look at the timer.
TimerIgnored == FALSE

TimerExpired == rfFrameTimer > 0 /\ rfFrameTimer < time

\* xbee_task up to the byte: the timer is tested before the queue.
xbee_task ==
  /\ \/ Receive
     \/ rpc = "idle" /\ rxq_isEmpty /\ UNCHANGED uartVars
  /\ IF TimerExpired
     THEN rfState' = "XBEE_FRAME" /\ rfFrameTimer' = 0 /\ expired' = TRUE
     ELSE UNCHANGED <<rfState, rfFrameTimer, expired>>
  /\ UNCHANGED <<rfFrameLen, rfPos, rfBuf, initialized, delivered, time, line,
                 sent>>

FetchByte == (rxq_get \/ rxq_getAdvance)
             /\ UNCHANGED <<rxVars, time, line, sent, expired>>

handleModemStatus(status) ==
  initialized' = CASE isCoordinator /\ status = XBEE_MOD_STAT_COORD_START -> TRUE
                   [] ~isCoordinator /\ status = XBEE_MOD_STAT_ASSOC -> TRUE
                   [] ~isCoordinator /\ status = XBEE_MOD_STAT_DIASSOC -> FALSE
                   [] OTHER -> initialized

\* The first len bytes of a buffer
Prefix(buf, len) == [i \in 1 .. len |-> buf[i - 1]]

\* Frames are told apart by their first byte; those other than the modem
\* status are passed on to callbacks and change nothing here.
processFrame(buf, len) ==
  IF len < 2 \/ checksum(Prefix(buf, len)) # 0
  THEN UNCHANGED <<initialized, delivered>>
  ELSE /\ delivered' = Append(delivered, Prefix(buf, len - 1))
       /\ IF buf[0] = XBEE_API_ID_MOD_STAT
          THEN handleModemStatus(buf[1]) ELSE UNCHANGED initialized

StartOfFrame ==
  /\ rfState = "XBEE_FRAME"
  /\ IF d = XBEE_START_DEL
     THEN /\ rfPos' = 0 /\ rfFrameLen' = 0
          /\ rfState' = "XBEE_LENGTH"
          /\ rfFrameTimer' = (time + XBEE_RECV_FRAME_TO) % TimeMod
     ELSE UNCHANGED <<rfPos, rfFrameLen, rfState, rfFrameTimer>>
  /\ UNCHANGED <<rfBuf, initialized, delivered>>

\* Mutant of Clamp: a length that does not fit rfBuf is accepted.
NoClamp(len) == len

Clamp(len) == IF len > XBEE_BUF_SZ THEN XBEE_BUF_SZ ELSE len

LengthByte ==
  LET len == rfFrameLen + (IF rfPos = 0 THEN d * ByteMod ELSE d)
  IN  /\ rfState = "XBEE_LENGTH"
      /\ IF rfPos = 1
         THEN /\ rfPos' = 0 /\ rfState' = "XBEE_DATA"
              /\ rfFrameLen' = Clamp(len)
         ELSE /\ rfPos' = rfPos + 1 /\ rfFrameLen' = len
              /\ UNCHANGED rfState
      /\ UNCHANGED <<rfBuf, rfFrameTimer, initialized, delivered>>

\* Mutant of LastByte: the frame ends before its checksum.
LastByteTooEarly == rfPos + 1 = rfFrameLen

LastByte == rfPos + 1 = rfFrameLen + 1

DataByte ==
  /\ rfState = "XBEE_DATA"
  /\ rfBuf' = [rfBuf EXCEPT ![rfPos] = d]
  /\ rfPos' = rfPos + 1
  /\ IF LastByte
     THEN /\ rfState' = "XBEE_FRAME" /\ rfFrameTimer' = 0
          /\ processFrame(rfBuf', rfPos')
     ELSE UNCHANGED <<rfState, rfFrameTimer, initialized, delivered>>
  /\ UNCHANGED rfFrameLen

processByte ==
  /\ rpc = "done" /\ rpc' = "idle"
  /\ StartOfFrame \/ LengthByte \/ DataByte
  /\ UNCHANGED <<rxq, rxqIn, rxqOut, d, overrun, time, line, sent, expired>>

Next == \/ \E p \in Payloads : SendFrame(p)
        \/ UART1_IRQHandler \/ Tick
        \/ xbee_task \/ FetchByte \/ processByte

Spec == Init /\ [][Next]_vars

\* The module finishes the frame it has begun, the clock runs and xbee_task is
\* called over and over, many times in a millisecond: a deadline that has
\* passed is seen although the clock may wrap (strong fairness).
FairSpec == /\ Spec
            /\ WF_vars(UART1_IRQHandler) /\ WF_vars(Tick)
            /\ WF_vars(xbee_task) /\ SF_vars(xbee_task /\ TimerExpired)
            /\ WF_vars(FetchByte) /\ WF_vars(processByte)

-----------------------------------------------------------------------------
(* Correctness.                                                            *)

\* As long as the queue has not overrun and no frame was given up, the
\* handlers see exactly the frames the module sent, in order, whatever the
\* frames hold (the start delimiter included).
FramesIntact == ~overrun /\ ~expired => IsPrefix(delivered, sent)

\* Every frame the module sends reaches a handler, unless the queue overran
\* or the frame timer expired.
FramesDelivered ==
  \A k \in 1 .. MaxFrames :
    Len(sent) >= k ~> Len(delivered) >= k \/ overrun \/ expired

\* A receiver that waits for the rest of a frame gives up or completes it: it
\* does not stay in the middle of a frame.  The two deadlines that the test of
\* the timer cannot tell from a stopped timer or never sees pass are 0 and the
\* largest value of the clock.
ReceiverRecovers ==
  rfState # "XBEE_FRAME" /\ rfFrameTimer \in 1 .. TimeMod - 2
    ~> rfState = "XBEE_FRAME"
==============================================================================
