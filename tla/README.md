# DemoAoaCan: a TLA+ model of the gateway and its radio nodes

The repository holds the firmware of an Embedded Artists AOA board (LPC1769)
that acts as a gateway between a network of nodes, on CAN or on an XBee radio,
and an Android device. This directory models the parts that carry its logic,
checks them with TLC on small instances and proves the main results with TLAPS.

The firmware is bare metal and its parts are written for one main loop that
calls their task functions in turn (`canpt_task`, `rf_task`, `androidHost_task`),
while interrupt handlers preempt it. The `main.c` of this commit is an LED demo
that calls none of them; the models take the parts by their interface. An
interrupt handler runs to its end, so it is one action of a model; the main loop
is cut into the steps between which a handler may run wherever both touch the
same memory.

## Inventory

| Part | State | Operations | Interacts with |
|---|---|---|---|
| CAN bridge, `Lib_Board/src/canpt.c` | ring `rxMsgs` with `rxMsgIn`, `rxMsgOut`; `rxMsg`, `txMsg` | `CAN_IRQHandler`, `q_put`, `q_get`, `canpt_task`, `sendMessage` | CAN driver, clock; shares the ring between interrupt and main loop |
| CAN driver, `Lib_MCU/src/lpc17xx_can.c` | controller registers; look-up table of the acceptance filter: RAM, five counters, five section registers, mode | `CAN_SendMsg`, `CAN_ReceiveMsg`, `CAN_GetCTRLStatus`; `CAN_Init`, `CAN_LoadFullCANEntry`, `CAN_LoadExplicitEntry`, `CAN_LoadGroupEntry`, `CAN_RemoveEntry`, `CAN_SetAFMode` | hardware |
| Radio UART queue, `Lib_Board/src/board.c` | `rxq`, `rxqIn`, `rxqOut` | `rf_uartRecvCb`, `rxq_put`, `rxq_get`, `rf_uart_receive` | UART1 interrupt, XBee driver |
| XBee driver, `Lib_Board/src/xbee.c` | receiver state, frame buffer, frame timer, `initialized` | `xbee_task`, `processByte`, `processFrame`; sending; command mode in `xbee_init` | UART queue, clock; callbacks into the radio protocol |
| Radio protocol, `Lib_Board/src/rfpt.c` | coordinator: node table, `lastDiscover`; end device: subscription table and counter | `rf_task`, `xbeeData` and its handlers, `rf_*` requests | XBee driver, clock, application callbacks |
| EEPROM driver, `Lib_Board/src/eeprom.c` | the chip, reached over I2C | `eeprom_read`, `eeprom_write`, `eeprom_init`, `eeprom_readEui48` | I2C library |
| Clock, `Lib_Board/src/time.c` | `timeMs` (uint32_t) | `time_get`, `TIMER1_IRQHandler` | everything with a timeout |
| USB host library, `nxpUSBlib/Drivers/USB/Core/LPC/Host_LPC.c` and what it calls | `USB_HostState`, waiting counter, control pipe, port | `USB_Host_ProcessNextHostState`; in the interrupt `USB_Host_Enumerate`, `USB_Host_DeEnumerate` | host controller; events of the Android host; `USB_HostState` is written by interrupt and main loop |
| Android host, `demo_aoa_can/src/AndroidAccessoryHost.c` | connection flags, deferred disconnect, table of 50 subscriptions | USB events, `androidHost_task`, callbacks of the node network | USB library, CAN bridge |
| LED demo, `demo_aoa_can/src/main.c`, `pwm.c`, `timer.c`, `GPIO.c` | registers | fade loops | none |
| Libraries: `Lib_MCU` (other drivers), the rest of `nxpUSBlib`, `Lib_lwip`, `Lib_FatFs_SD`, `Lib_CMSIS`, `Lib_AOA` | third party | | |

What is hard here: memory shared between an interrupt and the main loop without
locks (CAN ring, UART queue, the state of the USB host); an action that is put
off while the thing it is about may come back; a table edited in place, five
sections in one array with entries of three sizes; pointers into a queue that
outlive the call that returned them; timeouts that leave a request outstanding;
a clock that wraps; a radio that loses and repeats packets; tables whose entries
are reused; indices narrower than the array they index. `PROJECT.json` lists
every such place with its line and the properties about it.

What makes each part correct: frames and bytes come out whole, in order and
once; nothing is dropped while there is room; a wait ends and its result is
true; no device or subscription is held twice; a node is dropped when, and only
when, it is silent; a bound is reported exactly when it is crossed; a write to
the EEPROM stays in its place; an entry is put into the filter's table or taken
out of it and no other entry changes; a session with an Android device ends with
the device, and its clean-up never hits the next session.

## Modules

- **CanBridge** models `canpt.c` with the two driver functions it calls. A
  message is the frame that each of its four register-sized words came from, so
  a mixed message is visible. `Arrive`, `Transmit` and `Interrupting` are the
  controller. `pc` is the place of the main loop: `SR` (choose a transmit
  buffer), the four words, `CMR` (request), `wait`, `late` (second look at the
  deadline). The receive interrupt is level triggered, so the main loop runs
  only while no controller holds a frame (`MainRuns`). The history variables
  `bus`, `got`, `last` and `wrapped` exist for the properties.
- **BoundedFifo** is the abstract queue. `QueueIsFifo` in CanBridge is the
  refinement: the ring between the two indices is the queue's sequence.
- **RfUart** is the UART queue with indices that wrap at `IndexMod` (2^8) in an
  array of `RX_BUF_SIZE` (512). **MCRfUart** runs it alone, with numbered bytes.
- **XbeeReceiver** extends RfUart: the module sends API frames byte by byte, the
  interrupt queues them, `xbee_task` and `processByte` put the frames together,
  the frame timer gives up. Arithmetic on bytes is modulo `ByteMod`.
- **RfCoordinator** is `rfpt.c` with `isCoordinator = 1`: node table, discovery,
  polls, expiry, with a clock that wraps and packets in `air` that may get lost,
  overtake each other and be under way for up to `RoundTrip` ticks. `rf_task` is
  one action, as in the code: discover, `checkIfNodesAlive`, then at most one
  received packet. `heard`, `misses` and `ahead` are history variables: when a
  device was last heard, polls that went wrong since, and entries whose
  `lastPoll` lay ahead of the clock then.
- **RfNode** is `rfpt.c` on an end device: the subscription table, requests in
  any order, and the sampling loop, one entry per step. A peripheral is read
  anew wherever the code reads it.
- **Eeprom** is the page-splitting write and the read. The chip, which wraps
  around in a page, and the I2C transfer, which may fail, are external.
- **AcceptanceFilter** is the look-up table of the CAN acceptance filter. The RAM
  is a function of words with the driver's layout (FullCAN and standard entries
  in half-words, then standard groups, extended entries, extended groups of two
  words, and three words per FullCAN object), scaled by `StdRange`. The loops that
  shift words are the operators `MoveUp`, `MoveDown`, `HalfInsert` and
  `HalfRemove`, with the limits the loops have. Each function of the driver is
  an action with its error returns, the mode register it leaves behind included.
  The loops read and write past the RAM as the code does: `mask` goes on for
  `MemSize` words, as far as a loop can reach, with any contents (`Beyond`). The driver is a library: any
  sequence of calls is a behaviour, `CAN_Init` at any time among them, which
  clears the table and leaves the counters. The history variables: `paired`
  counts the entries that went into the second half of a word, `wiped` says that
  `CAN_Init` cleared a table that is counted.
- **UsbHost** is the host state machine. A turn of the main loop is cut where the
  interrupt may come in between: the switch on `USB_HostState`, the busy waits
  inside a case (`delay`), and the assignment at its end. `changed` says that the
  handler wrote the state since the main loop read it, `stale` which variables
  the main loop then wrote over. Settling counts calls with a 1 ms busy wait,
  the other waits count turns of the main loop only. A control transfer is
  waited for without a timeout (`OHCI.c:730-739`): `TransferHangs` is a device
  that never completes one, or an interrupt that closed the pipe just before
  line 322 marks its transfer as queued; `queued` is that status.
- **AndroidHost** extends UsbHost and joins the events to its steps: the session
  (`CMD_CONNECT`, `CMD_DISCONNECT`, `doDisconnect`), the disconnect that the
  handler schedules and `monitor_task` carries out, and the subscription table.
  The requests to the nodes that go with the table, `canpt_subscribe` and
  `canpt_unsubscribe`, send nothing at this commit and change no state of the
  model. `owed` and `wrapped` are history variables.

`MC*` modules and the `.cfg` files give the constants their values. The
operators introduced as "Mutant of X" are slips a programmer could make in X;
each shows that a property notices the slip.

Left out on purpose: the content of frames and packets, except where a test
looks at it; debug output; callbacks into the application, which change none of
the modelled state; the capability lists of the nodes. An address counts as
free only as a whole (`0:0`): the code tests "both halves zero" in some places
and "both halves non-zero" in others, which agree for real XBee addresses.

## Runs

| Run | Expect | What it shows |
|---|---|---|
| `can_bridge` | pass | FIFO refinement, stable slot, whole frames, untouched pending buffers, truthful results |
| `can_live` | pass | with a clock every queued frame is taken although no bus acknowledges; with working buses every one leaves on CAN2; in order and once |
| `can_remote` | violation | a remote frame is queued repeatedly, as its buffer is never released |
| `rf_uart` | pass | the indices tell how many bytes wait, up to whole laps; bytes in order and none twice, even when the queue is lapped; none missing before the first overrun |
| `uart_empty` | violation | the queue reports empty while it holds a full lap |
| `xbee` | pass | frames intact, delivered, and the receiver recovers |
| `rf_coordinator` | pass | node table unique, one loss tolerated, silent nodes dropped in time, with packets that cross ticks, over a wrap of the clock and with the exceptions it causes |
| `rf_node` | pass | counter, distinct subscriptions, reports exactly at crossings |
| `rf_report` | violation | the reported value may be on the wrong side of the bound |
| `eeprom` | pass | writes in place, and they end |
| `af_table` | pass | loads insert and removals delete just their entry, unused half-words hold their filler, and the registers follow, until `CAN_Init` clears a counted table; the RAM holds the table, success leaves the filter on |
| `android_host` | pass | disconnect before the next session, sessions only with a device, the enumeration settles unless a transfer stays queued |

### Bounds

- CAN: a ring of 3 slots holds 2 messages, so it is empty, partly full and full,
  and its indices wrap; 4 frames lap the ring. A timeout of 1 and a clock modulo
  3 make the deadline wrap. One receive buffer per controller makes the hardware
  lose frames. `MaxFrames` bounds the frames.
- UART: 4 index values in an array of 8 keep the ratio of 256 to 512; 12 bytes
  are three laps. XBee: bytes 0..3, the delimiter among them, a buffer of 2
  bytes, a status frame and a frame that consists of a delimiter; two frames.
- Coordinator: polls every tick, 5 ticks to expiry and between discoveries, one
  tick for a round trip; there is time for more than two polls before a device
  is given up, as in the code. Two devices, which are interchangeable
  (symmetry), and two entries. The clock counts modulo 13 and a behaviour ends
  after 24 ticks: it wraps once, with packets under way across the wrap, a
  device heard at clock 0, attached before, around and after the wrap, and an
  entry reused after it. Each exception of the two properties is needed within
  this bound. With as many entries as devices the table is never too small.
- End device: 2 entries, 2 subscribers, readings and values 0..2, buttons 0..3;
  no bound on the length of a behaviour.
- EEPROM: three pages of two bytes, every offset and length, two calls, so a
  write meets what an earlier one left.
- Acceptance filter: a RAM of 9 words with 12 words behind it, up to four entries
  of any kinds, two controllers, groups that touch, overlap or are reversed, one
  removal, `CAN_Init` at any time. This reaches sections of odd and even size, a
  full RAM for each kind of entry, loads after a removal and after a cleared
  table, and a standard entry whose place is overlooked. A FullCAN entry whose
  place is overlooked needs a larger RAM: that case rests on the proof. Every
  word behind the RAM begins with a value of its own, so that a loop that moves
  one of them, or would take one into the table, is seen.
- Android host: two attachments, so a device is back before, while and after the
  disconnect is due; a device that is asked to switch its mode and one that is
  an accessory; `DisconnectMs = 2` is just
  below the 3 ms that settling and two resets take; a clock modulo 4 wraps in
  every phase; `WaitMod = 8` lets the settle counter wrap as the uint16_t does.

`rf_uart` and `eeprom` end when their bound is used up, hence `CHECK_DEADLOCK
FALSE`; elsewhere deadlock is checked.

### Fairness

- Interrupt handlers run when they are pending and the main loop keeps turning:
  weak fairness of their steps. The application's calls are not assumed.
- The loop that waits for a transmission and `xbee_task` look at the clock many
  times in a millisecond, so they see a deadline that has passed although the
  clock later wraps and passes it again: strong fairness of leaving the wait and
  of the expired timer.
- `QueueDrains` assumes a running clock (`ClockTicks`) and nothing of the buses.
  The assumption is real: `time_init` has to be called, and no file of the
  repository does so. `QueuedIsForwarded` assumes buses that serve every request
  (`BusesServe`) and that no wait ends by its timeout.
- `RfCoordinator` lets time pass only when `rf_task` has run at the current time
  and no exchange is older than `RoundTrip`: the main loop is faster than a tick,
  and an answer that takes longer than a poll period counts as lost. A device
  out of reach is one whose packets are all lost.
- Android host: the controller detects an attached device after its reset, the
  handler runs when it is pending, the main loop keeps turning and the clock
  runs (weak fairness of `Redetect`, `Interrupt`, `Main`, `Tick`). Attaching and
  detaching are not assumed, nor that a control transfer ends: `HostSettles`
  excepts a transfer that stays queued, in whose wait the main loop hangs.
- `eeprom_write` is a loop without waiting; weak fairness of its steps.

## Proofs

All results hold for every value of the constants that satisfies the named
assumptions. Eight modules hold the proofs; every safety invariant that a passing
run checks is a theorem, except `FillerKept`, and so is every action property.

**CanBridgeProofs** (at least two slots, any clock width and timeout, any number
of frames). `TypeCorrect` is inductive as it stands. `SlotIsStable` needs
`SlotInv`: the slot in use is the one right before `rxMsgOut`, and `q_put` never
fills that slot, since it would make the ring look empty.
`BusHoldsWholeFrames` and `PendingIsUntouched` rest on `CopyInv`: every message
in memory is one frame, the buffer being written is not pending (because
`CAN_SendMsg`, whatever it shifts, selects only buffer 1 and only when it is
free), and the words copied so far equal the source, which `SlotStable` keeps
constant. `RingIsFifo` is the refinement of BoundedFifo: `q_put` maps to `Store`
or `Drop`, `q_get` to `Take`, everything else stutters; its lemmas replace the
remainders in the index arithmetic by case distinctions. `ResultIsTrue` needs
`SendInv`: a message of `sendMessage` is nowhere before it is copied, in its
buffer or on the bus once it is requested, and the wait is left only when it was
sent or the deadline is over. `FramesLeaveInOrder` needs `OrderInv`, the order
along the whole way: what is on a bus comes before what is in a transmit buffer,
that before the message in hand, that before the ring, and that before the
receive buffers. The last two hold only while the main loop runs: a remote frame
keeps the interrupt pending for ever and fills the ring with its copies
(`Stuck`), but then nothing is sent any more.

**RfUartProofs** (any array size and index width, any number of bytes):
`IndicesTellTheCount` and `BytesComeInOrder`. The indices run through `Ring`, the
cells below both limits, and differ by the number of stored bytes, modulo the
size of the ring: that a whole lap looks like none is `uart_empty`. `ReadInv` says that the cells from the reader on hold bytes
in ascending order, all later than what was read, and consecutive ones as long
as there was no overrun; being lapped empties the queue and keeps this true.

**XbeeReceiverProofs** (any sizes of the queue and of `rfBuf`, any width of a
byte, any frames that fit): `TypeCorrect` and `FramesArriveIntact`. The bytes the
module sends are named by frame and place. `FrameInv` says that the queue holds
the bytes between the one the parser expects and the one the module sends next,
one after the other (`Carries`), and that the parser's state is what the bytes
before make it. `PutCarries` and `GetCarries` are the two ends of the queue,
`ParserFollows` is `processByte`: each byte moves what is expected to the next,
also where a byte of the data looks like a delimiter. The last byte completes
the frame because `ChecksumValue` holds: the loop of `checksum` over data and
checksum gives 0. That is a fact about all sequences of bytes; the lemmas
`SumsExist` and `SameSums` prove it from a least counterexample (`WFMin`), since
induction with an operator parameter is not available. `BufAssumption` says that
the length of a frame that fits `rfBuf` (200 bytes) fits two bytes.

**RfCoordinatorProofs**, for any number of devices and entries and any width of
the clock: `TypeCorrect` and `TableIsUnique` (only `handlePublish` puts an
address into the table, and only when the whole table lacks it);
`SingleLossIsTolerated` and `SilentDevicesAreDropped`. These two need `PollInv`:
that packets under way are no older than a round trip (`AirInv`), how old an entry may get (`AgeInv`), and how far the last
poll may lie behind the last answer with none or one poll lost (`LossInv`).
`AliveAssumption` is what they need of the periods: an exchange is over before
the next poll, there is time for two polls and their answers before a device is
given up, and that time is shorter than the clock's range (1000, 3000 and 2^32
in the code). The exceptions are `ahead`, a deadline that wraps, and
`NeverDropped`: a node heard at clock 0, which `aliveTime > 0` takes for one that
was never heard, or exactly `RF_NODE_ALIVE_TIME` before the clock's last value.

**RfNodeProofs**: `TypeCorrect`, `CounterIsExact` (with the cardinality of the
used entries; the uint8_t counter does not wrap as the table is smaller than
256), `NoDuplicates`, and `CrossingsAreReported`, which needs the strengthening
`CrossedIsBefore`: for a subscription to a bound, "has been on the other side"
and "the last reading is on the other side" are the same.

**EepromProofs**: `WritesAreInPlace` and `TypeCorrect`, for any chip and page
size. `LoopInv` says that the next transfer is all that is left or ends at the
end of its page; the lemmas `NextPage` and `NoWrap` are the arithmetic that makes
such a transfer not wrap.

**AcceptanceFilterProofs**: `RegistersAlwaysFollow`, `TableAlwaysFits` and
`SuccessLeavesOn`, for every size of the RAM and every set of entries; the first
says nothing of a counted table that `CAN_Init` has cleared (`wiped`). Together
they are inductive (`TableInv`) and do not depend on what the RAM holds. The
arithmetic is in `HalfWords` (when an entry of half a word takes or frees a
word); `LoadStep` and `RemoveStep` do the five kinds of entries at once, from
what each does to its counter and to the registers behind it. `TypeCorrect` adds
the contents (`RamInv`): every entry fits the half-word, word or pair it is given
(`EntriesFit`), and the loops that move words and half-words write nothing but
words, wherever the search for a place (`MinTyped`) makes them begin and however
far they run past the RAM. `AfAssumption` makes the memory behind it large enough
for every loop, whatever it holds at first (`Beyond`).

`RemovalsAreExact` and `LoadsAreExact` say what those words are: the contents of
the five sections before and after a call, compared entry by entry. The argument
has three layers. What each loop leaves in every word of the RAM
(`MoveDownMoves`, `MoveUpMoves`, `PutMoves`, `DropMoves`, `PutHalvesReads`, with
`Decode` for the two halves of a word). That a section reads the same when its
words have moved with its start, so that a call that changes one section and
moves the words behind it by as much as that section grows changes no other
(`SectionsFollow`, `OthersStay`). And that the changed section is `RemoveAt` or
`InsertAt` of what it was (`HalvesRemoved`, `HalvesInserted` and their
counterparts for words and pairs), an inserted entry between two it may stand
between (`OrderKept`). The three exceptions the properties name are hypotheses
about half-words that are removed (`HalfRemoveReads`, `HalfDeletes`), about those
whose place is overlooked (`NotOverlooked`) and about the first standard group
(`GstdArrives`) only: the loops are exact in every other case, also for the last
word of a full RAM, after a cleared table, and for an identifier that is there
already, which is put in once more.

**AndroidHostProofs**, for all waits, delays, clock widths and table sizes with
`DisconnectMs < SettleTurns + 2 * ResetMs`:

- `SessionsAreLive` needs `SessionInv`: as long as the handler has not written
  the state, the place of the main loop says what the state is (`AtState`); once
  it has, the state is the one it wrote until a case ends; a session that began
  undisturbed (`Live`) has a configured device, and its interrupt is pending
  exactly when the device has gone; a device the reset controller has not yet
  detected is there and has no session.
- `DisconnectComesFirst` needs `DisconnectInv` besides. `ProgressInv` relates the
  time since the disconnect was scheduled, the rest of a busy wait included, to
  the stage the enumeration has reached (`Reached`): settling has taken a
  millisecond per count, and each of the two resets its busy wait. So a
  configured device means that more than `DisconnectMs` have passed, and
  `monitor_task`, which comes first in the turn, has found the disconnect due
  (`OwedInv`). The code states this dependency nowhere; it is the assumption
  `DelayAssumption` of the model.

Only model-checked: the liveness properties (`QueueDrains`, `QueuedIsForwarded`,
`ReceiverRecovers`, `FramesDelivered`, `WriteEnds`, `HostSettles`), which need
fairness, out of the prover's reach; and `FillerKept`, that no place is overlooked
before `CAN_Init` has cleared a counted table.

## Disagreements met on the way

Three are shown by runs: `can_remote`, `uart_empty` and `rf_report`. Others are
exceptions named in a property, or have no run:

- `lpc17xx_can.c`: `CAN_SendMsg` tests and uses transmit buffer 1 only: the code
  for buffers 2 and 3 shifts its mask but not the register it selects.
- `lpc17xx_can.c`: `CAN_RemoveEntry` loses another entry than the one asked for
  when the position and the number of half-word entries are odd (exception of
  `RemoveDeletes`); the first standard group is written over an extended entry
  (exception of `LoadInserts`); the section registers advance by a whole word for
  an entry that takes half of one (`RegistersFollow` counts them); the error
  returns of `CAN_LoadGroupEntry` and `CAN_RemoveEntry` leave the filter off.
- `lpc17xx_can.c:520` and `729` promise `CAN_ID_EXIT_ERROR` for an identifier that
  exists already. No function returns it: the loads put the identifier in once
  more and return `CAN_OK`. `LoadInserts` states and covers what the code does.
- `lpc17xx_can.c`: the loops that move sections run past the RAM, reading (1312)
  and writing (695-704, 770-780, 1062-1074) words behind `mask[511]`. The table
  itself is not harmed (`LoadInserts`); what lies behind the RAM is.
- `lpc17xx_can.c:175-223`: `CAN_Init` clears RAM and section registers and leaves
  the counters, so after a second call the driver counts entries that are gone
  and the registers do not follow (`wiped`). An unused half-word is then 0 and no
  longer the filler, the search for a place passes over it and the new entry
  goes into the word behind the section (`Overlooked`).
- USB host: a case of the state machine assigns the next state although the
  interrupt handler has written it meanwhile (a port reset is 800 ms of busy wait,
  so there is time for it), and `USB_ResetInterface` may write `Unattached` over
  a device just attached. The change is lost until the device is plugged again:
  the exception `stale` of the properties of AndroidHost.
- `OHCI.c:730-739`: the wait for a transfer has no timeout. A device that does not
  complete one, or an interrupt that frees the endpoint before line 322 marks the
  transfer as queued, hangs the main loop (exception `queued` of `HostSettles`).
- `AndroidAccessoryHost.c`: a deadline that wraps, or is 0 or the largest value
  of the clock, makes the disconnect early, late or never due (`wrapped`).
  `handleNodeDetached` clears the entries of all nodes.
  `handleDeviceDisconnected` calls `canpt_unsubscribe` for every subscription and
  clears the table, but nothing is sent (`canpt.c:747` and `765` are commented
  out), so a subscription a node holds would run on. `doDisconnect` that is set when the device goes
  away ends the next session. `attachedCoreNum` is a uint8_t compared with -1;
  before the first attachment `USB_HostState[255]` is read, and the model begins
  with the value of the core in use.
- `rfpt.c`: sums with the clock wrap. A deadline that wraps detaches a live node;
  before the wrap nodes are polled, and Discover is sent, on every call, and
  after it not until the clock passes the old deadline (exceptions of
  `OneLossTolerated`). `handlePublish` does not set `lastPoll`: an entry reused
  after the wrap is not polled until the clock is back at its old `lastPoll`, and
  its holder is detached every 3 s without having missed a poll (`ahead`). A node
  last heard exactly 3000 ms before 2^32 - 1, or at 0 (line 665 tests
  `aliveTime > 0`), is never detached (`NeverDropped`).
- `xbee.c`: the frame timer never expires when its deadline is 0 or 2^32 - 1
  (`ReceiverRecovers` excludes just these), and the checksum of a frame of
  maximal length is written one byte past `rfBuf`.
- `eeprom.c` returns the full count when transfers fail, while its comment
  promises -1.
- `rfpt.h` says a difference subscription reports a change by "at least" the
  value; the code reports a change by more than it.

## Not modelled, and the plan

Not modelled: the node table and the dispatch of `canpt.c`, which this commit no
longer reaches (lines 814-825 and the assignment to `_cb`, line 468, are commented
out), and its request functions, which `AndroidAccessoryHost.c:270-288` and `464`
still call but which send nothing; `CAN_SetupAFLUT`, which fills the filter's table at
once and has no caller; bit timing and modes of the CAN controllers; the messages
that the Android host sends; the LED demo, whose main loop only writes PWM
registers; `eeprom_init`, which chooses a chip.

Nine tenths of the repository's lines are libraries that come with it and that
its programs do not call or call through a narrow interface: lwIP, FatFs, the
device side, class drivers and the other host controllers of nxpUSBlib, the
remaining drivers of the microcontroller library. They are not this program's
logic and are left out, except for the USB host state machine and the acceptance
filter, whose state the program shares.

Done, in this order: CAN bridge and its queue, radio queue, XBee receiver,
coordinator, end device, EEPROM, acceptance filter, USB host and Android host,
the coordinator under a wrapping clock. Next:

1. The sending half of `xbee.c`: frame identifiers (uint8_t, 0 skipped), transmit
   status, the command mode handshake of `xbee_init` with its timeouts.
2. Composition of coordinator and end device: values from a node that was dropped
   and came back.
