------------------------- MODULE RfCoordinatorProofs ---------------------------
(***************************************************************************)
(* Proofs about the node table of the radio coordinator, for any number of *)
(* entries and devices, any run length, any width of the clock and any     *)
(* periods that relate to each other as the code's do (AliveAssumption).   *)
(*                                                                         *)
(* rf_task makes the new table in two stages, checkIfNodesAlive and the    *)
(* handler of the packet that arrived.  Each stage keeps a table well      *)
(* typed and free of duplicates, so the first lemmas are about a table t   *)
(* and not about the variable.  The theorems about silence and lost polls  *)
(* follow one entry through a call of rf_task (Stayed, Fresh) and compare  *)
(* its two times, which wrap, with the ticks since its device was heard    *)
(* (AgeInv, LossInv).                                                      *)
(***************************************************************************)
EXTENDS RfCoordinator, Integers, WellFoundedInduction, TLAPS

Table == [NodeIds -> Node]

\* What NodesUnique says, of a table
UniqueIn(t) ==
  \A i, j \in NodeIds : t[i].addr = t[j].addr /\ i # j => t[i].addr = NoAddr

\* The clock the driver reads stays in its range.
LEMMA TimeInRange == now \in Nat => time_get \in Time
  BY SizeAssumption DEF time_get, Time

\* checkIfNodesAlive gives a table.
LEMMA CheckTyped ==
  ASSUME NEW t \in Table, now \in Nat
  PROVE  checkIfNodesAlive(t) \in Table
<1>1. time_get \in Time
  BY TimeInRange
<1>2. \A i \in NodeIds : /\ [t[i] EXCEPT !.addr = NoAddr] \in Node
                         /\ [t[i] EXCEPT !.lastPoll = time_get] \in Node
                         /\ t[i] \in Node
  BY <1>1 DEF Table, Node
<1>. QED
  BY <1>2 DEF checkIfNodesAlive, Table

\* checkIfNodesAlive keeps an address where it is or clears it.
LEMMA CheckClears ==
  ASSUME NEW t \in Table, NEW i \in NodeIds
  PROVE  checkIfNodesAlive(t)[i].addr \in {t[i].addr, NoAddr}
<1>1. t[i] \in Node
  BY DEF Table
<1>2. /\ [t[i] EXCEPT !.addr = NoAddr].addr = NoAddr
      /\ [t[i] EXCEPT !.lastPoll = time_get].addr = t[i].addr
  BY <1>1 DEF Node
<1>. QED
  BY <1>2 DEF checkIfNodesAlive

\* So it makes no duplicates.
LEMMA CheckUnique ==
  ASSUME NEW t \in Table, UniqueIn(t)
  PROVE  UniqueIn(checkIfNodesAlive(t))
  BY CheckClears DEF UniqueIn

\* handlePublish gives a table.
LEMMA PublishTyped ==
  ASSUME NEW t \in Table, NEW a \in EndDevices, now \in Nat
  PROVE  handlePublish(t, a) \in Table
<1>1. time_get \in Time
  BY TimeInRange
<1>. QED
  BY <1>1 DEF handlePublish, Table, Node

\* handlePublish adds an address only when the table does not have it.
LEMMA PublishUnique ==
  ASSUME NEW t \in Table, NEW a \in EndDevices, UniqueIn(t)
  PROVE  UniqueIn(handlePublish(t, a))
<1>1. CASE ~(Unknown(t, a) /\ Known(t, NoAddr) # {})
  BY <1>1 DEF handlePublish
<1>2. CASE Unknown(t, a) /\ Known(t, NoAddr) # {}
  <2> DEFINE x == First(Known(t, NoAddr))
             u == handlePublish(t, a)
  <2>1. \A i \in NodeIds : u[i].addr = IF i = x THEN a ELSE t[i].addr
    BY <1>2 DEF handlePublish, Table, Node
  <2>2. \A i \in NodeIds : t[i].addr # a
    BY <1>2 DEF Unknown, Known
  <2>. QED
    BY <2>1, <2>2 DEF UniqueIn
<1>. QED
  BY <1>1, <1>2

\* A poll response changes no address.
LEMMA PollResponseKeeps ==
  ASSUME NEW t \in Table, NEW a \in EndDevices, now \in Nat
  PROVE  /\ handlePollResponse(t, a) \in Table
         /\ \A i \in NodeIds : handlePollResponse(t, a)[i].addr = t[i].addr
<1>1. time_get \in Time
  BY TimeInRange
<1>. QED
  BY <1>1 DEF handlePollResponse, Table, Node

\* Whatever packet arrives, xbeeData gives a table without duplicates.
LEMMA HandlerKeeps ==
  ASSUME NEW t \in Table, NEW p \in Packet, p.msg \in FromDevice, now \in Nat,
         UniqueIn(t)
  PROVE  xbeeData(t, p) \in Table /\ UniqueIn(xbeeData(t, p))
<1>1. p.dev \in EndDevices
  BY DEF Packet
<1>2. CASE p.msg = "PUBLISH"
  BY <1>1, <1>2, PublishTyped, PublishUnique DEF xbeeData
<1>3. CASE p.msg = "POLL_RESP"
  <2>1. xbeeData(t, p) = handlePollResponse(t, p.dev)
    BY <1>3 DEF xbeeData
  <2>. QED
    BY <1>1, <2>1, PollResponseKeeps DEF UniqueIn
<1>. QED
  BY <1>2, <1>3 DEF FromDevice

\* The packets rf_task sends go to devices.
LEMMA SentTyped == TypeOK => Sent \subseteq Packet
<1>. SUFFICES ASSUME TypeOK PROVE Sent \subseteq Packet
  OBVIOUS
<1>1. \A i \in Polled(nodes) : nodes[i].addr \in EndDevices
  BY DEF TypeOK, Node, Polled
<1>2. \A a \in EndDevices : /\ To("POLL", a) \in Packet
                            /\ To("DISCOVER", a) \in Packet
  BY DEF To, Packet, ToDevice, TypeOK
<1>. QED
  BY <1>1, <1>2 DEF Sent

Inv == TypeOK /\ NodesUnique

\* rf_task keeps the invariant, with or without a packet.
LEMMA TaskKeeps ==
  ASSUME Inv, NEW recv, rf_task(recv), recv = {} \/ \E p \in air : recv = {p}
  PROVE  Inv'
<1> DEFINE t == checkIfNodesAlive(nodes)
<1>1. TypeOK /\ NodesUnique /\ now \in Nat /\ nodes \in Table /\ UniqueIn(nodes)
  BY SizeAssumption DEF Inv, TypeOK, Table, NodesUnique, UniqueIn
<1>2. t \in Table /\ UniqueIn(t)
  BY <1>1, CheckTyped, CheckUnique
<1>3. nodes' \in Table /\ UniqueIn(nodes')
  <2>1. CASE recv = {}
    BY <2>1, <1>2 DEF rf_task
  <2>2. CASE \E p \in air : recv = {p}
    <3>1. PICK p \in air : recv = {p}
      BY <2>2
    <3>2. p \in Packet /\ p.msg \in FromDevice
      BY <3>1, <1>1 DEF rf_task, TypeOK
    <3>3. (CHOOSE q \in recv : TRUE) = p
      BY <3>1
    <3>4. nodes' = xbeeData(t, p)
      BY <3>1, <3>3 DEF rf_task
    <3>. QED
      BY <3>2, <3>4, <1>1, <1>2, HandlerKeeps
  <2>. QED
    BY <2>1, <2>2
<1>4. lastDiscover' \in Time
  BY <1>1, TimeInRange DEF rf_task, TypeOK
<1>5. air' \subseteq Packet
  BY <1>1, SentTyped DEF rf_task, TypeOK
<1>6. misses' \in [EndDevices -> 0 .. 2]
  BY <1>1 DEF rf_task, Remember, TypeOK
<1>7. now' = now /\ ran' \in BOOLEAN /\ ahead' \subseteq NodeIds
  BY DEF rf_task, Remember
<1>8. heard' \in [NodeIds -> 0 .. MaxTime]
  <2>1. /\ now \in 0 .. MaxTime /\ 0 \in 0 .. MaxTime
        /\ \A i \in NodeIds : heard[i] \in 0 .. MaxTime
    BY <1>1, SizeAssumption DEF TypeOK
  <2>. QED
    BY <2>1 DEF rf_task, Remember
<1>. QED
  BY <1>1, <1>3, <1>4, <1>5, <1>6, <1>7, <1>8
     DEF Inv, TypeOK, NodesUnique, UniqueIn, Table

\* The other steps leave the table alone.
LEMMA OthersKeep ==
  ASSUME Inv, Tick \/ (\E p \in air : Answer(p) \/ Lose(p)) \/ UNCHANGED vars
  PROVE  Inv'
<1>1. CASE Tick
  <2>1. now' \in 0 .. MaxTime
    BY <1>1, SizeAssumption DEF Inv, TypeOK, Tick
  <2>2. ran' \in BOOLEAN
    BY <1>1 DEF Tick
  <2>. QED
    BY <1>1, <2>1, <2>2 DEF Inv, TypeOK, NodesUnique, Tick
<1>2. ASSUME NEW p \in air, Answer(p) PROVE Inv'
  <2>1. p \in Packet
    BY DEF Inv, TypeOK
  <2>2. /\ [p EXCEPT !.msg = "POLL_RESP"] \in Packet
        /\ [p EXCEPT !.msg = "PUBLISH"] \in Packet
    BY <2>1 DEF Packet, FromDevice
  <2>. QED
    BY <1>2, <2>2 DEF Inv, TypeOK, NodesUnique, Answer
<1>3. ASSUME NEW p \in air, Lose(p) PROVE Inv'
  <2>1. misses' \in [EndDevices -> 0 .. 2]
    <3>1. p.dev \in EndDevices /\ misses \in [EndDevices -> 0 .. 2]
      BY DEF Inv, TypeOK, Packet
    <3>2. misses[p.dev] < 2
            => [misses EXCEPT ![p.dev] = @ + 1] \in [EndDevices -> 0 .. 2]
      BY <3>1
    <3>. QED
      BY <1>3, <3>1, <3>2 DEF Lose
  <2>. QED
    BY <1>3, <2>1 DEF Inv, TypeOK, NodesUnique, Lose
<1>4. CASE UNCHANGED vars
  BY <1>4 DEF Inv, TypeOK, NodesUnique, vars
<1>. QED
  BY <1>1, <1>2, <1>3, <1>4

\* The table is empty at first.
LEMMA InitInv == Init => Inv
<1>. SUFFICES ASSUME Init PROVE TypeOK /\ NodesUnique
  BY DEF Inv
<1>1. 0 \in Time /\ 0 \in 0 .. MaxTime
  BY SizeAssumption DEF Time
<1>2. nodes \in [NodeIds -> Node] /\ NodesUnique
  BY <1>1 DEF Init, NodesUnique, Node
<1>3. lastDiscover \in Time /\ now \in 0 .. MaxTime
  BY <1>1 DEF Init
<1>4. air \subseteq Packet /\ ran \in BOOLEAN /\ ahead \subseteq NodeIds
  BY DEF Init
<1>5. /\ heard \in [NodeIds -> 0 .. MaxTime]
      /\ misses \in [EndDevices -> 0 .. 2]
  BY <1>1 DEF Init
<1>. QED
  BY <1>2, <1>3, <1>4, <1>5 DEF TypeOK

\* The table is well typed and without duplicates in every reachable state.
LEMMA TableHolds == Spec => []Inv
<1>1. Init => Inv
  BY InitInv
<1>2. Inv /\ [Next]_vars => Inv'
  BY TaskKeeps, OthersKeep DEF Next
<1>. QED
  BY <1>1, <1>2, PTL DEF Spec

\* The entries, deadlines and packets of the coordinator keep their types: the
\* times in the table stay below the modulus of the clock.
THEOREM TypeCorrect == Spec => []TypeOK
<1>1. Inv => TypeOK
  BY DEF Inv
<1>. QED
  BY <1>1, TableHolds, PTL

\* The table of the coordinator holds no device twice, whatever is published,
\* lost, answered or dropped in whatever order (handlePublish,
\* handlePollResponse, checkIfNodesAlive).
THEOREM TableIsUnique == Spec => []NodesUnique
<1>1. Inv => NodesUnique
  BY DEF Inv
<1>. QED
  BY <1>1, TableHolds, PTL

-----------------------------------------------------------------------------
(* The clock.                                                              *)

\* Division leaves a remainder.
LEMMA Division ==
  ASSUME NEW n \in Nat, NEW m \in Nat \ {0}
  PROVE  /\ n = m * (n \div m) + (n % m)
         /\ n % m \in 0 .. m - 1 /\ n \div m \in Nat
  OBVIOUS

\* The remainder is the only one.
LEMMA RemainderUnique ==
  ASSUME NEW m \in Nat \ {0}, NEW a \in Int, NEW b \in Int,
         NEW r \in 0 .. m - 1, NEW s \in 0 .. m - 1, m * a + r = m * b + s
  PROVE  r = s
<1>1. m * (a - b) = s - r
  OBVIOUS
<1>2. CASE a - b >= 1
  <2>1. m * (a - b) >= m
    BY <1>2
  <2>. QED
    BY <2>1, <1>1
<1>3. CASE a - b <= -1
  <2>1. m * (a - b) <= -m
    BY <1>3
  <2>. QED
    BY <2>1, <1>1
<1>4. CASE a = b
  BY <1>4
<1>. QED
  BY <1>2, <1>3, <1>4

\* A tick moves the clock on by one, or from its last value to 0.
LEMMA ClockTicks ==
  ASSUME NEW n \in Nat, NEW m \in Nat \ {0}
  PROVE  (n + 1) % m = IF n % m = m - 1 THEN 0 ELSE (n % m) + 1
<1> DEFINE s == IF n % m = m - 1 THEN 0 ELSE (n % m) + 1
           k == IF n % m = m - 1 THEN (n \div m) + 1 ELSE n \div m
<1>1. n = m * (n \div m) + (n % m) /\ n % m \in 0 .. m - 1 /\ n \div m \in Nat
  BY Division
<1>2. PICK q \in Nat, r \in 0 .. m - 1 : r = (n + 1) % m /\ n + 1 = m * q + r
  <2>1. n + 1 \in Nat
    OBVIOUS
  <2>. QED
    BY <2>1, Division
<1>3. s \in 0 .. m - 1 /\ k \in Nat
  BY <1>1
<1>4. n + 1 = m * k + s
  BY <1>1
<1>5. r = s
  <2> HIDE DEF s, k
  <2>1. q \in Int /\ k \in Int /\ m * q + r = m * k + s
    BY <1>2, <1>3, <1>4
  <2>. QED
    BY <1>2, <1>3, <2>1, RemainderUnique
<1>. QED
  BY <1>2, <1>5

\* A deadline within the range of the clock is the sum itself, one that wraps
\* the sum less the modulus.
LEMMA LaterValue ==
  ASSUME NEW x \in Time, NEW p \in Nat
  PROVE  /\ Later(x, p) \in Nat /\ Later(x, p) <= x + p
         /\ ~Wraps(x, p) => Later(x, p) = x + p
         /\ Wraps(x, p) /\ p < TimeMod => Later(x, p) = x + p - TimeMod
<1>1. x \in Nat /\ x < TimeMod /\ x + p \in Nat /\ TimeMod \in Nat \ {0}
  BY SizeAssumption DEF Time
<1>2. Later(x, p) \in 0 .. TimeMod - 1
  BY <1>1, Division DEF Later
<1>3. Later(x, p) <= x + p
  <2>1. PICK q \in Nat : x + p = TimeMod * q + Later(x, p)
    BY <1>1, Division DEF Later
  <2>2. TimeMod * q >= 0
    BY <1>1, <2>1
  <2>. QED
    BY <1>1, <1>2, <2>1, <2>2
<1>4. ASSUME ~Wraps(x, p) PROVE Later(x, p) = x + p
  BY <1>1, <1>4 DEF Later, Wraps
<1>5. ASSUME Wraps(x, p), p < TimeMod PROVE Later(x, p) = x + p - TimeMod
  <2> DEFINE y == x + p - TimeMod
  <2>1. y \in 0 .. TimeMod - 1 /\ x + p = TimeMod * 1 + y
    BY <1>1, <1>5 DEF Wraps
  <2>2. PICK q \in Nat : x + p = TimeMod * q + Later(x, p)
    BY <1>1, Division DEF Later
  <2> HIDE DEF y
  <2>3. Later(x, p) = y
    BY <1>1, <1>2, <2>1, <2>2, RemainderUnique
  <2>. QED
    BY <2>3 DEF y
<1>. QED
  BY <1>2, <1>3, <1>4, <1>5

-----------------------------------------------------------------------------
(* What a call of rf_task does to an entry.                                *)

\* A set of entries that is not empty has a first one.
LEMMA FirstIn ==
  ASSUME NEW S \in SUBSET NodeIds, S # {}
  PROVE  First(S) \in S
<1>1. S \subseteq Nat
  BY SizeAssumption DEF NodeIds
<1>2. \E x \in S : \A y \in S : <<y, x>> \notin OpToRel(<, Nat)
  BY <1>1, NatLessThanWellFounded, WFMin, Zenon
<1>3. \A x, y \in Nat : <<y, x>> \notin OpToRel(<, Nat) => ~(y < x)
  BY Zenon DEF OpToRel
<1>4. \A x, y \in Nat : ~(y < x) => x <= y
  OBVIOUS
<1>5. \E x \in S : \A y \in S : x <= y
  BY <1>1, <1>2, <1>3, <1>4
<1>. QED
  BY <1>5 DEF First

\* checkIfNodesAlive frees the entry of a silent node, notes the time when it
\* polls another one and leaves the free entries alone.
LEMMA CheckEntry ==
  ASSUME NEW t \in Table, NEW i \in NodeIds, now \in Nat
  PROVE  LET u == checkIfNodesAlive(t)[i]
         IN  /\ u.aliveTime = t[i].aliveTime
             /\ t[i].addr = NoAddr => u = t[i]
             /\ t[i].addr # NoAddr /\ Silent(t[i])
                  => u.addr = NoAddr /\ u.lastPoll = t[i].lastPoll
             /\ t[i].addr # NoAddr /\ ~Silent(t[i])
                  => /\ u.addr = t[i].addr
                     /\ PollDue(t[i]) => u.lastPoll = time_get
                     /\ ~PollDue(t[i]) => u.lastPoll = t[i].lastPoll
<1> DEFINE u == checkIfNodesAlive(t)[i]
<1>1. t[i] \in Node
  BY DEF Table
<1>2. CASE i \in Dropped(t)
  <2>1. u = [t[i] EXCEPT !.addr = NoAddr]
    <3>1. i \notin Polled(t)
      BY <1>2 DEF Polled
    <3>. QED
      BY <1>2, <3>1 DEF checkIfNodesAlive
  <2>. QED
    BY <1>1, <1>2, <2>1 DEF Dropped, Node
<1>3. CASE i \in Polled(t)
  <2>1. u = [t[i] EXCEPT !.lastPoll = time_get] /\ i \notin Dropped(t)
    BY <1>3 DEF checkIfNodesAlive, Polled
  <2>2. t[i].addr # NoAddr /\ ~Silent(t[i]) /\ PollDue(t[i])
    BY <1>3 DEF Dropped, Polled
  <2>. QED
    BY <1>1, <2>1, <2>2 DEF Node
<1>4. CASE i \notin Dropped(t) /\ i \notin Polled(t)
  <2>1. u = t[i]
    BY <1>4 DEF checkIfNodesAlive
  <2>2. t[i].addr # NoAddr => ~Silent(t[i]) /\ ~PollDue(t[i])
    BY <1>4 DEF Dropped, Polled
  <2>. QED
    BY <1>1, <2>1, <2>2
<1>. QED
  BY <1>2, <1>3, <1>4

\* handlePublish changes nothing, or gives a free entry to a device that has
\* none.
LEMMA PublishEntry ==
  ASSUME NEW t \in Table, NEW a \in EndDevices, NEW i \in NodeIds, now \in Nat
  PROVE  \/ handlePublish(t, a)[i] = t[i]
         \/ /\ t[i].addr = NoAddr /\ Unknown(t, a)
            /\ handlePublish(t, a)[i].addr = a
            /\ handlePublish(t, a)[i].aliveTime = time_get
            /\ handlePublish(t, a)[i].lastPoll = t[i].lastPoll
<1>1. CASE ~(Unknown(t, a) /\ Known(t, NoAddr) # {})
  BY <1>1 DEF handlePublish
<1>2. CASE Unknown(t, a) /\ Known(t, NoAddr) # {}
  <2> DEFINE x == First(Known(t, NoAddr))
             u == handlePublish(t, a)
  <2>1. x \in Known(t, NoAddr)
    BY <1>2, FirstIn DEF Known
  <2>2. x \in NodeIds /\ t[x].addr = NoAddr
    BY <2>1 DEF Known
  <2>3. u = [t EXCEPT ![x].addr = a, ![x].aliveTime = time_get]
    BY <1>2 DEF handlePublish
  <2> HIDE DEF x, u
  <2>4. t[i] \in Node
    BY DEF Table
  <2>5. i # x => u[i] = t[i]
    BY <2>2, <2>3 DEF Table
  <2>6. i = x => u[i].addr = a /\ u[i].aliveTime = time_get
                   /\ u[i].lastPoll = t[i].lastPoll
    BY <2>2, <2>3, <2>4 DEF Table, Node
  <2>. QED
    BY <1>2, <2>2, <2>5, <2>6 DEF u
<1>. QED
  BY <1>1, <1>2

\* handlePollResponse notes the time in the entry of the device.
LEMMA PollResponseEntry ==
  ASSUME NEW t \in Table, NEW a \in EndDevices, NEW i \in NodeIds, now \in Nat,
         UniqueIn(t)
  PROVE  LET u == handlePollResponse(t, a)[i]
         IN  /\ u.addr = t[i].addr /\ u.lastPoll = t[i].lastPoll
             /\ t[i].addr = a => u.aliveTime = time_get
             /\ t[i].addr # a => u = t[i]
<1> DEFINE u == handlePollResponse(t, a)
<1>1. t[i] \in Node /\ a # NoAddr
  BY AddrAssumption DEF Table
<1>2. CASE Known(t, a) = {}
  <2>1. u[i] = t[i] /\ t[i].addr # a
    BY <1>2 DEF handlePollResponse, Known
  <2>. QED
    BY <2>1
<1>3. CASE Known(t, a) # {}
  <2> DEFINE x == First(Known(t, a))
  <2>1. x \in Known(t, a)
    BY <1>3, FirstIn DEF Known
  <2>2. x \in NodeIds /\ t[x].addr = a
    BY <2>1 DEF Known
  <2>3. u = [t EXCEPT ![x].aliveTime = time_get]
    BY <1>3 DEF handlePollResponse
  <2> HIDE DEF x, u
  <2>4. t[i].addr = a <=> i = x
    BY <1>1, <2>2 DEF UniqueIn
  <2>5. i # x => u[i] = t[i]
    BY <2>2, <2>3 DEF Table
  <2>6. i = x => /\ u[i].addr = t[i].addr /\ u[i].lastPoll = t[i].lastPoll
                 /\ u[i].aliveTime = time_get
    BY <1>1, <2>2, <2>3 DEF Table, Node
  <2>7. u[i].addr = t[i].addr /\ u[i].lastPoll = t[i].lastPoll
    BY <2>5, <2>6
  <2>. QED
    BY <2>4, <2>5, <2>6, <2>7 DEF u
<1>. QED
  BY <1>2, <1>3


\* The constants are numbers.
LEMMA Numbers ==
  /\ RF_NODE_POLL_TIME \in Nat /\ RF_NODE_POLL_TIME > 0
  /\ RF_NODE_ALIVE_TIME \in Nat /\ TimeMod \in Nat /\ TimeMod > 0
  /\ RoundTrip \in Nat /\ RoundTrip <= RF_NODE_POLL_TIME
  /\ 2 * RF_NODE_POLL_TIME + 1 + RoundTrip < RF_NODE_ALIVE_TIME
  /\ RF_NODE_ALIVE_TIME < TimeMod - 1
  BY SizeAssumption, PeriodAssumption, AliveAssumption

\* The times of an entry, on the clock and in ticks since the start.
LEMMA EntryTimes ==
  ASSUME TypeOK, NEW i \in NodeIds
  PROVE  /\ nodes[i].aliveTime \in Time /\ nodes[i].lastPoll \in Time
         /\ time_get \in Time /\ heard[i] \in Nat /\ now \in Nat
  BY TimeInRange, SizeAssumption DEF TypeOK, Node

\* A packet of a poll: the request or its answer.
Polling(p, a) == p.msg \in {"POLL", "POLL_RESP"} /\ p.dev = a

\* A poll that was sent at s or before is under way.
InFlight(a, s) == \E p \in air : Polling(p, a) /\ p.sent <= s

\* rf_task attached the device of an entry, or got its answer.
Fresh(i, a) ==
  /\ nodes'[i].aliveTime = time_get /\ heard'[i] = now /\ misses'[a] = 0
  /\ i \in ahead' \/ ~PolledAhead(nodes'[i])

\* rf_task heard nothing of the device of an entry.
Unheard(i, a) ==
  /\ nodes'[i].aliveTime = nodes[i].aliveTime /\ heard'[i] = heard[i]
  /\ misses'[a] = misses[a] /\ (i \in ahead' <=> i \in ahead)
  /\ \A p \in air : Polling(p, a) => p \in air'

\* rf_task kept the entry of device a and polled the device when that was due.
Stayed(i, a) ==
  /\ nodes'[i].addr = a
  /\ PollDue(nodes[i])
       => nodes'[i].lastPoll = time_get /\ To("POLL", a) \in air'
  /\ ~PollDue(nodes[i]) => nodes'[i].lastPoll = nodes[i].lastPoll
  /\ Fresh(i, a) \/ Unheard(i, a)

\* What a call of rf_task has received, and the table it leaves.
LEMMA TaskTable ==
  ASSUME Inv, NEW recv, rf_task(recv), recv = {} \/ \E p \in air : recv = {p},
         NEW t, t = checkIfNodesAlive(nodes)
  PROVE  /\ t \in Table /\ UniqueIn(t)
         /\ \/ recv = {} /\ nodes' = t
            \/ \E p \in air :
                 /\ recv = {p} /\ p.msg = "PUBLISH" /\ p.dev \in EndDevices
                 /\ nodes' = handlePublish(t, p.dev)
            \/ \E p \in air :
                 /\ recv = {p} /\ p.msg = "POLL_RESP" /\ p.dev \in EndDevices
                 /\ nodes' = handlePollResponse(t, p.dev)
<1>1. now \in Nat /\ nodes \in Table /\ UniqueIn(nodes) /\ air \subseteq Packet
  BY SizeAssumption DEF Inv, TypeOK, Table, NodesUnique, UniqueIn
<1>2. t \in Table /\ UniqueIn(t)
  BY <1>1, CheckTyped, CheckUnique
<1>3. CASE recv = {}
  BY <1>2, <1>3 DEF rf_task
<1>4. CASE recv # {}
  <2>1. PICK p \in air : recv = {p}
    BY <1>4
  <2>2. p \in Packet /\ p.msg \in FromDevice /\ p.dev \in EndDevices
    BY <2>1, <1>1 DEF rf_task, Packet
  <2>3. (CHOOSE q \in recv : TRUE) = p
    BY <2>1
  <2>4. nodes' = xbeeData(t, p)
    BY <1>4, <2>3 DEF rf_task
  <2>5. CASE p.msg = "PUBLISH"
    <3>1. nodes' = handlePublish(t, p.dev)
      BY <2>4, <2>5 DEF xbeeData
    <3>. QED
      BY <1>2, <2>1, <2>2, <2>5, <3>1
  <2>6. CASE p.msg = "POLL_RESP"
    <3>1. nodes' = handlePollResponse(t, p.dev)
      BY <2>4, <2>6 DEF xbeeData
    <3>. QED
      BY <1>2, <2>1, <2>2, <2>6, <3>1
  <2>. QED
    BY <2>2, <2>5, <2>6 DEF FromDevice
<1>. QED
  BY <1>3, <1>4

\* The history of an entry that xbeeData sets.
LEMMA SetEntry ==
  ASSUME NEW t, NEW recv, NEW i \in NodeIds, Remember(t, nodes', recv),
         i \in Heard(t, nodes', recv), nodes'[i].aliveTime = time_get,
         nodes'[i].addr \in EndDevices
  PROVE  Fresh(i, nodes'[i].addr)
<1>1. heard'[i] = now
  BY DEF Remember, Heard
<1>2. misses'[nodes'[i].addr] = 0
  <2>1. PICK a \in EndDevices : a = nodes'[i].addr
    OBVIOUS
  <2>2. \E j \in Heard(t, nodes', recv) : nodes'[j].addr = a
    BY <2>1
  <2>. QED
    BY <2>1, <2>2 DEF Remember
<1>3. i \in ahead' \/ ~PolledAhead(nodes'[i])
  BY DEF Remember, Heard
<1>. QED
  BY <1>1, <1>2, <1>3 DEF Fresh

\* A device that is not silent keeps its entry.
LEMMA TaskStays ==
  ASSUME Inv, NEW recv, rf_task(recv), recv = {} \/ \E p \in air : recv = {p},
         NEW i \in NodeIds, nodes[i].addr # NoAddr, ~Silent(nodes[i])
  PROVE  Stayed(i, nodes[i].addr)
<1>. PICK t : t = checkIfNodesAlive(nodes)
  OBVIOUS
<1>. PICK a : a = nodes[i].addr
  OBVIOUS
<1>1. now \in Nat /\ nodes \in Table /\ UniqueIn(nodes)
  BY SizeAssumption DEF Inv, TypeOK, Table, NodesUnique, UniqueIn
<1>2. a \in EndDevices /\ a # NoAddr
  BY <1>1, AddrAssumption DEF Table, Node
<1>3. /\ t[i].addr = a /\ t[i].aliveTime = nodes[i].aliveTime
      /\ PollDue(nodes[i]) => t[i].lastPoll = time_get
      /\ ~PollDue(nodes[i]) => t[i].lastPoll = nodes[i].lastPoll
  BY <1>1, CheckEntry
<1>4. t \in Table /\ UniqueIn(t)
  BY TaskTable
<1>5. PollDue(nodes[i]) => To("POLL", a) \in air'
  <2>1. PollDue(nodes[i]) => i \in Polled(nodes)
    BY DEF Polled, Dropped
  <2>. QED
    BY <2>1 DEF Sent, rf_task
<1>6. Remember(t, nodes', recv)
  BY DEF rf_task
<1>7. ASSUME NEW p \in air, recv = {p}, p.msg = "POLL_RESP", p.dev = a,
             nodes' = handlePollResponse(t, a)
      PROVE  Stayed(i, a)
  <2>1. /\ nodes'[i].addr = a /\ nodes'[i].lastPoll = t[i].lastPoll
        /\ nodes'[i].aliveTime = time_get
    BY <1>1, <1>2, <1>3, <1>4, <1>7, PollResponseEntry
  <2>2. i \in Heard(t, nodes', recv)
    BY <1>2, <1>7, <2>1 DEF Heard
  <2>3. Fresh(i, a)
    BY <1>2, <1>6, <2>1, <2>2, SetEntry
  <2>. QED
    BY <1>3, <1>5, <2>1, <2>3 DEF Stayed
<1>8. ASSUME nodes'[i] = t[i],
             \A p \in recv : ~(p.msg = "POLL_RESP" /\ p.dev = a)
      PROVE  Stayed(i, a)
  <2>1. i \notin Heard(t, nodes', recv) /\ nodes'[i].addr # NoAddr
    BY <1>2, <1>3, <1>8 DEF Heard
  <2>2. heard'[i] = heard[i] /\ (i \in ahead' <=> i \in ahead)
    BY <1>6, <2>1 DEF Remember
  <2>3. misses'[a] = misses[a]
    <3>1. ASSUME NEW j \in Heard(t, nodes', recv), nodes'[j].addr = a
          PROVE  FALSE
      <4>1. j \in NodeIds /\ i # j
        BY <2>1, <3>1 DEF Heard
      <4>2. UniqueIn(nodes')
        BY TaskKeeps DEF Inv, NodesUnique, UniqueIn
      <4>. QED
        BY <1>2, <1>3, <1>8, <3>1, <4>1, <4>2 DEF UniqueIn
    <3>. QED
      BY <1>2, <1>6, <3>1 DEF Remember
  <2>4. \A p \in air : Polling(p, a) => p \in air'
    <3>1. \A p \in recv : p.msg \in FromDevice
      BY DEF rf_task
    <3>2. \A p \in recv : ~Polling(p, a)
      BY <1>8, <3>1 DEF Polling, FromDevice
    <3>. QED
      BY <3>2 DEF rf_task
  <2>. QED
    BY <1>3, <1>5, <1>8, <2>2, <2>3, <2>4 DEF Stayed, Unheard
<1>9. CASE recv = {} /\ nodes' = t
  BY <1>8, <1>9
<1>10. ASSUME NEW p \in air, recv = {p}, p.msg = "PUBLISH",
              p.dev \in EndDevices, nodes' = handlePublish(t, p.dev)
       PROVE  Stayed(i, a)
  <2>1. nodes'[i] = t[i]
    BY <1>1, <1>2, <1>3, <1>4, <1>10, PublishEntry
  <2>. QED
    BY <1>8, <1>10, <2>1
<1>11. ASSUME NEW p \in air, recv = {p}, p.msg = "POLL_RESP", p.dev # a,
              p.dev \in EndDevices, nodes' = handlePollResponse(t, p.dev)
       PROVE  Stayed(i, a)
  <2>1. nodes'[i] = t[i]
    BY <1>1, <1>3, <1>4, <1>11, PollResponseEntry
  <2>. QED
    BY <1>8, <1>11, <2>1
<1>. QED
  BY <1>7, <1>9, <1>10, <1>11, TaskTable

\* An entry that was free or its device silent is free afterwards or given to
\* a device that has just answered a Discover request.
LEMMA TaskJoins ==
  ASSUME Inv, NEW recv, rf_task(recv), recv = {} \/ \E p \in air : recv = {p},
         NEW i \in NodeIds, nodes[i].addr = NoAddr \/ Silent(nodes[i]),
         nodes'[i].addr # NoAddr
  PROVE  Fresh(i, nodes'[i].addr)
<1>. PICK t : t = checkIfNodesAlive(nodes)
  OBVIOUS
<1>1. now \in Nat /\ nodes \in Table
  BY SizeAssumption DEF Inv, TypeOK, Table
<1>2. t[i].addr = NoAddr
  BY <1>1, CheckEntry
<1>3. t \in Table /\ UniqueIn(t) /\ nodes' # t
  BY <1>2, TaskTable
<1>4. \A b \in EndDevices : nodes' # handlePollResponse(t, b)
  BY <1>1, <1>2, <1>3, PollResponseEntry
<1>5. PICK b \in EndDevices : nodes' = handlePublish(t, b)
  BY <1>3, <1>4, TaskTable
<1>6. nodes'[i].addr = b /\ nodes'[i].aliveTime = time_get
  BY <1>1, <1>2, <1>3, <1>5, PublishEntry
<1>7. i \in Heard(t, nodes', recv)
  BY <1>2, <1>6 DEF Heard
<1>8. Remember(t, nodes', recv)
  BY DEF rf_task
<1>. QED
  BY <1>5, <1>6, <1>7, <1>8, SetEntry

-----------------------------------------------------------------------------
(* How long a device can be silent.                                        *)

Lag == IF ran THEN 0 ELSE 1

\* An entry in use was set at heard, and not longer ago than checkIfNodesAlive
\* allows, which has run at this time or will.
AgeOK(n, h, g) ==
  /\ h <= now /\ n.aliveTime = h % TimeMod
  /\ now <= h + RF_NODE_ALIVE_TIME + g \/ NeverDropped(n)

AgeInv == \A i \in NodeIds :
            nodes[i].addr # NoAddr => AgeOK(nodes[i], heard[i], Lag)

\* What the clock shows d ticks after x, up to a whole turn.
LEMMA ClockAfter ==
  ASSUME NEW h \in Nat, NEW d \in Nat, d < TimeMod,
         NEW x, x = h % TimeMod, NEW t, t = (h + d) % TimeMod
  PROVE  /\ x \in Time /\ t \in Time
         /\ x + d < TimeMod => t = x + d
         /\ x + d >= TimeMod => t = x + d - TimeMod
<1>1. TimeMod \in Nat \ {0} /\ h + d \in Nat
  BY SizeAssumption
<1>2. PICK q \in Nat : h = TimeMod * q + x /\ x \in 0 .. TimeMod - 1
  BY <1>1, Division
<1>3. PICK r \in Nat : h + d = TimeMod * r + t /\ t \in 0 .. TimeMod - 1
  BY <1>1, Division
<1>4. ASSUME x + d < TimeMod PROVE t = x + d
  <2>1. TimeMod * r + t = TimeMod * q + (x + d) /\ x + d \in 0 .. TimeMod - 1
    BY <1>1, <1>2, <1>3, <1>4
  <2>2. PICK y \in 0 .. TimeMod - 1 : y = x + d
    BY <2>1
  <2>3. q \in Int /\ r \in Int /\ TimeMod * r + t = TimeMod * q + y
    BY <2>1, <2>2
  <2>. QED
    BY <1>1, <1>3, <2>2, <2>3, RemainderUnique
<1>5. ASSUME x + d >= TimeMod PROVE t = x + d - TimeMod
  <2>1. /\ TimeMod * r + t = TimeMod * (q + 1) + (x + d - TimeMod)
        /\ x + d - TimeMod \in 0 .. TimeMod - 1
    BY <1>1, <1>2, <1>3, <1>5
  <2>2. PICK y \in 0 .. TimeMod - 1 : y = x + d - TimeMod
    BY <2>1
  <2>3. PICK k \in Int : k = q + 1
    OBVIOUS
  <2>4. r \in Int /\ TimeMod * r + t = TimeMod * k + y
    BY <2>1, <2>2, <2>3
  <2>. QED
    BY <1>1, <1>3, <2>2, <2>3, <2>4, RemainderUnique
<1>. QED
  BY <1>2, <1>3, <1>4, <1>5 DEF Time

\* When rf_task has run, the silent nodes are gone: a tick after the deadline
\* the test of checkIfNodesAlive holds, before and after the wrap.
LEMMA AgeStays ==
  ASSUME NEW n \in Node, NEW h \in Nat, now \in Nat, NEW g \in {0, 1},
         AgeOK(n, h, g), ~Silent(n)
  PROVE  AgeOK(n, h, 0)
<1>. SUFFICES ASSUME ~NeverDropped(n), now = h + RF_NODE_ALIVE_TIME + 1
              PROVE  FALSE
  BY Numbers DEF AgeOK
<1>. PICK d \in Nat : d = RF_NODE_ALIVE_TIME + 1
  BY Numbers
<1>. PICK x : x = n.aliveTime
  OBVIOUS
<1>. PICK t : t = time_get
  OBVIOUS
<1>1. x = h % TimeMod /\ t = (h + d) % TimeMod /\ d < TimeMod
  <2>1. now = h + d
    BY Numbers
  <2>. QED
    BY <2>1, Numbers DEF AgeOK, time_get
<1>2. /\ x \in Time /\ t \in Time
      /\ x + d < TimeMod => t = x + d
      /\ x + d >= TimeMod => t = x + d - TimeMod
  BY <1>1, ClockAfter
<1>3. /\ ~Wraps(x, RF_NODE_ALIVE_TIME)
           => Later(x, RF_NODE_ALIVE_TIME) = x + RF_NODE_ALIVE_TIME
      /\ Wraps(x, RF_NODE_ALIVE_TIME)
           => Later(x, RF_NODE_ALIVE_TIME) = x + RF_NODE_ALIVE_TIME - TimeMod
  BY <1>2, Numbers, LaterValue
<1>4. x # 0 /\ x + RF_NODE_ALIVE_TIME # TimeMod - 1
  BY DEF NeverDropped
<1>5. ~(Later(x, RF_NODE_ALIVE_TIME) < t)
  BY <1>2, <1>4, SizeAssumption DEF Silent, Time
<1>. QED
  BY <1>2, <1>3, <1>4, <1>5, Numbers DEF Wraps, Time

\* rf_task sets an entry at the current time or drops it in time.
LEMMA TaskAge ==
  ASSUME Inv, AgeInv,
         NEW recv, rf_task(recv), recv = {} \/ \E p \in air : recv = {p}
  PROVE  AgeInv'
<1>1. /\ TypeOK /\ now \in Nat /\ now' = now /\ ran' = TRUE /\ Lag' = 0
      /\ Lag \in {0, 1}
  BY SizeAssumption DEF Inv, TypeOK, rf_task, Lag
<1>. SUFFICES ASSUME NEW i \in NodeIds, nodes'[i].addr # NoAddr
              PROVE  AgeOK(nodes'[i], heard'[i], 0)
  BY <1>1 DEF AgeInv, AgeOK
<1>2. ASSUME NEW a, Fresh(i, a) PROVE AgeOK(nodes'[i], heard'[i], 0)
  BY <1>1, <1>2, Numbers DEF Fresh, AgeOK, time_get
<1>3. CASE nodes[i].addr # NoAddr /\ ~Silent(nodes[i])
  <2>1. Stayed(i, nodes[i].addr)
    BY <1>3, TaskStays
  <2>2. nodes[i] \in Node /\ heard[i] \in Nat /\ AgeOK(nodes[i], heard[i], Lag)
    BY <1>1, <1>3, EntryTimes DEF TypeOK, AgeInv
  <2>3. AgeOK(nodes[i], heard[i], 0)
    BY <1>1, <1>3, <2>2, AgeStays
  <2>4. CASE Unheard(i, nodes[i].addr)
    BY <2>3, <2>4 DEF Unheard, AgeOK, NeverDropped
  <2>. QED
    BY <1>2, <2>1, <2>4 DEF Stayed
<1>4. CASE nodes[i].addr = NoAddr \/ Silent(nodes[i])
  BY <1>2, <1>4, TaskJoins
<1>. QED
  BY <1>3, <1>4

\* A tick makes every entry older by one; the other steps do not touch them.
LEMMA OthersAge ==
  ASSUME Inv, AgeInv,
         Tick \/ (\E p \in air : Answer(p) \/ Lose(p)) \/ UNCHANGED vars
  PROVE  AgeInv'
<1>1. now \in Nat /\ \A i \in NodeIds : heard[i] \in Nat
  BY EntryTimes, SizeAssumption DEF Inv, TypeOK
<1>2. CASE Tick
  <2>1. /\ now' = now + 1 /\ nodes' = nodes /\ heard' = heard
        /\ Lag = 0 /\ Lag' = 1
    BY <1>2 DEF Tick, Lag
  <2>. SUFFICES ASSUME NEW i \in NodeIds, nodes[i].addr # NoAddr
                PROVE  AgeOK(nodes[i], heard[i], 1)'
    BY <2>1 DEF AgeInv, AgeOK
  <2>2. AgeOK(nodes[i], heard[i], 0)
    BY <2>1 DEF AgeInv
  <2>. QED
    BY <1>1, <2>1, <2>2, Numbers DEF AgeOK, NeverDropped
<1>3. CASE UNCHANGED <<nodes, heard, now, ran>>
  BY <1>3 DEF AgeInv, AgeOK, NeverDropped, Lag
<1>. QED
  BY <1>2, <1>3 DEF Answer, Lose, vars

-----------------------------------------------------------------------------
(* Polls that are lost.                                                    *)

\* An exchange is over after RoundTrip ticks.
AirInv == \A p \in air : p.sent \in Nat /\ now <= p.sent + RoundTrip

\* Entries that OneLossTolerated says nothing about, or that are not dropped.
Exempt(i) ==
  \/ i \in ahead
  \/ Wraps(nodes[i].aliveTime, RF_NODE_ALIVE_TIME)
  \/ NeverDropped(nodes[i])

\* Device a, heard at x on the clock, h in ticks, and last polled at l, at
\* time t, g ticks after rf_task ran.  It is polled in time; when it was polled
\* since it was heard, one exchange was lost or is under way; and when it was
\* polled later than a first poll may be, two were lost or one of two is under
\* way.
LossOK(a, x, l, t, h, g) ==
  /\ l <= t \/ Wraps(l, RF_NODE_POLL_TIME)
  /\ \/ t <= x + RF_NODE_POLL_TIME + g
     \/ x < l /\ l <= t /\ t <= l + RF_NODE_POLL_TIME + g
  /\ x < l /\ l <= t
       => \/ misses[a] >= 1
          \/ InFlight(a, h + (l - x)) /\ InFlight(a, h + RF_NODE_POLL_TIME + 1)
  /\ x + RF_NODE_POLL_TIME + 1 < l /\ l <= t
       => \/ misses[a] >= 2
          \/ misses[a] >= 1 /\ InFlight(a, h + 2 * (RF_NODE_POLL_TIME + 1))

LossInv == \A i \in NodeIds :
             nodes[i].addr # NoAddr /\ ~Exempt(i)
               => LossOK(nodes[i].addr, nodes[i].aliveTime, nodes[i].lastPoll,
                         time_get, heard[i], Lag)

\* The ticks since a device was heard, read from the clock.
LEMMA Elapsed ==
  ASSUME NEW n \in Node, NEW h \in Nat, now \in Nat, NEW g \in {0, 1},
         AgeOK(n, h, g), ~NeverDropped(n),
         ~Wraps(n.aliveTime, RF_NODE_ALIVE_TIME)
  PROVE  /\ time_get = n.aliveTime + (now - h) /\ h <= now
         /\ time_get <= n.aliveTime + RF_NODE_ALIVE_TIME + g
<1>1. PICK d \in Nat : now = h + d /\ d <= RF_NODE_ALIVE_TIME + 1
  <2>1. now - h \in Nat
    BY DEF AgeOK
  <2>. QED
    BY <2>1, Numbers DEF AgeOK
<1>. PICK x : x = n.aliveTime
  OBVIOUS
<1>2. x = h % TimeMod /\ time_get = (h + d) % TimeMod /\ d < TimeMod
  BY <1>1, Numbers DEF AgeOK, time_get
<1>3. x \in Time /\ (x + d < TimeMod => time_get = x + d)
  BY <1>2, ClockAfter
<1>4. x + d < TimeMod
  BY <1>1, <1>3, Numbers DEF NeverDropped, Wraps, Time
<1>. QED
  BY <1>1, <1>3, <1>4, Numbers DEF AgeOK, Time, NeverDropped

\* What is under way was sent lately.
LEMMA FlightTime ==
  ASSUME AirInv, now \in Nat, NEW a, NEW s \in Int, InFlight(a, s)
  PROVE  now <= s + RoundTrip
<1>1. PICK p \in air : p.sent <= s
  BY DEF InFlight
<1>2. p.sent \in Nat /\ now <= p.sent + RoundTrip
  BY <1>1 DEF AirInv
<1>. QED
  BY <1>1, <1>2, Numbers

\* The packets that rf_task sends start their exchange now, and it takes away
\* but one answer.
LEMMA TaskAir ==
  ASSUME Inv, AirInv, NEW recv, rf_task(recv)
  PROVE  AirInv'
<1>1. now \in Nat /\ now' = now
  BY SizeAssumption DEF Inv, TypeOK, rf_task
<1>2. \A p \in Sent : p.sent = now
  BY DEF Sent, To
<1>. QED
  BY <1>1, <1>2, Numbers DEF AirInv, rf_task

\* The other steps leave no packet that is too old: Tick waits for it to be
\* answered or lost.
LEMMA OthersAir ==
  ASSUME Inv, AirInv,
         Tick \/ (\E p \in air : Answer(p) \/ Lose(p)) \/ UNCHANGED vars
  PROVE  AirInv'
<1>1. now \in Nat /\ air \subseteq Packet
  BY SizeAssumption DEF Inv, TypeOK
<1>2. CASE Tick
  BY <1>1, <1>2, Numbers DEF AirInv, Tick
<1>3. ASSUME NEW p \in air, Answer(p) PROVE AirInv'
  <2>1. p \in Packet
    BY <1>1
  <2>2. \A m : [p EXCEPT !.msg = m].sent = p.sent
    BY <2>1 DEF Packet
  <2>. QED
    BY <1>3, <2>2 DEF AirInv, Answer
<1>4. ASSUME NEW p \in air, Lose(p) PROVE AirInv'
  BY <1>4 DEF AirInv, Lose
<1>5. CASE UNCHANGED vars
  BY <1>5 DEF AirInv, vars
<1>. QED
  BY <1>2, <1>3, <1>4, <1>5

\* When a poll is due.
LEMMA PollTime ==
  ASSUME NEW l \in Time
  PROVE  /\ ~Wraps(l, RF_NODE_POLL_TIME)
              => Later(l, RF_NODE_POLL_TIME) = l + RF_NODE_POLL_TIME
         /\ Wraps(l, RF_NODE_POLL_TIME)
              => Later(l, RF_NODE_POLL_TIME)
                   = l + RF_NODE_POLL_TIME - TimeMod
<1>1. RF_NODE_POLL_TIME < TimeMod
  BY Numbers
<1>. QED
  BY <1>1, Numbers, LaterValue

\* A device that is not heard: either it is not time to poll it, or the poll
\* goes out, and the one before it was lost meanwhile.
LEMMA UnheardLoss ==
  ASSUME Inv, AirInv, AgeInv, LossInv, NEW i \in NodeIds,
         nodes[i].addr # NoAddr, ~Exempt(i), ~Silent(nodes[i]), now' = now,
         Stayed(i, nodes[i].addr), Unheard(i, nodes[i].addr)
  PROVE  LossOK(nodes[i].addr, nodes[i].aliveTime, nodes[i].lastPoll,
                time_get, heard[i], 0)'
<1>. PICK a, x, l, t, h : /\ a = nodes[i].addr /\ x = nodes[i].aliveTime
                          /\ l = nodes[i].lastPoll /\ t = time_get
                          /\ h = heard[i]
  OBVIOUS
<1>1. /\ x \in Nat /\ l \in Nat /\ t \in Nat /\ h \in Nat /\ now \in Nat
      /\ x < TimeMod /\ l < TimeMod /\ l \in Time /\ nodes[i] \in Node
      /\ a \in EndDevices
  BY EntryTimes, SizeAssumption DEF Inv, TypeOK, Time, Node
<1>2. LossOK(a, x, l, t, h, Lag) /\ Lag \in {0, 1}
  BY DEF LossInv, Lag
<1>3. AgeOK(nodes[i], h, 0)
  BY <1>1, <1>2, AgeStays DEF AgeInv
<1>4. t = x + (now - h) /\ t <= x + RF_NODE_ALIVE_TIME /\ h <= now
      /\ x + RF_NODE_ALIVE_TIME < TimeMod - 1
  <2>1. t = x + (now - h) /\ t <= x + RF_NODE_ALIVE_TIME + 0 /\ h <= now
    BY <1>1, <1>3, Elapsed DEF Exempt
  <2>2. x + RF_NODE_ALIVE_TIME < TimeMod /\ x + RF_NODE_ALIVE_TIME # TimeMod - 1
    BY <1>1, Numbers DEF Exempt, NeverDropped, Wraps
  <2>. QED
    BY <1>1, <2>1, <2>2, Numbers
<1>5. misses'[a] = misses[a] /\ misses[a] \in Nat
  BY <1>1 DEF Unheard, Inv, TypeOK
<1>6. \A s : InFlight(a, s) => InFlight(a, s)'
  BY DEF InFlight, Unheard
<1>7. /\ nodes'[i].addr = a /\ nodes'[i].aliveTime = x /\ heard'[i] = h
      /\ time_get' = t
  BY DEF Stayed, Unheard, time_get
<1>8. CASE ~PollDue(nodes[i])
  <2>1. ~(Later(l, RF_NODE_POLL_TIME) < t)
    BY <1>8 DEF PollDue
  <2>2. l <= t \/ Wraps(l, RF_NODE_POLL_TIME)
    BY <1>2 DEF LossOK
  <2>3. \/ t <= x + RF_NODE_POLL_TIME
        \/ x < l /\ l <= t /\ t <= l + RF_NODE_POLL_TIME
    BY <1>1, <2>1, <2>2, PollTime, Numbers DEF Wraps
  <2>4. LossOK(a, x, l, t, h, 0)'
    BY <1>1, <1>2, <1>5, <1>6, <2>2, <2>3, Numbers DEF LossOK, Wraps
  <2>5. nodes'[i].lastPoll = l
    BY <1>8 DEF Stayed
  <2>. QED
    BY <1>7, <2>4, <2>5 DEF LossOK
<1>9. CASE PollDue(nodes[i])
  <2>. PICK c : c = RF_NODE_POLL_TIME
    OBVIOUS
  <2>1. Later(l, c) < t
    BY <1>9 DEF PollDue
  <2>2. \A s \in Int : now <= s => InFlight(a, s)'
    <3>1. To("POLL", a) \in air' /\ Polling(To("POLL", a), a)
          /\ To("POLL", a).sent = now
      BY <1>9 DEF Stayed, Polling, To
    <3>. QED
      BY <3>1 DEF InFlight
  <2>3. \/ t <= x + c + 1
        \/ x < l /\ l <= t /\ t <= l + c + 1
    BY <1>1, <1>2, Numbers DEF LossOK
  <2>4. x < t => \/ misses[a] >= 1
                 \/ InFlight(a, h + (t - x))' /\ InFlight(a, h + c + 1)'
    <3>1. InFlight(a, h + (t - x))'
      BY <1>1, <1>4, <2>2
    <3>2. CASE t <= x + c + 1
      BY <1>1, <1>4, <2>2, <3>1, <3>2, Numbers
    <3>3. CASE x < l /\ l <= t
      BY <1>2, <1>6, <3>1, <3>3 DEF LossOK
    <3>. QED
      BY <2>3, <3>2, <3>3
  <2>5. x + c + 1 < t => \/ misses[a] >= 2
                         \/ /\ misses[a] >= 1
                            /\ InFlight(a, h + 2 * (c + 1))'
    <3>. SUFFICES ASSUME x + c + 1 < t, ~(misses[a] >= 2)
                  PROVE  misses[a] >= 1 /\ InFlight(a, h + 2 * (c + 1))'
      OBVIOUS
    <3>1. x < l /\ l <= t /\ t <= l + c + 1
      BY <1>1, <2>3, Numbers
    <3>2. CASE x + c + 1 < l
      BY <1>2, <1>6, <3>1, <3>2 DEF LossOK
    <3>3. CASE l <= x + c + 1
      <4>1. ~Wraps(l, c)
        BY <1>1, <1>4, <3>3, Numbers DEF Wraps
      <4>2. l + c < t
        BY <1>1, <2>1, <4>1, PollTime
      <4>3. ~InFlight(a, h + (l - x))
        <5>1. h + (l - x) \in Int /\ ~(now <= h + (l - x) + RoundTrip)
          BY <1>1, <1>4, <4>2, Numbers
        <5>. QED
          BY <1>1, <5>1, FlightTime
      <4>4. misses[a] >= 1
        BY <1>2, <3>1, <4>3 DEF LossOK
      <4>5. h + 2 * (c + 1) \in Int /\ now <= h + 2 * (c + 1)
        BY <1>1, <1>4, <3>1, <3>3, Numbers
      <4>. QED
        BY <2>2, <4>4, <4>5
    <3>. QED
      BY <1>1, <3>2, <3>3, Numbers
  <2>6. LossOK(a, x, t, t, h, 0)'
    BY <1>1, <1>4, <1>5, <2>4, <2>5, Numbers DEF LossOK
  <2>7. nodes'[i].lastPoll = t
    BY <1>9 DEF Stayed
  <2>. QED
    BY <1>7, <2>6, <2>7 DEF LossOK
<1>. QED
  BY <1>8, <1>9

\* After rf_task an entry was heard at this time, or it was not dropped.
LEMMA TaskLoss ==
  ASSUME Inv, AirInv, AgeInv, LossInv,
         NEW recv, rf_task(recv), recv = {} \/ \E p \in air : recv = {p}
  PROVE  LossInv'
<1>1. now' = now /\ Lag' = 0 /\ time_get' = time_get
  BY DEF rf_task, Lag, time_get
<1>. SUFFICES ASSUME NEW i \in NodeIds, nodes'[i].addr # NoAddr, ~Exempt(i)'
              PROVE  LossOK(nodes[i].addr, nodes[i].aliveTime,
                            nodes[i].lastPoll, time_get, heard[i], 0)'
  BY <1>1 DEF LossInv, LossOK
<1>2. TypeOK /\ TypeOK'
  BY TaskKeeps DEF Inv
<1>3. ASSUME NEW a, Fresh(i, a)
      PROVE  LossOK(nodes[i].addr, nodes[i].aliveTime,
                    nodes[i].lastPoll, time_get, heard[i], 0)'
  <2>. PICK l, t : l = nodes'[i].lastPoll /\ t = time_get
    OBVIOUS
  <2>1. l \in Nat /\ t \in Nat
    BY <1>2, TimeInRange, SizeAssumption DEF TypeOK, Node, Time
  <2>2. nodes'[i].aliveTime = t /\ ~(l > t /\ l + RF_NODE_POLL_TIME < TimeMod)
    BY <1>3 DEF Fresh, Exempt, PolledAhead
  <2>. QED
    BY <1>1, <2>1, <2>2, Numbers DEF LossOK, Wraps
<1>4. CASE nodes[i].addr # NoAddr /\ ~Silent(nodes[i])
  <2>1. Stayed(i, nodes[i].addr)
    BY <1>4, TaskStays
  <2>2. CASE Unheard(i, nodes[i].addr)
    <3>1. ~Exempt(i)
      BY <2>2 DEF Exempt, Unheard, NeverDropped
    <3>. QED
      BY <1>1, <1>4, <2>1, <2>2, <3>1, UnheardLoss
  <2>. QED
    BY <1>3, <2>1, <2>2 DEF Stayed
<1>5. CASE nodes[i].addr = NoAddr \/ Silent(nodes[i])
  BY <1>3, <1>5, TaskJoins
<1>. QED
  BY <1>4, <1>5

\* The radio answers or loses a poll that is under way, and counts the loss.
LEMMA RadioLoss ==
  ASSUME Inv, LossInv, NEW p \in air, Answer(p) \/ Lose(p)
  PROVE  LossInv'
<1>1. /\ UNCHANGED <<nodes, now, ran, heard, ahead>> /\ p \in Packet
      /\ Lag' = Lag /\ time_get' = time_get /\ Lag \in {0, 1}
  BY DEF Inv, TypeOK, Answer, Lose, Lag, time_get
<1>. SUFFICES ASSUME NEW i \in NodeIds, nodes[i].addr # NoAddr, ~Exempt(i)
              PROVE  LossOK(nodes[i].addr, nodes[i].aliveTime,
                            nodes[i].lastPoll, time_get, heard[i], Lag)'
  BY <1>1 DEF LossInv, Exempt, NeverDropped
<1>2. PICK a, x, l, t, h, g :
        /\ a = nodes[i].addr /\ x = nodes[i].aliveTime
        /\ l = nodes[i].lastPoll /\ t = time_get /\ h = heard[i] /\ g = Lag
  OBVIOUS
<1>3. LossOK(a, x, l, t, h, g)
  BY <1>2 DEF LossInv
<1>4. a \in EndDevices /\ misses[a] \in 0 .. 2 /\ misses'[a] \in 0 .. 2
  BY <1>2, OthersKeep DEF Inv, TypeOK, Node
<1>5. CASE Answer(p)
  <2>1. misses'[a] = misses[a]
    BY <1>5 DEF Answer
  <2>2. ASSUME NEW s, InFlight(a, s) PROVE InFlight(a, s)'
    <3>1. PICK q \in air : Polling(q, a) /\ q.sent <= s
      BY <2>2 DEF InFlight
    <3>2. CASE q # p
      BY <1>5, <3>1, <3>2 DEF Answer, InFlight
    <3>3. CASE q = p
      <4>1. p.msg = "POLL"
        BY <1>5, <3>1, <3>3 DEF Answer, Polling, ToDevice
      <4>2. [p EXCEPT !.msg = "POLL_RESP"] \in air'
        BY <1>5, <4>1 DEF Answer
      <4>3. /\ Polling([p EXCEPT !.msg = "POLL_RESP"], a)
            /\ [p EXCEPT !.msg = "POLL_RESP"].sent <= s
        BY <1>1, <3>1, <3>3 DEF Polling, Packet
      <4>. QED
        BY <4>2, <4>3 DEF InFlight
    <3>. QED
      BY <3>2, <3>3
  <2>3. LossOK(a, x, l, t, h, g)'
    BY <1>3, <2>1, <2>2 DEF LossOK
  <2>. QED
    BY <1>1, <1>2, <2>3
<1>6. CASE Lose(p)
  <2>1. ASSUME NEW s, InFlight(a, s), ~InFlight(a, s)'
        PROVE  Polling(p, a)
    BY <1>6, <2>1 DEF Lose, InFlight
  <2>2. /\ misses'[a] >= misses[a]
        /\ Polling(p, a) /\ misses[a] < 2 => misses'[a] = misses[a] + 1
    <3>1. misses \in [EndDevices -> 0 .. 2]
      BY DEF Inv, TypeOK
    <3>. QED
      BY <1>4, <1>6, <3>1 DEF Lose, Polling
  <2>3. LossOK(a, x, l, t, h, g)'
    BY <1>3, <1>4, <2>1, <2>2 DEF LossOK
  <2>. QED
    BY <1>1, <1>2, <2>3
<1>. QED
  BY <1>5, <1>6

\* A tick brings the next poll nearer.
LEMMA TickLoss ==
  ASSUME Inv, AgeInv, LossInv, Tick
  PROVE  LossInv'
<1>1. /\ UNCHANGED <<nodes, air, heard, misses, ahead>>
      /\ Lag = 0 /\ Lag' = 1 /\ now' = now + 1
  BY DEF Tick, Lag
<1>2. Inv' /\ AgeInv'
  BY OthersKeep, OthersAge
<1>. SUFFICES ASSUME NEW i \in NodeIds, nodes[i].addr # NoAddr, ~Exempt(i)
              PROVE  LossOK(nodes[i].addr, nodes[i].aliveTime,
                            nodes[i].lastPoll, time_get, heard[i], 1)'
  BY <1>1 DEF LossInv, LossOK, Exempt, NeverDropped
<1>3. PICK a, x, l, t, h : /\ a = nodes[i].addr /\ x = nodes[i].aliveTime
                           /\ l = nodes[i].lastPoll /\ t = time_get
                           /\ h = heard[i]
  OBVIOUS
<1>4. /\ x \in Nat /\ l \in Nat /\ t \in Nat /\ h \in Nat /\ now \in Nat
      /\ nodes[i] \in Node
  BY <1>3, EntryTimes, SizeAssumption DEF Inv, TypeOK, Time
<1>5. LossOK(a, x, l, t, h, 0)
  BY <1>1, <1>3 DEF LossInv
<1>6. time_get' = t + 1
  <2>1. t = x + (now - h)
    <3>1. AgeOK(nodes[i], h, 0)
      BY <1>1, <1>3 DEF AgeInv
    <3>. QED
      BY <1>3, <1>4, <3>1, Elapsed DEF Exempt
  <2>2. time_get' = x + (now' - h)
    <3>1. h <= now' /\ x = h % TimeMod /\ now' <= h + RF_NODE_ALIVE_TIME + 1
      BY <1>1, <1>2, <1>3 DEF AgeInv, AgeOK, Exempt, NeverDropped
    <3>2. PICK d \in Nat : now' = h + d /\ d < TimeMod
      <4>1. now' - h \in Nat
        BY <1>1, <1>4, <3>1
      <4>. QED
        BY <1>1, <1>4, <3>1, <4>1, Numbers
    <3>3. x + d < TimeMod
      <4>1. ~(x + RF_NODE_ALIVE_TIME >= TimeMod)
            /\ x + RF_NODE_ALIVE_TIME # TimeMod - 1
        BY <1>3 DEF Exempt, NeverDropped, Wraps
      <4>2. d <= RF_NODE_ALIVE_TIME + 1
        BY <1>1, <1>4, <3>1, <3>2, Numbers
      <4>. QED
        BY <1>4, <4>1, <4>2, Numbers
    <3>4. time_get' = (h + d) % TimeMod
      BY <3>2 DEF time_get
    <3>5. time_get' = x + d
      BY <1>4, <3>1, <3>2, <3>3, <3>4, ClockAfter
    <3>. QED
      BY <1>1, <1>4, <3>2, <3>5
  <2>. QED
    BY <1>1, <1>4, <2>1, <2>2
<1>7. \A s : InFlight(a, s)' <=> InFlight(a, s)
  BY <1>1 DEF InFlight
<1>8. l <= t + 1 => l <= t
  <2>1. x + RF_NODE_ALIVE_TIME < TimeMod
    BY <1>3, <1>4, Numbers DEF Exempt, Wraps
  <2>. QED
    BY <1>4, <1>5, <2>1, Numbers DEF LossOK, Wraps
<1>9. LossOK(a, x, l, t + 1, h, 1)'
  BY <1>1, <1>4, <1>5, <1>7, <1>8, Numbers DEF LossOK
<1>. QED
  BY <1>1, <1>3, <1>6, <1>9 DEF LossOK

\* PollInv is inductive.
PollInv == Inv /\ AirInv /\ AgeInv /\ LossInv

\* The ages of the entries and the polls on their way fit together in every
\* reachable state.
LEMMA PollHolds == Spec => []PollInv
<1>1. Init => PollInv
  <2>1. ASSUME Init PROVE Inv /\ AirInv /\ AgeInv /\ LossInv
    BY <2>1, InitInv DEF Init, AirInv, AgeInv, LossInv
  <2>. QED
    BY <2>1 DEF PollInv
<1>2. PollInv /\ [Next]_vars => PollInv'
  <2>. SUFFICES ASSUME Inv, AirInv, AgeInv, LossInv, [Next]_vars
                PROVE  Inv' /\ AirInv' /\ AgeInv' /\ LossInv'
    BY DEF PollInv
  <2>1. ASSUME NEW recv, rf_task(recv), recv = {} \/ \E p \in air : recv = {p}
        PROVE  Inv' /\ AirInv' /\ AgeInv' /\ LossInv'
    BY <2>1, TaskKeeps, TaskAir, TaskAge, TaskLoss
  <2>2. ASSUME NEW p \in air, Answer(p) \/ Lose(p)
        PROVE  Inv' /\ AirInv' /\ AgeInv' /\ LossInv'
    BY <2>2, OthersKeep, OthersAir, OthersAge, RadioLoss
  <2>3. CASE Tick
    BY <2>3, OthersKeep, OthersAir, OthersAge, TickLoss
  <2>4. CASE UNCHANGED vars
    <3>1. LossInv'
      BY <2>4 DEF vars, LossInv, LossOK, Exempt, NeverDropped, InFlight,
                  time_get, Lag
    <3>. QED
      BY <2>4, <3>1, OthersKeep, OthersAir, OthersAge
  <2>. QED
    BY <2>1, <2>2, <2>3, <2>4 DEF Next
<1>. QED
  BY <1>1, <1>2, PTL DEF Spec

\* A device that falls silent is dropped RF_NODE_ALIVE_TIME after it was last
\* heard, whatever gets lost and wherever the clock wraps, unless it was heard
\* at one of the two values of the clock from which checkIfNodesAlive never
\* drops a node: 0, and the one whose deadline is the last value of the clock.
THEOREM SilentDevicesAreDropped == Spec => []SilentIsDropped
<1>1. PollInv => SilentIsDropped
  <2>. SUFFICES ASSUME PollInv, NEW i \in NodeIds, nodes[i].addr # NoAddr,
                       ~NeverDropped(nodes[i])
                PROVE  now <= heard[i] + RF_NODE_ALIVE_TIME + 1
    BY DEF SilentIsDropped
  <2>1. heard[i] \in Nat /\ now \in Nat /\ Lag \in {0, 1}
    BY EntryTimes DEF PollInv, Inv, Lag
  <2>2. now <= heard[i] + RF_NODE_ALIVE_TIME + Lag
    BY DEF PollInv, AgeInv, AgeOK
  <2>. QED
    BY <2>1, <2>2, Numbers
<1>. QED
  BY <1>1, PollHolds, PTL

\* A single lost poll or answer does not cost a device its entry, whatever
\* else gets lost, is delayed or happens meanwhile, up to the wrap of the clock
\* and to entries whose last poll is ahead of it (checkIfNodesAlive).
THEOREM SingleLossIsTolerated == Spec => OneLossTolerated
<1> DEFINE Tolerant ==
      \A i \in NodeIds :
        nodes[i].addr # NoAddr /\ nodes'[i].addr # nodes[i].addr
          => \/ misses[nodes[i].addr] >= 2
             \/ Wraps(nodes[i].aliveTime, RF_NODE_ALIVE_TIME)
             \/ i \in ahead
<1>1. PollInv /\ [Next]_vars => [Tolerant]_vars
  <2>. SUFFICES ASSUME PollInv, [Next]_vars, NEW i \in NodeIds,
                       nodes[i].addr # NoAddr, nodes'[i].addr # nodes[i].addr,
                       ~Wraps(nodes[i].aliveTime, RF_NODE_ALIVE_TIME),
                       i \notin ahead
                PROVE  misses[nodes[i].addr] >= 2
    OBVIOUS
  <2>1. Silent(nodes[i])
    <3>1. PICK recv : rf_task(recv) /\ (recv = {} \/ \E p \in air : recv = {p})
      BY DEF Next, Answer, Lose, Tick, vars
    <3>. QED
      BY <3>1, TaskStays DEF PollInv, Stayed
  <2>2. PICK a, x, l, t, h : /\ a = nodes[i].addr /\ x = nodes[i].aliveTime
                             /\ l = nodes[i].lastPoll /\ t = time_get
                             /\ h = heard[i]
    OBVIOUS
  <2>3. /\ x \in Nat /\ l \in Nat /\ t \in Nat /\ h \in Nat /\ now \in Nat
        /\ x \in Time /\ t < TimeMod /\ nodes[i] \in Node
        /\ a \in EndDevices /\ misses[a] \in 0 .. 2 /\ Lag \in {0, 1}
    BY <2>2, EntryTimes, SizeAssumption
       DEF PollInv, Inv, TypeOK, Time, Node, Lag
  <2>4. x # 0 /\ x + RF_NODE_ALIVE_TIME < t
    <3>1. Later(x, RF_NODE_ALIVE_TIME) = x + RF_NODE_ALIVE_TIME
      BY <2>2, <2>3, LaterValue, Numbers
    <3>. QED
      BY <2>1, <2>2, <2>3, <3>1 DEF Silent
  <2>5. ~NeverDropped(nodes[i])
    BY <2>2, <2>3, <2>4, Numbers DEF NeverDropped
  <2>6. AgeOK(nodes[i], h, Lag) /\ LossOK(a, x, l, t, h, Lag)
    BY <2>2, <2>5 DEF PollInv, AgeInv, LossInv, Exempt
  <2>7. t = x + (now - h)
    BY <2>2, <2>3, <2>5, <2>6, Elapsed
  <2>8. x + RF_NODE_POLL_TIME + 1 < l /\ l <= t
    BY <2>3, <2>4, <2>6, Numbers DEF LossOK
  <2>9. ~InFlight(a, h + 2 * (RF_NODE_POLL_TIME + 1))
    <3>1. PICK s \in Int : s = h + 2 * (RF_NODE_POLL_TIME + 1)
      BY <2>3, Numbers
    <3>2. ~(now <= s + RoundTrip)
      BY <2>3, <2>4, <2>7, <3>1, Numbers
    <3>. QED
      BY <2>3, <3>1, <3>2, FlightTime DEF PollInv
  <2>. QED
    BY <2>2, <2>6, <2>8, <2>9 DEF LossOK
<1>2. []PollInv /\ [][Next]_vars => [][Tolerant]_vars
  BY <1>1, PTL
<1>. QED
  BY <1>2, PollHolds, PTL DEF Spec, OneLossTolerated
=============================================================================
