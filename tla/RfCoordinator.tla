---------------------------- MODULE RfCoordinator -----------------------------
(***************************************************************************)
(* The coordinator of the radio network, Lib_Board/src/rfpt.c with         *)
(* isCoordinator = 1: rf_task broadcasts a Discover request every          *)
(* DISCOVER_TIME_MS, polls the nodes it knows every RF_NODE_POLL_TIME,     *)
(* drops a node that has not answered for RF_NODE_ALIVE_TIME, and hands    *)
(* the packets that arrive to xbeeData.  The end devices run the same file *)
(* and answer Discover with Publish and Poll with a poll response.         *)
(*                                                                         *)
(* rf_task and the handlers run in the main loop, one after the other.     *)
(* Packets may get lost, and overtake each other.  Time passes only when   *)
(* rf_task has run at the current time: the main loop is faster than a     *)
(* tick of the model.  An exchange, a request and its answer, takes up to  *)
(* RoundTrip ticks; what takes longer counts as lost.  A device that is    *)
(* out of reach is one whose packets are all lost.                         *)
(*                                                                         *)
(* Left out: what the entries say about a node's peripherals (caps), and   *)
(* the value and subscription messages, which the coordinator looks up in  *)
(* the table and passes to its application.                                *)
(***************************************************************************)
EXTENDS Naturals

CONSTANTS EndDevices,          \* 64-bit addresses of the end devices
          NoAddr,              \* address 0:0, which marks a free entry
          RF_MAX_NODES,
          RF_NODE_POLL_TIME,
          RF_NODE_ALIVE_TIME,
          DISCOVER_TIME_MS,
          RoundTrip,           \* ticks a request and its answer take at most
          TimeMod,             \* time_get() counts modulo this (2^32)
          MaxTime              \* bound: ticks of a behaviour

ASSUME AddrAssumption == NoAddr \notin EndDevices
ASSUME SizeAssumption ==
  RF_MAX_NODES \in Nat /\ TimeMod \in Nat \ {0} /\ MaxTime \in Nat
ASSUME PeriodAssumption ==
  /\ RF_NODE_POLL_TIME \in Nat \ {0} /\ RF_NODE_ALIVE_TIME \in Nat
  /\ DISCOVER_TIME_MS \in Nat

\* 1000 and 3000 in the code, and a clock of 32 bits: there is time for two
\* polls and the answers before a node is given up, an exchange is over before
\* the next poll, and the clock does not wrap meanwhile more than once.
ASSUME AliveAssumption ==
  /\ RoundTrip \in Nat /\ RoundTrip <= RF_NODE_POLL_TIME
  /\ 2 * RF_NODE_POLL_TIME + 1 + RoundTrip < RF_NODE_ALIVE_TIME
  /\ RF_NODE_ALIVE_TIME < TimeMod - 1

VARIABLES nodes,         \* the node table; a node's id is its index
          lastDiscover,
          air,           \* packets under way
          now,           \* ticks since the start
          ran,           \* rf_task has run at this time
          heard,         \* history: when the device of an entry was last
                         \* heard or attached, in ticks since the start
          misses,        \* history: polls of a device, and answers to them,
                         \* that got lost since then (counted up to 2)
          ahead          \* history: entries whose lastPoll was ahead of the
                         \* clock then

vars == <<nodes, lastDiscover, air, now, ran, heard, misses, ahead>>

NodeIds == 1 .. RF_MAX_NODES
Time == 0 .. TimeMod - 1
time_get == now % TimeMod
Later(t, period) == (t + period) % TimeMod

Node == [addr : EndDevices \cup {NoAddr}, aliveTime : Time, lastPoll : Time]

ToDevice == {"DISCOVER", "POLL"}
FromDevice == {"PUBLISH", "POLL_RESP"}

\* A packet to or from a device; sent is when the exchange began.
Packet == [msg : ToDevice \cup FromDevice, dev : EndDevices,
           sent : 0 .. MaxTime]
To(m, a) == [msg |-> m, dev |-> a, sent |-> now]

TypeOK ==
  /\ nodes \in [NodeIds -> Node]
  /\ lastDiscover \in Time
  /\ air \subseteq Packet
  /\ now \in 0 .. MaxTime
  /\ ran \in BOOLEAN
  /\ heard \in [NodeIds -> 0 .. MaxTime]
  /\ misses \in [EndDevices -> 0 .. 2]
  /\ ahead \subseteq NodeIds

\* The static variables of rfpt.c, and rf_init
Init ==
  /\ nodes = [i \in NodeIds |->
                [addr |-> NoAddr, aliveTime |-> 0, lastPoll |-> 0]]
  /\ lastDiscover = 0
  /\ air = {} /\ now = 0 /\ ran = FALSE
  /\ heard = [i \in NodeIds |-> 0]
  /\ misses = [a \in EndDevices |-> 0]
  /\ ahead = {}

-----------------------------------------------------------------------------
(* checkIfNodesAlive, on the table t.                                      *)

\* Mutant of Silent: the node is never given up.
SilentNever(n) == FALSE

Silent(n) ==
  n.aliveTime > 0 /\ Later(n.aliveTime, RF_NODE_ALIVE_TIME) < time_get

PollDue(n) == Later(n.lastPoll, RF_NODE_POLL_TIME) < time_get

Dropped(t) == {i \in NodeIds : t[i].addr # NoAddr /\ Silent(t[i])}

\* Mutant of Polled: free entries are polled too.
PolledFree(t) == {i \in NodeIds \ Dropped(t) : PollDue(t[i])}

Polled(t) ==
  {i \in NodeIds \ Dropped(t) : t[i].addr # NoAddr /\ PollDue(t[i])}

checkIfNodesAlive(t) ==
  [i \in NodeIds |->
     CASE i \in Dropped(t) -> [t[i] EXCEPT !.addr = NoAddr]
       [] i \in Polled(t)  -> [t[i] EXCEPT !.lastPoll = time_get]
       [] OTHER            -> t[i]]

-----------------------------------------------------------------------------
(* The handlers of xbeeData, on the table t.                               *)

First(S) == CHOOSE i \in S : \A j \in S : i <= j

Known(t, a) == {i \in NodeIds : t[i].addr = a}

\* Mutant of Unknown: the search ends at the first free entry.
UnknownBeforeFree(t, a) ==
  \A i \in Known(t, a) : \E j \in Known(t, NoAddr) : j < i

Unknown(t, a) == Known(t, a) = {}

handlePublish(t, a) ==
  IF Unknown(t, a) /\ Known(t, NoAddr) # {}
  THEN [t EXCEPT ![First(Known(t, NoAddr))].addr = a,
                 ![First(Known(t, NoAddr))].aliveTime = time_get]
  ELSE t

\* Mutant of handlePollResponse: the answer is not recorded.
handlePollResponseIgnored(t, a) == t

handlePollResponse(t, a) ==
  IF Known(t, a) = {} THEN t
  ELSE [t EXCEPT ![First(Known(t, a))].aliveTime = time_get]

\* What xbeeData makes of the table
xbeeData(t, p) == CASE p.msg = "PUBLISH"   -> handlePublish(t, p.dev)
                    [] p.msg = "POLL_RESP" -> handlePollResponse(t, p.dev)

-----------------------------------------------------------------------------
(* Steps.                                                                  *)

DiscoverDue == Later(lastDiscover, DISCOVER_TIME_MS) < time_get

\* Packets that the first half of rf_task sends; a broadcast reaches every
\* device on its own.
Sent == {To("POLL", nodes[i].addr) : i \in Polled(nodes)}
          \cup (IF DiscoverDue THEN {To("DISCOVER", a) : a \in EndDevices}
                               ELSE {})

\* Entries of which xbeeData sets aliveTime: their device was attached, or it
\* answered a poll.
Heard(old, new, recv) ==
  {i \in NodeIds :
     /\ new[i].addr # NoAddr
     /\ \/ new[i].addr # old[i].addr
        \/ \E p \in recv : p.msg = "POLL_RESP" /\ p.dev = new[i].addr}

\* The entry is not polled before the clock is back at its lastPoll.
PolledAhead(n) ==
  n.lastPoll > time_get /\ n.lastPoll + RF_NODE_POLL_TIME < TimeMod

\* The history variables, when xbeeData makes new of old
Remember(old, new, recv) ==
  /\ heard' = [i \in NodeIds |->
                 CASE i \in Heard(old, new, recv) -> now
                   [] new[i].addr = NoAddr        -> 0
                   [] OTHER                       -> heard[i]]
  /\ misses' = [a \in EndDevices |->
                  IF \E i \in Heard(old, new, recv) : new[i].addr = a
                  THEN 0 ELSE misses[a]]
  /\ ahead' = {i \in NodeIds :
                 /\ new[i].addr # NoAddr
                 /\ IF i \in Heard(old, new, recv)
                    THEN PolledAhead(new[i]) ELSE i \in ahead}

\* rf_task: discover, checkIfNodesAlive, and xbee_task, which hands over the
\* packet that is complete, if there is one.
rf_task(recv) ==
  /\ recv \subseteq {p \in air : p.msg \in FromDevice}
  /\ lastDiscover' = IF DiscoverDue THEN time_get ELSE lastDiscover
  /\ LET t == checkIfNodesAlive(nodes)
     IN  /\ nodes' = IF recv = {} THEN t
                      ELSE xbeeData(t, CHOOSE p \in recv : TRUE)
         /\ Remember(t, nodes', recv)
  /\ air' = (air \ recv) \cup Sent
  /\ ran' = TRUE
  /\ UNCHANGED now

\* xbeeData of the end device that packet p is for
Answer(p) ==
  /\ p.msg \in ToDevice
  /\ air' = (air \ {p}) \cup
            {[p EXCEPT !.msg = IF p.msg = "POLL" THEN "POLL_RESP"
                                                ELSE "PUBLISH"]}
  /\ UNCHANGED <<nodes, lastDiscover, now, ran, heard, misses, ahead>>

Lose(p) ==
  /\ air' = air \ {p}
  /\ misses' = IF p.msg \in {"POLL", "POLL_RESP"} /\ misses[p.dev] < 2
               THEN [misses EXCEPT ![p.dev] = @ + 1] ELSE misses
  /\ UNCHANGED <<nodes, lastDiscover, now, ran, heard, ahead>>

Tick ==
  /\ ran /\ now < MaxTime
  /\ \A p \in air : now < p.sent + RoundTrip
  /\ now' = now + 1 /\ ran' = FALSE
  /\ UNCHANGED <<nodes, lastDiscover, air, heard, misses, ahead>>

Next == \/ rf_task({})
        \/ \E p \in air : rf_task({p})
        \/ \E p \in air : Answer(p)
        \/ \E p \in air : Lose(p)
        \/ Tick

Spec == Init /\ [][Next]_vars

-----------------------------------------------------------------------------
(* Correctness.                                                            *)

\* No device has two entries: an entry that became free in front of the one
\* a device has does not make handlePublish add the device again when it
\* answers the next Discover request.
NodesUnique ==
  \A i, j \in NodeIds : nodes[i].addr = nodes[j].addr /\ i # j
                          => nodes[i].addr = NoAddr

\* The clock wraps between t and t + period.
Wraps(t, period) == t + period >= TimeMod

\* A single lost poll does not cost a device its entry: checkIfNodesAlive
\* drops only a device for which two polls in a row went wrong.  The
\* exceptions come from the wrap of the clock: RF_NODE_ALIVE_TIME after the
\* device was heard the clock has wrapped, or the device got an entry that was
\* last polled before the wrap.  handlePublish does not set lastPoll, so such
\* an entry is not polled until the clock is back at that time, and whoever
\* holds it is dropped again and again without having missed a poll.
OneLossTolerated ==
  [][\A i \in NodeIds :
       nodes[i].addr # NoAddr /\ nodes'[i].addr # nodes[i].addr
         => \/ misses[nodes[i].addr] >= 2
            \/ Wraps(nodes[i].aliveTime, RF_NODE_ALIVE_TIME)
            \/ i \in ahead]_vars

\* The entry of a device that was last heard when the clock showed 0, or
\* exactly RF_NODE_ALIVE_TIME before the last value of the clock.  The test
\* aliveTime > 0 fails for the one, and no time_get() exceeds the sum for the
\* other: however long the device is silent, it is not dropped.
NeverDropped(n) ==
  n.aliveTime = 0 \/ n.aliveTime + RF_NODE_ALIVE_TIME = TimeMod - 1

\* Whoever is silent is dropped in time, across the wrap of the clock as well:
\* an entry in use belongs to a device that was heard or attached at most
\* RF_NODE_ALIVE_TIME + 1 ticks ago, if not to one that is never dropped.
SilentIsDropped ==
  \A i \in NodeIds :
    nodes[i].addr # NoAddr
      => \/ now <= heard[i] + RF_NODE_ALIVE_TIME + 1
         \/ NeverDropped(nodes[i])
=============================================================================
