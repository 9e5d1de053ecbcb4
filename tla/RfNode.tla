------------------------------- MODULE RfNode ---------------------------------
(***************************************************************************)
(* The subscriptions of an end device of the radio network,                *)
(* Lib_Board/src/rfpt.c with isCoordinator = 0.  Other nodes subscribe to  *)
(* a peripheral; each call of rf_task reads the peripheral of every        *)
(* subscription and sends its value when the subscribed condition became   *)
(* true, then hands a received packet to xbeeData.                         *)
(*                                                                         *)
(* Any request may arrive at any time and in any order, and more of them   *)
(* between two runs of the loop than the code would take: what the radio   *)
(* loses, repeats or delays is covered.  A reading of a peripheral may     *)
(* return anything, also when it is read twice in one call.                *)
(*                                                                         *)
(* Left out: requests that leave the subscriptions alone (get and set a    *)
(* value, poll, discover).                                                 *)
(***************************************************************************)
EXTENDS Naturals, FiniteSets

CONSTANTS Addrs,        \* addresses of the nodes that subscribe
          NoAddr,       \* address 0:0, which marks a free entry
          RF_MAX_SUBS,
          Trim,         \* readings of the trimming potentiometer
          Values        \* values a request may carry

ASSUME AddrAssumption == NoAddr \notin Addrs
ASSUME SubsAssumption == RF_MAX_SUBS \in Nat \ {0} /\ RF_MAX_SUBS < 256
ASSUME ReadingAssumption == Trim \subseteq Nat /\ Values \subseteq Nat /\ 0 \in Trim

VARIABLES subscribers, subNumRegistered,
          entry,    \* entry the loop of rf_task is at; 0 outside the loop
          report,   \* history: what the loop read and sent for the last entry
          crossed   \* history: the subscription was made, or has since its
                    \* last report seen a reading, on the other side of its value

vars == <<subscribers, subNumRegistered, entry, report, crossed>>

SubIds == 1 .. RF_MAX_SUBS
Periphs == {"TEMP", "BTN"}
Acts == {"GTE", "LTE", "DIF"}

\* btn_get: one bit for each of the buttons SW2 and SW3
Btn == 0 .. 3
BtnSw2(v) == v % 2

Readings(p) == IF p = "TEMP" THEN Trim ELSE Btn

\* sendTemperature and sendBtn read the peripheral again.
SentValues(p) == IF p = "TEMP" THEN Trim ELSE {BtnSw2(v) : v \in Btn}

\* The table is zero at first; a subscription has a peripheral and an action.
ZeroSub == [addr |-> NoAddr, periphId |-> "none", act |-> "none",
            value |-> 0, last |-> 0]
Sub == [addr : Addrs \cup {NoAddr}, periphId : Periphs, act : Acts,
        value : Values, last : Trim \cup Btn] \cup {ZeroSub}

NoReport == [read |-> 0, sent |-> {}]

TypeOK ==
  /\ subscribers \in [SubIds -> Sub]
  /\ subNumRegistered \in 0 .. 255
  /\ entry \in 0 .. RF_MAX_SUBS
  /\ report \in [read : Trim \cup Btn, sent : SUBSET (Trim \cup Btn)]
  /\ crossed \in [SubIds -> BOOLEAN]

\* subInit
Init ==
  /\ subscribers = [i \in SubIds |-> ZeroSub]
  /\ subNumRegistered = 0
  /\ entry = 0
  /\ report = NoReport
  /\ crossed = [i \in SubIds |-> FALSE]

-----------------------------------------------------------------------------
(* Requests.                                                               *)

Same(s, r) == s.addr = r.src /\ s.periphId = r.periphId /\ s.act = r.act
                             /\ s.value = r.value

\* Mutant of subscriptionExists: the table is not searched.
subscriptionExistsNever(r) == FALSE

subscriptionExists(r) == \E i \in SubIds : Same(subscribers[i], r)

Free(i) == subscribers[i].addr = NoAddr
FirstFree == CHOOSE i \in SubIds : Free(i) /\ \A j \in SubIds : Free(j) => i <= j

\* The reading is on the side of the value where a report is not yet due.
Before(act, value, read) == CASE act = "GTE" -> read < value
                              [] act = "LTE" -> read > value
                              [] act = "DIF" -> FALSE

\* Mutant of NewSub: the entry keeps the last reading of its former use.
NewSubKeepsLast(i, r, cval) ==
  [addr |-> r.src, periphId |-> r.periphId, act |-> r.act,
   value |-> r.value, last |-> subscribers[i].last]

NewSub(i, r, cval) ==
  [addr |-> r.src, periphId |-> r.periphId, act |-> r.act,
   value |-> r.value, last |-> cval]

\* A request for a button with a value other than 0 and 1 is not valid.
handleSubscribe(r) ==
  IF \/ r.periphId = "BTN" /\ r.value \notin {0, 1}
     \/ subscriptionExists(r)
     \/ \A i \in SubIds : ~Free(i)
  THEN UNCHANGED <<subscribers, subNumRegistered, crossed>>
  ELSE \E cval \in Readings(r.periphId) :
         /\ subscribers' = [subscribers EXCEPT ![FirstFree] =
                                                  NewSub(FirstFree, r, cval)]
         /\ subNumRegistered' = (subNumRegistered + 1) % 256
         /\ crossed' = [crossed EXCEPT ![FirstFree] =
                                          Before(r.act, r.value, cval)]

\* Mutant of Owns: whoever asks may cancel, and an entry that is already free
\* is cancelled once more.
OwnsAny(a, i) == i \in SubIds

Owns(a, i) == i \in SubIds /\ subscribers[i].addr = a

handleUnsubscribe(a, i) ==
  IF Owns(a, i)
  THEN /\ subNumRegistered' = (subNumRegistered + 255) % 256
       /\ subscribers' = [subscribers EXCEPT ![i].addr = NoAddr]
       /\ UNCHANGED crossed
  ELSE UNCHANGED <<subscribers, subNumRegistered, crossed>>

\* xbee_task, at the end of rf_task, hands over a request.
Idle == entry = 0 /\ report' = NoReport /\ UNCHANGED entry
Subscribe(r) == Idle /\ handleSubscribe(r)
Unsubscribe(a, i) == Idle /\ handleUnsubscribe(a, i)

-----------------------------------------------------------------------------
(* Reports.                                                                *)

Due(s, read) == CASE s.act = "GTE" -> s.last < s.value /\ read >= s.value
                  [] s.act = "LTE" -> s.last > s.value /\ read <= s.value
                  [] s.act = "DIF" -> \/ s.last > read + s.value
                                      \/ read > s.last + s.value

Sampled(s, read) == IF s.act = "DIF" /\ ~Due(s, read) THEN s.last ELSE read

\* The loop over the table starts when there is a subscription.
rf_task ==
  /\ entry = 0 /\ subNumRegistered # 0
  /\ entry' = 1 /\ report' = NoReport
  /\ UNCHANGED <<subscribers, subNumRegistered, crossed>>

\* Mutant of Following: the loop runs one entry too far.
FollowingTooFar(i) == IF i > RF_MAX_SUBS THEN 0 ELSE i + 1

\* The next entry, after entry i
Following(i) == IF i = RF_MAX_SUBS THEN 0 ELSE i + 1

SkipFree ==
  /\ entry # 0 /\ Free(entry)
  /\ entry' = Following(entry) /\ report' = NoReport
  /\ UNCHANGED <<subscribers, subNumRegistered, crossed>>

\* The loop reads the peripheral of an entry and, when a report is due, reads
\* it again and sends that value.
Sample(read) ==
  LET s == subscribers[entry]
  IN  /\ entry # 0 /\ ~Free(entry) /\ read \in Readings(s.periphId)
      /\ \E v \in SentValues(s.periphId) :
           report' = [read |-> read, sent |-> IF Due(s, read) THEN {v} ELSE {}]
      /\ subscribers' = [subscribers EXCEPT ![entry].last = Sampled(s, read)]
      /\ crossed' = [crossed EXCEPT ![entry] =
                       ~Due(s, read) /\ (@ \/ Before(s.act, s.value, read))]
      /\ entry' = Following(entry)
      /\ UNCHANGED subNumRegistered

Request == [src : Addrs, periphId : Periphs, act : Acts, value : Values]

Next == \/ \E r \in Request : Subscribe(r)
        \/ \E a \in Addrs, i \in 0 .. RF_MAX_SUBS + 1 : Unsubscribe(a, i)
        \/ rf_task \/ SkipFree
        \/ \E read \in Trim \cup Btn : Sample(read)

Spec == Init /\ [][Next]_vars

-----------------------------------------------------------------------------
(* Correctness.                                                            *)

\* Entries in use
Used == {i \in SubIds : ~Free(i)}

\* subNumRegistered, which rf_task tests before it looks at the table, is the
\* number of entries in use, however often requests are repeated or come late.
CountMatches == subNumRegistered = Cardinality(Used)

\* A request that is repeated gets the entry it has: no two entries hold the
\* same subscription.
SubsDistinct ==
  \A i, j \in SubIds : ~Free(i) /\ i # j
    => \/ subscribers[i].addr # subscribers[j].addr
       \/ subscribers[i].periphId # subscribers[j].periphId
       \/ subscribers[i].act # subscribers[j].act
       \/ subscribers[i].value # subscribers[j].value

\* The loop of rf_task moves past an entry that is in use.
Passes(i) == entry = i /\ entry' # i /\ ~Free(i)

\* A subscription to a bound is reported when, and only when, the reading has
\* come over from the other side of the bound since the subscription was made
\* or last reported, whatever its entry was used for before.
ReportsCrossings ==
  [][\A i \in SubIds : Passes(i) /\ subscribers[i].act \in {"GTE", "LTE"}
       => (report'.sent # {} <=>
             /\ crossed[i]
             /\ ~Before(subscribers[i].act, subscribers[i].value,
                        report'.read))]_vars

\* What a report on a lower bound sends is at least that bound: "publish state
\* if >= specified value".
GteReportShowsValue ==
  [][\A i \in SubIds : Passes(i) /\ subscribers[i].act = "GTE"
       => \A v \in report'.sent : v >= subscribers[i].value]_vars
=============================================================================
