----------------------------- MODULE RfNodeProofs ------------------------------
(***************************************************************************)
(* Proofs about the subscriptions of an end device, for any size of the    *)
(* table that fits the counter, any subscribers, readings and values.      *)
(***************************************************************************)
EXTENDS RfNode, TLAPS, FiniteSetTheorems, WellFoundedInduction

-----------------------------------------------------------------------------
(* Helpers.                                                                *)

\* A set of natural numbers that is not empty has a least element.
LEMMA Least ==
  ASSUME NEW S \in SUBSET Nat, S # {}
  PROVE  \E x \in S : \A y \in S : x <= y
<1>1. \E x \in S : \A y \in S : <<y, x>> \notin OpToRel(<, Nat)
  BY NatLessThanWellFounded, WFMin, Zenon
<1>2. \A x, y \in Nat : <<y, x>> \notin OpToRel(<, Nat) => ~(y < x)
  BY Zenon DEF OpToRel
<1>3. \A x, y \in Nat : ~(y < x) => x <= y
  OBVIOUS
<1>. QED
  BY <1>1, <1>2, <1>3

\* handleSubscribe finds a free entry when there is one.
LEMMA FirstFreeIsFree ==
  ASSUME \E i \in SubIds : Free(i)
  PROVE  FirstFree \in SubIds /\ Free(FirstFree)
<1> DEFINE S == {i \in SubIds : Free(i)}
<1>1. S \in SUBSET Nat /\ S # {}
  BY SubsAssumption DEF SubIds
<1>2. \E i \in SubIds : Free(i) /\ \A j \in SubIds : Free(j) => i <= j
  <2>1. \E x \in S : \A y \in S : x <= y
    <3> HIDE DEF S
    <3>. QED
      BY <1>1, Least
  <2>. QED
    BY <2>1
<1>. QED
  BY <1>2 DEF FirstFree

\* The entries in use are finitely many, at most as many as there are entries.
LEMMA UsedFinite ==
  /\ IsFiniteSet(Used) /\ Cardinality(Used) \in 0 .. RF_MAX_SUBS
<1>1. IsFiniteSet(SubIds) /\ Cardinality(SubIds) = RF_MAX_SUBS
  BY FS_Interval, SubsAssumption DEF SubIds
<1>2. Used \in SUBSET SubIds
  BY DEF Used
<1>3. IsFiniteSet(Used) /\ Cardinality(Used) <= RF_MAX_SUBS
  BY <1>1, <1>2, FS_Subset
<1>4. Cardinality(Used) \in Nat
  BY <1>3, FS_CardinalityType
<1>. QED
  BY <1>3, <1>4, SubsAssumption

-----------------------------------------------------------------------------
(* Type correctness.                                                       *)

\* The fields of a request.
LEMMA RequestTyped ==
  ASSUME NEW r \in Request
  PROVE  /\ r.src \in Addrs /\ r.periphId \in Periphs
         /\ r.act \in Acts /\ r.value \in Values /\ r.value \in Nat
  BY ReadingAssumption DEF Request

\* Readings are natural numbers.
LEMMA ReadingsNat ==
  ASSUME NEW p, NEW x \in Readings(p)
  PROVE  x \in Nat
  BY ReadingAssumption DEF Readings, Btn

\* A new entry is a subscription.
LEMMA NewSubTyped ==
  ASSUME NEW r \in Request, NEW i, NEW cval \in Readings(r.periphId)
  PROVE  NewSub(i, r, cval) \in Sub
  BY DEF NewSub, Sub, Request, Readings

\* Init establishes the types.
LEMMA InitTyped == Init => TypeOK
<1>. SUFFICES ASSUME Init PROVE TypeOK
  OBVIOUS
<1>1. subscribers \in [SubIds -> Sub]
  BY DEF Init, Sub
<1>2. entry \in 0 .. RF_MAX_SUBS /\ subNumRegistered \in 0 .. 255
  BY SubsAssumption DEF Init
<1>3. report \in [read : Trim \cup Btn, sent : SUBSET (Trim \cup Btn)]
  BY ReadingAssumption DEF Init, NoReport
<1>4. crossed \in [SubIds -> BOOLEAN]
  BY DEF Init
<1>. QED
  BY <1>1, <1>2, <1>3, <1>4 DEF TypeOK

\* Whether a reading is on the other side is a truth value.
LEMMA BeforeBoolean ==
  \A act \in Acts : \A v, x \in Nat : Before(act, v, x) \in BOOLEAN
<1>. SUFFICES ASSUME NEW act \in Acts, NEW v \in Nat, NEW x \in Nat
              PROVE  Before(act, v, x) \in BOOLEAN
  OBVIOUS
<1>1. CASE act = "GTE"
  BY <1>1 DEF Before
<1>2. CASE act = "LTE"
  BY <1>2 DEF Before
<1>3. CASE act = "DIF"
  BY <1>3 DEF Before
<1>. QED
  BY <1>1, <1>2, <1>3 DEF Acts

\* Every step keeps the types.
LEMMA NextTyped == TypeOK /\ [Next]_vars => TypeOK'
<1>. SUFFICES ASSUME TypeOK, [Next]_vars PROVE TypeOK'
  OBVIOUS
<1>1. ASSUME NEW r \in Request, Subscribe(r) PROVE TypeOK'
  <2>1. CASE UNCHANGED <<subscribers, subNumRegistered, crossed>>
    BY <1>1, <2>1, InitTyped, ReadingAssumption
    DEF TypeOK, Subscribe, Idle, NoReport
  <2>2. ASSUME NEW cval \in Readings(r.periphId),
               subscribers' = [subscribers EXCEPT ![FirstFree] =
                                                    NewSub(FirstFree, r, cval)],
               subNumRegistered' = (subNumRegistered + 1) % 256,
               crossed' = [crossed EXCEPT ![FirstFree] =
                                            Before(r.act, r.value, cval)]
        PROVE  TypeOK'
    <3>1. subscribers' \in [SubIds -> Sub]
      BY <2>2, NewSubTyped DEF TypeOK
    <3>2. subNumRegistered' \in 0 .. 255
      BY <2>2 DEF TypeOK
    <3>3. crossed' \in [SubIds -> BOOLEAN]
      <4>1. r.act \in Acts /\ r.value \in Nat /\ cval \in Nat
        BY RequestTyped, ReadingsNat
      <4>2. Before(r.act, r.value, cval) \in BOOLEAN
        BY <4>1, BeforeBoolean
      <4>. QED
        BY <2>2, <4>2, Zenon DEF TypeOK
    <3>4. /\ entry' = entry
          /\ report' \in [read : Trim \cup Btn, sent : SUBSET (Trim \cup Btn)]
      BY <1>1, ReadingAssumption DEF Subscribe, Idle, NoReport
    <3>. QED
      BY <3>1, <3>2, <3>3, <3>4 DEF TypeOK
  <2>. QED
    BY <1>1, <2>1, <2>2 DEF Subscribe, handleSubscribe
<1>2. ASSUME NEW a \in Addrs, NEW i \in 0 .. RF_MAX_SUBS + 1, Unsubscribe(a, i)
      PROVE  TypeOK'
  <2>1. /\ entry' = entry
        /\ report' \in [read : Trim \cup Btn, sent : SUBSET (Trim \cup Btn)]
    BY <1>2, ReadingAssumption DEF Unsubscribe, Idle, NoReport
  <2>2. CASE ~Owns(a, i)
    BY <1>2, <2>1, <2>2 DEF TypeOK, Unsubscribe, handleUnsubscribe
  <2>3. CASE Owns(a, i)
    <3>1. subscribers[i] \in Sub
      BY <2>3 DEF Owns, TypeOK
    <3>2. [subscribers[i] EXCEPT !.addr = NoAddr] \in Sub
      BY <3>1 DEF Sub, ZeroSub
    <3>3. subscribers' \in [SubIds -> Sub]
      BY <1>2, <2>3, <3>2 DEF TypeOK, Unsubscribe, handleUnsubscribe
    <3>4. subNumRegistered' \in 0 .. 255
      BY <1>2, <2>3 DEF TypeOK, Unsubscribe, handleUnsubscribe
    <3>5. crossed' = crossed
      BY <1>2, <2>3 DEF Unsubscribe, handleUnsubscribe
    <3>. QED
      BY <2>1, <3>3, <3>4, <3>5 DEF TypeOK
  <2>. QED
    BY <2>2, <2>3
<1>3. CASE rf_task
  BY <1>3, SubsAssumption, ReadingAssumption DEF TypeOK, rf_task, NoReport
<1>4. CASE SkipFree
  BY <1>4, SubsAssumption, ReadingAssumption
  DEF TypeOK, SkipFree, Following, NoReport
<1>5. ASSUME NEW read \in Trim \cup Btn, Sample(read) PROVE TypeOK'
  <2> DEFINE s == subscribers[entry]
  <2>1. entry \in SubIds /\ s \in Sub /\ s.addr # NoAddr
    BY <1>5, SubsAssumption DEF Sample, TypeOK, Free, SubIds
  <2>2. s \in [addr : Addrs \cup {NoAddr}, periphId : Periphs, act : Acts,
               value : Values, last : Trim \cup Btn]
    BY <2>1 DEF Sub, ZeroSub
  <2>3. Sampled(s, read) \in Trim \cup Btn
    BY <2>2 DEF Sampled
  <2>4. subscribers' \in [SubIds -> Sub]
    <3>1. [s EXCEPT !.last = Sampled(s, read)] \in Sub
      BY <2>2, <2>3 DEF Sub
    <3>2. subscribers' = [subscribers EXCEPT ![entry] =
                            [s EXCEPT !.last = Sampled(s, read)]]
      BY <1>5 DEF Sample
    <3>. QED
      BY <3>1, <3>2 DEF TypeOK
  <2>5. crossed' \in [SubIds -> BOOLEAN]
    BY <1>5 DEF Sample, TypeOK
  <2>6. report' \in [read : Trim \cup Btn, sent : SUBSET (Trim \cup Btn)]
    <3>1. SentValues(s.periphId) \subseteq Trim \cup Btn
      BY DEF SentValues, BtnSw2, Btn
    <3>. QED
      BY <1>5, <3>1 DEF Sample
  <2>7. entry' \in 0 .. RF_MAX_SUBS /\ subNumRegistered' = subNumRegistered
    BY <1>5, <2>1, SubsAssumption DEF Sample, Following, SubIds
  <2>. QED
    BY <2>4, <2>5, <2>6, <2>7 DEF TypeOK
<1>6. CASE UNCHANGED vars
  BY <1>6 DEF TypeOK, vars
<1>. QED
  BY <1>1, <1>2, <1>3, <1>4, <1>5, <1>6 DEF Next

\* The table, its counter and the loop stay in their types (uint8_t indices
\* and counter, entries of subscribers).
THEOREM TypeCorrect == Spec => []TypeOK
  BY InitTyped, NextTyped, PTL DEF Spec

-----------------------------------------------------------------------------
(* The counter and the entries in use.                                     *)

\* A step that is not a request leaves addresses and subscriptions alone.
Untouched ==
  /\ subNumRegistered' = subNumRegistered
  /\ \A i \in SubIds : /\ subscribers'[i].addr = subscribers[i].addr
                       /\ subscribers'[i].periphId = subscribers[i].periphId
                       /\ subscribers'[i].act = subscribers[i].act
                       /\ subscribers'[i].value = subscribers[i].value

\* The loop of rf_task is such a step.
LEMMA LoopUntouched ==
  ASSUME TypeOK,
         rf_task \/ SkipFree \/ UNCHANGED vars
           \/ \E read \in Trim \cup Btn : Sample(read)
  PROVE  Untouched
<1>1. CASE rf_task \/ SkipFree \/ UNCHANGED vars
  BY <1>1 DEF rf_task, SkipFree, vars, Untouched
<1>2. ASSUME NEW read \in Trim \cup Btn, Sample(read) PROVE Untouched
  <2>1. \A i \in SubIds : subscribers[i] \in Sub
    BY DEF TypeOK
  <2>2. subscribers' = [subscribers EXCEPT ![entry].last =
                          Sampled(subscribers[entry], read)]
    BY <1>2 DEF Sample
  <2>3. \A i \in SubIds :
          \/ subscribers'[i] = subscribers[i]
          \/ subscribers'[i] = [subscribers[i] EXCEPT !.last =
                                  Sampled(subscribers[entry], read)]
    BY <2>2 DEF TypeOK
  <2>. QED
    BY <1>2, <2>1, <2>3 DEF Sample, Untouched, Sub, ZeroSub
<1>. QED
  BY <1>1, <1>2

\* What a request that gets an entry does.
LEMMA SubscribeAdds ==
  ASSUME TypeOK, NEW r \in Request, Subscribe(r)
  PROVE  \/ UNCHANGED <<subscribers, subNumRegistered, crossed>>
         \/ /\ ~subscriptionExists(r)
            /\ FirstFree \in SubIds /\ Free(FirstFree)
            /\ \E cval \in Readings(r.periphId) :
                 /\ subscribers' = [subscribers EXCEPT ![FirstFree] =
                                                 NewSub(FirstFree, r, cval)]
                 /\ crossed' = [crossed EXCEPT ![FirstFree] =
                                                 Before(r.act, r.value, cval)]
            /\ subNumRegistered' = (subNumRegistered + 1) % 256
  BY FirstFreeIsFree DEF Subscribe, handleSubscribe

\* CountMatches is kept by every step.
LEMMA NextCounts == TypeOK /\ CountMatches /\ [Next]_vars => CountMatches'
<1>. SUFFICES ASSUME TypeOK, CountMatches, [Next]_vars PROVE CountMatches'
  OBVIOUS
<1>. USE DEF CountMatches
<1>1. ASSUME NEW r \in Request, Subscribe(r) PROVE CountMatches'
  <2>1. CASE UNCHANGED <<subscribers, subNumRegistered, crossed>>
    BY <2>1 DEF Used, Free
  <2>2. CASE ~UNCHANGED <<subscribers, subNumRegistered, crossed>>
    <3>1. /\ FirstFree \in SubIds /\ Free(FirstFree)
          /\ subNumRegistered' = (subNumRegistered + 1) % 256
      BY <1>1, <2>2, SubscribeAdds
    <3>2. PICK cval \in Readings(r.periphId) :
            subscribers' = [subscribers EXCEPT ![FirstFree] =
                                                 NewSub(FirstFree, r, cval)]
      BY <1>1, <2>2, SubscribeAdds
    <3>3. NewSub(FirstFree, r, cval).addr # NoAddr
      BY RequestTyped, AddrAssumption DEF NewSub
    <3>4. Used' = Used \cup {FirstFree}
      <4>1. \A i \in SubIds : subscribers'[i].addr =
              IF i = FirstFree THEN NewSub(FirstFree, r, cval).addr
                               ELSE subscribers[i].addr
        BY <3>2 DEF TypeOK
      <4>. QED
        BY <3>1, <3>3, <4>1 DEF Used, Free
    <3>5. Cardinality(Used') = Cardinality(Used) + 1
      BY <3>1, <3>4, UsedFinite, FS_AddElement DEF Used
    <3>6. Cardinality(Used') <= RF_MAX_SUBS
      <4>1. IsFiniteSet(SubIds) /\ Cardinality(SubIds) = RF_MAX_SUBS
        BY FS_Interval, SubsAssumption DEF SubIds
      <4>2. Used' \in SUBSET SubIds
        BY DEF Used
      <4>. QED
        BY <4>1, <4>2, FS_Subset
    <3>. QED
      BY <3>1, <3>5, <3>6, UsedFinite, SubsAssumption
  <2>. QED
    BY <2>1, <2>2
<1>2. ASSUME NEW a \in Addrs, NEW i \in 0 .. RF_MAX_SUBS + 1, Unsubscribe(a, i)
      PROVE  CountMatches'
  <2>1. CASE ~Owns(a, i)
    BY <1>2, <2>1 DEF Unsubscribe, handleUnsubscribe, Used, Free
  <2>2. CASE Owns(a, i)
    <3>1. i \in Used
      BY <2>2, AddrAssumption DEF Owns, Used, Free
    <3>2. /\ subNumRegistered' = (subNumRegistered + 255) % 256
          /\ subscribers' = [subscribers EXCEPT ![i].addr = NoAddr]
      BY <1>2, <2>2 DEF Unsubscribe, handleUnsubscribe
    <3>3. Used' = Used \ {i}
      <4>1. subscribers[i] \in Sub
        BY <2>2 DEF Owns, TypeOK
      <4>2. [subscribers[i] EXCEPT !.addr = NoAddr].addr = NoAddr
        BY <4>1 DEF Sub, ZeroSub
      <4>3. \A k \in SubIds : subscribers'[k].addr =
              IF k = i THEN NoAddr ELSE subscribers[k].addr
        BY <3>2, <4>2 DEF TypeOK
      <4>. QED
        BY <4>3 DEF Used, Free
    <3>4. /\ Cardinality(Used') = Cardinality(Used) - 1
          /\ Cardinality(Used') \in Nat
      BY <3>1, <3>3, UsedFinite, FS_RemoveElement, FS_CardinalityType
    <3>. QED
      BY <3>2, <3>4, UsedFinite, SubsAssumption
  <2>. QED
    BY <2>1, <2>2
<1>3. CASE Untouched
  BY <1>3 DEF Untouched, Used, Free
<1>. QED
  BY <1>1, <1>2, <1>3, LoopUntouched DEF Next

\* SubsDistinct is kept by every step.
LEMMA NextDistinct == TypeOK /\ SubsDistinct /\ [Next]_vars => SubsDistinct'
<1>. SUFFICES ASSUME TypeOK, SubsDistinct, [Next]_vars PROVE SubsDistinct'
  OBVIOUS
<1>1. ASSUME NEW r \in Request, Subscribe(r) PROVE SubsDistinct'
  <2>1. CASE UNCHANGED <<subscribers, subNumRegistered, crossed>>
    BY <2>1 DEF SubsDistinct, Free
  <2>2. CASE ~UNCHANGED <<subscribers, subNumRegistered, crossed>>
    <3>1. PICK cval \in Readings(r.periphId) :
            subscribers' = [subscribers EXCEPT ![FirstFree] =
                                                 NewSub(FirstFree, r, cval)]
      BY <1>1, <2>2, SubscribeAdds
    <3>2. ~subscriptionExists(r) /\ FirstFree \in SubIds
      BY <1>1, <2>2, SubscribeAdds
    <3>3. \A i \in SubIds : subscribers'[i] =
            IF i = FirstFree THEN NewSub(FirstFree, r, cval) ELSE subscribers[i]
      BY <3>1 DEF TypeOK
    <3>4. Same(NewSub(FirstFree, r, cval), r)
      BY DEF Same, NewSub
    <3>5. \A i \in SubIds : ~Same(subscribers[i], r)
      BY <3>2 DEF subscriptionExists
    <3>. QED
      BY <3>3, <3>4, <3>5 DEF SubsDistinct, Free, Same
  <2>. QED
    BY <2>1, <2>2
<1>2. ASSUME NEW a \in Addrs, NEW i \in 0 .. RF_MAX_SUBS + 1, Unsubscribe(a, i)
      PROVE  SubsDistinct'
  <2>1. CASE ~Owns(a, i)
    BY <1>2, <2>1 DEF Unsubscribe, handleUnsubscribe, SubsDistinct, Free
  <2>2. CASE Owns(a, i)
    <3>1. subscribers[i] \in Sub /\ i \in SubIds
      BY <2>2 DEF Owns, TypeOK
    <3>2. [subscribers[i] EXCEPT !.addr = NoAddr].addr = NoAddr
      BY <3>1 DEF Sub, ZeroSub
    <3>3. /\ subscribers'[i].addr = NoAddr
          /\ \A k \in SubIds \ {i} : subscribers'[k] = subscribers[k]
      BY <1>2, <2>2, <3>1, <3>2 DEF Unsubscribe, handleUnsubscribe, TypeOK
    <3>. QED
      BY <3>3 DEF SubsDistinct, Free
  <2>. QED
    BY <2>1, <2>2
<1>3. CASE Untouched
  BY <1>3 DEF Untouched, SubsDistinct, Free
<1>. QED
  BY <1>1, <1>2, <1>3, LoopUntouched DEF Next

\* subNumRegistered counts the entries in use, so that rf_task looks at the
\* table whenever there is a subscription (handleSubscribe, handleUnsubscribe).
THEOREM CounterIsExact == Spec => []CountMatches
<1>1. Init => CountMatches
  <2>. SUFFICES ASSUME Init PROVE CountMatches
    OBVIOUS
  <2>1. Used = {}
    BY DEF Init, Used, Free, ZeroSub
  <2>. QED
    BY <2>1, FS_EmptySet DEF Init, CountMatches
<1>. QED
  BY <1>1, NextCounts, TypeCorrect, PTL DEF Spec

\* No two entries hold the same subscription, however often the request for it
\* is repeated (subscriptionExists).
THEOREM NoDuplicates == Spec => []SubsDistinct
<1>1. Init => SubsDistinct
  BY DEF Init, SubsDistinct, Free, ZeroSub
<1>. QED
  BY <1>1, NextDistinct, TypeCorrect, PTL DEF Spec

-----------------------------------------------------------------------------
(* Crossings.                                                              *)

Bound(s) == s.act \in {"GTE", "LTE"}

\* The history crossed is what the entry itself remembers in its last reading.
\* This is the strengthening that ReportsCrossings needs: it ties the reports,
\* which the code decides on last, to all the readings since the subscription.
CrossedIsBefore ==
  \A i \in SubIds : ~Free(i) /\ Bound(subscribers[i])
    => (crossed[i] <=> Before(subscribers[i].act, subscribers[i].value,
                              subscribers[i].last))

\* A subscription in use has numbers to compare.
LEMMA SubNumbers ==
  ASSUME TypeOK, NEW i \in SubIds, ~Free(i)
  PROVE  /\ subscribers[i] \in [addr : Addrs \cup {NoAddr}, periphId : Periphs,
                                act : Acts, value : Values, last : Trim \cup Btn]
         /\ subscribers[i].value \in Nat /\ subscribers[i].last \in Nat
<1>1. subscribers[i] \in Sub /\ subscribers[i].addr # NoAddr
  BY DEF TypeOK, Free
<1>2. subscribers[i] \in [addr : Addrs \cup {NoAddr}, periphId : Periphs,
                          act : Acts, value : Values, last : Trim \cup Btn]
  BY <1>1 DEF Sub, ZeroSub
<1>3. subscribers[i].value \in Values /\ subscribers[i].last \in Trim \cup Btn
  BY <1>2
<1>4. \A x \in Trim \cup Btn : x \in Nat
  BY ReadingAssumption DEF Btn
<1>5. subscribers[i].value \in Nat /\ subscribers[i].last \in Nat
  BY <1>3, <1>4, ReadingAssumption
<1>. QED
  BY <1>2, <1>5

\* A report on a bound is due when the reading comes over from the other side.
LEMMA DueIsCrossing ==
  ASSUME TypeOK, NEW i \in SubIds, ~Free(i), Bound(subscribers[i]),
         NEW read \in Nat
  PROVE  LET s == subscribers[i]
         IN  /\ Due(s, read) <=> /\ Before(s.act, s.value, s.last)
                                 /\ ~Before(s.act, s.value, read)
             /\ Sampled(s, read) = read
<1>1. subscribers[i].value \in Nat /\ subscribers[i].last \in Nat
  BY SubNumbers
<1>2. CASE subscribers[i].act = "GTE"
  BY <1>1, <1>2 DEF Due, Before, Sampled
<1>3. CASE subscribers[i].act = "LTE"
  BY <1>1, <1>3 DEF Due, Before, Sampled
<1>. QED
  BY <1>2, <1>3 DEF Bound

\* Every step keeps CrossedIsBefore.
LEMMA NextCrossed ==
  TypeOK /\ CrossedIsBefore /\ [Next]_vars => CrossedIsBefore'
<1>. SUFFICES ASSUME TypeOK, CrossedIsBefore, [Next]_vars
              PROVE  CrossedIsBefore'
  OBVIOUS
<1>1. ASSUME NEW r \in Request, Subscribe(r) PROVE CrossedIsBefore'
  <2>1. CASE UNCHANGED <<subscribers, subNumRegistered, crossed>>
    BY <2>1 DEF CrossedIsBefore, Free, Bound
  <2>2. CASE ~UNCHANGED <<subscribers, subNumRegistered, crossed>>
    <3>1. PICK cval \in Readings(r.periphId) :
            /\ subscribers' = [subscribers EXCEPT ![FirstFree] =
                                                 NewSub(FirstFree, r, cval)]
            /\ crossed' = [crossed EXCEPT ![FirstFree] =
                                                 Before(r.act, r.value, cval)]
      BY <1>1, <2>2, SubscribeAdds
    <3>2. \A i \in SubIds : i # FirstFree => /\ subscribers'[i] = subscribers[i]
                                             /\ crossed'[i] = crossed[i]
      BY <3>1 DEF TypeOK
    <3>3. FirstFree \in SubIds
            => /\ subscribers'[FirstFree] = NewSub(FirstFree, r, cval)
               /\ crossed'[FirstFree] = Before(r.act, r.value, cval)
      BY <3>1 DEF TypeOK
    <3>4. /\ NewSub(FirstFree, r, cval).act = r.act
          /\ NewSub(FirstFree, r, cval).value = r.value
          /\ NewSub(FirstFree, r, cval).last = cval
      BY DEF NewSub
    <3>. SUFFICES ASSUME NEW i \in SubIds, ~Free(i)', Bound(subscribers[i])'
                  PROVE  (crossed[i] <=> Before(subscribers[i].act,
                            subscribers[i].value, subscribers[i].last))'
      BY DEF CrossedIsBefore
    <3>5. CASE i = FirstFree
      BY <3>3, <3>4, <3>5
    <3>6. CASE i # FirstFree
      BY <3>2, <3>6 DEF CrossedIsBefore, Free, Bound
    <3>. QED
      BY <3>5, <3>6
  <2>. QED
    BY <2>1, <2>2
<1>2. ASSUME NEW a \in Addrs, NEW k \in 0 .. RF_MAX_SUBS + 1, Unsubscribe(a, k)
      PROVE  CrossedIsBefore'
  <2>1. CASE ~Owns(a, k)
    BY <1>2, <2>1 DEF Unsubscribe, handleUnsubscribe, CrossedIsBefore, Free, Bound
  <2>2. CASE Owns(a, k)
    <3>1. subscribers[k] \in Sub /\ k \in SubIds
      BY <2>2 DEF Owns, TypeOK
    <3>2. [subscribers[k] EXCEPT !.addr = NoAddr].addr = NoAddr
      BY <3>1 DEF Sub, ZeroSub
    <3>3. /\ subscribers'[k].addr = NoAddr
          /\ \A i \in SubIds \ {k} : subscribers'[i] = subscribers[i]
          /\ crossed' = crossed
      BY <1>2, <2>2, <3>1, <3>2 DEF Unsubscribe, handleUnsubscribe, TypeOK
    <3>. QED
      BY <3>3 DEF CrossedIsBefore, Free, Bound
  <2>. QED
    BY <2>1, <2>2
<1>3. CASE rf_task \/ SkipFree \/ UNCHANGED vars
  BY <1>3 DEF rf_task, SkipFree, vars, CrossedIsBefore, Free, Bound
<1>4. ASSUME NEW read \in Trim \cup Btn, Sample(read) PROVE CrossedIsBefore'
  <2> DEFINE s == subscribers[entry]
  <2>1. entry \in SubIds /\ ~Free(entry) /\ read \in Nat
    BY <1>4, SubsAssumption, ReadingAssumption
    DEF Sample, TypeOK, SubIds, Btn
  <2>2. /\ subscribers'[entry] = [s EXCEPT !.last = Sampled(s, read)]
        /\ \A i \in SubIds \ {entry} : /\ subscribers'[i] = subscribers[i]
                                       /\ crossed'[i] = crossed[i]
        /\ crossed'[entry] = (~Due(s, read) /\
             (crossed[entry] \/ Before(s.act, s.value, read)))
    BY <1>4, <2>1 DEF Sample, TypeOK
  <2>3. /\ subscribers'[entry].act = s.act
        /\ subscribers'[entry].value = s.value
        /\ subscribers'[entry].last = Sampled(s, read)
    BY <2>1, <2>2, SubNumbers
  <2>4. Bound(s) => (crossed'[entry] <=> Before(s.act, s.value, Sampled(s, read)))
    BY <2>1, <2>2, DueIsCrossing DEF CrossedIsBefore
  <2>. SUFFICES ASSUME NEW i \in SubIds, ~Free(i)', Bound(subscribers[i])'
                PROVE  (crossed[i] <=> Before(subscribers[i].act,
                          subscribers[i].value, subscribers[i].last))'
    BY DEF CrossedIsBefore
  <2>5. CASE i = entry
    BY <2>3, <2>4, <2>5 DEF Bound
  <2>6. CASE i # entry
    BY <2>2, <2>6 DEF CrossedIsBefore, Free, Bound
  <2>. QED
    BY <2>5, <2>6
<1>. QED
  BY <1>1, <1>2, <1>3, <1>4 DEF Next

\* A subscription to a bound is reported exactly when the reading has come over
\* from the other side since the subscription was made or last reported
\* (rf_task, RFPT_MSG_SUB_GTE and RFPT_MSG_SUB_LTE), for every table size and
\* every sequence of requests and readings.
THEOREM CrossingsAreReported == Spec => ReportsCrossings
<1> DEFINE A == \A i \in SubIds : Passes(i) /\ subscribers[i].act \in {"GTE", "LTE"}
                  => (report'.sent # {} <=>
                        /\ crossed[i]
                        /\ ~Before(subscribers[i].act, subscribers[i].value,
                                   report'.read))
<1>1. Init => CrossedIsBefore
  BY DEF Init, CrossedIsBefore, Free, ZeroSub
<1>2. TypeOK /\ CrossedIsBefore /\ [Next]_vars => [A]_vars
  <2>. SUFFICES ASSUME TypeOK, CrossedIsBefore, Next,
                       NEW i \in SubIds, Passes(i), Bound(subscribers[i])
                PROVE  report'.sent # {} <=>
                         /\ crossed[i]
                         /\ ~Before(subscribers[i].act, subscribers[i].value,
                                    report'.read)
    BY DEF Bound
  <2>1. entry = i /\ entry' # i /\ ~Free(i) /\ entry # 0
    BY SubsAssumption DEF Passes, SubIds
  <2>2. PICK read \in Trim \cup Btn : Sample(read)
    BY <2>1 DEF Next, Subscribe, Unsubscribe, Idle, rf_task, SkipFree
  <2>3. /\ report'.read = read
        /\ report'.sent # {} <=> Due(subscribers[i], read)
    BY <2>1, <2>2 DEF Sample
  <2>4. read \in Nat
    BY ReadingAssumption DEF Btn
  <2>. QED
    BY <2>1, <2>3, <2>4, DueIsCrossing DEF CrossedIsBefore
<1>3. Spec => []CrossedIsBefore
  BY <1>1, NextCrossed, TypeCorrect, PTL DEF Spec
<1>. QED
  BY <1>2, <1>3, TypeCorrect, PTL DEF Spec, ReportsCrossings
=============================================================================
