------------------------- MODULE BrotherSensorsProofs -------------------------
(***************************************************************************)
(* Proofs about the Brother printer sensors, for every set of sensor      *)
(* kinds, ATTRS_MAP and printer readings.                                  *)
(*                                                                         *)
(* ShownMatchesData is not inductive by itself: a poll writes a sensor's   *)
(* _attrs dict only for the kinds of ATTRS_MAP and hands the others' dict  *)
(* on unchanged, so the step needs to know that the others' dict is still  *)
(* the empty one __init__ made; and the writes range over the domains of   *)
(* attrs and shown.  Typing states those facts.                           *)
(***************************************************************************)
EXTENDS BrotherSensors, TLAPS

\* The shapes of the variables, and the _attrs of a kind outside ATTRS_MAP
\* left as __init__ made it.
Typing ==
    /\ data \in Readings
    /\ ok \in BOOLEAN
    /\ entities \subseteq SensorTypes
    /\ DOMAIN shown = entities
    /\ DOMAIN attrs = SensorTypes
    /\ \A k \in SensorTypes \ DOMAIN AttrsMap : attrs[k] = NoAttrs

IInv == Typing /\ ShownMatchesData

\* The dict extra_state_attributes fills is the record the hub shows.
LEMMA AttrsRecord ==
    ASSUME NEW x, NEW y
    PROVE  [a \in {"remaining_pages", "counter"} |->
               IF a = "remaining_pages" THEN x ELSE y]
           = [remaining_pages |-> x, counter |-> y]
OBVIOUS

\* What a sensor shows once the hub wrote it after a step: its value from
\* the data read and the attributes of that same data.
LEMMA WriteShows ==
    ASSUME Typing, NEW es \in SUBSET SensorTypes, WriteAll(es),
           data' \in Readings, ok' \in BOOLEAN
    PROVE  \A k \in es :
              shown'[k] =
                 IF ~ok' THEN Unavailable
                 ELSE [state |-> StateOf(k, data'),
                       attrs |-> IF k \in DOMAIN AttrsMap
                                 THEN [remaining_pages |-> data'[AttrsMap[k][1]],
                                       counter |-> data'[AttrsMap[k][2]]]
                                 ELSE NoAttrs]
<1> SUFFICES ASSUME NEW k \in es
             PROVE  shown'[k] =
                 IF ~ok' THEN Unavailable
                 ELSE [state |-> StateOf(k, data'),
                       attrs |-> IF k \in DOMAIN AttrsMap
                                 THEN [remaining_pages |-> data'[AttrsMap[k][1]],
                                       counter |-> data'[AttrsMap[k][2]]]
                                 ELSE NoAttrs]
    OBVIOUS
<1>1. shown'[k] = Written(k, attrs'[k])
    BY DEF WriteAll
<1>2. ok' => attrs'[k] = NewAttrs(k, data', attrs[k])
    BY DEF WriteAll, Typing
<1>3. CASE ok' /\ k \in DOMAIN AttrsMap
    <2>1. attrs'[k] = [remaining_pages |-> data'[AttrsMap[k][1]],
                       counter |-> data'[AttrsMap[k][2]]]
        BY <1>2, <1>3, AttrsRecord DEF NewAttrs
    <2> QED
        BY <1>1, <1>3, <2>1 DEF Written
<1>4. CASE ok' /\ k \notin DOMAIN AttrsMap
    <2>1. attrs'[k] = NoAttrs
        BY <1>2, <1>4 DEF NewAttrs, Typing
    <2> QED
        BY <1>1, <1>4, <2>1 DEF Written
<1>5. CASE ~ok'
    BY <1>1, <1>5 DEF Written
<1> QED
    BY <1>3, <1>4, <1>5

\* After every step, a kind outside ATTRS_MAP keeps its empty dict.
LEMMA WriteTyping ==
    ASSUME Typing, NEW es \in SUBSET SensorTypes, WriteAll(es)
    PROVE  /\ DOMAIN attrs' = SensorTypes
           /\ DOMAIN shown' = es
           /\ \A k \in SensorTypes \ DOMAIN AttrsMap : attrs'[k] = NoAttrs
BY DEF WriteAll, Typing, NewAttrs

LEMMA InitIInv == Init => IInv
BY DEF Init, IInv, Typing, ShownMatchesData

LEMMA NextIInv == IInv /\ [Next]_vars => IInv'
<1> SUFFICES ASSUME IInv, [Next]_vars PROVE IInv'
    OBVIOUS
<1>1. CASE SetupEntry
    <2>1. entities' \in SUBSET SensorTypes /\ WriteAll(entities')
        BY <1>1 DEF SetupEntry
    <2>2. data' \in Readings /\ ok' \in BOOLEAN
        BY <1>1 DEF SetupEntry, IInv, Typing
    <2> QED
        BY <2>1, <2>2, WriteShows, WriteTyping DEF IInv, Typing, ShownMatchesData
<1>2. ASSUME NEW d \in Readings, Poll(d) PROVE IInv'
    <2>1. entities \in SUBSET SensorTypes /\ WriteAll(entities) /\ entities' = entities
        BY <1>2 DEF Poll, IInv, Typing
    <2>2. data' \in Readings /\ ok' \in BOOLEAN
        BY <1>2 DEF Poll
    <2> QED
        BY <2>1, <2>2, WriteShows, WriteTyping DEF IInv, Typing, ShownMatchesData
<1>3. CASE PollFailed
    <2>1. entities \in SUBSET SensorTypes /\ WriteAll(entities) /\ entities' = entities
        BY <1>3 DEF PollFailed, IInv, Typing
    <2>2. data' \in Readings /\ ok' \in BOOLEAN
        BY <1>3 DEF PollFailed, IInv, Typing
    <2> QED
        BY <2>1, <2>2, WriteShows, WriteTyping DEF IInv, Typing, ShownMatchesData
<1>4. CASE UNCHANGED vars
    BY <1>4 DEF vars, IInv, Typing, ShownMatchesData
<1> QED
    BY <1>1, <1>2, <1>3, <1>4 DEF Next

\* Whatever the order of the platform's setup, polls and failed polls,
\* each sensor the hub shows holds the last poll's value and, for the kinds
\* of ATTRS_MAP, the remaining pages and counter of that same poll, or is
\* unavailable while the last poll failed (ShownMatchesData): for every set
\* of kinds, ATTRS_MAP and readings.
THEOREM ShownMatchesDataHolds == Spec => []ShownMatchesData
<1>1. IInv => ShownMatchesData
    BY DEF IInv
<1> QED
    BY <1>1, InitIInv, NextIInv, PTL DEF Spec
====
