---------------------------- MODULE BrotherSensors ----------------------------
(***************************************************************************)
(* The Brother printer sensors                                             *)
(* (src/homeassistant/components/brother/sensor.py).                      *)
(*                                                                         *)
(* The integration's coordinator polls the printer; its data maps the keys *)
(* the printer reports to their values.  async_setup_entry creates one     *)
(* sensor per kind of SENSOR_TYPES that the data has when the platform is  *)
(* set up.  After every poll the coordinator's listeners write each        *)
(* sensor's state to the hub: the state property reads the current data,   *)
(* and extra_state_attributes refreshes the sensor's own _attrs dict with  *)
(* the remaining pages and counter of the kinds in ATTRS_MAP.  While the   *)
(* last poll failed the sensors are written unavailable, without reading   *)
(* state or attributes.  The coordinator and the entity base classes are   *)
(* outside the repository; they are modelled as the hub documents them.   *)
(***************************************************************************)
CONSTANTS
    SensorTypes,   \* the kinds of SENSOR_TYPES
    AttrsMap,      \* ATTRS_MAP: kind |-> <<remaining-pages key, counter key>>
    Uptime,        \* ATTR_UPTIME, the kind whose value is a datetime
    Readings,      \* the values coordinator.data can take
    Unavailable    \* the state the hub writes while the last poll failed

\* The printer reports the same keys on every poll; ATTRS_MAP names kinds of
\* SENSOR_TYPES and keys the printer reports.
ASSUME ReadingsAssumption ==
    /\ DOMAIN AttrsMap \subseteq SensorTypes
    /\ \A r, q \in Readings : DOMAIN r = DOMAIN q
    /\ \A r \in Readings, k \in DOMAIN AttrsMap :
          {AttrsMap[k][1], AttrsMap[k][2]} \subseteq DOMAIN r

\* An attributes dict: a function over the attribute names it holds.
NoAttrs == [a \in {} |-> a]

\* datetime.isoformat(): one string per point in time.
IsoFormat(t) == [iso |-> t]

\* The state property (lines 60-65).
StateOf(k, d) == IF k = Uptime THEN IsoFormat(d[k]) ELSE d[k]

\* A mutant for the mutation runs: _attrs filled on the first read only.
NewAttrsOnce(k, d, old) ==
    IF k \in DOMAIN AttrsMap /\ old = NoAttrs
    THEN [a \in {"remaining_pages", "counter"} |->
             IF a = "remaining_pages" THEN d[AttrsMap[k][1]] ELSE d[AttrsMap[k][2]]]
    ELSE old

\* extra_state_attributes (lines 74-83): self._attrs after the read.
NewAttrs(k, d, old) ==
    IF k \in DOMAIN AttrsMap
    THEN [a \in {"remaining_pages", "counter"} |->
             IF a = "remaining_pages" THEN d[AttrsMap[k][1]] ELSE d[AttrsMap[k][2]]]
    ELSE old

VARIABLES
    data,      \* coordinator.data
    ok,        \* coordinator.last_update_success
    added,     \* async_setup_entry has run
    entities,  \* the kinds a sensor was created for
    attrs,     \* attrs[k]: the _attrs dict of the sensor of kind k
    shown      \* shown[k]: the state the hub holds for the sensor of kind k

vars == <<data, ok, added, entities, attrs, shown>>

\* async_write_ha_state of the sensor of kind k, its _attrs being a.
Written(k, a) ==
    IF ok' THEN [state |-> StateOf(k, data'), attrs |-> a] ELSE Unavailable

\* Every sensor in es reads its attributes, then the hub writes them all.
WriteAll(es) ==
    /\ attrs' = [k \in DOMAIN attrs |->
                    IF k \in es /\ ok' THEN NewAttrs(k, data', attrs[k]) ELSE attrs[k]]
    /\ shown' = [k \in es |-> Written(k, attrs'[k])]

\* The entry's setup awaited the first poll before the platform is set up.
Init ==
    /\ data \in Readings
    /\ ok = TRUE
    /\ added = FALSE
    /\ entities = {}
    /\ attrs = [k \in SensorTypes |-> NoAttrs]
    /\ shown = [k \in {} |-> Unavailable]

\* async_setup_entry (lines 23-40): a sensor per kind the data has, added
\* with update_before_add False, so written from the data as it is.
SetupEntry ==
    /\ ~added
    /\ added' = TRUE
    /\ entities' = {k \in SensorTypes : k \in DOMAIN data}
    /\ UNCHANGED <<data, ok>>
    /\ WriteAll(entities')

\* The coordinator polls the printer and notifies the sensors.
Poll(d) ==
    /\ data' = d
    /\ ok' = TRUE
    /\ WriteAll(entities)
    /\ UNCHANGED <<added, entities>>

\* The poll fails: the coordinator keeps its data, the sensors are
\* written unavailable.
PollFailed ==
    /\ ok' = FALSE
    /\ UNCHANGED <<data, added, entities>>
    /\ WriteAll(entities)

Next ==
    \/ SetupEntry
    \/ \E d \in Readings : Poll(d)
    \/ PollFailed

Spec == Init /\ [][Next]_vars

-----------------------------------------------------------------------------
\* Whatever sequence of polls, failed polls and the platform's setup, each
\* sensor the hub shows holds the printer's value from the last poll and,
\* for the drum and toner kinds, the remaining pages and counter of that
\* same poll, although _attrs is a dict the sensor keeps between reads;
\* while the last poll failed it shows unavailable.
ShownMatchesData ==
    \A k \in entities :
        shown[k] =
            IF ~ok THEN Unavailable
            ELSE [state |-> StateOf(k, data),
                  attrs |-> IF k \in DOMAIN AttrsMap
                            THEN [remaining_pages |-> data[AttrsMap[k][1]],
                                  counter |-> data[AttrsMap[k][2]]]
                            ELSE NoAttrs]
====
