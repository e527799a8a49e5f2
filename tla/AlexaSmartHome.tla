--------------------------- MODULE AlexaSmartHome ---------------------------
(***************************************************************************)
(* The directive dispatcher of the voice-assistant smart-home bridge       *)
(* (homeassistant.components.alexa.smart_home).  Its implementation is not *)
(* part of src/: only its test, src/tests/components/alexa/                *)
(* test_smart_home.py, is.  Every definition here is therefore modelled    *)
(* from spec.md sections 4.1 to 4.4, 5 and 7, with the values the tests pin *)
(* (the fan percentage buckets, the range indices, the arm check).         *)
(*                                                                         *)
(* Several dispatch calls run concurrently against one hub state store.    *)
(* A call reads the store when it resolves its directive (Receive), issues *)
(* at most one service call, is suspended while the hub runs it            *)
(* (ServiceRun) and answers afterwards (Respond); the hub's own devices    *)
(* and the hub's configuration change in between.                          *)
(***************************************************************************)
EXTENDS Integers, Sequences, FiniteSets

CONSTANTS
    Entities,         \* the hub's entity ids
    Domain,           \* Domain[e]: the domain part of entity id e
    Exposed,          \* the entities the include/exclude filter passes
    NeverExposed,     \* the fixed never-expose list
    CodeArmRequired,  \* alarm panels that declare code_arm_required
    Handlers,         \* concurrent dispatch calls, one directive each
    Directives,       \* the directives a caller may send
    CoverPositions,   \* cover positions the hub's devices may report
    Dynamic,          \* entities whose devices change state on their own
    Volatile,         \* entities that may leave and rejoin the store
    NoEndpoint, NoCall, NoDirective   \* "absent"

Domains == {"switch", "fan", "cover", "alarm_control_panel", "sensor"}

\* The fans' speed_list is ["low", "medium", "high"]; "off" is a speed too.
SpeedList == <<"low", "medium", "high">>
Speeds == {"off", "low", "medium", "high"}
PanelStates == {"disarmed", "armed_away", "armed_home", "armed_night"}

\* The values the store keeps for an entity of each domain.
StateSpace(d) ==
    CASE d = "switch"              -> {"on", "off"}
      [] d = "fan"                 -> Speeds
      [] d = "cover"               -> 0..100
      [] d = "alarm_control_panel" -> PanelStates
      [] d = "sensor"              -> {"unknown_unit"}

\* Capability registry (spec 4.1), for the attribute sets of the tests:
\* fans are speed-capable, covers position-capable, sensors have a unit no
\* quantity maps (test_unknown_sensor).  EndpointHealth is left out: every
\* endpoint has it and no directive targets it.
Capabilities(d) ==
    CASE d = "switch" -> {"Alexa.PowerController"}
      [] d = "fan"    -> {"Alexa.PowerController", "Alexa.PercentageController",
                          "Alexa.PowerLevelController", "Alexa.RangeController"}
      [] d = "cover"  -> {"Alexa.PowerController", "Alexa.PercentageController"}
      [] d = "alarm_control_panel" -> {"Alexa.SecurityPanelController"}
      [] d = "sensor" -> {}

\* The (namespace, name) pairs a handler is registered for.
HandledDirectives ==
    {<<"Alexa.PowerController", "TurnOn">>, <<"Alexa.PowerController", "TurnOff">>,
     <<"Alexa.PercentageController", "SetPercentage">>,
     <<"Alexa.PercentageController", "AdjustPercentage">>,
     <<"Alexa.RangeController", "SetRangeValue">>,
     <<"Alexa.RangeController", "AdjustRangeValue">>,
     <<"Alexa.SecurityPanelController", "Arm">>,
     <<"Alexa.SecurityPanelController", "Disarm">>}

\* Errors detected before any service call (spec 7: no partial effects).
ValidationErrors ==
    {"BRIDGE_UNREACHABLE", "NO_SUCH_ENDPOINT", "INTERNAL_ERROR",
     "INVALID_DIRECTIVE", "AUTHORIZATION_REQUIRED", "VALUE_OUT_OF_RANGE"}

Directive ==
    [ns: STRING, name: STRING, ep: Entities \cup {NoEndpoint},
     amount: Int, armState: STRING, version: STRING]

ASSUME DomainAssumption == Domain \in [Entities -> Domains]
ASSUME FilterAssumption ==
    Exposed \subseteq Entities /\ NeverExposed \subseteq Entities
    /\ CodeArmRequired \subseteq Entities
ASSUME DirectiveAssumption ==
    /\ Directives \subseteq Directive
    /\ \A d \in Directives :
         <<d.ns, d.name>> \in HandledDirectives => d.ep # NoEndpoint
ASSUME CoverAssumption == CoverPositions \subseteq 0..100
ASSUME EnvironmentAssumption == Dynamic \subseteq Entities /\ Volatile \subseteq Entities
ASSUME HandlersAssumption == Handlers # {}

-----------------------------------------------------------------------------
(***************************************************************************)
(* Property mapper: percentage and range arithmetic for fans (spec 4.3,    *)
(* pinned by test_variable_fan, test_fan_range and test_fan_range_off).    *)
(***************************************************************************)
PercentageOfSpeed(s) ==
    CASE s = "off" -> 0 [] s = "low" -> 33 [] s = "medium" -> 66 [] s = "high" -> 100

\* A percentage above 100 falls through every bucket to "off"
\* (test_variable_fan: "high" adjusted by +5 sets "off").
\* 0 is the domain minimum, which spec 4.3 maps to "off".
SpeedOfPercentageLowAt32(p) ==
    CASE p <= 0 -> "off" [] p \in 1..32 -> "low" [] p \in 33..66 -> "medium"
      [] p \in 67..100 -> "high" [] p > 100 -> "off"

SpeedOfPercentage(p) ==
    CASE p <= 0 -> "off" [] p \in 1..33 -> "low" [] p \in 34..66 -> "medium"
      [] p \in 67..100 -> "high" [] p > 100 -> "off"

RangeOfSpeed(s) == CASE s = "off" -> 0 [] s = "low" -> 1
                     [] s = "medium" -> 2 [] s = "high" -> 3

SpeedOfRange(r) == IF r = 0 THEN "off" ELSE SpeedList[r]

ClampRange(r) ==
    IF r < 0 THEN 0 ELSE IF r > Len(SpeedList) THEN Len(SpeedList) ELSE r

ClampPercentNoMin(p) == IF p > 100 THEN 100 ELSE p

ClampPercent(p) == IF p < 0 THEN 0 ELSE IF p > 100 THEN 100 ELSE p

-----------------------------------------------------------------------------
(***************************************************************************)
(* Discovery (spec 4.2) and the exposure filter (spec 3): the never-expose *)
(* list wins over the filter, panels requiring a fixed arming code and     *)
(* entities without a capability are left out.                             *)
(***************************************************************************)
Discoverable(e) ==
    /\ e \in Exposed \ NeverExposed
    /\ Capabilities(Domain[e]) # {}
    /\ ~(Domain[e] = "alarm_control_panel" /\ e \in CodeArmRequired)

-----------------------------------------------------------------------------
(***************************************************************************)
(* Directive handlers (spec 4.3 step 6).  PlannedCall(d, v) is the one     *)
(* service call the handler of d issues when the store holds v for the     *)
(* target entity: the service, the target and the value it sets, which is *)
(* also the value the response reports.                                    *)
(***************************************************************************)
Call(svc, e, val) == [svc |-> svc, ent |-> e, val |-> val]

PowerCall(d) ==
    LET e == d.ep
        on == d.name = "TurnOn"
    IN CASE Domain[e] = "switch" ->
              Call(IF on THEN "switch.turn_on" ELSE "switch.turn_off", e,
                   IF on THEN "on" ELSE "off")
         [] Domain[e] = "fan" ->
              IF on THEN Call("fan.turn_on", e, "on") ELSE Call("fan.turn_off", e, "off")
         [] Domain[e] = "cover" ->
              IF on THEN Call("cover.open_cover", e, 100)
                    ELSE Call("cover.close_cover", e, 0)

\* A fan speed reached through the RangeController: 0 turns the fan off.
RangeCall(e, r) ==
    IF r = 0 THEN Call("fan.turn_off", e, "off")
             ELSE Call("fan.set_speed", e, SpeedOfRange(r))

PercentageCall(d, v) ==
    LET e == d.ep
        target == IF d.name = "SetPercentage" THEN d.amount
                  ELSE IF Domain[e] = "fan" THEN PercentageOfSpeed(v) + d.amount
                  ELSE v + d.amount
    IN IF Domain[e] = "fan"
       THEN Call("fan.set_speed", e, SpeedOfPercentage(IF target < 0 THEN 0 ELSE target))
       ELSE Call("cover.set_cover_position", e, ClampPercent(target))

ArmService == [s \in {"ARMED_STAY", "ARMED_AWAY", "ARMED_NIGHT"} |->
                 CASE s = "ARMED_STAY"  -> <<"alarm_control_panel.alarm_arm_home", "armed_home">>
                   [] s = "ARMED_AWAY"  -> <<"alarm_control_panel.alarm_arm_away", "armed_away">>
                   [] s = "ARMED_NIGHT" -> <<"alarm_control_panel.alarm_arm_night", "armed_night">>]

PlannedCall(d, v) ==
    CASE d.ns = "Alexa.PowerController" -> PowerCall(d)
      [] d.ns = "Alexa.PercentageController" -> PercentageCall(d, v)
      [] d.ns = "Alexa.RangeController" ->
           RangeCall(d.ep, IF d.name = "SetRangeValue" THEN d.amount
                           ELSE ClampRange(RangeOfSpeed(v) + d.amount))
      [] d.ns = "Alexa.SecurityPanelController" /\ d.name = "Arm" ->
           Call(ArmService[d.armState][1], d.ep, ArmService[d.armState][2])
      [] d.ns = "Alexa.SecurityPanelController" /\ d.name = "Disarm" ->
           Call("alarm_control_panel.alarm_disarm", d.ep, "disarmed")

\* The values the hub may store once it has run call c.  Turning a fan on
\* without a speed leaves the choice of speed to the fan's platform.
Effects(c) == IF c.svc = "fan.turn_on" THEN {"low", "medium", "high"} ELSE {c.val}

-----------------------------------------------------------------------------
VARIABLES
    hub,       \* hub[e]: the state the store keeps for entity e
    present,   \* the entities the store currently knows
    enabled,   \* the bridge's global enable flag
    pc,        \* pc[h]: where dispatch call h is
    req,       \* req[h]: the directive call h handles
    seen,      \* seen[h]: the target's state call h read when it resolved
    call,      \* call[h]: the service call h issued, or NoCall
    resp,      \* resp[h]: the envelope h returned, or NoResponse
    fired      \* fired[h]: how many smart-home events h fired

vars == <<hub, present, enabled, pc, req, seen, call, resp, fired>>


Envelope(name, ns, err, ctx, eps) ==
    [name |-> name, ns |-> ns, err |-> err, ctx |-> ctx, endpoints |-> eps]

CoverEntities == {e \in Entities : Domain[e] = "cover"}

ErrorEnvelope(err) == Envelope("ErrorResponse", "Alexa", err, "none", {})

\* No envelope returned yet: an envelope no dispatcher returns.
NoResponse == Envelope("none", "none", "none", "none", {})

\* Spec 4.3 step 6: the handler validates the payload before its service
\* call: a range value is an index of the speed list or 0, an arm state is
\* one the panel can be armed to.
PayloadValid(d) ==
    /\ d.name = "SetRangeValue" => d.amount \in 0..Len(SpeedList)
    /\ d.name = "Arm" => d.armState \in DOMAIN ArmService

\* The first check of spec 4.3 steps 2 and 4 to 6 that directive d fails in
\* the current state, or "none"; the version check of step 1 raises instead.
\* The payload is validated after the panel's state is checked.
DispatchError(d) ==
    IF ~enabled /\ d.ns # "Alexa.Discovery" THEN "BRIDGE_UNREACHABLE"
    ELSE IF d.ns \in {"Alexa.Discovery", "Alexa.Authorization"} THEN "none"
    ELSE IF d.ep # NoEndpoint /\ d.ep \notin present THEN "NO_SUCH_ENDPOINT"
    ELSE IF <<d.ns, d.name>> \notin HandledDirectives THEN "INTERNAL_ERROR"
    ELSE IF d.ns \notin Capabilities(Domain[d.ep]) THEN "INVALID_DIRECTIVE"
    ELSE IF d.ns = "Alexa.SecurityPanelController" /\ d.name = "Arm"
            /\ hub[d.ep] # "disarmed" THEN "AUTHORIZATION_REQUIRED"
    ELSE IF ~PayloadValid(d) THEN "VALUE_OUT_OF_RANGE"
    ELSE "none"

Init ==
    /\ \E pos \in [CoverEntities -> CoverPositions],
          st \in [Entities \ CoverEntities ->
                    UNION {StateSpace(x) : x \in Domains \ {"cover"}}] :
          /\ \A e \in Entities \ CoverEntities : st[e] \in StateSpace(Domain[e])
          /\ hub = [e \in Entities |-> IF e \in CoverEntities THEN pos[e] ELSE st[e]]
    /\ present = Entities
    /\ enabled = TRUE
    /\ pc = [h \in Handlers |-> "idle"]
    /\ req = [h \in Handlers |-> NoDirective]
    /\ seen = [h \in Handlers |-> "none"]
    /\ call = [h \in Handlers |-> NoCall]
    /\ resp = [h \in Handlers |-> NoResponse]
    /\ fired = [h \in Handlers |-> 0]

\* Step 1: a payload version other than "3" raises out of the dispatcher;
\* no envelope and no event.
ReceiveWrongVersion(h, d) ==
    /\ pc[h] = "idle" /\ d.version # "3"
    /\ pc' = [pc EXCEPT ![h] = "raised"]
    /\ req' = [req EXCEPT ![h] = d]
    /\ UNCHANGED <<hub, present, enabled, seen, call, resp, fired>>

ReceiveRejectedNoEvent(h, d) ==
    /\ pc[h] = "idle" /\ d.version = "3"
    /\ DispatchError(d) # "none"
    /\ pc' = [pc EXCEPT ![h] = "done"]
    /\ req' = [req EXCEPT ![h] = d]
    /\ resp' = [resp EXCEPT ![h] = ErrorEnvelope(DispatchError(d))]
    /\ UNCHANGED <<hub, present, enabled, seen, call, fired>>

\* A directive that fails a check is answered at once with a typed error.
ReceiveRejected(h, d) ==
    /\ pc[h] = "idle" /\ d.version = "3"
    /\ DispatchError(d) # "none"
    /\ pc' = [pc EXCEPT ![h] = "done"]
    /\ req' = [req EXCEPT ![h] = d]
    /\ resp' = [resp EXCEPT ![h] = ErrorEnvelope(DispatchError(d))]
    /\ fired' = [fired EXCEPT ![h] = @ + 1]
    /\ UNCHANGED <<hub, present, enabled, seen, call>>

\* Discovery walks a snapshot of the store; AcceptGrant is acknowledged.
ReceiveDiscovery(h, d) ==
    /\ pc[h] = "idle" /\ d.version = "3"
    /\ d.ns \in {"Alexa.Discovery", "Alexa.Authorization"}
    /\ DispatchError(d) = "none"
    /\ pc' = [pc EXCEPT ![h] = "done"]
    /\ req' = [req EXCEPT ![h] = d]
    /\ resp' = [resp EXCEPT ![h] =
          IF d.ns = "Alexa.Discovery"
          THEN Envelope("Discover.Response", "Alexa.Discovery", "none", "none",
                        {e \in present : Discoverable(e)})
          ELSE Envelope("AcceptGrant.Response", "Alexa.Authorization", "none",
                        "none", {})]
    /\ fired' = [fired EXCEPT ![h] = @ + 1]
    /\ UNCHANGED <<hub, present, enabled, seen, call>>

\* A valid control directive issues its one service call and suspends.
ReceiveExecute(h, d) ==
    /\ pc[h] = "idle" /\ d.version = "3"
    /\ d.ns \notin {"Alexa.Discovery", "Alexa.Authorization"}
    /\ DispatchError(d) = "none"
    /\ pc' = [pc EXCEPT ![h] = "calling"]
    /\ req' = [req EXCEPT ![h] = d]
    /\ seen' = [seen EXCEPT ![h] = hub[d.ep]]
    /\ call' = [call EXCEPT ![h] = PlannedCall(d, hub[d.ep])]
    /\ UNCHANGED <<hub, present, enabled, resp, fired>>

\* The hub runs the service; a call for an entity that has meanwhile left
\* the store matches no entity and changes nothing.
ServiceRun(h) ==
    /\ pc[h] = "calling"
    /\ pc' = [pc EXCEPT ![h] = "called"]
    /\ \/ /\ call[h].ent \in present
          /\ \E v \in Effects(call[h]) : hub' = [hub EXCEPT ![call[h].ent] = v]
       \/ /\ call[h].ent \notin present
          /\ UNCHANGED hub
    /\ UNCHANGED <<present, enabled, req, seen, call, resp, fired>>

\* The service raises: spec 7 maps it to INTERNAL_ERROR.
ServiceFail(h) ==
    /\ pc[h] = "calling"
    /\ pc' = [pc EXCEPT ![h] = "done"]
    /\ resp' = [resp EXCEPT ![h] = ErrorEnvelope("INTERNAL_ERROR")]
    /\ fired' = [fired EXCEPT ![h] = @ + 1]
    /\ UNCHANGED <<hub, present, enabled, req, seen, call>>

RespondNoEvent(h) ==
    /\ pc[h] = "called"
    /\ pc' = [pc EXCEPT ![h] = "done"]
    /\ resp' = [resp EXCEPT ![h] =
          Envelope(IF req[h].name = "Arm" THEN "Arm.Response" ELSE "Response",
                   "Alexa", "none", call[h].val, {})]
    /\ UNCHANGED <<hub, present, enabled, req, seen, call, fired>>

\* The suspended handler resumes and reports the value its call set.
Respond(h) ==
    /\ pc[h] = "called"
    /\ pc' = [pc EXCEPT ![h] = "done"]
    /\ resp' = [resp EXCEPT ![h] =
          Envelope(IF req[h].name = "Arm" THEN "Arm.Response" ELSE "Response",
                   "Alexa", "none", call[h].val, {})]
    /\ fired' = [fired EXCEPT ![h] = @ + 1]
    /\ UNCHANGED <<hub, present, enabled, req, seen, call>>

-----------------------------------------------------------------------------
(* The hub's environment: devices change state, entities come and go, the  *)
(* bridge is reconfigured.                                                 *)
DeviceChange(e, v) ==
    /\ e \in present
    /\ hub' = [hub EXCEPT ![e] = v]
    /\ UNCHANGED <<present, enabled, pc, req, seen, call, resp, fired>>

EntityRemoved(e) ==
    /\ e \in present
    /\ present' = present \ {e}
    /\ UNCHANGED <<hub, enabled, pc, req, seen, call, resp, fired>>

EntityAdded(e) ==
    /\ e \notin present
    /\ present' = present \cup {e}
    /\ UNCHANGED <<hub, enabled, pc, req, seen, call, resp, fired>>

Reconfigure ==
    /\ enabled' = ~enabled
    /\ UNCHANGED <<hub, present, pc, req, seen, call, resp, fired>>

DeviceValues(e) == IF Domain[e] = "cover" THEN CoverPositions ELSE StateSpace(Domain[e])

Environment ==
    \/ \E e \in Dynamic : \E v \in DeviceValues(e) : DeviceChange(e, v)
    \/ \E e \in Volatile : EntityRemoved(e) \/ EntityAdded(e)
    \/ Reconfigure

Dispatcher(h) ==
    \/ \E d \in Directives :
          \/ ReceiveWrongVersion(h, d) \/ ReceiveRejected(h, d)
          \/ ReceiveDiscovery(h, d) \/ ReceiveExecute(h, d)
    \/ ServiceRun(h) \/ ServiceFail(h) \/ Respond(h)

Next == (\E h \in Handlers : Dispatcher(h)) \/ Environment

\* The event loop resumes every suspended handler and the hub completes
\* every service call it was given; the environment needs no fairness.
Fairness == \A h \in Handlers :
               /\ WF_vars(ServiceRun(h) \/ ServiceFail(h))
               /\ WF_vars(Respond(h))

Spec == Init /\ [][Next]_vars /\ Fairness

-----------------------------------------------------------------------------
(***************************************************************************)
(* Properties                                                              *)
(***************************************************************************)
Values == UNION {StateSpace(x) : x \in Domains}

\* The hub services the handlers of spec 4.3 step 6 call.
Services ==
    {"switch.turn_on", "switch.turn_off", "fan.turn_on", "fan.turn_off",
     "fan.set_speed", "cover.open_cover", "cover.close_cover",
     "cover.set_cover_position", "alarm_control_panel.alarm_arm_home",
     "alarm_control_panel.alarm_arm_away", "alarm_control_panel.alarm_arm_night",
     "alarm_control_panel.alarm_disarm"}

\* Type invariant.
TypeOK ==
    /\ \A e \in Entities : hub[e] \in StateSpace(Domain[e])
    /\ present \subseteq Entities
    /\ enabled \in BOOLEAN
    /\ pc \in [Handlers -> {"idle", "calling", "called", "done", "raised"}]
    /\ \A h \in Handlers :
         /\ req[h] \in Directives \cup {NoDirective}
         /\ call[h] = NoCall \/ (call[h].ent \in Entities /\ call[h].svc \in Services)
         /\ resp[h] = NoResponse
            \/ (resp[h].err \in ValidationErrors \cup {"none"}
                /\ resp[h].endpoints \subseteq Entities)
         /\ fired[h] \in Nat

\* Spec 4.3 step 7 and 7: every handled directive gets exactly one envelope
\* and fires exactly one event, a directive of the wrong version neither,
\* and a call still in flight has answered nothing yet.
EnvelopeAccounting ==
    \A h \in Handlers :
       /\ pc[h] = "done" => resp[h] # NoResponse /\ fired[h] = 1
       /\ pc[h] # "done" => resp[h] = NoResponse /\ fired[h] = 0

\* Spec 8: an adjustment by a zero delta sets the value the handler read
\* (fan speed through either controller, cover position).
ZeroDeltaIdempotent ==
    \A h \in Handlers :
       call[h] # NoCall /\ req[h].name \in {"AdjustPercentage", "AdjustRangeValue"}
       /\ req[h].amount = 0 => call[h].val = seen[h]

-----------------------------------------------------------------------------
(* Properties the spec states that the modelled behaviour violates; each   *)
(* is checked by a run of its own that expects the violation.              *)

\* Spec 3: the never-expose list "always wins": no directive controls an
\* entity on it.  Endpoint resolution (spec 4.3 step 4) only asks whether
\* the entity exists.
NeverExposedUntouched ==
    \A h \in Handlers : call[h] # NoCall => call[h].ent \notin NeverExposed

\* Spec 4.3: an adjustment computes clamp(current + delta, min, max), so a
\* positive delta never lowers a fan's speed.  The test pins "high" + 5 to
\* "off" (test_variable_fan).
PositiveDeltaNeverSlows ==
    \A h \in Handlers :
       call[h] # NoCall /\ req[h].name = "AdjustPercentage"
       /\ Domain[req[h].ep] = "fan" /\ req[h].amount > 0
          => PercentageOfSpeed(call[h].val) >= PercentageOfSpeed(seen[h])
====
