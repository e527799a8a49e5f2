------------------------- MODULE AlexaHandlersProofs -------------------------
(***************************************************************************)
(* Proofs about the directive handlers' service calls and their           *)
(* arithmetic, for every set of entities, directives and concurrent calls. *)
(*                                                                         *)
(* TypeOK and ZeroDeltaIdempotent are about the call a                  *)
(* handler issued, which ReceiveExecute computes from the directive and    *)
(* the state it read; ServiceRun later stores one of the call's effects.   *)
(* None of them is inductive: the strengthening CallPlanned records that a *)
(* call in flight or answered is exactly PlannedCall of its directive and  *)
(* of the state read, and that the directive passed every check.           *)
(***************************************************************************)
EXTENDS AlexaSmartHomeProofs

\* A directive that passes the checks of spec 4.3 steps 4 to 6 whatever the
\* store holds (the arm check aside, which only the panel's state decides).
Executable(d) ==
    /\ d \in Directives
    /\ d.ep \in Entities
    /\ <<d.ns, d.name>> \in HandledDirectives
    /\ d.ns \in Capabilities(Domain[d.ep])
    /\ PayloadValid(d)

\* A call issued is the one its handler planned from what it read.
CallPlanned ==
    \A h \in Handlers :
       pc[h] \in {"calling", "called"} \/ call[h] # NoCall =>
          /\ Executable(req[h])
          /\ seen[h] \in StateSpace(Domain[req[h].ep])
          /\ call[h] = PlannedCall(req[h], seen[h])

HInv == IInv /\ TypeOK /\ CallPlanned

-----------------------------------------------------------------------------
(* The CASE operators of the model, each at the arguments it is used at.   *)
(* Their arms are disjoint, so each value is the one of its own arm.       *)

LEMMA SpeedOfPercentageForm ==
    ASSUME NEW p \in Int
    PROVE  SpeedOfPercentage(p) =
              IF p <= 0 \/ p > 100 THEN "off"
              ELSE IF p <= 33 THEN "low" ELSE IF p <= 66 THEN "medium" ELSE "high"
<1>1. CASE p <= 0
    <2>1. ~(p \in 1..33) /\ ~(p \in 34..66) /\ ~(p \in 67..100) /\ ~(p > 100)
        BY <1>1
    <2> QED
        BY <1>1, <2>1, Zenon DEF SpeedOfPercentage
<1>2. CASE p \in 1..33
    <2>1. ~(p <= 0) /\ ~(p \in 34..66) /\ ~(p \in 67..100) /\ ~(p > 100) /\ p <= 33
        BY <1>2
    <2> QED
        BY <1>2, <2>1, Zenon DEF SpeedOfPercentage
<1>3. CASE p \in 34..66
    <2>1. ~(p <= 0) /\ ~(p \in 1..33) /\ ~(p \in 67..100) /\ ~(p > 100)
          /\ ~(p <= 33) /\ p <= 66
        BY <1>3
    <2> QED
        BY <1>3, <2>1, Zenon DEF SpeedOfPercentage
<1>4. CASE p \in 67..100
    <2>1. ~(p <= 0) /\ ~(p \in 1..33) /\ ~(p \in 34..66) /\ ~(p > 100)
          /\ ~(p <= 33) /\ ~(p <= 66)
        BY <1>4
    <2> QED
        BY <1>4, <2>1, Zenon DEF SpeedOfPercentage
<1>5. CASE p > 100
    <2>1. ~(p <= 0) /\ ~(p \in 1..33) /\ ~(p \in 34..66) /\ ~(p \in 67..100)
        BY <1>5
    <2> QED
        BY <1>5, <2>1, Zenon DEF SpeedOfPercentage
<1> QED
    BY <1>1, <1>2, <1>3, <1>4, <1>5

LEMMA SpeedValues ==
    /\ PercentageOfSpeed("off") = 0 /\ PercentageOfSpeed("low") = 33
    /\ PercentageOfSpeed("medium") = 66 /\ PercentageOfSpeed("high") = 100
    /\ RangeOfSpeed("off") = 0 /\ RangeOfSpeed("low") = 1
    /\ RangeOfSpeed("medium") = 2 /\ RangeOfSpeed("high") = 3
    /\ Len(SpeedList) = 3
    /\ SpeedList[1] = "low" /\ SpeedList[2] = "medium" /\ SpeedList[3] = "high"
<1>1. /\ PercentageOfSpeed("off") = 0 /\ PercentageOfSpeed("low") = 33
      /\ PercentageOfSpeed("medium") = 66 /\ PercentageOfSpeed("high") = 100
    BY Zenon DEF PercentageOfSpeed
<1>2. /\ RangeOfSpeed("off") = 0 /\ RangeOfSpeed("low") = 1
      /\ RangeOfSpeed("medium") = 2 /\ RangeOfSpeed("high") = 3
    BY Zenon DEF RangeOfSpeed
<1>3. Len(SpeedList) = 3
      /\ SpeedList[1] = "low" /\ SpeedList[2] = "medium" /\ SpeedList[3] = "high"
    BY DEF SpeedList
<1> QED
    BY <1>1, <1>2, <1>3

LEMMA DomainValues ==
    /\ StateSpace("switch") = {"on", "off"} /\ StateSpace("fan") = Speeds
    /\ StateSpace("cover") = 0..100 /\ StateSpace("alarm_control_panel") = PanelStates
    /\ StateSpace("sensor") = {"unknown_unit"}
    /\ Capabilities("switch") = {"Alexa.PowerController"}
    /\ Capabilities("fan") = {"Alexa.PowerController", "Alexa.PercentageController",
                              "Alexa.PowerLevelController", "Alexa.RangeController"}
    /\ Capabilities("cover") = {"Alexa.PowerController", "Alexa.PercentageController"}
    /\ Capabilities("alarm_control_panel") = {"Alexa.SecurityPanelController"}
    /\ Capabilities("sensor") = {}
BY Zenon DEF StateSpace, Capabilities

LEMMA ArmServiceValues ==
    /\ DOMAIN ArmService = {"ARMED_STAY", "ARMED_AWAY", "ARMED_NIGHT"}
    /\ ArmService["ARMED_STAY"] = <<"alarm_control_panel.alarm_arm_home", "armed_home">>
    /\ ArmService["ARMED_AWAY"] = <<"alarm_control_panel.alarm_arm_away", "armed_away">>
    /\ ArmService["ARMED_NIGHT"] = <<"alarm_control_panel.alarm_arm_night", "armed_night">>
BY Zenon DEF ArmService

-----------------------------------------------------------------------------
(* What the call a handler plans is, for a directive that passed the       *)
(* checks and a state the store can hold: it targets the directive's       *)
(* entity, every effect it can have is a state that entity can hold, a     *)
(* zero delta reproduces the state read, and a range value of 0, and only  *)
(* that, turns the fan off.                                                *)
PlannedCallSound(d, v) ==
    LET c == PlannedCall(d, v) IN
    /\ c.ent = d.ep /\ c.svc \in Services
    /\ Effects(c) \subseteq StateSpace(Domain[d.ep])
    /\ d.name \in {"AdjustPercentage", "AdjustRangeValue"} /\ d.amount = 0 => c.val = v
    /\ d.ns = "Alexa.RangeController" => (c.val = "off" <=> c.svc = "fan.turn_off")

\* Facts every case needs: the directive's fields and the entity's domain.
LEMMA ExecutableFacts ==
    ASSUME NEW d, Executable(d)
    PROVE  /\ d.amount \in Int /\ d.ep \in Entities
           /\ Domain[d.ep] \in Domains
           /\ d.ns \in Capabilities(Domain[d.ep])
           /\ <<d.ns, d.name>> \in HandledDirectives
<1>1. d \in Directive
    BY DirectiveAssumption DEF Executable
<1> QED
    BY <1>1, DomainAssumption DEF Executable, Directive

LEMMA PowerSound ==
    ASSUME NEW d, Executable(d), NEW v \in StateSpace(Domain[d.ep]),
           d.ns = "Alexa.PowerController"
    PROVE  PlannedCallSound(d, v)
<1> DEFINE dom == Domain[d.ep]
           on == d.name = "TurnOn"
<1>1. dom \in {"switch", "fan", "cover"} /\ d.name \in {"TurnOn", "TurnOff"}
    BY ExecutableFacts, DomainValues DEF Domains, HandledDirectives
<1>2. PlannedCall(d, v) = PowerCall(d)
    BY Zenon DEF PlannedCall
<1>3. CASE dom = "switch"
    <2>1. PowerCall(d) = Call(IF on THEN "switch.turn_on" ELSE "switch.turn_off", d.ep,
                              IF on THEN "on" ELSE "off")
        BY <1>3, Zenon DEF PowerCall
    <2> QED
        BY <1>1, <1>2, <1>3, <2>1, DomainValues DEF PlannedCallSound, Services, Call, Effects
<1>4. CASE dom = "fan"
    <2>1. PowerCall(d) = IF on THEN Call("fan.turn_on", d.ep, "on")
                               ELSE Call("fan.turn_off", d.ep, "off")
        BY <1>4, Zenon DEF PowerCall
    <2> QED
        BY <1>1, <1>2, <1>4, <2>1, DomainValues DEF PlannedCallSound, Services, Call, Effects, Speeds
<1>5. CASE dom = "cover"
    <2>1. PowerCall(d) = IF on THEN Call("cover.open_cover", d.ep, 100)
                               ELSE Call("cover.close_cover", d.ep, 0)
        BY <1>5, Zenon DEF PowerCall
    <2> QED
        BY <1>1, <1>2, <1>5, <2>1, DomainValues DEF PlannedCallSound, Services, Call, Effects
<1> QED
    BY <1>1, <1>3, <1>4, <1>5

LEMMA PanelSound ==
    ASSUME NEW d, Executable(d), NEW v \in StateSpace(Domain[d.ep]),
           d.ns = "Alexa.SecurityPanelController"
    PROVE  PlannedCallSound(d, v)
<1>1. Domain[d.ep] = "alarm_control_panel" /\ d.name \in {"Arm", "Disarm"}
    BY ExecutableFacts, DomainValues DEF Domains, HandledDirectives
<1>2. CASE d.name = "Arm"
    <2>1. d.armState \in DOMAIN ArmService
        BY <1>2 DEF Executable, PayloadValid
    <2>2. PlannedCall(d, v) = Call(ArmService[d.armState][1], d.ep, ArmService[d.armState][2])
        BY <1>2, Zenon DEF PlannedCall
    <2> QED
        BY <1>1, <1>2, <2>1, <2>2, ArmServiceValues, DomainValues
        DEF PlannedCallSound, Services, Call, Effects, PanelStates
<1>3. CASE d.name = "Disarm"
    <2>1. PlannedCall(d, v) = Call("alarm_control_panel.alarm_disarm", d.ep, "disarmed")
        BY <1>3, Zenon DEF PlannedCall
    <2> QED
        BY <1>1, <1>3, <2>1, DomainValues DEF PlannedCallSound, Services, Call, Effects, PanelStates
<1> QED
    BY <1>1, <1>2, <1>3

\* A fan's percentage maps back to its speed: the four bucket values 0, 33,
\* 66 and 100 lie in the buckets of the speeds they come from.
LEMMA PercentageRoundTrip ==
    ASSUME NEW v \in Speeds
    PROVE  /\ PercentageOfSpeed(v) \in 0..100
           /\ SpeedOfPercentage(PercentageOfSpeed(v)) = v
<1> DEFINE q == PercentageOfSpeed(v)
<1>1. q \in {0, 33, 66, 100} /\ (q = 0 <=> v = "off") /\ (q = 33 <=> v = "low")
      /\ (q = 66 <=> v = "medium") /\ (q = 100 <=> v = "high")
    BY SpeedValues DEF Speeds
<1>2. SpeedOfPercentage(q) =
         IF q <= 0 \/ q > 100 THEN "off"
         ELSE IF q <= 33 THEN "low" ELSE IF q <= 66 THEN "medium" ELSE "high"
    BY <1>1, SpeedOfPercentageForm
<1>3. q \in 0..100 /\ SpeedOfPercentage(q) = v
    <2> HIDE DEF q
    <2> QED
        BY <1>1, <1>2 DEF Speeds
<1> QED
    BY <1>3

LEMMA PercentageSound ==
    ASSUME NEW d, Executable(d), NEW v \in StateSpace(Domain[d.ep]),
           d.ns = "Alexa.PercentageController"
    PROVE  PlannedCallSound(d, v)
<1> DEFINE dom == Domain[d.ep]
<1>1. /\ dom \in {"fan", "cover"} /\ d.amount \in Int
      /\ d.name \in {"SetPercentage", "AdjustPercentage"}
    BY ExecutableFacts, DomainValues DEF Domains, HandledDirectives
<1>2. PlannedCall(d, v) = PercentageCall(d, v)
    BY Zenon DEF PlannedCall
<1>3. CASE dom = "fan"
    <2>1. v \in Speeds /\ PercentageOfSpeed(v) \in 0..100
        BY <1>3, DomainValues, PercentageRoundTrip
    <2> DEFINE target == IF d.name = "SetPercentage" THEN d.amount
                         ELSE PercentageOfSpeed(v) + d.amount
               q == IF target < 0 THEN 0 ELSE target
    <2>2. PercentageCall(d, v) = Call("fan.set_speed", d.ep, SpeedOfPercentage(q))
        BY <1>3 DEF PercentageCall
    <2>3. q \in Int
        BY <1>1, <2>1
    <2>4. SpeedOfPercentage(q) \in Speeds
        <3> HIDE DEF q
        <3> QED
            BY <2>3, SpeedOfPercentageForm DEF Speeds
    <2>5. d.name = "AdjustPercentage" /\ d.amount = 0 => SpeedOfPercentage(q) = v
        <3> SUFFICES ASSUME d.name = "AdjustPercentage", d.amount = 0
                     PROVE  SpeedOfPercentage(q) = v
            OBVIOUS
        <3>1. q = PercentageOfSpeed(v)
            BY <2>1
        <3> HIDE DEF q
        <3> QED
            BY <3>1, <2>1, PercentageRoundTrip
    <2> QED
        BY <1>1, <1>2, <1>3, <2>2, <2>4, <2>5, DomainValues
        DEF PlannedCallSound, Services, Call, Effects
<1>4. CASE dom = "cover"
    <2>1. v \in 0..100
        BY <1>4, DomainValues
    <2> DEFINE target == IF d.name = "SetPercentage" THEN d.amount ELSE v + d.amount
    <2>2. PercentageCall(d, v) = Call("cover.set_cover_position", d.ep, ClampPercent(target))
        BY <1>4 DEF PercentageCall
    <2>3. ClampPercent(target) \in 0..100
        BY <1>1, <2>1 DEF ClampPercent
    <2>4. d.name = "AdjustPercentage" /\ d.amount = 0 => ClampPercent(target) = v
        BY <1>1, <2>1 DEF ClampPercent
    <2> QED
        BY <1>1, <1>2, <1>4, <2>2, <2>3, <2>4, DomainValues
        DEF PlannedCallSound, Services, Call, Effects
<1> QED
    BY <1>1, <1>3, <1>4

LEMMA RangeSound ==
    ASSUME NEW d, Executable(d), NEW v \in StateSpace(Domain[d.ep]),
           d.ns = "Alexa.RangeController"
    PROVE  PlannedCallSound(d, v)
<1>1. /\ Domain[d.ep] = "fan" /\ d.amount \in Int
      /\ d.name \in {"SetRangeValue", "AdjustRangeValue"}
    BY ExecutableFacts, DomainValues DEF Domains, HandledDirectives
<1>2. v \in Speeds
    BY <1>1, DomainValues
<1>3. RangeOfSpeed(v) \in 0..3 /\ (RangeOfSpeed(v) = 0 <=> v = "off")
      /\ (v # "off" => SpeedList[RangeOfSpeed(v)] = v)
    BY <1>2, SpeedValues DEF Speeds
<1> DEFINE r == IF d.name = "SetRangeValue" THEN d.amount
                ELSE ClampRange(RangeOfSpeed(v) + d.amount)
<1>4. PlannedCall(d, v) = RangeCall(d.ep, r)
    BY Zenon DEF PlannedCall
<1>5. r \in 0..3
    <2>1. CASE d.name = "SetRangeValue"
        BY <2>1, SpeedValues DEF Executable, PayloadValid
    <2>2. CASE d.name = "AdjustRangeValue"
        BY <2>2, <1>1, <1>3, SpeedValues DEF ClampRange
    <2> QED
        BY <1>1, <2>1, <2>2
<1>6. d.name = "AdjustRangeValue" /\ d.amount = 0 => r = RangeOfSpeed(v)
    BY <1>3, SpeedValues DEF ClampRange
<1>7. CASE r = 0
    <2>1. RangeCall(d.ep, r) = Call("fan.turn_off", d.ep, "off")
        BY <1>7 DEF RangeCall
    <2> QED
        BY <1>1, <1>3, <1>4, <1>6, <1>7, <2>1, DomainValues
        DEF PlannedCallSound, Services, Call, Effects, Speeds
<1>8. CASE r # 0
    <2>1. RangeCall(d.ep, r) = Call("fan.set_speed", d.ep, SpeedList[r])
        BY <1>8 DEF RangeCall, SpeedOfRange
    <2>2. SpeedList[r] \in {"low", "medium", "high"}
        BY <1>5, <1>8, SpeedValues
    <2> QED
        BY <1>1, <1>3, <1>4, <1>6, <1>8, <2>1, <2>2, DomainValues
        DEF PlannedCallSound, Services, Call, Effects, Speeds
<1> QED
    BY <1>7, <1>8

\* Every call a handler can plan is sound.
LEMMA PlannedCallIsSound ==
    ASSUME NEW d, Executable(d), NEW v \in StateSpace(Domain[d.ep])
    PROVE  PlannedCallSound(d, v)
<1>1. d.ns \in {"Alexa.PowerController", "Alexa.PercentageController",
                "Alexa.RangeController", "Alexa.SecurityPanelController"}
    BY ExecutableFacts DEF HandledDirectives
<1> QED
    BY <1>1, PowerSound, PercentageSound, RangeSound, PanelSound

-----------------------------------------------------------------------------
\* The dispatcher answers with one of the typed errors, or "none".
LEMMA DispatchErrorRange ==
    ASSUME NEW d
    PROVE  DispatchError(d) \in ValidationErrors \cup {"none"}
BY DEF DispatchError, ValidationErrors

\* A control directive that fails no check of the dispatcher is executable.
LEMMA ExecuteChecks ==
    ASSUME NEW d \in Directives, DispatchError(d) = "none",
           d.ns \notin {"Alexa.Discovery", "Alexa.Authorization"}
    PROVE  Executable(d)
<1>1. <<d.ns, d.name>> \in HandledDirectives /\ d.ns \in Capabilities(Domain[d.ep])
      /\ PayloadValid(d)
    BY DEF DispatchError
<1>2. d.ep \in Entities
    <2>1. d \in Directive /\ d.ep # NoEndpoint
        BY <1>1, DirectiveAssumption
    <2> QED
        BY <2>1 DEF Directive
<1> QED
    BY <1>1, <1>2 DEF Executable

LEMMA InitHInv == Init => HInv
<1> SUFFICES ASSUME Init PROVE HInv
    OBVIOUS
<1>1. IInv
    BY InitIInv
<1>2. \A e \in Entities : hub[e] \in StateSpace(Domain[e])
    <2>1. PICK pos \in [CoverEntities -> CoverPositions],
               st \in [Entities \ CoverEntities ->
                         UNION {StateSpace(x) : x \in Domains \ {"cover"}}] :
               /\ \A e \in Entities \ CoverEntities : st[e] \in StateSpace(Domain[e])
               /\ hub = [e \in Entities |-> IF e \in CoverEntities THEN pos[e] ELSE st[e]]
        BY DEF Init
    <2> QED
        BY <2>1, CoverAssumption, DomainValues DEF CoverEntities
<1>3. TypeOK
    BY <1>2 DEF Init, TypeOK
<1>4. CallPlanned
    BY DEF Init, CallPlanned
<1> QED
    BY <1>1, <1>3, <1>4 DEF HInv

\* The hub's store keeps only states its entities can hold: ServiceRun
\* stores an effect of a sound call, DeviceChange a device value.
LEMMA HubTyped ==
    ASSUME HInv, [Next]_vars
    PROVE  \A e \in Entities : hub'[e] \in StateSpace(Domain[e])
<1> USE DEF HInv, TypeOK
<1>1. ASSUME NEW h \in Handlers, ServiceRun(h)
      PROVE \A e \in Entities : hub'[e] \in StateSpace(Domain[e])
    <2>1. CASE call[h].ent \in present
        <3>1. PICK v \in Effects(call[h]) : hub' = [hub EXCEPT ![call[h].ent] = v]
            BY <1>1, <2>1 DEF ServiceRun
        <3>2. /\ Executable(req[h])
              /\ seen[h] \in StateSpace(Domain[req[h].ep])
              /\ call[h] = PlannedCall(req[h], seen[h])
            BY <1>1 DEF ServiceRun, CallPlanned
        <3>3. call[h].ent = req[h].ep /\ v \in StateSpace(Domain[req[h].ep])
            BY <3>1, <3>2, PlannedCallIsSound DEF PlannedCallSound
        <3> QED
            BY <3>1, <3>3
    <2>2. CASE call[h].ent \notin present
        BY <1>1, <2>2 DEF ServiceRun
    <2> QED
        BY <2>1, <2>2
<1>2. ASSUME NEW e \in Dynamic, NEW v \in DeviceValues(e), DeviceChange(e, v)
      PROVE \A x \in Entities : hub'[x] \in StateSpace(Domain[x])
    <2>1. e \in Entities /\ v \in StateSpace(Domain[e])
        BY EnvironmentAssumption, CoverAssumption, DomainValues DEF DeviceValues
    <2> QED
        BY <1>2, <2>1 DEF DeviceChange
<1>3. CASE UNCHANGED hub
    BY <1>3
<1> QED
    BY <1>1, <1>2, <1>3
    DEF Next, Dispatcher, Environment, ReceiveWrongVersion, ReceiveRejected,
        ReceiveDiscovery, ReceiveExecute, ServiceFail, Respond, EntityRemoved,
        EntityAdded, Reconfigure, vars

\* The per-call part of TypeOK and CallPlanned for one call, after a step.
CallState(h) ==
    /\ req[h] \in Directives \cup {NoDirective}
    /\ call[h] = NoCall \/ (call[h].ent \in Entities /\ call[h].svc \in Services)
    /\ resp[h] = NoResponse
       \/ (resp[h].err \in ValidationErrors \cup {"none"}
           /\ resp[h].endpoints \subseteq Entities)
    /\ fired[h] \in Nat
    /\ pc[h] \in {"calling", "called"} \/ call[h] # NoCall =>
          /\ Executable(req[h])
          /\ seen[h] \in StateSpace(Domain[req[h].ep])
          /\ call[h] = PlannedCall(req[h], seen[h])

LEMMA NextHInv == HInv /\ [Next]_vars => HInv'
<1> SUFFICES ASSUME HInv, [Next]_vars PROVE HInv'
    OBVIOUS
<1>1. IInv'
    BY NextIInv DEF HInv
<1>2. \A e \in Entities : hub'[e] \in StateSpace(Domain[e])
    BY HubTyped
<1>3. present' \subseteq Entities /\ enabled' \in BOOLEAN
    <2>1. present \subseteq Entities /\ enabled \in BOOLEAN
        BY DEF HInv, TypeOK
    <2>2. CASE \E h \in Handlers : Dispatcher(h)
        <3>1. UNCHANGED <<present, enabled>>
            BY <2>2 DEF Dispatcher, ReceiveWrongVersion, ReceiveRejected,
                        ReceiveDiscovery, ReceiveExecute, ServiceRun, ServiceFail, Respond
        <3> QED
            BY <2>1, <3>1
    <2>3. ASSUME NEW e \in Dynamic, NEW v, DeviceChange(e, v)
          PROVE  present' \subseteq Entities /\ enabled' \in BOOLEAN
        BY <2>1, <2>3 DEF DeviceChange
    <2>4. ASSUME NEW e \in Volatile, EntityRemoved(e) \/ EntityAdded(e)
          PROVE  present' \subseteq Entities /\ enabled' \in BOOLEAN
        BY <2>1, <2>4, EnvironmentAssumption DEF EntityRemoved, EntityAdded
    <2>5. CASE Reconfigure
        BY <2>1, <2>5 DEF Reconfigure
    <2>6. CASE UNCHANGED vars
        BY <2>1, <2>6 DEF vars
    <2> QED
        BY <2>2, <2>3, <2>4, <2>5, <2>6 DEF Next, Environment
<1>4. \A h \in Handlers : CallState(h)
    BY DEF HInv, TypeOK, CallPlanned, CallState
<1>5. \A g \in Handlers : CallState(g)'
    <2> USE DEF HInv, IInv, Shape
    <2>1. ASSUME NEW h \in Handlers, NEW d \in Directives,
                 ReceiveWrongVersion(h, d) \/ ReceiveRejected(h, d)
                 \/ ReceiveDiscovery(h, d)
          PROVE \A g \in Handlers : CallState(g)'
        <3>1. call[h] = NoCall /\ call' = call
            BY <2>1 DEF ReceiveWrongVersion, ReceiveRejected, ReceiveDiscovery,
                        IdleNoCall
        <3>2. DispatchError(d) \in ValidationErrors \cup {"none"}
            BY DispatchErrorRange
        <3> QED
            BY <1>4, <2>1, <3>1, <3>2, EnvelopeNames, TypeOK
            DEF ReceiveWrongVersion, ReceiveRejected, ReceiveDiscovery, CallState,
                ErrorEnvelope, TypeOK
    <2>2. ASSUME NEW h \in Handlers, NEW d \in Directives, ReceiveExecute(h, d)
          PROVE \A g \in Handlers : CallState(g)'
        <3>1. Executable(d)
            BY <2>2, ExecuteChecks DEF ReceiveExecute
        <3>2. hub[d.ep] \in StateSpace(Domain[d.ep])
            BY <3>1 DEF Executable, TypeOK
        <3>3. PlannedCall(d, hub[d.ep]).ent \in Entities
              /\ PlannedCall(d, hub[d.ep]).svc \in Services
            BY <3>1, <3>2, PlannedCallIsSound DEF PlannedCallSound, Executable
        <3> QED
            BY <1>4, <2>2, <3>1, <3>2, <3>3 DEF ReceiveExecute, CallState
    <2>3. ASSUME NEW h \in Handlers, ServiceRun(h)
          PROVE \A g \in Handlers : CallState(g)'
        BY <1>4, <2>3 DEF ServiceRun, CallState
    <2>4. ASSUME NEW h \in Handlers, ServiceFail(h) \/ Respond(h)
          PROVE \A g \in Handlers : CallState(g)'
        <3>1. resp'[h].err \in ValidationErrors \cup {"none"} /\ resp'[h].endpoints = {}
            BY <2>4, EnvelopeNames DEF ServiceFail, Respond, ErrorEnvelope, ValidationErrors
        <3> QED
            BY <1>4, <2>4, <3>1 DEF ServiceFail, Respond, CallState
    <2>5. CASE Environment \/ UNCHANGED vars
        BY <1>4, <2>5
        DEF Environment, DeviceChange, EntityRemoved, EntityAdded, Reconfigure,
            vars, CallState
    <2> QED
        BY <2>1, <2>2, <2>3, <2>4, <2>5 DEF Next, Dispatcher
<1>6. TypeOK'
    BY <1>1, <1>2, <1>3, <1>5 DEF TypeOK, CallState, IInv, Shape, PcStates
<1>7. CallPlanned'
    BY <1>5 DEF CallPlanned, CallState
<1> QED
    BY <1>1, <1>6, <1>7 DEF HInv

-----------------------------------------------------------------------------
\* For any entities, directives and number of concurrent dispatch calls,
\* with devices changing state and entities leaving the store during the
\* service call: the store keeps only states its entities can hold and every
\* call is well formed (TypeOK), an adjustment by a zero delta sets the value
\* the handler read (ZeroDeltaIdempotent).
THEOREM HandlerSafety == Spec => [](TypeOK /\ ZeroDeltaIdempotent)
<1>1. HInv => ZeroDeltaIdempotent
    <2> SUFFICES ASSUME HInv, NEW h \in Handlers, call[h] # NoCall
                 PROVE  /\ req[h].name \in {"AdjustPercentage", "AdjustRangeValue"}
                           /\ req[h].amount = 0 => call[h].val = seen[h]
        BY DEF ZeroDeltaIdempotent
    <2>1. /\ Executable(req[h])
          /\ seen[h] \in StateSpace(Domain[req[h].ep])
          /\ call[h] = PlannedCall(req[h], seen[h])
        BY DEF HInv, CallPlanned
    <2> QED
        BY <2>1, PlannedCallIsSound DEF PlannedCallSound
<1>2. HInv => TypeOK
    BY DEF HInv
<1> QED
    BY <1>1, <1>2, InitHInv, NextHInv, PTL DEF Spec

\* The store keeps only states its entities can hold, and every call and
\* envelope is well formed (TypeOK).
THEOREM TypeCorrect == Spec => []TypeOK
BY HandlerSafety, PTL

\* An AdjustPercentage or AdjustRangeValue by 0 sets the value the handler
\* read (ZeroDeltaIdempotent).
THEOREM ZeroDeltaIdempotentHolds == Spec => []ZeroDeltaIdempotent
BY HandlerSafety, PTL
====
