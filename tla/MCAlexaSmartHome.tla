------------------------- MODULE MCAlexaSmartHome -------------------------
(* A small hub for AlexaSmartHome: one entity of each domain of the tests, *)
(* an entity on the never-expose list, two concurrent dispatch calls.      *)
EXTENDS AlexaSmartHome, TLC

CONSTANTS sw, fan, cov, panel, hidden, sens, h1, h2

MCEntities == {sw, fan, cov, panel, hidden, sens}

MCDomain == [e \in MCEntities |->
               CASE e = sw -> "switch" [] e = fan -> "fan" [] e = cov -> "cover"
                 [] e = panel -> "alarm_control_panel" [] e = hidden -> "switch"
                 [] e = sens -> "sensor"]

MCHandlers == {h1, h2}

D(ns, name, ep, amount, arm) ==
    [ns |-> ns, name |-> name, ep |-> ep, amount |-> amount, armState |-> arm,
     version |-> "3"]

\* Directives that exercise every check of the dispatcher (spec 4.3 steps
\* 1 to 5), the arm check, discovery and a suspended service call.
MCDispatchDirectives ==
    { D("Alexa.PowerController", "TurnOn", sw, 0, "none"),
      D("Alexa.RangeController", "SetRangeValue", sw, 1, "none"),
      D("Alexa.SecurityPanelController", "Arm", panel, 0, "ARMED_AWAY"),
      D("Alexa.SecurityPanelController", "Disarm", panel, 0, "none"),
      D("Alexa.Discovery", "Discover", NoEndpoint, 0, "none"),
      D("Alexa.Authorization", "AcceptGrant", NoEndpoint, 0, "none"),
      D("Alexa.HAHAAH", "Sweet", NoEndpoint, 0, "none"),
      [D("Alexa.PowerController", "TurnOn", sw, 0, "none") EXCEPT !.version = "2"] }

\* The percentage and range directives of the tests, with their deltas and
\* values, the zero deltas of spec 8 and a range value past the speed list.
MCArithmeticDirectives ==
    { D("Alexa.PowerController", "TurnOn", fan, 0, "none"),
      D("Alexa.PowerController", "TurnOff", cov, 0, "none"),
      D("Alexa.PercentageController", "SetPercentage", fan, 50, "none"),
      D("Alexa.PercentageController", "SetPercentage", cov, 50, "none") } \cup
    { D("Alexa.PercentageController", "AdjustPercentage", x, a, "none") :
        x \in {fan, cov}, a \in {-80, -5, 0, 5} } \cup
    { D("Alexa.RangeController", "SetRangeValue", fan, r, "none") : r \in 0..4 } \cup
    { D("Alexa.RangeController", "AdjustRangeValue", fan, a, "none") :
        a \in {-3, -1, 0, 1} }

\* Arming the panel, whose keypad may change its state at any time.
MCArmDirectives == {D("Alexa.SecurityPanelController", "Arm", panel, 0, "ARMED_AWAY")}

\* Turning on the entity on the never-expose list.
MCHiddenDirectives == {D("Alexa.PowerController", "TurnOn", hidden, 0, "none")}

MCCoverPositions == {30}

\* A single dispatch call, for the liveness run (symmetry is unsound there).
MCOneHandler == {h1}
=============================================================================
