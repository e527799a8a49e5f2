-------------------------- MODULE ForecastSolarData --------------------------
(***************************************************************************)
(* What the Forecast.Solar integration promises the rest of the hub about *)
(* hass.data[DOMAIN] and the forecast_solar/forecasts websocket command,   *)
(* with the entry manager's states and the awaits abstracted away: an      *)
(* entry gets a coordinator in one step and loses it in one step, no step  *)
(* touches another entry's coordinator, and a reply lists the entries that *)
(* have one.  ForecastSolar refines this module.                          *)
(***************************************************************************)
CONSTANTS
    Entries,       \* config entries of the integration
    Coordinators,  \* the coordinators a setup can build
    NoCoord        \* no coordinator stored for an entry

VARIABLES
    stored,      \* stored[e]: the coordinator hass.data[DOMAIN] holds for e
    registered,  \* the websocket command is registered
    answer       \* entry ids the last reply listed

dataVars == <<stored, registered, answer>>

Init ==
    /\ stored = [e \in Entries |-> NoCoord]
    /\ registered = FALSE
    /\ answer = {}

\* An entry without a coordinator gets one; the command is registered.
Load(e) ==
    /\ stored[e] = NoCoord
    /\ \E c \in Coordinators : stored' = [stored EXCEPT ![e] = c]
    /\ registered' = TRUE
    /\ UNCHANGED answer

\* An entry with a coordinator loses it.
Unload(e) ==
    /\ stored[e] # NoCoord
    /\ stored' = [stored EXCEPT ![e] = NoCoord]
    /\ UNCHANGED <<registered, answer>>

\* A reply lists exactly the entries that have a coordinator.
List ==
    /\ registered
    /\ answer' = {e \in Entries : stored[e] # NoCoord}
    /\ UNCHANGED <<stored, registered>>

Next == List \/ \E e \in Entries : Load(e) \/ Unload(e)

Spec == Init /\ [][Next]_dataVars
====
