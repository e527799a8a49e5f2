---------------------------- MODULE ForecastSolar ----------------------------
(***************************************************************************)
(* Config-entry lifecycle of the Forecast.Solar integration               *)
(* (src/homeassistant/components/forecast_solar/__init__.py).            *)
(*                                                                         *)
(* async_setup_entry reads the entry's options, builds a coordinator and   *)
(* awaits its first refresh; only after that await does it create the      *)
(* integration's hass.data dict (registering the websocket command the    *)
(* first time), store the coordinator and add the options-update listener. *)
(* async_unload_entry awaits the platforms' unload and drops the           *)
(* coordinator only if that succeeded.  An options update calls the        *)
(* listener, which reloads the entry: unload, then setup.  The config-     *)
(* entry manager that drives these calls is outside the repository; its    *)
(* entry states are modelled as the hub documents them.                    *)
(***************************************************************************)
EXTENDS Integers

CONSTANTS
    Entries,      \* config entries of the integration
    ApiKeys,      \* option values of the api key: "" from the options flow,
                  \* a key, or NoKey when the option is absent
    NoKey,        \* entry.options.get(CONF_API_KEY) of an entry without one
    NoCoord,      \* no coordinator stored for an entry
    MaxUpdates    \* bound on the options updates of the whole run

ASSUME KeyAssumption == "" \in ApiKeys /\ NoKey \in ApiKeys
ASSUME UpdateAssumption == MaxUpdates \in Nat

\* Lines 29-33: an empty api key from the options flow counts as no key.
NormalKey(k) == IF k \in {"", NoKey} THEN NoKey ELSE k

\* Lines 35-57: the coordinator built for an api key; it polls every 30
\* minutes with a key and every 60 without.
Coordinator(k) ==
    [key |-> NormalKey(k), interval |-> IF NormalKey(k) # NoKey THEN 30 ELSE 60]

Coordinators == {Coordinator(k) : k \in ApiKeys}

ASSUME NoCoordAssumption == NoCoord \notin Coordinators

EntryStates ==
    {"not_loaded", "setup_in_progress", "loaded", "setup_retry",
     "unload_in_progress", "failed_unload"}

VARIABLES
    state,      \* state[e]: the config entry's state in the entry manager
    options,    \* options[e]: the entry's api-key option now
    building,   \* building[e]: the coordinator setup built, during its await
    domain,     \* DOMAIN in hass.data
    stored,     \* stored[e]: hass.data[DOMAIN][entry_id], or NoCoord
    wsCount,    \* how often ws_list_forecasts was registered
    listener,   \* listener[e]: the update listener is registered
    reload,     \* reload[e]: the listener has asked for a reload
    updates,    \* options updates so far
    answer      \* entry ids the last forecast_solar/forecasts reply listed

vars == <<state, options, building, domain, stored, wsCount, listener, reload,
          updates, answer>>

Init ==
    /\ state = [e \in Entries |-> "not_loaded"]
    /\ options \in [Entries -> ApiKeys]
    /\ building = [e \in Entries |-> NoCoord]
    /\ domain = FALSE
    /\ stored = [e \in Entries |-> NoCoord]
    /\ wsCount = 0
    /\ listener = [e \in Entries |-> FALSE]
    /\ reload = [e \in Entries |-> FALSE]
    /\ updates = 0
    /\ answer = {}

\* The manager calls async_setup_entry (on start, on retry, on reload): it
\* reads the options and awaits async_config_entry_first_refresh (line 58).
SetupStart(e) ==
    /\ state[e] \in {"not_loaded", "setup_retry"}
    /\ state' = [state EXCEPT ![e] = "setup_in_progress"]
    /\ building' = [building EXCEPT ![e] = Coordinator(options[e])]
    /\ reload' = [reload EXCEPT ![e] = FALSE]
    /\ UNCHANGED <<options, domain, stored, wsCount, listener, updates, answer>>

\* The first refresh fails: ConfigEntryNotReady, the manager retries later.
SetupNotReady(e) ==
    /\ state[e] = "setup_in_progress"
    /\ state' = [state EXCEPT ![e] = "setup_retry"]
    /\ building' = [building EXCEPT ![e] = NoCoord]
    /\ UNCHANGED <<options, domain, stored, wsCount, listener, reload, updates,
                   answer>>

\* Lines 60-69, after the first refresh succeeded.
SetupFinish(e) ==
    /\ state[e] = "setup_in_progress"
    /\ domain' = TRUE
    /\ wsCount' = IF domain THEN wsCount ELSE wsCount + 1
    /\ stored' = [stored EXCEPT ![e] = building[e]]
    /\ listener' = [listener EXCEPT ![e] = TRUE]
    /\ state' = [state EXCEPT ![e] = "loaded"]
    /\ building' = [building EXCEPT ![e] = NoCoord]
    /\ UNCHANGED <<options, reload, updates, answer>>

\* The options flow stores new options; async_update_entry calls the update
\* listeners registered for the entry, and async_update_options (lines
\* 81-83) asks the manager to reload it.
UpdateOptions(e, k) ==
    /\ updates < MaxUpdates
    /\ options' = [options EXCEPT ![e] = k]
    /\ reload' = [reload EXCEPT ![e] = @ \/ listener[e]]
    /\ updates' = updates + 1
    /\ UNCHANGED <<state, building, domain, stored, wsCount, listener, answer>>

\* The manager unloads a loaded entry, on a reload or when the user asks,
\* and async_unload_entry awaits async_unload_platforms (line 74).
UnloadStart(e) ==
    /\ state[e] = "loaded"
    /\ state' = [state EXCEPT ![e] = "unload_in_progress"]
    /\ UNCHANGED <<options, building, domain, stored, wsCount, listener, reload,
                   updates, answer>>

\* A mutant for the mutation runs: the coordinator dropped without looking
\* at unload_ok.
UnloadFinishAlwaysPop(e, ok) ==
    /\ state[e] = "unload_in_progress"
    /\ stored' = [stored EXCEPT ![e] = NoCoord]
    /\ listener' = IF ok THEN [listener EXCEPT ![e] = FALSE] ELSE listener
    /\ state' = [state EXCEPT ![e] = IF ok THEN "not_loaded" ELSE "failed_unload"]
    /\ UNCHANGED <<options, building, domain, wsCount, reload, updates, answer>>

\* Lines 75-78: the coordinator is dropped only when the platforms unloaded.
\* After a successful unload the manager runs the entry's on-unload
\* callbacks, which remove the update listener (line 67).
UnloadFinish(e, ok) ==
    /\ state[e] = "unload_in_progress"
    /\ stored' = IF ok THEN [stored EXCEPT ![e] = NoCoord] ELSE stored
    /\ listener' = IF ok THEN [listener EXCEPT ![e] = FALSE] ELSE listener
    /\ state' = [state EXCEPT ![e] = IF ok THEN "not_loaded" ELSE "failed_unload"]
    /\ UNCHANGED <<options, building, domain, wsCount, reload, updates, answer>>

\* A mutant for the mutation runs: the reply lists the entries the manager
\* reports loaded instead of those hass.data[DOMAIN] holds.
ListForecastsLoaded ==
    /\ wsCount > 0
    /\ answer' = {e \in Entries : state[e] = "loaded"}
    /\ UNCHANGED <<state, options, building, domain, stored, wsCount, listener,
                   reload, updates>>

\* ws_list_forecasts (lines 88-102): one reply entry per stored coordinator.
ListForecasts ==
    /\ wsCount > 0
    /\ answer' = {e \in Entries : stored[e] # NoCoord}
    /\ UNCHANGED <<state, options, building, domain, stored, wsCount, listener,
                   reload, updates>>

Next ==
    \/ ListForecasts
    \/ \E e \in Entries :
          \/ SetupStart(e) \/ SetupNotReady(e) \/ SetupFinish(e)
          \/ UnloadStart(e)
          \/ \E ok \in BOOLEAN : UnloadFinish(e, ok)
          \/ \E k \in ApiKeys : UpdateOptions(e, k)

Spec == Init /\ [][Next]_vars

-----------------------------------------------------------------------------
TypeOK ==
    /\ state \in [Entries -> EntryStates]
    /\ options \in [Entries -> ApiKeys]
    /\ building \in [Entries -> Coordinators \cup {NoCoord}]
    /\ domain \in BOOLEAN
    /\ stored \in [Entries -> Coordinators \cup {NoCoord}]
    /\ wsCount \in Nat
    /\ listener \in [Entries -> BOOLEAN]
    /\ reload \in [Entries -> BOOLEAN]
    /\ updates \in 0..MaxUpdates
    /\ answer \subseteq Entries

\* hass.data[DOMAIN], which ws_list_forecasts reads, holds a coordinator for
\* exactly the entries the manager has set up and not successfully unloaded:
\* concurrent setups, setup retries, failed unloads and reloads never leave a
\* stale coordinator behind nor lose a loaded entry's one.
StoredIffLoaded ==
    \A e \in Entries :
        stored[e] # NoCoord
            <=> state[e] \in {"loaded", "unload_in_progress", "failed_unload"}

\* The websocket command has been registered once if the dict it reads
\* exists and not at all otherwise; the proofs use it as a step towards the
\* refinement of ForecastSolarData.
WsRegisteredOnce == wsCount = IF domain THEN 1 ELSE 0

\* What the update listener is for: a loaded entry with no reload pending
\* polls with the api key its options hold now.  Options saved while the
\* setup awaits its first refresh, before the listener exists, are lost.
OptionsApplied ==
    \A e \in Entries :
        state[e] = "loaded" /\ ~reload[e] => stored[e].key = NormalKey(options[e])

\* The refinement mapping: hass.data[DOMAIN] is the abstract store, and the
\* command counts as registered once async_register_command has run.
Data == INSTANCE ForecastSolarData WITH registered <- wsCount > 0

\* The lifecycle, with its awaits, retries, failed unloads and reloads,
\* implements ForecastSolarData: hass.data[DOMAIN] changes only by giving an
\* entry without a coordinator one, or taking one away, one entry at a
\* time, and ws_list_forecasts replies with exactly the stored entries.
DataSpec == Data!Spec
====
