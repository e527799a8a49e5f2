# TLA+ models of the integration adapters

This directory holds TLA+ models of the parts of `src/` that have state,
concurrency or failure paths worth checking, TLC configurations that
model-check them on small instances, and TLAPS proofs, for every instance,
of every safety invariant of every passing run, of the Forecast.Solar
lifecycle's refinement of an abstract specification, and of an action
property of the Alexa dispatcher.

## The system and its parts

The repository is a set of adapters between vendor devices or services and
the hub's entity/state store (spec.md §1). The hub's state store and its
config-entry manager are outside the repository; they appear in the models
only as the environment of the adapters.

| Part | Source | Module | Status |
|---|---|---|---|
| Alexa smart-home bridge | implementation not in the repository; `src/tests/components/alexa/test_smart_home.py` | `AlexaSmartHome`, `AlexaSmartHomeProofs`, `AlexaHandlersProofs` | partly, dispatcher and handlers proved |
| devolo dimmer light | `src/homeassistant/components/devolo_home_control/light.py` | `DevoloLight`, `DevoloLightProofs` | modelled, proved |
| Forecast.Solar lifecycle | `src/homeassistant/components/forecast_solar/__init__.py` | `ForecastSolar`, `ForecastSolarData`, `ForecastSolarProofs` | modelled, refined, proved |
| AIS virtual devices start-up | `src/homeassistant/components/ais_virtual_devices/__init__.py` | `AisVirtualDevices`, `AisVirtualDevicesProofs` | modelled, proved |
| Brother printer sensors | `src/homeassistant/components/brother/sensor.py` | `BrotherSensors`, `BrotherSensorsProofs` | modelled, proved |
| energy, Renault, recorder statistics | tests only | none | not modelled |

How they interact: every adapter writes entity states into the hub's store
and receives service calls from it. The Alexa bridge is the only part that
reads other entities' states (to answer directives); the others own their
entities. The parts share no state, so each is modelled on its own, with the
store and the entry manager as its environment.

### AlexaSmartHome: the directive dispatcher

The bridge's code is not in `src/`; the model follows spec.md §3–§8 and the
behaviour the tests pin (which `PROJECT.json` "map" names, definition by
definition; the rest is marked `spec_modelled`).

* State: `hub` (the store's state of each entity), `present` (entities the
  store knows), `enabled` (the bridge's enable flag) and, per dispatch call
  `h`, `pc`, `req`, `seen` (the value the handler read), `call` (the one
  service call it issued), `resp` (its envelope, `NoResponse` until the call
  answers: an envelope named "none", which no dispatcher returns) and
  `fired` (events fired).
* Actions: `ReceiveWrongVersion` (payload version ≠ 3 raises),
  `ReceiveRejected` (the first failing check of `DispatchError`: bridge
  disabled, unknown endpoint, unhandled directive, missing capability, panel
  not disarmed, and the payload check of spec 4.3 step 6, `PayloadValid`: a
  range value outside the speed list or an unknown arm state is
  VALUE_OUT_OF_RANGE), `ReceiveDiscovery`, `ReceiveExecute` (resolve, compute
  `PlannedCall`, suspend), `ServiceRun` / `ServiceFail` (the hub runs the
  call, or it raises → INTERNAL_ERROR), `Respond`. The environment changes
  device states, removes and re-adds entities and toggles the bridge.
* The handlers' arithmetic is pure: `PercentageOfSpeed`,
  `SpeedOfPercentage` (a percentage above 100 matches no bucket and is
  "off", as `test_variable_fan` pins), `RangeCall` (range 0 is
  `fan.turn_off`), `ClampRange`, `ClampPercent`.

### DevoloLight

* State: per light, the device's `level` and `last` non-zero level, the
  entity's cached `value`, the `inbox` of websocket reports not yet applied,
  and a history variable `cmd` (the hub's last command since the device was
  last operated by hand).
* Actions: `TurnOn(l, b)` (lines 71-83: a brightness sets the multi-level
  switch to `round(b / 255 * 100)`; otherwise the binary switch is set on,
  or the level is set to 100), `TurnOff(l)` (lines 85-90), `DeviceLocal`
  (someone presses the device's buttons), `Deliver` (the subscriber applies
  the oldest report). `Brightness` and `IsOn` are lines 61-69.
  `RoundHalfEven` is Python's `round` on the exact quotient (the float
  quotients never sit within rounding error of a half they do not equal).
* The device's behaviour on `binary_switch.set(True)` (return to the last
  level) follows the code's comment at line 79.

### ForecastSolar

* State: the entry manager's `state` per entry, the entry's `options` (the
  api key), `building` (the coordinator a setup built before its await),
  `domain` (`DOMAIN in hass.data`), `stored` (`hass.data[DOMAIN][entry_id]`),
  `wsCount` (registrations of `ws_list_forecasts`), `listener`, `reload`,
  `updates`, `answer`.
* `async_setup_entry` has one await (line 58), so it is two actions:
  `SetupStart` (lines 27-58: read options, build the coordinator, await) and
  `SetupFinish` (lines 60-69) or `SetupNotReady` (the first refresh fails).
  `async_unload_entry` likewise: `UnloadStart` and `UnloadFinish(e, ok)`.
  `UpdateOptions` is the options flow calling the update listeners
  (lines 81-83); `ListForecasts` is `ws_list_forecasts`.

`ForecastSolarData` is the abstract specification: what the integration
promises about `hass.data[DOMAIN]` and the websocket command, without entry
states or awaits. An entry gets a coordinator only if it has none (`Load`),
loses only its own (`Unload`), and a reply lists the stored entries
(`List`). `ForecastSolar` instantiates it with the refinement mapping
`registered <- wsCount > 0` (`stored` and `answer` map to themselves) and
checks `DataSpec == Data!Spec` as a property.

### BrotherSensors

* State: the coordinator's `data` (a function from the keys the printer
  reports to their values) and `ok` (its last poll succeeded), `added`,
  `entities` (the kinds a sensor was created for), `attrs` (each sensor's
  persisted `_attrs` dict) and `shown` (what the hub holds for each sensor).
* `SetupEntry` is `async_setup_entry` (lines 23-40): a sensor for each kind
  of `SENSOR_TYPES` the data has, with an empty `_attrs` (`__init__`),
  written at once. `Poll(d)` and `PollFailed` are the coordinator (outside
  the repository): on success every sensor reads `state` (`StateOf`, lines
  60-65; `isoformat` is a tag on the time) and `extra_state_attributes`
  (`NewAttrs`, lines 74-83, which updates the persisted dict key by key),
  and on failure the hub writes `Unavailable` without reading either.

### AisVirtualDevices

`async_setup` has no await: it is one action, `AsyncSetup(lf, df)`, over the
possible contents of the two settings files (a JSON object is a function
over its keys; `Missing` is an absent or unreadable file). It seeds the
sensors and groups (abstracted to entity ids: only the two settings sensors
matter to the properties), sets the log settings sensor, reads `logLevel`
(a KeyError there ends the setup: `phase = "raised"`), fills in the DB
settings' defaults or the fallback, and schedules platforms. `RunTask` runs a
scheduled platform later, in any order.

## Runs

| Run | Expect | What it shows |
|---|---|---|
| `alexa_dispatch` | pass | 2 concurrent dispatch calls; a keypad arms/disarms the panel, a switch leaves and returns, the bridge is toggled: every handled directive, rejected, discovered, answered or failed, gets exactly one envelope and fires exactly one event, and a call in flight none (`EnvelopeAccounting`), also when its entity leaves the store while the call is suspended. 431k states. |
| `alexa_handlers` | pass | every fan speed, cover position and delta of the tests, and a range value past the speed list: `TypeOK` (positions and speeds stay in the states their entities can hold, services are the handlers' services) and `ZeroDeltaIdempotent`. 14k states. |
| `alexa_never_exposed` | violation | `NeverExposedUntouched`: directives reach never-exposed entities. |
| `alexa_overflow` | violation | `PositiveDeltaNeverSlows`: high + 5 % turns the fan off. |
| `devolo_light` | pass | two dimmers, one with a binary switch, and a shutter; up to two undelivered reports: `TypeOK`, `BrightnessRoundTrip`, `OnIffBright` (the boundary brightnesses and those that round differently; `BrightnessSafety` proves the last two for every brightness). 265k states. |
| `devolo_turn_on` | violation | `TurnOnLeavesOn`: `turn_on(brightness=1)` switches the light off. |
| `forecast_lifecycle` | pass | two entries through setup, retry, unload (failed or not), option updates and reload in every interleaving: `StoredIffLoaded`, and that the lifecycle implements `ForecastSolarData` (`DataSpec`). 18k states. |
| `forecast_options_during_setup` | violation | `OptionsApplied`: options saved during the first refresh are lost. |
| `ais_setup` | pass | all combinations of log file, DB file, prior global, running recorder and registered panels: `SensorsShowGlobals`, `DbSettingsComplete`. Deadlock is not checked: start-up runs once and then the model stops. |
| `ais_logbook` | violation | `LogbookOnlyWhenChosen`: the logbook loads although `dbShowLogbook` is false. |
| `ais_partial_start` | violation | `DbSettingsAlwaysSet`: a log settings file without `logLevel` ends the setup before the DB settings are read. |
| `brother_sensors` | pass | setup before or after a failed poll, then any polls with changing status, drum values and uptime: `ShownMatchesData` (each sensor shows the last poll's value and the drum attributes of the same poll, or unavailable). 160 states. |

Every property of a passing run has a mutant in `PROJECT.json`: a plausible
bug in the definition it is about (a dropped event, a bucket edge off by
one, a missing lower clamp, a level not scaled or truncated, `int()` for
`round()`, an unconditional pop, a level read from the stale global, a
fallback missing a key, a reply listing the loaded rather than the stored
entries, `_attrs` filled only once) that TLC finds violating it.

### Bounds

Two dispatch calls are the least that exhibit the interleavings of
concurrent directives; the entities are one per domain plus a hidden one,
since the properties are per entity. Two undelivered reports per light are
the least for a report to be pending while another is sent. Two config entries are the least whose
setups interleave at the await; two option updates let an update arrive
both during a setup and after it. The AIS inputs cover each branch of the
settings code (file missing, key missing, key present with each value, an
engine name of length 1 and longer). The Brother readings give each value
the properties tell apart two values in every combination, so that every
attribute changes without the state changing and the other way round, and
`SENSOR_TYPES` has a kind the printer does not report.

### Fairness

No run checks a liveness property: the ones the models allowed (every
issued call is eventually answered, every report eventually delivered)
followed from the fairness assumptions alone and said nothing about the
code. The specifications keep the fairness the code justifies, for a
reader who adds one:

* Alexa: weak fairness of the hub running or failing an issued service call
  and of the event loop resuming a suspended handler (spec §7: no
  cancellation). The environment gets none.
* devolo: weak fairness of delivering a report (the websocket keeps
  running); the hub and the user get none.
* AIS: weak fairness of running scheduled tasks (the event loop runs every
  task it was given).
* Forecast.Solar and Brother: none.

## Findings

1. devolo `light.py:75`: `turn_on(brightness=1)` sets level 0, i.e. off.
2. Forecast.Solar `__init__.py:67`: the options listener is added after the
   first-refresh await, so options saved during it are never applied.
3. AIS `__init__.py:594` and `:603`: the logbook and history panels are
   loaded whenever their settings key exists, and the code itself adds the
   key (as False) when it is absent.
4. AIS `__init__.py:551`: a log settings file without `logLevel` raises
   `KeyError` after the log sensor is set and before the DB settings are
   read, so the DB settings sensor keeps its seed and the recorder is never
   loaded, although lines 569-573 provide a fallback for a bad DB file.
5. Alexa (spec gaps): the never-expose list is not applied to directives;
   the test pins a +5 % adjustment of a fan at high to "off" where the spec
   clamps.

The Alexa arm handler checks that the panel is disarmed and then suspends
on the arm service, so a keypad or a second directive can arm the panel in
between. The spec asks for the check only when the directive arrives and
promises no exclusivity between dispatch calls (§5), so no property states
more; `PROJECT.json` lists it as a hazard.

## Proofs

`ForecastSolarProofs` proves, for every set of entries, api keys and
bound on option updates (assumptions `KeyAssumption`, `UpdateAssumption`,
`NoCoordAssumption`):

* `StoredIffLoadedHolds`: `Spec => []StoredIffLoaded`;
* `TypeCorrect`: `Spec => []TypeOK`.

They rest on `LifecycleSafety` and the inductive invariant
`IInv == TypeOK /\ StoredIffLoaded /\ WsRegisteredOnce /\ BuiltWhileSettingUp`.
`StoredIffLoaded` alone is not inductive: `SetupFinish` stores
`building[e]`, and only the added conjunct (a setup in progress has built
its coordinator, since lines 35-57 run before the await) shows that what
it stores is a coordinator. `InitIInv` and `NextIInv` (one step per action,
one sub-step per conjunct an action can disturb) give the invariant; PTL
combines them. `WsRegisteredOnce` (the websocket command has been
registered once if `hass.data[DOMAIN]` exists, else never) is a conjunct
because the refinement below needs it, not a checked property.

`ForecastSolarProofs` also proves `Refinement`: `Spec => DataSpec`. The
initial state maps to `Data!Init`, and `NextRefines` shows, from the same
`IInv`, that every step is a `Data!Next` step or a stutter of the mapped
variables: `SetupFinish` is `Load` (it needs `StoredIffLoaded` for the entry
having no coordinator and `BuiltWhileSettingUp` for what it stores), a
successful `UnloadFinish` is `Unload`, `ListForecasts` is `List`, and the
other actions leave `stored`, `answer` and `wsCount > 0` alone.

`DevoloLightProofs` proves `TypeCorrect`: `Spec => []TypeOK` for every set
of switches, brightnesses, local levels and bound on pending reports, from
the inductive invariant `IInv == TypeOK /\ Synced`. `Synced` says
that the cache's *eventual* value (the newest pending report, or the cache
itself when none is pending) is the device's value; every device change
appends its report, and `Deliver` pops the oldest without changing the
newest (lemma `DeliverSeq`, about `Head`, `Tail` and `Len` of any sequence).
`LevelOfRange` shows the brightness-to-level rounding stays in 0..100.

`DevoloLightProofs` also proves `BrightnessSafety`: `Spec =>
[](BrightnessRoundTrip /\ OnIffBright)`, for every brightness 1..255
where the `devolo_light` run takes seven. It adds the inductive invariant
`CmdLevel` (after `turn_on(brightness=b)`, until the light is changed
again, the device is at `LevelOf(b)`; every other action that changes the
level also replaces the command), and two arithmetic lemmas:
`RoundTripArith` (`Brightness(LevelOf(b))` is within 1 of `b`, from the
quotients and remainders of the two roundings) and `OnIffBrightArith`.
With `Synced`, a quiet inbox means the cache holds `LevelOf(b)`.

`DevoloLightProofs` also states `OnIffBrightHolds` on its own.

`AisVirtualDevicesProofs` proves `SensorsShowGlobalsHolds` and
`DbSettingsCompleteHolds` for any settings files, prior globals and sets of
seeded sensors and groups. Both invariants are inductive as they stand:
`async_setup` has no await, so one step sets the sensors, the globals and
the level together, and `RunTask` touches none of them. The proof needs
`SensorsAssumption` (the two settings sensors are not among the other
sensors seeded at lines 24-61): without it the `CASE` that builds the hub's
states could give a settings sensor a seed state.

`BrotherSensorsProofs` proves `ShownMatchesDataHolds` for any kinds,
attribute map and readings (`ReadingsAssumption`). `ShownMatchesData` is not
inductive: a sensor whose kind has no `ATTRS_MAP` entry shows its `_attrs`
dict unchanged, so the proof needs `Typing`, which adds that such a dict is
still empty and that `shown` and `attrs` are functions over the sensors and
kinds (lemma `WriteShows`: every write reads the current data).

`AlexaSmartHomeProofs` proves, for any entities, directives, filters and
number of concurrent dispatch calls, `EnvelopeAccountingHolds`:
`Spec => []EnvelopeAccounting`. The
inductive invariant `IInv` adds `Shape` (the per-call variables are
functions over the calls) and `IdleNoCall` (an idle call has issued no
service call): a rejection answers an idle call, and only `IdleNoCall`
shows it issued nothing; an answer adds one event, and only
`EnvelopeAccounting`'s second half (a call not done fired none) shows the
count is then exactly one. TLC checked `IInv` on the 431k states of `alexa_dispatch`
before the proof.

`AlexaHandlersProofs` proves `HandlerSafety`: `Spec => [](TypeOK /\
ZeroDeltaIdempotent)`, with the corollaries `TypeCorrect` and
`ZeroDeltaIdempotentHolds`, for any entities, directives and concurrent
calls. Neither is
inductive: each is about the call a handler issued, which `ReceiveExecute`
computed from a state that may have changed since. The strengthening
`CallPlanned` records that a call in flight or answered is exactly
`PlannedCall` of its directive and of the state read, and that the
directive passed the dispatcher's checks (`Executable`). The lemma
`PlannedCallIsSound` (one lemma per namespace) shows that such a call
targets the directive's entity, uses a hub service, has only effects the
entity's domain allows, reproduces the state read under a zero delta, and
uses `fan.turn_off` exactly for "off" (an internal step of the proof). It rests on closed forms of the
`CASE` operators (`SpeedOfPercentageForm`, `SpeedValues`, `DomainValues`,
`ArmServiceValues`) and on `PercentageRoundTrip`, which says the bucket
values 0, 33, 66 and 100 map back to their speeds. TLC checked
`HInv == IInv /\ TypeOK /\ CallPlanned` on `alexa_dispatch` and
`alexa_handlers` before the proof.

Two changes to the model came out of this proof:

* A `SetRangeValue` outside the speed list, or an `Arm` with an unknown
  state, indexed `SpeedList` or `ArmService` outside their domains. Spec
  4.3 step 6 says the handler validates value ranges and enumerated values
  before its call, and §7 lists VALUE_OUT_OF_RANGE. `DispatchError` now
  makes that check (`PayloadValid`), and `alexa_handlers` sends range
  value 4.
* `TypeOK` said only that a call's service is a string. The provers cannot
  show that a string literal is in `STRING`, and the statement was weak
  anyway. It now names the set of hub services the handlers call
  (`Services`).

Only model-checked, and why:

* Liveness, were a property added: TLAPS does not reason about `ENABLED`
  and fairness here.
* AIS `WantsRecorder` reads `Len` of a DB engine name, a string; no
  invariant depends on it.

## Not modelled

* Brother: device info, names, icons, units and `enabled_default` are
  constants of `const.py`, which is not in the repository. Whether a later
  poll can lack a key the first one had is decided by the brother library,
  also outside it; the model assumes every poll reports the same keys.
* Energy, Renault and recorder statistics: only their tests are here.
* Alexa light, thermostat, media player, lock and scene handlers, state
  reports and ChangeReport events.
* Formatting: Alexa envelopes keep only name, namespace, error type, the
  reported value and the endpoint set; Forecast.Solar's timestamps are not
  modelled.
