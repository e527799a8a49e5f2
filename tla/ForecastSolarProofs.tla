------------------------- MODULE ForecastSolarProofs -------------------------
(***************************************************************************)
(* Proofs about the Forecast.Solar config-entry lifecycle, for any set of  *)
(* entries, api keys and bound on options updates.                        *)
(*                                                                         *)
(* StoredIffLoaded is not inductive by itself: SetupFinish stores          *)
(* building[e], and only knowing that a setup in progress has built a      *)
(* coordinator (lines 35-57 run before the await at line 58) shows that    *)
(* the entry it marks loaded has one stored.  IInv adds that fact.         *)
(***************************************************************************)
EXTENDS ForecastSolar, TLAPS

\* A setup that is in progress has built its coordinator.
BuiltWhileSettingUp ==
    \A e \in Entries : state[e] = "setup_in_progress" => building[e] \in Coordinators

IInv == TypeOK /\ StoredIffLoaded /\ WsRegisteredOnce /\ BuiltWhileSettingUp

\* The coordinator built from an option value is one of the coordinators.
LEMMA CoordinatorType ==
    ASSUME NEW k \in ApiKeys
    PROVE  Coordinator(k) \in Coordinators
BY DEF Coordinators

\* The initial states satisfy the inductive invariant.
LEMMA InitIInv == Init => IInv
<1> SUFFICES ASSUME Init PROVE IInv
    OBVIOUS
<1>1. TypeOK
    <2>1. state \in [Entries -> EntryStates]
        BY DEF Init, EntryStates
    <2>2. /\ building \in [Entries -> Coordinators \cup {NoCoord}]
          /\ stored \in [Entries -> Coordinators \cup {NoCoord}]
        BY DEF Init
    <2>3. updates \in 0..MaxUpdates
        BY UpdateAssumption DEF Init
    <2> QED
        BY <2>1, <2>2, <2>3 DEF Init, TypeOK
<1>2. StoredIffLoaded
    BY NoCoordAssumption DEF Init, StoredIffLoaded
<1>3. WsRegisteredOnce
    BY DEF Init, WsRegisteredOnce
<1>4. BuiltWhileSettingUp
    BY DEF Init, BuiltWhileSettingUp
<1> QED
    BY <1>1, <1>2, <1>3, <1>4 DEF IInv

\* Every step of the lifecycle, and every stutter, keeps the invariant.
LEMMA NextIInv == IInv /\ [Next]_vars => IInv'
<1> SUFFICES ASSUME IInv, [Next]_vars PROVE IInv'
    OBVIOUS
<1> USE NoCoordAssumption, UpdateAssumption
<1>1. CASE ListForecasts
    BY <1>1 DEF IInv, TypeOK, StoredIffLoaded, WsRegisteredOnce,
                BuiltWhileSettingUp, ListForecasts
<1>2. ASSUME NEW e \in Entries, SetupStart(e) PROVE IInv'
    <2>1. Coordinator(options[e]) \in Coordinators
        BY CoordinatorType DEF IInv, TypeOK
    <2>2. TypeOK'
        BY <1>2, <2>1 DEF IInv, TypeOK, SetupStart, EntryStates
    <2>3. StoredIffLoaded'
        BY <1>2 DEF IInv, StoredIffLoaded, SetupStart
    <2>4. WsRegisteredOnce'
        BY <1>2 DEF IInv, WsRegisteredOnce, SetupStart
    <2>5. BuiltWhileSettingUp'
        BY <1>2, <2>1 DEF IInv, TypeOK, BuiltWhileSettingUp, SetupStart
    <2> QED
        BY <2>2, <2>3, <2>4, <2>5 DEF IInv
<1>3. ASSUME NEW e \in Entries, SetupNotReady(e) PROVE IInv'
    BY <1>3 DEF IInv, TypeOK, StoredIffLoaded, WsRegisteredOnce,
                BuiltWhileSettingUp, SetupNotReady, EntryStates
<1>4. ASSUME NEW e \in Entries, SetupFinish(e) PROVE IInv'
    <2>1. building[e] \in Coordinators
        BY <1>4 DEF IInv, BuiltWhileSettingUp, SetupFinish
    <2>2. TypeOK'
        BY <1>4, <2>1 DEF IInv, TypeOK, SetupFinish, EntryStates
    <2>3. StoredIffLoaded'
        BY <1>4, <2>1 DEF IInv, TypeOK, StoredIffLoaded, SetupFinish
    <2>4. WsRegisteredOnce'
        BY <1>4 DEF IInv, WsRegisteredOnce, SetupFinish
    <2>5. BuiltWhileSettingUp'
        BY <1>4 DEF IInv, TypeOK, BuiltWhileSettingUp, SetupFinish
    <2> QED
        BY <2>2, <2>3, <2>4, <2>5 DEF IInv
<1>5. ASSUME NEW e \in Entries, UnloadStart(e) PROVE IInv'
    BY <1>5 DEF IInv, TypeOK, StoredIffLoaded, WsRegisteredOnce,
                BuiltWhileSettingUp, UnloadStart, EntryStates
<1>6. ASSUME NEW e \in Entries, NEW ok \in BOOLEAN, UnloadFinish(e, ok) PROVE IInv'
    <2>1. TypeOK'
        BY <1>6 DEF IInv, TypeOK, UnloadFinish, EntryStates
    <2>2. StoredIffLoaded'
        BY <1>6 DEF IInv, TypeOK, StoredIffLoaded, UnloadFinish
    <2>3. WsRegisteredOnce' /\ BuiltWhileSettingUp'
        BY <1>6 DEF IInv, TypeOK, WsRegisteredOnce, BuiltWhileSettingUp, UnloadFinish
    <2> QED
        BY <2>1, <2>2, <2>3 DEF IInv
<1>7. ASSUME NEW e \in Entries, NEW k \in ApiKeys, UpdateOptions(e, k) PROVE IInv'
    BY <1>7 DEF IInv, TypeOK, StoredIffLoaded, WsRegisteredOnce,
                BuiltWhileSettingUp, UpdateOptions
<1>8. CASE UNCHANGED vars
    BY <1>8 DEF IInv, TypeOK, StoredIffLoaded, WsRegisteredOnce,
                BuiltWhileSettingUp, vars
<1> QED
    BY <1>1, <1>2, <1>3, <1>4, <1>5, <1>6, <1>7, <1>8 DEF Next

\* hass.data[DOMAIN] holds a coordinator for exactly the entries set up and
\* not successfully unloaded (async_setup_entry lines 60-63, async_unload_entry
\* lines 74-76): for every number of entries and option updates.
THEOREM LifecycleSafety == Spec => [](TypeOK /\ StoredIffLoaded)
<1>1. Init => IInv
    BY InitIInv
<1>2. IInv /\ [Next]_vars => IInv'
    BY NextIInv
<1>3. IInv => TypeOK /\ StoredIffLoaded
    BY DEF IInv
<1> QED
    BY <1>1, <1>2, <1>3, PTL DEF Spec

\* Type correctness of the lifecycle model: every entry state, option and
\* stored coordinator stays in its set.
THEOREM TypeCorrect == Spec => []TypeOK
BY LifecycleSafety, PTL

\* hass.data[DOMAIN] has a coordinator exactly for the entries set up and
\* not successfully unloaded; ws_list_forecasts lists exactly those.
THEOREM StoredIffLoadedHolds == Spec => []StoredIffLoaded
BY LifecycleSafety, PTL

\* Every step of the lifecycle is a step of ForecastSolarData under the
\* refinement mapping, or leaves hass.data, the registration and the reply
\* as they were.
LEMMA NextRefines == IInv /\ [Next]_vars => [Data!Next]_Data!dataVars
<1> SUFFICES ASSUME IInv, [Next]_vars PROVE [Data!Next]_Data!dataVars
    OBVIOUS
<1> USE DEF Data!dataVars
<1>1. CASE ListForecasts
    BY <1>1 DEF ListForecasts, Data!Next, Data!List
<1>2. ASSUME NEW e \in Entries, SetupStart(e) PROVE UNCHANGED Data!dataVars
    BY <1>2 DEF SetupStart
<1>3. ASSUME NEW e \in Entries, SetupNotReady(e) PROVE UNCHANGED Data!dataVars
    BY <1>3 DEF SetupNotReady
<1>4. ASSUME NEW e \in Entries, SetupFinish(e) PROVE Data!Load(e)
    <2>1. stored[e] = NoCoord
        BY <1>4 DEF IInv, StoredIffLoaded, SetupFinish
    <2>2. building[e] \in Coordinators
        BY <1>4 DEF IInv, BuiltWhileSettingUp, SetupFinish
    <2>3. wsCount' > 0
        BY <1>4 DEF IInv, TypeOK, WsRegisteredOnce, SetupFinish
    <2> QED
        BY <1>4, <2>1, <2>2, <2>3 DEF SetupFinish, Data!Load
<1>5. ASSUME NEW e \in Entries, UnloadStart(e) PROVE UNCHANGED Data!dataVars
    BY <1>5 DEF UnloadStart
<1>6. ASSUME NEW e \in Entries, NEW ok \in BOOLEAN, UnloadFinish(e, ok)
      PROVE [Data!Next]_Data!dataVars
    <2>1. CASE ok
        <3>1. stored[e] # NoCoord
            BY <1>6 DEF IInv, StoredIffLoaded, UnloadFinish
        <3>2. Data!Unload(e)
            BY <1>6, <2>1, <3>1 DEF UnloadFinish, Data!Unload
        <3> QED
            BY <3>2 DEF Data!Next
    <2>2. CASE ~ok
        BY <1>6, <2>2 DEF UnloadFinish
    <2> QED
        BY <2>1, <2>2
<1>7. ASSUME NEW e \in Entries, NEW k \in ApiKeys, UpdateOptions(e, k)
      PROVE UNCHANGED Data!dataVars
    BY <1>7 DEF UpdateOptions
<1>8. CASE UNCHANGED vars
    BY <1>8 DEF vars
<1> QED
    BY <1>1, <1>2, <1>3, <1>4, <1>5, <1>6, <1>7, <1>8 DEF Next, Data!Next

\* The lifecycle implements ForecastSolarData (DataSpec): whatever the
\* interleaving of setups at their await, retries, unloads that fail and
\* reloads, hass.data[DOMAIN] only gains a coordinator for an entry without
\* one and only loses an entry's own, and ws_list_forecasts lists exactly
\* the stored entries, for every set of entries and api keys.
THEOREM Refinement == Spec => DataSpec
<1>1. Init => Data!Init
    BY DEF Init, Data!Init
<1>2. Spec => []IInv
    BY InitIInv, NextIInv, PTL DEF Spec
<1> QED
    BY <1>1, <1>2, NextRefines, PTL DEF Spec, DataSpec, Data!Spec
====
