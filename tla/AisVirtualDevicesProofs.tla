----------------------- MODULE AisVirtualDevicesProofs -----------------------
(***************************************************************************)
(* Proofs about the start-up of the AIS virtual devices, for every set of *)
(* sensors, groups, settings files and prior globals.                     *)
(*                                                                         *)
(* Both invariants are inductive as they stand: async_setup runs once (its *)
(* guard is phase = "start") and sets the sensors, the globals and the     *)
(* logger's level in the same step; the scheduled platforms run later and  *)
(* touch none of these.                                                    *)
(***************************************************************************)
EXTENDS AisVirtualDevices, TLAPS

\* The settings sensors are two distinct entities of the hub.
LEMMA SensorsDistinct ==
    /\ LogSensor # DbSensor /\ {LogSensor, DbSensor} \subseteq Entities
    /\ LogSensor \notin Sensors /\ DbSensor \notin Sensors
BY SensorsAssumption DEF LogSensor, DbSensor, Entities

\* async_setup, when it returns, leaves the two settings sensors showing
\* the globals it set and the logger asked for the level they hold.
LEMMA SetupShowsGlobals ==
    ASSUME NEW lf \in LogFiles, NEW df \in DbFiles, AsyncSetup(lf, df)
    PROVE  SensorsShowGlobals'
<1> DEFINE log == ReadLogSettings(lf)
           raises == LogRaises(log)
           db == ReadDbSettings(df)
<1>1. phase' = "returned" => ~raises
    BY DEF AsyncSetup
<1>2. hub'[LogSensor] = IF log # None THEN Sensor("1", log) ELSE Sensor(0, <<>>)
    BY SensorsDistinct, Zenon DEF AsyncSetup
<1>3. ~raises => hub'[DbSensor] = Sensor("0", db)
    BY SensorsDistinct, Zenon DEF AsyncSetup
<1>4. logInfo' = log /\ (~raises => dbInfo' = db)
    BY DEF AsyncSetup
<1>5. ~raises => levels' = IF log = None THEN {} ELSE {log.logLevel}
    BY DEF AsyncSetup
<1> QED
    BY <1>1, <1>2, <1>3, <1>4, <1>5 DEF SensorsShowGlobals

\* After a setup that returned, the settings sensors show the globals and
\* the logger was asked for the level the log settings hold
\* (SensorsShowGlobals), for every content of the settings files and every
\* value the log global had before.
THEOREM SensorsShowGlobalsHolds == Spec => []SensorsShowGlobals
<1>1. Init => SensorsShowGlobals
    BY DEF Init, SensorsShowGlobals
<1>2. SensorsShowGlobals /\ [Next]_vars => SensorsShowGlobals'
    <2> SUFFICES ASSUME SensorsShowGlobals, [Next]_vars PROVE SensorsShowGlobals'
        OBVIOUS
    <2>1. ASSUME NEW lf \in LogFiles, NEW df \in DbFiles, AsyncSetup(lf, df)
          PROVE  SensorsShowGlobals'
        BY <2>1, SetupShowsGlobals
    <2>2. ASSUME NEW p \in Platforms, RunTask(p) PROVE SensorsShowGlobals'
        BY <2>2 DEF RunTask, SensorsShowGlobals
    <2>3. CASE UNCHANGED vars
        BY <2>3 DEF vars, SensorsShowGlobals
    <2> QED
        BY <2>1, <2>2, <2>3 DEF Next
<1> QED
    BY <1>1, <1>2, PTL DEF Spec

\* Once set, whether from a file with or without the keys or from the
\* fallback for an unreadable file, the DB settings name the recorder's
\* include and exclude filters (DbSettingsComplete).
THEOREM DbSettingsCompleteHolds == Spec => []DbSettingsComplete
<1>1. Init => DbSettingsComplete
    BY DEF Init, DbSettingsComplete
<1>2. ASSUME NEW df PROVE {"dbInclude", "dbExclude"} \subseteq DOMAIN ReadDbSettings(df)
    BY DEF ReadDbSettings, DbFallback, WithDefaults, DbDefaults
<1>3. DbSettingsComplete /\ [Next]_vars => DbSettingsComplete'
    <2> SUFFICES ASSUME DbSettingsComplete, [Next]_vars PROVE DbSettingsComplete'
        OBVIOUS
    <2>1. ASSUME NEW lf \in LogFiles, NEW df \in DbFiles, AsyncSetup(lf, df)
          PROVE  DbSettingsComplete'
        <3>1. dbInfo' = dbInfo \/ dbInfo' = ReadDbSettings(df)
            BY <2>1 DEF AsyncSetup
        <3> QED
            BY <3>1, <1>2 DEF DbSettingsComplete
    <2>2. ASSUME NEW p \in Platforms, RunTask(p) PROVE DbSettingsComplete'
        BY <2>2 DEF RunTask, DbSettingsComplete
    <2>3. CASE UNCHANGED vars
        BY <2>3 DEF vars, DbSettingsComplete
    <2> QED
        BY <2>1, <2>2, <2>3 DEF Next
<1> QED
    BY <1>1, <1>3, PTL DEF Spec
====
