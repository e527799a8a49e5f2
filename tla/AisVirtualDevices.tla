-------------------------- MODULE AisVirtualDevices --------------------------
(***************************************************************************)
(* Start-up of the AIS virtual devices                                     *)
(* (src/homeassistant/components/ais_virtual_devices/__init__.py).        *)
(*                                                                         *)
(* async_setup contains no await: the event loop runs it as one step.  It *)
(* schedules the ais_dom_device sensor platform, seeds the hub's sensors   *)
(* and remote-control groups, reads the log settings file into the global  *)
(* G_LOG_SETTINGS_INFO and schedules the logger's set_default_level call,  *)
(* reads the DB settings file into G_DB_SETTINGS_INFO, filling in missing  *)
(* keys, and schedules the recorder, logbook and history platforms.  The   *)
(* scheduled tasks run later, in any order.  A settings file is a JSON     *)
(* object, modelled as a function over the keys it has; a missing or       *)
(* unreadable file is Missing.                                             *)
(***************************************************************************)
EXTENDS Naturals, Sequences

CONSTANTS
    Sensors,         \* the sensors and binary sensors seeded at lines 24-61
    Groups,          \* the groups seeded at lines 63-529
    LogFiles,        \* contents the log settings file can have
    DbFiles,         \* contents the DB settings file can have
    PriorLogInfo,    \* values G_LOG_SETTINGS_INFO can have before the setup
    Missing,         \* a file that does not exist or is not valid JSON
    None,            \* Python's None
    IncludeDefault,  \* G_AIS_INCLUDE_DB_DEFAULT
    ExcludeDefault   \* G_AIS_EXCLUDE_DB_DEFAULT_EMPTY

\* The hub's platforms async_setup can schedule.
Platforms == {"ais_dom_device", "recorder", "logbook", "history"}

LogSensor == "sensor.ais_logs_settings_info"
DbSensor == "sensor.ais_db_connection_info"

\* Sensors are the other sensors of lines 24-61: the two settings sensors
\* are not among them.
ASSUME SensorsAssumption == {LogSensor, DbSensor} \cap Sensors = {}

\* A settings sensor's state: its value and the attributes async_set gave.
Sensor(st, attrs) == [state |-> st, attrs |-> attrs]

\* Lines 24-61: the sensors get their first states; the two settings
\* sensors start at 0 without attributes.
SeedSensors ==
    [e \in Sensors \cup {LogSensor, DbSensor} |->
        IF e \in {LogSensor, DbSensor} THEN Sensor(0, <<>>) ELSE "seeded"]

\* Lines 63-529: the remote-control groups get their states.
SeedGroups == [g \in Groups |-> "seeded"]

\* Lines 556-568: the keys the DB settings get a default for, and defaults.
DbDefaults ==
    [dbKeepDays |-> 10, dbShowHistory |-> FALSE, dbShowLogbook |-> FALSE,
     dbInclude |-> IncludeDefault, dbExclude |-> ExcludeDefault]

\* The settings read from a file, with each missing default key added.
WithDefaults(f) ==
    [k \in DOMAIN f \cup DOMAIN DbDefaults |->
        IF k \in DOMAIN f THEN f[k] ELSE DbDefaults[k]]

\* A mutant of the fallback for the mutation runs: dbExclude forgotten.
DbFallbackNoExclude == [dbInclude |-> IncludeDefault]

\* Lines 569-573: the settings when the DB file cannot be read.
DbFallback == [dbInclude |-> IncludeDefault, dbExclude |-> ExcludeDefault]

\* Lines 578-583: the recorder platform is loaded when no recorder is
\* running and the settings name a DB engine longer than one character.
WantsRecorder(db, purge) ==
    /\ ~purge
    /\ "dbEngine" \in DOMAIN db
    /\ Len(db.dbEngine) > 1

VARIABLES
    hub,       \* hub[e]: the state async_set gave entity e, or None
    logInfo,   \* ais_global.G_LOG_SETTINGS_INFO
    dbInfo,    \* ais_global.G_DB_SETTINGS_INFO
    tasks,     \* platforms scheduled and not yet set up
    loaded,    \* platforms set up by the scheduled tasks
    levels,    \* log levels of the logger calls scheduled
    hasPurge,  \* the recorder's purge service exists
    panels,    \* frontend panels registered (hass.data[DATA_PANELS])
    phase      \* "start", then "returned", or "raised" on an exception

vars == <<hub, logInfo, dbInfo, tasks, loaded, levels, hasPurge, panels, phase>>

Entities == Sensors \cup Groups \cup {LogSensor, DbSensor}

Init ==
    /\ hub = [e \in Entities |-> None]
    /\ logInfo \in PriorLogInfo
    /\ dbInfo = None
    /\ tasks = {}
    /\ loaded = {}
    /\ levels = {}
    /\ hasPurge \in BOOLEAN
    /\ panels \in SUBSET {"logbook", "history"}
    /\ phase = "start"

\* Lines 531-538: the file replaces the global when it can be read; else
\* the global keeps the value it had.
ReadLogSettings(lf) == IF lf = Missing THEN logInfo ELSE lf

\* Lines 540-553: the settings sensor shows "1" and the log level is reset
\* from G_LOG_SETTINGS_INFO["logLevel"]; a file without that key raises
\* KeyError here, after the sensor was set.
LogRaises(log) == log # None /\ "logLevel" \notin DOMAIN log

\* Lines 555-575: the DB settings, from the file with defaults or the
\* fallback when the file cannot be read.
ReadDbSettings(df) == IF df = Missing THEN DbFallback ELSE WithDefaults(df)

\* Lines 577-610: the platforms the DB settings ask for.  The logbook and
\* history platforms are asked for when their key is present and their
\* panel is not registered yet.
DbPlatforms(db) ==
    {p \in {"recorder"} : WantsRecorder(db, hasPurge)}
    \cup {p \in {"logbook"} : "dbShowLogbook" \in DOMAIN db /\ "logbook" \notin panels}
    \cup {p \in {"history"} : "dbShowHistory" \in DOMAIN db /\ "history" \notin panels}

\* A mutant of async_setup for the mutation runs: the log level is taken from
\* the global before the file's settings were stored in it.
AsyncSetupStaleLevel(lf, df) ==
    LET log == ReadLogSettings(lf)
        raises == LogRaises(log)
        db == ReadDbSettings(df)
    IN  /\ phase = "start"
        /\ hub' = [e \in Entities |->
                     CASE e = LogSensor ->
                              IF log # None THEN Sensor("1", log) ELSE Sensor(0, <<>>)
                       [] e = DbSensor ->
                              IF raises THEN Sensor(0, <<>>) ELSE Sensor("0", db)
                       [] e \in Sensors -> SeedSensors[e]
                       [] OTHER -> SeedGroups[e]]
        /\ logInfo' = log
        /\ levels' = IF logInfo # None /\ "logLevel" \in DOMAIN logInfo /\ ~raises
                        THEN {logInfo.logLevel} ELSE {}
        /\ dbInfo' = IF raises THEN dbInfo ELSE db
        /\ tasks' = {"ais_dom_device"} \cup (IF raises THEN {} ELSE DbPlatforms(db))
        /\ phase' = IF raises THEN "raised" ELSE "returned"
        /\ UNCHANGED <<loaded, hasPurge, panels>>

\* async_setup (lines 14-612), one step of the event loop.
AsyncSetup(lf, df) ==
    LET log == ReadLogSettings(lf)
        raises == LogRaises(log)
        db == ReadDbSettings(df)
        logState == IF log # None THEN Sensor("1", log) ELSE Sensor(0, <<>>)
        dbState == IF raises THEN Sensor(0, <<>>) ELSE Sensor("0", db)
    IN  /\ phase = "start"
        /\ hub' = [e \in Entities |->
                     CASE e = LogSensor -> logState
                       [] e = DbSensor -> dbState
                       [] e \in Sensors -> SeedSensors[e]
                       [] OTHER -> SeedGroups[e]]
        /\ logInfo' = log
        /\ levels' = IF log # None /\ ~raises THEN {log.logLevel} ELSE {}
        /\ dbInfo' = IF raises THEN dbInfo ELSE db
        /\ tasks' = {"ais_dom_device"} \cup (IF raises THEN {} ELSE DbPlatforms(db))
        /\ phase' = IF raises THEN "raised" ELSE "returned"
        /\ UNCHANGED <<loaded, hasPurge, panels>>

\* A scheduled platform is set up: the recorder brings its purge service,
\* logbook and history register their panels.
RunTask(p) ==
    /\ p \in tasks
    /\ tasks' = tasks \ {p}
    /\ loaded' = loaded \cup {p}
    /\ hasPurge' = (hasPurge \/ p = "recorder")
    /\ panels' = panels \cup ({p} \cap {"logbook", "history"})
    /\ UNCHANGED <<hub, logInfo, dbInfo, levels, phase>>

Next ==
    \/ \E lf \in LogFiles, df \in DbFiles : AsyncSetup(lf, df)
    \/ \E p \in Platforms : RunTask(p)

Spec == Init /\ [][Next]_vars /\ \A p \in Platforms : WF_vars(RunTask(p))

-----------------------------------------------------------------------------
\* After a setup that returned, the two settings sensors show what the
\* globals G_LOG_SETTINGS_INFO and G_DB_SETTINGS_INFO hold, and the logger
\* was asked for exactly the level the log settings sensor shows, whether
\* the settings came from the file or from before the setup.
SensorsShowGlobals ==
    phase = "returned" =>
        /\ hub[LogSensor] = IF logInfo = None THEN Sensor(0, <<>>)
                                              ELSE Sensor("1", logInfo)
        /\ hub[DbSensor] = Sensor("0", dbInfo)
        /\ levels = IF logInfo = None THEN {} ELSE {logInfo.logLevel}

\* Whichever way the DB settings were obtained (a file with or without the
\* keys, or no file), once set they name the recorder's include and exclude
\* filters.
DbSettingsComplete ==
    dbInfo # None => {"dbInclude", "dbExclude"} \subseteq DOMAIN dbInfo

\* What the dbShowLogbook setting is for: the logbook platform is loaded by
\* this setup only when the user chose to show the logbook.  The code tests
\* that the key is present, and fills it in as False when it is not.
LogbookOnlyWhenChosen ==
    "logbook" \in tasks \cup loaded => dbInfo.dbShowLogbook = TRUE

\* What the fallback at lines 569-573 is for: once async_setup has run, the
\* DB settings are set and shown by the DB settings sensor, whatever the
\* files hold.  A log settings file without logLevel raises KeyError at
\* line 551, after the log sensor was set and before the DB settings are
\* read: the recorder is never loaded and the sensor stays at its seed.
DbSettingsAlwaysSet ==
    phase # "start" => dbInfo # None /\ hub[DbSensor].state = "0"
====
