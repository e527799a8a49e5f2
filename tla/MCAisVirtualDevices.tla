------------------------- MODULE MCAisVirtualDevices -------------------------
EXTENDS AisVirtualDevices

CONSTANTS Include, Exclude

MCSensors == {"sensor.version_info", "sensor.ais_speech_status"}
MCGroups == {"group.day_info", "group.ais_favorites"}
\* A log settings file with a level, one without, no file.
MCLogFiles == {Missing, [logLevel |-> "info"], [logDrive |-> "usb"]}
\* DB settings files: empty, with the logbook hidden, with an engine and the
\* logbook shown, with a one-character engine, and no file.
MCDbFiles ==
    {Missing, <<>>, [dbShowLogbook |-> FALSE],
     [dbShowLogbook |-> TRUE, dbEngine |-> "mysql"], [dbEngine |-> "x"]}
MCPriorLogInfo == {None, [logLevel |-> "warning"]}
====
