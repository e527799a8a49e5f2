-------------------------- MODULE MCBrotherSensors --------------------------
EXTENDS BrotherSensors

CONSTANTS t1, t2

\* A status, a toner level, a drum with its ATTRS_MAP entry, the uptime, and
\* a kind of SENSOR_TYPES the printer does not report.
MCSensorTypes == {"status", "black_toner", "drum_remaining_life", "uptime", "fuser_remaining_life"}
MCAttrsMap == [k \in {"drum_remaining_life"} |-> <<"drum_remaining_pages", "drum_counter">>]
MCUptime == "uptime"

\* Polls in which the status, the drum's life, its remaining pages, its counter and the
\* uptime each take two values, in every combination.
Reading(status, life, pages, counter, t) ==
    [k \in {"status", "black_toner", "drum_remaining_life", "drum_remaining_pages",
            "drum_counter", "uptime", "model", "serial"} |->
        CASE k = "status" -> status
          [] k = "black_toner" -> 75
          [] k = "drum_remaining_life" -> life
          [] k = "drum_remaining_pages" -> pages
          [] k = "drum_counter" -> counter
          [] k = "uptime" -> t
          [] OTHER -> k]
MCReadings == { Reading(status, life, pages, counter, t) :
                  status \in {"ready", "printing"}, life \in {80, 90}, pages \in {990, 1000}, counter \in {50, 60}, t \in {t1, t2} }
====
