---------------------------- MODULE MCDevoloLight ----------------------------
EXTENDS DevoloLight, TLC

\* Two dimmers, one with a binary switch beside it, and a shutter that the
\* setup must not turn into a light.
CONSTANTS d1, d2, sh

MCSwitches == {d1, d2, sh}
MCSwitchType == (d1 :> "dimmer") @@ (d2 :> "dimmer") @@ (sh :> "shutter")
MCHasBinary == {d1}

\* The boundary brightnesses and those whose percentages round differently.
MCSomeBrightnesses == {1, 2, 4, 5, 128, 254, 255}
MCLocalLevels == {0, 40}
====
