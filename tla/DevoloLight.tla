----------------------------- MODULE DevoloLight -----------------------------
(***************************************************************************)
(* The devolo Home Control dimmer light                                    *)
(* (src/homeassistant/components/devolo_home_control/light.py).           *)
(*                                                                         *)
(* The hub calls turn_on and turn_off, which set the device's multi-level *)
(* switch property (0..100 %) or, when the dimmer has one, its binary      *)
(* switch.  The device reports its new level back over the gateway's       *)
(* websocket; the entity's cached _value, from which brightness and is_on *)
(* are computed, changes only when a report is delivered.  The device's    *)
(* own buttons change its level too.                                       *)
(***************************************************************************)
EXTENDS Integers, Sequences

CONSTANTS
    Switches,      \* the multi-level switch properties of the gateway's devices
    SwitchType,    \* SwitchType[s]: "dimmer", or the type of another switch
    HasBinary,     \* the dimmers with a binary switch property beside them
    Brightnesses,  \* the brightness arguments turn_on is called with (1..255)
    LocalLevels,   \* levels the device's own buttons set
    MaxPending,    \* bound on undelivered websocket reports per light
    None           \* turn_on without a brightness argument

ASSUME SwitchAssumption ==
    /\ SwitchType \in [Switches -> {"dimmer", "shutter", "other"}]
    /\ HasBinary \subseteq Switches
ASSUME BrightnessAssumption ==
    /\ Brightnesses \subseteq 1..255 /\ LocalLevels \subseteq 0..100
    /\ None \notin Int
ASSUME PendingAssumption == MaxPending \in Nat \ {0}

\* async_setup_entry: one light entity per multi-level switch of type dimmer.
Lights == {s \in Switches : SwitchType[s] = "dimmer"}

\* Python's round() of n / d for n, d >= 0: to the nearest integer, ties to
\* the even one.  Exact for the quotients here: none of b / 255 * 100 and
\* v / 100 * 255 lies within a float's error of a half it does not equal.
\* The quotient is rounded down below the half, and at the half when even.
RoundHalfEven(n, d) ==
    LET q == n \div d
        r == n % d
    IN IF 2 * r < d \/ (2 * r = d /\ q % 2 = 0) THEN q ELSE q + 1

\* Mutants for the mutation runs: an integer division before the scaling,
\* and int() in place of round() in turn_on, and no scaling at all.
BrightnessTruncated(v) == (v \div 100) * 255
LevelOfTruncated(b) == (b * 100) \div 255
LevelOfUnscaled(b) == b

\* The brightness property: round(self._value / 100 * 255).
Brightness(v) == RoundHalfEven(v * 255, 100)

\* The is_on property: bool(self._value).
IsOn(v) == v # 0

\* The level turn_on asks for: round(kwargs[ATTR_BRIGHTNESS] / 255 * 100).
LevelOf(b) == RoundHalfEven(b * 100, 255)

VARIABLES
    level,   \* level[l]: the device's multi-level value
    last,    \* last[l]: the level the device returns to when switched on
    value,   \* value[l]: the entity's cached _value
    inbox,   \* inbox[l]: reports sent by the device, not yet delivered
    cmd      \* cmd[l]: the hub's last command since the device last acted
             \* on its own (a history variable for the properties)

vars == <<level, last, value, inbox, cmd>>

NoCmd == [kind |-> "none", b |-> 0]

Init ==
    /\ level \in [Lights -> LocalLevels]
    /\ last \in [Lights -> LocalLevels \ {0}]
    /\ value = level
    /\ inbox = [l \in Lights |-> <<>>]
    /\ cmd = [l \in Lights |-> NoCmd]

\* The device applies a new level and reports it.
Report(l, v) ==
    /\ level' = [level EXCEPT ![l] = v]
    /\ last' = [last EXCEPT ![l] = IF v > 0 THEN v ELSE @]
    /\ inbox' = [inbox EXCEPT ![l] = Append(@, v)]

\* _multi_level_switch_property.set(v)
SetMultiLevel(l, v) == Report(l, v)

\* _binary_switch_property.set(on): off drops to 0, on returns to the last
\* level the device knows (the comment at turn_on).
SetBinary(l, on) == Report(l, IF on THEN last[l] ELSE 0)

TurnOn(l, b) ==
    /\ Len(inbox[l]) < MaxPending
    /\ IF b # None THEN SetMultiLevel(l, LevelOf(b))
       ELSE IF l \in HasBinary THEN SetBinary(l, TRUE)
       ELSE SetMultiLevel(l, 100)
    /\ cmd' = [cmd EXCEPT ![l] = [kind |-> "on", b |-> IF b = None THEN 0 ELSE b]]
    /\ UNCHANGED value

TurnOff(l) ==
    /\ Len(inbox[l]) < MaxPending
    /\ IF l \in HasBinary THEN SetBinary(l, FALSE) ELSE SetMultiLevel(l, 0)
    /\ cmd' = [cmd EXCEPT ![l] = [kind |-> "off", b |-> 0]]
    /\ UNCHANGED value

\* Someone uses the device's own buttons.
DeviceLocal(l, v) ==
    /\ Len(inbox[l]) < MaxPending
    /\ Report(l, v)
    /\ cmd' = [cmd EXCEPT ![l] = NoCmd]
    /\ UNCHANGED value

\* The websocket delivers the oldest report; the entity caches it.
Deliver(l) ==
    /\ inbox[l] # <<>>
    /\ value' = [value EXCEPT ![l] = Head(inbox[l])]
    /\ inbox' = [inbox EXCEPT ![l] = Tail(@)]
    /\ UNCHANGED <<level, last, cmd>>

Next ==
    \E l \in Lights :
       \/ \E b \in Brightnesses \cup {None} : TurnOn(l, b)
       \/ TurnOff(l)
       \/ \E v \in LocalLevels : DeviceLocal(l, v)
       \/ Deliver(l)

Spec == Init /\ [][Next]_vars /\ \A l \in Lights : WF_vars(Deliver(l))

-----------------------------------------------------------------------------
Levels == 0..100

TypeOK ==
    /\ level \in [Lights -> Levels]
    /\ last \in [Lights -> Levels \ {0}]
    /\ value \in [Lights -> Levels]
    /\ inbox \in [Lights -> Seq(Levels)]
    /\ \A l \in Lights : Len(inbox[l]) <= MaxPending
    /\ cmd \in [Lights -> [kind : {"none", "on", "off"}, b : 0..255]]

\* A light set with turn_on(brightness=b), and left alone until its report
\* arrives, reports a brightness within 1 of b: the two roundings in
\* turn_on and the brightness property lose at most one step of 255.
BrightnessRoundTrip ==
    \A l \in Lights :
        cmd[l].kind = "on" /\ cmd[l].b # 0 /\ inbox[l] = <<>>
            => Brightness(value[l]) \in cmd[l].b - 1 .. cmd[l].b + 1

\* Home Assistant reads is_on and brightness of the same cached _value: a
\* light that is on never reports brightness 0, and an off light reports 0.
OnIffBright ==
    \A l \in Lights : IsOn(value[l]) <=> Brightness(value[l]) > 0

\* What turn_on promises: after the hub's turn_on, and until the device is
\* used by hand, the light is on.  turn_on(brightness=1) sets the level to
\* round(1 / 255 * 100) = 0, which switches the dimmer off.
TurnOnLeavesOn ==
    \A l \in Lights : cmd[l].kind = "on" => level[l] > 0
====
