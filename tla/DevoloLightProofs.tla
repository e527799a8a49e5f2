-------------------------- MODULE DevoloLightProofs --------------------------
(***************************************************************************)
(* Proofs about the devolo dimmer light, for every set of switches,       *)
(* brightness arguments, local levels and bound on undelivered reports.   *)
(*                                                                         *)
(* BrightnessRoundTrip is about the cache once the inbox is empty, and     *)
(* the cache is then the last report delivered.  That this report is the  *)
(* level turn_on set needs two facts: the newest pending report, or the    *)
(* cache when none is pending, is the device's level (Synced), and that    *)
(* level is still the one turn_on asked for (CmdLevel).                    *)
(***************************************************************************)
EXTENDS DevoloLight, SequenceTheorems, TLAPS

\* What the entity will cache once every pending report is delivered.
Eventual(l) == IF inbox[l] = <<>> THEN value[l] ELSE inbox[l][Len(inbox[l])]

\* Reports are sent in the order the device takes its levels, so the newest
\* one pending is the device's level.
Synced == \A l \in Lights : Eventual(l) = level[l]

IInv == TypeOK /\ Synced

Cmds == [kind : {"none", "on", "off"}, b : 0..255]

\* turn_on asks for a level the multi-level switch accepts, for every
\* brightness 1..255: round(b / 255 * 100) never exceeds 100.
LEMMA LevelOfRange ==
    ASSUME NEW b \in 1..255
    PROVE  LevelOf(b) \in Levels
<1> DEFINE q == (b * 100) \div 255
           r == (b * 100) % 255
<1>1. q \in 0..100 /\ (q = 100 => r = 0)
    OBVIOUS
<1>2. LevelOf(b) = IF 2 * r < 255 \/ (2 * r = 255 /\ q % 2 = 0) THEN q ELSE q + 1
    BY DEF LevelOf, RoundHalfEven
<1> QED
    BY <1>1, <1>2 DEF Levels

\* turn_on followed by the brightness property loses at most one step:
\* round(round(b / 255 * 100) / 100 * 255) is within 1 of b, for every
\* brightness 1..255.
LEMMA RoundTripArith ==
    ASSUME NEW b \in 1..255
    PROVE  Brightness(LevelOf(b)) \in b - 1 .. b + 1
<1> DEFINE q == (b * 100) \div 255
           r == (b * 100) % 255
<1>1. LevelOf(b) = IF 2 * r < 255 \/ (2 * r = 255 /\ q % 2 = 0) THEN q ELSE q + 1
    BY DEF LevelOf, RoundHalfEven
<1>2. ASSUME NEW v \in {q, q + 1}, v = LevelOf(b)
      PROVE  Brightness(v) \in b - 1 .. b + 1
    <2> DEFINE p == (v * 255) \div 100
               s == (v * 255) % 100
    <2>1. Brightness(v) = IF 2 * s < 100 \/ (2 * s = 100 /\ p % 2 = 0) THEN p ELSE p + 1
        BY DEF Brightness, RoundHalfEven
    <2>2. b * 100 = 255 * q + r /\ r \in 0..254
        OBVIOUS
    <2>3. v * 255 = 100 * p + s /\ s \in 0..99
        <3>1. v \in Int
            BY <1>2
        <3> QED
            BY <3>1
    <2>4. (v = q => 2 * r <= 255) /\ (v = q + 1 => 2 * r >= 255)
        BY <1>1, <1>2
    <2>5. v \in Int /\ p \in Int /\ q \in Int
        BY <1>2
    <2>6. r \in 0..254 /\ s \in 0..99 /\ b * 100 = 255 * q + r /\ v * 255 = 100 * p + s
        BY <2>2, <2>3
    <2>7. \/ v = q /\ 2 * r <= 255
          \/ v = q + 1 /\ 2 * r >= 255
        BY <1>2, <2>4
    <2> HIDE DEF p, s, q, r
    <2>8. (IF 2 * s < 100 \/ (2 * s = 100 /\ p % 2 = 0) THEN p ELSE p + 1) \in b - 1 .. b + 1
        <3>1. CASE v = q /\ 2 * r <= 255
            <4>1. 100 * p + s = 100 * b - r
                BY <2>5, <2>6, <3>1
            <4>2. p \in b - 2 .. b /\ (p = b - 2 => 2 * s > 100)
                BY <2>5, <2>6, <3>1, <4>1
            <4> QED
                BY <2>5, <2>6, <4>2
        <3>2. CASE v = q + 1 /\ 2 * r >= 255
            <4>1. 100 * p + s = 100 * b + 255 - r
                BY <2>5, <2>6, <3>2
            <4>2. p \in b .. b + 1 /\ (p = b + 1 => 2 * s < 100)
                BY <2>5, <2>6, <3>2, <4>1
            <4> QED
                BY <2>5, <2>6, <4>2
        <3> QED
            BY <2>7, <3>1, <3>2
    <2> QED
        BY <2>1, <2>8
<1> QED
    BY <1>1, <1>2

\* A level is on exactly when its brightness is positive: is_on and
\* brightness of the same _value agree.
LEMMA OnIffBrightArith ==
    ASSUME NEW v \in Levels
    PROVE  IsOn(v) <=> Brightness(v) > 0
BY DEF Levels, IsOn, Brightness, RoundHalfEven

\* The device applying a level and reporting it, with the command history
\* kept in its type and the cache untouched, keeps the invariant.
LEMMA ReportIInv ==
    ASSUME IInv, NEW l \in Lights, NEW v \in Levels,
           Len(inbox[l]) < MaxPending, Report(l, v),
           cmd' \in [Lights -> Cmds], value' = value
    PROVE  IInv'
<1> USE PendingAssumption
<1>1. inbox[l] \in Seq(Levels)
    BY DEF IInv, TypeOK
<1>2. /\ Append(inbox[l], v) \in Seq(Levels)
      /\ Len(Append(inbox[l], v)) = Len(inbox[l]) + 1
      /\ Append(inbox[l], v) # <<>>
      /\ Append(inbox[l], v)[Len(inbox[l]) + 1] = v
    BY <1>1, AppendProperties
<1>3. TypeOK'
    <2>1. level' \in [Lights -> Levels] /\ last' \in [Lights -> Levels \ {0}]
        BY DEF IInv, TypeOK, Report
    <2>2. inbox' \in [Lights -> Seq(Levels)]
        BY <1>2 DEF IInv, TypeOK, Report
    <2>3. \A m \in Lights : Len(inbox'[m]) <= MaxPending
        BY <1>2 DEF IInv, TypeOK, Report
    <2> QED
        BY <2>1, <2>2, <2>3 DEF IInv, TypeOK, Cmds
<1>4. Synced'
    <2> SUFFICES ASSUME NEW m \in Lights PROVE Eventual(m)' = level'[m]
        BY DEF Synced
    <2>1. CASE m = l
        BY <1>2, <2>1 DEF IInv, TypeOK, Report, Eventual
    <2>2. CASE m # l
        BY <2>2 DEF IInv, Synced, Report, Eventual
    <2> QED
        BY <2>1, <2>2
<1> QED
    BY <1>3, <1>4 DEF IInv

\* Delivering the oldest report of a non-empty inbox: what remains is a
\* sequence no longer than before, whose newest report is the newest one
\* of the inbox; when nothing remains, the delivered report was the newest.
LEMMA DeliverSeq ==
    ASSUME NEW S, NEW s \in Seq(S), s # <<>>
    PROVE  /\ Head(s) \in S
           /\ Tail(s) \in Seq(S)
           /\ Tail(s) = <<>> => Head(s) = s[Len(s)]
           /\ Tail(s) # <<>> => Tail(s)[Len(Tail(s))] = s[Len(s)]
           /\ \A k \in Nat : Len(s) <= k => Len(Tail(s)) <= k
<1>1. /\ Head(s) \in S
      /\ Tail(s) \in Seq(S)
      /\ Len(Tail(s)) = Len(s) - 1
      /\ \A i \in 1 .. Len(Tail(s)) : Tail(s)[i] = s[i + 1]
    BY HeadTailProperties
<1>2. PICK n \in Nat \ {0} : n = Len(s)
    BY EmptySeq, LenProperties
<1>3. Tail(s) = <<>> => Head(s) = s[Len(s)]
    <2>1. PICK t \in Nat : t = Len(Tail(s))
        BY <1>1, LenProperties
    <2>2. t = n - 1
        BY <1>1, <1>2, <2>1
    <2>3. Tail(s) = <<>> => t = 0
        BY <2>1, EmptySeq, Zenon
    <2>4. t = 0 => n = 1
        <3>1. n \in Int /\ t \in Int
            BY <1>2, <2>1
        <3> QED
            BY <2>2, <3>1
    <2>5. n = 1 => Head(s) = s[Len(s)]
        BY <1>2
    <2> QED
        BY <2>3, <2>4, <2>5, Zenon
<1>4. Tail(s) # <<>> => Tail(s)[Len(Tail(s))] = s[Len(s)]
    <2> SUFFICES ASSUME Tail(s) # <<>> PROVE Tail(s)[Len(Tail(s))] = s[Len(s)]
        OBVIOUS
    <2>1. Len(Tail(s)) \in Nat \ {0}
        BY <1>1, EmptySeq
    <2>2. Len(Tail(s)) \in 1 .. Len(Tail(s)) /\ Len(Tail(s)) + 1 = n
        BY <1>1, <1>2, <2>1
    <2> QED
        BY <1>1, <1>2, <2>2
<1>5. \A k \in Nat : Len(s) <= k => Len(Tail(s)) <= k
    BY <1>1, <1>2
<1> QED
    BY <1>1, <1>3, <1>4, <1>5

\* The initial states satisfy the inductive invariant.
LEMMA InitIInv == Init => IInv
<1> SUFFICES ASSUME Init PROVE IInv
    OBVIOUS
<1> USE BrightnessAssumption, PendingAssumption
<1>1. TypeOK
    <2>1. LocalLevels \subseteq Levels
        BY DEF Levels
    <2>2. level \in [Lights -> Levels] /\ value \in [Lights -> Levels]
        BY <2>1 DEF Init
    <2>3. last \in [Lights -> Levels \ {0}]
        BY <2>1 DEF Init
    <2>4. /\ inbox \in [Lights -> Seq(Levels)]
          /\ \A l \in Lights : Len(inbox[l]) <= MaxPending
        BY EmptySeq DEF Init
    <2>5. cmd \in [Lights -> [kind : {"none", "on", "off"}, b : 0..255]]
        BY DEF Init, NoCmd
    <2> QED
        BY <2>2, <2>3, <2>4, <2>5 DEF TypeOK
<1>2. Synced
    BY DEF Init, Synced, Eventual
<1> QED
    BY <1>1, <1>2 DEF IInv

\* Every step of the hub, the device and the websocket, and every stutter,
\* keeps the invariant.
LEMMA NextIInv == IInv /\ [Next]_vars => IInv'
<1> SUFFICES ASSUME IInv, [Next]_vars PROVE IInv'
    OBVIOUS
<1> USE BrightnessAssumption, SwitchAssumption
<1>1. ASSUME NEW l \in Lights, NEW b \in Brightnesses \cup {None}, TurnOn(l, b)
      PROVE IInv'
    <2>1. cmd' \in [Lights -> Cmds]
        BY <1>1 DEF IInv, TypeOK, TurnOn, Cmds
    <2>2. CASE b # None
        <3>1. LevelOf(b) \in Levels
            BY <2>2, LevelOfRange
        <3>2. Report(l, LevelOf(b)) /\ Len(inbox[l]) < MaxPending /\ value' = value
            BY <1>1, <2>2 DEF TurnOn, SetMultiLevel
        <3> QED
            BY <2>1, <3>1, <3>2, ReportIInv
    <2>3. CASE b = None /\ l \in HasBinary
        <3>1. last[l] \in Levels
            BY DEF IInv, TypeOK, Levels
        <3> QED
            BY <1>1, <2>1, <2>3, <3>1, ReportIInv DEF TurnOn, SetBinary
    <2>4. CASE b = None /\ l \notin HasBinary
        <3>1. 100 \in Levels
            BY DEF Levels
        <3> QED
            BY <1>1, <2>1, <2>4, <3>1, ReportIInv DEF TurnOn, SetMultiLevel
    <2> QED
        BY <2>2, <2>3, <2>4
<1>2. ASSUME NEW l \in Lights, TurnOff(l) PROVE IInv'
    <2>1. cmd' \in [Lights -> Cmds] /\ 0 \in Levels
        BY <1>2 DEF IInv, TypeOK, TurnOff, Cmds, Levels
    <2> QED
        BY <1>2, <2>1, ReportIInv DEF TurnOff, SetBinary, SetMultiLevel
<1>3. ASSUME NEW l \in Lights, NEW v \in LocalLevels, DeviceLocal(l, v)
      PROVE IInv'
    <2>1. cmd' \in [Lights -> Cmds] /\ v \in Levels
        BY <1>3 DEF IInv, TypeOK, DeviceLocal, Cmds, NoCmd, Levels
    <2> QED
        BY <1>3, <2>1, ReportIInv DEF DeviceLocal
<1>4. ASSUME NEW l \in Lights, Deliver(l) PROVE IInv'
    <2>1. inbox[l] \in Seq(Levels) /\ inbox[l] # <<>>
        BY <1>4 DEF IInv, TypeOK, Deliver
    <2>2. /\ Head(inbox[l]) \in Levels
          /\ Tail(inbox[l]) \in Seq(Levels)
          /\ Tail(inbox[l]) = <<>> => Head(inbox[l]) = inbox[l][Len(inbox[l])]
          /\ Tail(inbox[l]) # <<>> =>
                Tail(inbox[l])[Len(Tail(inbox[l]))] = inbox[l][Len(inbox[l])]
          /\ \A k \in Nat : Len(inbox[l]) <= k => Len(Tail(inbox[l])) <= k
        BY <2>1, DeliverSeq, Zenon
    <2>3. TypeOK'
        <3>1. value' \in [Lights -> Levels] /\ inbox' \in [Lights -> Seq(Levels)]
            BY <1>4, <2>2 DEF IInv, TypeOK, Deliver
        <3>2. ASSUME NEW m \in Lights PROVE Len(inbox'[m]) <= MaxPending
            <4>1. CASE m = l
                <5>1. inbox'[m] = Tail(inbox[l]) /\ Len(inbox[l]) <= MaxPending
                    BY <1>4, <4>1 DEF IInv, TypeOK, Deliver
                <5> QED
                    BY <2>2, <5>1, PendingAssumption, Zenon
            <4>2. CASE m # l
                BY <1>4, <4>2 DEF IInv, TypeOK, Deliver
            <4> QED
                BY <4>1, <4>2
        <3> QED
            BY <1>4, <3>1, <3>2 DEF IInv, TypeOK, Deliver
    <2>4. Synced'
        <3> SUFFICES ASSUME NEW m \in Lights PROVE Eventual(m)' = level'[m]
            BY DEF Synced
        <3>1. inbox[l][Len(inbox[l])] = level[l]
            BY <2>1 DEF IInv, Synced, Eventual
        <3>2. CASE m = l /\ Tail(inbox[l]) = <<>>
            BY <1>4, <2>2, <3>1, <3>2 DEF IInv, TypeOK, Deliver, Eventual
        <3>3. CASE m = l /\ Tail(inbox[l]) # <<>>
            BY <1>4, <2>2, <3>1, <3>3 DEF IInv, TypeOK, Deliver, Eventual
        <3>4. CASE m # l
            BY <1>4, <3>4 DEF IInv, Synced, Deliver, Eventual
        <3> QED
            BY <3>2, <3>3, <3>4
    <2> QED
        BY <2>3, <2>4 DEF IInv
<1>5. CASE UNCHANGED vars
    BY <1>5 DEF IInv, TypeOK, Synced, Eventual, vars
<1> QED
    BY <1>1, <1>2, <1>3, <1>4, <1>5 DEF Next

\* After turn_on(brightness=b), and until the hub or the device's buttons
\* change the light again, the device is at the level turn_on asked for.
CmdLevel ==
    \A l \in Lights : cmd[l].kind = "on" /\ cmd[l].b # 0 => level[l] = LevelOf(cmd[l].b)

\* Every step keeps CmdLevel: turn_on with a brightness sets both the level
\* and the command; every other change of the level also changes the
\* command to one CmdLevel says nothing about.
LEMMA NextCmdLevel == IInv /\ CmdLevel /\ [Next]_vars => CmdLevel'
<1> SUFFICES ASSUME IInv, CmdLevel, [Next]_vars PROVE CmdLevel'
    OBVIOUS
<1> USE BrightnessAssumption
<1>1. ASSUME NEW l \in Lights, NEW b \in Brightnesses \cup {None}, TurnOn(l, b)
      PROVE CmdLevel'
    <2>1. CASE b # None
        <3>1. level' = [level EXCEPT ![l] = LevelOf(b)]
              /\ cmd' = [cmd EXCEPT ![l] = [kind |-> "on", b |-> b]]
            BY <1>1, <2>1 DEF TurnOn, SetMultiLevel, Report
        <3> QED
            BY <3>1 DEF CmdLevel, IInv, TypeOK
    <2>2. CASE b = None
        <3>1. cmd' = [cmd EXCEPT ![l] = [kind |-> "on", b |-> 0]]
              /\ \E v \in Int : level' = [level EXCEPT ![l] = v]
            BY <1>1, <2>2 DEF TurnOn, SetMultiLevel, SetBinary, Report, IInv, TypeOK, Levels
        <3> QED
            BY <3>1 DEF CmdLevel, IInv, TypeOK
    <2> QED
        BY <2>1, <2>2
<1>2. ASSUME NEW l \in Lights, TurnOff(l) PROVE CmdLevel'
    <2>1. cmd' = [cmd EXCEPT ![l] = [kind |-> "off", b |-> 0]]
          /\ \E v \in Int : level' = [level EXCEPT ![l] = v]
        BY <1>2 DEF TurnOff, SetMultiLevel, SetBinary, Report
    <2> QED
        BY <2>1 DEF CmdLevel, IInv, TypeOK
<1>3. ASSUME NEW l \in Lights, NEW v \in LocalLevels, DeviceLocal(l, v)
      PROVE CmdLevel'
    BY <1>3 DEF DeviceLocal, Report, NoCmd, CmdLevel, IInv, TypeOK
<1>4. ASSUME NEW l \in Lights, Deliver(l) PROVE CmdLevel'
    BY <1>4 DEF Deliver, CmdLevel
<1>5. CASE UNCHANGED vars
    BY <1>5 DEF CmdLevel, vars
<1> QED
    BY <1>1, <1>2, <1>3, <1>4, <1>5 DEF Next

\* The two readings of the cached _value agree with what the hub asked
\* for, for every brightness 1..255 and every level: once turn_on(brightness
\* = b)'s report has arrived, and until the light is changed again, the
\* brightness property is within 1 of b (BrightnessRoundTrip); and is_on
\* holds exactly when brightness is positive (OnIffBright).
THEOREM BrightnessSafety == Spec => [](BrightnessRoundTrip /\ OnIffBright)
<1>1. Init => CmdLevel
    BY DEF Init, CmdLevel, NoCmd
<1>2. Spec => [](IInv /\ CmdLevel)
    BY <1>1, InitIInv, NextIInv, NextCmdLevel, PTL DEF Spec
<1>3. IInv /\ CmdLevel => BrightnessRoundTrip
    <2> SUFFICES ASSUME IInv, CmdLevel, NEW l \in Lights,
                        cmd[l].kind = "on", cmd[l].b # 0, inbox[l] = <<>>
                 PROVE  Brightness(value[l]) \in cmd[l].b - 1 .. cmd[l].b + 1
        BY DEF BrightnessRoundTrip
    <2>1. value[l] = LevelOf(cmd[l].b)
        BY DEF IInv, Synced, Eventual, CmdLevel
    <2>2. cmd[l].b \in 1..255
        BY DEF IInv, TypeOK
    <2> QED
        BY <2>1, <2>2, RoundTripArith, Zenon
<1>4. IInv => OnIffBright
    <2> SUFFICES ASSUME IInv, NEW l \in Lights PROVE IsOn(value[l]) <=> Brightness(value[l]) > 0
        BY DEF OnIffBright
    <2>1. value[l] \in Levels
        BY DEF IInv, TypeOK
    <2> QED
        BY <2>1, OnIffBrightArith
<1> QED
    BY <1>2, <1>3, <1>4, PTL

\* Levels, last levels and caches stay in 0..100, the commands in their
\* set, and no light has more than MaxPending undelivered reports (TypeOK).
THEOREM TypeCorrect == Spec => []TypeOK
<1>1. IInv => TypeOK
    BY DEF IInv
<1> QED
    BY <1>1, InitIInv, NextIInv, PTL DEF Spec

\* is_on and brightness, read from the same cached _value, agree in every
\* reachable state (OnIffBright), for every brightness and level.
THEOREM OnIffBrightHolds == Spec => []OnIffBright
BY BrightnessSafety, PTL
====
