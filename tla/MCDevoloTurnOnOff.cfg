CONSTANTS
    d1 = d1
    d2 = d2
    sh = sh
    None = None
    Switches <- MCSwitches
    SwitchType <- MCSwitchType
    HasBinary <- MCHasBinary
    Brightnesses <- MCSomeBrightnesses
    LocalLevels <- MCLocalLevels
    MaxPending = 2
SPECIFICATION Spec
INVARIANT
    TurnOnLeavesOn
