CONSTANTS
    Missing = Missing
    None = None
    Include = Include
    Exclude = Exclude
    IncludeDefault = Include
    ExcludeDefault = Exclude
    Sensors <- MCSensors
    Groups <- MCGroups
    LogFiles <- MCLogFiles
    DbFiles <- MCDbFiles
    PriorLogInfo <- MCPriorLogInfo
SPECIFICATION Spec
INVARIANT
    DbSettingsAlwaysSet
CHECK_DEADLOCK FALSE
