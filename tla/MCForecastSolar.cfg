CONSTANTS
    e1 = e1
    e2 = e2
    key1 = key1
    NoKey = NoKey
    NoCoord = NoCoord
    Entries <- MCEntries
    ApiKeys <- MCApiKeys
    MaxUpdates = 2
SPECIFICATION Spec
INVARIANTS
    StoredIffLoaded
PROPERTY
    DataSpec
