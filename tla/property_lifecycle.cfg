\* Every kind of property, with everything that may become of it.
\* Create, read, configure and edit go on for ever.
CONSTANTS
    Schemas <- AllSchemas
    ConfigValues <- MCConfigValues
    RemoteValues <- MCRemoteValues
    Others = {"o1", "o2"}
SPECIFICATION Spec
INVARIANTS
    NoDiffAfterApply
    StateTellsTheTruth
    ComparableAttempts
PROPERTIES
    RefreshKeepsOrder
    RepeatsAreKept
    UpdatesKeepFrozen
