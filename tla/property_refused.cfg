\* Every kind of property but lists whose order means nothing.
\* Create, read, configure and edit go on for ever.
CONSTANTS
    Schemas <- OrderedSchemas
    ConfigValues <- MCConfigValues
    RemoteValues <- MCRemoteValues
    Others = {"o1", "o2"}
SPECIFICATION Spec
INVARIANTS
    OnlyAttemptsAreRefused
