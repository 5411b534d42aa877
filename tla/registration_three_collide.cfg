\* Three resources with one name.
\* The provider is put together once.
CONSTANTS
    Versions <- MCVersions
    Params <- MCParams
    Underscored <- MCUnderscored
    PartsOf <- MCPartsOf
    Beginnings <- MCBeginnings
    Documents <- Colliding
SPECIFICATION Spec
CHECK_DEADLOCK FALSE
INVARIANTS
    CollisionsExcluded
