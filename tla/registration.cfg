\* Collisions, nesting, regions, data sources: every document, every order.
\* The provider is put together once.
CONSTANTS
    Versions <- MCVersions
    Params <- MCParams
    Underscored <- MCUnderscored
    PartsOf <- MCPartsOf
    Beginnings <- MCBeginnings
    Documents <- AllDocuments
SPECIFICATION Spec
CHECK_DEADLOCK FALSE
INVARIANTS
    WalkOrderIsInvisible
    PairsExcluded
    StartsUnlessRefused
    InstancesFollowResources
    ParametersAreParents
