\* Every setup below, two concurrent calls, two parents, identifiers that are
\* empty or have a slash.  Terraform may make no call.
CONSTANTS
    Null = Null
    Callers = {c1, c2}
    Setups <- AllSetups
    Ids = {"1", "2", "a/b", ""}
    Slashed = {"a/b"}
    Params = {"{id}"}
    TerraformName <- MCTerraformName
SPECIFICATION FairSpec
CHECK_DEADLOCK FALSE
INVARIANTS
    ParentsInPlace
    HostsAreMeant
    CredentialsAreMeant
PROPERTIES
    CallsEnd
