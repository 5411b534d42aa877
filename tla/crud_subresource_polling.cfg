\* A subresource with polling configured and an API that does its part.
\* Terraform may stop for good: nothing is configured and nothing is tracked.
CONSTANTS
    Null = Null
    Ids = {i1, i2}
    Props = {name, kind}
    Vals = {v1, v2}
    Immutable = {kind}
    ForceNew = {}
    Working = {"working"}
    Removing = {"removing"}
    Ready = {"ready"}
    Broken = {"broken"}
    Faults = {}
    Budget = 0
    Supported = {"PUT", "DELETE"}
    Polled <- AllAsync
    PollTarget = {"ready"}
    PollPending = {"working", "removing"}
    NParents = 1
SPECIFICATION Spec
CHECK_DEADLOCK FALSE
PROPERTIES
    PollEndsForAReason
