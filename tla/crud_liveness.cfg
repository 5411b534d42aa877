\* Fair runs: two mishaps of any kind, with an object to spare for each.  A
\* change of kind is a replacement.  No pending status is listed, so that a
\* failed job is polled until the operation times out.
\* Terraform may stop for good: nothing is configured and nothing is tracked.
CONSTANTS
    Null = Null
    Ids = {i1, i2, i3}
    Props = {name, kind}
    Vals = {v1, v2}
    Immutable = {}
    ForceNew = {kind}
    Working = {"working"}
    Removing = {"removing"}
    Ready = {"ready"}
    Broken = {"broken"}
    Faults <- Everything
    Budget = 2
    Supported = {"PUT", "DELETE"}
    Polled <- AllAsync
    PollTarget = {"ready"}
    PollPending = {}
    NParents = 0
SPECIFICATION FairSpec
CHECK_DEADLOCK FALSE
PROPERTIES
    OperationEnds
    Converges
