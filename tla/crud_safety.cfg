\* Every kind of mishap, two of them in one behaviour; two objects at most.
\* Terraform may stop for good: nothing is configured and nothing is tracked.
CONSTANTS
    Null = Null
    Ids = {i1, i2}
    Props = {name, kind}
    Vals = {v1, v2}
    Immutable = {kind}
    ForceNew = {}
    Working = {"working"}
    Removing = {"removing"}
    Ready = {"ready"}
    Broken = {"broken"}
    Faults <- Everything
    Budget = 2
    Supported = {"PUT", "DELETE"}
    Polled <- AllAsync
    PollTarget = {"ready"}
    PollPending = {"working", "removing"}
    NParents = 0
SPECIFICATION Spec
CHECK_DEADLOCK FALSE
INVARIANTS
    TypeOK
    IInv
    ValuesHold
    NoLeak
    StateMirrorsObject
    AbortRollsBack
    SuccessMeansDone
PROPERTIES
    ImmutableKept
    PollEndsForAReason
    ImplementsHandle
