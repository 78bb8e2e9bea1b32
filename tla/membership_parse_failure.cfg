SPECIFICATION Spec
CONSTANTS
    Callers = {c1}
    Bridges = {1}
    Members = {3}
    MaxCalls = 1
    MaxKernelOps = 2
INVARIANT MembershipRoundTrip
CHECK_DEADLOCK FALSE
