SPECIFICATION Spec
CONSTANTS
    Callers = {c1, c2}
    Bridges = {1, 2}
    Members = {3}
    MaxCalls = 2
    MaxKernelOps = 3
INVARIANT TypeOK
PROPERTY MembershipCheckSpec
CHECK_DEADLOCK FALSE
