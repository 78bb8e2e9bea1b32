CONSTANTS
    Idx = {3}
    Vrfs <- TwoVrfs
    DefaultVrf = "default"
    NamedVrfs <- TwoVrfs
    Queriers = {}
    IfKind <- TwoKind
    NoKind = NoKind
    Slaves <- TwoSlaves
    Reserved = {}
    Vetoed = {}
    Mtus = {1500}
    MaxKernelOps = 3
    MaxMaskOps = 0
    MaxQueries = 0
SPECIFICATION Spec
INVARIANT VrfTypeIsolation
CHECK_DEADLOCK FALSE
