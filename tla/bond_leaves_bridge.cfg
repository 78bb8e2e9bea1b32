CONSTANTS
    Idx = {1, 2, 3}
    Vrfs <- CoreVrfs
    DefaultVrf = "default"
    NamedVrfs <- CoreVrfs
    Queriers = {}
    IfKind <- BondKind
    NoKind = NoKind
    Slaves <- BondBridgeSlaves
    Reserved = {}
    Vetoed = {}
    Mtus = {1500}
    MaxKernelOps = 4
    MaxMaskOps = 0
    MaxQueries = 0
SPECIFICATION Spec
INVARIANT NoNullDeref
CHECK_DEADLOCK FALSE
