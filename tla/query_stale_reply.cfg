CONSTANTS
    Idx = {1, 2, 3}
    Vrfs <- CoreVrfs
    DefaultVrf = "default"
    NamedVrfs <- CoreVrfs
    Queriers = {q1}
    IfKind <- BondKind
    NoKind = NoKind
    Slaves <- BondSlaves
    Reserved = {}
    Vetoed = {}
    Mtus = {1500, 9000}
    MaxKernelOps = 3
    MaxMaskOps = 0
    MaxQueries = 1
SPECIFICATION Spec
INVARIANT QuiescentCacheCoherent
CHECK_DEADLOCK FALSE
