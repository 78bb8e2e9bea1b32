CONSTANTS
    Idx = {1, 2, 3, 4}
    Vrfs <- CoreVrfs
    DefaultVrf = "default"
    NamedVrfs <- CoreVrfs
    Queriers = {}
    IfKind <- CoreKind
    NoKind = NoKind
    Slaves <- CoreSlaves
    Reserved = {}
    Vetoed = {}
    Mtus = {1500, 9000}
    MaxKernelOps = 6
    MaxMaskOps = 0
    MaxQueries = 0
SPECIFICATION Spec
INVARIANT TypeOK
INVARIANT QuiescentCacheCoherent
 
CHECK_DEADLOCK FALSE
INVARIANT OneBridgePerPort
