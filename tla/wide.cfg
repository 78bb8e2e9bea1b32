CONSTANTS
    Idx = {1, 2, 4, 5, 6, 7}
    Vrfs <- WideVrfs
    DefaultVrf = "default"
    NamedVrfs <- WideNamed
    Queriers = {}
    IfKind <- WideKind
    NoKind = NoKind
    Slaves <- WideSlaves
    Reserved = {}
    Vetoed <- WideVetoed
    Mtus = {1500, 9000}
    MaxKernelOps = 5
    MaxMaskOps = 1
    MaxQueries = 0
SPECIFICATION Spec
INVARIANT TypeOK
INVARIANT QuiescentCacheCoherent
INVARIANT QuiescentSubscriberCoherent
CHECK_DEADLOCK FALSE
