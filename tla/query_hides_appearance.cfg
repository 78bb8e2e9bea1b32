CONSTANTS
    Idx = {1, 2}
    Vrfs <- CoreVrfs
    DefaultVrf = "default"
    NamedVrfs <- CoreVrfs
    Queriers = {q1}
    IfKind <- QueryKind
    NoKind = NoKind
    Slaves <- QuerySlaves
    Reserved = {}
    Vetoed = {}
    Mtus = {1500}
    MaxKernelOps = 2
    MaxMaskOps = 0
    MaxQueries = 1
SPECIFICATION Spec
INVARIANT QuiescentSubscriberCoherent
CHECK_DEADLOCK FALSE
