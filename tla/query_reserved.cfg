CONSTANTS
    Idx = {1, 2}
    Vrfs <- CoreVrfs
    DefaultVrf = "default"
    NamedVrfs <- CoreVrfs
    Queriers = {q1}
    IfKind <- QueryKind
    NoKind = NoKind
    Slaves <- QuerySlaves
    Reserved = {2}
    Vetoed = {}
    Mtus = {1500, 9000}
    MaxKernelOps = 4
    MaxMaskOps = 0
    MaxQueries = 2
SPECIFICATION Spec
INVARIANT TypeOK
INVARIANT ReservedAppearancePublished
CHECK_DEADLOCK FALSE
