CONSTANTS
    n1 = n1
    n2 = n2
    n3 = n3
    NoNode = NoNode
    Nodes <- MCNodes
    Deps <- MCDeps
    Bufs <- MCBufs
    MaxCp = 3
    MaxMods = 2
    MaxThrottle = 1
    MinThrottle = 1

SPECIFICATION Spec

INVARIANTS
    WbTypeOK
    CpPersisted
    DependencyOrder
    SlotHoldsOpenCp

PROPERTIES
    FlushCompletes
