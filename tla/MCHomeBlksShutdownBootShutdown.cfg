CONSTANTS
    Vols = {v1, v2}
    InitVols = {v1}
    Reqs = {r1}
    Removers = {d1, d2}
    Rec = rec
    RefMod = 8
    Fixes <- MCFixesNoInitYield
SPECIFICATION Spec
PROPERTIES
    ShutdownCompletes
CHECK_DEADLOCK FALSE
