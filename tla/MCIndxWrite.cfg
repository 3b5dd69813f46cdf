CONSTANTS
    A = A
    B = B
    C = C
    MaxLba = 7
    ReqLba = 2
    ReqBlks <- MCReqBlks
    Leaves <- MCLeaves
    LeafOf <- MCLeafOf
    MaxCp = 4
    Fixes <- MCFixesAll

SPECIFICATION Spec

INVARIANTS
    IwTypeOK
    RetryResolvesMismatch
    IndexMatchesRequest
