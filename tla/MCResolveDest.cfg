SPECIFICATION ResolveSpec
CONSTANTS
    Roots <- MCRoots
    Sources <- MCSources
    Outs <- MCOuts
    NoOut = NoOut
    Rejected = Rejected
    MaxParts = 3
INVARIANTS
    UnderRoot
    OthersAccepted
CHECK_DEADLOCK FALSE
