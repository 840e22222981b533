SPECIFICATION CodecsSpec
CONSTANTS
    Radix = 2
    U8 = 1
    U16 = 2
    U32 = 2
    U64 = 2
    kHashSize = 1
    Malformed = Malformed
    Thrown = Thrown
    MaxResize = 2
    Sent <- MCSent
    Strays <- MCStrays
    RejectedPath <- MCRejectedPath
    InvalidPath = 1
    MaxText = 5
    MaxStray = 14
    Lengths <- MCLengths
    Damages <- MCDamages
INVARIANTS
    ReceivedAsSent
    AcceptedIsCanonical
    DamageFound
    CrcIsRemainder
CHECK_DEADLOCK FALSE
