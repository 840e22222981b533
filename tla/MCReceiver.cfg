SPECIFICATION Spec
CONSTANTS
    a = a
    b = b
    Zero = Zero
    None = None
    Malformed = Malformed
    DestPath = DestPath
    OtherPath = OtherPath
    kProtocolVersion = 1
    Values = {Zero, a, b}
    PeerFrames <- MCPeerFrames
    WriteModes = {"buffered", "direct"}
    MaxKills = 2
    MaxFaults = 1
    MaxChunks = 3
INVARIANTS
    TypeOK
    RecordedIsHeld
    SidecarOwnsPartial
    HashedIsWritten
PROPERTIES
    Integrity
    AckMeansDelivered
    NoLostGround
