SPECIFICATION Spec
CONSTANTS
    a = a
    b = b
    Zero = Zero
    None = None
    Malformed = Malformed
    DestPath = DestPath
    OtherPath = OtherPath
    kProtocolVersion = 1
    Values = {Zero, a, b}
    PeerFrames <- MCPeerFrames
    WriteModes = {"buffered"}
    MaxKills = 1
    MaxFaults = 0
    MaxChunks = 3
INVARIANT BitMeansOnDisk
