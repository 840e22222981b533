SPECIFICATION FairTransferSpec
CONSTANTS
    a = a
    b = b
    Zero = Zero
    None = None
    Malformed = Malformed
    DestPath = DestPath
    OtherPath = OtherPath
    kProtocolVersion = 1
    Values = {Zero, a, b}
    PeerFrames <- HonestFrames
    WriteModes = {"buffered", "direct"}
    MaxKills = 0
    MaxFaults = 0
    MaxChunks = 2
    Sources <- MCLimitSources
    ChunkSize = 2
    U32 = 4
    MaxData = 2
    MaxHashes = 2
    Window = 2
    MaxDrops = 2
    MaxEdits = 1
INVARIANT NoSpuriousError
PROPERTIES
    RetryDelivers
    SuccessMeansWhole
