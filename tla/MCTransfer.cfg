SPECIFICATION TransferSpec
CONSTANTS
    a = a
    b = b
    Zero = Zero
    None = None
    Malformed = Malformed
    DestPath = DestPath
    OtherPath = OtherPath
    kProtocolVersion = 1
    Values = {Zero, a, b}
    PeerFrames <- HonestFrames
    WriteModes = {"buffered", "direct"}
    MaxKills = 1
    MaxFaults = 0
    MaxChunks = 2
    Sources <- MCSources
    ChunkSize = 2
    U32 = 65536
    MaxData = 2
    MaxHashes = 2
    Window = 2
    MaxDrops = 1
    MaxEdits = 1
INVARIANTS
    TransferTypeOK
    KillLosesOneChunk
PROPERTIES
    SuccessMeansDelivered
    ImplementsReceiver
