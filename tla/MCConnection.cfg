SPECIFICATION ConnectionSpec
CONSTANTS
    Types = {"HELLO", "MANIFEST", "REQ_CHUNKS", "CHUNK", "ACK", "COMPLETE", "ERROR"}
    KnownTypes = {"HELLO", "MANIFEST", "REQ_CHUNKS", "CHUNK", "ACK", "COMPLETE", "ERROR"}
    MaxPayload = 2
    SendLimit = 2
    kHeaderSize = 2
    NoHeader = NoHeader
    Plans <- MCPlans
    ErrorFrame <- MCErrorFrame
    Capacity = 4
    Tls <- MCTls
INVARIANTS
    ReceivedInOrder
    CloseLosesNothing
PROPERTY BothEndsReturn
CHECK_DEADLOCK FALSE
