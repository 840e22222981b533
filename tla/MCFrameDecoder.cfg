SPECIFICATION FairDecoderSpec
CONSTANTS
    Scripts <- MCScripts
    Types = {"CHUNK", "ACK", "0x7E"}
    KnownTypes = {"CHUNK", "ACK"}
    MaxPayload = 2
    kHeaderSize = 2
    NoHeader = NoHeader
INVARIANT DecoderTypeOK
PROPERTIES
    ImplementsFrameStream
    EveryFrameSeen
CHECK_DEADLOCK FALSE
