SPECIFICATION ResumeSpec
CONSTANTS
    m1 = m1
    m2 = m2
    NoState = NoState
    Ids = {m1, m2}
    Counts = {0, 9}
    Indices = {0, 8, 9}
    InitialFiles <- MCInitialFiles
    kMagic = "FTXS"
    kVersion = 1
    U32 = 65536
    MaxFaults = 1
INVARIANT BitmapCovers
PROPERTIES
    MarkIsExact
    ImplementsResumeStore
