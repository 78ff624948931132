\* A careful client on small buffers.
SPECIFICATION CarefulSpec
CONSTANTS
    Byte <- MCByte
    Nul = "0"
    Junk = Junk
    MaxAlloc = 5
    ChunkSizes = {2, 4}
    Buffers <- MCBuffers
    Formats <- MCFormats
INVARIANTS TypeOK CursorInside NoJunkBelowEnd NeverFaults RoundTrip
PROPERTIES FixedStays ImplementsText
CHECK_DEADLOCK FALSE
