\* A string longer than the maximum length given for it.
SPECIFICATION Spec
CONSTANTS
    Byte <- MCByte
    Nul = "0"
    Junk = Junk
    MaxAlloc = 5
    ChunkSizes = {2, 4}
    Buffers <- MCBuffers
    Formats <- MCFormats
INVARIANTS StringWithinMaximum
CHECK_DEADLOCK FALSE
