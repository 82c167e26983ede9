SPECIFICATION MemorySpec
CONSTANTS
    Writes <- Packets
    Reads <- Ranges
    Beat = 2
    Blank = "-"
    MaxWrite = 3
    MaxRead = 6
    MemSize = 4
    Depth = 2
INVARIANT CleanBetweenCalls
PROPERTIES RoundTrip CallsEnd
CHECK_DEADLOCK FALSE
