SPECIFICATION FairSpec
CONSTANTS
    Writer = w
    Readers = {r1, r2}
    BufferSize = 1
    Byte = {0}
    MaxRequest = 1
    MaxGeneration = 2
PROPERTIES
    AbortReleasesEveryone
INVARIANTS
    NoLostWakeup
CHECK_DEADLOCK FALSE
