SPECIFICATION Spec
CONSTANTS
    Writer = w
    Readers = {r1, r2}
    BufferSize = 1
    Byte = {0, 1}
    MaxRequest = 2
    MaxGeneration = 2
PROPERTY FinishMeansAllAcknowledged
CHECK_DEADLOCK FALSE
