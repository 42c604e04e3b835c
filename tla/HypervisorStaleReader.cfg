SPECIFICATION HvSpec
CONSTANTS
    w = w
    r1 = r1
    r2 = r2
    Writer = w
    Readers = {r1}
    Order <- TwoVms
    BufferSize = 1
    Byte = {0, 1}
    MaxRequest = 2
    MaxGeneration = 1
    Texts <- OneText
    OldFiles <- OldFile
    Faults = {}
INVARIANT
    ReaderTxtIsReceived
