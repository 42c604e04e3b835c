SPECIFICATION HvFairSpec
CONSTANTS
    w = w
    r1 = r1
    r2 = r2
    Writer = w
    Readers = {r1, r2}
    Order <- ThreeVms
    BufferSize = 1
    Byte = {0, 1}
    MaxRequest = 2
    MaxGeneration = 1
    Texts <- SomeTexts
    OldFiles <- NoFile
    Faults = {}
INVARIANTS
    NoRefusal
PROPERTIES
    CleanRunSucceeds
