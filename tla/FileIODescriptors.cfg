SPECIFICATION Spec
CONSTANTS
    VMs = {v1}
    Names = {"s", "p"}
    SharedFiles <- Shared
    HostDir = host
    Initial <- OneByte
    Byte = {0, 1}
    FlagSets <- AllFlags
    FileIds = {f1, f2, f3}
    IntMax = 1
    HostFaults = {}
    MaxCount = 2
    MaxSize = 2
    MaxDescriptor <- TwoEach
SYMMETRY FileSymmetry
INVARIANTS
    TypeOK
    CoherentDescriptors
PROPERTIES
    ImplementsPrivateFiles
CHECK_DEADLOCK FALSE
