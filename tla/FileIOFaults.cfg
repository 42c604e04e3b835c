SPECIFICATION Spec
CONSTANTS
    VMs = {v1, v2}
    Names = {"s"}
    SharedFiles <- Shared
    HostDir = host
    Initial <- OneByte
    Byte = {0, 1}
    FlagSets <- OneFlag
    FileIds = {f1, f2, f3}
    IntMax = 0
    HostFaults = {"stat", "remove"}
    MaxCount = 1
    MaxSize = 1
    MaxDescriptor <- TwoForOwner
SYMMETRY FileSymmetry
INVARIANTS
    OriginalsUntouched
PROPERTIES
    Isolation
CHECK_DEADLOCK FALSE
