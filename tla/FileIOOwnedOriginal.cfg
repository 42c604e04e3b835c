SPECIFICATION Spec
CONSTANTS
    VMs = {v1, v2}
    Names = {"s"}
    SharedFiles <- OwnedShared
    HostDir = host
    Initial <- OwnedByte
    Byte = {0, 1}
    FlagSets <- FewFlags
    FileIds = {f1, f2, f3}
    IntMax = 1
    HostFaults = {}
    MaxCount = 1
    MaxSize = 2
    MaxDescriptor <- OneEach
INVARIANTS
    OriginalsUntouched
CHECK_DEADLOCK FALSE
