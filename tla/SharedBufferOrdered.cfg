SPECIFICATION OrderedFairSpec
CONSTANTS
    Writer = w
    Readers = {r1, r2}
    BufferSize = 1
    Byte = {0, 1}
    MaxRequest = 2
    MaxGeneration = 2
INVARIANTS
    TypeOK
    RoundProtocol
    BufferHoldsMessage
    AcknowledgedMeansDelivered
    SuccessMeansTransfer
PROPERTIES
    NoOverwriteWhileReading
    FinishMeansAllAcknowledged
    PublishedDataIsServed
    ImplementsBroadcast
CHECK_DEADLOCK FALSE
