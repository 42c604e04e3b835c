CONSTANTS
    MemSize = 40
    FILE_NAME_MAX = 3
    RequestSize = 24
    Addresses = {0, 16, 17, 37, 40, 41, 70}
    Counts <- MCCounts
    Lengths = {0, 2, 3, 4}
    Results <- MCResults
SPECIFICATION Spec
INVARIANTS TypeOK OwnResult ResultsAreAwaited InsideGuestMemory
CHECK_DEADLOCK FALSE
