CONSTANTS
    Paths = {"a", "d/a", "b"}
    Missing = {"8"}
    FileName <- MCFileName
    ValidNames = {"a", "b"}
    MaxArgs = 9
    MaxPaths = 2
SPECIFICATION Spec
INVARIANTS TypeOK ParseMatchesGrammar EveryFileIsShared IdentityMapped ImageIsReached
CHECK_DEADLOCK FALSE
