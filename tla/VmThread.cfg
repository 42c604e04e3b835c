CONSTANTS
    VMs = {0, 1}
    FileVMs = {0}
    Descriptors = {1, 2}
    SharedNames = {s1, s2}
    None = None
    Main = main
    MaxExits <- MCMaxExits
SPECIFICATION Spec
INVARIANTS TypeOK HandlesOwned OnlyFailuresIntrude OutputIsPrinted PromptIsShown
PROPERTIES LeavingEnds EndOfInputReachesAll
