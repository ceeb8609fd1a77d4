SPECIFICATION Spec
CONSTANTS
    Builds <- MCBuilds
    Version <- MCVersion
    Newest <- MCNewest
    Files <- MCFiles
    Tree <- MCTree
    Deltas <- MCDeltas
    MaxChain = 2
INVARIANTS
    GuestMatches
    
PROPERTIES
    Verified
    Forward
    UpToDate
