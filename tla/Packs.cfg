SPECIFICATION Spec
CONSTANTS
    Packs <- MCPacks
    Packages <- MCPackages
    Depends <- MCDepends
    Resolutions <- MCResolutions
    Rank <- MCRank
    Commands <- MCCommands
    Sessions = {"termux"}
INVARIANTS
    TypeOK
    
    AddedPassed
PROPERTIES
    
    NeedsKept
