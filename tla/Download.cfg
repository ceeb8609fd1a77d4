SPECIFICATION FairSpec
CONSTANTS
    Versions <- MCVersions
    Size <- MCSize
    Tries = 2
INVARIANTS
    TypeOK
    UnpacksImage
PROPERTIES
    KeepsProgress
    Recovers
