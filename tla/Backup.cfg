SPECIFICATION Spec
CONSTANTS
    Walk <- MCWalk
    L2S = {".l2s"}
    Phones = {"old", "new"}
    Data = {"1", "2"}
INVARIANTS
    TypeOK
    RoundTrip
    Portable
PROPERTIES
    RestoreEnds
