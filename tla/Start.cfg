SPECIFICATION Spec
CONSTANTS
    Starts = {s1, s2}
INVARIANTS
    SoundIsLocal
PROPERTIES
    KeepsOriginal
    WaitsOut
