SPECIFICATION Spec
CONSTANTS
    People = {ann, bob}
    Setups = {s1, s2}
    Vncs = {v1, v2}
    VncStop = stop
INVARIANTS
    SetUp
    SudoIsUsers
    Stoppable
