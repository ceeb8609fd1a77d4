SPECIFICATION StepsSpec
CONSTANTS
    N <- MCN
INVARIANTS
    InStep
PROPERTIES
    RunsTheList
    CtrlCLeaves
    Ends
