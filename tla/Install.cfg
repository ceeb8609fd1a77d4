SPECIFICATION Spec
CONSTANTS
    Desktops <- MCDesktops
    Editions <- MCEditions
    DesktopOf <- MCDesktopOf
INVARIANTS
    TypeOK
    DoneIsFinished
    SessionMatches
PROPERTIES
    KeepsFiles
    LabelStable
    OldLauncherKept
