SPECIFICATION RetrySpec
CONSTANTS
    Desktops <- MCDesktops
    Editions <- MCEditions
    DesktopOf <- MCDesktopOf
    Repeated <- MCRepeated
PROPERTIES
    Converges
