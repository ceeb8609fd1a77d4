SPECIFICATION ExtractSpec
CONSTANTS
    Paths <- MCPaths
    Target <- MCTarget
    Files <- MCFiles
    MaxHops = 3
    MaxEntries = 6
INVARIANTS
    CacheSafe
    IsImage
CHECK_DEADLOCK FALSE
