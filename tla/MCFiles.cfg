SPECIFICATION FilesSpec
CONSTANTS
    Slots = {0, 1, 2}
    Handles = {1, 2}
    Numbers = {0, 1, 2}
    Paths <- MCPaths
    MountNames <- MCMountNames
    Volumes <- MCVolumes
    Inodes = {2, 11, 12}
    DataBlocks = {6, 7, 8, 9}
    Names = {"a", "b"}
    Values = {1}
    Room = 3
INVARIANTS
    ImageIsConsistent
    PowerCutSafe

    
CHECK_DEADLOCK FALSE
