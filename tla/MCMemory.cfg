SPECIFICATION MemorySpec
CONSTANTS
    bitmap_frames = 7
    GeneralBase = 3
    Reserved = {0, 4}
    BYTE = 2
    MaxRun = 2
    PageUnits = 8
    InitialPages = 2
    HeapPages = 3
    Sizes = {1, 3, 8, 12}
    frame1 = frame1
    frame2 = frame2
    UserFrames = {frame1, frame2}
    NoFrame = NoFrame
    BorrowedFrame = BorrowedFrame
    USER_VA_MIN = 1
    USER_VA_MAX = 5
    USER_MMAP_BASE = 1
    USER_MMAP_LIMIT = 4
    ShmemPage = 4
    MAX_USER_VMAS = 2
    TASK_MMAP_HOLES = 2
    PteFlags = {1, 3}
    MaxPages = 2
    MaxPid = 3
    MaxVm = 3
    MaxShared = 1
SYMMETRY FrameSymmetry
INVARIANTS
    
    SpaceOwnership
    HeapIsSound
PROPERTIES
    PmmIsFramePool
    
CHECK_DEADLOCK FALSE
