SPECIFICATION Spec
CONSTANTS
    MAX_OPEN_FILES = 5
    WORD = 16
    Room = 2
    Files = {"a"}
    FileSize <- MCFileSize
    MaxInput = 1
    Names = {"a", "console", "null", "zero"}
    Counts = {1, 15}
    Offsets <- MCOffsets
    FlagSets = {{}, {1}, {2}}
    Fds <- MCFds
INVARIANTS TypeOK HandlesPaired PosInFile
PROPERTY ImplementsFileTable
CHECK_DEADLOCK FALSE
