CONSTANTS
    TEMP_MAPPING_COUNT = 4
    Pages = {1, 2, 3, 4, 5, 6, 7, 8, 9, 10, 11, 12, 13, 14, 15, 16, 17, 18, 19}
    Frames = {1, 2, 3, 4, 5, 6, 7, 8, 9, 10, 11, 12, 13, 14, 15, 16, 17, 18, 19, 101, 102, 103}
    Pick <- MCPick
    TestPages = {1, 2, 3}
    Modules = {"hello", "large"}
    ModulePages <- MCModulePages
    Missing = "missing"
    MAX_MODULES = 2
    NAME_SIZE = 3
    MAX_RAMFS_FILES = 3
    MAX_PATH = 4
    Placeholders <- MCPlaceholders
    ModuleLists <- MCModuleLists
    Paths <- MCPaths
    ExpectedPage = 2
    MAX_PROCESSES = 2
SPECIFICATION Spec
CHECK_DEADLOCK FALSE
INVARIANT KernelVisible
