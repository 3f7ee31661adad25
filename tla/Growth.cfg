SPECIFICATION Spec
CONSTANTS
    n1 = n1
    n2 = n2
    n3 = n3
    InodesCount = 3
    BlocksCount = 5
    BlocksCountInInode = 3
    MaxRecords = 4
    MaxData = 1
    DescriptorsCount = 1
    Names = {n1, n2}
    Paths <- RootPath
    Sizes = {2}
    Positions = {0, 2}
    Commands = {"init", "touch", "open", "close", "lseek", "write", "read"}
    Interruptions = TRUE
    WindowCrashes = FALSE
INVARIANTS TypeOK TreeInv BlocksOwned
PROPERTIES NothingIsLost SpaceAccounted WritesInPlace
