SPECIFICATION Spec
CONSTANTS
    n1 = n1
    n2 = n2
    n3 = n3
    InodesCount = 2
    BlocksCount = 3
    BlocksCountInInode = 2
    MaxRecords = 4
    MaxData = 1
    DescriptorsCount = 2
    Names = {n1, n2}
    Paths <- RootPath
    Sizes = {1}
    Positions = {1}
    Commands = {"init", "touch", "open", "close", "lseek", "write"}
    Interruptions = TRUE
    WindowCrashes = TRUE
INVARIANTS DescriptorExclusive OneDescriptorAtWork
PROPERTIES OnlyWindowsHurt
