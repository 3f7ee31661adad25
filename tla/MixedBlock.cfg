SPECIFICATION Spec
CONSTANTS
    n1 = n1
    n2 = n2
    n3 = n3
    InodesCount = 3
    BlocksCount = 3
    BlocksCountInInode = 1
    MaxRecords = 4
    MaxData = 1
    DescriptorsCount = 1
    Names = {n1, n2}
    Paths <- RootPath
    Sizes = {1}
    Positions = {}
    Commands = {"init", "mkdir", "open", "write"}
    Interruptions = FALSE
    WindowCrashes = FALSE
INVARIANTS BlocksNeverMixed
