SPECIFICATION FairSpec
CONSTANTS
    n1 = n1
    n2 = n2
    n3 = n3
    InodesCount = 4
    BlocksCount = 5
    BlocksCountInInode = 2
    MaxRecords = 4
    MaxData = 2
    DescriptorsCount = 2
    Names = {n1}
    Paths <- TallPaths
    Sizes = {3}
    Positions = {0, 3}
    Commands = {"init", "mkdir", "touch", "ls", "open", "close", "lseek", "read", "write"}
    Interruptions = FALSE
    WindowCrashes = FALSE
INVARIANTS TableAgrees
PROPERTIES ImplementsOpenFiles CommandsAdvance CommandsEnd
