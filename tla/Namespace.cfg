SPECIFICATION Spec
CONSTANTS
    n1 = n1
    n2 = n2
    n3 = n3
    InodesCount = 4
    BlocksCount = 5
    BlocksCountInInode = 1
    MaxRecords = 4
    MaxData = 1
    DescriptorsCount = 1
    Names = {n1, n2, n3}
    Paths <- DeepPaths
    Sizes = {}
    Positions = {}
    Commands = {"init", "mkdir", "touch", "ls"}
    Interruptions = TRUE
    WindowCrashes = FALSE
INVARIANTS TreeInv NamesUnique LinksFormTree DotsAgree
PROPERTIES NothingIsLost SpaceAccounted ImplementsTree
