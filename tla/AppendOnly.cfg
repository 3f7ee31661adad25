SPECIFICATION Spec
CONSTANTS
    b1 = b1
    b2 = b2
    MaxData = 2
    BlocksCountInInode = 2
    FreeCounts = {0, 2}
    Bytes = {b1, b2}
    Lengths = {1, 3}
    Sizes = {3}
    Positions = {1, 3}
    HostFiles <- HostOfThree
    Transfers = {"write_from", "read_to"}
    AppendOnly = TRUE
SYMMETRY ByteSymmetry
PROPERTIES ImplementsAppendFile
