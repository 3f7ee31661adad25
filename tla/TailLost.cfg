SPECIFICATION Spec
CONSTANTS
    b1 = b1
    b2 = b2
    MaxData = 2
    BlocksCountInInode = 3
    FreeCounts = {1, 3}
    Bytes = {b1, b2}
    Lengths = {1, 3}
    Sizes = {1, 3}
    Positions = {0}
    HostFiles <- HostOfOne
    Transfers = {"write_from", "read_to"}
    AppendOnly = FALSE
INVARIANTS ReadTillEnd
