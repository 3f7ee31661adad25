SPECIFICATION FairSpec
CONSTANTS
    HeaderSize = 3
    InodesCount = 2
    BlocksCount = 4
    OtherFiles <- Lengths
    OtherMasks <- MaskSizes
INVARIANTS TypeOK MountsOnlyWhole
PROPERTIES TransfersAdvance InitEnds ReadEnds
