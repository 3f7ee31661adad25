SPECIFICATION Spec
CONSTANTS
    Letters = {"a", "b"}
    MaxPathLen = 4
    MaxString = 7
    Strings <- AllStrings
INVARIANTS WalksItsNames CanonicalAccepted StaysInBuffers
