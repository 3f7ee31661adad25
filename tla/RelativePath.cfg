SPECIFICATION Spec
CONSTANTS
    Letters = {"a", "b"}
    MaxPathLen = 4
    MaxString = 4
    Strings <- AllStrings
INVARIANTS RelativeCrashes
