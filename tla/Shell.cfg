SPECIFICATION Spec
CONSTANTS
    Letters = {"q", "i", "m", "c", "w", "s", "r", "1", "2"}
    BufferSize = 7
    HostFds = 2
    MaxLines = 3
    Typed <- CommandLines
    Scripts <- AllScripts
INVARIANTS ExecutesTheLines EndsOf
