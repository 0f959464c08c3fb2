\* Sessions under exclude files that each exclude at most half the
\* addresses: does any scanner thread panic?
CONSTANTS
    IpBits = 2
    Ports <- MCPorts
    ExcludeLists <- MCPartialExcludes
    ExtraTicks = 1
SPECIFICATION Spec
INVARIANTS
    NoScannerPanic
