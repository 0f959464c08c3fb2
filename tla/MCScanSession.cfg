\* Sessions of three queues' pools scanning 2-bit address spaces: two
\* scanner threads share the index.  A session with nothing in scope
\* panics and the process stops, so deadlock is not checked.
CONSTANTS
    QueueCount = 3
    RingSize = 2
    IpBits = 2
    Ports <- MCPorts
    ExcludeLists <- MCExcludeLists
    ExtraTicks = 1
SPECIFICATION Spec
INVARIANTS
    TypeOK
    SenderOwnership
    EverySessionScans
    ExclusionSound
    ScanCoversScopeOnce
CHECK_DEADLOCK FALSE
