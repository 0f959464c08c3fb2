\* Two queues with one-slot rings: queue 1's responder (full socket) and
\* its scanner (sender-only socket) share one COMPLETION ring.
CONSTANTS
    QueueCount = 2
    RingSize = 1
SPECIFICATION AnyLengthSpec
INVARIANTS
    TypeOK
    SenderOwnership
PROPERTIES
    SendCompletesWhileCompleting
