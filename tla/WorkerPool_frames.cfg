\* Two queues: the scanner runs on queue 1's sender-only socket.
CONSTANTS
    QueueCount = 2
    RingSize = 2
SPECIFICATION Spec
INVARIANTS
    LiveFramesDisjoint
