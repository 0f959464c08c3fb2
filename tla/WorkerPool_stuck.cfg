\* Does every session end and give back its Senders?  Queue 1's scanner
\* shares a one-slot COMPLETION ring with queue 1's responder.
CONSTANTS
    QueueCount = 2
    RingSize = 1
SPECIFICATION Spec
PROPERTIES
    SessionRestoresPool
