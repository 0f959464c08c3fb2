\* Both ways the code drives a ring: a TX ring (Sender::send reserves one
\* slot per packet, the completion side consumes one entry at a time) and a
\* FILL ring (Receiver::new reserves the whole ring at once, ReadGuard::drop
\* then returns one frame at a time).
CONSTANTS
  RingSize <- MCRingSize
  CounterWidth <- MCCounterWidth
  MaxItems <- MCMaxItems
  Rings <- MCRings
SPECIFICATION Spec
INVARIANT TypeOK
PROPERTY RingImplementsQueue
PROPERTY AllDelivered
\* The producer stops after MaxItems items; both loops then spin idle.
CHECK_DEADLOCK FALSE
