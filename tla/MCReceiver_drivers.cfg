\* Both drivers: one that takes a FILL frame only for the packet it posts
\* (copy mode), and a zero-copy one that stocks FILL frames before packets
\* arrive.  Each property states the drivers it is about.
CONSTANTS
  RingSize <- MCRingSize
  CounterWidth <- MCCounterWidth
  Drivers = {FALSE, TRUE}
SPECIFICATION Spec
INVARIANT TypeOK
INVARIANT CopyModeFramesConserved
INVARIANT FillWriteOutsideKernelWindow
PROPERTY CopyModeRxConsumed
