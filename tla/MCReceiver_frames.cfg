\* A zero-copy driver stocks FILL frames before packets arrive: the frame
\* ownership invariant of spec section 3.
CONSTANTS
  RingSize <- MCRingSize
  CounterWidth <- MCCounterWidth
  Drivers = {TRUE}
SPECIFICATION Spec
INVARIANT FrameConservation
