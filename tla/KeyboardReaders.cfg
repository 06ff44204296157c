SPECIFICATION Spec
CONSTANTS
  Readers = {r1, r2}
  RingSize = 4
  MaxKeys = 3
INVARIANT DeliveredOnce
CHECK_DEADLOCK FALSE
