\* One piece of output whose INSERT fails.
SPECIFICATION Spec
CONSTANTS
  MaxOut = 1
  MaxIn = 1
  TtyRoom = 1
  MaxMs = 0
INVARIANT ShownIsRecorded
