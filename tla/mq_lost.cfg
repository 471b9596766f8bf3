\* A timeout after the first acknowledgement throws the job away.
SPECIFICATION Spec
CONSTANTS
  Consumer = {c1}
  N = 2
  Bad = {}
  MaxPublished = 2
  MaxCalls = 1
INVARIANT AtLeastOnce
