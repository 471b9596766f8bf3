\* Two instances rotate two rows; two channels, three messages of which the
\* second is not valid JSON.
SPECIFICATION MCSpec
CONSTANTS
  Instance = {i, j}
  Row = {r1, r2}
  Phone <- MCPhone
  MaxCrashes = 1
  Consumer = {c1, c2}
  N = 2
  Bad = {2}
  MaxPublished = 4
  MaxCalls = 2
INVARIANTS JobsKept
PROPERTIES RotationInvisible RotationCompletes CallReturns
