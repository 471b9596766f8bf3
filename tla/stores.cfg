\* Two processes, a and b, in each role: they sync an account each, read a
\* cached value, serve one todo table, and tick in the demo's cluster, whose
\* main sleeps for a period and a half.
SPECIFICATION MCSpec
CONSTANTS
  Client = {a, b}
  TTL = 2
  MaxHold = 3
  MaxTokens = 2
  MaxTime = 3
  Account <- MCAccount
  MAX_CALLS_PER_MINUTE = 1
  WINDOW_SECS = 3
  MaxChanges = 1
  Reader = {a, b}
  Writer = {w1, w2}
  CACHE_TTL = 2
  MaxFill = 1
  MaxVersion = 2
  CacheTime = 4
  Instance = {a, b}
  Title = {w1, w2}
  MaxId = 2
  Caller = {a, b}
  RunKey = {0, 1, 2}
  MaxCalls = 2
  PERIOD = 2
  Runtime = 3
  LastTime = 4
SYMMETRY Symmetry
INVARIANTS MutualExclusion  StaleExplained CrudSound CountIsRuns
PROPERTIES NoOlderOverNewer Outcomes
CHECK_DEADLOCK FALSE
