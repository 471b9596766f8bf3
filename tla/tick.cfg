\* Two callers, two triggers, two calls each, with every failure, crash and
\* expiry; a period of 4, an on_tick that may last for several periods.
SPECIFICATION MCSpec
CONSTANTS
  Caller = {a, b}
  RunKey = {k1, k2}
  MaxCalls = 2
  Period = 4
  MaxLag = 12
INVARIANT SettledMeansExecuted
PROPERTIES ImplementsRunOnce CallsEnd ShutdownCompletes TicksWhole
