\* A WebSocket with a roomy socket and an SSE stream with a full one; a page on
\* a ring of two frames.
SPECIFICATION MCSpec
CONSTANTS
  Ws = {w1}
  Sse = {s1}
  Capacity = 1
  Timeout = 3
  Window <- Windows
  MaxEvents = 2
  Page = {p1}
  Reading <- Readings
  CHANNEL_CAPACITY = 2
  MaxFrames = 4
INVARIANTS AliveIsKept FeedAgrees
PROPERTIES  SilentIsClosed PageCatchesUp
