\* Two registrations of an address that come and go, a watcher that may
\* begin at any time;
\* two tasks that call a plugin, install it again, or own one and stop it.
SPECIFICATION MCSpec
CONSTANTS
  Reg = {r1, r2}
  Addr = {a1}
  AddrOf <- SameAddr
  TTL = 3
  MaxDelay = 1
  MaxBacklog = 2
  Caller = {c1, c2}
  Plugin <- MCPlugin
  granted = {"read_text", "net"}
  MaxId = 3
  MaxInstalls = 2
  None = None
INVARIANTS ListingTrue HostSound
PROPERTIES DeregisterReturns GoneIsDelisted CallReturns
