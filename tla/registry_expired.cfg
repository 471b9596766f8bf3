\* A round trip longer than the TTL: the lease is gone, the beats go on.
SPECIFICATION FairSpec
CONSTANTS
  Reg = {r1}
  Addr = {a1}
  AddrOf <- SameAddr
  TTL = 3
  MaxDelay = 4
  MaxBacklog = 2
PROPERTY AliveIsListed
