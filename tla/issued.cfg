\* Three machines want two places of a key; two offline licences for two
\* machines; one login with two secrets; two requests and three answers; an
\* order for two domains, a certificate of four days; two installations.
SPECIFICATION MCSpec
CONSTANTS
  Key = {k1}
  Machine = {m1, m2, m3}
  LEASE = 1
  MaxQuota = 2
  MaxTokens = 1
  InFlight = 2
  MaxTime = 2
  Character = {"a", "b", "c"}
  Features <- MCFeatures
  Feature = {cluster}
  LicenceTime = 1
  MaxIssued = 2
  MaxFiles = 3
  MaxVerified = 2
  Login = {l1}
  Secret = {s1, s2}
  STEP_SECS = 3
  Drifts <- MCDrifts
  MFA_PENDING_TTL = 4
  JwtLeeway = 1
  LoginTime = 9
  Drift <- MCDrift
  REPLAY_WINDOW_MS = 1
  Length = {7, 11}
  MaxRequests = 2
  MaxAnswers = 3
  EnvelopeTime = 4
  Domain = {d1, d2}
  SELF_SIGNED_VALID_DAYS = 4
  RENEW_THRESHOLD_DAYS = 2
  MaxDays = 6
  Name = {i1, i2}
  MaxInstalled = 2
SYMMETRY Symmetry
INVARIANTS QuotaHolds RevocationBites VerdictFounded LoginSound EnvelopeSafe
  RenewalSafe RenderedAsTyped
CHECK_DEADLOCK FALSE
