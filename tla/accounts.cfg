\* Two requests together, three in all, quota 1 and two requests a minute; two
\* users of two tenants with two tokens; an owner and two accounts.
SPECIFICATION MCSpec
CONSTANTS
  Handler = {h1, h2}
  Intent = {i1}
  Limit = 1
  Rate = 2
  MaxRequests = 3
  MaxMinute = 1
  u1 = u1
  u2 = u2
  acme = acme
  globex = globex
  User = {u1, u2}
  Tenant = {acme, globex}
  Home <- MCHome
  TOKEN_TTL_SECS = 1
  LEEWAY = 0
  LoginTime = 1
  TokenTime = 3
  MaxTodos = 1
  MaxTokens = 2
  MaxEvents = 1
  a1 = a1
  a2 = a2
  Account = {o, a1, a2}
  Owner = o
  Resource = {"x", "y"}
  Action = {"read"}
  Specs <- MCSpecs
  SubRole = {"member"}
  MaxRevoked = 1
  MaxList = 1
SYMMETRY Symmetry
INVARIANTS QuotaFair RetrySafe RateHolds  
CHECK_DEADLOCK FALSE
