SPECIFICATION FairSpec
CONSTANTS
  Requests = {r1, r2}
  Keys = {k}
  Creds = {c1, c2}
  First = {c1}
  Providers = {p}
  c1 = c1
  c2 = c2
  p = p
  None = None
  ProviderOf <- OneProvider
  Ops <- MCOps
INVARIANT TypeOK
INVARIANT AnsweredNotRedone
INVARIANT OneDefault
INVARIANT OkNotUndone
PROPERTY RefinesRegister
PROPERTY OkIsApplied
CHECK_DEADLOCK FALSE
