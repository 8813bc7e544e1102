SPECIFICATION FairSpec
CONSTANTS
  c1 = c1  c2 = c2  q1 = q1  q2 = q2  d1 = d1  d2 = d2  k1 = k1  k2 = k2
  None = None
  Conversations = {c1}
  Calls = {q1, q2}
  ConvOf <- SameConversation
  Delegations = {d1}
  Controls = {}
  MaxRuns = 2
  MaxConcurrentRuns = 2
  MaxPermissions = 0
  MaxRestarts = 0
  MaxReleaseFailures = 0
  Deletable = {c1}
  MayClose = FALSE
PROPERTY DeletionReturns
CHECK_DEADLOCK FALSE
