SPECIFICATION Spec
CONSTANTS
  c1 = c1  c2 = c2  q1 = q1  q2 = q2  d1 = d1  d2 = d2  k1 = k1  k2 = k2
  None = None
  Conversations = {c1}
  Calls = {q1, q2}
  ConvOf <- SameConversation
  Delegations = {d1, d2}
  Controls = {k1}
  MaxRuns = 2
  MaxConcurrentRuns = 1
  MaxPermissions = 0
  MaxRestarts = 1
  MaxReleaseFailures = 0
  Deletable = {c1}
  MayClose = FALSE
INVARIANT OneRunPerCall
INVARIANT DeletedIsQuiet
SYMMETRY Symmetry
CHECK_DEADLOCK FALSE
