SPECIFICATION FairSpec
CONSTANTS
  c1 = c1  c2 = c2  q1 = q1  q2 = q2  d1 = d1  d2 = d2  k1 = k1  k2 = k2
  None = None
  Conversations = {c1}
  Calls = {q1}
  ConvOf <- SameConversation
  Delegations = {d1}
  Controls = {k1, k2}
  MaxRuns = 1
  MaxConcurrentRuns = 1
  MaxPermissions = 1
  MaxRestarts = 2
  MaxReleaseFailures = 1
  Deletable = {}
  MayClose = TRUE
INVARIANT StoppedBeforeSettled
INVARIANT RowMatchesWorker
 
INVARIANT UnfinishedKeepsDirectory
PROPERTY TerminalIsFinal
PROPERTY NoSecondWorker
PROPERTY PreservedComeBack
PROPERTY EndingReturns
CHECK_DEADLOCK FALSE
