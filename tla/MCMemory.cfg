SPECIFICATION Spec
CONSTANTS
  c1 = c1  c2 = c2  u1 = u1  u2 = u2  o1 = o1  o2 = o2  a = a  b = b
  None = None  Off = Off  Host = Host
  Characters = {c1}
  Uses = {u1}
  Ops = {o1, o2}
  Configurations = {a, b}
  Callers <- MCCallers
  Resetters <- MCResetters
  MaxProviders = 3
  MaxMemories = 2
  MaxFailures = 1
  MaxChanges = 1
  MaxRestarts = 0
INVARIANT TypeOK
INVARIANT CallsEndFirst
INVARIANT OneProvider
INVARIANT OneHandle
INVARIANT StartedIsIndexed
INVARIANT AllReleased
CHECK_DEADLOCK FALSE
