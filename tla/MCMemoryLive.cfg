SPECIFICATION FairSpec
CONSTANTS
  c1 = c1  c2 = c2  u1 = u1  u2 = u2  o1 = o1  o2 = o2  a = a  b = b
  None = None  Off = Off  Host = Host
  Characters = {c1}
  Uses = {u1}
  Ops = {o1}
  Configurations = {a, b, Off}
  Callers <- MCCallers
  Resetters <- MCResetters
  MaxProviders = 3
  MaxMemories = 2
  MaxFailures = 1
  MaxChanges = 1
  MaxRestarts = 1
PROPERTY AllReturn
CHECK_DEADLOCK FALSE
