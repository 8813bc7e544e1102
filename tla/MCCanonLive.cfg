SPECIFICATION FairSpec
CONSTANTS
  r1 = r1  r2 = r2  o1 = o1  o2 = o2  a = a  b = b
  None = None  Off = Off  Indexer = Indexer
  MaxChunks = 1
  Retrievals = {r1}
  Ops = {o1}
  Configurations = {a, b, Off}
  Callers <- MCCallers
  Resetters = {o1}
  MaxProviders = 3
  MaxChanges = 1
  MaxFailures = 1
PROPERTY AllReturn
CHECK_DEADLOCK FALSE
