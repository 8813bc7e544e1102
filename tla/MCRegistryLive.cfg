SPECIFICATION FairApartSpec
CONSTANTS
  u1 = u1  u2 = u2  o1 = o1  o2 = o2  o3 = o3
  None = None
  Uses = {u1, u2}
  Ops = {o1, o2, o3}
  Kinds = {"close", "delete", "replace", "shutdown"}
  MaxEntries = 2
  MaxFailures = 1
INVARIANT OwnerKept
INVARIANT WorkKeepsResource
INVARIANT DeletionHonoured
INVARIANT ShutdownIsComplete
PROPERTY ImplementsExclusiveResource
PROPERTY OperationsReturn
CHECK_DEADLOCK FALSE
