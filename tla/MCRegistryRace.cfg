SPECIFICATION Spec
CONSTANTS
  u1 = u1  u2 = u2  o1 = o1  o2 = o2  o3 = o3
  None = None
  Uses = {u1}
  Ops = {o1, o2}
  Kinds = {"delete", "replace"}
  MaxEntries = 2
  MaxFailures = 0
INVARIANT RemovalIsFenced
SYMMETRY Symmetry
CHECK_DEADLOCK FALSE
