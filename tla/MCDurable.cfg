CONSTANTS
  Contents = {old, new, bad}
  Valid = {old, new}
  Absent = Absent
  Torn = Torn
  None = None
  MaxFaults = 4
SPECIFICATION Spec
PROPERTY ImplementsAtomicReplace
PROPERTY TransactionEnds
INVARIANT NothingLost
CHECK_DEADLOCK FALSE
