CONSTANTS
  Runs = {r1, r2}
  Calls = {c1, c2}
  None = None
  MaxFailures = 1
  MaxRestarts = 1
SPECIFICATION Spec
INVARIANT OwnershipLasts
INVARIANT NoDeadDelivery
INVARIANT HeadIsAlone
PROPERTY ImplementsDeliverOnce
PROPERTY CallsReturn
