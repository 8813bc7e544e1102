SPECIFICATION FairSpec
CONSTANTS
    Repairs = {p1, p2, p3}
    Resets = {x1, x2, x3}
    None = None
    MaxCrashes = 1
    MaxThrows = 1
    MaxDamages = 1
INVARIANT LogBesideItsDatabase
INVARIANT OriginalsKept
INVARIANT ResetTakesAll
PROPERTY Recovers
