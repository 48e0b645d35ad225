SPECIFICATION Spec
CONSTANTS
    Apps = {a1, a2}
    MaxLosses = 2
    All = All
    None = None
PROPERTIES MembersMeet HelloStormEnds
CHECK_DEADLOCK FALSE
