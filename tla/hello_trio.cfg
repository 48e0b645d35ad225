SPECIFICATION Spec
CONSTANTS
    Apps = {a1, a2, a3}
    MaxLosses = 0
    All = All
    None = None
SYMMETRY Symmetry
INVARIANT IdentityMutual
PROPERTY NoLivePeerDropped
CHECK_DEADLOCK FALSE
