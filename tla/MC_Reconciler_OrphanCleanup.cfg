CONSTANTS
    k1 = k1
    k2 = k2
    s1 = s1
    v1 = v1
    v2 = v2
    Keys <- MCKeys
    Special <- MCSpecial
    Specs <- MCSpecs
    MaxChanges = 1
    MaxFaults = 0

SPECIFICATION Spec
SYMMETRY MCSymmetry

INVARIANT OrphanCleanup
