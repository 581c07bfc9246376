\* Two devices that inherit from each other, two extents for rules that combine sums.
CONSTANTS
    Devices = {d1, d2}
    Extents = {ram, disk}
    WordSize = 16
    Amounts = {1, 2}
    Capacities = {0, 2}
    Limits = {1, 2}
    MaxGranted = 3
    None = none
SPECIFICATION Spec
SYMMETRY NameSymmetry
INVARIANTS
    TypeOK
    PoolsFit
    OnePoolPerExtent
    HeldIsBooked
PROPERTIES
    CheckedAllocationKeepsRule
