\* Two clients on two machines; cost lists of two entries over two extents.
CONSTANTS
    Machines = {m1, m2}
    Kinds = {ram, disk}
    Values = {1, 2}
    MaxCosts = 2
    Bad = bad
    Clients = {c1, c2}
    Capacities = {2}
    None = none
SPECIFICATION Spec
SYMMETRY NameSymmetry
INVARIANTS
    TypeOK
    NeverOverbooked
    HeldIsBooked
PROPERTIES
    PlansAreHonoured
    ImplementsReservations
