\* deallocate gives back one unit per entry.
CONSTANTS
    Machines = {m1}
    Kinds = {ram}
    Values = {1, 2}
    MaxCosts = 1
    Bad = bad
    Clients = {c1}
    Capacities = {2}
    None = none
SPECIFICATION Spec
INVARIANTS
    ReleaseReturnsAll
