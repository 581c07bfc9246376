\* Every program of two declarations and two statements, on two machines.
CONSTANTS
    Machines = {m1, m2}
    Kinds = {ram}
    Values = {1, 2}
    MaxCosts = 1
    Bad = bad
    Stranger = stranger
    Capacities = {1, 2}
    MaxItems = 2
    MaxStatements = 2
SPECIFICATION Spec
CHECK_DEADLOCK FALSE
INVARIANTS
    NothingRunsUnchecked
    ReportIsExact
    PlansFitAlone
