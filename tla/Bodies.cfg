\* Two bodies after one another, of up to three statements, on two machines.
CONSTANTS
    x = x
    m1 = m1
    m2 = m2
    Null = null
    Empty = empty
    Local = local
    None = none
    Names = {x, m2}
    Machines = {m1, m2}
    Values = {m1, null, empty}
    OpBodies <- MCOps
    FuncBodies <- MCFuncs
    TaskBodies <- MCTasks
    MachineLists <- MCLists
    MaxCalls = 2
SPECIFICATION Spec
CHECK_DEADLOCK FALSE
INVARIANTS
    CallsInOrder
    CallsFollowMachine
    BindingsConfined
