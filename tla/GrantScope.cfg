\* A grant to one role lets every role pass can_check.
CONSTANTS
    Roles = {a, b, c}
    Ops = {read}
    All = all
    Types = {file}
    AnyType = anytype
    Vars = {x}
    Conds = {}
    NoCond = nocond
    None = none
    MaxRules = 1
    MaxGrants = 1
SPECIFICATION Spec
INVARIANTS
    GrantReachesItsTarget
