\* Three roles, one operation, one rule and two grants, patterns without a resource type,
\* no conditions.
CONSTANTS
    Roles = {a, b, c}
    Ops = {read}
    All = all
    Types = {}
    AnyType = anytype
    Vars = {x}
    Conds = {}
    NoCond = nocond
    None = none
    MaxRules = 1
    MaxGrants = 2
SPECIFICATION Spec
SYMMETRY RoleSymmetry
INVARIANTS
    HierarchyAcyclic
    GrantsAuthorised
    OneGrantPerKey
    ParentChainAscends
    CacheConfined
PROPERTIES
    ImplementsDelegation
    DenyIsFinal
