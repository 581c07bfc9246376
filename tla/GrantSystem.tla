---------------------------- MODULE GrantSystem ----------------------------
(***************************************************************************)
(* GrantSystem and the PolicyEngine it owns (ty.rs): role declarations,    *)
(* can/cannot rules, grants issued on someone's authority, the permission  *)
(* cache, and the can_check decision.                                      *)
(*                                                                         *)
(* A call of the public API is one action: the structures are used through *)
(* &mut self, so a call is never interleaved with another.  `by` in a      *)
(* grant is history: the code does not store the grantor, the properties   *)
(* need it.                                                                *)
(***************************************************************************)
EXTENDS RoleEnv, Naturals, FiniteSets

CONSTANTS Ops,        \* operation names a caller may ask about
          All,        \* the operation name "all" of a rule
          Types,      \* resource type names
          AnyType,    \* a rule without resource type, a grant whose type is no resource
          Vars,       \* pattern variable names, the x of {x:File}
          Conds,      \* conditions of requires and if clauses
          NoCond,     \* a grant without condition
          None,       \* no parent, no cache entry, no resource named
          MaxRules,   \* bound: rules added
          MaxGrants   \* bound: grants accepted

ASSUME GrantConstants ==
    /\ All \notin Ops
    /\ AnyType \notin Types
    /\ None \notin Roles /\ None \notin Types
    /\ NoCond \notin Conds

VARIABLES names,      \* keys of RoleEnv.names
          edges,      \* edges of RoleEnv.graph
          parent,     \* the source of a node's newest incoming edge
          rules,      \* PolicyEngine.rules
          grants,     \* PolicyEngine.grants
          existing,   \* GrantSystem.existing
          cache       \* PolicyEngine.role_permissions

hierarchy == <<names, edges, parent>>
vars == <<names, edges, parent, rules, grants, existing, cache>>

Rules == [deny : BOOLEAN, op : Ops \cup {All}, type : Types \cup {AnyType},
          conds : SUBSET Conds]

Grants == [by : Roles, target : Roles, op : Ops, var : Vars,
           type : Types \cup {AnyType}, cond : Conds \cup {NoCond}]

Keys == Roles \X Ops \X Vars \X (Types \cup {AnyType})

(* The duplicate key of process_grant: the condition is not part of it. *)
Key(g) == <<g.target, g.op, g.var, g.type>>

(***************************************************************************)
(* Decisions.  ctx, the EvalContext, is the set of conditions that hold.   *)
(***************************************************************************)
RuleMatches(rule, op, res) ==
    /\ rule.op \in {op, All}
    /\ rule.type = AnyType \/ res = None \/ rule.type = res

GrantMatches(g, op, res) ==
    /\ g.op = op
    /\ g.type = AnyType \/ res = None \/ g.type = res

(* Phase 1 of can_check looks at a deny rule's pattern only, not at its conditions. *)
DenyApplies(op, res) == \E rule \in rules : rule.deny /\ RuleMatches(rule, op, res)

RuleAllows(op, res, ctx) ==
    \E rule \in rules : ~rule.deny /\ RuleMatches(rule, op, res) /\ rule.conds \subseteq ctx

GrantAllows(op, res, ctx) ==
    \E g \in grants : GrantMatches(g, op, res) /\ g.cond \in ctx \cup {NoCond}

(* Mutant: grants are looked at before deny rules. *)
CanCheckGrantsFirst(role, op, res, ctx) ==
    \/ GrantAllows(op, res, ctx)
    \/ ~DenyApplies(op, res) /\ RuleAllows(op, res, ctx)

(* can_check(role, op, res, ctx) = Granted; the role is not looked at. *)
CanCheck(role, op, res, ctx) ==
    /\ ~DenyApplies(op, res)
    /\ RuleAllows(op, res, ctx) \/ GrantAllows(op, res, ctx)

(***************************************************************************)
(* collect_permissions walks from a role to its get_parent and to all its  *)
(* children, with a visited set: the roles it reaches are the least set    *)
(* closed under both.                                                      *)
(***************************************************************************)
Neighbours(r) == Children(edges, r) \cup ({parent[r]} \ {None})

Family(r) ==
    {x \in Roles : \A S \in SUBSET Roles :
                      r \in S /\ (\A y \in S : Neighbours(y) \subseteq S) => x \in S}

(* Mutant: grants are collected whatever their target. *)
CollectedFromAll(r) == {rule.op : rule \in rules} \cup {g.op : g \in grants}

Collected(r) ==
    {rule.op : rule \in rules} \cup {g.op : g \in {h \in grants : h.target \in Family(r)}}

(* get_ancestors follows get_parent; fewer than 100 roles never meet its cap. *)
ParentOf(r) == IF r = None THEN None ELSE parent[r]

Chain[n \in Nat] ==
    IF n = 0 THEN [r \in Roles |-> r]
             ELSE [r \in Roles |-> ParentOf(Chain[n - 1][r])]

GetAncestors(r) == {Chain[n][r] : n \in 1..Cardinality(Roles)} \ {None}

-----------------------------------------------------------------------------
Init ==
    /\ names = {} /\ edges = {} /\ parent = [r \in Roles |-> None]
    /\ rules = {} /\ grants = {} /\ existing = {}
    /\ cache = [r \in Roles |-> None]

(* add_role(name, None) *)
AddRoot(r) ==
    /\ names' = names \cup {r}
    /\ UNCHANGED <<edges, parent, rules, grants, existing, cache>>

(* Mutant: a new parent takes the child away from its old ones. *)
AddChildMoves(child, p) ==
    /\ ~WouldCreateCycle(edges, child, p)
    /\ names' = names \cup {child, p}
    /\ edges' = {e \in edges : e[2] # child} \cup {<<p, child>>}
    /\ parent' = [parent EXCEPT ![child] = p]
    /\ UNCHANGED <<rules, grants, existing, cache>>

(* Mutant: get_parent reads outgoing edges and finds a child. *)
AddChildReadsDown(child, p) ==
    /\ ~WouldCreateCycle(edges, child, p)
    /\ names' = names \cup {child, p}
    /\ edges' = edges \cup {<<p, child>>}
    /\ parent' = [parent EXCEPT ![p] = child]
    /\ UNCHANGED <<rules, grants, existing, cache>>

(* add_role(child, Some(p)): a cyclic edge is dropped, and so are both names. *)
AddChild(child, p) ==
    /\ ~WouldCreateCycle(edges, child, p)
    /\ names' = names \cup {child, p}
    /\ edges' = edges \cup {<<p, child>>}
    /\ parent' = [parent EXCEPT ![child] = p]
    /\ UNCHANGED <<rules, grants, existing, cache>>

AddCyclic(child, p) ==
    /\ WouldCreateCycle(edges, child, p)
    /\ UNCHANGED vars

AddRule(rule) ==
    /\ Cardinality(rules) < MaxRules
    /\ rules' = rules \cup {rule}
    /\ UNCHANGED <<hierarchy, grants, existing, cache>>

(* Mutant: those below the target may grant, not those above. *)
AuthorityUpwards(by, target) == by = target \/ Descends(edges, by, target)

(* check_authority(by, target) *)
Authority(by, target) == by = target \/ Descends(edges, target, by)

(* process_grant(g.by, g): the key is taken before authority is looked at. *)
RefuseDuplicate(g) ==
    /\ Key(g) \in existing
    /\ UNCHANGED vars

RefuseAuthority(g) ==
    /\ Key(g) \notin existing
    /\ ~Authority(g.by, g.target)
    /\ existing' = existing \cup {Key(g)}
    /\ UNCHANGED <<hierarchy, rules, grants, cache>>

(* Mutant: the key of an accepted grant is not recorded. *)
AcceptGrantUnrecorded(g) ==
    /\ Cardinality(grants) < MaxGrants
    /\ Key(g) \notin existing
    /\ Authority(g.by, g.target)
    /\ grants' = grants \cup {g}
    /\ UNCHANGED <<hierarchy, rules, existing, cache>>

AcceptGrant(g) ==
    /\ Cardinality(grants) < MaxGrants
    /\ Key(g) \notin existing
    /\ Authority(g.by, g.target)
    /\ existing' = existing \cup {Key(g)}
    /\ grants' = grants \cup {g}
    /\ UNCHANGED <<hierarchy, rules, cache>>

ProcessGrant(g) == RefuseDuplicate(g) \/ RefuseAuthority(g) \/ AcceptGrant(g)

(* build_cache overwrites the entry of every known role. *)
BuildCache ==
    /\ cache' = [r \in Roles |-> IF r \in names THEN Collected(r) ELSE cache[r]]
    /\ UNCHANGED <<hierarchy, rules, grants, existing>>

Next ==
    \/ \E r \in Roles : AddRoot(r)
    \/ \E child, p \in Roles : AddChild(child, p)
    \/ \E child, p \in Roles : AddCyclic(child, p)
    \/ \E rule \in Rules : AddRule(rule)
    \/ \E g \in Grants : ProcessGrant(g)
    \/ BuildCache

Spec == Init /\ [][Next]_vars

-----------------------------------------------------------------------------
(* Every variable holds a value of its kind. *)
TypeOK ==
    /\ names \subseteq Roles
    /\ edges \in EdgeSets
    /\ parent \in [Roles -> Roles \cup {None}]
    /\ rules \subseteq Rules
    /\ grants \subseteq Grants
    /\ existing \subseteq Keys
    /\ cache \in [Roles -> (SUBSET (Ops \cup {All})) \cup {None}]

(***************************************************************************)
(* add_role keeps the hierarchy free of cycles, however declarations,      *)
(* re-parentings and refused edges are ordered (would_create_cycle looks   *)
(* at one edge at a time).                                                 *)
(***************************************************************************)
HierarchyAcyclic == Acyclic(edges)

(***************************************************************************)
(* The grants in force were each issued by their target role or by a role  *)
(* that is above it now: check_authority answers at the time of issue, and *)
(* no later change of the hierarchy takes the authority away.              *)
(***************************************************************************)
GrantsAuthorised == \A g \in grants : Authority(g.by, g.target)

(***************************************************************************)
(* process_grant accepts one grant for a role, an operation and a resource *)
(* pattern: a second one with another condition would widen the first.     *)
(***************************************************************************)
OneGrantPerKey == \A g, h \in grants : Key(g) = Key(h) => g = h

(***************************************************************************)
(* get_parent and is_descendant tell one story: the roles get_ancestors    *)
(* lists are ancestors for is_descendant too, although a role may have     *)
(* been given several parents.                                             *)
(***************************************************************************)
ParentChainAscends == \A r \in Roles : \A a \in GetAncestors(r) : Descends(edges, r, a)

(***************************************************************************)
(* can_check: once a cannot rule covers an operation on a resource, no     *)
(* later rule, grant or role makes that request granted again, for any     *)
(* role and in any context.                                                *)
(***************************************************************************)
DenyIsFinal ==
    [][\A op \in Ops, res \in Types \cup {None} :
          DenyApplies(op, res) =>
             \A role \in Roles, ctx \in SUBSET Conds : ~CanCheck(role, op, res, ctx)']_vars

(***************************************************************************)
(* What the permission cache says of a role stems from the rules or from a *)
(* grant to a role connected with it, also when the cache is older than    *)
(* the last re-parenting or grant: permissions do not leak between         *)
(* families that no edge connects.                                         *)
(***************************************************************************)
Connected(r, s) ==
    \A S \in SUBSET Roles :
        r \in S /\ (\A e \in edges : e[1] \in S <=> e[2] \in S) => s \in S

CacheConfined ==
    \A r \in Roles : cache[r] # None =>
        \A op \in cache[r] :
            \/ \E rule \in rules : rule.op = op
            \/ \E g \in grants : g.op = op /\ Connected(r, g.target)

(* The calls implement the abstract delegation discipline. *)
Above(E) == {pair \in Roles \X Roles : Descends(E, pair[2], pair[1])}

AboveNow == Above(edges)

IssuedNow == {[by |-> g.by, target |-> g.target, slot |-> <<g.op, g.var, g.type>>,
               term |-> g.cond] : g \in grants}

D == INSTANCE Delegation WITH
        Slots <- Ops \X Vars \X (Types \cup {AnyType}),
        Terms <- Conds \cup {NoCond},
        above <- AboveNow,
        issued <- IssuedNow

(***************************************************************************)
(* GrantSystem refines Delegation: descent is a strict order that only     *)
(* grows, and every accepted grant is an authorised, first issue.          *)
(***************************************************************************)
ImplementsDelegation == D!Spec

-----------------------------------------------------------------------------
(* What comments in ty.rs say, and the code does not do. *)

(* "Track existing grants to avoid duplicates": existing holds the grants made. *)
ExistingAreGrants == existing = {Key(g) : g \in grants}

(* "grants RoleB permission": without rules, only the target and its family profit. *)
GrantReachesItsTarget ==
    \A r \in Roles, op \in Ops, res \in Types, ctx \in SUBSET Conds :
        rules = {} /\ CanCheck(r, op, res, ctx) =>
            \E g \in grants : g.op = op /\ Connected(r, g.target)
=============================================================================
