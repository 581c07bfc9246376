------------------------- MODULE GrantSystem_proofs -------------------------
(***************************************************************************)
(* Theorems about GrantSystem for every set of roles, operations, types    *)
(* and conditions, and without the bounds the runs need.                   *)
(***************************************************************************)
EXTENDS GrantSystem, FiniteSetTheorems, TLAPS

(* Facts about descent. *)
(* get_children and is_descendant agree: a child of a role descends from it. *)
LEMMA ChildDescends ==
    ASSUME NEW E, NEW a \in Roles, NEW d \in Children(E, a)
    PROVE  Descends(E, d, a)
BY DEF Descends

(* The descendants of a role are closed under children, and hold its own. *)
LEMMA DescendantsClosed ==
    ASSUME NEW E, NEW a \in Roles
    PROVE  Closed(E, Descendants(E, a)) /\ Children(E, a) \subseteq Descendants(E, a)
<1>1. Children(E, a) \subseteq Descendants(E, a)
  BY DEF Descends, Descendants, Children
<1>2. ASSUME NEW r \in Descendants(E, a), NEW c \in Children(E, r)
      PROVE  c \in Descendants(E, a)
  BY <1>2 DEF Descends, Descendants, Children, Closed
<1>. QED  BY <1>1, <1>2 DEF Closed

(* is_descendant is transitive. *)
LEMMA DescendsTransitive ==
    ASSUME NEW E, NEW a \in Roles, NEW b \in Roles, NEW c \in Roles,
           Descends(E, b, a), Descends(E, c, b)
    PROVE  Descends(E, c, a)
BY DEF Descends, Closed

(* Adding edges takes no descent away. *)
LEMMA DescendsMonotone ==
    ASSUME NEW E, NEW F, E \subseteq F, NEW a \in Roles, NEW d \in Roles,
           Descends(E, d, a)
    PROVE  Descends(F, d, a)
<1>. SUFFICES ASSUME NEW S \in SUBSET Roles, Closed(F, S), Children(F, a) \subseteq S
              PROVE  d \in S
  BY DEF Descends
<1>1. Closed(E, S) /\ Children(E, a) \subseteq S
  BY DEF Closed, Children
<1>. QED  BY <1>1 DEF Descends

(* An edge that would_create_cycle lets pass leaves an acyclic graph acyclic. *)
LEMMA AddEdgeAcyclic ==
    ASSUME NEW E, Acyclic(E), NEW c \in Roles, NEW p \in Roles,
           ~WouldCreateCycle(E, c, p)
    PROVE  Acyclic(E \cup {<<p, c>>})
<1>. DEFINE F == E \cup {<<p, c>>}
            T == Descendants(E, c)
<1>1. c # p /\ p \notin T
  BY DEF WouldCreateCycle, Descendants
<1>2. Closed(E, T) /\ Children(E, c) \subseteq T
  BY DescendantsClosed
<1>3. \A x \in Roles : Children(F, x) = IF x = p THEN Children(E, x) \cup {c} ELSE Children(E, x)
  BY DEF Children
<1>. SUFFICES ASSUME NEW r \in Roles PROVE ~Descends(F, r, r)
  BY DEF Acyclic
<1>. DEFINE S == Descendants(E, r)
<1>4. Closed(E, S) /\ Children(E, r) \subseteq S /\ r \notin S
  BY DescendantsClosed DEF Acyclic, Descendants
<1>5. S \in SUBSET Roles /\ T \in SUBSET Roles
  BY DEF Descendants
<1>6. CASE r # p /\ p \notin S
  <2>1. Closed(F, S) /\ Children(F, r) \subseteq S
    BY <1>3, <1>4, <1>5, <1>6 DEF Closed
  <2>. QED  BY <2>1, <1>4, <1>5 DEF Descends
<1>7. CASE r = p \/ p \in S
  <2>. DEFINE X == S \cup {c} \cup T
  <2>1. Closed(F, X) /\ Children(F, r) \subseteq X
    BY <1>1, <1>2, <1>3, <1>4, <1>5 DEF Closed
  <2>2. r # c
    BY <1>1, <1>7 DEF Descendants
  <2>3. r \notin T
    <3>1. CASE r = p
      BY <1>1, <3>1
    <3>2. CASE p \in S
      BY <1>1, <3>2, DescendsTransitive DEF Descendants
    <3>. QED  BY <1>7, <3>1, <3>2
  <2>4. X \in SUBSET Roles /\ r \notin X
    BY <1>4, <1>5, <2>2, <2>3
  <2>. QED  BY <2>1, <2>4 DEF Descends
<1>. QED  BY <1>6, <1>7

-----------------------------------------------------------------------------

(* Every accepted grant has its key on record. *)
KeysRecorded == \A g \in grants : Key(g) \in existing

(***************************************************************************)
(* The inductive invariant.  Uniqueness of keys needs KeysRecorded; that   *)
(* no key is taken twice is what the test on `existing` gives.  Authority  *)
(* lasts because edges are never removed.                                  *)
(***************************************************************************)
IInv ==
    /\ TypeOK
    /\ HierarchyAcyclic
    /\ GrantsAuthorised
    /\ KeysRecorded
    /\ OneGrantPerKey

LEMMA InitIInv == Init => IInv
<1>. SUFFICES ASSUME Init PROVE IInv
  OBVIOUS
<1>1. TypeOK
  BY DEF Init, TypeOK, EdgeSets
<1>2. HierarchyAcyclic
  <2>. SUFFICES ASSUME NEW r \in Roles PROVE ~Descends({}, r, r)
    BY DEF Init, HierarchyAcyclic, Acyclic
  <2>1. {} \in SUBSET Roles /\ Closed({}, {}) /\ Children({}, r) \subseteq {}
    BY DEF Closed, Children
  <2>. QED  BY <2>1 DEF Descends
<1>. QED  BY <1>1, <1>2 DEF Init, IInv, GrantsAuthorised, KeysRecorded, OneGrantPerKey

LEMMA TypeStep == TypeOK /\ [Next]_vars => TypeOK'
<1>. SUFFICES ASSUME TypeOK, [Next]_vars PROVE TypeOK'
  OBVIOUS
<1>. USE DEF TypeOK, EdgeSets
<1>1. ASSUME NEW r \in Roles, AddRoot(r) PROVE TypeOK'
  BY <1>1 DEF AddRoot
<1>2. ASSUME NEW child \in Roles, NEW p \in Roles, AddChild(child, p) PROVE TypeOK'
  BY <1>2 DEF AddChild
<1>3. ASSUME NEW child \in Roles, NEW p \in Roles, AddCyclic(child, p) PROVE TypeOK'
  BY <1>3 DEF AddCyclic, vars
<1>4. ASSUME NEW rule \in Rules, AddRule(rule) PROVE TypeOK'
  BY <1>4 DEF AddRule, hierarchy
<1>5. ASSUME NEW g \in Grants, ProcessGrant(g) PROVE TypeOK'
  <2>1. Key(g) \in Keys
    BY DEF Key, Keys, Grants
  <2>. QED  BY <1>5, <2>1 DEF ProcessGrant, RefuseDuplicate, RefuseAuthority, AcceptGrant,
                             hierarchy, vars
<1>6. CASE BuildCache
  <2>1. \A r \in Roles : Collected(r) \in SUBSET (Ops \cup {All})
    BY DEF Collected, Rules, Grants
  <2>. QED  BY <1>6, <2>1 DEF BuildCache, hierarchy
<1>7. CASE UNCHANGED vars
  BY <1>7 DEF vars
<1>. QED  BY <1>1, <1>2, <1>3, <1>4, <1>5, <1>6, <1>7 DEF Next

(* Edges are only ever added, so descent and authority last. *)
LEMMA EdgesGrow == [Next]_vars => edges \subseteq edges'
BY DEF Next, vars, hierarchy, AddRoot, AddChild, AddCyclic, AddRule, ProcessGrant,
       RefuseDuplicate, RefuseAuthority, AcceptGrant, BuildCache

LEMMA AcyclicStep == HierarchyAcyclic /\ [Next]_vars => HierarchyAcyclic'
<1>. SUFFICES ASSUME HierarchyAcyclic, [Next]_vars PROVE HierarchyAcyclic'
  OBVIOUS
<1>1. ASSUME NEW child \in Roles, NEW p \in Roles, AddChild(child, p)
      PROVE  HierarchyAcyclic'
  BY <1>1, AddEdgeAcyclic DEF AddChild, HierarchyAcyclic
<1>2. CASE edges' = edges
  BY <1>2 DEF HierarchyAcyclic
<1>. QED
  BY <1>1, <1>2 DEF Next, vars, hierarchy, AddRoot, AddCyclic, AddRule, ProcessGrant,
     RefuseDuplicate, RefuseAuthority, AcceptGrant, BuildCache

(* What a step does to the grant tables: nothing, a new key, or a first grant. *)
LEMMA GrantTables ==
    ASSUME [Next]_vars
    PROVE  \/ grants' = grants /\ existing \subseteq existing'
           \/ \E g \in Grants : /\ Key(g) \notin existing
                                /\ Authority(g.by, g.target)
                                /\ grants' = grants \cup {g}
                                /\ existing' = existing \cup {Key(g)}
                                /\ edges' = edges
BY DEF Next, vars, hierarchy, AddRoot, AddChild, AddCyclic, AddRule, ProcessGrant,
       RefuseDuplicate, RefuseAuthority, AcceptGrant, BuildCache

LEMMA GrantsStep ==
    TypeOK /\ GrantsAuthorised /\ KeysRecorded /\ OneGrantPerKey /\ [Next]_vars
        => GrantsAuthorised' /\ KeysRecorded' /\ OneGrantPerKey'
<1>. SUFFICES ASSUME TypeOK, GrantsAuthorised, KeysRecorded, OneGrantPerKey, [Next]_vars
              PROVE  GrantsAuthorised' /\ KeysRecorded' /\ OneGrantPerKey'
  OBVIOUS
<1>1. \A g \in Grants : Authority(g.by, g.target) => Authority(g.by, g.target)'
  BY EdgesGrow, DescendsMonotone DEF Authority, Grants
<1>2. CASE grants' = grants /\ existing \subseteq existing'
  BY <1>1, <1>2 DEF GrantsAuthorised, KeysRecorded, OneGrantPerKey, TypeOK, Key
<1>3. ASSUME NEW g \in Grants, Key(g) \notin existing, Authority(g.by, g.target),
             grants' = grants \cup {g}, existing' = existing \cup {Key(g)}
      PROVE  GrantsAuthorised' /\ KeysRecorded' /\ OneGrantPerKey'
  BY <1>1, <1>3 DEF GrantsAuthorised, KeysRecorded, OneGrantPerKey, TypeOK, Key
<1>. QED  BY <1>2, <1>3, GrantTables

LEMMA Inductive == Spec => []IInv
<1>1. IInv /\ [Next]_vars => IInv'
  BY TypeStep, AcyclicStep, GrantsStep DEF IInv
<1>. QED  BY InitIInv, <1>1, PTL DEF Spec

(***************************************************************************)
(* The variables of the grant system keep their types under every call of  *)
(* its API.                                                                *)
(***************************************************************************)
THEOREM TypeCorrect == Spec => []TypeOK
BY Inductive, PTL DEF IInv

(***************************************************************************)
(* add_role's test of one edge at a time keeps the whole hierarchy free of *)
(* cycles, for every set of roles.                                         *)
(***************************************************************************)
THEOREM NoCycles == Spec => []HierarchyAcyclic
BY Inductive, PTL DEF IInv

(***************************************************************************)
(* Whoever issued a grant that is in force is, at all later times, the     *)
(* target itself or above it.                                              *)
(***************************************************************************)
THEOREM AuthorityLasts == Spec => []GrantsAuthorised
BY Inductive, PTL DEF IInv

(* process_grant never accepts a second grant under a key it has accepted. *)
THEOREM KeysUnique == Spec => []OneGrantPerKey
BY Inductive, PTL DEF IInv

(***************************************************************************)
(* A request that a cannot rule covers stays denied whatever is declared   *)
(* or granted later.                                                       *)
(***************************************************************************)
THEOREM DenialsAreFinal == Spec => DenyIsFinal
<1>1. ASSUME [Next]_vars PROVE rules \subseteq rules'
  BY <1>1 DEF Next, vars, hierarchy, AddRoot, AddChild, AddCyclic, AddRule, ProcessGrant,
     RefuseDuplicate, RefuseAuthority, AcceptGrant, BuildCache
<1>2. [Next]_vars =>
        [\A op \in Ops, res \in Types \cup {None} :
          DenyApplies(op, res) =>
             \A role \in Roles, ctx \in SUBSET Conds : ~CanCheck(role, op, res, ctx)']_vars
  BY <1>1 DEF DenyApplies, CanCheck
<1>. QED  BY <1>2, PTL DEF Spec, DenyIsFinal

(* An acyclic hierarchy makes `above` a strict order. *)
LEMMA StrictlyAbove ==
    ASSUME NEW E, Acyclic(E)
    PROVE  D!StrictOrder(Above(E))
<1>1. ASSUME NEW a \in Roles PROVE <<a, a>> \notin Above(E)
  BY DEF Above, Acyclic
<1>2. ASSUME NEW a \in Roles, NEW b \in Roles, NEW c \in Roles,
             <<a, b>> \in Above(E), <<b, c>> \in Above(E)
      PROVE  <<a, c>> \in Above(E)
  BY <1>2, DescendsTransitive DEF Above
<1>. QED  BY <1>1, <1>2 DEF D!StrictOrder

LEMMA RefinementStep ==
    ASSUME IInv, IInv', [Next]_vars
    PROVE  [D!Next]_(D!dvars)
<1>1. AboveNow \subseteq AboveNow'
  BY EdgesGrow, DescendsMonotone DEF AboveNow, Above
<1>2. CASE grants' = grants
  <2>1. IssuedNow' = IssuedNow
    BY <1>2 DEF IssuedNow
  <2>2. D!StrictOrder(AboveNow')
    <3>1. Acyclic(edges')
      BY DEF IInv, HierarchyAcyclic
    <3>. QED  BY <3>1, StrictlyAbove DEF AboveNow
  <2>3. AboveNow' \in SUBSET (Roles \X Roles)
    BY DEF AboveNow, Above
  <2>. QED  BY <1>1, <2>1, <2>2, <2>3 DEF D!Next, D!Extend
<1>3. ASSUME NEW g \in Grants, Key(g) \notin existing, Authority(g.by, g.target),
             grants' = grants \cup {g}, edges' = edges
      PROVE  [D!Next]_(D!dvars)
  <2>. DEFINE Issued(h) == [by |-> h.by, target |-> h.target,
                            slot |-> <<h.op, h.var, h.type>>, term |-> h.cond]
              p == Issued(g)
  <2>1. p \in D!Permissions
    BY DEF D!Permissions, Grants
  <2>2. p.by = p.target \/ <<p.by, p.target>> \in AboveNow
    BY <1>3 DEF Authority, AboveNow, Above, Grants
  <2>3. \A q \in IssuedNow : <<q.target, q.slot>> # <<p.target, p.slot>>
    <3>. SUFFICES ASSUME NEW h \in grants
                  PROVE  <<Issued(h).target, Issued(h).slot>> # <<p.target, p.slot>>
      BY DEF IssuedNow
    <3>1. Key(h) # Key(g)
      BY <1>3 DEF IInv, KeysRecorded
    <3>. QED  BY <3>1 DEF Key
  <2>4. IssuedNow' = IssuedNow \cup {p}
    BY <1>3 DEF IssuedNow
  <2>5. AboveNow' = AboveNow
    BY <1>3 DEF AboveNow, Above
  <2>. QED  BY <2>1, <2>2, <2>3, <2>4, <2>5 DEF D!Next, D!Issue
<1>. QED  BY <1>2, <1>3, GrantTables

(***************************************************************************)
(* GrantSystem implements the abstract delegation discipline: the          *)
(* hierarchy is a strict order that only grows, and every accepted grant   *)
(* is an authorised first issue.                                           *)
(***************************************************************************)
THEOREM Refinement == Spec => ImplementsDelegation
<1>1. Init => D!Init
  <2>. SUFFICES ASSUME Init PROVE AboveNow = {} /\ IssuedNow = {}
    BY DEF D!Init
  <2>1. \A r \in Roles, d \in Roles : ~Descends({}, d, r)
    <3>. SUFFICES ASSUME NEW r \in Roles, NEW d \in Roles PROVE ~Descends({}, d, r)
      OBVIOUS
    <3>1. {} \in SUBSET Roles /\ Closed({}, {}) /\ Children({}, r) \subseteq {}
      BY DEF Closed, Children
    <3>. QED  BY <3>1 DEF Descends
  <2>. QED  BY <2>1 DEF Init, AboveNow, Above, IssuedNow
<1>2. IInv /\ IInv' /\ [Next]_vars => [D!Next]_(D!dvars)
  BY RefinementStep
<1>. QED  BY <1>1, <1>2, Inductive, PTL DEF Spec, ImplementsDelegation, D!Spec
-----------------------------------------------------------------------------
(* get_parent and the edges. *)

(* The parent a node remembers is the source of one of its edges. *)
ParentIsEdge == \A r \in Roles : parent[r] # None => <<parent[r], r>> \in edges

LEMMA ParentStep == TypeOK /\ ParentIsEdge /\ [Next]_vars => ParentIsEdge'
<1>. SUFFICES ASSUME TypeOK, ParentIsEdge, [Next]_vars PROVE ParentIsEdge'
  OBVIOUS
<1>1. ASSUME NEW child \in Roles, NEW p \in Roles, AddChild(child, p)
      PROVE  ParentIsEdge'
  BY <1>1 DEF AddChild, ParentIsEdge, TypeOK
<1>2. CASE parent' = parent
  BY <1>2, EdgesGrow DEF ParentIsEdge
<1>. QED
  BY <1>1, <1>2 DEF Next, vars, hierarchy, AddRoot, AddCyclic, AddRule, ProcessGrant,
     RefuseDuplicate, RefuseAuthority, AcceptGrant, BuildCache

LEMMA ParentInvariant == Spec => [](TypeOK /\ ParentIsEdge)
<1>1. Init => ParentIsEdge
  BY DEF Init, ParentIsEdge
<1>2. IInv => TypeOK
  BY DEF IInv
<1>. QED  BY <1>1, <1>2, Inductive, ParentStep, PTL DEF Spec

-----------------------------------------------------------------------------
(* The permission cache. *)

(* The roles connected with r are closed under edges, and so hold its family. *)
LEMMA FamilyIsConnected ==
    ASSUME TypeOK, ParentIsEdge, NEW r \in Roles, NEW x \in Family(r)
    PROVE  Connected(r, x)
<1>. DEFINE C == {y \in Roles : Connected(r, y)}
<1>1. r \in C
  BY DEF Connected
<1>2. ASSUME NEW y \in C, NEW z \in Roles, <<y, z>> \in edges \/ <<z, y>> \in edges
      PROVE  z \in C
  BY <1>2 DEF Connected
<1>3. \A y \in C : Neighbours(y) \subseteq C
  <2>. SUFFICES ASSUME NEW y \in C, NEW z \in Neighbours(y) PROVE z \in C
    OBVIOUS
  <2>1. z \in Roles /\ (<<y, z>> \in edges \/ <<z, y>> \in edges)
    BY DEF Neighbours, Children, ParentIsEdge, TypeOK
  <2>. QED  BY <1>2, <2>1
<1>4. C \in SUBSET Roles
  OBVIOUS
<1>. QED  BY <1>1, <1>3, <1>4 DEF Family

LEMMA ConnectedLasts ==
    ASSUME edges \subseteq edges', NEW r \in Roles, NEW x \in Roles, Connected(r, x)
    PROVE  Connected(r, x)'
BY DEF Connected

LEMMA RulesAndGrantsGrow == [Next]_vars => rules \subseteq rules' /\ grants \subseteq grants'
BY DEF Next, vars, hierarchy, AddRoot, AddChild, AddCyclic, AddRule, ProcessGrant,
       RefuseDuplicate, RefuseAuthority, AcceptGrant, BuildCache

LEMMA CacheStep ==
    TypeOK /\ ParentIsEdge /\ CacheConfined /\ [Next]_vars => CacheConfined'
<1>. SUFFICES ASSUME TypeOK, ParentIsEdge, CacheConfined, [Next]_vars,
                     NEW r \in Roles, cache'[r] # None, NEW op \in cache'[r]
              PROVE  \/ \E rule \in rules' : rule.op = op
                     \/ \E g \in grants' : g.op = op /\ Connected(r, g.target)'
  BY DEF CacheConfined
<1>1. \A g \in grants : g.target \in Roles
  BY DEF TypeOK, Grants
<1>. SUFFICES \/ \E rule \in rules : rule.op = op
              \/ \E g \in grants : g.op = op /\ Connected(r, g.target)
  BY <1>1, EdgesGrow, ConnectedLasts, RulesAndGrantsGrow
<1>2. CASE cache'[r] = cache[r]
  BY <1>2 DEF CacheConfined
<1>3. CASE cache'[r] = Collected(r)
  BY <1>3, FamilyIsConnected DEF Collected
<1>. QED
  BY <1>2, <1>3 DEF Next, vars, hierarchy, AddRoot, AddChild, AddCyclic, AddRule, ProcessGrant,
     RefuseDuplicate, RefuseAuthority, AcceptGrant, BuildCache, TypeOK

(***************************************************************************)
(* What the permission cache says of a role stems from a rule, or from a   *)
(* grant to a role that edges connect with it, however old the cache is.   *)
(***************************************************************************)
THEOREM CacheDoesNotLeak == Spec => []CacheConfined
<1>1. Init => CacheConfined
  BY DEF Init, CacheConfined
<1>. QED  BY <1>1, ParentInvariant, CacheStep, PTL DEF Spec

-----------------------------------------------------------------------------
(***************************************************************************)
(* get_ancestors.  Chain is a recursive function; that one exists which    *)
(* satisfies its equation is shown first, by joining the finite pieces of  *)
(* it.  Every set of numbers has a least element: with it a proof by       *)
(* induction looks at the least number that fails.                         *)
(***************************************************************************)
LEMMA LeastNumber ==
    ASSUME NEW T, T \subseteq Nat, T # {}
    PROVE  \E n \in T : \A m \in T : n <= m
<1>1. PICK n \in T : \A m \in T : ~ (m < n)
  <2>. DEFINE R == OpToRel(<, Nat)
  <2>1. IsWellFoundedOn(R, Nat)
    BY NatLessThanWellFounded
  <2>2. \A m \in T, n \in T : m < n => <<m, n>> \in R
    BY Zenon DEF OpToRel
  <2>. HIDE DEF R
  <2>3. \E n \in T : \A m \in T : ~ (<<m, n>> \in R)
    BY <2>1, WFMin
  <2>. QED  BY <2>2, <2>3
<1>. QED  BY <1>1

(* h iterates step from f up to the n-th time. *)
Iterates(h, n, S, f, step) ==
    /\ h \in [0..n -> S]
    /\ h[0] = f
    /\ \A i \in 1..n : h[i] = step[h[i - 1]]

LEMMA IteratesExist ==
    ASSUME NEW S, NEW f \in S, NEW step \in [S -> S]
    PROVE  \A n \in Nat : \E h : Iterates(h, n, S, f, step)
<1>. DEFINE T == {n \in Nat : ~ \E h : Iterates(h, n, S, f, step)}
<1>. SUFFICES ASSUME T # {} PROVE FALSE
  OBVIOUS
<1>1. PICK n \in T : \A m \in T : n <= m
  BY LeastNumber
<1>2. CASE n = 0
  <2>1. Iterates([i \in 0..0 |-> f], 0, S, f, step)
    BY DEF Iterates
  <2>. QED  BY <1>2, <2>1
<1>3. CASE n # 0
  <2>1. n - 1 \in Nat /\ n - 1 \notin T /\ n \in Nat
    BY <1>1, <1>3
  <2>2. PICK h : Iterates(h, n - 1, S, f, step)
    BY <2>1
  <2>. DEFINE g == [i \in 0..n |-> IF i = n THEN step[h[n - 1]] ELSE h[i]]
  <2>3. Iterates(g, n, S, f, step)
    BY <1>3, <2>1, <2>2 DEF Iterates
  <2>. QED  BY <2>3
<1>. QED  BY <1>2, <1>3

LEMMA IteratesAgree ==
    ASSUME NEW S, NEW f, NEW step, NEW m \in Nat, NEW n \in Nat, m <= n, NEW h, NEW k,
           Iterates(h, m, S, f, step), Iterates(k, n, S, f, step)
    PROVE  \A i \in 0..m : h[i] = k[i]
<1>. DEFINE T == {i \in 0..m : h[i] # k[i]}
<1>. SUFFICES ASSUME T # {} PROVE FALSE
  OBVIOUS
<1>1. PICK i \in T : \A j \in T : i <= j
  <2>1. T \subseteq Nat
    OBVIOUS
  <2>. HIDE DEF T
  <2>. QED  BY <2>1, LeastNumber
<1>2. i # 0
  BY <1>1 DEF Iterates
<1>3. i - 1 \in 0..m /\ i - 1 \notin T /\ i \in 1..m /\ i \in 1..n
  BY <1>1, <1>2
<1>4. h[i - 1] = k[i - 1]
  BY <1>3
<1>. QED  BY <1>3, <1>4 DEF Iterates

LEMMA Iteration ==
    ASSUME NEW S, NEW f \in S, NEW step \in [S -> S]
    PROVE  \E g \in [Nat -> S] : g[0] = f /\ \A n \in Nat \ {0} : g[n] = step[g[n - 1]]
<1>. DEFINE piece == [n \in Nat |-> CHOOSE h : Iterates(h, n, S, f, step)]
            g == [n \in Nat |-> piece[n][n]]
<1>1. \A n \in Nat : Iterates(piece[n], n, S, f, step)
  BY IteratesExist
<1>. HIDE DEF piece
<1>2. \A n \in Nat : n \in 0..n /\ (n # 0 => n - 1 \in Nat /\ n - 1 \in 0..n - 1 /\ n \in 1..n /\ n - 1 <= n)
  OBVIOUS
<1>3. g \in [Nat -> S]
  BY <1>1, <1>2 DEF Iterates
<1>4. ASSUME NEW n \in Nat PROVE g[n] = IF n = 0 THEN f ELSE step[g[n - 1]]
  <2>1. CASE n = 0
    BY <1>1, <2>1 DEF Iterates
  <2>2. CASE n # 0
    <3>1. piece[n][n] = step[piece[n][n - 1]]
      BY <1>1, <1>2, <2>2 DEF Iterates
    <3>2. piece[n][n - 1] = piece[n - 1][n - 1]
      <4>1. /\ n - 1 \in Nat /\ n - 1 <= n /\ n - 1 \in 0..n - 1
            /\ Iterates(piece[n - 1], n - 1, S, f, step)
            /\ Iterates(piece[n], n, S, f, step)
        BY <1>1, <1>2, <2>2
      <4>2. \A i \in 0..n - 1 : piece[n - 1][i] = piece[n][i]
        <5>. DEFINE m == n - 1
                    h == piece[n - 1]
                    k == piece[n]
        <5>1. m \in Nat /\ m <= n /\ Iterates(h, m, S, f, step) /\ Iterates(k, n, S, f, step)
          BY <4>1
        <5>. HIDE DEF m, h, k, g
        <5>2. \A i \in 0..m : h[i] = k[i]
          BY <5>1, IteratesAgree
        <5>. QED  BY <5>2 DEF m, h, k
      <4>. QED  BY <4>1, <4>2
    <3>. QED  BY <1>2, <2>2, <3>1, <3>2
  <2>. QED  BY <2>1, <2>2
<1>. QED  BY <1>3, <1>4

(* The equations of Chain. *)
LEMMA ChainSteps ==
    ASSUME parent \in [Roles -> Roles \cup {None}]
    PROVE  /\ Chain[0] = [r \in Roles |-> r]
           /\ \A n \in Nat : Chain[n + 1] = [r \in Roles |-> ParentOf(Chain[n][r])]
<1>. DEFINE S == [Roles -> Roles \cup {None}]
            id == [r \in Roles |-> r]
            step == [c \in S |-> [r \in Roles |-> ParentOf(c[r])]]
            IsChain(g) == g = [n \in Nat |->
                                 IF n = 0 THEN [r \in Roles |-> r]
                                          ELSE [r \in Roles |-> ParentOf(g[n - 1][r])]]
<1>1. id \in S /\ step \in [S -> S]
  BY DEF ParentOf
<1>2. PICK g \in [Nat -> S] : g[0] = id /\ \A n \in Nat \ {0} : g[n] = step[g[n - 1]]
  <2>. HIDE DEF S, id, step
  <2>. QED  BY <1>1, Iteration
<1>3. \A n \in Nat : n # 0 => step[g[n - 1]] = [r \in Roles |-> ParentOf(g[n - 1][r])]
  <2>1. \A n \in Nat : n # 0 => g[n - 1] \in S
    <3>. HIDE DEF S, id, step
    <3>1. \A n \in Nat : n # 0 => n - 1 \in Nat
      OBVIOUS
    <3>. QED  BY <1>2, <3>1
  <2>. QED  BY <2>1
<1>4. IsChain(g)
  <2>1. \A n \in Nat : g[n] = IF n = 0 THEN [r \in Roles |-> r]
                                       ELSE [r \in Roles |-> ParentOf(g[n - 1][r])]
    <3>1. \A n \in Nat : n # 0 => n \in Nat \ {0}
      OBVIOUS
    <3>. HIDE DEF S, step
    <3>. QED  BY <1>2, <1>3, <3>1
  <2>. QED  BY <1>2, <2>1
<1>5. Chain = CHOOSE h : IsChain(h)
  BY DEF Chain
<1>6. IsChain(Chain)
  <2>. HIDE DEF IsChain
  <2>. QED  BY <1>4, <1>5
<1>7. \A n \in Nat : n + 1 \in Nat /\ n + 1 # 0 /\ (n + 1) - 1 = n
  OBVIOUS
<1>8. \A n \in Nat : Chain[n] = IF n = 0 THEN [r \in Roles |-> r]
                                        ELSE [r \in Roles |-> ParentOf(Chain[n - 1][r])]
  BY <1>6
<1>9. Chain[0] = [r \in Roles |-> r]
  BY <1>8
<1>10. ASSUME NEW n \in Nat
       PROVE  Chain[n + 1] = [r \in Roles |-> ParentOf(Chain[n][r])]
  <2>1. PICK k \in Nat : k = n + 1 /\ k # 0 /\ k - 1 = n
    BY <1>7
  <2>2. Chain[k] = [r \in Roles |-> ParentOf(Chain[k - 1][r])]
    BY <1>8, <2>1
  <2>. QED  BY <2>1, <2>2
<1>. QED  BY <1>9, <1>10

(* Whatever a chain of parents leads to is an ancestor. *)
LEMMA ChainAscends ==
    ASSUME TypeOK, ParentIsEdge, NEW r \in Roles
    PROVE  \A n \in Nat \ {0} : Chain[n][r] = None
                                \/ (Chain[n][r] \in Roles /\ Descends(edges, r, Chain[n][r]))
<1>. DEFINE T == {n \in Nat \ {0} : ~ (Chain[n][r] = None
                                \/ (Chain[n][r] \in Roles /\ Descends(edges, r, Chain[n][r])))}
<1>. SUFFICES ASSUME T # {} PROVE FALSE
  OBVIOUS
<1>1. PICK n \in T : \A m \in T : n <= m
  <2>1. T \subseteq Nat
    OBVIOUS
  <2>. HIDE DEF T
  <2>. QED  BY <2>1, LeastNumber
<1>2. /\ Chain[0] = [x \in Roles |-> x]
      /\ \A m \in Nat : Chain[m + 1] = [x \in Roles |-> ParentOf(Chain[m][x])]
  BY ChainSteps DEF TypeOK
<1>3. n - 1 \in Nat /\ Chain[n][r] = ParentOf(Chain[n - 1][r])
  <2>1. n - 1 \in Nat /\ (n - 1) + 1 = n
    OBVIOUS
  <2>2. Chain[n] = [x \in Roles |-> ParentOf(Chain[n - 1][x])]
    BY <1>2, <2>1
  <2>. QED  BY <2>1, <2>2
<1>4. ASSUME NEW x \in Roles, parent[x] # None
      PROVE  parent[x] \in Roles /\ Descends(edges, x, parent[x])
  <2>1. parent[x] \in Roles /\ x \in Children(edges, parent[x])
    BY <1>4 DEF TypeOK, ParentIsEdge, Children
  <2>. QED  BY <2>1, ChildDescends
<1>5. CASE n = 1
  <2>1. [x \in Roles |-> x][r] = r /\ n - 1 = 0
    BY <1>5
  <2>2. Chain[0][r] = r
    BY <1>2, <2>1
  <2>3. Chain[n][r] = parent[r]
    BY <1>3, <2>1, <2>2, GrantConstants DEF ParentOf
  <2>. QED  BY <1>4, <2>3
<1>6. CASE n # 1
  <2>1. n - 1 \in Nat \ {0} /\ n - 1 \notin T
    BY <1>1, <1>6
  <2>2. \/ Chain[n - 1][r] = None
        \/ Chain[n - 1][r] \in Roles /\ Descends(edges, r, Chain[n - 1][r])
    BY <2>1
  <2>3. CASE Chain[n][r] = None
    BY <2>3
  <2>4. CASE Chain[n][r] # None
    <3>. DEFINE x == Chain[n - 1][r]
    <3>1. x \in Roles /\ Descends(edges, r, x) /\ parent[x] = Chain[n][r]
      BY <1>3, <2>2, <2>4 DEF ParentOf
    <3>. HIDE DEF x
    <3>. QED  BY <1>4, <2>4, <3>1, DescendsTransitive
  <2>. QED  BY <2>3, <2>4
<1>. QED  BY <1>5, <1>6

(***************************************************************************)
(* get_ancestors never leads off the hierarchy: each role it lists is an   *)
(* ancestor for is_descendant too, whatever parents a role has been given. *)
(***************************************************************************)
THEOREM AncestorsAreAbove == Spec => []ParentChainAscends
<1>1. TypeOK /\ ParentIsEdge => ParentChainAscends
  <2>. SUFFICES ASSUME TypeOK, ParentIsEdge, NEW r \in Roles, NEW a \in GetAncestors(r)
                PROVE  Descends(edges, r, a)
    BY DEF ParentChainAscends
  <2>1. PICK n \in 1..Cardinality(Roles) : a = Chain[n][r]
    BY DEF GetAncestors
  <2>2. n \in Nat \ {0} /\ a # None
    BY <2>1 DEF GetAncestors
  <2>. QED  BY <2>1, <2>2, ChainAscends
<1>. QED  BY <1>1, ParentInvariant, PTL
=============================================================================
