---------------------------- MODULE Typing_proofs ----------------------------
(***************************************************************************)
(* For every program, every bound on its steps and numbers of any width:   *)
(* what the checker says of an expression is what its evaluation does, the *)
(* aliases of a type resolve unless they reach a cycle, and the evaluators *)
(* of conditions agree.                                                    *)
(*                                                                         *)
(* Expressions, predicates and types are finite trees, so the recursive    *)
(* functions of the model exist and facts about them go by induction on    *)
(* the nesting.  ChecksSuffice needs the invariant ScopesAgree: a name     *)
(* whose value the checker has seen is bound to a value of its type.       *)
(* AliasesResolve needs that aliases are finitely many: without a cycle,   *)
(* each step of the resolution has one alias less to reach.                *)
(***************************************************************************)
EXTENDS Typing, FiniteSetTheorems, WellFoundedInduction, TLAPS

(***************************************************************************)
(* The recursive functions of the model descend on finite trees.  One      *)
(* lemma shows that all of them exist: `c` names a function and its        *)
(* parameters, Body the right-hand side of its definition.                 *)
(***************************************************************************)
GoodReg(r) ==
    /\ IsFiniteSet(DOMAIN r.aliases)
    /\ \A a \in DOMAIN r.aliases : r.aliases[a] \in AllTypes

ExprKinds == {"eval", "check", "cond", "inside"}

PredKinds == {"policy", "run", "parts"}

Proper(c) ==
    \/ c[1] \in ExprKinds \cup PredKinds
    \/ c[1] = "deep" /\ GoodReg(c[2])
    \/ c[1] = "level" /\ c[3] \in Nat

Domain(c) ==
    CASE c[1] \in ExprKinds -> AllExprs
      [] c[1] \in PredKinds -> AllPreds
      [] c[1] = "deep" -> (0..Fuel(c[2])) \X AllTypes
      [] c[1] = "level" -> 0..c[3]

Rank(c, x) ==
    CASE c[1] \in ExprKinds \cup PredKinds -> Nesting(x)
      [] c[1] = "deep" -> x[1] * (MaxNesting + 1) + Nesting(x[2])
      [] c[1] = "level" -> x

Body(c, f, x) ==
    CASE c[1] = "eval" -> Then(All(f, Operands(x)), LAMBDA vs : Outcome(c[2], x, vs))
      [] c[1] = "check" -> Then(All(f, Operands(x)), LAMBDA vs : TypeGiven(c[2], c[3], x, vs))
      [] c[1] = "cond" -> Then(All(f, CondOperands(x)), LAMBDA vs : CondOutcome(c[2], x, vs))
      [] c[1] = "inside" -> {x} \cup UNION {f[y] : y \in ToSet(Operands(x))}
      [] c[1] = "parts" -> {x} \cup UNION {f[y] : y \in ToSet(PredParts(x))}
      [] c[1] = "policy" ->
            IF PredParts(x) # <<>> THEN Connected(x, f)
            ELSE Then(All(CondEvaluation(c[2]), PredExprs(x)),
                      LAMBDA vs : Ok(PolicyHolds(c[2], x, vs)))
      [] c[1] = "run" ->
            IF PredParts(x) # <<>> THEN Connected(x, f)
            ELSE Then(All(Evaluation(c[2]), PredExprs(x)),
                      LAMBDA vs : Ok(RunHolds(c[2], x, vs)))
      [] c[1] = "deep" -> Deepened(c[2], x[1], x[2], f)
      [] c[1] = "level" -> IF x = 0 THEN {c[2]} ELSE UNION {TypeParts(t) : t \in f[x - 1]}

Agree(c, f, g, x) == \A y \in Domain(c) : Rank(c, y) < Rank(c, x) => f[y] = g[y]

LEMMA RankNat ==
    ASSUME NEW c, Proper(c)
    PROVE  /\ \A x \in Domain(c) : Rank(c, x) \in Nat
           /\ \E n \in Nat : \A x \in Domain(c) : Rank(c, x) < n
<1>0. MaxNesting \in Nat
  BY ExpressionsAreTrees
<1>1. CASE c[1] \in ExprKinds \cup PredKinds
  <2>1. \A x \in AllExprs : Nesting(x) \in 0..MaxNesting
    BY ExpressionsAreTrees
  <2>2. \A x \in AllPreds : Nesting(x) \in 0..MaxNesting
    BY PredicatesAreTrees
  <2>3. \A x \in Domain(c) : Rank(c, x) \in 0..MaxNesting
    BY <1>1, <2>1, <2>2 DEF Domain, Rank, ExprKinds, PredKinds
  <2>4. \A x \in Domain(c) : Rank(c, x) \in Nat /\ Rank(c, x) < MaxNesting + 1
    BY <2>3, <1>0
  <2>. QED BY <2>4, <1>0
<1>2. CASE c[1] = "deep" /\ GoodReg(c[2])
  <2>1. Fuel(c[2]) \in Nat
    BY <1>2, FS_CardinalityType DEF GoodReg, Fuel
  <2>2. Domain(c) = (0..Fuel(c[2])) \X AllTypes
    BY <1>2 DEF Domain, ExprKinds, PredKinds
  <2>3. ASSUME NEW x \in Domain(c)
        PROVE  Rank(c, x) \in Nat /\ Rank(c, x) < (Fuel(c[2]) + 1) * (MaxNesting + 1)
    <3>1. x[1] \in 0..Fuel(c[2]) /\ x[2] \in AllTypes
      BY <2>2
    <3>2. Nesting(x[2]) \in 0..MaxNesting
      BY <3>1, TypesAreTrees
    <3>3. Rank(c, x) = x[1] * (MaxNesting + 1) + Nesting(x[2])
      BY <1>2 DEF Rank, ExprKinds, PredKinds
    <3>4. \A a, b, m, n \in Nat : a <= b /\ n <= m =>
              a * (m + 1) + n \in Nat /\ a * (m + 1) + n < (b + 1) * (m + 1)
      OBVIOUS
    <3>. QED BY <3>1, <3>2, <3>3, <3>4, <2>1, <1>0
  <2>4. (Fuel(c[2]) + 1) * (MaxNesting + 1) \in Nat
    BY <2>1, <1>0
  <2>. QED BY <2>3, <2>4
<1>3. CASE c[1] = "level" /\ c[3] \in Nat
  <2>1. \A x \in Domain(c) : Rank(c, x) \in Nat /\ Rank(c, x) < c[3] + 1
    BY <1>3 DEF Domain, Rank, ExprKinds, PredKinds
  <2>. QED BY <2>1, <1>3
<1>. QED BY <1>1, <1>2, <1>3 DEF Proper

(* Operands are expressions of less depth, and so are the parts of the other trees. *)
LEMMA OperandsBelow ==
    ASSUME NEW e \in AllExprs
    PROVE  /\ DOMAIN Operands(e) = 1..Len(Operands(e)) /\ Len(Operands(e)) \in Nat
           /\ \A i \in DOMAIN Operands(e) :
                 Operands(e)[i] \in AllExprs /\ Nesting(Operands(e)[i]) < Nesting(e)
<1>. DEFINE T == {x \in AllExprs : Nesting(x) < Nesting(e)}
            s == Operands(e)
<1>1. s \in Seq(T)
  BY ExpressionsAreTrees
<1>. HIDE DEF s
<1>2. DOMAIN s = 1..Len(s) /\ Len(s) \in Nat /\ \A i \in DOMAIN s : s[i] \in T
  BY <1>1
<1>. QED BY <1>2 DEF s

LEMMA PartsBelow ==
    ASSUME NEW p \in AllPreds
    PROVE  /\ PredParts(p) # <<>> => p[1] \in {"Not", "And", "Or"}
           /\ \A q \in ToSet(PredParts(p)) : q \in AllPreds /\ Nesting(q) < Nesting(p)
           /\ p[1] \in {"Not", "And", "Or"} => p[2] \in ToSet(PredParts(p))
           /\ p[1] \in {"And", "Or"} => p[3] \in ToSet(PredParts(p))
<1>. DEFINE T == {q \in AllPreds : Nesting(q) < Nesting(p)}
            s == PredParts(p)
<1>1. s \in Seq(T)
  BY PredicatesAreTrees
<1>2. s # <<>> => p[1] \in {"Not", "And", "Or"}
  BY DEF PredParts
<1>3. p[1] \in {"Not", "And", "Or"} => 1 \in DOMAIN s /\ s[1] = p[2]
  BY DEF PredParts
<1>4. p[1] \in {"And", "Or"} => 2 \in DOMAIN s /\ s[2] = p[3]
  BY DEF PredParts
<1>. HIDE DEF s
<1>5. \A i \in DOMAIN s : s[i] \in T
  BY <1>1
<1>6. ToSet(s) = {s[i] : i \in DOMAIN s}
  BY DEF ToSet
<1>7. \A i \in DOMAIN s : s[i] \in ToSet(s)
  BY <1>6
<1>8. p[1] \in {"Not", "And", "Or"} => p[2] \in ToSet(s)
  BY <1>3, <1>7
<1>9. p[1] \in {"And", "Or"} => p[3] \in ToSet(s)
  BY <1>4, <1>7
<1>10. \A q \in ToSet(s) : q \in AllPreds /\ Nesting(q) < Nesting(p)
  BY <1>5, <1>6
<1>. QED BY <1>2, <1>8, <1>9, <1>10 DEF s

LEMMA TypePartsBelow ==
    ASSUME NEW t \in AllTypes, NEW u \in TypeParts(t)
    PROVE  u \in AllTypes /\ Nesting(u) < Nesting(t) /\ Nesting(u) \in Nat
BY TypesAreTrees

LEMMA AllLocal ==
    ASSUME NEW f, NEW g, NEW s, \A i \in DOMAIN s : f[s[i]] = g[s[i]]
    PROVE  All(f, s) = All(g, s)
BY DEF All

LEMMA OperandsLocal ==
    ASSUME NEW f, NEW g, NEW e \in AllExprs,
           \A y \in AllExprs : Nesting(y) < Nesting(e) => f[y] = g[y]
    PROVE  /\ All(f, Operands(e)) = All(g, Operands(e))
           /\ All(f, CondOperands(e)) = All(g, CondOperands(e))
           /\ \A y \in ToSet(Operands(e)) : f[y] = g[y]
<1>. DEFINE s == Operands(e)
<1>1. \A i \in DOMAIN s : f[s[i]] = g[s[i]]
  BY OperandsBelow
<1>. HIDE DEF s
<1>2. All(f, s) = All(g, s)
  BY <1>1, AllLocal
<1>3. All(f, <<>>) = All(g, <<>>)
  BY AllLocal
<1>4. \A y \in ToSet(s) : f[y] = g[y]
  BY <1>1 DEF ToSet
<1>5. All(f, s) = All(g, s) /\ All(f, CondOperands(e)) = All(g, CondOperands(e))
  BY <1>2, <1>3 DEF CondOperands, s
<1>. QED BY <1>4, <1>5 DEF s

LEMMA BodyLocal ==
    ASSUME NEW c, Proper(c), NEW x \in Domain(c), NEW f, NEW g, Agree(c, f, g, x)
    PROVE  Body(c, f, x) = Body(c, g, x)
<1>1. CASE c[1] \in ExprKinds
  <2>1. x \in AllExprs /\ \A y \in AllExprs : Nesting(y) < Nesting(x) => f[y] = g[y]
    BY <1>1 DEF Domain, Rank, Agree, ExprKinds, PredKinds
  <2>2. /\ All(f, Operands(x)) = All(g, Operands(x))
        /\ All(f, CondOperands(x)) = All(g, CondOperands(x))
        /\ \A y \in ToSet(Operands(x)) : f[y] = g[y]
    BY <2>1, OperandsLocal
  <2>3. UNION {f[y] : y \in ToSet(Operands(x))} = UNION {g[y] : y \in ToSet(Operands(x))}
    BY <2>2
  <2>4. CASE c[1] = "eval"
    BY <2>2, <2>4 DEF Body
  <2>5. CASE c[1] = "check"
    BY <2>2, <2>5 DEF Body
  <2>6. CASE c[1] = "cond"
    BY <2>2, <2>6 DEF Body
  <2>7. CASE c[1] = "inside"
    BY <2>3, <2>7 DEF Body
  <2>. QED BY <1>1, <2>4, <2>5, <2>6, <2>7 DEF ExprKinds
<1>2. CASE c[1] \in PredKinds
  <2>1. x \in AllPreds /\ \A y \in AllPreds : Nesting(y) < Nesting(x) => f[y] = g[y]
    BY <1>2 DEF Domain, Rank, Agree, ExprKinds, PredKinds
  <2>2. \A y \in ToSet(PredParts(x)) : f[y] = g[y]
    BY <2>1, PartsBelow
  <2>3. UNION {f[y] : y \in ToSet(PredParts(x))} = UNION {g[y] : y \in ToSet(PredParts(x))}
    BY <2>2
  <2>4. PredParts(x) # <<>> => f[x[2]] = g[x[2]] /\ (x[1] # "Not" => f[x[3]] = g[x[3]])
    BY <2>1, <2>2, PartsBelow
  <2>5. PredParts(x) # <<>> => Connected(x, f) = Connected(x, g)
    BY <2>1, <2>4, PartsBelow DEF Connected, Then
  <2>6. CASE c[1] = "policy"
    BY <2>5, <2>6 DEF Body
  <2>7. CASE c[1] = "run"
    BY <2>5, <2>7 DEF Body
  <2>8. CASE c[1] = "parts"
    BY <2>3, <2>8 DEF Body
  <2>. QED BY <1>2, <2>6, <2>7, <2>8 DEF PredKinds
<1>3. CASE c[1] = "deep" /\ GoodReg(c[2])
  <2>. DEFINE r == c[2]
              n == x[1]
              t == x[2]
  <2>1. Fuel(r) \in Nat /\ MaxNesting \in Nat
    BY <1>3, FS_CardinalityType, ExpressionsAreTrees DEF GoodReg, Fuel
  <2>2. Domain(c) = (0..Fuel(r)) \X AllTypes
    BY <1>3 DEF Domain, ExprKinds, PredKinds
  <2>3. n \in 0..Fuel(r) /\ t \in AllTypes
    BY <2>2
  <2>4. \A y \in Domain(c) : Rank(c, y) = y[1] * (MaxNesting + 1) + Nesting(y[2])
    BY <1>3 DEF Rank, ExprKinds, PredKinds
  <2>5. ASSUME NEW m \in 0..Fuel(r), NEW u \in AllTypes,
               m * (MaxNesting + 1) + Nesting(u) < n * (MaxNesting + 1) + Nesting(t)
        PROVE  f[<<m, u>>] = g[<<m, u>>]
    <3>1. <<m, u>> \in Domain(c) /\ <<m, u>>[1] = m /\ <<m, u>>[2] = u
      BY <2>2
    <3>2. Rank(c, <<m, u>>) < Rank(c, x)
      BY <3>1, <2>4, <2>5
    <3>. QED BY <3>1, <3>2 DEF Agree
  <2>6. \A u \in TypeParts(t) : f[<<n, u>>] = g[<<n, u>>]
    <3>. SUFFICES ASSUME NEW u \in TypeParts(t) PROVE f[<<n, u>>] = g[<<n, u>>]
      OBVIOUS
    <3>1. u \in AllTypes /\ Nesting(u) < Nesting(t) /\ Nesting(u) \in Nat /\ Nesting(t) \in Nat
      BY <2>3, TypesAreTrees, <2>1
    <3>2. n * (MaxNesting + 1) \in Nat
      BY <2>1, <2>3
    <3>3. n * (MaxNesting + 1) + Nesting(u) < n * (MaxNesting + 1) + Nesting(t)
      BY <3>1, <3>2
    <3>. QED BY <2>5, <3>1, <3>3, <2>3
  <2>7. IsAlias(r, t) /\ n # 0 =>
            f[<<n - 1, r.aliases[t[2]]>>] = g[<<n - 1, r.aliases[t[2]]>>]
    <3>. SUFFICES ASSUME IsAlias(r, t), n # 0
                  PROVE f[<<n - 1, r.aliases[t[2]]>>] = g[<<n - 1, r.aliases[t[2]]>>]
      OBVIOUS
    <3>. DEFINE u == r.aliases[t[2]]
    <3>1. u \in AllTypes
      BY <1>3 DEF GoodReg, IsAlias
    <3>2. Nesting(u) \in 0..MaxNesting /\ Nesting(t) \in Nat
      BY <3>1, <2>3, TypesAreTrees, <2>1
    <3>3. n - 1 \in 0..Fuel(r)
      BY <2>1, <2>3
    <3>4. \A a, k, i, j \in Nat : i <= k /\ a # 0 => (a - 1) * (k + 1) + i < a * (k + 1) + j
      OBVIOUS
    <3>5. (n - 1) * (MaxNesting + 1) + Nesting(u) < n * (MaxNesting + 1) + Nesting(t)
      BY <3>2, <3>4, <2>1, <2>3
    <3>. HIDE DEF u
    <3>6. f[<<n - 1, u>>] = g[<<n - 1, u>>]
      BY <2>5, <3>1, <3>3, <3>5
    <3>. QED BY <3>6 DEF u
  <2>. HIDE DEF n, t, r
  <2>8. Deepened(r, n, t, f) = Deepened(r, n, t, g)
    <3>1. CASE IsAlias(r, t)
      BY <3>1, <2>7 DEF Deepened
    <3>2. CASE ~IsAlias(r, t) /\ \E part \in TypeParts(t) : f[<<n, part>>] = Endless
      BY <3>2, <2>6 DEF Deepened
    <3>3. CASE ~IsAlias(r, t) /\ ~\E part \in TypeParts(t) : f[<<n, part>>] = Endless
      <4>1. t[1] \in ListKinds \cup SetKinds => t[2] \in TypeParts(t)
        BY DEF TypeParts
      <4>2. t[1] \in MapKinds => t[2] \in TypeParts(t) /\ t[3] \in TypeParts(t)
        BY DEF TypeParts, MapKinds, ListKinds, SetKinds
      <4>3. "SizedList" \in ListKinds
        BY DEF ListKinds
      <4>. QED BY <3>3, <2>6, <4>1, <4>2, <4>3 DEF Deepened
    <3>. QED BY <3>1, <3>2, <3>3
  <2>. QED BY <2>8, <1>3 DEF Body, n, t, r
<1>4. CASE c[1] = "level" /\ c[3] \in Nat
  <2>1. x \in 0..c[3] /\ \A y \in 0..c[3] : y < x => f[y] = g[y]
    BY <1>4 DEF Domain, Rank, Agree, ExprKinds, PredKinds
  <2>2. x # 0 => f[x - 1] = g[x - 1]
    BY <2>1, <1>4
  <2>3. Body(c, f, x) = IF x = 0 THEN {c[2]} ELSE UNION {TypeParts(t) : t \in f[x - 1]}
    BY <1>4 DEF Body
  <2>4. Body(c, g, x) = IF x = 0 THEN {c[2]} ELSE UNION {TypeParts(t) : t \in g[x - 1]}
    BY <1>4 DEF Body
  <2>. QED BY <2>2, <2>3, <2>4
<1>. QED BY <1>1, <1>2, <1>3, <1>4 DEF Proper

LEMMA Recursion ==
    ASSUME NEW c, Proper(c)
    PROVE  \E f : f = [x \in Domain(c) |-> Body(c, f, x)]
<1>. DEFINE Under(n) == {x \in Domain(c) : Rank(c, x) < n}
            Good(n) == \E f : f = [x \in Under(n) |-> Body(c, f, x)]
            T == {n \in Nat : Good(n)}
<1>1. \A x \in Domain(c) : Rank(c, x) \in Nat
  BY RankNat
<1>2. 0 \in T
  <2>1. Under(0) = {}
    BY <1>1
  <2>. DEFINE f == [x \in {} |-> x]
  <2>2. f = [x \in Under(0) |-> Body(c, f, x)]
    BY <2>1
  <2>3. Good(0)
    BY <2>2
  <2>. QED BY <2>3
<1>3. ASSUME NEW n \in T PROVE n + 1 \in T
  <2>1. n \in Nat /\ Good(n)
    BY <1>3
  <2>2. PICK f : f = [x \in Under(n) |-> Body(c, f, x)]
    BY <2>1
  <2>. DEFINE g == [x \in Under(n + 1) |-> Body(c, f, x)]
  <2>3. ASSUME NEW x \in Under(n + 1) PROVE Body(c, f, x) = Body(c, g, x)
    <3>1. \A y \in Domain(c) : Rank(c, y) < Rank(c, x) => y \in Under(n) /\ y \in Under(n + 1)
      BY <1>1, <2>1
    <3>2. \A y \in Under(n) : f[y] = Body(c, f, y)
      BY <2>2
    <3>3. \A y \in Under(n + 1) : g[y] = Body(c, f, y)
      OBVIOUS
    <3>. HIDE DEF g, Under
    <3>4. Agree(c, f, g, x)
      BY <3>1, <3>2, <3>3 DEF Agree
    <3>5. x \in Domain(c)
      BY <2>3 DEF Under
    <3>. QED BY <3>4, <3>5, BodyLocal
  <2>. HIDE DEF Under
  <2>4. g = [x \in Under(n + 1) |-> Body(c, g, x)]
    BY <2>3
  <2>. HIDE DEF g
  <2>5. Good(n + 1)
    BY <2>4
  <2>. QED BY <2>1, <2>5
<1>4. PICK n \in Nat : \A x \in Domain(c) : Rank(c, x) < n
  BY RankNat
<1>. HIDE DEF Good
<1>5. n \in T
  <2>. SUFFICES ASSUME n \notin T PROVE FALSE
    OBVIOUS
  <2>1. PICK m \in Nat \ T : \A k \in Nat \ T : ~(k < m)
    <3>. DEFINE D == Nat \ T
    <3>1. n \in D /\ D \subseteq Nat
      OBVIOUS
    <3>. HIDE DEF D, T
    <3>2. \E m \in D : \A k \in D : ~(<<k, m>> \in OpToRel(<, Nat))
      BY <3>1, NatLessThanWellFounded, WFMin
    <3>. QED BY <3>1, <3>2 DEF OpToRel, D
  <2>2. m # 0
    BY <1>2
  <2>3. m - 1 \in Nat /\ m - 1 < m /\ (m - 1) + 1 = m
    BY <2>2
  <2>. HIDE DEF T
  <2>4. m - 1 \in T
    BY <2>1, <2>3
  <2>. QED BY <2>3, <2>4, <1>3
<1>6. Under(n) = Domain(c)
  BY <1>4
<1>7. PICK f : f = [x \in Under(n) |-> Body(c, f, x)]
  BY <1>5 DEF Good
<1>. HIDE DEF Under
<1>. QED BY <1>6, <1>7

-----------------------------------------------------------------------------
(* What the recursive functions give, one step unfolded. *)
LEMMA EvalUnfolds ==
    ASSUME NEW c, NEW e \in AllExprs
    PROVE  LET r == All(Evaluation(c), Operands(e))
           IN  Eval(c, e) = IF IsOk(r) THEN Outcome(c, e, r[2]) ELSE r
<1>. DEFINE k == <<"eval", c>>
<1>1. Proper(k) /\ Domain(k) = AllExprs
  BY DEF Proper, Domain, ExprKinds, PredKinds
<1>2. \A f, x : Body(k, f, x) = Then(All(f, Operands(x)), LAMBDA vs : Outcome(c, x, vs))
  BY DEF Body
<1>. HIDE DEF k
<1>3. PICK f : f = [x \in AllExprs |-> Body(k, f, x)]
  BY <1>1, Recursion
<1>4. f = [x \in AllExprs |-> Then(All(f, Operands(x)), LAMBDA vs : Outcome(c, x, vs))]
  BY <1>2, <1>3
<1>5. Evaluation(c) =
        [x \in AllExprs |-> Then(All(Evaluation(c), Operands(x)), LAMBDA vs : Outcome(c, x, vs))]
  BY <1>4 DEF Evaluation
<1>. QED BY <1>5 DEF Eval, Then

LEMMA CheckUnfolds ==
    ASSUME NEW v, NEW r, NEW e \in AllExprs
    PROVE  LET q == All(Checking(v, r), Operands(e))
           IN  CheckExpr(v, r, e) = IF IsOk(q) THEN TypeGiven(v, r, e, q[2]) ELSE q
<1>. DEFINE k == <<"check", v, r>>
<1>1. Proper(k) /\ Domain(k) = AllExprs
  BY DEF Proper, Domain, ExprKinds, PredKinds
<1>2. \A f, x : Body(k, f, x) = Then(All(f, Operands(x)), LAMBDA ts : TypeGiven(v, r, x, ts))
  BY DEF Body
<1>. HIDE DEF k
<1>3. PICK f : f = [x \in AllExprs |-> Body(k, f, x)]
  BY <1>1, Recursion
<1>4. f = [x \in AllExprs |-> Then(All(f, Operands(x)), LAMBDA ts : TypeGiven(v, r, x, ts))]
  BY <1>2, <1>3
<1>5. Checking(v, r) =
        [x \in AllExprs |->
            Then(All(Checking(v, r), Operands(x)), LAMBDA ts : TypeGiven(v, r, x, ts))]
  BY <1>4 DEF Checking
<1>. QED BY <1>5 DEF CheckExpr, Then

LEMMA CondUnfolds ==
    ASSUME NEW c, NEW e \in AllExprs
    PROVE  LET r == All(CondEvaluation(c), CondOperands(e))
           IN  CondEval(c, e) = IF IsOk(r) THEN CondOutcome(c, e, r[2]) ELSE r
<1>. DEFINE k == <<"cond", c>>
<1>1. Proper(k) /\ Domain(k) = AllExprs
  BY DEF Proper, Domain, ExprKinds, PredKinds
<1>2. \A f, x : Body(k, f, x) = Then(All(f, CondOperands(x)), LAMBDA vs : CondOutcome(c, x, vs))
  BY DEF Body
<1>. HIDE DEF k
<1>3. PICK f : f = [x \in AllExprs |-> Body(k, f, x)]
  BY <1>1, Recursion
<1>4. f = [x \in AllExprs |-> Then(All(f, CondOperands(x)), LAMBDA vs : CondOutcome(c, x, vs))]
  BY <1>2, <1>3
<1>5. CondEvaluation(c) =
        [x \in AllExprs |->
            Then(All(CondEvaluation(c), CondOperands(x)), LAMBDA vs : CondOutcome(c, x, vs))]
  BY <1>4 DEF CondEvaluation
<1>. QED BY <1>5 DEF CondEval, Then

LEMMA InsideUnfolds ==
    ASSUME NEW e \in AllExprs
    PROVE  Inside[e] = {e} \cup UNION {Inside[x] : x \in ToSet(Operands(e))}
<1>. DEFINE k == <<"inside">>
<1>1. Proper(k) /\ Domain(k) = AllExprs
  BY DEF Proper, Domain, ExprKinds, PredKinds
<1>2. \A f, x : Body(k, f, x) = {x} \cup UNION {f[y] : y \in ToSet(Operands(x))}
  BY DEF Body
<1>. HIDE DEF k
<1>3. PICK f : f = [x \in AllExprs |-> Body(k, f, x)]
  BY <1>1, Recursion
<1>4. f = [x \in AllExprs |-> {x} \cup UNION {f[y] : y \in ToSet(Operands(x))}]
  BY <1>2, <1>3
<1>5. Inside = [x \in AllExprs |-> {x} \cup UNION {Inside[y] : y \in ToSet(Operands(x))}]
  BY <1>4 DEF Inside
<1>. QED BY <1>5

LEMMA PredsInsideUnfolds ==
    ASSUME NEW p \in AllPreds
    PROVE  PredsInside[p] = {p} \cup UNION {PredsInside[q] : q \in ToSet(PredParts(p))}
<1>. DEFINE k == <<"parts">>
<1>1. Proper(k) /\ Domain(k) = AllPreds
  BY DEF Proper, Domain, ExprKinds, PredKinds
<1>2. \A f, x : Body(k, f, x) = {x} \cup UNION {f[y] : y \in ToSet(PredParts(x))}
  BY DEF Body
<1>. HIDE DEF k
<1>3. PICK f : f = [x \in AllPreds |-> Body(k, f, x)]
  BY <1>1, Recursion
<1>4. f = [x \in AllPreds |-> {x} \cup UNION {f[y] : y \in ToSet(PredParts(x))}]
  BY <1>2, <1>3
<1>5. PredsInside = [x \in AllPreds |-> {x} \cup UNION {PredsInside[y] : y \in ToSet(PredParts(x))}]
  BY <1>4 DEF PredsInside
<1>. QED BY <1>5

LEMMA PolicyUnfolds ==
    ASSUME NEW c, NEW p \in AllPreds
    PROVE  LET r == All(CondEvaluation(c), PredExprs(p))
           IN  EvaluatePred(c, p) =
                   IF PredParts(p) # <<>> THEN Connected(p, PolicyJudgement(c))
                   ELSE IF IsOk(r) THEN Ok(PolicyHolds(c, p, r[2])) ELSE r
<1>. DEFINE k == <<"policy", c>>
            G(f, x) == IF PredParts(x) # <<>> THEN Connected(x, f)
                       ELSE Then(All(CondEvaluation(c), PredExprs(x)),
                                 LAMBDA vs : Ok(PolicyHolds(c, x, vs)))
<1>1. Proper(k) /\ Domain(k) = AllPreds
  BY DEF Proper, Domain, ExprKinds, PredKinds
<1>2. \A f, x : Body(k, f, x) = G(f, x)
  BY DEF Body
<1>. HIDE DEF k
<1>3. PICK f : f = [x \in AllPreds |-> Body(k, f, x)]
  BY <1>1, Recursion
<1>4. f = [x \in AllPreds |-> G(f, x)]
  BY <1>2, <1>3
<1>5. PolicyJudgement(c) = [x \in AllPreds |-> G(PolicyJudgement(c), x)]
  BY <1>4 DEF PolicyJudgement
<1>. QED BY <1>5 DEF EvaluatePred, Then

LEMMA RunUnfolds ==
    ASSUME NEW c, NEW p \in AllPreds
    PROVE  LET r == All(Evaluation(c), PredExprs(p))
           IN  EvalConditionPred(c, p) =
                   IF PredParts(p) # <<>> THEN Connected(p, RunJudgement(c))
                   ELSE IF IsOk(r) THEN Ok(RunHolds(c, p, r[2])) ELSE r
<1>. DEFINE k == <<"run", c>>
            G(f, x) == IF PredParts(x) # <<>> THEN Connected(x, f)
                       ELSE Then(All(Evaluation(c), PredExprs(x)),
                                 LAMBDA vs : Ok(RunHolds(c, x, vs)))
<1>1. Proper(k) /\ Domain(k) = AllPreds
  BY DEF Proper, Domain, ExprKinds, PredKinds
<1>2. \A f, x : Body(k, f, x) = G(f, x)
  BY DEF Body
<1>. HIDE DEF k
<1>3. PICK f : f = [x \in AllPreds |-> Body(k, f, x)]
  BY <1>1, Recursion
<1>4. f = [x \in AllPreds |-> G(f, x)]
  BY <1>2, <1>3
<1>5. RunJudgement(c) = [x \in AllPreds |-> G(RunJudgement(c), x)]
  BY <1>4 DEF RunJudgement
<1>. QED BY <1>5 DEF EvalConditionPred, Then

LEMMA DeepUnfolds ==
    ASSUME NEW r, GoodReg(r), NEW n \in 0..Fuel(r), NEW t \in AllTypes
    PROVE  Deepening(r)[<<n, t>>] = Deepened(r, n, t, Deepening(r))
<1>. DEFINE k == <<"deep", r>>
            D == (0..Fuel(r)) \X AllTypes
<1>1. Proper(k) /\ Domain(k) = D
  BY DEF Proper, Domain, ExprKinds, PredKinds
<1>2. \A f, x : Body(k, f, x) = Deepened(r, x[1], x[2], f)
  BY DEF Body
<1>. HIDE DEF k
<1>3. PICK f : f = [x \in D |-> Body(k, f, x)]
  BY <1>1, Recursion
<1>4. f = [x \in D |-> Deepened(r, x[1], x[2], f)]
  BY <1>2, <1>3
<1>5. Deepening(r) = [x \in D |-> Deepened(r, x[1], x[2], Deepening(r))]
  BY <1>4 DEF Deepening
<1>6. <<n, t>> \in D
  OBVIOUS
<1>. QED BY <1>5, <1>6

LEMMA LevelUnfolds ==
    ASSUME MaxDepth \in Nat, NEW t
    PROVE  /\ Level(t, 0) = {t}
           /\ \A d \in 1..MaxDepth : Level(t, d) = UNION {TypeParts(u) : u \in Level(t, d - 1)}
<1>. DEFINE k == <<"level", t, MaxDepth>>
            G(f, d) == IF d = 0 THEN {t} ELSE UNION {TypeParts(u) : u \in f[d - 1]}
            h == CHOOSE f : f = [d \in 0..MaxDepth |-> G(f, d)]
<1>1. Proper(k) /\ Domain(k) = 0..MaxDepth
  BY DEF Proper, Domain, ExprKinds, PredKinds
<1>2. \A f, x : Body(k, f, x) = G(f, x)
  BY DEF Body
<1>. HIDE DEF k
<1>3. PICK f : f = [x \in 0..MaxDepth |-> Body(k, f, x)]
  BY <1>1, Recursion
<1>4. f = [x \in 0..MaxDepth |-> G(f, x)]
  BY <1>2, <1>3
<1>5. h = [x \in 0..MaxDepth |-> G(h, x)]
  BY <1>4
<1>6. \A d : Level(t, d) = h[d]
  BY DEF Level
<1>. HIDE DEF h
<1>7. \A d \in 0..MaxDepth : Level(t, d) = G(h, d)
  BY <1>5, <1>6
<1>8. Level(t, 0) = {t}
  BY <1>7
<1>9. ASSUME NEW d \in 1..MaxDepth
      PROVE  Level(t, d) = UNION {TypeParts(u) : u \in Level(t, d - 1)}
  <2>1. d \in 0..MaxDepth /\ d # 0
    OBVIOUS
  <2>. QED BY <2>1, <1>6, <1>7
<1>. QED BY <1>8, <1>9

-----------------------------------------------------------------------------
(* Some set of naturals has a least member. *)
LEMMA LeastOfNat ==
    ASSUME NEW S, S \subseteq Nat, NEW n \in S
    PROVE  \E m \in S : \A k \in S : m <= k
<1>1. \E m \in S : \A k \in S : ~(<<k, m>> \in OpToRel(<, Nat))
  BY NatLessThanWellFounded, WFMin
<1>2. \A k, m \in Nat : <<k, m>> \in OpToRel(<, Nat) <=> k < m
  BY Zenon DEF OpToRel
<1>3. PICK m \in S : \A k \in S : ~(<<k, m>> \in OpToRel(<, Nat))
  BY <1>1
<1>4. \A k \in S : ~(k < m)
  BY <1>2, <1>3, Zenon
<1>5. \A k \in S : k \in Nat /\ m \in Nat
  OBVIOUS
<1>6. \A k \in S : m <= k
  BY <1>4, <1>5
<1>. QED BY <1>6

LEMMA NestingNat ==
    /\ \A e \in AllExprs : Nesting(e) \in Nat
    /\ \A p \in AllPreds : Nesting(p) \in Nat
    /\ \A t \in AllTypes : Nesting(t) \in Nat /\ Nesting(t) <= MaxNesting
    /\ MaxNesting \in Nat
<1>1. MaxNesting \in Nat
  BY ExpressionsAreTrees
<1>2. \A e \in AllExprs : Nesting(e) \in 0..MaxNesting
  BY ExpressionsAreTrees
<1>3. \A p \in AllPreds : Nesting(p) \in 0..MaxNesting
  BY PredicatesAreTrees
<1>4. \A t \in AllTypes : Nesting(t) \in 0..MaxNesting
  BY TypesAreTrees
<1>. QED BY <1>1, <1>2, <1>3, <1>4

(* What holds of an expression whose operands it holds of holds of all expressions. *)
LEMMA ExprInduction ==
    ASSUME NEW S,
           \A e \in AllExprs : (\A i \in DOMAIN Operands(e) : Operands(e)[i] \in S) => e \in S
    PROVE  AllExprs \subseteq S
<1>. SUFFICES ASSUME NEW b \in AllExprs, b \notin S PROVE FALSE
  OBVIOUS
<1>. DEFINE B == {x \in AllExprs : x \notin S}
            D == {Nesting(x) : x \in B}
<1>1. D \subseteq Nat /\ Nesting(b) \in D
  BY NestingNat
<1>2. PICK m \in D : \A k \in D : m <= k
  <2>. HIDE DEF D
  <2>. QED BY <1>1, LeastOfNat
<1>3. PICK e \in B : Nesting(e) = m
  BY <1>2
<1>4. \A i \in DOMAIN Operands(e) : Operands(e)[i] \in S
  <2>. SUFFICES ASSUME NEW i \in DOMAIN Operands(e), Operands(e)[i] \notin S PROVE FALSE
    OBVIOUS
  <2>1. Operands(e)[i] \in AllExprs /\ Nesting(Operands(e)[i]) < Nesting(e)
    BY <1>3, OperandsBelow
  <2>2. Nesting(Operands(e)[i]) \in D /\ Nesting(e) \in D
    BY <2>1, <1>3
  <2>. HIDE DEF D, B
  <2>3. m <= Nesting(Operands(e)[i])
    BY <2>2, <1>2
  <2>4. Nesting(Operands(e)[i]) \in Nat /\ m \in Nat
    BY <2>2, <1>1
  <2>. QED BY <2>1, <2>3, <2>4, <1>3
<1>. QED BY <1>3, <1>4

LEMMA PredInduction ==
    ASSUME NEW S, \A p \in AllPreds : ToSet(PredParts(p)) \subseteq S => p \in S
    PROVE  AllPreds \subseteq S
<1>. SUFFICES ASSUME NEW b \in AllPreds, b \notin S PROVE FALSE
  OBVIOUS
<1>. DEFINE B == {x \in AllPreds : x \notin S}
            D == {Nesting(x) : x \in B}
<1>1. D \subseteq Nat /\ Nesting(b) \in D
  BY NestingNat
<1>2. PICK m \in D : \A k \in D : m <= k
  <2>. HIDE DEF D
  <2>. QED BY <1>1, LeastOfNat
<1>3. PICK p \in B : Nesting(p) = m
  BY <1>2
<1>4. ToSet(PredParts(p)) \subseteq S
  <2>. SUFFICES ASSUME NEW q \in ToSet(PredParts(p)), q \notin S PROVE FALSE
    OBVIOUS
  <2>1. q \in AllPreds /\ Nesting(q) < Nesting(p)
    BY <1>3, PartsBelow
  <2>2. Nesting(q) \in D /\ Nesting(p) \in D
    BY <2>1, <1>3
  <2>. HIDE DEF D, B
  <2>3. m <= Nesting(q)
    BY <2>2, <1>2
  <2>4. Nesting(q) \in Nat /\ m \in Nat
    BY <2>2, <1>1
  <2>. QED BY <2>1, <2>3, <2>4, <1>3
<1>. QED BY <1>3, <1>4

(* Several results: one that is no value, or all their values. *)
LEMMA AllResults ==
    ASSUME NEW f, NEW s, NEW n \in Nat, DOMAIN s = 1..n
    PROVE  \/ \E i \in 1..n : ~IsOk(f[s[i]]) /\ All(f, s) = f[s[i]]
           \/ /\ \A i \in 1..n : IsOk(f[s[i]])
              /\ All(f, s) = Ok([i \in 1..n |-> f[s[i]][2]])
<1>. DEFINE q == [i \in 1..n |-> f[s[i]]]
            bad == {i \in 1..n : ~IsOk(q[i])}
<1>1. q \o <<>> = q
  <2>1. q \in Seq({f[s[i]] : i \in 1..n})
    OBVIOUS
  <2>. HIDE DEF q
  <2>. QED BY <2>1
<1>2. DOMAIN q = 1..n
  OBVIOUS
<1>3. All(f, s) = Collect(q)
  BY <1>1 DEF All
<1>. HIDE DEF q
<1>4. CASE bad = {}
  <2>1. Collect(q) = Ok([i \in 1..n |-> q[i][2]])
    BY <1>4, <1>2 DEF Collect
  <2>2. \A i \in 1..n : IsOk(q[i])
    BY <1>4
  <2>. QED BY <1>3, <2>1, <2>2 DEF q
<1>5. CASE bad # {}
  <2>1. PICK m \in bad : \A k \in bad : m <= k
    <3>1. bad \subseteq Nat
      OBVIOUS
    <3>. HIDE DEF bad
    <3>. QED BY <3>1, <1>5, LeastOfNat
  <2>. DEFINE i == CHOOSE i \in bad : \A j \in bad : i <= j
  <2>2. i \in bad
    <3>. HIDE DEF bad
    <3>. QED BY <2>1
  <2>3. Collect(q) = q[i]
    BY <1>5, <1>2 DEF Collect
  <2>. HIDE DEF i
  <2>4. i \in 1..n /\ ~IsOk(q[i])
    BY <2>2
  <2>. QED BY <1>3, <2>3, <2>4 DEF q
<1>. QED BY <1>4, <1>5

-----------------------------------------------------------------------------
(* Operations on values of the types that were checked. *)
LEMMA TypeTags ==
    ASSUME NEW v, NEW type \in {"Int", "Bytes", "Bool"}, HasType(v, Prim(type))
    PROVE  Is(v, type)
BY DEF HasType, Prim, Is

LEMMA CompareSound ==
    ASSUME NEW l, NEW r, NEW Holds(_, _),
           \E t \in {"Int", "Bytes", "Bool"} : Is(l, t),
           \E t \in {"Int", "Bytes", "Bool"} : Is(r, t)
    PROVE  \E b : Compare(l, r, Holds) = Ok(BoolV(b))
<1>1. \E x : Comparable(l) = Ok(x)
  BY DEF Comparable, Is
<1>2. \E y : Comparable(r) = Ok(y)
  BY DEF Comparable, Is
<1>3. PICK x, y : Comparable(l) = Ok(x) /\ Comparable(r) = Ok(y)
  BY <1>1, <1>2
<1>4. Compare(l, r, Holds) = Ok(BoolV(Holds(x, y)))
  BY <1>3 DEF Compare, Then, Ok, IsOk
<1>. QED BY <1>4

LEMMA NumberSound ==
    ASSUME NEW v, Is(v, "Int") \/ Is(v, "Bytes")
    PROVE  (\E x : Number(v) = Ok(x)) \/ Number(v) \in Faults
BY DEF Number, Is, Faults

LEMMA BinOpSound ==
    ASSUME NEW op \in CompareOps \cup LogicOps \cup ArithmeticOps,
           NEW l, NEW r, NEW tl, NEW tr, HasType(l, tl), HasType(r, tr),
           IsOk(BinOpType(op, tl, tr)),
           op \in OrderOps => {tl, tr} \subseteq {Prim("Int"), Prim("Bytes"), Prim("Bool")},
           op = "+" => tl = tr,
           op \in {"-", "*", "/"} => tl = Prim("Int")
    PROVE  \/ EvalBinop(op, l, r) \in Faults
           \/ /\ IsOk(EvalBinop(op, l, r))
              /\ HasType(EvalBinop(op, l, r)[2], BinOpType(op, tl, tr)[2])
<1>1. \A b : IsOk(Ok(BoolV(b))) /\ HasType(Ok(BoolV(b))[2], Prim("Bool"))
  BY DEF IsOk, Ok, BoolV, HasType, TypeName, Prim
<1>2. \A n : IsOk(Ok(IntV(n))) /\ HasType(Ok(IntV(n))[2], Prim("Int"))
  BY DEF IsOk, Ok, IntV, HasType, TypeName, Prim
<1>3. CASE op \in CompareOps
  <2>1. BinOpType(op, tl, tr) = Ok(Prim("Bool"))
    BY <1>3 DEF BinOpType, CompareOps, OrderOps, LogicOps, ArithmeticOps, IsOk, Err
  <2>2. BinOpType(op, tl, tr)[2] = Prim("Bool")
    BY <2>1 DEF Ok
  <2>3. \E b : EvalBinop(op, l, r) = Ok(BoolV(b))
    <3>1. CASE op \in {"==", "!="}
      BY <3>1 DEF EvalBinop
    <3>2. CASE op \in OrderOps
      <4>1. /\ \E t \in {"Int", "Bytes", "Bool"} : tl = Prim(t)
            /\ \E t \in {"Int", "Bytes", "Bool"} : tr = Prim(t)
        BY <3>2
      <4>2. /\ \E t \in {"Int", "Bytes", "Bool"} : Is(l, t)
            /\ \E t \in {"Int", "Bytes", "Bool"} : Is(r, t)
        BY <4>1, TypeTags
      <4>3. CASE op = "<"
        <5>1. EvalBinop(op, l, r) = Compare(l, r, LAMBDA x, y : x < y)
          BY <4>3 DEF EvalBinop
        <5>2. \E b : Compare(l, r, LAMBDA x, y : x < y) = Ok(BoolV(b))
          BY <4>2, CompareSound
        <5>. QED BY <5>1, <5>2
      <4>4. CASE op = "<="
        <5>1. EvalBinop(op, l, r) = Compare(l, r, LAMBDA x, y : x <= y)
          BY <4>4 DEF EvalBinop
        <5>2. \E b : Compare(l, r, LAMBDA x, y : x <= y) = Ok(BoolV(b))
          BY <4>2, CompareSound
        <5>. QED BY <5>1, <5>2
      <4>5. CASE op = ">"
        <5>1. EvalBinop(op, l, r) = Compare(l, r, LAMBDA x, y : x > y)
          BY <4>5 DEF EvalBinop
        <5>2. \E b : Compare(l, r, LAMBDA x, y : x > y) = Ok(BoolV(b))
          BY <4>2, CompareSound
        <5>. QED BY <5>1, <5>2
      <4>6. CASE op = ">="
        <5>1. EvalBinop(op, l, r) = Compare(l, r, LAMBDA x, y : x >= y)
          BY <4>6 DEF EvalBinop
        <5>2. \E b : Compare(l, r, LAMBDA x, y : x >= y) = Ok(BoolV(b))
          BY <4>2, CompareSound
        <5>. QED BY <5>1, <5>2
      <4>. QED BY <3>2, <4>3, <4>4, <4>5, <4>6 DEF OrderOps
    <3>. QED BY <1>3, <3>1, <3>2 DEF CompareOps
  <2>. QED BY <2>2, <2>3, <1>1
<1>4. CASE op \in LogicOps
  <2>1. BinOpType(op, tl, tr) = Ok(Prim("Bool"))
    BY <1>4 DEF BinOpType, CompareOps, OrderOps, LogicOps, ArithmeticOps, IsOk, Err
  <2>2. BinOpType(op, tl, tr)[2] = Prim("Bool")
    BY <2>1 DEF Ok
  <2>3. \E b : EvalBinop(op, l, r) = Ok(BoolV(b))
    BY <1>4 DEF EvalBinop, LogicOps
  <2>. QED BY <2>2, <2>3, <1>1
<1>5. CASE op \in ArithmeticOps
  <2>1. IsNumeric(tl) /\ IsNumeric(tr) /\ BinOpType(op, tl, tr) = Ok(tl)
    BY <1>5 DEF BinOpType, CompareOps, OrderOps, LogicOps, ArithmeticOps, IsOk, Err
  <2>2. BinOpType(op, tl, tr)[2] = tl
    BY <2>1 DEF Ok
  <2>3. \E t \in {"Int", "Bytes"} : tl = Prim(t)
    BY <2>1 DEF IsNumeric
  <2>4. Is(r, "Int") \/ Is(r, "Bytes")
    BY <2>1, TypeTags DEF IsNumeric
  <2>5. CASE op = "+"
    <3>1. PICK t \in {"Int", "Bytes"} : tl = Prim(t) /\ tr = Prim(t)
      BY <2>3, <2>5
    <3>2. Both(l, r, t)
      BY <3>1, TypeTags DEF Both
    <3>3. EvalBinop(op, l, r) = RuntimeAdd(l, r)
      BY <2>5 DEF EvalBinop
    <3>4. CASE t = "Int"
      <4>1. RuntimeAdd(l, r) = Ok(IntV(Signed(l[2] + r[2])))
        BY <3>2, <3>4 DEF RuntimeAdd, Both, Is
      <4>. QED BY <4>1, <3>1, <3>3, <3>4, <2>2, <1>2
    <3>5. CASE t = "Bytes"
      <4>1. RuntimeAdd(l, r) = Ok(BytesV(Unsigned(l[2] + r[2])))
        BY <3>2, <3>5 DEF RuntimeAdd, Both, Is
      <4>2. \A n : IsOk(Ok(BytesV(n))) /\ HasType(Ok(BytesV(n))[2], Prim("Bytes"))
        BY DEF IsOk, Ok, BytesV, HasType, TypeName, Prim
      <4>. QED BY <4>1, <4>2, <3>1, <3>3, <3>5, <2>2
    <3>. QED BY <3>4, <3>5
  <2>6. CASE op \in {"-", "*", "/"}
    <3>1. tl = Prim("Int") /\ Is(l, "Int")
      BY <2>6, TypeTags
    <3>2. EvalBinop(op, l, r) \in Faults \/ \E n : EvalBinop(op, l, r) = Ok(IntV(n))
      <4>1. Number(l) = Ok(l[2])
        BY <3>1 DEF Number, Is
      <4>2. CASE \E y : Number(r) = Ok(y)
        <5>1. PICK y : Number(r) = Ok(y)
          BY <4>2
        <5>2. CASE op = "-"
          <6>1. EvalBinop(op, l, r) = Ok(IntV(Signed(l[2] - y)))
            BY <5>1, <5>2, <4>1 DEF EvalBinop, Arithmetic, Then, IsOk, Ok
          <6>. QED BY <6>1
        <5>3. CASE op = "*"
          <6>1. EvalBinop(op, l, r) = Ok(IntV(Signed(l[2] * y)))
            BY <5>1, <5>3, <4>1 DEF EvalBinop, Arithmetic, Then, IsOk, Ok
          <6>. QED BY <6>1
        <5>4. CASE op = "/"
          <6>1. EvalBinop(op, l, r) = Divide(l[2], y)
            BY <5>1, <5>4, <4>1 DEF EvalBinop, Arithmetic, Then, IsOk, Ok
          <6>2. Divide(l[2], y) \in Faults \/ \E n : Divide(l[2], y) = Ok(IntV(n))
            BY DEF Divide, Faults
          <6>. QED BY <6>1, <6>2
        <5>. QED BY <2>6, <5>2, <5>3, <5>4
      <4>3. CASE Number(r) \in Faults
        <5>1. ~IsOk(Number(r))
          BY <4>3 DEF Faults, IsOk, Err, Panic
        <5>2. \A x : IsOk(Ok(x)) /\ Ok(x)[2] = x
          BY DEF IsOk, Ok
        <5>3. EvalBinop(op, l, r) = Number(r)
          BY <2>6, <4>1, <5>1, <5>2 DEF EvalBinop, Arithmetic, Then
        <5>. QED BY <5>3, <4>3
      <4>. QED BY <4>2, <4>3, <2>4, NumberSound
    <3>. QED BY <3>1, <3>2, <2>2, <1>2
  <2>. QED BY <1>5, <2>5, <2>6 DEF ArithmeticOps
<1>. QED BY <1>3, <1>4, <1>5

-----------------------------------------------------------------------------
(* The checker is right about plain expressions. *)
LEMMA PlainOperands ==
    ASSUME NEW e \in AllExprs, Plain(e)
    PROVE  PlainHere(e) /\ \A i \in DOMAIN Operands(e) : Plain(Operands(e)[i])
<1>1. Inside[e] = {e} \cup UNION {Inside[x] : x \in ToSet(Operands(e))}
  BY InsideUnfolds
<1>2. \A i \in DOMAIN Operands(e) : Operands(e)[i] \in ToSet(Operands(e))
  BY DEF ToSet
<1>3. \A i \in DOMAIN Operands(e) : Inside[Operands(e)[i]] \subseteq Inside[e]
  BY <1>1, <1>2
<1>. QED BY <1>1, <1>3 DEF Plain

Seen(v, c, l) ==
    \A name : InEnv(v, name) /\ name \notin l =>
        Bound(c, name) /\ HasType(Lookup(c, name), ResolveName(v, name))

Sound(e) ==
    Plain(e) /\ IsOk(TypeOf(e)) =>
        \/ Eval(ctx, e) \in Faults
        \/ IsOk(Eval(ctx, e)) /\ HasType(Eval(ctx, e)[2], TypeOf(e)[2])

LEMMA FaultsAreNoValues == \A r \in Faults : ~IsOk(r)
BY DEF Faults, IsOk, Err, Panic

LEMMA OkValue == \A x : IsOk(Ok(x)) /\ Ok(x)[2] = x
BY DEF IsOk, Ok

LEMMA ExprSound ==
    ASSUME Seen(env, ctx, loose), NEW e \in AllExprs,
           \A i \in DOMAIN Operands(e) : Sound(Operands(e)[i]),
           Plain(e), IsOk(TypeOf(e))
    PROVE  Sound(e)
<1>. DEFINE s == Operands(e)
            f == Evaluation(ctx)
            g == Checking(env, reg)
            n == Len(s)
<1>1. n \in Nat /\ DOMAIN s = 1..n
  BY OperandsBelow
<1>2. Eval(ctx, e) = IF IsOk(All(f, s)) THEN Outcome(ctx, e, All(f, s)[2]) ELSE All(f, s)
  BY EvalUnfolds
<1>3. TypeOf(e) = IF IsOk(All(g, s)) THEN TypeGiven(env, reg, e, All(g, s)[2]) ELSE All(g, s)
  BY CheckUnfolds DEF TypeOf
<1>4. \A i \in 1..n : f[s[i]] = Eval(ctx, s[i]) /\ g[s[i]] = TypeOf(s[i])
  BY DEF Eval, TypeOf, CheckExpr
<1>5. PlainHere(e) /\ \A i \in 1..n : Plain(s[i])
  BY <1>1, PlainOperands
<1>6. \A i \in 1..n : Sound(s[i])
  BY <1>1
<1>. HIDE DEF s, n, f, g
<1>7. /\ \A i \in 1..n : IsOk(TypeOf(s[i]))
      /\ TypeOf(e) = TypeGiven(env, reg, e, [i \in 1..n |-> TypeOf(s[i])[2]])
  <2>1. CASE \E i \in 1..n : ~IsOk(g[s[i]]) /\ All(g, s) = g[s[i]]
    BY <2>1, <1>3
  <2>2. CASE (\A i \in 1..n : IsOk(g[s[i]])) /\ All(g, s) = Ok([i \in 1..n |-> g[s[i]][2]])
    <3>1. TypeOf(e) = TypeGiven(env, reg, e, [i \in 1..n |-> g[s[i]][2]])
      BY <2>2, <1>3, OkValue
    <3>2. [i \in 1..n |-> g[s[i]][2]] = [i \in 1..n |-> TypeOf(s[i])[2]]
      BY <1>4
    <3>. QED BY <2>2, <3>1, <3>2, <1>4
  <2>. QED BY <2>1, <2>2, <1>1, AllResults
<1>8. CASE \E i \in 1..n : ~IsOk(f[s[i]]) /\ All(f, s) = f[s[i]]
  <2>1. PICK i \in 1..n : ~IsOk(f[s[i]]) /\ All(f, s) = f[s[i]]
    BY <1>8
  <2>2. Eval(ctx, e) = Eval(ctx, s[i])
    BY <2>1, <1>2, <1>4
  <2>3. Eval(ctx, s[i]) \in Faults
    BY <2>1, <1>4, <1>5, <1>6, <1>7 DEF Sound
  <2>. QED BY <2>2, <2>3 DEF Sound
<1>9. CASE (\A i \in 1..n : IsOk(f[s[i]])) /\ All(f, s) = Ok([i \in 1..n |-> f[s[i]][2]])
  <2>. DEFINE vs == [i \in 1..n |-> Eval(ctx, s[i])[2]]
              ts == [i \in 1..n |-> TypeOf(s[i])[2]]
  <2>1. Eval(ctx, e) = Outcome(ctx, e, vs)
    <3>1. Eval(ctx, e) = Outcome(ctx, e, [i \in 1..n |-> f[s[i]][2]])
      BY <1>9, <1>2, OkValue
    <3>2. [i \in 1..n |-> f[s[i]][2]] = vs
      BY <1>4
    <3>. QED BY <3>1, <3>2
  <2>2. \A i \in 1..n : HasType(vs[i], ts[i])
    BY <1>9, <1>4, <1>5, <1>6, <1>7, FaultsAreNoValues DEF Sound
  <2>3. TypeOf(e) = TypeGiven(env, reg, e, ts)
    BY <1>7
  <2>4. \A i \in 1..n : vs[i] = Eval(ctx, s[i])[2] /\ ts[i] = TypeOf(s[i])[2]
    OBVIOUS
  <2>. HIDE DEF vs, ts
  <2>5. IsExpr(e)
    BY ExpressionsAreTrees
  <2>6. CASE e[1] = "Lit"
    <3>1. Eval(ctx, e) = Ok(LitToRuntime(e[2])) /\ TypeOf(e) = Ok(Prim(TypeName(e[2])))
      BY <2>6, <2>1, <2>3 DEF Outcome, TypeGiven, LitType
    <3>2. HasType(LitToRuntime(e[2]), Prim(TypeName(e[2])))
      BY DEF LitToRuntime, Is, BytesV, TypeName, HasType, Prim
    <3>. QED BY <3>1, <3>2, OkValue DEF Sound
  <2>7. CASE e[1] = "Var"
    <3>1. InEnv(env, e[2]) /\ TypeOf(e) = Ok(ResolveName(env, e[2]))
      BY <2>7, <2>3 DEF TypeGiven, Err, IsOk
    <3>2. e[2] \notin loose
      BY <2>7, <1>5 DEF PlainHere
    <3>3. Bound(ctx, e[2]) /\ HasType(Lookup(ctx, e[2]), ResolveName(env, e[2]))
      BY <3>1, <3>2 DEF Seen
    <3>4. Eval(ctx, e) = Ok(Lookup(ctx, e[2]))
      BY <2>7, <2>1, <3>3 DEF Outcome, EvalVar
    <3>. QED BY <3>1, <3>3, <3>4, OkValue DEF Sound
  <2>8. CASE e[1] = "Struct"
    <3>1. Eval(ctx, e) = Ok(StructV(MapOf(FieldNames(e), vs))) /\ TypeOf(e) = Ok(Prim("JSON"))
      BY <2>8, <2>1, <2>3 DEF Outcome, TypeGiven
    <3>. QED BY <3>1, OkValue DEF Sound, HasType
  <2>9. CASE e[1] = "Template"
    <3>1. Eval(ctx, e) = Ok(StringV(EvalTemplate(ctx, e[2]))) /\ TypeOf(e) = Ok(Prim("String"))
      BY <2>9, <2>1, <2>3 DEF Outcome, TypeGiven
    <3>. QED BY <3>1, OkValue DEF Sound, HasType, StringV, TypeName, Prim
  <2>10. CASE e[1] = "UnOp"
    <3>1. s = <<e[3]>>
      BY <2>10 DEF s, Operands
    <3>2. n = 1 /\ s[1] = e[3]
      BY <3>1, <1>1
    <3>3. Eval(ctx, e) = EvalUnop(e[2], vs[1])
      BY <2>10, <2>1 DEF Outcome
    <3>4. TypeOf(e) = Ok(Prim(IF e[2] = "not" THEN "Bool" ELSE "Int"))
      BY <2>10, <2>3 DEF TypeGiven, UnOpType
    <3>5. CASE e[2] = "not"
      <4>1. Eval(ctx, e) = Ok(BoolV(~Truthy(vs[1])))
        BY <3>3, <3>5 DEF EvalUnop
      <4>. QED BY <4>1, <3>4, <3>5, OkValue DEF Sound, HasType, BoolV, TypeName, Prim
    <3>6. CASE e[2] = "-"
      <4>1. ts[1] = Prim("Int")
        BY <3>2, <3>6, <2>10, <1>5, <2>4, OkValue DEF PlainHere
      <4>2. Is(vs[1], "Int")
        BY <4>1, <3>2, <2>2, TypeTags
      <4>3. Eval(ctx, e) = Ok(IntV(Signed(-(vs[1][2]))))
        BY <3>3, <3>6, <4>2 DEF EvalUnop
      <4>. QED BY <4>3, <3>4, <3>6, OkValue DEF Sound, HasType, IntV, TypeName, Prim
    <3>. QED BY <2>5, <2>10, <3>5, <3>6 DEF IsExpr
  <2>11. CASE e[1] = "BinOp"
    <3>1. s = <<e[3], e[4]>>
      BY <2>11 DEF s, Operands
    <3>2. n = 2 /\ s[1] = e[3] /\ s[2] = e[4]
      BY <3>1, <1>1
    <3>3. Eval(ctx, e) = EvalBinop(e[2], vs[1], vs[2])
      BY <2>11, <2>1 DEF Outcome
    <3>4. TypeOf(e) = BinOpType(e[2], ts[1], ts[2])
      BY <2>11, <2>3 DEF TypeGiven
    <3>5. e[2] \in CompareOps \cup LogicOps \cup ArithmeticOps
      BY <2>5, <2>11 DEF IsExpr
    <3>6. ts[1] = TypeOf(e[3])[2] /\ ts[2] = TypeOf(e[4])[2]
      BY <3>2, <2>4
    <3>7. e[2] \in OrderOps => {ts[1], ts[2]} \subseteq {Prim("Int"), Prim("Bytes"), Prim("Bool")}
      BY <3>6, <2>11, <1>5, OkValue DEF PlainHere
    <3>8. e[2] = "+" => ts[1] = ts[2]
      BY <3>6, <2>11, <1>5 DEF PlainHere
    <3>9. e[2] \in {"-", "*", "/"} => ts[1] = Prim("Int")
      BY <3>6, <2>11, <1>5, OkValue DEF PlainHere
    <3>10. HasType(vs[1], ts[1]) /\ HasType(vs[2], ts[2])
      BY <2>2, <3>2
    <3>11. \/ EvalBinop(e[2], vs[1], vs[2]) \in Faults
           \/ /\ IsOk(EvalBinop(e[2], vs[1], vs[2]))
              /\ HasType(EvalBinop(e[2], vs[1], vs[2])[2], BinOpType(e[2], ts[1], ts[2])[2])
      BY <3>4, <3>5, <3>7, <3>8, <3>9, <3>10, BinOpSound
    <3>. QED BY <3>3, <3>4, <3>11 DEF Sound
  <2>. QED BY <2>5, <2>6, <2>7, <2>8, <2>9, <2>10, <2>11, <1>5 DEF PlainHere
<1>. QED BY <1>8, <1>9, <1>1, AllResults

LEMMA AllSound ==
    ASSUME Seen(env, ctx, loose)
    PROVE  \A e \in AllExprs : Sound(e)
<1>. DEFINE S == {e \in AllExprs : Sound(e)}
<1>1. ASSUME NEW e \in AllExprs, \A i \in DOMAIN Operands(e) : Operands(e)[i] \in S
      PROVE  e \in S
  <2>1. \A i \in DOMAIN Operands(e) : Sound(Operands(e)[i])
    BY <1>1
  <2>2. CASE Plain(e) /\ IsOk(TypeOf(e))
    BY <2>1, <2>2, ExprSound
  <2>3. CASE ~(Plain(e) /\ IsOk(TypeOf(e)))
    BY <2>3 DEF Sound
  <2>. QED BY <2>2, <2>3
<1>. HIDE DEF S
<1>2. AllExprs \subseteq S
  BY <1>1, ExprInduction
<1>. QED BY <1>2 DEF S

-----------------------------------------------------------------------------
(* Stacks of scopes: those of an environment and those of a context. *)
Stack(s) == Len(s) \in Nat \ {0} /\ DOMAIN s = 1..Len(s)

Holders(s, name) == {i \in DOMAIN s : name \in DOMAIN s[i]}

Found(s, name) == s[Max(Holders(s, name))][name]

Rebound(s, name, x) == [s EXCEPT ![Len(s)] = Assign(@, name, x)]

LEMMA StackOfSeq ==
    ASSUME NEW s, s \in Seq(Range(s)), s # <<>>
    PROVE  Stack(s)
<1>. DEFINE R == Range(s)
<1>. HIDE DEF R
<1>1. Len(s) \in Nat /\ DOMAIN s = 1..Len(s) /\ Len(s) # 0
  BY DEF R
<1>. QED BY <1>1 DEF Stack

LEMMA StackMax ==
    ASSUME NEW s, Stack(s), NEW name, Holders(s, name) # {}
    PROVE  Max(Holders(s, name)) \in Holders(s, name)
<1>. DEFINE H == Holders(s, name)
            n == Len(s)
            D == {n - i : i \in H}
<1>1. n \in Nat /\ H \subseteq 1..n /\ H # {}
  BY DEF Stack, Holders
<1>. HIDE DEF n, H
<1>2. PICK h \in H : TRUE
  BY <1>1
<1>3. D \subseteq Nat /\ n - h \in D
  BY <1>1
<1>4. PICK m \in D : \A k \in D : m <= k
  <2>. HIDE DEF D
  <2>. QED BY <1>3, LeastOfNat
<1>5. PICK i \in H : m = n - i
  BY <1>4
<1>6. \A j \in H : i >= j
  <2>. SUFFICES ASSUME NEW j \in H PROVE i >= j
    OBVIOUS
  <2>1. n - i <= n - j
    BY <1>4, <1>5
  <2>. QED BY <2>1, <1>1
<1>7. Max(H) \in H
  BY <1>6 DEF Max
<1>. QED BY <1>7 DEF H

(* Binding a name in the innermost scope changes what that name finds, and no other. *)
LEMMA StackBind ==
    ASSUME NEW s, Stack(s), NEW name, NEW x,
           NEW t, t = Rebound(s, name, x)
    PROVE  /\ Stack(t)
           /\ Holders(t, name) # {} /\ Found(t, name) = x
           /\ \A m : m # name =>
                 /\ Holders(t, m) = Holders(s, m)
                 /\ Holders(s, m) # {} => Found(t, m) = Found(s, m)
<1>. DEFINE n == Len(s)
<1>0. t = [s EXCEPT ![Len(s)] = Assign(@, name, x)]
  BY DEF Rebound
<1>1. n \in Nat \ {0} /\ DOMAIN s = 1..n /\ DOMAIN t = 1..n
  BY <1>0 DEF Stack
<1>2. t[n] = [m \in DOMAIN s[n] \cup {name} |-> IF m = name THEN x ELSE s[n][m]]
  BY <1>0, <1>1 DEF Assign
<1>3. \A i \in 1..n : i # n => t[i] = s[i]
  BY <1>0, <1>1
<1>4. t = [i \in 1..n |-> t[i]]
  BY <1>0, <1>1
<1>5. Len(t) = n
  BY <1>1, <1>4
<1>6. Stack(t)
  BY <1>1, <1>5 DEF Stack
<1>. HIDE DEF n
<1>7. n \in Holders(t, name)
  BY <1>1, <1>2 DEF Holders
<1>8. Max(Holders(t, name)) = n
  <2>1. Max(Holders(t, name)) \in Holders(t, name)
    BY <1>6, <1>7, StackMax
  <2>2. Holders(t, name) \subseteq 1..n
    BY <1>1 DEF Holders
  <2>3. \A i \in Holders(t, name) : n >= i
    BY <2>2, <1>1
  <2>4. Max(Holders(t, name)) >= n
    BY <1>7, <2>3 DEF Max
  <2>5. \A k \in 1..n : k >= n => k = n
    BY <1>1
  <2>. QED BY <2>1, <2>2, <2>4, <2>5, Zenon
<1>9. Found(t, name) = x
  BY <1>8, <1>2 DEF Found
<1>10. ASSUME NEW m, m # name
       PROVE  /\ Holders(t, m) = Holders(s, m)
              /\ Holders(s, m) # {} => Found(t, m) = Found(s, m)
  <2>1. \A i \in 1..n : /\ m \in DOMAIN t[i] <=> m \in DOMAIN s[i]
                        /\ m \in DOMAIN s[i] => t[i][m] = s[i][m]
    <3>. SUFFICES ASSUME NEW i \in 1..n
                  PROVE  /\ m \in DOMAIN t[i] <=> m \in DOMAIN s[i]
                         /\ m \in DOMAIN s[i] => t[i][m] = s[i][m]
      OBVIOUS
    <3>1. CASE i = n
      BY <3>1, <1>2, <1>10
    <3>2. CASE i # n
      BY <3>2, <1>3
    <3>. QED BY <3>1, <3>2
  <2>2. Holders(t, m) = Holders(s, m)
    BY <2>1, <1>1 DEF Holders
  <2>3. ASSUME Holders(s, m) # {} PROVE Found(t, m) = Found(s, m)
    <3>1. Max(Holders(s, m)) \in Holders(s, m)
      BY <2>3, StackMax
    <3>2. Max(Holders(s, m)) \in 1..n /\ m \in DOMAIN s[Max(Holders(s, m))]
      BY <3>1, <1>1 DEF Holders
    <3>. QED BY <3>2, <2>1, <2>2 DEF Found
  <2>. QED BY <2>2, <2>3
<1>. QED BY <1>6, <1>7, <1>9, <1>10

-----------------------------------------------------------------------------
(***************************************************************************)
(* The invariant: scopes are never lost, and what the checker has seen the *)
(* value of is bound to a value of the type it has noted.                  *)
(***************************************************************************)
IsContext(c) ==
    /\ c = [scopes |-> c.scopes, registry |-> c.registry,
            machines |-> c.machines, sets |-> c.sets]
    /\ Stack(c.scopes)

ScopesAgree ==
    /\ IsContext(ctx)
    /\ InBody => Stack(env) /\ Seen(env, ctx, loose)

LEMMA StackNames ==
    /\ \A c, m : Bound(c, m) <=> Holders(c.scopes, m) # {}
    /\ \A c, m : Lookup(c, m) = Found(c.scopes, m)
    /\ \A v, m : InEnv(v, m) <=> Holders(v, m) # {}
    /\ \A v, m : ResolveName(v, m) = Found(v, m)
<1>1. \A c, m : ScopesWith(c, m) = Holders(c.scopes, m)
  BY DEF ScopesWith, Holders
<1>2. \A v, m : {i \in DOMAIN v : m \in DOMAIN v[i]} = Holders(v, m)
  BY DEF Holders
<1>3. \A c, m : Bound(c, m) <=> Holders(c.scopes, m) # {}
  BY <1>1 DEF Bound
<1>4. \A c, m : Lookup(c, m) = Found(c.scopes, m)
  BY <1>1 DEF Lookup, Found
<1>5. \A v, m : InEnv(v, m) <=> Holders(v, m) # {}
  BY <1>2 DEF InEnv
<1>6. \A v, m : ResolveName(v, m) = Found(v, m)
  BY <1>2 DEF ResolveName, Found
<1>. QED BY <1>3, <1>4, <1>5, <1>6

LEMMA ContextBind ==
    ASSUME NEW c, IsContext(c), NEW name, NEW x
    PROVE  LET d == Bind(c, name, x)
           IN  /\ IsContext(d)
               /\ Bound(d, name) /\ Lookup(d, name) = x
               /\ \A m : m # name => /\ Bound(d, m) <=> Bound(c, m)
                                     /\ Bound(c, m) => Lookup(d, m) = Lookup(c, m)
<1>. DEFINE d == Bind(c, name, x)
            s == c.scopes
            t == Rebound(s, name, x)
<1>1. d = [scopes |-> t, registry |-> c.registry, machines |-> c.machines, sets |-> c.sets]
  BY DEF IsContext, Bind, Rebound
<1>2. d.scopes = t /\ d.registry = c.registry /\ d.machines = c.machines /\ d.sets = c.sets
  BY <1>1
<1>3. /\ Stack(t) /\ Holders(t, name) # {} /\ Found(t, name) = x
      /\ \A m : m # name => /\ Holders(t, m) = Holders(s, m)
                            /\ Holders(s, m) # {} => Found(t, m) = Found(s, m)
  <2>1. Stack(s)
    BY DEF IsContext
  <2>. HIDE DEF s
  <2>. QED BY <2>1, StackBind
<1>. HIDE DEF d, t
<1>4. IsContext(d)
  BY <1>1, <1>2, <1>3 DEF IsContext
<1>5. Bound(d, name) /\ Lookup(d, name) = x
  BY <1>2, <1>3, StackNames
<1>6. \A m : m # name => /\ Bound(d, m) <=> Bound(c, m)
                         /\ Bound(c, m) => Lookup(d, m) = Lookup(c, m)
  BY <1>2, <1>3, StackNames
<1>. QED BY <1>4, <1>5, <1>6 DEF d

LEMMA EnvBind ==
    ASSUME NEW v, Stack(v), NEW name, NEW x
    PROVE  LET w == AddName(v, name, x)
           IN  /\ Stack(w)
               /\ ResolveName(w, name) = x
               /\ \A m : m # name => /\ InEnv(w, m) <=> InEnv(v, m)
                                     /\ InEnv(v, m) => ResolveName(w, m) = ResolveName(v, m)
<1>. DEFINE t == Rebound(v, name, x)
<1>1. /\ Stack(t) /\ Found(t, name) = x
      /\ \A m : m # name => /\ Holders(t, m) = Holders(v, m)
                            /\ Holders(v, m) # {} => Found(t, m) = Found(v, m)
  BY StackBind
<1>2. AddName(v, name, x) = t
  BY DEF AddName, Rebound
<1>. HIDE DEF t
<1>. QED BY <1>1, <1>2, StackNames

(* A name that is bound anew and not seen leaves the others as they were. *)
LEMMA LooseBind ==
    ASSUME IsContext(ctx), Stack(env), Seen(env, ctx, loose), NEW name, NEW type, NEW x,
           env' = env \/ env' = AddName(env, name, type),
           ctx' = ctx \/ ctx' = Bind(ctx, name, x)
    PROVE  /\ IsContext(ctx') /\ Stack(env')
           /\ \A m : m # name /\ InEnv(env', m) /\ m \notin loose =>
                 Bound(ctx', m) /\ HasType(Lookup(ctx', m), ResolveName(env', m))
<1>1. /\ Stack(env')
      /\ \A m : m # name => /\ InEnv(env', m) <=> InEnv(env, m)
                            /\ InEnv(env, m) => ResolveName(env', m) = ResolveName(env, m)
  BY EnvBind
<1>2. /\ IsContext(ctx')
      /\ \A m : m # name => /\ Bound(ctx', m) <=> Bound(ctx, m)
                            /\ Bound(ctx, m) => Lookup(ctx', m) = Lookup(ctx, m)
  BY ContextBind
<1>. QED BY <1>1, <1>2 DEF Seen

LEMMA BeginSeen ==
    ASSUME NEW params
    PROVE  Stack(ChildEnv(<<params>>)) /\ Seen(ChildEnv(<<params>>), ctx', DOMAIN params)
<1>. DEFINE v == ChildEnv(<<params>>)
<1>1. v = Append(<<params>>, <<>>) /\ <<params>> \in Seq({params}) /\ Len(<<params>>) = 1
  BY DEF ChildEnv
<1>2. Len(v) = 2 /\ DOMAIN v = 1..2 /\ v[1] = params /\ v[2] = <<>> /\ DOMAIN v[2] = {}
  BY <1>1
<1>. HIDE DEF v
<1>3. \A m : InEnv(v, m) => m \in DOMAIN params
  BY <1>2 DEF InEnv
<1>. QED BY <1>2, <1>3 DEF v, Stack, Seen

LEMMA InitScopes ==
    ASSUME Init
    PROVE  ScopesAgree
<1>1. ctx \in Contexts /\ phase # "body"
  BY DEF Init
<1>. DEFINE s == ctx.scopes
<1>2. s \in Seq(Range(s)) /\ s # <<>>
  BY <1>1, TypingConstants
<1>. HIDE DEF s
<1>3. Stack(s)
  BY <1>2, StackOfSeq
<1>4. IsContext(ctx)
  BY <1>1, <1>3, TypingConstants DEF IsContext, s
<1>. QED BY <1>1, <1>4 DEF ScopesAgree, InBody

LEMMA LetScopes ==
    ASSUME ScopesAgree, NEW name, NEW type, NEW init \in Inits \cup {NoInit},
           Let(name, type, init)
    PROVE  ScopesAgree'
<1>. DEFINE checked == CheckLet(env, reg, type, init)
<1>1. /\ InBody /\ IsContext(ctx) /\ Stack(env) /\ Seen(env, ctx, loose)
      /\ IsOk(checked)
  BY DEF ScopesAgree, Let
<1>2. CASE init # NoInit /\ ~IsOk(Eval(ctx, init))
  <2>1. phase' = "failed" /\ ctx' = ctx
    BY <1>2 DEF Let, Fail
  <2>. QED BY <2>1, <1>1 DEF ScopesAgree, InBody
<1>3. CASE ~(init # NoInit /\ ~IsOk(Eval(ctx, init)))
  <2>. DEFINE value == Eval(ctx, init)[2]
  <2>1. /\ env' = AddName(env, name, checked[2])
        /\ ctx' = IF init = NoInit THEN ctx ELSE Bind(ctx, name, value)
        /\ loose' = IF type = Untyped /\ Plain(init) THEN loose \ {name}
                     ELSE loose \cup {name}
    BY <1>3 DEF Let
  <2>. HIDE DEF checked, value
  <2>2. /\ IsContext(ctx') /\ Stack(env')
        /\ \A m : m # name /\ InEnv(env', m) /\ m \notin loose =>
              Bound(ctx', m) /\ HasType(Lookup(ctx', m), ResolveName(env', m))
    BY <1>1, <2>1, LooseBind
  <2>3. name \notin loose' =>
            Bound(ctx', name) /\ HasType(Lookup(ctx', name), ResolveName(env', name))
    <3>. SUFFICES ASSUME name \notin loose'
                  PROVE  Bound(ctx', name) /\ HasType(Lookup(ctx', name), ResolveName(env', name))
      OBVIOUS
    <3>1. type = Untyped /\ Plain(init)
      BY <2>1
    <3>2. init # NoInit
      BY <3>1, <1>1 DEF checked, CheckLet, IsOk, Err
    <3>3. checked = TypeOf(init) /\ IsOk(TypeOf(init)) /\ init \in AllExprs
      BY <3>1, <3>2, <1>1, TypingConstants DEF checked, CheckLet, TypeOf
    <3>4. IsOk(Eval(ctx, init))
      BY <1>3, <3>2
    <3>5. HasType(value, checked[2])
      BY <3>1, <3>3, <3>4, <1>1, AllSound, FaultsAreNoValues DEF Sound, value
    <3>6. Bound(ctx', name) /\ Lookup(ctx', name) = value
      BY <2>1, <3>2, <1>1, ContextBind
    <3>7. ResolveName(env', name) = checked[2]
      BY <2>1, <1>1, EnvBind
    <3>. QED BY <3>5, <3>6, <3>7
  <2>4. \A m : m # name /\ m \notin loose' => m \notin loose
    BY <2>1
  <2>5. Seen(env', ctx', loose')
    BY <2>2, <2>3, <2>4 DEF Seen
  <2>. QED BY <2>2, <2>5 DEF ScopesAgree
<1>. QED BY <1>2, <1>3

LEMMA NextScopes ==
    ASSUME ScopesAgree, [Next]_vars
    PROVE  ScopesAgree'
<1>1. ASSUME NEW name, NEW type, DeclareAlias(name, type) PROVE ScopesAgree'
  BY <1>1 DEF ScopesAgree, DeclareAlias, InBody
<1>2. ASSUME NEW params, BeginBody(params) PROVE ScopesAgree'
  <2>1. env' = ChildEnv(<<params>>) /\ loose' = DOMAIN params /\ ctx' = ctx
    BY <1>2 DEF BeginBody
  <2>2. Stack(env') /\ Seen(env', ctx', loose')
    BY <2>1, BeginSeen
  <2>. QED BY <2>1, <2>2 DEF ScopesAgree
<1>3. ASSUME NEW name, NEW type, ChooseOne(name, type) PROVE ScopesAgree'
  <2>1. /\ IsContext(ctx) /\ Stack(env) /\ Seen(env, ctx, loose)
        /\ env' = AddName(env, name, type)
        /\ ctx' = Bind(ctx, name, ResourceV(TypeShown(type), <<>>))
        /\ loose' = loose \cup {name}
    BY <1>3 DEF ScopesAgree, ChooseOne
  <2>2. /\ IsContext(ctx') /\ Stack(env')
        /\ \A m : m # name /\ InEnv(env', m) /\ m \notin loose =>
              Bound(ctx', m) /\ HasType(Lookup(ctx', m), ResolveName(env', m))
    BY <2>1, LooseBind
  <2>. QED BY <2>1, <2>2 DEF ScopesAgree, Seen
<1>4. ASSUME NEW name, NEW value, ReadJson(name, value) PROVE ScopesAgree'
  <2>1. /\ IsContext(ctx) /\ Stack(env) /\ Seen(env, ctx, loose)
        /\ env' = env
        /\ ctx' = Bind(ctx, name, value)
        /\ loose' = loose \cup {name}
    BY <1>4 DEF ScopesAgree, ReadJson
  <2>2. /\ IsContext(ctx') /\ Stack(env')
        /\ \A m : m # name /\ InEnv(env', m) /\ m \notin loose =>
              Bound(ctx', m) /\ HasType(Lookup(ctx', m), ResolveName(env', m))
    BY <2>1, LooseBind
  <2>. QED BY <2>1, <2>2 DEF ScopesAgree, Seen
<1>5. ASSUME NEW pred, Require(pred) PROVE ScopesAgree'
  <2>1. /\ InBody /\ env' = env /\ ctx' = ctx /\ loose' = loose
    BY <1>5 DEF Require
  <2>. QED BY <2>1 DEF ScopesAgree, Seen
<1>6. ASSUME NEW e, Return(e) PROVE ScopesAgree'
  <2>1. /\ InBody /\ env' = env /\ ctx' = ctx /\ loose' = loose
    BY <1>6 DEF Return
  <2>. QED BY <2>1 DEF ScopesAgree, Seen
<1>7. CASE UNCHANGED vars
  BY <1>7 DEF vars, ScopesAgree, Seen, InBody
<1>. QED BY <1>1, <1>2, <1>3, <1>4, <1>5, <1>6, <1>7, LetScopes DEF Next

(***************************************************************************)
(* check_expr and eval_expr: an expression the checker is right about has  *)
(* a value of the type it was given, or one of the faults no type shows,   *)
(* after any statements, in every program.                                 *)
(***************************************************************************)
THEOREM ChecksHold == Spec => []ChecksSuffice
<1>1. Init => ScopesAgree
  BY InitScopes
<1>2. ScopesAgree /\ [Next]_vars => ScopesAgree'
  BY NextScopes
<1>3. ScopesAgree => ChecksSuffice
  <2>. SUFFICES ASSUME ScopesAgree, InBody PROVE \A e \in Exprs : Sound(e)
    BY DEF ChecksSuffice, Sound
  <2>1. \A e \in AllExprs : Sound(e)
    BY AllSound DEF ScopesAgree
  <2>. QED BY <2>1, TypingConstants
<1>. QED BY <1>1, <1>2, <1>3, PTL DEF Spec

-----------------------------------------------------------------------------
(* The two evaluators of conditions. *)
Scalar(v) == TypeName(v) \in Scalars

LEMMA ScalarTruth == \A v : Scalar(v) => CondTruthy(v) = Truthy(v)
BY DEF Scalar, Scalars, CondTruthy, Is

LEMMA LogicAgrees ==
    ASSUME NEW op \in {"and", "or"}, NEW l, NEW r, Scalar(l), Scalar(r)
    PROVE  CondBinop(op, l, r) = EvalBinop(op, l, r) /\ Scalar(EvalBinop(op, l, r)[2])
<1>1. CondTruthy(l) = Truthy(l) /\ CondTruthy(r) = Truthy(r)
  BY ScalarTruth
<1>2. \A b : Scalar(Ok(BoolV(b))[2])
  BY OkValue DEF Scalar, Scalars, BoolV, TypeName
<1>3. CASE op = "and"
  <2>1. CondBinop(op, l, r) = Ok(BoolV(CondTruthy(l) /\ CondTruthy(r)))
    BY <1>3 DEF CondBinop
  <2>2. EvalBinop(op, l, r) = Ok(BoolV(Truthy(l) /\ Truthy(r)))
    BY <1>3 DEF EvalBinop
  <2>3. CondBinop(op, l, r) = EvalBinop(op, l, r)
    BY <2>1, <2>2, <1>1, Zenon
  <2>. QED BY <2>2, <2>3, <1>2
<1>4. CASE op = "or"
  <2>1. CondBinop(op, l, r) = Ok(BoolV(CondTruthy(l) \/ CondTruthy(r)))
    BY <1>4 DEF CondBinop
  <2>2. EvalBinop(op, l, r) = Ok(BoolV(Truthy(l) \/ Truthy(r)))
    BY <1>4 DEF EvalBinop
  <2>3. CondBinop(op, l, r) = EvalBinop(op, l, r)
    BY <2>1, <2>2, <1>1, Zenon
  <2>. QED BY <2>2, <2>3, <1>2
<1>. QED BY <1>3, <1>4

LEMMA OrderAgrees ==
    ASSUME NEW op \in OrderOps, NEW l, NEW r, Is(l, "Int"), Is(r, "Int")
    PROVE  CondBinop(op, l, r) = EvalBinop(op, l, r) /\ Scalar(EvalBinop(op, l, r)[2])
<1>1. Both(l, r, "Int")
  BY DEF Both
<1>2. Comparable(l) = Ok(l[2]) /\ Comparable(r) = Ok(r[2])
  BY DEF Comparable, Is
<1>3. \A b : Scalar(Ok(BoolV(b))[2])
  BY OkValue DEF Scalar, Scalars, BoolV, TypeName
<1>4. CASE op = "<"
  <2>1. EvalBinop(op, l, r) = Ok(BoolV(l[2] < r[2]))
    BY <1>2, <1>4, OkValue DEF EvalBinop, Compare, Then
  <2>2. CondBinop(op, l, r) = Ok(BoolV(l[2] < r[2]))
    BY <1>1, <1>4 DEF CondBinop, CondOrder
  <2>. QED BY <2>1, <2>2, <1>3
<1>5. CASE op = "<="
  <2>1. EvalBinop(op, l, r) = Ok(BoolV(l[2] <= r[2]))
    BY <1>2, <1>5, OkValue DEF EvalBinop, Compare, Then
  <2>2. CondBinop(op, l, r) = Ok(BoolV(l[2] <= r[2]))
    BY <1>1, <1>5 DEF CondBinop, CondOrder
  <2>. QED BY <2>1, <2>2, <1>3
<1>6. CASE op = ">"
  <2>1. EvalBinop(op, l, r) = Ok(BoolV(l[2] > r[2]))
    BY <1>2, <1>6, OkValue DEF EvalBinop, Compare, Then
  <2>2. CondBinop(op, l, r) = Ok(BoolV(l[2] > r[2]))
    BY <1>1, <1>6 DEF CondBinop, CondOrder
  <2>. QED BY <2>1, <2>2, <1>3
<1>7. CASE op = ">="
  <2>1. EvalBinop(op, l, r) = Ok(BoolV(l[2] >= r[2]))
    BY <1>2, <1>7, OkValue DEF EvalBinop, Compare, Then
  <2>2. CondBinop(op, l, r) = Ok(BoolV(l[2] >= r[2]))
    BY <1>1, <1>7 DEF CondBinop, CondOrder
  <2>. QED BY <2>1, <2>2, <1>3
<1>. QED BY <1>4, <1>5, <1>6, <1>7 DEF OrderOps

LEMMA BinopAgrees ==
    ASSUME NEW op \in CompareOps \cup LogicOps \cup ArithmeticOps,
           NEW l, NEW r, Scalar(l), Scalar(r),
           op \in OrderOps \cup (ArithmeticOps \ {"+"}) => Is(l, "Int") /\ Is(r, "Int"),
           IsOk(EvalBinop(op, l, r))
    PROVE  CondBinop(op, l, r) = EvalBinop(op, l, r) /\ Scalar(EvalBinop(op, l, r)[2])
<1>1. \A b : Scalar(Ok(BoolV(b))[2]) /\ Scalar(Ok(IntV(b))[2]) /\ Scalar(Ok(BytesV(b))[2])
             /\ Scalar(Ok(StringV(b))[2])
  BY OkValue DEF Scalar, Scalars, BoolV, IntV, BytesV, StringV, TypeName
<1>2. ~Is(l, "Resource")
  BY DEF Scalar, Scalars, Is
<1>3. CASE op = "=="
  <2>1. /\ EvalBinop(op, l, r) = Ok(BoolV(RuntimeEq(l, r)))
        /\ CondBinop(op, l, r) = Ok(BoolV(l = r))
    BY <1>3 DEF EvalBinop, CondBinop
  <2>2. RuntimeEq(l, r) = (l = r)
    BY <1>2 DEF RuntimeEq
  <2>. QED BY <2>1, <2>2, <1>1
<1>4. CASE op = "!="
  <2>1. /\ EvalBinop(op, l, r) = Ok(BoolV(~RuntimeEq(l, r)))
        /\ CondBinop(op, l, r) = Ok(BoolV(l # r))
    BY <1>4 DEF EvalBinop, CondBinop
  <2>2. (~RuntimeEq(l, r)) = (l # r)
    BY <1>2 DEF RuntimeEq
  <2>. QED BY <2>1, <2>2, <1>1
<1>5. CASE op \in OrderOps
  BY <1>5, OrderAgrees
<1>6. CASE op \in {"and", "or"}
  BY <1>6, LogicAgrees
<1>7. CASE op = "+"
  <2>1. EvalBinop(op, l, r) = RuntimeAdd(l, r) /\ CondBinop(op, l, r) = Ok(CondPlus(l, r))
    BY <1>7 DEF EvalBinop, CondBinop
  <2>2. \/ RuntimeAdd(l, r) = Ok(IntV(Signed(l[2] + r[2])))
        \/ RuntimeAdd(l, r) = Ok(BytesV(Unsigned(l[2] + r[2])))
        \/ RuntimeAdd(l, r) = Ok(StringV(l[2] \o r[2]))
    BY <2>1 DEF RuntimeAdd, Both, Is, IsOk, Err
  <2>3. \E x : RuntimeAdd(l, r) = Ok(x)
    BY <2>2
  <2>4. Ok(CondPlus(l, r)) = RuntimeAdd(l, r)
    BY <2>3, OkValue DEF CondPlus
  <2>. QED BY <2>1, <2>2, <2>4, <1>1
<1>8. CASE op \in {"-", "*", "/"}
  <2>1. Is(l, "Int") /\ Is(r, "Int")
    BY <1>8 DEF ArithmeticOps
  <2>2. Number(l) = Ok(l[2]) /\ Number(r) = Ok(r[2]) /\ Both(l, r, "Int")
    BY <2>1 DEF Number, Is, Both
  <2>3. CASE op = "-"
    <3>1. EvalBinop(op, l, r) = Ok(IntV(Signed(l[2] - r[2])))
      BY <2>2, <2>3, OkValue DEF EvalBinop, Arithmetic, Then
    <3>2. CondBinop(op, l, r) = Ok(CondMinus(l, r))
      BY <2>3 DEF CondBinop
    <3>3. CondMinus(l, r) = IntV(Signed(l[2] - r[2]))
      BY <2>2 DEF CondMinus, Both, Is
    <3>. QED BY <3>1, <3>2, <3>3, <1>1
  <2>4. CASE op = "*"
    <3>1. EvalBinop(op, l, r) = Ok(IntV(Signed(l[2] * r[2])))
      BY <2>2, <2>4, OkValue DEF EvalBinop, Arithmetic, Then
    <3>2. CondBinop(op, l, r) = Ok(CondMul(l, r))
      BY <2>4 DEF CondBinop
    <3>3. CondMul(l, r) = IntV(Signed(l[2] * r[2]))
      BY <2>2 DEF CondMul, Both, Is
    <3>. QED BY <3>1, <3>2, <3>3, <1>1
  <2>5. CASE op = "/"
    <3>1. EvalBinop(op, l, r) = Divide(l[2], r[2])
      BY <2>2, <2>5, OkValue DEF EvalBinop, Arithmetic, Then
    <3>2. r[2] # 0 /\ Divide(l[2], r[2]) = Ok(IntV(Quotient(l[2], r[2])))
      BY <3>1 DEF Divide, IsOk, Err, Panic
    <3>3. CondBinop(op, l, r) = CondDiv(l, r)
      BY <2>5 DEF CondBinop
    <3>4. CondDiv(l, r) = Divide(l[2], r[2])
      BY <2>2, <3>2 DEF CondDiv
    <3>. QED BY <3>1, <3>2, <3>3, <3>4, <1>1
  <2>. QED BY <1>8, <2>3, <2>4, <2>5
<1>. QED BY <1>3, <1>4, <1>5, <1>6, <1>7, <1>8 DEF CompareOps, LogicOps, ArithmeticOps, OrderOps

LEMMA SharedOperands ==
    ASSUME NEW e \in AllExprs, Shared(e)
    PROVE  SharedHere(e) /\ \A i \in DOMAIN Operands(e) : Shared(Operands(e)[i])
<1>1. Inside[e] = {e} \cup UNION {Inside[x] : x \in ToSet(Operands(e))}
  BY InsideUnfolds
<1>2. \A i \in DOMAIN Operands(e) : Operands(e)[i] \in ToSet(Operands(e))
  BY DEF ToSet
<1>3. \A i \in DOMAIN Operands(e) : Inside[Operands(e)[i]] \subseteq Inside[e]
  BY <1>1, <1>2
<1>. QED BY <1>1, <1>3 DEF Shared

Agreed(e) ==
    Shared(e) /\ IsOk(Eval(ctx, e)) =>
        CondEval(PolicyContext, e) = Eval(ctx, e) /\ Scalar(Eval(ctx, e)[2])

LEMMA ExprAgreed ==
    ASSUME NEW e \in AllExprs, \A i \in DOMAIN Operands(e) : Agreed(Operands(e)[i])
    PROVE  Agreed(e)
<1>. SUFFICES ASSUME Shared(e), IsOk(Eval(ctx, e))
              PROVE  CondEval(PolicyContext, e) = Eval(ctx, e) /\ Scalar(Eval(ctx, e)[2])
  BY DEF Agreed
<1>. DEFINE s == Operands(e)
            f == Evaluation(ctx)
            P == PolicyContext
            g == CondEvaluation(P)
            n == Len(s)
            vs == [i \in 1..n |-> Eval(ctx, s[i])[2]]
<1>1. n \in Nat /\ DOMAIN s = 1..n
  BY OperandsBelow
<1>2. Eval(ctx, e) = IF IsOk(All(f, s)) THEN Outcome(ctx, e, All(f, s)[2]) ELSE All(f, s)
  BY EvalUnfolds
<1>3. LET r == All(g, CondOperands(e))
      IN  CondEval(P, e) = IF IsOk(r) THEN CondOutcome(P, e, r[2]) ELSE r
  BY CondUnfolds
<1>4. \A i \in 1..n : f[s[i]] = Eval(ctx, s[i]) /\ g[s[i]] = CondEval(P, s[i])
  BY DEF Eval, CondEval
<1>5. SharedHere(e) /\ \A i \in 1..n : Shared(s[i])
  BY <1>1, SharedOperands
<1>6. \A i \in 1..n : Agreed(s[i])
  BY <1>1
<1>7. vs = [i \in 1..n |-> f[s[i]][2]]
  BY <1>4
<1>8. P.variables = [name \in KnownNames |-> Lookup(ctx, name)]
  BY DEF PolicyContext
<1>. HIDE DEF s, n, f, g, vs, P
<1>9. (\A i \in 1..n : IsOk(f[s[i]])) /\ All(f, s) = Ok(vs)
  BY <1>1, <1>2, <1>7, AllResults
<1>10. Eval(ctx, e) = Outcome(ctx, e, vs)
  BY <1>2, <1>9, OkValue
<1>11. \A i \in 1..n : g[s[i]] = f[s[i]] /\ Scalar(vs[i])
  BY <1>4, <1>5, <1>6, <1>9 DEF Agreed, P, vs
<1>12. All(g, s) = Ok(vs)
  BY <1>1, <1>9, <1>11, AllLocal
<1>13. All(g, <<>>) = Ok(<<>>)
  <2>1. DOMAIN <<>> = 1..0 /\ 1..0 = {}
    OBVIOUS
  <2>2. All(g, <<>>) = Ok([i \in 1..0 |-> g[<<>>[i]][2]])
    BY <2>1, AllResults
  <2>3. [i \in 1..0 |-> g[<<>>[i]][2]] = <<>>
    BY <2>1
  <2>. QED BY <2>2, <2>3
<1>14. CASE e[1] = "Lit"
  <2>1. CondOperands(e) = <<>>
    BY <1>14 DEF CondOperands
  <2>2. CondEval(P, e) = Ok(LitToRuntime(e[2]))
    BY <2>1, <1>3, <1>13, <1>14, OkValue DEF CondOutcome
  <2>3. Eval(ctx, e) = Ok(LitToRuntime(e[2]))
    BY <1>10, <1>14 DEF Outcome
  <2>4. TypeName(e[2]) \in {"Bool", "Int", "Bytes", "String"}
    BY <1>14, ExpressionsAreTrees DEF IsExpr
  <2>5. Scalar(LitToRuntime(e[2]))
    BY <2>4 DEF LitToRuntime, Is, BytesV, TypeName, Scalar, Scalars
  <2>. QED BY <2>2, <2>3, <2>5, OkValue DEF P
<1>15. CASE e[1] = "Var"
  <2>1. CondOperands(e) = <<>>
    BY <1>15 DEF CondOperands
  <2>2. e[2] \in KnownNames
    BY <1>5, <1>15 DEF SharedHere
  <2>3. Bound(ctx, e[2]) /\ Scalar(Lookup(ctx, e[2]))
    BY <2>2 DEF KnownNames, Scalar
  <2>4. e[2] \in DOMAIN P.variables /\ P.variables[e[2]] = Lookup(ctx, e[2])
    BY <2>2, <1>8
  <2>5. CondEval(P, e) = Ok(Lookup(ctx, e[2]))
    BY <2>1, <2>4, <1>3, <1>13, <1>15, OkValue DEF CondOutcome
  <2>6. Eval(ctx, e) = Ok(Lookup(ctx, e[2]))
    BY <2>3, <1>10, <1>15 DEF Outcome, EvalVar
  <2>. QED BY <2>3, <2>5, <2>6, OkValue DEF P
<1>16. CASE e[1] = "UnOp"
  <2>1. CondOperands(e) = s /\ s = <<e[3]>>
    BY <1>16 DEF CondOperands, s, Operands
  <2>2. n = 1
    BY <2>1, <1>1
  <2>3. CondEval(P, e) = Ok(CondUnop(e[2], vs[1]))
    BY <2>1, <1>3, <1>12, <1>16, OkValue DEF CondOutcome
  <2>4. Eval(ctx, e) = EvalUnop(e[2], vs[1])
    BY <1>10, <1>16 DEF Outcome
  <2>5. Scalar(vs[1])
    BY <1>11, <2>2
  <2>6. e[2] \in {"not", "-"}
    BY <1>16, ExpressionsAreTrees DEF IsExpr
  <2>7. CASE e[2] = "not"
    <3>1. CondTruthy(vs[1]) = Truthy(vs[1])
      BY <2>5, ScalarTruth
    <3>2. CondUnop(e[2], vs[1]) = BoolV(~CondTruthy(vs[1]))
      BY <2>7 DEF CondUnop
    <3>3. EvalUnop(e[2], vs[1]) = Ok(BoolV(~Truthy(vs[1])))
      BY <2>7 DEF EvalUnop
    <3>4. Ok(CondUnop(e[2], vs[1])) = EvalUnop(e[2], vs[1])
      BY <3>1, <3>2, <3>3, Zenon
    <3>. QED BY <2>3, <2>4, <3>3, <3>4, OkValue DEF P, Scalar, Scalars, BoolV, TypeName
  <2>8. CASE e[2] = "-"
    <3>1. Is(vs[1], "Int") /\ EvalUnop(e[2], vs[1]) = Ok(IntV(Signed(-(vs[1][2]))))
      BY <2>4, <2>8 DEF EvalUnop, IsOk, Err
    <3>2. CondUnop(e[2], vs[1]) = IntV(Signed(-(vs[1][2])))
      BY <2>8, <3>1 DEF CondUnop
    <3>. QED BY <2>3, <2>4, <3>1, <3>2, OkValue DEF P, Scalar, Scalars, IntV, TypeName
  <2>. QED BY <2>6, <2>7, <2>8
<1>17. CASE e[1] = "BinOp"
  <2>1. CondOperands(e) = s /\ s = <<e[3], e[4]>>
    BY <1>17 DEF CondOperands, s, Operands
  <2>2. n = 2 /\ s[1] = e[3] /\ s[2] = e[4]
    BY <2>1, <1>1
  <2>3. CondEval(P, e) = CondBinop(e[2], vs[1], vs[2])
    BY <2>1, <1>3, <1>12, <1>17, OkValue DEF CondOutcome
  <2>4. Eval(ctx, e) = EvalBinop(e[2], vs[1], vs[2])
    BY <1>10, <1>17 DEF Outcome
  <2>5. Scalar(vs[1]) /\ Scalar(vs[2])
    BY <1>11, <2>2
  <2>6. e[2] \in CompareOps \cup LogicOps \cup ArithmeticOps
    BY <1>17, ExpressionsAreTrees DEF IsExpr
  <2>7. vs[1] = Eval(ctx, e[3])[2] /\ vs[2] = Eval(ctx, e[4])[2]
    BY <2>2 DEF vs
  <2>8. IsOk(Eval(ctx, e[3])) /\ IsOk(Eval(ctx, e[4]))
    BY <2>2, <1>4, <1>9
  <2>9. e[2] \in OrderOps \cup (ArithmeticOps \ {"+"}) => Is(vs[1], "Int") /\ Is(vs[2], "Int")
    BY <2>7, <2>8, <1>5, <1>17 DEF SharedHere
  <2>. QED BY <2>3, <2>4, <2>5, <2>6, <2>9, BinopAgrees DEF P
<1>. QED BY <1>5, <1>14, <1>15, <1>16, <1>17 DEF SharedHere

LEMMA AllAgreed == \A e \in AllExprs : Agreed(e)
<1>. DEFINE S == {e \in AllExprs : Agreed(e)}
<1>1. ASSUME NEW e \in AllExprs, \A i \in DOMAIN Operands(e) : Operands(e)[i] \in S
      PROVE  e \in S
  <2>1. \A i \in DOMAIN Operands(e) : Agreed(Operands(e)[i])
    BY <1>1
  <2>. QED BY <2>1, ExprAgreed
<1>. HIDE DEF S
<1>2. AllExprs \subseteq S
  BY <1>1, ExprInduction
<1>. QED BY <1>2 DEF S

LEMMA SharedParts ==
    ASSUME NEW p \in AllPreds, SharedPred(p)
    PROVE  SharedPredHere(p) /\ \A q \in ToSet(PredParts(p)) : SharedPred(q)
<1>1. PredsInside[p] = {p} \cup UNION {PredsInside[q] : q \in ToSet(PredParts(p))}
  BY PredsInsideUnfolds
<1>2. \A q \in ToSet(PredParts(p)) : PredsInside[q] \subseteq PredsInside[p]
  BY <1>1
<1>. QED BY <1>1, <1>2 DEF SharedPred

JudgedAlike(p) ==
    SharedPred(p) /\ IsOk(EvalConditionPred(ctx, p)) =>
        EvaluatePred(PolicyContext, p) = EvalConditionPred(ctx, p)

(* A predicate without parts: its expressions have the same values on both sides. *)
LEMMA LeafAlike ==
    ASSUME NEW p \in AllPreds, PredParts(p) = <<>>, SharedPredHere(p),
           IsOk(EvalConditionPred(ctx, p))
    PROVE  EvaluatePred(PolicyContext, p) = EvalConditionPred(ctx, p)
<1>. DEFINE s == PredExprs(p)
            f == Evaluation(ctx)
            P == PolicyContext
            g == CondEvaluation(P)
            n == Len(s)
            vs == [i \in 1..n |-> Eval(ctx, s[i])[2]]
<1>1. n \in Nat /\ DOMAIN s = 1..n /\ \A i \in 1..n : s[i] \in AllExprs
  <2>1. s \in Seq(AllExprs)
    BY PredicatesAreTrees
  <2>. HIDE DEF s
  <2>. QED BY <2>1
<1>2. EvalConditionPred(ctx, p) = IF IsOk(All(f, s)) THEN Ok(RunHolds(ctx, p, All(f, s)[2]))
                                  ELSE All(f, s)
  BY RunUnfolds
<1>3. EvaluatePred(P, p) = IF IsOk(All(g, s)) THEN Ok(PolicyHolds(P, p, All(g, s)[2]))
                           ELSE All(g, s)
  BY PolicyUnfolds
<1>4. \A i \in 1..n : f[s[i]] = Eval(ctx, s[i]) /\ g[s[i]] = CondEval(P, s[i])
  BY DEF Eval, CondEval
<1>5. \A i \in 1..n : s[i] \in ToSet(s)
  BY <1>1 DEF ToSet
<1>6. \A i \in 1..n : Shared(s[i])
  BY <1>5 DEF SharedPredHere
<1>7. vs = [i \in 1..n |-> f[s[i]][2]]
  BY <1>4
<1>8. \A i \in 1..n : Agreed(s[i])
  BY <1>1, AllAgreed
<1>9. P.sets = ctx.sets
  BY DEF PolicyContext
<1>. HIDE DEF s, n, f, g, vs, P
<1>10. (\A i \in 1..n : IsOk(f[s[i]])) /\ All(f, s) = Ok(vs)
  BY <1>1, <1>2, <1>7, AllResults
<1>11. EvalConditionPred(ctx, p) = Ok(RunHolds(ctx, p, vs))
  BY <1>2, <1>10, OkValue
<1>12. \A i \in 1..n : g[s[i]] = f[s[i]] /\ Scalar(vs[i])
  BY <1>4, <1>6, <1>8, <1>10 DEF Agreed, P, vs
<1>13. All(g, s) = Ok(vs)
  BY <1>1, <1>10, <1>12, AllLocal
<1>14. EvaluatePred(P, p) = Ok(PolicyHolds(P, p, vs))
  BY <1>3, <1>13, OkValue
<1>15. CASE p[1] = "StartsWith"
  <2>1. PolicyHolds(P, p, vs) = (Is(vs[1], "String") /\ StartsWith(vs[1][2], p[3]))
    BY <1>15 DEF PolicyHolds
  <2>2. RunHolds(ctx, p, vs) = (Is(vs[1], "String") /\ StartsWith(vs[1][2], p[3]))
    BY <1>15 DEF RunHolds
  <2>. QED BY <2>1, <2>2, <1>11, <1>14 DEF P
<1>16. CASE p[1] = "EndsWith"
  <2>1. PolicyHolds(P, p, vs) = (Is(vs[1], "String") /\ EndsWith(vs[1][2], p[3]))
    BY <1>16 DEF PolicyHolds
  <2>2. RunHolds(ctx, p, vs) = (Is(vs[1], "String") /\ EndsWith(vs[1][2], p[3]))
    BY <1>16 DEF RunHolds
  <2>. QED BY <2>1, <2>2, <1>11, <1>14 DEF P
<1>17. CASE p[1] = "Exists"
  <2>1. s = <<p[2]>>
    BY <1>17 DEF s, PredExprs
  <2>2. Scalar(vs[1])
    BY <2>1, <1>1, <1>12
  <2>3. PolicyHolds(P, p, vs) = CondTruthy(vs[1])
    BY <1>17 DEF PolicyHolds
  <2>4. RunHolds(ctx, p, vs) = Truthy(vs[1])
    BY <1>17 DEF RunHolds
  <2>5. CondTruthy(vs[1]) = Truthy(vs[1])
    BY <2>2, ScalarTruth
  <2>. QED BY <2>3, <2>4, <2>5, <1>11, <1>14 DEF P
<1>18. CASE p[1] = "InSet"
  <2>1. s = <<p[2]>>
    BY <1>18 DEF s, PredExprs
  <2>2. n = 1 /\ s[1] \in ToSet(s)
    BY <2>1, <1>1, <1>5
  <2>3. Is(vs[1], "String")
    <3>1. IsOk(Eval(ctx, s[1])) /\ vs[1] = Eval(ctx, s[1])[2]
      BY <2>2, <1>4, <1>10 DEF vs
    <3>. QED BY <3>1, <2>2, <1>18 DEF SharedPredHere, s
  <2>4. EvalInSet(P, vs[1], p[3]) = RunInSet(ctx, vs[1], p[3])
    BY <2>3, <1>9 DEF EvalInSet, RunInSet, Names, Is
  <2>5. PolicyHolds(P, p, vs) = EvalInSet(P, vs[1], p[3])
    BY <1>18 DEF PolicyHolds
  <2>6. RunHolds(ctx, p, vs) = RunInSet(ctx, vs[1], p[3])
    BY <1>18 DEF RunHolds
  <2>. QED BY <2>4, <2>5, <2>6, <1>11, <1>14 DEF P
<1>19. CASE p[1] = "DropPrefixEq"
  <2>1. s = <<p[3], p[4]>>
    BY <1>19 DEF s, PredExprs
  <2>2. n = 2 /\ s[1] \in ToSet(s) /\ s[2] \in ToSet(s)
    BY <2>1, <1>1, <1>5
  <2>3. \A i \in 1..2 : Is(vs[i], "String") /\ StartsWith(vs[i][2], p[2])
    <3>1. \A i \in 1..2 : IsOk(Eval(ctx, s[i])) /\ vs[i] = Eval(ctx, s[i])[2]
      BY <2>2, <1>4, <1>10 DEF vs
    <3>2. \A i \in 1..2 : Prefixed(s[i], p[2])
      BY <2>2, <1>5, <1>19 DEF SharedPredHere, s
    <3>. QED BY <3>1, <3>2 DEF Prefixed
  <2>4. EvalDropPrefixEq(p[2], vs[1], vs[2]) =
            (After(vs[1][2], Len(p[2])) = After(vs[2][2], Len(p[2])))
    <3>1. Names(vs[1]) /\ Names(vs[2])
      BY <2>3 DEF Names, Is
    <3>2. StartsWith(vs[1][2], p[2]) /\ StartsWith(vs[2][2], p[2])
      BY <2>3
    <3>3. StartsWith(vs[1][2], p[2]) = StartsWith(vs[2][2], p[2])
      BY <3>2 DEF StartsWith
    <3>. QED BY <3>1, <3>2, <3>3 DEF EvalDropPrefixEq
  <2>5. RunDropPrefixEq(p[2], vs[1], vs[2]) =
            (After(vs[1][2], Len(p[2])) = After(vs[2][2], Len(p[2])))
    BY <2>3 DEF RunDropPrefixEq, Both, DropPrefix
  <2>6. PolicyHolds(P, p, vs) = EvalDropPrefixEq(p[2], vs[1], vs[2])
    BY <1>19 DEF PolicyHolds
  <2>7. RunHolds(ctx, p, vs) = RunDropPrefixEq(p[2], vs[1], vs[2])
    BY <1>19 DEF RunHolds
  <2>. QED BY <2>4, <2>5, <2>6, <2>7, <1>11, <1>14 DEF P
<1>20. p[1] \notin {"Not", "And", "Or"}
  BY DEF PredParts
<1>. QED BY <1>15, <1>16, <1>17, <1>18, <1>19, <1>20 DEF SharedPredHere

LEMMA NodeAlike ==
    ASSUME NEW p \in AllPreds, PredParts(p) # <<>>, IsOk(EvalConditionPred(ctx, p)),
           \A q \in ToSet(PredParts(p)) :
               IsOk(EvalConditionPred(ctx, q)) =>
                   EvaluatePred(PolicyContext, q) = EvalConditionPred(ctx, q)
    PROVE  EvaluatePred(PolicyContext, p) = EvalConditionPred(ctx, p)
<1>. DEFINE P == PolicyContext
            f == RunJudgement(ctx)
            g == PolicyJudgement(P)
<1>1. EvalConditionPred(ctx, p) = Connected(p, f) /\ EvaluatePred(P, p) = Connected(p, g)
  BY RunUnfolds, PolicyUnfolds
<1>2. \A q \in ToSet(PredParts(p)) : IsOk(f[q]) => g[q] = f[q]
  BY DEF EvalConditionPred, EvaluatePred
<1>3. p[1] \in {"Not", "And", "Or"} /\ p[2] \in ToSet(PredParts(p))
  BY PartsBelow
<1>4. p[1] # "Not" => p[3] \in ToSet(PredParts(p))
  BY <1>3, PartsBelow
<1>. HIDE DEF P, f, g
<1>5. IsOk(f[p[2]]) /\ g[p[2]] = f[p[2]]
  BY <1>1, <1>2, <1>3 DEF Connected, Then
<1>6. CASE p[1] = "Not"
  BY <1>1, <1>5, <1>6 DEF Connected, Then, P
<1>7. CASE p[1] = "And"
  <2>1. Connected(p, f) = IF f[p[2]][2] THEN f[p[3]] ELSE Ok(f[p[2]][2])
    BY <1>5, <1>7 DEF Connected, Then
  <2>2. Connected(p, g) = IF f[p[2]][2] THEN g[p[3]] ELSE Ok(f[p[2]][2])
    BY <1>5, <1>7 DEF Connected, Then
  <2>. QED BY <2>1, <2>2, <1>1, <1>2, <1>4, <1>7 DEF P
<1>8. CASE p[1] = "Or"
  <2>1. Connected(p, f) = IF f[p[2]][2] THEN Ok(f[p[2]][2]) ELSE f[p[3]]
    BY <1>5, <1>8 DEF Connected, Then
  <2>2. Connected(p, g) = IF f[p[2]][2] THEN Ok(f[p[2]][2]) ELSE g[p[3]]
    BY <1>5, <1>8 DEF Connected, Then
  <2>. QED BY <2>1, <2>2, <1>1, <1>2, <1>4, <1>8 DEF P
<1>. QED BY <1>3, <1>6, <1>7, <1>8

LEMMA AllAlike == \A p \in AllPreds : JudgedAlike(p)
<1>. DEFINE S == {p \in AllPreds : JudgedAlike(p)}
<1>1. ASSUME NEW p \in AllPreds, ToSet(PredParts(p)) \subseteq S
      PROVE  p \in S
  <2>. SUFFICES ASSUME SharedPred(p), IsOk(EvalConditionPred(ctx, p))
                PROVE  EvaluatePred(PolicyContext, p) = EvalConditionPred(ctx, p)
    BY DEF JudgedAlike
  <2>1. SharedPredHere(p) /\ \A q \in ToSet(PredParts(p)) : SharedPred(q)
    BY SharedParts
  <2>2. \A q \in ToSet(PredParts(p)) :
            IsOk(EvalConditionPred(ctx, q)) =>
                EvaluatePred(PolicyContext, q) = EvalConditionPred(ctx, q)
    BY <1>1, <2>1 DEF JudgedAlike
  <2>3. CASE PredParts(p) = <<>>
    BY <2>1, <2>3, LeafAlike
  <2>4. CASE PredParts(p) # <<>>
    BY <2>2, <2>4, NodeAlike
  <2>. QED BY <2>3, <2>4
<1>. HIDE DEF S
<1>2. AllPreds \subseteq S
  BY <1>1, PredInduction
<1>. QED BY <1>2 DEF S

(***************************************************************************)
(* The evaluator of policies and that of execution give shared conditions  *)
(* one answer, whenever the execution side has one, in every state.        *)
(***************************************************************************)
THEOREM EvaluatorsAlwaysAgree == Spec => []EvaluatorsAgree
<1>1. EvaluatorsAgree
  BY AllAlike, TypingConstants DEF EvaluatorsAgree, JudgedAlike
<1>. QED BY <1>1, PTL

-----------------------------------------------------------------------------
(* What is inside a type.  Levels beyond its nesting are empty. *)
LEMMA FuelNat ==
    ASSUME GoodReg(reg)
    PROVE  Fuel(reg) \in Nat /\ MaxDepth \in Nat /\ MaxNesting \in Nat /\ MaxDepth > MaxNesting
<1>1. Fuel(reg) \in Nat
  BY FS_CardinalityType DEF GoodReg, Fuel
<1>2. MaxNesting \in Nat
  BY NestingNat
<1>3. \A f, m \in Nat : (f + 1) * (m + 1) \in Nat /\ (f + 1) * (m + 1) > m
  <2>. SUFFICES ASSUME NEW f \in Nat, NEW m \in Nat
                PROVE  (f + 1) * (m + 1) \in Nat /\ (f + 1) * (m + 1) > m
    OBVIOUS
  <2>1. (f + 1) * (m + 1) = f * (m + 1) + (m + 1) /\ f * (m + 1) \in Nat
    OBVIOUS
  <2>. QED BY <2>1
<1>. QED BY <1>1, <1>2, <1>3 DEF MaxDepth

(* Induction up to a bound. *)
LEMMA NatUpTo ==
    ASSUME NEW n \in Nat, NEW S, 0 \in S, \A k \in Nat : k < n /\ k \in S => k + 1 \in S
    PROVE  0..n \subseteq S
<1>. SUFFICES ASSUME NEW b \in 0..n, b \notin S PROVE FALSE
  OBVIOUS
<1>. DEFINE D == {k \in 0..n : k \notin S}
<1>1. D \subseteq Nat /\ b \in D
  OBVIOUS
<1>2. PICK m \in D : \A k \in D : m <= k
  <2>. HIDE DEF D
  <2>. QED BY <1>1, LeastOfNat
<1>3. m \in 0..n /\ m \notin S /\ m # 0
  BY <1>2
<1>4. m - 1 \in Nat /\ m - 1 < n /\ m - 1 \in 0..n /\ (m - 1) + 1 = m
  BY <1>3
<1>5. m - 1 \in S
  BY <1>2, <1>4
<1>. QED BY <1>3, <1>4, <1>5

LEMMA LevelNesting ==
    ASSUME GoodReg(reg), NEW t \in AllTypes
    PROVE  \A k \in 0..MaxDepth : \A x \in Level(t, k) :
               x \in AllTypes /\ Nesting(x) + k <= Nesting(t)
<1>. DEFINE S == {k \in 0..MaxDepth : \A x \in Level(t, k) :
                        x \in AllTypes /\ Nesting(x) + k <= Nesting(t)}
<1>1. MaxDepth \in Nat
  BY FuelNat
<1>2. 0 \in S
  <2>1. Level(t, 0) = {t} /\ Nesting(t) \in Nat
    BY <1>1, LevelUnfolds, NestingNat
  <2>. QED BY <2>1, <1>1
<1>3. ASSUME NEW k \in Nat, k < MaxDepth, k \in S PROVE k + 1 \in S
  <2>1. k + 1 \in 1..MaxDepth /\ (k + 1) - 1 = k
    BY <1>3, <1>1
  <2>2. Level(t, k + 1) = UNION {TypeParts(u) : u \in Level(t, k)}
    BY <2>1, <1>1, LevelUnfolds
  <2>3. ASSUME NEW x \in Level(t, k + 1)
        PROVE  x \in AllTypes /\ Nesting(x) + (k + 1) <= Nesting(t)
    <3>1. PICK u \in Level(t, k) : x \in TypeParts(u)
      BY <2>2
    <3>2. u \in AllTypes /\ Nesting(u) + k <= Nesting(t)
      BY <1>3
    <3>3. x \in AllTypes /\ Nesting(x) < Nesting(u)
      BY <3>1, <3>2, TypePartsBelow
    <3>4. Nesting(x) \in Nat /\ Nesting(u) \in Nat /\ Nesting(t) \in Nat
      BY <3>2, <3>3, NestingNat
    <3>. QED BY <3>2, <3>3, <3>4
  <2>. QED BY <2>1, <2>3
<1>. HIDE DEF S
<1>4. 0..MaxDepth \subseteq S
  BY <1>1, <1>2, <1>3, NatUpTo
<1>. QED BY <1>4 DEF S

(* The levels of a type are those of its parts, one deeper. *)
LEMMA LevelShift ==
    ASSUME MaxDepth \in Nat, NEW t
    PROVE  \A k \in 0..MaxDepth - 1 : Level(t, k + 1) = UNION {Level(u, k) : u \in TypeParts(t)}
<1>. DEFINE S == {k \in Nat : k < MaxDepth =>
                        Level(t, k + 1) = UNION {Level(u, k) : u \in TypeParts(t)}}
<1>1. 0 \in S
  <2>. SUFFICES ASSUME 0 < MaxDepth
                PROVE  Level(t, 0 + 1) = UNION {Level(u, 0) : u \in TypeParts(t)}
    OBVIOUS
  <2>1. Level(t, 1) = UNION {TypeParts(u) : u \in Level(t, 0)}
    <3>1. 1 \in 1..MaxDepth /\ 1 - 1 = 0
      OBVIOUS
    <3>. QED BY <3>1, LevelUnfolds
  <2>2. Level(t, 0) = {t} /\ \A u : Level(u, 0) = {u}
    BY LevelUnfolds
  <2>. QED BY <2>1, <2>2
<1>2. ASSUME NEW k \in Nat, k < MaxDepth, k \in S PROVE k + 1 \in S
  <2>. SUFFICES ASSUME k + 1 < MaxDepth
                PROVE  Level(t, (k + 1) + 1) = UNION {Level(u, k + 1) : u \in TypeParts(t)}
    OBVIOUS
  <2>1. (k + 1) + 1 \in 1..MaxDepth /\ ((k + 1) + 1) - 1 = k + 1
        /\ k + 1 \in 1..MaxDepth /\ (k + 1) - 1 = k
    OBVIOUS
  <2>2. Level(t, (k + 1) + 1) = UNION {TypeParts(x) : x \in Level(t, k + 1)}
    BY <2>1, LevelUnfolds
  <2>3. Level(t, k + 1) = UNION {Level(u, k) : u \in TypeParts(t)}
    BY <1>2
  <2>4. ASSUME NEW u PROVE Level(u, k + 1) = UNION {TypeParts(x) : x \in Level(u, k)}
    <3>1. \A d \in 1..MaxDepth : Level(u, d) = UNION {TypeParts(x) : x \in Level(u, d - 1)}
      BY LevelUnfolds
    <3>2. Level(u, k + 1) = UNION {TypeParts(x) : x \in Level(u, (k + 1) - 1)}
      BY <2>1, <3>1
    <3>. QED BY <2>1, <3>2
  <2>. QED BY <2>2, <2>3, <2>4
<1>. HIDE DEF S
<1>3. 0..MaxDepth \subseteq S
  BY <1>1, <1>2, NatUpTo
<1>4. ASSUME NEW k \in 0..MaxDepth - 1
      PROVE  Level(t, k + 1) = UNION {Level(u, k) : u \in TypeParts(t)}
  <2>1. k \in Nat /\ k < MaxDepth /\ k \in 0..MaxDepth
    OBVIOUS
  <2>. QED BY <2>1, <1>3 DEF S
<1>. QED BY <1>4

(* The aliases in a type: itself, or those in its parts. *)
LEMMA AliasesInParts ==
    ASSUME GoodReg(reg), NEW t \in AllTypes
    PROVE  /\ AliasesIn(t) \subseteq DOMAIN reg.aliases
           /\ IsAlias(reg, t) => AliasesIn(t) = {t[2]}
           /\ ~IsAlias(reg, t) => AliasesIn(t) = UNION {AliasesIn(u) : u \in TypeParts(t)}
<1>1. MaxDepth \in Nat /\ MaxNesting \in Nat /\ MaxDepth > MaxNesting
  BY FuelNat
<1>2. Level(t, 0) = {t}
  BY <1>1, LevelUnfolds
<1>3. \A k \in 0..MaxDepth - 1 : Level(t, k + 1) = UNION {Level(u, k) : u \in TypeParts(t)}
  BY <1>1, LevelShift
<1>4. AliasesIn(t) \subseteq DOMAIN reg.aliases
  BY DEF AliasesIn
<1>5. ASSUME NEW a, a \in AliasesIn(t)
      PROVE  \/ t = ResourceT(a)
             \/ \E u \in TypeParts(t) : a \in AliasesIn(u)
  <2>1. PICK n \in 0..MaxDepth : ResourceT(a) \in Level(t, n)
    BY <1>5 DEF AliasesIn
  <2>2. CASE n = 0
    BY <2>1, <2>2, <1>2
  <2>3. CASE n # 0
    <3>1. n - 1 \in 0..MaxDepth - 1 /\ n - 1 \in 0..MaxDepth /\ (n - 1) + 1 = n
      BY <2>3, <1>1
    <3>2. PICK u \in TypeParts(t) : ResourceT(a) \in Level(u, n - 1)
      BY <3>1, <2>1, <1>3
    <3>3. a \in AliasesIn(u)
      BY <3>1, <3>2, <1>4, <1>5 DEF AliasesIn
    <3>. QED BY <3>2, <3>3
  <2>. QED BY <2>2, <2>3
<1>6. ASSUME NEW u \in TypeParts(t), NEW a \in AliasesIn(u)
      PROVE  a \in AliasesIn(t)
  <2>1. a \in DOMAIN reg.aliases
    BY DEF AliasesIn
  <2>2. PICK n \in 0..MaxDepth : ResourceT(a) \in Level(u, n)
    BY <1>6 DEF AliasesIn
  <2>3. u \in AllTypes
    BY TypePartsBelow
  <2>4. ResourceT(a) \in AllTypes /\ Nesting(ResourceT(a)) + n <= Nesting(u)
    BY <2>2, <2>3, LevelNesting
  <2>5. n < MaxDepth
    <3>1. Nesting(ResourceT(a)) \in Nat /\ Nesting(u) \in Nat /\ Nesting(u) <= MaxNesting
      BY <2>3, <2>4, NestingNat
    <3>. QED BY <3>1, <2>4, <1>1
  <2>6. n \in 0..MaxDepth - 1 /\ n + 1 \in 0..MaxDepth
    BY <2>5, <1>1
  <2>7. ResourceT(a) \in Level(t, n + 1)
    BY <2>2, <2>6, <1>3
  <2>. QED BY <2>1, <2>6, <2>7 DEF AliasesIn
<1>7. ASSUME IsAlias(reg, t) PROVE AliasesIn(t) = {t[2]}
  <2>1. t = ResourceT(t[2]) /\ t[2] \in DOMAIN reg.aliases /\ t[1] = "Resource"
    BY <1>7, TypesAreTrees DEF IsAlias
  <2>2. TypeParts(t) = {}
    BY <2>1 DEF TypeParts, ListKinds, SetKinds, MapKinds
  <2>3. 0 \in 0..MaxDepth
    BY <1>1
  <2>4. t[2] \in AliasesIn(t)
    BY <2>1, <2>3, <1>2 DEF AliasesIn
  <2>5. \A a : t = ResourceT(a) => a = t[2]
    BY DEF ResourceT
  <2>. QED BY <2>2, <2>4, <2>5, <1>5
<1>8. ASSUME ~IsAlias(reg, t) PROVE AliasesIn(t) = UNION {AliasesIn(u) : u \in TypeParts(t)}
  <2>1. \A a \in AliasesIn(t) : t # ResourceT(a)
    BY <1>4, <1>8 DEF IsAlias, ResourceT
  <2>. QED BY <2>1, <1>5, <1>6
<1>. QED BY <1>4, <1>7, <1>8

-----------------------------------------------------------------------------
(* What a type reaches: the least set of names with its aliases that is closed. *)
LEMMA ReachedLeast ==
    ASSUME GoodReg(reg), NEW t \in AllTypes
    PROVE  /\ Reached(t) \subseteq DOMAIN reg.aliases
           /\ AliasesIn(t) \subseteq Reached(t)
           /\ Closed(Reached(t))
           /\ \A names \in SUBSET DOMAIN reg.aliases :
                 AliasesIn(t) \subseteq names /\ Closed(names) => Reached(t) \subseteq names
<1>1. AliasesIn(t) \subseteq DOMAIN reg.aliases
  BY AliasesInParts
<1>2. \A a \in DOMAIN reg.aliases : AliasesIn(reg.aliases[a]) \subseteq DOMAIN reg.aliases
  BY AliasesInParts DEF GoodReg
<1>3. Reached(t) \subseteq DOMAIN reg.aliases
  BY DEF Reached
<1>4. AliasesIn(t) \subseteq Reached(t)
  BY <1>1 DEF Reached
<1>5. \A names \in SUBSET DOMAIN reg.aliases :
          AliasesIn(t) \subseteq names /\ Closed(names) => Reached(t) \subseteq names
  BY DEF Reached
<1>6. ASSUME NEW a \in Reached(t), NEW b \in AliasesIn(reg.aliases[a]) PROVE b \in Reached(t)
  <2>1. b \in DOMAIN reg.aliases
    BY <1>2, <1>3
  <2>2. ASSUME NEW names \in SUBSET DOMAIN reg.aliases, AliasesIn(t) \subseteq names, Closed(names)
        PROVE  b \in names
    <3>1. a \in names
      BY <1>5, <2>2
    <3>. QED BY <3>1, <2>2 DEF Closed
  <2>. QED BY <2>1, <2>2 DEF Reached
<1>7. Closed(Reached(t))
  BY <1>6 DEF Closed
<1>. QED BY <1>3, <1>4, <1>5, <1>7

(* An alias reaches itself and what its type reaches. *)
LEMMA ReachedAlias ==
    ASSUME GoodReg(reg), NEW t \in AllTypes, IsAlias(reg, t)
    PROVE  /\ reg.aliases[t[2]] \in AllTypes
           /\ t[2] \in DOMAIN reg.aliases
           /\ Reached(t) = {t[2]} \cup Reached(reg.aliases[t[2]])
<1>. DEFINE u == reg.aliases[t[2]]
            X == {t[2]} \cup Reached(u)
<1>1. u \in AllTypes /\ t[2] \in DOMAIN reg.aliases
  BY DEF GoodReg, IsAlias
<1>2. AliasesIn(t) = {t[2]}
  BY AliasesInParts
<1>3. Reached(u) \subseteq DOMAIN reg.aliases /\ AliasesIn(u) \subseteq Reached(u)
      /\ Closed(Reached(u))
  BY <1>1, ReachedLeast
<1>4. Closed(X)
  BY <1>3 DEF Closed
<1>5. X \in SUBSET DOMAIN reg.aliases /\ AliasesIn(t) \subseteq X
  BY <1>1, <1>2, <1>3
<1>6. Reached(t) \subseteq X
  BY <1>4, <1>5, ReachedLeast
<1>7. t[2] \in Reached(t) /\ Closed(Reached(t)) /\ Reached(t) \subseteq DOMAIN reg.aliases
  BY <1>2, ReachedLeast
<1>8. AliasesIn(u) \subseteq Reached(t)
  BY <1>7 DEF Closed
<1>9. Reached(u) \subseteq Reached(t)
  BY <1>1, <1>7, <1>8, ReachedLeast
<1>. QED BY <1>1, <1>6, <1>7, <1>9

(* Another type reaches what its parts reach. *)
LEMMA ReachedParts ==
    ASSUME GoodReg(reg), NEW t \in AllTypes, ~IsAlias(reg, t)
    PROVE  Reached(t) = UNION {Reached(u) : u \in TypeParts(t)}
<1>. DEFINE X == UNION {Reached(u) : u \in TypeParts(t)}
<1>1. AliasesIn(t) = UNION {AliasesIn(u) : u \in TypeParts(t)}
  BY AliasesInParts
<1>2. \A u \in TypeParts(t) :
          /\ u \in AllTypes
          /\ Reached(u) \subseteq DOMAIN reg.aliases
          /\ AliasesIn(u) \subseteq Reached(u)
          /\ Closed(Reached(u))
  BY TypePartsBelow, ReachedLeast
<1>3. X \in SUBSET DOMAIN reg.aliases /\ AliasesIn(t) \subseteq X
  BY <1>1, <1>2
<1>4. Closed(X)
  BY <1>2 DEF Closed
<1>5. Reached(t) \subseteq X
  BY <1>3, <1>4, ReachedLeast
<1>6. /\ AliasesIn(t) \subseteq Reached(t)
      /\ Closed(Reached(t))
      /\ Reached(t) \subseteq DOMAIN reg.aliases
  BY ReachedLeast
<1>7. \A u \in TypeParts(t) : Reached(u) \subseteq Reached(t)
  BY <1>1, <1>2, <1>6, ReachedLeast
<1>. QED BY <1>5, <1>7

-----------------------------------------------------------------------------
(* Induction along the recursion of resolve_type_deep. *)
LEMMA DeepInduction ==
    ASSUME GoodReg(reg), NEW S,
           \A n \in 0..Fuel(reg), t \in AllTypes :
               /\ IsAlias(reg, t) /\ n # 0 => <<n - 1, reg.aliases[t[2]]>> \in S
               /\ \A u \in TypeParts(t) : <<n, u>> \in S
               => <<n, t>> \in S
    PROVE  (0..Fuel(reg)) \X AllTypes \subseteq S
<1>. DEFINE F == Fuel(reg)
            M == MaxNesting
            D(n, t) == n * (M + 1) + Nesting(t)
            B == {p \in (0..F) \X AllTypes : p \notin S}
            R == {D(p[1], p[2]) : p \in B}
<1>. SUFFICES ASSUME NEW b \in B PROVE FALSE
  OBVIOUS
<1>1. F \in Nat /\ M \in Nat
  BY FuelNat
<1>2. \A t \in AllTypes : Nesting(t) \in Nat /\ Nesting(t) <= M
  BY NestingNat
<1>3. \A n \in 0..F, t \in AllTypes : D(n, t) \in Nat
  BY <1>1, <1>2
<1>4. R \subseteq Nat /\ D(b[1], b[2]) \in R
  BY <1>3
<1>5. PICK m \in R : \A k \in R : m <= k
  <2>. HIDE DEF R
  <2>. QED BY <1>4, LeastOfNat
<1>6. PICK p \in B : D(p[1], p[2]) = m
  BY <1>5
<1>7. PICK n \in 0..F, t \in AllTypes : p = <<n, t>>
  BY <1>6
<1>8. \A k \in 0..F, u \in AllTypes : D(k, u) < D(n, t) => <<k, u>> \in S
  <2>. SUFFICES ASSUME NEW k \in 0..F, NEW u \in AllTypes, D(k, u) < D(n, t), <<k, u>> \notin S
                PROVE  FALSE
    OBVIOUS
  <2>1. <<k, u>> \in B
    OBVIOUS
  <2>2. D(k, u) \in R
    BY <2>1
  <2>3. D(n, t) = m
    BY <1>6, <1>7
  <2>4. D(k, u) \in Nat /\ D(n, t) \in Nat
    BY <1>3
  <2>. HIDE DEF D, R, B
  <2>5. m <= D(k, u)
    BY <1>5, <2>2
  <2>. QED BY <2>3, <2>4, <2>5
<1>9. IsAlias(reg, t) /\ n # 0 => <<n - 1, reg.aliases[t[2]]>> \in S
  <2>. SUFFICES ASSUME IsAlias(reg, t), n # 0 PROVE <<n - 1, reg.aliases[t[2]]>> \in S
    OBVIOUS
  <2>. DEFINE u == reg.aliases[t[2]]
  <2>1. u \in AllTypes
    BY DEF GoodReg, IsAlias
  <2>. HIDE DEF u
  <2>2. n - 1 \in 0..F
    BY <1>1
  <2>3. \A a, c, i, j \in Nat : i <= c /\ a # 0 => (a - 1) * (c + 1) + i < a * (c + 1) + j
    OBVIOUS
  <2>4. D(n - 1, u) < D(n, t)
    BY <2>1, <2>3, <1>1, <1>2
  <2>5. <<n - 1, u>> \in S
    BY <2>1, <2>2, <2>4, <1>8
  <2>. QED BY <2>5 DEF u
<1>10. \A u \in TypeParts(t) : <<n, u>> \in S
  <2>. SUFFICES ASSUME NEW u \in TypeParts(t) PROVE <<n, u>> \in S
    OBVIOUS
  <2>1. u \in AllTypes /\ Nesting(u) < Nesting(t)
    BY TypePartsBelow
  <2>2. n * (M + 1) \in Nat
    BY <1>1
  <2>3. D(n, u) < D(n, t)
    BY <2>1, <2>2, <1>2
  <2>. QED BY <2>1, <2>3, <1>8
<1>11. <<n, t>> \in S
  BY <1>9, <1>10
<1>. QED BY <1>6, <1>7, <1>11

(* One step of resolve_type_deep: through an alias, or into the parts. *)
LEMMA DeepSteps ==
    ASSUME GoodReg(reg), NEW n \in 0..Fuel(reg), NEW t \in AllTypes
    PROVE  LET deep == Deepening(reg)
           IN  /\ IsAlias(reg, t) => deep[<<n, t>>] = IF n = 0 THEN Endless
                                                      ELSE deep[<<n - 1, reg.aliases[t[2]]>>]
               /\ ~IsAlias(reg, t) =>
                     /\ deep[<<n, t>>] = Endless <=>
                            \E u \in TypeParts(t) : deep[<<n, u>>] = Endless
                     /\ deep[<<n, t>>] # Endless =>
                            /\ TypeParts(deep[<<n, t>>]) = {deep[<<n, u>>] : u \in TypeParts(t)}
                            /\ \A a \in DOMAIN reg.aliases : deep[<<n, t>>] # ResourceT(a)
<1>. DEFINE deep == Deepening(reg)
            d == deep[<<n, t>>]
<1>1. d = Deepened(reg, n, t, deep)
  BY DeepUnfolds
<1>. HIDE DEF deep, d
<1>2. CASE IsAlias(reg, t)
  BY <1>1, <1>2 DEF Deepened, d, deep
<1>3. CASE ~IsAlias(reg, t) /\ \E u \in TypeParts(t) : deep[<<n, u>>] = Endless
  BY <1>1, <1>3 DEF Deepened, d, deep
<1>4. CASE ~IsAlias(reg, t) /\ ~\E u \in TypeParts(t) : deep[<<n, u>>] = Endless
  <2>1. CASE t[1] \in MapKinds
    <3>1. d = <<t[1], deep[<<n, t[2]>>], deep[<<n, t[3]>>]>>
      BY <1>1, <1>4, <2>1 DEF Deepened, MapKinds, ListKinds, SetKinds
    <3>2. d[1] = t[1] /\ d[2] = deep[<<n, t[2]>>] /\ d[3] = deep[<<n, t[3]>>]
      BY <3>1
    <3>3. t[1] \notin ListKinds \cup SetKinds /\ t[1] # "Resource" /\ t[1] # "Endless"
      BY <2>1 DEF MapKinds, ListKinds, SetKinds
    <3>4. d # Endless /\ \A a \in DOMAIN reg.aliases : d # ResourceT(a)
      BY <3>2, <3>3 DEF Endless, ResourceT
    <3>5. TypeParts(d) = {d[2], d[3]}
      BY <3>2, <3>3, <2>1 DEF TypeParts
    <3>6. TypeParts(t) = {t[2], t[3]}
      BY <3>3, <2>1 DEF TypeParts
    <3>7. TypeParts(d) = {deep[<<n, u>>] : u \in TypeParts(t)}
      BY <3>2, <3>5, <3>6
    <3>. QED BY <1>4, <3>4, <3>7 DEF d, deep
  <2>2. CASE t[1] \in ListKinds \cup SetKinds
    <3>1. \/ d = <<t[1], deep[<<n, t[2]>>]>>
          \/ d = <<t[1], deep[<<n, t[2]>>], t[3]>>
      BY <1>1, <1>4, <2>2 DEF Deepened, MapKinds, ListKinds, SetKinds
    <3>2. d[1] = t[1] /\ d[2] = deep[<<n, t[2]>>]
      BY <3>1
    <3>3. t[1] # "Resource" /\ t[1] # "Endless"
      BY <2>2 DEF ListKinds, SetKinds
    <3>4. d # Endless /\ \A a \in DOMAIN reg.aliases : d # ResourceT(a)
      BY <3>2, <3>3 DEF Endless, ResourceT
    <3>5. TypeParts(d) = {d[2]}
      BY <3>2, <2>2 DEF TypeParts, MapKinds, ListKinds, SetKinds
    <3>6. TypeParts(t) = {t[2]}
      BY <2>2 DEF TypeParts, MapKinds, ListKinds, SetKinds
    <3>7. TypeParts(d) = {deep[<<n, u>>] : u \in TypeParts(t)}
      BY <3>2, <3>5, <3>6
    <3>. QED BY <1>4, <3>4, <3>7 DEF d, deep
  <2>3. CASE t[1] \notin MapKinds \cup ListKinds \cup SetKinds
    <3>1. "SizedList" \in ListKinds
      BY DEF ListKinds
    <3>2. d = t
      BY <1>1, <1>4, <2>3, <3>1 DEF Deepened
    <3>3. TypeParts(t) = {}
      BY <2>3 DEF TypeParts
    <3>4. t # Endless
      BY TypesAreTrees
    <3>5. \A a \in DOMAIN reg.aliases : t # ResourceT(a)
      BY <1>4 DEF IsAlias, ResourceT
    <3>. QED BY <1>4, <3>2, <3>3, <3>4, <3>5 DEF d, deep
  <2>. QED BY <2>1, <2>2, <2>3
<1>. QED BY <1>2, <1>3, <1>4

Cyclic(t) == \E a \in Reached(t) : OnCycle(a)

(* Around a cycle it does not end, however many steps are left. *)
LEMMA CyclesAreEndless ==
    ASSUME GoodReg(reg)
    PROVE  \A n \in 0..Fuel(reg), t \in AllTypes :
               Cyclic(t) => Deepening(reg)[<<n, t>>] = Endless
<1>. DEFINE deep == Deepening(reg)
            S == {p \in (0..Fuel(reg)) \X AllTypes : Cyclic(p[2]) => deep[p] = Endless}
<1>1. ASSUME NEW n \in 0..Fuel(reg), NEW t \in AllTypes,
             IsAlias(reg, t) /\ n # 0 => <<n - 1, reg.aliases[t[2]]>> \in S,
             \A u \in TypeParts(t) : <<n, u>> \in S
      PROVE  <<n, t>> \in S
  <2>. SUFFICES ASSUME Cyclic(t) PROVE deep[<<n, t>>] = Endless
    OBVIOUS
  <2>1. PICK a \in Reached(t) : OnCycle(a)
    BY DEF Cyclic
  <2>2. CASE IsAlias(reg, t)
    <3>1. Reached(t) = {t[2]} \cup Reached(reg.aliases[t[2]])
      BY <2>2, ReachedAlias
    <3>2. a \in Reached(reg.aliases[t[2]])
      BY <2>1, <3>1 DEF OnCycle
    <3>3. Cyclic(reg.aliases[t[2]])
      BY <2>1, <3>2 DEF Cyclic
    <3>4. n # 0 => deep[<<n - 1, reg.aliases[t[2]]>>] = Endless
      BY <1>1, <2>2, <3>3
    <3>. QED BY <2>2, <3>4, DeepSteps
  <2>3. CASE ~IsAlias(reg, t)
    <3>1. PICK u \in TypeParts(t) : a \in Reached(u)
      BY <2>1, <2>3, ReachedParts
    <3>2. Cyclic(u)
      BY <2>1, <3>1 DEF Cyclic
    <3>3. deep[<<n, u>>] = Endless
      BY <1>1, <3>1, <3>2
    <3>. QED BY <2>3, <3>1, <3>3, DeepSteps
  <2>. QED BY <2>2, <2>3
<1>. HIDE DEF S
<1>2. (0..Fuel(reg)) \X AllTypes \subseteq S
  BY <1>1, DeepInduction
<1>3. \A n \in 0..Fuel(reg), t \in AllTypes : <<n, t>> \in S
  BY <1>2
<1>. QED BY <1>3 DEF S

(* Without one, each step that is used reaches one alias less. *)
LEMMA EndlessReachesMuch ==
    ASSUME GoodReg(reg)
    PROVE  \A n \in 0..Fuel(reg), t \in AllTypes :
               ~Cyclic(t) /\ Deepening(reg)[<<n, t>>] = Endless => Cardinality(Reached(t)) > n
<1>. DEFINE deep == Deepening(reg)
            S == {p \in (0..Fuel(reg)) \X AllTypes :
                     ~Cyclic(p[2]) /\ deep[p] = Endless => Cardinality(Reached(p[2])) > p[1]}
<1>0. Fuel(reg) \in Nat /\ IsFiniteSet(DOMAIN reg.aliases)
  BY FuelNat DEF GoodReg
<1>1. \A t \in AllTypes : IsFiniteSet(Reached(t)) /\ Cardinality(Reached(t)) \in Nat
  BY <1>0, ReachedLeast, FS_Subset, FS_CardinalityType
<1>2. ASSUME NEW n \in 0..Fuel(reg), NEW t \in AllTypes,
             IsAlias(reg, t) /\ n # 0 => <<n - 1, reg.aliases[t[2]]>> \in S,
             \A u \in TypeParts(t) : <<n, u>> \in S
      PROVE  <<n, t>> \in S
  <2>. SUFFICES ASSUME ~Cyclic(t), deep[<<n, t>>] = Endless
                PROVE  Cardinality(Reached(t)) > n
    OBVIOUS
  <2>1. CASE IsAlias(reg, t)
    <3>. DEFINE u == reg.aliases[t[2]]
    <3>1. u \in AllTypes /\ Reached(t) = {t[2]} \cup Reached(u)
      BY <2>1, ReachedAlias
    <3>2. t[2] \notin Reached(u)
      BY <3>1 DEF Cyclic, OnCycle
    <3>3. Cardinality(Reached(t)) = Cardinality(Reached(u)) + 1
      <4>1. Reached(t) = Reached(u) \cup {t[2]} /\ IsFiniteSet(Reached(u))
        BY <3>1, <1>1
      <4>. HIDE DEF u
      <4>. QED BY <4>1, <3>2, FS_AddElement
    <3>4. CASE n = 0
      BY <3>1, <3>3, <3>4, <1>1
    <3>5. CASE n # 0
      <4>1. ~Cyclic(u)
        BY <3>1 DEF Cyclic
      <4>2. deep[<<n - 1, u>>] = Endless
        BY <2>1, <3>5, DeepSteps
      <4>3. Cardinality(Reached(u)) > n - 1
        BY <4>1, <4>2, <1>2, <2>1, <3>5
      <4>. HIDE DEF u
      <4>. QED BY <4>3, <3>1, <3>3, <1>1, <1>0
    <3>. QED BY <3>4, <3>5
  <2>2. CASE ~IsAlias(reg, t)
    <3>1. PICK u \in TypeParts(t) : deep[<<n, u>>] = Endless
      BY <2>2, DeepSteps
    <3>2. u \in AllTypes /\ Reached(u) \subseteq Reached(t)
      BY <2>2, ReachedParts, TypePartsBelow
    <3>3. ~Cyclic(u)
      BY <3>2 DEF Cyclic
    <3>4. Cardinality(Reached(u)) > n
      BY <3>1, <3>3, <1>2
    <3>5. Cardinality(Reached(u)) <= Cardinality(Reached(t))
      BY <3>2, <1>1, FS_Subset
    <3>. QED BY <3>2, <3>4, <3>5, <1>0, <1>1
  <2>. QED BY <2>1, <2>2
<1>. HIDE DEF S
<1>3. (0..Fuel(reg)) \X AllTypes \subseteq S
  BY <1>2, DeepInduction
<1>4. \A n \in 0..Fuel(reg), t \in AllTypes : <<n, t>> \in S
  BY <1>3
<1>. QED BY <1>4 DEF S

(* No alias is left at any level of a result. *)
LEMMA ResultsHaveNoAlias ==
    ASSUME GoodReg(reg)
    PROVE  \A n \in 0..Fuel(reg), t \in AllTypes :
               Deepening(reg)[<<n, t>>] # Endless => AliasesIn(Deepening(reg)[<<n, t>>]) = {}
<1>. DEFINE deep == Deepening(reg)
            Clean(d, k) == \A a \in DOMAIN reg.aliases : ResourceT(a) \notin Level(d, k)
            S == {p \in (0..Fuel(reg)) \X AllTypes :
                     deep[p] # Endless => \A k \in 0..MaxDepth : Clean(deep[p], k)}
<1>0. MaxDepth \in Nat
  BY FuelNat
<1>1. ASSUME NEW n \in 0..Fuel(reg), NEW t \in AllTypes,
             IsAlias(reg, t) /\ n # 0 => <<n - 1, reg.aliases[t[2]]>> \in S,
             \A u \in TypeParts(t) : <<n, u>> \in S
      PROVE  <<n, t>> \in S
  <2>. SUFFICES ASSUME deep[<<n, t>>] # Endless, NEW k \in 0..MaxDepth
                PROVE  Clean(deep[<<n, t>>], k)
    OBVIOUS
  <2>1. CASE IsAlias(reg, t)
    <3>1. n # 0 /\ deep[<<n, t>>] = deep[<<n - 1, reg.aliases[t[2]]>>]
      BY <2>1, DeepSteps
    <3>2. <<n - 1, reg.aliases[t[2]]>> \in S
      BY <1>1, <2>1, <3>1
    <3>. HIDE DEF Clean, deep
    <3>. QED BY <3>1, <3>2
  <2>2. CASE ~IsAlias(reg, t)
    <3>. DEFINE d == deep[<<n, t>>]
    <3>1. /\ \A u \in TypeParts(t) : deep[<<n, u>>] # Endless
          /\ TypeParts(d) = {deep[<<n, u>>] : u \in TypeParts(t)}
          /\ \A a \in DOMAIN reg.aliases : d # ResourceT(a)
      BY <2>2, DeepSteps
    <3>2. CASE k = 0
      <4>1. Level(d, 0) = {d}
        BY <1>0, LevelUnfolds
      <4>. HIDE DEF d
      <4>2. Clean(d, 0)
        BY <3>1, <4>1
      <4>. QED BY <4>2, <3>2 DEF d
    <3>3. CASE k # 0
      <4>. DEFINE j == k - 1
      <4>1. j \in 0..MaxDepth - 1 /\ j \in 0..MaxDepth /\ j + 1 = k
        BY <3>3, <1>0
      <4>. HIDE DEF d, j
      <4>2. Level(d, j + 1) = UNION {Level(x, j) : x \in TypeParts(d)}
        BY <4>1, <1>0, LevelShift
      <4>3. ASSUME NEW x \in TypeParts(d) PROVE Clean(x, j)
        <5>1. PICK u \in TypeParts(t) : x = deep[<<n, u>>]
          BY <3>1
        <5>2. <<n, u>> \in S /\ deep[<<n, u>>] # Endless
          BY <1>1, <3>1
        <5>. HIDE DEF Clean, deep
        <5>. QED BY <5>1, <5>2, <4>1
      <4>4. Clean(d, j + 1)
        BY <4>2, <4>3
      <4>. QED BY <4>1, <4>4 DEF d
    <3>. QED BY <3>2, <3>3
  <2>. QED BY <2>1, <2>2
<1>. HIDE DEF S
<1>2. (0..Fuel(reg)) \X AllTypes \subseteq S
  BY <1>1, DeepInduction
<1>3. \A n \in 0..Fuel(reg), t \in AllTypes : <<n, t>> \in S
  BY <1>2
<1>. QED BY <1>3 DEF S, AliasesIn

-----------------------------------------------------------------------------
(* The registry: finitely many aliases, of types of the program. *)
RegistryIsGood ==
    /\ reg = [aliases |-> reg.aliases, resources |-> reg.resources]
    /\ GoodReg(reg)

LEMMA InitRegistry ==
    ASSUME Init
    PROVE  RegistryIsGood
<1>1. reg = [aliases |-> <<>>, resources |-> Resources]
  BY DEF Init
<1>2. reg.aliases = <<>> /\ reg.resources = Resources /\ DOMAIN reg.aliases = {}
  BY <1>1
<1>. QED BY <1>1, <1>2, FS_EmptySet DEF RegistryIsGood, GoodReg

LEMMA NextRegistry ==
    ASSUME RegistryIsGood, [Next]_vars
    PROVE  RegistryIsGood'
<1>1. ASSUME NEW name, NEW type \in Types, DeclareAlias(name, type) PROVE RegistryIsGood'
  <2>. DEFINE new == Assign(reg.aliases, name, type)
  <2>1. reg' = [aliases |-> new, resources |-> reg.resources]
    BY <1>1 DEF DeclareAlias, RegisterAlias, RegistryIsGood
  <2>2. reg'.aliases = new /\ reg'.resources = reg.resources
    BY <2>1
  <2>3. DOMAIN new = DOMAIN reg.aliases \cup {name}
    BY DEF Assign
  <2>4. \A a \in DOMAIN new : new[a] \in AllTypes
    BY TypingConstants DEF Assign, RegistryIsGood, GoodReg
  <2>. HIDE DEF new
  <2>5. IsFiniteSet(DOMAIN new)
    BY <2>3, FS_AddElement DEF RegistryIsGood, GoodReg
  <2>. QED BY <2>1, <2>2, <2>4, <2>5 DEF RegistryIsGood, GoodReg
<1>2. CASE reg' = reg
  BY <1>2 DEF RegistryIsGood, GoodReg
<1>. QED BY <1>1, <1>2 DEF Next, vars, BeginBody, Let, Fail, ChooseOne, ReadJson, Require, Return

(***************************************************************************)
(* resolve_type_deep: it ends exactly for types that reach no cycle of     *)
(* aliases, and leaves no alias behind, whatever has been declared.        *)
(***************************************************************************)
THEOREM AliasesAlwaysResolve == Spec => []AliasesResolve
<1>1. Init => RegistryIsGood
  BY InitRegistry
<1>2. RegistryIsGood /\ [Next]_vars => RegistryIsGood'
  BY NextRegistry
<1>3. RegistryIsGood => AliasesResolve
  <2>. SUFFICES ASSUME GoodReg(reg), NEW t \in Types
                PROVE  LET deep == ResolveTypeDeep(reg, t)
                       IN  IF Cyclic(t) THEN deep = Endless
                           ELSE deep # Endless /\ AliasesIn(deep) = {}
    BY DEF AliasesResolve, RegistryIsGood, Cyclic
  <2>. DEFINE n == Fuel(reg)
              deep == Deepening(reg)[<<n, t>>]
  <2>1. n \in 0..n /\ n \in Nat /\ t \in AllTypes
    BY FuelNat, TypingConstants
  <2>2. Cyclic(t) => deep = Endless
    BY <2>1, CyclesAreEndless
  <2>3. ~Cyclic(t) => deep # Endless
    <3>. SUFFICES ASSUME ~Cyclic(t), deep = Endless PROVE FALSE
      OBVIOUS
    <3>1. Cardinality(Reached(t)) > n
      BY <2>1, EndlessReachesMuch
    <3>2. IsFiniteSet(DOMAIN reg.aliases) /\ Reached(t) \subseteq DOMAIN reg.aliases
      BY <2>1, ReachedLeast DEF GoodReg
    <3>3. Cardinality(Reached(t)) <= Cardinality(DOMAIN reg.aliases)
          /\ Cardinality(Reached(t)) \in Nat
      BY <3>2, FS_Subset, FS_CardinalityType
    <3>4. n = Cardinality(DOMAIN reg.aliases)
      BY DEF Fuel
    <3>. HIDE DEF n
    <3>. QED BY <2>1, <3>1, <3>3, <3>4
  <2>4. deep # Endless => AliasesIn(deep) = {}
    BY <2>1, ResultsHaveNoAlias
  <2>. QED BY <2>2, <2>3, <2>4 DEF ResolveTypeDeep
<1>. QED BY <1>1, <1>2, <1>3, PTL DEF Spec
=============================================================================
