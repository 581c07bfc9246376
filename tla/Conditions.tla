----------------------------- MODULE Conditions -----------------------------
(***************************************************************************)
(* Conditions, and the two evaluators the code has for them: that of the   *)
(* policy side (ty.rs, ConditionEvaluator), in a context of condition      *)
(* values, and that of the execution side (execute.rs,                     *)
(* eval_condition_pred), in an execution context.                          *)
(*                                                                         *)
(* An evaluation context is a record: `variables` maps names to condition  *)
(* values, `roles` and `resources` are the known names, `sets` maps names  *)
(* to sets of names.  A condition value is a runtime value without         *)
(* structure, a named Node, Role or Resource, or a JSON document.          *)
(***************************************************************************)
EXTENDS Expressions

CONSTANTS AllPreds,     \* the predicates of the program, with their parts
          LowerCase     \* lower-case form of the names that have capitals

(* The expressions of a predicate, in the order of their evaluation, and its parts. *)
PredExprs(p) ==
    CASE p[1] \in {"Is", "StartsWith", "EndsWith", "InSet", "Exists", "Matches"} -> <<p[2]>>
      [] p[1] = "DropPrefixEq" -> <<p[3], p[4]>>
      [] OTHER -> <<>>

PredParts(p) ==
    CASE p[1] = "Not" -> <<p[2]>>
      [] p[1] \in {"And", "Or"} -> <<p[2], p[3]>>
      [] OTHER -> <<>>

ASSUME PredicatesAreTrees ==
    \A p \in AllPreds :
        /\ Nesting(p) \in 0..MaxNesting
        /\ PredExprs(p) \in Seq(AllExprs)
        /\ PredParts(p) \in Seq({q \in AllPreds : Nesting(q) < Nesting(p)})

(* A predicate and all predicates inside of it. *)
PredsInside[p \in AllPreds] == {p} \cup UNION {PredsInside[q] : q \in ToSet(PredParts(p))}

NodeV(name) == <<"Node", name>>
RoleV(name) == <<"Role", name>>
NamedV(name) == <<"Resource", name>>
JsonV(doc) == <<"JSON", doc>>

-----------------------------------------------------------------------------
(* A pattern of letters, `*` and `?` against the whole of a string: match[i, j] is *)
(* about what is left of them after i and j letters.                              *)
GlobMatch(pattern, s) ==
    LET Letter(i) == SubSeq(pattern, i + 1, i + 1)
        match[i \in 0..Len(pattern), j \in 0..Len(s)] ==
            IF i = Len(pattern) THEN j = Len(s)
            ELSE IF Letter(i) = "*" THEN \E k \in j..Len(s) : match[i + 1, k]
            ELSE /\ j < Len(s)
                 /\ Letter(i) \in {"?", SubSeq(s, j + 1, j + 1)}
                 /\ match[i + 1, j + 1]
    IN  match[0, 0]

-----------------------------------------------------------------------------
(* Condition values. *)
Names(v) == TypeName(v) \in {"String", "Node", "Role", "Resource"}

CondTruthy(v) ==
    CASE TypeName(v) \in {"Node", "Role", "Resource"} -> TRUE
      [] Is(v, "JSON") -> v[2] # <<"null">>
      [] OTHER -> Truthy(v)

JsonToCond(doc) ==
    CASE doc[1] = "null" -> Null
      [] doc[1] = "bool" -> BoolV(doc[2])
      [] doc[1] = "number" -> IntV(doc[2])
      [] doc[1] = "string" -> StringV(doc[2])
      [] OTHER -> JsonV(doc)              \* floats, arrays and objects

CondField(target, field) ==
    CASE Is(target, "Resource") -> StringV(target[2] \o "." \o field)
      [] Is(target, "JSON") /\ target[2][1] = "object" ->
            IF field \in DOMAIN target[2][2] THEN JsonToCond(target[2][2][field]) ELSE Null
      [] OTHER -> Null

CondOrder(l, r, Holds(_, _)) == BoolV(Both(l, r, "Int") /\ Holds(l[2], r[2]))

CondPlus(l, r) == IF IsOk(RuntimeAdd(l, r)) THEN RuntimeAdd(l, r)[2] ELSE Null

CondMinus(l, r) ==
    CASE Both(l, r, "Int") -> IntV(Signed(l[2] - r[2]))
      [] Both(l, r, "Bytes") -> BytesV(IF l[2] > r[2] THEN l[2] - r[2] ELSE 0)
      [] OTHER -> Null

CondMul(l, r) ==
    CASE Both(l, r, "Int") -> IntV(Signed(l[2] * r[2]))
      [] Is(l, "Bytes") /\ Is(r, "Int") -> BytesV(Unsigned(l[2] * r[2]))
      [] OTHER -> Null

CondDiv(l, r) ==
    IF ~Both(l, r, "Int") \/ r[2] = 0 THEN Ok(Null) ELSE Divide(l[2], r[2])

(* No operand is an error: what does not fit is Null, and an order that is none is false. *)
CondBinop(op, l, r) ==
    CASE op = "==" -> Ok(BoolV(l = r))
      [] op = "!=" -> Ok(BoolV(l # r))
      [] op = "<" -> Ok(CondOrder(l, r, LAMBDA x, y : x < y))
      [] op = "<=" -> Ok(CondOrder(l, r, LAMBDA x, y : x <= y))
      [] op = ">" -> Ok(CondOrder(l, r, LAMBDA x, y : x > y))
      [] op = ">=" -> Ok(CondOrder(l, r, LAMBDA x, y : x >= y))
      [] op = "and" -> Ok(BoolV(CondTruthy(l) /\ CondTruthy(r)))
      [] op = "or" -> Ok(BoolV(CondTruthy(l) \/ CondTruthy(r)))
      [] op = "+" -> Ok(CondPlus(l, r))
      [] op = "-" -> Ok(CondMinus(l, r))
      [] op = "*" -> Ok(CondMul(l, r))
      [] op = "/" -> CondDiv(l, r)

CondUnop(op, v) ==
    CASE op = "not" -> BoolV(~CondTruthy(v))
      [] op = "-" -> IF Is(v, "Int") THEN IntV(Signed(-v[2])) ELSE Null

(* eval_expr_to_value.  Structs, indices, calls and choices have no value here, nor *)
(* are their operands asked; a template is taken as it is written.                 *)
CondOperands(e) == IF e[1] \in {"Field", "BinOp", "UnOp"} THEN Operands(e) ELSE <<>>

CondOutcome(c, e, vs) ==
    CASE e[1] = "Lit" -> Ok(LitToRuntime(e[2]))
      [] e[1] = "Var" -> Ok(IF e[2] \in DOMAIN c.variables THEN c.variables[e[2]] ELSE Null)
      [] e[1] = "Field" -> Ok(CondField(vs[1], e[3]))
      [] e[1] = "BinOp" -> CondBinop(e[2], vs[1], vs[2])
      [] e[1] = "UnOp" -> Ok(CondUnop(e[2], vs[1]))
      [] e[1] = "Template" ->
            Ok(StringV(FoldLeft(LAMBDA acc, part : acc \o part[2], "", e[2])))
      [] OTHER -> Ok(Null)

CondEvaluation(c) ==
    LET eval[e \in AllExprs] ==
            Then(All(eval, CondOperands(e)), LAMBDA vs : CondOutcome(c, e, vs))
    IN  eval

CondEval(c, e) == CondEvaluation(c)[e]

-----------------------------------------------------------------------------
(* Not, And and Or of results; the second predicate counts only when it is asked. *)
Connected(p, judge) ==
    Then(judge[p[2]],
         LAMBDA b : CASE p[1] = "Not" -> Ok(~b)
                      [] p[1] = "And" -> IF b THEN judge[p[3]] ELSE Ok(b)
                      [] p[1] = "Or" -> IF b THEN Ok(b) ELSE judge[p[3]])

-----------------------------------------------------------------------------
(* The policy side. *)

(* The kind of a role reference makes no difference, and every known role passes. *)
EvalIs(c, v, roles) ==
    Names(v) /\ \E i \in DOMAIN roles : v[2] = roles[i][2] \/ v[2] \in c.roles

EvalCan(c, op, pattern) ==
    IF pattern # NoPattern THEN pattern[1] \in c.resources
    ELSE LET name == IF op \in DOMAIN LowerCase THEN LowerCase[op] ELSE op
         IN  StartsWith(name, "can_") \/ name = "all"

(* Option<&str>: two strings without the prefix are equal, whatever they are. *)
EvalDropPrefixEq(prefix, l, r) ==
    /\ Names(l) /\ Names(r)
    /\ StartsWith(l[2], prefix) = StartsWith(r[2], prefix)
    /\ StartsWith(l[2], prefix) => After(l[2], Len(prefix)) = After(r[2], Len(prefix))

EvalInSet(c, v, set) ==
    /\ Names(v) \/ Is(v, "Int")
    /\ set \in DOMAIN c.sets
    /\ (IF Is(v, "Int") THEN ToString(v[2]) ELSE v[2]) \in c.sets[set]

(* A predicate without parts, whose expressions have the values vs. *)
PolicyHolds(c, p, vs) ==
    CASE p[1] = "Is" -> EvalIs(c, vs[1], p[3])
      [] p[1] = "Can" -> EvalCan(c, p[2], p[3])
      [] p[1] = "StartsWith" -> Is(vs[1], "String") /\ StartsWith(vs[1][2], p[3])
      [] p[1] = "EndsWith" -> Is(vs[1], "String") /\ EndsWith(vs[1][2], p[3])
      [] p[1] = "DropPrefixEq" -> EvalDropPrefixEq(p[2], vs[1], vs[2])
      [] p[1] = "InSet" -> EvalInSet(c, vs[1], p[3])
      [] p[1] = "Exists" -> CondTruthy(vs[1])
      [] p[1] = "Matches" -> Is(vs[1], "String") /\ GlobMatch(p[3], vs[1][2])

PolicyJudgement(c) ==
    LET judge[p \in AllPreds] ==
            IF PredParts(p) # <<>> THEN Connected(p, judge)
            ELSE Then(All(CondEvaluation(c), PredExprs(p)), LAMBDA vs : Ok(PolicyHolds(c, p, vs)))
    IN  judge

EvaluatePred(c, p) == PolicyJudgement(c)[p]

-----------------------------------------------------------------------------
(* The execution side. *)
DropPrefix(s, prefix) == IF StartsWith(s, prefix) THEN After(s, Len(prefix)) ELSE s

(* A resource is what its type is; Role.down is nothing. *)
RunIs(v, roles) ==
    Is(v, "Resource") /\ \E i \in DOMAIN roles : roles[i][1] # "RoleDown" /\ roles[i][2] = v[2]

(* Mutant: the prefix is dropped from the left string only. *)
RunDropPrefixLeft(prefix, l, r) ==
    Both(l, r, "String") /\ DropPrefix(l[2], prefix) = r[2]

RunDropPrefixEq(prefix, l, r) ==
    Both(l, r, "String") /\ DropPrefix(l[2], prefix) = DropPrefix(r[2], prefix)

RunInSet(ctx, v, set) ==
    Is(v, "String") /\ set \in DOMAIN ctx.sets /\ v[2] \in ctx.sets[set]

RunHolds(ctx, p, vs) ==
    CASE p[1] = "Is" -> RunIs(vs[1], p[3])
      [] p[1] = "Can" -> TRUE
      [] p[1] = "StartsWith" -> Is(vs[1], "String") /\ StartsWith(vs[1][2], p[3])
      [] p[1] = "EndsWith" -> Is(vs[1], "String") /\ EndsWith(vs[1][2], p[3])
      [] p[1] = "DropPrefixEq" -> RunDropPrefixEq(p[2], vs[1], vs[2])
      [] p[1] = "InSet" -> RunInSet(ctx, vs[1], p[3])
      [] p[1] = "Exists" -> Truthy(vs[1])
      [] p[1] = "Matches" -> Is(vs[1], "String") /\ HasSubstring(vs[1][2], p[3])

RunJudgement(ctx) ==
    LET judge[p \in AllPreds] ==
            IF PredParts(p) # <<>> THEN Connected(p, judge)
            ELSE Then(All(Evaluation(ctx), PredExprs(p)), LAMBDA vs : Ok(RunHolds(ctx, p, vs)))
    IN  judge

EvalConditionPred(ctx, p) == RunJudgement(ctx)[p]

(* A condition holds when all its predicates do, as far as they are asked. *)
EvalCondition(ctx, preds) ==
    FoldLeft(LAMBDA r, p : Then(r, LAMBDA b : IF b THEN EvalConditionPred(ctx, p) ELSE r),
             Ok(TRUE), preds)
=============================================================================
