---------------------------- MODULE Expressions ----------------------------
(***************************************************************************)
(* The evaluation of expressions in an execution context (execute.rs).  A  *)
(* context is a record: `scopes`, a sequence of maps from names to values, *)
(* the innermost last; `registry`, a map from resource names to resource   *)
(* values; `machines`, the names of the machines; `sets`, a map from names *)
(* to sets of machine names.                                               *)
(***************************************************************************)
EXTENDS Ast

CONSTANTS AllExprs,     \* the expressions of the program, with their operands
          Nesting(_),   \* how deep an expression, a predicate or a type is nested
          MaxNesting,   \* and how deep at most
          Shown(_)      \* the text of a value (module Displays)

FieldNames(e) == [i \in DOMAIN e[2] |-> e[2][i][1]]

(* The expressions an expression is made of, in the order of their evaluation. *)
Operands(e) ==
    CASE e[1] = "Struct" -> [i \in DOMAIN e[2] |-> e[2][i][2]]
      [] e[1] = "Field" -> <<e[2]>>
      [] e[1] = "Index" -> <<e[2], e[3]>>
      [] e[1] = "Call" -> e[3]
      [] e[1] = "BinOp" -> <<e[3], e[4]>>
      [] e[1] = "UnOp" -> <<e[3]>>
      [] OTHER -> <<>>

IsExpr(e) ==
    \/ e[1] = "Lit" /\ TypeName(e[2]) \in {"Bool", "Int", "Bytes", "String"}
    \/ e[1] \in {"Var", "Struct", "Field", "Index", "Call", "Template", "Choose"}
    \/ e[1] = "BinOp" /\ e[2] \in CompareOps \cup LogicOps \cup ArithmeticOps
    \/ e[1] = "UnOp" /\ e[2] \in {"not", "-"}

ASSUME ExpressionsAreTrees ==
    /\ MaxNesting \in Nat
    /\ \A e \in AllExprs :
          /\ IsExpr(e)
          /\ Nesting(e) \in 0..MaxNesting
          /\ Operands(e) \in Seq({x \in AllExprs : Nesting(x) < Nesting(e)})

(* An expression and all expressions inside of it. *)
Inside[e \in AllExprs] == {e} \cup UNION {Inside[x] : x \in ToSet(Operands(e))}

-----------------------------------------------------------------------------
(* The innermost scope that has the name. *)
ScopesWith(ctx, name) == {i \in DOMAIN ctx.scopes : name \in DOMAIN ctx.scopes[i]}

Bound(ctx, name) == ScopesWith(ctx, name) # {}

Lookup(ctx, name) == ctx.scopes[Max(ScopesWith(ctx, name))][name]

Assign(map, name, value) ==
    [n \in DOMAIN map \cup {name} |-> IF n = name THEN value ELSE map[n]]

Bind(ctx, name, value) == [ctx EXCEPT !.scopes[Len(ctx.scopes)] = Assign(@, name, value)]

EvalVar(ctx, name) ==
    CASE Bound(ctx, name) -> Ok(Lookup(ctx, name))
      [] ~Bound(ctx, name) /\ name \in DOMAIN ctx.registry -> Ok(ctx.registry[name])
      [] OTHER -> Err("UndefinedVariable")

LitToRuntime(lit) == IF Is(lit, "Bytes") THEN BytesV(lit[2]) ELSE lit

(* What a template shows for a part: references are looked up in the scopes only, *)
(* bytes are shown without their B, and an unknown name stays as it is written.   *)
Expanded(ctx, part) ==
    IF part[1] = "text" \/ ~Bound(ctx, part[3]) THEN part[2]
    ELSE LET v == Lookup(ctx, part[3])
         IN  IF Is(v, "Bytes") THEN ToString(v[2]) ELSE Shown(v)

EvalTemplate(ctx, parts) ==
    FoldLeft(LAMBDA acc, part : acc \o Expanded(ctx, part), "", parts)

GetField(target, field) ==
    IF Is(target, "Struct") THEN Member(target[2], field) ELSE Err("ExpectedStruct")

(* Of two fields with one name the later one stays. *)
MapOf(names, values) == FoldLeft(LAMBDA map, i : Assign(map, names[i], values[i]), <<>>,
                                 [i \in DOMAIN names |-> i])

EvalBuiltin(func, args, machines) ==
    IF func \in {"len", "exists", "to_int", "to_string"} /\ args = <<>> THEN Panic
    ELSE CASE func = "machines" -> Ok(ListV([i \in DOMAIN machines |-> StringV(machines[i])]))
           [] func = "range" -> BuiltinRange(args)
           [] func = "len" -> BuiltinLen(args[1])
           [] func = "exists" -> BuiltinExists(args[1])
           [] func = "to_int" -> BuiltinToInt(args[1])
           [] func = "to_string" -> Ok(StringV(Shown(args[1])))
           [] OTHER -> Err("UnknownBuiltin")

(* What an expression gives, once its operands have the values vs. *)
Outcome(ctx, e, vs) ==
    CASE e[1] = "Lit" -> Ok(LitToRuntime(e[2]))
      [] e[1] = "Var" -> EvalVar(ctx, e[2])
      [] e[1] = "Struct" -> Ok(StructV(MapOf(FieldNames(e), vs)))
      [] e[1] = "Field" -> GetField(vs[1], e[3])
      [] e[1] = "Index" -> IndexValue(vs[1], vs[2])
      [] e[1] = "Call" -> EvalBuiltin(e[2], vs, ctx.machines)
      [] e[1] = "BinOp" -> EvalBinop(e[2], vs[1], vs[2])
      [] e[1] = "UnOp" -> EvalUnop(e[2], vs[1])
      [] e[1] = "Template" -> Ok(StringV(EvalTemplate(ctx, e[2])))
      [] e[1] = "Choose" -> Err("ChooseNotAllowed")

(* The results of some expressions, given those of all (\o has TLC compute each once). *)
All(results, exprs) == Collect([i \in DOMAIN exprs |-> results[exprs[i]]] \o <<>>)

(* Operands and arguments are all evaluated, from left to right, `and` and `or` too. *)
Evaluation(ctx) ==
    LET eval[e \in AllExprs] ==
            Then(All(eval, Operands(e)), LAMBDA vs : Outcome(ctx, e, vs))
    IN  eval

Eval(ctx, e) == Evaluation(ctx)[e]
=============================================================================
