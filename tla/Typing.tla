------------------------------- MODULE Typing -------------------------------
(***************************************************************************)
(* The body of an operation or a function: checked (pipeline.rs) and       *)
(* executed (execute.rs), statement by statement.  A program is checked as *)
(* a whole before it runs; a step here is both, so that a state shows what *)
(* the checker and the run know after the same statements.  The program is *)
(* open: any statement the checker accepts may come next.  Effects on      *)
(* machines are left to Bodies.                                            *)
(***************************************************************************)
EXTENDS TypeChecker, Conditions

CONSTANTS Locals,       \* variable names
          Aliases,      \* names that may be declared as aliases
          Types,        \* types that are declared as aliases
          Written,      \* types that are written in a body
          Params,       \* sets of names that are parameters of a body
          Inits,        \* initial values of let
          Exprs,        \* expressions a body may use
          Preds,        \* predicates a body may require
          ReadValues,   \* what a transport may read
          Contexts,     \* execution contexts a body may start in
          Resources,    \* declared resource types and their fields
          MaxSteps      \* bound: aliases declared and statements executed

ASSUME TypingConstants ==
    /\ MaxSteps \in Nat
    /\ Exprs \cup Inits \subseteq AllExprs
    /\ Preds \subseteq AllPreds
    /\ Types \cup Written \subseteq AllTypes
    /\ \A c \in Contexts :
          /\ c = [scopes |-> c.scopes, registry |-> c.registry,
                  machines |-> c.machines, sets |-> c.sets]
          /\ c.scopes \in Seq(Range(c.scopes)) /\ c.scopes # <<>>

VARIABLES reg,      \* TypeRegistry
          env,      \* TyEnv of the body; empty before it begins
          ctx,      \* ExecutionContext
          loose,    \* history: names whose value the checker has not seen
          phase,    \* "declare", "body", "over" or "failed"
          steps     \* aliases declared and statements executed

vars == <<reg, env, ctx, loose, phase, steps>>

Init ==
    /\ reg = [aliases |-> <<>>, resources |-> Resources]
    /\ env = <<>>
    /\ ctx \in Contexts
    /\ loose = {}
    /\ phase = "declare"
    /\ steps = 0

Step == steps < MaxSteps /\ steps' = steps + 1

DeclareAlias(name, type) ==
    /\ phase = "declare" /\ Step
    /\ reg' = RegisterAlias(reg, name, type)
    /\ UNCHANGED <<env, ctx, loose, phase>>

(* Parameters get their types as they are written, and no value. *)
BeginBody(params) ==
    /\ phase = "declare"
    /\ env' = ChildEnv(<<params>>)
    /\ loose' = DOMAIN params
    /\ phase' = "body"
    /\ UNCHANGED <<reg, ctx, steps>>

InBody == phase = "body"

Fail == phase' = "failed" /\ UNCHANGED <<reg, env, ctx, loose>>

TypeOf(e) == CheckExpr(env, reg, e)

(* Expressions the checker is right about: those without fields, indices and calls,   *)
(* with variables whose value it has seen, that add numbers of one type, subtract,    *)
(* multiply, divide and negate Int, and order numbers or truth values.                *)
PlainHere(e) ==
    /\ e[1] \in {"Lit", "Template", "Var", "Struct", "BinOp", "UnOp"}
    /\ e[1] = "Var" => e[2] \notin loose
    /\ e[1] = "BinOp" =>
          /\ e[2] \in OrderOps =>
                {TypeOf(e[3]), TypeOf(e[4])} \subseteq
                    {Ok(Prim("Int")), Ok(Prim("Bytes")), Ok(Prim("Bool"))}
          /\ e[2] = "+" => TypeOf(e[3]) = TypeOf(e[4])
          /\ e[2] \in {"-", "*", "/"} => TypeOf(e[3]) = Ok(Prim("Int"))
    /\ e[1] = "UnOp" /\ e[2] = "-" => TypeOf(e[3]) = Ok(Prim("Int"))

Plain(e) == \A x \in Inside[e] : PlainHere(x)

(* let: a binding without an initial value binds nothing when it runs. *)
Let(name, type, init) ==
    /\ InBody /\ Step
    /\ IsOk(CheckLet(env, reg, type, init))
    /\ IF init # NoInit /\ ~IsOk(Eval(ctx, init)) THEN Fail
       ELSE /\ env' = AddName(env, name, CheckLet(env, reg, type, init)[2])
            /\ ctx' = IF init = NoInit THEN ctx ELSE Bind(ctx, name, Eval(ctx, init)[2])
            /\ loose' = IF type = Untyped /\ Plain(init) THEN loose \ {name}
                         ELSE loose \cup {name}
            /\ UNCHANGED <<reg, phase>>

(* choose: a placeholder, named after the type. *)
ChooseOne(name, type) ==
    /\ InBody /\ Step
    /\ ResolveType(reg, type) # Endless
    /\ env' = AddName(env, name, type)
    /\ ctx' = Bind(ctx, name, ResourceV(TypeShown(type), <<>>))
    /\ loose' = loose \cup {name}
    /\ UNCHANGED <<reg, phase>>

(* read json: the checker does not hear of the variable. *)
ReadJson(name, value) ==
    /\ InBody /\ Step
    /\ ctx' = Bind(ctx, name, value)
    /\ loose' = loose \cup {name}
    /\ UNCHANGED <<reg, env, phase>>

(* require: conditions are not checked before they run. *)
Require(pred) ==
    /\ InBody
    /\ phase' = IF EvalCondition(ctx, <<pred>>) = Ok(TRUE) THEN phase ELSE "failed"
    /\ UNCHANGED <<reg, env, ctx, loose, steps>>

(* return, and the arguments of the last exec or transfer. *)
Return(e) ==
    /\ InBody
    /\ IsOk(CheckExpr(env, reg, e))
    /\ phase' = IF IsOk(Eval(ctx, e)) THEN "over" ELSE "failed"
    /\ UNCHANGED <<reg, env, ctx, loose, steps>>

Next ==
    \/ \E name \in Aliases, type \in Types : DeclareAlias(name, type)
    \/ \E P \in Params, type \in Written : BeginBody([p \in P |-> type])
    \/ \E name \in Locals, type \in Written \cup {Untyped}, init \in Inits \cup {NoInit} :
            Let(name, type, init)
    \/ \E name \in Locals, type \in Written : ChooseOne(name, type)
    \/ \E name \in Locals, value \in ReadValues : ReadJson(name, value)
    \/ \E pred \in Preds : Require(pred)
    \/ \E e \in Exprs : Return(e)

Spec == Init /\ [][Next]_vars

-----------------------------------------------------------------------------
(* What the properties are about. *)

(* A call may return anything, and so may its JSON be anything. *)
HasType(v, type) == type = Prim("JSON") \/ Prim(TypeName(v)) = type

(* Faults that no type shows: the panic is that of the one quotient that does not fit. *)
Faults == {Err("DivisionByZero"), Err("IntegerOverflow"), Panic}

(***************************************************************************)
(* check_expr and eval_expr: what the checker says of an expression it is  *)
(* right about is what the run does: a value of that type, or one of the   *)
(* faults no type shows, never an unknown name or an operand of a wrong    *)
(* type, whatever the statements before it have bound.                     *)
(***************************************************************************)
ChecksSuffice ==
    InBody => \A e \in Exprs :
        Plain(e) /\ IsOk(TypeOf(e)) =>
            \/ Eval(ctx, e) \in Faults
            \/ IsOk(Eval(ctx, e)) /\ HasType(Eval(ctx, e)[2], TypeOf(e)[2])

(***************************************************************************)
(* resolve_type_deep: it ends exactly for types that reach no cycle of     *)
(* aliases, and then no alias is left inside the type.                     *)
(***************************************************************************)
(* No type is deeper than its aliases make it. *)
MaxDepth == (Fuel(reg) + 1) * (MaxNesting + 1)

Level(type, depth) ==
    LET level[n \in 0..MaxDepth] ==
            IF n = 0 THEN {type} ELSE UNION {TypeParts(t) : t \in level[n - 1]}
    IN  level[depth]

AliasesIn(type) ==
    {a \in DOMAIN reg.aliases : \E n \in 0..MaxDepth : ResourceT(a) \in Level(type, n)}

(* The aliases in a type, those in the types they stand for, and so on. *)
Closed(names) == \A a \in names : AliasesIn(reg.aliases[a]) \subseteq names

Reached(type) ==
    {a \in DOMAIN reg.aliases :
        \A names \in SUBSET DOMAIN reg.aliases :
            AliasesIn(type) \subseteq names /\ Closed(names) => a \in names}

OnCycle(a) == a \in Reached(reg.aliases[a])

AliasesResolve ==
    \A type \in Types :
        LET deep == ResolveTypeDeep(reg, type)
        IN  IF \E a \in Reached(type) : OnCycle(a) THEN deep = Endless
            ELSE deep # Endless /\ AliasesIn(deep) = {}

(***************************************************************************)
(* The two evaluators of conditions agree where the documentation gives    *)
(* them one meaning: on prefixes, suffixes, sets of machines and existence *)
(* of expressions the checker is right about, in contexts that hold the    *)
(* same values, whenever the execution side has an answer.  (They part on  *)
(* `is`, `can`, `matches` and a dropped prefix one of the two strings      *)
(* lacks, on orders and differences of bytes, and on unknown names.)       *)
(***************************************************************************)
Scalars == {"Null", "Bool", "Int", "Bytes", "String"}

KnownNames == {name \in Locals : Bound(ctx, name) /\ TypeName(Lookup(ctx, name)) \in Scalars}

PolicyContext ==
    [variables |-> [name \in KnownNames |-> Lookup(ctx, name)],
     roles |-> {}, resources |-> {}, sets |-> ctx.sets]

(* Operands of orders and arithmetic are Int on both sides, sums aside. *)
SharedHere(e) ==
    /\ e[1] \in {"Lit", "Var", "BinOp", "UnOp"}
    /\ e[1] = "Var" => e[2] \in KnownNames
    /\ e[1] = "BinOp" /\ e[2] \in OrderOps \cup (ArithmeticOps \ {"+"}) =>
          \A i \in {3, 4} : IsOk(Eval(ctx, e[i])) => Is(Eval(ctx, e[i])[2], "Int")

Shared(e) == \A x \in Inside[e] : SharedHere(x)

Prefixed(e, prefix) ==
    LET r == Eval(ctx, e) IN IsOk(r) => Is(r[2], "String") /\ StartsWith(r[2][2], prefix)

SharedPredHere(p) ==
    /\ p[1] \in {"StartsWith", "EndsWith", "Exists", "InSet", "DropPrefixEq", "Not", "And", "Or"}
    /\ \A e \in ToSet(PredExprs(p)) :
          /\ Shared(e)
          /\ p[1] = "DropPrefixEq" => Prefixed(e, p[2])
          /\ p[1] = "InSet" /\ IsOk(Eval(ctx, e)) => Is(Eval(ctx, e)[2], "String")

SharedPred(p) == \A q \in PredsInside[p] : SharedPredHere(q)

EvaluatorsAgree ==
    InBody => \A p \in Preds :
        SharedPred(p) /\ IsOk(EvalConditionPred(ctx, p)) =>
            EvaluatePred(PolicyContext, p) = EvalConditionPred(ctx, p)
=============================================================================
