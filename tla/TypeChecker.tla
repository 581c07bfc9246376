---------------------------- MODULE TypeChecker ----------------------------
(***************************************************************************)
(* Types, aliases and the static check of expressions and let bindings     *)
(* (ty.rs).  `env` is a sequence of scopes like that of a context, `reg` a *)
(* record: `aliases` maps names to types, `resources` maps names to maps   *)
(* from fields to types (of two fields with one name the first counts).    *)
(***************************************************************************)
EXTENDS Expressions

CONSTANTS AllTypes,     \* the types of the program, with their parts
          TypeShown(_)  \* the text of a type (module Displays)

(* The types a type is made of. *)
TypeParts(type) ==
    CASE type[1] \in ListKinds \cup SetKinds -> {type[2]}
      [] type[1] \in MapKinds -> {type[2], type[3]}
      [] OTHER -> {}

(* Around a cycle of aliases the code recurses until its stack overflows. *)
Endless == <<"Endless">>

ASSUME TypesAreTrees ==
    \A type \in AllTypes :
        /\ type # Endless
        /\ type[1] = "Resource" => type = ResourceT(type[2])
        /\ Nesting(type) \in 0..MaxNesting
        /\ TypeParts(type) \subseteq {part \in AllTypes : Nesting(part) < Nesting(type)}

-----------------------------------------------------------------------------
(* Type environments: child() opens a scope, resolve() searches outwards. *)
InEnv(env, name) == \E i \in DOMAIN env : name \in DOMAIN env[i]

ResolveName(env, name) == env[Max({i \in DOMAIN env : name \in DOMAIN env[i]})][name]

AddName(env, name, type) == [env EXCEPT ![Len(env)] = Assign(@, name, type)]

ChildEnv(env) == Append(env, <<>>)

-----------------------------------------------------------------------------
(* An alias stands for a type that may be an alias.  More steps than there are *)
(* aliases go around a cycle.                                                   *)
RegisterAlias(reg, name, type) == [reg EXCEPT !.aliases = Assign(@, name, type)]

IsAlias(reg, type) == type[1] = "Resource" /\ type[2] \in DOMAIN reg.aliases

Fuel(reg) == Cardinality(DOMAIN reg.aliases)

ResolveType(reg, type) ==
    LET target[n \in Nat] ==
            IF n = 0 THEN type
            ELSE LET last == target[n - 1]
                 IN  IF IsAlias(reg, last) THEN reg.aliases[last[2]] ELSE last
    IN  IF IsAlias(reg, target[Fuel(reg)]) THEN Endless ELSE target[Fuel(reg)]

(* Inside a type expression, with n steps left, given the results for its parts *)
(* and those of one step less.                                                  *)
Deepened(reg, n, type, deep) ==
    IF IsAlias(reg, type)
    THEN IF n = 0 THEN Endless ELSE deep[<<n - 1, reg.aliases[type[2]]>>]
    ELSE IF \E part \in TypeParts(type) : deep[<<n, part>>] = Endless THEN Endless
    ELSE CASE type[1] \in MapKinds -> <<type[1], deep[<<n, type[2]>>], deep[<<n, type[3]>>]>>
           [] type[1] = "SizedList" -> <<type[1], deep[<<n, type[2]>>], type[3]>>
           [] type[1] \in (ListKinds \cup SetKinds) \ {"SizedList"} ->
                    <<type[1], deep[<<n, type[2]>>]>>
           [] OTHER -> type

Deepening(reg) ==
    LET deep[p \in (0..Fuel(reg)) \X AllTypes] == Deepened(reg, p[1], p[2], deep)
    IN  deep

(* Mutant: aliases are followed at the head of the type only. *)
ResolveTypeShallow(reg, type) == ResolveType(reg, type)

ResolveTypeDeep(reg, type) == Deepening(reg)[<<Fuel(reg), type>>]

IsResourceType(reg, type) == ResolveType(reg, type)[1] = "Resource"

-----------------------------------------------------------------------------
(* The check.  Types are compared as they are written, aliases are not followed. *)
IsNumeric(type) == type \in {Prim("Int"), Prim("Bytes")}

IsBool(type) == type = Prim("Bool")

Checked(type) == IF type = Endless THEN Endless ELSE Ok(type)

LitType(lit) == Prim(TypeName(lit))

FieldType(reg, type, field) ==
    LET resolved == ResolveType(reg, type)
    IN  CASE resolved = Endless -> Endless
          [] resolved # Endless /\ resolved[1] # "Resource" -> Err("UnknownVariable")
          [] resolved[1] = "Resource" /\ resolved[2] \in DOMAIN reg.resources
                /\ field \in DOMAIN reg.resources[resolved[2]] ->
                Checked(ResolveTypeDeep(reg, reg.resources[resolved[2]][field]))
          [] OTHER -> Err("UnknownField")

(* A set is indexed by its elements and says whether they are in it. *)
ElementType(reg, container, index) ==
    LET resolved == ResolveType(reg, container)
    IN  CASE resolved = Endless -> Endless
          [] resolved[1] \in ListKinds ->
                IF index = Prim("Int") THEN Checked(ResolveTypeDeep(reg, resolved[2]))
                ELSE Err("InvalidIndex")
          [] resolved[1] \in MapKinds ->
                IF index = resolved[2] THEN Checked(ResolveTypeDeep(reg, resolved[3]))
                ELSE Err("TypeMismatch")
          [] resolved[1] = "Set" ->
                IF index = resolved[2] THEN Ok(Prim("Bool")) ELSE Err("TypeMismatch")
          [] OTHER -> Err("InvalidIndex")

(* Mutant: only the left operand of an arithmetic operation is looked at. *)
BinOpTypeLeft(op, left, right) ==
    CASE op \in CompareOps -> Ok(Prim("Bool"))
      [] op \in LogicOps -> IF IsBool(left) THEN Ok(Prim("Bool")) ELSE Err("TypeMismatch")
      [] op \in ArithmeticOps -> IF IsNumeric(left) THEN Ok(left) ELSE Err("TypeMismatch")

(* The type of a sum is the type of its left operand. *)
BinOpType(op, left, right) ==
    CASE op \in CompareOps ->
            IF left = right \/ (IsNumeric(left) /\ IsNumeric(right)) THEN Ok(Prim("Bool"))
            ELSE Err("TypeMismatch")
      [] op \in LogicOps ->
            IF IsBool(left) /\ IsBool(right) THEN Ok(Prim("Bool")) ELSE Err("TypeMismatch")
      [] op \in ArithmeticOps ->
            IF IsNumeric(left) /\ IsNumeric(right) THEN Ok(left) ELSE Err("TypeMismatch")

UnOpType(op) == Ok(Prim(IF op = "not" THEN "Bool" ELSE "Int"))

(* The type of an expression whose operands have the types ts.  A call is never  *)
(* looked up: its type is JSON whatever its function returns.                     *)
TypeGiven(env, reg, e, ts) ==
    CASE e[1] = "Lit" -> Ok(LitType(e[2]))
      [] e[1] = "Var" ->
            IF InEnv(env, e[2]) THEN Ok(ResolveName(env, e[2])) ELSE Err("UnknownVariable")
      [] e[1] = "Field" -> FieldType(reg, ts[1], e[3])
      [] e[1] = "Index" -> ElementType(reg, ts[1], ts[2])
      [] e[1] \in {"Struct", "Call"} -> Ok(Prim("JSON"))
      [] e[1] = "BinOp" -> BinOpType(e[2], ts[1], ts[2])
      [] e[1] = "UnOp" -> UnOpType(e[2])
      [] e[1] = "Template" -> Ok(Prim("String"))
      [] e[1] = "Choose" -> Ok(Prim("Node"))

Checking(env, reg) ==
    LET check[e \in AllExprs] ==
            Then(All(check, Operands(e)), LAMBDA ts : TypeGiven(env, reg, e, ts))
    IN  check

CheckExpr(env, reg, e) == Checking(env, reg)[e]

(* A let with a type gets that type, and its initial value is not looked at. *)
Untyped == <<"none">>

NoInit == <<"none">>

CheckLet(env, reg, type, init) ==
    CASE type # Untyped -> Checked(ResolveTypeDeep(reg, type))
      [] type = Untyped /\ init = NoInit -> Err("MissingInit")
      [] OTHER -> CheckExpr(env, reg, init)
=============================================================================
