------------------------------ MODULE MCTyping ------------------------------
(* Instances of Typing for TLC. *)
EXTENDS Typing, Displays

MCTypes ==
    {Prim("Int"), ResourceT("A"), ListT(ResourceT("B")), MapT(Prim("String"), ResourceT("A"))}

MCWritten == {Prim("Int"), ResourceT("A")}

Numbers == {Lit(IntV(1)), Lit(IntV(3)), BytesLit(5, "None")}

Atoms == Numbers \cup {Var("x"), Var("y"), Lit(StringV("ab")), Lit(BoolV(TRUE))}

Rights == Atoms \ {Lit(IntV(1)), Lit(BoolV(TRUE))}

Ops == CompareOps \cup LogicOps \cup ArithmeticOps

Pairs == {BinOp(op, l, r) : op \in Ops, l \in {Var("x"), Var("y")}, r \in Rights}

Nested ==
    {BinOp(op, l, UnOp(u, BinOp(o, Var("x"), r))) :
        op \in {"+", "-", "/", "and"}, l \in {Var("y"), Lit(IntV(3))}, u \in {"-", "not"},
        o \in {"<", "*", "-"}, r \in {Var("x"), BytesLit(5, "None")}}

Expressed ==
    Atoms \cup Pairs \cup Nested
    \cup {UnOp(op, a) : op \in {"-", "not"}, a \in Atoms}
    \cup {FieldAccess(Var("x"), "size"), IndexAccess(Var("x"), Lit(IntV(1))),
          IndexAccess(Call("range", <<Lit(IntV(1)), Var("y")>>), Var("x")),
          Call("len", <<Var("x")>>), Template(<<Text("a"), Ref("$x", "x")>>),
          StructE(<<<<"size", Var("x")>>, <<"size", Var("y")>>>>),
          Choose("z", ResourceT("File"), "")}

MCExprs == Expressed

MCInits ==
    {Lit(IntV(3)), BytesLit(5, "None"), Lit(StringV("ab")), UnOp("-", Var("x")),
     BinOp("<", Var("x"), Var("y")), Var("x")}

Required ==
    LET e == {Var("x"), BinOp("+", Var("x"), Var("y")), BinOp("<", Var("x"), Var("y")),
              BinOp("==", Var("x"), Lit(IntV(3))), UnOp("not", Var("y")), Lit(StringV("ab"))}
        P == {StartsWithP(x, "a") : x \in e} \cup {EndsWithP(x, "b") : x \in e}
                \cup {ExistsP(x) : x \in e} \cup {InSetP(x, "M") : x \in e}
                \cup {DropPrefixEqP("a", x, y) : x \in e, y \in e}
                \cup {MatchesP(Var("x"), "a*"), CanP("read", NoPattern),
                      IsP(Var("x"), <<<<"Exact", "File">>>>)}
    IN  P \cup {NotP(p) : p \in P}
          \cup {AndP(p, q) : p \in {ExistsP(Var("x")), NotP(ExistsP(Var("y")))}, q \in P}
          \cup {OrP(p, q) : p \in {ExistsP(Var("x")), NotP(ExistsP(Var("y")))}, q \in P}

MCPreds == Required

MCContexts ==
    {[scopes |-> <<("y" :> StringV("a"))>>, registry |-> ("x" :> ResourceV("File", <<>>)),
      machines |-> <<"m">>, sets |-> ("M" :> {"ab"})]}

MCLowerCase == ("All" :> "all")

MCParams == {{}, {"x"}}

MCReadValues == {Null, StructV(<<>>)}

MCResources == ("File" :> ("size" :> ResourceT("A")))

-----------------------------------------------------------------------------
(* Everything inside of what is written, and what aliases may make of types. *)
PartsOf(x) ==
    TypeParts(x) \cup ToSet(Operands(x)) \cup ToSet(PredExprs(x)) \cup ToSet(PredParts(x))

WithParts(set) ==
    LET within[n \in Nat] ==
            IF n = 0 THEN set
            ELSE within[n - 1] \cup UNION {PartsOf(x) : x \in within[n - 1]}
    IN  within[MaxNesting]

RECURSIVE Depth(_)
Depth(x) == IF PartsOf(x) = {} THEN 0 ELSE 1 + Max({Depth(part) : part \in PartsOf(x)})

(* TLC computes a definition once, but the one it puts for a constant at every use: *)
(* the large sets are definitions of their own.                                     *)
PredClosure == {x \in WithParts(MCPreds) : ~IsExpr(x)}

MCAllPreds == PredClosure

ExprClosure == {x \in WithParts(MCExprs \cup MCInits \cup MCPreds) : IsExpr(x)}

MCAllExprs == ExprClosure

(* An alias stands for a type, inside of which there may be another one. *)
Expansions(types) ==
    types \cup {ListT(t) : t \in types} \cup {MapT(Prim("String"), t) : t \in types}

TypeClosure ==
    WithParts(MCTypes \cup Expansions(MCTypes \cup Expansions(MCTypes)))
        \cup {Prim("Bytes"), Prim("Bool"), Prim("JSON")}

MCAllTypes == TypeClosure
=============================================================================
