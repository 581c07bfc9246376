------------------------------- MODULE Parser -------------------------------
(***************************************************************************)
(* The parser (parser.rs): from tokens to the syntax tree.  A parse gives  *)
(* a node and the tokens that are left, or fails.  A rule is a sequence of *)
(* parts that are taken in order; `Take` gives the nodes of those parts    *)
(* that have one.  An optional node is a sequence of at most one.          *)
(***************************************************************************)
EXTENDS Tokens

Good(node, rest) == [ok |-> TRUE, node |-> node, rest |-> rest]
Bad == [ok |-> FALSE]

AndThen(r, Next(_, _)) == IF r.ok THEN Next(r.node, r.rest) ELSE r

Build(r, Node(_)) == AndThen(r, LAMBDA node, rest : Good(Node(node), rest))

Cur(ts) == IF ts = <<>> THEN Eof ELSE Head(ts)

Peek(ts) == IF Len(ts) < 2 THEN Eof ELSE ts[2]

Advance(ts) == IF ts = <<>> THEN ts ELSE Tail(ts)

Named(token, word) == token \in {Kw(word), Ident(word)}

(* Parts of a rule: a token that must come, one that may come, a word that may be a *)
(* keyword, a node, parts that come when the next token is `token`, and nodes       *)
(* repeated up to one of the symbols `stops` (with a comma that may follow each, or *)
(* without), or for as long as the next token is one of `firsts`.                   *)
K(word) == <<"expect", Kw(word)>>
S(symbol) == <<"expect", Sym(symbol)>>
May(token) == <<"may", token>>
W(word) == <<"named", word>>
Get(kind) == <<"get", kind>>
Opt(token, parts) == <<"opt", token, parts>>
Many(kind, stops) == <<"many", kind, stops>>
Each(kind, stops) == <<"each", kind, stops>>
While(kind, firsts) == <<"while", kind, firsts>>

RECURSIVE Take(_, _), ParseAs(_, _), Repeat(_, _)

Continues(part, ts) ==
    IF part[1] = "while" THEN Cur(ts) \in part[3] \/ <<Cur(ts)[1]>> \in part[3]
    ELSE Cur(ts) # Eof /\ Cur(ts) \notin {Sym(s) : s \in part[3]}

Repeat(part, ts) ==
    IF ~Continues(part, ts) THEN Good(<<>>, ts)
    ELSE AndThen(ParseAs(part[2], ts), LAMBDA node, rest :
            Build(Repeat(part, IF part[1] = "many" /\ Cur(rest) = Sym(",") THEN Tail(rest)
                               ELSE rest),
                  LAMBDA nodes : <<node>> \o nodes))

TakePart(part, ts) ==
    CASE part[1] = "expect" -> IF Cur(ts) = part[2] THEN Good(<<>>, Tail(ts)) ELSE Bad
      [] part[1] = "may" -> Good(<<>>, IF Cur(ts) = part[2] THEN Tail(ts) ELSE ts)
      [] part[1] = "named" -> IF Named(Cur(ts), part[2]) THEN Good(<<>>, Tail(ts)) ELSE Bad
      [] part[1] = "get" -> Build(ParseAs(part[2], ts), LAMBDA node : <<node>>)
      [] part[1] = "opt" -> IF Cur(ts) = part[2]
                            THEN Build(Take(part[3], ts), LAMBDA nodes : <<nodes>>)
                            ELSE Good(<<<<>>>>, ts)
      [] OTHER -> Build(Repeat(part, ts), LAMBDA nodes : <<nodes>>)

Take(parts, ts) ==
    IF parts = <<>> THEN Good(<<>>, ts)
    ELSE AndThen(TakePart(Head(parts), ts), LAMBDA nodes, rest :
            Build(Take(Tail(parts), rest), LAMBDA more : nodes \o more))

Tagged(tag, parts, ts) == Build(Take(parts, ts), LAMBDA nodes : <<tag>> \o nodes)

(* A rule with one node. *)
Only(parts, ts) == Build(Take(parts, ts), LAMBDA nodes : nodes[1])

(* Of the entries of a body those with a tag, and the last of them. *)
Picked(entries, tag) ==
    LET some == SelectSeq(entries, LAMBDA e : e[1] = tag)
    IN  [i \in DOMAIN some |-> some[i][2]]

LastOf(nodes) == IF nodes = <<>> THEN <<>> ELSE <<Last(nodes)>>

ParseName(ts) == IF Cur(ts)[1] = "Ident" THEN Good(Cur(ts)[2], Tail(ts)) ELSE Bad

ParseWord(ts) == IF Cur(ts)[1] \in {"Ident", "Kw"} THEN Good(Cur(ts)[2], Tail(ts)) ELSE Bad

(* Where a string literal should be, any token is skipped and stands for "". *)
ParseString(ts) == Good(IF Cur(ts)[1] = "Str" THEN Cur(ts)[2] ELSE "", Advance(ts))

-----------------------------------------------------------------------------
(* Types. *)
PrimNames ==
    {"Bool", "Int", "String", "Bytes", "Duration", "FilePath", "Node", "Role", "Secret", "JSON"}

NamedType(name) == IF name \in PrimNames THEN Prim(name) ELSE ResourceT(name)

MapParts == <<W("map"), W("of"), Get("type"), W("to"), Get("type")>>

SetParts == <<W("set"), W("of"), Get("type")>>

ParseSize(ts) == IF Cur(ts)[1] = "Int" THEN Good(Cur(ts)[2], Tail(ts)) ELSE Good(0, ts)

ParsePlainType(ts) ==
    CASE Named(Cur(ts), "set") -> Build(Take(SetParts, ts), LAMBDA ns : SetT(ns[1]))
      [] Named(Cur(ts), "new") /\ Named(Peek(ts), "list") ->
            Build(Take(<<W("new"), W("list"), W("of"), Get("type"), S("("), Get("size"), S(")")>>,
                       ts),
                  LAMBDA ns : SizedListT(ns[1], ns[2]))
      [] Cur(ts) = Sym("[") /\ Peek(ts) = Kw("mut") ->
            Build(Take(<<S("["), K("mut"), Get("type"), S("]")>>, ts),
                  LAMBDA ns : MutListT(ns[1]))
      [] Cur(ts) = Sym("[") /\ Peek(ts) # Kw("mut") ->
            Build(Take(<<S("["), Get("type"), S("]")>>, ts), LAMBDA ns : ListT(ns[1]))
      [] Cur(ts) = Sym("(") /\ Peek(ts) = Sym(")") -> Good(Prim("Unit"), Tail(Tail(ts)))
      [] OTHER -> Build(ParseName(ts), NamedType)

ParseType(ts) ==
    CASE Named(Cur(ts), "map") -> Build(Take(MapParts, ts), LAMBDA ns : MapT(ns[1], ns[2]))
      [] Named(Cur(ts), "ordered") /\ Named(Peek(ts), "map") ->
            Build(Take(MapParts, Tail(ts)), LAMBDA ns : OrderedMapT(ns[1], ns[2]))
      [] Named(Cur(ts), "ordered") /\ Named(Peek(ts), "set") ->
            Build(Take(SetParts, Tail(ts)), LAMBDA ns : OrderedSetT(ns[1]))
      [] OTHER -> ParsePlainType(IF Named(Cur(ts), "ordered") THEN Tail(ts) ELSE ts)

(* A parameter is `Type name` for a primitive type only: `Job j` is a parameter named *)
(* Job of type j.                                                                     *)
ParseParam(ts) ==
    IF Cur(ts)[1] = "Ident" /\ Cur(ts)[2] \in PrimNames
    THEN Build(Take(<<Get("name"), Get("name")>>, ts), LAMBDA ns : <<ns[2], Prim(ns[1])>>)
    ELSE Take(<<Get("name"), May(Sym(":")), Get("type")>>, ts)

ParsePattern(ts) == Take(<<S("{"), Get("name"), S(":"), Get("type"), S("}")>>, ts)

-----------------------------------------------------------------------------
(* Expressions. *)
Precedence(token) ==
    CASE token = Kw("or") -> 1
      [] token = Kw("and") -> 2
      [] token[1] = "Sym" /\ token[2] \in CompareOps -> 3
      [] token[1] = "Sym" /\ token[2] \in ArithmeticOps -> 4
      [] OTHER -> 0

ParseField(ts) ==
    CASE Cur(ts)[1] = "Ident" /\ Peek(ts) = Sym(":") ->
            Take(<<Get("name"), S(":"), Get("expr")>>, ts)
      [] Cur(ts)[1] = "Ident" /\ Peek(ts) # Sym(":") ->
            Build(ParseName(ts), LAMBDA name : <<name, Lit(BoolV(TRUE))>>)
      [] OTHER -> Good(<<>>, Tail(ts))

StringExpr(s) ==
    IF StartsWith(s, "$") /\ Len(s) > 1 /\ ~StartsWith(s, "${") THEN Template(s)
    ELSE Lit(StringV(s))

(* What follows a name or a keyword that stands for one. *)
Postfix(word, ts) ==
    CASE Cur(ts) = Sym(".") ->
            Build(ParseWord(Tail(ts)), LAMBDA field : FieldAccess(Var(word[2]), field))
      [] Cur(ts) = Sym("[") /\ word[1] = "Ident" ->
            Build(Take(<<S("["), Get("expr"), S("]")>>, ts),
                  LAMBDA ns : IndexAccess(Var(word[2]), ns[1]))
      [] Cur(ts) = Sym("(") ->
            Build(Take(<<S("("), Many("expr", {")"}), S(")")>>, ts),
                  LAMBDA ns : Call(word[2], ns[1]))
      [] OTHER -> Good(Var(word[2]), ts)

ParsePrimary(ts) ==
    CASE Cur(ts)[1] = "Int" -> Good(Lit(IntV(Cur(ts)[2])), Tail(ts))
      [] Cur(ts)[1] = "Bytes" -> Good(BytesLit(Cur(ts)[2], Cur(ts)[3]), Tail(ts))
      [] Cur(ts)[1] = "Str" -> Good(StringExpr(Cur(ts)[2]), Tail(ts))
      [] Cur(ts)[1] \in {"Ident", "Kw"} -> Postfix(Cur(ts), Tail(ts))
      [] Cur(ts) = Sym("{") ->
            Build(Take(<<S("{"), Many("field", {"}"}), S("}")>>, ts),
                  LAMBDA ns : StructE(SelectSeq(ns[1], LAMBDA field : field # <<>>)))
      [] Cur(ts) = Sym("(") -> Only(<<S("("), Get("expr"), S(")")>>, ts)
      [] OTHER -> Bad

ParseUnary(ts) ==
    IF Cur(ts) \in {Kw("not"), Sym("-")}
    THEN Build(ParseAs("unary", Tail(ts)), LAMBDA operand : UnOp(Cur(ts)[2], operand))
    ELSE ParsePrimary(ts)

RECURSIVE ParseBinary(_, _), Operators(_, _, _)

(* The precedence from which the right operand of an operator is parsed; for the      *)
(* mutant, that of the operator itself.                                               *)
RightLevelSame(level) == level

RightLevel(level) == level + 1

Operators(left, level, ts) ==
    LET here == Precedence(Cur(ts))
    IN  IF here = 0 \/ here < level THEN Good(left, ts)
        ELSE AndThen(ParseBinary(RightLevel(here), Tail(ts)), LAMBDA right, rest :
                Operators(BinOp(Cur(ts)[2], left, right), level, rest))

ParseBinary(level, ts) ==
    AndThen(ParseUnary(ts), LAMBDA left, rest : Operators(left, level, rest))

ParseLet(ts) ==
    Tagged("Let", <<K("let"), May(Kw("mut")), Get("name"), Opt(Sym(":"), <<S(":"), Get("type")>>),
                    Opt(Sym("="), <<S("="), Get("expr")>>)>>, ts)

-----------------------------------------------------------------------------
(* Conditions: `and` and `or` group to the left, with one precedence. *)
ParseRoleRef(ts) ==
    IF Cur(ts) = Kw("down") THEN Good(<<"Down", "_">>, Tail(ts))
    ELSE Build(ParseName(ts), LAMBDA name : <<"Exact", name>>)

ParseSuffix(e, ts) ==
    CASE Cur(ts) = Kw("is") ->
            Build(Take(<<K("is"), Get("role ref"), While("or role ref", {Kw("or")})>>, ts),
                  LAMBDA ns : IsP(e, <<ns[1]>> \o ns[2]))
      [] Cur(ts) = Kw("starts") ->
            Build(Take(<<K("starts"), K("with"), Get("string")>>, ts),
                  LAMBDA ns : StartsWithP(e, ns[1]))
      [] Cur(ts) = Kw("ends") ->
            Build(Take(<<K("ends"), K("with"), Get("string")>>, ts),
                  LAMBDA ns : EndsWithP(e, ns[1]))
      [] Cur(ts) = Kw("in") /\ Peek(ts) = Sym("{") ->
            Build(Take(<<K("in"), S("{"), Many("expr", {"}"}), S("}")>>, ts),
                  LAMBDA ns : InSetP(e, "_inline_set"))
      [] Cur(ts) = Kw("in") /\ Peek(ts) # Sym("{") ->
            Build(Take(<<K("in"), Get("name")>>, ts), LAMBDA ns : InSetP(e, ns[1]))
      [] Cur(ts) = Kw("matches") ->
            Build(Take(<<K("matches"), Get("string")>>, ts), LAMBDA ns : MatchesP(e, ns[1]))
      [] OTHER -> Good(ExistsP(e), IF Cur(ts) = Kw("exists") THEN Tail(ts) ELSE ts)

ParseAtom(ts) ==
    CASE Cur(ts) = Kw("can") ->
            Build(Take(<<K("can"), Get("name"), Opt(Sym("{"), <<Get("pattern")>>)>>, ts),
                  LAMBDA ns : CanP(ns[1], IF ns[2] = <<>> THEN NoPattern ELSE ns[2][1]))
      [] Cur(ts) = Kw("not") -> Build(ParseAs("atom", Tail(ts)), NotP)
      [] Cur(ts) \in {Kw("starts"), Kw("ends")} -> ParseSuffix(Lit(StringV("")), ts)
      [] OTHER -> AndThen(ParseBinary(0, ts), ParseSuffix)

RECURSIVE Connect(_, _)
Connect(left, ts) ==
    IF Cur(ts) \notin {Kw("and"), Kw("or")} THEN Good(<<left>>, ts)
    ELSE AndThen(ParseAtom(Tail(ts)), LAMBDA right, rest :
            Connect(IF Cur(ts) = Kw("and") THEN AndP(left, right) ELSE OrP(left, right), rest))

ParseCondition(ts) == AndThen(ParseAtom(ts), Connect)

IfCondition == Opt(Kw("if"), <<K("if"), Get("condition")>>)

-----------------------------------------------------------------------------
(* Aliases and roles. *)
ParseAliasKind(ts) ==
    IF Cur(ts) \in {Kw("machine"), Kw("path"), Kw("role")} THEN Good(Cur(ts)[2], Tail(ts))
    ELSE Good("generic", ts)

ParseAlias(ts) ==
    IF Peek(ts)[1] = "Ident" /\ Cur(Advance(Advance(ts))) = Kw("as")
    THEN Build(Take(<<K("alias"), Get("name"), K("as"), Get("alias kind"), S("="), Get("type")>>,
                    ts),
               LAMBDA ns : <<"Alias", ns[2], ns[1], ns[3]>>)
    ELSE Tagged("Alias",
                <<K("alias"), Get("alias kind"), Get("name"), S("="), Get("type")>>, ts)

(* For a mutant: the denial is read off the token after the first. *)
PermissionLate(ts) ==
    Build(Take(<<Get("word"), Opt(Sym("{"), <<Get("pattern")>>), IfCondition>>, Tail(ts)),
          LAMBDA ns : <<"can", <<Peek(ts) = Kw("cannot")>> \o ns>>)

ParsePermission(ts) ==
    Build(Take(<<Get("word"), Opt(Sym("{"), <<Get("pattern")>>), IfCondition>>, Tail(ts)),
          LAMBDA ns : <<"can", <<Cur(ts) = Kw("cannot")>> \o ns>>)

ParseDefineTarget(ts) ==
    AndThen(ParseWord(ts), LAMBDA role, rest :
        IF Cur(rest) = Sym(".")
        THEN Build(Take(<<S("."), K("down")>>, rest), LAMBDA ns : <<"RoleDown", role>>)
        ELSE Good(<<"Role", role>>, rest))

(* The list of a `can define operation for` goes on after a comma: it takes whatever *)
(* comes next for a role.                                                            *)
ParseDefine(ts) ==
    Tagged("define", <<K("can"), K("define"), K("operation"), K("for"),
                       Many("define target", {"}", ","})>>, ts)

ParseRoleEntry(ts) ==
    CASE Cur(ts) = Kw("up") -> Tagged("up", <<K("up"), May(Sym(":")), Get("name")>>, ts)
      [] Cur(ts) = Kw("can") /\ Peek(ts) = Kw("define") -> ParseDefine(ts)
      [] Cur(ts) = Kw("cannot") \/ (Cur(ts) = Kw("can") /\ Peek(ts) # Kw("define")) ->
            ParsePermission(ts)
      [] OTHER -> Bad

ParseRole(ts) ==
    Build(Take(<<K("role"), Get("name"), S("{"), Many("role entry", {"}"}), S("}")>>, ts),
          LAMBDA ns : <<"Role", ns[1], LastOf(Picked(ns[2], "up")), Picked(ns[2], "can"),
                        FlattenSeq(Picked(ns[2], "define"))>>)

-----------------------------------------------------------------------------
(* Resources, devices and machines. *)
ParseCapacity(ts) == Tagged("capacity", <<K("capacity"), May(Sym(":")), Get("type")>>, ts)

ParseFieldDecl(ts) ==
    Build(Take(<<K("field"), Get("name"), May(Sym(":")), Get("type"),
                 Opt(Kw("default"), <<K("default"), S("="), Get("expr")>>)>>, ts),
          LAMBDA ns : <<"field", ns>>)

ParseResourceEntry(ts) ==
    CASE Cur(ts) = Kw("capacity") -> ParseCapacity(ts)
      [] Cur(ts) = Kw("field") -> ParseFieldDecl(ts)
      [] Cur(ts)[1] = "Ident" -> Build(ParseType(ts), LAMBDA type : <<"capacity", type>>)
      [] OTHER -> Bad

ParseResource(ts) ==
    Build(Take(<<K("resource"), Get("name"), S("{"), Many("resource entry", {"}"}), S("}")>>, ts),
          LAMBDA ns : <<"Resource", ns[1], Picked(ns[2], "capacity"), Picked(ns[2], "field")>>)

(* What follows the name of an extent.  A size is skipped, and that of a disk is 0. *)
ParseExtentType(ts) == IF Cur(ts) = Kw("bytes") THEN Good("bytes", Tail(ts)) ELSE ParseName(ts)

ParseExtentRest(ts) ==
    CASE Cur(ts) = Kw("mountpoint") -> Tagged("disk", <<K("mountpoint"), Get("expr")>>, ts)
      [] Cur(ts) = Kw("default") ->
            Build(Take(<<K("default"), S("="), Get("expr"), Get("extent type")>>, ts),
                  LAMBDA ns : <<"simple", ns[2], <<ns[1]>>>>)
      [] Cur(ts) = Kw("bytes") -> Good(<<"simple", "bytes", <<>>>>, Tail(ts))
      [] Cur(ts)[1] = "Bytes" ->
            Good(<<"simple", IF Peek(ts) = Kw("mountpoint") THEN "DISK" ELSE "bytes", <<>>>>,
                 Tail(ts))
      [] OTHER -> Good(<<"simple", "bytes", <<>>>>, ts)

ParseExtent(ts) ==
    Build(Take(<<K("extent"), Get("name"), Get("extent rest")>>, ts),
          LAMBDA ns : <<"extent", <<ns[1]>> \o ns[2]>>)

ParseRate(ts) == Build(Take(<<K("rate"), Get("name"), Get("type")>>, ts), LAMBDA ns : <<"rate", ns>>)

ParseSumOp(ts) == IF Cur(ts) \in {Sym("+"), Sym("-")} THEN Good(Cur(ts)[2], Tail(ts)) ELSE Bad

CostOf == <<S("("), K("cost"), Get("name"), S(")")>>

ParseConstraint(ts) ==
    IF Cur(ts) = Kw("sum")
    THEN Tagged("sum", <<K("sum")>> \o CostOf \o <<Get("sum op"), May(Kw("sum"))>> \o CostOf
                       \o <<S("<="), Get("expr")>>, ts)
    ELSE Tagged("extent", <<May(Kw("extent")), Get("name"), S("<="), Get("expr")>>, ts)

ParseCostRule(ts) ==
    Tagged("rule", <<K("cost"), K("rule"), S("{"), Many("constraint", {"}"}), S("}")>>, ts)

ParseDeviceEntry(ts) ==
    CASE Cur(ts) = Kw("extent") -> ParseExtent(ts)
      [] Cur(ts) = Kw("rate") -> ParseRate(ts)
      [] Cur(ts) = Kw("cost") -> ParseCostRule(ts)
      [] OTHER -> Bad

ParseDevice(ts) ==
    Build(Take(<<K("device"), Get("name"), Opt(Sym(":"), <<S(":"), Get("name")>>), S("{"),
                 Many("device entry", {"}"}), S("}")>>, ts),
          LAMBDA ns : <<"Device", ns[1], ns[2], Picked(ns[3], "extent"), Picked(ns[3], "rate"),
                        Picked(ns[3], "rule")>>)

SkipToken(ts) == Good(<<"skipped", <<>>>>, Advance(ts))

(* An extent that is no disk is dropped; a number of bytes is a key, whatever its name. *)
ParseMachineEntry(ts) ==
    CASE Cur(ts) = Kw("extent") ->
            Build(ParseExtent(ts), LAMBDA n : IF n[2][2] = "disk" THEN n ELSE <<"skipped", <<>>>>)
      [] Cur(ts)[1] = "Bytes" -> Good(<<"key", <<Cur(ts)[2], Cur(ts)[3]>>>>, Tail(ts))
      [] Cur(ts) = Kw("key") /\ Peek(ts)[1] = "Str" ->
            Good(<<"key", <<0, "None">>>>, Advance(Tail(ts)))
      [] Cur(ts) = Kw("key") /\ Peek(ts)[1] # "Str" -> SkipToken(Tail(ts))
      [] Cur(ts) = Kw("device") ->
            Build(Take(<<K("device"), Get("name"), K("type"), Get("name"),
                         Opt(Sym("{"), <<S("{"), Each("token", {"}"}), S("}")>>)>>, ts),
                  LAMBDA ns : <<"device", <<ns[1], ns[2]>>>>)
      [] OTHER -> SkipToken(ts)

ParseMachine(ts) ==
    Build(Take(<<K("machine"), Get("name"), S("{"), Many("machine entry", {"}"}), S("}")>>, ts),
          LAMBDA ns : <<"Machine", ns[1], Picked(ns[2], "extent"), Picked(ns[2], "key"),
                        Picked(ns[2], "device")>>)

-----------------------------------------------------------------------------
(* Operations, services and functions. *)
Params == <<S("("), Many("param", {")"}), S(")")>>

ParseRequires(ts) == Tagged("requires", <<K("requires"), May(Sym(":")), Get("condition")>>, ts)

ParseAllow(ts) == Tagged("allow", <<K("allow"), K("if"), K("role"), K("is"), Get("name")>>, ts)

ParseMode(ts) ==
    IF Cur(ts) \in {Kw("batch"), Kw("interactive")} THEN Good(Cur(ts)[2], Tail(ts))
    ELSE Good("batch", ts)

ParseExecArgs(ts) ==
    LET args == While("expr", {<<"Ident">>, <<"Str">>})
    IN  IF Cur(ts) = Sym("{") THEN Only(<<S("{"), args, May(Sym("}"))>>, ts)
        ELSE Only(<<args>>, ts)

ParseExec(ts) ==
    Tagged("Exec", <<K("exec"), May(Sym(":")), Get("mode"), Get("word"), Get("exec args")>>, ts)

(* `to` and `location` are no keywords: a transfer of an operation never parses. *)
ParseTransfer(ts) ==
    Tagged("Transfer", <<K("transfer"), Get("expr"), K("to"), Get("expr"), K("location"),
                         Get("expr")>>, ts)

ParseShellWord(ts) == IF Cur(ts)[1] \in {"Ident", "Str"} THEN Good(Cur(ts)[2], Tail(ts)) ELSE Bad

ParseShell(ts) ==
    Tagged("Shell", <<Get("shell word"), While("shell word", {<<"Ident">>, <<"Str">>})>>, ts)

Ended(kind, ts) == Only(<<Get(kind), May(Sym(";"))>>, ts)

ParseOperationStmt(ts) ==
    CASE Cur(ts) = Sym(";") -> ParseAs("operation stmt", Tail(ts))
      [] Cur(ts) = Kw("requires") ->
            Tagged("Require", <<K("requires"), May(Sym(";")), Get("condition")>>, ts)
      [] Cur(ts) = Kw("let") -> ParseLet(ts)
      [] Cur(ts) = Kw("on") -> Tagged("OnMachine", <<K("on"), Get("name"), May(Sym(";"))>>, ts)
      [] Cur(ts) = Kw("exec") -> Ended("exec", ts)
      [] Cur(ts) = Kw("transfer") -> Ended("transfer", ts)
      [] Cur(ts)[1] \in {"Ident", "Str"} -> Ended("shell", ts)
      [] OTHER -> Bad

ParseOptionName(ts) ==
    IF Cur(ts)[1] = "Str" \/ Cur(ts) = Kw("options") THEN Good(Cur(ts)[2], Tail(ts)) ELSE Bad

ParseOption(ts) ==
    Build(Take(<<Get("option name"), S("{"), Each("operation stmt", {"}"}), S("}")>>, ts),
          LAMBDA ns : <<"option", ns>>)

ParseCostEntry(ts) == Take(<<Get("name"), May(Sym(":")), Get("expr")>>, ts)

ParseCostEntries(ts) ==
    IF Cur(ts) = Sym("{") THEN Only(<<S("{"), Many("cost entry", {"}"}), May(Sym("}"))>>, ts)
    ELSE Good(<<>>, ts)

ParseCosts(ts) ==
    Build(Take(<<May(Sym(":")), Get("cost entries")>>, Tail(ts)), LAMBDA ns : <<"costs", ns[1]>>)

ParseOperationEntry(ts) ==
    CASE Cur(ts) = Kw("requires") -> ParseRequires(ts)
      [] Cur(ts) = Kw("allow") -> ParseAllow(ts)
      [] Cur(ts) \in {Kw("cost"), Kw("costs")} -> ParseCosts(ts)
      [] OTHER -> ParseOption(ts)

ParseOperation(ts) ==
    Build(Take(<<K("operation"), Get("name")>> \o Params
               \o <<S("{"), Many("operation entry", {"}"}), S("}")>>, ts),
          LAMBDA ns : <<"Operation", ns[1], ns[2], Picked(ns[3], "requires"),
                        LastOf(Picked(ns[3], "allow")), Picked(ns[3], "option"),
                        LastOf(Picked(ns[3], "costs"))>>)

(* A kind of cost right before the brace is dropped, as is everything that is no name. *)
ParseServiceEntry(ts) ==
    CASE Cur(ts)[1] # "Ident" -> SkipToken(ts)
      [] Cur(ts)[1] = "Ident" /\ Peek(ts) = Sym("}") -> SkipToken(ts)
      [] OTHER -> Build(ParseCostEntry(ts), LAMBDA entry : <<"cost", entry>>)

ParseService(ts) ==
    Build(Take(<<K("service"), Get("name")>> \o Params
               \o <<K("on"), Get("name"), S("{"), Each("service entry", {"}"}), S("}")>>, ts),
          LAMBDA ns : <<"Service", ns[1], ns[2], ns[3], Picked(ns[4], "cost")>>)

(* `json`, `output`, `input` and `otherwise` are no keywords, and a transfer does not  *)
(* consume its own keyword, which is taken for the variable to copy from.  What no     *)
(* statement begins with is skipped, a token at a time, as an empty requirement.       *)
ParseFunctionStmt(ts) ==
    CASE Cur(ts) = Kw("let") -> ParseLet(ts)
      [] Cur(ts) = Kw("on") -> Tagged("OnMachine", <<K("on"), Get("name")>>, ts)
      [] Cur(ts) = Kw("exec") -> ParseExec(ts)
      [] Cur(ts) = Kw("return") -> Tagged("Return", <<K("return"), Get("expr")>>, ts)
      [] Cur(ts) = Kw("read") ->
            Tagged("Read", <<K("read"), May(Sym(":")), May(Kw("json")), May(Kw("output")),
                             May(Kw("as")), Get("name")>>, ts)
      [] Cur(ts) = Kw("write") ->
            Tagged("Write", <<K("write"), May(Sym(":")), May(Kw("json")), May(Kw("on")),
                              May(Kw("input")), Get("expr")>>, ts)
      [] Cur(ts) = Kw("transfer") ->
            Tagged("Transfer", <<Get("expr"), Get("expr"), Get("expr")>>, ts)
      [] OTHER -> Good(<<"Require", <<>>>>, Advance(ts))

ParseFunctionEntry(ts) ==
    CASE Cur(ts) = Sym(";") /\ Peek(ts) \in {Sym("}"), Eof} -> SkipToken(ts)
      [] Cur(ts) = Sym(";") /\ Peek(ts) \notin {Sym("}"), Eof} ->
            ParseAs("function entry", Tail(ts))
      [] Cur(ts) = Kw("requires") -> ParseRequires(ts)
      [] Cur(ts) = Kw("allow") -> ParseAllow(ts)
      [] Cur(ts) = Kw("success") ->
            Tagged("success", <<K("success"), K("if"), Get("condition")>>, ts)
      [] Cur(ts) = Kw("failure") ->
            Build(Take(<<K("failure"), May(Kw("otherwise"))>>, ts),
                  LAMBDA ns : <<"failure", "otherwise">>)
      [] OTHER -> Build(ParseFunctionStmt(ts), LAMBDA stmt : <<"body", stmt>>)

ParseFunction(ts) ==
    Build(Take(<<K("function"), Get("name")>> \o Params
               \o <<S("{"), Many("function entry", {"}"}), S("}")>>, ts),
          LAMBDA ns : <<"Function", ns[1], ns[2], Picked(ns[3], "requires"),
                        LastOf(Picked(ns[3], "allow")), Picked(ns[3], "body"),
                        LastOf(Picked(ns[3], "success")), LastOf(Picked(ns[3], "failure"))>>)

-----------------------------------------------------------------------------
(* Statements. *)
StatementFirsts ==
    {<<"Ident">>} \cup {Kw(w) : w \in {"grant", "alias", "on", "tasks", "for", "while", "if",
                                       "machine", "try"}}

Block == <<S("{"), While("statement", StatementFirsts), S("}")>>

AnyPattern == <<"_", Prim("JSON")>>

ParseGrant(ts) ==
    Build(Take(<<K("grant"), Get("name"), K("can"), Get("name"),
                 Opt(Sym("{"), <<Get("pattern")>>), IfCondition, May(Sym(";"))>>, ts),
          LAMBDA ns : <<"Grant", ns[1], ns[2],
                        IF ns[3] = <<>> THEN AnyPattern ELSE ns[3][1], ns[4]>>)

ParseMachines(ts) ==
    IF Cur(ts) = Kw("machine") /\ Peek(ts) = Kw("set")
    THEN Tagged("Set", <<K("machine"), K("set"), Get("name")>>, ts)
    ELSE Tagged("Single", <<May(Kw("machine")), Get("name")>>, ts)

ParseOnMachine(ts) ==
    Tagged("On", <<K("on"), Get("machines"), Get("on body")>>, ts)

ParseTaskBlock(ts) == Only(<<May(Kw("tasks")), S("{"), Many("task item", {"}"}), S("}")>>, ts)

ArgName(e) == IF e[1] = "Var" THEN e[2] ELSE "expr"

ParseTaskItem(ts) ==
    CASE Cur(ts) = Kw("optimize") -> Tagged("Optimize", <<K("optimize"), K("for"), Get("name")>>, ts)
      [] Cur(ts)[1] = "Ident" /\ Peek(ts) = Sym("<-") ->
            Tagged("Bind", <<Get("name"), S("<-"), Get("expr")>>, ts)
      [] Cur(ts)[1] = "Ident" /\ Peek(ts) \in {Sym(s) : s \in {"}", ",", ")", "]"}} \cup {Eof} ->
            Tagged("OpCall", <<Get("name")>>, ts)
      [] Cur(ts)[1] = "Ident" /\ Peek(ts)[1] = "Ident" ->
            Build(Take(<<Get("name"), While("expr", {<<"Ident">>, Sym("{")})>>, ts),
                  LAMBDA ns : <<"OpCallArgs", ns[1],
                                [i \in DOMAIN ns[2] |-> ArgName(ns[2][i])]>>)
      [] OTHER -> Tagged("Expr", <<Get("expr")>>, ts)

ParseOnBody(ts) ==
    IF Cur(ts) = Sym("{") THEN Build(ParseTaskBlock(ts), LAMBDA items : <<items>>)
    ELSE Good(<<>>, IF Cur(ts) = Sym(";") THEN Tail(ts) ELSE ts)

ParseFor(ts) == Tagged("For", <<K("for"), Get("name"), K("in"), Get("expr")>> \o Block
                              \o <<May(Sym(";"))>>, ts)

(* The name and the condition of a loop are not kept. *)
ParseWhile(ts) ==
    Build(Take(<<K("while"), Get("name"), K("is"), K("true"),
                 Opt(Kw("tellmemore"), <<K("tellmemore"), Get("name")>>)>> \o Block, ts),
          LAMBDA ns : <<"While", ns[3]>>)

ParseElse(ts) ==
    IF Peek(ts) = Kw("if") THEN Build(Take(<<K("else"), K("if"), Get("expr")>> \o Block, ts),
                                      LAMBDA ns : <<"elseif", ns>>)
    ELSE Tagged("else", <<K("else")>> \o Block, ts)

ParseIf(ts) ==
    Build(Take(<<K("if"), Get("expr")>> \o Block
               \o <<While("else", {Kw("else")}), May(Sym(";"))>>, ts),
          LAMBDA ns : <<"If", ns[1], ns[2], Picked(ns[3], "elseif"),
                        FlattenSeq(Picked(ns[3], "else"))>>)

ParseCatch(ts) ==
    Take(<<K("catch"), Opt(Kw("error"), <<K("error"), Get("name")>>)>> \o Block, ts)

(* Of several catch blocks the bodies are joined, and the last name stays. *)
ParseTry(ts) ==
    Build(Take(<<K("try")>> \o Block
               \o <<While("catch", {Kw("catch")}),
                    Opt(Kw("finally"), <<K("finally")>> \o Block), May(Sym(";"))>>, ts),
          LAMBDA ns : <<"Try", ns[1], LastOf(FlattenSeq([i \in DOMAIN ns[2] |-> ns[2][i][1]])),
                        FlattenSeq([i \in DOMAIN ns[2] |-> ns[2][i][2]]), FlattenSeq(ns[3])>>)

(* A name that begins a statement is taken for a machine; its arguments are dropped. *)
RECURSIVE SkipNamedArgs(_)
SkipNamedArgs(ts) ==
    IF Cur(ts)[1] = "Ident" /\ Peek(ts) = Sym(":")
    THEN AndThen(ParseBinary(0, Tail(Tail(ts))), LAMBDA arg, rest : SkipNamedArgs(rest))
    ELSE Good(<<>>, ts)

ParseSimple(ts) ==
    Build(Take(<<Get("name"), Get("named args"), May(Sym(";"))>>, ts),
          LAMBDA ns : <<"On", <<"Single", ns[1]>>, <<>>>>)

ParseStatement(ts) ==
    CASE Cur(ts) = Kw("grant") -> ParseGrant(ts)
      [] Cur(ts) = Kw("alias") -> ParseAlias(ts)
      [] Cur(ts) = Kw("on") -> ParseOnMachine(ts)
      [] Cur(ts) = Kw("tasks") -> Build(ParseTaskBlock(ts), LAMBDA items : <<"Tasks", items>>)
      [] Cur(ts) = Kw("for") -> ParseFor(ts)
      [] Cur(ts) = Kw("while") -> ParseWhile(ts)
      [] Cur(ts) = Kw("if") -> ParseIf(ts)
      [] Cur(ts) = Kw("machine") -> ParseMachine(ts)
      [] Cur(ts) = Kw("try") -> ParseTry(ts)
      [] Cur(ts)[1] = "Ident" -> ParseSimple(ts)
      [] OTHER -> Bad

ParseItem(ts) ==
    CASE Cur(ts) = Kw("alias") -> ParseAlias(ts)
      [] Cur(ts) = Kw("role") -> ParseRole(ts)
      [] Cur(ts) = Kw("resource") -> ParseResource(ts)
      [] Cur(ts) = Kw("device") -> ParseDevice(ts)
      [] Cur(ts) = Kw("operation") -> ParseOperation(ts)
      [] Cur(ts) = Kw("service") -> ParseService(ts)
      [] Cur(ts) = Kw("function") -> ParseFunction(ts)

ItemFirsts ==
    {Kw(w) : w \in {"alias", "role", "resource", "device", "operation", "service", "function"}}

ParseTopLevel(ts) ==
    IF Cur(ts) \in ItemFirsts THEN Build(ParseItem(ts), LAMBDA item : <<"item", item>>)
    ELSE Build(ParseStatement(ts), LAMBDA stmt : <<"statement", stmt>>)

ParseAs(kind, ts) ==
    CASE kind = "name" -> ParseName(ts)
      [] kind = "word" -> ParseWord(ts)
      [] kind = "string" -> ParseString(ts)
      [] kind = "token" -> Good(Cur(ts), Advance(ts))
      [] kind = "type" -> ParseType(ts)
      [] kind = "size" -> ParseSize(ts)
      [] kind = "param" -> ParseParam(ts)
      [] kind = "pattern" -> ParsePattern(ts)
      [] kind = "expr" -> ParseBinary(0, ts)
      [] kind = "unary" -> ParseUnary(ts)
      [] kind = "field" -> ParseField(ts)
      [] kind = "atom" -> ParseAtom(ts)
      [] kind = "condition" -> ParseCondition(ts)
      [] kind = "role ref" -> ParseRoleRef(ts)
      [] kind = "or role ref" -> Only(<<K("or"), Get("role ref")>>, ts)
      [] kind = "alias kind" -> ParseAliasKind(ts)
      [] kind = "role entry" -> ParseRoleEntry(ts)
      [] kind = "define target" -> ParseDefineTarget(ts)
      [] kind = "resource entry" -> ParseResourceEntry(ts)
      [] kind = "device entry" -> ParseDeviceEntry(ts)
      [] kind = "extent type" -> ParseExtentType(ts)
      [] kind = "extent rest" -> ParseExtentRest(ts)
      [] kind = "sum op" -> ParseSumOp(ts)
      [] kind = "constraint" -> ParseConstraint(ts)
      [] kind = "machine entry" -> ParseMachineEntry(ts)
      [] kind = "mode" -> ParseMode(ts)
      [] kind = "exec" -> ParseExec(ts)
      [] kind = "exec args" -> ParseExecArgs(ts)
      [] kind = "transfer" -> ParseTransfer(ts)
      [] kind = "shell" -> ParseShell(ts)
      [] kind = "shell word" -> ParseShellWord(ts)
      [] kind = "option name" -> ParseOptionName(ts)
      [] kind = "operation stmt" -> ParseOperationStmt(ts)
      [] kind = "operation entry" -> ParseOperationEntry(ts)
      [] kind = "cost entry" -> ParseCostEntry(ts)
      [] kind = "cost entries" -> ParseCostEntries(ts)
      [] kind = "service entry" -> ParseServiceEntry(ts)
      [] kind = "function entry" -> ParseFunctionEntry(ts)
      [] kind = "machines" -> ParseMachines(ts)
      [] kind = "on body" -> ParseOnBody(ts)
      [] kind = "task item" -> ParseTaskItem(ts)
      [] kind = "else" -> ParseElse(ts)
      [] kind = "catch" -> ParseCatch(ts)
      [] kind = "named args" -> SkipNamedArgs(ts)
      [] kind = "statement" -> ParseStatement(ts)
      [] kind = "top level" -> ParseTopLevel(ts)

ParseProgram(ts) ==
    Build(Take(<<Each("top level", {})>>, ts),
          LAMBDA ns : [items |-> Picked(ns[1], "item"), statements |-> Picked(ns[1], "statement")])

Parse(text) == IF Lexes(text) THEN ParseProgram(Tokenize(text)) ELSE Bad
=============================================================================
