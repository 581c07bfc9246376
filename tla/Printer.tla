------------------------------ MODULE Printer ------------------------------
(***************************************************************************)
(* The pretty printer (pretty.rs): from the syntax tree back to a text.    *)
(* It writes no parentheses, and strings outside of expressions without    *)
(* their escapes.                                                          *)
(***************************************************************************)
EXTENDS Parser

Raw(s) == IF HasSubstring(s, "\"") THEN <<Unclosed>> ELSE <<Quoted(s)>>

(* The texts with the separator between them. *)
Separated(texts, separator) ==
    FlattenSeq([i \in DOMAIN texts |-> IF i = 1 THEN texts[i] ELSE separator \o texts[i]])

Comma == Written(<<",">>)

AndWord == Written(<<"and">>)

Texts(nodes, Show(_)) == [i \in DOMAIN nodes |-> Show(nodes[i])]

All(nodes, Show(_)) == FlattenSeq(Texts(nodes, Show))

(* A text for an optional node. *)
IfAny(option, Show(_)) == IF option = <<>> THEN <<>> ELSE Show(option[1])

Entry(text) == text \o Comma

-----------------------------------------------------------------------------
(* Types. *)
RECURSIVE TypePretty(_)
TypePretty(type) ==
    CASE type[1] = "Resource" -> Written(<<type[2]>>)
      [] type[1] = "Unit" -> Written(<<"(", ")">>)
      [] type[1] = "List" -> Written(<<"[">>) \o TypePretty(type[2]) \o Written(<<"]">>)
      [] type[1] = "MutList" -> Written(<<"[", "mut">>) \o TypePretty(type[2]) \o Written(<<"]">>)
      [] type[1] = "Set" -> Written(<<"set", "of">>) \o TypePretty(type[2])
      [] type[1] = "OrderedSet" -> Written(<<"ordered", "set", "of">>) \o TypePretty(type[2])
      [] type[1] = "Map" ->
            Written(<<"map", "of">>) \o TypePretty(type[2]) \o Written(<<"to">>) \o TypePretty(type[3])
      [] type[1] = "OrderedMap" ->
            Written(<<"ordered", "map", "of">>) \o TypePretty(type[2])
            \o Written(<<"to">>) \o TypePretty(type[3])
      [] type[1] = "SizedList" ->
            Written(<<"new", "list", "of">>) \o TypePretty(type[2])
            \o Written(<<"(">>) \o <<Num(type[3])>> \o Written(<<")">>)
      [] OTHER -> Written(<<type[1]>>)

PatternPretty(pattern) ==
    Written(<<"{", pattern[1], ":">>) \o TypePretty(pattern[2]) \o Written(<<"}">>)

-----------------------------------------------------------------------------
(* Expressions. *)
BytesPretty(n, suffix) ==
    <<Num(n)>> \o (IF suffix = "None" THEN <<>> ELSE Written(<<suffix>>))

LitPretty(lit) ==
    CASE Is(lit, "Bool") -> Written(<<IF lit[2] THEN "true" ELSE "false">>)
      [] Is(lit, "Int") -> <<Num(lit[2])>>
      [] Is(lit, "Bytes") -> BytesPretty(lit[2], lit[3])
      [] Is(lit, "String") -> <<Quoted(lit[2])>>

RECURSIVE ExprPretty(_)
ExprPretty(e) ==
    CASE e[1] = "Lit" -> LitPretty(e[2])
      [] e[1] = "Var" -> Written(<<e[2]>>)
      [] e[1] = "Struct" ->
            Written(<<"{">>)
            \o Separated([i \in DOMAIN e[2] |->
                            Written(<<e[2][i][1], ":">>) \o ExprPretty(e[2][i][2])], Comma)
            \o Written(<<"}">>)
      [] e[1] = "Field" -> ExprPretty(e[2]) \o Written(<<".", e[3]>>)
      [] e[1] = "Index" ->
            ExprPretty(e[2]) \o Written(<<"[">>) \o ExprPretty(e[3]) \o Written(<<"]">>)
      [] e[1] = "Call" ->
            Written(<<e[2], "(">>)
            \o Separated([i \in DOMAIN e[3] |-> ExprPretty(e[3][i])], Comma) \o Written(<<")">>)
      [] e[1] = "BinOp" -> ExprPretty(e[3]) \o Written(<<e[2]>>) \o ExprPretty(e[4])
      [] e[1] = "UnOp" -> Written(<<e[2]>>) \o ExprPretty(e[3])
      [] e[1] = "Template" -> Raw(e[2])

LetPretty(let) ==
    Written(<<"let", let[2]>>)
    \o IfAny(let[3], LAMBDA type : Written(<<":">>) \o TypePretty(type))
    \o IfAny(let[4], LAMBDA init : Written(<<"=">>) \o ExprPretty(init))

-----------------------------------------------------------------------------
(* Conditions. *)
RoleRefPretty(ref) ==
    CASE ref[1] = "Exact" -> Written(<<ref[2]>>)
      [] ref[1] = "Down" -> Written(<<ref[2], "down">>)

RECURSIVE PredPretty(_)
PredPretty(p) ==
    CASE p[1] = "Is" ->
            ExprPretty(p[2]) \o Written(<<"is">>)
            \o Separated(Texts(p[3], RoleRefPretty), Written(<<"or">>))
      [] p[1] = "Can" ->
            Written(<<"can", p[2]>>) \o (IF p[3] = NoPattern THEN <<>> ELSE PatternPretty(p[3]))
      [] p[1] = "StartsWith" -> ExprPretty(p[2]) \o Written(<<"starts", "with">>) \o Raw(p[3])
      [] p[1] = "EndsWith" -> ExprPretty(p[2]) \o Written(<<"ends", "with">>) \o Raw(p[3])
      [] p[1] = "InSet" -> ExprPretty(p[2]) \o Written(<<"in", p[3]>>)
      [] p[1] = "Exists" -> ExprPretty(p[2]) \o Written(<<"exists">>)
      [] p[1] = "Matches" -> ExprPretty(p[2]) \o Written(<<"matches">>) \o Raw(p[3])
      [] p[1] = "Not" -> Written(<<"not">>) \o PredPretty(p[2])
      [] p[1] = "And" -> PredPretty(p[2]) \o AndWord \o PredPretty(p[3])
      [] p[1] = "Or" -> PredPretty(p[2]) \o Written(<<"or">>) \o PredPretty(p[3])

CondPretty(cond) == Separated(Texts(cond, PredPretty), AndWord)

IfPretty(cond) == Written(<<"if">>) \o CondPretty(cond)

-----------------------------------------------------------------------------
(* Aliases, roles, resources, devices and machines. *)
AliasPretty(alias) ==
    Written(CASE alias[2] = "machine" -> <<"alias", "m", "as", "machine", "=">>
              [] alias[2] = "path" -> <<"alias", "path", "=">>
              [] alias[2] = "role" -> <<"alias", "r", "as", "role", "=">>
              [] OTHER -> <<"alias", alias[3], "=">>)
    \o TypePretty(alias[4])

PermPretty(perm) ==
    Written(<<IF perm[1] THEN "cannot" ELSE "can", perm[2]>>)
    \o IfAny(perm[3], PatternPretty) \o IfAny(perm[4], IfPretty)

TargetPretty(target) ==
    Written(<<"can", "define", "operation", "for", target[2]>>
            \o IF target[1] = "RoleDown" THEN <<".", "down">> ELSE <<>>)

RolePretty(role) ==
    Written(<<"role", role[2], "{">>)
    \o IfAny(role[3], LAMBDA up : Entry(Written(<<"up", ":", up>>)))
    \o All(role[4], LAMBDA perm : Entry(PermPretty(perm)))
    \o All(role[5], LAMBDA target : Entry(TargetPretty(target)))
    \o Written(<<"}">>)

FieldPretty(field) ==
    Written(<<"field", field[1], ":">>) \o TypePretty(field[2])
    \o IfAny(field[3], LAMBDA default : Written(<<"=">>) \o ExprPretty(default))

ResourcePretty(res) ==
    Written(<<"resource", res[2], "{">>)
    \o All(res[3], LAMBDA type : Entry(Written(<<"capacity", ":">>) \o TypePretty(type)))
    \o All(res[4], FieldPretty)
    \o Written(<<"}">>)

ExtentPretty(extent) ==
    Written(<<"extent", extent[1]>>)
    \o IF extent[2] = "disk"
       THEN Written(<<"size">>) \o BytesPretty(0, "None") \o Written(<<"mountpoint">>)
            \o ExprPretty(extent[3])
       ELSE Written(IF extent[3] = "bytes" THEN <<"bytes">> ELSE <<"count", extent[3]>>)
            \o IfAny(extent[4], LAMBDA e : Written(<<"default", "=">>) \o ExprPretty(e))

ConstraintPretty(c) ==
    IF c[1] = "extent" THEN Written(<<"extent", c[2], "<=">>) \o ExprPretty(c[3])
    ELSE Written(<<"sum", "(", "cost", c[2], ")", c[3], "sum", "(", "cost", c[4], ")", "<=">>)
         \o ExprPretty(c[5])

(* The parent of a device is not written. *)
DevicePretty(dev) ==
    Written(<<"device", dev[2], "{">>)
    \o All(dev[4], ExtentPretty)
    \o All(dev[5], LAMBDA rate : Written(<<"rate", rate[1], ":">>) \o TypePretty(rate[2]))
    \o All(dev[6], LAMBDA rule : Written(<<"cost", "rule", "{">>) \o All(rule, ConstraintPretty)
                                 \o Written(<<"}">>))
    \o Written(<<"}">>)

MachinePretty(machine) ==
    Written(<<"machine", machine[2], "{">>)
    \o All(machine[3], LAMBDA disk : Written(<<"disk", disk[1]>>) \o BytesPretty(0, "None")
                                     \o Written(<<"mountpoint">>) \o ExprPretty(disk[3]))
    \o All(machine[4], LAMBDA key : Written(<<"key">>) \o BytesPretty(key[1], key[2]))
    \o All(machine[5], LAMBDA dev : Written(<<"device", dev[1], "type", dev[2]>>))
    \o Written(<<"}">>)

-----------------------------------------------------------------------------
(* Operations, services and functions. *)
ParamsPretty(params) ==
    Written(<<"(">>)
    \o Separated(Texts(params, LAMBDA p : TypePretty(p[2]) \o Written(<<p[1]>>)), Comma)
    \o Written(<<")">>)

RequiresPretty(cond) == Written(<<"requires", ":">>) \o CondPretty(cond)

AllowPretty(role) == Entry(Written(<<"allow", "if", "role", "is", role>>))

ExecPretty(stmt) ==
    Written((IF stmt[2] = "interactive" THEN <<"exec", "interactive">> ELSE <<"exec">>)
            \o <<stmt[3]>>)
    \o All(stmt[4], ExprPretty)

TransferPretty(stmt) ==
    Written(<<"transfer">>) \o ExprPretty(stmt[2]) \o Written(<<"to">>) \o ExprPretty(stmt[3])
    \o Written(<<"location">>) \o ExprPretty(stmt[4])

(* What operations and functions have in common, and what each has of its own. *)
BodyPretty(stmt) ==
    CASE stmt[1] = "Require" -> RequiresPretty(stmt[2])
      [] stmt[1] = "Let" -> LetPretty(stmt)
      [] stmt[1] = "OnMachine" -> Written(<<"on", stmt[2]>>)
      [] stmt[1] = "Exec" -> ExecPretty(stmt)
      [] stmt[1] = "Transfer" -> TransferPretty(stmt)
      [] stmt[1] = "Shell" -> Written(<<"shell", stmt[2]>> \o stmt[3])
      [] stmt[1] = "Read" -> Written(<<"read", ":", stmt[2]>>)
      [] stmt[1] = "Write" -> Written(<<"write">>) \o ExprPretty(stmt[2])
      [] stmt[1] = "Return" -> Written(<<"return">>) \o ExprPretty(stmt[2])

CostEntriesPretty(costs) ==
    All(costs, LAMBDA cost : Written(<<cost[1], ":">>) \o ExprPretty(cost[2]))

OptionPretty(option) ==
    Raw(option[1]) \o Written(<<"{">>) \o All(option[2], BodyPretty) \o Written(<<"}", ",">>)

OperationPretty(op) ==
    Written(<<"operation", op[2]>>) \o ParamsPretty(op[3]) \o Written(<<"{">>)
    \o All(op[4], LAMBDA cond : Entry(RequiresPretty(cond)))
    \o IfAny(op[5], AllowPretty)
    \o All(op[6], OptionPretty)
    \o IfAny(op[7], LAMBDA costs : Written(<<"costs", "{">>) \o CostEntriesPretty(costs)
                                   \o Written(<<"}", ",">>))
    \o Written(<<"}">>)

ServicePretty(service) ==
    Written(<<"service", service[2]>>) \o ParamsPretty(service[3])
    \o Written(<<"on", service[4], "{">>) \o CostEntriesPretty(service[5]) \o Written(<<"}">>)

FunctionPretty(func) ==
    Written(<<"function", func[2]>>) \o ParamsPretty(func[3]) \o Written(<<"{">>)
    \o All(func[4], LAMBDA cond : Entry(RequiresPretty(cond)))
    \o IfAny(func[5], AllowPretty)
    \o All(func[6], BodyPretty)
    \o IfAny(func[7], LAMBDA cond : Written(<<"success", "if">>) \o CondPretty(cond))
    \o IfAny(func[8], LAMBDA action : Written(<<"failure", action>>))
    \o Written(<<"}">>)

-----------------------------------------------------------------------------
(* Statements. *)
GrantPretty(grant) ==
    Written(<<"grant", grant[2], "can", grant[3]>>)
    \o (IF grant[4] = AnyPattern THEN <<>> ELSE PatternPretty(grant[4]))
    \o IfAny(grant[5], IfPretty)

TaskItemPretty(item) ==
    CASE item[1] = "Bind" -> Written(<<item[2], "<-">>) \o ExprPretty(item[3])
      [] item[1] = "OpCall" -> Written(<<item[2]>>)
      [] item[1] = "OpCallArgs" -> Written(<<item[2]>> \o item[3])
      [] item[1] = "Expr" -> ExprPretty(item[2])
      [] item[1] = "Optimize" -> Written(<<"optimize", "for", item[2]>>)

TasksPretty(items) ==
    Written(<<"tasks", "{">>) \o Separated(Texts(items, TaskItemPretty), Comma) \o Written(<<"}">>)

OnPretty(on) ==
    Written(IF on[2][1] = "Set" THEN <<"on", "machine", "set", on[2][2]>> ELSE <<"on", on[2][2]>>)
    \o (IF on[3] = <<>> THEN Written(<<";">>)
        ELSE Written(<<"{">>) \o TasksPretty(on[3][1]) \o Written(<<"}">>))

RECURSIVE StmtPretty(_)

Braced(stmts) ==
    Written(<<"{">>) \o FlattenSeq([i \in DOMAIN stmts |-> StmtPretty(stmts[i])]) \o Written(<<"}">>)

(* For a mutant: the last branch is not written. *)
IfWithoutElse(if) ==
    Written(<<"if">>) \o ExprPretty(if[2]) \o Braced(if[3])
    \o All(if[4], LAMBDA branch : Written(<<"else", "if">>) \o ExprPretty(branch[1])
                                  \o Braced(branch[2]))

IfStmtPretty(if) ==
    Written(<<"if">>) \o ExprPretty(if[2]) \o Braced(if[3])
    \o All(if[4], LAMBDA branch : Written(<<"else", "if">>) \o ExprPretty(branch[1])
                                  \o Braced(branch[2]))
    \o (IF if[5] = <<>> THEN <<>> ELSE Written(<<"else">>) \o Braced(if[5]))

TryPretty(try) ==
    Written(<<"try">>) \o Braced(try[2])
    \o (IF try[3] # <<>> THEN Written(<<"catch", "error", try[3][1]>>) \o Braced(try[4])
        ELSE IF try[4] # <<>> THEN Written(<<"catch">>) \o Braced(try[4]) ELSE <<>>)
    \o (IF try[5] = <<>> THEN <<>> ELSE Written(<<"finally">>) \o Braced(try[5]))

StmtPretty(stmt) ==
    CASE stmt[1] = "Grant" -> GrantPretty(stmt)
      [] stmt[1] = "Alias" -> AliasPretty(stmt)
      [] stmt[1] = "On" -> OnPretty(stmt)
      [] stmt[1] = "Tasks" -> TasksPretty(stmt[2])
      [] stmt[1] = "For" ->
            Written(<<"for", stmt[2], "in">>) \o ExprPretty(stmt[3]) \o Braced(stmt[4])
      [] stmt[1] = "While" -> Written(<<"while", "cantellmore", "is", "true">>) \o Braced(stmt[2])
      [] stmt[1] = "If" -> IfStmtPretty(stmt)
      [] stmt[1] = "Try" -> TryPretty(stmt)
      [] stmt[1] = "Machine" -> MachinePretty(stmt)

ItemPretty(item) ==
    CASE item[1] = "Alias" -> AliasPretty(item)
      [] item[1] = "Role" -> RolePretty(item)
      [] item[1] = "Resource" -> ResourcePretty(item)
      [] item[1] = "Device" -> DevicePretty(item)
      [] item[1] = "Operation" -> OperationPretty(item)
      [] item[1] = "Service" -> ServicePretty(item)
      [] item[1] = "Function" -> FunctionPretty(item)

PrettyPrint(program) == All(program.items, ItemPretty) \o All(program.statements, StmtPretty)
=============================================================================
