------------------------------- MODULE Syntax -------------------------------
(***************************************************************************)
(* Sources, parsed, printed and parsed again.  A source is written a chunk *)
(* at a time inside of a frame: Opening and Closing are the texts around   *)
(* it and Chunks the texts it is written from, for each frame.             *)
(***************************************************************************)
EXTENDS Printer

CONSTANTS Opening, Closing, Chunks,
          MaxChunks     \* bound: chunks of a source, for each frame

VARIABLES frame, text, length

vars == <<frame, text, length>>

Init ==
    /\ frame \in DOMAIN Chunks
    /\ text = <<>>
    /\ length = 0

Write ==
    /\ length < MaxChunks[frame]
    /\ \E chunk \in Chunks[frame] : text' = text \o chunk
    /\ length' = length + 1
    /\ UNCHANGED frame

Next == Write

Spec == Init /\ [][Next]_vars

Source == Opening[frame] \o text \o Closing[frame]

-----------------------------------------------------------------------------
(* Trees the printer has a text for.  What it has none for is listed here, case by     *)
(* case: its text does not parse, or it parses to something else.                      *)
NoQuote(s) == ~HasSubstring(s, "\"")

(* A number takes the first letters of a word that follows, its own suffix excepted. *)
NumbersEnd(lexemes) ==
    \A i \in 1..(Len(lexemes) - 1) :
        lexemes[i][1] = "number" /\ lexemes[i + 1][1] = "word" =>
            \A s \in {"s"} \cup ByteSuffixes :
                StartsWith(lexemes[i + 1][2], s) => s \in ByteSuffixes /\ lexemes[i + 1][2] = s

Level(e) == IF e[1] # "BinOp" THEN 5
            ELSE IF e[2] \in LogicOps THEN Precedence(Kw(e[2])) ELSE Precedence(Sym(e[2]))

(* The operands of an operator, grouped as they would be without parentheses. *)
Grouped(e) ==
    CASE e[1] = "BinOp" -> Level(e[3]) >= Level(e) /\ Level(e[4]) > Level(e)
      [] e[1] = "UnOp" -> Level(e[3]) = 5
      [] OTHER -> TRUE

RECURSIVE ExprKept(_)
ExprKept(e) ==
    /\ Grouped(e)
    /\ CASE e[1] = "Lit" -> ~Is(e[2], "Bool")
         [] e[1] = "Var" -> TRUE
         [] e[1] = "Struct" -> \A i \in DOMAIN e[2] : ExprKept(e[2][i][2])
         [] e[1] = "Field" -> ExprKept(e[2])
         [] e[1] = "Index" -> ExprKept(e[2]) /\ ExprKept(e[3])
         [] e[1] = "Call" -> \A i \in DOMAIN e[3] : ExprKept(e[3][i])
         [] e[1] = "BinOp" -> ExprKept(e[3]) /\ ExprKept(e[4])
         [] e[1] = "UnOp" -> ExprKept(e[3])
         [] e[1] = "Template" -> NoQuote(e[2])

(* An expression that begins with one of these words is taken for a predicate. *)
Leads(e) ==
    ExprKept(e) /\ ExprPretty(e)[1] \notin {Word(w) : w \in {"not", "can", "starts", "ends"}}

RECURSIVE TypeKept(_)
TypeKept(type) ==
    CASE type[1] \in MapKinds -> TypeKept(type[2]) /\ TypeKept(type[3])
      [] type[1] \in ListKinds \cup {"Set", "OrderedSet"} -> TypeKept(type[2])
      [] OTHER -> type # ResourceT("ordered")

RECURSIVE PredKept(_)
PredKept(p) ==
    CASE p[1] = "Is" -> Leads(p[2]) /\ \A i \in DOMAIN p[3] : p[3][i][1] = "Exact"
      [] p[1] = "Can" -> p[3] = NoPattern \/ TypeKept(p[3][2])
      [] p[1] \in {"StartsWith", "EndsWith", "Matches"} -> Leads(p[2]) /\ NoQuote(p[3])
      [] p[1] \in {"InSet", "Exists"} -> Leads(p[2])
      [] p[1] = "Not" -> PredKept(p[2])
      [] p[1] \in {"And", "Or"} -> PredKept(p[2]) /\ PredKept(p[3])

CondKept(cond) == cond # <<>> /\ \A i \in DOMAIN cond : PredKept(cond[i])

EveryNode(nodes, Kept(_)) == \A i \in DOMAIN nodes : Kept(nodes[i])

PatternKept(pattern) == TypeKept(pattern[2])

PermKept(perm) == EveryNode(perm[3], PatternKept) /\ EveryNode(perm[4], CondKept)

ParamKept(param) == param[2][1] \in PrimNames

CostKept(cost) == ExprKept(cost[2])

BodyKept(stmt) ==
    CASE stmt[1] = "Let" -> EveryNode(stmt[3], TypeKept) /\ EveryNode(stmt[4], ExprKept)
      [] stmt[1] = "Exec" ->
            stmt[3] \notin {"batch", "interactive"} /\ EveryNode(stmt[4], ExprKept)
      [] stmt[1] \in {"Write", "Return"} -> ExprKept(stmt[2])
      [] stmt[1] \in {"OnMachine", "Read"} -> TRUE
      [] OTHER -> FALSE

ItemKept(item) ==
    CASE item[1] = "Alias" -> item[2] = "generic" /\ TypeKept(item[4])
      [] item[1] = "Role" -> EveryNode(item[4], PermKept) /\ Len(item[5]) <= 1
      [] item[1] = "Resource" ->
            /\ EveryNode(item[3], TypeKept)
            /\ EveryNode(item[4], LAMBDA field : TypeKept(field[2]) /\ field[3] = <<>>)
      [] item[1] = "Device" ->
            /\ item[3] = <<>>
            /\ EveryNode(item[4], LAMBDA e : Tail(e) = <<"simple", "bytes", <<>>>>)
            /\ EveryNode(item[6], LAMBDA rule : EveryNode(rule, LAMBDA c : ExprKept(Last(c))))
      [] item[1] = "Operation" ->
            /\ EveryNode(item[3], ParamKept) /\ EveryNode(item[4], CondKept)
            /\ EveryNode(item[6], LAMBDA option : NoQuote(option[1])
                                                  /\ EveryNode(option[2], BodyKept))
            /\ EveryNode(item[7], LAMBDA costs : EveryNode(costs, CostKept))
      [] item[1] = "Service" -> EveryNode(item[3], ParamKept) /\ EveryNode(item[5], CostKept)
      [] item[1] = "Function" ->
            /\ EveryNode(item[3], ParamKept) /\ EveryNode(item[4], CondKept)
            /\ EveryNode(item[6], BodyKept) /\ EveryNode(item[7], CondKept)
            /\ item[8] = <<>>

TaskItemKept(item) ==
    CASE item[1] = "Bind" -> ExprKept(item[3])
      [] item[1] = "Expr" -> /\ ExprKept(item[2])
                             /\ ExprPretty(item[2])[1] # Word("optimize")
                             /\ item[2][1] = "Var" => item[2][2] \in Keywords
      [] OTHER -> TRUE

(* A grant without a condition takes an `if` statement that follows for one. *)
NoIfAfterGrant(stmts) ==
    \A i \in 1..(Len(stmts) - 1) :
        stmts[i][1] = "Grant" /\ stmts[i][5] = <<>> => stmts[i + 1][1] # "If"

RECURSIVE StmtKept(_)

StmtsKept(stmts) == NoIfAfterGrant(stmts) /\ \A i \in DOMAIN stmts : StmtKept(stmts[i])

StmtKept(stmt) ==
    CASE stmt[1] = "Grant" -> PatternKept(stmt[4]) /\ EveryNode(stmt[5], CondKept)
      [] stmt[1] = "Alias" -> ItemKept(stmt)
      [] stmt[1] = "On" -> stmt[3] = <<>>
      [] stmt[1] = "Tasks" -> EveryNode(stmt[2], TaskItemKept)
      [] stmt[1] = "For" -> ExprKept(stmt[3]) /\ StmtsKept(stmt[4])
      [] stmt[1] = "While" -> StmtsKept(stmt[2])
      [] stmt[1] = "If" ->
            /\ ExprKept(stmt[2]) /\ StmtsKept(stmt[3]) /\ StmtsKept(stmt[5])
            /\ \A i \in DOMAIN stmt[4] : ExprKept(stmt[4][i][1]) /\ StmtsKept(stmt[4][i][2])
      [] stmt[1] = "Try" -> StmtsKept(stmt[2]) /\ StmtsKept(stmt[4]) /\ StmtsKept(stmt[5])
      [] stmt[1] = "Machine" -> stmt[3] = <<>> /\ stmt[4] = <<>>

ProgramKept(program) ==
    /\ EveryNode(program.items, ItemKept)
    /\ StmtsKept(program.statements)
    /\ NumbersEnd(PrettyPrint(program))

-----------------------------------------------------------------------------
(* pretty_print writes what parse reads as the same program (pretty.rs), for every     *)
(* program that has none of the trees above.                                           *)
RoundTrip ==
    LET program == Parse(Source)
    IN  program.ok /\ ProgramKept(program.node)
            => Parse(PrettyPrint(program.node)) = Good(program.node, <<>>)

(* The same of every program that parses, as pretty.rs has it. *)
RoundTripsAlways ==
    LET program == Parse(Source)
    IN  program.ok => Parse(PrettyPrint(program.node)) = Good(program.node, <<>>)

RECURSIVE AllGrouped(_)
AllGrouped(e) ==
    /\ Grouped(e)
    /\ e[1] = "BinOp" => AllGrouped(e[3]) /\ AllGrouped(e[4])
    /\ e[1] = "UnOp" => AllGrouped(e[3])

(* An expression without brackets is read as its operators bind: those of a higher     *)
(* precedence first, those of one precedence from left to right, and none of its       *)
(* tokens is lost (parse_expr_binary).                                                 *)
OperatorsGroup ==
    LET parsed == ParseBinary(0, Tokenize(text))
    IN  /\ frame = "expr" /\ parsed.ok /\ parsed.rest = <<>>
        /\ \A i \in DOMAIN text : text[i] \notin {Symbol("("), Symbol("{")}
        => AllGrouped(parsed.node) /\ Tokenize(ExprPretty(parsed.node)) = Tokenize(text)

(* Each `cannot` in the body of a role is a denial of the role, unless the list of a    *)
(* `can define operation for` stands before it or it names an operation                *)
(* (parse_role_decl).                                                                  *)
DenialsKept ==
    LET program == Parse(Source)
        tokens == Tokenize(text)
        denials == {i \in DOMAIN tokens : tokens[i] = Kw("cannot")}
    IN  /\ frame = "role" /\ program.ok
        /\ \A i \in DOMAIN tokens, j \in denials : tokens[i] = Kw("for") => j < i
        /\ \A i \in denials : i = 1 \/ tokens[i - 1] \notin {Kw("can"), Kw("cannot")}
        => Len(SelectSeq(program.node.items[1][4], LAMBDA perm : perm[1])) = Cardinality(denials)
=============================================================================
