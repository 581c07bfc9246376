-------------------------------- MODULE Ast --------------------------------
(***************************************************************************)
(* Trees of expressions, predicates and types (ast.rs, ty.rs): tuples that *)
(* begin with their constructor; and the string functions that parser and  *)
(* evaluators share.                                                       *)
(***************************************************************************)
EXTENDS Values

(* Literals: a value, or a number of bytes with its suffix. *)
Lit(value) == <<"Lit", value>>
BytesLit(n, suffix) == <<"Lit", <<"Bytes", n, suffix>>>>
Var(name) == <<"Var", name>>
StructE(fields) == <<"Struct", fields>>             \* sequence of <<name, expr>>
FieldAccess(target, field) == <<"Field", target, field>>
IndexAccess(target, index) == <<"Index", target, index>>
Call(func, args) == <<"Call", func, args>>
BinOp(op, left, right) == <<"BinOp", op, left, right>>
UnOp(op, operand) == <<"UnOp", op, operand>>
Template(parts) == <<"Template", parts>>
Choose(name, type, from) == <<"Choose", name, type, from>>

OrderOps == {"<", "<=", ">", ">="}
CompareOps == {"==", "!="} \cup OrderOps
LogicOps == {"and", "or"}
ArithmeticOps == {"+", "-", "*", "/"}

(* Parts of a template: text, or a reference as it is written, `$x` or `${x}`. *)
Text(s) == <<"text", s, s>>
Ref(written, name) == <<"ref", written, name>>

-----------------------------------------------------------------------------
NoPattern == <<"none">>

IsP(left, roles) == <<"Is", left, roles>>           \* roles: sequence of <<kind, name>>
CanP(op, pattern) == <<"Can", op, pattern>>         \* pattern: <<variable, type>>
StartsWithP(e, s) == <<"StartsWith", e, s>>
EndsWithP(e, s) == <<"EndsWith", e, s>>
DropPrefixEqP(s, left, right) == <<"DropPrefixEq", s, left, right>>
InSetP(e, set) == <<"InSet", e, set>>
ExistsP(e) == <<"Exists", e>>
MatchesP(e, pattern) == <<"Matches", e, pattern>>
NotP(p) == <<"Not", p>>
AndP(p, q) == <<"And", p, q>>
OrP(p, q) == <<"Or", p, q>>

-----------------------------------------------------------------------------
(* A user type is a "Resource", also when its name is an alias. *)
Prim(name) == <<name>>
ResourceT(name) == <<"Resource", name>>
ListT(elem) == <<"List", elem>>
MutListT(elem) == <<"MutList", elem>>
SizedListT(elem, size) == <<"SizedList", elem, size>>
SetT(elem) == <<"Set", elem>>
OrderedSetT(elem) == <<"OrderedSet", elem>>
MapT(key, val) == <<"Map", key, val>>
OrderedMapT(key, val) == <<"OrderedMap", key, val>>

ListKinds == {"List", "MutList", "SizedList"}
SetKinds == {"Set", "OrderedSet"}
MapKinds == {"Map", "OrderedMap"}

-----------------------------------------------------------------------------
StartsWith(s, t) == Len(t) <= Len(s) /\ SubSeq(s, 1, Len(t)) = t

EndsWith(s, t) == Len(t) <= Len(s) /\ SubSeq(s, Len(s) - Len(t) + 1, Len(s)) = t

HasSubstring(s, t) == \E i \in 0..(Len(s) - Len(t)) : SubSeq(s, i + 1, i + Len(t)) = t

After(s, n) == SubSeq(s, n + 1, Len(s))
=============================================================================
