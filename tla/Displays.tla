------------------------------ MODULE Displays ------------------------------
(***************************************************************************)
(* How values (resource.rs) and types (ty.rs) are shown.                   *)
(***************************************************************************)
EXTENDS Ast

(* Maps have no order of their own: they are shown in some order of their keys. *)
RECURSIVE Display(_)

Joined(parts) ==
    IF parts = <<>> THEN ""
    ELSE FoldLeft(LAMBDA acc, part : acc \o ", " \o part, Head(parts), Tail(parts))

Entries(map, sep) ==
    LET keys == SetToSeq(DOMAIN map)
    IN  Joined([i \in DOMAIN keys |-> keys[i] \o sep \o Display(map[keys[i]])])

Display(v) ==
    CASE Is(v, "Null") -> "null"
      [] Is(v, "Bool") -> IF v[2] THEN "true" ELSE "false"
      [] Is(v, "Int") -> ToString(v[2])
      [] Is(v, "Bytes") -> ToString(v[2]) \o "B"
      [] Is(v, "String") -> v[2]
      [] Is(v, "Resource") -> v[2] \o "(" \o Entries(v[3], "=") \o ")"
      [] Is(v, "List") -> "[" \o Joined([i \in DOMAIN v[2] |-> Display(v[2][i])]) \o "]"
      [] Is(v, "Struct") -> "{" \o Entries(v[2], ": ") \o "}"

RECURSIVE TypeText(_)
TypeText(type) ==
    CASE type[1] = "Resource" -> type[2]
      [] type[1] = "Unit" -> "()"
      [] type[1] = "List" -> "[" \o TypeText(type[2]) \o "]"
      [] type[1] = "MutList" -> "[mut " \o TypeText(type[2]) \o "]"
      [] type[1] = "Set" -> "set of " \o TypeText(type[2])
      [] type[1] = "OrderedSet" -> "ordered set of " \o TypeText(type[2])
      [] type[1] = "Map" -> "map of " \o TypeText(type[2]) \o " to " \o TypeText(type[3])
      [] type[1] = "OrderedMap" ->
            "ordered map of " \o TypeText(type[2]) \o " to " \o TypeText(type[3])
      [] type[1] = "SizedList" ->
            "new list of " \o TypeText(type[2]) \o "(" \o ToString(type[3]) \o ")"
      [] OTHER -> type[1]
=============================================================================
