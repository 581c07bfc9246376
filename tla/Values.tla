------------------------------- MODULE Values -------------------------------
(***************************************************************************)
(* Runtime values (resource.rs) and the operations of the evaluator on     *)
(* them (execute.rs).  A value is a tuple that begins with its type name.  *)
(* i64 runs from -Top-1 to Top and u64 from 0 to 2*Top+1; sums and         *)
(* products wrap, as they do in a release build.  Strings are TLA+         *)
(* strings.  Numbers become f64 to be compared: exact up to 2^53, so exact *)
(* here.                                                                   *)
(***************************************************************************)
EXTENDS Integers, Sequences, FiniteSets, SequencesExt

CONSTANT Top    \* i64::MAX, scaled down

ASSUME ValueConstants == Top \in Nat \ {0}

Null == <<"Null">>
BoolV(b) == <<"Bool", b>>
IntV(n) == <<"Int", n>>
BytesV(n) == <<"Bytes", n>>
StringV(s) == <<"String", s>>
ResourceV(type, fields) == <<"Resource", type, fields>>
ListV(items) == <<"List", items>>
StructV(map) == <<"Struct", map>>

TypeName(v) == v[1]

Is(v, type) == TypeName(v) = type

Both(l, r, type) == Is(l, type) /\ Is(r, type)

(* A result: a value, an error that is returned, or a panic, which ends the process. *)
Ok(v) == <<"Ok", v>>
Err(e) == <<"Err", e>>
Panic == <<"Panic">>

IsOk(r) == r[1] = "Ok"

Then(r, Next(_)) == IF IsOk(r) THEN Next(r[2]) ELSE r

(* Of several results in order: all their values, or the first that is none. *)
Collect(results) ==
    LET bad == {i \in DOMAIN results : ~IsOk(results[i])}
    IN  IF bad = {} THEN Ok([i \in DOMAIN results |-> results[i][2]])
        ELSE results[CHOOSE i \in bad : \A j \in bad : i <= j]

Signed(n) == ((n + Top + 1) % (2 * (Top + 1))) - (Top + 1)

Unsigned(n) == n % (2 * (Top + 1))

Truthy(v) ==
    CASE Is(v, "Null") -> FALSE
      [] Is(v, "Bool") -> v[2]
      [] Is(v, "Int") \/ Is(v, "Bytes") -> v[2] # 0
      [] Is(v, "String") -> v[2] # ""
      [] Is(v, "Resource") -> DOMAIN v[3] # {}
      [] Is(v, "List") -> v[2] # <<>>
      [] Is(v, "Struct") -> DOMAIN v[2] # {}

-----------------------------------------------------------------------------
(* Equal values; values of different types are never equal, 0 and 0B included. *)
RuntimeEq(l, r) == l = r /\ ~Is(l, "Resource")

(* runtime_to_f64 *)
Comparable(v) ==
    CASE Is(v, "Int") \/ Is(v, "Bytes") -> Ok(v[2])
      [] Is(v, "Bool") -> Ok(IF v[2] THEN 1 ELSE 0)
      [] OTHER -> Err("ExpectedNumeric")

(* runtime_to_i64 *)
Number(v) ==
    CASE Is(v, "Int") -> Ok(v[2])
      [] Is(v, "Bytes") -> IF v[2] <= Top THEN Ok(v[2]) ELSE Err("IntegerOverflow")
      [] OTHER -> Err("ExpectedNumeric")

Compare(l, r, Holds(_, _)) ==
    Then(Comparable(l), LAMBDA x : Then(Comparable(r), LAMBDA y : Ok(BoolV(Holds(x, y)))))

Arithmetic(l, r, Result(_, _)) ==
    Then(Number(l), LAMBDA x : Then(Number(r), LAMBDA y : Result(x, y)))

(* Division rounds towards zero; the one quotient that does not fit panics in every build. *)
Magnitude(n) == IF n < 0 THEN -n ELSE n

Quotient(x, y) ==
    LET q == Magnitude(x) \div Magnitude(y)
    IN  IF (x < 0) = (y < 0) THEN q ELSE -q

Divide(x, y) ==
    IF y = 0 THEN Err("DivisionByZero")
    ELSE IF Quotient(x, y) > Top THEN Panic
    ELSE Ok(IntV(Quotient(x, y)))

RuntimeAdd(l, r) ==
    CASE Both(l, r, "Int") -> Ok(IntV(Signed(l[2] + r[2])))
      [] Both(l, r, "Bytes") -> Ok(BytesV(Unsigned(l[2] + r[2])))
      [] Both(l, r, "String") -> Ok(StringV(l[2] \o r[2]))
      [] OTHER -> Err("ExpectedNumeric")

EvalBinop(op, l, r) ==
    CASE op = "==" -> Ok(BoolV(RuntimeEq(l, r)))
      [] op = "!=" -> Ok(BoolV(~RuntimeEq(l, r)))
      [] op = "<" -> Compare(l, r, LAMBDA x, y : x < y)
      [] op = "<=" -> Compare(l, r, LAMBDA x, y : x <= y)
      [] op = ">" -> Compare(l, r, LAMBDA x, y : x > y)
      [] op = ">=" -> Compare(l, r, LAMBDA x, y : x >= y)
      [] op = "and" -> Ok(BoolV(Truthy(l) /\ Truthy(r)))
      [] op = "or" -> Ok(BoolV(Truthy(l) \/ Truthy(r)))
      [] op = "+" -> RuntimeAdd(l, r)
      [] op = "-" -> Arithmetic(l, r, LAMBDA x, y : Ok(IntV(Signed(x - y))))
      [] op = "*" -> Arithmetic(l, r, LAMBDA x, y : Ok(IntV(Signed(x * y))))
      [] op = "/" -> Arithmetic(l, r, Divide)

EvalUnop(op, v) ==
    CASE op = "not" -> Ok(BoolV(~Truthy(v)))
      [] op = "-" -> IF Is(v, "Int") THEN Ok(IntV(Signed(-v[2]))) ELSE Err("ExpectedInt")

(* An index into a list.  A negative one counts from the end and stops at the     *)
(* first item; another one is taken modulo the length, which must not be zero.    *)
NormalizeIndex(i, len) ==
    IF i < 0 THEN (IF len > -i THEN len + i ELSE 0) ELSE i % len

IndexList(items, i) ==
    LET len == Len(items)
    IN  IF i >= 0 /\ len = 0 THEN Panic
        ELSE IF NormalizeIndex(i, len) < len THEN Ok(items[NormalizeIndex(i, len) + 1])
        ELSE Err("IndexOutOfBounds")

Member(map, key) == IF key \in DOMAIN map THEN Ok(map[key]) ELSE Err("FieldNotFound")

IndexValue(target, index) ==
    CASE Is(target, "List") /\ Is(index, "Int") -> IndexList(target[2], index[2])
      [] Is(target, "Struct") /\ Is(index, "String") -> Member(target[2], index[2])
      [] OTHER -> Err("IndexTypeMismatch")

-----------------------------------------------------------------------------
(* Built-in functions.  Only range asks how many arguments there are: the others  *)
(* panic without one.  A numeral is what to_string makes of an i64.              *)
Numeral(s) == \E n \in (-Top - 1)..Top : ToString(n) = s

(* start..end counts up to end-1; otherwise down from start to end+1, where start+1 *)
(* may wrap and leave nothing.                                                      *)
RangeItems(from, to) ==
    CASE from < to -> [i \in 1..(to - from) |-> IntV(from + i - 1)]
      [] from >= to /\ from < Top -> [i \in 1..(from - to) |-> IntV(from - i + 1)]
      [] OTHER -> <<>>

BuiltinLen(v) ==
    CASE Is(v, "List") -> Ok(IntV(Len(v[2])))
      [] Is(v, "Struct") -> Ok(IntV(Cardinality(DOMAIN v[2])))
      [] Is(v, "String") -> Ok(IntV(Len(v[2])))
      [] OTHER -> Err("ExpectedCollection")

(* exists() is is_truthy(), but a resource without fields exists. *)
BuiltinExists(v) == Ok(BoolV(Is(v, "Resource") \/ Truthy(v)))

BuiltinToInt(v) ==
    IF ~Is(v, "String") THEN Err("ExpectedString")
    ELSE IF Numeral(v[2]) THEN Ok(IntV(CHOOSE n \in (-Top - 1)..Top : ToString(n) = v[2]))
    ELSE Err("ParseError")

BuiltinRange(args) ==
    IF Len(args) < 2 THEN Err("ParseError")
    ELSE IF ~Both(args[1], args[2], "Int") THEN Err("ExpectedNumeric")
    ELSE Ok(ListV(RangeItems(args[1][2], args[2][2])))
=============================================================================
