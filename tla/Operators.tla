------------------------------ MODULE Operators ------------------------------
(***************************************************************************)
(* Objects and their operators: the tables of operators of the types       *)
(* (periwinkle/object/*_object.cpp) and the way Object chooses among them  *)
(* (object.cpp).                                                           *)
(*                                                                         *)
(* Abstracted: integers do not overflow, real numbers are quotients of two *)
(* integers and are not rounded, and a text is a sequence of pieces, each  *)
(* a piece of a literal or the way one object is printed.                  *)
(***************************************************************************)
EXTENDS Integers, Sequences, SequencesExt

\* An object.  value is a sequence: the number of an integer, of a boolean or of
\* a function, numerator and denominator of a real, the pieces of a string, the
\* items of a list.  id tells it from other objects of the same type and value:
\* NoId for static objects and the constants of a code object, where equal ones
\* are one.
NoId == 0
Obj(type, value, id) == [type |-> type, value |-> value, id |-> id]
Static(type, value) == Obj(type, value, NoId)
Null == Static("null", <<>>)
Bool(b) == Static("bool", <<IF b THEN 1 ELSE 0>>)
Integer(n, id) == Obj("int", <<n>>, id)

\* o1 == o2, on pointers.
Same(a, b) == a.type = b.type /\ a.id = b.id /\ a.value = b.value

\* What an operator returns: an object, &P_NotImplemented, or nullptr with an
\* exception; "undefined" is undefined behaviour.
Returns(o) == [error |-> "none", object |-> o]
Throws(e) == [error |-> e, object |-> Null]
NotImplemented == Throws("NotImplemented")
Undefined == Throws("undefined")

-----------------------------------------------------------------------------
(* Numbers. *)

\* Denominator 0 is an infinity, or no number when the numerator is 0 as well.
Ratio(n, d) ==
  IF d > 0 THEN <<n, d>>
  ELSE IF d < 0 THEN <<0 - n, 0 - d>>
  ELSE <<IF n > 0 THEN 1 ELSE IF n < 0 THEN -1 ELSE 0, 0>>
Finite(x) == x[2] # 0
NotANumber(x) == x = <<0, 0>>

Numeric(o) == o.type \in {"int", "real"}
\* TO_DOUBLE.
RatioOf(o) == IF o.type = "int" THEN <<o.value[1], 1>> ELSE o.value
IsZero(o) == RatioOf(o)[1] = 0 /\ Finite(RatioOf(o))

Plus(x, y) ==
  IF Finite(x) \/ Finite(y) THEN Ratio(x[1] * y[2] + y[1] * x[2], x[2] * y[2])
  ELSE <<IF x = y THEN x[1] ELSE 0, 0>>
Negated(x) == <<0 - x[1], x[2]>>
Times(x, y) == Ratio(x[1] * y[1], x[2] * y[2])
Over(x, y) == Times(x, Ratio(y[2], y[1]))
Floor(x) == IF Finite(x) THEN <<x[1] \div x[2], 1>> ELSE x

Less(x, y) ==
  /\ ~NotANumber(x) /\ ~NotANumber(y)
  /\ IF Finite(x) \/ Finite(y) THEN x[1] * y[2] < y[1] * x[2] ELSE x[1] < y[1]
Equal(x, y) ==
  /\ ~NotANumber(x) /\ ~NotANumber(y)
  /\ ~Less(x, y) /\ ~Less(y, x)

Holds(op, less, equal, greater) ==
  CASE op = "EQ" -> equal
    [] op = "NE" -> ~equal
    [] op = "GT" -> greater
    [] op = "GE" -> greater \/ equal
    [] op = "LT" -> less
    [] op = "LE" -> less \/ equal
CompareRatios(op, x, y) == Holds(op, Less(x, y), Equal(x, y), Less(y, x))

Abs(n) == IF n < 0 THEN 0 - n ELSE n
\* / and % of C++ round to zero.
Quotient(a, b) == (IF (a < 0) = (b < 0) THEN 1 ELSE -1) * (Abs(a) \div Abs(b))
Remainder(a, b) == a - b * Quotient(a, b)

-----------------------------------------------------------------------------
(* Conversions. *)

HasToString(o) == o.type \notin {"function", "method", "native"}
\* Object::toString as pieces: what is printed for null, true, 1 or [1] is one.
Text(o) == IF o.type = "string" THEN o.value ELSE <<[type |-> o.type, value |-> o.value]>>

\* The operator toBool of each type: realToBool answers whether it is zero.
OperatorToBool(o) ==
  CASE o.type \in {"int", "bool"} -> o.value[1] # 0
    [] o.type = "real" -> IsZero(o)
    [] o.type \in {"string", "list"} -> o.value # <<>>
    [] OTHER -> TRUE
\* objectToBool.
ObjectToBool(o) == IF o.type = "real" THEN ~IsZero(o) ELSE OperatorToBool(o)

\* Object::toInteger, Object::toReal.  A string is a number when it is one that
\* was printed.
Parsed(o) ==
  IF Len(o.value) = 1 /\ o.value[1].type \in {"int", "real"}
  THEN Returns(Static(o.value[1].type, o.value[1].value))
  ELSE Throws("ValueError")
Truncated(x, id) ==
  IF Finite(x) THEN Returns(Integer(Quotient(x[1], x[2]), id)) ELSE Undefined
ToInteger(o, id) ==
  CASE o.type = "int" -> Returns(o)
    [] o.type = "bool" -> Returns(Integer(o.value[1], id))
    [] o.type = "real" -> Truncated(o.value, id)
    [] o.type = "string" ->
         LET n == Parsed(o) IN
           IF n.error # "none" THEN n ELSE Truncated(RatioOf(n.object), id)
    [] OTHER -> Throws("TypeError")
ToReal(o, id) ==
  CASE o.type = "real" -> Returns(o)
    [] o.type \in {"int", "bool"} -> Returns(Obj("real", <<o.value[1], 1>>, id))
    [] o.type = "string" ->
         LET n == Parsed(o) IN
           IF n.error # "none" THEN n ELSE Returns(Obj("real", RatioOf(n.object), id))
    [] OTHER -> Throws("TypeError")

-----------------------------------------------------------------------------
(* The operators of the types. *)

IntOperators == {"+", "-", "*", "/", "\\", "%"}
RealOperators == IntOperators \ {"%"}
Implements(type, op) ==
  \/ type = "int" /\ op \in IntOperators
  \/ type = "real" /\ op \in RealOperators
  \/ type \in {"string", "list"} /\ op = "+"

\* intFloorDiv reads its first operand twice.
IntFunction(op, a, b, id) ==
  CASE op = "+" -> Returns(Integer(a + b, id))
    [] op = "-" -> Returns(Integer(a - b, id))
    [] op = "*" -> Returns(Integer(a * b, id))
    [] op = "/" -> IF b = 0 THEN Throws("DivisionByZeroError")
                   ELSE Returns(Obj("real", Ratio(a, b), id))
    [] op = "\\" -> IF a = 0 THEN Undefined ELSE Returns(Integer(1, id))
    [] op = "%" -> IF b = 0 THEN Undefined ELSE Returns(Integer(Remainder(a, b), id))

RealFunction(op, x, y, id) ==
  LET Real(z) == Returns(Obj("real", z, id)) IN
  CASE op = "+" -> Real(Plus(x, y))
    [] op = "-" -> Real(Plus(x, Negated(y)))
    [] op = "*" -> Real(Times(x, y))
    [] op = "/" -> IF y[1] = 0 /\ y[2] # 0 THEN Throws("DivisionByZeroError")
                   ELSE Real(Over(x, y))
    [] op = "\\" -> Real(Floor(Over(x, y)))

\* TO_STRING.
Joinable(o) == o.type = "string" \/ (o.type # "null" /\ HasToString(o))

\* The function a type has for an operator, called with both operands.
Apply(type, op, a, b, id) ==
  CASE type = "int" /\ a.type = "int" /\ b.type = "int" ->
         IntFunction(op, a.value[1], b.value[1], id)
    [] type = "real" /\ Numeric(a) /\ Numeric(b) ->
         RealFunction(op, RatioOf(a), RatioOf(b), id)
    [] type = "string" /\ Joinable(a) /\ Joinable(b) ->
         Returns(Obj("string", Text(a) \o Text(b), id))
    [] type = "list" /\ a.type = "list" /\ b.type = "list" ->
         Returns(Obj("list", a.value \o b.value, id))
    [] OTHER -> NotImplemented

\* callBinaryOperator.
Dispatch(op, a, b, id) ==
  LET first == Apply(a.type, op, a, b, id)
  IN  IF Implements(a.type, op) /\ (a.type = b.type \/ first # NotImplemented) THEN first
      ELSE IF Implements(b.type, op) THEN Apply(b.type, op, a, b, id)
      ELSE NotImplemented

\* BINARY_OPERATOR.
Binary(op, a, b, id) ==
  LET result == Dispatch(op, a, b, id)
  IN  IF result = NotImplemented THEN Throws("TypeError") ELSE result

\* pos returns its operand.
Unary(op, a, id) ==
  IF ~Numeric(a) THEN Throws("TypeError")
  ELSE IF op = "+" THEN Returns(a)
  ELSE IF a.type = "int" THEN Returns(Integer(0 - a.value[1], id))
  ELSE Returns(Obj("real", Negated(a.value), id))

-----------------------------------------------------------------------------
(* Comparison. *)

RECURSIVE Compare(_, _, _)

\* listObjectEqual asks the same of every pair of items.
CompareLists(op, s, t) ==
  /\ Len(s) = Len(t)
  /\ \A i \in DOMAIN s : LET r == Compare(op, s[i], t[i]) IN
       r.error = "none" /\ r.object = Bool(TRUE)

\* The comparison of a type.  CHECK_STRING returns for strings, not for others.
Comparison(type, op, a, b) ==
  CASE type = "int" /\ a.type = "int" /\ b.type = "int" ->
         Returns(Bool(CompareRatios(op, RatioOf(a), RatioOf(b))))
    [] type = "real" /\ Numeric(a) /\ Numeric(b) ->
         Returns(Bool(CompareRatios(op, RatioOf(a), RatioOf(b))))
    [] type = "bool" /\ a.type = "bool" /\ b.type = "bool" /\ op \in {"EQ", "NE"} ->
         Returns(Bool((op = "EQ") = (a.value = b.value)))
    [] type = "list" /\ a.type = "list" /\ b.type = "list" /\ op \in {"EQ", "NE"} ->
         Returns(Bool(CompareLists(op, a.value, b.value)))
    [] OTHER -> NotImplemented

\* callCompareOperator and Object::compare.
Compare(op, a, b) ==
  LET first == Comparison(a.type, op, a, b)
      second == Comparison(b.type, op, a, b)
  IN  CASE first # NotImplemented -> first
        [] first = NotImplemented /\ second # NotImplemented -> second
        [] OTHER -> IF op \in {"EQ", "NE"} THEN Returns(Bool((op = "EQ") = Same(a, b)))
                    ELSE Throws("TypeError")
=============================================================================
