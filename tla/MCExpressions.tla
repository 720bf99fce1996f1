---------------------------- MODULE MCExpressions ----------------------------
(***************************************************************************)
(* An instance of Expressions for TLC: every operator on operands of every *)
(* type, calls of every kind of object, and deeper expressions of calls    *)
(* that return, calls that raise and operators that may not look at them.  *)
(***************************************************************************)
EXTENDS Expressions

MCLiterals == [
  zero |-> Integer(0, NoId),
  one |-> Integer(1, NoId),
  minus |-> Integer(-3, NoId),
  nought |-> Static("real", <<0, 1>>),
  half |-> Static("real", <<1, 2>>),
  yes |-> Bool(TRUE),
  no |-> Bool(FALSE),
  none |-> Null,
  s |-> Static("string", <<[type |-> "s", value |-> <<>>]>>)]

\* Objects of the program have numbers of their own.
MCEnvironment == [
  x |-> Integer(1, -1),
  l |-> Obj("list", <<Integer(1, -1)>>, -2),
  empty |-> Obj("list", <<>>, -3),
  f |-> Obj("function", <<"returns">>, -4),
  g |-> Obj("function", <<"raises">>, -5),
  exception |-> Obj("exception", <<"ValueError">>, -6),
  ListType |-> Static("type", <<"list">>),
  StringType |-> Static("type", <<"string">>),
  IntType |-> Static("type", <<"int">>),
  RealType |-> Static("type", <<"real">>),
  BoolType |-> Static("type", <<"bool">>)]

Literal(n) == Node("literal", n, <<>>, 0)
Variable(n) == Node("variable", n, <<>>, 0)
Parenthesized(e) == Node("parenthesized", "", <<e>>, 0)
UnaryOf(op, e) == Node("unary", op, <<e>>, 0)
BinaryOf(op, a, b) == Node("binary", op, <<a, b>>, 0)
AttributeOf(e, n) == Node("attribute", n, <<e>>, 0)
CallOf(callee, args, named) == Node("call", "", <<callee>> \o args, named)

Leaves == {Literal(n) : n \in DOMAIN MCLiterals}
            \cup {Variable(n) : n \in {"x", "l", "f", "exception", "StringType", "undefined"}}
AllOperators == {"+", "-", "*", "/", "\\", "%", "is", "and", "or"} \cup Comparisons

Arguments1 == {Literal("one"), Literal("half"), Literal("s"), Variable("l"), Variable("undefined")}
Callees == {Variable(n) : n \in DOMAIN MCEnvironment} \cup {Literal("none")}
             \cup {AttributeOf(o, n) : o \in {Literal("s"), Variable("l"), Variable("ListType"),
                                              Variable("x"), Variable("StringType")},
                                       n \in {"size", "join"}}
             \cup {Parenthesized(AttributeOf(Variable("l"), "size"))}
CallsOf == {CallOf(c, <<>>, 0) : c \in Callees}
         \cup {CallOf(c, <<a>>, n) : c \in Callees, a \in Arguments1, n \in 0 .. 1}
         \cup {CallOf(c, <<a, b>>, n) : c \in Callees, a \in Arguments1, b \in Arguments1, n \in 0 .. 2}

Shallow == Leaves
  \cup {UnaryOf(op, e) : op \in {"+", "-", "not"}, e \in Leaves}
  \cup {BinaryOf(op, a, b) : op \in AllOperators, a \in Leaves, b \in Leaves}
  \cup {AttributeOf(e, n) : e \in Leaves, n \in {"size", "join"}}
  \cup CallsOf

\* Operands that can be told apart by what they do.
Inner == {CallOf(Variable("f"), <<Literal(n)>>, 0) : n \in {"zero", "one", "s"}}
  \cup {CallOf(Variable("g"), <<>>, 0), CallOf(Variable("ListType"), <<Variable("x")>>, 0)}
Pairs == {BinaryOf(op, a, b) : op \in {"+", "and", "or", "EQ"}, a \in Inner, b \in Inner}
Deep == {BinaryOf(op, Parenthesized(p), e) : op \in {"/", "and", "or", "is"}, p \in Pairs, e \in Inner}
  \cup {BinaryOf(op, e, p) : op \in {"+", "and", "or", "LT"}, p \in Pairs, e \in Inner}
  \cup {CallOf(Variable("f"), <<p, e>>, n) : p \in Pairs, e \in Inner, n \in {0, 1}}
  \cup {CallOf(AttributeOf(p, "size"), <<>>, 0) : p \in Pairs}
  \cup {UnaryOf(op, p) : op \in {"-", "not"}, p \in Pairs}

Simple == Leaves \cup Pairs
MCPrograms ==
  [tree : Shallow \cup Deep, root : {"statement"}, op : {""}, pending : {FALSE}]
    \cup [tree : Simple, root : {"last", "raise", "raise assignment"}, op : {""}, pending : {FALSE}]
    \cup [tree : Simple, root : {"assignment"}, op : {""} \cup IntOperators, pending : {FALSE}]
    \cup [tree : Pairs, root : {"statement"}, op : {""}, pending : {TRUE}]
=============================================================================
