----------------------------- MODULE Expressions -----------------------------
(***************************************************************************)
(* Expressions: the code compileExpression emits for one                   *)
(* (periwinkle/compiler/compiler.cpp) and what execute                     *)
(* (periwinkle/vm/vm.cpp) makes of it on the operators of the module       *)
(* Operators.  A behaviour takes one expression in the place it has in the *)
(* program, compiles it and runs it, an instruction at a time.             *)
(*                                                                         *)
(* Abstracted: a function of the program is one step, which leaves a trace *)
(* and returns its last argument or raises (calls are the subject of Calls *)
(* and VirtualMachine); where a name is stored is the subject of Scope.    *)
(***************************************************************************)
EXTENDS Operators

CONSTANTS
  Literals,     \* the literals of the programs: their objects by name
  Environment,  \* the variables that have a value, and the objects
  Programs      \* the programs: see Program

\* An expression is a node: a literal or a variable with its name, an operator
\* with its operands, an attribute of an object, or a call, whose last arguments
\* may be named.  It stands in a statement of its own, as the last of the program
\* or in the middle, is assigned to a variable, or raised; "raise assignment" is
\* the assignment of the expression, raised.  pending tells whether an exception
\* is on its way through the finally block the program is in.
Node(kind, name, args, named) ==
  [kind |-> kind, name |-> name, args |-> args, named |-> named]
Program(tree, root, op, pending) ==
  [tree |-> tree, root |-> root, op |-> op, pending |-> pending]

VARIABLES
  program,  \* the program
  code,     \* its code
  ip,       \* the address of the next instruction
  stack,    \* the operands, above what the frame found there
  env,      \* the variables
  trace,    \* history: the calls of functions of the program
  made,     \* objects made so far
  exc,      \* Periwinkle::currentException, its type
  result,   \* the value the expression had
  phase     \* "compile", "run", "done", "error" or "crashed"

vars == <<program, code, ip, stack, env, trace, made, exc, result, phase>>

\* What lies on the stack below the frame's operands.
Below == Static("below", <<>>)

-----------------------------------------------------------------------------
(* The compiler. *)

I(op, name, n, named) == [op |-> op, name |-> name, n |-> n, named |-> named]
Short == {"and", "or"}
Comparisons == {"EQ", "NE", "GT", "GE", "LT", "LE"}

\* The order of the code of both operands.  Mutant: left first.
LeftFirst(left, right) == left \o right
Operands(left, right) == right \o left

RECURSIVE Code(_, _)
\* compileExpression, at an address; CodeOf compiles several, one after the other.
CodeOf(nodes, at) ==
  FoldLeft(LAMBDA acc, node : acc \o Code(node, at + Len(acc)), <<>>, nodes)

CodeShort(e, at) ==
  LET left == Code(e.args[1], at)
      right == Code(e.args[2], at + Len(left) + 1)
      jump == IF e.name = "and" THEN "JMP_IF_FALSE_OR_POP" ELSE "JMP_IF_TRUE_OR_POP"
  IN  left \o <<I(jump, "", at + Len(left) + 1 + Len(right), 0)>> \o right

\* The code of an operand has the same length wherever it stands.
CodeBinary(e, at) ==
  LET length(i) == Len(Code(e.args[i], at))
      operator == CASE e.name \in Comparisons -> "COMPARE"
                    [] e.name = "is" -> "IS"
                    [] OTHER -> "BINARY"
  IN  Append(Operands(Code(e.args[1], at + length(2)), Code(e.args[2], at)),
             I(operator, e.name, 0, 0))

\* compileAttributeExpression.
CodeAttribute(e, at, op) == Append(Code(e.args[1], at), I(op, e.name, 0, 0))

CodeCall(e, at) ==
  LET method == e.args[1].kind = "attribute"
      callee == IF method THEN CodeAttribute(e.args[1], at, "LOAD_METHOD")
                ELSE Code(e.args[1], at)
      argc == Len(e.args) - 1
  IN  callee \o CodeOf(Tail(e.args), at + Len(callee))
        \o <<I(IF method THEN "CALL_METHOD" ELSE "CALL", "", argc, e.named)>>

Code(e, at) ==
  CASE e.kind = "literal" -> <<I("LOAD_CONST", e.name, 0, 0)>>
    [] e.kind = "variable" -> <<I("LOAD_NAME", e.name, 0, 0)>>
    [] e.kind = "parenthesized" -> Code(e.args[1], at)
    [] e.kind = "unary" ->
         Append(Code(e.args[1], at),
                I(IF e.name = "not" THEN "NOT" ELSE "UNARY", e.name, 0, 0))
    [] e.kind = "binary" -> IF e.name \in Short THEN CodeShort(e, at) ELSE CodeBinary(e, at)
    [] e.kind = "attribute" -> CodeAttribute(e, at, "GET_ATTR")
    [] e.kind = "call" -> CodeCall(e, at)

\* compileAssignmentExpression, to the variable x; op is "" for a plain one.
CodeAssignment(e, op) ==
  Code(e, 1)
    \o (IF op = "" THEN <<>> ELSE <<I("LOAD_NAME", "x", 0, 0), I("BINARY", op, 0, 0)>>)
    \o <<I("STORE_NAME", "x", 0, 0)>>

\* compileStatement, compileRaiseStatement.
CodeProgram(p) ==
  CASE p.root = "statement" -> Append(Code(p.tree, 1), I("POP", "", 0, 0))
    [] p.root = "last" -> Append(Code(p.tree, 1), I("RETURN", "", 0, 0))
    [] p.root = "assignment" -> CodeAssignment(p.tree, p.op)
    [] p.root = "raise" -> Append(Code(p.tree, 1), I("RAISE", "", 0, 0))
    [] p.root = "raise assignment" -> Append(CodeAssignment(p.tree, p.op), I("RAISE", "", 0, 0))

Compile ==
  /\ phase = "compile"
  /\ code' = CodeProgram(program)
  /\ phase' = "run"
  /\ UNCHANGED <<program, ip, stack, env, trace, made, exc, result>>

-----------------------------------------------------------------------------
(* Attributes and calls. *)

\* Object::getAttr: the methods of the object's type, as many as the programs
\* use.  A type object is asked for those of the type "type", which has none.
HasAttribute(o, name) ==
  \/ name = "size" /\ o.type \in {"list", "string"}
  \/ name = "join" /\ o.type = "string"
Attribute(o, name) ==
  IF name = "join" THEN Static("native", <<"join">>) ELSE Static("method", <<o.type>>)

\* listSize, strSize.
Size(o, id) == Returns(Integer(Len(o.value), id))

\* strJoin.
JoinTexts(separator, items) ==
  FoldLeft(LAMBDA acc, i : acc \o (IF i = 1 THEN <<>> ELSE separator) \o Text(items[i]),
           <<>>, [i \in DOMAIN items |-> i])
Join(args, id) ==
  IF Len(args) # 2 \/ args[1].type # "string" \/ args[2].type # "list"
  THEN Throws("TypeError")
  ELSE Returns(Obj("string", JoinTexts(args[1].value, args[2].value), id))

\* typeCall: the constructor of a type.
Construct(type, args, id) ==
  CASE type = "list" -> Returns(Obj("list", args, id))
    [] type # "list" /\ Len(args) # 1 -> Throws("TypeError")
    [] type = "string" /\ Len(args) = 1 ->
         Returns(IF args[1].type = "string" THEN args[1] ELSE Obj("string", Text(args[1]), id))
    [] type = "bool" /\ Len(args) = 1 -> Returns(Bool(OperatorToBool(args[1])))
    [] type = "int" /\ Len(args) = 1 -> ToInteger(args[1], id)
    [] type = "real" /\ Len(args) = 1 -> ToReal(args[1], id)

\* callNativeMethod, of a method without parameters.
CallBound(instance, args, named, id) ==
  IF args # <<>> \/ named # <<>> THEN Throws("TypeError") ELSE Size(instance, id)

\* nativeMethodCall reads its first argument whether there is one or not.
CallUnbound(class, args, named, id) ==
  IF args = <<>> THEN Undefined
  ELSE IF args[1].type # class THEN Throws("TypeError")
  ELSE CallBound(args[1], Tail(args), named, id)

\* Object::call.
CallObject(callee, args, named, id) ==
  CASE callee.type = "function" ->
         IF callee.value = <<"raises">> THEN Throws("Exception")
         ELSE Returns(IF args = <<>> THEN Null ELSE Last(args))
    [] callee.type = "type" ->
         IF named = <<>> THEN Construct(callee.value[1], args, id) ELSE Throws("TypeError")
    [] callee.type = "method" -> CallUnbound(callee.value[1], args, named, id)
    [] callee.type = "native" -> IF named = <<>> THEN Join(args, id) ELSE Throws("TypeError")
    [] callee.type = "bound" -> CallBound(callee.value[1], args, named, id)
    [] OTHER -> Throws("TypeError")

\* What a call of a function of the program leaves in the trace.
Traced(callee, args, named) ==
  IF callee.type = "function" THEN <<[f |-> callee.value[1], args |-> args, named |-> named]>>
  ELSE <<>>

-----------------------------------------------------------------------------
(* The machine. *)

Instr == code[ip]
Executing(op) == phase = "run" /\ ip \in DOMAIN code /\ Instr.op = op

\* The operands, the topmost first.
Operand(k) == stack[Len(stack) - k + 1]
Popped(k) == SubSeq(stack, 1, Len(stack) - k)

Push(objects) ==
  /\ stack' = objects
  /\ ip' = ip + 1
  /\ UNCHANGED <<program, code, env, exc, result, phase>>

\* An instruction that pops k operands and pushes what an operator returns, or
\* goes to error:, where the stack is left to the handler of the exception.
Operate(k, outcome) ==
  /\ made' = made + 1
  /\ \/ /\ outcome.error = "none"
        /\ Push(Append(Popped(k), outcome.object))
     \/ /\ outcome.error # "none"
        /\ phase' = IF outcome.error = "undefined" THEN "crashed" ELSE "error"
        /\ exc' = outcome.error
        /\ UNCHANGED <<program, code, ip, stack, env, result>>

LoadConst ==
  /\ Executing("LOAD_CONST")
  /\ Push(Append(stack, Literals[Instr.name]))
  /\ UNCHANGED <<trace, made>>

LoadName ==
  /\ Executing("LOAD_NAME")
  /\ Operate(0, IF Instr.name \in DOMAIN env THEN Returns(env[Instr.name])
                ELSE Throws("NameError"))
  /\ UNCHANGED trace

BinaryOp ==
  /\ Executing("BINARY")
  /\ Operate(2, Binary(Instr.name, Operand(1), Operand(2), made + 1))
  /\ UNCHANGED trace

UnaryOp ==
  /\ Executing("UNARY")
  /\ Operate(1, Unary(Instr.name, Operand(1), made + 1))
  /\ UNCHANGED trace

CompareOp ==
  /\ Executing("COMPARE")
  /\ Operate(2, Compare(Instr.name, Operand(1), Operand(2)))
  /\ UNCHANGED trace

Is ==
  /\ Executing("IS")
  /\ Operate(2, Returns(Bool(Same(Operand(1), Operand(2)))))
  /\ UNCHANGED trace

Not ==
  /\ Executing("NOT")
  /\ Operate(1, Returns(Bool(~OperatorToBool(Operand(1)))))
  /\ UNCHANGED trace

\* Mutant: the operand stays when the jump is not taken.
KeptOnFall == stack
OnFall == Popped(1)

\* JMP_IF_FALSE_OR_POP, JMP_IF_TRUE_OR_POP: with an exception pending there is
\* no jump.
JumpOrPop(op, when) ==
  /\ Executing(op)
  /\ \/ /\ exc = "none"
        /\ LET jumps == ObjectToBool(Operand(1)) = when
           IN  /\ ip' = IF jumps THEN Instr.n ELSE ip + 1
               /\ stack' = IF jumps THEN stack ELSE OnFall
        /\ UNCHANGED phase
     \/ /\ exc # "none"
        /\ phase' = "error"
        /\ UNCHANGED <<ip, stack>>
  /\ UNCHANGED <<program, code, env, trace, made, exc, result>>

GetAttr ==
  /\ Executing("GET_ATTR")
  /\ Operate(1, IF HasAttribute(Operand(1), Instr.name)
                THEN Returns(Attribute(Operand(1), Instr.name))
                ELSE Throws("AttributeError"))
  /\ UNCHANGED trace

\* A native method is pushed with its object.
LoadMethod ==
  /\ Executing("LOAD_METHOD")
  /\ LET o == Operand(1)
         method == Attribute(o, Instr.name)
     IN  Operate(1,
           IF ~HasAttribute(o, Instr.name) THEN Throws("AttributeError")
           ELSE IF method.type = "method" THEN Returns(Obj("bound", <<o, method>>, made + 1))
           ELSE Returns(method))
  /\ UNCHANGED trace

\* CALL, CALL_NA, CALL_METHOD, CALL_METHOD_NA, whose argc counts the named
\* arguments.
Callee == Operand(Instr.n + 1)
Arguments == [i \in 1 .. Instr.n - Instr.named |-> Operand(Instr.n + 1 - i)]
NamedArguments == [i \in 1 .. Instr.named |-> Operand(Instr.named + 1 - i)]

Call ==
  /\ Executing("CALL") \/ Executing("CALL_METHOD")
  /\ trace' = trace \o Traced(Callee, Arguments, NamedArguments)
  /\ Operate(Instr.n + 1, CallObject(Callee, Arguments, NamedArguments, made + 1))

\* The end of the statement.
Ends(objects) ==
  /\ stack' = objects
  /\ result' = Operand(1)
  /\ UNCHANGED <<program, code, ip, trace, made>>

Pop ==
  /\ Executing("POP") \/ Executing("RETURN")
  /\ Ends(Popped(1))
  /\ phase' = "done"
  /\ UNCHANGED <<env, exc>>

\* The statement ends with it, or RAISE follows.
StoreName ==
  /\ Executing("STORE_NAME")
  /\ stack' = Popped(1)
  /\ env' = [n \in DOMAIN env \cup {Instr.name} |-> IF n = Instr.name THEN Operand(1) ELSE env[n]]
  /\ result' = Operand(1)
  /\ ip' = ip + 1
  /\ phase' = IF ip = Len(code) THEN "done" ELSE "run"
  /\ UNCHANGED <<program, code, trace, made, exc>>

Raise ==
  /\ Executing("RAISE")
  /\ Ends(Popped(1))
  /\ exc' = CASE Operand(1) = Below -> "undefined"
              [] Operand(1).type = "exception" -> Operand(1).value[1]
              [] OTHER -> "TypeError"
  /\ phase' = IF exc' = "undefined" THEN "crashed" ELSE "error"
  /\ UNCHANGED env

Init ==
  /\ program \in Programs
  /\ code = <<>>
  /\ ip = 1
  /\ stack = <<Below>>
  /\ env = Environment
  /\ trace = <<>>
  /\ made = 0
  /\ exc = IF program.pending THEN "pending" ELSE "none"
  /\ result = Null
  /\ phase = "compile"

Next ==
  \/ Compile
  \/ LoadConst
  \/ LoadName
  \/ BinaryOp
  \/ UnaryOp
  \/ CompareOp
  \/ Is
  \/ Not
  \/ JumpOrPop("JMP_IF_FALSE_OR_POP", FALSE)
  \/ JumpOrPop("JMP_IF_TRUE_OR_POP", TRUE)
  \/ GetAttr
  \/ LoadMethod
  \/ Call
  \/ Pop
  \/ StoreName
  \/ Raise

Spec == Init /\ [][Next]_vars
-----------------------------------------------------------------------------
(* What a program means, by its tree: what its author reads in it. *)

\* An operator on two objects: a table by their types that looks the same from
\* either side.  "odd" is what the code answers otherwise than written: integer
\* \ reads one operand, the remainder and the real quotient by zero are not
\* checked, strings and lists are not compared as they are written.
Odd == Throws("odd")
Both(type, a, b) == a.type = type /\ b.type = type
WrittenNumbers(op, a, b, id) ==
  LET x == RatioOf(a)
      y == RatioOf(b)
      Number(z) == IF Both("int", a, b) THEN Integer(z[1], id) ELSE Obj("real", z, id)
  IN  CASE op = "+" -> Returns(Number(Plus(x, y)))
        [] op = "-" -> Returns(Number(Plus(x, Negated(y))))
        [] op = "*" -> Returns(Number(Times(x, y)))
        [] op = "/" -> IF IsZero(b) THEN Throws("DivisionByZeroError")
                       ELSE Returns(Obj("real", Over(x, y), id))
        [] op = "\\" -> IF Both("int", a, b) \/ IsZero(b) THEN Odd
                        ELSE Returns(Obj("real", Floor(Over(x, y)), id))
        [] op = "%" -> IF ~Both("int", a, b) THEN Throws("TypeError")
                       ELSE IF IsZero(b) THEN Odd
                       ELSE Returns(Integer(Remainder(x[1], y[1]), id))
Written(op, a, b, id) ==
  CASE Numeric(a) /\ Numeric(b) -> WrittenNumbers(op, a, b, id)
    [] op = "+" /\ "string" \in {a.type, b.type} /\ Joinable(a) /\ Joinable(b) ->
         Returns(Obj("string", Text(a) \o Text(b), id))
    [] op = "+" /\ Both("list", a, b) -> Returns(Obj("list", a.value \o b.value, id))
    [] OTHER -> Throws("TypeError")
WrittenComparison(op, a, b) ==
  CASE Numeric(a) /\ Numeric(b) -> Returns(Bool(CompareRatios(op, RatioOf(a), RatioOf(b))))
    [] op \notin {"EQ", "NE"} -> Throws("TypeError")
    [] Both("string", a, b) \/ Both("list", a, b) -> Odd
    [] OTHER -> Returns(Bool((op = "EQ") = Same(a, b)))
Truth(o) ==
  CASE Numeric(o) -> ~IsZero(o)
    [] o.type = "bool" -> o = Bool(TRUE)
    [] o.type \in {"string", "list"} -> o.value # <<>>
    [] OTHER -> TRUE

\* An evaluation: what it came to, the calls it made, the objects made, and the
\* values of the arguments so far.
Begin == [error |-> "none", object |-> Null, trace |-> <<>>, made |-> 0, values |-> <<>>]
Gives(s, outcome) ==
  [s EXCEPT !.error = outcome.error, !.object = outcome.object, !.made = @ + 1]
With(s, values) == [s EXCEPT !.values = Append(values, s.object)]
Name(s, name) ==
  Gives(s, IF name \in DOMAIN Environment THEN Returns(Environment[name])
           ELSE Throws("NameError"))

\* A type has the attributes of its objects, and of nothing else.
Lookup(o, name) ==
  IF o.type = "type" THEN (IF HasAttribute(Static(o.value[1], <<>>), name) THEN Odd
                           ELSE Throws("AttributeError"))
  ELSE IF HasAttribute(o, name) THEN Returns(Attribute(o, name))
  ELSE Throws("AttributeError")
\* A method called on its object takes it as the first argument.
Applied(callee, args, named, id) ==
  CASE callee.type = "type" /\ callee.value = <<"bool">> /\ Len(args) = 1
         /\ args[1].type = "real" -> Odd
    [] callee.type = "method" /\ args = <<>> -> Odd
    [] OTHER -> CallObject(callee, args, named, id)

\* What follows, unless s has raised.
Then(s, Rest(_)) == IF s.error # "none" THEN s ELSE Rest(s)

RECURSIVE Meaning(_, _)
\* Several expressions, from the left; stop at the first that raises.
MeaningOf(nodes, s) ==
  FoldLeft(LAMBDA acc, node : Then(acc, LAMBDA before : With(Meaning(node, before), before.values)),
           [s EXCEPT !.values = <<>>], nodes)

\* s: what the arguments came to.
MeaningApplied(callee, bound, n, s) ==
  LET plain == bound \o SubSeq(s.values, 1, Len(s.values) - n)
      named == SubSeq(s.values, Len(s.values) - n + 1, Len(s.values))
  IN  Gives([s EXCEPT !.trace = @ \o Traced(callee, plain, named)],
            Applied(callee, plain, named, s.made + 1))
MeaningArguments(e, bound, callee) ==
  Then(MeaningOf(Tail(e.args), callee),
       LAMBDA s : MeaningApplied(callee.object, bound, e.named, s))
MeaningCall(e, s) ==
  IF e.args[1].kind # "attribute"
  THEN Then(Meaning(e.args[1], s), LAMBDA callee : MeaningArguments(e, <<>>, callee))
  ELSE Then(Meaning(e.args[1].args[1], s), LAMBDA target :
         Then(Gives(target, Lookup(target.object, e.args[1].name)), LAMBDA callee :
           MeaningArguments(e, IF callee.object.type = "method" THEN <<target.object>> ELSE <<>>,
                            callee)))

\* The right operand of a binary operator comes first; "and" and "or" evaluate
\* the right one when the left one does not decide, and give the last one
\* evaluated.
Answer(op, a, b, id) ==
  CASE op \in Comparisons -> WrittenComparison(op, a, b)
    [] op = "is" -> Returns(Bool(Same(a, b)))
    [] OTHER -> Written(op, a, b, id)
MeaningBinary(e, s) ==
  Then(Meaning(e.args[2], s), LAMBDA right :
    Then(Meaning(e.args[1], right), LAMBDA left :
      Gives(left, Answer(e.name, left.object, right.object, left.made + 1))))
MeaningShort(e, s) ==
  Then(Meaning(e.args[1], s), LAMBDA left :
    IF Truth(left.object) = (e.name = "or") THEN left ELSE Meaning(e.args[2], left))
MeaningUnary(e, s) ==
  Then(Meaning(e.args[1], s), LAMBDA operand :
    Gives(operand, IF e.name # "not" THEN Unary(e.name, operand.object, operand.made + 1)
                   ELSE IF operand.object.type = "real" THEN Odd
                   ELSE Returns(Bool(~Truth(operand.object)))))

Meaning(e, s) ==
  CASE e.kind = "literal" -> [s EXCEPT !.object = Literals[e.name]]
    [] e.kind = "variable" -> Name(s, e.name)
    [] e.kind = "parenthesized" -> Meaning(e.args[1], s)
    [] e.kind = "unary" -> MeaningUnary(e, s)
    [] e.kind = "binary" -> IF e.name \in Short THEN MeaningShort(e, s) ELSE MeaningBinary(e, s)
    [] e.kind = "attribute" ->
         Then(Meaning(e.args[1], s), LAMBDA o : Gives(o, Lookup(o.object, e.name)))
    [] e.kind = "call" -> MeaningCall(e, s)

\* The assignment with an operator reads the variable after the expression.
MeaningAssigned(e, op) ==
  Then(Meaning(e, Begin), LAMBDA value :
    IF op = "" THEN value
    ELSE Then(Name(value, "x"), LAMBDA old :
           Gives(old, Written(op, old.object, value.object, old.made + 1))))
\* With an exception pending there is no "and" and no "or"; an assignment has no
\* value to raise.
HasMeaning(p) == ~p.pending /\ p.root # "raise assignment"
MeaningOfProgram(p) ==
  CASE p.root = "assignment" -> MeaningAssigned(p.tree, p.op)
    [] p.root = "raise" ->
         Then(Meaning(p.tree, Begin), LAMBDA s :
           [s EXCEPT !.error = IF s.object.type = "exception" THEN s.object.value[1]
                               ELSE "TypeError"])
    [] OTHER -> Meaning(p.tree, Begin)

ComesTo(s) ==
  \/ s.error = "odd"
  \/ /\ trace = s.trace
     /\ exc = s.error
     /\ phase = IF s.error = "none" THEN "done" ELSE "error"
     /\ phase = "done" => result = s.object
     /\ (phase = "done" /\ program.root = "assignment") => env["x"] = s.object

\* A program comes to what is written in it: compiled to a stack machine whose
\* operators choose among the functions of both operands' types, it calls the
\* same functions in the same order with the same arguments, and ends with the
\* same object, or the same exception (compileExpression, callBinaryOperator,
\* callCompareOperator, JMP_IF_FALSE_OR_POP, CALL_NA, LOAD_METHOD).
EvaluatesAsWritten ==
  (phase \in {"done", "error", "crashed"} /\ HasMeaning(program)) =>
    ComesTo(MeaningOfProgram(program))

\* Whatever way an expression takes, it leaves one object: the stack is never
\* taken below where the frame found it, and a statement that ends leaves it
\* there (compileStatement, JMP_IF_TRUE_OR_POP, CALL_METHOD).  An assignment
\* that is raised has left none (compileRaiseStatement).
StackKept ==
  program.root # "raise assignment" =>
    /\ stack # <<>> /\ stack[1] = Below
    /\ phase = "done" => stack = <<Below>>
=============================================================================
