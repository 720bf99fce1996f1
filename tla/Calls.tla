-------------------------------- MODULE Calls --------------------------------
(***************************************************************************)
(* One call, from the operands on the caller's stack to the result in      *)
(* their place: CALL, CALL_NA, CALL_METHOD and CALL_METHOD_NA (vm.cpp),    *)
(* validateCall, fnCall for functions of the program, nativeCall and       *)
(* callNativeMethod for those of the interpreter, and ArgParser, which     *)
(* they use.  A behaviour is one call of one callee.                       *)
(*                                                                         *)
(* A value on the stack is what it stands for: the i-th positional         *)
(* argument, the argument named after the d-th default parameter, the      *)
(* d-th default value.  Stacks are sequences; sp is the length.  The       *)
(* instance of a method is not counted, as it is passed apart.             *)
(***************************************************************************)
EXTENDS Naturals, Sequences, SequencesExt, FiniteSets, FiniteSetsExt

CONSTANTS
  Callees,        \* what can be called
  MaxPositional,  \* bound on the positional arguments of a call
  MaxNamed        \* bound on the named arguments of a call

\* A function of the program, or of the interpreter; a method of an object or
\* the constructor of a type; a method without its object.
Kinds == {"function", "native", "method", "unbound"}
Callee == [kind : Kinds, required : Nat, defaults : Nat, variadic : BOOLEAN]

ASSUME CallAssumption ==
  /\ Callees \subseteq Callee
  /\ {MaxPositional, MaxNamed} \subseteq Nat

\* What the interpreter has with default parameters has one (builtins.cpp,
\* string_object.cpp, exception_object.cpp).
ASSUME NativeAssumption ==
  \A c \in Callees : c.kind # "function" => c.defaults <= 1

VARIABLES
  callee, \* the callee
  argc,   \* how many positional arguments are counted on the stack
  named,  \* NamedArgs::names, as indices of default parameters
  values, \* NamedArgs::values
  stack,  \* the stack up to sp
  list,   \* the items of the variadic list
  seen,   \* what the callee finds in its parameters
  phase   \* how far the call is

vars == <<callee, argc, named, values, stack, list, seen, phase>>

Below == <<"below">>
TheCallee == <<"callee">>
Instance == <<"instance">>
TheList == <<"list">>
Result == <<"result">>
Positional(i) == <<"positional", i>>
Named(d) == <<"named", d>>
Default(d) == <<"default", d>>
\* What a parameter holds that is given nothing.
Nothing == <<"nothing">>

IsMethod == callee.kind \in {"method", "unbound"}
Arity == callee.required + callee.defaults
DefaultNames == 1 .. callee.defaults

\* The last k elements, and all but these.
LastOf(s, k) == SubSeq(s, Len(s) - k + 1, Len(s))
Drop(s, k) == SubSeq(s, 1, Len(s) - k)

-----------------------------------------------------------------------------
(* The call of a program: distinct names (compileCallExpression), of default  *)
(* parameters or not, after the positional arguments.                         *)

\* A method of an object comes with it; called without one, its first
\* argument is the object.
FirstArgument == IF callee.kind = "unbound" THEN <<Instance>> ELSE <<>>

Pushed(p, names) ==
  <<Below, TheCallee>> \o FirstArgument
    \o [i \in 1 .. p |-> Positional(i)] \o [i \in DOMAIN names |-> Named(names[i])]

Init ==
  /\ callee \in Callees
  /\ argc \in 0 .. MaxPositional
  /\ named \in {s \in BoundedSeq(1 .. MaxNamed, MaxNamed) :
                  Cardinality(ToSet(s)) = Len(s)}
  /\ values = <<>>
  /\ stack = Pushed(argc, named)
  /\ list = <<>>
  /\ seen = <<>>
  /\ phase = "call"

-----------------------------------------------------------------------------
(* The steps of a call. *)

\* CALL_NA and CALL_METHOD_NA pop the named arguments, the last one first.
PopNamed ==
  /\ phase = "call"
  /\ values' = Reverse(LastOf(stack, Len(named)))
  /\ stack' = Drop(stack, Len(named))
  /\ phase' = "validate"
  /\ UNCHANGED <<callee, argc, named, list, seen>>

\* validateCall.  Mutant: it compares with all parameters.
TooFewForAll == argc < Arity
TooFew == argc < callee.required
\* argc without what goes in the variadic list.
Counted == IF callee.variadic THEN callee.required ELSE argc
TooMany == Counted > Arity
UnknownNames == ~(ToSet(named) \subseteq DefaultNames)
\* max_element finds an element whatever the comparison says: any named
\* argument is taken for the one that is given twice.  Mutant: none is.
NeverTwice == FALSE
GivenTwice == Counted > callee.required /\ named # <<>>

Accepts == ~TooFew /\ ~TooMany /\ ~UnknownNames /\ ~GivenTwice

Reject ==
  /\ phase = "validate" /\ ~Accepts
  /\ phase' = "rejected"
  /\ UNCHANGED <<callee, argc, named, values, stack, list, seen>>
Accept ==
  /\ phase = "validate" /\ Accepts
  /\ phase' = "collect"
  /\ UNCHANGED <<callee, argc, named, values, stack, list, seen>>

\* The variadic list.  fnCall pops its items and pushes it, nativeCall pops
\* them, callNativeMethod passes them in the list and leaves them.  Mutant: the
\* last required argument is taken for one.
ExtraOffByOne == argc - callee.required + 1
Extra == argc - callee.required
CollectVariadic ==
  /\ phase = "collect"
  /\ IF callee.variadic
     THEN /\ list' = LastOf(stack, Extra)
          /\ stack' = CASE callee.kind = "function" -> Append(Drop(stack, Extra), TheList)
                        [] callee.kind = "native" -> Drop(stack, Extra)
                        [] OTHER -> stack
          /\ argc' = IF IsMethod THEN argc ELSE argc - Extra
     ELSE UNCHANGED <<list, stack, argc>>
  /\ phase' = IF callee.kind = "function" THEN "fill" ELSE "parse"
  /\ UNCHANGED <<callee, named, values, seen>>

\* namedArgIndexes holds the names, so this is the value that fnCall finds for
\* a default parameter.  Mutant: in the order they were popped.
NamedValueAsPopped(d) == values[Min({i \in DOMAIN named : named[i] = d})]
NamedValue(d) ==
  values[Len(named) - Min({i \in DOMAIN named : named[i] = d}) + 1]

\* fnCall pushes what the default parameters are given: with named arguments,
\* each of them; without, as many as lack an argument, the last ones.
Lacking == [i \in 1 .. Arity - argc |-> Default(callee.defaults - (Arity - argc) + i)]
FillDefaults ==
  /\ phase = "fill"
  /\ stack' = stack \o
       (IF callee.defaults = 0 THEN <<>>
        ELSE IF named # <<>>
        THEN [d \in DefaultNames |-> IF d \in ToSet(named) THEN NamedValue(d) ELSE Default(d)]
        ELSE Lacking)
  /\ phase' = "enter"
  /\ UNCHANGED <<callee, argc, named, values, list, seen>>

\* The locals of the new frame (frameFromFunctionObject): bp is found from the
\* top of the stack, its first local is the function.
NumLocals == Arity + 1 + (IF callee.variadic THEN 1 ELSE 0)
Enter ==
  /\ phase = "enter"
  /\ seen' = LastOf(stack, NumLocals)
  /\ phase' = "running"
  /\ UNCHANGED <<callee, argc, named, values, stack, list>>

\* ArgParser::parse: the arguments, then, counted from the first parameter
\* that has none, the default parameters; named values in the order they were
\* popped, which is right for one.
ParsedNamed(d) == values[Min({i \in DOMAIN named : named[i] = d})]
Args == LastOf(stack, argc)
ParsedDefault(d) == IF d \in ToSet(named) THEN ParsedNamed(d) ELSE Default(d)
Parsed ==
  [i \in 1 .. Arity |->
     IF i <= argc THEN Args[i]
     ELSE IF callee.defaults = 0 THEN Nothing
     ELSE ParsedDefault(i - argc)]
Parse ==
  /\ phase = "parse"
  /\ seen' = IF callee.variadic /\ IsMethod THEN <<>> ELSE Parsed
  /\ phase' = "running"
  /\ UNCHANGED <<callee, argc, named, values, stack, list>>

\* An argument has not the type that parse wants.  Only nativeCall pops the
\* arguments all the same.
ParseFails ==
  /\ phase = "parse"
  /\ stack' = IF callee.kind = "native" THEN Drop(stack, argc + 1) ELSE stack
  /\ phase' = "rejected"
  /\ UNCHANGED <<callee, argc, named, values, list, seen>>

\* How many slots the call pops when the callee is done.  Mutant: not the callee.
PoppedArguments == argc + Len(FirstArgument)
Popped ==
  IF callee.kind = "function" THEN NumLocals
  ELSE argc + 1 + Len(FirstArgument)
Return ==
  /\ phase = "running"
  /\ stack' = Append(Drop(stack, Popped), Result)
  /\ phase' = "returned"
  /\ UNCHANGED <<callee, argc, named, values, list, seen>>

Next ==
  \/ PopNamed
  \/ Reject
  \/ Accept
  \/ CollectVariadic
  \/ FillDefaults
  \/ Enter
  \/ Parse
  \/ ParseFails
  \/ Return

Spec == Init /\ [][Next]_vars

-----------------------------------------------------------------------------
(* What a call means. *)

\* How many positional arguments the program passes.
Passed == Cardinality({i \in DOMAIN stack : stack[i][1] = "positional"})

\* A call is in order: every parameter without a default value is given one,
\* no argument is left over, every name is that of a default parameter, and
\* none of these is given by position too.
InOrder ==
  /\ callee.required <= Passed
  /\ callee.variadic \/ Passed <= Arity
  /\ ToSet(named) \subseteq DefaultNames
  /\ callee.variadic \/ \A d \in ToSet(named) : Passed < callee.required + d

\* The p positional arguments bound by position, the others by name.
MeaningOfDefault(p, d) ==
  IF d \in ToSet(named) THEN Named(d)
  ELSE IF ~callee.variadic /\ callee.required + d <= p
       THEN Positional(callee.required + d)
       ELSE Default(d)
Required == [i \in 1 .. callee.required |-> Positional(i)]
Meaning(p) ==
  LET defaults == [d \in DefaultNames |-> MeaningOfDefault(p, d)]
      variadic == IF callee.variadic THEN <<TheList>> ELSE <<>>
  IN  CASE callee.kind = "function" -> <<TheCallee>> \o Required \o variadic \o defaults
        [] callee.variadic /\ IsMethod -> <<>>
        [] OTHER -> Required \o defaults

\* The number of positional arguments, once they are on the way.
Given == IF callee.variadic THEN callee.required + Len(list) ELSE argc

CallTypeOK ==
  /\ callee \in Callees
  /\ argc \in 0 .. MaxPositional
  /\ phase \in {"call", "validate", "collect", "fill", "enter", "parse",
                "running", "returned", "rejected"}

\* A callee that runs finds each parameter bound to the argument that stands for
\* it, and the rest in the variadic list, in order: fnCall and ArgParser put
\* defaults, named arguments and the list where the compiler numbers the
\* parameters (and bp, counted from the top, is the slot of the function).
BoundRight ==
  phase = "running" =>
    /\ seen = Meaning(Given)
    /\ list = [i \in DOMAIN list |-> Positional(callee.required + i)]

\* When a call returns, its result has taken the place of the callee and all
\* arguments, whatever was pushed and popped on the way: nothing of the caller
\* is lost and nothing left over.
StackBalanced == phase = "returned" => stack = <<Below, Result>>

\* What validateCall accepts is in order: no callee is run with a parameter that
\* is given nothing or twice.
OnlyInOrder == phase = "collect" => InOrder

\* And validateCall accepts what is in order, but for a call that passes a
\* default parameter by position and another by name.
InOrderAccepted ==
  phase = "validate" /\ InOrder /\ ~Accepts =>
    ~callee.variadic /\ named # <<>> /\ Passed > callee.required
=============================================================================
