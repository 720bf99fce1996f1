------------------------------ MODULE Compiler ------------------------------
(***************************************************************************)
(* The code generator (periwinkle/compiler/compiler.cpp) for statements:   *)
(* one action per statement, or per edge of a compound statement, emits    *)
(* its instructions, patches jumps and registers exception handlers.  A    *)
(* behaviour of the phase "compile" is one program: the statements it has  *)
(* are chosen as they are compiled.                                        *)
(*                                                                         *)
(* Abstracted: an expression is one instruction EVAL, names are dropped    *)
(* (STORE, LOAD) but those of the variables of catch blocks, and an        *)
(* instruction and its operand share one address.                          *)
(***************************************************************************)
EXTENDS Integers, Sequences, SequencesExt, FiniteSets

CONSTANTS
  Types,          \* exception types, positive numbers
  CatchNames,     \* names of variables of catch blocks, positive numbers
  MaxStatements,  \* bound on the statements of a program
  FinallySize,    \* what a finally block counts for among them, 0 or 1
  MaxNesting,     \* bound on the compound statements around a statement
  MaxCatches,     \* bound on the catch blocks of a try statement
  MaxCodes,       \* bound on the code objects of a program
  Statements,     \* kinds of statements the programs of this instance have
  Features        \* what else they do, see below

(***************************************************************************)
(* Programs the interpreter runs differently than written:                 *)
(*   "jumpFromTry"    break, continue or return inside a try statement     *)
(*                    that it leaves,                                      *)
(*   "breakForEach"   break inside a for-each loop,                        *)
(*   "tryInFinally"   a finally block with a try statement in it, or in a  *)
(*                    function it calls,                                   *)
(*   "jumpFunction"   break or continue in a function declared in a loop,  *)
(*                    for that loop,                                       *)
(*   "recursiveTry"   a function with a try statement calls itself,        *)
(*   "sameCatchName"  a catch block inside another one whose variable has  *)
(*                    the same name.                                       *)
(***************************************************************************)
FeatureNames ==
  {"jumpFromTry", "breakForEach", "tryInFinally", "jumpFunction", "recursiveTry",
   "sameCatchName"}
StatementNames ==
  {"expression", "while", "foreach", "if", "try", "finally", "break", "continue",
   "return", "raise", "function"}

ASSUME ProgramAssumption ==
  /\ Types \subseteq Nat \ {0}
  /\ CatchNames \subseteq Nat \ {0}
  /\ {MaxStatements, MaxNesting, MaxCatches, MaxCodes} \subseteq Nat
  /\ FinallySize \in {0, 1}
  /\ Statements \subseteq StatementNames
  /\ Features \subseteq FeatureNames

VARIABLES
  codes,  \* the code objects: their code, their exception handlers
  cur,    \* which of them codeObject points to
  states, \* stateStack
  open,   \* the statements being compiled: what their C++ functions hold
  size,   \* statements so far
  used,   \* history: which Features the program has used
  phase   \* "compile", "run", "error" or "done"

compilerVars == <<codes, cur, states, open, size>>

NoAddress == 0
NoName == 0

\* An exception handler; catches are the addresses of its catch blocks, which
\* the code does not record.
Handler == [start : Nat, first : Nat, end : Nat, finally : Nat, catches : Seq(Nat)]

Ops == {"EVAL", "POP", "STORE", "LOAD", "LOAD_CONST", "MAKE_FUNCTION", "GET_ITER",
        "FOR_EACH", "JMP", "JMP_IF_FALSE", "RETURN", "RAISE", "TRY", "CATCH", "END_TRY",
        "DELETE"}
Instruction == [op : Ops, arg : Nat]
\* The instructions whose operand is an address.
Jumps == {"FOR_EACH", "JMP", "JMP_IF_FALSE", "CATCH"}

I(op) == [op |-> op, arg |-> 0]
Ia(op, arg) == [op |-> op, arg |-> arg]

Code == codes[cur].code
\* getOffset: the address of the next instruction.
Offset == Len(Code) + 1

Patched(code, at, target) ==
  [a \in DOMAIN code |-> IF a \in at THEN [code[a] EXCEPT !.arg = target] ELSE code[a]]

SetCode(code) == codes' = [codes EXCEPT ![cur].code = code]
Emit(instructions) == SetCode(Code \o instructions)

-----------------------------------------------------------------------------
(* The statements being compiled. *)

\* exit and ends are jumps to patch when the statement ends, start the address a
\* loop continues at or of TRY, first that of the first handler, name the
\* variable of a catch block.
Statement(kind, start, exit) ==
  [kind |-> kind, start |-> start, exit |-> exit, ends |-> {},
   first |-> NoAddress, finally |-> NoAddress, catches |-> <<>>, name |-> NoName]

Enclosing == open[Len(open)]
Inside(kind) == open # <<>> /\ Enclosing.kind = kind
Push(s) == open' = Append(open, s)
Replace(s) == open' = [open EXCEPT ![Len(open)] = s]
PopOpen == open' = Front(open)

\* unwindStateStack: the last state of a type, whatever is above it.
StateAt(type) == {i \in DOMAIN states : states[i].type = type}
Unwound(type) == CHOOSE i \in StateAt(type) : \A j \in StateAt(type) : j <= i

State(type, start, depth) ==
  [type |-> type, start |-> start, ends |-> {}, depth |-> depth]

\* Which statements a jump to state i leaves.
Left(i) == {open[j].kind : j \in states[i].depth + 1 .. Len(open)}
TryKinds == {"try", "handlers", "catch", "finally"}

\* A statement goes in a block, at most MaxStatements of them.  A try statement
\* between its blocks is not one.
InBlock == ~Inside("handlers")
In(kind) == \E i \in DOMAIN open : open[i].kind = kind
Using(features) == features \subseteq Features /\ used' = used \cup features
Begin(kind) ==
  /\ phase = "compile"
  /\ kind \in Statements
  /\ size < MaxStatements
  /\ InBlock
  /\ size' = size + 1
  /\ UNCHANGED phase
BeginPlain(kind) == Begin(kind) /\ Using({})
BeginCompound(kind) == BeginPlain(kind) /\ Len(open) < MaxNesting
End == phase = "compile" /\ UNCHANGED <<size, used, phase>>

-----------------------------------------------------------------------------
(* Statements. *)

ExpressionStatement ==
  /\ BeginPlain("expression")
  /\ Emit(<<I("EVAL"), I("POP")>>)
  /\ UNCHANGED <<cur, states, open>>

BeginWhile ==
  /\ BeginCompound("while")
  /\ Emit(<<I("EVAL"), I("JMP_IF_FALSE")>>)
  /\ Push(Statement("while", Offset, Offset + 1))
  /\ states' = Append(states, State("LOOP", Offset, Len(open) + 1))
  /\ UNCHANGED cur

BeginForEach ==
  /\ BeginCompound("foreach")
  /\ Emit(<<I("EVAL"), I("GET_ITER"), I("FOR_EACH"), I("STORE")>>)
  /\ Push(Statement("foreach", Offset + 2, Offset + 2))
  /\ states' = Append(states, State("LOOP", Offset + 2, Len(open) + 1))
  /\ UNCHANGED cur

\* What to patch.  Mutant: the breaks are forgotten.
LoopPatchesExit == {Enclosing.exit}
LoopPatches == {Enclosing.exit} \cup Last(states).ends

\* Mutant: the breaks are patched to the jump back.
LoopExitAtJump(code) == Len(code)
LoopExit(code) == Len(code) + 1

\* The end of both loops: the jump back, then its own exit and the breaks are
\* patched to what follows, in the current code object (which a break in a
\* function declared in the loop was not emitted to).
EndLoop ==
  /\ End
  /\ Inside("while") \/ Inside("foreach")
  /\ LET code == Append(Code, Ia("JMP", Enclosing.start))
     IN  SetCode(Patched(code, LoopPatches, LoopExit(code)))
  /\ PopOpen
  /\ states' = Front(states)
  /\ UNCHANGED cur

\* A jump out of the function being compiled finds the loop all the same.
Crosses(i) == \E j \in i + 1 .. Len(states) : states[j].type = "FUNCTION"
JumpUses(i) ==
  (IF Crosses(i) THEN {"jumpFunction"} ELSE {})
    \cup (IF Left(i) \cap TryKinds # {} THEN {"jumpFromTry"} ELSE {})

Break ==
  /\ Begin("break")
  /\ StateAt("LOOP") # {}
  /\ LET i == Unwound("LOOP") IN
       /\ Using(JumpUses(i) \cup
                  IF open[states[i].depth].kind = "foreach" THEN {"breakForEach"} ELSE {})
       /\ states' = [states EXCEPT ![i].ends = @ \cup {Offset}]
  /\ Emit(<<I("JMP")>>)
  /\ UNCHANGED <<cur, open>>

Continue ==
  /\ Begin("continue")
  /\ StateAt("LOOP") # {}
  /\ LET i == Unwound("LOOP") IN
       Using(JumpUses(i)) /\ Emit(<<Ia("JMP", states[i].start)>>)
  /\ UNCHANGED <<cur, states, open>>

BeginIf ==
  /\ BeginCompound("if")
  /\ Emit(<<I("EVAL"), I("JMP_IF_FALSE")>>)
  /\ Push(Statement("if", NoAddress, Offset + 1))
  /\ UNCHANGED <<cur, states>>

Else ==
  /\ End
  /\ Inside("if")
  /\ LET code == Append(Code, I("JMP"))
     IN  SetCode(Patched(code, {Enclosing.exit}, Len(code) + 1))
  /\ Replace(Statement("else", NoAddress, Offset))
  /\ UNCHANGED <<cur, states>>

EndIf ==
  /\ End
  /\ Inside("if") \/ Inside("else")
  /\ SetCode(Patched(Code, {Enclosing.exit}, Offset))
  /\ PopOpen
  /\ UNCHANGED <<cur, states>>

Return ==
  /\ Begin("return")
  /\ StateAt("FUNCTION") # {}
  /\ Using(JumpUses(Unwound("FUNCTION")) \ {"jumpFunction"})
  /\ Emit(<<I("EVAL"), I("RETURN")>>)
  /\ UNCHANGED <<cur, states, open>>

Raise ==
  /\ BeginPlain("raise")
  /\ Emit(<<I("EVAL"), I("RAISE")>>)
  /\ UNCHANGED <<cur, states, open>>

-----------------------------------------------------------------------------
(* Try statements. *)

BeginTry ==
  /\ Begin("try") /\ Len(open) < MaxNesting
  /\ Using(IF In("finally") THEN {"tryInFinally"} ELSE {})
  /\ Emit(<<I("TRY")>>)
  /\ Push(Statement("try", Offset, NoAddress))
  /\ UNCHANGED <<cur, states>>

\* firstHandlerAddress.  Mutant: taken before the jump over the handlers.
FirstHandlerAtJump == Offset
FirstHandler == Offset + 1

\* The end of the protected block.
EndTryBlock ==
  /\ End
  /\ Inside("try")
  /\ Emit(<<I("JMP")>>)
  /\ Replace([Enclosing EXCEPT !.kind = "handlers", !.ends = {Offset},
                               !.first = FirstHandler])
  /\ UNCHANGED <<cur, states>>

\* The exception is dropped, or is the value of a variable until the block ends.
BeginCatch(type, name) ==
  /\ phase = "compile" /\ UNCHANGED <<size, phase>>
  /\ Inside("handlers") /\ Len(Enclosing.catches) < MaxCatches
  /\ Using(IF name # NoName /\ \E i \in DOMAIN open : open[i].kind = "catch" /\ open[i].name = name
           THEN {"sameCatchName"} ELSE {})
  /\ Emit(<<Ia("LOAD", type), I("CATCH"),
            IF name = NoName THEN I("POP") ELSE Ia("STORE", name)>>)
  /\ open' = Append([open EXCEPT ![Len(open)].catches = Append(@, Offset)],
                    [Statement("catch", NoAddress, Offset + 1) EXCEPT !.name = name])
  /\ UNCHANGED <<cur, states>>

Deletes(name) == IF name = NoName THEN <<>> ELSE <<Ia("DELETE", name)>>

\* Where a catch block that does not match continues, when the block's code is
\* followed by a jump out of the statement: at that jump.
MismatchTarget(code) == Len(code) + 1

EndCatch ==
  /\ End
  /\ Inside("catch")
  /\ LET code == Code \o Deletes(Enclosing.name)
     IN  /\ SetCode(Append(Patched(code, {Enclosing.exit}, MismatchTarget(code)), I("JMP")))
         /\ open' = [Front(open) EXCEPT ![Len(open) - 1].ends = @ \cup {Len(code) + 1}]
  /\ UNCHANGED <<cur, states>>

\* The end of the last handler: the jumps out of the blocks are patched to the
\* finally block, or to END_TRY.
BeginFinally ==
  /\ phase = "compile" /\ UNCHANGED <<used, phase>>
  /\ "finally" \in Statements
  /\ size' = size + FinallySize /\ size' <= MaxStatements
  /\ Inside("handlers") /\ Enclosing.catches # <<>>
  /\ SetCode(Patched(Code, Enclosing.ends, Offset))
  /\ Replace([Enclosing EXCEPT !.kind = "finally", !.ends = {}, !.finally = Offset])
  /\ UNCHANGED <<cur, states>>

\* Mutant: the address after END_TRY.
EndAddressLate == Offset + 1
EndAddress == Offset

\* Mutant: the outer handler first.
RegisterFirst(handlers, h) == <<h>> \o handlers
Register(handlers, h) == Append(handlers, h)

EndTry ==
  /\ End
  /\ Inside("finally") \/ (Inside("handlers") /\ Enclosing.catches # <<>>)
  /\ LET handler == [start |-> Enclosing.start, first |-> Enclosing.first,
                     end |-> EndAddress, finally |-> Enclosing.finally,
                     catches |-> Enclosing.catches]
     IN  codes' = [codes EXCEPT
           ![cur].code = Append(Patched(@, Enclosing.ends, Offset), I("END_TRY")),
           ![cur].handlers = Register(@, handler)]
  /\ PopOpen
  /\ UNCHANGED <<cur, states>>

-----------------------------------------------------------------------------
(* Functions and the program. *)

EmptyCode == [code |-> <<>>, handlers |-> <<>>]

BeginFunction ==
  /\ BeginCompound("function")
  /\ Len(codes) < MaxCodes
  /\ codes' = Append(codes, EmptyCode)
  /\ cur' = Len(codes) + 1
  /\ Push(Statement("function", cur, NoAddress))
  /\ states' = Append(states, State("FUNCTION", NoAddress, Len(open) + 1))

EndFunction ==
  /\ End
  /\ Inside("function")
  /\ codes' = [codes EXCEPT
       ![cur].code = @ \o <<I("LOAD_CONST"), I("RETURN")>>,
       ![Enclosing.start].code =
         @ \o <<Ia("LOAD_CONST", cur), I("MAKE_FUNCTION"), I("STORE")>>]
  /\ cur' = Enclosing.start
  /\ PopOpen
  /\ states' = Front(states)

\* The program ends with an expression, which it returns; without one the code
\* returns null, which is a value EVAL may have as well.
Finish ==
  /\ phase = "compile"
  /\ open = <<>>
  /\ Emit(<<I("EVAL"), I("RETURN")>>)
  /\ phase' = "run"
  /\ UNCHANGED <<cur, states, open, size, used>>

CompilerInit ==
  /\ codes = <<EmptyCode>>
  /\ cur = 1
  /\ states = <<>>
  /\ open = <<>>
  /\ size = 0
  /\ used = {}
  /\ phase = "compile"

Compile ==
  \/ ExpressionStatement
  \/ BeginWhile
  \/ BeginForEach
  \/ EndLoop
  \/ Break
  \/ Continue
  \/ BeginIf
  \/ Else
  \/ EndIf
  \/ Return
  \/ Raise
  \/ BeginTry
  \/ EndTryBlock
  \/ \E type \in Types, name \in CatchNames \cup {NoName} : BeginCatch(type, name)
  \/ EndCatch
  \/ BeginFinally
  \/ EndTry
  \/ BeginFunction
  \/ EndFunction
  \/ Finish

-----------------------------------------------------------------------------
(* Properties of the code. *)

CodesOf == {codes[c].code : c \in DOMAIN codes}

CompilerTypeOK ==
  /\ \A c \in DOMAIN codes :
       /\ codes[c].code \in Seq(Instruction)
       /\ codes[c].handlers \in Seq(Handler)
  /\ cur \in DOMAIN codes
  /\ phase \in {"compile", "run", "error", "done"}

\* Every jump goes to an instruction of its code object: patchJumpAddress has
\* filled in every operand that was emitted as 0.
JumpsLand ==
  \A code \in CodesOf : \A a \in DOMAIN code :
    code[a].op \in Jumps => code[a].arg \in DOMAIN code

\* The addresses of a handler are in the order getExceptionHandler and the
\* label error: compare them in, its start is TRY, its end END_TRY.
HandlersOrdered ==
  \A c \in DOMAIN codes : \A h \in Range(codes[c].handlers) :
    /\ h.start < h.first /\ h.first < h.end /\ h.end \in DOMAIN codes[c].code
    /\ codes[c].code[h.start].op = "TRY" /\ codes[c].code[h.end].op = "END_TRY"
    /\ h.finally # NoAddress => h.first < h.finally /\ h.finally <= h.end

\* Handlers nest, the inner one first, so that the first handler around an
\* address, which getExceptionHandler returns, is the innermost.
InnerHandlerFirst ==
  \A c \in DOMAIN codes : \A i, j \in DOMAIN codes[c].handlers :
    LET g == codes[c].handlers[i]
        h == codes[c].handlers[j]
    IN  i < j => h.end > g.end /\ (h.start < g.start \/ g.end < h.start)

\* The code of a finished program is what execute relies on: its jumps have been
\* patched, and a search through exceptionHandlers finds the innermost handler
\* by comparing addresses (compiler.cpp:388, vm.cpp:30).
CodeWellFormed ==
  phase # "compile" => JumpsLand /\ HandlersOrdered /\ InnerHandlerFirst
=============================================================================
