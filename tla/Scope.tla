------------------------------- MODULE Scope -------------------------------
(***************************************************************************)
(* How a name finds its variable: the scope analysis                       *)
(* (periwinkle/compiler/scope.cpp), which decides before any code is       *)
(* emitted whether a name is a global, a local or a cell; the code that    *)
(* makes a function with its closure (compiler.cpp, MAKE_FUNCTION); and    *)
(* the frame the function runs in (frameFromFunctionObject).               *)
(*                                                                         *)
(* A behaviour walks over one program, in the order of _analyze, choosing  *)
(* its declarations and uses of names as it goes.  The rest is decided by  *)
(* the scopes it ends with, and is given by operators.                     *)
(***************************************************************************)
EXTENDS Naturals, Sequences, SequencesExt, FiniteSets, FiniteSetsExt

CONSTANTS
  Name,        \* names in the program
  Builtins,    \* those of builtin objects
  Declarable,  \* those the programs of this instance declare
  MaxScopes,   \* bound on the functions, and the root
  MaxParams,   \* bound on the parameters of a function
  MaxLocals,   \* bound on the locals of a function
  MaxUses      \* bound on the uses and variable declarations, without repeats

ASSUME ScopeAssumption ==
  /\ Builtins \cup Declarable \subseteq Name
  /\ {MaxScopes, MaxParams, MaxLocals, MaxUses} \subseteq Nat

VARIABLES
  scopes,   \* the Scope of the root, which comes first, and of each function
  current,  \* the function whose block is analysed
  uses,     \* the uses: the scope, the name, and the function of that name's
            \* innermost declaration so far (history)
  odd,      \* what this program has done that the interpreter gets wrong
  analysed  \* whether analyze has returned

vars == <<scopes, current, uses, odd, analysed>>

Root == 1
Types == {"GLOBAL", "LOCAL", "CELL"}
Unknown == "none"
ScopeRecord ==
  [parent : Nat, info : [Name -> Types \cup {Unknown}],
   locals : Seq(Name), cells : Seq(Name), free : Seq(Name)]

\* Scope s and the scopes around it, as of the records "all".
EnclosingIn(all, s) ==
  LET around[i \in 1 .. s] ==
        IF i = Root THEN {i} ELSE {i} \cup around[all[i].parent]
  IN  around[s]
Enclosing(s) == EnclosingIn(scopes, s)

Knows(s, name) == scopes[s].info[name] # Unknown

-----------------------------------------------------------------------------
(* The analysis. *)

\* addLocal, of several names in turn.  Mutant: the parameters get a kind only.
TypeOfLocal(s) == IF s = Root THEN "GLOBAL" ELSE "LOCAL"
AddLocalsFirst(scope, names, type) ==
  [scope EXCEPT !.locals = Append(@, names[1]),
                !.info = [n \in Name |-> IF n \in ToSet(names) THEN type ELSE @[n]]]
AddLocals(scope, names, type) ==
  [scope EXCEPT !.locals = @ \o names,
                !.info = [n \in Name |-> IF n \in ToSet(names) THEN type ELSE @[n]]]

\* resolve: the innermost function around s that knows the name.
Owners(s, name) == {a \in Enclosing(s) \ {Root, s} : Knows(a, name)}
Owner(s, name) == Max(Owners(s, name))
Resolve(s, name) ==
  IF name \in Builtins \/ s = Root THEN "GLOBAL"
  ELSE IF Knows(s, name) THEN scopes[s].info[name]
  ELSE IF Owners(s, name) = {} THEN "GLOBAL" ELSE "CELL"

\* promote: the owner gets a cell, the functions between it and the use get a
\* free variable each.  Mutant: only the function of the use does.
BetweenOnlyUser(s, owner) == {s}
Between(s, owner) == {a \in Enclosing(s) : owner < a}

Promoted(s, name) ==
  LET owner == Owner(s, name) IN
    [a \in DOMAIN scopes |->
       IF a = owner
       THEN [scopes[a] EXCEPT !.cells = Append(@, name), !.info[name] = "CELL"]
       ELSE IF a \in Between(s, owner)
            THEN [scopes[a] EXCEPT !.free = Append(@, name), !.info[name] = "CELL"]
            ELSE scopes[a]]

\* maybePromote.  A name that already is a cell stays one.
Captures(s, name) == scopes[s].info[name] # "CELL" /\ Resolve(s, name) = "CELL"
MaybePromote(s, name) ==
  IF Captures(s, name) THEN Promoted(s, name)
  ELSE IF scopes[s].info[name] = "CELL" THEN scopes
  ELSE [scopes EXCEPT ![s].info[name] = Resolve(s, name)]

\* History: the innermost declaration so far, and what is odd about a program.
Declared(s, name) ==
  Max({a \in Enclosing(s) : name \in ToSet(scopes[a].locals)} \cup {Root})

OddDeclaration(s, name) ==
  (IF s # Root /\ Knows(s, name) THEN {"redeclared"} ELSE {})
    \cup (IF s # Root /\ name \in Builtins THEN {"builtinName"} ELSE {})

OddCapture(s, name) ==
  LET owner == Owner(s, name) IN
    (IF scopes[owner].cells # <<>> THEN {"manyCaptures"} ELSE {})
      \cup (IF owner # scopes[s].parent THEN {"deepCapture"} ELSE {})
      \cup (IF name \notin ToSet(scopes[owner].locals) THEN {"noLocal"} ELSE {})

Use(s, name) == [scope |-> s, name |-> name, owner |-> Declared(s, name)]

-----------------------------------------------------------------------------
(* Steps of the analysis. *)

\* FUNCTION_STATEMENT, up to its block.  The function is its own first local.
DeclareFunction(fn, params) ==
  /\ ~analysed
  /\ Len(scopes) < MaxScopes /\ Len(scopes[current].locals) < MaxLocals
  /\ LET new == [parent |-> current, info |-> [n \in Name |-> Unknown],
                 locals |-> <<>>, cells |-> <<>>, free |-> <<>>]
     IN  scopes' = Append(
           [scopes EXCEPT ![current] = AddLocals(@, <<fn>>, TypeOfLocal(current))],
           AddLocals(new, <<fn>> \o params, "LOCAL"))
  /\ current' = Len(scopes) + 1
  /\ odd' = odd \cup OddDeclaration(current, fn)
                \cup (IF fn \in ToSet(params) THEN {"redeclared"} ELSE {})
                \cup (IF (ToSet(params) \cup {fn}) \cap Builtins # {}
                      THEN {"builtinName"} ELSE {})
  /\ UNCHANGED <<uses, analysed>>

\* The scope _analyze goes on with after a function.  Mutant: one too far out.
OuterOfOuter == scopes[scopes[current].parent].parent
Outer == scopes[current].parent
EndFunction ==
  /\ ~analysed
  /\ current # Root
  /\ current' = Outer
  /\ UNCHANGED <<scopes, uses, odd, analysed>>

\* The variable of a for-each or of a catch block.
DeclareVariable(name) ==
  /\ ~analysed
  /\ Cardinality(uses) < MaxUses /\ Len(scopes[current].locals) < MaxLocals
  /\ scopes' = [scopes EXCEPT ![current] = AddLocals(@, <<name>>, TypeOfLocal(current))]
  /\ odd' = odd \cup OddDeclaration(current, name)
  /\ uses' = uses \cup {[scope |-> current, name |-> name, owner |-> current]}
  /\ UNCHANGED <<current, analysed>>

\* A name in an expression, the name an assignment sets, the type a catch
\* block names.
UseName(name) ==
  /\ ~analysed
  /\ Cardinality(uses) < MaxUses
  /\ scopes' = MaybePromote(current, name)
  /\ uses' = uses \cup {Use(current, name)}
  /\ odd' = odd \cup (IF Captures(current, name) THEN OddCapture(current, name) ELSE {})
  /\ UNCHANGED <<current, analysed>>

\* The same where _analyze does not look: the condition of a while or an if,
\* what a for-each iterates over, an else, a finally, a catch without a
\* variable, a default value, a named argument.
UseUnanalysed(name) ==
  /\ ~analysed
  /\ Cardinality(uses) < MaxUses
  /\ uses' = uses \cup {Use(current, name)}
  /\ odd' = odd \cup {"unanalysed"}
  /\ UNCHANGED <<scopes, current, analysed>>

Finish ==
  /\ ~analysed
  /\ current = Root
  /\ analysed' = TRUE
  /\ UNCHANGED <<scopes, current, uses, odd>>

\* The parameters are distinct (checkDuplicateParameters).
Params == {p \in BoundedSeq(Declarable, MaxParams) : Cardinality(ToSet(p)) = Len(p)}

Init ==
  /\ scopes = <<[parent |-> 0, info |-> [n \in Name |-> Unknown],
                 locals |-> <<>>, cells |-> <<>>, free |-> <<>>]>>
  /\ current = Root
  /\ uses = {}
  /\ odd = {}
  /\ analysed = FALSE

Next ==
  \/ \E fn \in Declarable, params \in Params : DeclareFunction(fn, params)
  \/ EndFunction
  \/ \E name \in Declarable : DeclareVariable(name)
  \/ \E name \in Name : UseName(name)
  \/ \E name \in Name : UseUnanalysed(name)
  \/ Finish

Spec == Init /\ [][Next]_vars

-----------------------------------------------------------------------------
(* What the scopes decide: the operands of the code, the closure of a         *)
(* function, its frame.                                                       *)

IndexIn(seq, name) == Min({i \in DOMAIN seq : seq[i] = name})

\* freeIdx: the index of a name in Frame::freevars, cells first.  Mutant: the
\* free variables first.
FreeIdxAfterFree(s, name) ==
  IF name \in ToSet(scopes[s].cells)
  THEN IndexIn(scopes[s].cells, name) + Len(scopes[s].free)
  ELSE IndexIn(scopes[s].free, name)
FreeIdx(s, name) ==
  IF name \in ToSet(scopes[s].cells)
  THEN IndexIn(scopes[s].cells, name)
  ELSE Len(scopes[s].cells) + IndexIn(scopes[s].free, name)

\* The cells of a function's parent that compileFunctionDeclaration pushes
\* below MAKE_FUNCTION, as their indices: all of them, if any is needed.
\* Mutant: in any case.
PushedAlways(s) ==
  IF s = Root THEN <<>>
  ELSE LET cells == scopes[scopes[s].parent].cells IN
         [i \in DOMAIN cells |-> IndexIn(cells, cells[i])]
Pushed(s) ==
  LET cells == scopes[scopes[s].parent].cells IN
    IF scopes[s].free = <<>> THEN <<>>
    ELSE [i \in DOMAIN cells |-> IndexIn(cells, cells[i])]

\* MAKE_FUNCTION: the closure in the order it is popped.  What lies below the
\* cells that were pushed is not a cell.
NoCell == <<"none">>
Closure(s) ==
  LET pushed == Pushed(s) IN
    [j \in DOMAIN scopes[s].free |->
       IF j <= Len(pushed)
       THEN <<"cell", scopes[s].parent, pushed[Len(pushed) - j + 1]>>
       ELSE NoCell]

\* Where a name of scope s is stored: getVarGetter, getVarSetter and the
\* operand compileNameGet and compileNameSet give it, and, for a cell,
\* frameFromFunctionObject: the cells of the function, then its closure.
Storage(s, name) ==
  CASE scopes[s].info[name] \in {"GLOBAL", Unknown} -> <<"global", name>>
    [] scopes[s].info[name] = "LOCAL" -> <<"local", s, IndexIn(scopes[s].locals, name)>>
    [] scopes[s].info[name] = "CELL" ->
         LET i == FreeIdx(s, name)
             n == Len(scopes[s].cells)
         IN  IF i <= n THEN <<"cell", s, i>>
             ELSE IF i - n \in DOMAIN Closure(s) THEN Closure(s)[i - n] ELSE NoCell

\* argsAsCells: the locals that are cells, in the order of the locals; cell i
\* of a new frame holds the value of the local argsAsCells[i].  Mutant: of
\* every local.
ArgsAsCellsAll(s) == scopes[s].locals
ArgsAsCells(s) ==
  LET cells == scopes[s].cells
      copies(name) ==
        FlattenSeq([j \in DOMAIN cells |-> IF cells[j] = name THEN <<name>> ELSE <<>>])
  IN  FlattenSeq([i \in DOMAIN scopes[s].locals |-> copies(scopes[s].locals[i])])

-----------------------------------------------------------------------------
(* Properties. *)

ScopeTypeOK ==
  /\ scopes \in Seq(ScopeRecord)
  /\ current \in DOMAIN scopes
  /\ \A s \in DOMAIN scopes \ {Root} : scopes[s].parent \in 1 .. s - 1
  /\ analysed \in BOOLEAN

\* The code generator finds an index for every name whose kind the analysis
\* decided, in any program (localIdx and freeIdx do not reach plog::fatal).
IndexesFound ==
  \A s \in DOMAIN scopes, name \in Name :
    /\ scopes[s].info[name] = "LOCAL" => name \in ToSet(scopes[s].locals)
    /\ scopes[s].info[name] = "CELL" =>
         name \in ToSet(scopes[s].cells) \cup ToSet(scopes[s].free)

\* A free variable is known, in any program, to each function around it up to
\* one that has a cell for it: no link of the chain by which the cell is handed
\* down is missing (Scope::promote).
CaptureChain ==
  \A s \in DOMAIN scopes : \A name \in ToSet(scopes[s].free) :
    LET p == scopes[s].parent IN
      p # Root /\ name \in ToSet(scopes[p].cells) \cup ToSet(scopes[p].free)

\* Unless the program is odd, every use of a name is stored where its
\* declaration is: a captured variable is the same cell for the function that
\* declares it and the one that uses it.
Bound(u) ==
  LET there == Storage(u.owner, u.name) IN
    /\ Storage(u.scope, u.name) = there
    /\ u.owner = Root <=> there = <<"global", u.name>>
RightVariable == analysed /\ odd = {} => \A u \in uses : Bound(u)

\* Unless the program is odd, a captured parameter starts as the argument, and
\* its cell with it (frameFromFunctionObject copies by position).
ArgumentInCell ==
  analysed /\ odd = {} =>
    \A s \in DOMAIN scopes : \A i \in DOMAIN scopes[s].cells :
      i \in DOMAIN ArgsAsCells(s) /\ ArgsAsCells(s)[i] = scopes[s].cells[i]

\* Unless the program is odd, MAKE_FUNCTION pops as many cells as were pushed:
\* none is left on the stack, and no default value is taken for one.
ClosureBalanced ==
  analysed /\ odd = {} =>
    \A s \in DOMAIN scopes : Len(Pushed(s)) = Len(scopes[s].free)

\* freeIdx "returns the index for Frame->freevars" (compiler.hpp:72): at that
\* index there is the variable, for two captured variables of one function too.
FreeIndexIsRight ==
  analysed /\ odd \subseteq {"manyCaptures"} => \A u \in uses : Bound(u)
=============================================================================
