--------------------------- MODULE VirtualMachine ---------------------------
(***************************************************************************)
(* VirtualMachine::execute (periwinkle/vm/vm.cpp) on the code that the     *)
(* module Compiler has emitted: loops, exception handlers and calls.  A    *)
(* behaviour compiles a program and then runs it.                          *)
(*                                                                         *)
(* Values are abstracted: EVAL, an expression, pushes a value, fails with  *)
(* any exception, or calls a function of the program.  Of a value on the   *)
(* stack it matters only whether it is the iterator of a for-each loop.    *)
(* The stack of Periwinkle::execute is shared by all frames; each frame    *)
(* has its own sp.                                                         *)
(***************************************************************************)
EXTENDS Compiler

CONSTANTS
  MaxFrames,  \* bound on the depth of calls
  MaxSlots    \* bound on the stack

ASSUME MachineAssumption == {MaxFrames, MaxSlots} \subseteq Nat \ {0}

VARIABLES
  frames,    \* the frames of the nested calls of execute, the current one last
  iterator,  \* per slot of the stack: the address of the FOR_EACH whose iterator
             \* it holds, NoAddress for any other value
  exc,       \* Periwinkle::currentException, its type
  stackTop,  \* stackTop of every handler of every code object
  defined    \* the code objects of which there is a function

machineVars == <<frames, iterator, exc, stackTop, defined>>
vars == <<compilerVars, used, phase, machineVars>>

NoException == 0
NullPtr == 0
Slots == 1 .. MaxSlots

\* A frame; bound are the variables of catch blocks that have a value (globals
\* of the root frame, locals of the others), tries is the history of the try statements it is in, which the code
\* does not keep: the sp at TRY, the exception that ended the protected block,
\* whether a catch block took it, whether the finally block has begun and which
\* exception was pending then.
Try(h, sp) ==
  [h |-> h, sp |-> sp, raised |-> NoException, caught |-> FALSE,
   lost |-> FALSE, finally |-> FALSE, pending |-> NoException]
NewFrame(co, sp) == [co |-> co, ip |-> 1, sp |-> sp, bound |-> {}, tries |-> <<>>]

Top == frames[Len(frames)]
Instr == codes[Top.co].code[Top.ip]
Handlers == codes[Top.co].handlers

SetTop(f) == frames' = [frames EXCEPT ![Len(frames)] = f]

\* The history, when ip goes to an address.
Seen(tries, ip) ==
  IF tries # <<>> /\ Handlers[Last(tries).h].finally = ip /\ ~Last(tries).finally
  THEN [tries EXCEPT ![Len(tries)].finally = TRUE, ![Len(tries)].pending = exc]
  ELSE tries
Goto(sp, ip) ==
  SetTop([Top EXCEPT !.sp = sp, !.ip = ip, !.tries = Seen(@, ip)])

-----------------------------------------------------------------------------
(* Instructions. *)

Executing(op) == phase = "run" /\ Top.sp # NullPtr /\ Instr.op = op

PopTo(sp, ip) == Goto(sp, ip) /\ UNCHANGED <<iterator, phase>>
PushTo(value, sp, ip) ==
  /\ sp + 1 \in Slots
  /\ iterator' = [iterator EXCEPT ![sp + 1] = value]
  /\ Goto(sp + 1, ip)
  /\ UNCHANGED phase
Same == UNCHANGED <<compilerVars, used, exc, stackTop, defined>>

\* goto error: with a new exception, when sp operands are left.
Fail(sp) ==
  /\ \E type \in Types : exc' = type
  /\ SetTop([Top EXCEPT !.sp = sp])
  /\ phase' = "error"
  /\ UNCHANGED <<compilerVars, used, iterator, stackTop, defined>>

Eval ==
  /\ Executing("EVAL")
  /\ PushTo(NoAddress, Top.sp, Top.ip + 1)
  /\ Same
EvalFails == Executing("EVAL") /\ Fail(Top.sp)

\* A call of a function of the program, which runs in a nested execute: its
\* slot is the first of the new frame.
InFinally ==
  \E h \in Range(Handlers) : h.finally # NoAddress /\ Top.ip \in h.finally .. h.end
Recursive(c) ==
  codes[c].handlers # <<>> /\ \E i \in DOMAIN frames : frames[i].co = c
CallUses(c) ==
  (IF InFinally THEN {"tryInFinally"} ELSE {})
    \cup (IF Recursive(c) THEN {"recursiveTry"} ELSE {})

Call(c) ==
  /\ Executing("EVAL")
  /\ Len(frames) < MaxFrames /\ Top.sp + 1 \in Slots
  /\ Using(CallUses(c))
  /\ frames' = Append(frames, NewFrame(c, Top.sp + 1))
  /\ iterator' = [iterator EXCEPT ![Top.sp + 1] = NoAddress]
  /\ UNCHANGED <<compilerVars, phase, exc, stackTop, defined>>

Pop ==
  /\ Executing("POP") \/ (Executing("STORE") /\ Instr.arg = NoName)
  /\ PopTo(Top.sp - 1, Top.ip + 1)
  /\ Same

Store ==
  /\ Executing("STORE") /\ Instr.arg # NoName
  /\ SetTop([Top EXCEPT !.sp = @ - 1, !.ip = @ + 1, !.bound = @ \cup {Instr.arg}])
  /\ UNCHANGED <<iterator, phase>>
  /\ Same

\* DELETE_GLOBAL, DELETE_LOCAL.
Delete ==
  /\ Executing("DELETE") /\ Instr.arg \in Top.bound
  /\ SetTop([Top EXCEPT !.ip = @ + 1, !.bound = @ \ {Instr.arg}])
  /\ UNCHANGED <<iterator, phase>>
  /\ Same
DeleteFails ==
  Executing("DELETE") /\ Instr.arg \notin Top.bound /\ Fail(Top.sp)

Load ==
  /\ Executing("LOAD") \/ Executing("LOAD_CONST")
  /\ PushTo(NoAddress, Top.sp, Top.ip + 1)
  /\ Same

MakeFunction ==
  /\ Executing("MAKE_FUNCTION")
  /\ PopTo(Top.sp, Top.ip + 1)
  /\ defined' = defined \cup {codes[Top.co].code[Top.ip - 1].arg}
  /\ UNCHANGED <<compilerVars, used, exc, stackTop>>

\* LOAD, the name of a catch block's type, may not be defined.
LoadFails ==
  /\ Executing("LOAD")
  /\ \E type \in Types : exc' = type
  /\ SetTop([Top EXCEPT !.tries[Len(Top.tries)].lost = TRUE])
  /\ phase' = "error"
  /\ UNCHANGED <<compilerVars, used, iterator, stackTop, defined>>

Jump == Executing("JMP") /\ PopTo(Top.sp, Instr.arg) /\ Same

\* The condition is popped; with an exception pending there is no jump.
JumpIfFalse ==
  /\ Executing("JMP_IF_FALSE") /\ exc = NoException
  /\ \E ip \in {Top.ip + 1, Instr.arg} : PopTo(Top.sp - 1, ip)
  /\ Same
JumpIfFalseFails ==
  /\ Executing("JMP_IF_FALSE") /\ exc # NoException
  /\ SetTop([Top EXCEPT !.sp = @ - 1])
  /\ phase' = "error"
  /\ UNCHANGED <<compilerVars, used, iterator, exc, stackTop, defined>>

GetIter ==
  /\ Executing("GET_ITER")
  /\ iterator' = [iterator EXCEPT ![Top.sp] = Top.ip + 1]
  /\ Goto(Top.sp, Top.ip + 1)
  /\ UNCHANGED phase
  /\ Same
GetIterFails == Executing("GET_ITER") /\ Fail(Top.sp - 1)

\* Whatever is on top of the stack is asked for its next element.
ForEach ==
  /\ Executing("FOR_EACH")
  /\ iterator[Top.sp] # NoAddress
  /\ \/ PushTo(NoAddress, Top.sp, Top.ip + 1)
     \/ PopTo(Top.sp - 1, Instr.arg)
  /\ Same
ForEachFails ==
  Executing("FOR_EACH") /\ iterator[Top.sp] = NoAddress /\ Fail(Top.sp)

\* execute returns to fnCall, and the caller's EVAL ends.
ReturnValue ==
  /\ Executing("RETURN")
  /\ IF Len(frames) = 1
     THEN /\ frames' = <<>> /\ phase' = "done"
          /\ UNCHANGED iterator
     ELSE LET callers == Front(frames)
              f == Last(callers)
          IN  /\ frames' = [callers EXCEPT
                   ![Len(callers)] = [f EXCEPT !.sp = @ + 1, !.ip = @ + 1]]
              /\ iterator' = [iterator EXCEPT ![f.sp + 1] = NoAddress]
              /\ UNCHANGED phase
  /\ Same

RaiseException == Executing("RAISE") /\ Fail(Top.sp - 1)

-----------------------------------------------------------------------------
(* Exceptions. *)

\* getHandlerByStartIp, getHandlerByEndIp.
StartingAt(ip) == CHOOSE h \in DOMAIN Handlers : Handlers[h].start = ip
EndingAt(ip) == CHOOSE h \in DOMAIN Handlers : Handlers[h].end = ip

\* The history when try statement h begins or ends: what was entered before it.
Outside(tries, h) ==
  LET at == {k \in DOMAIN tries : tries[k].h = h}
  IN  IF at = {} THEN tries ELSE SubSeq(tries, 1, Min(at) - 1)

EnterTry ==
  /\ Executing("TRY")
  /\ LET h == StartingAt(Top.ip) IN
       /\ stackTop' = [stackTop EXCEPT ![Top.co][h] = Top.sp]
       /\ SetTop([Top EXCEPT !.ip = @ + 1,
                             !.tries = Append(Outside(@, h), Try(h, Top.sp))])
  /\ UNCHANGED <<compilerVars, used, phase, iterator, exc, defined>>

\* CATCH; the type was loaded by the instruction before it.
Matches == codes[Top.co].code[Top.ip - 1].arg = exc
CatchMatches ==
  /\ Executing("CATCH") /\ Matches
  /\ Top.sp + 1 \in Slots
  /\ iterator' = [iterator EXCEPT ![Top.sp + 1] = NoAddress]
  /\ exc' = NoException
  /\ SetTop([Top EXCEPT !.sp = @ + 1, !.ip = @ + 1,
                        !.tries[Len(Top.tries)].caught = TRUE])
  /\ UNCHANGED <<compilerVars, used, phase, stackTop, defined>>
CatchDoesNot ==
  /\ Executing("CATCH") /\ ~Matches
  /\ PopTo(Top.sp, Instr.arg)
  /\ Same

\* Mutant: the stack stays as the blocks left it.
RestoredNot(h) == Top.sp
Restored(h) == stackTop[Top.co][h]

\* Mutants: without asking whether an exception is pending.
ResumesAlways == TRUE
ResumesNever == FALSE
Resumes == exc = NoException

\* END_TRY; a pending exception goes on from here.
LeaveTry ==
  /\ Executing("END_TRY")
  /\ LET h == EndingAt(Top.ip) IN
       /\ SetTop([Top EXCEPT !.sp = Restored(h), !.tries = Outside(@, h),
                             !.ip = IF Resumes THEN @ + 1 ELSE @])
       /\ stackTop' = [stackTop EXCEPT ![Top.co][h] = NullPtr]
  /\ phase' = IF Resumes THEN "run" ELSE "error"
  /\ UNCHANGED <<compilerVars, used, iterator, exc, defined>>

\* getExceptionHandler: the first whose addresses are around ip.
Around == {h \in DOMAIN Handlers : Handlers[h].start < Top.ip /\ Top.ip < Handlers[h].end}
Innermost == CHOOSE h \in Around : \A g \in Around : h <= g

Protects(h) == Top.ip < h.first

\* Where the label error: continues in a handler.  Mutant: an exception of a
\* catch block goes past the finally block.
AfterBlockSkipping(h) == h.end
AfterBlock(h) == IF h.finally = NoAddress THEN h.end ELSE h.finally
\* Mutants: the finally block is tried again; the catch blocks get its exception.
AfterFinallyAgain(h) == h.finally
AfterFinallyCaught(h) == h.first
AfterFinally(h) == h.end

\* The label error:, with a handler around ip.
HandleError ==
  /\ phase = "error"
  /\ Around # {}
  /\ LET h == Handlers[Innermost] IN
       \/ /\ Protects(h)
          /\ SetTop([Top EXCEPT !.ip = h.first,
                                !.tries[Len(Top.tries)].raised = exc])
       \/ /\ ~Protects(h)
          /\ h.finally = NoAddress \/ Top.ip < h.finally
          /\ Goto(Top.sp, AfterBlock(h))
       \/ /\ ~Protects(h)
          /\ h.finally # NoAddress /\ h.finally <= Top.ip
          /\ Goto(Top.sp, AfterFinally(h))
  /\ phase' = "run"
  /\ UNCHANGED iterator
  /\ Same

\* Without one execute returns nullptr: the call fails in the caller, or the
\* program ends.
Propagate ==
  /\ phase = "error"
  /\ Around = {}
  /\ frames' = Front(frames)
  /\ phase' = IF Len(frames) = 1 THEN "done" ELSE "error"
  /\ UNCHANGED iterator
  /\ Same

Run ==
  \/ Eval
  \/ EvalFails
  \/ \E c \in defined : Call(c)
  \/ Pop
  \/ Store
  \/ Delete
  \/ DeleteFails
  \/ Load
  \/ LoadFails
  \/ MakeFunction
  \/ Jump
  \/ JumpIfFalse
  \/ JumpIfFalseFails
  \/ GetIter
  \/ GetIterFails
  \/ ForEach
  \/ ForEachFails
  \/ ReturnValue
  \/ RaiseException
  \/ EnterTry
  \/ CatchMatches
  \/ CatchDoesNot
  \/ LeaveTry
  \/ HandleError
  \/ Propagate

\* A handler's stackTop is nullptr until TRY runs.
Unset == [c \in DOMAIN codes' |-> [h \in DOMAIN codes'[c].handlers |-> NullPtr]]

Init ==
  /\ CompilerInit
  /\ frames = <<NewFrame(1, 1)>>
  /\ iterator = [i \in Slots |-> NoAddress]
  /\ exc = NoException
  /\ stackTop = <<>>
  /\ defined = {}

Next ==
  \/ /\ Compile
     /\ stackTop' = IF phase' = "run" THEN Unset ELSE stackTop
     /\ UNCHANGED <<frames, iterator, exc, defined>>
  \/ Run

Spec == Init /\ [][Next]_vars
\* The loop of execute always goes on.
FairSpec == Spec /\ WF_vars(Run)

-----------------------------------------------------------------------------
(* Properties. *)

MachineTypeOK ==
  /\ CompilerTypeOK
  /\ \A i \in DOMAIN frames :
       /\ frames[i].co \in DOMAIN codes
       /\ frames[i].ip \in DOMAIN codes[frames[i].co].code \/ phase = "compile"
       /\ frames[i].sp \in Slots
  /\ iterator \in [Slots -> Nat]
  /\ exc \in Types \cup {NoException}
  /\ defined \subseteq DOMAIN codes
  /\ phase \in {"run", "error"} => frames # <<>>

\* The program has done none of these.
Avoids(features) == used \cap features = {}

AtOp(op) == phase = "run" /\ Instr.op = op
HandlerOf(f, e) == codes[f.co].handlers[e.h]

\* "TRY writes down the top of the stack to restore it" (code_object.hpp:20):
\* what END_TRY restores is what the TRY of the same activation wrote, although
\* stackTop belongs to the code object, which all activations share.
StackTopOfTry ==
  AtOp("END_TRY") =>
    /\ Top.tries # <<>> /\ Last(Top.tries).h = EndingAt(Top.ip)
    /\ Restored(EndingAt(Top.ip)) = Last(Top.tries).sp

\* So it is, unless a function with a try statement calls itself from within it.
EndTryRestores == Avoids({"recursiveTry", "jumpFromTry"}) => StackTopOfTry

\* A for-each loop asks its own iterator for the next element: whatever the
\* statements of its body did, they left the stack as they found it (vm.cpp:214).
LoopsOwnIterator ==
  Avoids({"breakForEach", "jumpFromTry", "recursiveTry"}) /\ AtOp("FOR_EACH") => iterator[Top.sp] = Top.ip


\* An exception raised in a try block that has a catch block for its type is
\* caught by it, unless the name of such a type is not defined: it is not still
\* pending in the finally block or at END_TRY (error:, CATCH, compiler.cpp:427).
CaughtIfNamed ==
  LET ended == phase = "run" /\ Top.tries # <<>> /\
        LET e == Last(Top.tries)
            h == HandlerOf(Top, e)
        IN  /\ Top.ip \in {h.finally, h.end}
            /\ \E k \in DOMAIN h.catches :
                 codes[Top.co].code[h.catches[k]].arg = e.raised
            /\ ~e.caught /\ ~e.lost
  IN  ~ended

\* Control leaves the protected block and the catch blocks of a try statement
\* that has a finally block only into that block, however many calls the
\* exception came through.
FinallyRuns ==
  [][\A i \in DOMAIN frames : \A k \in DOMAIN frames[i].tries :
       LET e == frames[i].tries[k]
           h == HandlerOf(frames[i], e)
       IN  h.finally # NoAddress /\ ~e.finally =>
             /\ i \in DOMAIN frames' /\ k \in DOMAIN frames'[i].tries
             /\ \/ frames'[i].tries[k].finally
                \/ frames'[i].ip \in h.start .. h.finally - 1]_vars

\* While an exception is pending the program does nothing but look for its
\* catch block and run finally blocks: it never goes on as if nothing happened.
PendingIsHandled ==
  phase = "run" /\ exc # NoException /\ Instr.op # "END_TRY" =>
    \E i \in DOMAIN frames : \E k \in DOMAIN frames[i].tries :
      LET e == frames[i].tries[k] IN
        \/ e.raised # NoException /\ ~e.caught
        \/ e.finally /\ e.pending # NoException

\* The exception pending when a finally block begins, or the one that replaced
\* it, is still pending when the block ends.
PendingSurvivesFinally ==
  Avoids({"tryInFinally"}) /\ AtOp("END_TRY") /\ Top.tries # <<>> /\ Last(Top.tries).pending # NoException =>
    exc # NoException

\* execute reaches error: only with an exception (the assertion of vm.cpp:514).
ErrorHasException == phase = "error" => exc # NoException

\* A program without loops and recursion ends, whichever of its expressions
\* fail: no exception sends error: back to where it came from.
Terminates == (phase = "run") ~> (phase = "done")
=============================================================================
