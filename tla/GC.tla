--------------------------------- MODULE GC ---------------------------------
(***************************************************************************)
(* The mark-and-sweep collector (periwinkle/vm/gc.cpp) and everything that *)
(* changes what it looks at: the instructions of VirtualMachine::execute   *)
(* that allocate, move and drop references, and fnCall, which lays out a   *)
(* frame on the shared stack.  The collector runs between instructions, on *)
(* one thread, so the hard part is not its own code but whether what it    *)
(* scans is what the program can still use.                                *)
(*                                                                         *)
(* An object is an address with a set of outgoing references; its contents *)
(* and type are abstracted.  nullptr and the static objects (types, true,  *)
(* false, null), which are never collected, are Null.  Sizes are abstract  *)
(* units instead of bytes.                                                 *)
(***************************************************************************)
EXTENDS Integers, Sequences, FiniteSets, FiniteSetsExt

CONSTANTS
  Obj,              \* addresses of heap objects
  Null,             \* nullptr, or an object that lives outside the heap
  Name,             \* names of global variables
  CodeConst,        \* objects the constants of the root CodeObject keep alive
  StackSize,        \* periwinkle.cpp:39, 512 in the code
  GcThreshold,      \* gc.hpp:8
  InitialThreshold, \* gc.hpp:21
  SizeOf,           \* objectType->size of the object at an address
  MaxRefs,          \* bound on the references of one object
  MaxFrames,        \* bound on the depth of calls
  MaxArgs,          \* bound on the arguments of one call
  MaxCells,         \* bound on the cells of one frame
  MaxLitter,        \* bound on the litter between two collections
  Features          \* what programs of this instance do, see below

(***************************************************************************)
(* Three things a program may do that the memory manager does not survive. *)
(* An instance with an empty Features has the programs that do none:       *)
(*   "variadic"     it calls functions with a variadic parameter,          *)
(*   "extraLocals"  its functions have locals besides their parameters     *)
(*                  (the variable of a for-each or a catch, a nested       *)
(*                  function),                                             *)
(*   "rebindSelf"   a function assigns to its own name inside its body.    *)
(***************************************************************************)
FeatureNames == {"variadic", "extraLocals", "rebindSelf"}

ASSUME HeapAssumption ==
  /\ IsFiniteSet(Obj)
  /\ Null \notin Obj
  /\ CodeConst \subseteq Obj
  /\ Features \subseteq FeatureNames
ASSUME NumberAssumption ==
  /\ StackSize \in Nat \ {0}
  /\ GcThreshold \in Nat \ {0}
  /\ InitialThreshold \in Nat
  /\ SizeOf \in [Obj -> Nat \ {0}]
  /\ {MaxRefs, MaxFrames, MaxArgs, MaxCells, MaxLitter} \subseteq Nat

VARIABLES
  status,     \* what is at an address, see Statuses
  refs,       \* what traverse would visit
  marked,     \* the addresses whose marked flag is set
  slot,       \* the stack, std::array<Object*, 512>
  sp,         \* index of the top of the stack
  frames,     \* the chain of Frame records, the root first
  globals,    \* Frame::globals
  exc,        \* Periwinkle::currentException
  litter,     \* size of the managed objects that died as soon as they were made
  allocated,  \* GC::allocated
  threshold,  \* GC::threshold
  phase       \* "run", "mark", "sweep", and "done" when the program has ended

vars == <<status, refs, marked, slot, sp, frames, globals, exc,
          litter, allocated, threshold, phase>>
machineVars == <<slot, sp, frames, globals, exc>>

(***************************************************************************)
(* An address is "free", or there is an object:                            *)
(*   "managed"    in GC::objects, of a type with a dealloc,                *)
(*   "iterator"   in GC::objects, of ListIterObject or StringIterObject,   *)
(*                the two types without one (list_object.cpp:385,          *)
(*                string_object.cpp:500),                                  *)
(*   "unmanaged"  made by plain new,                                       *)
(*   "lost"       an iterator that was taken out of GC::objects: it is     *)
(*                never deleted, and nothing knows of it any more.         *)
(***************************************************************************)
Statuses == {"free", "managed", "iterator", "unmanaged", "lost"}

Ref == Obj \cup {Null}
Slots == 0 .. StackSize - 1

\* A frame: bp, the number of parameters (and of the variadic list), of other
\* locals and of cells, the function it runs and its variadic list.
Frame == [bp : Slots, params : Nat, extra : Nat, cells : Nat,
          fn : Ref, va : Ref]

RootFrame == [bp |-> 0, params |-> 0, extra |-> 0, cells |-> 0,
              fn |-> Null, va |-> Null]

Top == frames[Len(frames)]
\* locals holds the function itself, the parameters and the other locals.
Locals(f) == IF f.fn = Null THEN 0 ELSE 1 + f.params + f.extra
Freevars(f) == f.bp + Locals(f)
\* The slot sp is set to when the frame starts.  Nothing is stored in it: the
\* first PUSH goes to the slot above.
Gap(f) == Freevars(f) + f.cells

LocalSlots(f) == f.bp .. Freevars(f) - 1
CellSlots(f) == Freevars(f) .. Gap(f) - 1
Gaps == {Gap(frames[i]) : i \in DOMAIN frames}

Free == {o \in Obj : status[o] = "free"}
Managed == {o \in Obj : status[o] \in {"managed", "iterator"}}
\* The objects the memory manager has not disposed of.
Allocated == {o \in Obj : status[o] \notin {"free", "lost"}}

-----------------------------------------------------------------------------
(* What the program can still reach, and what the collector looks at. *)

\* The objects reachable from the set "from" along "edges".
Reach(from, edges) ==
  LET closed == {S \in SUBSET Obj : from \subseteq S /\ \A p \in S : edges[p] \subseteq S}
  IN  {o \in Obj : \A S \in closed : o \in S}

GlobalRefs == {globals[n] : n \in Name}

\* Mutant: mark forgets the current exception.
ScannedWithoutException ==
  ({slot[i] : i \in 0 .. sp} \cup GlobalRefs \cup CodeConst) \ {Null}

\* The roots of GC::mark: every slot from the root frame's bp to the current
\* sp, the globals, the root CodeObject, the current exception.
Scanned ==
  ({slot[i] : i \in 0 .. sp} \cup GlobalRefs \cup CodeConst \cup {exc}) \ {Null}

\* What an instruction can name: the same without the slots never stored to.
Roots ==
  ({slot[i] : i \in (0 .. sp) \ Gaps} \cup GlobalRefs \cup CodeConst
     \cup {exc}) \ {Null}

\* vm::mark returns at once from an object that is marked already, whatever it
\* refers to; the others it marks and traverses.
MarkedFrom(from) ==
  Reach(from \ marked, [o \in Obj |-> refs[o] \ marked])

Garbage == Managed \ marked

\* What sweep leaves marked: objects outside GC::objects keep their flag.
\* Mutant: it never clears one.
MarksNotReset == marked
MarksAfterSweep == {o \in marked : status[o] \in {"unmanaged", "lost"}}

\* finalizeAndDeleteObject for each object of S, which leaves GC::objects: its
\* type's dealloc deletes it, if there is one.
Dispose(S) ==
  /\ status' = [o \in Obj |-> IF o \notin S THEN status[o]
                              ELSE IF status[o] = "iterator" THEN "lost" ELSE "free"]
  /\ refs' = [o \in Obj |-> IF o \in S /\ status[o] # "iterator" THEN {} ELSE refs[o]]

NextThreshold(a) == GcThreshold * (a \div GcThreshold + 1)

SizeOfAll(S) == FoldSet(LAMBDA o, acc : SizeOf[o] + acc, 0, S)

\* What sweep subtracts from allocated.  Mutant: only the litter.
ReleasedLitter == litter
Released == SizeOfAll(Garbage) + litter

-----------------------------------------------------------------------------
Init ==
  /\ status = [o \in Obj |-> IF o \in CodeConst THEN "managed" ELSE "free"]
  /\ refs = [o \in Obj |-> {}]
  /\ marked = {}
  /\ slot = [i \in Slots |-> Null]
  /\ sp = 0
  /\ frames = <<RootFrame>>
  /\ globals = [n \in Name |-> Null]
  /\ exc = Null
  /\ litter = 0
  /\ allocated = SizeOfAll(CodeConst)
  /\ threshold = InitialThreshold
  /\ phase = "run"

\* gc->gc(frame) at the end of the loop of execute: instructions that jump to
\* error: or leave execute skip it.
CollectIfDue == phase' = IF allocated' > threshold THEN "mark" ELSE "run"

\* Operand slots of the current frame.
Operands == Gap(Top) + 1 .. sp

NoAlloc == UNCHANGED <<status, refs, marked, litter, allocated>>

\* allocObject and GC::addObject: o becomes an object of GC::objects, managed or
\* an iterator, that refers to r.
AllocateAs(kind, o, r) ==
  /\ o \in Free
  /\ status' = [status EXCEPT ![o] = kind]
  /\ refs' = [refs EXCEPT ![o] = r]
  /\ marked' = marked \ {o}
  /\ allocated' = allocated + SizeOf[o]
  /\ UNCHANGED litter
Allocate(o, r) == AllocateAs("managed", o, r)

-----------------------------------------------------------------------------
(* Instructions. *)

\* What one load instruction can put on the stack: a local (LOAD_LOCAL checks
\* only that it is not nullptr), a cell or its value, a global, a constant.
Loadable ==
  LET locals == {slot[i] : i \in LocalSlots(Top)} \ {Null}
      cells  == {slot[i] : i \in CellSlots(Top)} \ {Null}
  IN  locals \cup cells \cup (UNION {refs[c] : c \in cells})
        \cup (GlobalRefs \ {Null}) \cup CodeConst

\* LOAD_CONST, LOAD_GLOBAL, LOAD_LOCAL, GET_CELL, LOAD_CELL, DUP.
Load ==
  /\ sp + 1 \in Slots
  /\ \E o \in Loadable \cup {slot[i] : i \in {sp} \cap Operands} :
       slot' = [slot EXCEPT ![sp + 1] = o]
  /\ sp' = sp + 1
  /\ UNCHANGED <<frames, globals, exc, threshold>>
  /\ NoAlloc
  /\ CollectIfDue

\* A container method that returns one of its items, FOR_EACH, GET_ATTR.
Fetch ==
  /\ sp \in Operands /\ slot[sp] # Null
  /\ \E o \in refs[slot[sp]], keep \in {0, 1} :
       /\ sp + keep \in Slots
       /\ slot' = [slot EXCEPT ![sp + keep] = o]
       /\ sp' = sp + keep
  /\ UNCHANGED <<frames, globals, exc, threshold>>
  /\ NoAlloc
  /\ CollectIfDue

\* An instruction that pops k operands and pushes a new object: the operators
\* (which refer to nothing), LOAD_METHOD, the constructors and MAKE_FUNCTION
\* (which keep what they popped).
Compute(k) ==
  /\ Gap(Top) <= sp - k
  /\ sp - k + 1 \in Slots
  /\ \E o \in Free :
       /\ \E r \in {{}, {slot[i] : i \in sp - k + 1 .. sp} \ {Null}} :
            Cardinality(r) <= MaxRefs /\ Allocate(o, r)
       /\ slot' = [slot EXCEPT ![sp - k + 1] = o]
  /\ sp' = sp - k + 1
  /\ UNCHANGED <<frames, globals, exc, threshold>>
  /\ CollectIfDue

\* GET_ITER: the iterator of a list has a copy of its items, the one of a string
\* refers to no object.
GetIter ==
  /\ sp \in Operands
  /\ \E o \in Free :
       /\ \E r \in {{}} \cup {refs[c] : c \in {slot[sp]} \ {Null}} :
            AllocateAs("iterator", o, r)
       /\ slot' = [slot EXCEPT ![sp] = o]
  /\ UNCHANGED <<sp, frames, globals, exc, threshold>>
  /\ CollectIfDue

\* Instructions that make an object and drop it again, like the intermediate
\* results of an expression: it only counts towards the next collection.
Litter ==
  /\ litter < MaxLitter
  /\ litter' = litter + 1 /\ allocated' = allocated + 1
  /\ UNCHANGED <<status, refs, marked, threshold>>
  /\ UNCHANGED machineVars
  /\ CollectIfDue

\* STORE_GLOBAL, DELETE_GLOBAL.
StoreGlobal ==
  /\ sp \in Operands
  /\ \E n \in Name : globals' = [globals EXCEPT ![n] = slot[sp]]
  /\ sp' = sp - 1
  /\ UNCHANGED <<slot, frames, exc, threshold>>
  /\ NoAlloc
  /\ CollectIfDue

DeleteGlobal ==
  /\ \E n \in Name : globals[n] # Null /\ globals' = [globals EXCEPT ![n] = Null]
  /\ UNCHANGED <<slot, sp, frames, exc, threshold>>
  /\ NoAlloc
  /\ CollectIfDue

\* Local 0 is the name of the function itself.  Mutant: it is like any other.
StorableWithSelf == LocalSlots(Top)
StorableLocals ==
  LocalSlots(Top) \ (IF "rebindSelf" \in Features THEN {} ELSE {Top.bp})

\* STORE_LOCAL pops into a local, DELETE_LOCAL clears one.
StoreLocal ==
  /\ sp \in Operands
  /\ \E i \in StorableLocals : slot' = [slot EXCEPT ![i] = slot[sp]]
  /\ sp' = sp - 1
  /\ UNCHANGED <<frames, globals, exc, threshold>>
  /\ NoAlloc
  /\ CollectIfDue

DeleteLocal ==
  /\ \E i \in StorableLocals : slot[i] # Null /\ slot' = [slot EXCEPT ![i] = Null]
  /\ UNCHANGED <<sp, frames, globals, exc, threshold>>
  /\ NoAlloc
  /\ CollectIfDue

\* STORE_CELL replaces the value of a cell.
StoreCell ==
  /\ sp \in Operands
  /\ \E i \in CellSlots(Top) :
       slot[i] # Null /\ refs' = [refs EXCEPT ![slot[i]] = {slot[sp]} \ {Null}]
  /\ sp' = sp - 1
  /\ UNCHANGED <<slot, frames, globals, exc, threshold, status, marked,
                 litter, allocated>>
  /\ CollectIfDue

\* A method call that stores its argument in the receiver (list append and
\* insert) or drops an item of it (list remove, clear).  Both operands are
\* popped and null is pushed.
Mutate ==
  /\ {sp - 1, sp} \subseteq Operands
  /\ slot[sp - 1] # Null
  /\ LET o == slot[sp - 1] IN
       \E r \in {refs[o] \cup ({slot[sp]} \ {Null}), refs[o] \ {slot[sp]}} :
         Cardinality(r) <= MaxRefs /\ refs' = [refs EXCEPT ![o] = r]
  /\ slot' = [slot EXCEPT ![sp - 1] = Null]
  /\ sp' = sp - 1
  /\ UNCHANGED <<frames, globals, exc, threshold, status, marked,
                 litter, allocated>>
  /\ CollectIfDue

\* POP, and END_TRY, which sets sp back to where TRY found it.
Drop ==
  /\ Operands # {}
  /\ sp' \in Gap(Top) .. sp - 1
  /\ UNCHANGED <<slot, frames, globals, exc, threshold>>
  /\ NoAlloc
  /\ CollectIfDue

\* RAISE: the operand becomes the current exception.  A handler, if there is
\* one, runs with the exception pending until CATCH pushes and clears it.
Raise ==
  /\ sp \in Operands /\ slot[sp] # Null
  /\ exc' = slot[sp]
  /\ sp' = sp - 1
  /\ UNCHANGED <<slot, frames, globals, threshold, phase>>
  /\ NoAlloc

\* An instruction fails: it has popped some operands, setException(type,
\* message) creates the exception, and execute jumps to error:.
Throw ==
  /\ \E o \in Free : Allocate(o, {}) /\ exc' = o
  /\ sp' \in Gap(Top) .. sp
  /\ UNCHANGED <<slot, frames, globals, threshold, phase>>

Catch ==
  /\ exc # Null /\ sp + 1 \in Slots
  /\ slot' = [slot EXCEPT ![sp + 1] = exc]
  /\ sp' = sp + 1
  /\ exc' = Null
  /\ UNCHANGED <<frames, globals, threshold>>
  /\ NoAlloc
  /\ CollectIfDue

-----------------------------------------------------------------------------
(* Calls. *)

ExtraLocals == IF "extraLocals" \in Features THEN {0, 1} ELSE {0}
VariadicCounts(argc) == IF "variadic" \in Features THEN 0 .. argc ELSE {}

\* A cell of a parameter starts with the argument, the others with nullptr.
\* Mutant: the argument is taken to be an object.
CellValuesUnchecked(args) == {{}} \cup {{slot[i]} : i \in args}
CellValues(args) == {{}} \cup {{slot[i]} \ {Null} : i \in args}

\* Where the callee's sp starts.  Mutant: below its cells.
BaseSpBelowCells(freevars, cells) == freevars
BaseSp(freevars, cells) == freevars + Len(cells)

\* frameFromFunctionObject above argc arguments: dflt are the defaults pushed
\* after them, cells what ends up in the slots for cells and captured cells.
\* Each of these slots gets a new cell first; value is what the new cells hold.
Enter(argc, extra, dflt, cells, new, value) ==
  LET bp == sp - argc
      params == argc + Len(dflt)
      freevars == bp + 1 + params + extra
  IN
  /\ freevars + Len(cells) \in Slots
  /\ status' = [o \in Obj |-> IF o \in new THEN "managed" ELSE status[o]]
  /\ refs' = [o \in Obj |-> IF o \in new THEN value[o] ELSE refs[o]]
  /\ marked' = marked \ new
  /\ allocated' = allocated + SizeOfAll(new)
  /\ slot' = [i \in Slots |->
       IF i \in sp + 1 .. sp + Len(dflt) THEN dflt[i - sp]
       ELSE IF i \in freevars .. freevars + Len(cells) - 1
            THEN cells[i - freevars + 1]
            ELSE slot[i]]
  /\ frames' = Append(frames, [bp |-> bp, params |-> params, extra |-> extra,
                               cells |-> Len(cells), fn |-> slot[bp],
                               va |-> Null])
  /\ sp' = BaseSp(freevars, cells)
  /\ UNCHANGED <<litter, globals, exc, threshold, phase>>

\* The default values a call may leave to the function, at most one here.
Defaults(fn) == {<<>>} \cup {<<o>> : o \in refs[fn]}

\* fnCall for a function without a variadic parameter, with argc arguments.  A
\* captured cell is one of the function's references, like a default.
Call(argc) ==
  LET bp == sp - argc
      fn == slot[bp]
  IN
  /\ Len(frames) < MaxFrames
  /\ bp \in Operands /\ fn # Null
  /\ \E new \in SUBSET Free :
     \E dflt \in Defaults(fn),
        cells \in [1 .. Cardinality(new) -> new \cup refs[fn]],
        value \in [new -> CellValues(bp .. sp)],
        extra \in ExtraLocals :
       /\ Cardinality(new) <= MaxCells
       /\ \A i, j \in DOMAIN cells :
            cells[i] = cells[j] /\ cells[i] \in new => i = j
       /\ Enter(argc, extra, dflt, cells, new, value)

\* The same for a function with a variadic parameter: the last v arguments
\* move into a ListObject made by plain new, which the collector does not
\* manage, and the list takes their place.
VariadicCall(argc, v) ==
  LET bp == sp - argc
      fn == slot[bp]
      params == argc - v + 1
  IN
  /\ Len(frames) < MaxFrames
  /\ v \in VariadicCounts(argc)
  /\ bp \in Operands /\ fn # Null
  /\ bp + params + 1 \in Slots
  /\ \E va \in Free :
       /\ status' = [status EXCEPT ![va] = "unmanaged"]
       /\ refs' = [refs EXCEPT ![va] = {slot[i] : i \in sp - v + 1 .. sp} \ {Null}]
       /\ marked' = marked \ {va}
       /\ slot' = [slot EXCEPT ![bp + params] = va]
       /\ frames' = Append(frames, [bp |-> bp, params |-> params, extra |-> 0,
                                    cells |-> 0, fn |-> fn, va |-> va])
  /\ sp' = bp + params + 1
  /\ UNCHANGED <<litter, allocated, globals, exc, threshold, phase>>

\* What fnCall deletes when the nested execute has returned.  Mutant: nothing.
DeletedNothing == {}
Deleted == {Top.va} \ {Null}

\* The tail of fnCall: the callee's slots are popped and its variadic list, if
\* any, is deleted.
Leave ==
  /\ Len(frames) > 1
  /\ frames' = SubSeq(frames, 1, Len(frames) - 1)
  /\ status' = [o \in Obj |-> IF o \in Deleted THEN "free" ELSE status[o]]
  /\ refs' = [o \in Obj |-> IF o \in Deleted THEN {} ELSE refs[o]]
  /\ marked' = marked \ Deleted
  /\ UNCHANGED <<litter, allocated, globals, exc, threshold>>

\* RETURN: the result is pushed in the caller, whose CALL then ends.
Return ==
  /\ Leave
  /\ sp \in Operands
  /\ slot' = [slot EXCEPT ![Top.bp] = slot[sp]]
  /\ sp' = Top.bp
  /\ CollectIfDue

\* An exception without a handler: execute returns nullptr and the caller
\* continues at error:.
Unwind ==
  /\ exc # Null
  /\ Leave
  /\ sp' = Top.bp - 1
  /\ UNCHANGED <<slot, phase>>

\* The root frame ends, by RETURN or by an exception, and ~Periwinkle calls
\* GC::clean.
Finish ==
  /\ Len(frames) = 1
  /\ Dispose(Managed)
  /\ phase' = "done"
  /\ UNCHANGED <<marked, litter, allocated, threshold>>
  /\ UNCHANGED machineVars

-----------------------------------------------------------------------------
(* The collector. *)

\* The first half of GC::gc.  An address that was freed may still be in a slot
\* it scans: the flag found there is arbitrary, its members are destroyed.  A lost
\* iterator found there is marked for good.
Mark ==
  /\ phase = "mark"
  /\ marked' = marked \cup MarkedFrom(Scanned)
  /\ phase' = "sweep"
  /\ UNCHANGED <<status, refs, litter, allocated, threshold>>
  /\ UNCHANGED machineVars

\* GC::sweep disposes of what is not marked and clears the flags of the rest,
\* then the threshold moves.
Sweep ==
  /\ phase = "sweep"
  /\ Dispose(Garbage)
  /\ marked' = MarksAfterSweep
  /\ allocated' = allocated - Released
  /\ litter' = 0
  /\ threshold' = NextThreshold(allocated')
  /\ phase' = "run"
  /\ UNCHANGED machineVars

Instruction ==
  \/ Load
  \/ Fetch
  \/ \E k \in 0 .. 2 : Compute(k)
  \/ GetIter
  \/ Litter
  \/ StoreGlobal
  \/ DeleteGlobal
  \/ StoreLocal
  \/ DeleteLocal
  \/ StoreCell
  \/ Mutate
  \/ Drop
  \/ Raise
  \/ Throw
  \/ Catch
  \/ \E argc \in 0 .. MaxArgs : Call(argc)
  \/ \E argc \in 0 .. MaxArgs, v \in 0 .. MaxArgs : VariadicCall(argc, v)
  \/ Return
  \/ Unwind
  \/ Finish

Next == \/ phase = "run" /\ Instruction
        \/ Mark
        \/ Sweep

Spec == Init /\ [][Next]_vars

-----------------------------------------------------------------------------
(* Properties. *)

\* The types of the variables; AllocatedIsHeapSize pins down the account.
TypeOK ==
  /\ status \in [Obj -> Statuses]
  /\ refs \in [Obj -> SUBSET Obj]
  /\ marked \subseteq Obj
  /\ slot \in [Slots -> Ref]
  /\ sp \in Slots
  /\ frames \in Seq(Frame) /\ frames # <<>>
  /\ globals \in [Name -> Ref]
  /\ exc \in Ref
  /\ phase \in {"run", "mark", "sweep", "done"}

\* Frames share the stack: the locals and cells of a frame lie above everything
\* its callers keep there, and its operands above those (fnCall computes bp from
\* the caller's sp, and sp from the lengths of locals, cells and freevars).
FramesNested ==
  /\ \A i, j \in DOMAIN frames : i < j => Gap(frames[i]) < frames[j].bp
  /\ Gap(Top) <= sp

\* The collector never deletes an object the program can still reach: while the
\* program runs, every object reachable from what an instruction can name is
\* allocated (GC::mark, GC::sweep, fnCall's delete of its variadic list).
Reachable == Reach(Roots, refs)
NoLiveFreed == phase # "done" => Reachable \subseteq Allocated

\* Why nothing reachable is freed, as an invariant that each step preserves when
\* no program calls a variadic function or has extra locals: there are no
\* objects outside GC::objects, the roots and what allocated objects refer to is
\* allocated, and between mark and sweep the marked ones are a closed set that
\* holds the roots.
Unshared ==
  /\ \A o \in Obj : status[o] # "unmanaged"
  /\ \A i \in DOMAIN frames : frames[i].va = Null
Closed ==
  /\ Roots \subseteq Allocated
  /\ \A o \in Allocated : refs[o] \subseteq Allocated
Covered ==
  /\ phase \in {"run", "mark"} => marked \cap Allocated = {}
  /\ phase = "sweep" => /\ Roots \subseteq marked
                        /\ \A o \in marked \cap Allocated : refs[o] \subseteq marked
HeapInv == Unshared /\ (phase # "done" => Closed /\ Covered)

\* fnCall reads fn->code after the nested execute has returned
\* (function_object.cpp:110), with no reference to fn but the one in slot bp:
\* the function of every active frame is allocated.
RunningFunctionKept ==
  phase # "done" =>
    \A i \in DOMAIN frames : frames[i].fn # Null => frames[i].fn \in Allocated

\* Outside a collection no managed object carries a mark, so the next
\* collection traverses each again (GC::sweep clears what vm::mark set, and a
\* reused address starts clear).
MarksClear == phase \in {"run", "mark"} => marked \cap Managed = {}

\* allocated is the total size of the managed objects, whatever was allocated,
\* deleted, and allocated again at the same address.
AllocatedIsHeapSize ==
  phase # "done" => allocated = SizeOfAll(Managed) + litter

\* A collection disposes of every object that is unreachable from what it scans:
\* garbage is never kept by a mark left over from an earlier collection.
CollectsAllGarbage ==
  [][Sweep => Managed' \subseteq Reach(Scanned, refs)]_vars

\* The arguments that fnCall moved into the variadic list of a running function
\* are used by that function, so the sweep keeps them: traverse "must visit
\* every object the given object refers to" (object.hpp:150).
VariadicItemsMarked ==
  phase = "sweep" =>
    \A i \in DOMAIN frames : frames[i].va # Null =>
      refs[frames[i].va] \cap Garbage = {}

\* A variadic list exists as long as the frame of its call and no longer: fnCall
\* deletes it once, whichever way the call ends, the sweep never does, and no two
\* frames share one (function_object.cpp:61, 110).
ListsOwned ==
  /\ \A o \in Obj : status[o] = "unmanaged" <=> \E i \in DOMAIN frames : frames[i].va = o
  /\ \A i, j \in DOMAIN frames : frames[i].va = frames[j].va /\ i # j => frames[i].va = Null

\* The collector implements the memory of module Heap: nothing the program can
\* reach goes away, and what it could not reach it never finds again, neither in
\* a slot an earlier call left behind nor at an address that is used again.
Memory == INSTANCE Heap WITH
  allocated <- Allocated,
  reachable <- Reachable,
  ended <- phase = "done"
ImplementsHeap == Memory!Spec
=============================================================================
