----------------------------- MODULE GC_proofs ------------------------------
(***************************************************************************)
(* Proofs about GC, for every heap, stack and program size: the types and  *)
(* the nesting of frames for all programs; that nothing the program can    *)
(* reach is ever deleted, and that the memory manager implements module    *)
(* Heap, as long as the program calls no variadic function and its         *)
(* functions have no locals besides their parameters.                      *)
(***************************************************************************)
EXTENDS GC, FiniteSetTheorems, SequenceTheorems, TLAPS

\* The types need one more fact: a frame's slots lie between its callers' and
\* sp, so what an instruction reads and what a return leaves is on the stack.
TypeInv == TypeOK /\ FramesNested

\* The statuses of the objects in GC::objects.
Kinds == {"managed", "iterator"}

LEMMA GapType ==
  ASSUME NEW f \in Frame
  PROVE  /\ Locals(f) \in Nat /\ Freevars(f) \in Nat /\ Gap(f) \in Nat
         /\ f.bp <= Freevars(f) /\ Freevars(f) <= Gap(f)
         /\ f.fn # Null => f.bp < Freevars(f)
BY NumberAssumption DEF Frame, Slots, Locals, Freevars, Gap

LEMMA TopType ==
  ASSUME TypeOK
  PROVE  /\ Len(frames) \in Nat \ {0}
         /\ Top = frames[Len(frames)] /\ Top \in Frame
         /\ \A i \in 1 .. Len(frames) : frames[i] \in Frame
BY DEF TypeOK, Top

LEMMA InitType == Init => TypeInv
<1> SUFFICES ASSUME Init PROVE TypeInv
  OBVIOUS
<1>1. RootFrame \in Frame /\ frames = <<RootFrame>>
  BY NumberAssumption, HeapAssumption DEF Init, RootFrame, Frame, Slots, Ref
<1>2. /\ frames \in Seq(Frame) /\ frames # <<>> /\ Len(frames) = 1
      /\ DOMAIN frames = {1} /\ Top = RootFrame
  BY <1>1 DEF Top
<1>3. Gap(RootFrame) = 0
  BY DEF RootFrame, Gap, Freevars, Locals
<1>4. TypeOK
  BY <1>2, HeapAssumption, NumberAssumption DEF Init, TypeOK, Slots, Ref, Statuses
<1>5. FramesNested
  BY <1>2, <1>3 DEF Init, FramesNested
<1> QED
  BY <1>4, <1>5 DEF TypeInv

\* What an allocation does to the heap.
LEMMA AllocateType ==
  ASSUME TypeOK, NEW kind \in Kinds, NEW o \in Obj, NEW r \in SUBSET Obj,
         AllocateAs(kind, o, r)
  PROVE  /\ status' \in [Obj -> Statuses]
         /\ refs' \in [Obj -> SUBSET Obj]
         /\ marked' \subseteq Obj
BY DEF TypeOK, AllocateAs, Kinds, Statuses

\* What the deletion of objects does to it.
LEMMA DisposeType ==
  ASSUME TypeOK, NEW S, Dispose(S)
  PROVE  status' \in [Obj -> Statuses] /\ refs' \in [Obj -> SUBSET Obj]
BY DEF TypeOK, Dispose, Statuses

\* The steps that leave the frames alone.
LEMMA SameFramesType ==
  ASSUME TypeInv, frames' = frames,
         slot' \in [Slots -> Ref], sp' \in Slots, Gap(Top) <= sp',
         globals' \in [Name -> Ref], exc' \in Ref,
         status' \in [Obj -> Statuses],
         refs' \in [Obj -> SUBSET Obj], marked' \subseteq Obj,
         phase' \in {"run", "mark", "sweep", "done"}
  PROVE  TypeInv'
<1>1. Top' = Top
  BY DEF Top
<1> QED
  BY <1>1 DEF TypeInv, TypeOK, FramesNested

\* The tail of fnCall: one frame fewer, and the caller's slots end below it.
LEMMA LeaveType ==
  ASSUME TypeInv, Leave
  PROVE  /\ Len(frames) \in Nat /\ Len(frames) > 1
         /\ Top = frames[Len(frames)] /\ Top \in Frame
         /\ Top.bp \in Slots /\ Top.bp - 1 \in Slots
         /\ frames' \in Seq(Frame) /\ frames' # <<>>
         /\ Len(frames') = Len(frames) - 1
         /\ \A i \in 1 .. Len(frames') : frames'[i] = frames[i]
         /\ Gap(Top') < Top.bp
         /\ sp' \in Int /\ sp' >= Top.bp - 1 => FramesNested'
         /\ status' \in [Obj -> Statuses]
         /\ refs' \in [Obj -> SUBSET Obj]
         /\ marked' \subseteq Obj
<1>1. /\ Len(frames) \in Nat /\ Len(frames) > 1
      /\ Top = frames[Len(frames)] /\ Top \in Frame
      /\ frames \in Seq(Frame) /\ DOMAIN frames = 1 .. Len(frames)
  BY TopType DEF TypeInv, TypeOK, Leave
<1>2. /\ frames' \in Seq(Frame)
      /\ Len(frames') = Len(frames) - 1 /\ DOMAIN frames' = 1 .. Len(frames')
      /\ \A i \in 1 .. Len(frames') : frames'[i] = frames[i]
  BY <1>1 DEF Leave
<1>3. frames' # <<>> /\ Top' = frames[Len(frames) - 1] /\ Top' \in Frame
  BY <1>1, <1>2 DEF Top
<1>4. Gap(Top') < Top.bp
  <2>1. Len(frames) - 1 \in DOMAIN frames /\ Len(frames) \in DOMAIN frames
    BY <1>1
  <2> QED
    BY <2>1, <1>1, <1>3 DEF TypeInv, FramesNested
<1>5. Top.bp \in Slots /\ Top.bp - 1 \in Slots /\ Top.bp \in Nat
      /\ Gap(Top') \in Nat
  <2>1. Gap(Top') \in Nat
    BY <1>3, GapType
  <2>2. Top.bp \in Slots
    BY <1>1 DEF Frame
  <2> QED
    BY <2>1, <2>2, <1>4, NumberAssumption DEF Slots
<1>6. ASSUME sp' \in Int, sp' >= Top.bp - 1 PROVE FramesNested'
  <2>1. \A i, j \in DOMAIN frames' : i < j => Gap(frames'[i]) < frames'[j].bp
    BY <1>1, <1>2 DEF TypeInv, FramesNested
  <2>2. Gap(Top') <= sp'
    BY <1>4, <1>5, <1>6
  <2> QED
    BY <2>1, <2>2 DEF FramesNested
<1>7. /\ status' \in [Obj -> Statuses]
      /\ refs' \in [Obj -> SUBSET Obj]
      /\ marked' \subseteq Obj
  BY DEF Leave, TypeInv, TypeOK, Statuses
<1> QED
  BY <1>1, <1>2, <1>3, <1>4, <1>5, <1>6, <1>7

\* A frame above the current one keeps the frames nested.
LEMMA AppendFrame ==
  ASSUME TypeInv, NEW f \in Frame, Gap(Top) < f.bp,
         frames' = Append(frames, f), sp' \in Nat, Gap(f) <= sp'
  PROVE  frames' \in Seq(Frame) /\ frames' # <<>> /\ FramesNested'
<1>1. frames \in Seq(Frame)
  BY DEF TypeInv, TypeOK
<1>2. /\ frames' \in Seq(Frame) /\ Len(frames') = Len(frames) + 1
      /\ \A i \in 1 .. Len(frames) : frames'[i] = frames[i]
      /\ frames'[Len(frames) + 1] = f
  BY <1>1
<1>3. Len(frames) \in Nat /\ DOMAIN frames = 1 .. Len(frames)
      /\ DOMAIN frames' = 1 .. Len(frames')
  BY <1>1, <1>2
<1>4. Top' = f
  BY <1>2, <1>3 DEF Top
<1>5. \A i \in 1 .. Len(frames) : Gap(frames[i]) < f.bp
  <2> SUFFICES ASSUME NEW i \in 1 .. Len(frames) PROVE Gap(frames[i]) < f.bp
    OBVIOUS
  <2>1. /\ Len(frames) > 0 /\ Top = frames[Len(frames)] /\ Top \in Frame
        /\ frames[i] \in Frame
    BY TopType DEF TypeInv
  <2>2. /\ Gap(Top) \in Nat /\ Gap(frames[i]) \in Nat
        /\ Top.bp <= Gap(Top) /\ Top.bp \in Nat /\ f.bp \in Nat
    <3>1. \A g \in Frame : g.bp \in Nat
      BY NumberAssumption DEF Frame, Slots
    <3>2. Gap(Top) \in Nat /\ Top.bp <= Gap(Top)
      <4>1. Freevars(Top) \in Nat /\ Gap(Top) \in Nat
            /\ Top.bp <= Freevars(Top) /\ Freevars(Top) <= Gap(Top)
        BY <2>1, GapType
      <4> QED
        BY <4>1, <3>1, <2>1
    <3>3. Gap(frames[i]) \in Nat
      BY <2>1, GapType
    <3> QED
      BY <3>1, <3>2, <3>3, <2>1
  <2>3. i = Len(frames) \/ i < Len(frames)
    <3>1. \A n \in Nat : \A m \in 1 .. n : m = n \/ m < n
      OBVIOUS
    <3> QED
      BY <3>1, <1>3
  <2>4. i < Len(frames) => Gap(frames[i]) < Top.bp
    <3>1. i \in DOMAIN frames /\ Len(frames) \in DOMAIN frames
      BY <2>1, <1>3
    <3> QED
      BY <3>1, <2>1 DEF TypeInv, FramesNested
  <2>5. CASE i = Len(frames)
    BY <2>1, <2>5
  <2>6. CASE i < Len(frames)
    BY <2>2, <2>4, <2>6
  <2> QED
    BY <2>3, <2>5, <2>6
<1>6. \A i, j \in DOMAIN frames' : i < j => Gap(frames'[i]) < frames'[j].bp
  <2> SUFFICES ASSUME NEW i \in DOMAIN frames', NEW j \in DOMAIN frames', i < j
               PROVE  Gap(frames'[i]) < frames'[j].bp
    OBVIOUS
  <2>1. i \in 1 .. Len(frames) /\ frames'[i] = frames[i]
    BY <1>2, <1>3
  <2>2. CASE j = Len(frames) + 1
    BY <2>1, <2>2, <1>2, <1>5
  <2>3. CASE j # Len(frames) + 1
    <3>1. j \in 1 .. Len(frames) /\ frames'[j] = frames[j]
      BY <2>3, <1>2, <1>3
    <3> QED
      BY <2>1, <3>1, <1>3 DEF TypeInv, FramesNested
  <2> QED
    BY <2>2, <2>3
<1> QED
  BY <1>2, <1>3, <1>4, <1>6 DEF FramesNested

\* A new frame, whatever is put in its slots.
LEMMA EnterType ==
  ASSUME TypeInv,
         NEW argc \in Nat, NEW extra \in Nat,
         NEW dflt \in Seq(Obj), NEW cells \in Seq(Obj),
         NEW new \in SUBSET Obj, NEW value \in [new -> SUBSET Obj],
         sp - argc \in Slots, sp - argc > Gap(Top), slot[sp - argc] # Null,
         phase = "run",
         Enter(argc, extra, dflt, cells, new, value)
  PROVE  TypeInv'
<1> DEFINE bp == sp - argc
           params == argc + Len(dflt)
           freevars == bp + 1 + params + extra
<1> USE DEF Slots
<1>1. sp \in Slots /\ sp \in Nat /\ Len(dflt) \in Nat /\ Len(cells) \in Nat
  BY NumberAssumption DEF TypeInv, TypeOK
<1>2. /\ status' \in [Obj -> Statuses]
      /\ refs' \in [Obj -> SUBSET Obj]
      /\ marked' \subseteq Obj
  BY DEF Enter, BaseSp, TypeInv, TypeOK, Statuses
<1>3. slot' \in [Slots -> Ref]
  <2>1. \A i \in sp + 1 .. sp + Len(dflt) : dflt[i - sp] \in Ref
    <3> SUFFICES ASSUME NEW i \in sp + 1 .. sp + Len(dflt)
                 PROVE  dflt[i - sp] \in Ref
      OBVIOUS
    <3>1. i - sp \in 1 .. Len(dflt)
      BY <1>1
    <3> QED
      BY <3>1 DEF Ref
  <2>2. \A i \in freevars .. freevars + Len(cells) - 1 :
          cells[i - freevars + 1] \in Ref
    <3> SUFFICES ASSUME NEW i \in freevars .. freevars + Len(cells) - 1
                 PROVE  cells[i - freevars + 1] \in Ref
      OBVIOUS
    <3>1. i - freevars + 1 \in 1 .. Len(cells)
      BY <1>1
    <3> QED
      BY <3>1 DEF Ref
  <2>3. \A i \in Slots : slot[i] \in Ref
    BY DEF TypeInv, TypeOK
  <2>4. slot' = [i \in Slots |->
          IF i \in sp + 1 .. sp + Len(dflt) THEN dflt[i - sp]
          ELSE IF i \in freevars .. freevars + Len(cells) - 1
               THEN cells[i - freevars + 1]
               ELSE slot[i]]
    BY DEF Enter, BaseSp
  <2> QED
    BY <2>1, <2>2, <2>3, <2>4
<1>4. frames' \in Seq(Frame) /\ frames' # <<>> /\ FramesNested'
  <2> DEFINE f == [bp |-> bp, params |-> params, extra |-> extra,
                   cells |-> Len(cells), fn |-> slot[bp], va |-> Null]
  <2>1. f \in Frame
    BY <1>1 DEF Frame, Ref, TypeInv, TypeOK
  <2>2. frames' = Append(frames, f)
    BY DEF Enter, BaseSp
  <2>3. Gap(f) = sp'
    <3>1. f.fn # Null /\ f.bp = bp /\ f.params = params /\ f.extra = extra
          /\ f.cells = Len(cells)
      OBVIOUS
    <3> HIDE DEF f
    <3>2. Locals(f) = 1 + params + extra
      BY <3>1 DEF Locals
    <3>3. Gap(f) = freevars + Len(cells)
      BY <3>1, <3>2, <1>1 DEF Gap, Freevars
    <3> QED
      BY <3>3 DEF Enter, BaseSp
  <2>4. Gap(Top) < f.bp /\ sp' \in Nat
    BY <1>1 DEF Enter, BaseSp
  <2> HIDE DEF f
  <2> QED
    BY <2>1, <2>2, <2>3, <2>4, AppendFrame
<1>5. /\ sp' \in Slots /\ globals' \in [Name -> Ref] /\ exc' \in Ref
      /\ phase' \in {"run", "mark", "sweep", "done"}
  BY DEF Enter, BaseSp, TypeInv, TypeOK
<1> QED
  BY <1>2, <1>3, <1>4, <1>5 DEF TypeInv, TypeOK

LEMMA SingletonSeq == ASSUME NEW S, NEW o \in S PROVE <<o>> \in Seq(S)
OBVIOUS

LEMMA SeqSubset ==
  ASSUME NEW S, NEW T, S \subseteq T, NEW s \in Seq(S)
  PROVE  s \in Seq(T)
OBVIOUS

\* What Call picks fits EnterType.
LEMMA CallEnters ==
  ASSUME TypeInv, NEW argc \in Nat, Call(argc)
  PROVE  /\ sp - argc \in Operands /\ sp - argc \in Slots /\ sp - argc > 0
         /\ sp - argc > Gap(Top)
         /\ slot[sp - argc] \in Obj
         /\ \E extra \in ExtraLocals, new \in SUBSET Free :
            \E dflt \in Seq(refs[slot[sp - argc]]),
               cells \in Seq(new \cup refs[slot[sp - argc]]),
               value \in [new -> CellValues(sp - argc .. sp)] :
              Enter(argc, extra, dflt, cells, new, value)
<1> DEFINE bp == sp - argc
           fn == slot[bp]
<1>1. Top \in Frame /\ Gap(Top) \in Nat
  BY TopType, GapType DEF TypeInv
<1>2. bp \in Operands /\ fn # Null
  BY DEF Call
<1>3. bp \in Slots /\ bp > 0 /\ bp > Gap(Top)
  BY <1>1, <1>2, NumberAssumption DEF Operands, TypeInv, TypeOK, Slots
<1>4. fn \in Obj
  BY <1>2, <1>3 DEF TypeInv, TypeOK, Ref
<1>5. PICK new \in SUBSET Free :
      \E dflt \in Defaults(fn),
         cells \in [1 .. Cardinality(new) -> new \cup refs[fn]],
         value \in [new -> CellValues(bp .. sp)],
         extra \in ExtraLocals : Enter(argc, extra, dflt, cells, new, value)
  BY DEF Call
<1>6. Cardinality(new) \in Nat
  BY FS_Subset, FS_CardinalityType, HeapAssumption DEF Free
<1>7. \A c \in [1 .. Cardinality(new) -> new \cup refs[fn]] :
        c \in Seq(new \cup refs[fn])
  BY <1>6
<1> HIDE DEF bp, fn
<1>8. \A d \in Defaults(fn) : d \in Seq(refs[fn])
  <2> SUFFICES ASSUME NEW d \in Defaults(fn) PROVE d \in Seq(refs[fn])
    OBVIOUS
  <2>1. CASE d = <<>>
    BY <2>1
  <2>2. CASE d # <<>>
    <3>1. PICK o \in refs[fn] : d = <<o>>
      BY <2>2 DEF Defaults
    <3> QED
      BY <3>1, SingletonSeq
  <2> QED
    BY <2>1, <2>2
<1>9. \E extra \in ExtraLocals, dflt \in Seq(refs[fn]), cells \in Seq(new \cup refs[fn]),
         value \in [new -> CellValues(bp .. sp)] :
        Enter(argc, extra, dflt, cells, new, value)
  BY <1>5, <1>7, <1>8
<1>10. \E extra \in ExtraLocals, m \in SUBSET Free :
         \E dflt \in Seq(refs[fn]), cells \in Seq(m \cup refs[fn]),
            value \in [m -> CellValues(bp .. sp)] :
           Enter(argc, extra, dflt, cells, m, value)
  BY <1>9
<1> QED
  BY <1>2, <1>3, <1>4, <1>10 DEF bp, fn


\* What the instructions read: slots of the current frame are on the stack.
LEMMA SlotsInRange ==
  ASSUME TypeInv
  PROVE  /\ TypeOK /\ Null \notin Obj
         /\ Top \in Frame /\ Gap(Top) \in Nat /\ Gap(Top) <= sp
         /\ sp \in Nat /\ sp \in Slots
         /\ \A i \in LocalSlots(Top) \cup CellSlots(Top) \cup Operands : i \in Slots
         /\ \A i \in Slots : slot[i] \in Obj \cup {Null}
         /\ GlobalRefs \subseteq Obj \cup {Null}
         /\ exc \in Obj \cup {Null}
<1>1. TypeOK /\ Null \notin Obj
  BY HeapAssumption DEF TypeInv
<1>2. /\ Top \in Frame /\ Gap(Top) \in Nat /\ Freevars(Top) \in Nat
      /\ Freevars(Top) <= Gap(Top)
      /\ Top.bp \in Slots
  BY TopType, GapType, <1>1 DEF Frame
<1>3. /\ Gap(Top) <= sp /\ sp \in Nat /\ sp \in Slots
  BY <1>1, NumberAssumption DEF TypeInv, FramesNested, TypeOK, Slots
<1>4. \A i \in LocalSlots(Top) \cup CellSlots(Top) \cup Operands : i \in Slots
  BY <1>2, <1>3, NumberAssumption DEF LocalSlots, CellSlots, Operands, Slots
<1>5. /\ \A i \in Slots : slot[i] \in Obj \cup {Null}
      /\ GlobalRefs \subseteq Obj \cup {Null}
      /\ exc \in Obj \cup {Null}
  BY <1>1 DEF TypeOK, Ref, GlobalRefs
<1> QED
  BY <1>1, <1>2, <1>3, <1>4, <1>5

\* What Load pushes is a reference.
LEMMA LoadableType ==
  ASSUME TypeInv
  PROVE  Loadable \cup {slot[i] : i \in {sp} \cap Operands} \subseteq Obj \cup {Null}
<1>1. /\ TypeOK
      /\ \A i \in LocalSlots(Top) \cup CellSlots(Top) \cup Operands : i \in Slots
      /\ \A i \in Slots : slot[i] \in Obj \cup {Null}
      /\ GlobalRefs \subseteq Obj \cup {Null}
  BY SlotsInRange
<1>2. \A i \in CellSlots(Top) : slot[i] # Null => refs[slot[i]] \subseteq Obj
  BY <1>1 DEF TypeOK
<1>3. {slot[i] : i \in {sp} \cap Operands} \subseteq Obj \cup {Null}
  BY <1>1
<1>4. Loadable \subseteq Obj \cup {Null}
  <2> SUFFICES ASSUME NEW o \in Loadable PROVE o \in Obj \cup {Null}
    OBVIOUS
  <2>1. \/ \E i \in LocalSlots(Top) : o = slot[i]
        \/ \E i \in CellSlots(Top) : o = slot[i]
        \/ \E i \in CellSlots(Top) : slot[i] # Null /\ o \in refs[slot[i]]
        \/ o \in GlobalRefs
        \/ o \in CodeConst
    BY DEF Loadable
  <2>2. CASE \E i \in CellSlots(Top) : slot[i] # Null /\ o \in refs[slot[i]]
    BY <2>2, <1>2
  <2>3. CASE o \in GlobalRefs \/ o \in CodeConst
    BY <2>3, <1>1, HeapAssumption
  <2>4. CASE \E i \in LocalSlots(Top) \cup CellSlots(Top) : o = slot[i]
    BY <2>4, <1>1
  <2> QED
    BY <2>1, <2>2, <2>3, <2>4
<1> QED
  BY <1>3, <1>4

LEMMA VariadicCallType ==
  ASSUME TypeInv, phase = "run", NEW argc \in Nat, NEW v \in Nat,
         VariadicCall(argc, v)
  PROVE  TypeInv'
<1> DEFINE bp == sp - argc
           params == argc - v + 1
<1> USE DEF Slots, Ref
<1>1. /\ TypeOK /\ sp \in Nat /\ Gap(Top) \in Nat
      /\ \A i \in Operands : i \in Slots
      /\ \A i \in Slots : slot[i] \in Obj \cup {Null}
  BY SlotsInRange
<1>2. /\ bp \in Operands /\ slot[bp] # Null /\ bp + params + 1 \in Slots
      /\ v \in 0 .. argc
  BY DEF VariadicCall, VariadicCounts
<1>3. /\ bp \in Slots /\ bp \in Nat /\ Gap(Top) < bp /\ params \in Nat
      /\ bp + params \in Slots
  BY <1>1, <1>2, NumberAssumption DEF Operands
<1>4. PICK va \in Free :
        /\ status' = [status EXCEPT ![va] = "unmanaged"]
        /\ refs' = [refs EXCEPT
             ![va] = {slot[i] : i \in sp - v + 1 .. sp} \ {Null}]
        /\ marked' = marked \ {va}
        /\ slot' = [slot EXCEPT ![bp + params] = va]
        /\ frames' = Append(frames, [bp |-> bp, params |-> params, extra |-> 0,
                                     cells |-> 0, fn |-> slot[bp], va |-> va])
  BY DEF VariadicCall
<1>5. va \in Obj /\ slot[bp] \in Obj
  BY <1>1, <1>2, <1>3 DEF Free
<1>6. {slot[i] : i \in sp - v + 1 .. sp} \ {Null} \subseteq Obj
  <2>1. \A i \in sp - v + 1 .. sp : i \in Slots
    BY <1>1, <1>2, <1>3, NumberAssumption DEF TypeOK
  <2> QED
    BY <2>1, <1>1
<1>7. /\ status' \in [Obj -> Statuses]
      /\ refs' \in [Obj -> SUBSET Obj] /\ marked' \subseteq Obj
      /\ slot' \in [Slots -> Ref]
  BY <1>1, <1>4, <1>5, <1>6 DEF TypeOK, Statuses
<1>8. sp' = bp + params + 1 /\ sp' \in Slots /\ sp' \in Nat
  BY <1>2, <1>3 DEF VariadicCall
<1>9. frames' \in Seq(Frame) /\ frames' # <<>> /\ FramesNested'
  <2> DEFINE f == [bp |-> bp, params |-> params, extra |-> 0,
                   cells |-> 0, fn |-> slot[bp], va |-> va]
  <2>1. f \in Frame
    BY <1>3, <1>5 DEF Frame
  <2>2. Gap(f) = sp' /\ f.bp = bp
    <3>1. f.fn # Null /\ f.bp = bp /\ f.params = params /\ f.extra = 0
          /\ f.cells = 0
      BY <1>2
    <3> HIDE DEF f
    <3>2. Locals(f) = 1 + params
      BY <3>1, <1>3 DEF Locals
    <3> QED
      BY <3>1, <3>2, <1>3, <1>8 DEF Gap, Freevars
  <2>3. frames' = Append(frames, f)
    BY <1>4
  <2> HIDE DEF f
  <2> QED
    BY <2>1, <2>2, <2>3, <1>3, <1>8, AppendFrame
<1>10. /\ globals' \in [Name -> Ref] /\ exc' \in Ref
       /\ phase' \in {"run", "mark", "sweep", "done"}
  BY <1>1 DEF VariadicCall, TypeOK
<1> QED
  BY <1>7, <1>8, <1>9, <1>10 DEF TypeInv, TypeOK

LEMMA InstructionType == TypeInv /\ phase = "run" /\ Instruction => TypeInv'
<1> SUFFICES ASSUME TypeInv, phase = "run", Instruction PROVE TypeInv'
  OBVIOUS
<1>0. /\ TypeOK /\ Null \notin Obj
      /\ Top \in Frame /\ Gap(Top) \in Nat /\ Gap(Top) <= sp
      /\ sp \in Nat /\ sp \in Slots
      /\ \A i \in LocalSlots(Top) \cup CellSlots(Top) \cup Operands : i \in Slots
      /\ \A i \in Slots : slot[i] \in Obj \cup {Null}
      /\ exc \in Obj \cup {Null}
  BY SlotsInRange
<1> USE DEF Ref
<1>a. CollectIfDue => phase' \in {"run", "mark", "sweep", "done"}
  BY DEF CollectIfDue
<1>b. NoAlloc => /\ status' \in [Obj -> Statuses]
                 /\ refs' \in [Obj -> SUBSET Obj] /\ marked' \subseteq Obj
  BY <1>0 DEF NoAlloc, TypeOK
<1>c. \A i \in Operands : i - 1 \in Slots /\ Gap(Top) <= i - 1 /\ i \in Nat
  BY <1>0, NumberAssumption DEF Operands, Slots
<1>1. CASE Load
  <2>1. slot' \in [Slots -> Ref] /\ sp' \in Slots /\ Gap(Top) <= sp'
    BY <1>0, <1>1, LoadableType DEF Load, TypeOK
  <2> QED
    BY <1>1, <2>1, <1>a, <1>b, <1>0, SameFramesType DEF Load, TypeOK
<1>2. CASE Fetch
  <2>1. PICK o \in refs[slot[sp]], keep \in {0, 1} :
          /\ sp + keep \in Slots
          /\ slot' = [slot EXCEPT ![sp + keep] = o]
          /\ sp' = sp + keep
    BY <1>2 DEF Fetch
  <2>2. slot[sp] \in Obj
    BY <1>2, <1>0 DEF Fetch
  <2>3. slot' \in [Slots -> Ref] /\ sp' \in Slots /\ Gap(Top) <= sp'
    BY <1>0, <2>1, <2>2 DEF TypeOK
  <2> QED
    BY <1>2, <2>3, <1>a, <1>b, <1>0, SameFramesType DEF Fetch, TypeOK
<1>3. ASSUME NEW k \in 0 .. 2, Compute(k) PROVE TypeInv'
  <2>1. PICK o \in Free :
          /\ \E r \in {{}, {slot[i] : i \in sp - k + 1 .. sp} \ {Null}} :
               Allocate(o, r)
          /\ slot' = [slot EXCEPT ![sp - k + 1] = o]
    BY <1>3 DEF Compute
  <2>2. {slot[i] : i \in sp - k + 1 .. sp} \ {Null} \subseteq Obj
    <3>1. \A i \in sp - k + 1 .. sp : i \in Slots
      BY <1>3, <1>0, NumberAssumption DEF Compute, Slots
    <3> QED
      BY <3>1, <1>0
  <2>3. /\ status' \in [Obj -> Statuses]
        /\ refs' \in [Obj -> SUBSET Obj] /\ marked' \subseteq Obj
    BY <2>1, <2>2, <1>0, AllocateType DEF Free, Allocate, Kinds
  <2>4. slot' \in [Slots -> Ref] /\ sp' \in Slots /\ Gap(Top) <= sp'
    <3>1. o \in Obj
      BY DEF Free
    <3>2. slot' \in [Slots -> Ref]
      BY <2>1, <3>1, <1>0 DEF TypeOK
    <3>3. sp' = sp - k + 1 /\ sp' \in Slots /\ Gap(Top) <= sp - k
      BY <1>3 DEF Compute
    <3> QED
      BY <3>2, <3>3, <1>0, <1>3
  <2> QED
    BY <1>3, <2>3, <2>4, <1>a, <1>0, SameFramesType DEF Compute, TypeOK
<1>4. CASE Litter
  BY <1>4, <1>a, <1>0, SameFramesType DEF Litter, machineVars, TypeOK
<1>5. CASE StoreGlobal
  <2>1. slot[sp] \in Ref /\ globals' \in [Name -> Ref]
    BY <1>5, <1>0 DEF StoreGlobal, TypeOK
  <2> QED
    BY <1>5, <2>1, <1>a, <1>b, <1>c, <1>0, SameFramesType DEF StoreGlobal, TypeOK
<1>6. CASE DeleteGlobal
  BY <1>6, <1>a, <1>b, <1>0, SameFramesType DEF DeleteGlobal, TypeOK
<1>7. CASE StoreLocal
  <2>1. slot[sp] \in Ref /\ slot' \in [Slots -> Ref]
    BY <1>7, <1>0 DEF StoreLocal, StorableLocals, TypeOK
  <2> QED
    BY <1>7, <2>1, <1>a, <1>b, <1>c, <1>0, SameFramesType DEF StoreLocal, TypeOK
<1>8. CASE DeleteLocal
  BY <1>8, <1>a, <1>b, <1>0, SameFramesType DEF DeleteLocal, TypeOK
<1>9. CASE StoreCell
  <2>1. PICK i \in CellSlots(Top) :
          slot[i] # Null /\ refs' = [refs EXCEPT ![slot[i]] = {slot[sp]} \ {Null}]
    BY <1>9 DEF StoreCell
  <2>2. slot[sp] \in Obj \cup {Null}
    BY <1>9, <1>0 DEF StoreCell
  <2>3. refs' \in [Obj -> SUBSET Obj]
    BY <2>1, <2>2, <1>0 DEF TypeOK
  <2> QED
    BY <1>9, <2>3, <1>a, <1>c, <1>0, SameFramesType DEF StoreCell, TypeOK
<1>10. CASE Mutate
  <2>1. slot[sp - 1] \in Obj /\ sp - 1 \in Slots /\ slot[sp] \in Obj \cup {Null}
    BY <1>10, <1>0 DEF Mutate
  <2>2. refs' \in [Obj -> SUBSET Obj]
    BY <1>10, <2>1, <1>0 DEF Mutate, TypeOK
  <2>3. slot' \in [Slots -> Ref]
    BY <1>10, <1>0 DEF Mutate, TypeOK
  <2> QED
    BY <1>10, <2>2, <2>3, <1>a, <1>c, <1>0, SameFramesType DEF Mutate, TypeOK
<1>11. CASE Drop
  <2>1. sp' \in Slots /\ Gap(Top) <= sp'
    BY <1>11, <1>0, NumberAssumption DEF Drop, Slots
  <2> QED
    BY <1>11, <2>1, <1>a, <1>b, <1>0, SameFramesType DEF Drop, TypeOK
<1>12. CASE Raise
  BY <1>12, <1>b, <1>c, <1>0, SameFramesType DEF Raise, TypeOK
<1>13. CASE Throw
  <2>1. PICK o \in Free : Allocate(o, {}) /\ exc' = o
    BY <1>13 DEF Throw
  <2>2. /\ status' \in [Obj -> Statuses]
        /\ refs' \in [Obj -> SUBSET Obj] /\ marked' \subseteq Obj
        /\ exc' \in Ref
    BY <2>1, <1>0, AllocateType DEF Free, Allocate, Kinds
  <2>3. sp' \in Slots /\ Gap(Top) <= sp'
    BY <1>13, <1>0, NumberAssumption DEF Throw, Slots
  <2> QED
    BY <1>13, <2>2, <2>3, <1>0, SameFramesType DEF Throw, TypeOK
<1>14. CASE Catch
  BY <1>14, <1>a, <1>b, <1>0, SameFramesType DEF Catch, TypeOK
<1>15. ASSUME NEW argc \in 0 .. MaxArgs, Call(argc) PROVE TypeInv'
  <2>1. argc \in Nat
    BY NumberAssumption
  <2>2. /\ sp - argc \in Slots /\ sp - argc > Gap(Top)
        /\ slot[sp - argc] \in Obj /\ sp - argc \in Nat
    BY <2>1, <1>15, <1>0, CallEnters, NumberAssumption DEF Slots
  <2>3. PICK extra \in ExtraLocals, new \in SUBSET Free :
          \E dflt \in Seq(refs[slot[sp - argc]]),
             cells \in Seq(new \cup refs[slot[sp - argc]]),
             value \in [new -> CellValues(sp - argc .. sp)] :
            Enter(argc, extra, dflt, cells, new, value)
    BY <2>1, <1>15, CallEnters
  <2>4. PICK dflt \in Seq(refs[slot[sp - argc]]),
             cells \in Seq(new \cup refs[slot[sp - argc]]),
             value \in [new -> CellValues(sp - argc .. sp)] :
          Enter(argc, extra, dflt, cells, new, value)
    BY <2>3
  <2>5. extra \in Nat /\ new \in SUBSET Obj /\ refs[slot[sp - argc]] \subseteq Obj
    BY <2>2, <1>0 DEF ExtraLocals, Free, TypeOK
  <2>6. dflt \in Seq(Obj) /\ cells \in Seq(Obj)
    BY <2>5, SeqSubset
  <2>7. CellValues(sp - argc .. sp) \subseteq SUBSET Obj
    <3>1. \A i \in sp - argc .. sp : i \in Slots
      BY <2>1, <2>2, <1>0, NumberAssumption DEF Slots
    <3> QED
      BY <3>1, <1>0 DEF CellValues
  <2>8. value \in [new -> SUBSET Obj]
    BY <2>7
  <2> QED
    BY <2>1, <2>2, <2>4, <2>5, <2>6, <2>8, <1>0, EnterType
<1>16. ASSUME NEW argc \in 0 .. MaxArgs, NEW v \in 0 .. MaxArgs,
              VariadicCall(argc, v)
       PROVE  TypeInv'
  BY <1>16, VariadicCallType, NumberAssumption
<1>17. CASE Return
  <2>1. Leave /\ sp \in Operands /\ sp' = Top.bp
        /\ slot' = [slot EXCEPT ![Top.bp] = slot[sp]]
    BY <1>17 DEF Return
  <2>2. slot' \in [Slots -> Ref]
    BY <2>1, <1>0 DEF TypeOK
  <2>3. sp' \in Slots /\ sp' \in Int /\ sp' >= Top.bp - 1
    BY <2>1, LeaveType, NumberAssumption DEF Slots
  <2> QED
    BY <1>17, <2>1, <2>2, <2>3, LeaveType, <1>a, <1>0
    DEF Return, Leave, TypeInv, TypeOK
<1>18. CASE Unwind
  <2>1. Leave /\ sp' = Top.bp - 1 /\ slot' = slot /\ phase' = phase
    BY <1>18 DEF Unwind
  <2>2. sp' \in Slots /\ sp' \in Int /\ sp' >= Top.bp - 1
    BY <2>1, LeaveType, NumberAssumption DEF Slots
  <2> QED
    BY <2>1, <2>2, LeaveType, <1>0 DEF Leave, TypeInv, TypeOK
<1>19. CASE Finish
  <2>1. /\ status' \in [Obj -> Statuses]
        /\ refs' \in [Obj -> SUBSET Obj]
    BY <1>19, <1>0, DisposeType DEF Finish
  <2> QED
    BY <1>19, <2>1, <1>0, SameFramesType DEF Finish, machineVars, TypeOK
<1>20. CASE GetIter
  <2>1. PICK o \in Free :
          /\ \E r \in {{}} \cup {refs[c] : c \in {slot[sp]} \ {Null}} :
               AllocateAs("iterator", o, r)
          /\ slot' = [slot EXCEPT ![sp] = o]
    BY <1>20 DEF GetIter
  <2>2. PICK r \in {{}} \cup {refs[c] : c \in {slot[sp]} \ {Null}} :
          AllocateAs("iterator", o, r)
    BY <2>1
  <2>3. o \in Obj /\ r \in SUBSET Obj
    BY <2>2, <1>0 DEF Free, TypeOK
  <2>4. /\ status' \in [Obj -> Statuses]
        /\ refs' \in [Obj -> SUBSET Obj] /\ marked' \subseteq Obj
    BY <2>2, <2>3, <1>0, AllocateType DEF Kinds
  <2>5. slot' \in [Slots -> Ref]
    BY <2>1, <2>3, <1>0 DEF TypeOK
  <2> QED
    BY <1>20, <2>4, <2>5, <1>a, <1>0, SameFramesType DEF GetIter, TypeOK
<1> QED
  BY <1>1, <1>2, <1>3, <1>4, <1>5, <1>6, <1>7, <1>8, <1>9, <1>10, <1>11, <1>12,
     <1>13, <1>14, <1>15, <1>16, <1>17, <1>18, <1>19, <1>20 DEF Instruction


LEMMA NextType == TypeInv /\ [Next]_vars => TypeInv'
<1> SUFFICES ASSUME TypeInv, [Next]_vars PROVE TypeInv'
  OBVIOUS
<1>0. TypeOK /\ Gap(Top) <= sp
  BY SlotsInRange
<1>1. CASE phase = "run" /\ Instruction
  BY <1>1, InstructionType
<1>2. CASE Mark
  <2>1. marked' \subseteq Obj
    BY <1>2, <1>0 DEF Mark, MarkedFrom, Reach, TypeOK
  <2> QED
    BY <1>2, <2>1, <1>0, SameFramesType DEF Mark, machineVars, TypeOK
<1>3. CASE Sweep
  <2>1. /\ status' \in [Obj -> Statuses]
        /\ refs' \in [Obj -> SUBSET Obj]
        /\ marked' \subseteq Obj
    BY <1>3, <1>0, DisposeType DEF Sweep, MarksAfterSweep, TypeOK
  <2> QED
    BY <1>3, <2>1, <1>0, SameFramesType DEF Sweep, machineVars, TypeOK
<1>4. CASE UNCHANGED vars
  BY <1>4, <1>0, SameFramesType DEF vars, TypeOK
<1> QED
  BY <1>1, <1>2, <1>3, <1>4 DEF Next

\* Every reachable state is well typed: in particular sp stays on the stack,
\* through any sequence of calls, returns and exceptions.
THEOREM TypeCorrect == Spec => []TypeOK
<1>1. TypeInv => TypeOK
  BY DEF TypeInv
<1> QED
  BY <1>1, InitType, NextType, PTL DEF Spec

\* The frames of nested calls never overlap, whatever the functions' numbers of
\* parameters, locals and cells, and for calls with variadic parameters too.
THEOREM FramesStayNested == Spec => []FramesNested
<1>1. TypeInv => FramesNested
  BY DEF TypeInv
<1> QED
  BY <1>1, InitType, NextType, PTL DEF Spec

-----------------------------------------------------------------------------
(* Nothing the program can reach is deleted. *)

LiveInv == TypeInv /\ HeapInv

\* Nothing outside a closed set is reachable from inside it.
LEMMA ReachWithin ==
  ASSUME NEW S \in SUBSET Obj, NEW from \in SUBSET S,
         NEW edges \in [Obj -> SUBSET Obj],
         \A p \in S : edges[p] \subseteq S
  PROVE  Reach(from, edges) \subseteq S
BY DEF Reach

\* What is reachable is closed.
LEMMA ReachClosed ==
  ASSUME NEW from \in SUBSET Obj, NEW edges \in [Obj -> SUBSET Obj]
  PROVE  /\ from \subseteq Reach(from, edges)
         /\ \A p \in Reach(from, edges) : edges[p] \subseteq Reach(from, edges)
<1>1. from \subseteq Reach(from, edges)
  BY DEF Reach
<1>2. ASSUME NEW p \in Reach(from, edges), NEW q \in edges[p]
      PROVE  q \in Reach(from, edges)
  <2>1. q \in Obj /\ p \in Obj
    BY DEF Reach
  <2>2. ASSUME NEW S \in SUBSET Obj, from \subseteq S,
               \A r \in S : edges[r] \subseteq S
        PROVE  q \in S
    <3>1. p \in S
      BY <2>2 DEF Reach
    <3> QED
      BY <2>2, <3>1
  <2> QED
    BY <2>1, <2>2 DEF Reach
<1> QED
  BY <1>1, <1>2

LEMMA LiveInvSafe == LiveInv => NoLiveFreed
<1> SUFFICES ASSUME LiveInv, phase # "done" PROVE Reachable \subseteq Allocated
  BY DEF NoLiveFreed
<1>1. /\ Roots \subseteq Allocated /\ Allocated \subseteq Obj
      /\ \A p \in Allocated : refs[p] \subseteq Allocated
      /\ refs \in [Obj -> SUBSET Obj]
  BY DEF LiveInv, HeapInv, Closed, Allocated, TypeInv, TypeOK
<1>2. Reach(Roots, refs) \subseteq Allocated
  BY <1>1, ReachWithin
<1> QED
  BY <1>2 DEF Reachable

LEMMA LiveInvInit == Init => LiveInv
<1> SUFFICES ASSUME Init PROVE LiveInv
  OBVIOUS
<1>1. TypeInv
  BY InitType
<1>2. Gap(RootFrame) = 0 /\ RootFrame.va = Null
  BY DEF RootFrame, Gap, Freevars, Locals
<1>3. /\ frames = <<RootFrame>> /\ DOMAIN frames = {1} /\ frames[1] = RootFrame
  BY DEF Init
<1>4. Unshared
  BY <1>2, <1>3 DEF Init, Unshared
<1>5. \A o \in CodeConst : o \in Allocated
  BY HeapAssumption DEF Init, Allocated
<1>6. Roots \subseteq CodeConst
  <2>1. \A i \in 0 .. sp : slot[i] = Null
    BY NumberAssumption DEF Init, Slots
  <2>2. GlobalRefs \subseteq {Null} /\ exc = Null
    BY DEF Init, GlobalRefs
  <2> QED
    BY <2>1, <2>2 DEF Roots
<1>7. Closed
  BY <1>5, <1>6 DEF Closed, Init, Allocated
<1>8. Covered
  BY DEF Covered, Init
<1> QED
  BY <1>1, <1>4, <1>7, <1>8 DEF LiveInv, HeapInv

-----------------------------------------------------------------------------
(* What is a root. *)

\* The slots an instruction reads are not gaps: what is in them is a root.
LEMMA OwnSlotsAreRoots ==
  ASSUME TypeInv
  PROVE  /\ \A i \in LocalSlots(Top) \cup CellSlots(Top) \cup Operands :
              i \in (0 .. sp) \ Gaps
         /\ \A i \in Operands : i > Gap(Top)
         /\ Gap(Top) \in Gaps
         /\ \A g \in Gaps : g \in Nat /\ g <= Gap(Top)
<1>1. /\ Top \in Frame /\ Len(frames) \in Nat /\ Len(frames) > 0
      /\ DOMAIN frames = 1 .. Len(frames) /\ Top = frames[Len(frames)]
      /\ \A i \in 1 .. Len(frames) : frames[i] \in Frame
  BY TopType DEF TypeInv, TypeOK
<1>2. /\ Top.bp \in Nat /\ Freevars(Top) \in Nat /\ Gap(Top) \in Nat
      /\ Top.bp <= Freevars(Top) /\ Freevars(Top) <= Gap(Top)
      /\ sp \in Nat /\ Gap(Top) <= sp
  BY <1>1, GapType, SlotsInRange, NumberAssumption DEF Frame, Slots
<1>3. ASSUME NEW i \in 1 .. Len(frames)
      PROVE  /\ Gap(frames[i]) \in Nat
             /\ i # Len(frames) => Gap(frames[i]) < Top.bp
  <2>1. Gap(frames[i]) \in Nat
    BY <1>1, GapType
  <2>2. i # Len(frames) => i < Len(frames)
    <3>1. \A n \in Nat : \A m \in 1 .. n : m # n => m < n
      OBVIOUS
    <3> QED
      BY <1>1, <3>1
  <2>3. Len(frames) \in DOMAIN frames /\ i \in DOMAIN frames
    BY <1>1
  <2> QED
    BY <2>1, <2>2, <2>3, <1>1 DEF TypeInv, FramesNested
<1>4. \A g \in Gaps : g \in Nat /\ (g = Gap(Top) \/ g < Top.bp)
  BY <1>1, <1>3 DEF Gaps
<1>5. Gap(Top) \in Gaps
  BY <1>1 DEF Gaps
<1>6. \A i \in LocalSlots(Top) \cup CellSlots(Top) :
        i \in Nat /\ Top.bp <= i /\ i < Gap(Top)
  BY <1>2 DEF LocalSlots, CellSlots
<1>7. \A i \in Operands : i \in Nat /\ i > Gap(Top) /\ i <= sp
  BY <1>2 DEF Operands
<1>8. \A i \in LocalSlots(Top) \cup CellSlots(Top) : i \in (0 .. sp) \ Gaps
  BY <1>2, <1>4, <1>6
<1>9. \A i \in Operands : i \in (0 .. sp) \ Gaps
  BY <1>2, <1>4, <1>7
<1>10. \A g \in Gaps : g \in Nat /\ g <= Gap(Top)
  BY <1>2, <1>4
<1> QED
  BY <1>5, <1>7, <1>8, <1>9, <1>10

\* A step that keeps the heap closed: what it leaves in the slots that are not
\* gaps, in the globals and in the exception is allocated.
RootsIn(S) ==
  /\ \A i \in (0 .. sp) \ Gaps : slot[i] \in S \cup {Null}
  /\ \A n \in Name : globals[n] \in S \cup {Null}
  /\ exc \in S \cup {Null}
  /\ CodeConst \subseteq S

LEMMA RootsInRoots ==
  ASSUME NEW S
  PROVE  RootsIn(S) => Roots \subseteq S
BY DEF RootsIn, Roots, GlobalRefs

LEMMA RootsRootsIn ==
  ASSUME NEW S, Roots \subseteq S
  PROVE  RootsIn(S)
<1>1. \A i \in (0 .. sp) \ Gaps : slot[i] \in S \cup {Null}
  BY DEF Roots
<1>2. \A n \in Name : globals[n] \in S \cup {Null}
  BY DEF Roots, GlobalRefs
<1>3. exc \in S \cup {Null}
  BY DEF Roots
<1>4. CodeConst \subseteq S
  BY HeapAssumption DEF Roots
<1> QED
  BY <1>1, <1>2, <1>3, <1>4 DEF RootsIn

-----------------------------------------------------------------------------
(* Instructions. *)

\* A set of objects that holds what an instruction can name and what its
\* objects refer to: the allocated objects are one as long as the program runs,
\* and the reachable objects are the smallest.  An instruction turns each such
\* set, with the objects it makes, into another.
Holds(A) ==
  /\ A \subseteq Obj
  /\ RootsIn(A)
  /\ \A o \in A : refs[o] \subseteq A

\* A step makes the objects new, all managed or all iterators.
NewObjects(new) ==
  /\ \E kind \in Kinds :
       status' = [o \in Obj |-> IF o \in new THEN kind ELSE status[o]]
  /\ marked' = marked \ new

LEMMA NewObjectsAllocated ==
  ASSUME NEW new \in SUBSET Free, NewObjects(new)
  PROVE  /\ Allocated' = Allocated \cup new
         /\ \A o \in Obj : status'[o] = "unmanaged" => status[o] = "unmanaged"
BY DEF NewObjects, Allocated, Free, Kinds

LEMMA NoNewObjects ==
  ASSUME TypeInv, status' = status, marked' = marked
  PROVE  NewObjects({})
<1>1. "managed" \in Kinds /\ marked \ {} = marked
  BY DEF Kinds
<1>2. status' = [o \in Obj |-> IF o \in {} THEN "managed" ELSE status[o]]
  BY DEF TypeInv, TypeOK
<1> QED
  BY <1>1, <1>2 DEF NewObjects

\* Whatever an instruction can read is in such a set.
LEMMA ReadsHeld ==
  ASSUME TypeInv, NEW A, Holds(A)
  PROVE  /\ A \subseteq Obj /\ Null \notin A
         /\ \A i \in (0 .. sp) \ Gaps : slot[i] \in A \cup {Null}
         /\ \A i \in LocalSlots(Top) \cup CellSlots(Top) \cup Operands :
              slot[i] \in A \cup {Null}
         /\ \A n \in Name : globals[n] \in A \cup {Null}
         /\ exc \in A \cup {Null}
         /\ CodeConst \subseteq A
         /\ \A o \in A : refs[o] \subseteq A
BY OwnSlotsAreRoots, HeapAssumption DEF Holds, RootsIn

\* What a step that leaves the frames alone must put where.
LEMMA SameFramesHolds ==
  ASSUME NEW A, NEW new \in SUBSET Obj, Holds(A), frames' = frames,
         \A o \in A \cup new : refs'[o] \subseteq A \cup new,
         \A i \in 0 .. sp' : \/ i \in 0 .. sp /\ slot'[i] = slot[i]
                             \/ slot'[i] \in A \cup new \cup {Null},
         \A n \in Name : globals'[n] \in A \cup new \cup {Null},
         exc' \in A \cup new \cup {Null}
  PROVE  Holds(A \cup new)'
<1>1. Gaps' = Gaps
  BY DEF Gaps
<1>2. \A i \in (0 .. sp') \ Gaps' : slot'[i] \in A \cup new \cup {Null}
  BY <1>1 DEF Holds, RootsIn
<1>3. RootsIn(A \cup new)'
  BY <1>2 DEF Holds, RootsIn
<1> QED
  BY <1>3 DEF Holds

\* The same for a step that makes nothing.
LEMMA NothingNewHolds ==
  ASSUME TypeInv, NEW A, Holds(A), frames' = frames,
         status' = status, marked' = marked,
         \A o \in A : refs'[o] \subseteq A,
         \A i \in 0 .. sp' : \/ i \in 0 .. sp /\ slot'[i] = slot[i]
                             \/ slot'[i] \in A \cup {Null},
         \A n \in Name : globals'[n] \in A \cup {Null},
         exc' \in A \cup {Null}
  PROVE  \E new \in SUBSET Free : NewObjects(new) /\ Holds(A \cup new)'
<1>1. {} \in SUBSET Free /\ {} \in SUBSET Obj /\ A \cup {} = A
  OBVIOUS
<1>2. Holds(A \cup {})'
  BY <1>1, SameFramesHolds
<1> QED
  BY <1>1, <1>2, NoNewObjects

\* And for one that allocates an object.
LEMMA AllocateHolds ==
  ASSUME TypeInv, NEW A, Holds(A), frames' = frames,
         NEW kind \in Kinds, NEW o, NEW r, AllocateAs(kind, o, r), r \subseteq A,
         \A i \in 0 .. sp' : \/ i \in 0 .. sp /\ slot'[i] = slot[i]
                             \/ slot'[i] \in A \cup {o} \cup {Null},
         \A n \in Name : globals'[n] \in A \cup {o} \cup {Null},
         exc' \in A \cup {o} \cup {Null}
  PROVE  \E new \in SUBSET Free : NewObjects(new) /\ Holds(A \cup new)'
<1>1. /\ status \in [Obj -> Statuses]
      /\ refs \in [Obj -> SUBSET Obj]
  BY DEF TypeInv, TypeOK
<1>2. o \in Free /\ o \in Obj /\ {o} \in SUBSET Free /\ {o} \in SUBSET Obj
  BY DEF AllocateAs, Free
<1>3. NewObjects({o})
  <2>1. status' = [p \in Obj |-> IF p \in {o} THEN kind ELSE status[p]]
    BY <1>1, <1>2 DEF AllocateAs
  <2> QED
    BY <2>1 DEF AllocateAs, NewObjects
<1>4. \A p \in A \cup {o} : refs'[p] \subseteq A \cup {o}
  BY <1>1, <1>2 DEF AllocateAs, Holds
<1>5. Holds(A \cup {o})'
  BY <1>2, <1>4, SameFramesHolds
<1> QED
  BY <1>2, <1>3, <1>5

\* What Load pushes.
LEMMA LoadableHeld ==
  ASSUME TypeInv, NEW A, Holds(A)
  PROVE  Loadable \cup {slot[i] : i \in {sp} \cap Operands} \subseteq A \cup {Null}
<1>1. /\ \A i \in LocalSlots(Top) \cup CellSlots(Top) \cup Operands :
           slot[i] \in A \cup {Null}
      /\ \A o \in A : refs[o] \subseteq A
      /\ \A n \in Name : globals[n] \in A \cup {Null}
      /\ CodeConst \subseteq A
  BY ReadsHeld
<1>2. {slot[i] : i \in {sp} \cap Operands} \subseteq A \cup {Null}
  BY <1>1
<1>3. ASSUME NEW o \in Loadable PROVE o \in A \cup {Null}
  <2>1. \/ \E i \in LocalSlots(Top) : o = slot[i]
        \/ \E i \in CellSlots(Top) : o = slot[i]
        \/ \E i \in CellSlots(Top) : slot[i] # Null /\ o \in refs[slot[i]]
        \/ o \in GlobalRefs
        \/ o \in CodeConst
    BY DEF Loadable
  <2>2. CASE \E i \in CellSlots(Top) : slot[i] # Null /\ o \in refs[slot[i]]
    BY <2>2, <1>1
  <2>3. CASE o \in GlobalRefs \/ o \in CodeConst
    BY <2>3, <1>1 DEF GlobalRefs
  <2>4. CASE \E i \in LocalSlots(Top) \cup CellSlots(Top) : o = slot[i]
    BY <2>4, <1>1
  <2> QED
    BY <2>1, <2>2, <2>3, <2>4
<1> QED
  BY <1>2, <1>3

\* The instructions that neither call nor return.
PlainInstruction ==
  \/ Load
  \/ Fetch
  \/ \E k \in 0 .. 2 : Compute(k)
  \/ GetIter
  \/ Litter
  \/ StoreGlobal
  \/ DeleteGlobal
  \/ StoreLocal
  \/ DeleteLocal
  \/ StoreCell
  \/ Mutate
  \/ Drop
  \/ Raise
  \/ Throw
  \/ Catch

LEMMA PlainInstructionHolds ==
  ASSUME TypeInv, NEW A, Holds(A), phase = "run", PlainInstruction
  PROVE  /\ frames' = frames /\ phase' \in {"run", "mark"}
         /\ \E new \in SUBSET Free : NewObjects(new) /\ Holds(A \cup new)'
<1> DEFINE Goal == \E new \in SUBSET Free : NewObjects(new) /\ Holds(A \cup new)'
<1>f. frames' = frames
  BY DEF PlainInstruction, Load, Fetch, Compute, GetIter, Litter, StoreGlobal,
         DeleteGlobal, StoreLocal, DeleteLocal, StoreCell, Mutate, Drop, Raise, Throw, Catch, machineVars
<1>p. phase' \in {"run", "mark"}
  BY DEF PlainInstruction, Load, Fetch, Compute, GetIter, Litter, StoreGlobal,
         DeleteGlobal, StoreLocal, DeleteLocal, StoreCell, Mutate, Drop, Raise, Throw, Catch, CollectIfDue
<1>0. /\ TypeOK /\ A \subseteq Obj
      /\ \A i \in LocalSlots(Top) \cup CellSlots(Top) \cup Operands :
           slot[i] \in A \cup {Null}
      /\ \A o \in A : refs[o] \subseteq A
      /\ \A n \in Name : globals[n] \in A \cup {Null}
      /\ exc \in A \cup {Null}
      /\ sp \in Nat /\ Gap(Top) \in Nat /\ Gap(Top) <= sp /\ Null \notin Obj
      /\ \A i \in Operands : i > Gap(Top) /\ i \in Slots
  BY ReadsHeld, SlotsInRange, OwnSlotsAreRoots
\* What is left to show of an instruction that only moves references.
<1>m. ASSUME NoAlloc, globals' = globals, exc' = exc,
             \A i \in 0 .. sp' : \/ i \in 0 .. sp /\ slot'[i] = slot[i]
                                 \/ slot'[i] \in A \cup {Null}
      PROVE  Goal
  BY <1>f, <1>m, <1>0, NothingNewHolds DEF NoAlloc
<1>1. CASE Load
  <2>1. PICK o \in A \cup {Null} : slot' = [slot EXCEPT ![sp + 1] = o]
    BY <1>1, LoadableHeld DEF Load
  <2>2. \A i \in 0 .. sp' : \/ i \in 0 .. sp /\ slot'[i] = slot[i]
                            \/ slot'[i] \in A \cup {Null}
    BY <1>0, <1>1, <2>1 DEF Load, TypeOK
  <2> QED
    BY <1>1, <2>2, <1>m, <1>f, <1>p DEF Load
<1>2. CASE Fetch
  <2>1. PICK o \in refs[slot[sp]], keep \in {0, 1} :
          /\ sp + keep \in Slots
          /\ slot' = [slot EXCEPT ![sp + keep] = o]
          /\ sp' = sp + keep
    BY <1>2 DEF Fetch
  <2>2. slot[sp] \in A /\ o \in A
    BY <1>2, <1>0, <2>1 DEF Fetch
  <2>3. \A i \in 0 .. sp' : \/ i \in 0 .. sp /\ slot'[i] = slot[i]
                            \/ slot'[i] \in A \cup {Null}
    BY <1>0, <2>1, <2>2 DEF TypeOK
  <2> QED
    BY <1>2, <2>3, <1>m, <1>f, <1>p DEF Fetch
<1>3. ASSUME NEW k \in 0 .. 2, Compute(k) PROVE Goal
  <2>1. /\ Gap(Top) <= sp - k /\ sp' = sp - k + 1 /\ sp - k + 1 \in Slots
        /\ globals' = globals /\ exc' = exc
    BY <1>3 DEF Compute
  <2>2. PICK o \in Free, r \in {{}, {slot[i] : i \in sp - k + 1 .. sp} \ {Null}} :
          Allocate(o, r) /\ slot' = [slot EXCEPT ![sp - k + 1] = o]
    BY <1>3 DEF Compute
  <2>3. r \subseteq A
    <3>1. \A i \in sp - k + 1 .. sp : i \in Operands
      BY <2>1, <1>0 DEF Operands
    <3> QED
      BY <2>2, <3>1, <1>0
  <2>4. \A i \in 0 .. sp' : \/ i \in 0 .. sp /\ slot'[i] = slot[i]
                            \/ slot'[i] \in A \cup {o} \cup {Null}
    <3> SUFFICES ASSUME NEW i \in 0 .. sp'
                 PROVE  \/ i \in 0 .. sp /\ slot'[i] = slot[i]
                        \/ slot'[i] = o
      OBVIOUS
    <3>1. CASE i = sp - k + 1
      BY <3>1, <2>1, <2>2, <1>0 DEF TypeOK
    <3>2. CASE i # sp - k + 1
      BY <3>2, <2>1, <2>2, <1>0 DEF TypeOK
    <3> QED
      BY <3>1, <3>2
  <2> QED
    BY <1>f, <1>0, <2>1, <2>2, <2>3, <2>4, AllocateHolds DEF Allocate, Kinds
<1>4. CASE Litter
  <2>1. \A i \in 0 .. sp' : i \in 0 .. sp /\ slot'[i] = slot[i]
    BY <1>4 DEF Litter, machineVars
  <2> QED
    BY <1>4, <2>1, <1>f, <1>p, <1>0, NothingNewHolds DEF Litter, machineVars
<1>5. CASE StoreGlobal
  <2>1. slot[sp] \in A \cup {Null}
    BY <1>5, <1>0 DEF StoreGlobal
  <2>2. \A n \in Name : globals'[n] \in A \cup {Null}
    BY <1>5, <2>1, <1>0 DEF StoreGlobal, TypeOK
  <2>3. \A i \in 0 .. sp' : i \in 0 .. sp /\ slot'[i] = slot[i]
    BY <1>5, <1>0 DEF StoreGlobal
  <2> QED
    BY <1>5, <2>2, <2>3, <1>f, <1>p, <1>0, NothingNewHolds DEF StoreGlobal, NoAlloc
<1>6. CASE DeleteGlobal
  <2>1. \A n \in Name : globals'[n] \in A \cup {Null}
    BY <1>6, <1>0 DEF DeleteGlobal, TypeOK
  <2> QED
    BY <1>6, <2>1, <1>f, <1>p, <1>0, NothingNewHolds DEF DeleteGlobal, NoAlloc
<1>7. CASE StoreLocal
  <2>1. slot[sp] \in A \cup {Null} /\ sp' = sp - 1
    BY <1>7, <1>0 DEF StoreLocal
  <2>2. PICK j : slot' = [slot EXCEPT ![j] = slot[sp]]
    BY <1>7 DEF StoreLocal
  <2>3. \A i \in 0 .. sp' : \/ i \in 0 .. sp /\ slot'[i] = slot[i]
                            \/ slot'[i] \in A \cup {Null}
    BY <2>1, <2>2, <1>0, SlotsInRange DEF TypeOK, Slots
  <2> QED
    BY <1>7, <2>3, <1>m, <1>f, <1>p DEF StoreLocal
<1>8. CASE DeleteLocal
  <2>1. PICK j : slot' = [slot EXCEPT ![j] = Null]
    BY <1>8 DEF DeleteLocal
  <2>2. \A i \in 0 .. sp' : \/ i \in 0 .. sp /\ slot'[i] = slot[i]
                            \/ slot'[i] \in A \cup {Null}
    BY <1>8, <2>1, <1>0, SlotsInRange DEF DeleteLocal, TypeOK, Slots
  <2> QED
    BY <1>8, <2>2, <1>m, <1>f, <1>p DEF DeleteLocal
<1>9. CASE StoreCell
  <2>1. PICK c \in CellSlots(Top) :
          slot[c] # Null /\ refs' = [refs EXCEPT ![slot[c]] = {slot[sp]} \ {Null}]
    BY <1>9 DEF StoreCell
  <2>2. /\ slot[sp] \in A \cup {Null} /\ sp' = sp - 1 /\ slot' = slot
        /\ status' = status /\ marked' = marked /\ globals' = globals /\ exc' = exc
    BY <1>9, <1>0 DEF StoreCell
  <2>3. \A o \in A : refs'[o] \subseteq A
    BY <2>1, <2>2, <1>0 DEF TypeOK
  <2>4. \A i \in 0 .. sp' : i \in 0 .. sp /\ slot'[i] = slot[i]
    BY <2>2, <1>0
  <2> QED
    BY <2>2, <2>3, <2>4, <1>f, <1>p, <1>0, NothingNewHolds
<1>10. CASE Mutate
  <2>1. /\ slot[sp - 1] \in A /\ slot[sp] \in A \cup {Null}
        /\ sp - 1 \in Slots /\ sp' = sp - 1
        /\ slot' = [slot EXCEPT ![sp - 1] = Null]
        /\ status' = status /\ marked' = marked /\ globals' = globals /\ exc' = exc
    BY <1>10, <1>0 DEF Mutate
  <2>2. PICK r \in {refs[slot[sp - 1]] \cup ({slot[sp]} \ {Null}),
                    refs[slot[sp - 1]] \ {slot[sp]}} :
          refs' = [refs EXCEPT ![slot[sp - 1]] = r]
    BY <1>10 DEF Mutate
  <2>3. r \subseteq A
    BY <2>1, <2>2, <1>0
  <2>4. \A o \in A : refs'[o] \subseteq A
    BY <2>1, <2>2, <2>3, <1>0 DEF TypeOK
  <2>5. \A i \in 0 .. sp' : \/ i \in 0 .. sp /\ slot'[i] = slot[i]
                            \/ slot'[i] \in A \cup {Null}
    BY <2>1, <1>0, SlotsInRange DEF TypeOK, Slots
  <2> QED
    BY <2>1, <2>4, <2>5, <1>f, <1>p, <1>0, NothingNewHolds
<1>11. CASE Drop
  <2>1. \A i \in 0 .. sp' : i \in 0 .. sp /\ slot'[i] = slot[i]
    BY <1>11, <1>0 DEF Drop
  <2> QED
    BY <1>11, <2>1, <1>m, <1>f, <1>p DEF Drop
<1>12. CASE Raise
  <2>1. /\ \A i \in 0 .. sp' : i \in 0 .. sp /\ slot'[i] = slot[i]
        /\ exc' \in A
    BY <1>12, <1>0 DEF Raise
  <2> QED
    BY <1>12, <2>1, <1>f, <1>p, <1>0, NothingNewHolds DEF Raise, NoAlloc
<1>13. CASE Throw
  <2>1. PICK o \in Free : Allocate(o, {}) /\ exc' = o
    BY <1>13 DEF Throw
  <2>2. \A i \in 0 .. sp' : i \in 0 .. sp /\ slot'[i] = slot[i]
    BY <1>13, <1>0 DEF Throw
  <2>3. globals' = globals
    BY <1>13 DEF Throw
  <2> QED
    BY <2>1, <2>2, <2>3, <1>f, <1>p, <1>0, AllocateHolds DEF Allocate, Kinds
<1>14. CASE Catch
  <2>1. \A i \in 0 .. sp' : \/ i \in 0 .. sp /\ slot'[i] = slot[i]
                            \/ slot'[i] \in A \cup {Null}
    BY <1>14, <1>0 DEF Catch, TypeOK
  <2> QED
    BY <1>14, <2>1, <1>f, <1>p, <1>0, NothingNewHolds DEF Catch, NoAlloc
<1>15. CASE GetIter
  <2>1. sp \in Operands /\ sp' = sp /\ globals' = globals /\ exc' = exc
    BY <1>15 DEF GetIter
  <2>2. PICK o \in Free, r \in {{}} \cup {refs[c] : c \in {slot[sp]} \ {Null}} :
          AllocateAs("iterator", o, r) /\ slot' = [slot EXCEPT ![sp] = o]
    BY <1>15 DEF GetIter
  <2>3. r \subseteq A /\ "iterator" \in Kinds
    BY <2>1, <2>2, <1>0 DEF Kinds
  <2>4. \A i \in 0 .. sp' : \/ i \in 0 .. sp /\ slot'[i] = slot[i]
                            \/ slot'[i] \in A \cup {o} \cup {Null}
    BY <2>1, <2>2, <1>0, SlotsInRange DEF TypeOK, Slots
  <2>5. /\ \A n \in Name : globals'[n] \in A \cup {o} \cup {Null}
        /\ exc' \in A \cup {o} \cup {Null}
    BY <2>1, <1>0
  <2>6. AllocateAs("iterator", o, r)
    BY <2>2
  <2> QED
    BY <1>f, <1>p, <2>3, <2>4, <2>5, <2>6, AllocateHolds
<1> QED
  BY <1>f, <1>p, <1>1, <1>2, <1>3, <1>4, <1>5, <1>6, <1>7, <1>8, <1>9, <1>10, <1>11,
     <1>12, <1>13, <1>14, <1>15 DEF PlainInstruction

-----------------------------------------------------------------------------
(* Calls and returns. *)

\* Without extra locals a new frame fills every slot below its gap.
LEMMA CallHolds ==
  ASSUME TypeInv, NEW A, Holds(A), phase = "run", "extraLocals" \notin Features,
         \A i \in DOMAIN frames : frames[i].va = Null,
         NEW argc \in Nat, Call(argc)
  PROVE  /\ phase' = "run"
         /\ \A i \in DOMAIN frames' : frames'[i].va = Null
         /\ \E new \in SUBSET Free : NewObjects(new) /\ Holds(A \cup new)'
<1> DEFINE bp == sp - argc
           fn == slot[bp]
<1>0. /\ TypeOK /\ A \subseteq Obj /\ RootsIn(A)
      /\ \A i \in DOMAIN frames : frames[i].va = Null
      /\ \A i \in (0 .. sp) \ Gaps : slot[i] \in A \cup {Null}
      /\ \A i \in Operands : slot[i] \in A \cup {Null}
      /\ \A o \in A : refs[o] \subseteq A
      /\ sp \in Nat /\ Gap(Top) \in Nat /\ Null \notin Obj
      /\ frames \in Seq(Frame)
  BY ReadsHeld, SlotsInRange DEF TypeOK, Holds
<1>1. /\ bp \in Operands /\ bp > Gap(Top) /\ fn \in Obj /\ bp \in Int
      /\ \E extra \in ExtraLocals, new \in SUBSET Free :
         \E dflt \in Seq(refs[fn]), cells \in Seq(new \cup refs[fn]),
            value \in [new -> CellValues(bp .. sp)] :
           Enter(argc, extra, dflt, cells, new, value)
  <2>1. /\ sp - argc \in Operands /\ sp - argc > Gap(Top)
        /\ slot[sp - argc] \in Obj /\ sp - argc \in Int
    BY <1>0, CallEnters
  <2>2. \E extra \in ExtraLocals, new \in SUBSET Free :
         \E dflt \in Seq(refs[slot[sp - argc]]),
            cells \in Seq(new \cup refs[slot[sp - argc]]),
            value \in [new -> CellValues(sp - argc .. sp)] :
           Enter(argc, extra, dflt, cells, new, value)
    BY <1>0, CallEnters
  <2> QED
    BY <2>1, <2>2
<1>2. fn \in A /\ refs[fn] \subseteq A
  BY <1>0, <1>1
<1> HIDE DEF fn
<1>3. PICK new \in SUBSET Free :
      \E dflt \in Seq(refs[fn]), cells \in Seq(new \cup refs[fn]),
         value \in [new -> CellValues(bp .. sp)] :
        Enter(argc, 0, dflt, cells, new, value)
  BY <1>1 DEF ExtraLocals
<1>4. PICK dflt \in Seq(refs[fn]), cells \in Seq(new \cup refs[fn]),
           value \in [new -> CellValues(bp .. sp)] :
        Enter(argc, 0, dflt, cells, new, value)
  BY <1>3
<1>5. \A o \in new : value[o] \subseteq A
  <2>1. \A i \in bp .. sp : i \in Operands
    BY <1>0, <1>1 DEF Operands
  <2>2. \A S \in CellValues(bp .. sp) : S \subseteq A
    BY <2>1, <1>0 DEF CellValues
  <2> QED
    BY <2>2
<1>6. NewObjects(new) /\ \A o \in A \cup new : refs'[o] \subseteq A \cup new
  <2>1. /\ NewObjects(new)
        /\ refs' = [o \in Obj |-> IF o \in new THEN value[o] ELSE refs[o]]
    BY <1>4 DEF Enter, NewObjects, Kinds
  <2> QED
    BY <2>1, <1>0, <1>5 DEF Free
<1> DEFINE first == sp + 1 + Len(dflt)
           last == sp + Len(dflt) + Len(cells)
           f == [bp |-> bp, params |-> argc + Len(dflt), extra |-> 0,
                 cells |-> Len(cells), fn |-> slot[bp], va |-> Null]
<1>7. /\ Len(dflt) \in Nat /\ Len(cells) \in Nat
      /\ \A i \in 1 .. Len(dflt) : dflt[i] \in refs[fn]
      /\ \A i \in 1 .. Len(cells) : cells[i] \in new \cup refs[fn]
  OBVIOUS
<1>8. /\ bp + 1 + (argc + Len(dflt)) + 0 = first
      /\ first + Len(cells) = last + 1
      /\ first + Len(cells) - 1 = last
  BY <1>0, <1>7
<1>9. /\ slot' = [i \in Slots |->
           IF i \in sp + 1 .. sp + Len(dflt) THEN dflt[i - sp]
           ELSE IF i \in first .. last THEN cells[i - first + 1]
           ELSE slot[i]]
      /\ frames' = Append(frames, f)
      /\ sp' = last + 1 /\ last + 1 \in Slots
      /\ globals' = globals /\ exc' = exc /\ phase' = phase
  BY <1>4, <1>8 DEF Enter, BaseSp
<1>10. Gaps' = Gaps \cup {last + 1}
  <2>1. Gap(f) = last + 1
    <3>1. /\ f.fn # Null /\ f.bp = bp /\ f.params = argc + Len(dflt)
          /\ f.extra = 0 /\ f.cells = Len(cells)
      BY <1>1, <1>0 DEF fn
    <3> HIDE DEF f
    <3>2. Locals(f) = 1 + (argc + Len(dflt)) + 0
      BY <3>1 DEF Locals
    <3> QED
      BY <3>1, <3>2, <1>7, <1>0 DEF Gap, Freevars
  <2> HIDE DEF f, last
  <2>2. /\ Len(frames) \in Nat /\ DOMAIN frames = 1 .. Len(frames)
        /\ DOMAIN frames' = 1 .. Len(frames) + 1
        /\ \A i \in 1 .. Len(frames) : frames'[i] = frames[i]
        /\ frames'[Len(frames) + 1] = f
    BY <1>0, <1>9
  <2>3. \A i \in DOMAIN frames' : i \in DOMAIN frames \/ i = Len(frames) + 1
    BY <2>2
  <2>4. \A i \in DOMAIN frames : i \in DOMAIN frames' /\ frames'[i] = frames[i]
    BY <2>2
  <2>5. Len(frames) + 1 \in DOMAIN frames'
    BY <2>2
  <2> QED
    BY <2>1, <2>2, <2>3, <2>4, <2>5 DEF Gaps
<1>11. \A i \in DOMAIN frames' : frames'[i].va = Null
  <2>1. f.va = Null
    OBVIOUS
  <2> HIDE DEF f
  <2>2. /\ \A i \in 1 .. Len(frames) : frames'[i] = frames[i]
        /\ frames'[Len(frames) + 1] = f
        /\ DOMAIN frames' = 1 .. Len(frames) + 1
        /\ Len(frames) \in Nat /\ DOMAIN frames = 1 .. Len(frames)
    BY <1>0, <1>9
  <2>3. \A i \in DOMAIN frames' : i \in DOMAIN frames \/ i = Len(frames) + 1
    BY <2>2
  <2> QED
    BY <2>1, <2>2, <2>3, <1>0
<1>12. \A i \in (0 .. sp') \ Gaps' : slot'[i] \in A \cup new \cup {Null}
  <2> SUFFICES ASSUME NEW i \in (0 .. sp') \ Gaps'
               PROVE  slot'[i] \in A \cup new \cup {Null}
    OBVIOUS
  <2>1. i \in Slots /\ i \in Nat /\ i <= last
    <3>1. sp' = last + 1 /\ last + 1 \in Slots /\ last \in Nat /\ i # last + 1
      BY <1>9, <1>10, <1>7, <1>0
    <3> HIDE DEF last
    <3>2. i \in 0 .. last + 1
      BY <3>1
    <3> QED
      BY <3>1, <3>2, NumberAssumption DEF Slots
  <2>2. CASE i \in sp + 1 .. sp + Len(dflt)
    <3>1. i - sp \in 1 .. Len(dflt)
      BY <2>2, <1>0, <1>7
    <3> QED
      BY <2>1, <2>2, <3>1, <1>2, <1>7, <1>9
  <2>3. CASE i \in first .. last
    <3>1. i - first + 1 \in 1 .. Len(cells) /\ i \notin sp + 1 .. sp + Len(dflt)
      BY <2>3, <1>0, <1>7
    <3>2. slot'[i] = cells[i - first + 1]
      BY <2>1, <2>3, <3>1, <1>9
    <3> QED
      BY <3>1, <3>2, <1>2, <1>7
  <2>4. CASE i \notin sp + 1 .. sp + Len(dflt) /\ i \notin first .. last
    <3>1. i \in 0 .. sp
      BY <2>1, <2>4, <1>0, <1>7
    <3>2. i \notin Gaps
      BY <1>10
    <3>3. slot'[i] = slot[i]
      BY <2>1, <2>4, <1>9
    <3> QED
      BY <3>1, <3>2, <3>3, <1>0 DEF RootsIn
  <2> QED
    BY <2>2, <2>3, <2>4
<1>13. Holds(A \cup new)'
  <2>1. RootsIn(A \cup new)'
    BY <1>0, <1>9, <1>12 DEF RootsIn
  <2>2. A \cup new \subseteq Obj
    BY <1>0 DEF Free
  <2> QED
    BY <2>1, <2>2, <1>6 DEF Holds
<1> QED
  BY <1>4, <1>6, <1>9, <1>11, <1>13

\* A return leaves the result or nothing where the callee's slots were.
LEMMA LeaveHolds ==
  ASSUME TypeInv, NEW A, Holds(A), phase = "run",
         \A i \in DOMAIN frames : frames[i].va = Null,
         Return \/ Unwind
  PROVE  /\ phase' \in {"run", "mark"}
         /\ \A i \in DOMAIN frames' : frames'[i].va = Null
         /\ \E new \in SUBSET Free : NewObjects(new) /\ Holds(A \cup new)'
<1>0. /\ TypeOK /\ A \subseteq Obj /\ Leave
      /\ \A i \in DOMAIN frames : frames[i].va = Null
      /\ \A i \in (0 .. sp) \ Gaps : slot[i] \in A \cup {Null}
      /\ \A i \in Operands : slot[i] \in A \cup {Null}
      /\ \A n \in Name : globals[n] \in A \cup {Null}
      /\ exc \in A \cup {Null} /\ CodeConst \subseteq A
      /\ \A o \in A : refs[o] \subseteq A
      /\ sp \in Nat /\ Gap(Top) <= sp /\ Gap(Top) \in Nat
  BY ReadsHeld, SlotsInRange DEF Return, Unwind
<1>1. /\ Len(frames) \in Nat /\ Len(frames) > 1
      /\ Top = frames[Len(frames)] /\ Top \in Frame
      /\ Len(frames') = Len(frames) - 1 /\ frames' \in Seq(Frame)
      /\ \A i \in 1 .. Len(frames') : frames'[i] = frames[i]
      /\ frames \in Seq(Frame) /\ Top.bp \in Slots /\ Top.bp \in Nat
      /\ Top.bp - 1 \in Nat
  BY <1>0, LeaveType, NumberAssumption DEF TypeOK, Slots
<1>2. /\ DOMAIN frames = 1 .. Len(frames) /\ DOMAIN frames' = 1 .. Len(frames')
      /\ \A i \in DOMAIN frames' : i \in DOMAIN frames /\ frames'[i] = frames[i]
  <2>1. DOMAIN frames = 1 .. Len(frames) /\ DOMAIN frames' = 1 .. Len(frames')
    BY <1>1
  <2> QED
    BY <2>1, <1>1
<1>3. Deleted = {}
  BY <1>0, <1>1, <1>2 DEF Deleted
<1>4. status' = status /\ refs' = refs /\ marked' = marked
  BY <1>0, <1>3 DEF Leave, TypeOK
\* Of the gaps only the callee's is gone, and sp is below it.
<1>6. \A g \in Gaps : g \in Gaps' \/ g = Gap(Top)
  <2>1. ASSUME NEW i \in DOMAIN frames PROVE i \in DOMAIN frames' \/ i = Len(frames)
    BY <1>1, <1>2
  <2> QED
    BY <2>1, <1>1, <1>2 DEF Gaps
<1>7. Top.bp <= Gap(Top)
  <2>1. Freevars(Top) \in Nat /\ Top.bp <= Freevars(Top) /\ Freevars(Top) <= Gap(Top)
    BY <1>1, GapType
  <2> QED
    BY <2>1, <1>0, <1>1
<1>8. \A i \in (0 .. sp') \ Gaps' : slot'[i] \in A \cup {Null}
  <2> SUFFICES ASSUME NEW i \in (0 .. sp') \ Gaps'
               PROVE  slot'[i] \in A \cup {Null}
    OBVIOUS
  <2>1. CASE Return
    <3>1. /\ sp' = Top.bp /\ slot' = [slot EXCEPT ![Top.bp] = slot[sp]]
          /\ slot[sp] \in A \cup {Null}
      BY <2>1, <1>0 DEF Return
    <3>2. CASE i = Top.bp
      BY <3>1, <3>2, <1>0, <1>1 DEF TypeOK
    <3>3. CASE i # Top.bp
      <4>1. i \in 0 .. sp /\ i # Gap(Top) /\ slot'[i] = slot[i]
        BY <3>1, <3>3, <1>0, <1>1, <1>7, SlotsInRange DEF TypeOK, Slots
      <4> QED
        BY <4>1, <1>0, <1>6
    <3> QED
      BY <3>2, <3>3
  <2>2. CASE Unwind
    <3>1. sp' = Top.bp - 1 /\ slot' = slot
      BY <2>2 DEF Unwind
    <3>2. i \in 0 .. sp /\ i # Gap(Top)
      BY <3>1, <1>0, <1>1, <1>7
    <3> QED
      BY <3>1, <3>2, <1>0, <1>6
  <2> QED
    BY <2>1, <2>2
<1>9. globals' = globals /\ exc' = exc
  BY <1>0 DEF Leave
<1>10. Holds(A)'
  BY <1>0, <1>4, <1>8, <1>9 DEF Holds, RootsIn
<1>11. \A i \in DOMAIN frames' : frames'[i].va = Null
  BY <1>0, <1>2
<1>12. phase' \in {"run", "mark"}
  BY DEF Return, Unwind, CollectIfDue
<1>13. NewObjects({}) /\ Holds(A \cup {})'
  <2>1. A \cup {} = A
    OBVIOUS
  <2> QED
    BY <1>4, <1>10, <2>1, NoNewObjects
<1> QED
  BY <1>11, <1>12, <1>13

\* Any instruction but the last one, in a program without variadic calls and
\* without extra locals.
LEMMA InstructionHolds ==
  ASSUME "variadic" \notin Features, "extraLocals" \notin Features,
         TypeInv, Unshared, NEW A, Holds(A), phase = "run", Instruction, ~Finish
  PROVE  /\ phase' \in {"run", "mark"}
         /\ \A i \in DOMAIN frames' : frames'[i].va = Null
         /\ \E new \in SUBSET Free : NewObjects(new) /\ Holds(A \cup new)'
<1>0. \A i \in DOMAIN frames : frames[i].va = Null
  BY DEF Unshared
<1>1. CASE PlainInstruction
  BY <1>0, <1>1, PlainInstructionHolds
<1>2. ASSUME NEW argc \in 0 .. MaxArgs, Call(argc)
      PROVE  /\ phase' \in {"run", "mark"}
             /\ \A i \in DOMAIN frames' : frames'[i].va = Null
             /\ \E new \in SUBSET Free : NewObjects(new) /\ Holds(A \cup new)'
  <2>1. argc \in Nat
    BY NumberAssumption
  <2> QED
    BY <1>0, <1>2, <2>1, CallHolds
<1>3. ASSUME NEW argc, NEW v, VariadicCall(argc, v) PROVE FALSE
  BY <1>3 DEF VariadicCall, VariadicCounts
<1>4. CASE Return \/ Unwind
  BY <1>0, <1>4, LeaveHolds
<1> QED
  BY <1>1, <1>2, <1>3, <1>4 DEF Instruction, PlainInstruction

-----------------------------------------------------------------------------
(* The invariant. *)

LEMMA ClosedHolds ==
  ASSUME TypeInv
  PROVE  Closed <=> Holds(Allocated)
<1>1. Allocated \subseteq Obj
  BY DEF Allocated
<1> QED
  BY <1>1, RootsInRoots, RootsRootsIn DEF Closed, Holds

LEMMA InstructionLive ==
  ASSUME "variadic" \notin Features, "extraLocals" \notin Features,
         LiveInv, phase = "run", Instruction
  PROVE  LiveInv'
<1>0. /\ TypeInv /\ Unshared /\ Closed /\ marked \cap Allocated = {} /\ TypeInv'
  BY InstructionType DEF LiveInv, HeapInv, Covered
<1>1. CASE ~Finish
  <2>1. PICK A : A = Allocated
    OBVIOUS
  <2>2. Holds(A)
    BY <1>0, <2>1, ClosedHolds
  <2>3. /\ phase' \in {"run", "mark"}
        /\ \A i \in DOMAIN frames' : frames'[i].va = Null
        /\ \E new \in SUBSET Free : NewObjects(new) /\ Holds(A \cup new)'
    BY <1>0, <1>1, <2>2, InstructionHolds
  <2>4. PICK new \in SUBSET Free : NewObjects(new) /\ Holds(A \cup new)'
    BY <2>3
  <2>5. /\ Allocated' = A \cup new
        /\ \A o \in Obj : status'[o] = "unmanaged" => status[o] = "unmanaged"
    BY <2>1, <2>4, NewObjectsAllocated
  <2>6. Unshared'
    BY <1>0, <2>3, <2>5 DEF Unshared
  <2>7. Closed'
    BY <1>0, <2>4, <2>5, RootsInRoots DEF Holds, Closed, RootsIn, Roots, GlobalRefs
  <2>8. Covered'
    BY <1>0, <2>1, <2>3, <2>4, <2>5 DEF Covered, NewObjects
  <2> QED
    BY <1>0, <2>6, <2>7, <2>8 DEF LiveInv, HeapInv
<1>2. CASE Finish
  <2>1. \A o \in Obj : status'[o] # "unmanaged"
    BY <1>0, <1>2 DEF Finish, Dispose, Unshared
  <2>2. frames' = frames /\ phase' = "done"
    BY <1>2 DEF Finish, machineVars
  <2> QED
    BY <1>0, <2>1, <2>2 DEF LiveInv, HeapInv, Unshared
<1> QED
  BY <1>1, <1>2

\* mark leaves a closed set of marks that holds every root.
LEMMA MarkLive == LiveInv /\ Mark => LiveInv'
<1> SUFFICES ASSUME LiveInv, Mark PROVE LiveInv'
  OBVIOUS
<1> DEFINE found == MarkedFrom(Scanned)
           edges == [o \in Obj |-> refs[o] \ marked]
<1>1. /\ TypeInv' /\ TypeOK /\ phase = "mark" /\ phase' = "sweep"
      /\ marked \cap Allocated = {} /\ marked' = marked \cup found
      /\ status' = status /\ refs' = refs /\ machineVars' = machineVars
  BY NextType DEF LiveInv, HeapInv, Covered, TypeInv, Mark, Next
<1>2. Unshared /\ Closed
  BY <1>1 DEF LiveInv, HeapInv
<1>3. Roots' = Roots /\ Unshared' /\ Closed' /\ Allocated' = Allocated
  BY <1>1, <1>2 DEF machineVars, Roots, Gaps, GlobalRefs, Unshared, Closed, Allocated
<1>4. Roots \subseteq Scanned /\ Scanned \subseteq Obj
  <2>1. \A i \in 0 .. sp : slot[i] \in Obj \cup {Null}
    BY <1>1, NumberAssumption DEF TypeOK, Ref, Slots
  <2> QED
    BY <2>1, <1>1, HeapAssumption DEF Roots, Scanned, GlobalRefs, TypeOK, Ref
<1>5. /\ Scanned \ marked \subseteq found
      /\ \A o \in found : refs[o] \ marked \subseteq found
  <2>1. Scanned \ marked \in SUBSET Obj /\ edges \in [Obj -> SUBSET Obj]
    BY <1>1, <1>4 DEF TypeOK
  <2>2. found = Reach(Scanned \ marked, edges) /\ found \subseteq Obj
    BY DEF MarkedFrom, Reach
  <2>3. /\ Scanned \ marked \subseteq Reach(Scanned \ marked, edges)
        /\ \A o \in Reach(Scanned \ marked, edges) :
             edges[o] \subseteq Reach(Scanned \ marked, edges)
    BY <2>1, ReachClosed
  <2> QED
    BY <2>2, <2>3
<1> HIDE DEF found, edges
<1>6. Roots \subseteq marked'
  BY <1>1, <1>4, <1>5
<1>7. \A o \in marked' \cap Allocated : refs[o] \subseteq marked'
  <2> SUFFICES ASSUME NEW o \in marked' \cap Allocated PROVE refs[o] \subseteq marked'
    OBVIOUS
  <2>1. o \in found
    BY <1>1
  <2> QED
    BY <2>1, <1>1, <1>5
<1>8. Covered'
  BY <1>1, <1>3, <1>6, <1>7 DEF Covered
<1> QED
  BY <1>1, <1>3, <1>8 DEF LiveInv, HeapInv

\* What sweep deletes is neither a root nor referred to by what it keeps.
LEMMA SweepLive == LiveInv /\ Sweep => LiveInv'
<1> SUFFICES ASSUME LiveInv, Sweep PROVE LiveInv'
  OBVIOUS
<1>1. /\ TypeInv' /\ TypeOK /\ phase = "sweep" /\ phase' = "run"
      /\ Unshared /\ Closed /\ Roots \subseteq marked
      /\ \A o \in marked \cap Allocated : refs[o] \subseteq marked
      /\ machineVars' = machineVars
  BY NextType DEF LiveInv, HeapInv, Covered, TypeInv, Sweep, Next
<1>2. /\ \A o \in Obj : status'[o] = IF o \notin Garbage THEN status[o]
                                     ELSE IF status[o] = "iterator" THEN "lost" ELSE "free"
      /\ \A o \in Obj \ Garbage : refs'[o] = refs[o]
      /\ marked' \subseteq {o \in Obj : status[o] \in {"unmanaged", "lost"}}
  BY <1>1 DEF Sweep, Dispose, MarksAfterSweep, TypeOK
<1>3. Allocated = Managed /\ Garbage = Allocated \ marked
  BY <1>1 DEF Unshared, Allocated, Managed, Garbage, TypeOK, Statuses
<1>4. Allocated' = Allocated \cap marked
  BY <1>2, <1>3 DEF Allocated
<1>5. Roots' = Roots
  BY <1>1 DEF machineVars, Roots, Gaps, GlobalRefs
<1>6. Closed'
  <2>1. /\ Roots \subseteq Allocated /\ Allocated \subseteq Obj
        /\ \A o \in Allocated : refs[o] \subseteq Allocated
    BY <1>1 DEF Closed, Allocated
  <2>2. \A o \in Allocated' : refs'[o] = refs[o]
    BY <1>2, <1>3, <1>4, <2>1
  <2>3. \A o \in Allocated' : refs'[o] \subseteq Allocated'
    BY <1>1, <1>4, <2>1, <2>2
  <2> QED
    BY <1>1, <1>4, <1>5, <2>1, <2>3 DEF Closed
<1>7. Unshared'
  BY <1>1, <1>2 DEF Unshared, machineVars
<1>8. Covered'
  <2>1. marked' \cap Allocated = {}
    BY <1>1, <1>2 DEF Allocated, Unshared
  <2> QED
    BY <1>1, <1>4, <2>1 DEF Covered
<1> QED
  BY <1>1, <1>6, <1>7, <1>8 DEF LiveInv, HeapInv

LEMMA NextLive ==
  ASSUME "variadic" \notin Features, "extraLocals" \notin Features
  PROVE  LiveInv /\ [Next]_vars => LiveInv'
<1> SUFFICES ASSUME LiveInv, [Next]_vars PROVE LiveInv'
  OBVIOUS
<1>1. CASE phase = "run" /\ Instruction
  BY <1>1, InstructionLive
<1>2. CASE Mark
  BY <1>2, MarkLive
<1>3. CASE Sweep
  BY <1>3, SweepLive
<1>4. CASE UNCHANGED vars
  BY <1>4 DEF vars, LiveInv, TypeInv, TypeOK, FramesNested, Top, HeapInv, Unshared,
     Closed, Covered, Roots, Gaps, GlobalRefs, Allocated
<1> QED
  BY <1>1, <1>2, <1>3, <1>4 DEF Next

\* The collector never deletes an object the program can still use, if the
\* program calls no variadic function and has no locals besides parameters:
\* whatever the heap, the stack, the depth of the calls and the thresholds.
THEOREM ReachableNeverFreed ==
  ASSUME "variadic" \notin Features, "extraLocals" \notin Features
  PROVE  Spec => []NoLiveFreed
<1>1. LiveInv /\ [Next]_vars => LiveInv'
  BY NextLive
<1> QED
  BY <1>1, LiveInvInit, LiveInvSafe, PTL DEF Spec

\* The invariant behind it, which also says that between mark and sweep the
\* marks are closed under references and hold every root.
THEOREM HeapStaysClosed ==
  ASSUME "variadic" \notin Features, "extraLocals" \notin Features
  PROVE  Spec => []HeapInv
<1>1. LiveInv /\ [Next]_vars => LiveInv'
  BY NextLive
<1>2. LiveInv => HeapInv
  BY DEF LiveInv
<1> QED
  BY <1>1, <1>2, LiveInvInit, PTL DEF Spec

-----------------------------------------------------------------------------
(* The function of an active frame. *)

\* It stays in the frame's first slot, where the collector finds it.
SelfInv ==
  \A i \in DOMAIN frames : frames[i].fn # Null => slot[frames[i].bp] = frames[i].fn

\* The first slots of the frames lie at or below the current frame's.
LEMMA BasesBelowTop ==
  ASSUME TypeInv, NEW i \in DOMAIN frames
  PROVE  /\ frames[i] \in Frame /\ frames[i].bp \in Slots /\ Top.bp \in Slots
         /\ frames[i].bp <= Top.bp
         /\ Top.bp <= Gap(Top) /\ Top.bp \in Nat /\ frames[i].bp \in Nat
         /\ i # Len(frames) => frames[i].bp < Top.bp
         /\ frames[i].fn # Null => frames[i].bp \in (0 .. sp) \ Gaps
<1>1. /\ Len(frames) \in Nat /\ Len(frames) > 0 /\ DOMAIN frames = 1 .. Len(frames)
      /\ Top = frames[Len(frames)]
      /\ \A j \in DOMAIN frames : frames[j] \in Frame
      /\ sp \in Nat /\ Gap(Top) <= sp
  BY TopType, SlotsInRange DEF TypeInv, TypeOK
<1>2. \A j \in DOMAIN frames :
        /\ frames[j].bp \in Slots /\ frames[j].bp \in Nat
        /\ Gap(frames[j]) \in Nat /\ frames[j].bp <= Gap(frames[j])
        /\ frames[j].fn # Null => frames[j].bp < Gap(frames[j])
  <2> SUFFICES ASSUME NEW f \in Frame
               PROVE  /\ f.bp \in Slots /\ f.bp \in Nat
                      /\ Gap(f) \in Nat /\ f.bp <= Gap(f)
                      /\ f.fn # Null => f.bp < Gap(f)
    BY <1>1
  <2>1. f.bp \in Slots /\ f.bp \in Nat
    BY NumberAssumption DEF Frame, Slots
  <2>2. /\ Freevars(f) \in Nat /\ Gap(f) \in Nat
        /\ f.bp <= Freevars(f) /\ Freevars(f) <= Gap(f)
        /\ f.fn # Null => f.bp < Freevars(f)
    BY GapType
  <2> QED
    BY <2>1, <2>2
<1>3. \A m, n \in DOMAIN frames : m < n => Gap(frames[m]) < frames[n].bp
  BY DEF TypeInv, FramesNested
<1>4. Len(frames) \in DOMAIN frames /\ i \in Nat /\ (i = Len(frames) \/ i < Len(frames))
  <2>1. \A n \in Nat : \A m \in 1 .. n : m \in Nat /\ (m = n \/ m < n)
    OBVIOUS
  <2>2. i \in 1 .. Len(frames)
    BY <1>1
  <2>3. Len(frames) \in 1 .. Len(frames)
    BY <1>1
  <2> QED
    BY <1>1, <2>1, <2>2, <2>3
<1>5. /\ Top.bp \in Nat /\ Top.bp \in Slots /\ Gap(Top) \in Nat /\ Top.bp <= Gap(Top)
      /\ frames[i].bp \in Nat /\ frames[i].bp \in Slots
      /\ Gap(frames[i]) \in Nat /\ frames[i].bp <= Gap(frames[i])
      /\ frames[i].fn # Null => frames[i].bp < Gap(frames[i])
  BY <1>1, <1>2, <1>4
<1>6. i < Len(frames) => Gap(frames[i]) < Top.bp
  BY <1>1, <1>3, <1>4
<1>7. frames[i].bp <= Top.bp /\ (i # Len(frames) => frames[i].bp < Top.bp)
  <2>1. CASE i = Len(frames)
    BY <2>1, <1>1, <1>5
  <2>2. CASE i < Len(frames)
    BY <2>2, <1>5, <1>6
  <2> QED
    BY <2>1, <2>2, <1>4
<1>8. ASSUME frames[i].fn # Null PROVE frames[i].bp \notin Gaps
  <2> SUFFICES ASSUME NEW j \in DOMAIN frames, Gap(frames[j]) = frames[i].bp
               PROVE  FALSE
    BY DEF Gaps
  <2>1. Gap(frames[j]) \in Nat /\ frames[j].bp <= Gap(frames[j]) /\ frames[j].bp \in Nat
    BY <1>2
  <2>2. \A m, n \in 1 .. Len(frames) : m < n \/ m = n \/ n < m
    BY <1>1
  <2>3. CASE j < i
    <3>1. Gap(frames[j]) < frames[i].bp
      BY <1>3, <2>3
    <3> QED
      BY <3>1, <2>1, <1>5
  <2>4. CASE j = i
    BY <2>4, <1>5, <1>8
  <2>5. CASE i < j
    <3>1. Gap(frames[i]) < frames[j].bp
      BY <1>3, <2>5
    <3> QED
      BY <3>1, <2>1, <1>5
  <2> QED
    BY <2>2, <2>3, <2>4, <2>5, <1>1
<1>9. frames[i].bp \in 0 .. sp
  BY <1>1, <1>5, <1>7
<1> QED
  BY <1>1, <1>5, <1>7, <1>8, <1>9

\* No instruction of a function writes at or below the frame's first slot, if
\* none assigns to its own name.
LEMMA BaseKept ==
  ASSUME TypeInv, "rebindSelf" \notin Features, PlainInstruction
  PROVE  /\ frames' = frames
         /\ \A i \in Slots : i <= Top.bp => slot'[i] = slot[i]
<1>1. /\ sp \in Nat /\ Gap(Top) \in Nat /\ Gap(Top) <= sp
      /\ \A i \in Operands : i > Gap(Top) /\ i \in Nat
      /\ slot \in [Slots -> Ref] /\ Top \in Frame
  BY SlotsInRange, OwnSlotsAreRoots, NumberAssumption DEF TypeOK, Slots
<1>2. Top.bp \in Nat /\ Top.bp <= Gap(Top)
  BY BasesBelowTop, TopType DEF TypeInv, TypeOK
<1>3. \A i \in StorableLocals : i \in Int /\ i > Top.bp
  BY <1>2 DEF StorableLocals, LocalSlots
<1>4. frames' = frames
  BY DEF PlainInstruction, Load, Fetch, Compute, GetIter, Litter, StoreGlobal,
         DeleteGlobal, StoreLocal, DeleteLocal, StoreCell, Mutate, Drop, Raise, Throw, Catch, machineVars
<1>5. ASSUME NEW i \in Slots, i <= Top.bp PROVE slot'[i] = slot[i]
  <2>0. i \in Nat /\ i <= Gap(Top) /\ i <= sp
    BY <1>1, <1>2, <1>5, NumberAssumption DEF Slots
  <2>1. CASE Load
    BY <2>0, <2>1, <1>1 DEF Load
  <2>2. CASE Fetch
    <3>1. PICK o \in refs[slot[sp]], keep \in {0, 1} :
            slot' = [slot EXCEPT ![sp + keep] = o]
      BY <2>2 DEF Fetch
    <3>2. sp > Gap(Top)
      BY <2>2, <1>1 DEF Fetch
    <3> QED
      BY <2>0, <3>1, <3>2, <1>1
  <2>3. ASSUME NEW k \in 0 .. 2, Compute(k) PROVE slot'[i] = slot[i]
    <3>1. PICK o : slot' = [slot EXCEPT ![sp - k + 1] = o]
      BY <2>3 DEF Compute
    <3>2. Gap(Top) <= sp - k
      BY <2>3 DEF Compute
    <3> QED
      BY <2>0, <3>1, <3>2, <1>1
  <2>4. CASE StoreLocal \/ DeleteLocal
    <3>1. PICK j \in StorableLocals, v \in {slot[sp], Null} :
            slot' = [slot EXCEPT ![j] = v]
      BY <2>4 DEF StoreLocal, DeleteLocal
    <3>2. i # j
      BY <3>1, <1>3, <1>5, <2>0, <1>2
    <3> QED
      BY <3>1, <3>2, <1>1
  <2>5. CASE Mutate
    <3>1. slot' = [slot EXCEPT ![sp - 1] = Null] /\ sp - 1 > Gap(Top)
      BY <2>5, <1>1 DEF Mutate
    <3> QED
      BY <3>1, <2>0, <1>1
  <2>6. CASE Catch
    BY <2>0, <2>6, <1>1 DEF Catch
  <2>7. CASE GetIter
    <3>1. PICK o : slot' = [slot EXCEPT ![sp] = o]
      BY <2>7 DEF GetIter
    <3>2. sp > Gap(Top)
      BY <2>7, <1>1 DEF GetIter
    <3> QED
      BY <2>0, <3>1, <3>2, <1>1
  <2>8. CASE \/ Litter \/ StoreGlobal \/ DeleteGlobal \/ StoreCell \/ Drop
             \/ Raise \/ Throw
    BY <2>8 DEF Litter, machineVars, StoreGlobal, DeleteGlobal, StoreCell, Drop,
                Raise, Throw
  <2> QED
    BY <2>1, <2>2, <2>3, <2>4, <2>5, <2>6, <2>7, <2>8 DEF PlainInstruction
<1> QED
  BY <1>4, <1>5

LEMMA SelfInvInit == Init => SelfInv
<1> SUFFICES ASSUME Init PROVE SelfInv
  OBVIOUS
<1>1. frames = <<RootFrame>> /\ DOMAIN frames = {1} /\ frames[1] = RootFrame
      /\ RootFrame.fn = Null
  BY DEF Init, RootFrame
<1> QED
  BY <1>1 DEF SelfInv

\* A new frame whose first slot holds its function.
LEMMA SelfInvAppend ==
  ASSUME TypeInv, SelfInv, NEW f, frames' = Append(frames, f),
         f.fn # Null => slot'[f.bp] = f.fn,
         \A i \in Slots : i <= Top.bp => slot'[i] = slot[i]
  PROVE  SelfInv'
<1>1. /\ Len(frames) \in Nat /\ DOMAIN frames = 1 .. Len(frames)
      /\ DOMAIN frames' = 1 .. Len(frames) + 1
      /\ \A i \in DOMAIN frames : frames'[i] = frames[i]
      /\ frames'[Len(frames) + 1] = f
  BY DEF TypeInv, TypeOK
<1>2. \A i \in DOMAIN frames' : i \in DOMAIN frames \/ i = Len(frames) + 1
  BY <1>1
<1>3. \A i \in DOMAIN frames : slot'[frames[i].bp] = slot[frames[i].bp]
  BY BasesBelowTop
<1> QED
  BY <1>1, <1>2, <1>3 DEF SelfInv

LEMMA SelfInvNext ==
  ASSUME "rebindSelf" \notin Features
  PROVE  TypeInv /\ SelfInv /\ [Next]_vars => SelfInv'
<1> SUFFICES ASSUME TypeInv, SelfInv, [Next]_vars PROVE SelfInv'
  OBVIOUS
<1>0. /\ sp \in Nat /\ Gap(Top) \in Nat /\ Gap(Top) <= sp
      /\ slot \in [Slots -> Ref] /\ frames \in Seq(Frame)
      /\ Top.bp \in Nat /\ Top.bp <= Gap(Top)
  BY SlotsInRange, BasesBelowTop, TopType DEF TypeOK, TypeInv
<1>1. CASE PlainInstruction
  BY <1>1, BaseKept, BasesBelowTop DEF SelfInv
<1>2. ASSUME NEW argc \in 0 .. MaxArgs, Call(argc) PROVE SelfInv'
  <2>1. argc \in Nat
    BY NumberAssumption
  <2>2. sp - argc \in Slots /\ sp - argc \in Int
    BY <2>1, <1>0, <1>2, CallEnters
  <2>a. PICK extra \in ExtraLocals, new \in SUBSET Free :
          \E dflt \in Seq(refs[slot[sp - argc]]),
             cells \in Seq(new \cup refs[slot[sp - argc]]),
             value \in [new -> CellValues(sp - argc .. sp)] :
            Enter(argc, extra, dflt, cells, new, value)
    BY <2>1, <1>2, CallEnters
  <2>3. PICK dflt \in Seq(refs[slot[sp - argc]]),
             cells \in Seq(new \cup refs[slot[sp - argc]]),
             value \in [new -> CellValues(sp - argc .. sp)] :
          Enter(argc, extra, dflt, cells, new, value)
    BY <2>a
  <2> DEFINE bp == sp - argc
             freevars == bp + 1 + (argc + Len(dflt)) + extra
             f == [bp |-> bp, params |-> argc + Len(dflt), extra |-> extra,
                   cells |-> Len(cells), fn |-> slot[bp], va |-> Null]
  <2>4. extra \in Nat /\ Len(dflt) \in Nat /\ Len(cells) \in Nat
    BY DEF ExtraLocals
  <2>5. freevars > sp /\ freevars \in Int
    BY <2>1, <2>4, <1>0
  <2>6. /\ slot' = [i \in Slots |->
             IF i \in sp + 1 .. sp + Len(dflt) THEN dflt[i - sp]
             ELSE IF i \in freevars .. freevars + Len(cells) - 1
                  THEN cells[i - freevars + 1]
                  ELSE slot[i]]
        /\ frames' = Append(frames, f)
    BY <2>3 DEF Enter, BaseSp
  <2> HIDE DEF freevars
  <2>7. \A i \in Slots : i <= sp => slot'[i] = slot[i]
    <3> SUFFICES ASSUME NEW i \in Slots, i <= sp PROVE slot'[i] = slot[i]
      OBVIOUS
    <3>1. i \notin sp + 1 .. sp + Len(dflt) /\ i \notin freevars .. freevars + Len(cells) - 1
      BY <2>5, <2>4, <1>0, NumberAssumption DEF Slots
    <3>2. slot'[i] = IF i \in sp + 1 .. sp + Len(dflt) THEN dflt[i - sp]
                     ELSE IF i \in freevars .. freevars + Len(cells) - 1
                          THEN cells[i - freevars + 1]
                          ELSE slot[i]
      BY <2>6, Zenon
    <3> QED
      BY <3>1, <3>2, Zenon
  <2>8. \A i \in Slots : i <= Top.bp => slot'[i] = slot[i]
    <3>1. \A i \in Slots : i <= Top.bp => i <= sp
      BY <1>0, NumberAssumption DEF Slots
    <3> QED
      BY <2>7, <3>1
  <2>9. slot'[f.bp] = f.fn
    BY <2>1, <2>2, <2>7, <1>0
  <2> QED
    BY <2>6, <2>8, <2>9, SelfInvAppend
<1>3. ASSUME NEW argc \in 0 .. MaxArgs, NEW v, VariadicCall(argc, v) PROVE SelfInv'
  <2>1. argc \in Nat /\ v \in 0 .. argc
    BY <1>3, NumberAssumption DEF VariadicCall, VariadicCounts
  <2> DEFINE bp == sp - argc
             params == argc - v + 1
  <2>2. /\ bp \in Operands /\ bp > Gap(Top) /\ bp \in Int /\ bp \in Slots
    BY <1>3, <1>0, <2>1, OwnSlotsAreRoots, SlotsInRange DEF VariadicCall
  <2>3. PICK va \in Free :
          /\ slot' = [slot EXCEPT ![bp + params] = va]
          /\ frames' = Append(frames, [bp |-> bp, params |-> params, extra |-> 0,
                                       cells |-> 0, fn |-> slot[bp], va |-> va])
    BY <1>3 DEF VariadicCall
  <2>4. \A i \in Slots : i <= bp => slot'[i] = slot[i]
    BY <2>1, <2>2, <2>3, <1>0, NumberAssumption DEF Slots
  <2>5. \A i \in Slots : i <= Top.bp => i <= bp
    BY <2>2, <1>0, NumberAssumption DEF Slots
  <2>6. slot'[bp] = slot[bp]
    BY <2>2, <2>4
  <2> HIDE DEF bp, params
  <2> QED
    BY <2>3, <2>4, <2>5, <2>6, SelfInvAppend
<1>4. CASE Return \/ Unwind
  <2>1. Leave /\ (slot' = slot \/ slot' = [slot EXCEPT ![Top.bp] = slot[sp]])
    BY <1>4 DEF Return, Unwind
  <2>2. /\ Len(frames) \in Nat /\ Len(frames') = Len(frames) - 1
        /\ frames' \in Seq(Frame)
        /\ \A i \in 1 .. Len(frames') : frames'[i] = frames[i]
    BY <2>1, <1>4, LeaveType DEF Return, Unwind
  <2>3. \A i \in DOMAIN frames' : i \in DOMAIN frames /\ i # Len(frames)
                                  /\ frames'[i] = frames[i]
    <3>1. DOMAIN frames' = 1 .. Len(frames') /\ DOMAIN frames = 1 .. Len(frames)
      BY <2>2, <1>0
    <3> QED
      BY <2>2, <3>1
  <2>4. \A i \in DOMAIN frames' : frames[i].bp < Top.bp /\ frames[i].bp \in Nat
                                  /\ frames[i].bp \in Slots
    BY <2>3, BasesBelowTop
  <2>5. \A i \in DOMAIN frames' : slot'[frames[i].bp] = slot[frames[i].bp]
    BY <2>1, <2>4, <1>0
  <2> QED
    BY <2>3, <2>5 DEF SelfInv
<1>5. CASE Finish \/ Mark \/ Sweep \/ UNCHANGED vars
  BY <1>5 DEF Finish, Mark, Sweep, vars, machineVars, SelfInv
<1> QED
  BY <1>1, <1>2, <1>3, <1>4, <1>5 DEF Next, Instruction, PlainInstruction

\* A function is not deleted while it runs, although fnCall uses it after the
\* nested execute: needs, besides, that no function assigns to its own name.
THEOREM RunningFunctionNeverFreed ==
  ASSUME Features = {}
  PROVE  Spec => []RunningFunctionKept
<1>1. LiveInv /\ [Next]_vars => LiveInv'
  BY NextLive
<1>2. TypeInv /\ SelfInv /\ [Next]_vars => SelfInv'
  BY SelfInvNext
<1>3. LiveInv => TypeInv
  BY DEF LiveInv
<1>4. LiveInv /\ SelfInv => RunningFunctionKept
  <2> SUFFICES ASSUME LiveInv, SelfInv, phase # "done",
                      NEW i \in DOMAIN frames, frames[i].fn # Null
               PROVE  frames[i].fn \in Allocated
    BY DEF RunningFunctionKept
  <2>1. frames[i].bp \in (0 .. sp) \ Gaps
    BY BasesBelowTop DEF LiveInv
  <2>2. frames[i].fn \in Roots
    BY <2>1 DEF SelfInv, Roots
  <2> QED
    BY <2>2 DEF LiveInv, HeapInv, Closed
<1> QED
  BY <1>1, <1>2, <1>3, <1>4, LiveInvInit, SelfInvInit, PTL DEF Spec

-----------------------------------------------------------------------------
(* The refinement: the collector implements the memory of module Heap. *)

\* What the program can reach is a set that holds all it can name.
LEMMA ReachableHolds ==
  ASSUME LiveInv, phase # "done"
  PROVE  Holds(Reachable) /\ Reachable \subseteq Allocated
<1>1. /\ refs \in [Obj -> SUBSET Obj] /\ Roots \subseteq Allocated
      /\ Allocated \subseteq Obj
      /\ \A o \in Allocated : refs[o] \subseteq Allocated
  BY DEF LiveInv, HeapInv, Closed, Allocated, TypeInv, TypeOK
<1>2. /\ Roots \subseteq Reachable /\ Reachable \subseteq Obj
      /\ \A o \in Reachable : refs[o] \subseteq Reachable
  BY <1>1, ReachClosed DEF Reachable, Reach
<1>3. RootsIn(Reachable)
  BY <1>2, RootsRootsIn
<1>4. Reachable \subseteq Allocated
  BY <1>1, ReachWithin DEF Reachable
<1> QED
  BY <1>2, <1>3, <1>4 DEF Holds

\* An instruction reaches nothing but what it could reach before and what it
\* makes.
LEMMA InstructionUses ==
  ASSUME "variadic" \notin Features, "extraLocals" \notin Features,
         LiveInv, phase = "run", Instruction, ~Finish
  PROVE  Memory!Use
<1>1. TypeInv /\ Unshared /\ TypeInv'
  BY InstructionType DEF LiveInv, HeapInv
<1>2. PICK A : A = Reachable
  OBVIOUS
<1>3. Holds(A) /\ A \subseteq Allocated
  BY <1>2, ReachableHolds
<1>4. /\ phase' \in {"run", "mark"}
      /\ \E new \in SUBSET Free : NewObjects(new) /\ Holds(A \cup new)'
  BY <1>1, <1>3, InstructionHolds
<1>5. PICK new \in SUBSET Free : NewObjects(new) /\ Holds(A \cup new)'
  BY <1>4
<1>6. Allocated' = Allocated \cup new /\ new \cap Allocated = {}
  BY <1>5, NewObjectsAllocated DEF Free, Allocated
<1>7. Reachable' \subseteq A \cup new
  <2>1. /\ Roots' \subseteq A \cup new /\ A \cup new \subseteq Obj
        /\ \A o \in A \cup new : refs'[o] \subseteq A \cup new
        /\ refs' \in [Obj -> SUBSET Obj]
    BY <1>1, <1>5 DEF Holds, RootsIn, Roots, GlobalRefs, TypeInv, TypeOK
  <2> QED
    BY <2>1, ReachWithin DEF Reachable
<1>8. /\ Allocated \subseteq Allocated'
      /\ Reachable' \subseteq Reachable \cup (Allocated' \ Allocated)
  BY <1>2, <1>6, <1>7
<1>9. (phase' = "done") = (phase = "done")
  BY <1>4
<1> QED
  BY <1>8, <1>9 DEF Memory!Use

\* A sweep takes back what the program cannot reach.
LEMMA SweepCollects ==
  ASSUME LiveInv, Sweep
  PROVE  Memory!Collect
<1>1. /\ TypeInv /\ phase = "sweep" /\ phase' = "run"
      /\ refs \in [Obj -> SUBSET Obj]
      /\ Roots \subseteq marked
      /\ \A o \in marked \cap Allocated : refs[o] \subseteq marked
      /\ Roots \subseteq Allocated
      /\ \A o \in Allocated : refs[o] \subseteq Allocated
      /\ machineVars' = machineVars
      /\ \A o \in Obj : status'[o] = IF o \notin Garbage THEN status[o]
                                     ELSE IF status[o] = "iterator" THEN "lost" ELSE "free"
      /\ \A o \in Obj \ Garbage : refs'[o] = refs[o]
      /\ refs' \in [Obj -> SUBSET Obj]
  BY DisposeType
  DEF LiveInv, HeapInv, Covered, Closed, TypeInv, TypeOK, Sweep, Dispose
<1>2. Roots' = Roots /\ Roots \in SUBSET Obj
  BY <1>1 DEF machineVars, Roots, Gaps, GlobalRefs, Allocated
<1>3. /\ Reachable \subseteq marked /\ Reachable \subseteq Allocated
      /\ Reachable \subseteq Obj /\ Roots \subseteq Reachable
      /\ \A o \in Reachable : refs[o] \subseteq Reachable
  <2>1. Reachable \subseteq marked
    <3>1. PICK kept : kept = marked \cap Allocated
      OBVIOUS
    <3>2. /\ kept \in SUBSET Obj /\ Roots \subseteq kept
          /\ \A o \in kept : refs[o] \subseteq kept
      BY <1>1, <3>1 DEF Allocated
    <3>3. Reachable \subseteq kept
      BY <1>1, <3>2, ReachWithin DEF Reachable
    <3> QED
      BY <3>1, <3>3
  <2>2. Roots \subseteq Reachable /\ \A o \in Reachable : refs[o] \subseteq Reachable
    BY <1>1, <1>2, ReachClosed DEF Reachable
  <2> QED
    BY <1>1, <2>1, <2>2, ReachableHolds DEF Allocated
<1>4. \A o \in Reachable : refs'[o] = refs[o] /\ o \notin Garbage
  BY <1>1, <1>3 DEF Garbage
<1>5. refs' \in [Obj -> SUBSET Obj]
  BY <1>1
<1>6. PICK edges : edges = refs'
  OBVIOUS
<1>7. Reachable' = Reach(Roots, edges)
  BY <1>2, <1>6 DEF Reachable
<1>8. Reach(Roots, edges) \subseteq Reachable
  BY <1>3, <1>4, <1>5, <1>6, ReachWithin
<1>9. Reachable \subseteq Reach(Roots, edges)
  <2>1. /\ Roots \subseteq Reach(Roots, edges)
        /\ \A o \in Reach(Roots, edges) : edges[o] \subseteq Reach(Roots, edges)
    BY <1>2, <1>5, <1>6, ReachClosed
  <2>2. \A o \in Reach(Roots, edges) : refs[o] \subseteq Reach(Roots, edges)
    BY <2>1, <1>4, <1>6, <1>8
  <2>3. Reach(Roots, edges) \in SUBSET Obj
    BY DEF Reach
  <2> QED
    BY <1>1, <2>1, <2>2, <2>3, ReachWithin DEF Reachable
<1>10. Allocated' \subseteq Allocated /\ Reachable \subseteq Allocated'
  BY <1>1, <1>3, <1>4 DEF Allocated
<1>11. Reachable' = Reachable
  BY <1>7, <1>8, <1>9
<1>12. (phase' = "done") = (phase = "done")
  BY <1>1
<1> QED
  BY <1>10, <1>11, <1>12 DEF Memory!Collect

\* The end of the program disposes of everything.
LEMMA FinishEnds ==
  ASSUME LiveInv, phase = "run", Finish
  PROVE  Memory!End
<1>1. TypeOK /\ Unshared
  BY DEF LiveInv, TypeInv, HeapInv
<1>2. Allocated' = {}
  BY <1>1 DEF Finish, Dispose, Allocated, Managed, Unshared, TypeOK, Statuses
<1> QED
  BY <1>2 DEF Finish, Memory!End

LEMMA NextImplementsHeap ==
  ASSUME "variadic" \notin Features, "extraLocals" \notin Features
  PROVE  LiveInv /\ [Next]_vars => [Memory!Next]_Memory!vars
<1> SUFFICES ASSUME LiveInv, [Next]_vars PROVE [Memory!Next]_Memory!vars
  OBVIOUS
<1>1. CASE phase = "run" /\ Instruction /\ ~Finish
  BY <1>1, InstructionUses DEF Memory!Next
<1>2. CASE phase = "run" /\ Finish
  BY <1>2, FinishEnds DEF Memory!Next
<1>3. CASE Mark
  BY <1>3 DEF Mark, machineVars, Memory!vars, Allocated, Reachable, Roots, Gaps,
     GlobalRefs
<1>4. CASE Sweep
  <2>1. phase = "sweep"
    BY <1>4 DEF Sweep
  <2> QED
    BY <1>4, <2>1, SweepCollects DEF Memory!Next
<1>5. CASE UNCHANGED vars
  BY <1>5 DEF vars, Memory!vars, Allocated, Reachable, Roots, Gaps, GlobalRefs
<1> QED
  BY <1>1, <1>2, <1>3, <1>4, <1>5 DEF Next

\* The collector, the stack and the calls together are the memory of module
\* Heap: what the program has lost it never finds again, neither in a slot an
\* earlier call left behind nor at an address that is used again.
THEOREM MemoryRefined ==
  ASSUME "variadic" \notin Features, "extraLocals" \notin Features
  PROVE  Spec => ImplementsHeap
<1>1. Init => Memory!Init
  <2> SUFFICES ASSUME Init PROVE Memory!Init
    OBVIOUS
  <2>1. LiveInv /\ phase = "run"
    BY LiveInvInit DEF Init
  <2>2. Reachable \subseteq Allocated /\ Allocated \subseteq Obj
    BY <2>1, ReachableHolds DEF Allocated
  <2> QED
    BY <2>1, <2>2 DEF Memory!Init
<1>2. LiveInv /\ [Next]_vars => LiveInv'
  BY NextLive
<1>3. LiveInv /\ [Next]_vars => [Memory!Next]_Memory!vars
  BY NextImplementsHeap
<1> QED
  BY <1>1, <1>2, <1>3, LiveInvInit, PTL DEF Spec, ImplementsHeap, Memory!Spec
=============================================================================
