-------------------------- MODULE GC_collect_proofs --------------------------
(***************************************************************************)
(* What the collector keeps in order, for every heap, stack and program,   *)
(* those that call variadic functions or have extra locals included: the   *)
(* marks, the accounts, and who owns the variadic lists.                   *)
(***************************************************************************)
EXTENDS GC_proofs, Induction

-----------------------------------------------------------------------------
(* The total size of a set of objects. *)

\* A function that adds up the sizes of the objects of each subset of S.
Sums(g, S) ==
  /\ g \in [SUBSET S -> Nat]
  /\ g[{}] = 0
  /\ \A s \in SUBSET S : \A x \in S \ s : g[s \cup {x}] = g[s] + SizeOf[x]

\* There is one, built up object by object.
LEMMA SumsExist == \E g : Sums(g, Obj)
<1> DEFINE T == {s \in SUBSET Obj : \E g : Sums(g, s)}
<1>1. {} \in T
  <2>1. [s \in SUBSET {} |-> 0] \in [SUBSET {} -> Nat]
    OBVIOUS
  <2>2. Sums([s \in SUBSET {} |-> 0], {})
    BY <2>1 DEF Sums
  <2> QED
    BY <2>2
<1>2. ASSUME NEW u \in T, NEW o \in Obj \ u PROVE u \cup {o} \in T
  <2>1. PICK h : Sums(h, u)
    OBVIOUS
  <2> DEFINE g == [s \in SUBSET (u \cup {o}) |->
                     IF o \in s THEN h[s \ {o}] + SizeOf[o] ELSE h[s]]
  <2>2. \A s \in SUBSET (u \cup {o}) :
          /\ s \ {o} \in SUBSET u /\ h[s \ {o}] \in Nat
          /\ o \notin s => s \in SUBSET u /\ h[s] \in Nat
    BY <2>1 DEF Sums
  <2>3. SizeOf[o] \in Nat
    BY NumberAssumption
  <2>4. g \in [SUBSET (u \cup {o}) -> Nat]
    BY <2>2, <2>3
  <2>5. g[{}] = 0
    BY <2>1 DEF Sums
  <2>6. ASSUME NEW s \in SUBSET (u \cup {o}), NEW x \in (u \cup {o}) \ s
        PROVE  g[s \cup {x}] = g[s] + SizeOf[x]
    <3>1. s \cup {x} \in SUBSET (u \cup {o}) /\ SizeOf[x] \in Nat
      BY NumberAssumption
    <3>2. CASE x = o
      <4>1. (s \cup {x}) \ {o} = s /\ s \in SUBSET u
        BY <3>2
      <4> QED
        BY <3>1, <3>2, <4>1
    <3>3. CASE x # o /\ o \in s
      <4>1. (s \cup {x}) \ {o} = (s \ {o}) \cup {x} /\ x \in u \ (s \ {o})
        BY <3>3
      <4>2. h[(s \cup {x}) \ {o}] = h[s \ {o}] + SizeOf[x]
        BY <4>1, <2>1, <2>2 DEF Sums
      <4>3. g[s \cup {x}] = h[s \ {o}] + SizeOf[x] + SizeOf[o]
        BY <3>1, <3>3, <4>2
      <4>4. g[s] = h[s \ {o}] + SizeOf[o] /\ h[s \ {o}] \in Nat
        BY <3>3, <2>2
      <4> HIDE DEF g
      <4> QED
        BY <4>3, <4>4, <2>3, <3>1
    <3>4. CASE x # o /\ o \notin s
      <4>1. s \in SUBSET u /\ x \in u \ s
        BY <3>4
      <4>2. h[s \cup {x}] = h[s] + SizeOf[x]
        BY <4>1, <2>1 DEF Sums
      <4> QED
        BY <3>1, <3>4, <4>2
    <3> QED
      BY <3>2, <3>3, <3>4
  <2> HIDE DEF g
  <2>7. Sums(g, u \cup {o})
    BY <2>4, <2>5, <2>6 DEF Sums
  <2> QED
    BY <2>7
<1> HIDE DEF T
<1>3. T \in SUBSET SUBSET Obj
  BY DEF T
<1>4. \A s \in SUBSET Obj : s \in T
  BY <1>1, <1>2, <1>3, SubsetInduction, HeapAssumption
<1> QED
  BY <1>4 DEF T

\* The fold that SizeOfAll is adds up the sizes, whatever order it takes the
\* objects in.
LEMMA SizeOfAllSums ==
  \E g : Sums(g, Obj) /\ \A S \in SUBSET Obj : SizeOfAll(S) = g[S]
<1>1. PICK g : Sums(g, Obj)
  BY SumsExist
<1>2. ASSUME NEW S \in SUBSET Obj PROVE SizeOfAll(S) = g[S]
  <2> DEFINE Pick(s) == CHOOSE x \in s : TRUE
             Step(f) == [s \in SUBSET S |->
                           IF s = {} THEN 0
                           ELSE SizeOf[Pick(s)] + f[s \ {Pick(s)}]]
             iter == CHOOSE f : f = Step(f)
             h == [s \in SUBSET S |-> g[s]]
  <2>1. SizeOfAll(S) = iter[S]
    BY DEF SizeOfAll, FoldSet, MapThenFoldSet
  <2>2. ASSUME NEW s \in SUBSET S, s # {}
        PROVE  /\ Pick(s) \in s /\ s \ {Pick(s)} \in SUBSET S
               /\ g[s] = SizeOf[Pick(s)] + g[s \ {Pick(s)}]
    <3>1. Pick(s) \in s /\ s \ {Pick(s)} \in SUBSET Obj
          /\ Pick(s) \in Obj \ (s \ {Pick(s)})
          /\ s = (s \ {Pick(s)}) \cup {Pick(s)}
      BY <2>2
    <3> HIDE DEF Pick
    <3>2. /\ g[s] = g[s \ {Pick(s)}] + SizeOf[Pick(s)]
          /\ g[s \ {Pick(s)}] \in Nat /\ SizeOf[Pick(s)] \in Nat
      BY <1>1, <3>1, NumberAssumption DEF Sums
    <3> QED
      BY <3>1, <3>2
  <2> HIDE DEF Pick
  <2>3. h = Step(h)
    BY <1>1, <2>2 DEF Sums
  <2>4. iter = Step(iter)
    BY <2>3
  <2> HIDE DEF iter
  <2>5. \A s \in SUBSET S : IsFiniteSet(s) /\ Cardinality(s) \in Nat
    BY HeapAssumption, FS_Subset, FS_CardinalityType
  <2> DEFINE Wrong == {s \in SUBSET S : iter[s] # g[s]}
             Sizes == {Cardinality(s) : s \in Wrong}
  <2>6. ASSUME Wrong # {} PROVE FALSE
    <3>1. Sizes \in SUBSET Nat /\ Sizes # {}
      BY <2>5, <2>6
    <3>2. PICK s \in Wrong : \A t \in Wrong : Cardinality(s) <= Cardinality(t)
      <4>1. PICK n \in Sizes : \A m \in Sizes : n <= m
        BY <3>1, Least
      <4> QED
        BY <4>1
    <3>3. CASE s = {}
      BY <3>2, <3>3, <2>4, <1>1 DEF Sums
    <3>4. CASE s # {}
      <4>1. Cardinality(s \ {Pick(s)}) = Cardinality(s) - 1
        BY <2>2, <2>5, <3>4, FS_RemoveElement
      <4>2. s \ {Pick(s)} \notin Wrong
        BY <4>1, <3>2, <2>5
      <4>3. iter[s \ {Pick(s)}] = g[s \ {Pick(s)}]
        BY <4>2, <2>2, <3>4
      <4>4. iter[s] = SizeOf[Pick(s)] + iter[s \ {Pick(s)}]
        BY <2>4, <3>4
      <4> QED
        BY <4>3, <4>4, <2>2, <3>2, <3>4
    <3> QED
      BY <3>3, <3>4
  <2>7. iter[S] = g[S]
    BY <2>6
  <2> QED
    BY <2>1, <2>7
<1> QED
  BY <1>1, <1>2

LEMMA SizeOfAllBasics ==
  /\ SizeOfAll({}) = 0
  /\ \A S \in SUBSET Obj : SizeOfAll(S) \in Nat
  /\ \A S \in SUBSET Obj : \A o \in Obj \ S :
       SizeOfAll(S \cup {o}) = SizeOfAll(S) + SizeOf[o]
<1>1. PICK g : Sums(g, Obj) /\ \A S \in SUBSET Obj : SizeOfAll(S) = g[S]
  BY SizeOfAllSums
<1> QED
  BY <1>1 DEF Sums

LEMMA SizeOfAllOne ==
  ASSUME NEW o \in Obj
  PROVE  SizeOfAll({o}) = SizeOf[o]
<1>1. SizeOfAll({} \cup {o}) = 0 + SizeOf[o]
  BY SizeOfAllBasics
<1>2. SizeOf[o] \in Nat /\ {} \cup {o} = {o}
  BY NumberAssumption
<1> QED
  BY <1>1, <1>2

\* The size of two disjoint sets is the sum of their sizes.
LEMMA SizeOfAllUnion ==
  ASSUME NEW S \in SUBSET Obj, NEW T \in SUBSET Obj, S \cap T = {}
  PROVE  SizeOfAll(S \cup T) = SizeOfAll(S) + SizeOfAll(T)
<1> DEFINE U == {t \in SUBSET T : SizeOfAll(S \cup t) = SizeOfAll(S) + SizeOfAll(t)}
<1>1. {} \in U
  <2>1. S \cup {} = S
    OBVIOUS
  <2> QED
    BY <2>1, SizeOfAllBasics
<1>2. ASSUME NEW t \in U, NEW o \in T \ t PROVE t \cup {o} \in U
  <2>1. /\ S \cup (t \cup {o}) = (S \cup t) \cup {o}
        /\ o \in Obj \ (S \cup t) /\ o \in Obj \ t
        /\ S \cup t \in SUBSET Obj /\ t \in SUBSET Obj
    OBVIOUS
  <2>2. /\ SizeOfAll((S \cup t) \cup {o}) = SizeOfAll(S \cup t) + SizeOf[o]
        /\ SizeOfAll(t \cup {o}) = SizeOfAll(t) + SizeOf[o]
        /\ SizeOfAll(S) \in Nat /\ SizeOfAll(t) \in Nat
    BY <2>1, SizeOfAllBasics
  <2>3. SizeOf[o] \in Nat
    BY NumberAssumption
  <2>4. SizeOfAll(S \cup t) = SizeOfAll(S) + SizeOfAll(t)
    OBVIOUS
  <2>5. SizeOfAll(S \cup (t \cup {o})) = SizeOfAll(S) + SizeOfAll(t \cup {o})
    <3> HIDE DEF U
    <3> QED
      BY <2>1, <2>2, <2>3, <2>4
  <2> QED
    BY <2>5
<1>3. IsFiniteSet(T) /\ U \in SUBSET SUBSET T
  BY HeapAssumption, FS_Subset
<1> HIDE DEF U
<1>4. T \in U
  BY <1>1, <1>2, <1>3, SubsetInduction
<1> QED
  BY <1>4 DEF U

-----------------------------------------------------------------------------
(* What the instructions do to the heap and its accounts. *)

\* A step makes the objects new, and more litter.
Makes(new) ==
  /\ NewObjects(new)
  /\ \E n \in {0, 1} : /\ litter' = litter + n
                       /\ allocated' = allocated + n + SizeOfAll(new)

LEMMA AllocateMakes ==
  ASSUME TypeInv, NEW kind \in Kinds, NEW o, NEW r, AllocateAs(kind, o, r),
         allocated \in Int, litter \in Nat
  PROVE  {o} \in SUBSET Free /\ Makes({o})
<1>1. o \in Free /\ o \in Obj /\ status \in [Obj -> Statuses]
  BY DEF AllocateAs, Free, TypeInv, TypeOK
<1>2. /\ status' = [p \in Obj |-> IF p \in {o} THEN kind ELSE status[p]]
      /\ marked' = marked \ {o} /\ litter' = litter
      /\ allocated' = allocated + SizeOf[o]
  BY <1>1 DEF AllocateAs
<1>3. SizeOfAll({o}) = SizeOf[o] /\ SizeOf[o] \in Nat
  BY <1>1, SizeOfAllOne, NumberAssumption
<1>4. allocated' = allocated + 0 + SizeOfAll({o})
  BY <1>2, <1>3
<1> QED
  BY <1>1, <1>2, <1>4 DEF Makes, NewObjects

\* Instructions that neither call nor return make at most one object.
LEMMA PlainInstructionMakes ==
  ASSUME TypeInv, phase = "run", PlainInstruction,
         allocated \in Int, litter \in Nat
  PROVE  /\ frames' = frames /\ phase' \in {"run", "mark"}
         /\ \E new \in SUBSET Free : Makes(new)
<1>1. CollectIfDue => phase' \in {"run", "mark"}
  BY DEF CollectIfDue
<1>2. ASSUME status' = status, marked' = marked,
             \E n \in {0, 1} : litter' = litter + n /\ allocated' = allocated + n
      PROVE  \E new \in SUBSET Free : Makes(new)
  <2>1. {} \in SUBSET Free /\ SizeOfAll({}) = 0
    BY SizeOfAllBasics
  <2>2. Makes({})
    BY <1>2, <2>1, NoNewObjects DEF Makes
  <2> QED
    BY <2>1, <2>2
<1>3. ASSUME NoAlloc \/ (UNCHANGED <<status, marked, litter, allocated>>)
      PROVE  \E new \in SUBSET Free : Makes(new)
  <2>1. litter' = litter + 0 /\ allocated' = allocated + 0
    BY <1>3 DEF NoAlloc
  <2> QED
    BY <1>2, <1>3, <2>1 DEF NoAlloc
<1>4. ASSUME NEW kind \in Kinds, NEW o, NEW r, AllocateAs(kind, o, r)
      PROVE  \E new \in SUBSET Free : Makes(new)
  BY <1>4, AllocateMakes
<1>5. CASE Litter
  BY <1>5, <1>1, <1>2 DEF Litter, machineVars
<1>6. ASSUME NEW k \in 0 .. 2, Compute(k)
      PROVE  /\ frames' = frames /\ phase' \in {"run", "mark"}
             /\ \E new \in SUBSET Free : Makes(new)
  BY <1>6, <1>1, <1>4 DEF Compute, Allocate, Kinds
<1>7. CASE Throw
  BY <1>7, <1>4 DEF Throw, Allocate, Kinds
<1>8. CASE Raise
  BY <1>8, <1>3 DEF Raise
<1>9. CASE \/ Load \/ Fetch \/ StoreGlobal \/ DeleteGlobal \/ StoreLocal
           \/ DeleteLocal \/ StoreCell \/ Mutate \/ Drop \/ Catch
  BY <1>9, <1>1, <1>3 DEF Load, Fetch, StoreGlobal, DeleteGlobal, StoreLocal,
     DeleteLocal, StoreCell, Mutate, Drop, Catch
<1>10. CASE GetIter
  BY <1>10, <1>1, <1>4 DEF GetIter, Kinds
<1> QED
  BY <1>5, <1>6, <1>7, <1>8, <1>9, <1>10 DEF PlainInstruction

\* A call makes the cells of the callee.
LEMMA CallMakes ==
  ASSUME TypeInv, phase = "run", NEW argc \in Nat, Call(argc),
         allocated \in Int, litter \in Nat
  PROVE  /\ phase' = "run"
         /\ \E f : frames' = Append(frames, f) /\ f.va = Null
         /\ \E new \in SUBSET Free : Makes(new)
<1>1. PICK extra \in ExtraLocals, new \in SUBSET Free :
        \E dflt \in Seq(refs[slot[sp - argc]]),
           cells \in Seq(new \cup refs[slot[sp - argc]]),
           value \in [new -> CellValues(sp - argc .. sp)] :
          Enter(argc, extra, dflt, cells, new, value)
  BY CallEnters
<1>2. PICK dflt, cells, value : Enter(argc, extra, dflt, cells, new, value)
  BY <1>1
<1>3. /\ status' = [o \in Obj |-> IF o \in new THEN "managed" ELSE status[o]]
      /\ marked' = marked \ new
      /\ allocated' = allocated + SizeOfAll(new) /\ litter' = litter
      /\ phase' = phase
      /\ frames' = Append(frames,
           [bp |-> sp - argc, params |-> argc + Len(dflt), extra |-> extra,
            cells |-> Len(cells), fn |-> slot[sp - argc], va |-> Null])
  BY <1>2 DEF Enter
<1>4. SizeOfAll(new) \in Nat
  BY SizeOfAllBasics DEF Free
<1>5. /\ litter' = litter + 0 /\ allocated' = allocated + 0 + SizeOfAll(new)
  BY <1>3, <1>4
<1>6. Makes(new)
  BY <1>3, <1>5 DEF Makes, NewObjects, Kinds
<1> QED
  BY <1>3, <1>6

-----------------------------------------------------------------------------
(* The invariant. *)

\* Only objects that are not in GC::objects carry a mark while the program runs; after
\* mark, the managed objects that do are reachable from what it scanned.
MarksInv ==
  /\ phase \in {"run", "mark"} => \A o \in marked : status[o] \in {"unmanaged", "lost"}
  /\ phase = "sweep" => marked \cap Managed \subseteq Reach(Scanned, refs)

\* The objects outside GC::objects are the variadic lists of the active frames,
\* each the list of one frame, and the root frame has none.
ListsInv ==
  /\ \A o \in Obj :
       status[o] = "unmanaged" => \E i \in DOMAIN frames : frames[i].va = o
  /\ \A i \in DOMAIN frames :
       frames[i].va # Null => status[frames[i].va] = "unmanaged"
  /\ \A i, j \in DOMAIN frames :
       frames[i].va = frames[j].va /\ frames[i].va # Null => i = j
  /\ frames[1].va = Null

AccountInv ==
  /\ litter \in Nat
  /\ phase # "done" => allocated = SizeOfAll(Managed) + litter

CollectInv == TypeInv /\ MarksInv /\ ListsInv /\ AccountInv

LEMMA CollectInvInit == Init => CollectInv
<1> SUFFICES ASSUME Init PROVE CollectInv
  OBVIOUS
<1>1. Managed = CodeConst
  BY HeapAssumption DEF Init, Managed
<1>2. SizeOfAll(CodeConst) \in Nat
  BY SizeOfAllBasics, HeapAssumption
<1>3. AccountInv
  BY <1>1, <1>2 DEF Init, AccountInv
<1>4. DOMAIN frames = {1} /\ frames[1].va = Null
  BY DEF Init, RootFrame
<1>5. ListsInv
  BY <1>4 DEF Init, ListsInv
<1>6. MarksInv
  BY DEF Init, MarksInv
<1> QED
  BY <1>3, <1>5, <1>6, InitType DEF CollectInv

\* While the program has not ended, the accounts are numbers.
LEMMA AccountType ==
  ASSUME CollectInv, phase # "done"
  PROVE  /\ TypeInv /\ TypeOK /\ litter \in Nat
         /\ Managed \in SUBSET Obj /\ SizeOfAll(Managed) \in Nat
         /\ allocated = SizeOfAll(Managed) + litter /\ allocated \in Nat
<1>1. TypeInv /\ TypeOK /\ litter \in Nat /\ Managed \in SUBSET Obj
      /\ allocated = SizeOfAll(Managed) + litter
  BY DEF CollectInv, TypeInv, AccountInv, Managed
<1>2. SizeOfAll(Managed) \in Nat
  BY <1>1, SizeOfAllBasics
<1> QED
  BY <1>1, <1>2

\* The lists of the frames are objects.
LEMMA ListsType ==
  ASSUME TypeInv
  PROVE  /\ Null \notin Obj
         /\ \A i \in DOMAIN frames : frames[i].va \in Obj \cup {Null}
<1>1. \A i \in 1 .. Len(frames) : frames[i] \in Frame
  BY TopType DEF TypeInv
<1>2. DOMAIN frames = 1 .. Len(frames)
  BY DEF TypeInv, TypeOK
<1> QED
  BY <1>1, <1>2, HeapAssumption DEF Frame, Ref

\* Objects made keep the accounts and the marks.
LEMMA MakesKeeps ==
  ASSUME CollectInv, phase = "run", phase' \in {"run", "mark"},
         NEW new \in SUBSET Free, Makes(new)
  PROVE  MarksInv' /\ AccountInv'
<1>1. /\ TypeOK /\ litter \in Nat /\ Managed \in SUBSET Obj
      /\ allocated = SizeOfAll(Managed) + litter
      /\ SizeOfAll(Managed) \in Nat
  BY AccountType
<1>2. /\ new \in SUBSET Obj /\ Managed \cap new = {} /\ Managed' = Managed \cup new
      /\ SizeOfAll(new) \in Nat
  <2>1. new \in SUBSET Obj /\ Managed \cap new = {}
    BY DEF Free, Managed
  <2>2. Managed' = Managed \cup new
    BY <2>1 DEF Managed, Makes, NewObjects, Kinds
  <2> QED
    BY <2>1, <2>2, SizeOfAllBasics
<1>3. PICK n \in {0, 1} : litter' = litter + n /\ allocated' = allocated + n + SizeOfAll(new)
  BY DEF Makes
<1>4. SizeOfAll(Managed') = SizeOfAll(Managed) + SizeOfAll(new)
  BY <1>1, <1>2, SizeOfAllUnion
<1>5. litter' \in Nat /\ allocated' = SizeOfAll(Managed') + litter'
  BY <1>1, <1>2, <1>3, <1>4
<1>6. AccountInv'
  BY <1>5 DEF AccountInv
<1>7. \A o \in marked' : status'[o] \in {"unmanaged", "lost"}
  BY <1>1 DEF Makes, NewObjects, CollectInv, MarksInv, TypeOK
<1> QED
  BY <1>6, <1>7 DEF MarksInv

\* The frames of a program after a call: those before, and one more.
LEMMA AppendedFrames ==
  ASSUME TypeInv, NEW f, frames' = Append(frames, f)
  PROVE  /\ Len(frames) \in Nat /\ Len(frames) > 0
         /\ DOMAIN frames = 1 .. Len(frames)
         /\ DOMAIN frames' = DOMAIN frames \cup {Len(frames) + 1}
         /\ Len(frames) + 1 \notin DOMAIN frames
         /\ frames'[Len(frames) + 1] = f
         /\ \A i \in DOMAIN frames : frames'[i] = frames[i]
<1>1. Len(frames) \in Nat /\ Len(frames) > 0 /\ frames \in Seq(Frame)
  BY TopType DEF TypeInv, TypeOK
<1> QED
  BY <1>1

LEMMA MakesKeepsLists ==
  ASSUME CollectInv, phase = "run", phase' \in {"run", "mark"},
         NEW new \in SUBSET Free, Makes(new),
         \/ frames' = frames
         \/ \E f : frames' = Append(frames, f) /\ f.va = Null
  PROVE  ListsInv'
<1>1. /\ TypeInv /\ TypeOK /\ ListsInv
  BY DEF CollectInv, TypeInv
<1>2. Null \notin Obj /\ \A i \in DOMAIN frames : frames[i].va \in Obj \cup {Null}
  BY <1>1, ListsType
<1>3. /\ \A o \in Obj : status'[o] = "unmanaged" <=> status[o] = "unmanaged"
  BY DEF Makes, NewObjects, Free, Kinds
<1>4. CASE frames' = frames
  BY <1>1, <1>2, <1>3, <1>4 DEF ListsInv
<1>5. ASSUME NEW f, frames' = Append(frames, f), f.va = Null PROVE ListsInv'
  <2>1. /\ Len(frames) > 0
        /\ DOMAIN frames' = DOMAIN frames \cup {Len(frames) + 1}
        /\ 1 \in DOMAIN frames
        /\ frames'[Len(frames) + 1].va = Null
        /\ \A i \in DOMAIN frames : frames'[i] = frames[i]
    BY <1>1, <1>5, AppendedFrames
  <2>2. frames'[1].va = Null
    BY <2>1, <1>1 DEF ListsInv
  <2>3. \A i, j \in DOMAIN frames' :
          frames'[i].va = frames'[j].va /\ frames'[i].va # Null => i = j
    BY <2>1, <1>1 DEF ListsInv
  <2>4. \A i \in DOMAIN frames' :
          frames'[i].va # Null => status'[frames'[i].va] = "unmanaged"
    BY <2>1, <1>1, <1>2, <1>3 DEF ListsInv
  <2>5. \A o \in Obj :
          status'[o] = "unmanaged" => \E i \in DOMAIN frames' : frames'[i].va = o
    BY <2>1, <1>1, <1>3 DEF ListsInv
  <2> QED
    BY <2>2, <2>3, <2>4, <2>5 DEF ListsInv
<1> QED
  BY <1>4, <1>5

\* A variadic call makes the list that its frame owns.
LEMMA VariadicCallKeeps ==
  ASSUME CollectInv, phase = "run", NEW argc, NEW v, VariadicCall(argc, v)
  PROVE  MarksInv' /\ ListsInv' /\ AccountInv'
<1>1. /\ TypeInv /\ TypeOK /\ ListsInv /\ MarksInv /\ AccountInv
  BY DEF CollectInv, TypeInv
<1>2. Null \notin Obj /\ \A i \in DOMAIN frames : frames[i].va \in Obj \cup {Null}
  BY <1>1, ListsType
<1>3. PICK va \in Free :
        /\ status' = [status EXCEPT ![va] = "unmanaged"]
        /\ marked' = marked \ {va}
        /\ \E f : frames' = Append(frames, f) /\ f.va = va
  BY DEF VariadicCall
<1>4. /\ phase' = "run" /\ litter' = litter /\ allocated' = allocated
      /\ va \in Obj /\ status[va] = "free"
      /\ \A o \in Obj : status'[o] = IF o = va THEN "unmanaged" ELSE status[o]
  BY <1>1, <1>3 DEF VariadicCall, Free, TypeOK
<1>5. Managed' = Managed
  BY <1>4 DEF Managed
<1>6. AccountInv'
  BY <1>1, <1>4, <1>5 DEF AccountInv
<1>7. MarksInv'
  BY <1>1, <1>3, <1>4 DEF MarksInv, TypeOK
<1>8. /\ Len(frames) > 0
      /\ DOMAIN frames' = DOMAIN frames \cup {Len(frames) + 1}
      /\ 1 \in DOMAIN frames
      /\ frames'[Len(frames) + 1].va = va
      /\ \A i \in DOMAIN frames : frames'[i] = frames[i]
  BY <1>1, <1>3, AppendedFrames
<1>9. \A i \in DOMAIN frames : frames[i].va # va
  BY <1>1, <1>2, <1>4 DEF ListsInv
<1>10. ListsInv'
  <2>1. frames'[1].va = Null
    BY <1>1, <1>8 DEF ListsInv
  <2>2. \A i, j \in DOMAIN frames' :
          frames'[i].va = frames'[j].va /\ frames'[i].va # Null => i = j
    BY <1>1, <1>8, <1>9 DEF ListsInv
  <2>3. \A i \in DOMAIN frames' :
          frames'[i].va # Null => status'[frames'[i].va] = "unmanaged"
    BY <1>1, <1>2, <1>4, <1>8 DEF ListsInv
  <2>4. \A o \in Obj :
          status'[o] = "unmanaged" => \E i \in DOMAIN frames' : frames'[i].va = o
    BY <1>1, <1>4, <1>8 DEF ListsInv
  <2> QED
    BY <1>4, <2>1, <2>2, <2>3, <2>4 DEF ListsInv
<1> QED
  BY <1>6, <1>7, <1>10

\* The end of a call deletes the list of its frame and no other object.
LEMMA LeaveKeeps ==
  ASSUME CollectInv, phase = "run", Leave, phase' \in {"run", "mark"}
  PROVE  MarksInv' /\ ListsInv' /\ AccountInv'
<1>1. /\ TypeInv /\ TypeOK /\ ListsInv /\ MarksInv /\ AccountInv
      /\ \A i \in DOMAIN frames : frames[i].va \in Obj \cup {Null}
      /\ Null \notin Obj
  BY ListsType DEF CollectInv, TypeInv
<1>2. /\ Len(frames) > 1 /\ Top = frames[Len(frames)]
      /\ Len(frames') = Len(frames) - 1
      /\ \A i \in 1 .. Len(frames') : frames'[i] = frames[i]
      /\ Len(frames) \in Nat /\ frames' \in Seq(Frame)
      /\ DOMAIN frames = 1 .. Len(frames)
  BY <1>1, LeaveType DEF TypeOK
<1>3. /\ DOMAIN frames' = DOMAIN frames \ {Len(frames)} /\ 1 \in DOMAIN frames'
      /\ Len(frames) \in DOMAIN frames
      /\ \A i \in DOMAIN frames' : frames'[i] = frames[i]
  <2>1. DOMAIN frames' = 1 .. Len(frames) - 1
    BY <1>2
  <2> QED
    BY <1>2, <2>1
<1>4. \A o \in Deleted : o \in Obj /\ status[o] = "unmanaged"
  BY <1>1, <1>2, <1>3 DEF Deleted, ListsInv
<1>5. /\ \A o \in Obj : status'[o] = IF o \in Deleted THEN "free" ELSE status[o]
      /\ marked' = marked \ Deleted /\ litter' = litter /\ allocated' = allocated
  BY DEF Leave
<1>6. Managed' = Managed
  BY <1>4, <1>5 DEF Managed
<1>7. AccountInv'
  BY <1>1, <1>5, <1>6 DEF AccountInv
<1>8. MarksInv'
  BY <1>1, <1>5 DEF MarksInv, TypeOK
<1>9. ListsInv'
  <2>1. frames'[1].va = Null
    BY <1>1, <1>3 DEF ListsInv
  <2>2. \A i, j \in DOMAIN frames' :
          frames'[i].va = frames'[j].va /\ frames'[i].va # Null => i = j
    BY <1>1, <1>3 DEF ListsInv
  <2>3. \A i \in DOMAIN frames' : frames'[i].va # Null => frames'[i].va \notin Deleted
    BY <1>1, <1>2, <1>3 DEF ListsInv, Deleted
  <2>4. \A i \in DOMAIN frames' :
          frames'[i].va # Null => status'[frames'[i].va] = "unmanaged"
    BY <1>1, <1>3, <1>5, <2>3 DEF ListsInv
  <2>5. ASSUME NEW o \in Obj, status'[o] = "unmanaged"
        PROVE  \E i \in DOMAIN frames' : frames'[i].va = o
    <3>1. o \notin Deleted /\ status[o] = "unmanaged" /\ o # Null
      BY <1>1, <1>5, <2>5
    <3>2. PICK i \in DOMAIN frames : frames[i].va = o
      BY <1>1, <3>1 DEF ListsInv
    <3>3. i # Len(frames)
      BY <1>2, <3>1, <3>2 DEF Deleted
    <3> QED
      BY <1>3, <3>2, <3>3
  <2> QED
    BY <2>1, <2>2, <2>4, <2>5 DEF ListsInv
<1> QED
  BY <1>7, <1>8, <1>9

\* GC::clean leaves the lists alone, of which the root frame has none.
LEMMA FinishKeeps ==
  ASSUME CollectInv, phase = "run", Finish
  PROVE  MarksInv' /\ ListsInv' /\ AccountInv'
<1>1. /\ TypeOK /\ ListsInv /\ AccountInv
      /\ \A i \in DOMAIN frames : frames[i].va \in Obj \cup {Null}
  BY ListsType DEF CollectInv, TypeInv
<1>2. /\ frames' = frames /\ phase' = "done" /\ litter' = litter
      /\ \A o \in Obj : status'[o] = "unmanaged" <=> status[o] = "unmanaged"
  BY DEF Finish, Dispose, Managed, machineVars
<1>3. ListsInv'
  BY <1>1, <1>2 DEF ListsInv
<1> QED
  BY <1>1, <1>2, <1>3 DEF MarksInv, AccountInv

LEMMA InstructionKeeps ==
  ASSUME CollectInv, phase = "run", Instruction
  PROVE  MarksInv' /\ ListsInv' /\ AccountInv'
<1>0. TypeInv /\ allocated \in Int /\ litter \in Nat
  BY AccountType
<1>1. CASE PlainInstruction
  BY <1>0, <1>1, PlainInstructionMakes, MakesKeeps, MakesKeepsLists
<1>2. ASSUME NEW argc \in 0 .. MaxArgs, Call(argc)
      PROVE  MarksInv' /\ ListsInv' /\ AccountInv'
  <2>1. argc \in Nat
    BY NumberAssumption
  <2>2. /\ phase' = "run" /\ \E f : frames' = Append(frames, f) /\ f.va = Null
        /\ \E new \in SUBSET Free : Makes(new)
    BY <1>0, <1>2, <2>1, CallMakes
  <2> QED
    BY <2>2, MakesKeeps, MakesKeepsLists
<1>3. ASSUME NEW argc, NEW v, VariadicCall(argc, v)
      PROVE  MarksInv' /\ ListsInv' /\ AccountInv'
  BY <1>3, VariadicCallKeeps
<1>4. CASE Return
  BY <1>4, LeaveKeeps DEF Return, CollectIfDue
<1>5. CASE Unwind
  BY <1>5, LeaveKeeps DEF Unwind
<1>6. CASE Finish
  BY <1>6, FinishKeeps
<1> QED
  BY <1>1, <1>2, <1>3, <1>4, <1>5, <1>6 DEF Instruction, PlainInstruction

\* What mark marks is reachable, along references to unmarked objects.
LEMMA MarkedFromReached ==
  ASSUME NEW from \in SUBSET Obj, NEW edges \in [Obj -> SUBSET Obj],
         NEW m
  PROVE  Reach(from \ m, [o \in Obj |-> edges[o] \ m]) \subseteq Reach(from, edges)
<1> DEFINE fewer == [o \in Obj |-> edges[o] \ m]
           S == Reach(from, edges)
<1>1. /\ from \subseteq S /\ \A p \in S : edges[p] \subseteq S
  BY ReachClosed
<1>2. S \in SUBSET Obj
  BY DEF Reach
<1> HIDE DEF S
<1>3. /\ from \ m \in SUBSET S /\ fewer \in [Obj -> SUBSET Obj]
      /\ \A p \in S : fewer[p] \subseteq S
  BY <1>1, <1>2
<1> HIDE DEF fewer
<1>4. Reach(from \ m, fewer) \subseteq S
  BY <1>2, <1>3, ReachWithin
<1> QED
  BY <1>4 DEF fewer, S

LEMMA MarkKeeps ==
  ASSUME CollectInv, Mark
  PROVE  MarksInv' /\ ListsInv' /\ AccountInv'
<1>1. /\ TypeInv /\ TypeOK /\ ListsInv /\ MarksInv /\ AccountInv
  BY DEF CollectInv, TypeInv
<1>2. /\ phase = "mark" /\ phase' = "sweep"
      /\ status' = status /\ refs' = refs /\ frames' = frames
      /\ litter' = litter /\ allocated' = allocated
      /\ Managed' = Managed /\ Scanned' = Scanned
      /\ marked' = marked \cup MarkedFrom(Scanned)
  BY DEF Mark, machineVars, Managed, Scanned, GlobalRefs
<1>3. Scanned \in SUBSET Obj
  <2>1. \A i \in 0 .. sp : slot[i] \in Obj \cup {Null}
    BY <1>1, NumberAssumption DEF TypeOK, Slots, Ref
  <2> QED
    BY <1>1, <2>1, SlotsInRange, HeapAssumption DEF Scanned
<1>4. MarkedFrom(Scanned) \subseteq Reach(Scanned, refs)
  BY <1>1, <1>3, MarkedFromReached DEF MarkedFrom, TypeOK
<1>5. \A o \in marked : o \notin Managed
  BY <1>1, <1>2 DEF MarksInv, Managed
<1>6. MarksInv'
  BY <1>2, <1>4, <1>5 DEF MarksInv
<1>7. ListsInv'
  BY <1>1, <1>2 DEF ListsInv
<1>8. AccountInv'
  BY <1>1, <1>2 DEF AccountInv
<1> QED
  BY <1>6, <1>7, <1>8

\* What a sweep takes off allocated is the size of what it deletes.
LEMMA SweepAccount ==
  ASSUME CollectInv, Sweep
  PROVE  /\ Managed' = Managed \cap marked /\ litter' = 0
         /\ allocated' = SizeOfAll(Managed') /\ allocated' \in Nat
<1>1. /\ TypeOK /\ litter \in Nat /\ Managed \in SUBSET Obj
      /\ allocated = SizeOfAll(Managed) + litter
  BY AccountType DEF Sweep
<1>2. /\ \A o \in Obj : status'[o] = IF o \notin Garbage THEN status[o]
                                     ELSE IF status[o] = "iterator" THEN "lost" ELSE "free"
      /\ allocated' = allocated - (SizeOfAll(Garbage) + litter) /\ litter' = 0
  BY DEF Sweep, Dispose, Released
<1>3. Managed' = Managed \cap marked
  BY <1>2 DEF Managed, Garbage
<1>4. /\ Managed' \in SUBSET Obj /\ Garbage \in SUBSET Obj
      /\ Managed' \cap Garbage = {} /\ Managed = Managed' \cup Garbage
  BY <1>1, <1>3 DEF Garbage
<1>5. SizeOfAll(Managed) = SizeOfAll(Managed') + SizeOfAll(Garbage)
  BY <1>4, SizeOfAllUnion
<1>6. SizeOfAll(Managed') \in Nat /\ SizeOfAll(Garbage) \in Nat
  BY <1>4, SizeOfAllBasics
<1> QED
  BY <1>1, <1>2, <1>3, <1>5, <1>6

LEMMA SweepKeeps ==
  ASSUME CollectInv, Sweep
  PROVE  MarksInv' /\ ListsInv' /\ AccountInv'
<1>1. /\ TypeInv /\ TypeOK /\ ListsInv /\ MarksInv
      /\ \A i \in DOMAIN frames : frames[i].va \in Obj \cup {Null}
      /\ Null \notin Obj
  BY ListsType DEF CollectInv, TypeInv
<1>2. /\ phase = "sweep" /\ phase' = "run" /\ frames' = frames
      /\ \A o \in Obj : status'[o] = IF o \notin Garbage THEN status[o]
                                     ELSE IF status[o] = "iterator" THEN "lost" ELSE "free"
      /\ marked' = {o \in marked : status[o] \in {"unmanaged", "lost"}}
  BY DEF Sweep, Dispose, machineVars, MarksAfterSweep
<1>3. /\ \A o \in Obj : status'[o] = "unmanaged" <=> status[o] = "unmanaged"
      /\ \A o \in marked' : status'[o] = status[o]
  BY <1>1, <1>2 DEF Garbage, Managed, TypeOK
<1>4. AccountInv'
  <2>1. allocated' = SizeOfAll(Managed') + 0
    BY SweepAccount
  <2> QED
    BY <2>1, SweepAccount DEF AccountInv
<1>5. MarksInv'
  BY <1>1, <1>2, <1>3 DEF MarksInv, TypeOK
<1>6. ListsInv'
  BY <1>1, <1>2, <1>3 DEF ListsInv
<1> QED
  BY <1>4, <1>5, <1>6

LEMMA CollectInvNext == CollectInv /\ [Next]_vars => CollectInv'
<1> SUFFICES ASSUME CollectInv, [Next]_vars PROVE CollectInv'
  OBVIOUS
<1>0. TypeInv'
  BY NextType DEF CollectInv
<1>1. CASE phase = "run" /\ Instruction
  BY <1>0, <1>1, InstructionKeeps DEF CollectInv
<1>2. CASE Mark
  BY <1>0, <1>2, MarkKeeps DEF CollectInv
<1>3. CASE Sweep
  BY <1>0, <1>3, SweepKeeps DEF CollectInv
<1>4. CASE UNCHANGED vars
  BY <1>0, <1>4 DEF CollectInv, vars, MarksInv, ListsInv, AccountInv, Managed, Scanned,
     GlobalRefs
<1> QED
  BY <1>1, <1>2, <1>3, <1>4 DEF Next

-----------------------------------------------------------------------------
(* What it gives. *)

\* No managed object carries a mark outside a collection: not after a sweep, not
\* at an address that is used again, whatever marks the variadic lists keep.
THEOREM MarksAreClear == Spec => []MarksClear
<1>1. CollectInv => MarksClear
  BY DEF CollectInv, MarksInv, MarksClear, Managed
<1> QED
  BY <1>1, CollectInvInit, CollectInvNext, PTL DEF Spec

\* GC::allocated never drifts from the size of the heap, for objects of any
\* size, however addresses are used again.
THEOREM AccountsAreKept == Spec => []AllocatedIsHeapSize
<1>1. CollectInv => AllocatedIsHeapSize
  BY DEF CollectInv, AccountInv, AllocatedIsHeapSize
<1> QED
  BY <1>1, CollectInvInit, CollectInvNext, PTL DEF Spec

\* The variadic lists, which the collector does not know of, are the lists of
\* the active frames, one each: none is deleted early, twice or never, in any
\* sequence of calls, returns, exceptions and collections.
THEOREM ListsAreOwned == Spec => []ListsOwned
<1>1. CollectInv => ListsOwned
  <2> SUFFICES ASSUME CollectInv PROVE ListsOwned
    OBVIOUS
  <2>1. /\ ListsInv /\ Null \notin Obj
        /\ \A i \in DOMAIN frames : frames[i].va \in Obj \cup {Null}
    BY ListsType DEF CollectInv
  <2>2. \A o \in Obj : \A i \in DOMAIN frames :
          frames[i].va = o => status[o] = "unmanaged"
    BY <2>1 DEF ListsInv
  <2>3. \A i, j \in DOMAIN frames :
          frames[i].va = frames[j].va /\ i # j => frames[i].va = Null
    BY <2>1 DEF ListsInv
  <2> QED
    BY <2>1, <2>2, <2>3 DEF ListsInv, ListsOwned
<1> QED
  BY <1>1, CollectInvInit, CollectInvNext, PTL DEF Spec

\* A collection leaves no garbage among the managed objects.
THEOREM GarbageIsCollected == Spec => CollectsAllGarbage
<1>1. CollectInv /\ [Next]_vars =>
        [Sweep => Managed' \subseteq Reach(Scanned, refs)]_vars
  <2> SUFFICES ASSUME CollectInv, Sweep
               PROVE  Managed' \subseteq Reach(Scanned, refs)
    OBVIOUS
  <2>1. Managed' = Managed \cap marked
    BY SweepAccount
  <2> QED
    BY <2>1 DEF CollectInv, MarksInv, Sweep
<1> QED
  BY <1>1, CollectInvInit, CollectInvNext, PTL DEF Spec, CollectsAllGarbage
=============================================================================
