--------------------------- MODULE Compiler_proofs ---------------------------
(***************************************************************************)
(* The code of every program is well formed (CodeWellFormed), whatever the *)
(* bounds on programs, types and nesting.  The invariant says, while the   *)
(* program is compiled, where each statement that is being compiled has    *)
(* its instructions (its home, a code object) and which operands are still *)
(* to be patched.                                                          *)
(***************************************************************************)
EXTENDS VirtualMachine, Induction, SequenceTheorems, TLAPS

Loops == {"while", "foreach"}
\* The statements that have a TRY and no handler yet.
Tries == {"try", "handlers", "finally"}
StatementKinds == Loops \cup Tries \cup {"if", "else", "catch", "function"}

OpenStatement ==
  [kind : StatementKinds, start : Nat, exit : Nat, ends : SUBSET Nat,
   first : Nat, finally : Nat, catches : Seq(Nat), name : Nat]
StackState ==
  [type : {"LOOP", "FUNCTION"}, start : Nat, ends : SUBSET Nat, depth : Nat]

\* The types of what the compiler holds.
HeldOK ==
  /\ open \in Seq(OpenStatement)
  /\ states \in Seq(StackState)
  /\ used \subseteq Features

\* stateStack has the loops and functions among the open statements, in order.
StatesOK ==
  /\ \A i \in DOMAIN states :
       LET s == states[i] IN
       /\ s.depth \in DOMAIN open
       /\ s.type = "FUNCTION" => open[s.depth].kind = "function" /\ s.ends = {}
       /\ s.type = "LOOP" =>
            open[s.depth].kind \in Loops /\ s.start = open[s.depth].start
  /\ \A i, j \in DOMAIN states : i < j => states[i].depth < states[j].depth
  /\ \A k \in DOMAIN open :
       open[k].kind \in Loops \cup {"function"} => \E i \in DOMAIN states : states[i].depth = k

\* What a statement s whose instructions are in code object c holds.
HoldsOK(s, c) ==
  LET code == codes[c].code IN
  /\ s.kind \in Loops => s.start \in DOMAIN code
  /\ s.kind \in Tries =>
       /\ s.start \in DOMAIN code /\ code[s.start].op = "TRY"
       /\ s.exit = NoAddress
       /\ \A i \in DOMAIN codes[c].handlers :
            LET h == codes[c].handlers[i] IN s.start < h.start \/ h.end < s.start
  /\ s.kind = "try" => s.catches = <<>>
  /\ s.kind \in {"handlers", "finally"} =>
       /\ s.start < s.first /\ s.first <= Len(code) + 1
       /\ s.catches # <<>> => s.first <= Len(code)
  /\ s.kind = "finally" =>
       s.catches # <<>> /\ s.first < s.finally /\ s.finally <= Len(code) + 1
  /\ s.kind # "finally" => s.finally = NoAddress
  /\ s.kind # "handlers" => s.ends = {}
  /\ s.kind = "function" => s.exit = NoAddress

\* home[k] is the code object that the blocks of the k-th open statement are
\* compiled to, home[0] that of the program.
HomesOK(home) ==
  /\ home[Len(open)] = cur
  /\ \A j, k \in 0 .. Len(open) :
       j <= k /\ (\A m \in j + 1 .. k : open[m].kind # "function") => home[j] = home[k]
  /\ \A k \in DOMAIN open :
       /\ HoldsOK(open[k], home[k])
       /\ open[k].kind = "function" => open[k].start = home[k - 1] /\ home[k] # home[k - 1]
       /\ open[k].kind = "catch" => k > 1 /\ open[k - 1].kind = "handlers"
  /\ \A j, k \in DOMAIN open :
       j < k /\ home[j] = home[k] /\ {open[j].kind, open[k].kind} \subseteq Tries =>
         open[j].start < open[k].start

\* The jump at address a of code object c is to be patched.
Pending(home, c, a) ==
  \/ \E k \in DOMAIN open :
       home[k] = c /\ (a = open[k].exit \/ a \in open[k].ends)
  \/ \E i \in DOMAIN states : home[states[i].depth] = c /\ a \in states[i].ends

\* More instructions are going to be emitted to code object c.
Live(home, c) == \E k \in 0 .. Len(open) : home[k] = c

\* A jump lands, also on the instruction that comes next, or will be patched.
JumpsOK(home) ==
  \A c \in DOMAIN codes : \A a \in DOMAIN codes[c].code :
    codes[c].code[a].op \in Jumps =>
      \/ codes[c].code[a].arg \in DOMAIN codes[c].code
      \/ codes[c].code[a].arg = Len(codes[c].code) + 1 /\ Live(home, c)
      \/ Pending(home, c, a)

\* While the program is compiled.
Compiling ==
  /\ HeldOK
  /\ StatesOK
  /\ \E home \in [0 .. Len(open) -> DOMAIN codes] :
       HomesOK(home) /\ ("jumpFunction" \notin used => JumpsOK(home))

CodeObject == [code : Seq(Instruction), handlers : Seq(Handler)]

\* The types of the code and of what points to it.
CodesOK ==
  /\ codes \in Seq(CodeObject)
  /\ cur \in DOMAIN codes
  /\ phase \in {"compile", "run", "error", "done"}

\* A handler starts in its code.
HandlersStart ==
  \A c \in DOMAIN codes : \A h \in Range(codes[c].handlers) : h.start \in DOMAIN codes[c].code

\* The inductive invariant.
CodeInv ==
  /\ CodesOK
  /\ HandlersStart /\ HandlersOrdered /\ InnerHandlerFirst
  /\ phase = "compile" => Compiling
  /\ phase # "compile" => used \subseteq Features /\ ("jumpFunction" \notin used => JumpsLand)

-----------------------------------------------------------------------------
(* Code that grows. *)

\* The instruction codes, and those with an operand.
LEMMA InstructionTypes ==
  /\ \A op \in Ops : I(op) \in Instruction /\ I(op).op = op /\ I(op).arg = 0
  /\ \A op \in Ops, arg \in Nat :
       Ia(op, arg) \in Instruction /\ Ia(op, arg).op = op /\ Ia(op, arg).arg = arg
  BY DEF I, Ia, Instruction

\* new is the code with more instructions.
Longer(new, code, more) ==
  /\ Len(new) = Len(code) + Len(more)
  /\ \A a \in DOMAIN code : a \in DOMAIN new /\ new[a] = code[a]
  /\ \A b \in DOMAIN more : new[Len(code) + b] = more[b]
  /\ \A a \in DOMAIN new \ DOMAIN code :
       \E b \in DOMAIN more : a = Len(code) + b /\ new[a] = more[b]

\* Emit appends to the code.
LEMMA EmittedCode ==
  ASSUME NEW code \in Seq(Instruction), NEW more \in Seq(Instruction),
         NEW new, new = code \o more
  PROVE  new \in Seq(Instruction) /\ Longer(new, code, more)
<1>1. /\ new \in Seq(Instruction) /\ Len(new) = Len(code) + Len(more)
      /\ DOMAIN new = 1 .. Len(new) /\ DOMAIN code = 1 .. Len(code)
      /\ DOMAIN more = 1 .. Len(more) /\ Len(code) \in Nat /\ Len(more) \in Nat
  OBVIOUS
<1>2. \A a \in 1 .. Len(new) :
        new[a] = IF a <= Len(code) THEN code[a] ELSE more[a - Len(code)]
  OBVIOUS
<1>3. ASSUME NEW a \in DOMAIN new \ DOMAIN code
      PROVE  \E b \in DOMAIN more : a = Len(code) + b /\ new[a] = more[b]
  <2>1. a - Len(code) \in DOMAIN more /\ new[a] = more[a - Len(code)]
    BY <1>1, <1>2
  <2> QED
    BY <1>1, <2>1
<1>4. \A a \in DOMAIN code : a \in DOMAIN new /\ new[a] = code[a]
  BY <1>1, <1>2
<1>5. \A b \in DOMAIN more : new[Len(code) + b] = more[b]
  BY <1>1, <1>2
<1> QED
  BY <1>1, <1>3, <1>4, <1>5 DEF Longer

\* new is the code with the operands at some addresses patched, and perhaps more.
PatchedTo(new, code, at, target) ==
  \A a \in DOMAIN code :
    /\ a \in DOMAIN new /\ new[a].op = code[a].op
    /\ new[a].arg = IF a \in at THEN target ELSE code[a].arg

\* patchJumpAddress changes operands only.
LEMMA PatchedCode ==
  ASSUME NEW code \in Seq(Instruction), NEW at, NEW target \in Nat,
         NEW new, new = Patched(code, at, target)
  PROVE  new \in Seq(Instruction) /\ Len(new) = Len(code) /\ PatchedTo(new, code, at, target)
<1>1. \A a \in DOMAIN code : code[a] \in Instruction
  OBVIOUS
<1>2. \A i \in Instruction :
        LET j == [i EXCEPT !.arg = target] IN
        j \in Instruction /\ j.op = i.op /\ j.arg = target
  BY DEF Instruction
<1>3. /\ new \in Seq(Instruction) /\ Len(new) = Len(code) /\ DOMAIN new = DOMAIN code
      /\ \A a \in DOMAIN code :
           new[a].op = code[a].op /\ new[a].arg = IF a \in at THEN target ELSE code[a].arg
  BY <1>1, <1>2 DEF Patched
<1> QED
  BY <1>3 DEF PatchedTo

\* The code objects after a step: they are not shorter than before, and have the
\* same operations at the same addresses.
Grows ==
  /\ DOMAIN codes \subseteq DOMAIN codes'
  /\ \A c \in DOMAIN codes :
       /\ Len(codes[c].code) <= Len(codes'[c].code)
       /\ \A a \in DOMAIN codes[c].code : codes'[c].code[a].op = codes[c].code[a].op
SameHandlers ==
  /\ \A c \in DOMAIN codes : codes'[c].handlers = codes[c].handlers
  /\ \A c \in DOMAIN codes' \ DOMAIN codes : codes'[c].handlers = <<>>

\* SetCode replaces the code of the current code object.
Rewrites(new) ==
  /\ new \in Seq(Instruction) /\ SetCode(new)
  /\ Len(Code) <= Len(new) /\ \A a \in DOMAIN Code : new[a].op = Code[a].op
\* The other code objects, and all handlers, stay as they are.
LEMMA SetCodeGrows ==
  ASSUME CodesOK, NEW new, Rewrites(new)
  PROVE  /\ codes' \in Seq(CodeObject) /\ DOMAIN codes' = DOMAIN codes
         /\ codes'[cur].code = new
         /\ \A c \in DOMAIN codes \ {cur} : codes'[c] = codes[c]
         /\ Grows /\ SameHandlers
<1>1. /\ codes \in Seq(CodeObject) /\ cur \in DOMAIN codes
      /\ codes' = [codes EXCEPT ![cur].code = new]
  BY DEF CodesOK, SetCode, Rewrites
<1> DEFINE object == [codes[cur] EXCEPT !.code = new]
<1>2. \A c \in DOMAIN codes : codes[c] \in CodeObject
  BY <1>1
<1>3. object \in CodeObject /\ object.code = new /\ object.handlers = codes[cur].handlers
  BY <1>1, <1>2 DEF CodeObject, Rewrites
<1>4. codes' = [codes EXCEPT ![cur] = object]
  BY <1>1
<1> HIDE DEF object
<1>5. /\ codes' \in Seq(CodeObject) /\ DOMAIN codes' = DOMAIN codes
      /\ codes'[cur].code = new /\ codes'[cur].handlers = codes[cur].handlers
      /\ \A c \in DOMAIN codes \ {cur} : codes'[c] = codes[c]
  BY <1>1, <1>3, <1>4
<1>6. \A c \in DOMAIN codes : Len(codes[c].code) \in Nat
  BY <1>2 DEF CodeObject
<1> QED
  BY <1>1, <1>5, <1>6 DEF Grows, SameHandlers, Code, Rewrites

\* The parts of a code object.
LEMMA CodeObjects ==
  ASSUME CodesOK
  PROVE  \A c \in DOMAIN codes :
           /\ codes[c] \in CodeObject
           /\ codes[c].code \in Seq(Instruction) /\ codes[c].handlers \in Seq(Handler)
           /\ DOMAIN codes[c].code = 1 .. Len(codes[c].code) /\ Len(codes[c].code) \in Nat
<1>1. \A c \in DOMAIN codes : codes[c] \in CodeObject
  BY DEF CodesOK
<1> QED
  BY <1>1 DEF CodeObject

\* No address is lost.
LEMMA GrownDomain ==
  ASSUME CodesOK, codes' \in Seq(CodeObject), Grows
  PROVE  \A c \in DOMAIN codes :
           /\ codes'[c] \in CodeObject /\ codes'[c].code \in Seq(Instruction)
           /\ DOMAIN codes'[c].code = 1 .. Len(codes'[c].code) /\ Len(codes'[c].code) \in Nat
           /\ DOMAIN codes[c].code \subseteq DOMAIN codes'[c].code
<1>1. \A c \in DOMAIN codes : codes'[c] \in CodeObject
  BY DEF Grows
<1>2. \A c \in DOMAIN codes :
        /\ codes'[c].code \in Seq(Instruction) /\ Len(codes'[c].code) \in Nat
        /\ DOMAIN codes'[c].code = 1 .. Len(codes'[c].code)
  BY <1>1 DEF CodeObject
<1> QED
  BY <1>1, <1>2, CodeObjects DEF Grows

-----------------------------------------------------------------------------
(* What a growing code leaves as it is. *)

\* The registered handlers stay in order.
LEMMA HandlersKept ==
  ASSUME CodesOK, HandlersStart, HandlersOrdered, InnerHandlerFirst, codes' \in Seq(CodeObject),
         Grows, SameHandlers
  PROVE  HandlersStart' /\ HandlersOrdered' /\ InnerHandlerFirst'
<1>1. \A c \in DOMAIN codes' : \/ c \in DOMAIN codes /\ codes'[c].handlers = codes[c].handlers
                               \/ codes'[c].handlers = <<>>
  BY DEF SameHandlers
<1>2. \A c \in DOMAIN codes :
        /\ codes[c].handlers \in Seq(Handler)
        /\ DOMAIN codes[c].code \subseteq DOMAIN codes'[c].code
  BY CodeObjects, GrownDomain
<1>3. \A c \in DOMAIN codes' : \A h \in Range(codes'[c].handlers) :
        c \in DOMAIN codes /\ h \in Range(codes[c].handlers) /\ h \in Handler
  BY <1>1, <1>2 DEF Range
<1>4. HandlersOrdered'
  <2> SUFFICES ASSUME NEW c \in DOMAIN codes', NEW h \in Range(codes'[c].handlers)
               PROVE  /\ h.start < h.first /\ h.first < h.end /\ h.end \in DOMAIN codes'[c].code
                      /\ codes'[c].code[h.start].op = "TRY"
                      /\ codes'[c].code[h.end].op = "END_TRY"
                      /\ h.finally # NoAddress => h.first < h.finally /\ h.finally <= h.end
    BY DEF HandlersOrdered
  <2>1. /\ c \in DOMAIN codes /\ h \in Handler
        /\ h.start < h.first /\ h.first < h.end /\ h.end \in DOMAIN codes[c].code
        /\ codes[c].code[h.start].op = "TRY" /\ codes[c].code[h.end].op = "END_TRY"
        /\ h.finally # NoAddress => h.first < h.finally /\ h.finally <= h.end
    BY <1>3 DEF HandlersOrdered
  <2>2. h.start \in DOMAIN codes[c].code
    BY <1>3 DEF HandlersStart
  <2> QED
    BY <1>2, <2>1, <2>2 DEF Grows
<1>5. InnerHandlerFirst'
  BY <1>1 DEF InnerHandlerFirst
<1>6. HandlersStart'
  BY <1>2, <1>3 DEF HandlersStart
<1> QED
  BY <1>4, <1>5, <1>6

\* What an open statement holds stays so, unless a handler is registered for a
\* statement around it.
LEMMA HoldsBeside ==
  ASSUME CodesOK, codes' \in Seq(CodeObject), Grows, NEW c \in DOMAIN codes,
         NEW s \in OpenStatement, HoldsOK(s, c),
         s.kind \in Tries =>
           \A i \in DOMAIN codes'[c].handlers :
             LET h == codes'[c].handlers[i] IN s.start < h.start \/ h.end < s.start
  PROVE  HoldsOK(s, c)'
<1>1. /\ DOMAIN codes[c].code \subseteq DOMAIN codes'[c].code
      /\ Len(codes[c].code) \in Nat /\ Len(codes'[c].code) \in Nat
      /\ Len(codes[c].code) <= Len(codes'[c].code)
      /\ \A a \in DOMAIN codes[c].code : codes'[c].code[a].op = codes[c].code[a].op
  BY CodeObjects, GrownDomain DEF Grows
<1>2. s.start \in Nat /\ s.first \in Nat /\ s.finally \in Nat
  BY DEF OpenStatement
<1> DEFINE code == codes[c].code
           code2 == codes'[c].code
<1>3. /\ s.kind \in Loops => s.start \in DOMAIN code2
      /\ s.kind \in Tries =>
           /\ s.start \in DOMAIN code2 /\ code2[s.start].op = "TRY"
           /\ s.exit = NoAddress
  BY <1>1 DEF HoldsOK
<1>4. s.kind \in Tries =>
        \A i \in DOMAIN codes'[c].handlers :
          LET h == codes'[c].handlers[i] IN s.start < h.start \/ h.end < s.start
  OBVIOUS
<1>5. /\ s.kind \in {"handlers", "finally"} =>
           /\ s.start < s.first /\ s.first <= Len(code2) + 1
           /\ s.catches # <<>> => s.first <= Len(code2)
      /\ s.kind = "finally" =>
           s.catches # <<>> /\ s.first < s.finally /\ s.finally <= Len(code2) + 1
  <2> HIDE DEF code2
  <2>1. Len(code) \in Nat /\ Len(code2) \in Nat /\ Len(code) <= Len(code2)
    BY <1>1 DEF code2
  <2> HIDE DEF code
  <2>2. s.kind \in {"handlers", "finally"} =>
           /\ s.start < s.first /\ s.first <= Len(code) + 1
           /\ s.catches # <<>> => s.first <= Len(code)
    BY DEF HoldsOK, code
  <2>3. s.kind = "finally" =>
           s.catches # <<>> /\ s.first < s.finally /\ s.finally <= Len(code) + 1
    BY DEF HoldsOK, code
  <2> QED
    BY <1>2, <2>1, <2>2, <2>3
<1>6. /\ s.kind = "try" => s.catches = <<>>
      /\ s.kind # "finally" => s.finally = NoAddress
      /\ s.kind # "handlers" => s.ends = {}
      /\ s.kind = "function" => s.exit = NoAddress
  BY DEF HoldsOK
<1> QED
  BY <1>3, <1>4, <1>5, <1>6 DEF HoldsOK

\* The same, when no handler is registered.
LEMMA HoldsKept ==
  ASSUME CodesOK, codes' \in Seq(CodeObject), Grows, NEW c \in DOMAIN codes,
         codes'[c].handlers = codes[c].handlers, NEW s \in OpenStatement, HoldsOK(s, c)
  PROVE  HoldsOK(s, c)'
<1>1. s.kind \in Tries =>
        \A i \in DOMAIN codes'[c].handlers :
          LET h == codes'[c].handlers[i] IN s.start < h.start \/ h.end < s.start
  BY DEF HoldsOK
<1> QED
  BY <1>1, HoldsBeside

\* The step writes to code object o only, the code new.
Writes(new, o) ==
  /\ new \in Seq(Instruction) /\ codes' \in Seq(CodeObject) /\ DOMAIN codes' = DOMAIN codes
  /\ codes'[o].code = new
  /\ \A c \in DOMAIN codes \ {o} : codes'[c] = codes[c]

\* The jumps of the other code objects are as they were; those of the current one
\* are in its new code.
LEMMA JumpsKept ==
  ASSUME CodesOK, NEW new, NEW o, Writes(new, o), NEW home, NEW home2, JumpsOK(home),
         Live(home2, o)',
         \A c \in DOMAIN codes \ {o} :
           /\ Live(home, c) => Live(home2, c)'
           /\ \A a \in DOMAIN codes[c].code : Pending(home, c, a) => Pending(home2, c, a)',
         \A a \in DOMAIN new :
           new[a].op \in Jumps =>
             new[a].arg \in 1 .. Len(new) + 1 \/ Pending(home2, o, a)'
  PROVE  JumpsOK(home2)'
<1>1. /\ DOMAIN codes' = DOMAIN codes /\ codes'[o].code = new
      /\ \A c \in DOMAIN codes \ {o} : codes'[c] = codes[c]
      /\ DOMAIN new = 1 .. Len(new) /\ Len(new) \in Nat
  BY DEF Writes
<1>2. ASSUME NEW c \in DOMAIN codes', NEW a \in DOMAIN codes'[c].code,
             codes'[c].code[a].op \in Jumps
      PROVE  \/ codes'[c].code[a].arg \in DOMAIN codes'[c].code
             \/ codes'[c].code[a].arg = Len(codes'[c].code) + 1 /\ Live(home2, c)'
             \/ Pending(home2, c, a)'
  <2>1. CASE c = o
    <3>1. new[a].arg \in 1 .. Len(new) + 1 \/ Pending(home2, c, a)'
      BY <1>1, <1>2, <2>1
    <3> QED
      BY <1>1, <2>1, <3>1
  <2>2. CASE c # o
    <3>1. codes'[c] = codes[c] /\ c \in DOMAIN codes \ {o}
      BY <1>1, <2>2
    <3> QED
      BY <1>2, <3>1 DEF JumpsOK
  <2> QED
    BY <2>1, <2>2
<1> QED
  BY <1>2 DEF JumpsOK

-----------------------------------------------------------------------------
(* Homes. *)

\* A step leaves the k-th open statement the kind of statement it was.
SameShape(k) ==
  /\ open'[k].kind = "function" <=> open[k].kind = "function"
  /\ open'[k].kind \in Tries => open[k].kind \in Tries
  /\ open'[k].kind \in Tries \cup {"function"} => open'[k].start = open[k].start
  /\ open'[k].kind = "catch" => open[k].kind = "catch"
  /\ k < Len(open') /\ open[k].kind = "handlers" => open'[k].kind = "handlers"

\* A step that begins no statement, and ends one at most.
LEMMA HomesShrink ==
  ASSUME open \in Seq(OpenStatement), open' \in Seq(OpenStatement), Len(open') <= Len(open),
         NEW home, HomesOK(home), cur' = home[Len(open')],
         \A k \in DOMAIN open' : SameShape(k) /\ HoldsOK(open[k], home[k])',
         NEW home2, home2 = [k \in 0 .. Len(open') |-> home[k]]
  PROVE  HomesOK(home2)'
<1> DEFINE n == Len(open)
           m == Len(open')
<1>1. /\ n \in Nat /\ m \in Nat /\ m <= n
      /\ DOMAIN open = 1 .. n /\ DOMAIN open' = 1 .. m
  OBVIOUS
<1>2. home2[m] = cur'
  BY <1>1
<1> HIDE DEF n, m
<1>3. \A k \in 0 .. m : home2[k] = home[k] /\ k \in 0 .. n
  BY <1>1 DEF m
<1>4. ASSUME NEW j \in 0 .. m, NEW k \in 0 .. m, j <= k,
             \A i \in j + 1 .. k : open'[i].kind # "function"
      PROVE  home2[j] = home2[k]
  <2>1. \A i \in j + 1 .. k : open[i].kind # "function"
    BY <1>1, <1>4 DEF SameShape
  <2>2. j \in 0 .. n /\ k \in 0 .. n /\ home2[j] = home[j] /\ home2[k] = home[k]
    BY <1>3
  <2> QED
    BY <1>4, <2>1, <2>2 DEF HomesOK, n
<1>5. ASSUME NEW k \in 1 .. m
      PROVE  /\ HoldsOK(open[k], home2[k])'
             /\ open'[k].kind = "function" => open'[k].start = home2[k - 1] /\ home2[k] # home2[k - 1]
             /\ open'[k].kind = "catch" => k > 1 /\ open'[k - 1].kind = "handlers"
  <2>1. /\ SameShape(k) /\ HoldsOK(open[k], home[k])'
        /\ home2[k] = home[k] /\ home2[k - 1] = home[k - 1]
        /\ k \in DOMAIN open /\ k \in DOMAIN open'
    BY <1>1, <1>3
  <2>2. open[k].kind = "function" => open[k].start = home[k - 1] /\ home[k] # home[k - 1]
    BY <2>1 DEF HomesOK
  <2>3. open[k].kind = "catch" => k > 1 /\ open[k - 1].kind = "handlers"
    BY <2>1 DEF HomesOK
  <2>4. ASSUME open'[k].kind = "catch" PROVE k > 1 /\ open'[k - 1].kind = "handlers"
    <3>1. k > 1 /\ open[k - 1].kind = "handlers"
      BY <2>1, <2>3, <2>4 DEF SameShape
    <3>2. k - 1 \in DOMAIN open' /\ k - 1 < Len(open')
      BY <1>1, <3>1 DEF m
    <3> QED
      BY <3>1, <3>2 DEF SameShape
  <2>5. HoldsOK(open[k], home2[k])'
    BY <2>1
  <2> QED
    BY <2>1, <2>2, <2>4, <2>5 DEF SameShape
<1>6. ASSUME NEW j \in 1 .. m, NEW k \in 1 .. m, j < k, home2[j] = home2[k],
             {open'[j].kind, open'[k].kind} \subseteq Tries
      PROVE  open'[j].start < open'[k].start
  <2>1. /\ SameShape(j) /\ SameShape(k) /\ home[j] = home[k]
        /\ j \in DOMAIN open /\ k \in DOMAIN open
    BY <1>1, <1>3, <1>6
  <2>2. /\ {open[j].kind, open[k].kind} \subseteq Tries
        /\ open'[j].start = open[j].start /\ open'[k].start = open[k].start
    BY <1>6, <2>1 DEF SameShape
  <2> QED
    BY <1>6, <2>1, <2>2 DEF HomesOK
<1> QED
  BY <1>1, <1>2, <1>4, <1>5, <1>6 DEF HomesOK, m

\* The TRY of a statement s comes after those of the try statements around it.
StartsAfter(home, s) ==
  s.kind \in Tries =>
    \A k \in DOMAIN open : open[k].kind \in Tries /\ home[k] = cur => open[k].start < s.start

\* A step that begins a statement: its instructions are in the current code
\* object, which is a new one if it is a function.
LEMMA HomesPush ==
  ASSUME CodesOK, open \in Seq(OpenStatement), open' \in Seq(OpenStatement),
         Len(open') = Len(open) + 1,
         NEW home, HomesOK(home),
         \A k \in DOMAIN open :
           /\ open'[k].kind = open[k].kind /\ open'[k].start = open[k].start
           /\ HoldsOK(open[k], home[k])',
         NEW s, s = open'[Len(open) + 1], NEW o, o = cur', HoldsOK(s, o)',
         IF s.kind = "function" THEN s.start = cur ELSE cur' = cur,
         s.kind = "function" => s.start # o,
         s.kind = "catch" => Inside("handlers"),
         StartsAfter(home, s),
         NEW home2, home2 = [k \in 0 .. Len(open') |-> IF k <= Len(open) THEN home[k] ELSE o]
  PROVE  HomesOK(home2)'
<1> DEFINE n == Len(open)
<1>1. /\ n \in Nat /\ Len(open') = n + 1 /\ home[n] = cur
      /\ DOMAIN open = 1 .. n /\ DOMAIN open' = 1 .. n + 1
  BY DEF HomesOK
<1>2. home2[n + 1] = o /\ \A k \in 0 .. n : home2[k] = home[k]
  BY <1>1
<1> HIDE DEF n
<1>3. ASSUME NEW j \in 0 .. n + 1, NEW k \in 0 .. n + 1, j <= k,
             \A i \in j + 1 .. k : open'[i].kind # "function"
      PROVE  home2[j] = home2[k]
  <2>1. j <= n => \A i \in j + 1 .. n : i <= k => open[i].kind # "function"
    BY <1>1, <1>3
  <2>2. CASE k <= n
    <3>1. /\ j \in 0 .. Len(open) /\ k \in 0 .. Len(open)
          /\ \A i \in j + 1 .. k : open[i].kind # "function"
      BY <1>1, <1>3, <2>1, <2>2 DEF n
    <3>2. home[j] = home[k]
      BY <1>3, <3>1 DEF HomesOK
    <3> QED
      BY <1>1, <1>2, <1>3, <2>2, <3>2
  <2>3. CASE k = n + 1 /\ j <= n
    <3>1. s.kind # "function"
      BY <1>1, <1>3, <2>3 DEF n
    <3>2. home[j] = home[n]
      BY <1>1, <1>3, <2>1, <2>3 DEF HomesOK, n
    <3> QED
      BY <1>1, <1>2, <2>3, <3>1, <3>2
  <2>4. CASE j = n + 1
    BY <1>1, <1>3, <2>4
  <2> QED
    BY <1>1, <2>2, <2>3, <2>4
<1>4. ASSUME NEW k \in 1 .. n + 1
      PROVE  /\ HoldsOK(open[k], home2[k])'
             /\ open'[k].kind = "function" => open'[k].start = home2[k - 1] /\ home2[k] # home2[k - 1]
             /\ open'[k].kind = "catch" => k > 1 /\ open'[k - 1].kind = "handlers"
  <2>1. CASE k <= n
    <3>1. /\ k \in DOMAIN open /\ home2[k] = home[k] /\ home2[k - 1] = home[k - 1]
          /\ open'[k].kind = open[k].kind /\ open'[k].start = open[k].start
          /\ k > 1 => open'[k - 1].kind = open[k - 1].kind
      BY <1>1, <1>2, <2>1
    <3>2. HoldsOK(open[k], home2[k])'
      BY <3>1
    <3> QED
      BY <3>1, <3>2 DEF HomesOK
  <2>2. CASE k = n + 1
    <3>1. /\ open'[k] = s /\ home2[k] = o /\ home2[k - 1] = cur
          /\ n >= 1 => open'[n].kind = open[n].kind
      BY <1>1, <1>2, <2>2 DEF n
    <3>2. HoldsOK(open[k], home2[k])'
      BY <3>1
    <3>3. s.kind = "catch" => n >= 1 /\ open[n].kind = "handlers"
      BY <1>1 DEF Inside, Enclosing, n
    <3> QED
      BY <1>1, <2>2, <3>1, <3>2, <3>3
  <2> QED
    BY <1>1, <2>1, <2>2
<1>5. ASSUME NEW j \in 1 .. n + 1, NEW k \in 1 .. n + 1, j < k, home2[j] = home2[k],
             {open'[j].kind, open'[k].kind} \subseteq Tries
      PROVE  open'[j].start < open'[k].start
  <2>0. j \in 1 .. n /\ j \in 0 .. n /\ j \in DOMAIN open
    BY <1>1, <1>5
  <2>1. /\ j \in DOMAIN open /\ home2[j] = home[j]
        /\ open'[j].kind = open[j].kind /\ open'[j].start = open[j].start
    BY <1>2, <2>0
  <2>2. CASE k <= n
    <3>1. /\ k \in DOMAIN open /\ home2[k] = home[k]
          /\ open'[k].kind = open[k].kind /\ open'[k].start = open[k].start
      BY <1>1, <1>2, <2>2
    <3> QED
      BY <1>5, <2>1, <3>1 DEF HomesOK
  <2>3. CASE k = n + 1
    <3>1. open'[k] = s /\ home2[k] = o
      BY <1>2, <2>3 DEF n
    <3>2. s.kind # "function"
      BY <1>5, <3>1 DEF Tries
    <3> QED
      BY <1>5, <2>1, <3>1, <3>2 DEF StartsAfter
  <2> QED
    BY <1>1, <2>2, <2>3
<1> QED
  BY <1>1, <1>2, <1>3, <1>4, <1>5 DEF HomesOK

-----------------------------------------------------------------------------
(* stateStack. *)

\* Front drops the last element.
LEMMA Fronts ==
  ASSUME NEW S, NEW s \in Seq(S), s # <<>>
  PROVE  /\ Front(s) \in Seq(S) /\ Len(s) \in Nat \ {0} /\ Len(Front(s)) = Len(s) - 1
         /\ \A k \in 1 .. Len(s) - 1 : Front(s)[k] = s[k]
         /\ Last(s) = s[Len(s)]
<1>1. Len(s) \in Nat \ {0} /\ \A i \in 1 .. Len(s) : s[i] \in S
  BY EmptySeq
<1>2. \A i \in 1 .. Len(s) - 1 : s[i] \in S
  BY <1>1
<1> DEFINE n == Len(s) - 1
<1>3. /\ Front(s) \in Seq(S) /\ Len(Front(s)) = IF 1 <= n THEN n - 1 + 1 ELSE 0
      /\ \A i \in 1 .. Len(s) - 1 - 1 + 1 : Front(s)[i] = s[1 + i - 1]
  BY <1>1, <1>2, SubSeqProperties DEF Front
<1>4. Len(Front(s)) = n
  <2>1. n \in Nat
    BY <1>1
  <2>2. Len(Front(s)) = IF 1 <= n THEN n - 1 + 1 ELSE 0
    BY <1>3
  <2> HIDE DEF n
  <2> QED
    BY <2>1, <2>2
<1>5. ASSUME NEW i \in 1 .. Len(s) - 1 PROVE Front(s)[i] = s[i]
  <2>1. i \in 1 .. Len(s) - 1 - 1 + 1 /\ 1 + i - 1 = i
    BY <1>1
  <2> QED
    BY <1>3, <2>1
<1> QED
  BY <1>1, <1>3, <1>4, <1>5 DEF Last

\* The states of a stack, one by one.
LEMMA HeldTypes ==
  ASSUME HeldOK
  PROVE  /\ \A k \in DOMAIN open : open[k] \in OpenStatement
         /\ \A i \in DOMAIN states : states[i] \in StackState /\ states[i].depth \in Nat
         /\ DOMAIN open = 1 .. Len(open) /\ Len(open) \in Nat
         /\ DOMAIN states = 1 .. Len(states) /\ Len(states) \in Nat
<1>1. /\ open \in Seq(OpenStatement) /\ states \in Seq(StackState)
  BY DEF HeldOK
<1>2. \A i \in DOMAIN states : states[i] \in StackState
  BY <1>1
<1>3. \A s \in StackState : s.depth \in Nat
  BY DEF StackState
<1> QED
  BY <1>1, <1>2, <1>3

\* A step that changes neither stateStack nor the loops and functions.
Marked(k) == k \in DOMAIN open /\ open[k].kind \in Loops \cup {"function"}
\* What StatesOK says stays, when the loops and functions that are open stay.
LEMMA StatesKept ==
  ASSUME HeldOK, StatesOK, states' = states,
         \A k \in DOMAIN open : Marked(k) =>
           k \in DOMAIN open' /\ open'[k].kind = open[k].kind /\ open'[k].start = open[k].start,
         \A k \in DOMAIN open' : Marked(k)' => Marked(k)
  PROVE  StatesOK'
<1>1. ASSUME NEW i \in DOMAIN states
      PROVE  /\ states[i].depth \in DOMAIN open'
             /\ states[i].type = "FUNCTION" =>
                  open'[states[i].depth].kind = "function" /\ states[i].ends = {}
             /\ states[i].type = "LOOP" =>
                  /\ open'[states[i].depth].kind \in Loops
                  /\ states[i].start = open'[states[i].depth].start
  <2>1. /\ states[i].depth \in DOMAIN open
        /\ states[i].type = "FUNCTION" =>
             open[states[i].depth].kind = "function" /\ states[i].ends = {}
        /\ states[i].type = "LOOP" =>
             /\ open[states[i].depth].kind \in Loops
             /\ states[i].start = open[states[i].depth].start
    BY DEF StatesOK
  <2>2. Marked(states[i].depth)
    BY <2>1, HeldTypes DEF Marked, StackState
  <2> QED
    BY <2>1, <2>2
<1> QED
  BY <1>1 DEF StatesOK, Marked

\* A loop or a function begins.
LEMMA StatesPush ==
  ASSUME HeldOK, StatesOK, NEW s \in OpenStatement, NEW type, NEW start \in Nat,
         open' = Append(open, s), states' = Append(states, State(type, start, Len(open) + 1)),
         \/ s.kind \in Loops /\ type = "LOOP" /\ start = s.start
         \/ s.kind = "function" /\ type = "FUNCTION"
  PROVE  StatesOK' /\ states' \in Seq(StackState)
<1> DEFINE n == Len(open)
           m == Len(states)
           t == State(type, start, n + 1)
<1>1. /\ n \in Nat /\ m \in Nat /\ DOMAIN open = 1 .. n /\ DOMAIN states = 1 .. m
      /\ open \in Seq(OpenStatement) /\ states \in Seq(StackState)
      /\ \A i \in DOMAIN states : states[i].depth \in Nat
  BY HeldTypes DEF HeldOK
<1>2. /\ t \in StackState /\ t.depth = n + 1 /\ t.type = type /\ t.start = start /\ t.ends = {}
  BY <1>1 DEF State, StackState
<1>3. /\ states' \in Seq(StackState) /\ DOMAIN states' = 1 .. m + 1 /\ states'[m + 1] = t
      /\ \A i \in 1 .. m : states'[i] = states[i]
  <2> HIDE DEF t
  <2>1. states' = Append(states, t)
    BY DEF t
  <2> QED
    BY <1>1, <1>2, <2>1
<1>4. /\ DOMAIN open' = 1 .. n + 1 /\ open'[n + 1] = s
      /\ \A k \in 1 .. n : open'[k] = open[k]
  BY <1>1
<1> HIDE DEF n, m, t
<1>5. ASSUME NEW i \in DOMAIN states'
      PROVE  /\ states'[i].depth \in DOMAIN open'
             /\ states'[i].type = "FUNCTION" =>
                  open'[states'[i].depth].kind = "function" /\ states'[i].ends = {}
             /\ states'[i].type = "LOOP" =>
                  /\ open'[states'[i].depth].kind \in Loops
                  /\ states'[i].start = open'[states'[i].depth].start
  <2>1. CASE i = m + 1
    BY <1>1, <1>2, <1>3, <1>4, <2>1
  <2>2. CASE i \in 1 .. m
    <3>1. /\ states[i].depth \in DOMAIN open
          /\ states[i].type = "FUNCTION" =>
               open[states[i].depth].kind = "function" /\ states[i].ends = {}
          /\ states[i].type = "LOOP" =>
               /\ open[states[i].depth].kind \in Loops
               /\ states[i].start = open[states[i].depth].start
      BY <1>1, <2>2 DEF StatesOK
    <3> QED
      BY <1>1, <1>3, <1>4, <2>2, <3>1
  <2> QED
    BY <1>1, <1>3, <2>1, <2>2
<1>6. ASSUME NEW i \in DOMAIN states', NEW j \in DOMAIN states', i < j
      PROVE  states'[i].depth < states'[j].depth
  <2>1. i \in DOMAIN states /\ states'[i] = states[i] /\ states[i].depth \in 1 .. n
    BY <1>1, <1>3, <1>6 DEF StatesOK
  <2>2. CASE j = m + 1
    BY <1>1, <1>2, <1>3, <2>1, <2>2
  <2>3. CASE j \in 1 .. m
    BY <1>1, <1>3, <1>6, <2>1, <2>3 DEF StatesOK
  <2> QED
    BY <1>1, <1>3, <2>2, <2>3
<1>7. ASSUME NEW k \in DOMAIN open', open'[k].kind \in Loops \cup {"function"}
      PROVE  \E i \in DOMAIN states' : states'[i].depth = k
  <2>1. CASE k = n + 1
    BY <1>1, <1>2, <1>3, <2>1
  <2>2. CASE k \in 1 .. n
    <3>1. PICK i \in DOMAIN states : states[i].depth = k
      BY <1>1, <1>4, <1>7, <2>2 DEF StatesOK
    <3> QED
      BY <1>1, <1>3, <3>1
  <2> QED
    BY <1>1, <1>4, <2>1, <2>2
<1> QED
  BY <1>3, <1>5, <1>6, <1>7 DEF StatesOK

\* The innermost loop or function, when it is the innermost statement.
LEMMA LastState ==
  ASSUME HeldOK, StatesOK, open # <<>>, Enclosing.kind \in Loops \cup {"function"}
  PROVE  /\ states # <<>> /\ Len(states) \in DOMAIN states
         /\ states[Len(states)].depth = Len(open)
         /\ \A i \in DOMAIN states : states[i].depth = Len(open) => i = Len(states)
<1>1. /\ Len(open) \in Nat /\ Len(open) \in DOMAIN open /\ DOMAIN open = 1 .. Len(open)
      /\ DOMAIN states = 1 .. Len(states) /\ Len(states) \in Nat
      /\ \A i \in DOMAIN states : states[i].depth \in Nat
  BY HeldTypes, EmptySeq DEF HeldOK
<1>2. PICK i \in DOMAIN states : states[i].depth = Len(open)
  BY <1>1 DEF StatesOK, Enclosing
<1>3. ASSUME NEW j \in DOMAIN states, states[j].depth = Len(open) PROVE j = Len(states)
  <2>1. Len(states) \in DOMAIN states
    BY <1>1
  <2>2. states[Len(states)].depth <= Len(open)
    BY <1>1, <2>1 DEF StatesOK
  <2>3. j < Len(states) => states[j].depth < states[Len(states)].depth
    BY <2>1 DEF StatesOK
  <2> QED
    BY <1>1, <1>3, <2>1, <2>2, <2>3
<1> QED
  BY <1>1, <1>2, <1>3

\* It ends.
LEMMA StatesPop ==
  ASSUME HeldOK, StatesOK, open # <<>>, Enclosing.kind \in Loops \cup {"function"},
         PopOpen, states' = Front(states)
  PROVE  StatesOK' /\ states' \in Seq(StackState)
<1> DEFINE n == Len(open)
           m == Len(states)
<1>1. /\ n \in Nat /\ m \in Nat /\ DOMAIN open = 1 .. n /\ DOMAIN states = 1 .. m
      /\ open \in Seq(OpenStatement) /\ states \in Seq(StackState)
      /\ \A i \in DOMAIN states : states[i].depth \in Nat
  BY HeldTypes DEF HeldOK
<1>2. /\ m \in DOMAIN states /\ states # <<>> /\ states[m].depth = n
      /\ \A i \in DOMAIN states : states[i].depth = n => i = m
  BY LastState
<1>3. /\ states' \in Seq(StackState) /\ DOMAIN states' = 1 .. m - 1
      /\ \A i \in 1 .. m - 1 : states'[i] = states[i]
  BY <1>1, <1>2, Fronts
<1>4. /\ DOMAIN open' = 1 .. n - 1
      /\ \A k \in 1 .. n - 1 : open'[k] = open[k]
  BY <1>1, Fronts DEF PopOpen
<1> HIDE DEF n, m
<1>5. ASSUME NEW i \in DOMAIN states'
      PROVE  /\ i \in DOMAIN states /\ states'[i] = states[i]
             /\ states[i].depth \in DOMAIN open' /\ states[i].depth \in DOMAIN open
             /\ open'[states[i].depth] = open[states[i].depth]
  <2>1. i \in DOMAIN states /\ states'[i] = states[i] /\ i # m
    BY <1>1, <1>2, <1>3
  <2>2. states[i].depth \in DOMAIN open /\ states[i].depth # n
    BY <1>2, <2>1 DEF StatesOK
  <2> QED
    BY <1>1, <1>4, <2>1, <2>2
<1>6. ASSUME NEW k \in DOMAIN open', open'[k].kind \in Loops \cup {"function"}
      PROVE  \E i \in DOMAIN states' : states'[i].depth = k
  <2>1. PICK i \in DOMAIN states : states[i].depth = k
    BY <1>1, <1>4, <1>6 DEF StatesOK
  <2>2. i # m
    BY <1>1, <1>2, <1>4, <2>1
  <2> QED
    BY <1>1, <1>3, <2>1, <2>2
<1> QED
  BY <1>3, <1>5, <1>6 DEF StatesOK

\* A break adds a jump to patch to a loop.
LEMMA StatesBreak ==
  ASSUME HeldOK, StatesOK, open' = open, NEW i \in DOMAIN states, states[i].type = "LOOP",
         NEW ends \in SUBSET Nat, states' = [states EXCEPT ![i].ends = ends]
  PROVE  /\ StatesOK' /\ states' \in Seq(StackState) /\ DOMAIN states' = DOMAIN states
         /\ \A j \in DOMAIN states : states'[j].depth = states[j].depth
         /\ \A j \in DOMAIN states : states'[j].ends = IF j = i THEN ends ELSE states[j].ends
<1> DEFINE t == [states[i] EXCEPT !.ends = ends]
<1>1. states \in Seq(StackState) /\ states[i] \in StackState
  BY HeldTypes DEF HeldOK
<1>2. /\ t \in StackState /\ t.depth = states[i].depth /\ t.type = "LOOP"
      /\ t.start = states[i].start /\ t.ends = ends
  BY <1>1 DEF StackState
<1>3. states' = [states EXCEPT ![i] = t]
  BY <1>1
<1> HIDE DEF t
<1>4. /\ states' \in Seq(StackState) /\ DOMAIN states' = DOMAIN states
      /\ states'[i] = t /\ \A j \in DOMAIN states \ {i} : states'[j] = states[j]
  BY <1>1, <1>2, <1>3
<1>5. \A j \in DOMAIN states :
        /\ states'[j].depth = states[j].depth /\ states'[j].type = states[j].type
        /\ states'[j].start = states[j].start
        /\ states'[j].ends = IF j = i THEN ends ELSE states[j].ends
  BY <1>2, <1>4
<1> QED
  BY <1>4, <1>5 DEF StatesOK

-----------------------------------------------------------------------------
(* Steps of the compiler. *)

\* What is known of a program that is compiled.
CompilingAt(home) ==
  /\ CodeInv /\ phase = "compile"
  /\ HeldOK /\ StatesOK
  /\ home \in [0 .. Len(open) -> DOMAIN codes]
  /\ HomesOK(home)
  /\ "jumpFunction" \notin used => JumpsOK(home)

\* The jumps of a new code land or are to be patched.
JumpsIn(new, home, o) ==
  \A a \in DOMAIN new :
    new[a].op \in Jumps => new[a].arg \in 1 .. Len(new) + 1 \/ Pending(home, o, a)

\* A step that writes to the current code object and begins no statement.
LEMMA StepEnds ==
  ASSUME NEW home, CompilingAt(home), NEW new, NEW o, Writes(new, o), o = cur, cur' = cur,
         HandlersStart', HandlersOrdered', InnerHandlerFirst',
         phase' = "compile", HeldOK', StatesOK', used \subseteq used',
         Len(open') \in {Len(open), Len(open) - 1}, home[Len(open')] = o,
         \A k \in DOMAIN open' : SameShape(k) /\ HoldsOK(open[k], home[k])',
         \A k \in DOMAIN open' : home[k] # o => open'[k] = open[k],
         "jumpFunction" \notin used' =>
           /\ JumpsIn(new, home, o)'
           /\ \A i \in DOMAIN states : home[states[i].depth] # o =>
                /\ i \in DOMAIN states' /\ states'[i].depth = states[i].depth
                /\ states'[i].ends = states[i].ends
  PROVE  CodeInv'
<1> DEFINE n == Len(open)
           m == Len(open')
<1>1. /\ CodesOK /\ HandlersStart /\ HandlersOrdered /\ InnerHandlerFirst
      /\ HeldOK /\ StatesOK /\ HomesOK(home)
      /\ home \in [0 .. n -> DOMAIN codes]
      /\ open \in Seq(OpenStatement) /\ open' \in Seq(OpenStatement)
      /\ home[n] = o
  BY DEF CompilingAt, CodeInv, HeldOK, HomesOK
<1>2. /\ DOMAIN open = 1 .. n /\ n \in Nat /\ DOMAIN open' = 1 .. m /\ m \in Nat
      /\ m = n \/ m = n - 1
  BY <1>1
<1>3. home[m] = o /\ m <= n /\ 0 .. m \subseteq 0 .. n
  <2>1. home[m] = o
    OBVIOUS
  <2> HIDE DEF n, m
  <2> QED
    BY <1>2, <2>1
<1>4. /\ codes' \in Seq(CodeObject) /\ DOMAIN codes' = DOMAIN codes
      /\ CodesOK' /\ o \in DOMAIN codes
  BY <1>1 DEF CodesOK, Writes
<1>5. PICK home2 : home2 = [k \in 0 .. m |-> home[k]]
  OBVIOUS
<1> HIDE DEF n, m
<1>6. /\ \A k \in 0 .. m : home2[k] = home[k]
      /\ home2 \in [0 .. m -> DOMAIN codes']
  BY <1>1, <1>3, <1>4, <1>5
<1>7. \A k \in 1 .. m : k \in 0 .. m /\ k \in 1 .. n /\ k \in 0 .. n
  BY <1>2
<1>8. HomesOK(home2)'
  <2>2. Len(open') <= Len(open) /\ cur' = home[Len(open')]
    BY <1>3 DEF n, m
  <2>3. home2 = [k \in 0 .. Len(open') |-> home[k]]
    BY <1>5 DEF m
  <2> QED
    BY <1>1, <2>2, <2>3, HomesShrink
<1>9. ASSUME "jumpFunction" \notin used' PROVE JumpsOK(home2)'
  <2>1. JumpsOK(home)
    BY <1>9 DEF CompilingAt
  <2>2. \A k \in DOMAIN open' : home2[k] = home[k]
    BY <1>2, <1>7, <1>6
  <2>3. \A i \in DOMAIN states' : home2[states'[i].depth] = home[states'[i].depth]
    BY <2>2 DEF StatesOK
  <2>4. ASSUME NEW c, NEW a, Pending(home, c, a)' PROVE Pending(home2, c, a)'
    BY <2>2, <2>3, <2>4 DEF Pending
  <2>5. Live(home2, o)'
    <3>1. m \in 0 .. m /\ home2[m] = o
      BY <1>2, <1>3, <1>6
    <3> QED
      BY <3>1 DEF Live, m
  <2>6. ASSUME NEW c \in DOMAIN codes \ {o}
        PROVE  /\ Live(home, c) => Live(home2, c)'
               /\ \A a \in DOMAIN codes[c].code : Pending(home, c, a) => Pending(home2, c, a)'
    <3>1. ASSUME NEW k \in 0 .. n, home[k] = c PROVE k \in 0 .. m /\ home2[k] = c
      <4>1. k # n
        BY <1>1, <3>1
      <4>2. k \in 0 .. m
        BY <1>2, <4>1
      <4> QED
        BY <1>6, <3>1, <4>2
    <3>2. Live(home, c) => Live(home2, c)'
      BY <3>1 DEF Live, n, m
    <3>3. ASSUME NEW k \in DOMAIN open, home[k] = c
          PROVE  k \in DOMAIN open' /\ open'[k] = open[k] /\ home2[k] = c
      <4>1. k \in 1 .. n
        BY <1>2
      <4>2. k \in 0 .. n /\ k # 0
        BY <1>2, <4>1
      <4>3. k \in 0 .. m /\ home2[k] = c
        BY <3>1, <3>3, <4>2
      <4>4. k \in DOMAIN open'
        BY <1>2, <4>2, <4>3
      <4> QED
        BY <3>3, <4>3, <4>4
    <3>4. ASSUME NEW i \in DOMAIN states, home[states[i].depth] = c
          PROVE  /\ i \in DOMAIN states' /\ states'[i].ends = states[i].ends
                 /\ home2[states'[i].depth] = c
      BY <1>9, <2>3, <3>4
    <3>5. ASSUME NEW a, Pending(home, c, a) PROVE Pending(home2, c, a)'
      BY <3>3, <3>4, <3>5 DEF Pending
    <3> QED
      BY <3>2, <3>5
  <2>7. \A a \in DOMAIN new :
          new[a].op \in Jumps => new[a].arg \in 1 .. Len(new) + 1 \/ Pending(home2, o, a)'
    BY <1>9, <2>4 DEF JumpsIn
  <2> QED
    BY <1>1, <2>1, <2>5, <2>6, <2>7, JumpsKept
<1> QED
  BY <1>4, <1>6, <1>8, <1>9 DEF CodeInv, Compiling, m

\* The same, when the handlers stay.
LEMMA StepShrinks ==
  ASSUME NEW home, CompilingAt(home), NEW new, Rewrites(new), NEW o, o = cur, cur' = cur,
         phase' = "compile", HeldOK', StatesOK', used \subseteq used',
         Len(open') \in {Len(open), Len(open) - 1}, home[Len(open')] = o,
         \A k \in DOMAIN open' :
           /\ SameShape(k)
           /\ open'[k] = open[k] \/ (home[k] = o /\ HoldsOK(open[k], o)'),
         "jumpFunction" \notin used' =>
           /\ JumpsIn(new, home, o)'
           /\ \A i \in DOMAIN states : home[states[i].depth] # o =>
                /\ i \in DOMAIN states' /\ states'[i].depth = states[i].depth
                /\ states'[i].ends = states[i].ends
  PROVE  CodeInv'
<1>1. /\ CodesOK /\ HandlersStart /\ HandlersOrdered /\ InnerHandlerFirst
      /\ HomesOK(home) /\ home \in [0 .. Len(open) -> DOMAIN codes]
      /\ open \in Seq(OpenStatement) /\ open' \in Seq(OpenStatement)
  BY DEF CompilingAt, CodeInv, HeldOK
<1>2. /\ codes' \in Seq(CodeObject) /\ Grows /\ SameHandlers /\ Writes(new, o)
  BY <1>1, SetCodeGrows DEF Writes, Rewrites
<1>3. HandlersStart' /\ HandlersOrdered' /\ InnerHandlerFirst'
  BY <1>1, <1>2, HandlersKept
<1>4. \A k \in DOMAIN open' : k \in DOMAIN open /\ k \in 0 .. Len(open)
  BY <1>1
<1>5. ASSUME NEW k \in DOMAIN open' PROVE HoldsOK(open[k], home[k])'
  <2>1. /\ k \in DOMAIN open /\ home[k] \in DOMAIN codes
    BY <1>1, <1>4
  <2>2. open[k] \in OpenStatement /\ HoldsOK(open[k], home[k])
    BY <1>1, <2>1 DEF HomesOK
  <2>3. CASE open'[k] = open[k]
    <3>1. PICK s \in OpenStatement, c \in DOMAIN codes : s = open[k] /\ c = home[k]
      BY <2>1, <2>2
    <3>2. HoldsOK(s, c) /\ codes'[c].handlers = codes[c].handlers
      BY <1>2, <2>2, <3>1 DEF SameHandlers
    <3>3. HoldsOK(s, c)'
      BY <1>1, <1>2, <3>2, HoldsKept
    <3> QED
      BY <2>3, <3>1, <3>3
  <2>4. CASE home[k] = o /\ HoldsOK(open[k], o)'
    BY <2>4
  <2> QED
    BY <2>3, <2>4
<1>6. \A k \in DOMAIN open' : home[k] # o => open'[k] = open[k]
  OBVIOUS
<1> QED
  BY <1>2, <1>3, <1>5, <1>6, StepEnds

\* A step that begins a statement with instructions of the current code object.
LEMMA StepPushes ==
  ASSUME NEW home, CompilingAt(home), NEW new, Rewrites(new),
         \A a \in DOMAIN Code : a \in DOMAIN new /\ new[a] = Code[a],
         NEW o, o = cur, cur' = cur,
         phase' = "compile", HeldOK', StatesOK', used \subseteq used',
         Len(open') = Len(open) + 1,
         \A k \in DOMAIN open :
           /\ open'[k].kind = open[k].kind /\ open'[k].start = open[k].start
           /\ open'[k].exit = open[k].exit /\ open'[k].ends = open[k].ends
           /\ open'[k] = open[k] \/ (home[k] = o /\ HoldsOK(open[k], o)'),
         NEW s, s = open'[Len(open) + 1], s.kind # "function", HoldsOK(s, o)',
         s.kind = "catch" => Inside("handlers"),
         s.kind \in Tries => s.start = Offset,
         \A i \in DOMAIN states : i \in DOMAIN states' /\ states'[i] = states[i],
         \A a \in DOMAIN new \ DOMAIN Code : new[a].op \in Jumps => a = s.exit
  PROVE  CodeInv'
<1> DEFINE n == Len(open)
<1>1. /\ CodesOK /\ HandlersStart /\ HandlersOrdered /\ InnerHandlerFirst
      /\ HeldOK /\ StatesOK /\ HomesOK(home)
      /\ home \in [0 .. n -> DOMAIN codes]
      /\ open \in Seq(OpenStatement) /\ open' \in Seq(OpenStatement)
      /\ home[n] = o
  BY DEF CompilingAt, CodeInv, HeldOK, HomesOK
<1>2. /\ codes' \in Seq(CodeObject) /\ DOMAIN codes' = DOMAIN codes /\ Grows /\ SameHandlers
      /\ CodesOK' /\ o \in DOMAIN codes
  BY <1>1, SetCodeGrows DEF CodesOK
<1>11. Writes(new, o)
  BY <1>1, SetCodeGrows DEF Writes, Rewrites
<1>3. HandlersStart' /\ HandlersOrdered' /\ InnerHandlerFirst'
  BY <1>1, <1>2, HandlersKept
<1>4. /\ DOMAIN open = 1 .. n /\ n \in Nat /\ DOMAIN open' = 1 .. n + 1 /\ Len(open') = n + 1
  BY <1>1
<1>5. PICK home2 : home2 = [k \in 0 .. Len(open') |-> IF k <= Len(open) THEN home[k] ELSE o]
  OBVIOUS
<1>6. home2 = [k \in 0 .. n + 1 |-> IF k <= n THEN home[k] ELSE o]
  BY <1>4, <1>5
<1> HIDE DEF n
<1>7. /\ \A k \in 0 .. n : home2[k] = home[k]
      /\ home2[n + 1] = o
      /\ home2 \in [0 .. n + 1 -> DOMAIN codes']
  BY <1>1, <1>2, <1>4, <1>6
<1>8. ASSUME NEW k \in DOMAIN open
      PROVE  /\ HoldsOK(open[k], home[k])'
             /\ open[k].kind \in Tries /\ home[k] = o => open[k].start < Offset
  <2>1. home[k] \in DOMAIN codes
    BY <1>1, <1>4
  <2>2. open[k] \in OpenStatement /\ HoldsOK(open[k], home[k])
    BY <1>1 DEF HomesOK
  <2>3. ASSUME open'[k] = open[k] PROVE HoldsOK(open[k], home[k])'
    <3>1. PICK t \in OpenStatement, c \in DOMAIN codes : t = open[k] /\ c = home[k]
      BY <2>1, <2>2
    <3>2. HoldsOK(t, c) /\ codes'[c].handlers = codes[c].handlers
      BY <1>2, <2>2, <3>1 DEF SameHandlers
    <3>3. HoldsOK(t, c)'
      BY <1>1, <1>2, <3>2, HoldsKept
    <3> QED
      BY <2>3, <3>1, <3>3
  <2>4. HoldsOK(open[k], home[k])'
    BY <2>3
  <2>5. ASSUME open[k].kind \in Tries, home[k] = o PROVE open[k].start < Offset
    <3>1. /\ open[k].start \in DOMAIN Code
          /\ DOMAIN Code = 1 .. Len(Code) /\ Len(Code) \in Nat
      BY <1>1, <1>2, <2>2, <2>5, CodeObjects DEF HoldsOK, Code
    <3>2. PICK l \in Nat : l = Len(Code)
      BY <3>1
    <3>3. open[k].start \in 1 .. l /\ Offset = l + 1
      BY <3>1, <3>2 DEF Offset
    <3> QED
      BY <3>3
  <2> QED
    BY <2>4, <2>5
<1>9. HomesOK(home2)'
  <2>1. \A k \in DOMAIN open :
          /\ open'[k].kind = open[k].kind /\ open'[k].start = open[k].start
          /\ HoldsOK(open[k], home[k])'
    BY <1>8
  <2>2. /\ o = cur' /\ IF s.kind = "function" THEN s.start = cur ELSE cur' = cur
    OBVIOUS
  <2>3. StartsAfter(home, s)
    BY <1>8 DEF StartsAfter
  <2> QED
    BY <1>1, <1>5, <2>1, <2>2, <2>3, HomesPush, ZenonT(60)
<1>10. ASSUME "jumpFunction" \notin used' PROVE JumpsOK(home2)'
  <2>1. JumpsOK(home)
    BY <1>10 DEF CompilingAt
  <2>2. \A k \in DOMAIN open : k \in DOMAIN open' /\ home2[k] = home[k]
    BY <1>4, <1>7
  <2>3. \A i \in DOMAIN states : home2[states[i].depth] = home[states[i].depth]
    BY <1>1, <2>2 DEF StatesOK
  <2>4. ASSUME NEW c, NEW a, Pending(home, c, a) PROVE Pending(home2, c, a)'
    <3>1. CASE \E k \in DOMAIN open : home[k] = c /\ (a = open[k].exit \/ a \in open[k].ends)
      BY <2>2, <3>1 DEF Pending
    <3>2. CASE \E i \in DOMAIN states : home[states[i].depth] = c /\ a \in states[i].ends
      BY <2>3, <3>2 DEF Pending
    <3> QED
      BY <2>4, <3>1, <3>2 DEF Pending
  <2>5. n + 1 \in DOMAIN open' /\ n + 1 \in 0 .. n + 1 /\ 0 .. n \subseteq 0 .. n + 1
    BY <1>4
  <2>6. Live(home2, o)'
    BY <1>4, <1>7, <2>5 DEF Live
  <2>7. ASSUME NEW c, Live(home, c) PROVE Live(home2, c)'
    BY <1>4, <1>7, <2>5, <2>7 DEF Live, n
  <2>8. ASSUME NEW a \in DOMAIN new, new[a].op \in Jumps
        PROVE  new[a].arg \in 1 .. Len(new) + 1 \/ Pending(home2, o, a)'
    <3>1. CASE a \notin DOMAIN Code
      <4>1. a = s.exit /\ s = open'[n + 1]
        BY <2>8, <3>1 DEF n
      <4> QED
        BY <1>7, <2>5, <4>1 DEF Pending
    <3>2. CASE a \in DOMAIN Code
      <4>1. new[a] = Code[a] /\ Code = codes[o].code
        BY <3>2 DEF Code
      <4>2. /\ o \in DOMAIN codes /\ Len(Code) <= Len(new) /\ Len(Code) \in Nat /\ Len(new) \in Nat
            /\ DOMAIN Code = 1 .. Len(Code)
        BY <1>1, <1>2, CodeObjects DEF Rewrites, Code
      <4>3. \/ new[a].arg \in 1 .. Len(Code) \/ new[a].arg = Len(Code) + 1
            \/ Pending(home, o, a)
        BY <2>1, <2>8, <3>2, <4>1, <4>2 DEF JumpsOK
      <4> QED
        BY <2>4, <4>2, <4>3
    <3> QED
      BY <3>1, <3>2
  <2> QED
    BY <1>1, <1>11, <2>1, <2>4, <2>6, <2>7, <2>8, JumpsKept
<1> QED
  BY <1>2, <1>3, <1>4, <1>7, <1>9, <1>10 DEF CodeInv, Compiling

-----------------------------------------------------------------------------
(* The actions. *)

\* The homes of the statements of a program that is compiled.
LEMMA SomeHome ==
  ASSUME CodeInv, phase = "compile"
  PROVE  \E home : CompilingAt(home)
  BY DEF CodeInv, Compiling, CompilingAt

\* The features a program uses are recorded for good.
LEMMA UsedGrows ==
  ASSUME HeldOK, NEW features, Using(features)
  PROVE  used \subseteq used' /\ used' \subseteq Features
  BY DEF HeldOK, Using

\* The address of the next instruction.
LEMMA Offsets ==
  ASSUME CodesOK
  PROVE  /\ Code \in Seq(Instruction) /\ DOMAIN Code = 1 .. Len(Code) /\ Len(Code) \in Nat
         /\ Offset = Len(Code) + 1 /\ Offset \in Nat \ {0}
<1>1. cur \in DOMAIN codes
  BY DEF CodesOK
<1> QED
  BY <1>1, CodeObjects DEF Code, Offset

\* Emit rewrites the current code object, which gets longer.
LEMMA EmitRewrites ==
  ASSUME CodesOK, NEW more \in Seq(Instruction), Emit(more),
         NEW new, new = Code \o more
  PROVE  Rewrites(new) /\ Longer(new, Code, more)
<1>1. Code \in Seq(Instruction) /\ Len(Code) \in Nat /\ Len(more) \in Nat
  BY Offsets
<1>2. new \in Seq(Instruction) /\ Longer(new, Code, more)
  BY <1>1, EmittedCode
<1>3. /\ Len(Code) <= Len(new) /\ \A a \in DOMAIN Code : new[a].op = Code[a].op
  BY <1>1, <1>2 DEF Longer
<1> QED
  BY <1>2, <1>3 DEF Rewrites, Emit

\* The jumps of the code so far.
LEMMA JumpsSoFar ==
  ASSUME NEW home, CompilingAt(home), "jumpFunction" \notin used, NEW o, o = cur,
         NEW a \in DOMAIN Code, Code[a].op \in Jumps
  PROVE  Code[a].arg \in 1 .. Len(Code) + 1 \/ Pending(home, o, a)
<1>1. CodesOK /\ o \in DOMAIN codes /\ JumpsOK(home)
  BY DEF CompilingAt, CodeInv, CodesOK
<1>2. \/ Code[a].arg \in 1 .. Len(Code) \/ Code[a].arg = Len(Code) + 1
      \/ Pending(home, o, a)
  BY <1>1, Offsets DEF JumpsOK, Code
<1> QED
  BY <1>1, <1>2, Offsets

\* A statement without blocks, which is no break.
LEMMA StepPlain ==
  ASSUME NEW home, CompilingAt(home), NEW more \in Seq(Instruction), Emit(more),
         open' = open, states' = states, cur' = cur, phase' = phase,
         used \subseteq used', used' \subseteq Features,
         "jumpFunction" \notin used' =>
           \A b \in DOMAIN more : more[b].op \in Jumps => more[b].arg \in DOMAIN Code
  PROVE  CodeInv'
<1>1. CodesOK /\ HeldOK /\ StatesOK /\ HomesOK(home) /\ phase = "compile"
  BY DEF CompilingAt, CodeInv
<1>2. PICK new : new = Code \o more
  OBVIOUS
<1>3. Rewrites(new) /\ Longer(new, Code, more)
  BY <1>1, <1>2, EmitRewrites
<1>4. PICK o : o = cur
  OBVIOUS
<1>5. HeldOK' /\ StatesOK'
  BY <1>1 DEF HeldOK, StatesOK
<1>6. home[Len(open')] = o
  BY <1>1, <1>4 DEF HomesOK
<1>7. \A k \in DOMAIN open' : SameShape(k) /\ open'[k] = open[k]
  BY DEF SameShape
<1>8. ASSUME "jumpFunction" \notin used' PROVE JumpsIn(new, home, o)'
  <2>1. ASSUME NEW a \in DOMAIN new, new[a].op \in Jumps
        PROVE  new[a].arg \in 1 .. Len(new) + 1 \/ Pending(home, o, a)'
    <3>0. /\ Len(Code) \in Nat /\ Len(more) \in Nat /\ Len(new) = Len(Code) + Len(more)
          /\ DOMAIN Code = 1 .. Len(Code)
      BY <1>1, <1>3, Offsets DEF Longer
    <3>1. CASE a \notin DOMAIN Code
      <4>1. PICK b \in DOMAIN more : a = Len(Code) + b /\ new[a] = more[b]
        BY <1>3, <2>1, <3>1 DEF Longer
      <4>2. new[a].arg \in DOMAIN Code
        BY <1>8, <2>1, <4>1
      <4> QED
        BY <3>0, <4>2
    <3>2. CASE a \in DOMAIN Code
      <4>1. new[a] = Code[a] /\ Code[a].op \in Jumps
        BY <1>3, <2>1, <3>2 DEF Longer
      <4>2. Code[a].arg \in 1 .. Len(Code) + 1 \/ Pending(home, o, a)
        BY <1>4, <1>8, <3>2, <4>1, JumpsSoFar
      <4>3. Pending(home, o, a) => Pending(home, o, a)'
        BY DEF Pending
      <4> QED
        BY <3>0, <4>1, <4>2, <4>3
    <3> QED
      BY <3>1, <3>2
  <2> QED
    BY <2>1 DEF JumpsIn
<1> QED
  BY <1>1, <1>3, <1>4, <1>5, <1>6, <1>7, <1>8, StepShrinks

\* An expression.
LEMMA ExpressionKeeps ==
  ASSUME CodeInv, ExpressionStatement
  PROVE  CodeInv'
<1>1. /\ phase = "compile" /\ phase' = phase /\ Using({})
      /\ Emit(<<I("EVAL"), I("POP")>>)
      /\ cur' = cur /\ states' = states /\ open' = open
  BY DEF ExpressionStatement, BeginPlain, Begin
<1>2. PICK home : CompilingAt(home)
  BY <1>1, SomeHome
<1>3. <<I("EVAL"), I("POP")>> \in Seq(Instruction)
  BY InstructionTypes DEF Ops
<1>4. used \subseteq used' /\ used' \subseteq Features
  BY <1>1, <1>2, UsedGrows DEF CompilingAt
<1>5. \A b \in DOMAIN <<I("EVAL"), I("POP")>> : <<I("EVAL"), I("POP")>>[b].op \notin Jumps
  BY InstructionTypes DEF Ops, Jumps
<1> QED
  BY <1>1, <1>2, <1>3, <1>4, <1>5, StepPlain

\* A raise statement.
LEMMA RaiseKeeps ==
  ASSUME CodeInv, Raise
  PROVE  CodeInv'
<1>1. /\ phase = "compile" /\ phase' = phase /\ Using({})
      /\ Emit(<<I("EVAL"), I("RAISE")>>)
      /\ cur' = cur /\ states' = states /\ open' = open
  BY DEF Raise, BeginPlain, Begin
<1>2. PICK home : CompilingAt(home)
  BY <1>1, SomeHome
<1>3. <<I("EVAL"), I("RAISE")>> \in Seq(Instruction)
  BY InstructionTypes DEF Ops
<1>4. used \subseteq used' /\ used' \subseteq Features
  BY <1>1, <1>2, UsedGrows DEF CompilingAt
<1>5. \A b \in DOMAIN <<I("EVAL"), I("RAISE")>> : <<I("EVAL"), I("RAISE")>>[b].op \notin Jumps
  BY InstructionTypes DEF Ops, Jumps
<1> QED
  BY <1>1, <1>2, <1>3, <1>4, <1>5, StepPlain

\* A return statement.
LEMMA ReturnKeeps ==
  ASSUME CodeInv, Return
  PROVE  CodeInv'
<1>1. /\ phase = "compile" /\ phase' = phase
      /\ Using(JumpUses(Unwound("FUNCTION")) \ {"jumpFunction"})
      /\ Emit(<<I("EVAL"), I("RETURN")>>)
      /\ cur' = cur /\ states' = states /\ open' = open
  BY DEF Return, Begin
<1>2. PICK home : CompilingAt(home)
  BY <1>1, SomeHome
<1>3. <<I("EVAL"), I("RETURN")>> \in Seq(Instruction)
  BY InstructionTypes DEF Ops
<1>4. used \subseteq used' /\ used' \subseteq Features
  BY <1>1, <1>2, UsedGrows DEF CompilingAt
<1>5. \A b \in DOMAIN <<I("EVAL"), I("RETURN")>> : <<I("EVAL"), I("RETURN")>>[b].op \notin Jumps
  BY InstructionTypes DEF Ops, Jumps
<1> QED
  BY <1>1, <1>2, <1>3, <1>4, <1>5, StepPlain

\* unwindStateStack finds the last state of a type.
LEMMA UnwoundIsLast ==
  ASSUME HeldOK, NEW type, StateAt(type) # {}
  PROVE  /\ Unwound(type) \in DOMAIN states /\ states[Unwound(type)].type = type
         /\ \A j \in DOMAIN states : states[j].type = type => j <= Unwound(type)
<1>1. /\ StateAt(type) \in SUBSET Nat /\ Len(states) \in Nat
      /\ \A j \in StateAt(type) : j <= Len(states)
  BY HeldTypes DEF StateAt
<1>2. \E i \in StateAt(type) : \A j \in StateAt(type) : j <= i
  BY <1>1, Greatest
<1>3. Unwound(type) \in StateAt(type) /\ \A j \in StateAt(type) : j <= Unwound(type)
  BY <1>2 DEF Unwound
<1> QED
  BY <1>3 DEF StateAt

\* No function is declared inside the loop that a jump finds, unless it crosses
\* one: the jump is in the code object that the loop is in.
LEMMA LoopAtHome ==
  ASSUME NEW home, CompilingAt(home), StateAt("LOOP") # {}, NEW i, i = Unwound("LOOP"),
         ~Crosses(i)
  PROVE  home[states[i].depth] = cur
<1>1. HeldOK /\ StatesOK /\ HomesOK(home)
  BY DEF CompilingAt
<1>2. i \in DOMAIN states /\ states[i].type = "LOOP"
  BY <1>1, UnwoundIsLast
<1>3. states[i].depth \in 1 .. Len(open) /\ Len(open) \in Nat
  BY <1>1, <1>2, HeldTypes DEF StatesOK
<1>4. ASSUME NEW m \in states[i].depth + 1 .. Len(open), open[m].kind = "function" PROVE FALSE
  <2>1. m \in DOMAIN open /\ states[i].depth < m
    BY <1>1, <1>3, HeldTypes
  <2>2. PICK j \in DOMAIN states : states[j].depth = m
    BY <1>1, <1>4, <2>1 DEF StatesOK
  <2>3. states[j].type = "FUNCTION"
    <3>1. states[j] \in StackState
      BY <1>1, HeldTypes
    <3>2. states[j].type = "LOOP" => open[m].kind \in Loops
      BY <1>1, <2>2 DEF StatesOK
    <3> QED
      BY <1>4, <3>1, <3>2 DEF StackState, Loops
  <2>4. i < j
    <3>1. /\ i \in Nat /\ j \in Nat
      BY <1>1, <1>2, HeldTypes
    <3>2. j < i => states[j].depth < states[i].depth
      BY <1>1, <1>2 DEF StatesOK
    <3> QED
      BY <1>3, <2>1, <2>2, <3>1, <3>2
  <2> QED
    <3>1. j \in i + 1 .. Len(states)
      BY <1>1, <1>2, <2>4, HeldTypes
    <3> QED
      BY <2>3, <3>1 DEF Crosses
<1>5. home[states[i].depth] = home[Len(open)]
  BY <1>1, <1>3, <1>4 DEF HomesOK
<1> QED
  BY <1>1, <1>5 DEF HomesOK

\* A continue: the loop has begun, in the same code object unless the jump
\* crosses a function.
LEMMA ContinueKeeps ==
  ASSUME CodeInv, Continue
  PROVE  CodeInv'
<1>1. PICK i : i = Unwound("LOOP")
  OBVIOUS
<1>2. /\ phase = "compile" /\ phase' = phase /\ StateAt("LOOP") # {}
      /\ Using(JumpUses(i)) /\ Emit(<<Ia("JMP", states[i].start)>>)
      /\ cur' = cur /\ states' = states /\ open' = open
  BY <1>1 DEF Continue, Begin
<1>3. PICK home : CompilingAt(home)
  BY <1>2, SomeHome
<1>4. HeldOK /\ StatesOK /\ HomesOK(home)
  BY <1>3 DEF CompilingAt
<1>5. i \in DOMAIN states /\ states[i].type = "LOOP"
  BY <1>1, <1>2, <1>4, UnwoundIsLast
<1>6. states[i].start \in Nat
  BY <1>4, <1>5, HeldTypes DEF StackState
<1> DEFINE jump == Ia("JMP", states[i].start)
<1>7. jump \in Instruction /\ jump.arg = states[i].start /\ <<jump>> \in Seq(Instruction)
  BY <1>6, InstructionTypes DEF Ops
<1>8. used \subseteq used' /\ used' \subseteq Features
  BY <1>2, <1>4, UsedGrows
<1>9. ASSUME "jumpFunction" \notin used' PROVE states[i].start \in DOMAIN Code
  <2>1. ~Crosses(i)
    BY <1>2, <1>9 DEF Using, JumpUses
  <2>2. home[states[i].depth] = cur
    BY <1>1, <1>2, <1>3, <2>1, LoopAtHome
  <2>3. /\ states[i].depth \in DOMAIN open /\ open[states[i].depth].kind \in Loops
        /\ states[i].start = open[states[i].depth].start
    BY <1>4, <1>5 DEF StatesOK
  <2>4. HoldsOK(open[states[i].depth], cur)
    BY <1>4, <2>2, <2>3 DEF HomesOK
  <2> QED
    BY <2>3, <2>4 DEF HoldsOK, Code
<1> HIDE DEF jump
<1>10. Emit(<<jump>>)
  BY <1>2 DEF jump
<1>11. "jumpFunction" \notin used' =>
         \A b \in DOMAIN <<jump>> : <<jump>>[b].op \in Jumps => <<jump>>[b].arg \in DOMAIN Code
  BY <1>7, <1>9
<1> QED
  BY <1>2, <1>3, <1>7, <1>8, <1>10, <1>11, StepPlain

\* A break: the loop will patch it, unless the jump crosses a function.
LEMMA BreakKeeps ==
  ASSUME CodeInv, Break
  PROVE  CodeInv'
<1>1. PICK i : i = Unwound("LOOP")
  OBVIOUS
<1>2. PICK features : features = JumpUses(i) \cup
                 IF open[states[i].depth].kind = "foreach" THEN {"breakForEach"} ELSE {}
  OBVIOUS
<1> DEFINE ends == states[i].ends \cup {Offset}
<1>3. /\ phase = "compile" /\ phase' = "compile" /\ StateAt("LOOP") # {}
      /\ Using(features) /\ Emit(<<I("JMP")>>)
      /\ cur' = cur /\ open' = open
      /\ states' = [states EXCEPT ![i].ends = ends]
  BY <1>1, <1>2 DEF Break, Begin
<1>4. PICK home : CompilingAt(home)
  BY <1>3, SomeHome
<1>5. CodesOK /\ HeldOK /\ StatesOK /\ HomesOK(home)
  BY <1>4 DEF CompilingAt, CodeInv
<1>6. i \in DOMAIN states /\ states[i].type = "LOOP"
  BY <1>1, <1>3, <1>5, UnwoundIsLast
<1>7. ends \in SUBSET Nat
  BY <1>5, <1>6, HeldTypes, Offsets DEF StackState
<1>8. <<I("JMP")>> \in Seq(Instruction) /\ I("JMP").arg = 0
  BY InstructionTypes DEF Ops
<1>9. used \subseteq used' /\ used' \subseteq Features
  BY <1>3, <1>5, UsedGrows
<1> HIDE DEF ends
<1>10. /\ StatesOK' /\ states' \in Seq(StackState) /\ DOMAIN states' = DOMAIN states
       /\ \A j \in DOMAIN states : states'[j].depth = states[j].depth
       /\ \A j \in DOMAIN states : states'[j].ends = IF j = i THEN ends ELSE states[j].ends
  BY <1>3, <1>5, <1>6, <1>7, StatesBreak
<1>11. HeldOK'
  BY <1>3, <1>5, <1>9, <1>10 DEF HeldOK
<1>12. PICK new, o : new = Code \o <<I("JMP")>> /\ o = cur
  OBVIOUS
<1>13. Rewrites(new) /\ Longer(new, Code, <<I("JMP")>>)
  BY <1>3, <1>5, <1>8, <1>12, EmitRewrites
<1>14. home[Len(open')] = o
  BY <1>3, <1>5, <1>12 DEF HomesOK
<1>15. \A k \in DOMAIN open' : SameShape(k) /\ open'[k] = open[k]
  BY <1>3 DEF SameShape
<1>16. ASSUME "jumpFunction" \notin used'
       PROVE  /\ JumpsIn(new, home, o)'
              /\ \A j \in DOMAIN states : home[states[j].depth] # o =>
                   /\ j \in DOMAIN states' /\ states'[j].depth = states[j].depth
                   /\ states'[j].ends = states[j].ends
  <2>1. home[states[i].depth] = o
    <3>1. ~Crosses(i)
      BY <1>2, <1>3, <1>16 DEF Using, JumpUses
    <3> QED
      BY <1>1, <1>3, <1>4, <1>12, <3>1, LoopAtHome
  <2>2. ASSUME NEW a \in DOMAIN new, new[a].op \in Jumps
        PROVE  new[a].arg \in 1 .. Len(new) + 1 \/ Pending(home, o, a)'
    <3>1. /\ Len(Code) \in Nat /\ Len(new) = Len(Code) + 1 /\ DOMAIN Code = 1 .. Len(Code)
          /\ Offset = Len(Code) + 1
      BY <1>5, <1>13, Offsets DEF Longer
    <3>2. CASE a \notin DOMAIN Code
      <4>1. a = Offset
        BY <1>13, <3>1, <3>2 DEF Longer
      <4>2. a \in states'[i].ends /\ home[states'[i].depth] = o /\ i \in DOMAIN states'
        BY <1>6, <1>10, <2>1, <4>1 DEF ends
      <4> QED
        BY <4>2 DEF Pending
    <3>3. CASE a \in DOMAIN Code
      <4>1. new[a] = Code[a] /\ Code[a].op \in Jumps
        BY <1>13, <2>2, <3>3 DEF Longer
      <4>2. Code[a].arg \in 1 .. Len(Code) + 1 \/ Pending(home, o, a)
        BY <1>4, <1>9, <1>12, <1>16, <3>3, <4>1, JumpsSoFar
      <4>3. ASSUME NEW j \in DOMAIN states, a \in states[j].ends PROVE a \in states'[j].ends
        BY <1>10, <4>3 DEF ends
      <4>4. Pending(home, o, a) => Pending(home, o, a)'
        BY <1>3, <1>10, <4>3 DEF Pending
      <4> QED
        BY <3>1, <4>1, <4>2, <4>4
    <3> QED
      BY <3>2, <3>3
  <2> QED
    BY <1>10, <2>1, <2>2 DEF JumpsIn
<1> QED
  BY <1>3, <1>4, <1>9, <1>10, <1>11, <1>12, <1>13, <1>14, <1>15, <1>16, StepShrinks

-----------------------------------------------------------------------------
(* The ends of statements. *)

\* Patched operands: the current code object keeps its length and operations.
LEMMA PatchRewrites ==
  ASSUME CodesOK, NEW at, NEW target \in Nat, NEW new, new = Patched(Code, at, target),
         SetCode(new)
  PROVE  Rewrites(new) /\ PatchedTo(new, Code, at, target) /\ Len(new) = Len(Code)
<1>1. Code \in Seq(Instruction) /\ Len(Code) \in Nat
  BY Offsets
<1>2. new \in Seq(Instruction) /\ Len(new) = Len(Code) /\ PatchedTo(new, Code, at, target)
  BY <1>1, PatchedCode
<1> QED
  BY <1>1, <1>2 DEF Rewrites, PatchedTo

\* The same, with one more instruction, whose operand may be patched as well.
LEMMA AppendPatchRewrites ==
  ASSUME CodesOK, NEW i \in Instruction, NEW at, NEW target \in Nat,
         NEW new, new = Patched(Append(Code, i), at, target), SetCode(new)
  PROVE  /\ Rewrites(new) /\ PatchedTo(new, Code, at, target) /\ Len(new) = Len(Code) + 1
         /\ new[Len(Code) + 1].arg = IF Len(Code) + 1 \in at THEN target ELSE i.arg
<1>1. Code \in Seq(Instruction) /\ Len(Code) \in Nat /\ DOMAIN Code = 1 .. Len(Code)
  BY Offsets
<1>2. PICK code : code = Append(Code, i)
  OBVIOUS
<1>3. /\ code \in Seq(Instruction) /\ Len(code) = Len(Code) + 1
      /\ DOMAIN code = 1 .. Len(Code) + 1 /\ code[Len(Code) + 1] = i
      /\ \A a \in DOMAIN Code : a \in DOMAIN code /\ code[a] = Code[a]
  BY <1>1, <1>2
<1>4. new \in Seq(Instruction) /\ Len(new) = Len(code) /\ PatchedTo(new, code, at, target)
  <2>1. new = Patched(code, at, target) /\ code \in Seq(Instruction)
    BY <1>2, <1>3
  <2> QED
    BY <2>1, PatchedCode
<1>5. Len(Code) + 1 \in DOMAIN code /\ Len(Code) <= Len(new)
  BY <1>1, <1>3, <1>4
<1>6. PatchedTo(new, Code, at, target)
  BY <1>3, <1>4 DEF PatchedTo
<1>7. Rewrites(new)
  BY <1>4, <1>5, <1>6 DEF Rewrites, PatchedTo
<1>8. new[Len(Code) + 1].arg = IF Len(Code) + 1 \in at THEN target ELSE i.arg
  BY <1>3, <1>4, <1>5 DEF PatchedTo
<1> QED
  BY <1>3, <1>4, <1>6, <1>7, <1>8

\* All that was to be patched has been, or still is.
LEMMA JumpsPatched ==
  ASSUME NEW home, CompilingAt(home), "jumpFunction" \notin used, NEW o, o = cur,
         NEW new \in Seq(Instruction), Len(Code) <= Len(new), NEW at, NEW target \in 1 .. Len(new) + 1,
         PatchedTo(new, Code, at, target),
         \A a : Pending(home, o, a) => a \in at \/ Pending(home, o, a)',
         \A a \in DOMAIN new \ DOMAIN Code : new[a].op \in Jumps =>
           new[a].arg \in 1 .. Len(new) + 1 \/ Pending(home, o, a)'
  PROVE  JumpsIn(new, home, o)'
<1>1. /\ Len(Code) \in Nat /\ Len(new) \in Nat /\ Len(Code) <= Len(new)
  BY Offsets DEF CompilingAt, CodeInv
<1>2. ASSUME NEW a \in DOMAIN Code, new[a].op \in Jumps
      PROVE  new[a].arg \in 1 .. Len(new) + 1 \/ Pending(home, o, a)'
  <2>1. Code[a].op \in Jumps /\ new[a].arg = IF a \in at THEN target ELSE Code[a].arg
    BY <1>2 DEF PatchedTo
  <2>2. Code[a].arg \in 1 .. Len(Code) + 1 \/ Pending(home, o, a)
    BY <2>1, JumpsSoFar
  <2>3. CASE a \in at
    BY <2>1, <2>3
  <2>4. CASE a \notin at
    <3>1. CASE Pending(home, o, a)
      BY <2>4, <3>1
    <3>2. CASE Code[a].arg \in 1 .. Len(Code) + 1
      BY <1>1, <2>1, <2>4, <3>2
    <3> QED
      BY <2>2, <3>1, <3>2
  <2> QED
    BY <2>3, <2>4
<1> QED
  BY <1>2 DEF JumpsIn

\* The instructions of the innermost statement, unless it is a function, are in
\* the code object of what is around it.
LEMMA HomeBelow ==
  ASSUME NEW home, CompilingAt(home), open # <<>>, Enclosing.kind # "function"
  PROVE  /\ home[Len(open) - 1] = cur /\ home[Len(open)] = cur
         /\ HoldsOK(Enclosing, cur) /\ Enclosing \in OpenStatement
         /\ Len(open) \in DOMAIN open /\ Len(open) \in Nat \ {0} /\ open[Len(open)] = Enclosing
<1>1. HeldOK /\ HomesOK(home)
  BY DEF CompilingAt
<1>2. Len(open) \in DOMAIN open /\ Len(open) \in Nat \ {0} /\ Enclosing \in OpenStatement
  BY <1>1, HeldTypes, EmptySeq DEF HeldOK, Enclosing
<1>3. home[Len(open)] = cur
  BY <1>1 DEF HomesOK
<1>4. /\ Len(open) - 1 \in 0 .. Len(open) /\ Len(open) \in 0 .. Len(open)
      /\ \A m \in Len(open) - 1 + 1 .. Len(open) : m = Len(open)
  BY <1>2
<1>5. home[Len(open) - 1] = home[Len(open)]
  BY <1>1, <1>2, <1>4 DEF HomesOK, Enclosing
<1>6. HoldsOK(open[Len(open)], home[Len(open)])
  BY <1>1, <1>2 DEF HomesOK
<1> QED
  BY <1>2, <1>3, <1>5, <1>6 DEF Enclosing

\* A statement ends: those around it stay.
LEMMA PopOpens ==
  ASSUME HeldOK, open # <<>>, PopOpen
  PROVE  /\ open' \in Seq(OpenStatement) /\ Len(open') = Len(open) - 1
         /\ \A k \in DOMAIN open' : k \in DOMAIN open /\ open'[k] = open[k] /\ SameShape(k)
         /\ \A k \in DOMAIN open \ {Len(open)} : k \in DOMAIN open'
<1>1. open \in Seq(OpenStatement) /\ open' = Front(open)
  BY DEF HeldOK, PopOpen
<1>2. /\ open' \in Seq(OpenStatement) /\ Len(open) \in Nat \ {0} /\ Len(open') = Len(open) - 1
      /\ \A k \in 1 .. Len(open) - 1 : open'[k] = open[k]
  BY <1>1, Fronts
<1>3. /\ DOMAIN open = 1 .. Len(open) /\ DOMAIN open' = 1 .. Len(open) - 1
  BY <1>1, <1>2
<1>4. \A k \in DOMAIN open' : k \in DOMAIN open /\ open'[k] = open[k]
  BY <1>2, <1>3
<1>5. \A k \in DOMAIN open \ {Len(open)} : k \in DOMAIN open'
  BY <1>2, <1>3
<1> QED
  BY <1>2, <1>4, <1>5 DEF SameShape

\* The same for stateStack, when the statement is neither a loop nor a function.
LEMMA PopStates ==
  ASSUME HeldOK, StatesOK, open # <<>>, PopOpen, states' = states,
         Enclosing.kind \notin Loops \cup {"function"}
  PROVE  StatesOK'
<1>1. /\ \A k \in DOMAIN open' : k \in DOMAIN open /\ open'[k] = open[k]
      /\ \A k \in DOMAIN open \ {Len(open)} : k \in DOMAIN open'
  BY PopOpens
<1>2. \A k \in DOMAIN open : Marked(k) =>
        k \in DOMAIN open' /\ open'[k].kind = open[k].kind /\ open'[k].start = open[k].start
  BY <1>1 DEF Marked, Enclosing
<1>3. \A k \in DOMAIN open' : Marked(k)' => Marked(k)
  BY <1>1 DEF Marked
<1> QED
  BY <1>2, <1>3, StatesKept

\* A statement becomes another one.
LEMMA ReplaceOpens ==
  ASSUME HeldOK, open # <<>>, NEW s \in OpenStatement, Replace(s)
  PROVE  /\ open' \in Seq(OpenStatement) /\ Len(open') = Len(open) /\ DOMAIN open' = DOMAIN open
         /\ Len(open) \in DOMAIN open /\ open'[Len(open)] = s
         /\ \A k \in DOMAIN open \ {Len(open)} : open'[k] = open[k] /\ SameShape(k)
<1>1. /\ open \in Seq(OpenStatement) /\ open' = [open EXCEPT ![Len(open)] = s]
      /\ Len(open) \in DOMAIN open /\ DOMAIN open = 1 .. Len(open)
  BY HeldTypes, EmptySeq DEF HeldOK, Replace
<1>2. /\ open' \in Seq(OpenStatement) /\ Len(open') = Len(open) /\ DOMAIN open' = DOMAIN open
      /\ open'[Len(open)] = s
      /\ \A k \in DOMAIN open \ {Len(open)} : open'[k] = open[k]
  BY <1>1
<1> QED
  BY <1>1, <1>2 DEF SameShape

\* stateStack, when neither the statement nor what it becomes is on it.
LEMMA ReplaceStates ==
  ASSUME HeldOK, StatesOK, open # <<>>, NEW s \in OpenStatement, Replace(s), states' = states,
         Enclosing.kind \notin Loops \cup {"function"}, s.kind \notin Loops \cup {"function"}
  PROVE  StatesOK'
<1>1. /\ DOMAIN open' = DOMAIN open /\ open'[Len(open)] = s
      /\ \A k \in DOMAIN open \ {Len(open)} : open'[k] = open[k]
  BY ReplaceOpens
<1>2. \A k \in DOMAIN open : Marked(k) =>
        k \in DOMAIN open' /\ open'[k].kind = open[k].kind /\ open'[k].start = open[k].start
  BY <1>1 DEF Marked, Enclosing
<1>3. \A k \in DOMAIN open' : Marked(k)' => Marked(k)
  BY <1>1 DEF Marked
<1> QED
  BY <1>2, <1>3, StatesKept

\* An if statement ends, or its else: the jump over the block is patched.
LEMMA EndIfKeeps ==
  ASSUME CodeInv, EndIf
  PROVE  CodeInv'
<1>1. PICK new, o : new = Patched(Code, {Enclosing.exit}, Offset) /\ o = cur
  OBVIOUS
<1>2. /\ phase = "compile" /\ phase' = "compile" /\ used' = used
      /\ open # <<>> /\ Enclosing.kind \in {"if", "else"}
      /\ SetCode(new) /\ PopOpen /\ cur' = cur /\ states' = states
  BY <1>1 DEF EndIf, End, Inside
<1>3. PICK home : CompilingAt(home)
  BY <1>2, SomeHome
<1>4. CodesOK /\ HeldOK /\ StatesOK
  BY <1>3 DEF CompilingAt, CodeInv
<1>5. Offset \in Nat /\ Offset = Len(Code) + 1
  BY <1>4, Offsets
<1>6. /\ Rewrites(new) /\ PatchedTo(new, Code, {Enclosing.exit}, Offset) /\ Len(new) = Len(Code)
      /\ DOMAIN new = DOMAIN Code
  <2>1. Rewrites(new) /\ PatchedTo(new, Code, {Enclosing.exit}, Offset) /\ Len(new) = Len(Code)
    BY <1>1, <1>2, <1>4, <1>5, PatchRewrites
  <2> QED
    BY <1>4, <2>1, Offsets DEF Rewrites
<1>7. /\ home[Len(open) - 1] = o /\ HoldsOK(Enclosing, o)
      /\ Len(open) \in Nat \ {0} /\ open[Len(open)] = Enclosing
  BY <1>1, <1>2, <1>3, HomeBelow
<1>8. /\ open' \in Seq(OpenStatement) /\ Len(open') = Len(open) - 1
      /\ \A k \in DOMAIN open' : k \in DOMAIN open /\ open'[k] = open[k] /\ SameShape(k)
      /\ \A k \in DOMAIN open \ {Len(open)} : k \in DOMAIN open'
  BY <1>2, <1>4, PopOpens
<1>9. StatesOK' /\ HeldOK'
  <2>1. StatesOK'
    BY <1>2, <1>4, PopStates DEF Loops
  <2> QED
    BY <1>2, <1>4, <1>8, <2>1 DEF HeldOK
<1>10. ASSUME "jumpFunction" \notin used PROVE JumpsIn(new, home, o)'
  <2>1. ASSUME NEW a, Pending(home, o, a) PROVE a \in {Enclosing.exit} \/ Pending(home, o, a)'
    <3>1. CASE \E k \in DOMAIN open : home[k] = o /\ (a = open[k].exit \/ a \in open[k].ends)
      <4>1. PICK k \in DOMAIN open : home[k] = o /\ (a = open[k].exit \/ a \in open[k].ends)
        BY <3>1
      <4>2. CASE k = Len(open)
        <5>1. Enclosing.ends = {}
          BY <1>2, <1>7 DEF HoldsOK
        <5> QED
          BY <1>7, <4>1, <4>2, <5>1
      <4>3. CASE k # Len(open)
        BY <1>8, <4>1, <4>3 DEF Pending
      <4> QED
        BY <4>2, <4>3
    <3>2. CASE \E i \in DOMAIN states : home[states[i].depth] = o /\ a \in states[i].ends
      BY <1>2, <3>2 DEF Pending
    <3> QED
      BY <2>1, <3>1, <3>2 DEF Pending
  <2>2. Offset \in 1 .. Len(new) + 1
    BY <1>4, <1>5, <1>6, Offsets
  <2>3. \A a \in DOMAIN new \ DOMAIN Code : new[a].op \in Jumps =>
          new[a].arg \in 1 .. Len(new) + 1 \/ Pending(home, o, a)'
    BY <1>6
  <2> QED
    BY <1>1, <1>3, <1>6, <1>10, <2>1, <2>2, <2>3, JumpsPatched DEF Rewrites
<1>11. Len(open') \in {Len(open), Len(open) - 1} /\ home[Len(open')] = o
  BY <1>7, <1>8
<1> QED
  BY <1>1, <1>2, <1>3, <1>6, <1>8, <1>9, <1>10, <1>11, StepShrinks

\* A loop ends: its exit and the breaks are patched to what follows the jump back.
LEMMA EndLoopKeeps ==
  ASSUME CodeInv, EndLoop
  PROVE  CodeInv'
<1> DEFINE jump == Ia("JMP", Enclosing.start)
<1>1. PICK at, target, new, o :
        /\ at = LoopPatches /\ target = LoopExit(Append(Code, jump))
        /\ new = Patched(Append(Code, jump), at, target) /\ o = cur
  OBVIOUS
<1>2. /\ phase = "compile" /\ phase' = "compile" /\ used' = used
      /\ open # <<>> /\ Enclosing.kind \in Loops
      /\ SetCode(new) /\ PopOpen /\ cur' = cur /\ states' = Front(states)
  BY <1>1 DEF EndLoop, End, Inside, Loops
<1>3. PICK home : CompilingAt(home)
  BY <1>2, SomeHome
<1>4. CodesOK /\ HeldOK /\ StatesOK
  BY <1>3 DEF CompilingAt, CodeInv
<1>5. /\ home[Len(open) - 1] = o /\ home[Len(open)] = o /\ HoldsOK(Enclosing, o)
      /\ Enclosing \in OpenStatement
      /\ Len(open) \in Nat \ {0} /\ open[Len(open)] = Enclosing
  BY <1>1, <1>2, <1>3, HomeBelow DEF Loops
<1>6. Enclosing.start \in DOMAIN Code /\ Enclosing.ends = {} /\ Enclosing.start \in Nat
  BY <1>1, <1>2, <1>5 DEF HoldsOK, Code, OpenStatement, Loops
<1>7. jump \in Instruction /\ jump.arg = Enclosing.start
  BY <1>6, InstructionTypes DEF Ops
<1> HIDE DEF jump
<1>8. /\ Len(Code) \in Nat /\ DOMAIN Code = 1 .. Len(Code) /\ Code \in Seq(Instruction)
      /\ target = Len(Code) + 1 + 1
  BY <1>1, <1>4, <1>7, Offsets DEF LoopExit
<1>9. /\ Rewrites(new) /\ PatchedTo(new, Code, at, target) /\ Len(new) = Len(Code) + 1
      /\ new[Len(Code) + 1].arg = IF Len(Code) + 1 \in at THEN target ELSE jump.arg
  BY <1>1, <1>2, <1>4, <1>7, <1>8, AppendPatchRewrites
<1>10. /\ open' \in Seq(OpenStatement) /\ Len(open') = Len(open) - 1
       /\ \A k \in DOMAIN open' : k \in DOMAIN open /\ open'[k] = open[k] /\ SameShape(k)
       /\ \A k \in DOMAIN open \ {Len(open)} : k \in DOMAIN open'
  BY <1>2, <1>4, PopOpens
<1>11. StatesOK' /\ states' \in Seq(StackState)
  BY <1>2, <1>4, StatesPop
<1>12. HeldOK'
  BY <1>2, <1>4, <1>10, <1>11 DEF HeldOK
<1>13. /\ states # <<>> /\ Last(states) = states[Len(states)]
       /\ states[Len(states)].depth = Len(open)
       /\ \A i \in DOMAIN states \ {Len(states)} : i \in DOMAIN states' /\ states'[i] = states[i]
  <2>1. states # <<>> /\ states[Len(states)].depth = Len(open)
    BY <1>2, <1>4, LastState
  <2>2. /\ states \in Seq(StackState) /\ DOMAIN states = 1 .. Len(states)
        /\ Len(states') = Len(states) - 1 /\ DOMAIN states' = 1 .. Len(states')
        /\ Len(states) \in Nat /\ Last(states) = states[Len(states)]
        /\ \A i \in 1 .. Len(states) - 1 : states'[i] = states[i]
    BY <1>2, <1>4, <1>11, <2>1, Fronts DEF HeldOK
  <2> QED
    BY <2>1, <2>2
<1>14. \A i \in DOMAIN states : home[states[i].depth] # o =>
         /\ i \in DOMAIN states' /\ states'[i].depth = states[i].depth
         /\ states'[i].ends = states[i].ends
  BY <1>5, <1>13
<1>15. ASSUME "jumpFunction" \notin used PROVE JumpsIn(new, home, o)'
  <2>1. ASSUME NEW a, Pending(home, o, a) PROVE a \in at \/ Pending(home, o, a)'
    <3>1. CASE \E k \in DOMAIN open : home[k] = o /\ (a = open[k].exit \/ a \in open[k].ends)
      <4>1. PICK k \in DOMAIN open : home[k] = o /\ (a = open[k].exit \/ a \in open[k].ends)
        BY <3>1
      <4>2. CASE k = Len(open)
        BY <1>1, <1>5, <1>6, <4>1, <4>2 DEF LoopPatches
      <4>3. CASE k # Len(open)
        BY <1>10, <4>1, <4>3 DEF Pending
      <4> QED
        BY <4>2, <4>3
    <3>2. CASE \E i \in DOMAIN states : home[states[i].depth] = o /\ a \in states[i].ends
      <4>1. PICK i \in DOMAIN states : home[states[i].depth] = o /\ a \in states[i].ends
        BY <3>2
      <4>2. CASE i = Len(states)
        BY <1>1, <1>13, <4>1, <4>2 DEF LoopPatches
      <4>3. CASE i # Len(states)
        BY <1>13, <4>1, <4>3 DEF Pending
      <4> QED
        BY <4>2, <4>3
    <3> QED
      BY <2>1, <3>1, <3>2 DEF Pending
  <2>2. target \in 1 .. Len(new) + 1
    BY <1>8, <1>9
  <2>3. ASSUME NEW a \in DOMAIN new \ DOMAIN Code PROVE new[a].arg \in 1 .. Len(new) + 1
    <3>1. a = Len(Code) + 1
      BY <1>8, <1>9 DEF Rewrites
    <3>2. new[a].arg = IF a \in at THEN target ELSE Enclosing.start
      BY <1>7, <1>9, <3>1
    <3>3. Enclosing.start \in 1 .. Len(new) + 1
      BY <1>6, <1>8, <1>9
    <3> QED
      BY <2>2, <3>2, <3>3
  <2> QED
    BY <1>1, <1>3, <1>9, <1>15, <2>1, <2>2, <2>3, JumpsPatched DEF Rewrites
<1>16. Len(open') \in {Len(open), Len(open) - 1} /\ home[Len(open')] = o
  BY <1>5, <1>10
<1> QED
  BY <1>1, <1>2, <1>3, <1>9, <1>10, <1>11, <1>12, <1>14, <1>15, <1>16, StepShrinks

\* Statement makes an open statement.
LEMMA StatementType ==
  ASSUME NEW kind \in StatementKinds, NEW start \in Nat, NEW exit \in Nat,
         NEW s, s = Statement(kind, start, exit)
  PROVE  /\ s \in OpenStatement
         /\ s.kind = kind /\ s.start = start /\ s.exit = exit /\ s.ends = {}
         /\ s.first = NoAddress /\ s.finally = NoAddress /\ s.catches = <<>>
  BY DEF Statement, OpenStatement, NoAddress, NoName

\* An else: the condition jumps to its block, the first block over it.
LEMMA ElseKeeps ==
  ASSUME CodeInv, Else
  PROVE  CodeInv'
<1>1. PICK target, new, o, s :
        /\ target = Len(Append(Code, I("JMP"))) + 1
        /\ new = Patched(Append(Code, I("JMP")), {Enclosing.exit}, target)
        /\ o = cur /\ s = Statement("else", NoAddress, Offset)
  OBVIOUS
<1>2. /\ phase = "compile" /\ phase' = "compile" /\ used' = used
      /\ open # <<>> /\ Enclosing.kind = "if"
      /\ SetCode(new) /\ Replace(s) /\ cur' = cur /\ states' = states
  BY <1>1 DEF Else, End, Inside
<1>3. PICK home : CompilingAt(home)
  BY <1>2, SomeHome
<1>4. CodesOK /\ HeldOK /\ StatesOK
  BY <1>3 DEF CompilingAt, CodeInv
<1>5. /\ home[Len(open)] = o /\ HoldsOK(Enclosing, o) /\ open[Len(open)] = Enclosing
      /\ Enclosing.ends = {}
  BY <1>1, <1>2, <1>3, HomeBelow DEF HoldsOK
<1>6. I("JMP") \in Instruction
  BY InstructionTypes DEF Ops
<1>7. /\ Len(Code) \in Nat /\ DOMAIN Code = 1 .. Len(Code) /\ Code \in Seq(Instruction)
      /\ Offset = Len(Code) + 1
  BY <1>4, Offsets
<1>8. target = Len(Code) + 1 + 1 /\ target \in Nat /\ Offset \in Nat
  BY <1>1, <1>6, <1>7
<1>9. Rewrites(new) /\ PatchedTo(new, Code, {Enclosing.exit}, target) /\ Len(new) = Len(Code) + 1
  BY <1>1, <1>2, <1>4, <1>6, <1>8, AppendPatchRewrites
<1>10. /\ s \in OpenStatement /\ s.kind = "else" /\ s.exit = Offset /\ s.ends = {}
       /\ s.finally = NoAddress
  <2>1. "else" \in StatementKinds /\ NoAddress \in Nat
    BY DEF StatementKinds, NoAddress
  <2> QED
    BY <1>1, <1>8, <2>1, StatementType
<1>11. /\ open' \in Seq(OpenStatement) /\ Len(open') = Len(open) /\ DOMAIN open' = DOMAIN open
       /\ Len(open) \in DOMAIN open /\ open'[Len(open)] = s
       /\ \A k \in DOMAIN open \ {Len(open)} : open'[k] = open[k] /\ SameShape(k)
  BY <1>2, <1>4, <1>10, ReplaceOpens
<1>12. StatesOK' /\ HeldOK'
  <2>1. StatesOK'
    BY <1>2, <1>4, <1>10, ReplaceStates DEF Loops
  <2> QED
    BY <1>2, <1>4, <1>11, <2>1 DEF HeldOK
<1>13. HoldsOK(open[Len(open)], o)'
  BY <1>10, <1>11 DEF HoldsOK, Loops, Tries
<1>14. ASSUME NEW k \in DOMAIN open'
       PROVE  /\ SameShape(k)
              /\ open'[k] = open[k] \/ (home[k] = o /\ HoldsOK(open[k], o)')
  <2>1. CASE k = Len(open)
    <3>1. SameShape(k)
      BY <1>2, <1>5, <1>10, <1>11, <2>1 DEF SameShape, Tries
    <3>2. HoldsOK(open[k], o)'
      BY <1>11, <1>13, <2>1
    <3> QED
      BY <1>5, <2>1, <3>1, <3>2
  <2>2. CASE k # Len(open)
    BY <1>11, <2>2
  <2> QED
    BY <2>1, <2>2
<1>15. ASSUME "jumpFunction" \notin used PROVE JumpsIn(new, home, o)'
  <2>1. ASSUME NEW a, Pending(home, o, a) PROVE a \in {Enclosing.exit} \/ Pending(home, o, a)'
    <3>1. CASE \E k \in DOMAIN open : home[k] = o /\ (a = open[k].exit \/ a \in open[k].ends)
      <4>1. PICK k \in DOMAIN open : home[k] = o /\ (a = open[k].exit \/ a \in open[k].ends)
        BY <3>1
      <4>2. CASE k = Len(open)
        BY <1>5, <4>1, <4>2
      <4>3. CASE k # Len(open)
        BY <1>11, <4>1, <4>3 DEF Pending
      <4> QED
        BY <4>2, <4>3
    <3>2. CASE \E i \in DOMAIN states : home[states[i].depth] = o /\ a \in states[i].ends
      BY <1>2, <3>2 DEF Pending
    <3> QED
      BY <2>1, <3>1, <3>2 DEF Pending
  <2>2. target \in 1 .. Len(new) + 1
    BY <1>7, <1>8, <1>9
  <2>3. ASSUME NEW a \in DOMAIN new \ DOMAIN Code PROVE Pending(home, o, a)'
    <3>1. a = Offset
      BY <1>7, <1>9 DEF Rewrites
    <3> QED
      BY <1>5, <1>10, <1>11, <3>1 DEF Pending
  <2> QED
    BY <1>1, <1>3, <1>9, <1>15, <2>1, <2>2, <2>3, JumpsPatched DEF Rewrites
<1>16. Len(open') \in {Len(open), Len(open) - 1} /\ home[Len(open')] = o
  BY <1>5, <1>11
<1> QED
  BY <1>1, <1>2, <1>3, <1>9, <1>12, <1>14, <1>15, <1>16, StepShrinks

\* The protected block of a try statement ends: the first handler comes next.
LEMMA EndTryBlockKeeps ==
  ASSUME CodeInv, EndTryBlock
  PROVE  CodeInv'
<1>1. PICK new, o, s :
        /\ new = Code \o <<I("JMP")>> /\ o = cur
        /\ s = [Enclosing EXCEPT !.kind = "handlers", !.ends = {Offset}, !.first = FirstHandler]
  OBVIOUS
<1>2. /\ phase = "compile" /\ phase' = "compile" /\ used' = used
      /\ open # <<>> /\ Enclosing.kind = "try"
      /\ Emit(<<I("JMP")>>) /\ Replace(s) /\ cur' = cur /\ states' = states
  BY <1>1 DEF EndTryBlock, End, Inside
<1>3. PICK home : CompilingAt(home)
  BY <1>2, SomeHome
<1>4. CodesOK /\ HeldOK /\ StatesOK
  BY <1>3 DEF CompilingAt, CodeInv
<1>5. /\ home[Len(open)] = o /\ HoldsOK(Enclosing, o) /\ open[Len(open)] = Enclosing
      /\ Enclosing \in OpenStatement
  BY <1>1, <1>2, <1>3, HomeBelow
<1>6. <<I("JMP")>> \in Seq(Instruction)
  BY InstructionTypes DEF Ops
<1>7. /\ Len(Code) \in Nat /\ DOMAIN Code = 1 .. Len(Code) /\ Code \in Seq(Instruction)
      /\ Offset = Len(Code) + 1 /\ Offset \in Nat
  BY <1>4, Offsets
<1>8. Rewrites(new) /\ Longer(new, Code, <<I("JMP")>>) /\ Len(new) = Len(Code) + 1
  <2>1. Rewrites(new) /\ Longer(new, Code, <<I("JMP")>>)
    BY <1>1, <1>2, <1>4, <1>6, EmitRewrites
  <2> QED
    BY <2>1 DEF Longer
<1>9. /\ s \in OpenStatement /\ s.kind = "handlers" /\ s.ends = {Offset}
      /\ s.first = Offset + 1 /\ s.start = Enclosing.start /\ s.exit = Enclosing.exit
      /\ s.catches = Enclosing.catches /\ s.finally = Enclosing.finally
  <2>1. "handlers" \in StatementKinds
    BY DEF StatementKinds, Tries
  <2>2. PICK e, ends, first : e = Enclosing /\ ends = {Offset} /\ first = FirstHandler
    OBVIOUS
  <2>3. e \in OpenStatement /\ ends \in SUBSET Nat /\ first \in Nat /\ first = Offset + 1
    BY <1>5, <1>7, <2>2 DEF FirstHandler
  <2>4. s = [e EXCEPT !.kind = "handlers", !.ends = ends, !.first = first]
    BY <1>1, <2>2
  <2>5. /\ s \in OpenStatement /\ s.kind = "handlers" /\ s.ends = ends
        /\ s.first = first /\ s.start = e.start /\ s.exit = e.exit
        /\ s.catches = e.catches /\ s.finally = e.finally
    BY <2>1, <2>3, <2>4 DEF OpenStatement
  <2> QED
    BY <2>2, <2>3, <2>5
<1>10. /\ open' \in Seq(OpenStatement) /\ Len(open') = Len(open) /\ DOMAIN open' = DOMAIN open
       /\ Len(open) \in DOMAIN open /\ open'[Len(open)] = s
       /\ \A k \in DOMAIN open \ {Len(open)} : open'[k] = open[k] /\ SameShape(k)
  BY <1>2, <1>4, <1>9, ReplaceOpens
<1>11. StatesOK' /\ HeldOK'
  <2>1. StatesOK'
    BY <1>2, <1>4, <1>9, ReplaceStates DEF Loops
  <2> QED
    BY <1>2, <1>4, <1>10, <2>1 DEF HeldOK
<1>12. /\ codes' \in Seq(CodeObject) /\ codes'[o].code = new /\ Grows /\ SameHandlers
       /\ o \in DOMAIN codes
  BY <1>1, <1>4, <1>8, SetCodeGrows DEF CodesOK
<1>13. HoldsOK(s, o)'
  <2>1. PICK e \in OpenStatement : e = Enclosing
    BY <1>5
  <2>2. HoldsOK(e, o)'
    BY <1>4, <1>5, <1>12, <2>1, HoldsKept DEF SameHandlers
  <2>3. /\ e.start \in DOMAIN Code /\ e.exit = NoAddress /\ e.catches = <<>>
        /\ e.finally = NoAddress
    BY <1>1, <1>2, <1>5, <2>1 DEF HoldsOK, Tries, Code
  <2>4. s.start < s.first /\ s.first <= Len(new) + 1 /\ s.start = e.start /\ s.catches = <<>>
    BY <1>7, <1>8, <1>9, <2>1, <2>3
  <2>5. /\ s.start \in DOMAIN codes'[o].code /\ codes'[o].code[s.start].op = "TRY"
        /\ \A i \in DOMAIN codes'[o].handlers :
             LET h == codes'[o].handlers[i] IN s.start < h.start \/ h.end < s.start
    BY <1>2, <2>1, <2>2, <2>4 DEF HoldsOK, Tries
  <2> QED
    BY <1>9, <1>12, <2>1, <2>3, <2>4, <2>5 DEF HoldsOK, Loops
<1>14. ASSUME NEW k \in DOMAIN open'
       PROVE  /\ SameShape(k)
              /\ open'[k] = open[k] \/ (home[k] = o /\ HoldsOK(open[k], o)')
  <2>1. CASE k = Len(open)
    <3>1. SameShape(k)
      BY <1>2, <1>5, <1>9, <1>10, <2>1 DEF SameShape, Tries
    <3>2. HoldsOK(open[k], o)'
      BY <1>10, <1>13, <2>1
    <3> QED
      BY <1>5, <2>1, <3>1, <3>2
  <2>2. CASE k # Len(open)
    BY <1>10, <2>2
  <2> QED
    BY <2>1, <2>2
<1>15. ASSUME "jumpFunction" \notin used PROVE JumpsIn(new, home, o)'
  <2>1. ASSUME NEW a, Pending(home, o, a) PROVE a = NoAddress \/ Pending(home, o, a)'
    <3>1. CASE \E k \in DOMAIN open : home[k] = o /\ (a = open[k].exit \/ a \in open[k].ends)
      <4>1. PICK k \in DOMAIN open : home[k] = o /\ (a = open[k].exit \/ a \in open[k].ends)
        BY <3>1
      <4>2. CASE k = Len(open)
        <5>1. Enclosing.ends = {} /\ Enclosing.exit = NoAddress
          BY <1>2, <1>5 DEF HoldsOK, Tries
        <5> QED
          BY <1>5, <4>1, <4>2, <5>1
      <4>3. CASE k # Len(open)
        BY <1>10, <4>1, <4>3 DEF Pending
      <4> QED
        BY <4>2, <4>3
    <3>2. CASE \E i \in DOMAIN states : home[states[i].depth] = o /\ a \in states[i].ends
      BY <1>2, <3>2 DEF Pending
    <3> QED
      BY <2>1, <3>1, <3>2 DEF Pending
  <2>2. ASSUME NEW a \in DOMAIN new, new[a].op \in Jumps
        PROVE  new[a].arg \in 1 .. Len(new) + 1 \/ Pending(home, o, a)'
    <3>1. CASE a \notin DOMAIN Code
      <4>1. a = Offset
        BY <1>7, <1>8, <3>1 DEF Longer
      <4> QED
        BY <1>5, <1>9, <1>10, <4>1 DEF Pending
    <3>2. CASE a \in DOMAIN Code
      <4>1. new[a] = Code[a] /\ Code[a].op \in Jumps /\ a # NoAddress
        BY <1>7, <1>8, <2>2, <3>2 DEF Longer, NoAddress
      <4>2. Code[a].arg \in 1 .. Len(Code) + 1 \/ Pending(home, o, a)
        BY <1>1, <1>3, <1>15, <3>2, <4>1, JumpsSoFar
      <4>3. Code[a].arg \in 1 .. Len(Code) + 1 => new[a].arg \in 1 .. Len(new) + 1
        BY <1>7, <1>8, <4>1
      <4> QED
        BY <2>1, <4>1, <4>2, <4>3
    <3> QED
      BY <3>1, <3>2
  <2> QED
    BY <2>2 DEF JumpsIn
<1>16. Len(open') \in {Len(open), Len(open) - 1} /\ home[Len(open')] = o
  BY <1>5, <1>10
<1> QED
  BY <1>1, <1>2, <1>3, <1>8, <1>11, <1>14, <1>15, <1>16, StepShrinks

\* One more instruction.
LEMMA AppendedCode ==
  ASSUME NEW p \in Seq(Instruction), NEW i \in Instruction, NEW new, new = Append(p, i)
  PROVE  /\ new \in Seq(Instruction) /\ Len(new) = Len(p) + 1 /\ DOMAIN new = 1 .. Len(p) + 1
         /\ \A a \in DOMAIN p : a \in DOMAIN new /\ new[a] = p[a]
  OBVIOUS

\* The code at the end of a catch block: patched, and only the instruction at
\* last is a new jump.
CatchEnded(new, code, at, target, last) ==
  /\ PatchedTo(new, code, at, target)
  /\ target \in 1 .. Len(new) + 1 /\ last \in Nat
  /\ \A a \in DOMAIN new \ DOMAIN code : new[a].op \in Jumps => a = last
\* The code of the end of a catch block, with DELETE or without.
LEMMA EndCatchCode ==
  ASSUME CodesOK, NEW name \in Nat, NEW at, NEW code, code = Code \o Deletes(name),
         NEW t, t = Len(code) + 1,
         NEW p \in Seq(Instruction), Len(p) = Len(code), PatchedTo(p, code, at, t),
         NEW new, new = Append(p, I("JMP")), SetCode(new)
  PROVE  Rewrites(new) /\ CatchEnded(new, Code, at, t, Len(code) + 1)
<1>1. /\ Code \in Seq(Instruction) /\ Len(Code) \in Nat /\ DOMAIN Code = 1 .. Len(Code)
  BY Offsets
<1>2. /\ Deletes(name) \in Seq(Instruction)
      /\ \A b \in DOMAIN Deletes(name) : Deletes(name)[b].op \notin Jumps
  <2>1. Ia("DELETE", name) \in Instruction /\ Ia("DELETE", name).op = "DELETE"
    BY InstructionTypes DEF Ops
  <2>2. CASE name = NoName
    BY <2>2 DEF Deletes
  <2>3. CASE name # NoName
    BY <2>1, <2>3 DEF Deletes, Jumps
  <2> QED
    BY <2>2, <2>3
<1>3. /\ code \in Seq(Instruction)
      /\ \A a \in DOMAIN Code : a \in DOMAIN code /\ code[a] = Code[a]
      /\ \A a \in DOMAIN code \ DOMAIN Code : code[a].op \notin Jumps
      /\ Len(code) = Len(Code) + Len(Deletes(name))
  <2>1. PICK more \in Seq(Instruction) : more = Deletes(name)
    BY <1>2
  <2>2. code = Code \o more
    BY <2>1
  <2>3. code \in Seq(Instruction) /\ Longer(code, Code, more)
    BY <1>1, <2>2, EmittedCode
  <2> QED
    BY <1>2, <2>1, <2>3 DEF Longer
<1>4. /\ Len(code) \in Nat /\ Len(Code) <= Len(code) /\ DOMAIN code = 1 .. Len(code)
  BY <1>1, <1>2, <1>3
<1>7. PICK i \in Instruction : i = I("JMP") /\ new = Append(p, i)
  BY InstructionTypes DEF Ops
<1>8. /\ new \in Seq(Instruction) /\ Len(new) = Len(p) + 1 /\ DOMAIN new = 1 .. Len(p) + 1
      /\ \A a \in DOMAIN p : a \in DOMAIN new /\ new[a] = p[a]
  BY <1>7, AppendedCode
<1>9. /\ Len(new) = Len(code) + 1 /\ DOMAIN new = 1 .. Len(code) + 1 /\ DOMAIN p = DOMAIN code
  BY <1>4, <1>8
<1>10. PatchedTo(new, code, at, t)
  BY <1>8 DEF PatchedTo
<1>11. PatchedTo(new, Code, at, t)
  BY <1>3, <1>10 DEF PatchedTo
<1>12. Rewrites(new)
  BY <1>1, <1>4, <1>8, <1>9, <1>11 DEF Rewrites, PatchedTo
<1>13. ASSUME NEW a \in DOMAIN new \ DOMAIN Code, new[a].op \in Jumps PROVE a = Len(code) + 1
  <2>1. a \notin DOMAIN code
    BY <1>3, <1>10, <1>13 DEF PatchedTo
  <2> QED
    BY <1>4, <1>9, <2>1
<1>14. t \in 1 .. Len(new) + 1 /\ Len(code) + 1 \in Nat
  BY <1>4, <1>9
<1> QED
  BY <1>11, <1>12, <1>13, <1>14 DEF CatchEnded

\* A catch block ends: a mismatch goes to the jump out of the statement, which is
\* to be patched.
LEMMA EndCatchKeeps ==
  ASSUME CodeInv, EndCatch
  PROVE  CodeInv'
<1>1. PICK at, name, code, t, p, new, o :
        /\ at = {Enclosing.exit} /\ name = Enclosing.name
        /\ code = Code \o Deletes(name) /\ t = MismatchTarget(code)
        /\ p = Patched(code, at, t) /\ new = Append(p, I("JMP")) /\ o = cur
  OBVIOUS
<1>2. /\ phase = "compile" /\ phase' = "compile" /\ used' = used
      /\ open # <<>> /\ Enclosing.kind = "catch"
      /\ SetCode(new) /\ cur' = cur /\ states' = states
      /\ open' = [Front(open) EXCEPT ![Len(open) - 1].ends = @ \cup {Len(code) + 1}]
  BY <1>1 DEF EndCatch, End, Inside
<1>3. PICK home : CompilingAt(home)
  BY <1>2, SomeHome
<1>4. CodesOK /\ HeldOK /\ StatesOK /\ HomesOK(home)
  BY <1>3 DEF CompilingAt, CodeInv
<1>5. /\ home[Len(open) - 1] = o /\ HoldsOK(Enclosing, o) /\ open[Len(open)] = Enclosing
      /\ Len(open) \in Nat \ {0} /\ Enclosing \in OpenStatement /\ Len(open) \in DOMAIN open
  BY <1>1, <1>2, <1>3, HomeBelow
<1>6. Len(open) > 1 /\ open[Len(open) - 1].kind = "handlers"
  BY <1>2, <1>4, <1>5 DEF HomesOK
<1>7. name \in Nat /\ Enclosing.ends = {}
  BY <1>1, <1>2, <1>5 DEF OpenStatement, HoldsOK
<1>19. /\ code \in Seq(Instruction) /\ t = Len(code) + 1 /\ t \in Nat
  <2>1. Ia("DELETE", name) \in Instruction /\ Code \in Seq(Instruction)
    BY <1>4, <1>7, InstructionTypes, Offsets DEF Ops
  <2>2. Deletes(name) \in Seq(Instruction)
    BY <2>1 DEF Deletes
  <2>3. code \in Seq(Instruction) /\ Len(code) \in Nat
    BY <1>1, <2>1, <2>2
  <2> QED
    BY <1>1, <2>3 DEF MismatchTarget
<1>20. p \in Seq(Instruction) /\ Len(p) = Len(code) /\ PatchedTo(p, code, at, t)
  <2>1. p = Patched(code, at, t)
    BY <1>1
  <2> QED
    BY <1>19, <2>1, PatchedCode
<1>8. /\ Rewrites(new) /\ PatchedTo(new, Code, at, t)
      /\ t \in 1 .. Len(new) + 1 /\ Len(code) + 1 \in Nat
      /\ \A a \in DOMAIN new \ DOMAIN Code : new[a].op \in Jumps => a = Len(code) + 1
  <2>1. Rewrites(new) /\ CatchEnded(new, Code, at, t, Len(code) + 1)
    BY <1>1, <1>2, <1>4, <1>7, <1>19, <1>20, EndCatchCode
  <2> QED
    BY <2>1 DEF CatchEnded
<1>0. PICK n, e, ends, s :
        /\ n = Len(open) /\ e = open[n - 1] /\ ends = e.ends \cup {Len(code) + 1}
        /\ s = [e EXCEPT !.ends = ends]
  OBVIOUS
<1>9. /\ open \in Seq(OpenStatement) /\ DOMAIN open = 1 .. n /\ n \in Nat /\ n > 1
      /\ e \in OpenStatement
  <2>1. open \in Seq(OpenStatement) /\ DOMAIN open = 1 .. n /\ n \in Nat /\ n > 1
    BY <1>0, <1>4, <1>5, <1>6, HeldTypes DEF HeldOK
  <2> QED
    BY <1>0, <2>1
<1>10. /\ s \in OpenStatement /\ s.ends = ends
       /\ s.kind = e.kind /\ s.start = e.start /\ s.exit = e.exit /\ s.first = e.first
       /\ s.finally = e.finally /\ s.catches = e.catches
  BY <1>0, <1>8, <1>9 DEF OpenStatement
<1>11. /\ open' \in Seq(OpenStatement) /\ Len(open') = n - 1 /\ DOMAIN open' = 1 .. n - 1
       /\ open'[n - 1] = s
       /\ \A k \in 1 .. n - 2 : open'[k] = open[k]
  <2>1. PICK f : f = Front(open)
    OBVIOUS
  <2>2. /\ f \in Seq(OpenStatement) /\ Len(f) = n - 1
        /\ \A k \in 1 .. n - 1 : f[k] = open[k]
    BY <1>0, <1>2, <1>9, <2>1, Fronts
  <2>3. n - 1 \in 1 .. n - 1 /\ DOMAIN f = 1 .. n - 1 /\ f[n - 1] = e
    BY <1>0, <1>9, <2>2
  <2>4. open' = [f EXCEPT ![n - 1] = s]
    BY <1>0, <1>2, <2>1, <2>3
  <2> QED
    BY <1>9, <1>10, <2>2, <2>3, <2>4
<1>12. /\ codes' \in Seq(CodeObject) /\ codes'[o].code = new /\ Grows /\ SameHandlers
       /\ o \in DOMAIN codes
  BY <1>1, <1>4, <1>8, SetCodeGrows DEF CodesOK
<1>13. n - 1 \in DOMAIN open /\ home[n - 1] = o /\ e.kind = "handlers"
  BY <1>0, <1>5, <1>6, <1>9
<1>14. HoldsOK(s, o)'
  <2>1. HoldsOK(e, o)
    BY <1>0, <1>4, <1>13 DEF HomesOK
  <2>2. PICK u \in OpenStatement : u = e
    BY <1>9
  <2>3. HoldsOK(u, o)'
    BY <1>4, <1>12, <2>1, <2>2, HoldsKept DEF SameHandlers
  <2> QED
    BY <1>0, <1>10, <1>13, <2>2, <2>3 DEF HoldsOK
<1>15. ASSUME NEW k \in DOMAIN open'
       PROVE  /\ SameShape(k)
              /\ open'[k] = open[k] \/ (home[k] = o /\ HoldsOK(open[k], o)')
  <2>1. CASE k = n - 1
    <3>1. SameShape(k)
      BY <1>0, <1>10, <1>11, <2>1 DEF SameShape
    <3>2. HoldsOK(open[k], o)'
      BY <1>0, <1>11, <1>14, <2>1
    <3> QED
      BY <1>13, <2>1, <3>1, <3>2
  <2>2. CASE k # n - 1
    <3>1. open'[k] = open[k]
      BY <1>9, <1>11, <2>2
    <3> QED
      BY <3>1 DEF SameShape
  <2> QED
    BY <2>1, <2>2
<1>16. StatesOK' /\ HeldOK'
  <2>1. ASSUME NEW k \in DOMAIN open, Marked(k)
        PROVE  k \in DOMAIN open' /\ open'[k].kind = open[k].kind /\ open'[k].start = open[k].start
    <3>1. k # n
      BY <1>0, <1>2, <1>5, <2>1 DEF Marked, Loops
    <3>2. k # n - 1
      BY <1>0, <1>13, <2>1 DEF Marked, Loops
    <3> QED
      BY <1>9, <1>11, <3>1, <3>2
  <2>2. ASSUME NEW k \in DOMAIN open', Marked(k)' PROVE Marked(k)
    <3>1. k # n - 1
      BY <1>10, <1>11, <1>13, <2>2 DEF Marked, Loops
    <3> QED
      BY <1>9, <1>11, <2>2, <3>1 DEF Marked
  <2>3. StatesOK'
    BY <1>2, <1>4, <2>1, <2>2, StatesKept
  <2> QED
    BY <1>2, <1>4, <1>11, <2>3 DEF HeldOK
<1>17. ASSUME "jumpFunction" \notin used PROVE JumpsIn(new, home, o)'
  <2>1. ASSUME NEW a, Pending(home, o, a) PROVE a \in at \/ Pending(home, o, a)'
    <3>1. CASE \E k \in DOMAIN open : home[k] = o /\ (a = open[k].exit \/ a \in open[k].ends)
      <4>1. PICK k \in DOMAIN open : home[k] = o /\ (a = open[k].exit \/ a \in open[k].ends)
        BY <3>1
      <4>2. CASE k = n
        BY <1>0, <1>1, <1>5, <1>7, <4>1, <4>2
      <4>3. CASE k = n - 1
        <5>1. n - 1 \in DOMAIN open' /\ (a = open'[n - 1].exit \/ a \in open'[n - 1].ends)
          BY <1>0, <1>9, <1>10, <1>11, <4>1, <4>3
        <5> QED
          BY <1>13, <5>1 DEF Pending
      <4>4. CASE k # n /\ k # n - 1
        <5>1. k \in DOMAIN open' /\ open'[k] = open[k]
          BY <1>9, <1>11, <4>4
        <5> QED
          BY <4>1, <5>1 DEF Pending
      <4> QED
        BY <4>2, <4>3, <4>4
    <3>2. CASE \E i \in DOMAIN states : home[states[i].depth] = o /\ a \in states[i].ends
      BY <1>2, <3>2 DEF Pending
    <3> QED
      BY <2>1, <3>1, <3>2 DEF Pending
  <2>2. Pending(home, o, Len(code) + 1)'
    <3>1. n - 1 \in DOMAIN open' /\ Len(code) + 1 \in open'[n - 1].ends
      BY <1>0, <1>9, <1>10, <1>11
    <3> QED
      BY <1>13, <3>1 DEF Pending
  <2>3. \A a \in DOMAIN new \ DOMAIN Code : new[a].op \in Jumps =>
          new[a].arg \in 1 .. Len(new) + 1 \/ Pending(home, o, a)'
    BY <1>8, <2>2
  <2> QED
    BY <1>1, <1>3, <1>8, <1>17, <2>1, <2>3, JumpsPatched DEF Rewrites
<1>18. Len(open') \in {Len(open), Len(open) - 1} /\ home[Len(open')] = o
  BY <1>0, <1>11, <1>13
<1> QED
  BY <1>1, <1>2, <1>3, <1>8, <1>15, <1>16, <1>17, <1>18, StepShrinks

\* A finally block begins: the jumps out of the other blocks are patched to it.
LEMMA BeginFinallyKeeps ==
  ASSUME CodeInv, BeginFinally
  PROVE  CodeInv'
<1>1. PICK at, target, new, o, s :
        /\ at = Enclosing.ends /\ target = Offset
        /\ new = Patched(Code, at, target) /\ o = cur
        /\ s = [Enclosing EXCEPT !.kind = "finally", !.ends = {}, !.finally = Offset]
  OBVIOUS
<1>2. /\ phase = "compile" /\ phase' = "compile" /\ used' = used
      /\ open # <<>> /\ Enclosing.kind = "handlers" /\ Enclosing.catches # <<>>
      /\ SetCode(new) /\ Replace(s) /\ cur' = cur /\ states' = states
  BY <1>1 DEF BeginFinally, Inside
<1>3. PICK home : CompilingAt(home)
  BY <1>2, SomeHome
<1>4. CodesOK /\ HeldOK /\ StatesOK
  BY <1>3 DEF CompilingAt, CodeInv
<1>5. /\ home[Len(open)] = o /\ HoldsOK(Enclosing, o) /\ open[Len(open)] = Enclosing
      /\ Enclosing \in OpenStatement
  BY <1>1, <1>2, <1>3, HomeBelow
<1>7. /\ Len(Code) \in Nat /\ DOMAIN Code = 1 .. Len(Code) /\ Code \in Seq(Instruction)
      /\ target = Len(Code) + 1 /\ target \in Nat /\ Offset = target
  BY <1>1, <1>4, Offsets
<1>8. /\ Rewrites(new) /\ PatchedTo(new, Code, at, target) /\ Len(new) = Len(Code)
      /\ DOMAIN new = DOMAIN Code
  <2>1. Rewrites(new) /\ PatchedTo(new, Code, at, target) /\ Len(new) = Len(Code)
    BY <1>1, <1>2, <1>4, <1>7, PatchRewrites
  <2> QED
    BY <1>7, <2>1 DEF Rewrites
<1>9. /\ s \in OpenStatement /\ s.kind = "finally" /\ s.ends = {} /\ s.finally = target
      /\ s.first = Enclosing.first /\ s.start = Enclosing.start /\ s.exit = Enclosing.exit
      /\ s.catches = Enclosing.catches
  <2>1. "finally" \in StatementKinds
    BY DEF StatementKinds, Tries
  <2>2. PICK e : e = Enclosing
    OBVIOUS
  <2>3. e \in OpenStatement /\ target \in Nat
    BY <1>5, <1>7, <2>2
  <2>4. s = [e EXCEPT !.kind = "finally", !.ends = {}, !.finally = target]
    BY <1>1, <2>2
  <2>5. /\ s \in OpenStatement /\ s.kind = "finally" /\ s.ends = {} /\ s.finally = target
        /\ s.first = e.first /\ s.start = e.start /\ s.exit = e.exit
        /\ s.catches = e.catches
    BY <2>1, <2>3, <2>4 DEF OpenStatement
  <2> QED
    BY <2>2, <2>5
<1>10. /\ open' \in Seq(OpenStatement) /\ Len(open') = Len(open) /\ DOMAIN open' = DOMAIN open
       /\ Len(open) \in DOMAIN open /\ open'[Len(open)] = s
       /\ \A k \in DOMAIN open \ {Len(open)} : open'[k] = open[k] /\ SameShape(k)
  BY <1>2, <1>4, <1>9, ReplaceOpens
<1>11. StatesOK' /\ HeldOK'
  <2>1. StatesOK'
    BY <1>2, <1>4, <1>9, ReplaceStates DEF Loops
  <2> QED
    BY <1>2, <1>4, <1>10, <2>1 DEF HeldOK
<1>12. /\ codes' \in Seq(CodeObject) /\ codes'[o].code = new /\ Grows /\ SameHandlers
       /\ o \in DOMAIN codes
  BY <1>1, <1>4, <1>8, SetCodeGrows DEF CodesOK
<1>13. HoldsOK(s, o)'
  <2>1. PICK e \in OpenStatement : e = Enclosing
    BY <1>5
  <2>2. HoldsOK(e, o)'
    BY <1>4, <1>5, <1>12, <2>1, HoldsKept DEF SameHandlers
  <2>3. /\ e.start \in DOMAIN Code /\ e.exit = NoAddress
        /\ e.first \in Nat /\ e.start < e.first /\ e.first <= Len(Code)
    BY <1>1, <1>2, <1>5, <2>1 DEF HoldsOK, Tries, Code, OpenStatement
  <2>4. /\ s.start < s.first /\ s.first <= Len(new) + 1 /\ s.first <= Len(new)
        /\ s.first < s.finally /\ s.finally <= Len(new) + 1
    BY <1>7, <1>8, <1>9, <2>1, <2>3
  <2>5. /\ s.start \in DOMAIN codes'[o].code /\ codes'[o].code[s.start].op = "TRY"
        /\ \A i \in DOMAIN codes'[o].handlers :
             LET h == codes'[o].handlers[i] IN s.start < h.start \/ h.end < s.start
    BY <1>2, <1>9, <2>1, <2>2 DEF HoldsOK, Tries
  <2> QED
    BY <1>2, <1>9, <1>12, <2>1, <2>3, <2>4, <2>5 DEF HoldsOK, Loops
<1>14. ASSUME NEW k \in DOMAIN open'
       PROVE  /\ SameShape(k)
              /\ open'[k] = open[k] \/ (home[k] = o /\ HoldsOK(open[k], o)')
  <2>1. CASE k = Len(open)
    <3>1. SameShape(k)
      BY <1>2, <1>5, <1>9, <1>10, <2>1 DEF SameShape, Tries
    <3>2. HoldsOK(open[k], o)'
      BY <1>10, <1>13, <2>1
    <3> QED
      BY <1>5, <2>1, <3>1, <3>2
  <2>2. CASE k # Len(open)
    BY <1>10, <2>2
  <2> QED
    BY <2>1, <2>2
<1>15. ASSUME "jumpFunction" \notin used PROVE JumpsIn(new, home, o)'
  <2>1. ASSUME NEW a, Pending(home, o, a)
        PROVE  a \in at \cup {NoAddress} \/ Pending(home, o, a)'
    <3>1. CASE \E k \in DOMAIN open : home[k] = o /\ (a = open[k].exit \/ a \in open[k].ends)
      <4>1. PICK k \in DOMAIN open : home[k] = o /\ (a = open[k].exit \/ a \in open[k].ends)
        BY <3>1
      <4>2. CASE k = Len(open)
        <5>1. Enclosing.exit = NoAddress
          BY <1>2, <1>5 DEF HoldsOK, Tries
        <5> QED
          BY <1>1, <1>5, <4>1, <4>2, <5>1
      <4>3. CASE k # Len(open)
        BY <1>10, <4>1, <4>3 DEF Pending
      <4> QED
        BY <4>2, <4>3
    <3>2. CASE \E i \in DOMAIN states : home[states[i].depth] = o /\ a \in states[i].ends
      BY <1>2, <3>2 DEF Pending
    <3> QED
      BY <2>1, <3>1, <3>2 DEF Pending
  <2>2. PatchedTo(new, Code, at \cup {NoAddress}, target)
    BY <1>7, <1>8 DEF PatchedTo, NoAddress
  <2>3. target \in 1 .. Len(new) + 1
    BY <1>7, <1>8
  <2>4. \A a \in DOMAIN new \ DOMAIN Code : new[a].op \in Jumps =>
          new[a].arg \in 1 .. Len(new) + 1 \/ Pending(home, o, a)'
    BY <1>8
  <2>5. PICK at2 : at2 = at \cup {NoAddress}
    OBVIOUS
  <2> QED
    BY <1>1, <1>3, <1>8, <1>15, <2>1, <2>2, <2>3, <2>4, <2>5, JumpsPatched DEF Rewrites
<1>16. Len(open') \in {Len(open), Len(open) - 1} /\ home[Len(open')] = o
  BY <1>5, <1>10
<1> QED
  BY <1>1, <1>2, <1>3, <1>8, <1>11, <1>14, <1>15, <1>16, StepShrinks

-----------------------------------------------------------------------------
(* The beginnings of statements. *)

\* A statement begins inside the others, which stay.
LEMMA PushOpens ==
  ASSUME HeldOK, NEW s \in OpenStatement, Push(s)
  PROVE  /\ open' \in Seq(OpenStatement) /\ Len(open') = Len(open) + 1
         /\ DOMAIN open' = 1 .. Len(open) + 1 /\ open'[Len(open) + 1] = s
         /\ \A k \in DOMAIN open : open'[k] = open[k]
<1>1. open \in Seq(OpenStatement) /\ open' = Append(open, s)
  BY DEF HeldOK, Push
<1> QED
  BY <1>1

\* It is neither a loop nor a function.
LEMMA PushStates ==
  ASSUME HeldOK, StatesOK, NEW s \in OpenStatement, Push(s), states' = states,
         s.kind \notin Loops \cup {"function"}
  PROVE  StatesOK'
<1>1. /\ DOMAIN open = 1 .. Len(open) /\ Len(open) \in Nat
      /\ DOMAIN open' = 1 .. Len(open) + 1 /\ open'[Len(open) + 1] = s
      /\ \A k \in DOMAIN open : open'[k] = open[k]
  BY HeldTypes, PushOpens
<1>2. \A k \in DOMAIN open : k \in DOMAIN open'
  BY <1>1
<1>3. ASSUME NEW k \in DOMAIN open', Marked(k)' PROVE Marked(k)
  <2>1. k # Len(open) + 1
    BY <1>1, <1>3 DEF Marked
  <2> QED
    BY <1>1, <1>3, <2>1 DEF Marked
<1> QED
  BY <1>1, <1>2, <1>3, StatesKept DEF Marked

\* An if statement begins.
LEMMA BeginIfKeeps ==
  ASSUME CodeInv, BeginIf
  PROVE  CodeInv'
<1> DEFINE more == <<I("EVAL"), I("JMP_IF_FALSE")>>
<1>1. PICK new, o, s : /\ new = Code \o more /\ o = cur
                       /\ s = Statement("if", NoAddress, Offset + 1)
  OBVIOUS
<1>2. /\ phase = "compile" /\ phase' = "compile" /\ Using({})
      /\ Emit(more) /\ Push(s) /\ cur' = cur /\ states' = states
  BY <1>1 DEF BeginIf, BeginCompound, BeginPlain, Begin
<1>3. PICK home : CompilingAt(home)
  BY <1>2, SomeHome
<1>4. CodesOK /\ HeldOK /\ StatesOK
  BY <1>3 DEF CompilingAt, CodeInv
<1>5. /\ Len(Code) \in Nat /\ DOMAIN Code = 1 .. Len(Code)
      /\ Offset = Len(Code) + 1 /\ Offset \in Nat
  BY <1>4, Offsets
<1>6. more \in Seq(Instruction) /\ Len(more) = 2 /\ more[1].op \notin Jumps
  BY InstructionTypes DEF Ops, Jumps
<1>7. /\ s \in OpenStatement /\ s.kind = "if" /\ s.exit = Offset + 1 /\ s.ends = {}
      /\ s.finally = NoAddress
  <2>1. "if" \in StatementKinds /\ NoAddress \in Nat /\ Offset + 1 \in Nat
    BY <1>5 DEF StatementKinds, NoAddress
  <2> QED
    BY <1>1, <2>1, StatementType
<1> HIDE DEF more
<1>8. Rewrites(new) /\ Longer(new, Code, more)
  BY <1>1, <1>2, <1>4, <1>6, EmitRewrites
<1>9. /\ open' \in Seq(OpenStatement) /\ Len(open') = Len(open) + 1
      /\ open'[Len(open) + 1] = s
      /\ \A k \in DOMAIN open : open'[k] = open[k]
  BY <1>2, <1>4, <1>7, PushOpens
<1>10. used \subseteq used' /\ used' \subseteq Features
  BY <1>2, <1>4, UsedGrows
<1>11. StatesOK' /\ HeldOK'
  <2>1. StatesOK'
    BY <1>2, <1>4, <1>7, PushStates DEF Loops
  <2> QED
    BY <1>2, <1>4, <1>9, <1>10, <2>1 DEF HeldOK
<1>12. HoldsOK(s, o)'
  BY <1>7 DEF HoldsOK, Loops, Tries
<1>13. \A a \in DOMAIN Code : a \in DOMAIN new /\ new[a] = Code[a]
  BY <1>8 DEF Longer
<1>14. ASSUME NEW a \in DOMAIN new \ DOMAIN Code, new[a].op \in Jumps PROVE a = s.exit
  <2>1. PICK b \in DOMAIN more : a = Len(Code) + b /\ new[a] = more[b]
    BY <1>8 DEF Longer
  <2>2. b = 2
    BY <1>6, <1>14, <2>1
  <2> QED
    BY <1>5, <1>7, <2>1, <2>2
<1>15. /\ s.kind # "function" /\ s.kind # "catch" /\ s.kind \notin Tries
  BY <1>7 DEF Tries
<1>16. \A k \in DOMAIN open :
         /\ open'[k].kind = open[k].kind /\ open'[k].start = open[k].start
         /\ open'[k].exit = open[k].exit /\ open'[k].ends = open[k].ends
         /\ open'[k] = open[k] \/ (home[k] = o /\ HoldsOK(open[k], o)')
  BY <1>9
<1> QED
  BY <1>1, <1>2, <1>3, <1>8, <1>9, <1>10, <1>11, <1>12, <1>13, <1>14, <1>15, <1>16, StepPushes, ZenonT(60)

\* A while loop begins.
LEMMA BeginWhileKeeps ==
  ASSUME CodeInv, BeginWhile
  PROVE  CodeInv'
<1> DEFINE more == <<I("EVAL"), I("JMP_IF_FALSE")>>
<1>1. PICK new, o, start, s :
        /\ new = Code \o more /\ o = cur /\ start = Offset
        /\ s = Statement("while", start, Offset + 1)
  OBVIOUS
<1>2. /\ phase = "compile" /\ phase' = "compile" /\ Using({})
      /\ Emit(more) /\ Push(s) /\ cur' = cur
      /\ states' = Append(states, State("LOOP", start, Len(open) + 1))
  BY <1>1 DEF BeginWhile, BeginCompound, BeginPlain, Begin
<1>3. PICK home : CompilingAt(home)
  BY <1>2, SomeHome
<1>4. CodesOK /\ HeldOK /\ StatesOK
  BY <1>3 DEF CompilingAt, CodeInv
<1>5. /\ Len(Code) \in Nat /\ DOMAIN Code = 1 .. Len(Code)
      /\ Offset = Len(Code) + 1 /\ Offset \in Nat
  BY <1>4, Offsets
<1>6. more \in Seq(Instruction) /\ Len(more) = 2 /\ \A b \in DOMAIN more \ {2} : more[b].op \notin Jumps
  BY InstructionTypes DEF Ops, Jumps
<1>7. /\ s \in OpenStatement /\ s.kind = "while" /\ s.exit = Len(Code) + 2 /\ s.ends = {}
      /\ s.finally = NoAddress /\ s.start = start /\ start \in Nat
      /\ start \in 1 .. Len(Code) + 2
  <2>1. /\ "while" \in StatementKinds /\ NoAddress \in Nat /\ Offset + 1 \in Nat /\ start \in Nat
        /\ start \in 1 .. Len(Code) + 2 /\ Offset + 1 = Len(Code) + 2
    BY <1>1, <1>5 DEF StatementKinds, NoAddress, Loops
  <2> QED
    BY <1>1, <2>1, StatementType
<1> HIDE DEF more
<1>8. Rewrites(new) /\ Longer(new, Code, more)
  BY <1>1, <1>2, <1>4, <1>6, EmitRewrites
<1>9. /\ open' \in Seq(OpenStatement) /\ Len(open') = Len(open) + 1
      /\ open'[Len(open) + 1] = s
      /\ \A k \in DOMAIN open : open'[k] = open[k]
  BY <1>2, <1>4, <1>7, PushOpens
<1>10. used \subseteq used' /\ used' \subseteq Features
  BY <1>2, <1>4, UsedGrows
<1>11. StatesOK' /\ HeldOK' /\ \A i \in DOMAIN states : i \in DOMAIN states' /\ states'[i] = states[i]
  <2>1. open' = Append(open, s)
    BY <1>2 DEF Push
  <2>2. StatesOK' /\ states' \in Seq(StackState)
    BY <1>2, <1>4, <1>7, <2>1, StatesPush DEF Loops
  <2>3. \A i \in DOMAIN states : i \in DOMAIN states' /\ states'[i] = states[i]
    BY <1>2, <1>4 DEF HeldOK
  <2> QED
    BY <1>4, <1>9, <1>10, <2>2, <2>3 DEF HeldOK
<1>12. HoldsOK(s, o)'
  <2>1. codes'[o].code = new /\ Len(new) = Len(Code) + 2 /\ DOMAIN new = 1 .. Len(new)
    <3>1. codes'[o].code = new
      BY <1>1, <1>4, <1>8, SetCodeGrows
    <3>2. Len(new) = Len(Code) + 2
      BY <1>6, <1>8 DEF Longer
    <3>3. new \in Seq(Instruction)
      BY <1>8 DEF Rewrites
    <3> QED
      BY <3>1, <3>2, <3>3
  <2>2. s.start \in DOMAIN codes'[o].code
    BY <1>7, <2>1
  <2> QED
    BY <1>7, <2>2 DEF HoldsOK, Loops, Tries
<1>13. \A a \in DOMAIN Code : a \in DOMAIN new /\ new[a] = Code[a]
  BY <1>8 DEF Longer
<1>14. ASSUME NEW a \in DOMAIN new \ DOMAIN Code, new[a].op \in Jumps PROVE a = s.exit
  <2>1. PICK b \in DOMAIN more : a = Len(Code) + b /\ new[a] = more[b]
    BY <1>8 DEF Longer
  <2>2. b = 2
    BY <1>6, <1>14, <2>1
  <2> QED
    BY <1>5, <1>7, <2>1, <2>2
<1>15. /\ s.kind # "function" /\ s.kind # "catch" /\ s.kind \notin Tries
  BY <1>7 DEF Tries
<1>16. \A k \in DOMAIN open :
         /\ open'[k].kind = open[k].kind /\ open'[k].start = open[k].start
         /\ open'[k].exit = open[k].exit /\ open'[k].ends = open[k].ends
         /\ open'[k] = open[k] \/ (home[k] = o /\ HoldsOK(open[k], o)')
  BY <1>9
<1> QED
  BY <1>1, <1>2, <1>3, <1>8, <1>9, <1>10, <1>11, <1>12, <1>13, <1>14, <1>15, <1>16, StepPushes, ZenonT(60)

\* A for-each loop begins.
LEMMA BeginForEachKeeps ==
  ASSUME CodeInv, BeginForEach
  PROVE  CodeInv'
<1> DEFINE more == <<I("EVAL"), I("GET_ITER"), I("FOR_EACH"), I("STORE")>>
<1>1. PICK new, o, start, s :
        /\ new = Code \o more /\ o = cur /\ start = Offset + 2
        /\ s = Statement("foreach", start, Offset + 2)
  OBVIOUS
<1>2. /\ phase = "compile" /\ phase' = "compile" /\ Using({})
      /\ Emit(more) /\ Push(s) /\ cur' = cur
      /\ states' = Append(states, State("LOOP", start, Len(open) + 1))
  BY <1>1 DEF BeginForEach, BeginCompound, BeginPlain, Begin
<1>3. PICK home : CompilingAt(home)
  BY <1>2, SomeHome
<1>4. CodesOK /\ HeldOK /\ StatesOK
  BY <1>3 DEF CompilingAt, CodeInv
<1>5. /\ Len(Code) \in Nat /\ DOMAIN Code = 1 .. Len(Code)
      /\ Offset = Len(Code) + 1 /\ Offset \in Nat
  BY <1>4, Offsets
<1>6. more \in Seq(Instruction) /\ Len(more) = 4 /\ \A b \in DOMAIN more \ {3} : more[b].op \notin Jumps
  BY InstructionTypes DEF Ops, Jumps
<1>7. /\ s \in OpenStatement /\ s.kind = "foreach" /\ s.exit = Len(Code) + 3 /\ s.ends = {}
      /\ s.finally = NoAddress /\ s.start = start /\ start \in Nat
      /\ start \in 1 .. Len(Code) + 4
  <2>1. /\ "foreach" \in StatementKinds /\ NoAddress \in Nat /\ Offset + 2 \in Nat /\ start \in Nat
        /\ start \in 1 .. Len(Code) + 4 /\ Offset + 2 = Len(Code) + 3
    BY <1>1, <1>5 DEF StatementKinds, NoAddress, Loops
  <2> QED
    BY <1>1, <2>1, StatementType
<1> HIDE DEF more
<1>8. Rewrites(new) /\ Longer(new, Code, more)
  BY <1>1, <1>2, <1>4, <1>6, EmitRewrites
<1>9. /\ open' \in Seq(OpenStatement) /\ Len(open') = Len(open) + 1
      /\ open'[Len(open) + 1] = s
      /\ \A k \in DOMAIN open : open'[k] = open[k]
  BY <1>2, <1>4, <1>7, PushOpens
<1>10. used \subseteq used' /\ used' \subseteq Features
  BY <1>2, <1>4, UsedGrows
<1>11. StatesOK' /\ HeldOK' /\ \A i \in DOMAIN states : i \in DOMAIN states' /\ states'[i] = states[i]
  <2>1. open' = Append(open, s)
    BY <1>2 DEF Push
  <2>2. StatesOK' /\ states' \in Seq(StackState)
    BY <1>2, <1>4, <1>7, <2>1, StatesPush DEF Loops
  <2>3. \A i \in DOMAIN states : i \in DOMAIN states' /\ states'[i] = states[i]
    BY <1>2, <1>4 DEF HeldOK
  <2> QED
    BY <1>4, <1>9, <1>10, <2>2, <2>3 DEF HeldOK
<1>12. HoldsOK(s, o)'
  <2>1. codes'[o].code = new /\ Len(new) = Len(Code) + 4 /\ DOMAIN new = 1 .. Len(new)
    <3>1. codes'[o].code = new
      BY <1>1, <1>4, <1>8, SetCodeGrows
    <3>2. Len(new) = Len(Code) + 4
      BY <1>6, <1>8 DEF Longer
    <3>3. new \in Seq(Instruction)
      BY <1>8 DEF Rewrites
    <3> QED
      BY <3>1, <3>2, <3>3
  <2>2. s.start \in DOMAIN codes'[o].code
    BY <1>7, <2>1
  <2> QED
    BY <1>7, <2>2 DEF HoldsOK, Loops, Tries
<1>13. \A a \in DOMAIN Code : a \in DOMAIN new /\ new[a] = Code[a]
  BY <1>8 DEF Longer
<1>14. ASSUME NEW a \in DOMAIN new \ DOMAIN Code, new[a].op \in Jumps PROVE a = s.exit
  <2>1. PICK b \in DOMAIN more : a = Len(Code) + b /\ new[a] = more[b]
    BY <1>8 DEF Longer
  <2>2. b = 3
    BY <1>6, <1>14, <2>1
  <2> QED
    BY <1>5, <1>7, <2>1, <2>2
<1>15. /\ s.kind # "function" /\ s.kind # "catch" /\ s.kind \notin Tries
  BY <1>7 DEF Tries
<1>16. \A k \in DOMAIN open :
         /\ open'[k].kind = open[k].kind /\ open'[k].start = open[k].start
         /\ open'[k].exit = open[k].exit /\ open'[k].ends = open[k].ends
         /\ open'[k] = open[k] \/ (home[k] = o /\ HoldsOK(open[k], o)')
  BY <1>9
<1> QED
  BY <1>1, <1>2, <1>3, <1>8, <1>9, <1>10, <1>11, <1>12, <1>13, <1>14, <1>15, <1>16, StepPushes, ZenonT(60)

\* A try statement begins: no handler is registered around its TRY.
LEMMA BeginTryKeeps ==
  ASSUME CodeInv, BeginTry
  PROVE  CodeInv'
<1> DEFINE more == <<I("TRY")>>
<1>1. PICK new, o, s, features :
        /\ new = Code \o more /\ o = cur
        /\ s = Statement("try", Offset, NoAddress)
        /\ features = IF In("finally") THEN {"tryInFinally"} ELSE {}
  OBVIOUS
<1>2. /\ phase = "compile" /\ phase' = "compile" /\ Using(features)
      /\ Emit(more) /\ Push(s) /\ cur' = cur /\ states' = states
  BY <1>1 DEF BeginTry, Begin
<1>3. PICK home : CompilingAt(home)
  BY <1>2, SomeHome
<1>4. CodesOK /\ HeldOK /\ StatesOK /\ HandlersOrdered
  BY <1>3 DEF CompilingAt, CodeInv
<1>5. /\ Len(Code) \in Nat /\ DOMAIN Code = 1 .. Len(Code)
      /\ Offset = Len(Code) + 1 /\ Offset \in Nat
  BY <1>4, Offsets
<1>6. more \in Seq(Instruction) /\ Len(more) = 1 /\ more[1].op = "TRY"
  BY InstructionTypes DEF Ops
<1>7. /\ s \in OpenStatement /\ s.kind = "try" /\ s.exit = NoAddress /\ s.ends = {}
      /\ s.finally = NoAddress /\ s.catches = <<>> /\ s.start = Offset
  <2>1. "try" \in StatementKinds /\ NoAddress \in Nat
    BY DEF StatementKinds, Tries, NoAddress
  <2> QED
    BY <1>1, <1>5, <2>1, StatementType
<1> HIDE DEF more
<1>8. Rewrites(new) /\ Longer(new, Code, more)
  BY <1>1, <1>2, <1>4, <1>6, EmitRewrites
<1>9. /\ open' \in Seq(OpenStatement) /\ Len(open') = Len(open) + 1
      /\ open'[Len(open) + 1] = s
      /\ \A k \in DOMAIN open : open'[k] = open[k]
  BY <1>2, <1>4, <1>7, PushOpens
<1>10. used \subseteq used' /\ used' \subseteq Features
  BY <1>2, <1>4, UsedGrows
<1>11. StatesOK' /\ HeldOK'
  <2>1. StatesOK'
    BY <1>2, <1>4, <1>7, PushStates DEF Loops
  <2> QED
    BY <1>2, <1>4, <1>9, <1>10, <2>1 DEF HeldOK
<1>12. HoldsOK(s, o)'
  <2>1. /\ codes'[o].code = new /\ SameHandlers /\ o \in DOMAIN codes
    BY <1>1, <1>4, <1>8, SetCodeGrows DEF CodesOK
  <2>2. s.start \in DOMAIN new /\ new[s.start].op = "TRY"
    <3>1. 1 \in DOMAIN more /\ Len(new) = Len(Code) + 1 /\ new[Len(Code) + 1] = more[1]
      BY <1>6, <1>8 DEF Longer
    <3>2. DOMAIN new = 1 .. Len(new)
      BY <1>8 DEF Rewrites
    <3> QED
      BY <1>5, <1>6, <1>7, <3>1, <3>2
  <2>3. ASSUME NEW i \in DOMAIN codes'[o].handlers
        PROVE  codes'[o].handlers[i].end < s.start
    <3>1. codes'[o].handlers = codes[o].handlers
      BY <2>1 DEF SameHandlers
    <3>2. codes[o].handlers[i] \in Range(codes[o].handlers)
      BY <2>3, <3>1 DEF Range
    <3>3. codes[o].handlers[i].end \in DOMAIN Code
      BY <1>1, <1>4, <2>1, <3>2 DEF HandlersOrdered, Code
    <3> QED
      BY <1>5, <1>7, <3>1, <3>3
  <2> QED
    BY <1>7, <2>1, <2>2, <2>3 DEF HoldsOK, Loops
<1>13. \A a \in DOMAIN Code : a \in DOMAIN new /\ new[a] = Code[a]
  BY <1>8 DEF Longer
<1>14. ASSUME NEW a \in DOMAIN new \ DOMAIN Code, new[a].op \in Jumps PROVE a = s.exit
  <2>1. PICK b \in DOMAIN more : new[a] = more[b]
    BY <1>8 DEF Longer
  <2> QED
    BY <1>6, <1>14, <2>1 DEF Jumps
<1>15. s.kind # "function" /\ s.kind # "catch"
  BY <1>7
<1>16. \A k \in DOMAIN open :
         /\ open'[k].kind = open[k].kind /\ open'[k].start = open[k].start
         /\ open'[k].exit = open[k].exit /\ open'[k].ends = open[k].ends
         /\ open'[k] = open[k] \/ (home[k] = o /\ HoldsOK(open[k], o)')
  BY <1>9
<1> QED
  BY <1>1, <1>2, <1>3, <1>7, <1>8, <1>9, <1>10, <1>11, <1>12, <1>13, <1>14, <1>15, <1>16, StepPushes, ZenonT(60)

\* A catch block begins, in a try statement that has a handler from then on.
LEMMA BeginCatchKeeps ==
  ASSUME CodeInv, NEW type \in Types, NEW name \in CatchNames \cup {NoName}, BeginCatch(type, name)
  PROVE  CodeInv'
<1> DEFINE last == IF name = NoName THEN I("POP") ELSE Ia("STORE", name)
           more == <<Ia("LOAD", type), I("CATCH"), last>>
<1>1. PICK new, o, n, e, catches, f, s, features :
        /\ new = Code \o more /\ o = cur /\ n = Len(open) /\ e = open[n]
        /\ catches = Append(e.catches, Offset) /\ f = [e EXCEPT !.catches = catches]
        /\ s = [Statement("catch", NoAddress, Offset + 1) EXCEPT !.name = name]
        /\ features = IF name # NoName /\ \E i \in DOMAIN open : open[i].kind = "catch" /\ open[i].name = name
                      THEN {"sameCatchName"} ELSE {}
  OBVIOUS
<1>2. /\ phase = "compile" /\ phase' = "compile" /\ Using(features)
      /\ open # <<>> /\ Enclosing.kind = "handlers"
      /\ Emit(more) /\ cur' = cur /\ states' = states
      /\ open' = Append([open EXCEPT ![Len(open)].catches = Append(@, Offset)], s)
  BY <1>1 DEF BeginCatch, Inside
<1>3. PICK home : CompilingAt(home)
  BY <1>2, SomeHome
<1>4. CodesOK /\ HeldOK /\ StatesOK
  BY <1>3 DEF CompilingAt, CodeInv
<1>5. /\ Len(Code) \in Nat /\ DOMAIN Code = 1 .. Len(Code)
      /\ Offset = Len(Code) + 1 /\ Offset \in Nat
  BY <1>4, Offsets
<1>6. more \in Seq(Instruction) /\ Len(more) = 3 /\ \A b \in DOMAIN more \ {2} : more[b].op \notin Jumps
  <2>1. type \in Nat /\ name \in Nat
    BY ProgramAssumption DEF NoName
  <2>2. /\ Ia("LOAD", type) \in Instruction /\ Ia("LOAD", type).op \notin Jumps
        /\ last \in Instruction /\ last.op \notin Jumps
        /\ I("CATCH") \in Instruction
    BY <2>1, InstructionTypes DEF Ops, Jumps
  <2> HIDE DEF last
  <2> QED
    BY <2>2
<1>7. /\ s \in OpenStatement /\ s.kind = "catch" /\ s.exit = Len(Code) + 2 /\ s.ends = {}
      /\ s.finally = NoAddress
  <2>1. "catch" \in StatementKinds /\ NoAddress \in Nat /\ Offset + 1 \in Nat
    BY <1>5 DEF StatementKinds, NoAddress
  <2>2. PICK r : r = Statement("catch", NoAddress, Offset + 1)
    OBVIOUS
  <2>3. /\ r \in OpenStatement /\ r.kind = "catch" /\ r.exit = Offset + 1 /\ r.ends = {}
        /\ r.finally = NoAddress
    BY <2>1, <2>2, StatementType
  <2>4. s = [r EXCEPT !.name = name] /\ name \in Nat
    BY <1>1, <2>2, ProgramAssumption DEF NoName
  <2>5. /\ s \in OpenStatement /\ s.kind = "catch" /\ s.exit = r.exit /\ s.ends = {}
        /\ s.finally = NoAddress
    BY <2>3, <2>4 DEF OpenStatement
  <2> QED
    BY <1>5, <2>3, <2>5
<1> HIDE DEF more
<1>8. Rewrites(new) /\ Longer(new, Code, more)
  BY <1>1, <1>2, <1>4, <1>6, EmitRewrites
<1>17. /\ e \in OpenStatement /\ n \in DOMAIN open /\ n \in Nat /\ DOMAIN open = 1 .. n
       /\ home[n] = o /\ HoldsOK(e, o) /\ e.kind = "handlers"
  <2>1. /\ home[Len(open)] = cur /\ HoldsOK(Enclosing, cur) /\ Enclosing \in OpenStatement
        /\ Len(open) \in DOMAIN open /\ open[Len(open)] = Enclosing
    BY <1>2, <1>3, HomeBelow
  <2> QED
    BY <1>1, <1>2, <1>4, <2>1, HeldTypes
<1>18. /\ f \in OpenStatement /\ f.kind = e.kind /\ f.start = e.start /\ f.exit = e.exit
       /\ f.ends = e.ends /\ f.first = e.first /\ f.finally = e.finally /\ f.catches = catches
  <2>1. catches \in Seq(Nat)
    <3>1. e.catches \in Seq(Nat)
      BY <1>17 DEF OpenStatement
    <3> QED
      BY <1>1, <1>5, <3>1
  <2>2. f = [e EXCEPT !.catches = catches]
    BY <1>1
  <2> QED
    BY <1>17, <2>1, <2>2 DEF OpenStatement
<1>9. /\ open' \in Seq(OpenStatement) /\ Len(open') = n + 1 /\ DOMAIN open' = 1 .. n + 1
      /\ open'[n + 1] = s /\ open'[n] = f
      /\ \A k \in DOMAIN open \ {n} : open'[k] = open[k]
  <2>1. PICK g : g = [open EXCEPT ![n] = f]
    OBVIOUS
  <2>2. /\ g \in Seq(OpenStatement) /\ Len(g) = n /\ g[n] = f
        /\ \A k \in DOMAIN open \ {n} : g[k] = open[k]
    <3>1. open \in Seq(OpenStatement) /\ Len(open) = n
      BY <1>1, <1>4 DEF HeldOK
    <3> QED
      BY <1>17, <1>18, <2>1, <3>1
  <2>3. open' = Append(g, s)
    BY <1>1, <1>2, <2>1
  <2>4. DOMAIN g = 1 .. n
    BY <2>2
  <2> QED
    BY <1>7, <1>17, <2>2, <2>3, <2>4
<1>10. used \subseteq used' /\ used' \subseteq Features
  BY <1>2, <1>4, UsedGrows
<1>16. \A k \in DOMAIN open :
         /\ open'[k].kind = open[k].kind /\ open'[k].start = open[k].start
         /\ open'[k].exit = open[k].exit /\ open'[k].ends = open[k].ends
         /\ k = n \/ open'[k] = open[k]
  BY <1>1, <1>9, <1>18
<1>11. StatesOK' /\ HeldOK'
  <2>1. \A k \in DOMAIN open : k \in DOMAIN open'
    BY <1>9, <1>17
  <2>2. ASSUME NEW k \in DOMAIN open', Marked(k)' PROVE Marked(k)
    <3>1. k # n + 1
      BY <1>7, <1>9, <2>2 DEF Marked, Loops
    <3>2. k \in DOMAIN open
      BY <1>9, <1>17, <3>1
    <3> QED
      BY <1>16, <2>2, <3>2 DEF Marked
  <2>3. StatesOK'
    BY <1>2, <1>4, <1>16, <2>1, <2>2, StatesKept
  <2> QED
    BY <1>2, <1>4, <1>9, <1>10, <2>3 DEF HeldOK
<1>12. HoldsOK(s, o)'
  BY <1>7 DEF HoldsOK, Loops, Tries
<1>19. HoldsOK(f, o)'
  <2>1. /\ codes' \in Seq(CodeObject) /\ codes'[o].code = new /\ Grows /\ SameHandlers
        /\ o \in DOMAIN codes
    BY <1>1, <1>4, <1>8, SetCodeGrows DEF CodesOK
  <2>2. HoldsOK(e, o)'
    BY <1>4, <1>17, <2>1, HoldsKept DEF SameHandlers
  <2>3. e.first \in Nat /\ e.first <= Len(Code) + 1
    BY <1>1, <1>17 DEF HoldsOK, Code, OpenStatement
  <2>4. Len(new) = Len(Code) + 3
    BY <1>6, <1>8 DEF Longer
  <2>5. f.first <= Len(codes'[o].code)
    BY <1>5, <1>18, <2>1, <2>3, <2>4
  <2> QED
    BY <1>17, <1>18, <2>2, <2>5 DEF HoldsOK, Tries, Loops
<1>13. \A a \in DOMAIN Code : a \in DOMAIN new /\ new[a] = Code[a]
  BY <1>8 DEF Longer
<1>14. ASSUME NEW a \in DOMAIN new \ DOMAIN Code, new[a].op \in Jumps PROVE a = s.exit
  <2>1. PICK b \in DOMAIN more : a = Len(Code) + b /\ new[a] = more[b]
    BY <1>8 DEF Longer
  <2>2. b = 2
    BY <1>6, <1>14, <2>1
  <2> QED
    BY <1>5, <1>7, <2>1, <2>2
<1>15. /\ s.kind # "function" /\ s.kind \notin Tries /\ Inside("handlers")
  BY <1>2, <1>7 DEF Tries, Inside
<1>20. \A k \in DOMAIN open : open'[k] = open[k] \/ (home[k] = o /\ HoldsOK(open[k], o)')
  <2>1. HoldsOK(open[n], o)'
    BY <1>9, <1>19
  <2> QED
    BY <1>16, <1>17, <2>1
<1>21. Len(open') = Len(open) + 1 /\ s = open'[Len(open) + 1]
  BY <1>1, <1>9
<1>22. \A k \in DOMAIN open :
         /\ open'[k].kind = open[k].kind /\ open'[k].start = open[k].start
         /\ open'[k].exit = open[k].exit /\ open'[k].ends = open[k].ends
         /\ open'[k] = open[k] \/ (home[k] = o /\ HoldsOK(open[k], o)')
  BY <1>16, <1>20
<1>23. o = cur /\ cur' = cur /\ phase' = "compile" /\ states' = states
  BY <1>1, <1>2
<1> QED
  BY <1>3, <1>8, <1>10, <1>11, <1>12, <1>13, <1>14, <1>15, <1>21, <1>22, <1>23, StepPushes, SMTT(60)

\* A handler is registered after those inside it.
LEMMA HandlerAdded ==
  ASSUME CodesOK, HandlersStart, HandlersOrdered, InnerHandlerFirst,
         codes' \in Seq(CodeObject), DOMAIN codes' = DOMAIN codes, Grows,
         NEW o \in DOMAIN codes, NEW h \in Handler,
         \A c \in DOMAIN codes \ {o} : codes'[c].handlers = codes[c].handlers,
         codes'[o].handlers = Append(codes[o].handlers, h),
         h.start \in DOMAIN codes[o].code, codes[o].code[h.start].op = "TRY",
         h.start < h.first, h.first < h.end,
         h.end = Len(codes[o].code) + 1, h.end \in DOMAIN codes'[o].code,
         codes'[o].code[h.end].op = "END_TRY",
         h.finally # NoAddress => h.first < h.finally /\ h.finally <= h.end,
         \A i \in DOMAIN codes[o].handlers :
           LET g == codes[o].handlers[i] IN h.start < g.start \/ g.end < h.start
  PROVE  HandlersStart' /\ HandlersOrdered' /\ InnerHandlerFirst'
<1>1. \A c \in DOMAIN codes :
        /\ codes[c].handlers \in Seq(Handler)
        /\ DOMAIN codes[c].code \subseteq DOMAIN codes'[c].code
        /\ DOMAIN codes[c].code = 1 .. Len(codes[c].code) /\ Len(codes[c].code) \in Nat
  BY CodeObjects, GrownDomain
<1>2. /\ DOMAIN codes'[o].handlers = 1 .. Len(codes[o].handlers) + 1
      /\ DOMAIN codes[o].handlers = 1 .. Len(codes[o].handlers) /\ Len(codes[o].handlers) \in Nat
      /\ \A i \in DOMAIN codes[o].handlers : codes'[o].handlers[i] = codes[o].handlers[i]
      /\ codes'[o].handlers[Len(codes[o].handlers) + 1] = h
  BY <1>1
<1>3. ASSUME NEW c \in DOMAIN codes', NEW g \in Range(codes'[c].handlers)
      PROVE  (c = o /\ g = h) \/ (g \in Range(codes[c].handlers) /\ g \in Handler)
  <2>1. PICK i \in DOMAIN codes'[c].handlers : g = codes'[c].handlers[i]
    BY <1>3 DEF Range
  <2>2. CASE c # o
    <3>1. i \in DOMAIN codes[c].handlers /\ g = codes[c].handlers[i]
      BY <2>1, <2>2
    <3> QED
      BY <1>1, <3>1 DEF Range
  <2>3. CASE c = o /\ i = Len(codes[o].handlers) + 1
    BY <1>2, <2>1, <2>3
  <2>4. CASE c = o /\ i # Len(codes[o].handlers) + 1
    <3>1. i \in DOMAIN codes[o].handlers
      <4>1. PICK l \in Nat : l = Len(codes[o].handlers)
        BY <1>2
      <4>2. i \in 1 .. l + 1 /\ i # l + 1 /\ DOMAIN codes[o].handlers = 1 .. l
        BY <1>2, <2>1, <2>4, <4>1
      <4> QED
        BY <4>2
    <3>2. g = codes[o].handlers[i]
      BY <1>2, <2>1, <2>4, <3>1
    <3> QED
      BY <1>1, <2>4, <3>1, <3>2 DEF Range
  <2> QED
    BY <2>2, <2>3, <2>4
<1>4. ASSUME NEW c \in DOMAIN codes', NEW g \in Range(codes'[c].handlers)
      PROVE  /\ g.start < g.first /\ g.first < g.end /\ g.end \in DOMAIN codes'[c].code
             /\ codes'[c].code[g.start].op = "TRY"
             /\ codes'[c].code[g.end].op = "END_TRY"
             /\ g.finally # NoAddress => g.first < g.finally /\ g.finally <= g.end
             /\ g.start \in DOMAIN codes'[c].code
  <2>1. CASE c = o /\ g = h
    BY <1>1, <2>1 DEF Grows
  <2>2. CASE g \in Range(codes[c].handlers)
    <3>1. /\ c \in DOMAIN codes
          /\ g.start < g.first /\ g.first < g.end /\ g.end \in DOMAIN codes[c].code
          /\ codes[c].code[g.start].op = "TRY" /\ codes[c].code[g.end].op = "END_TRY"
          /\ g.finally # NoAddress => g.first < g.finally /\ g.finally <= g.end
      BY <2>2 DEF HandlersOrdered
    <3>2. g.start \in DOMAIN codes[c].code
      BY <2>2, <3>1 DEF HandlersStart
    <3> QED
      BY <1>1, <3>1, <3>2 DEF Grows
  <2> QED
    BY <1>3, <2>1, <2>2
<1>5. ASSUME NEW c \in DOMAIN codes', NEW i \in DOMAIN codes'[c].handlers,
             NEW j \in DOMAIN codes'[c].handlers, i < j
      PROVE  LET g == codes'[c].handlers[i]
                 f == codes'[c].handlers[j]
             IN  f.end > g.end /\ (f.start < g.start \/ g.end < f.start)
  <2>1. CASE c # o
    BY <1>5, <2>1 DEF InnerHandlerFirst
  <2>2. CASE c = o /\ j \in DOMAIN codes[o].handlers
    <3>1. i \in DOMAIN codes[o].handlers
      BY <1>2, <1>5, <2>2
    <3> QED
      BY <1>2, <1>5, <2>2, <3>1 DEF InnerHandlerFirst
  <2>3. CASE c = o /\ j = Len(codes[o].handlers) + 1
    <3>1. /\ i \in DOMAIN codes[o].handlers /\ codes'[o].handlers[j] = h
          /\ codes'[o].handlers[i] = codes[o].handlers[i]
      BY <1>2, <1>5, <2>3
    <3>2. codes[o].handlers[i] \in Range(codes[o].handlers)
      BY <3>1 DEF Range
    <3>3. codes[o].handlers[i].end \in DOMAIN codes[o].code
      BY <3>2 DEF HandlersOrdered
    <3>4. h.end > codes[o].handlers[i].end
      BY <1>1, <3>3
    <3> QED
      BY <2>3, <3>1, <3>4
  <2> QED
    BY <1>2, <2>1, <2>2, <2>3
<1> QED
  BY <1>4, <1>5 DEF HandlersStart, HandlersOrdered, InnerHandlerFirst

\* Both parts of a code object are replaced.
BothSet(cs2, cs, o, new, hs) == cs2 = [cs EXCEPT ![o].code = new, ![o].handlers = hs]
BothAre(cs2, cs, o, new, hs) ==
  /\ cs2 \in Seq(CodeObject) /\ DOMAIN cs2 = DOMAIN cs
  /\ cs2[o].code = new /\ cs2[o].handlers = hs
  /\ \A c \in DOMAIN cs \ {o} : cs2[c] = cs[c]
\* The code object then has the new parts, the others are as they were.
LEMMA BothReplaced ==
  ASSUME NEW cs \in Seq(CodeObject), NEW o \in DOMAIN cs,
         NEW new \in Seq(Instruction), NEW hs \in Seq(Handler), NEW cs2,
         BothSet(cs2, cs, o, new, hs)
  PROVE  BothAre(cs2, cs, o, new, hs)
<1>1. /\ cs[o] \in CodeObject
  OBVIOUS
<1>2. PICK object : object = [code |-> new, handlers |-> hs]
  OBVIOUS
<1>3. object \in CodeObject /\ object.code = new /\ object.handlers = hs
  BY <1>2 DEF CodeObject
<1>4. PICK first : first = [cs EXCEPT ![o].code = new]
  OBVIOUS
<1>5. first[o] = [cs[o] EXCEPT !.code = new] /\ DOMAIN first = DOMAIN cs
  BY <1>4
<1>6. cs2 = [first EXCEPT ![o].handlers = hs]
  BY <1>4 DEF BothSet
<1>7. cs2[o] = [first[o] EXCEPT !.handlers = hs]
  BY <1>5, <1>6
<1>8. cs2[o] = object
  BY <1>1, <1>2, <1>5, <1>7 DEF CodeObject
<1>9. DOMAIN cs2 = DOMAIN cs /\ \A c \in DOMAIN cs \ {o} : cs2[c] = cs[c]
  BY <1>4, <1>6
<1>10. cs2 = [c \in DOMAIN cs |-> cs2[c]]
  BY <1>4, <1>6
<1>11. cs2 = [cs EXCEPT ![o] = object]
  BY <1>8, <1>9, <1>10
<1>12. cs2 \in Seq(CodeObject)
  BY <1>3, <1>11
<1> QED
  BY <1>3, <1>8, <1>9, <1>12 DEF BothAre

\* The code and the handlers at the end of a try statement.
LEMMA EndTryCode ==
  ASSUME CodesOK, NEW o, o = cur, NEW new \in Seq(Instruction),
         Len(Code) <= Len(new), \A a \in DOMAIN Code : new[a].op = Code[a].op,
         NEW hs \in Seq(Handler), BothSet(codes', codes, o, new, hs)
  PROVE  Writes(new, o) /\ Grows /\ codes'[o].handlers = hs
<1>1. codes \in Seq(CodeObject) /\ o \in DOMAIN codes /\ Code = codes[o].code
  BY DEF CodesOK, Code
<1>2. BothAre(codes', codes, o, new, hs)
  BY <1>1, BothReplaced
<1>3. Writes(new, o) /\ codes'[o].handlers = hs
  BY <1>2 DEF BothAre, Writes
<1>4. ASSUME NEW c \in DOMAIN codes
      PROVE  /\ Len(codes[c].code) <= Len(codes'[c].code)
             /\ \A a \in DOMAIN codes[c].code : codes'[c].code[a].op = codes[c].code[a].op
  <2>1. Len(codes[c].code) \in Nat
    BY CodeObjects
  <2>2. CASE c = o
    BY <1>1, <1>2, <2>2 DEF BothAre
  <2>3. CASE c # o
    <3>1. codes'[c] = codes[c]
      BY <1>2, <2>3 DEF BothAre
    <3> QED
      BY <2>1, <3>1
  <2> QED
    BY <2>2, <2>3
<1> QED
  BY <1>2, <1>3, <1>4 DEF Grows, BothAre

\* A try statement ends: the jumps out of its blocks are patched to END_TRY, and
\* its handler is registered.
LEMMA EndTryKeeps ==
  ASSUME CodeInv, EndTry
  PROVE  CodeInv'
<1>1. PICK at, target, p, new, o, h, hs :
        /\ at = Enclosing.ends /\ target = Offset
        /\ p = Patched(Code, at, target) /\ new = Append(p, I("END_TRY")) /\ o = cur
        /\ h = [start |-> Enclosing.start, first |-> Enclosing.first,
                end |-> EndAddress, finally |-> Enclosing.finally,
                catches |-> Enclosing.catches]
        /\ hs = Append(codes[o].handlers, h)
  OBVIOUS
<1>2. /\ phase = "compile" /\ phase' = "compile" /\ used' = used
      /\ open # <<>> /\ PopOpen /\ cur' = cur /\ states' = states
  BY DEF EndTry, End, Inside
<1>3. /\ Enclosing.kind \in {"handlers", "finally"}
      /\ Enclosing.kind = "finally" \/ Enclosing.catches # <<>>
  BY DEF EndTry, Inside
<1>4. BothSet(codes', codes, o, new, hs)
  BY <1>1 DEF EndTry, BothSet, Code, Register
<1>5. PICK home : CompilingAt(home)
  BY <1>2, SomeHome
<1>6. /\ CodesOK /\ HeldOK /\ StatesOK /\ HomesOK(home)
      /\ HandlersStart /\ HandlersOrdered /\ InnerHandlerFirst
  BY <1>5 DEF CompilingAt, CodeInv
<1>7. /\ home[Len(open) - 1] = o /\ home[Len(open)] = o /\ HoldsOK(Enclosing, o)
      /\ Enclosing \in OpenStatement /\ open[Len(open)] = Enclosing
      /\ Len(open) \in DOMAIN open /\ Len(open) \in Nat \ {0}
  BY <1>1, <1>2, <1>3, <1>5, HomeBelow
<1>8. /\ Code \in Seq(Instruction) /\ Len(Code) \in Nat /\ DOMAIN Code = 1 .. Len(Code)
      /\ target = Len(Code) + 1 /\ target \in Nat
      /\ o \in DOMAIN codes /\ Code = codes[o].code
  BY <1>1, <1>6, Offsets DEF CodesOK, Code
<1>9. p \in Seq(Instruction) /\ Len(p) = Len(Code) /\ PatchedTo(p, Code, at, target)
  <2>1. p = Patched(Code, at, target)
    BY <1>1
  <2> QED
    BY <1>8, <2>1, PatchedCode
<1>10. /\ new \in Seq(Instruction) /\ Len(new) = Len(Code) + 1 /\ DOMAIN new = 1 .. Len(Code) + 1
       /\ PatchedTo(new, Code, at, target) /\ new[target].op = "END_TRY"
  <2>1. PICK i \in Instruction : i = I("END_TRY") /\ i.op = "END_TRY"
    BY InstructionTypes DEF Ops
  <2>2. new = Append(p, i)
    BY <1>1, <2>1
  <2>3. /\ new \in Seq(Instruction) /\ Len(new) = Len(p) + 1 /\ DOMAIN new = 1 .. Len(p) + 1
        /\ \A a \in DOMAIN p : a \in DOMAIN new /\ new[a] = p[a]
        /\ new[Len(p) + 1] = i
    BY <1>9, <2>2
  <2>4. DOMAIN p = DOMAIN Code
    BY <1>8, <1>9
  <2>5. PatchedTo(new, Code, at, target)
    BY <1>9, <2>3, <2>4 DEF PatchedTo
  <2> QED
    BY <1>8, <1>9, <2>1, <2>3, <2>5
<1>11. /\ h \in Handler /\ h.start = Enclosing.start /\ h.first = Enclosing.first
       /\ h.end = target /\ h.finally = Enclosing.finally
  BY <1>1, <1>7, <1>8 DEF OpenStatement, Handler, EndAddress
<1>12. hs \in Seq(Handler)
  <2>1. codes[o].handlers \in Seq(Handler)
    BY <1>6, <1>8, CodeObjects
  <2> QED
    BY <1>1, <1>11, <2>1
<1>13. Writes(new, o) /\ Grows /\ codes'[o].handlers = hs
  <2>1. Len(Code) <= Len(new) /\ \A a \in DOMAIN Code : new[a].op = Code[a].op
    BY <1>8, <1>10 DEF PatchedTo
  <2>2. o = cur /\ new \in Seq(Instruction) /\ hs \in Seq(Handler)
    BY <1>1, <1>10, <1>12
  <2> QED
    BY <1>4, <1>6, <2>1, <2>2, EndTryCode
<1>14. /\ codes' \in Seq(CodeObject) /\ DOMAIN codes' = DOMAIN codes /\ codes'[o].code = new
       /\ \A c \in DOMAIN codes \ {o} : codes'[c] = codes[c]
  BY <1>13 DEF Writes
<1>15. /\ h.start \in DOMAIN Code /\ Code[h.start].op = "TRY"
       /\ h.start < h.first /\ h.first < h.end
       /\ h.finally # NoAddress => h.first < h.finally /\ h.finally <= h.end
       /\ \A i \in DOMAIN codes[o].handlers :
            LET g == codes[o].handlers[i] IN h.start < g.start \/ g.end < h.start
  <2>1. PICK e : e = Enclosing
    OBVIOUS
  <2>2. /\ e.kind \in {"handlers", "finally"}
        /\ e.kind = "finally" \/ e.catches # <<>>
        /\ HoldsOK(e, o) /\ e \in OpenStatement
        /\ h.start = e.start /\ h.first = e.first /\ h.finally = e.finally
    BY <1>3, <1>7, <1>11, <2>1
  <2>3. e.start \in Nat /\ e.first \in Nat /\ e.finally \in Nat
    BY <2>2 DEF OpenStatement
  <2>4. /\ e.start \in DOMAIN Code /\ Code[e.start].op = "TRY"
        /\ \A i \in DOMAIN codes[o].handlers :
             LET g == codes[o].handlers[i] IN e.start < g.start \/ g.end < e.start
    BY <1>8, <2>2 DEF HoldsOK, Tries
  <2>5. /\ e.start < e.first
        /\ e.catches # <<>> => e.first <= Len(Code)
        /\ e.kind = "finally" => e.catches # <<>> /\ e.first < e.finally /\ e.finally <= Len(Code) + 1
        /\ e.kind # "finally" => e.finally = NoAddress
    BY <1>8, <2>2 DEF HoldsOK
  <2>6. e.first <= Len(Code)
    BY <2>2, <2>5
  <2> QED
    BY <1>8, <1>11, <2>2, <2>3, <2>4, <2>5, <2>6
<1>16. HandlersStart' /\ HandlersOrdered' /\ InnerHandlerFirst'
  <2>1. /\ h.end = Len(codes[o].code) + 1 /\ h.end \in DOMAIN codes'[o].code
        /\ codes'[o].code[h.end].op = "END_TRY"
    BY <1>8, <1>10, <1>11, <1>14
  <2>2. /\ \A c \in DOMAIN codes \ {o} : codes'[c].handlers = codes[c].handlers
        /\ codes'[o].handlers = Append(codes[o].handlers, h)
    BY <1>1, <1>13, <1>14
  <2>3. h.start \in DOMAIN codes[o].code /\ codes[o].code[h.start].op = "TRY" /\ h \in Handler
    BY <1>8, <1>11, <1>15
  <2> QED
    BY <1>6, <1>8, <1>13, <1>14, <1>15, <2>1, <2>2, <2>3, HandlerAdded
<1>17. /\ open' \in Seq(OpenStatement) /\ Len(open') = Len(open) - 1
       /\ \A k \in DOMAIN open' : k \in DOMAIN open /\ open'[k] = open[k] /\ SameShape(k)
       /\ \A k \in DOMAIN open \ {Len(open)} : k \in DOMAIN open'
  BY <1>2, <1>6, PopOpens
<1>18. StatesOK' /\ HeldOK'
  <2>1. StatesOK'
    BY <1>2, <1>3, <1>6, PopStates DEF Loops
  <2> QED
    BY <1>2, <1>6, <1>17, <2>1 DEF HeldOK
<1>19. ASSUME NEW k \in DOMAIN open' PROVE HoldsOK(open[k], home[k])'
  <2>1. k \in DOMAIN open /\ k < Len(open) /\ home[k] \in DOMAIN codes /\ open[k] \in OpenStatement
    <3>1. /\ k \in DOMAIN open /\ DOMAIN open = 1 .. Len(open) /\ DOMAIN open' = 1 .. Len(open')
          /\ home \in [0 .. Len(open) -> DOMAIN codes]
      BY <1>5, <1>6, <1>17, HeldTypes DEF CompilingAt
    <3>2. open[k] \in OpenStatement
      BY <1>6, <3>1, HeldTypes
    <3> QED
      BY <1>7, <1>17, <3>1, <3>2
  <2>2. PICK s \in OpenStatement, c \in DOMAIN codes : s = open[k] /\ c = home[k]
    BY <2>1
  <2>3. HoldsOK(s, c)
    BY <1>6, <2>1, <2>2 DEF HomesOK
  <2>4. ASSUME s.kind \in Tries, NEW i \in DOMAIN codes'[c].handlers
        PROVE  s.start < codes'[c].handlers[i].start \/ codes'[c].handlers[i].end < s.start
    <3>1. CASE c # o
      <4>1. codes'[c].handlers = codes[c].handlers
        BY <1>14, <3>1
      <4> QED
        BY <2>3, <2>4, <4>1 DEF HoldsOK
    <3>2. CASE c = o
      <4>1. /\ codes[o].handlers \in Seq(Handler) /\ codes'[o].handlers = Append(codes[o].handlers, h)
        BY <1>1, <1>6, <1>8, <1>13, CodeObjects
      <4>2. CASE i \in DOMAIN codes[o].handlers
        <5>1. codes'[o].handlers[i] = codes[o].handlers[i]
          BY <4>1, <4>2
        <5> QED
          BY <2>3, <2>4, <3>2, <4>2, <5>1 DEF HoldsOK
      <4>3. CASE i \notin DOMAIN codes[o].handlers
        <5>1. codes'[o].handlers[i] = h
          BY <2>4, <3>2, <4>1, <4>3
        <5>2. {open[k].kind, open[Len(open)].kind} \subseteq Tries
          BY <1>3, <1>7, <2>2, <2>4 DEF Tries
        <5>3. open[k].start < open[Len(open)].start
          BY <1>6, <1>7, <2>1, <2>2, <3>2, <5>2 DEF HomesOK
        <5> QED
          BY <1>7, <1>11, <2>2, <3>2, <5>1, <5>3
      <4> QED
        BY <4>2, <4>3
    <3> QED
      BY <3>1, <3>2
  <2>5. HoldsOK(s, c)'
    BY <1>6, <1>13, <1>14, <2>3, <2>4, HoldsBeside
  <2>6. open'[k] = open[k]
    BY <1>17
  <2> QED
    BY <2>2, <2>5, <2>6
<1>20. ASSUME "jumpFunction" \notin used PROVE JumpsIn(new, home, o)'
  <2>1. ASSUME NEW a, Pending(home, o, a)
        PROVE  a \in at \cup {NoAddress} \/ Pending(home, o, a)'
    <3>1. CASE \E k \in DOMAIN open : home[k] = o /\ (a = open[k].exit \/ a \in open[k].ends)
      <4>1. PICK k \in DOMAIN open : home[k] = o /\ (a = open[k].exit \/ a \in open[k].ends)
        BY <3>1
      <4>2. CASE k = Len(open)
        <5>1. Enclosing.exit = NoAddress
          BY <1>3, <1>7 DEF HoldsOK, Tries
        <5> QED
          BY <1>1, <1>7, <4>1, <4>2, <5>1
      <4>3. CASE k # Len(open)
        BY <1>17, <4>1, <4>3 DEF Pending
      <4> QED
        BY <4>2, <4>3
    <3>2. CASE \E i \in DOMAIN states : home[states[i].depth] = o /\ a \in states[i].ends
      BY <1>2, <3>2 DEF Pending
    <3> QED
      BY <2>1, <3>1, <3>2 DEF Pending
  <2>2. PatchedTo(new, Code, at \cup {NoAddress}, target)
    BY <1>8, <1>10 DEF PatchedTo, NoAddress
  <2>3. target \in 1 .. Len(new) + 1
    BY <1>8, <1>10
  <2>4. \A a \in DOMAIN new \ DOMAIN Code : new[a].op \notin Jumps
    <3>1. \A a \in DOMAIN new \ DOMAIN Code : a = target
      BY <1>8, <1>10
    <3> QED
      BY <1>10, <3>1 DEF Jumps
  <2>5. new \in Seq(Instruction) /\ Len(Code) <= Len(new)
    BY <1>8, <1>10
  <2> QED
    BY <1>1, <1>5, <1>10, <1>20, <2>1, <2>2, <2>3, <2>4, <2>5, JumpsPatched
<1>21. Len(open') \in {Len(open), Len(open) - 1} /\ home[Len(open')] = o
  BY <1>7, <1>17
<1> QED
  BY <1>1, <1>2, <1>5, <1>13, <1>16, <1>17, <1>18, <1>19, <1>20, <1>21, StepEnds

-----------------------------------------------------------------------------
(* Functions and the program. *)

\* A function begins: it has a code object of its own.
LEMMA BeginFunctionKeeps ==
  ASSUME CodeInv, BeginFunction
  PROVE  CodeInv'
<1>1. PICK s, o, n : s = Statement("function", cur, NoAddress) /\ o = cur' /\ n = Len(open)
  OBVIOUS
<1>2. /\ phase = "compile" /\ phase' = "compile" /\ Using({})
      /\ codes' = Append(codes, EmptyCode) /\ o = Len(codes) + 1
      /\ Push(s) /\ states' = Append(states, State("FUNCTION", NoAddress, n + 1))
  BY <1>1 DEF BeginFunction, BeginCompound, BeginPlain, Begin
<1>3. PICK home : CompilingAt(home)
  BY <1>2, SomeHome
<1>4. /\ CodesOK /\ HandlersStart /\ HandlersOrdered /\ InnerHandlerFirst
      /\ HeldOK /\ StatesOK /\ HomesOK(home) /\ home \in [0 .. n -> DOMAIN codes]
  BY <1>1, <1>3 DEF CompilingAt, CodeInv
<1>5. codes \in Seq(CodeObject) /\ cur \in DOMAIN codes /\ cur \in Nat
  BY <1>4 DEF CodesOK
<1>6. EmptyCode \in CodeObject /\ EmptyCode.code = <<>> /\ EmptyCode.handlers = <<>>
  BY DEF EmptyCode, CodeObject
<1>7. /\ codes' \in Seq(CodeObject) /\ DOMAIN codes' = DOMAIN codes \cup {o}
      /\ o \in DOMAIN codes' /\ o \notin DOMAIN codes /\ codes'[o] = EmptyCode
      /\ \A c \in DOMAIN codes : codes'[c] = codes[c]
  BY <1>2, <1>5, <1>6
<1>8. Grows /\ SameHandlers
  <2>1. \A c \in DOMAIN codes : Len(codes[c].code) \in Nat
    BY <1>4, CodeObjects
  <2> QED
    BY <1>6, <1>7, <2>1 DEF Grows, SameHandlers
<1>9. HandlersStart' /\ HandlersOrdered' /\ InnerHandlerFirst'
  BY <1>4, <1>7, <1>8, HandlersKept
<1>10. CodesOK'
  BY <1>1, <1>2, <1>7 DEF CodesOK
<1>11. /\ s \in OpenStatement /\ s.kind = "function" /\ s.start = cur /\ s.exit = NoAddress
       /\ s.ends = {} /\ s.finally = NoAddress
  <2>1. "function" \in StatementKinds /\ NoAddress \in Nat
    BY DEF StatementKinds, NoAddress
  <2> QED
    BY <1>1, <1>5, <2>1, StatementType
<1>12. /\ open' \in Seq(OpenStatement) /\ Len(open') = n + 1 /\ DOMAIN open' = 1 .. n + 1
       /\ open'[n + 1] = s /\ DOMAIN open = 1 .. n /\ n \in Nat
       /\ \A k \in DOMAIN open : open'[k] = open[k]
  BY <1>1, <1>2, <1>4, <1>11, PushOpens, HeldTypes
<1>13. used \subseteq used' /\ used' \subseteq Features
  BY <1>2, <1>4, UsedGrows
<1>14. StatesOK' /\ HeldOK' /\ \A i \in DOMAIN states : i \in DOMAIN states' /\ states'[i] = states[i]
  <2>1. /\ open' = Append(open, s) /\ NoAddress \in Nat
        /\ states' = Append(states, State("FUNCTION", NoAddress, Len(open) + 1))
    BY <1>1, <1>2 DEF Push, NoAddress
  <2>2. StatesOK' /\ states' \in Seq(StackState)
    BY <1>4, <1>11, <2>1, StatesPush
  <2>3. \A i \in DOMAIN states : i \in DOMAIN states' /\ states'[i] = states[i]
    BY <1>4, <2>1 DEF HeldOK
  <2> QED
    BY <1>4, <1>12, <1>13, <2>2, <2>3 DEF HeldOK
<1>15. HoldsOK(s, o)'
  BY <1>11 DEF HoldsOK, Loops, Tries
<1>16. ASSUME NEW k \in DOMAIN open PROVE HoldsOK(open[k], home[k])'
  <2>1. home[k] \in DOMAIN codes /\ open[k] \in OpenStatement /\ HoldsOK(open[k], home[k])
    BY <1>4, <1>12, HeldTypes DEF HomesOK
  <2>2. PICK t \in OpenStatement, c \in DOMAIN codes : t = open[k] /\ c = home[k]
    BY <2>1
  <2>3. HoldsOK(t, c)'
    BY <1>4, <1>7, <1>8, <2>1, <2>2, HoldsKept DEF SameHandlers
  <2> QED
    BY <1>12, <2>2, <2>3
<1>17. PICK home2 : home2 = [k \in 0 .. Len(open') |-> IF k <= Len(open) THEN home[k] ELSE o]
  OBVIOUS
<1>18. /\ \A k \in 0 .. n : home2[k] = home[k]
       /\ home2 \in [0 .. n + 1 -> DOMAIN codes']
  <2>1. home2 = [k \in 0 .. n + 1 |-> IF k <= n THEN home[k] ELSE o]
    BY <1>1, <1>12, <1>17
  <2> QED
    BY <1>4, <1>7, <1>12, <2>1
<1>19. HomesOK(home2)'
  <2>1. \A k \in DOMAIN open :
          /\ open'[k].kind = open[k].kind /\ open'[k].start = open[k].start
          /\ HoldsOK(open[k], home[k])'
    BY <1>12, <1>16
  <2>2. /\ IF s.kind = "function" THEN s.start = cur ELSE cur' = cur
        /\ s.kind = "function" => s.start # o
        /\ s.kind # "catch" /\ StartsAfter(home, s)
        /\ s = open'[Len(open) + 1] /\ Len(open') = Len(open) + 1 /\ o = cur'
    BY <1>1, <1>5, <1>7, <1>11, <1>12 DEF Tries, StartsAfter
  <2>3. open \in Seq(OpenStatement)
    BY <1>4 DEF HeldOK
  <2> QED
    BY <1>4, <1>12, <1>15, <1>17, <2>1, <2>2, <2>3, HomesPush
<1>20. ASSUME "jumpFunction" \notin used' PROVE JumpsOK(home2)'
  <2>1. JumpsOK(home)
    BY <1>3, <1>13, <1>20 DEF CompilingAt
  <2>2. \A k \in DOMAIN open : k \in DOMAIN open' /\ home2[k] = home[k] /\ open'[k] = open[k]
    BY <1>12, <1>18
  <2>3. \A i \in DOMAIN states : home2[states[i].depth] = home[states[i].depth]
    BY <1>4, <2>2 DEF StatesOK
  <2>4. ASSUME NEW c, NEW a, Pending(home, c, a) PROVE Pending(home2, c, a)'
    <3>1. CASE \E k \in DOMAIN open : home[k] = c /\ (a = open[k].exit \/ a \in open[k].ends)
      BY <2>2, <3>1 DEF Pending
    <3>2. CASE \E i \in DOMAIN states : home[states[i].depth] = c /\ a \in states[i].ends
      BY <1>14, <2>3, <3>2 DEF Pending
    <3> QED
      BY <2>4, <3>1, <3>2 DEF Pending
  <2>5. ASSUME NEW c, Live(home, c) PROVE Live(home2, c)'
    <3>1. 0 .. n \subseteq 0 .. n + 1
      BY <1>12
    <3> QED
      BY <1>1, <1>12, <1>18, <2>5, <3>1 DEF Live
  <2>6. ASSUME NEW c \in DOMAIN codes', NEW a \in DOMAIN codes'[c].code,
               codes'[c].code[a].op \in Jumps
        PROVE  \/ codes'[c].code[a].arg \in DOMAIN codes'[c].code
               \/ codes'[c].code[a].arg = Len(codes'[c].code) + 1 /\ Live(home2, c)'
               \/ Pending(home2, c, a)'
    <3>1. c # o
      BY <1>6, <1>7, <2>6
    <3>2. c \in DOMAIN codes /\ codes'[c] = codes[c]
      BY <1>7, <3>1
    <3> QED
      BY <2>1, <2>4, <2>5, <2>6, <3>2 DEF JumpsOK
  <2> QED
    BY <2>6 DEF JumpsOK
<1> QED
  BY <1>2, <1>9, <1>10, <1>12, <1>14, <1>18, <1>19, <1>20 DEF CodeInv, Compiling

\* Instructions are appended to two code objects.
TwoSet(cs2, cs, o, A, p, B) == cs2 = [cs EXCEPT ![o].code = @ \o A, ![p].code = @ \o B]
TwoAre(cs2, cs, o, A, p, B) ==
  /\ cs2 \in Seq(CodeObject) /\ DOMAIN cs2 = DOMAIN cs
  /\ cs2[o].code = cs[o].code \o A /\ cs2[o].handlers = cs[o].handlers
  /\ cs2[p].code = cs[p].code \o B /\ cs2[p].handlers = cs[p].handlers
  /\ \A c \in DOMAIN cs \ {o, p} : cs2[c] = cs[c]
\* Both are longer, the others are as they were.
LEMMA TwoReplaced ==
  ASSUME NEW cs \in Seq(CodeObject), NEW o \in DOMAIN cs, NEW p \in DOMAIN cs, o # p,
         NEW A \in Seq(Instruction), NEW B \in Seq(Instruction),
         NEW cs2, TwoSet(cs2, cs, o, A, p, B)
  PROVE  TwoAre(cs2, cs, o, A, p, B)
<1>1. cs[o] \in CodeObject /\ cs[p] \in CodeObject
  OBVIOUS
<1>2. cs[o].code \in Seq(Instruction) /\ cs[p].code \in Seq(Instruction)
  BY <1>1 DEF CodeObject
<1>3. PICK x, y : x = cs[o].code \o A /\ y = cs[p].code \o B
  OBVIOUS
<1>4. x \in Seq(Instruction) /\ y \in Seq(Instruction)
  BY <1>2, <1>3
<1>5. PICK u, v : u = [cs[o] EXCEPT !.code = x] /\ v = [cs[p] EXCEPT !.code = y]
  OBVIOUS
<1>6. /\ u \in CodeObject /\ u.code = x /\ u.handlers = cs[o].handlers
      /\ v \in CodeObject /\ v.code = y /\ v.handlers = cs[p].handlers
  BY <1>1, <1>4, <1>5 DEF CodeObject
<1>7. /\ DOMAIN cs2 = DOMAIN cs /\ cs2[o] = u /\ cs2[p] = v
      /\ \A c \in DOMAIN cs \ {o, p} : cs2[c] = cs[c]
  BY <1>3, <1>5 DEF TwoSet
<1>8. cs2 = [c \in DOMAIN cs |-> cs2[c]]
  BY DEF TwoSet
<1>9. PICK first : first = [cs EXCEPT ![o] = u]
  OBVIOUS
<1>10. /\ first \in Seq(CodeObject) /\ DOMAIN first = DOMAIN cs /\ first[o] = u
       /\ \A c \in DOMAIN cs \ {o} : first[c] = cs[c]
  BY <1>6, <1>9
<1>11. cs2 = [first EXCEPT ![p] = v]
  BY <1>7, <1>8, <1>10
<1>12. cs2 \in Seq(CodeObject)
  BY <1>6, <1>10, <1>11
<1> QED
  BY <1>3, <1>6, <1>7, <1>12 DEF TwoAre

\* A function ends: its code returns, and what is around it makes the function.
LEMMA EndFunctionKeeps ==
  ASSUME CodeInv, EndFunction
  PROVE  CodeInv'
<1>1. PICK o, p, n, m, A, B :
        /\ o = cur /\ p = Enclosing.start /\ n = Len(open) /\ m = Len(open) - 1
        /\ A = <<I("LOAD_CONST"), I("RETURN")>>
        /\ B = <<Ia("LOAD_CONST", o), I("MAKE_FUNCTION"), I("STORE")>>
  OBVIOUS
<1>2. /\ phase = "compile" /\ phase' = "compile" /\ used' = used
      /\ open # <<>> /\ Enclosing.kind = "function"
      /\ TwoSet(codes', codes, o, A, p, B)
      /\ cur' = p /\ PopOpen /\ states' = Front(states)
  BY <1>1 DEF EndFunction, End, Inside, TwoSet
<1>3. PICK home : CompilingAt(home)
  BY <1>2, SomeHome
<1>4. /\ CodesOK /\ HandlersStart /\ HandlersOrdered /\ InnerHandlerFirst
      /\ HeldOK /\ StatesOK /\ HomesOK(home) /\ home \in [0 .. n -> DOMAIN codes]
  BY <1>1, <1>3 DEF CompilingAt, CodeInv
<1>5. /\ n \in DOMAIN open /\ n \in Nat \ {0} /\ open[n] = Enclosing /\ Enclosing \in OpenStatement
      /\ DOMAIN open = 1 .. n /\ m = n - 1 /\ m \in Nat
  BY <1>1, <1>2, <1>4, HeldTypes, EmptySeq DEF HeldOK, Enclosing
<1>6. /\ home[n] = o /\ home[m] = p /\ o # p /\ HoldsOK(Enclosing, o)
  <2>1. home[n] = o
    BY <1>1, <1>4 DEF HomesOK
  <2>2. /\ HoldsOK(open[n], home[n])
        /\ open[n].kind = "function" => open[n].start = home[n - 1] /\ home[n] # home[n - 1]
    BY <1>4, <1>5 DEF HomesOK
  <2> QED
    BY <1>1, <1>2, <1>5, <2>1, <2>2
<1>7. Enclosing.exit = NoAddress /\ Enclosing.ends = {}
  BY <1>2, <1>6 DEF HoldsOK
<1>8. o \in DOMAIN codes /\ p \in DOMAIN codes /\ codes \in Seq(CodeObject) /\ o \in Nat
  <2>1. m \in 0 .. n /\ n \in 0 .. n
    BY <1>5
  <2> QED
    BY <1>4, <1>6, <2>1 DEF CodesOK
<1>9. A \in Seq(Instruction) /\ B \in Seq(Instruction) /\ Len(A) = 2 /\ Len(B) = 3
  BY <1>1, <1>8, InstructionTypes DEF Ops
<1>10. /\ \A b \in DOMAIN A : A[b].op \notin Jumps
       /\ \A b \in DOMAIN B : B[b].op \notin Jumps
  <2>1. \A b \in DOMAIN A : A[b].op \notin Jumps
    BY <1>1, InstructionTypes DEF Ops, Jumps
  <2>2. \A b \in DOMAIN B : B[b].op \notin Jumps
    BY <1>1, <1>8, InstructionTypes DEF Ops, Jumps
  <2> QED
    BY <2>1, <2>2
<1>11. /\ codes' \in Seq(CodeObject) /\ DOMAIN codes' = DOMAIN codes
       /\ codes'[o].code = codes[o].code \o A /\ codes'[o].handlers = codes[o].handlers
       /\ codes'[p].code = codes[p].code \o B /\ codes'[p].handlers = codes[p].handlers
       /\ \A c \in DOMAIN codes \ {o, p} : codes'[c] = codes[c]
  <2>1. TwoSet(codes', codes, o, A, p, B) /\ o # p
    BY <1>2, <1>6
  <2>2. TwoAre(codes', codes, o, A, p, B)
    BY <1>8, <1>9, <2>1, TwoReplaced
  <2> QED
    BY <2>2 DEF TwoAre
<1>12. /\ Longer(codes'[o].code, codes[o].code, A)
       /\ Longer(codes'[p].code, codes[p].code, B)
  <2>1. codes[o].code \in Seq(Instruction) /\ codes[p].code \in Seq(Instruction)
    BY <1>4, <1>8, CodeObjects
  <2> QED
    BY <1>9, <1>11, <2>1, EmittedCode
\* What was there is still there, and what comes next in o or p is no jump.
<1>13. ASSUME NEW c \in {o, p}
       PROVE  /\ Len(codes[c].code) \in Nat /\ Len(codes'[c].code) > Len(codes[c].code)
              /\ Len(codes'[c].code) \in Nat
              /\ \A a \in DOMAIN codes[c].code : codes'[c].code[a] = codes[c].code[a]
              /\ \A a \in DOMAIN codes'[c].code \ DOMAIN codes[c].code :
                   codes'[c].code[a].op \notin Jumps
  <2>1. Len(codes[c].code) \in Nat
    BY <1>4, <1>8, CodeObjects
  <2>2. CASE c = o
    BY <1>9, <1>10, <1>12, <2>1, <2>2 DEF Longer
  <2>3. CASE c = p
    BY <1>9, <1>10, <1>12, <2>1, <2>3 DEF Longer
  <2> QED
    BY <2>2, <2>3
<1>14. Grows /\ SameHandlers
  <2>1. \A c \in DOMAIN codes : Len(codes[c].code) \in Nat
    BY <1>4, CodeObjects
  <2>2. ASSUME NEW c \in DOMAIN codes
        PROVE  /\ Len(codes[c].code) <= Len(codes'[c].code)
               /\ \A a \in DOMAIN codes[c].code : codes'[c].code[a].op = codes[c].code[a].op
               /\ codes'[c].handlers = codes[c].handlers
    <3>1. CASE c \in {o, p}
      BY <1>11, <1>13, <3>1
    <3>2. CASE c \notin {o, p}
      BY <1>11, <2>1, <3>2
    <3> QED
      BY <3>1, <3>2
  <2> QED
    BY <1>11, <2>2 DEF Grows, SameHandlers
<1>15. HandlersStart' /\ HandlersOrdered' /\ InnerHandlerFirst'
  BY <1>4, <1>11, <1>14, HandlersKept
<1>16. CodesOK'
  BY <1>2, <1>8, <1>11 DEF CodesOK
<1>17. /\ open' \in Seq(OpenStatement) /\ Len(open') = m
       /\ \A k \in DOMAIN open' : k \in DOMAIN open /\ open'[k] = open[k] /\ SameShape(k)
       /\ \A k \in DOMAIN open \ {n} : k \in DOMAIN open'
  BY <1>1, <1>2, <1>4, PopOpens
<1>18. StatesOK' /\ states' \in Seq(StackState)
  BY <1>2, <1>4, StatesPop
<1>19. HeldOK'
  BY <1>2, <1>4, <1>17, <1>18 DEF HeldOK
<1>20. ASSUME NEW k \in DOMAIN open' PROVE HoldsOK(open[k], home[k])'
  <2>1. k \in DOMAIN open /\ open'[k] = open[k]
    BY <1>17
  <2>2. k \in 0 .. n
    BY <1>5, <2>1
  <2>3. home[k] \in DOMAIN codes /\ open[k] \in OpenStatement /\ HoldsOK(open[k], home[k])
    BY <1>4, <2>1, <2>2, HeldTypes DEF HomesOK
  <2>4. PICK s \in OpenStatement, c \in DOMAIN codes : s = open[k] /\ c = home[k]
    BY <2>3
  <2>5. HoldsOK(s, c)'
    BY <1>4, <1>11, <1>14, <2>3, <2>4, HoldsKept DEF SameHandlers
  <2> QED
    BY <2>1, <2>4, <2>5
<1>21. PICK home2 : home2 = [k \in 0 .. Len(open') |-> home[k]]
  OBVIOUS
<1>22. /\ \A k \in 0 .. m : home2[k] = home[k]
       /\ home2 \in [0 .. m -> DOMAIN codes']
  <2>1. home2 = [k \in 0 .. m |-> home[k]]
    BY <1>17, <1>21
  <2>2. 0 .. m \subseteq 0 .. n
    BY <1>5
  <2> QED
    BY <1>4, <1>11, <2>1, <2>2
<1>23. HomesOK(home2)'
  <2>1. open \in Seq(OpenStatement) /\ Len(open') <= Len(open) /\ cur' = home[Len(open')]
    BY <1>1, <1>2, <1>4, <1>5, <1>6, <1>17 DEF HeldOK
  <2>2. \A k \in DOMAIN open' : SameShape(k) /\ HoldsOK(open[k], home[k])'
    BY <1>17, <1>20
  <2> QED
    BY <1>4, <1>17, <1>21, <2>1, <2>2, HomesShrink
<1>24. ASSUME "jumpFunction" \notin used PROVE JumpsOK(home2)'
  <2>1. JumpsOK(home)
    BY <1>3, <1>24 DEF CompilingAt
  <2>2. \A k \in 0 .. n \ {n} : k \in 0 .. m
    BY <1>5
  <2>3. ASSUME NEW k \in DOMAIN open, k # n
        PROVE  k \in DOMAIN open' /\ open'[k] = open[k] /\ home2[k] = home[k]
    <3>1. k \in DOMAIN open' /\ open'[k] = open[k]
      BY <1>17, <2>3
    <3>2. k \in 0 .. m
      BY <1>5, <2>3
    <3> QED
      BY <1>22, <3>1, <3>2
  <2>4. ASSUME NEW i \in DOMAIN states, states[i].ends # {}
        PROVE  /\ i \in DOMAIN states' /\ states'[i] = states[i] /\ states[i].depth # n
               /\ states[i].depth \in DOMAIN open
    <3>1. /\ states[i] \in StackState /\ states[i].depth \in DOMAIN open
          /\ states[i].type = "FUNCTION" => states[i].ends = {}
          /\ states[i].type = "LOOP" => open[states[i].depth].kind \in Loops
      BY <1>4, HeldTypes DEF StatesOK
    <3>2. states[i].type = "LOOP"
      BY <2>4, <3>1 DEF StackState
    <3>3. states[i].depth # n
      BY <1>2, <1>5, <3>1, <3>2 DEF Loops
    <3>4. states # <<>> /\ states[Len(states)].depth = n
      BY <1>1, <1>2, <1>4, LastState
    <3>5. /\ states \in Seq(StackState) /\ DOMAIN states = 1 .. Len(states)
          /\ Len(states') = Len(states) - 1 /\ DOMAIN states' = 1 .. Len(states')
          /\ Len(states) \in Nat
          /\ \A j \in 1 .. Len(states) - 1 : states'[j] = states[j]
      BY <1>2, <1>4, <1>18, <3>4, Fronts DEF HeldOK
    <3>6. i # Len(states)
      BY <3>3, <3>4
    <3> QED
      BY <3>1, <3>3, <3>5, <3>6
  <2>5. ASSUME NEW c \in DOMAIN codes, NEW a \in DOMAIN codes[c].code, Pending(home, c, a)
        PROVE  Pending(home2, c, a)'
    <3>1. CASE \E k \in DOMAIN open : home[k] = c /\ (a = open[k].exit \/ a \in open[k].ends)
      <4>1. PICK k \in DOMAIN open : home[k] = c /\ (a = open[k].exit \/ a \in open[k].ends)
        BY <3>1
      <4>2. a # NoAddress
        BY <1>4, CodeObjects DEF NoAddress
      <4>3. k # n
        BY <1>5, <1>7, <4>1, <4>2
      <4> QED
        BY <2>3, <4>1, <4>3 DEF Pending
    <3>2. CASE \E i \in DOMAIN states : home[states[i].depth] = c /\ a \in states[i].ends
      <4>1. PICK i \in DOMAIN states : home[states[i].depth] = c /\ a \in states[i].ends
        BY <3>2
      <4>2. /\ i \in DOMAIN states' /\ states'[i] = states[i] /\ states[i].depth # n
            /\ states[i].depth \in DOMAIN open
        BY <2>4, <4>1
      <4>3. home2[states[i].depth] = home[states[i].depth]
        BY <2>3, <4>2
      <4> QED
        BY <4>1, <4>2, <4>3 DEF Pending
    <3> QED
      BY <2>5, <3>1, <3>2 DEF Pending
  <2>6. ASSUME NEW c, c # o, Live(home, c) PROVE Live(home2, c)'
    <3>1. PICK k \in 0 .. n : home[k] = c
      BY <1>1, <2>6 DEF Live
    <3>2. k # n
      BY <1>6, <2>6, <3>1
    <3>3. k \in 0 .. m /\ home2[k] = c
      BY <1>22, <2>2, <3>1, <3>2
    <3> QED
      BY <1>17, <3>3 DEF Live
  <2>7. ASSUME NEW c \in DOMAIN codes', NEW a \in DOMAIN codes'[c].code,
               codes'[c].code[a].op \in Jumps
        PROVE  \/ codes'[c].code[a].arg \in DOMAIN codes'[c].code
               \/ codes'[c].code[a].arg = Len(codes'[c].code) + 1 /\ Live(home2, c)'
               \/ Pending(home2, c, a)'
    <3>1. CASE c \in {o, p}
      <4>1. a \in DOMAIN codes[c].code /\ codes'[c].code[a] = codes[c].code[a]
        BY <1>13, <2>7, <3>1
      <4>2. \/ codes[c].code[a].arg \in DOMAIN codes[c].code
            \/ codes[c].code[a].arg = Len(codes[c].code) + 1
            \/ Pending(home, c, a)
        BY <1>8, <2>1, <2>7, <3>1, <4>1 DEF JumpsOK
      <4>3. /\ DOMAIN codes[c].code = 1 .. Len(codes[c].code)
            /\ DOMAIN codes'[c].code = 1 .. Len(codes'[c].code)
        BY <1>4, <1>8, <1>11, <1>14, <3>1, CodeObjects, GrownDomain
      <4>4. /\ Len(codes[c].code) \in Nat /\ Len(codes'[c].code) \in Nat
            /\ Len(codes'[c].code) > Len(codes[c].code)
        BY <1>13, <3>1
      <4>5. CASE Pending(home, c, a)
        BY <1>8, <2>5, <3>1, <4>1, <4>5
      <4>6. CASE codes[c].code[a].arg \in 1 .. Len(codes[c].code) + 1
        BY <4>1, <4>3, <4>4, <4>6
      <4> QED
        BY <4>2, <4>3, <4>4, <4>5, <4>6
    <3>2. CASE c \notin {o, p}
      <4>1. c \in DOMAIN codes /\ codes'[c] = codes[c] /\ c # o
        BY <1>11, <3>2
      <4> QED
        BY <2>1, <2>5, <2>6, <2>7, <4>1 DEF JumpsOK
    <3> QED
      BY <3>1, <3>2
  <2> QED
    BY <2>7 DEF JumpsOK
<1> QED
  BY <1>2, <1>15, <1>16, <1>17, <1>18, <1>19, <1>22, <1>23, <1>24 DEF CodeInv, Compiling

\* The program ends: nothing is open, nothing is to be patched.
LEMMA FinishKeeps ==
  ASSUME CodeInv, Finish
  PROVE  CodeInv'
<1>1. PICK o, more, new :
        o = cur /\ more = <<I("EVAL"), I("RETURN")>> /\ new = Code \o more
  OBVIOUS
<1>2. /\ phase = "compile" /\ phase' = "run" /\ used' = used
      /\ open = <<>> /\ Emit(more) /\ cur' = cur
  BY <1>1 DEF Finish
<1>3. PICK home : CompilingAt(home)
  BY <1>2, SomeHome
<1>4. /\ CodesOK /\ HandlersStart /\ HandlersOrdered /\ InnerHandlerFirst
      /\ HeldOK /\ StatesOK /\ HomesOK(home)
  BY <1>3 DEF CompilingAt, CodeInv
<1>5. more \in Seq(Instruction) /\ Len(more) = 2
  BY <1>1, InstructionTypes DEF Ops
<1>6. \A b \in DOMAIN more : more[b].op \notin Jumps
  BY <1>1, InstructionTypes DEF Ops, Jumps
<1>7. Rewrites(new) /\ Longer(new, Code, more)
  BY <1>1, <1>2, <1>4, <1>5, EmitRewrites
<1>8. /\ codes' \in Seq(CodeObject) /\ DOMAIN codes' = DOMAIN codes
      /\ codes'[o].code = new
      /\ \A c \in DOMAIN codes \ {o} : codes'[c] = codes[c]
      /\ Grows /\ SameHandlers
  BY <1>1, <1>4, <1>7, SetCodeGrows
<1>9. HandlersStart' /\ HandlersOrdered' /\ InnerHandlerFirst'
  BY <1>4, <1>8, HandlersKept
<1>10. CodesOK'
  BY <1>2, <1>4, <1>8 DEF CodesOK
<1>11. \A c, a : ~Pending(home, c, a)
  BY <1>2, <1>4 DEF Pending, StatesOK
<1>12. \A c : Live(home, c) => c = o
  <2>1. Len(open) = 0 /\ home[Len(open)] = o
    BY <1>1, <1>2, <1>4 DEF HomesOK
  <2> QED
    BY <2>1 DEF Live
<1>13. ASSUME "jumpFunction" \notin used PROVE JumpsLand'
  <2>1. JumpsOK(home)
    BY <1>3, <1>13 DEF CompilingAt
  <2>2. ASSUME NEW c \in DOMAIN codes', NEW a \in DOMAIN codes'[c].code,
               codes'[c].code[a].op \in Jumps
        PROVE  codes'[c].code[a].arg \in DOMAIN codes'[c].code
    <3>1. CASE c = o
      <4>1. /\ Len(Code) \in Nat /\ DOMAIN Code = 1 .. Len(Code) /\ Code = codes[o].code
            /\ new \in Seq(Instruction) /\ DOMAIN new = 1 .. Len(new) /\ Len(new) = Len(Code) + 2
        BY <1>1, <1>4, <1>5, <1>7, Offsets DEF Rewrites, Longer, Code
      <4>2. a \in DOMAIN Code /\ new[a] = Code[a]
        BY <1>6, <1>7, <1>8, <2>2, <3>1 DEF Longer
      <4>3. Code[a].arg \in 1 .. Len(Code) + 1
        <5>1. a \in DOMAIN codes[o].code /\ codes[o].code[a].op \in Jumps /\ o \in DOMAIN codes
          BY <1>8, <2>2, <3>1, <4>1, <4>2
        <5> QED
          BY <1>11, <2>1, <4>1, <5>1 DEF JumpsOK
      <4> QED
        BY <1>8, <3>1, <4>1, <4>2, <4>3
    <3>2. CASE c # o
      <4>1. c \in DOMAIN codes /\ codes'[c] = codes[c]
        BY <1>8, <3>2
      <4> QED
        BY <1>11, <1>12, <2>1, <2>2, <3>2, <4>1 DEF JumpsOK
    <3> QED
      BY <3>1, <3>2
  <2> QED
    BY <2>2 DEF JumpsLand, CodesOf
<1>14. used' \subseteq Features
  BY <1>2, <1>4 DEF HeldOK
<1> QED
  BY <1>2, <1>9, <1>10, <1>13, <1>14 DEF CodeInv

-----------------------------------------------------------------------------
(* Every step. *)

\* A program that has no code yet.
LEMMA CodeInvInit ==
  ASSUME Init
  PROVE  CodeInv
<1>1. /\ codes = <<EmptyCode>> /\ cur = 1 /\ states = <<>> /\ open = <<>> /\ used = {}
      /\ phase = "compile"
  BY DEF Init, CompilerInit
<1>2. EmptyCode \in CodeObject /\ EmptyCode.code = <<>> /\ EmptyCode.handlers = <<>>
  BY DEF EmptyCode, CodeObject
<1>3. codes \in Seq(CodeObject) /\ DOMAIN codes = {1} /\ codes[1] = EmptyCode
  BY <1>1, <1>2
<1>4. CodesOK
  BY <1>1, <1>3 DEF CodesOK
<1>5. HandlersStart /\ HandlersOrdered /\ InnerHandlerFirst
  BY <1>2, <1>3 DEF HandlersStart, HandlersOrdered, InnerHandlerFirst, Range
<1>6. HeldOK /\ StatesOK
  BY <1>1 DEF HeldOK, StatesOK
<1>7. PICK home : home = [k \in 0 .. Len(open) |-> 1]
  OBVIOUS
<1>8. Len(open) = 0 /\ DOMAIN open = {}
  BY <1>1
<1>9. home \in [0 .. Len(open) -> DOMAIN codes] /\ home[0] = 1
  BY <1>3, <1>7, <1>8
<1>10. HomesOK(home)
  BY <1>1, <1>8, <1>9 DEF HomesOK
<1>11. JumpsOK(home)
  BY <1>2, <1>3 DEF JumpsOK
<1> QED
  BY <1>1, <1>4, <1>5, <1>6, <1>9, <1>10, <1>11 DEF CodeInv, Compiling

\* A statement, or the edge of one, is compiled.
LEMMA CompileKeeps ==
  ASSUME CodeInv, Compile
  PROVE  CodeInv'
<1>1. CASE ExpressionStatement
  BY <1>1, ExpressionKeeps
<1>2. CASE BeginWhile
  BY <1>2, BeginWhileKeeps
<1>3. CASE BeginForEach
  BY <1>3, BeginForEachKeeps
<1>4. CASE EndLoop
  BY <1>4, EndLoopKeeps
<1>5. CASE Break
  BY <1>5, BreakKeeps
<1>6. CASE Continue
  BY <1>6, ContinueKeeps
<1>7. CASE BeginIf
  BY <1>7, BeginIfKeeps
<1>8. CASE Else
  BY <1>8, ElseKeeps
<1>9. CASE EndIf
  BY <1>9, EndIfKeeps
<1>10. CASE Return
  BY <1>10, ReturnKeeps
<1>11. CASE Raise
  BY <1>11, RaiseKeeps
<1>12. CASE BeginTry
  BY <1>12, BeginTryKeeps
<1>13. CASE EndTryBlock
  BY <1>13, EndTryBlockKeeps
<1>14. ASSUME NEW type \in Types, NEW name \in CatchNames \cup {NoName}, BeginCatch(type, name)
       PROVE  CodeInv'
  BY <1>14, BeginCatchKeeps
<1>15. CASE EndCatch
  BY <1>15, EndCatchKeeps
<1>16. CASE BeginFinally
  BY <1>16, BeginFinallyKeeps
<1>17. CASE EndTry
  BY <1>17, EndTryKeeps
<1>18. CASE BeginFunction
  BY <1>18, BeginFunctionKeeps
<1>19. CASE EndFunction
  BY <1>19, EndFunctionKeeps
<1>20. CASE Finish
  BY <1>20, FinishKeeps
<1> QED
  BY <1>1, <1>2, <1>3, <1>4, <1>5, <1>6, <1>7, <1>8, <1>9, <1>10, <1>11, <1>12, <1>13,
     <1>14, <1>15, <1>16, <1>17, <1>18, <1>19, <1>20 DEF Compile

\* A step of execute leaves the code alone; error: is reached with an exception.
RunStep ==
  /\ phase \in {"run", "error"} /\ phase' \in {"run", "error", "done"}
  /\ UNCHANGED compilerVars
  /\ used \subseteq used' /\ (used \subseteq Features => used' \subseteq Features)
  /\ ErrorHasException => ErrorHasException'

\* An instruction fails with a new exception.
LEMMA FailStep ==
  ASSUME NEW sp, Fail(sp), phase \in {"run", "error"}
  PROVE  RunStep
BY ProgramAssumption DEF Fail, RunStep, ErrorHasException, NoException

\* An instruction that does not fail, after which execute goes on or returns.
LEMMA SameStep ==
  ASSUME Same, phase \in {"run", "error"},
         phase' \in {"run", "done"} \/ (phase' = "error" /\ phase = "error")
  PROVE  RunStep
BY DEF Same, RunStep, ErrorHasException

\* The instructions one by one.
LEMMA RunSteps ==
  ASSUME Run
  PROVE  RunStep
<1> USE DEF Executing
<1>1. CASE Eval
  BY <1>1, SameStep DEF Eval, PushTo
<1>2. CASE EvalFails
  BY <1>2, FailStep DEF EvalFails
<1>3. ASSUME NEW c \in defined, Call(c) PROVE RunStep
  BY <1>3 DEF Call, Using, RunStep, ErrorHasException
<1>4. CASE Pop
  BY <1>4, SameStep DEF Pop, PopTo
<1>5. CASE Store
  BY <1>5, SameStep DEF Store
<1>6. CASE Delete
  BY <1>6, SameStep DEF Delete
<1>7. CASE DeleteFails
  BY <1>7, FailStep DEF DeleteFails
<1>8. CASE Load
  BY <1>8, SameStep DEF Load, PushTo
<1>9. CASE LoadFails
  BY <1>9, ProgramAssumption DEF LoadFails, RunStep, ErrorHasException, NoException
<1>10. CASE MakeFunction
  BY <1>10 DEF MakeFunction, PopTo, RunStep, ErrorHasException
<1>11. CASE Jump
  BY <1>11, SameStep DEF Jump, PopTo
<1>12. CASE JumpIfFalse
  BY <1>12, SameStep DEF JumpIfFalse, PopTo
<1>13. CASE JumpIfFalseFails
  BY <1>13 DEF JumpIfFalseFails, RunStep, ErrorHasException
<1>14. CASE GetIter
  BY <1>14, SameStep DEF GetIter
<1>15. CASE GetIterFails
  BY <1>15, FailStep DEF GetIterFails
<1>16. CASE ForEach
  BY <1>16, SameStep DEF ForEach, PushTo, PopTo
<1>17. CASE ForEachFails
  BY <1>17, FailStep DEF ForEachFails
<1>18. CASE ReturnValue
  <2>1. phase = "run" /\ phase' \in {"run", "done"} /\ Same
    BY <1>18 DEF ReturnValue
  <2> QED
    BY <2>1, SameStep
<1>19. CASE RaiseException
  BY <1>19, FailStep DEF RaiseException
<1>20. CASE EnterTry
  BY <1>20 DEF EnterTry, RunStep, ErrorHasException
<1>21. CASE CatchMatches
  BY <1>21 DEF CatchMatches, RunStep, ErrorHasException
<1>22. CASE CatchDoesNot
  BY <1>22, SameStep DEF CatchDoesNot, PopTo
<1>23. CASE LeaveTry
  BY <1>23 DEF LeaveTry, Resumes, RunStep, ErrorHasException
<1>24. CASE HandleError
  BY <1>24, SameStep DEF HandleError
<1>25. CASE Propagate
  <2>1. phase = "error" /\ phase' \in {"error", "done"} /\ Same
    BY <1>25 DEF Propagate
  <2> QED
    BY <2>1, SameStep
<1> QED
  BY <1>1, <1>2, <1>3, <1>4, <1>5, <1>6, <1>7, <1>8, <1>9, <1>10, <1>11, <1>12, <1>13, <1>14,
     <1>15, <1>16, <1>17, <1>18, <1>19, <1>20, <1>21, <1>22, <1>23, <1>24, <1>25 DEF Run

\* The step does not touch what the compiler wrote.
LEMMA CodeUntouched ==
  ASSUME CodeInv, UNCHANGED compilerVars, used \subseteq used',
         used \subseteq Features => used' \subseteq Features,
         \/ phase \in {"run", "error"} /\ phase' \in {"run", "error", "done"}
         \/ phase' = phase /\ used' = used
  PROVE  CodeInv'
<1>1. codes' = codes /\ cur' = cur /\ states' = states /\ open' = open
  BY DEF compilerVars
<1>2. CodesOK'
  BY <1>1 DEF CodeInv, CodesOK
<1>3. HandlersStart' /\ HandlersOrdered' /\ InnerHandlerFirst'
  BY <1>1 DEF CodeInv, HandlersStart, HandlersOrdered, InnerHandlerFirst
<1>4. JumpsLand => JumpsLand'
  BY <1>1 DEF JumpsLand, CodesOf
<1>5. ASSUME phase' = "compile" PROVE Compiling'
  <2>1. phase = "compile" /\ used' = used
    BY <1>5
  <2>2. PICK home : CompilingAt(home)
    BY <2>1, SomeHome
  <2>3. HeldOK' /\ StatesOK'
    BY <1>1, <2>1, <2>2 DEF CompilingAt, HeldOK, StatesOK
  <2>4. home \in [0 .. Len(open') -> DOMAIN codes'] /\ HomesOK(home)'
    BY <1>1, <2>2 DEF CompilingAt, HomesOK, HoldsOK
  <2>5. "jumpFunction" \notin used' => JumpsOK(home)'
    BY <1>1, <2>1, <2>2 DEF CompilingAt, JumpsOK, Live, Pending
  <2> QED
    BY <2>3, <2>4, <2>5 DEF Compiling
<1>6. ASSUME phase' # "compile"
      PROVE  used' \subseteq Features /\ ("jumpFunction" \notin used' => JumpsLand')
  BY <1>4, <1>6 DEF CodeInv
<1> QED
  BY <1>2, <1>3, <1>5, <1>6 DEF CodeInv

\* CodeInv is inductive.
THEOREM CodeInvHolds == Spec => []CodeInv
<1>1. Init => CodeInv
  BY CodeInvInit
<1>2. CodeInv /\ [Next]_vars => CodeInv'
  <2> SUFFICES ASSUME CodeInv, [Next]_vars PROVE CodeInv'
    OBVIOUS
  <2>1. CASE Compile
    BY <2>1, CompileKeeps
  <2>2. CASE Run
    BY <2>2, RunSteps, CodeUntouched DEF RunStep
  <2>3. CASE UNCHANGED vars
    BY <2>3, CodeUntouched DEF vars
  <2> QED
    BY <2>1, <2>2, <2>3 DEF Next
<1> QED
  BY <1>1, <1>2, PTL DEF Spec

\* The code objects, their instructions and handlers have their types.
THEOREM CodeTypes == Spec => []CompilerTypeOK
<1>1. CodeInv => CompilerTypeOK
  <2> SUFFICES ASSUME CodeInv PROVE CompilerTypeOK
    OBVIOUS
  <2>1. CodesOK
    BY DEF CodeInv
  <2> QED
    BY <2>1, CodeObjects DEF CompilerTypeOK, CodesOK
<1> QED
  BY <1>1, CodeInvHolds, PTL

\* At any moment of a compilation the handlers registered so far nest, the inner
\* one first, and their addresses are in order, whatever the program jumps over.
THEOREM HandlersNest == Spec => [](HandlersOrdered /\ InnerHandlerFirst)
<1>1. CodeInv => HandlersOrdered /\ InnerHandlerFirst
  BY DEF CodeInv
<1> QED
  BY <1>1, CodeInvHolds, PTL

\* A program that has no break or continue in a function for a loop around that
\* function has no jump that was not patched: every jump lands in its own code.
THEOREM JumpsLandUnlessCrossing == Spec => [](Avoids({"jumpFunction"}) => CodeWellFormed)
<1>1. CodeInv => (Avoids({"jumpFunction"}) => CodeWellFormed)
  <2> SUFFICES ASSUME CodeInv, Avoids({"jumpFunction"}) PROVE CodeWellFormed
    OBVIOUS
  <2>1. "jumpFunction" \notin used
    BY DEF Avoids
  <2> QED
    BY <2>1 DEF CodeInv, CodeWellFormed
<1> QED
  BY <1>1, CodeInvHolds, PTL

\* So where no program does that, the code of every finished program is well
\* formed, however long it is and however deep its statements nest.
THEOREM CodeIsWellFormed ==
  ASSUME "jumpFunction" \notin Features
  PROVE  Spec => []CodeWellFormed
<1>1. CodeInv => CodeWellFormed
  BY DEF CodeInv, CodeWellFormed
<1> QED
  BY <1>1, CodeInvHolds, PTL

\* execute never reaches error: without an exception (the assertion of
\* vm.cpp:514).
THEOREM ErrorsHaveExceptions == Spec => []ErrorHasException
<1>1. Init => ErrorHasException
  BY DEF Init, CompilerInit, ErrorHasException
<1>2. ErrorHasException /\ [Next]_vars => ErrorHasException'
  <2> SUFFICES ASSUME ErrorHasException, [Next]_vars PROVE ErrorHasException'
    OBVIOUS
  <2>1. CASE Run
    BY <2>1, RunSteps DEF RunStep
  <2>2. CASE Compile /\ exc' = exc
    <3>1. phase' \in {"compile", "run"}
      BY <2>2 DEF Compile, ExpressionStatement, BeginWhile, BeginForEach, EndLoop, Break, Continue,
         BeginIf, Else, EndIf, Return, Raise, BeginTry, EndTryBlock, BeginCatch, EndCatch,
         BeginFinally, EndTry, BeginFunction, EndFunction, Finish, BeginCompound, BeginPlain,
         Begin, End
    <3> QED
      BY <3>1 DEF ErrorHasException
  <2>3. CASE UNCHANGED vars
    BY <2>3 DEF vars, machineVars, ErrorHasException
  <2> QED
    BY <2>1, <2>2, <2>3 DEF Next
<1> QED
  BY <1>1, <1>2, PTL DEF Spec
=============================================================================
