---------------------------- MODULE Blocks_proofs ----------------------------
(***************************************************************************)
(* Try statements and the jumps of their code, for every program without a *)
(* break, continue or return out of a try statement and without a break or *)
(* continue out of a function: every jump stays in its block of each try   *)
(* statement around it, or leaves the block where the block ends           *)
(* (BlockInv).                                                             *)
(***************************************************************************)
EXTENDS Compiler_proofs

\* The statements that have a TRY and no handler yet are spans without an end.
Span(s) == [start |-> s.start, first |-> s.first, finally |-> s.finally, end |-> NoAddress]

\* Which part of a try statement address x is in: none (0), its protected block,
\* its catch blocks, its finally block.
Part(r, x) ==
  IF x <= r.start \/ (r.end # NoAddress /\ r.end < x) THEN 0
  ELSE IF r.first = NoAddress \/ x < r.first THEN 1
  ELSE IF r.finally = NoAddress \/ x < r.finally THEN 2
  ELSE 3

\* Where a block of it continues.
Exit(r) == IF r.finally = NoAddress THEN r.end ELSE r.finally

\* A jump from a to t stays in the part, or leaves a block the way it ends.
StaysIn(r, a, t) ==
  \/ Part(r, a) = Part(r, t)
  \/ Part(r, a) \in {1, 2} /\ t = Exit(r)

\* The code object that the blocks of the k-th of the open statements o are
\* compiled to, when c is the current one.
FunctionsIn(o, k) == {i \in k + 1 .. Len(o) : o[i].kind = "function"}
HomeIn(o, c, k) ==
  IF FunctionsIn(o, k) = {} THEN c
  ELSE o[CHOOSE i \in FunctionsIn(o, k) : \A j \in FunctionsIn(o, k) : i <= j].start
Home(k) == HomeIn(open, cur, k)

Opens(k) == k \in DOMAIN open /\ open[k].kind \in Tries
OpenTries(c) == {k \in DOMAIN open : open[k].kind \in Tries /\ Home(k) = c}
HandlersIn(c) == Range(codes[c].handlers)
Spans(c) == HandlersIn(c) \cup {Span(open[k]) : k \in OpenTries(c)}
NextIn(c) == Len(codes[c].code) + 1

\* The jump at address a has a target.
TargetOK(code, S, a) ==
  code[a].arg \in 1 .. Len(code) + 1 /\ \A r \in S : StaysIn(r, a, code[a].arg)

\* CATCH is in the catch blocks of the innermost try statement around it.
InCatch(S, a) ==
  \E r \in S : Part(r, a) = 2 /\ \A q \in S : Part(q, a) # 0 => q.start <= r.start

\* The instruction at address a of a code object with handlers H and spans S.
InstructionOK(code, H, S, D, a) ==
  LET op == code[a].op IN
  /\ op \in Jumps /\ code[a].arg # NoAddress => TargetOK(code, S, a)
  /\ op = "TRY" => \E r \in S : r.start = a
  /\ op = "END_TRY" => \E h \in H : h.end = a
  /\ op = "RETURN" => \A r \in S : Part(r, a) = 0
  /\ op = "CATCH" => InCatch(S, a)
  /\ op = "MAKE_FUNCTION" =>
       a - 1 \in DOMAIN code /\ code[a - 1].op = "LOAD_CONST" /\ code[a - 1].arg \in D

\* A handler is in one part of any other span.
NotStraddling(H, S) ==
  \A h \in H : \A r \in S \ {h} : Part(r, h.start) = Part(r, h.end)

\* The blocks before the first handler and before the finally block end in a jump.
JumpBefore(code, x) == x # NoAddress => x - 1 \in DOMAIN code /\ code[x - 1].op = "JMP"
BlocksEnd(code, S) == \A r \in S : JumpBefore(code, r.first) /\ JumpBefore(code, r.finally)

GoodCode(code, H, S, D) ==
  /\ \A a \in DOMAIN code : InstructionOK(code, H, S, D, a)
  /\ NotStraddling(H, S)
  /\ BlocksEnd(code, S)

\* No try statement is in a finally block.
FreeFinally(S) == \A q, r \in S : Part(r, q.start) # 3

CodeGood(c) == GoodCode(codes[c].code, HandlersIn(c), Spans(c), DOMAIN codes)

\* The addresses that open statement j remembers.
Patches(j, x) ==
  \/ x \in open[j].ends
  \/ x = open[j].exit /\ x # NoAddress
  \/ \E i \in DOMAIN states : states[i].depth = j /\ x \in states[i].ends
IsPlace(j, x) == Patches(j, x) \/ (open[j].kind \in Loops \cup Tries /\ x = open[j].start)
PlaceIn(c, j, x) ==
  /\ x \in DOMAIN codes[c].code
  /\ Patches(j, x) => codes[c].code[x].op \in Jumps
  /\ \A h \in HandlersIn(c) : Part(h, x) = 0
  /\ \A k \in OpenTries(c) \ {j} :
       Part(Span(open[k]), x) = IF k < j THEN Part(Span(open[k]), NextIn(c)) ELSE 0
  /\ Patches(j, x) /\ open[j].kind \in Tries => Part(Span(open[j]), x) \in {1, 2}
PlaceOK(j, x) == PlaceIn(Home(j), j, x)

HomesApart ==
  \A j, k \in 0 .. Len(open) :
    j < k /\ Home(j) = Home(k) => \A m \in j + 1 .. k : open[m].kind # "function"
TryStatements ==
  \A k \in DOMAIN open :
    /\ k > 1 /\ open[k - 1].kind = "handlers" => open[k].kind = "catch"
    /\ open[k].kind = "try" => open[k].first = NoAddress

\* Between the blocks of a try statement: after a jump, with no jump to here.
BetweenBlocks ==
  Inside("handlers") =>
    /\ JumpBefore(Code, Offset)
    /\ \A a \in DOMAIN Code : Code[a].op \in Jumps => Code[a].arg # Offset

Lives(c) == phase = "compile" /\ \E k \in 0 .. Len(open) : Home(k) = c
EndsInReturn(code) == code # <<>> /\ code[Len(code)].op = "RETURN"

Straight == used \cap {"jumpFromTry", "jumpFunction"} = {}

\* While the program is compiled.
BlocksSoFar ==
  /\ HomesApart /\ TryStatements /\ BetweenBlocks
  /\ \A j \in DOMAIN open : \A x : IsPlace(j, x) => PlaceOK(j, x)

BlockInv ==
  Straight =>
    /\ \A c \in DOMAIN codes :
         /\ CodeGood(c)
         /\ Lives(c) \/ EndsInReturn(codes[c].code)
         /\ "tryInFinally" \notin used => FreeFinally(Spans(c))
    /\ phase = "compile" => BlocksSoFar
    /\ phase # "compile" => open = <<>>

-----------------------------------------------------------------------------
(* Homes. *)

IsNearest(i, o, k) == i \in FunctionsIn(o, k) /\ \A j \in FunctionsIn(o, k) : i <= j

\* The home of a statement is where the function around it that was declared
\* first after it goes on.
LEMMA NearestFunction ==
  ASSUME NEW o, Len(o) \in Nat, NEW k \in Nat, NEW c
  PROVE  /\ FunctionsIn(o, k) # {} => \E i : IsNearest(i, o, k)
         /\ FunctionsIn(o, k) = {} => HomeIn(o, c, k) = c
         /\ \A i : IsNearest(i, o, k) => HomeIn(o, c, k) = o[i].start
<1>1. FunctionsIn(o, k) \in SUBSET Nat
  BY DEF FunctionsIn
<1>2. FunctionsIn(o, k) # {} => \E i : IsNearest(i, o, k)
  BY <1>1, Least DEF IsNearest
<1>3. ASSUME NEW i, IsNearest(i, o, k) PROVE HomeIn(o, c, k) = o[i].start
  <2> DEFINE n == CHOOSE m \in FunctionsIn(o, k) : \A j \in FunctionsIn(o, k) : m <= j
  <2>1. n \in FunctionsIn(o, k) /\ \A j \in FunctionsIn(o, k) : n <= j
    BY <1>3 DEF IsNearest
  <2>2. i \in FunctionsIn(o, k) /\ \A j \in FunctionsIn(o, k) : i <= j
    BY <1>3 DEF IsNearest
  <2>3. HomeIn(o, c, k) = o[n].start
    BY <2>1 DEF HomeIn
  <2> HIDE DEF n
  <2>4. n \in Nat /\ i \in Nat /\ n <= i /\ i <= n
    BY <1>1, <2>1, <2>2
  <2>5. n = i
    BY <2>4
  <2> QED
    BY <2>3, <2>5
<1> QED
  BY <1>2, <1>3 DEF HomeIn

SameFunction(s, t) ==
  /\ s.kind = "function" <=> t.kind = "function"
  /\ s.kind = "function" => s.start = t.start

\* Homes depend on the functions among the open statements only.
LEMMA HomeShape ==
  ASSUME NEW o, NEW o2, Len(o) \in Nat, Len(o2) = Len(o), NEW k \in Nat, NEW c,
         \A i \in k + 1 .. Len(o) : SameFunction(o[i], o2[i])
  PROVE  HomeIn(o2, c, k) = HomeIn(o, c, k)
<1>1. FunctionsIn(o2, k) = FunctionsIn(o, k)
  BY DEF FunctionsIn, SameFunction
<1>2. CASE FunctionsIn(o, k) = {}
  BY <1>1, <1>2, NearestFunction
<1>3. CASE FunctionsIn(o, k) # {}
  <2>1. PICK i : IsNearest(i, o, k)
    BY <1>3, NearestFunction
  <2>2. IsNearest(i, o2, k)
    BY <1>1, <2>1 DEF IsNearest
  <2>3. o2[i].start = o[i].start
    BY <2>1 DEF IsNearest, FunctionsIn, SameFunction
  <2> QED
    BY <2>1, <2>2, <2>3, NearestFunction
<1> QED
  BY <1>2, <1>3

\* The open statements with one more, n of them before.
Pushed(o2, o, n) ==
  /\ n \in Nat /\ Len(o) = n /\ Len(o2) = n + 1
  /\ \A i \in 1 .. n : SameFunction(o[i], o2[i])

\* When a statement begins or ends, the others keep their homes.
LEMMA HomePush ==
  ASSUME NEW o, NEW o2, NEW n, Pushed(o2, o, n), NEW k \in 0 .. n, NEW c
  PROVE  /\ o2[n + 1].kind # "function" => HomeIn(o2, c, k) = HomeIn(o, c, k)
         /\ o2[n + 1].kind = "function" => HomeIn(o2, c, k) = HomeIn(o, o2[n + 1].start, k)
<1>1. n \in Nat /\ k \in Nat /\ k <= n /\ Len(o) = n /\ Len(o2) = n + 1
      /\ \A i \in k + 1 .. n : SameFunction(o[i], o2[i])
  BY DEF Pushed
<1>2. \A i \in k + 1 .. n + 1 : i \in k + 1 .. n \/ i = n + 1
  BY <1>1
<1>3. \A i \in k + 1 .. n : i \in k + 1 .. n + 1 /\ i <= n + 1
  BY <1>1
<1>4. n + 1 \in k + 1 .. n + 1 /\ n + 1 <= n + 1
  BY <1>1
<1>5. FunctionsIn(o2, k) = IF o2[n + 1].kind = "function" THEN FunctionsIn(o, k) \cup {n + 1}
                           ELSE FunctionsIn(o, k)
  <2>1. \A i : i \in FunctionsIn(o2, k) <=> i \in k + 1 .. n + 1 /\ o2[i].kind = "function"
    BY <1>1 DEF FunctionsIn
  <2>2. \A i : i \in FunctionsIn(o, k) <=> i \in k + 1 .. n /\ o[i].kind = "function"
    BY <1>1 DEF FunctionsIn
  <2>3. \A i : i \in FunctionsIn(o2, k) <=>
               i \in FunctionsIn(o, k) \/ (i = n + 1 /\ o2[n + 1].kind = "function")
    BY <1>1, <1>2, <1>3, <1>4, <2>1, <2>2 DEF SameFunction
  <2> QED
    BY <2>3
<1>6. \A i \in FunctionsIn(o, k) : i \in k + 1 .. n /\ o[i].kind = "function" /\ o2[i].start = o[i].start
  BY <1>1 DEF FunctionsIn, SameFunction
<1>7. CASE FunctionsIn(o, k) = {}
  <2>1. HomeIn(o, c, k) = c /\ \A d : HomeIn(o, d, k) = d
    BY <1>1, <1>7, NearestFunction
  <2>2. ASSUME o2[n + 1].kind # "function" PROVE HomeIn(o2, c, k) = c
    <3>1. FunctionsIn(o2, k) = {} /\ Len(o2) \in Nat
      BY <1>1, <1>5, <1>7, <2>2
    <3> QED
      BY <1>1, <3>1, NearestFunction
  <2>3. ASSUME o2[n + 1].kind = "function" PROVE HomeIn(o2, c, k) = o2[n + 1].start
    <3>1. IsNearest(n + 1, o2, k) /\ Len(o2) \in Nat
      BY <1>1, <1>4, <1>5, <1>7, <2>3 DEF IsNearest
    <3> QED
      BY <1>1, <3>1, NearestFunction
  <2> QED
    BY <2>1, <2>2, <2>3
<1>8. CASE FunctionsIn(o, k) # {}
  <2>1. PICK i : IsNearest(i, o, k)
    BY <1>1, <1>8, NearestFunction
  <2>2. \A d : HomeIn(o, d, k) = o[i].start
    BY <1>1, <2>1, NearestFunction
  <2>3. IsNearest(i, o2, k) /\ o2[i].start = o[i].start
    <3>1. i \in FunctionsIn(o, k) /\ \A j \in FunctionsIn(o, k) : i <= j
      BY <2>1 DEF IsNearest
    <3>2. i \in FunctionsIn(o2, k) /\ i <= n + 1 /\ o2[i].start = o[i].start
      BY <1>3, <1>5, <1>6, <3>1
    <3> QED
      BY <1>5, <3>1, <3>2 DEF IsNearest
  <2>4. HomeIn(o2, c, k) = o2[i].start
    BY <1>1, <2>3, NearestFunction
  <2> QED
    BY <2>2, <2>3, <2>4
<1> QED
  BY <1>7, <1>8

\* The innermost statement is compiled to the current code object.
LEMMA HomeLast ==
  ASSUME NEW o, NEW c, Len(o) \in Nat
  PROVE  HomeIn(o, c, Len(o)) = c
<1>1. FunctionsIn(o, Len(o)) = {}
  BY DEF FunctionsIn
<1> QED
  BY <1>1 DEF HomeIn

\* home is the one that CodeInv says there is.
LEMMA HomeIs ==
  ASSUME NEW home, CompilingAt(home), NEW k \in 0 .. Len(open)
  PROVE  home[k] = Home(k)
<1>1. /\ Len(open) \in Nat /\ k \in Nat /\ k <= Len(open) /\ HomesOK(home)
      /\ DOMAIN open = 1 .. Len(open)
  BY HeldTypes DEF CompilingAt
<1>2. \A j \in 0 .. Len(open) : k <= j /\ (\A m \in k + 1 .. j : open[m].kind # "function") =>
        home[k] = home[j]
  BY <1>1 DEF HomesOK
<1>3. CASE FunctionsIn(open, k) = {}
  <2>1. \A m \in k + 1 .. Len(open) : open[m].kind # "function"
    BY <1>3 DEF FunctionsIn
  <2>2. Len(open) \in 0 .. Len(open)
    BY <1>1
  <2>3. home[k] = home[Len(open)]
    BY <1>1, <1>2, <2>1, <2>2
  <2> QED
    BY <1>1, <1>3, <2>3, NearestFunction DEF HomesOK, Home
<1>4. CASE FunctionsIn(open, k) # {}
  <2>1. PICK i : IsNearest(i, open, k)
    BY <1>1, <1>4, NearestFunction
  <2>2. i \in k + 1 .. Len(open) /\ open[i].kind = "function"
        /\ \A j \in FunctionsIn(open, k) : i <= j
    BY <2>1 DEF IsNearest, FunctionsIn
  <2>3. i - 1 \in 0 .. Len(open) /\ k <= i - 1 /\ i \in DOMAIN open
        /\ \A m \in k + 1 .. i - 1 : m \in k + 1 .. Len(open) /\ ~(i <= m)
    BY <1>1, <2>2
  <2>4. \A m \in k + 1 .. i - 1 : open[m].kind # "function"
    BY <2>2, <2>3 DEF FunctionsIn
  <2>5. home[k] = home[i - 1]
    BY <1>2, <2>3, <2>4
  <2>6. open[i].start = home[i - 1]
    BY <1>1, <2>2, <2>3 DEF HomesOK
  <2> QED
    BY <1>1, <2>1, <2>5, <2>6, NearestFunction DEF Home
<1> QED
  BY <1>3, <1>4

\* What HomesOK says, of Home.
HomesHold ==
  /\ Home(Len(open)) = cur
  /\ \A k \in 0 .. Len(open) : Home(k) \in DOMAIN codes
  /\ \A k \in DOMAIN open :
       /\ HoldsOK(open[k], Home(k))
       /\ open[k].kind = "function" => open[k].start = Home(k - 1) /\ Home(k) # Home(k - 1)
       /\ open[k].kind = "catch" => k > 1 /\ open[k - 1].kind = "handlers"
       /\ open[k].kind # "function" => Home(k - 1) = Home(k)
  /\ \A j, k \in DOMAIN open :
       j < k /\ Home(j) = Home(k) /\ {open[j].kind, open[k].kind} \subseteq Tries =>
         open[j].start < open[k].start

\* What CodeInv says while the program is compiled, by the homes of the open statements.
LEMMA HomesAre ==
  ASSUME CodeInv, phase = "compile"
  PROVE  HomesHold /\ HeldOK /\ StatesOK /\ CodesOK /\ HandlersStart /\ HandlersOrdered
         /\ InnerHandlerFirst
<1>1. PICK home : CompilingAt(home)
  BY SomeHome
<1>2. /\ HeldOK /\ StatesOK /\ CodesOK /\ HandlersStart /\ HandlersOrdered /\ InnerHandlerFirst
      /\ HomesOK(home) /\ home \in [0 .. Len(open) -> DOMAIN codes]
  BY <1>1 DEF CompilingAt, CodeInv
<1>3. /\ Len(open) \in Nat /\ DOMAIN open = 1 .. Len(open)
  BY <1>2, HeldTypes
<1>4. \A k \in 0 .. Len(open) : home[k] = Home(k)
  BY <1>1, HomeIs
<1>5. Home(Len(open)) = cur /\ \A k \in 0 .. Len(open) : Home(k) \in DOMAIN codes
  <2>1. Len(open) \in 0 .. Len(open)
    BY <1>3
  <2> QED
    BY <1>2, <1>4, <2>1 DEF HomesOK
<1>6. ASSUME NEW k \in DOMAIN open
      PROVE  /\ HoldsOK(open[k], Home(k))
             /\ open[k].kind = "function" => open[k].start = Home(k - 1) /\ Home(k) # Home(k - 1)
             /\ open[k].kind = "catch" => k > 1 /\ open[k - 1].kind = "handlers"
             /\ open[k].kind # "function" => Home(k - 1) = Home(k)
  <2>1. k \in 0 .. Len(open) /\ k - 1 \in 0 .. Len(open) /\ k - 1 <= k
        /\ \A m \in (k - 1) + 1 .. k : m = k
    BY <1>3
  <2>2. home[k] = Home(k) /\ home[k - 1] = Home(k - 1)
    BY <1>4, <2>1
  <2>3. open[k].kind # "function" => home[k - 1] = home[k]
    <3> SUFFICES ASSUME open[k].kind # "function" PROVE home[k - 1] = home[k]
      OBVIOUS
    <3>1. \A m \in (k - 1) + 1 .. k : open[m].kind # "function"
      BY <2>1
    <3> QED
      BY <1>2, <2>1, <3>1 DEF HomesOK
  <2>4. /\ HoldsOK(open[k], home[k])
        /\ open[k].kind = "function" => open[k].start = home[k - 1] /\ home[k] # home[k - 1]
        /\ open[k].kind = "catch" => k > 1 /\ open[k - 1].kind = "handlers"
    BY <1>2 DEF HomesOK
  <2> QED
    BY <2>2, <2>3, <2>4
<1>7. ASSUME NEW j \in DOMAIN open, NEW k \in DOMAIN open, j < k, Home(j) = Home(k),
             {open[j].kind, open[k].kind} \subseteq Tries
      PROVE  open[j].start < open[k].start
  <2>1. j \in 0 .. Len(open) /\ k \in 0 .. Len(open)
    BY <1>3
  <2>2. home[j] = home[k]
    BY <1>4, <1>7, <2>1
  <2> QED
    BY <1>2, <1>7, <2>2 DEF HomesOK
<1> QED
  BY <1>2, <1>5, <1>6, <1>7 DEF HomesHold

-----------------------------------------------------------------------------
(* Parts. *)

\* r is a span of a code object whose next address is n.
SpanOK(r, n) ==
  /\ r.start \in Nat \ {0} /\ r.first \in Nat /\ r.end \in Nat /\ r.finally \in Nat
  /\ r.start < n /\ r.first <= n /\ r.end < n /\ r.finally <= n
  /\ r.first # NoAddress => r.start < r.first
  /\ r.finally # NoAddress => r.first # NoAddress /\ r.first < r.finally
  /\ r.end # NoAddress => r.first # NoAddress /\ r.first < r.end /\ r.finally <= r.end

\* The parts do not change from the next address on.
LEMMA Beyond ==
  ASSUME NEW r, NEW n \in Nat, SpanOK(r, n), NEW x \in Nat, n <= x
  PROVE  /\ Part(r, x) = Part(r, n)
         /\ r.end # NoAddress => Part(r, x) = 0
BY DEF SpanOK, Part, NoAddress

\* r2 is what became of r: up to n the parts are the same.
Continues(r, r2, n) ==
  /\ r2.start = r.start
  /\ \A x \in 1 .. n : Part(r2, x) = Part(r, x)
  /\ Exit(r) = NoAddress \/ Exit(r2) = Exit(r)
Fresh(r, n) == r.start = n /\ r.first = NoAddress /\ r.finally = NoAddress

\* A fresh span does not hold what there is.
LEMMA FreshPart ==
  ASSUME NEW r, NEW n \in Nat, Fresh(r, n), NEW x \in Nat, x <= n
  PROVE  Part(r, x) = 0
BY DEF Fresh, Part

\* A jump that stays in its block still does when the try statement goes on.
LEMMA StaysContinued ==
  ASSUME NEW r, NEW r2, NEW n \in Nat, Continues(r, r2, n), NEW a \in 1 .. n, NEW t \in 1 .. n,
         StaysIn(r, a, t)
  PROVE  StaysIn(r2, a, t)
<1>1. Part(r2, a) = Part(r, a) /\ Part(r2, t) = Part(r, t)
  BY DEF Continues
<1>2. t # NoAddress
  BY DEF NoAddress
<1> QED
  BY <1>1, <1>2 DEF Continues, StaysIn

\* A code object that grows, and has jumps patched, while its spans stay.
LEMMA GrownGood ==
  ASSUME NEW code \in Seq(Instruction), NEW new \in Seq(Instruction), NEW H, NEW S, NEW D, NEW D2,
         GoodCode(code, H, S, D), D \subseteq D2, Len(code) <= Len(new),
         \A a \in DOMAIN code :
           /\ new[a].op = code[a].op
           /\ new[a].arg = code[a].arg \/ (code[a].op \in Jumps /\ TargetOK(new, S, a)),
         \A a \in DOMAIN new \ DOMAIN code : InstructionOK(new, H, S, D2, a)
  PROVE  GoodCode(new, H, S, D2)
<1>1. /\ Len(code) \in Nat /\ Len(new) \in Nat /\ DOMAIN code = 1 .. Len(code)
      /\ DOMAIN new = 1 .. Len(new) /\ DOMAIN code \subseteq DOMAIN new
      /\ \A t \in 1 .. Len(code) + 1 : t \in 1 .. Len(new) + 1
  OBVIOUS
<1>2. ASSUME NEW a \in DOMAIN code PROVE InstructionOK(new, H, S, D2, a)
  <2>1. InstructionOK(code, H, S, D, a)
    BY DEF GoodCode
  <2>2. new[a].op = code[a].op
        /\ (new[a].arg = code[a].arg \/ (code[a].op \in Jumps /\ TargetOK(new, S, a)))
    OBVIOUS
  <2>3. TargetOK(code, S, a) /\ new[a].arg = code[a].arg => TargetOK(new, S, a)
    BY <1>1 DEF TargetOK
  <2>4. new[a].op \in Jumps /\ new[a].arg # NoAddress => TargetOK(new, S, a)
    BY <2>1, <2>2, <2>3 DEF InstructionOK
  <2>5. new[a].op = "MAKE_FUNCTION" =>
          a - 1 \in DOMAIN new /\ new[a - 1].op = "LOAD_CONST" /\ new[a - 1].arg \in D2
    <3> SUFFICES ASSUME code[a].op = "MAKE_FUNCTION"
                 PROVE  a - 1 \in DOMAIN new /\ new[a - 1].op = "LOAD_CONST" /\ new[a - 1].arg \in D2
      BY <2>2
    <3>1. a - 1 \in DOMAIN code /\ code[a - 1].op = "LOAD_CONST" /\ code[a - 1].arg \in D
      BY <2>1 DEF InstructionOK
    <3>2. code[a - 1].op \notin Jumps
      BY <3>1 DEF Jumps
    <3> QED
      BY <1>1, <3>1, <3>2
  <2>6. /\ new[a].op = "TRY" => \E r \in S : r.start = a
        /\ new[a].op = "END_TRY" => \E h \in H : h.end = a
        /\ new[a].op = "RETURN" => \A r \in S : Part(r, a) = 0
        /\ new[a].op = "CATCH" => InCatch(S, a)
    BY <2>1, <2>2 DEF InstructionOK
  <2> QED
    BY <2>4, <2>5, <2>6 DEF InstructionOK
<1>3. \A a \in DOMAIN new : InstructionOK(new, H, S, D2, a)
  BY <1>2
<1>4. BlocksEnd(new, S)
  BY <1>1 DEF GoodCode, BlocksEnd, JumpBefore
<1> QED
  BY <1>3, <1>4 DEF GoodCode

\* What became of the spans S, up to address n, is S2.
Respanned(S, S2, H, n, next) ==
  /\ \A r \in S : \E r2 \in S2 : Continues(r, r2, n)
  /\ \A r2 \in S2 : Fresh(r2, next) \/ \E r \in S : Continues(r, r2, n) /\ (r \in H => r2 = r)

\* The spans change, one may be new: the code is as good as before.
LEMMA RespannedGood ==
  ASSUME NEW code \in Seq(Instruction), NEW H, NEW S, NEW D, GoodCode(code, H, S, D),
         NEW H2, NEW S2, NEW n \in Nat, Len(code) <= n, n <= Len(code) + 1,
         Respanned(S, S2, H, n, Len(code) + 1),
         H \subseteq H2, H \subseteq S,
         \A h \in H : h.start \in 1 .. Len(code) /\ h.end \in 1 .. Len(code),
         \A h \in H2 \ H : \A r \in S2 \ {h} : Part(r, h.start) = Part(r, h.end),
         \A a \in DOMAIN code : code[a].op \in Jumps => code[a].arg <= n,
         BlocksEnd(code, S2)
  PROVE  GoodCode(code, H2, S2, D)
<1> DEFINE l == Len(code)
<1>1. l \in Nat /\ l + 1 \in Nat /\ DOMAIN code = 1 .. l /\ l <= n /\ n <= l + 1
      /\ \A a \in DOMAIN code : code[a] \in Instruction
  OBVIOUS
<1>2. \A x \in 1 .. l : x \in 1 .. n /\ x \in Nat /\ x <= l + 1
  BY <1>1
<1>3. \A x \in 1 .. n : x \in Nat /\ x <= l + 1
  BY <1>1
<1>4. \A r2 \in S2 : Fresh(r2, l + 1) \/ \E r \in S : Continues(r, r2, n) /\ (r \in H => r2 = r)
  BY DEF Respanned
<1>5. \A r2 \in S2 : \A x \in 1 .. n : Fresh(r2, l + 1) => Part(r2, x) = 0
  BY <1>1, <1>3, FreshPart
<1> HIDE DEF l
<1>6. ASSUME NEW a \in DOMAIN code PROVE InstructionOK(code, H2, S2, D, a)
  <2>1. InstructionOK(code, H, S, D, a) /\ a \in 1 .. l /\ a \in 1 .. n /\ code[a].arg \in Nat
    BY <1>1, <1>2 DEF GoodCode, Instruction
  <2>2. ASSUME code[a].op \in Jumps, code[a].arg # NoAddress PROVE TargetOK(code, S2, a)
    <3>1. TargetOK(code, S, a) /\ code[a].arg <= n
      BY <2>1, <2>2 DEF InstructionOK
    <3>2. code[a].arg \in 1 .. n
      BY <2>1, <2>2, <3>1 DEF NoAddress
    <3>3. ASSUME NEW r2 \in S2 PROVE StaysIn(r2, a, code[a].arg)
      <4>1. CASE Fresh(r2, l + 1)
        BY <1>5, <2>1, <3>2, <4>1 DEF StaysIn
      <4>2. CASE ~Fresh(r2, l + 1)
        <5>1. PICK r \in S : Continues(r, r2, n)
          BY <1>4, <4>2
        <5>2. StaysIn(r, a, code[a].arg)
          BY <3>1 DEF TargetOK
        <5> QED
          BY <2>1, <3>2, <5>1, <5>2, StaysContinued
      <4> QED
        BY <4>1, <4>2
    <3> QED
      BY <3>1, <3>3 DEF TargetOK
  <2>3. code[a].op = "TRY" => \E r \in S2 : r.start = a
    <3> SUFFICES ASSUME code[a].op = "TRY" PROVE \E r \in S2 : r.start = a
      OBVIOUS
    <3>1. PICK r \in S : r.start = a
      BY <2>1 DEF InstructionOK
    <3>2. PICK r2 \in S2 : Continues(r, r2, n)
      BY DEF Respanned
    <3> QED
      BY <3>1, <3>2 DEF Continues
  <2>4. code[a].op = "END_TRY" => \E h \in H2 : h.end = a
    BY <2>1 DEF InstructionOK
  <2>5. ASSUME code[a].op = "RETURN", NEW r2 \in S2 PROVE Part(r2, a) = 0
    <3>1. \A r \in S : Part(r, a) = 0
      BY <2>1, <2>5 DEF InstructionOK
    <3> QED
      BY <1>4, <1>5, <2>1, <3>1 DEF Continues
  <2>6. ASSUME code[a].op = "CATCH" PROVE InCatch(S2, a)
    <3>1. PICK r \in S : Part(r, a) = 2 /\ \A q \in S : Part(q, a) # 0 => q.start <= r.start
      BY <2>1, <2>6 DEF InstructionOK, InCatch
    <3>2. PICK r2 \in S2 : Continues(r, r2, n)
      BY DEF Respanned
    <3>3. ASSUME NEW q2 \in S2, Part(q2, a) # 0 PROVE q2.start <= r2.start
      <4>1. PICK q \in S : Continues(q, q2, n)
        BY <1>4, <1>5, <2>1, <3>3
      <4> QED
        BY <2>1, <3>1, <3>2, <3>3, <4>1 DEF Continues
    <3> QED
      BY <2>1, <3>1, <3>2, <3>3 DEF Continues, InCatch
  <2>7. code[a].op = "MAKE_FUNCTION" =>
          a - 1 \in DOMAIN code /\ code[a - 1].op = "LOAD_CONST" /\ code[a - 1].arg \in D
    BY <2>1 DEF InstructionOK
  <2> QED
    BY <2>2, <2>3, <2>4, <2>5, <2>6, <2>7 DEF InstructionOK
<1>7. ASSUME NEW h \in H2, NEW r2 \in S2 \ {h} PROVE Part(r2, h.start) = Part(r2, h.end)
  <2>1. CASE h \in H
    <3>1. h.start \in 1 .. n /\ h.end \in 1 .. n
      BY <1>2, <2>1 DEF l
    <3>2. CASE Fresh(r2, l + 1)
      BY <1>5, <3>1, <3>2
    <3>3. CASE ~Fresh(r2, l + 1)
      <4>1. PICK r \in S : Continues(r, r2, n) /\ (r \in H => r2 = r)
        BY <1>4, <3>3
      <4>2. r # h
        BY <2>1, <4>1
      <4>3. Part(r, h.start) = Part(r, h.end)
        BY <2>1, <4>2 DEF GoodCode, NotStraddling
      <4> QED
        BY <3>1, <4>1, <4>3 DEF Continues
    <3> QED
      BY <3>2, <3>3
  <2> QED
    BY <2>1
<1> QED
  BY <1>6, <1>7 DEF GoodCode, NotStraddling

\* The handlers are spans.
LEMMA HandlersSpan ==
  ASSUME CodesOK, HandlersStart, HandlersOrdered, NEW c \in DOMAIN codes
  PROVE  \A h \in HandlersIn(c) :
           /\ SpanOK(h, NextIn(c)) /\ h.end # NoAddress
           /\ h.start \in 1 .. Len(codes[c].code) /\ h.end \in 1 .. Len(codes[c].code)
<1>1. /\ codes[c].handlers \in Seq(Handler) /\ DOMAIN codes[c].code = 1 .. Len(codes[c].code)
      /\ Len(codes[c].code) \in Nat
  BY CodeObjects
<1> SUFFICES ASSUME NEW h \in HandlersIn(c)
             PROVE  /\ SpanOK(h, NextIn(c)) /\ h.end # NoAddress
                    /\ h.start \in 1 .. Len(codes[c].code) /\ h.end \in 1 .. Len(codes[c].code)
  OBVIOUS
<1>2. h \in Range(codes[c].handlers) /\ h \in Handler
  BY <1>1 DEF HandlersIn, Range
<1>3. h.start \in Nat /\ h.first \in Nat /\ h.end \in Nat /\ h.finally \in Nat
  BY <1>2 DEF Handler
<1>4. /\ h.start < h.first /\ h.first < h.end /\ h.end \in DOMAIN codes[c].code
      /\ h.finally # NoAddress => h.first < h.finally /\ h.finally <= h.end
  BY <1>2 DEF HandlersOrdered
<1>5. h.start \in DOMAIN codes[c].code
  BY <1>2 DEF HandlersStart
<1> QED
  BY <1>1, <1>3, <1>4, <1>5 DEF SpanOK, NextIn, NoAddress

SpanFields(r, s) ==
  r.start = s.start /\ r.first = s.first /\ r.finally = s.finally /\ r.end = NoAddress

\* So are the open statements with a TRY.
LEMMA OpenSpan ==
  ASSUME CodesOK, HeldOK, HomesHold, TryStatements, NEW k, Opens(k), NEW c, c = Home(k)
  PROVE  SpanOK(Span(open[k]), NextIn(c)) /\ SpanFields(Span(open[k]), open[k])
<1>1. k \in DOMAIN open /\ open[k].kind \in Tries /\ k \in 0 .. Len(open)
  BY HeldTypes DEF Opens
<1>2. c \in DOMAIN codes /\ HoldsOK(open[k], c) /\ open[k] \in OpenStatement
  BY <1>1, HeldTypes DEF HomesHold
<1>3. PICK s, l : s = open[k] /\ l = Len(codes[c].code)
  OBVIOUS
<1>4. /\ s.start \in Nat /\ s.first \in Nat /\ s.finally \in Nat
      /\ s.kind \in {"try", "handlers", "finally"} /\ l \in Nat
      /\ DOMAIN codes[c].code = 1 .. l
  BY <1>1, <1>2, <1>3, CodeObjects DEF OpenStatement, Tries
<1>5. /\ s.start \in 1 .. l
      /\ s.kind \in {"handlers", "finally"} => s.start < s.first /\ s.first <= l + 1
      /\ s.kind = "finally" => s.first < s.finally /\ s.finally <= l + 1
      /\ s.kind # "finally" => s.finally = NoAddress
  BY <1>1, <1>2, <1>3, <1>4 DEF HoldsOK
<1>6. s.kind = "try" => s.first = NoAddress
  BY <1>1, <1>3 DEF TryStatements
<1>7. SpanFields(Span(s), s)
  BY DEF Span, SpanFields
<1>8. PICK r : r = Span(s)
  OBVIOUS
<1>9. SpanOK(r, l + 1)
  BY <1>4, <1>5, <1>6, <1>7, <1>8 DEF SpanOK, SpanFields, NoAddress
<1> QED
  BY <1>3, <1>7, <1>8, <1>9 DEF NextIn

\* The spans of a code object end before the next instruction, in the order of their blocks.
LEMMA SpansOK ==
  ASSUME CodesOK, HandlersStart, HandlersOrdered, HeldOK, HomesHold, TryStatements,
         NEW c \in DOMAIN codes
  PROVE  \A r \in Spans(c) : SpanOK(r, NextIn(c))
<1>1. \A k \in OpenTries(c) : Opens(k) /\ c = Home(k)
  BY DEF OpenTries, Opens
<1> QED
  BY <1>1, HandlersSpan, OpenSpan DEF Spans

-----------------------------------------------------------------------------
(* Steps of the compiler. *)

\* A step leaves try statement k as it is, or there is none.
TryKept(k) ==
  /\ Opens(k)' <=> Opens(k)
  /\ Opens(k) => Span(open'[k]) = Span(open[k])
HomesStay == \A k \in 0 .. Len(open) : k \in 0 .. Len(open') => Home(k)' = Home(k)
HomesKept ==
  /\ \A k \in 0 .. Len(open) : k \in 0 .. Len(open') => Home(k)' = Home(k)
  /\ HomeIn(open', cur', Len(open')) = cur
\* It begins, ends or changes a statement, which is no function.
Reshapes ==
  /\ open \in Seq(OpenStatement) /\ open' \in Seq(OpenStatement) /\ cur' = cur
  /\ Len(open') \in {Len(open) - 1, Len(open), Len(open) + 1}
  /\ \A k \in DOMAIN open : k \in DOMAIN open' => SameFunction(open[k], open'[k])
  /\ Len(open') = Len(open) + 1 => open'[Len(open) + 1].kind # "function"
  /\ Len(open') = Len(open) - 1 => open[Len(open)].kind # "function"

\* A step that pushes, pops or replaces a statement that is no function keeps the homes.
LEMMA ReshapedHomes ==
  ASSUME Reshapes
  PROVE  HomesKept
<1>1. PICK o, o2, n, c : o = open /\ o2 = open' /\ n = Len(open) /\ c = cur
  OBVIOUS
<1>2. /\ n \in Nat /\ Len(o) = n /\ Len(o2) \in Nat /\ DOMAIN o = 1 .. n /\ DOMAIN o2 = 1 .. Len(o2)
      /\ Len(o2) \in {n - 1, n, n + 1}
      /\ \A k \in 1 .. n : k \in 1 .. Len(o2) => SameFunction(o[k], o2[k])
      /\ Len(o2) = n + 1 => o2[n + 1].kind # "function"
      /\ Len(o2) = n - 1 => o[n].kind # "function"
  BY <1>1 DEF Reshapes
<1>3. ASSUME NEW k \in 0 .. n, k \in 0 .. Len(o2) PROVE HomeIn(o2, c, k) = HomeIn(o, c, k)
  <2>1. CASE Len(o2) = n
    <3>1. \A i \in k + 1 .. Len(o) : SameFunction(o[i], o2[i])
      BY <1>2, <2>1
    <3>2. k \in Nat
      OBVIOUS
    <3> QED
      BY <1>2, <2>1, <3>1, <3>2, HomeShape
  <2>2. CASE Len(o2) = n + 1
    <3>1. Pushed(o2, o, n)
      BY <1>2, <2>2 DEF Pushed
    <3> QED
      BY <1>2, <2>2, <3>1, HomePush
  <2>3. CASE Len(o2) = n - 1
    <3>1. PICK m : m = n - 1
      OBVIOUS
    <3>2. m \in Nat /\ n = m + 1 /\ k \in 0 .. m
      BY <1>2, <1>3, <2>3, <3>1
    <3>3. \A i \in 1 .. m : SameFunction(o2[i], o[i])
      BY <1>2, <2>3, <3>2 DEF SameFunction
    <3>4. Pushed(o, o2, m)
      BY <1>2, <2>3, <3>2, <3>3 DEF Pushed
    <3>5. o[m + 1].kind # "function"
      BY <1>2, <2>3, <3>2
    <3> QED
      BY <3>2, <3>4, <3>5, HomePush
  <2> QED
    BY <1>2, <2>1, <2>2, <2>3
<1>4. HomeIn(o2, c, Len(o2)) = c
  BY <1>2, HomeLast
<1>5. cur' = c
  BY <1>1 DEF Reshapes
<1> QED
  BY <1>1, <1>3, <1>4, <1>5 DEF HomesKept, Home

\* The try statements with one home stay in the order they began in.
LEMMA ReshapedApart ==
  ASSUME Reshapes, HomesApart, HomesHold
  PROVE  HomesApart'
<1>1. PICK n, m : n = Len(open) /\ m = Len(open')
  OBVIOUS
<1>2. /\ n \in Nat /\ m \in Nat /\ DOMAIN open = 1 .. n /\ DOMAIN open' = 1 .. m
      /\ m \in {n - 1, n, n + 1}
      /\ \A k \in 1 .. n : k \in 1 .. m => SameFunction(open[k], open'[k])
      /\ m = n + 1 => open'[n + 1].kind # "function"
  BY <1>1 DEF Reshapes
<1>3. /\ \A k \in 0 .. n : k \in 0 .. m => Home(k)' = Home(k)
      /\ Home(m)' = cur /\ Home(n) = cur
  BY <1>1, ReshapedHomes DEF HomesKept, HomesHold, Home
<1>4. \A j, k \in 0 .. n : j < k /\ Home(j) = Home(k) => \A i \in j + 1 .. k : open[i].kind # "function"
  BY <1>1 DEF HomesApart
<1>5. ASSUME NEW j \in 0 .. m, NEW k \in 0 .. m, j < k, Home(j)' = Home(k)', NEW i \in j + 1 .. k
      PROVE  open'[i].kind # "function"
  <2>1. CASE k <= n
    <3>1. j \in 0 .. n /\ k \in 0 .. n /\ i \in 1 .. n /\ i \in 1 .. m
      BY <1>2, <1>5, <2>1
    <3>2. Home(j) = Home(k)
      BY <1>3, <1>5, <3>1
    <3> QED
      BY <1>2, <1>4, <1>5, <3>1, <3>2 DEF SameFunction
  <2>2. CASE ~(k <= n)
    <3>1. k = m /\ m = n + 1 /\ j \in 0 .. n /\ n \in 0 .. n
      BY <1>2, <1>5, <2>2
    <3>2. Home(j) = cur
      BY <1>3, <1>5, <3>1
    <3>3. CASE i = n + 1
      BY <1>2, <3>1, <3>3
    <3>4. CASE i # n + 1
      <4>1. i \in j + 1 .. n /\ j < n /\ i \in 1 .. n /\ i \in 1 .. m
        BY <1>2, <1>5, <3>1, <3>4
      <4> QED
        BY <1>2, <1>3, <1>4, <3>1, <3>2, <4>1 DEF SameFunction
    <3> QED
      BY <3>3, <3>4
  <2> QED
    BY <2>1, <2>2
<1> QED
  BY <1>1, <1>5 DEF HomesApart

\* When every try statement compiled to c is kept, the spans of c are.
SameTries(c) ==
  /\ OpenTries(c)' = OpenTries(c)
  /\ \A k \in OpenTries(c) : Span(open'[k]) = Span(open[k])
\* A code object whose open try statements are all kept has the same ones after the step.
LEMMA KeptTries ==
  ASSUME HomesStay, open \in Seq(OpenStatement), open' \in Seq(OpenStatement), NEW c,
         \A k : (Opens(k) /\ Home(k) = c) \/ (Opens(k)' /\ Home(k)' = c) => TryKept(k)
  PROVE  SameTries(c)
<1>1. /\ DOMAIN open = 1 .. Len(open) /\ DOMAIN open' = 1 .. Len(open')
      /\ Len(open) \in Nat /\ Len(open') \in Nat
  OBVIOUS
<1>2. \A k : Opens(k) /\ Opens(k)' => Home(k)' = Home(k)
  BY <1>1 DEF Opens, HomesStay
<1>3. \A k : k \in OpenTries(c) <=> Opens(k) /\ Home(k) = c
  BY DEF OpenTries, Opens
<1>4. \A k : k \in OpenTries(c)' <=> Opens(k)' /\ Home(k)' = c
  BY DEF OpenTries, Opens
<1>5. \A k : k \in OpenTries(c)' <=> k \in OpenTries(c)
  BY <1>2, <1>3, <1>4 DEF TryKept
<1>6. OpenTries(c)' = OpenTries(c)
  BY <1>5
<1> QED
  BY <1>3, <1>6 DEF SameTries, TryKept

\* Then it has the same spans.
LEMMA SameSpans ==
  ASSUME NEW c, SameTries(c), codes'[c].handlers = codes[c].handlers
  PROVE  Spans(c)' = Spans(c) /\ HandlersIn(c)' = HandlersIn(c)
<1>1. HandlersIn(c)' = HandlersIn(c)
  BY DEF HandlersIn
<1>2. {Span(open'[k]) : k \in OpenTries(c)'} = {Span(open[k]) : k \in OpenTries(c)}
  BY DEF SameTries
<1> QED
  BY <1>1, <1>2 DEF Spans

\* An address that statement j remembered before the step.
KeptPlace(j, x) ==
  /\ j \in DOMAIN open /\ IsPlace(j, x)
  /\ Patches(j, x)' => Patches(j, x)
  /\ open'[j].kind \in Tries => open[j].kind \in Tries

\* What BlockInv says while a program is compiled.
LEMMA WhileCompiling ==
  ASSUME CodeInv, BlockInv, Straight, phase = "compile"
  PROVE  /\ HomesHold /\ HeldOK /\ StatesOK /\ CodesOK
         /\ HandlersStart /\ HandlersOrdered /\ InnerHandlerFirst
         /\ HomesApart /\ TryStatements /\ BetweenBlocks
         /\ \A j \in DOMAIN open : \A x : IsPlace(j, x) => PlaceOK(j, x)
         /\ \A c \in DOMAIN codes :
              /\ CodeGood(c)
              /\ Lives(c) \/ EndsInReturn(codes[c].code)
              /\ "tryInFinally" \notin used => FreeFinally(Spans(c))
              /\ \A r \in Spans(c) : SpanOK(r, NextIn(c))
         /\ DOMAIN open = 1 .. Len(open) /\ Len(open) \in Nat
         /\ cur \in DOMAIN codes /\ Code \in Seq(Instruction) /\ DOMAIN Code = 1 .. Len(Code)
         /\ Len(Code) \in Nat /\ NextIn(cur) = Len(Code) + 1 /\ Offset = Len(Code) + 1
<1>1. /\ HomesHold /\ HeldOK /\ StatesOK /\ CodesOK
      /\ HandlersStart /\ HandlersOrdered /\ InnerHandlerFirst
  BY HomesAre
<1>2. BlocksSoFar /\ \A c \in DOMAIN codes :
              /\ CodeGood(c)
              /\ Lives(c) \/ EndsInReturn(codes[c].code)
              /\ "tryInFinally" \notin used => FreeFinally(Spans(c))
  BY DEF BlockInv
<1>3. /\ HomesApart /\ TryStatements /\ BetweenBlocks
      /\ \A j \in DOMAIN open : \A x : IsPlace(j, x) => PlaceOK(j, x)
  BY <1>2 DEF BlocksSoFar
<1>4. \A c \in DOMAIN codes : \A r \in Spans(c) : SpanOK(r, NextIn(c))
  BY <1>1, <1>3, SpansOK
<1>5. DOMAIN open = 1 .. Len(open) /\ Len(open) \in Nat
  BY <1>1, HeldTypes
<1>6. /\ cur \in DOMAIN codes /\ Code \in Seq(Instruction) /\ DOMAIN Code = 1 .. Len(Code)
      /\ Len(Code) \in Nat /\ NextIn(cur) = Len(Code) + 1 /\ Offset = Len(Code) + 1
  BY <1>1, Offsets DEF CodesOK, NextIn, Code
<1> QED
  BY <1>1, <1>2, <1>3, <1>4, <1>5, <1>6

\* A step that writes to the current code object and neither begins nor ends a
\* function keeps the invariant, when it does for that code object and for the
\* addresses that are patched in it.
LEMMA StepBlocks ==
  ASSUME CodeInv, BlockInv, Straight, phase = "compile", phase' = "compile", used \subseteq used',
         NEW o, o = cur, NEW new, Writes(new, o), Reshapes,
         \A c \in DOMAIN codes \ {o} : SameTries(c),
         CodeGood(o)',
         "tryInFinally" \notin used' => FreeFinally(Spans(o)'),
         TryStatements', BetweenBlocks',
         \A j \in DOMAIN open' : \A x : IsPlace(j, x)' =>
           \/ KeptPlace(j, x) /\ Home(j) # o
           \/ Home(j)' = o /\ PlaceIn(o, j, x)'
  PROVE  BlockInv'
<1>1. /\ HomesHold /\ HomesApart /\ CodesOK
      /\ \A j \in DOMAIN open : \A x : IsPlace(j, x) => PlaceOK(j, x)
      /\ \A c \in DOMAIN codes :
           /\ CodeGood(c)
           /\ Lives(c) \/ EndsInReturn(codes[c].code)
           /\ "tryInFinally" \notin used => FreeFinally(Spans(c))
      /\ DOMAIN open = 1 .. Len(open) /\ Len(open) \in Nat
  BY WhileCompiling
<1>2. /\ DOMAIN codes' = DOMAIN codes /\ \A c \in DOMAIN codes \ {o} : codes'[c] = codes[c]
  BY DEF Writes
<1>3. HomesKept /\ HomesApart'
  BY <1>1, ReshapedHomes, ReshapedApart
<1>4. /\ DOMAIN open' = 1 .. Len(open') /\ Len(open') \in Nat /\ cur' = o
      /\ Len(open') \in {Len(open) - 1, Len(open), Len(open) + 1}
  BY DEF Reshapes
<1>9. /\ Len(open') \in 0 .. Len(open') /\ \A j \in DOMAIN open' : j \in 0 .. Len(open')
      /\ \A j \in DOMAIN open : j \in 0 .. Len(open)
      /\ \A k \in 0 .. Len(open) : k # Len(open) => k \in 0 .. Len(open')
  <2>1. PICK n, m : n = Len(open) /\ m = Len(open')
    OBVIOUS
  <2>2. n \in Nat /\ m \in Nat /\ m \in {n - 1, n, n + 1} /\ DOMAIN open = 1 .. n /\ DOMAIN open' = 1 .. m
    BY <2>1, <1>4 DEF Reshapes
  <2>3. m \in 0 .. m /\ (\A j \in 1 .. m : j \in 0 .. m) /\ (\A j \in 1 .. n : j \in 0 .. n)
        /\ \A k \in 0 .. n : k # n => k \in 0 .. m
    BY <2>2
  <2> QED
    BY <2>1, <2>2, <2>3
<1>5. \A c \in DOMAIN codes \ {o} : Spans(c)' = Spans(c) /\ HandlersIn(c)' = HandlersIn(c)
  BY <1>2, SameSpans
<1>6. ASSUME NEW c \in DOMAIN codes'
      PROVE  /\ CodeGood(c)'
             /\ Lives(c)' \/ EndsInReturn(codes'[c].code)
             /\ "tryInFinally" \notin used' => FreeFinally(Spans(c)')
  <2>1. CASE c = o
    <3>1. Lives(o)'
      <4>1. HomeIn(open', cur', Len(open')) = o
        BY <1>3 DEF HomesKept
      <4> QED
        BY <1>9, <4>1 DEF Lives, Home
    <3> QED
      BY <2>1, <3>1
  <2>2. CASE c # o
    <3>1. codes'[c] = codes[c] /\ Spans(c)' = Spans(c) /\ HandlersIn(c)' = HandlersIn(c)
          /\ c \in DOMAIN codes
      BY <1>2, <1>5, <2>2
    <3>2. CodeGood(c)'
      BY <1>1, <1>2, <3>1 DEF CodeGood
    <3>3. Lives(c) => Lives(c)'
      <4> SUFFICES ASSUME Lives(c) PROVE Lives(c)'
        OBVIOUS
      <4>1. PICK k \in 0 .. Len(open) : Home(k) = c
        BY DEF Lives
      <4>2. k # Len(open)
        BY <1>1, <2>2, <4>1 DEF HomesHold
      <4>3. k \in 0 .. Len(open')
        BY <1>9, <4>2
      <4>4. Home(k)' = c
        BY <1>3, <4>1, <4>3 DEF HomesKept
      <4> QED
        BY <4>3, <4>4 DEF Lives
    <3> QED
      BY <1>1, <3>1, <3>2, <3>3
  <2> QED
    BY <2>1, <2>2
<1>7. ASSUME NEW j \in DOMAIN open', NEW x, IsPlace(j, x)' PROVE PlaceOK(j, x)'
  <2>1. CASE Home(j)' = o /\ PlaceIn(o, j, x)'
    BY <2>1 DEF PlaceOK
  <2>2. CASE KeptPlace(j, x) /\ Home(j) # o
    <3>1. PICK c : c = Home(j)
      OBVIOUS
    <3>2. j \in DOMAIN open /\ IsPlace(j, x) /\ PlaceIn(c, j, x)
      BY <1>1, <2>2, <3>1 DEF KeptPlace, PlaceOK
    <3>3. j \in 0 .. Len(open) /\ j \in 0 .. Len(open')
      BY <1>9, <3>2
    <3>4. Home(j)' = c /\ c \in DOMAIN codes /\ c # o
      BY <1>1, <1>3, <2>2, <3>1, <3>3 DEF HomesKept, HomesHold
    <3>5. codes'[c] = codes[c] /\ HandlersIn(c)' = HandlersIn(c) /\ SameTries(c)
          /\ NextIn(c)' = NextIn(c)
      BY <1>2, <1>5, <3>4 DEF NextIn
    <3>6. Patches(j, x)' /\ open'[j].kind \in Tries =>
            Part(Span(open'[j]), x) \in {1, 2}
      <4> SUFFICES ASSUME Patches(j, x)', open'[j].kind \in Tries
                   PROVE  Part(Span(open'[j]), x) \in {1, 2}
        OBVIOUS
      <4>1. Patches(j, x) /\ open[j].kind \in Tries
        BY <2>2 DEF KeptPlace
      <4>2. j \in OpenTries(c)
        BY <3>1, <3>2, <4>1 DEF OpenTries
      <4> QED
        BY <3>2, <3>5, <4>1, <4>2 DEF PlaceIn, SameTries
    <3>7. ASSUME NEW k \in OpenTries(c)' \ {j}
          PROVE  Part(Span(open'[k]), x) =
                   IF k < j THEN Part(Span(open'[k]), NextIn(c)') ELSE 0
      <4>1. k \in OpenTries(c) \ {j} /\ Span(open'[k]) = Span(open[k])
        BY <3>5 DEF SameTries
      <4> QED
        BY <3>2, <3>5, <4>1 DEF PlaceIn
    <3>8. /\ x \in DOMAIN codes'[c].code
          /\ Patches(j, x)' => codes'[c].code[x].op \in Jumps
          /\ \A h \in HandlersIn(c)' : Part(h, x) = 0
      BY <2>2, <3>2, <3>5 DEF PlaceIn, KeptPlace
    <3>9. PlaceIn(c, j, x)'
      BY <3>6, <3>7, <3>8 DEF PlaceIn
    <3> QED
      BY <3>4, <3>9 DEF PlaceOK
  <2> QED
    BY <1>7, <2>1, <2>2
<1>8. BlocksSoFar'
  BY <1>3, <1>7 DEF BlocksSoFar
<1> QED
  BY <1>6, <1>8 DEF BlockInv

\* new is the code of o with more instructions and with jumps patched.
ExtendedOK(new, o) ==
  /\ Len(Code) <= Len(new)
  /\ \A a \in DOMAIN Code :
       /\ new[a].op = Code[a].op
       /\ new[a].arg = Code[a].arg \/ (Code[a].op \in Jumps /\ TargetOK(new, Spans(o), a))
  /\ \A a \in DOMAIN new \ DOMAIN Code :
       InstructionOK(new, HandlersIn(o), Spans(o), DOMAIN codes, a)

\* Statement j of code object o now remembers address x, of a new instruction.
NewPlace(new, o, j, x) ==
  /\ Home(j)' = o /\ x \in DOMAIN new \ DOMAIN Code
  /\ Patches(j, x)' => new[x].op \in Jumps
  /\ \A k \in OpenTries(o) \ {j} : k < j
  /\ Patches(j, x)' /\ open'[j].kind \in Tries => Part(Span(open'[j]), x) \in {1, 2}

\* The step of a statement that is no try statement.
LEMMA PlainStep ==
  ASSUME CodeInv, BlockInv, Straight, phase = "compile", phase' = "compile", used \subseteq used',
         NEW o, o = cur, NEW new, Writes(new, o), codes'[o].handlers = codes[o].handlers, Reshapes,
         \A k : TryKept(k),
         ExtendedOK(new, o),
         TryStatements', BetweenBlocks',
         \A j \in DOMAIN open' : \A x : IsPlace(j, x)' => KeptPlace(j, x) \/ NewPlace(new, o, j, x)
  PROVE  BlockInv'
<1>1. /\ HomesHold /\ o \in DOMAIN codes
      /\ \A j \in DOMAIN open : \A x : IsPlace(j, x) => PlaceOK(j, x)
      /\ \A r \in Spans(o) : SpanOK(r, NextIn(o))
      /\ CodeGood(o) /\ ("tryInFinally" \notin used => FreeFinally(Spans(o)))
      /\ Code \in Seq(Instruction) /\ DOMAIN Code = 1 .. Len(Code)
      /\ Len(Code) \in Nat /\ NextIn(o) = Len(Code) + 1 /\ Code = codes[o].code
  BY WhileCompiling DEF Code
<1>2. /\ DOMAIN codes' = DOMAIN codes /\ codes'[o].code = new /\ new \in Seq(Instruction)
      /\ DOMAIN new = 1 .. Len(new) /\ Len(new) \in Nat /\ Len(Code) <= Len(new)
  BY DEF Writes, ExtendedOK
<1>3. HomesKept /\ open \in Seq(OpenStatement) /\ open' \in Seq(OpenStatement)
  BY ReshapedHomes DEF Reshapes
<1>4. \A c \in DOMAIN codes : SameTries(c)
  BY <1>3, KeptTries DEF HomesKept, HomesStay
<1>5. Spans(o)' = Spans(o) /\ HandlersIn(o)' = HandlersIn(o) /\ SameTries(o)
  BY <1>1, <1>4, SameSpans
<1>6. CodeGood(o)'
  <2>1. PICK code, H, S, D : code = Code /\ H = HandlersIn(o) /\ S = Spans(o) /\ D = DOMAIN codes
    OBVIOUS
  <2>2. GoodCode(code, H, S, D)
    BY <1>1, <2>1 DEF CodeGood
  <2>3. /\ Len(code) <= Len(new)
        /\ \A a \in DOMAIN code :
             /\ new[a].op = code[a].op
             /\ new[a].arg = code[a].arg \/ (code[a].op \in Jumps /\ TargetOK(new, S, a))
        /\ \A a \in DOMAIN new \ DOMAIN code : InstructionOK(new, H, S, D, a)
    BY <2>1 DEF ExtendedOK
  <2>4. code \in Seq(Instruction) /\ new \in Seq(Instruction) /\ D \subseteq D
    BY <1>1, <1>2, <2>1
  <2>5. GoodCode(new, H, S, D)
    BY <2>2, <2>3, <2>4, GrownGood
  <2> QED
    BY <1>2, <1>5, <2>1, <2>5 DEF CodeGood
<1>7. "tryInFinally" \notin used' => FreeFinally(Spans(o)')
  BY <1>1, <1>5
<1>8. ASSUME NEW j \in DOMAIN open', NEW x, IsPlace(j, x)'
      PROVE  \/ KeptPlace(j, x) /\ Home(j) # o
             \/ Home(j)' = o /\ PlaceIn(o, j, x)'
  <2>1. PICK n, m : n = NextIn(o) /\ m = Len(new) + 1
    OBVIOUS
  <2>2. n \in Nat /\ m \in Nat /\ n <= m /\ NextIn(o)' = m /\ n = Len(Code) + 1
    BY <1>1, <1>2, <2>1 DEF NextIn
  <2>3. \A k \in OpenTries(o) : Span(open[k]) \in Spans(o) /\ Span(open'[k]) = Span(open[k])
    BY <1>5 DEF Spans, SameTries
  <2>4. \A r \in Spans(o) : \A y \in Nat : n <= y => Part(r, y) = Part(r, n) /\ (r.end # NoAddress => Part(r, y) = 0)
    BY <1>1, <2>1, <2>2, Beyond
  <2>5. CASE KeptPlace(j, x) /\ Home(j) = o
    <3>1. j \in DOMAIN open /\ PlaceIn(o, j, x)
      BY <1>1, <2>5 DEF KeptPlace, PlaceOK
    <3>2. j \in 0 .. Len(open) /\ j \in 0 .. Len(open')
      BY <1>3, <1>8, <3>1
    <3>3. Home(j)' = o
      BY <1>3, <2>5, <3>2 DEF HomesKept
    <3>4. x \in DOMAIN new /\ (Patches(j, x)' => new[x].op \in Jumps)
      BY <1>1, <1>2, <2>5, <3>1 DEF PlaceIn, KeptPlace, ExtendedOK
    <3>5. \A h \in HandlersIn(o)' : Part(h, x) = 0
      BY <1>5, <3>1 DEF PlaceIn
    <3>6. ASSUME NEW k \in OpenTries(o)' \ {j}
          PROVE  Part(Span(open'[k]), x) = IF k < j THEN Part(Span(open'[k]), NextIn(o)') ELSE 0
      <4>1. k \in OpenTries(o) \ {j} /\ Span(open'[k]) = Span(open[k]) /\ Span(open[k]) \in Spans(o)
        BY <1>5, <2>3 DEF SameTries
      <4>2. Part(Span(open[k]), m) = Part(Span(open[k]), n)
        BY <2>2, <2>4, <4>1
      <4>3. Part(Span(open[k]), x) = IF k < j THEN Part(Span(open[k]), n) ELSE 0
        BY <2>1, <3>1, <4>1 DEF PlaceIn
      <4> QED
        BY <2>2, <4>1, <4>2, <4>3
    <3>7. Patches(j, x)' /\ open'[j].kind \in Tries => Part(Span(open'[j]), x) \in {1, 2}
      <4> SUFFICES ASSUME Patches(j, x)', open'[j].kind \in Tries
                   PROVE  Part(Span(open'[j]), x) \in {1, 2}
        OBVIOUS
      <4>1. Patches(j, x) /\ open[j].kind \in Tries
        BY <2>5 DEF KeptPlace
      <4>2. j \in OpenTries(o)
        BY <2>5, <3>1, <4>1 DEF OpenTries
      <4> QED
        BY <2>3, <3>1, <4>1, <4>2 DEF PlaceIn
    <3>8. PlaceIn(o, j, x)'
      BY <1>2, <3>4, <3>5, <3>6, <3>7 DEF PlaceIn
    <3> QED
      BY <3>3, <3>8
  <2>6. CASE NewPlace(new, o, j, x)
    <3>1. /\ Home(j)' = o /\ x \in DOMAIN new \ DOMAIN Code
          /\ Patches(j, x)' => new[x].op \in Jumps
          /\ \A k \in OpenTries(o) \ {j} : k < j
          /\ Patches(j, x)' /\ open'[j].kind \in Tries => Part(Span(open'[j]), x) \in {1, 2}
      BY <2>6 DEF NewPlace
    <3>2. x \in Nat /\ n <= x
      BY <1>1, <1>2, <2>2, <3>1
    <3>3. \A h \in HandlersIn(o)' : Part(h, x) = 0
      <4>1. HandlersIn(o) \subseteq Spans(o) /\ \A h \in HandlersIn(o) : h.end # NoAddress
        BY <1>1, HandlersSpan, WhileCompiling DEF Spans
      <4> QED
        BY <1>5, <2>4, <3>2, <4>1
    <3>4. ASSUME NEW k \in OpenTries(o)' \ {j}
          PROVE  Part(Span(open'[k]), x) = IF k < j THEN Part(Span(open'[k]), NextIn(o)') ELSE 0
      <4>1. k \in OpenTries(o) \ {j} /\ Span(open'[k]) = Span(open[k]) /\ Span(open[k]) \in Spans(o)
        BY <1>5, <2>3 DEF SameTries
      <4>2. Part(Span(open[k]), m) = Part(Span(open[k]), n) /\ Part(Span(open[k]), x) = Part(Span(open[k]), n)
        BY <2>2, <2>4, <3>2, <4>1
      <4> QED
        BY <2>2, <3>1, <4>1, <4>2
    <3>5. PlaceIn(o, j, x)'
      BY <1>2, <3>1, <3>3, <3>4 DEF PlaceIn
    <3> QED
      BY <3>1, <3>5
  <2> QED
    BY <1>8, <2>5, <2>6
<1> QED
  BY <1>4, <1>6, <1>7, <1>8, StepBlocks

-----------------------------------------------------------------------------
(* Statements that are not compound. *)

\* An instruction that concerns no try statement and has no target yet.
Simple(i) ==
  /\ i.op \notin {"TRY", "END_TRY", "RETURN", "CATCH", "MAKE_FUNCTION"}
  /\ i.op \in Jumps => i.arg = NoAddress

\* Instructions that promise nothing to be shown: neither a patched jump nor a border of a block.
LEMMA Simples ==
  /\ \A op \in Ops \ {"TRY", "END_TRY", "RETURN", "CATCH", "MAKE_FUNCTION"} : Simple(I(op))
  /\ \A op \in {"STORE", "LOAD", "DELETE", "LOAD_CONST"}, arg \in Nat : Simple(Ia(op, arg))
  /\ \A code, H, S, D, a : Simple(code[a]) => InstructionOK(code, H, S, D, a)
<1>1. \A op \in Ops \ {"TRY", "END_TRY", "RETURN", "CATCH", "MAKE_FUNCTION"} : Simple(I(op))
  BY InstructionTypes DEF Simple, NoAddress
<1>2. \A op \in {"STORE", "LOAD", "DELETE", "LOAD_CONST"}, arg \in Nat : Simple(Ia(op, arg))
  BY InstructionTypes DEF Simple, Jumps, Ops
<1>3. \A code, H, S, D, a : Simple(code[a]) => InstructionOK(code, H, S, D, a)
  BY DEF Simple, InstructionOK
<1> QED
  BY <1>1, <1>2, <1>3

\* Emit extends the current code object.
LEMMA EmitExtends ==
  ASSUME CodesOK, NEW o, o = cur, NEW more \in Seq(Instruction), Emit(more),
         NEW new, new = Code \o more
  PROVE  /\ Writes(new, o) /\ codes'[o].handlers = codes[o].handlers
         /\ Longer(new, Code, more)
         /\ (\A b \in DOMAIN more :
               InstructionOK(new, HandlersIn(o), Spans(o), DOMAIN codes, Len(Code) + b))
              => ExtendedOK(new, o)
<1>1. Rewrites(new) /\ Longer(new, Code, more)
  BY EmitRewrites
<1>2. /\ codes' \in Seq(CodeObject) /\ DOMAIN codes' = DOMAIN codes /\ codes'[o].code = new
      /\ \A c \in DOMAIN codes \ {o} : codes'[c] = codes[c]
      /\ SameHandlers /\ o \in DOMAIN codes
  BY <1>1, SetCodeGrows DEF CodesOK
<1>3. Writes(new, o) /\ codes'[o].handlers = codes[o].handlers
  BY <1>1, <1>2 DEF Writes, SameHandlers, Rewrites
<1>4. Len(Code) <= Len(new)
  BY <1>1 DEF Rewrites
<1>5. ASSUME \A b \in DOMAIN more :
               InstructionOK(new, HandlersIn(o), Spans(o), DOMAIN codes, Len(Code) + b)
      PROVE  ExtendedOK(new, o)
  BY <1>1, <1>4, <1>5 DEF Longer, ExtendedOK
<1> QED
  BY <1>1, <1>3, <1>5

\* A statement that only emits instructions.
LEMMA EmitStep ==
  ASSUME CodeInv, BlockInv, Straight, phase = "compile", phase' = "compile", used \subseteq used',
         NEW o, o = cur, NEW more \in Seq(Instruction), Emit(more),
         UNCHANGED <<cur, states, open>>, InBlock,
         NEW new, new = Code \o more,
         \A b \in DOMAIN more :
           InstructionOK(new, HandlersIn(o), Spans(o), DOMAIN codes, Len(Code) + b)
  PROVE  BlockInv'
<1>1. /\ CodesOK /\ HeldOK /\ TryStatements /\ open' = open /\ states' = states /\ cur' = cur
      /\ Len(open) \in Nat
  BY WhileCompiling
<1>2. Writes(new, o) /\ codes'[o].handlers = codes[o].handlers /\ ExtendedOK(new, o)
  BY <1>1, EmitExtends
<1>3. Reshapes
  BY <1>1 DEF Reshapes, HeldOK, SameFunction
<1>4. \A k : TryKept(k)
  BY <1>1 DEF TryKept, Opens
<1>5. TryStatements'
  BY <1>1 DEF TryStatements
<1>6. BetweenBlocks'
  BY <1>1 DEF BetweenBlocks, Inside, Enclosing, InBlock
<1>7. \A j \in DOMAIN open' : \A x : IsPlace(j, x)' => KeptPlace(j, x)
  BY <1>1 DEF KeptPlace, IsPlace, Patches
<1> QED
  BY <1>2, <1>3, <1>4, <1>5, <1>6, <1>7, PlainStep

\* What the program has done, it has done.
LEMMA StraightBefore ==
  ASSUME Straight', used \subseteq used'
  PROVE  Straight
BY DEF Straight

\* An expression emits no jump.
LEMMA ExpressionBlocks ==
  ASSUME CodeInv, BlockInv, ExpressionStatement, Straight'
  PROVE  BlockInv'
<1>1. PICK o, more, new : o = cur /\ more = <<I("EVAL"), I("POP")>> /\ new = Code \o more
  OBVIOUS
<1>2. /\ phase = "compile" /\ phase' = "compile" /\ used \subseteq used' /\ InBlock
      /\ Emit(more) /\ UNCHANGED <<cur, states, open>>
  BY <1>1 DEF ExpressionStatement, BeginPlain, Begin, Using
<1>3. Straight /\ CodesOK
  BY <1>2, StraightBefore DEF CodeInv
<1>4. more \in Seq(Instruction) /\ \A b \in DOMAIN more : Simple(more[b])
  BY <1>1, InstructionTypes, Simples DEF Ops
<1>5. Longer(new, Code, more)
  BY <1>1, <1>2, <1>3, <1>4, EmitExtends
<1>6. \A b \in DOMAIN more :
        InstructionOK(new, HandlersIn(o), Spans(o), DOMAIN codes, Len(Code) + b)
  BY <1>4, <1>5, Simples DEF Longer
<1> QED
  BY <1>1, <1>2, <1>3, <1>4, <1>6, EmitStep

\* RAISE is no jump either.
LEMMA RaiseBlocks ==
  ASSUME CodeInv, BlockInv, Raise, Straight'
  PROVE  BlockInv'
<1>1. PICK o, more, new : o = cur /\ more = <<I("EVAL"), I("RAISE")>> /\ new = Code \o more
  OBVIOUS
<1>2. /\ phase = "compile" /\ phase' = "compile" /\ used \subseteq used' /\ InBlock
      /\ Emit(more) /\ UNCHANGED <<cur, states, open>>
  BY <1>1 DEF Raise, BeginPlain, Begin, Using
<1>3. Straight /\ CodesOK
  BY <1>2, StraightBefore DEF CodeInv
<1>4. more \in Seq(Instruction) /\ \A b \in DOMAIN more : Simple(more[b])
  BY <1>1, InstructionTypes, Simples DEF Ops
<1>5. Longer(new, Code, more)
  BY <1>1, <1>2, <1>3, <1>4, EmitExtends
<1>6. \A b \in DOMAIN more :
        InstructionOK(new, HandlersIn(o), Spans(o), DOMAIN codes, Len(Code) + b)
  BY <1>4, <1>5, Simples DEF Longer
<1> QED
  BY <1>1, <1>2, <1>3, <1>4, <1>6, EmitStep

\* A jump of a statement out of i leaves no try statement of this function.
LEMMA NoTryLeft ==
  ASSUME CodeInv, BlockInv, Straight, phase = "compile", NEW i \in DOMAIN states,
         Left(i) \cap TryKinds = {}, NEW k \in OpenTries(cur)
  PROVE  k <= states[i].depth
<1>1. /\ k \in DOMAIN open /\ open[k].kind \in Tries
      /\ DOMAIN open = 1 .. Len(open) /\ Len(open) \in Nat /\ states[i].depth \in Nat
  BY WhileCompiling, HeldTypes DEF OpenTries
<1>2. open[k].kind \in TryKinds
  BY <1>1 DEF Tries, TryKinds
<1>3. k \notin states[i].depth + 1 .. Len(open)
  BY <1>2 DEF Left
<1> QED
  BY <1>1, <1>3

\* return: there is no try statement around it in its function.
LEMMA ReturnBlocks ==
  ASSUME CodeInv, BlockInv, Return, Straight'
  PROVE  BlockInv'
<1>1. PICK o, more, new, i :
        /\ o = cur /\ more = <<I("EVAL"), I("RETURN")>> /\ new = Code \o more
        /\ i = Unwound("FUNCTION")
  OBVIOUS
<1>2. /\ phase = "compile" /\ phase' = "compile" /\ used \subseteq used' /\ InBlock
      /\ Emit(more) /\ UNCHANGED <<cur, states, open>>
      /\ StateAt("FUNCTION") # {} /\ JumpUses(i) \ {"jumpFunction"} \subseteq used'
  BY <1>1 DEF Return, Begin, Using
<1>3. Straight /\ CodesOK
  BY <1>2, StraightBefore DEF CodeInv
<1>4. more \in Seq(Instruction) /\ DOMAIN more = {1, 2} /\ Simple(more[1]) /\ more[2].op = "RETURN"
  BY <1>1, InstructionTypes, Simples DEF Ops
<1>5. Longer(new, Code, more)
  BY <1>1, <1>2, <1>3, <1>4, EmitExtends
<1>6. i \in DOMAIN states /\ states[i].type = "FUNCTION"
  BY <1>1, <1>2, <1>3, WhileCompiling, UnwoundIsLast
<1>7. Left(i) \cap TryKinds = {}
  BY <1>2 DEF JumpUses, Straight
<1>8. OpenTries(o) = {}
  <2> SUFFICES ASSUME NEW k \in OpenTries(o) PROVE FALSE
    OBVIOUS
  <2>1. k <= states[i].depth
    BY <1>1, <1>2, <1>3, <1>6, <1>7, NoTryLeft
  <2>2. PICK d : d = states[i].depth
    OBVIOUS
  <2>3. d \in DOMAIN open /\ open[d].kind = "function"
    BY <1>2, <1>3, <1>6, <2>2, WhileCompiling DEF StatesOK
  <2>4. k \in DOMAIN open /\ open[k].kind \in Tries /\ Home(k) = cur
    BY <1>1 DEF OpenTries
  <2>5. /\ HomesApart /\ HomesHold /\ DOMAIN open = 1 .. Len(open) /\ Len(open) \in Nat
    BY <1>2, <1>3, WhileCompiling
  <2>6. k # d
    BY <2>3, <2>4 DEF Tries
  <2>7. /\ k \in 0 .. Len(open) /\ Len(open) \in 0 .. Len(open) /\ k < Len(open)
        /\ d \in k + 1 .. Len(open)
    BY <2>1, <2>2, <2>3, <2>4, <2>5, <2>6
  <2>8. Home(k) = Home(Len(open))
    BY <2>4, <2>5 DEF HomesHold
  <2> QED
    BY <2>3, <2>5, <2>7, <2>8 DEF HomesApart
<1>9. \A r \in Spans(o) : Part(r, Len(Code) + 2) = 0
  <2>1. PICK n, m : n = Len(Code) + 1 /\ m = Len(Code) + 2
    OBVIOUS
  <2>2. /\ HandlersStart /\ HandlersOrdered /\ o \in DOMAIN codes
        /\ NextIn(o) = n /\ Len(Code) \in Nat
    BY <1>1, <1>2, <1>3, <2>1, WhileCompiling
  <2>3. n \in Nat /\ m \in Nat /\ n <= m
    BY <2>1, <2>2
  <2>4. \A r \in Spans(o) : SpanOK(r, n) /\ r.end # NoAddress
    BY <1>3, <1>8, <2>2, HandlersSpan DEF Spans
  <2> QED
    BY <2>1, <2>3, <2>4, Beyond
<1>10. \A b \in DOMAIN more :
        InstructionOK(new, HandlersIn(o), Spans(o), DOMAIN codes, Len(Code) + b)
  <2>1. InstructionOK(new, HandlersIn(o), Spans(o), DOMAIN codes, Len(Code) + 1)
    BY <1>4, <1>5, Simples DEF Longer
  <2>2. new[Len(Code) + 2].op = "RETURN"
    BY <1>4, <1>5 DEF Longer
  <2>3. InstructionOK(new, HandlersIn(o), Spans(o), DOMAIN codes, Len(Code) + 2)
    BY <1>9, <2>2 DEF InstructionOK, Jumps
  <2> QED
    BY <1>4, <2>1, <2>3
<1> QED
  BY <1>1, <1>2, <1>3, <1>4, <1>10, EmitStep

\* Address x is in the same blocks as the next instruction.
Here(x) == x \in DOMAIN Code /\ \A r \in Spans(cur) : Part(r, x) = Part(r, Len(Code) + 1)

\* A statement remembers addresses of its own blocks.
LEMMA PlacedHere ==
  ASSUME CodeInv, BlockInv, Straight, phase = "compile", NEW j \in DOMAIN open, Home(j) = cur,
         \A k \in OpenTries(cur) : k < j, NEW x, IsPlace(j, x)
  PROVE  Here(x) /\ (Patches(j, x) => Code[x].op \in Jumps)
<1>1. /\ CodesOK /\ HandlersStart /\ HandlersOrdered /\ cur \in DOMAIN codes
      /\ NextIn(cur) = Len(Code) + 1 /\ Len(Code) \in Nat /\ j \in Nat
      /\ \A r \in Spans(cur) : SpanOK(r, Len(Code) + 1)
      /\ PlaceIn(cur, j, x)
  BY WhileCompiling DEF PlaceOK
<1>2. PICK n : n = Len(Code) + 1
  OBVIOUS
<1>3. x \in DOMAIN Code /\ (Patches(j, x) => Code[x].op \in Jumps)
  BY <1>1 DEF PlaceIn, Code
<1>4. ASSUME NEW h \in HandlersIn(cur) PROVE Part(h, x) = Part(h, n)
  <2>1. h \in Spans(cur) /\ h.end # NoAddress
    BY <1>1, HandlersSpan DEF Spans
  <2>2. n \in Nat /\ SpanOK(h, n) /\ n <= n
    BY <1>1, <1>2, <2>1
  <2>3. Part(h, n) = 0
    BY <2>1, <2>2, Beyond
  <2> QED
    BY <1>1, <2>3 DEF PlaceIn
<1>5. ASSUME NEW k \in OpenTries(cur) PROVE Part(Span(open[k]), x) = Part(Span(open[k]), n)
  <2>1. k < j /\ k \in Nat
    BY WhileCompiling DEF OpenTries
  <2>2. k # j
    BY <1>1, <2>1
  <2> QED
    BY <1>1, <1>2, <2>1, <2>2 DEF PlaceIn
<1> QED
  BY <1>2, <1>3, <1>4, <1>5 DEF Here, Spans

\* A loop that break or continue jumps to.
LEMMA LoopAround ==
  ASSUME CodeInv, BlockInv, Straight, phase = "compile", StateAt("LOOP") # {},
         NEW i, i = Unwound("LOOP"), JumpUses(i) \cap {"jumpFromTry", "jumpFunction"} = {},
         NEW j, j = states[i].depth
  PROVE  /\ i \in DOMAIN states /\ states[i].type = "LOOP" /\ j \in DOMAIN open
         /\ open[j].kind \in Loops /\ Home(j) = cur /\ states[i].start = open[j].start
         /\ \A k \in OpenTries(cur) : k < j
<1>1. HeldOK /\ StatesOK /\ DOMAIN open = 1 .. Len(open) /\ Len(open) \in Nat
  BY WhileCompiling
<1>2. i \in DOMAIN states /\ states[i].type = "LOOP"
  BY <1>1, UnwoundIsLast
<1>3. j \in DOMAIN open /\ open[j].kind \in Loops /\ states[i].start = open[j].start
  BY <1>1, <1>2 DEF StatesOK
<1>4. ~Crosses(i) /\ Left(i) \cap TryKinds = {}
  BY DEF JumpUses
<1>5. Home(j) = cur
  <2>1. PICK home : CompilingAt(home)
    BY SomeHome
  <2>2. home[j] = cur
    BY <1>4, <2>1, LoopAtHome
  <2>3. j \in 0 .. Len(open)
    BY <1>1, <1>3
  <2> QED
    BY <2>1, <2>2, <2>3, HomeIs
<1>6. ASSUME NEW k \in OpenTries(cur) PROVE k < j
  <2>1. k <= j
    BY <1>2, <1>4, NoTryLeft
  <2>2. k # j /\ k \in Nat /\ j \in Nat
    BY <1>1, <1>3 DEF OpenTries, Tries, Loops
  <2> QED
    BY <2>1, <2>2
<1> QED
  BY <1>2, <1>3, <1>5, <1>6

\* A new jump to an address of the same blocks.
LEMMA JumpHere ==
  ASSUME CodeInv, BlockInv, Straight, phase = "compile", NEW new \in Seq(Instruction),
         NEW a \in 1 .. Len(new), Len(Code) < a \/ Here(a),
         NEW t \in 1 .. Len(new) + 1, new[a].arg = t, Len(Code) < t \/ Here(t)
  PROVE  TargetOK(new, Spans(cur), a)
<1>1. /\ NextIn(cur) = Len(Code) + 1 /\ Len(Code) \in Nat
      /\ \A r \in Spans(cur) : SpanOK(r, Len(Code) + 1)
  BY WhileCompiling
<1>2. PICK n : n = Len(Code) + 1
  OBVIOUS
<1>3. \A r \in Spans(cur) : \A x \in Nat : n <= x => Part(r, x) = Part(r, n)
  BY <1>1, <1>2, Beyond
<1>4. n \in Nat /\ a \in Nat /\ t \in Nat /\ (Len(Code) < a => n <= a) /\ (Len(Code) < t => n <= t)
  BY <1>1, <1>2
<1>5. \A r \in Spans(cur) : Part(r, a) = Part(r, n) /\ Part(r, t) = Part(r, n)
  BY <1>2, <1>3, <1>4 DEF Here
<1> QED
  BY <1>5 DEF TargetOK, StaysIn

\* continue jumps back to its loop, which is in the same blocks.
LEMMA ContinueBlocks ==
  ASSUME CodeInv, BlockInv, Continue, Straight'
  PROVE  BlockInv'
<1>1. PICK o, i, j, start, more, new :
        /\ o = cur /\ i = Unwound("LOOP") /\ j = states[i].depth /\ start = states[i].start
        /\ more = <<Ia("JMP", start)>> /\ new = Code \o more
  OBVIOUS
<1>2. /\ phase = "compile" /\ phase' = "compile" /\ used \subseteq used' /\ InBlock
      /\ Emit(more) /\ UNCHANGED <<cur, states, open>>
      /\ StateAt("LOOP") # {} /\ JumpUses(i) \subseteq used'
  BY <1>1 DEF Continue, Begin, Using
<1>3. Straight /\ CodesOK /\ JumpUses(i) \cap {"jumpFromTry", "jumpFunction"} = {}
  BY <1>2, StraightBefore DEF CodeInv, Straight
<1>4. /\ i \in DOMAIN states /\ j \in DOMAIN open /\ open[j].kind \in Loops /\ Home(j) = cur
      /\ start = open[j].start /\ \A k \in OpenTries(cur) : k < j
  BY <1>1, <1>2, <1>3, LoopAround
<1>5. Here(start)
  <2>1. IsPlace(j, start)
    BY <1>4 DEF IsPlace
  <2> QED
    BY <1>2, <1>3, <1>4, <2>1, PlacedHere
<1>6. start \in 1 .. Len(Code) /\ Len(Code) \in Nat /\ start \in Nat
  BY <1>2, <1>3, <1>5, WhileCompiling DEF Here
<1>7. more \in Seq(Instruction) /\ DOMAIN more = {1} /\ Len(more) = 1
      /\ more[1].op = "JMP" /\ more[1].arg = start
  BY <1>1, <1>6, InstructionTypes DEF Ops
<1>8. Longer(new, Code, more) /\ new \in Seq(Instruction)
  BY <1>1, <1>2, <1>3, <1>7, EmitExtends DEF Writes
<1>9. InstructionOK(new, HandlersIn(o), Spans(o), DOMAIN codes, Len(Code) + 1)
  <2>1. Len(new) = Len(Code) + 1 /\ new[Len(Code) + 1].op = "JMP" /\ new[Len(Code) + 1].arg = start
    BY <1>7, <1>8 DEF Longer
  <2>2. PICK a : a = Len(Code) + 1
    OBVIOUS
  <2>3. a \in 1 .. Len(new) /\ Len(Code) < a /\ start \in 1 .. Len(new) + 1
    BY <1>6, <2>1, <2>2
  <2>4. TargetOK(new, Spans(o), a)
    BY <1>1, <1>2, <1>3, <1>5, <1>8, <2>1, <2>2, <2>3, JumpHere
  <2> QED
    BY <2>1, <2>2, <2>4 DEF InstructionOK, Jumps
<1>10. \A b \in DOMAIN more :
        InstructionOK(new, HandlersIn(o), Spans(o), DOMAIN codes, Len(Code) + b)
  BY <1>7, <1>9
<1> QED
  BY <1>1, <1>2, <1>3, <1>7, <1>10, EmitStep

\* break: the loop remembers one more jump.
LEMMA BreakBlocks ==
  ASSUME CodeInv, BlockInv, Break, Straight'
  PROVE  BlockInv'
<1>1. PICK o, i, j, more, new, n, ends :
        /\ o = cur /\ i = Unwound("LOOP") /\ j = states[i].depth
        /\ more = <<I("JMP")>> /\ new = Code \o more /\ n = Offset /\ ends = states[i].ends \cup {n}
  OBVIOUS
<1>2. /\ phase = "compile" /\ phase' = "compile" /\ used \subseteq used' /\ InBlock
      /\ Emit(more) /\ UNCHANGED <<cur, open>>
      /\ StateAt("LOOP") # {} /\ JumpUses(i) \subseteq used'
      /\ states' = [states EXCEPT ![i].ends = ends]
  BY <1>1 DEF Break, Begin, Using
<1>3. Straight /\ CodesOK /\ JumpUses(i) \cap {"jumpFromTry", "jumpFunction"} = {}
  BY <1>2, StraightBefore DEF CodeInv, Straight
<1>4. /\ i \in DOMAIN states /\ states[i].type = "LOOP" /\ j \in DOMAIN open
      /\ open[j].kind \in Loops /\ Home(j) = o /\ \A k \in OpenTries(o) : k < j
  BY <1>1, <1>2, <1>3, LoopAround
<1>5. /\ HeldOK /\ StatesOK /\ TryStatements /\ Len(Code) \in Nat /\ n = Len(Code) + 1
      /\ DOMAIN Code = 1 .. Len(Code)
  BY <1>1, <1>2, <1>3, WhileCompiling
<1>6. more \in Seq(Instruction) /\ DOMAIN more = {1} /\ Len(more) = 1 /\ Simple(more[1])
      /\ more[1].op = "JMP"
  BY <1>1, InstructionTypes, Simples DEF Ops
<1>7. Writes(new, o) /\ codes'[o].handlers = codes[o].handlers /\ Longer(new, Code, more)
  BY <1>1, <1>2, <1>3, <1>6, EmitExtends
<1>8. new[n].op = "JMP" /\ Simple(new[n]) /\ n \in DOMAIN new \ DOMAIN Code
  <2>1. new[n].op = "JMP" /\ Simple(new[n]) /\ Len(new) = Len(Code) + 1
    BY <1>5, <1>6, <1>7 DEF Longer
  <2>2. DOMAIN new = 1 .. Len(new)
    BY <1>7 DEF Writes
  <2> QED
    BY <1>5, <2>1, <2>2
<1>9. ExtendedOK(new, o)
  <2>1. \A b \in DOMAIN more : InstructionOK(new, HandlersIn(o), Spans(o), DOMAIN codes, Len(Code) + b)
    BY <1>5, <1>6, <1>8, Simples
  <2> QED
    BY <1>1, <1>2, <1>3, <1>6, <2>1, EmitExtends
<1>10. Reshapes
  BY <1>2, <1>5 DEF Reshapes, HeldOK, SameFunction
<1>11. \A k : TryKept(k)
  BY <1>2 DEF TryKept, Opens
<1>12. TryStatements' /\ BetweenBlocks'
  BY <1>2, <1>5 DEF TryStatements, BetweenBlocks, Inside, Enclosing, InBlock
<1>13. /\ DOMAIN states' = DOMAIN states
       /\ \A m \in DOMAIN states : states'[m].depth = states[m].depth
       /\ \A m \in DOMAIN states : states'[m].ends = IF m = i THEN ends ELSE states[m].ends
  <2>1. ends \in SUBSET Nat
    BY <1>1, <1>4, <1>5, HeldTypes DEF StackState
  <2> QED
    BY <1>2, <1>4, <1>5, <2>1, StatesBreak
<1>14. ASSUME NEW k \in DOMAIN open', NEW x, IsPlace(k, x)'
       PROVE  KeptPlace(k, x) \/ NewPlace(new, o, k, x)
  <2>1. k \in DOMAIN open /\ open' = open
    BY <1>2
  <2>2. Patches(k, x)' => Patches(k, x) \/ (k = j /\ x = n)
    <3>1. ASSUME NEW m \in DOMAIN states', states'[m].depth = k, x \in states'[m].ends
          PROVE  (m \in DOMAIN states /\ states[m].depth = k /\ x \in states[m].ends)
                 \/ (k = j /\ x = n)
      BY <1>1, <1>13, <3>1
    <3> QED
      BY <2>1, <3>1 DEF Patches
  <2>3. CASE Patches(k, x)' => Patches(k, x)
    BY <1>14, <2>1, <2>3 DEF KeptPlace, IsPlace
  <2>4. CASE k = j /\ x = n
    <3>1. Home(j)' = o /\ open'[j].kind \notin Tries
      BY <1>2, <1>4 DEF Home, Loops, Tries
    <3>2. new[n].op \in Jumps
      BY <1>8 DEF Jumps
    <3> QED
      BY <1>4, <1>8, <2>4, <3>1, <3>2 DEF NewPlace
  <2> QED
    BY <2>2, <2>3, <2>4
<1> QED
  BY <1>1, <1>2, <1>3, <1>7, <1>9, <1>10, <1>11, <1>12, <1>14, PlainStep

-----------------------------------------------------------------------------
(* Compound statements. *)

\* A loop or an if statement begins.
LEMMA PushStep ==
  ASSUME CodeInv, BlockInv, Straight, phase = "compile", phase' = "compile", used \subseteq used',
         NEW o, o = cur, NEW more \in Seq(Instruction), Emit(more), cur' = cur, InBlock,
         NEW s \in OpenStatement, Push(s), s.kind \in Loops \cup {"if"}, s.ends = {},
         NEW new, new = Code \o more,
         \A b \in DOMAIN more : Simple(more[b]),
         s.exit - Len(Code) \in DOMAIN more, more[s.exit - Len(Code)].op \in Jumps,
         s.kind \in Loops => s.start - Len(Code) \in DOMAIN more,
         \/ states' = states
         \/ \E q : q.ends = {} /\ states' = Append(states, q)
  PROVE  BlockInv'
<1>1. /\ CodesOK /\ HeldOK /\ StatesOK /\ HomesHold /\ TryStatements /\ Len(Code) \in Nat
      /\ DOMAIN open = 1 .. Len(open) /\ Len(open) \in Nat
      /\ DOMAIN Code = 1 .. Len(Code)
  BY WhileCompiling
<1>2. Writes(new, o) /\ codes'[o].handlers = codes[o].handlers /\ Longer(new, Code, more)
  BY <1>1, EmitExtends
<1>3. PICK n : n = Len(open) + 1
  OBVIOUS
<1>4. /\ open' \in Seq(OpenStatement) /\ Len(open') = n /\ DOMAIN open' = 1 .. n
      /\ open'[n] = s /\ n \in Nat /\ n \notin DOMAIN open
      /\ \A k \in DOMAIN open : open'[k] = open[k]
  <2>1. /\ open' \in Seq(OpenStatement) /\ Len(open') = Len(open) + 1
        /\ DOMAIN open' = 1 .. Len(open) + 1 /\ open'[Len(open) + 1] = s
        /\ \A k \in DOMAIN open : open'[k] = open[k]
    BY <1>1, PushOpens
  <2>2. n \in Nat /\ n \notin DOMAIN open
    BY <1>1, <1>3
  <2> QED
    BY <1>3, <2>1, <2>2
<1>5. \A k \in DOMAIN open' : k \in DOMAIN open \/ k = n
  BY <1>1, <1>3, <1>4
<1>6. Reshapes
  <2>1. /\ \A k \in DOMAIN open : SameFunction(open[k], open'[k])
        /\ s.kind # "function"
    BY <1>4 DEF SameFunction, Loops
  <2>2. Len(open') = Len(open) + 1 /\ Len(open') # Len(open) - 1
    <3>1. PICK l, m : l = Len(open) /\ m = Len(open')
      OBVIOUS
    <3>2. l \in Nat /\ m = l + 1
      BY <1>1, <1>3, <1>4, <3>1
    <3>3. m # l - 1
      BY <3>2
    <3> QED
      BY <3>1, <3>2, <3>3
  <2> QED
    BY <1>1, <1>3, <1>4, <2>1, <2>2 DEF Reshapes, HeldOK
<1>7. \A k : TryKept(k)
  <2>1. \A k \in DOMAIN open : k \in DOMAIN open'
    BY <1>1, <1>3, <1>4
  <2>2. s.kind \notin Tries
    BY DEF Loops, Tries
  <2> QED
    BY <1>4, <1>5, <2>1, <2>2 DEF TryKept, Opens
<1>8. ExtendedOK(new, o)
  <2>1. \A b \in DOMAIN more : InstructionOK(new, HandlersIn(o), Spans(o), DOMAIN codes, Len(Code) + b)
    BY <1>2, Simples DEF Longer
  <2> QED
    BY <1>1, <2>1, EmitExtends
<1>9. TryStatements'
  <2>1. ASSUME NEW k \in DOMAIN open', k > 1, open'[k - 1].kind = "handlers"
        PROVE  open'[k].kind = "catch"
    <3>1. CASE k \in DOMAIN open
      <4>1. k - 1 \in DOMAIN open
        BY <1>1, <2>1, <3>1
      <4> QED
        BY <1>1, <1>4, <2>1, <3>1, <4>1 DEF TryStatements
    <3>2. CASE k = n
      <4>1. Len(open) \in DOMAIN open /\ k - 1 = Len(open)
        BY <1>1, <1>3, <1>4, <2>1, <3>2
      <4>2. open # <<>> /\ open[Len(open)].kind = "handlers"
        BY <1>4, <2>1, <4>1
      <4> QED
        BY <4>2 DEF InBlock, Inside, Enclosing
    <3> QED
      BY <1>5, <2>1, <3>1, <3>2
  <2>2. ASSUME NEW k \in DOMAIN open', open'[k].kind = "try" PROVE open'[k].first = NoAddress
    <3>1. k # n
      BY <1>4, <2>2 DEF Loops
    <3> QED
      BY <1>1, <1>4, <1>5, <2>2, <3>1 DEF TryStatements
  <2> QED
    BY <2>1, <2>2 DEF TryStatements
<1>10. BetweenBlocks'
  BY <1>4 DEF BetweenBlocks, Inside, Enclosing, Loops
<1>11. \A k, x : (\E m \in DOMAIN states' : states'[m].depth = k /\ x \in states'[m].ends) =>
               \E m \in DOMAIN states : states[m].depth = k /\ x \in states[m].ends
  <2>1. CASE states' = states
    BY <2>1
  <2>2. ASSUME NEW q, q.ends = {}, states' = Append(states, q)
        PROVE  \A k, x : (\E m \in DOMAIN states' : states'[m].depth = k /\ x \in states'[m].ends) =>
                 \E m \in DOMAIN states : states[m].depth = k /\ x \in states[m].ends
    <3>1. states \in Seq(StackState) /\ DOMAIN states = 1 .. Len(states) /\ Len(states) \in Nat
      BY <1>1, HeldTypes DEF HeldOK
    <3>2. /\ DOMAIN states' = 1 .. Len(states) + 1 /\ states'[Len(states) + 1] = q
          /\ \A m \in 1 .. Len(states) : states'[m] = states[m]
      <4>1. PICK S, t : S = StackState \cup {q} /\ t = states
        OBVIOUS
      <4>2. t \in Seq(S) /\ q \in S
        BY <3>1, <4>1
      <4>3. /\ DOMAIN Append(t, q) = 1 .. Len(t) + 1 /\ Append(t, q)[Len(t) + 1] = q
            /\ \A m \in 1 .. Len(t) : Append(t, q)[m] = t[m]
        BY <4>2
      <4> QED
        BY <2>2, <4>1, <4>3
    <3>3. \A m \in DOMAIN states' : m \in DOMAIN states \/ m = Len(states) + 1
      BY <3>1, <3>2
    <3> QED
      BY <2>2, <3>1, <3>2, <3>3
  <2> QED
    BY <2>1, <2>2
<1>12. ASSUME NEW k \in DOMAIN open', NEW x, IsPlace(k, x)'
       PROVE  KeptPlace(k, x) \/ NewPlace(new, o, k, x)
  <2>1. CASE k \in DOMAIN open
    <3>1. open'[k] = open[k]
      BY <1>4, <2>1
    <3>2. Patches(k, x)' => Patches(k, x)
      BY <1>11, <3>1 DEF Patches
    <3> QED
      BY <1>12, <2>1, <3>1, <3>2 DEF KeptPlace, IsPlace
  <2>2. CASE k = n
    <3>1. open'[k] = s
      BY <1>4, <2>2
    <3>2. ~\E m \in DOMAIN states : states[m].depth = k /\ x \in states[m].ends
      BY <1>1, <1>4, <2>2 DEF StatesOK
    <3>3. Patches(k, x)' => x = s.exit
      BY <1>11, <3>1, <3>2 DEF Patches
    <3>4. x = s.exit \/ (s.kind \in Loops /\ x = s.start)
      BY <1>12, <3>1, <3>3 DEF IsPlace, Loops, Tries
    <3>5. PICK b : b = x - Len(Code)
      OBVIOUS
    <3>6. b \in DOMAIN more /\ (Patches(k, x)' => more[b].op \in Jumps)
      BY <3>3, <3>4, <3>5
    <3>7. x \in Nat /\ b \in 1 .. Len(more) /\ Len(more) \in Nat
      BY <3>4, <3>6 DEF OpenStatement
    <3>8. x = Len(Code) + b
      BY <1>1, <3>5, <3>7
    <3>9. x \in DOMAIN new \ DOMAIN Code
      <4>1. DOMAIN new = 1 .. Len(new) /\ Len(new) = Len(Code) + Len(more)
        BY <1>2 DEF Writes, Longer
      <4> QED
        BY <1>1, <3>7, <3>8, <4>1
    <3>10. new[x] = more[b]
      BY <1>2, <3>6, <3>8 DEF Longer
    <3>11. Home(k)' = o
      <4>1. HomesKept
        BY <1>6, ReshapedHomes
      <4> QED
        BY <1>4, <2>2, <4>1 DEF HomesKept, Home
    <3>12. \A m \in OpenTries(o) \ {k} : m < k
      BY <1>1, <1>3, <2>2 DEF OpenTries
    <3>13. open'[k].kind \notin Tries
      BY <3>1 DEF Loops, Tries
    <3> QED
      BY <3>6, <3>9, <3>10, <3>11, <3>12, <3>13 DEF NewPlace
  <2> QED
    BY <1>5, <2>1, <2>2
<1> QED
  BY <1>2, <1>6, <1>7, <1>8, <1>9, <1>10, <1>12, PlainStep

\* The jump past the if block waits for its end.
LEMMA BeginIfBlocks ==
  ASSUME CodeInv, BlockInv, BeginIf, Straight'
  PROVE  BlockInv'
<1>1. PICK o, more, new, s :
        /\ o = cur /\ more = <<I("EVAL"), I("JMP_IF_FALSE")>> /\ new = Code \o more
        /\ s = Statement("if", NoAddress, Offset + 1)
  OBVIOUS
<1>2. /\ phase = "compile" /\ phase' = "compile" /\ used \subseteq used' /\ InBlock
      /\ Emit(more) /\ cur' = cur /\ states' = states /\ Push(s)
  BY <1>1 DEF BeginIf, BeginCompound, BeginPlain, Begin, Using
<1>3. Straight
  BY <1>2, StraightBefore
<1>4. more \in Seq(Instruction) /\ DOMAIN more = {1, 2} /\ Simple(more[1]) /\ Simple(more[2])
      /\ more[2].op \in Jumps
  BY <1>1, InstructionTypes, Simples DEF Ops, Jumps
<1>5. Len(Code) \in Nat /\ Offset = Len(Code) + 1
  BY <1>2, <1>3, WhileCompiling
<1>6. s \in OpenStatement /\ s.kind = "if" /\ s.exit = Len(Code) + 2 /\ s.ends = {}
  <2>1. PICK e : e = Offset + 1
    OBVIOUS
  <2>2. e \in Nat /\ e = Len(Code) + 2 /\ NoAddress \in Nat /\ "if" \in StatementKinds
    BY <1>5, <2>1 DEF NoAddress, StatementKinds
  <2> QED
    BY <1>1, <2>1, <2>2, StatementType
<1>7. s.exit - Len(Code) = 2
  BY <1>5, <1>6
<1> QED
  BY <1>1, <1>2, <1>3, <1>4, <1>6, <1>7, PushStep DEF Loops

\* So does the jump out of the loop.
LEMMA BeginWhileBlocks ==
  ASSUME CodeInv, BlockInv, BeginWhile, Straight'
  PROVE  BlockInv'
<1>1. PICK o, more, new, s, q :
        /\ o = cur /\ more = <<I("EVAL"), I("JMP_IF_FALSE")>> /\ new = Code \o more
        /\ s = Statement("while", Offset, Offset + 1)
        /\ q = State("LOOP", Offset, Len(open) + 1)
  OBVIOUS
<1>2. /\ phase = "compile" /\ phase' = "compile" /\ used \subseteq used' /\ InBlock
      /\ Emit(more) /\ cur' = cur /\ states' = Append(states, q) /\ Push(s)
  BY <1>1 DEF BeginWhile, BeginCompound, BeginPlain, Begin, Using
<1>3. Straight
  BY <1>2, StraightBefore
<1>4. more \in Seq(Instruction) /\ DOMAIN more = {1, 2} /\ Simple(more[1]) /\ Simple(more[2])
      /\ more[2].op \in Jumps
  BY <1>1, InstructionTypes, Simples DEF Ops, Jumps
<1>5. Len(Code) \in Nat /\ Offset = Len(Code) + 1
  BY <1>2, <1>3, WhileCompiling
<1>6. /\ s \in OpenStatement /\ s.kind = "while" /\ s.start = Len(Code) + 1
      /\ s.exit = Len(Code) + 2 /\ s.ends = {}
  <2>1. PICK f, e : f = Offset /\ e = Offset + 1
    OBVIOUS
  <2>2. f \in Nat /\ e \in Nat /\ e = Len(Code) + 2 /\ "while" \in StatementKinds
    BY <1>5, <2>1 DEF StatementKinds, Loops
  <2> QED
    BY <1>1, <1>5, <2>1, <2>2, StatementType
<1>7. s.exit - Len(Code) = 2 /\ s.start - Len(Code) = 1
  BY <1>5, <1>6
<1>8. q.ends = {}
  BY <1>1 DEF State
<1> QED
  BY <1>1, <1>2, <1>3, <1>4, <1>6, <1>7, <1>8, PushStep DEF Loops

\* FOR_EACH is the jump out of a for-each loop.
LEMMA BeginForEachBlocks ==
  ASSUME CodeInv, BlockInv, BeginForEach, Straight'
  PROVE  BlockInv'
<1>1. PICK o, more, new, s, q :
        /\ o = cur /\ more = <<I("EVAL"), I("GET_ITER"), I("FOR_EACH"), I("STORE")>>
        /\ new = Code \o more
        /\ s = Statement("foreach", Offset + 2, Offset + 2)
        /\ q = State("LOOP", Offset + 2, Len(open) + 1)
  OBVIOUS
<1>2. /\ phase = "compile" /\ phase' = "compile" /\ used \subseteq used' /\ InBlock
      /\ Emit(more) /\ cur' = cur /\ states' = Append(states, q) /\ Push(s)
  BY <1>1 DEF BeginForEach, BeginCompound, BeginPlain, Begin, Using
<1>3. Straight
  BY <1>2, StraightBefore
<1>4. /\ more \in Seq(Instruction) /\ DOMAIN more = {1, 2, 3, 4}
      /\ Simple(more[1]) /\ Simple(more[2]) /\ Simple(more[3]) /\ Simple(more[4])
      /\ more[3].op \in Jumps
  BY <1>1, InstructionTypes, Simples DEF Ops, Jumps
<1>5. Len(Code) \in Nat /\ Offset = Len(Code) + 1
  BY <1>2, <1>3, WhileCompiling
<1>6. /\ s \in OpenStatement /\ s.kind = "foreach" /\ s.start = Len(Code) + 3
      /\ s.exit = Len(Code) + 3 /\ s.ends = {}
  <2>1. PICK e : e = Offset + 2
    OBVIOUS
  <2>2. e \in Nat /\ e = Len(Code) + 3 /\ "foreach" \in StatementKinds
    BY <1>5, <2>1 DEF StatementKinds, Loops
  <2> QED
    BY <1>1, <1>5, <2>1, <2>2, StatementType
<1>7. s.exit - Len(Code) = 3 /\ s.start - Len(Code) = 3
  BY <1>5, <1>6
<1>8. q.ends = {}
  BY <1>1 DEF State
<1> QED
  BY <1>1, <1>2, <1>3, <1>4, <1>6, <1>7, <1>8, PushStep DEF Loops

\* The edge of a statement that is no try statement: its jumps are patched, to an
\* address that follows.
LEMMA EdgeStep ==
  ASSUME CodeInv, BlockInv, Straight, phase = "compile", phase' = "compile", used \subseteq used',
         NEW o, o = cur, NEW new, Rewrites(new), Reshapes,
         NEW n, n = Len(open), open # <<>>, Enclosing.kind \notin Tries \cup {"function"},
         \A k \in DOMAIN open' : k # n => k \in DOMAIN open /\ open'[k] = open[k],
         \A k \in DOMAIN open \ {n} : k \in DOMAIN open',
         n \in DOMAIN open' => open'[n].kind \notin Tries,
         \A x : n \in DOMAIN open' /\ IsPlace(n, x)' =>
           x \in DOMAIN new \ DOMAIN Code /\ new[x].op \in Jumps,
         NEW at, NEW target \in 1 .. Len(new) + 1, Len(Code) < target,
         PatchedTo(new, Code, at, target), \A x \in at : Patches(n, x),
         \A a \in DOMAIN new \ DOMAIN Code :
           InstructionOK(new, HandlersIn(o), Spans(o), DOMAIN codes, a),
         \A m \in DOMAIN states' : m \in DOMAIN states /\ states'[m] = states[m],
         TryStatements', BetweenBlocks'
  PROVE  BlockInv'
<1>1. /\ CodesOK /\ HeldOK /\ HomesHold /\ Len(Code) \in Nat
      /\ DOMAIN open = 1 .. n /\ n \in Nat /\ DOMAIN Code = 1 .. Len(Code)
      /\ open \in Seq(OpenStatement)
  BY WhileCompiling DEF HeldOK
<1>2. n \in DOMAIN open /\ Enclosing = open[n]
  BY <1>1, EmptySeq DEF Enclosing
<1>3. Home(n) = o /\ \A k \in OpenTries(o) : k < n
  <2>1. Home(n) = o
    BY <1>1 DEF HomesHold
  <2>2. \A k \in OpenTries(o) : k \in 1 .. n /\ k # n
    BY <1>1, <1>2 DEF OpenTries
  <2> QED
    BY <1>1, <2>1, <2>2
<1>4. \A x \in at : Here(x) /\ Code[x].op \in Jumps
  <2>1. \A x \in at : IsPlace(n, x) /\ Patches(n, x)
    BY DEF IsPlace
  <2> QED
    BY <1>2, <1>3, <2>1, PlacedHere
<1>5. /\ codes' \in Seq(CodeObject) /\ DOMAIN codes' = DOMAIN codes /\ codes'[o].code = new
      /\ \A c \in DOMAIN codes \ {o} : codes'[c] = codes[c]
      /\ SameHandlers /\ o \in DOMAIN codes
  BY <1>1, SetCodeGrows DEF CodesOK
<1>6. Writes(new, o) /\ codes'[o].handlers = codes[o].handlers /\ new \in Seq(Instruction)
      /\ Len(Code) <= Len(new) /\ DOMAIN new = 1 .. Len(new) /\ Len(new) \in Nat
  BY <1>5 DEF Writes, SameHandlers, Rewrites
<1>7. ExtendedOK(new, o)
  <2>1. ASSUME NEW a \in DOMAIN Code
        PROVE  /\ new[a].op = Code[a].op
               /\ new[a].arg = Code[a].arg \/ (Code[a].op \in Jumps /\ TargetOK(new, Spans(o), a))
    <3>1. new[a].op = Code[a].op /\ new[a].arg = IF a \in at THEN target ELSE Code[a].arg
      BY DEF PatchedTo
    <3>2. CASE a \notin at
      BY <3>1, <3>2
    <3>3. CASE a \in at
      <4>1. a \in 1 .. Len(new) /\ Here(a) /\ new[a].arg = target
        BY <1>1, <1>4, <1>6, <3>1, <3>3
      <4>2. TargetOK(new, Spans(o), a)
        BY <1>6, <4>1, JumpHere
      <4> QED
        BY <1>4, <3>1, <3>3, <4>2
    <3> QED
      BY <3>2, <3>3
  <2> QED
    BY <1>6, <2>1 DEF ExtendedOK
<1>8. \A k : TryKept(k)
  BY <1>1, <1>2 DEF TryKept, Opens
<1>9. ASSUME NEW k \in DOMAIN open', NEW x, IsPlace(k, x)'
      PROVE  KeptPlace(k, x) \/ NewPlace(new, o, k, x)
  <2>1. CASE k # n
    <3>1. k \in DOMAIN open /\ open'[k] = open[k]
      BY <2>1
    <3>2. Patches(k, x)' => Patches(k, x)
      BY <3>1 DEF Patches
    <3> QED
      BY <1>9, <3>1, <3>2 DEF KeptPlace, IsPlace
  <2>2. CASE k = n
    <3>1. x \in DOMAIN new \ DOMAIN Code /\ new[x].op \in Jumps
      BY <1>9, <2>2
    <3>2. Len(open') = n
      <4>1. PICK m : m = Len(open')
        OBVIOUS
      <4>2. m \in {n - 1, n, n + 1} /\ DOMAIN open' = 1 .. m
        BY <4>1 DEF Reshapes
      <4>3. n + 1 \notin DOMAIN open'
        BY <1>1
      <4>4. n + 1 \in 1 .. n + 1 /\ n \notin 1 .. n - 1
        BY <1>1
      <4> QED
        BY <1>9, <2>2, <4>1, <4>2, <4>3, <4>4
    <3>3. Home(k)' = o
      <4>1. HomesKept
        BY ReshapedHomes
      <4> QED
        BY <2>2, <3>2, <4>1 DEF HomesKept, Home
    <3> QED
      BY <1>3, <1>9, <2>2, <3>1, <3>3 DEF NewPlace
  <2> QED
    BY <2>1, <2>2
<1> QED
  BY <1>6, <1>7, <1>8, <1>9, PlainStep

\* What is left when a statement other than a catch block ends.
LEMMA PopBetween ==
  ASSUME HeldOK, TryStatements, open # <<>>, PopOpen, Enclosing.kind # "catch"
  PROVE  TryStatements' /\ BetweenBlocks'
<1>1. PICK n, o2 : n = Len(open) /\ o2 = open'
  OBVIOUS
<1>2. /\ Len(open') = Len(open) - 1 /\ open' \in Seq(OpenStatement)
      /\ \A k \in DOMAIN open' : k \in DOMAIN open /\ open'[k] = open[k]
  BY PopOpens
<1>3. /\ n \in Nat /\ DOMAIN open = 1 .. n /\ n \in 1 .. n /\ open[n].kind # "catch"
      /\ DOMAIN o2 = 1 .. n - 1 /\ Len(o2) = n - 1
      /\ \A k \in DOMAIN o2 : k \in DOMAIN open /\ o2[k] = open[k]
  BY <1>1, <1>2, HeldTypes, EmptySeq DEF Enclosing
<1>4. TryStatements'
  <2>1. \A k \in DOMAIN o2 : k > 1 => k - 1 \in DOMAIN o2
    BY <1>3
  <2>2. \A k \in DOMAIN o2 : /\ k > 1 /\ o2[k - 1].kind = "handlers" => o2[k].kind = "catch"
                             /\ o2[k].kind = "try" => o2[k].first = NoAddress
    BY <1>3, <2>1 DEF TryStatements
  <2> QED
    BY <1>1, <2>2 DEF TryStatements
<1>5. ASSUME o2 # <<>> PROVE o2[Len(o2)].kind # "handlers"
  <2>1. n - 1 \in DOMAIN o2
    BY <1>1, <1>2, <1>3, <1>5, EmptySeq
  <2>2. n > 1 /\ n \in DOMAIN open /\ open[n - 1] = o2[n - 1]
    BY <1>3, <2>1
  <2> QED
    BY <1>3, <2>2 DEF TryStatements
<1>6. ~Inside("handlers")'
  BY <1>1, <1>5 DEF Inside, Enclosing
<1> QED
  BY <1>4, <1>6 DEF BetweenBlocks

\* The end of a statement that is no function reshapes the open statements.
LEMMA PopReshapes ==
  ASSUME HeldOK, open # <<>>, PopOpen, cur' = cur, Enclosing.kind # "function"
  PROVE  Reshapes
<1>1. /\ Len(open') = Len(open) - 1 /\ open' \in Seq(OpenStatement)
      /\ \A k \in DOMAIN open' : k \in DOMAIN open /\ open'[k] = open[k]
  BY PopOpens
<1>2. PICK n, m : n = Len(open) /\ m = Len(open')
  OBVIOUS
<1>3. n \in Nat /\ m = n - 1
  BY <1>1, <1>2, HeldTypes
<1>4. m # n + 1
  BY <1>3
<1>5. Len(open') # Len(open) + 1
  BY <1>2, <1>4
<1> QED
  BY <1>1, <1>5 DEF Reshapes, HeldOK, SameFunction, Enclosing

\* The jump past the block goes to what follows, in the same blocks.
LEMMA EndIfBlocks ==
  ASSUME CodeInv, BlockInv, EndIf, Straight'
  PROVE  BlockInv'
<1>1. PICK o, n, at, target, new :
        /\ o = cur /\ n = Len(open) /\ at = {Enclosing.exit} /\ target = Offset
        /\ new = Patched(Code, at, target)
  OBVIOUS
<1>2. /\ phase = "compile" /\ phase' = "compile" /\ used \subseteq used'
      /\ open # <<>> /\ Enclosing.kind \in {"if", "else"}
      /\ SetCode(new) /\ PopOpen /\ cur' = cur /\ states' = states
  BY <1>1 DEF EndIf, End, Inside
<1>3. Straight
  BY <1>2, StraightBefore
<1>4. /\ CodesOK /\ HeldOK /\ TryStatements /\ Len(Code) \in Nat /\ target = Len(Code) + 1
      /\ n \in DOMAIN open /\ n \in Nat
  BY <1>1, <1>2, <1>3, WhileCompiling, EmptySeq
<1>5. Rewrites(new) /\ PatchedTo(new, Code, at, target) /\ Len(new) = Len(Code)
  BY <1>1, <1>2, <1>4, PatchRewrites
<1>6. Enclosing.kind \notin Tries \cup {"function", "catch"}
  BY <1>2 DEF Tries
<1>7. TryStatements' /\ BetweenBlocks' /\ Reshapes
  BY <1>2, <1>4, <1>6, PopBetween, PopReshapes
<1>8. /\ \A k \in DOMAIN open' : k \in DOMAIN open /\ open'[k] = open[k]
      /\ \A k \in DOMAIN open \ {n} : k \in DOMAIN open'
      /\ n \notin DOMAIN open'
  <2>1. /\ Len(open') = Len(open) - 1 /\ open' \in Seq(OpenStatement)
        /\ \A k \in DOMAIN open' : k \in DOMAIN open /\ open'[k] = open[k]
        /\ \A k \in DOMAIN open \ {Len(open)} : k \in DOMAIN open'
    BY <1>2, <1>4, PopOpens
  <2>2. DOMAIN open' = 1 .. n - 1
    BY <1>1, <2>1
  <2> QED
    BY <1>1, <1>4, <2>1, <2>2
<1>9. \A x \in at : x # NoAddress => Patches(n, x)
  BY <1>1 DEF Patches, Enclosing
<1>10. PICK at2 : at2 = at \ {NoAddress}
  OBVIOUS
<1>11. PatchedTo(new, Code, at2, target)
  BY <1>4, <1>5, <1>10, Offsets DEF PatchedTo, NoAddress
<1>12. DOMAIN new = DOMAIN Code /\ target \in 1 .. Len(new) + 1 /\ Len(Code) < target
  BY <1>4, <1>5, Offsets DEF Rewrites
<1>13. \A m \in DOMAIN states' : m \in DOMAIN states /\ states'[m] = states[m]
  BY <1>2
<1>14. \A a \in DOMAIN new \ DOMAIN Code : InstructionOK(new, HandlersIn(o), Spans(o), DOMAIN codes, a)
  BY <1>12
<1>15. \A x \in at2 : Patches(n, x)
  BY <1>9, <1>10
<1>16. /\ Rewrites(new) /\ phase = "compile" /\ phase' = "compile" /\ used \subseteq used'
       /\ open # <<>> /\ Enclosing.kind \notin Tries \cup {"function"}
       /\ o = cur /\ n = Len(open)
  BY <1>1, <1>2, <1>5, <1>6
<1> QED
  BY <1>3, <1>7, <1>8, <1>11, <1>12, <1>13, <1>14, <1>15, <1>16, EdgeStep

\* So do the exit of the loop and its breaks.
LEMMA EndLoopBlocks ==
  ASSUME CodeInv, BlockInv, EndLoop, Straight'
  PROVE  BlockInv'
<1> DEFINE jump == Ia("JMP", Enclosing.start)
<1>1. PICK o, n, start, at, target, new :
        /\ o = cur /\ n = Len(open) /\ start = Enclosing.start
        /\ at = LoopPatches /\ target = LoopExit(Append(Code, jump))
        /\ new = Patched(Append(Code, jump), at, target)
  OBVIOUS
<1>2. /\ phase = "compile" /\ phase' = "compile" /\ used \subseteq used'
      /\ open # <<>> /\ Enclosing.kind \in Loops
      /\ SetCode(new) /\ PopOpen /\ cur' = cur /\ states' = Front(states)
  BY <1>1 DEF EndLoop, End, Inside, Loops
<1>3. Straight
  BY <1>2, StraightBefore
<1>4. /\ CodesOK /\ HeldOK /\ StatesOK /\ TryStatements /\ HomesHold /\ Len(Code) \in Nat
      /\ n \in DOMAIN open /\ n \in Nat /\ DOMAIN open = 1 .. n /\ DOMAIN Code = 1 .. Len(Code)
      /\ Code \in Seq(Instruction) /\ open[n] \in OpenStatement /\ Enclosing = open[n]
  BY <1>1, <1>2, <1>3, WhileCompiling, HeldTypes, EmptySeq DEF Enclosing
<1>5. Here(start)
  <2>1. IsPlace(n, start)
    BY <1>1, <1>2, <1>4 DEF IsPlace
  <2>2. Home(n) = o
    BY <1>1, <1>4 DEF HomesHold
  <2>3. \A k \in OpenTries(o) : k \in 1 .. n /\ k # n
    BY <1>2, <1>4 DEF OpenTries, Tries, Loops
  <2>4. \A k \in OpenTries(o) : k < n
    BY <1>4, <2>3
  <2> QED
    BY <1>1, <1>2, <1>3, <1>4, <2>1, <2>2, <2>4, PlacedHere
<1>6. start \in 1 .. Len(Code) /\ start \in Nat
  BY <1>4, <1>5 DEF Here
<1>7. jump \in Instruction /\ jump.arg = start /\ jump.op = "JMP"
  BY <1>1, <1>6, InstructionTypes DEF Ops
<1> HIDE DEF jump
<1>8. target = Len(Code) + 2 /\ target \in Nat
  BY <1>1, <1>4, <1>7 DEF LoopExit
<1>9. /\ Rewrites(new) /\ PatchedTo(new, Code, at, target) /\ Len(new) = Len(Code) + 1
      /\ new[Len(Code) + 1].arg = IF Len(Code) + 1 \in at THEN target ELSE start
  BY <1>1, <1>2, <1>4, <1>7, <1>8, AppendPatchRewrites
<1>10. new[Len(Code) + 1].op = "JMP"
  <2>1. PICK p : p = Append(Code, jump)
    OBVIOUS
  <2>2. Len(Code) + 1 \in DOMAIN p /\ p[Len(Code) + 1].op = "JMP" /\ p \in Seq(Instruction)
    BY <1>4, <1>7, <2>1
  <2>3. PatchedTo(new, p, at, target)
    BY <1>1, <1>8, <2>1, <2>2, PatchedCode
  <2> QED
    BY <2>2, <2>3 DEF PatchedTo
<1>11. Enclosing.kind \notin Tries \cup {"function", "catch"}
  BY <1>2 DEF Tries, Loops
<1>12. TryStatements' /\ BetweenBlocks' /\ Reshapes
  BY <1>2, <1>4, <1>11, PopBetween, PopReshapes
<1>13. /\ \A k \in DOMAIN open' : k \in DOMAIN open /\ open'[k] = open[k]
       /\ \A k \in DOMAIN open \ {n} : k \in DOMAIN open'
       /\ n \notin DOMAIN open'
  <2>1. /\ Len(open') = Len(open) - 1 /\ open' \in Seq(OpenStatement)
        /\ \A k \in DOMAIN open' : k \in DOMAIN open /\ open'[k] = open[k]
        /\ \A k \in DOMAIN open \ {Len(open)} : k \in DOMAIN open'
    BY <1>2, <1>4, PopOpens
  <2>2. DOMAIN open' = 1 .. n - 1
    BY <1>1, <2>1
  <2> QED
    BY <1>1, <1>4, <2>1, <2>2
<1>14. /\ states # <<>> /\ Last(states) = states[Len(states)] /\ Len(states) \in DOMAIN states
       /\ states[Len(states)].depth = n
       /\ \A m \in DOMAIN states' : m \in DOMAIN states /\ states'[m] = states[m]
  <2>1. states # <<>> /\ states[Len(states)].depth = n /\ Len(states) \in DOMAIN states
    BY <1>1, <1>2, <1>4, LastState
  <2>2. PICK l : l = Len(states)
    OBVIOUS
  <2>3. /\ states \in Seq(StackState) /\ DOMAIN states = 1 .. l /\ l \in Nat
        /\ DOMAIN states' = 1 .. l - 1 /\ Last(states) = states[l]
        /\ \A i \in 1 .. l - 1 : states'[i] = states[i]
    <3>1. states \in Seq(StackState)
      BY <1>4 DEF HeldOK
    <3>2. /\ Front(states) \in Seq(StackState) /\ Len(Front(states)) = l - 1
          /\ \A k \in 1 .. l - 1 : Front(states)[k] = states[k]
          /\ Last(states) = states[l]
      BY <2>1, <2>2, <3>1, Fronts
    <3> QED
      BY <1>2, <2>2, <3>1, <3>2
  <2>4. \A i \in 1 .. l - 1 : i \in 1 .. l
    BY <2>3
  <2> QED
    BY <2>1, <2>2, <2>3, <2>4
<1>15. \A x \in at : x # NoAddress => Patches(n, x)
  <2>1. at = {open[n].exit} \cup states[Len(states)].ends
    BY <1>1, <1>4, <1>14 DEF LoopPatches
  <2> QED
    BY <1>14, <2>1 DEF Patches
<1>16. PICK at2 : at2 = at \ {NoAddress}
  OBVIOUS
<1>17. PatchedTo(new, Code, at2, target)
  <2>1. \A a \in DOMAIN Code : a # NoAddress
    BY <1>4 DEF NoAddress
  <2> QED
    BY <1>9, <1>16, <2>1 DEF PatchedTo
<1>18. /\ DOMAIN new = 1 .. Len(Code) + 1 /\ target \in 1 .. Len(new) + 1 /\ Len(Code) < target
       /\ new \in Seq(Instruction)
  BY <1>4, <1>8, <1>9 DEF Rewrites
<1>19. ASSUME NEW a \in DOMAIN new \ DOMAIN Code
       PROVE  InstructionOK(new, HandlersIn(o), Spans(o), DOMAIN codes, a)
  <2>1. a = Len(Code) + 1
    BY <1>4, <1>18, <1>19
  <2>2. PICK t : t = new[a].arg
    OBVIOUS
  <2>3. t = target \/ t = start
    BY <1>9, <2>1, <2>2
  <2>4. /\ a \in 1 .. Len(new) /\ Len(Code) < a /\ t \in 1 .. Len(new) + 1
        /\ Len(Code) < t \/ Here(t)
    BY <1>4, <1>5, <1>6, <1>8, <1>9, <2>1, <2>3
  <2>5. TargetOK(new, Spans(o), a)
    BY <1>1, <1>2, <1>3, <1>18, <2>2, <2>4, JumpHere
  <2> QED
    BY <1>10, <2>1, <2>5 DEF InstructionOK, Jumps
<1> QED
  BY <1>1, <1>2, <1>3, <1>9, <1>11, <1>12, <1>13, <1>14, <1>15, <1>16, <1>17, <1>18, <1>19, EdgeStep

\* A statement becomes another one, of the same function.
LEMMA ReplaceReshapes ==
  ASSUME HeldOK, TryStatements, open # <<>>, NEW s \in OpenStatement, Replace(s), cur' = cur,
         SameFunction(Enclosing, s), Enclosing.kind # "catch", s.kind = "try" => s.first = NoAddress
  PROVE  Reshapes /\ TryStatements'
<1>1. /\ open' \in Seq(OpenStatement) /\ Len(open') = Len(open) /\ DOMAIN open' = DOMAIN open
      /\ Len(open) \in DOMAIN open /\ open'[Len(open)] = s
      /\ \A k \in DOMAIN open \ {Len(open)} : open'[k] = open[k]
  BY ReplaceOpens
<1>2. PICK n : n = Len(open)
  OBVIOUS
<1>3. DOMAIN open = 1 .. n /\ n \in Nat /\ Enclosing = open[n]
  BY <1>2, HeldTypes DEF Enclosing
<1>4. /\ Len(open') = n /\ DOMAIN open' = 1 .. n /\ n \in 1 .. n /\ open'[n] = s
      /\ \A k \in 1 .. n : k # n => open'[k] = open[k]
  BY <1>1, <1>2, <1>3
<1>5. Reshapes
  <2>1. n # n + 1 /\ n # n - 1
    BY <1>3
  <2>2. \A k \in DOMAIN open : SameFunction(open[k], open'[k])
    BY <1>3, <1>4 DEF SameFunction
  <2> QED
    BY <1>1, <1>2, <2>1, <2>2 DEF Reshapes, HeldOK
<1>6. ASSUME NEW k \in 1 .. n, k > 1, open'[k - 1].kind = "handlers" PROVE open'[k].kind = "catch"
  <2>1. k - 1 \in 1 .. n /\ k - 1 # n
    BY <1>3, <1>6
  <2>2. open[k - 1].kind = "handlers"
    BY <1>4, <1>6, <2>1
  <2>3. open[k].kind = "catch"
    BY <1>3, <1>6, <2>2 DEF TryStatements
  <2> QED
    BY <1>3, <1>4, <2>3
<1>7. \A k \in 1 .. n : open'[k].kind = "try" => open'[k].first = NoAddress
  BY <1>3, <1>4 DEF TryStatements
<1> QED
  BY <1>4, <1>5, <1>6, <1>7 DEF TryStatements

\* The jump past the else block waits in place of the one to it.
LEMMA ElseBlocks ==
  ASSUME CodeInv, BlockInv, Else, Straight'
  PROVE  BlockInv'
<1>1. PICK o, n, at, target, p, new, s :
        /\ o = cur /\ n = Len(open) /\ at = {Enclosing.exit} /\ p = Append(Code, I("JMP"))
        /\ target = Len(p) + 1 /\ new = Patched(p, at, target)
        /\ s = Statement("else", NoAddress, Offset)
  OBVIOUS
<1>2. /\ phase = "compile" /\ phase' = "compile" /\ used \subseteq used'
      /\ open # <<>> /\ Enclosing.kind = "if"
      /\ SetCode(new) /\ Replace(s) /\ cur' = cur /\ states' = states
  BY <1>1 DEF Else, End, Inside
<1>3. Straight
  BY <1>2, StraightBefore
<1>4. /\ CodesOK /\ HeldOK /\ StatesOK /\ TryStatements /\ Len(Code) \in Nat
      /\ n \in DOMAIN open /\ n \in Nat /\ DOMAIN open = 1 .. n /\ DOMAIN Code = 1 .. Len(Code)
      /\ Code \in Seq(Instruction) /\ Offset = Len(Code) + 1 /\ Enclosing = open[n]
  BY <1>1, <1>2, <1>3, WhileCompiling, EmptySeq DEF Enclosing
<1>5. /\ I("JMP") \in Instruction /\ I("JMP").op = "JMP" /\ I("JMP").arg = 0
  BY InstructionTypes DEF Ops
<1>6. /\ p \in Seq(Instruction) /\ Len(p) = Len(Code) + 1 /\ p[Len(Code) + 1].op = "JMP"
      /\ target = Len(Code) + 2 /\ target \in Nat
  BY <1>1, <1>4, <1>5
<1>7. /\ Rewrites(new) /\ PatchedTo(new, Code, at, target) /\ Len(new) = Len(Code) + 1
      /\ new[Len(Code) + 1].arg = IF Len(Code) + 1 \in at THEN target ELSE 0
  BY <1>1, <1>2, <1>4, <1>5, <1>6, AppendPatchRewrites
<1>8. new[Len(Code) + 1].op = "JMP"
  <2>1. PatchedTo(new, p, at, target)
    BY <1>1, <1>6, PatchedCode
  <2>2. Len(Code) + 1 \in DOMAIN p
    BY <1>4, <1>6
  <2> QED
    BY <1>6, <2>1, <2>2 DEF PatchedTo
<1>9. s \in OpenStatement /\ s.kind = "else" /\ s.exit = Len(Code) + 1 /\ s.ends = {}
  <2>1. PICK e : e = Offset
    OBVIOUS
  <2>2. e \in Nat /\ NoAddress \in Nat /\ "else" \in StatementKinds
    BY <1>4, <2>1 DEF NoAddress, StatementKinds
  <2> QED
    BY <1>1, <1>4, <2>1, <2>2, StatementType
<1>10. /\ Enclosing.kind \notin Tries \cup {"function", "catch"}
       /\ s.kind \notin Tries \cup {"function", "handlers"} \cup Loops
       /\ Enclosing.kind \notin Loops
  BY <1>2, <1>9 DEF Tries, Loops
<1>11. Reshapes /\ TryStatements'
  BY <1>2, <1>4, <1>9, <1>10, ReplaceReshapes DEF SameFunction, Tries
<1>12. /\ DOMAIN open' = 1 .. n /\ open'[n] = s /\ Len(open') = n
       /\ \A k \in DOMAIN open \ {n} : open'[k] = open[k]
  BY <1>1, <1>2, <1>4, <1>9, ReplaceOpens
<1>13. BetweenBlocks'
  BY <1>9, <1>12 DEF BetweenBlocks, Inside, Enclosing
<1>14. /\ \A k \in DOMAIN open' : k # n => k \in DOMAIN open /\ open'[k] = open[k]
       /\ \A k \in DOMAIN open \ {n} : k \in DOMAIN open'
       /\ n \in DOMAIN open' => open'[n].kind \notin Tries
  BY <1>4, <1>10, <1>12
<1>15. /\ DOMAIN new = 1 .. Len(Code) + 1 /\ target \in 1 .. Len(new) + 1 /\ Len(Code) < target
       /\ new \in Seq(Instruction)
  BY <1>4, <1>6, <1>7 DEF Rewrites
<1>16. ASSUME NEW x, n \in DOMAIN open', IsPlace(n, x)'
       PROVE  x \in DOMAIN new \ DOMAIN Code /\ new[x].op \in Jumps
  <2>1. Patches(n, x)'
    BY <1>10, <1>12, <1>16 DEF IsPlace
  <2>2. ~\E m \in DOMAIN states : states[m].depth = n /\ x \in states[m].ends
    <3>1. \A m \in DOMAIN states : states[m].depth = n => states[m].type \notin {"LOOP", "FUNCTION"}
      BY <1>4, <1>10 DEF StatesOK
    <3>2. \A m \in DOMAIN states : states[m].type \in {"LOOP", "FUNCTION"}
      BY <1>4, HeldTypes DEF StackState
    <3> QED
      BY <3>1, <3>2
  <2>3. x = Len(Code) + 1
    BY <1>2, <1>9, <1>12, <2>1, <2>2 DEF Patches
  <2> QED
    BY <1>4, <1>8, <1>15, <2>3 DEF Jumps
<1>17. PICK at2 : at2 = at \ {NoAddress}
  OBVIOUS
<1>18. PatchedTo(new, Code, at2, target) /\ \A x \in at2 : Patches(n, x)
  <2>1. \A a \in DOMAIN Code : a # NoAddress
    BY <1>4 DEF NoAddress
  <2>2. PatchedTo(new, Code, at2, target)
    BY <1>7, <1>17, <2>1 DEF PatchedTo
  <2> QED
    BY <1>1, <1>4, <1>17, <2>2 DEF Patches
<1>19. ASSUME NEW a \in DOMAIN new \ DOMAIN Code
       PROVE  InstructionOK(new, HandlersIn(o), Spans(o), DOMAIN codes, a)
  <2>1. a = Len(Code) + 1
    BY <1>4, <1>15, <1>19
  <2>2. new[a].arg = target \/ new[a].arg = NoAddress
    BY <1>7, <2>1 DEF NoAddress
  <2>3. ASSUME new[a].arg = target PROVE TargetOK(new, Spans(o), a)
    <3>1. a \in 1 .. Len(new) /\ Len(Code) < a
      BY <1>4, <1>7, <2>1
    <3> QED
      BY <1>1, <1>2, <1>3, <1>15, <2>3, <3>1, JumpHere
  <2> QED
    BY <1>8, <2>1, <2>2, <2>3 DEF InstructionOK, Jumps
<1>20. \A m \in DOMAIN states' : m \in DOMAIN states /\ states'[m] = states[m]
  BY <1>2
<1>21. /\ Rewrites(new) /\ phase = "compile" /\ phase' = "compile" /\ used \subseteq used'
       /\ open # <<>> /\ Enclosing.kind \notin Tries \cup {"function"}
       /\ o = cur /\ n = Len(open)
  BY <1>1, <1>2, <1>7, <1>10
<1> QED
  BY <1>3, <1>11, <1>13, <1>14, <1>15, <1>16, <1>18, <1>19, <1>20, <1>21, EdgeStep

-----------------------------------------------------------------------------
(* Try statements. *)

\* One span changes.
LEMMA RespanOne ==
  ASSUME NEW R, NEW r, NEW r2, NEW H, NEW n, NEW next, Continues(r, r2, n), r \notin H
  PROVE  Respanned(R \cup {r}, R \cup {r2}, H, n, next)
<1>1. \A q : Continues(q, q, n)
  BY DEF Continues
<1> QED
  BY <1>1 DEF Respanned

\* No try statement gets into a finally block by that.
LEMMA FreeContinues ==
  ASSUME NEW R, NEW r, NEW r2, NEW n, Continues(r, r2, n), FreeFinally(R \cup {r}),
         \A q \in R \cup {r} : q.start \in 1 .. n
  PROVE  FreeFinally(R \cup {r2})
<1>1. r2.start = r.start /\ \A x \in 1 .. n : Part(r2, x) = Part(r, x)
  BY DEF Continues
<1>2. \A q, s \in R \cup {r} : Part(s, q.start) # 3
  BY DEF FreeFinally
<1>3. ASSUME NEW q \in R \cup {r2}, NEW s \in R \cup {r2} PROVE Part(s, q.start) # 3
  <2>1. PICK q0 \in R \cup {r} : q0.start = q.start
    BY <1>1
  <2>2. q.start \in 1 .. n
    BY <2>1
  <2>3. CASE s \in R
    BY <1>2, <2>1, <2>3
  <2>4. CASE s = r2
    BY <1>1, <1>2, <2>1, <2>2, <2>4
  <2> QED
    BY <2>3, <2>4
<1> QED
  BY <1>3 DEF FreeFinally

\* The try statement with number t begins, ends or changes; it is the innermost.
TryChanges(t) ==
  /\ t \in {Len(open), Len(open) + 1} /\ states' = states
  /\ DOMAIN open' \subseteq 1 .. t
  /\ \A j \in DOMAIN open \ {t} : j \in DOMAIN open' /\ open'[j] = open[j]
  /\ \A j \in DOMAIN open' \ {t} : j \in DOMAIN open

\* The spans that stay.
OtherSpans(o, t) == HandlersIn(o) \cup {Span(open[k]) : k \in OpenTries(o) \ {t}}

\* The spans when the statement t changes and all others stay.
LEMMA TrySpans ==
  ASSUME CodeInv, BlockInv, Straight, phase = "compile", Reshapes, NEW o, o = cur,
         NEW t, TryChanges(t), Opens(t) \/ Opens(t)'
  PROVE  /\ Opens(t) => t \in OpenTries(o) /\ Spans(o) = OtherSpans(o, t) \cup {Span(open[t])}
         /\ ~Opens(t) => Spans(o) = OtherSpans(o, t)
         /\ OpenTries(o)' = (OpenTries(o) \ {t}) \cup {k \in {t} : Opens(k)'}
         /\ HandlersIn(o) \subseteq HandlersIn(o)' /\ ~Opens(t)' =>
              Spans(o)' = OtherSpans(o, t) \cup HandlersIn(o)'
         /\ HandlersIn(o)' = HandlersIn(o) /\ Opens(t)' =>
              Spans(o)' = OtherSpans(o, t) \cup {Span(open'[t])}
         /\ \A k \in OpenTries(o) : k \in Nat /\ k <= t /\ k <= Len(open)
         /\ \A c \in DOMAIN codes \ {o} : SameTries(c)
         /\ HomesKept
<1>1. /\ HomesHold /\ DOMAIN open = 1 .. Len(open) /\ Len(open) \in Nat
      /\ \A j \in DOMAIN open \ {t} : j \in DOMAIN open' /\ open'[j] = open[j]
      /\ \A j \in DOMAIN open' \ {t} : j \in DOMAIN open
      /\ t \in {Len(open), Len(open) + 1} /\ DOMAIN open' \subseteq 1 .. t
  BY WhileCompiling DEF TryChanges
<1>2. HomesKept /\ open' \in Seq(OpenStatement) /\ open \in Seq(OpenStatement)
  BY ReshapedHomes DEF Reshapes
<1>3. PICK n, m : n = Len(open) /\ m = Len(open')
  OBVIOUS
<1>4. /\ n \in Nat /\ m \in Nat /\ DOMAIN open = 1 .. n /\ DOMAIN open' = 1 .. m
      /\ t \in {n, n + 1} /\ m <= t
  BY <1>1, <1>2, <1>3
<1>5. ASSUME Opens(t) PROVE t = n /\ Home(t) = o
  <2>1. t \in 1 .. n
    BY <1>4, <1>5 DEF Opens
  <2>2. t = n
    BY <1>4, <2>1
  <2> QED
    BY <1>1, <1>3, <2>2 DEF HomesHold
<1>6. ASSUME Opens(t)' PROVE Home(t)' = o /\ t = m
  <2>1. t \in 1 .. m
    BY <1>4, <1>6 DEF Opens
  <2>2. t = m
    BY <1>4, <2>1
  <2> QED
    BY <1>2, <1>3, <2>2 DEF HomesKept, Home
<1>7. \A k : Opens(k) /\ Opens(k)' => Home(k)' = Home(k)
  <2>1. ASSUME NEW k, Opens(k), Opens(k)' PROVE k \in 0 .. n /\ k \in 0 .. m
    <3>1. k \in 1 .. n /\ k \in 1 .. m
      BY <1>4, <2>1 DEF Opens
    <3> QED
      BY <3>1
  <2> QED
    BY <1>2, <1>3, <2>1 DEF HomesKept
<1>8. \A k : k # t => (Opens(k)' <=> Opens(k)) /\ (Opens(k) => open'[k] = open[k])
  BY <1>1 DEF Opens
<1>9. \A c, k : k \in OpenTries(c) <=> Opens(k) /\ Home(k) = c
  BY DEF OpenTries, Opens
<1>10. \A c, k : k \in OpenTries(c)' <=> Opens(k)' /\ Home(k)' = c
  BY DEF OpenTries, Opens
<1>11. Opens(t) => t \in OpenTries(o) /\ Spans(o) = OtherSpans(o, t) \cup {Span(open[t])}
  BY <1>5, <1>9 DEF Spans, OtherSpans
<1>12. ~Opens(t) => Spans(o) = OtherSpans(o, t)
  <2> SUFFICES ASSUME ~Opens(t) PROVE Spans(o) = OtherSpans(o, t)
    OBVIOUS
  <2>1. OpenTries(o) \ {t} = OpenTries(o)
    BY <1>9
  <2> QED
    BY <2>1 DEF Spans, OtherSpans
<1>13. OpenTries(o)' = (OpenTries(o) \ {t}) \cup {k \in {t} : Opens(k)'}
  <2>1. \A k : k \in OpenTries(o)' <=> k \in (OpenTries(o) \ {t}) \cup {i \in {t} : Opens(i)'}
    BY <1>6, <1>7, <1>8, <1>9, <1>10
  <2> QED
    BY <2>1
<1>14. {Span(open'[k]) : k \in OpenTries(o) \ {t}} = {Span(open[k]) : k \in OpenTries(o) \ {t}}
  BY <1>8, <1>9
<1>15. HandlersIn(o) \subseteq HandlersIn(o)' /\ ~Opens(t)' =>
         Spans(o)' = OtherSpans(o, t) \cup HandlersIn(o)'
  <2> SUFFICES ASSUME HandlersIn(o) \subseteq HandlersIn(o)', ~Opens(t)'
               PROVE  Spans(o)' = OtherSpans(o, t) \cup HandlersIn(o)'
    OBVIOUS
  <2>1. OpenTries(o)' = OpenTries(o) \ {t}
    BY <1>13
  <2> QED
    BY <1>14, <2>1 DEF Spans, OtherSpans
<1>16. HandlersIn(o)' = HandlersIn(o) /\ Opens(t)' =>
         Spans(o)' = OtherSpans(o, t) \cup {Span(open'[t])}
  <2> SUFFICES ASSUME HandlersIn(o)' = HandlersIn(o), Opens(t)'
               PROVE  Spans(o)' = OtherSpans(o, t) \cup {Span(open'[t])}
    OBVIOUS
  <2>1. OpenTries(o)' = (OpenTries(o) \ {t}) \cup {t}
    BY <1>13
  <2>2. {Span(open'[k]) : k \in OpenTries(o)'} =
          {Span(open'[k]) : k \in OpenTries(o) \ {t}} \cup {Span(open'[t])}
    BY <2>1
  <2> QED
    BY <1>14, <2>2 DEF Spans, OtherSpans
<1>17. \A k \in OpenTries(o) : k \in Nat /\ k <= t /\ k <= Len(open)
  <2>1. \A k \in OpenTries(o) : k \in 1 .. n
    BY <1>4, <1>9 DEF Opens
  <2> QED
    BY <1>3, <1>4, <2>1
<1>18. ASSUME NEW c \in DOMAIN codes \ {o} PROVE SameTries(c)
  <2>1. \A k : k \in OpenTries(c)' <=> k \in OpenTries(c)
    BY <1>5, <1>6, <1>7, <1>8, <1>9, <1>10
  <2>2. \A k \in OpenTries(c) : open'[k] = open[k]
    BY <1>5, <1>8, <1>9
  <2>3. OpenTries(c)' = OpenTries(c)
    BY <2>1
  <2> QED
    BY <2>2, <2>3 DEF SameTries
<1> QED
  BY <1>2, <1>11, <1>12, <1>13, <1>15, <1>16, <1>17, <1>18

\* Statement t remembers address x: of a new instruction or one it remembered.
TryPlace(new, t, x) ==
  /\ x \in DOMAIN new
  /\ Patches(t, x)' => new[x].op \in Jumps /\ Part(Span(open'[t]), x) \in {1, 2}
  /\ Len(Code) < x \/ (t \in DOMAIN open /\ IsPlace(t, x))

\* When nothing around it is in the blocks of t, the step keeps the invariant.
LEMMA TryStep ==
  ASSUME CodeInv, BlockInv, Straight, phase = "compile", phase' = "compile", used \subseteq used',
         NEW o, o = cur, NEW new, Writes(new, o), Reshapes,
         NEW t, TryChanges(t), Opens(t) \/ Opens(t)',
         Len(Code) <= Len(new), \A a \in DOMAIN Code : new[a].op = Code[a].op,
         CodeGood(o)',
         "tryInFinally" \notin used' => FreeFinally(Spans(o)'),
         TryStatements', BetweenBlocks',
         HandlersIn(o) \subseteq HandlersIn(o)',
         Opens(t)' => HandlersIn(o)' = HandlersIn(o),
         t \in DOMAIN open' => Opens(t)',
         \A x \in DOMAIN Code : (Opens(t) => Part(Span(open[t]), x) = 0) =>
           /\ Opens(t)' => Part(Span(open'[t]), x) = 0
           /\ \A h \in HandlersIn(o)' \ HandlersIn(o) : Part(h, x) = 0,
         \A x : Opens(t)' /\ IsPlace(t, x)' => TryPlace(new, t, x)
  PROVE  BlockInv'
<1>1. /\ HomesHold /\ o \in DOMAIN codes /\ CodesOK /\ HandlersStart /\ HandlersOrdered
      /\ \A j \in DOMAIN open : \A x : IsPlace(j, x) => PlaceOK(j, x)
      /\ \A r \in Spans(o) : SpanOK(r, NextIn(o))
      /\ Code \in Seq(Instruction) /\ DOMAIN Code = 1 .. Len(Code)
      /\ DOMAIN open = 1 .. Len(open) /\ Len(open) \in Nat
      /\ Len(Code) \in Nat /\ NextIn(o) = Len(Code) + 1 /\ Code = codes[o].code
  BY WhileCompiling DEF Code
<1>2. /\ codes'[o].code = new /\ new \in Seq(Instruction)
      /\ DOMAIN new = 1 .. Len(new) /\ Len(new) \in Nat
  BY DEF Writes
<1>3. /\ HomesKept /\ \A k \in OpenTries(o) : k \in Nat /\ k <= t
      /\ OpenTries(o)' = (OpenTries(o) \ {t}) \cup {k \in {t} : Opens(k)'}
      /\ \A c \in DOMAIN codes \ {o} : SameTries(c)
      /\ Opens(t) => t \in OpenTries(o)
  BY TrySpans
<1>4. PICK n, m : n = NextIn(o) /\ m = Len(new) + 1
  OBVIOUS
<1>5. n \in Nat /\ m \in Nat /\ n <= m /\ NextIn(o)' = m /\ n = Len(Code) + 1
  BY <1>1, <1>2, <1>4 DEF NextIn
<1>6. \A k \in OpenTries(o) : Span(open[k]) \in Spans(o)
  BY DEF Spans
<1>7. \A r \in Spans(o) : \A y \in Nat : n <= y => Part(r, y) = Part(r, n) /\ (r.end # NoAddress => Part(r, y) = 0)
  BY <1>1, <1>4, <1>5, Beyond
<1>8. \A h \in HandlersIn(o) : h \in Spans(o) /\ h.end # NoAddress
  BY <1>1, HandlersSpan DEF Spans
<1>9. /\ t \in {Len(open), Len(open) + 1} /\ states' = states
      /\ \A j \in DOMAIN open \ {t} : j \in DOMAIN open' /\ open'[j] = open[j]
      /\ \A j \in DOMAIN open' \ {t} : j \in DOMAIN open
      /\ DOMAIN open' \subseteq 1 .. t
  BY DEF TryChanges
<1>10. \A k \in OpenTries(o) \ {t} : open'[k] = open[k]
  BY <1>9 DEF OpenTries
<1>11. /\ \A j \in DOMAIN open' : j \in 0 .. Len(open')
       /\ \A j \in DOMAIN open : j \in 0 .. Len(open)
  <2>1. open' \in Seq(OpenStatement)
    BY DEF Reshapes
  <2>2. PICK p, q : p = Len(open) /\ q = Len(open')
    OBVIOUS
  <2>3. p \in Nat /\ q \in Nat /\ DOMAIN open = 1 .. p /\ DOMAIN open' = 1 .. q
    BY <1>1, <2>1, <2>2
  <2> QED
    BY <2>2, <2>3
<1>12. ASSUME NEW j \in DOMAIN open', NEW x, IsPlace(j, x)', j # t
       PROVE  \/ KeptPlace(j, x) /\ Home(j) # o
              \/ Home(j)' = o /\ PlaceIn(o, j, x)'
  <2>1. j \in DOMAIN open /\ open'[j] = open[j]
    BY <1>9, <1>12
  <2>2. Patches(j, x)' = Patches(j, x) /\ IsPlace(j, x)
    BY <1>9, <1>12, <2>1 DEF Patches, IsPlace
  <2>3. KeptPlace(j, x)
    BY <2>1, <2>2 DEF KeptPlace
  <2>4. ASSUME Home(j) = o PROVE Home(j)' = o /\ PlaceIn(o, j, x)'
    <3>1. PlaceIn(o, j, x)
      BY <1>1, <2>1, <2>2, <2>4 DEF PlaceOK
    <3>2. Home(j)' = o
      BY <1>3, <1>11, <2>1, <2>4 DEF HomesKept
    <3>3. x \in DOMAIN Code /\ x \in DOMAIN new
      BY <1>1, <1>2, <3>1 DEF PlaceIn
    <3>4. Patches(j, x)' => new[x].op \in Jumps
      BY <1>1, <2>2, <3>1, <3>3 DEF PlaceIn
    <3>5. t # j /\ t \in Nat /\ j \in Nat /\ j <= t
      BY <1>1, <1>9, <1>12, <2>1
    <3>6. Opens(t) => Part(Span(open[t]), x) = 0
      <4> SUFFICES ASSUME Opens(t) PROVE Part(Span(open[t]), x) = 0
        OBVIOUS
      <4>1. t \in OpenTries(o) \ {j}
        BY <1>3, <3>5
      <4>2. ~(t < j)
        BY <3>5
      <4> QED
        BY <3>1, <4>1, <4>2 DEF PlaceIn
    <3>7. /\ Opens(t)' => Part(Span(open'[t]), x) = 0
          /\ \A h \in HandlersIn(o)' \ HandlersIn(o) : Part(h, x) = 0
      BY <3>3, <3>6
    <3>8. \A h \in HandlersIn(o)' : Part(h, x) = 0
      BY <3>1, <3>7 DEF PlaceIn
    <3>9. ASSUME NEW k \in OpenTries(o)' \ {j}
          PROVE  Part(Span(open'[k]), x) = IF k < j THEN Part(Span(open'[k]), NextIn(o)') ELSE 0
      <4>1. CASE k = t
        <5>1. Opens(t)' /\ ~(k < j)
          BY <1>3, <3>5, <3>9, <4>1
        <5> QED
          BY <3>7, <4>1, <5>1
      <4>2. CASE k # t
        <5>1. k \in OpenTries(o) \ {j} /\ open'[k] = open[k] /\ Span(open[k]) \in Spans(o)
          BY <1>3, <1>6, <1>10, <3>9, <4>2
        <5>2. Part(Span(open[k]), m) = Part(Span(open[k]), n)
          BY <1>5, <1>7, <5>1
        <5>3. Part(Span(open[k]), x) = IF k < j THEN Part(Span(open[k]), n) ELSE 0
          BY <1>4, <3>1, <5>1 DEF PlaceIn
        <5> QED
          BY <1>5, <5>1, <5>2, <5>3
      <4> QED
        BY <4>1, <4>2
    <3>10. Patches(j, x)' /\ open'[j].kind \in Tries => Part(Span(open'[j]), x) \in {1, 2}
      BY <2>1, <2>2, <3>1 DEF PlaceIn
    <3>11. PlaceIn(o, j, x)'
      BY <1>2, <3>3, <3>4, <3>8, <3>9, <3>10 DEF PlaceIn
    <3> QED
      BY <3>2, <3>11
  <2> QED
    BY <2>3, <2>4
<1>13. ASSUME NEW x, t \in DOMAIN open', IsPlace(t, x)'
       PROVE  Home(t)' = o /\ PlaceIn(o, t, x)'
  <2>1. Opens(t)' /\ HandlersIn(o)' = HandlersIn(o) /\ TryPlace(new, t, x)
    BY <1>13
  <2>2. t \in OpenTries(o)'
    BY <1>3, <2>1
  <2>3. Home(t)' = o
    BY <2>2 DEF OpenTries
  <2>4. /\ \A h \in HandlersIn(o) : Part(h, x) = 0
        /\ \A k \in OpenTries(o) \ {t} : Part(Span(open[k]), x) = Part(Span(open[k]), n)
    <3>1. CASE Len(Code) < x
      <4>1. x \in Nat /\ n <= x
        BY <1>1, <1>2, <1>5, <2>1, <3>1 DEF TryPlace
      <4> QED
        BY <1>6, <1>7, <1>8, <4>1
    <3>2. CASE t \in DOMAIN open /\ IsPlace(t, x)
      <4>1. Home(t) = o
        <5>1. Home(t)' = Home(t)
          BY <1>3, <1>11, <1>13, <3>2 DEF HomesKept
        <5> QED
          BY <2>3, <5>1
      <4>2. PlaceIn(o, t, x)
        BY <1>1, <3>2, <4>1 DEF PlaceOK
      <4>3. \A k \in OpenTries(o) \ {t} : k < t
        BY <1>1, <1>3, <1>9
      <4> QED
        BY <1>4, <4>2, <4>3 DEF PlaceIn
    <3> QED
      BY <2>1, <3>1, <3>2 DEF TryPlace
  <2>5. ASSUME NEW k \in OpenTries(o)' \ {t}
        PROVE  Part(Span(open'[k]), x) = IF k < t THEN Part(Span(open'[k]), NextIn(o)') ELSE 0
    <3>1. k \in OpenTries(o) \ {t} /\ open'[k] = open[k] /\ k < t
      <4>1. k \in OpenTries(o) \ {t}
        BY <1>3, <2>5
      <4>2. k \in Nat /\ t \in Nat /\ k <= t /\ k # t
        BY <1>1, <1>3, <1>9, <4>1
      <4> QED
        BY <1>10, <4>1, <4>2
    <3>2. Part(Span(open[k]), m) = Part(Span(open[k]), n)
      BY <1>5, <1>6, <1>7, <3>1
    <3> QED
      BY <1>5, <2>4, <3>1, <3>2
  <2>6. PlaceIn(o, t, x)'
    BY <1>2, <2>1, <2>4, <2>5 DEF PlaceIn, TryPlace
  <2> QED
    BY <2>3, <2>6
<1>14. \A j \in DOMAIN open' : \A x : IsPlace(j, x)' =>
           \/ KeptPlace(j, x) /\ Home(j) # o
           \/ Home(j)' = o /\ PlaceIn(o, j, x)'
  BY <1>12, <1>13
<1> QED
  BY <1>3, <1>14, StepBlocks

\* The jumps of the current code object, and where the handlers in it are.
LEMMA CodeSoFar ==
  ASSUME CodeInv, BlockInv, Straight, phase = "compile", NEW o, o = cur,
         NEW H, H = HandlersIn(o), NEW S, S = Spans(o), NEW D, D = DOMAIN codes
  PROVE  /\ GoodCode(Code, H, S, D) /\ H \subseteq S
         /\ \A a \in DOMAIN Code : Code[a].op \in Jumps => Code[a].arg <= Len(Code) + 1
         /\ \A a \in DOMAIN Code : Code[a].arg \in Nat
         /\ \A h \in H : h.start \in 1 .. Len(Code) /\ h.end \in 1 .. Len(Code)
         /\ \A r \in S : SpanOK(r, Len(Code) + 1) /\ r.start \in 1 .. Len(Code)
         /\ \A h \in H : Part(h, Len(Code) + 1) = 0
         /\ \A h \in H : h.end # NoAddress
<1>1. /\ CodesOK /\ HandlersStart /\ HandlersOrdered /\ o \in DOMAIN codes
      /\ CodeGood(o) /\ NextIn(o) = Len(Code) + 1 /\ Len(Code) \in Nat
      /\ Code = codes[o].code /\ DOMAIN Code = 1 .. Len(Code) /\ Code \in Seq(Instruction)
      /\ \A r \in S : SpanOK(r, Len(Code) + 1)
  BY WhileCompiling DEF Code
<1>2. GoodCode(Code, H, S, D) /\ H \subseteq S
  BY <1>1 DEF CodeGood, Spans
<1>3. \A h \in H : h.start \in 1 .. Len(Code) /\ h.end \in 1 .. Len(Code) /\ h.end # NoAddress
  BY <1>1, HandlersSpan
<1>4. PICK n : n = Len(Code) + 1
  OBVIOUS
<1>5. n \in Nat /\ n >= 1 /\ n <= n
  BY <1>1, <1>4
<1>6. ASSUME NEW a \in DOMAIN Code, Code[a].op \in Jumps PROVE Code[a].arg <= n
  <2>1. Code[a].arg # NoAddress => TargetOK(Code, S, a)
    BY <1>2, <1>6 DEF GoodCode, InstructionOK
  <2>2. CASE Code[a].arg = NoAddress
    BY <1>5, <2>2 DEF NoAddress
  <2>3. CASE Code[a].arg # NoAddress
    <3>1. Code[a].arg \in 1 .. n
      BY <1>4, <2>1, <2>3 DEF TargetOK
    <3> QED
      BY <3>1
  <2> QED
    BY <2>2, <2>3
<1>7. \A h \in H : Part(h, n) = 0
  <2>1. \A h \in H : SpanOK(h, n)
    BY <1>1, <1>2, <1>4
  <2> QED
    BY <1>3, <1>5, <2>1, Beyond
<1>8. \A r \in S : r.start \in 1 .. Len(Code)
  BY <1>1 DEF SpanOK
<1>9. \A a \in DOMAIN Code : Code[a].arg \in Nat
  <2>1. \A a \in DOMAIN Code : Code[a] \in Instruction
    BY <1>1
  <2> QED
    BY <2>1 DEF Instruction
<1> QED
  BY <1>1, <1>2, <1>3, <1>4, <1>6, <1>7, <1>8, <1>9

\* A try statement begins with TRY.
LEMMA BeginTryBlocks ==
  ASSUME CodeInv, BlockInv, BeginTry, Straight'
  PROVE  BlockInv'
<1>1. PICK o, n, more, new, s, r, H, S, D, code :
        /\ o = cur /\ n = Len(open) + 1 /\ more = <<I("TRY")>> /\ new = Code \o more
        /\ s = Statement("try", Offset, NoAddress) /\ r = Span(s)
        /\ H = HandlersIn(o) /\ S = Spans(o) /\ D = DOMAIN codes /\ code = Code
  OBVIOUS
<1>2. /\ phase = "compile" /\ phase' = "compile" /\ used \subseteq used' /\ InBlock
      /\ Emit(more) /\ cur' = cur /\ states' = states /\ Push(s)
      /\ "tryInFinally" \notin used' => ~In("finally")
  BY <1>1 DEF BeginTry, Begin, Using
<1>3. Straight
  BY <1>2, StraightBefore
<1>4. /\ CodesOK /\ HeldOK /\ StatesOK /\ HomesHold /\ TryStatements /\ Len(Code) \in Nat
      /\ DOMAIN open = 1 .. Len(open) /\ Len(open) \in Nat
      /\ Code \in Seq(Instruction) /\ DOMAIN Code = 1 .. Len(Code) /\ Offset = Len(Code) + 1
      /\ "tryInFinally" \notin used => FreeFinally(S)
  BY <1>1, <1>2, <1>3, WhileCompiling
<1>5. more \in Seq(Instruction) /\ DOMAIN more = {1} /\ Len(more) = 1 /\ more[1].op = "TRY"
  BY <1>1, InstructionTypes DEF Ops
<1>6. Writes(new, o) /\ codes'[o].handlers = codes[o].handlers /\ Longer(new, Code, more)
  BY <1>1, <1>2, <1>4, <1>5, EmitExtends
<1>7. PICK l, e : l = Len(Code) /\ e = Len(Code) + 1
  OBVIOUS
<1>8. /\ l \in Nat /\ e = l + 1 /\ e \in Nat /\ Len(new) = e /\ new \in Seq(Instruction)
      /\ DOMAIN new = 1 .. e /\ new[e].op = "TRY" /\ Len(Code) <= Len(new)
      /\ \A a \in DOMAIN Code : new[a] = Code[a]
  BY <1>4, <1>5, <1>6, <1>7 DEF Longer, Writes
<1>9. /\ s \in OpenStatement /\ s.kind = "try" /\ s.start = e /\ s.exit = NoAddress
      /\ s.ends = {} /\ s.first = NoAddress /\ s.finally = NoAddress
  <2>1. Offset \in Nat /\ NoAddress \in Nat /\ "try" \in StatementKinds
    BY <1>4 DEF NoAddress, StatementKinds, Tries
  <2> QED
    BY <1>1, <1>4, <1>7, <2>1, StatementType
<1>10. Fresh(r, e) /\ r.start = e /\ r.end = NoAddress
  BY <1>1, <1>9 DEF Span, Fresh
<1>11. /\ open' \in Seq(OpenStatement) /\ Len(open') = n /\ DOMAIN open' = 1 .. n
       /\ open'[n] = s /\ n \in Nat /\ n \notin DOMAIN open
       /\ \A k \in DOMAIN open : open'[k] = open[k]
       /\ \A k \in DOMAIN open' \ {n} : k \in DOMAIN open
       /\ \A k \in DOMAIN open : k \in DOMAIN open'
  <2>1. /\ open' \in Seq(OpenStatement) /\ Len(open') = Len(open) + 1
        /\ DOMAIN open' = 1 .. Len(open) + 1 /\ open'[Len(open) + 1] = s
        /\ \A k \in DOMAIN open : open'[k] = open[k]
    BY <1>2, <1>4, <1>9, PushOpens
  <2>2. /\ n \in Nat /\ n \notin DOMAIN open
        /\ \A k \in 1 .. n : k # n => k \in DOMAIN open
        /\ \A k \in DOMAIN open : k \in 1 .. n
    BY <1>1, <1>4
  <2> QED
    BY <1>1, <2>1, <2>2
<1>12. Reshapes
  <2>1. \A k \in DOMAIN open : SameFunction(open[k], open'[k])
    BY <1>11 DEF SameFunction
  <2>2. PICK p : p = Len(open)
    OBVIOUS
  <2>3. p \in Nat /\ n = p + 1
    BY <1>1, <1>4, <2>2
  <2>4. n # p - 1
    BY <2>3
  <2> QED
    BY <1>2, <1>4, <1>9, <1>11, <2>1, <2>2, <2>3, <2>4 DEF Reshapes, HeldOK
<1>13. TryChanges(n) /\ ~Opens(n) /\ Opens(n)' /\ Span(open'[n]) = r
  BY <1>1, <1>2, <1>9, <1>11 DEF TryChanges, Opens, Tries
<1>14. HandlersIn(o)' = H
  BY <1>1, <1>6 DEF HandlersIn
<1>15. Spans(o)' = S \cup {r}
  <2>1. /\ Spans(o) = OtherSpans(o, n)
        /\ Spans(o)' = OtherSpans(o, n) \cup {Span(open'[n])}
    BY <1>1, <1>2, <1>3, <1>12, <1>13, <1>14, TrySpans
  <2> QED
    BY <1>1, <1>13, <2>1
<1>16. /\ GoodCode(code, H, S, D) /\ H \subseteq S
       /\ \A a \in DOMAIN code : code[a].op \in Jumps => code[a].arg <= e
       /\ \A a \in DOMAIN code : code[a].arg \in Nat
       /\ \A h \in H : h.start \in 1 .. l /\ h.end \in 1 .. l
       /\ \A q \in S : SpanOK(q, e) /\ q.start \in 1 .. l
       /\ \A h \in H : Part(h, e) = 0
  BY <1>1, <1>2, <1>3, <1>7, CodeSoFar
<1>17. GoodCode(code, H, S \cup {r}, D)
  <2>1. Respanned(S, S \cup {r}, H, e, e)
    BY <1>10 DEF Respanned, Continues
  <2>2. BlocksEnd(code, S \cup {r})
    BY <1>10, <1>16 DEF GoodCode, BlocksEnd, JumpBefore, Fresh
  <2>3. /\ code \in Seq(Instruction) /\ Len(code) <= e /\ e <= Len(code) + 1 /\ e = Len(code) + 1
        /\ l = Len(code)
    BY <1>1, <1>4, <1>7, <1>8
  <2> QED
    BY <1>8, <1>16, <2>1, <2>2, <2>3, RespannedGood
<1>18. GoodCode(new, H, S \cup {r}, D)
  <2>1. \A a \in DOMAIN code : new[a].op = code[a].op /\ new[a].arg = code[a].arg
    BY <1>1, <1>8
  <2>2. ASSUME NEW a \in DOMAIN new \ DOMAIN code PROVE InstructionOK(new, H, S \cup {r}, D, a)
    <3>1. a = e
      BY <1>1, <1>4, <1>7, <1>8, <2>2
    <3> QED
      BY <1>8, <1>10, <3>1 DEF InstructionOK, Jumps
  <2>3. code \in Seq(Instruction) /\ Len(code) <= Len(new)
    BY <1>1, <1>4, <1>8
  <2> QED
    BY <1>8, <1>17, <2>1, <2>2, <2>3, GrownGood
<1>19. CodeGood(o)'
  BY <1>1, <1>6, <1>14, <1>15, <1>18 DEF CodeGood, Writes
<1>20. ASSUME "tryInFinally" \notin used' PROVE FreeFinally(S \cup {r})
  <2>1. FreeFinally(S) /\ ~In("finally")
    BY <1>2, <1>4, <1>20
  <2>2. \A x \in Nat : Part(r, x) # 3
    BY <1>10 DEF Part, Fresh
  <2>3. ASSUME NEW q \in S PROVE Part(q, e) # 3
    <3>1. CASE q \in H
      BY <1>16, <3>1
    <3>2. CASE q \notin H
      <4>1. PICK k \in OpenTries(o) : q = Span(open[k])
        BY <1>1, <3>2 DEF Spans
      <4>2. k \in DOMAIN open /\ open[k].kind \in Tries /\ open[k].kind # "finally"
        BY <2>1 DEF In, OpenTries
      <4>3. HoldsOK(open[k], Home(k))
        BY <1>4, <4>2 DEF HomesHold
      <4>4. open[k].finally = NoAddress
        BY <4>2, <4>3 DEF HoldsOK
      <4>5. q.finally = NoAddress
        BY <4>1, <4>4 DEF Span
      <4> QED
        BY <4>5 DEF Part
    <3> QED
      BY <3>1, <3>2
  <2>4. \A q \in S \cup {r} : q.start \in Nat /\ (q \in S \/ q.start = e)
    BY <1>8, <1>10, <1>16
  <2> QED
    BY <2>1, <2>2, <2>3, <2>4 DEF FreeFinally
<1>21. TryStatements'
  <2>1. ASSUME NEW k \in DOMAIN open', k > 1, open'[k - 1].kind = "handlers"
        PROVE  open'[k].kind = "catch"
    <3>1. CASE k = n
      <4>1. Len(open) \in DOMAIN open /\ k - 1 = Len(open)
        BY <1>1, <1>4, <1>11, <2>1, <3>1
      <4>2. open # <<>> /\ open[Len(open)].kind = "handlers"
        BY <1>11, <2>1, <4>1
      <4> QED
        BY <1>2, <4>2 DEF InBlock, Inside, Enclosing
    <3>2. CASE k # n
      <4>1. k \in DOMAIN open /\ k - 1 \in DOMAIN open
        BY <1>4, <1>11, <2>1, <3>2
      <4> QED
        BY <1>4, <1>11, <2>1, <4>1 DEF TryStatements
    <3> QED
      BY <3>1, <3>2
  <2>2. \A k \in DOMAIN open' : open'[k].kind = "try" => open'[k].first = NoAddress
    BY <1>4, <1>9, <1>11 DEF TryStatements
  <2> QED
    BY <2>1, <2>2 DEF TryStatements
<1>22. BetweenBlocks'
  BY <1>9, <1>11 DEF BetweenBlocks, Inside, Enclosing
<1>23. \A x \in DOMAIN Code : Part(Span(open'[n]), x) = 0
  BY <1>4, <1>7, <1>8, <1>10, <1>13 DEF Part
<1>24. ASSUME NEW x, IsPlace(n, x)' PROVE TryPlace(new, n, x)
  <2>1. ~Patches(n, x)'
    <3>1. ~\E m \in DOMAIN states : states[m].depth = n
      BY <1>4, <1>11 DEF StatesOK
    <3> QED
      BY <1>2, <1>9, <1>11, <3>1 DEF Patches
  <2>2. x = e
    BY <1>9, <1>11, <1>24, <2>1 DEF IsPlace
  <2> QED
    BY <1>7, <1>8, <2>1, <2>2 DEF TryPlace
<1>25. /\ HandlersIn(o) \subseteq HandlersIn(o)' /\ HandlersIn(o)' = HandlersIn(o)
       /\ HandlersIn(o)' \ HandlersIn(o) = {}
       /\ "tryInFinally" \notin used' => FreeFinally(Spans(o)')
  BY <1>1, <1>14, <1>15, <1>20
<1>26. /\ o = cur /\ phase = "compile" /\ phase' = "compile" /\ used \subseteq used'
       /\ Writes(new, o) /\ \A a \in DOMAIN Code : new[a].op = Code[a].op
  BY <1>1, <1>2, <1>6, <1>8
<1> QED
  BY <1>3, <1>8, <1>12, <1>13, <1>19, <1>21, <1>22, <1>23, <1>24, <1>25, <1>26, TryStep

\* The protected block ends: the handlers come next.
LEMMA EndTryBlockBlocks ==
  ASSUME CodeInv, BlockInv, EndTryBlock, Straight'
  PROVE  BlockInv'
<1>1. PICK o, n, more, new, s, t, r, r2, H, S, R, D, code :
        /\ o = cur /\ n = Len(open) /\ more = <<I("JMP")>> /\ new = Code \o more
        /\ t = Enclosing
        /\ s = [t EXCEPT !.kind = "handlers", !.ends = {Offset}, !.first = FirstHandler]
        /\ r = Span(t) /\ r2 = Span(s)
        /\ H = HandlersIn(o) /\ S = Spans(o) /\ R = OtherSpans(o, n)
        /\ D = DOMAIN codes /\ code = Code
  OBVIOUS
<1>2. /\ phase = "compile" /\ phase' = "compile" /\ used \subseteq used'
      /\ open # <<>> /\ t.kind = "try"
      /\ Emit(more) /\ cur' = cur /\ states' = states /\ Replace(s)
  BY <1>1 DEF EndTryBlock, End, Inside
<1>3. Straight
  BY <1>2, StraightBefore
<1>4. /\ CodesOK /\ HeldOK /\ StatesOK /\ HomesHold /\ TryStatements /\ Len(Code) \in Nat
      /\ DOMAIN open = 1 .. n /\ n \in Nat /\ n \in DOMAIN open /\ t = open[n]
      /\ Code \in Seq(Instruction) /\ DOMAIN Code = 1 .. Len(Code) /\ Offset = Len(Code) + 1
      /\ "tryInFinally" \notin used => FreeFinally(S)
      /\ t \in OpenStatement
  BY <1>1, <1>2, <1>3, WhileCompiling, HeldTypes, EmptySeq DEF Enclosing
<1>5. /\ more \in Seq(Instruction) /\ DOMAIN more = {1} /\ Len(more) = 1 /\ more[1].op = "JMP"
      /\ more[1].arg = NoAddress
  BY <1>1, InstructionTypes DEF Ops, NoAddress
<1>6. Writes(new, o) /\ codes'[o].handlers = codes[o].handlers /\ Longer(new, Code, more)
  BY <1>1, <1>2, <1>4, <1>5, EmitExtends
<1>7. PICK l, e : l = Len(Code) /\ e = Len(Code) + 1
  OBVIOUS
<1>8. /\ l \in Nat /\ e = l + 1 /\ e \in Nat /\ Len(new) = e /\ new \in Seq(Instruction)
      /\ DOMAIN new = 1 .. e /\ new[e].op = "JMP" /\ new[e].arg = NoAddress /\ Len(Code) <= Len(new)
      /\ \A a \in DOMAIN Code : new[a] = Code[a]
  BY <1>4, <1>5, <1>6, <1>7 DEF Longer, Writes
<1>9. /\ s \in OpenStatement /\ s.kind = "handlers" /\ s.ends = {e} /\ s.first = e + 1
      /\ s.start = t.start /\ s.exit = t.exit /\ s.finally = t.finally
  <2>1. PICK f : f = FirstHandler
    OBVIOUS
  <2>2. f = e + 1 /\ f \in Nat /\ Offset = e
    BY <1>4, <1>7, <1>8, <2>1 DEF FirstHandler
  <2>3. {e} \in SUBSET Nat /\ "handlers" \in StatementKinds
    BY <1>8 DEF StatementKinds, Tries
  <2> QED
    BY <1>1, <1>4, <2>1, <2>2, <2>3 DEF OpenStatement
<1>10. t.start \in 1 .. l /\ t.exit = NoAddress /\ t.first = NoAddress /\ t.finally = NoAddress
  <2>1. Home(n) = cur
    BY <1>1, <1>4 DEF HomesHold
  <2>2. HoldsOK(t, cur)
    BY <1>4, <2>1 DEF HomesHold
  <2> QED
    BY <1>2, <1>4, <1>7, <2>2 DEF HoldsOK, Code, TryStatements, Tries
<1>11. /\ SpanFields(r, t) /\ SpanFields(r2, s)
       /\ r.start \in 1 .. l /\ r.start \in Nat /\ r2.start = r.start /\ r.first = NoAddress
       /\ r.finally = NoAddress /\ r.end = NoAddress
       /\ r2.finally = NoAddress /\ r2.first = e + 1 /\ r2.end = NoAddress
  BY <1>1, <1>9, <1>10 DEF Span, SpanFields
<1>12. Continues(r, r2, e) /\ Part(r2, e) = 1
  BY <1>8, <1>11 DEF Continues, Part, Exit, NoAddress
<1>13. /\ DOMAIN open' = DOMAIN open /\ open'[n] = s /\ Len(open') = n
       /\ \A k \in DOMAIN open \ {n} : open'[k] = open[k]
  BY <1>1, <1>2, <1>4, <1>9, ReplaceOpens
<1>14. Reshapes /\ TryStatements'
  BY <1>1, <1>2, <1>4, <1>9, ReplaceReshapes DEF SameFunction
<1>15. TryChanges(n) /\ Opens(n) /\ Opens(n)' /\ Span(open'[n]) = r2 /\ Span(open[n]) = r
  BY <1>1, <1>2, <1>4, <1>9, <1>13 DEF TryChanges, Opens, Tries
<1>16. HandlersIn(o)' = H
  BY <1>1, <1>6 DEF HandlersIn
<1>17. Spans(o)' = R \cup {r2} /\ S = R \cup {r}
  BY <1>1, <1>2, <1>3, <1>14, <1>15, <1>16, TrySpans
<1>18. /\ GoodCode(code, H, S, D) /\ H \subseteq S
       /\ \A a \in DOMAIN code : code[a].op \in Jumps => code[a].arg <= e
       /\ \A a \in DOMAIN code : code[a].arg \in Nat
       /\ \A h \in H : h.start \in 1 .. l /\ h.end \in 1 .. l /\ h.end # NoAddress
       /\ \A q \in S : SpanOK(q, e) /\ q.start \in 1 .. l
       /\ \A h \in H : Part(h, e) = 0
  BY <1>1, <1>2, <1>3, <1>7, CodeSoFar
<1>19. GoodCode(new, H, S, D)
  <2>1. \A a \in DOMAIN code : new[a].op = code[a].op /\ new[a].arg = code[a].arg
    BY <1>1, <1>8
  <2>2. ASSUME NEW a \in DOMAIN new \ DOMAIN code PROVE InstructionOK(new, H, S, D, a)
    <3>1. a = e
      BY <1>1, <1>4, <1>7, <1>8, <2>2
    <3> QED
      BY <1>8, <3>1 DEF InstructionOK, Jumps
  <2>3. code \in Seq(Instruction) /\ Len(code) <= Len(new) /\ D \subseteq D
    BY <1>1, <1>4, <1>8
  <2> QED
    BY <1>8, <1>18, <2>1, <2>2, <2>3, GrownGood
<1>20. GoodCode(new, H, R \cup {r2}, D)
  <2>1. Respanned(S, R \cup {r2}, H, e, e + 1)
    BY <1>11, <1>12, <1>17, <1>18, RespanOne
  <2>2. BlocksEnd(new, R \cup {r2})
    <3>1. (e + 1) - 1 = e /\ e \in DOMAIN new
      BY <1>8
    <3>2. JumpBefore(new, e + 1)
      BY <1>8, <3>1 DEF JumpBefore
    <3>3. JumpBefore(new, r2.first) /\ JumpBefore(new, r2.finally)
      BY <1>11, <3>2 DEF JumpBefore
    <3> QED
      BY <1>17, <1>19, <3>3 DEF GoodCode, BlocksEnd
  <2>3. Len(new) <= e /\ e <= Len(new) + 1
    BY <1>8
  <2>4. \A a \in DOMAIN new : new[a].op \in Jumps => new[a].arg <= e
    <3>1. \A a \in DOMAIN new : a = e \/ a \in DOMAIN Code
      BY <1>4, <1>7, <1>8
    <3> QED
      BY <1>1, <1>8, <1>18, <3>1 DEF NoAddress
  <2>5. \A h \in H : h.start \in 1 .. Len(new) /\ h.end \in 1 .. Len(new)
    BY <1>8, <1>18
  <2> QED
    BY <1>8, <1>18, <1>19, <2>1, <2>2, <2>3, <2>4, <2>5, RespannedGood
<1>21. CodeGood(o)'
  BY <1>1, <1>6, <1>16, <1>17, <1>20 DEF CodeGood, Writes
<1>22. "tryInFinally" \notin used' => FreeFinally(Spans(o)')
  <2>1. \A q \in R \cup {r} : q.start \in 1 .. e
    BY <1>8, <1>17, <1>18
  <2>2. "tryInFinally" \notin used' => FreeFinally(R \cup {r})
    BY <1>2, <1>4, <1>17
  <2> QED
    BY <1>12, <1>17, <2>1, <2>2, FreeContinues
<1>23. BetweenBlocks'
  <2>1. /\ Code' = new /\ Offset' = e + 1
    <3>1. Code' = new
      BY <1>1, <1>2, <1>6 DEF Writes, Code
    <3> QED
      BY <1>8, <3>1 DEF Offset
  <2>2. JumpBefore(new, e + 1)
    <3>1. (e + 1) - 1 = e /\ e \in DOMAIN new
      BY <1>8
    <3> QED
      BY <1>8, <3>1 DEF JumpBefore
  <2>3. \A a \in DOMAIN new : new[a].op \in Jumps => new[a].arg # e + 1
    <3>1. \A a \in DOMAIN new : a = e \/ a \in DOMAIN Code
      BY <1>4, <1>7, <1>8
    <3>2. \A a \in DOMAIN Code : Code[a].op \in Jumps => Code[a].arg # e + 1
      <4>1. ASSUME NEW a \in DOMAIN Code, Code[a].op \in Jumps PROVE Code[a].arg # e + 1
        <5>1. Code[a].arg <= e
          BY <1>1, <1>18, <4>1
        <5>2. Code[a].arg \in Nat
          BY <1>1, <1>18
        <5> QED
          BY <1>8, <5>1, <5>2
      <4> QED
        BY <4>1
    <3>3. NoAddress # e + 1
      BY <1>8 DEF NoAddress
    <3> QED
      BY <1>8, <3>1, <3>2, <3>3
  <2> QED
    BY <2>1, <2>2, <2>3 DEF BetweenBlocks
<1>24. \A x \in DOMAIN Code : Part(Span(open[n]), x) = 0 => Part(Span(open'[n]), x) = 0
  <2>1. \A x \in DOMAIN Code : x \in 1 .. e
    BY <1>4, <1>7, <1>8
  <2> QED
    BY <1>12, <1>15, <2>1 DEF Continues
<1>25. ASSUME NEW x, IsPlace(n, x)' PROVE TryPlace(new, n, x)
  <2>1. Patches(n, x)' => x = e
    <3>1. ~\E m \in DOMAIN states : states[m].depth = n
      <4>1. \A m \in DOMAIN states : states[m].depth = n => states[m].type \notin {"LOOP", "FUNCTION"}
        BY <1>2, <1>4 DEF StatesOK, Loops
      <4>2. \A m \in DOMAIN states : states[m].type \in {"LOOP", "FUNCTION"}
        BY <1>4, HeldTypes DEF StackState
      <4> QED
        BY <4>1, <4>2
    <3> QED
      BY <1>2, <1>9, <1>10, <1>13, <3>1 DEF Patches
  <2>2. x = e \/ x = t.start
    BY <1>9, <1>13, <1>25, <2>1 DEF IsPlace
  <2>3. CASE x = e
    BY <1>7, <1>8, <1>12, <1>15, <2>3 DEF TryPlace, Jumps
  <2>4. CASE x = t.start
    <3>1. x # e /\ x \in DOMAIN new /\ IsPlace(n, x)
      BY <1>2, <1>4, <1>8, <1>10, <2>4 DEF IsPlace, Tries
    <3> QED
      BY <1>4, <2>1, <3>1 DEF TryPlace
  <2> QED
    BY <2>2, <2>3, <2>4
<1>26. /\ HandlersIn(o) \subseteq HandlersIn(o)' /\ HandlersIn(o)' = HandlersIn(o)
       /\ HandlersIn(o)' \ HandlersIn(o) = {}
  BY <1>1, <1>16
<1>27. /\ o = cur /\ phase = "compile" /\ phase' = "compile" /\ used \subseteq used'
       /\ Writes(new, o) /\ \A a \in DOMAIN Code : new[a].op = Code[a].op
  BY <1>1, <1>2, <1>6, <1>8
<1> QED
  BY <1>3, <1>8, <1>14, <1>15, <1>21, <1>22, <1>23, <1>24, <1>25, <1>26, <1>27, TryStep

\* The finally block begins where the handlers end.
LEMMA BeginFinallyBlocks ==
  ASSUME CodeInv, BlockInv, BeginFinally, Straight'
  PROVE  BlockInv'
<1>1. PICK o, n, new, at, e, s, t, r, r2, H, S, R, D, code :
        /\ o = cur /\ n = Len(open) /\ t = Enclosing /\ at = t.ends /\ e = Offset
        /\ new = Patched(Code, at, e)
        /\ s = [t EXCEPT !.kind = "finally", !.ends = {}, !.finally = e]
        /\ r = Span(t) /\ r2 = Span(s)
        /\ H = HandlersIn(o) /\ S = Spans(o) /\ R = OtherSpans(o, n)
        /\ D = DOMAIN codes /\ code = Code
  OBVIOUS
<1>2. /\ phase = "compile" /\ phase' = "compile" /\ used \subseteq used'
      /\ open # <<>> /\ t.kind = "handlers" /\ t.catches # <<>> /\ Inside("handlers")
      /\ SetCode(new) /\ cur' = cur /\ states' = states /\ Replace(s)
  BY <1>1 DEF BeginFinally, Inside
<1>3. Straight
  BY <1>2, StraightBefore
<1>4. /\ CodesOK /\ HeldOK /\ StatesOK /\ HomesHold /\ TryStatements /\ Len(Code) \in Nat
      /\ DOMAIN open = 1 .. n /\ n \in Nat /\ n \in DOMAIN open /\ t = open[n]
      /\ Code \in Seq(Instruction) /\ DOMAIN Code = 1 .. Len(Code) /\ Offset = Len(Code) + 1
      /\ "tryInFinally" \notin used => FreeFinally(S)
      /\ t \in OpenStatement /\ BetweenBlocks
      /\ \A x : IsPlace(n, x) => PlaceOK(n, x)
  BY <1>1, <1>2, <1>3, WhileCompiling, HeldTypes, EmptySeq DEF Enclosing
<1>5. PICK l : l = Len(Code)
  OBVIOUS
<1>6. l \in Nat /\ e = l + 1 /\ e \in Nat
  BY <1>1, <1>4, <1>5
<1>7. Rewrites(new) /\ PatchedTo(new, Code, at, e) /\ Len(new) = l
  BY <1>1, <1>2, <1>4, <1>5, <1>6, PatchRewrites
<1>8. /\ codes' \in Seq(CodeObject) /\ DOMAIN codes' = DOMAIN codes /\ codes'[o].code = new
      /\ \A c \in DOMAIN codes \ {o} : codes'[c] = codes[c]
      /\ SameHandlers /\ o \in DOMAIN codes
  BY <1>1, <1>4, <1>7, SetCodeGrows DEF CodesOK
<1>9. /\ Writes(new, o) /\ codes'[o].handlers = codes[o].handlers /\ new \in Seq(Instruction)
      /\ Len(Code) <= Len(new) /\ DOMAIN new = 1 .. l /\ DOMAIN new = DOMAIN Code
      /\ \A a \in DOMAIN Code :
           new[a].op = Code[a].op /\ new[a].arg = IF a \in at THEN e ELSE Code[a].arg
  BY <1>4, <1>5, <1>7, <1>8 DEF Writes, SameHandlers, Rewrites, PatchedTo
<1>10. /\ s \in OpenStatement /\ s.kind = "finally" /\ s.ends = {} /\ s.first = t.first
       /\ s.start = t.start /\ s.exit = t.exit /\ s.finally = e
  BY <1>1, <1>4, <1>6 DEF OpenStatement, StatementKinds, Tries
<1>11. /\ t.start \in 1 .. l /\ t.exit = NoAddress /\ t.first \in Nat /\ t.start < t.first
       /\ t.first <= l /\ t.finally = NoAddress
  <2>1. Home(n) = cur
    BY <1>1, <1>4 DEF HomesHold
  <2>2. HoldsOK(t, cur)
    BY <1>4, <2>1 DEF HomesHold
  <2>3. t.first \in Nat
    BY <1>4 DEF OpenStatement
  <2> QED
    BY <1>2, <1>4, <1>5, <2>2, <2>3 DEF HoldsOK, Code, Tries
<1>12. /\ SpanFields(r, t) /\ SpanFields(r2, s)
       /\ r.start \in 1 .. l /\ r.start \in Nat /\ r2.start = r.start /\ r.first = t.first
       /\ r.finally = NoAddress /\ r.end = NoAddress
       /\ r2.finally = e /\ r2.first = r.first /\ r2.end = NoAddress
  BY <1>1, <1>10, <1>11 DEF Span, SpanFields
<1>13. Continues(r, r2, l) /\ Exit(r2) = e /\ (\A x \in 1 .. l : Part(r2, x) = Part(r, x))
  BY <1>6, <1>11, <1>12 DEF Continues, Part, Exit, NoAddress
<1>14. /\ DOMAIN open' = DOMAIN open /\ open'[n] = s /\ Len(open') = n
       /\ \A k \in DOMAIN open \ {n} : open'[k] = open[k]
  BY <1>1, <1>2, <1>4, <1>10, ReplaceOpens
<1>15. Reshapes /\ TryStatements'
  BY <1>1, <1>2, <1>4, <1>10, ReplaceReshapes DEF SameFunction
<1>16. TryChanges(n) /\ Opens(n) /\ Opens(n)' /\ Span(open'[n]) = r2 /\ Span(open[n]) = r
  BY <1>1, <1>2, <1>4, <1>10, <1>14 DEF TryChanges, Opens, Tries
<1>17. HandlersIn(o)' = H
  BY <1>1, <1>9 DEF HandlersIn
<1>18. /\ Spans(o)' = R \cup {r2} /\ S = R \cup {r} /\ n \in OpenTries(o)
       /\ \A k \in OpenTries(o) : k \in Nat /\ k <= n
  BY <1>1, <1>2, <1>3, <1>15, <1>16, <1>17, TrySpans
<1>19. /\ GoodCode(code, H, S, D) /\ H \subseteq S
       /\ \A a \in DOMAIN code : code[a].op \in Jumps => code[a].arg <= e
       /\ \A a \in DOMAIN code : code[a].arg \in Nat
       /\ \A h \in H : h.start \in 1 .. l /\ h.end \in 1 .. l /\ h.end # NoAddress
       /\ \A q \in S : SpanOK(q, e) /\ q.start \in 1 .. l
       /\ \A h \in H : Part(h, e) = 0
  BY <1>1, <1>2, <1>3, <1>5, <1>6, CodeSoFar
<1>20. JumpBefore(code, e) /\ \A a \in DOMAIN code : code[a].op \in Jumps => code[a].arg <= l
  <2>1. JumpBefore(code, e) /\ \A a \in DOMAIN code : code[a].op \in Jumps => code[a].arg # e
    BY <1>1, <1>2, <1>4 DEF BetweenBlocks
  <2>2. ASSUME NEW a \in DOMAIN code, code[a].op \in Jumps PROVE code[a].arg <= l
    <3>1. code[a].arg <= e /\ code[a].arg # e
      BY <1>19, <2>1, <2>2
    <3>2. code[a].arg \in Nat
      BY <1>19
    <3> QED
      BY <1>6, <3>1, <3>2
  <2> QED
    BY <2>1, <2>2
<1>21. GoodCode(code, H, R \cup {r2}, D)
  <2>1. Respanned(S, R \cup {r2}, H, l, e)
    BY <1>12, <1>13, <1>18, <1>19, RespanOne
  <2>2. BlocksEnd(code, R \cup {r2})
    <3>1. JumpBefore(code, r2.first) /\ JumpBefore(code, r2.finally)
      BY <1>12, <1>18, <1>19, <1>20 DEF GoodCode, BlocksEnd
    <3> QED
      BY <1>18, <1>19, <3>1 DEF GoodCode, BlocksEnd
  <2>3. /\ code \in Seq(Instruction) /\ Len(code) = l /\ Len(code) <= l /\ l <= Len(code) + 1
        /\ e = Len(code) + 1
    BY <1>1, <1>4, <1>5, <1>6
  <2> QED
    BY <1>6, <1>18, <1>19, <1>20, <2>1, <2>2, <2>3, RespannedGood
<1>22. ASSUME NEW a \in at
       PROVE  /\ a \in DOMAIN Code /\ Code[a].op \in Jumps
              /\ \A q \in R : Part(q, a) = Part(q, e)
              /\ Part(r, a) \in {1, 2}
  <2>1. IsPlace(n, a) /\ Patches(n, a)
    BY <1>1, <1>4, <1>22 DEF IsPlace, Patches
  <2>2. PlaceIn(o, n, a)
    <3>1. Home(n) = o
      BY <1>18 DEF OpenTries
    <3> QED
      BY <1>4, <2>1, <3>1 DEF PlaceOK
  <2>3. a \in DOMAIN Code /\ Code[a].op \in Jumps /\ Part(r, a) \in {1, 2}
    BY <1>1, <1>2, <1>4, <1>16, <2>1, <2>2 DEF PlaceIn, Code, Tries
  <2>4. \A h \in H : Part(h, a) = Part(h, e)
    BY <1>1, <1>19, <2>2 DEF PlaceIn
  <2>5. NextIn(o) = e
    BY <1>1, <1>4 DEF NextIn, Code
  <2>6. \A k \in OpenTries(o) \ {n} : Part(Span(open[k]), a) = Part(Span(open[k]), e)
    <3>1. \A k \in OpenTries(o) \ {n} : k < n
      BY <1>4, <1>18
    <3> QED
      BY <2>2, <2>5, <3>1 DEF PlaceIn
  <2> QED
    BY <1>1, <2>3, <2>4, <2>6 DEF OtherSpans
<1>23. GoodCode(new, H, R \cup {r2}, D)
  <2>1. ASSUME NEW a \in DOMAIN code
        PROVE  /\ new[a].op = code[a].op
               /\ new[a].arg = code[a].arg \/ (code[a].op \in Jumps /\ TargetOK(new, R \cup {r2}, a))
    <3>1. CASE a \notin at
      BY <1>1, <1>9, <3>1
    <3>2. CASE a \in at
      <4>1. /\ new[a].arg = e /\ code[a].op \in Jumps /\ Part(r, a) \in {1, 2}
            /\ \A q \in R : Part(q, a) = Part(q, e)
        BY <1>1, <1>9, <1>22, <3>2
      <4>2. Part(r2, a) = Part(r, a)
        BY <1>1, <1>4, <1>5, <1>13
      <4>3. e \in 1 .. Len(new) + 1
        BY <1>6, <1>7
      <4>4. TargetOK(new, R \cup {r2}, a)
        BY <1>13, <4>1, <4>2, <4>3 DEF TargetOK, StaysIn
      <4> QED
        BY <1>1, <1>9, <4>1, <4>4
    <3> QED
      BY <3>1, <3>2
  <2>2. /\ code \in Seq(Instruction) /\ Len(code) <= Len(new) /\ D \subseteq D
        /\ DOMAIN new \ DOMAIN code = {}
    BY <1>1, <1>4, <1>9
  <2> QED
    BY <1>9, <1>21, <2>1, <2>2, GrownGood
<1>24. CodeGood(o)'
  BY <1>1, <1>8, <1>17, <1>18, <1>23 DEF CodeGood
<1>25. "tryInFinally" \notin used' => FreeFinally(Spans(o)')
  <2>1. \A q \in R \cup {r} : q.start \in 1 .. l
    BY <1>18, <1>19
  <2>2. "tryInFinally" \notin used' => FreeFinally(R \cup {r})
    BY <1>2, <1>4, <1>18
  <2>3. Continues(r, r2, l)
    BY <1>13
  <2>4. ASSUME FreeFinally(R \cup {r}) PROVE FreeFinally(R \cup {r2})
    BY <2>1, <2>3, <2>4, FreeContinues
  <2>5. Spans(o)' = R \cup {r2}
    BY <1>18
  <2> QED
    BY <2>2, <2>4, <2>5
<1>26. BetweenBlocks'
  BY <1>10, <1>14 DEF BetweenBlocks, Inside, Enclosing
<1>27. \A x \in DOMAIN Code : Part(Span(open[n]), x) = 0 => Part(Span(open'[n]), x) = 0
  BY <1>4, <1>5, <1>13, <1>16
<1>28. ASSUME NEW x, IsPlace(n, x)' PROVE TryPlace(new, n, x)
  <2>1. ~Patches(n, x)'
    <3>1. ~\E m \in DOMAIN states : states[m].depth = n
      <4>1. \A m \in DOMAIN states : states[m].depth = n => states[m].type \notin {"LOOP", "FUNCTION"}
        BY <1>2, <1>4 DEF StatesOK, Loops
      <4>2. \A m \in DOMAIN states : states[m].type \in {"LOOP", "FUNCTION"}
        BY <1>4, HeldTypes DEF StackState
      <4> QED
        BY <4>1, <4>2
    <3> QED
      BY <1>2, <1>10, <1>11, <1>14, <3>1 DEF Patches
  <2>2. x = t.start
    BY <1>10, <1>14, <1>28, <2>1 DEF IsPlace
  <2>3. x \in DOMAIN new /\ IsPlace(n, x)
    BY <1>2, <1>4, <1>9, <1>11, <2>2 DEF IsPlace, Tries
  <2> QED
    BY <1>4, <2>1, <2>3 DEF TryPlace
<1>29. /\ HandlersIn(o) \subseteq HandlersIn(o)' /\ HandlersIn(o)' = HandlersIn(o)
       /\ HandlersIn(o)' \ HandlersIn(o) = {}
  BY <1>1, <1>17
<1>30. /\ o = cur /\ phase = "compile" /\ phase' = "compile" /\ used \subseteq used'
       /\ Writes(new, o) /\ \A a \in DOMAIN Code : new[a].op = Code[a].op
  BY <1>1, <1>2, <1>9
<1> QED
  BY <1>3, <1>9, <1>15, <1>16, <1>24, <1>25, <1>26, <1>27, <1>28, <1>29, <1>30, TryStep

\* The handlers of a code object, with one more.
LEMMA OneHandler ==
  ASSUME NEW s \in Seq(Handler), NEW h \in Handler, NEW s2, s2 = Append(s, h)
  PROVE  Range(s2) = Range(s) \cup {h}
<1>1. /\ DOMAIN s = 1 .. Len(s) /\ Len(s) \in Nat /\ DOMAIN s2 = 1 .. Len(s) + 1
      /\ s2[Len(s) + 1] = h /\ \A i \in 1 .. Len(s) : s2[i] = s[i]
  OBVIOUS
<1>2. \A i \in 1 .. Len(s) + 1 : i \in 1 .. Len(s) \/ i = Len(s) + 1
  BY <1>1
<1>3. \A i \in 1 .. Len(s) : i \in 1 .. Len(s) + 1
  BY <1>1
<1>4. Len(s) + 1 \in 1 .. Len(s) + 1
  BY <1>1
<1>5. \A g : g \in Range(s2) <=> g \in Range(s) \/ g = h
  BY <1>1, <1>2, <1>3, <1>4 DEF Range
<1> QED
  BY <1>5

\* The statement ends: its handler is registered.
LEMMA EndTryBlocks ==
  ASSUME CodeInv, BlockInv, EndTry, Straight'
  PROVE  BlockInv'
<1>1. PICK o, n, p, new, at, e, t, h, hs, r, H, S, R, D, code :
        /\ o = cur /\ n = Len(open) /\ t = Enclosing /\ at = t.ends /\ e = Offset
        /\ p = Patched(Code, at, e) /\ new = Append(p, I("END_TRY"))
        /\ h = [start |-> t.start, first |-> t.first, end |-> EndAddress,
                finally |-> t.finally, catches |-> t.catches]
        /\ hs = Append(codes[o].handlers, h) /\ r = Span(t)
        /\ H = HandlersIn(o) /\ S = Spans(o) /\ R = OtherSpans(o, n)
        /\ D = DOMAIN codes /\ code = Code
  OBVIOUS
<1>2. /\ phase = "compile" /\ phase' = "compile" /\ used \subseteq used'
      /\ open # <<>> /\ t.kind \in {"handlers", "finally"}
      /\ t.kind = "finally" \/ t.catches # <<>>
      /\ BothSet(codes', codes, o, new, hs)
      /\ PopOpen /\ cur' = cur /\ states' = states
  BY <1>1 DEF EndTry, End, Inside, BothSet, Code, Register
<1>3. Straight
  BY <1>2, StraightBefore
<1>4. /\ CodesOK /\ HeldOK /\ StatesOK /\ HomesHold /\ TryStatements /\ Len(Code) \in Nat
      /\ DOMAIN open = 1 .. n /\ n \in Nat /\ n \in DOMAIN open /\ t = open[n]
      /\ Code \in Seq(Instruction) /\ DOMAIN Code = 1 .. Len(Code) /\ Offset = Len(Code) + 1
      /\ "tryInFinally" \notin used => FreeFinally(S)
      /\ t \in OpenStatement /\ Code = codes[o].code /\ o \in DOMAIN codes
      /\ \A x : IsPlace(n, x) => PlaceOK(n, x)
  BY <1>1, <1>2, <1>3, WhileCompiling, HeldTypes, EmptySeq DEF Enclosing, Code
<1>5. PICK l : l = Len(Code)
  OBVIOUS
<1>6. l \in Nat /\ e = l + 1 /\ e \in Nat
  BY <1>1, <1>4, <1>5
<1>7. p \in Seq(Instruction) /\ Len(p) = l /\ PatchedTo(p, Code, at, e)
  BY <1>1, <1>4, <1>5, <1>6, PatchedCode
<1>8. /\ new \in Seq(Instruction) /\ Len(new) = e /\ DOMAIN new = 1 .. e
      /\ new[e].op = "END_TRY"
      /\ \A a \in DOMAIN Code :
           new[a].op = Code[a].op /\ new[a].arg = IF a \in at THEN e ELSE Code[a].arg
  <2>1. PICK i \in Instruction : i = I("END_TRY") /\ i.op = "END_TRY"
    BY InstructionTypes DEF Ops
  <2>2. new = Append(p, i)
    BY <1>1, <2>1
  <2>3. /\ new \in Seq(Instruction) /\ Len(new) = Len(p) + 1 /\ DOMAIN new = 1 .. Len(p) + 1
        /\ \A a \in DOMAIN p : a \in DOMAIN new /\ new[a] = p[a]
        /\ new[Len(p) + 1] = i
    BY <1>7, <2>2
  <2> QED
    BY <1>6, <1>7, <2>1, <2>3 DEF PatchedTo
<1>9. /\ h \in Handler /\ h.start = t.start /\ h.first = t.first
      /\ h.end = e /\ h.finally = t.finally
  BY <1>1, <1>4, <1>6 DEF OpenStatement, Handler, EndAddress
<1>10. hs \in Seq(Handler) /\ Range(hs) = H \cup {h}
  <2>1. PICK hs0 : hs0 = codes[o].handlers
    OBVIOUS
  <2>2. hs0 \in Seq(Handler)
    BY <1>4, <2>1, CodeObjects
  <2>3. hs = Append(hs0, h) /\ H = Range(hs0)
    BY <1>1, <2>1 DEF HandlersIn
  <2>4. Range(hs) = Range(hs0) \cup {h}
    BY <1>9, <2>2, <2>3, OneHandler
  <2> QED
    BY <1>9, <2>2, <2>3, <2>4
<1>11. Writes(new, o) /\ codes'[o].handlers = hs /\ Len(Code) <= Len(new)
  <2>1. Len(Code) <= Len(new) /\ \A a \in DOMAIN Code : new[a].op = Code[a].op
    BY <1>5, <1>6, <1>8
  <2>2. /\ BothSet(codes', codes, o, new, hs) /\ CodesOK /\ o = cur
        /\ new \in Seq(Instruction) /\ hs \in Seq(Handler)
    BY <1>1, <1>2, <1>4, <1>8, <1>10
  <2> QED
    BY <2>1, <2>2, EndTryCode
<1>12. /\ t.start \in 1 .. l /\ t.exit = NoAddress /\ t.first \in Nat /\ t.start < t.first
       /\ t.first <= e /\ t.finally \in Nat
       /\ t.kind = "handlers" => t.finally = NoAddress
       /\ t.finally # NoAddress => t.ends = {} /\ t.first < t.finally /\ t.finally <= e
  <2>1. Home(n) = cur
    BY <1>1, <1>4 DEF HomesHold
  <2>2. HoldsOK(t, cur)
    BY <1>4, <2>1 DEF HomesHold
  <2>3. t.first \in Nat /\ t.finally \in Nat
    BY <1>4 DEF OpenStatement
  <2> QED
    BY <1>2, <1>4, <1>5, <1>6, <2>2, <2>3 DEF HoldsOK, Code, Tries
<1>13. /\ SpanFields(r, t) /\ h.end # NoAddress
       /\ r.start \in 1 .. l /\ r.start \in Nat /\ h.start = r.start /\ r.first = h.first
       /\ r.finally = h.finally /\ r.end = NoAddress
  BY <1>1, <1>6, <1>9, <1>12 DEF Span, SpanFields, NoAddress
<1>14. Continues(r, h, e) /\ \A x \in 1 .. e : Part(h, x) = Part(r, x)
  BY <1>6, <1>9, <1>12, <1>13 DEF Continues, Part, Exit, NoAddress
<1>15. /\ \A k \in DOMAIN open' : k \in DOMAIN open /\ open'[k] = open[k]
       /\ \A k \in DOMAIN open \ {n} : k \in DOMAIN open'
       /\ n \notin DOMAIN open' /\ DOMAIN open' \subseteq 1 .. n
  <2>1. /\ Len(open') = Len(open) - 1 /\ open' \in Seq(OpenStatement)
        /\ \A k \in DOMAIN open' : k \in DOMAIN open /\ open'[k] = open[k]
        /\ \A k \in DOMAIN open \ {Len(open)} : k \in DOMAIN open'
    BY <1>2, <1>4, PopOpens
  <2>2. DOMAIN open' = 1 .. n - 1
    BY <1>1, <2>1
  <2> QED
    BY <1>1, <1>4, <2>1, <2>2
<1>16. Reshapes /\ TryStatements' /\ BetweenBlocks'
  <2>1. Enclosing.kind \notin {"function", "catch"}
    BY <1>1, <1>2
  <2> QED
    BY <1>2, <1>4, <2>1, PopBetween, PopReshapes
<1>17. TryChanges(n) /\ Opens(n) /\ ~Opens(n)' /\ Span(open[n]) = r
  BY <1>1, <1>2, <1>4, <1>15 DEF TryChanges, Opens, Tries
<1>18. HandlersIn(o)' = H \cup {h}
  BY <1>10, <1>11 DEF HandlersIn
<1>19. /\ Spans(o)' = R \cup {h} /\ S = R \cup {r} /\ n \in OpenTries(o)
       /\ \A k \in OpenTries(o) : k \in Nat /\ k <= n
  <2>1. HandlersIn(o) \subseteq HandlersIn(o)'
    BY <1>1, <1>18
  <2>2. /\ Spans(o)' = OtherSpans(o, n) \cup HandlersIn(o)'
        /\ Spans(o) = OtherSpans(o, n) \cup {Span(open[n])}
        /\ n \in OpenTries(o) /\ \A k \in OpenTries(o) : k \in Nat /\ k <= n
    BY <1>1, <1>2, <1>3, <1>16, <1>17, <2>1, TrySpans
  <2>3. H \subseteq R
    BY <1>1 DEF OtherSpans
  <2> QED
    BY <1>1, <1>17, <1>18, <2>2, <2>3
<1>20. /\ GoodCode(code, H, S, D) /\ H \subseteq S
       /\ \A a \in DOMAIN code : code[a].op \in Jumps => code[a].arg <= e
       /\ \A g \in H : g.start \in 1 .. l /\ g.end \in 1 .. l /\ g.end # NoAddress
       /\ \A q \in S : SpanOK(q, e) /\ q.start \in 1 .. l
       /\ \A g \in H : Part(g, e) = 0
  BY <1>1, <1>2, <1>3, <1>5, <1>6, CodeSoFar
\* The addresses that the statement remembers are in the blocks around it.
<1>21. ASSUME NEW a, IsPlace(n, a)
       PROVE  /\ a \in DOMAIN Code /\ (Patches(n, a) => Code[a].op \in Jumps /\ Part(r, a) \in {1, 2})
              /\ \A q \in R : Part(q, a) = Part(q, e)
  <2>1. PlaceIn(o, n, a)
    <3>1. Home(n) = o
      BY <1>19 DEF OpenTries
    <3> QED
      BY <1>4, <1>21, <3>1 DEF PlaceOK
  <2>2. a \in DOMAIN Code /\ (Patches(n, a) => Code[a].op \in Jumps /\ Part(r, a) \in {1, 2})
    BY <1>2, <1>4, <1>17, <2>1 DEF PlaceIn, Tries
  <2>3. \A g \in H : Part(g, a) = Part(g, e)
    BY <1>1, <1>20, <2>1 DEF PlaceIn
  <2>4. NextIn(o) = e
    BY <1>1, <1>4 DEF NextIn
  <2>5. \A k \in OpenTries(o) \ {n} : Part(Span(open[k]), a) = Part(Span(open[k]), e)
    <3>1. \A k \in OpenTries(o) \ {n} : k < n
      BY <1>4, <1>19
    <3> QED
      BY <2>1, <2>4, <3>1 DEF PlaceIn
  <2> QED
    BY <1>1, <2>2, <2>3, <2>5 DEF OtherSpans
<1>22. GoodCode(code, H \cup {h}, R \cup {h}, D)
  <2>1. r \notin H
    BY <1>13, <1>20
  <2>2. Respanned(S, R \cup {h}, H, e, e)
    BY <1>14, <1>19, <2>1, RespanOne
  <2>3. BlocksEnd(code, R \cup {h})
    <3>1. JumpBefore(code, h.first) /\ JumpBefore(code, h.finally)
      BY <1>13, <1>19, <1>20 DEF GoodCode, BlocksEnd
    <3> QED
      BY <1>19, <1>20, <3>1 DEF GoodCode, BlocksEnd
  <2>4. \A q \in R : Part(q, h.start) = Part(q, h.end)
    <3>1. IsPlace(n, t.start)
      BY <1>2, <1>4 DEF IsPlace, Tries
    <3> QED
      BY <1>9, <1>21, <3>1
  <2>5. \A g \in (H \cup {h}) \ H : \A q \in (R \cup {h}) \ {g} : Part(q, g.start) = Part(q, g.end)
    BY <2>4
  <2>6. /\ code \in Seq(Instruction) /\ Len(code) = l /\ Len(code) <= e /\ e <= Len(code) + 1
        /\ e = Len(code) + 1 /\ H \subseteq H \cup {h}
    BY <1>1, <1>4, <1>5, <1>6
  <2> QED
    BY <1>6, <1>20, <2>2, <2>3, <2>5, <2>6, RespannedGood
<1>23. GoodCode(new, H \cup {h}, R \cup {h}, D)
  <2>1. ASSUME NEW a \in DOMAIN code
        PROVE  /\ new[a].op = code[a].op
               /\ new[a].arg = code[a].arg \/ (code[a].op \in Jumps /\ TargetOK(new, R \cup {h}, a))
    <3>1. CASE a \notin at
      BY <1>1, <1>8, <3>1
    <3>2. CASE a \in at
      <4>1. IsPlace(n, a) /\ Patches(n, a)
        BY <1>1, <1>4, <3>2 DEF IsPlace, Patches
      <4>2. /\ new[a].arg = e /\ code[a].op \in Jumps /\ Part(r, a) \in {1, 2}
            /\ \A q \in R : Part(q, a) = Part(q, e)
        BY <1>1, <1>8, <1>21, <3>2, <4>1
      <4>3. Part(h, a) = Part(r, a)
        <5>1. a \in 1 .. e
          BY <1>1, <1>4, <1>5, <1>6
        <5> QED
          BY <1>14, <5>1
      <4>4. e \in 1 .. Len(new) + 1
        BY <1>6, <1>8
      <4>5. e = Exit(h)
        BY <1>1, <1>9, <1>12, <3>2 DEF Exit
      <4>6. TargetOK(new, R \cup {h}, a)
        BY <4>2, <4>3, <4>4, <4>5 DEF TargetOK, StaysIn
      <4> QED
        BY <1>1, <1>8, <4>2, <4>6
    <3> QED
      BY <3>1, <3>2
  <2>2. code \in Seq(Instruction) /\ Len(code) <= Len(new) /\ D \subseteq D
    BY <1>1, <1>4, <1>11
  <2>3. ASSUME NEW a \in DOMAIN new \ DOMAIN code
        PROVE  InstructionOK(new, H \cup {h}, R \cup {h}, D, a)
    <3>1. a = e
      BY <1>1, <1>4, <1>5, <1>6, <1>8, <2>3
    <3> QED
      BY <1>8, <1>9, <3>1 DEF InstructionOK, Jumps
  <2> QED
    BY <1>8, <1>22, <2>1, <2>2, <2>3, GrownGood
<1>24. CodeGood(o)'
  BY <1>1, <1>11, <1>18, <1>19, <1>23 DEF CodeGood, Writes
<1>25. "tryInFinally" \notin used' => FreeFinally(Spans(o)')
  <2>1. \A q \in R \cup {r} : q.start \in 1 .. e
    BY <1>6, <1>19, <1>20
  <2>2. "tryInFinally" \notin used' => FreeFinally(R \cup {r})
    BY <1>2, <1>4, <1>19
  <2>3. Continues(r, h, e)
    BY <1>14
  <2>4. ASSUME FreeFinally(R \cup {r}) PROVE FreeFinally(R \cup {h})
    BY <2>1, <2>3, <2>4, FreeContinues
  <2>5. Spans(o)' = R \cup {h}
    BY <1>19
  <2> QED
    BY <2>2, <2>4, <2>5
<1>26. \A x \in DOMAIN Code : Part(Span(open[n]), x) = 0 =>
         \A g \in HandlersIn(o)' \ HandlersIn(o) : Part(g, x) = 0
  <2>1. \A x \in DOMAIN Code : x \in 1 .. e
    BY <1>4, <1>5, <1>6
  <2> QED
    BY <1>1, <1>14, <1>17, <1>18, <2>1
<1>27. HandlersIn(o) \subseteq HandlersIn(o)'
  BY <1>1, <1>18
<1>28. /\ o = cur /\ phase = "compile" /\ phase' = "compile" /\ used \subseteq used'
       /\ \A a \in DOMAIN Code : new[a].op = Code[a].op
  BY <1>1, <1>2, <1>8
<1> QED
  BY <1>3, <1>11, <1>15, <1>16, <1>17, <1>24, <1>25, <1>26, <1>27, <1>28, TryStep

\* A catch block begins: CATCH is in the catch blocks of this try statement.
LEMMA BeginCatchBlocks ==
  ASSUME CodeInv, BlockInv, NEW type \in Types, NEW name \in CatchNames \cup {NoName},
         BeginCatch(type, name), Straight'
  PROVE  BlockInv'
<1> DEFINE last == IF name = NoName THEN I("POP") ELSE Ia("STORE", name)
           more == <<Ia("LOAD", type), I("CATCH"), last>>
<1>1. PICK new, o, n, e, catches, f, s, H, S, D :
        /\ new = Code \o more /\ o = cur /\ n = Len(open) /\ e = open[n]
        /\ catches = Append(e.catches, Offset) /\ f = [e EXCEPT !.catches = catches]
        /\ s = [Statement("catch", NoAddress, Offset + 1) EXCEPT !.name = name]
        /\ H = HandlersIn(o) /\ S = Spans(o) /\ D = DOMAIN codes
  OBVIOUS
<1>2. /\ phase = "compile" /\ phase' = "compile" /\ used \subseteq used'
      /\ open # <<>> /\ Enclosing.kind = "handlers"
      /\ Emit(more) /\ cur' = cur /\ states' = states
      /\ open' = Append([open EXCEPT ![Len(open)].catches = Append(@, Offset)], s)
  BY <1>1 DEF BeginCatch, Inside, Using
<1>3. Straight
  BY <1>2, StraightBefore
<1>4. /\ CodesOK /\ HeldOK /\ StatesOK /\ HomesHold /\ TryStatements /\ Len(Code) \in Nat
      /\ DOMAIN open = 1 .. n /\ n \in Nat /\ n \in DOMAIN open /\ Enclosing = e
      /\ Code \in Seq(Instruction) /\ DOMAIN Code = 1 .. Len(Code)
      /\ Offset = Len(Code) + 1 /\ Offset \in Nat /\ e \in OpenStatement
  <2>1. /\ CodesOK /\ HeldOK /\ StatesOK /\ HomesHold /\ TryStatements /\ Len(Code) \in Nat
        /\ DOMAIN open = 1 .. n /\ n \in Nat /\ Code \in Seq(Instruction)
        /\ DOMAIN Code = 1 .. Len(Code)
    BY <1>1, <1>2, <1>3, WhileCompiling
  <2>2. n \in DOMAIN open /\ Enclosing = e
    BY <1>1, <1>2, <2>1, EmptySeq DEF Enclosing
  <2>3. e \in OpenStatement
    BY <1>1, <2>1, <2>2, HeldTypes
  <2> QED
    BY <2>1, <2>2, <2>3, Offsets
<1>5. /\ more \in Seq(Instruction) /\ Len(more) = 3 /\ DOMAIN more = {1, 2, 3}
      /\ Simple(more[1]) /\ Simple(more[3])
      /\ more[2].op = "CATCH" /\ more[2].arg = NoAddress
  <2>1. type \in Nat /\ name \in Nat
    BY ProgramAssumption DEF NoName
  <2>2. /\ Ia("LOAD", type) \in Instruction /\ Simple(Ia("LOAD", type))
        /\ last \in Instruction /\ Simple(last)
        /\ I("CATCH") \in Instruction /\ I("CATCH").op = "CATCH" /\ I("CATCH").arg = NoAddress
    BY <2>1, InstructionTypes, Simples DEF Ops, NoAddress
  <2> HIDE DEF last
  <2> QED
    BY <2>2
<1>6. /\ s \in OpenStatement /\ s.kind = "catch" /\ s.exit = Len(Code) + 2 /\ s.ends = {}
  <2>1. "catch" \in StatementKinds /\ NoAddress \in Nat /\ Offset + 1 \in Nat
    BY <1>4 DEF StatementKinds, NoAddress
  <2>2. PICK r : r = Statement("catch", NoAddress, Offset + 1)
    OBVIOUS
  <2>3. r \in OpenStatement /\ r.kind = "catch" /\ r.exit = Offset + 1 /\ r.ends = {}
    BY <2>1, <2>2, StatementType
  <2>4. s = [r EXCEPT !.name = name] /\ name \in Nat
    BY <1>1, <2>2, ProgramAssumption DEF NoName
  <2>5. s \in OpenStatement /\ s.kind = "catch" /\ s.exit = r.exit /\ s.ends = {}
    BY <2>3, <2>4 DEF OpenStatement
  <2> QED
    BY <1>4, <2>3, <2>5
<1> HIDE DEF more
<1>7. Writes(new, o) /\ codes'[o].handlers = codes[o].handlers /\ Longer(new, Code, more)
  BY <1>1, <1>2, <1>4, <1>5, EmitExtends
<1>8. /\ f \in OpenStatement /\ f.kind = e.kind /\ f.start = e.start /\ f.exit = e.exit
      /\ f.ends = e.ends /\ f.first = e.first /\ f.finally = e.finally
  <2>1. catches \in Seq(Nat)
    <3>1. e.catches \in Seq(Nat)
      BY <1>4 DEF OpenStatement
    <3> QED
      BY <1>1, <1>4, <3>1
  <2> QED
    BY <1>1, <1>4, <2>1 DEF OpenStatement
<1>9. /\ open' \in Seq(OpenStatement) /\ Len(open') = n + 1 /\ DOMAIN open' = 1 .. n + 1
      /\ open'[n + 1] = s /\ open'[n] = f
      /\ \A k \in DOMAIN open \ {n} : open'[k] = open[k]
  <2>1. PICK g : g = [open EXCEPT ![n] = f]
    OBVIOUS
  <2>2. /\ g \in Seq(OpenStatement) /\ Len(g) = n /\ g[n] = f
        /\ \A k \in DOMAIN open \ {n} : g[k] = open[k]
    <3>1. open \in Seq(OpenStatement) /\ Len(open) = n
      BY <1>1, <1>4 DEF HeldOK
    <3> QED
      BY <1>4, <1>8, <2>1, <3>1
  <2>3. open' = Append(g, s)
    BY <1>1, <1>2, <2>1
  <2>4. DOMAIN g = 1 .. n
    BY <2>2
  <2> QED
    BY <1>4, <1>6, <2>2, <2>3, <2>4
<1>10. PICK m, l : m = n + 1 /\ l = Len(Code)
  OBVIOUS
<1>11. /\ m \in Nat /\ m \notin DOMAIN open /\ l \in Nat /\ m # n
       /\ DOMAIN open' = 1 .. m /\ Len(open') = m /\ open'[m] = s
       /\ \A k \in DOMAIN open : k \in DOMAIN open' /\ k # m /\ k < m
       /\ \A k \in DOMAIN open' : k \in DOMAIN open \/ k = m
  BY <1>4, <1>9, <1>10
<1>12. \A k \in DOMAIN open :
         /\ open'[k].kind = open[k].kind /\ open'[k].start = open[k].start
         /\ open'[k].exit = open[k].exit /\ open'[k].ends = open[k].ends
         /\ open'[k].first = open[k].first /\ open'[k].finally = open[k].finally
  BY <1>1, <1>8, <1>9
<1>13. Reshapes
  <2>1. n # n + 1 /\ n + 1 # n - 1
    BY <1>4
  <2>2. \A k \in DOMAIN open : SameFunction(open[k], open'[k])
    BY <1>12 DEF SameFunction
  <2> QED
    BY <1>1, <1>2, <1>4, <1>6, <1>9, <2>1, <2>2 DEF Reshapes, HeldOK
<1>14. \A k : TryKept(k)
  <2>1. s.kind \notin Tries
    BY <1>6 DEF Tries
  <2>2. \A k : Opens(k)' <=> Opens(k)
    BY <1>11, <1>12, <2>1 DEF Opens
  <2> QED
    BY <1>12, <2>2 DEF TryKept, Opens, Span
<1>15. /\ e.kind = "handlers" /\ e.start \in Nat /\ e.first \in Nat /\ e.finally = NoAddress
       /\ e.start < e.first /\ e.first <= l + 1 /\ Home(n) = o
  <2>1. HoldsOK(e, cur) /\ Home(n) = o
    BY <1>1, <1>4 DEF HomesHold
  <2> QED
    BY <1>1, <1>2, <1>4, <1>10, <2>1 DEF HoldsOK, Tries, Code, OpenStatement
<1>16. PICK r : r = Span(e)
  OBVIOUS
<1>17. /\ r \in S /\ Part(r, l + 2) = 2 /\ r.start = e.start
  <2>1. n \in OpenTries(o)
    BY <1>1, <1>4, <1>15 DEF OpenTries, Tries
  <2>2. r \in S
    BY <1>1, <1>16, <2>1 DEF Spans
  <2>3. r.start = e.start /\ r.first = e.first /\ r.finally = NoAddress /\ r.end = NoAddress
    BY <1>15, <1>16 DEF Span
  <2>4. e.start < l + 2 /\ e.first # NoAddress /\ ~(l + 2 < e.first)
    BY <1>11, <1>15 DEF NoAddress
  <2>5. ~(l + 2 <= e.start)
    BY <1>11, <1>15
  <2>6. Part(r, l + 2) = 2
    BY <2>3, <2>4, <2>5 DEF Part
  <2> QED
    BY <2>2, <2>3, <2>6
<1>18. InCatch(S, l + 2)
  <2>1. ASSUME NEW q \in S, Part(q, l + 2) # 0 PROVE q.start <= r.start
    <3>1. /\ H \subseteq S /\ \A h \in H : Part(h, l + 1) = 0 /\ h.end # NoAddress
          /\ \A p \in S : SpanOK(p, l + 1)
      BY <1>1, <1>2, <1>3, <1>10, CodeSoFar
    <3>2. l + 1 \in Nat /\ l + 2 \in Nat /\ l + 1 <= l + 2
      BY <1>11
    <3>3. Part(q, l + 2) = Part(q, l + 1)
      BY <3>1, <3>2, Beyond
    <3>4. q \notin H
      BY <2>1, <3>1, <3>3
    <3>5. PICK k \in OpenTries(o) : q = Span(open[k])
      BY <1>1, <3>4 DEF Spans
    <3>6. k \in 1 .. n /\ open[k].kind \in Tries /\ Home(k) = o /\ q.start = open[k].start
      BY <1>4, <3>5 DEF OpenTries, Span
    <3>7. CASE k = n
      BY <1>1, <1>15, <1>17, <3>6, <3>7
    <3>8. CASE k # n
      <4>1. k < n /\ {open[k].kind, open[n].kind} \subseteq Tries /\ Home(k) = Home(n)
        BY <1>1, <1>4, <1>15, <3>6, <3>8 DEF Tries
      <4>2. open[k].start < open[n].start
        BY <1>4, <3>6, <4>1 DEF HomesHold
      <4>3. q.start < r.start /\ q.start \in Nat /\ r.start \in Nat
        BY <1>1, <1>17, <3>1, <3>6, <4>2 DEF SpanOK
      <4> QED
        BY <4>3
    <3> QED
      BY <3>7, <3>8
  <2> QED
    BY <1>17, <2>1 DEF InCatch
<1>19. ExtendedOK(new, o)
  <2>1. \A b \in DOMAIN more : InstructionOK(new, HandlersIn(o), Spans(o), DOMAIN codes, Len(Code) + b)
    <3>1. InstructionOK(new, HandlersIn(o), Spans(o), DOMAIN codes, Len(Code) + 1)
          /\ InstructionOK(new, HandlersIn(o), Spans(o), DOMAIN codes, Len(Code) + 3)
      BY <1>5, <1>7, Simples DEF Longer
    <3>2. new[l + 2].op = "CATCH" /\ new[l + 2].arg = NoAddress
      BY <1>5, <1>7, <1>10 DEF Longer
    <3>3. InstructionOK(new, H, S, D, l + 2)
      BY <1>18, <3>2 DEF InstructionOK
    <3> QED
      BY <1>1, <1>5, <1>10, <3>1, <3>3
  <2> QED
    BY <1>1, <1>2, <1>4, <1>5, <2>1, EmitExtends
<1>20. TryStatements'
  <2>1. ASSUME NEW k \in DOMAIN open', k > 1, open'[k - 1].kind = "handlers"
        PROVE  open'[k].kind = "catch"
    <3>1. CASE k \in DOMAIN open
      <4>1. k - 1 \in DOMAIN open
        BY <1>4, <2>1, <3>1
      <4> QED
        BY <1>4, <1>12, <2>1, <3>1, <4>1 DEF TryStatements
    <3>2. CASE k = m
      BY <1>6, <1>11, <3>2
    <3> QED
      BY <1>11, <2>1, <3>1, <3>2
  <2>2. ASSUME NEW k \in DOMAIN open', open'[k].kind = "try" PROVE open'[k].first = NoAddress
    <3>1. k # m
      BY <1>6, <1>11, <2>2
    <3> QED
      BY <1>4, <1>11, <1>12, <2>2, <3>1 DEF TryStatements
  <2> QED
    BY <2>1, <2>2 DEF TryStatements
<1>21. BetweenBlocks'
  BY <1>6, <1>11 DEF BetweenBlocks, Inside, Enclosing
<1>22. ASSUME NEW k \in DOMAIN open', NEW x, IsPlace(k, x)'
       PROVE  KeptPlace(k, x) \/ NewPlace(new, o, k, x)
  <2>1. CASE k \in DOMAIN open
    <3>1. Patches(k, x)' => Patches(k, x)
      BY <1>2, <1>12, <2>1 DEF Patches
    <3>2. IsPlace(k, x)
      BY <1>12, <1>22, <2>1, <3>1 DEF IsPlace
    <3> QED
      BY <1>12, <2>1, <3>1, <3>2 DEF KeptPlace
  <2>2. CASE k = m
    <3>1. open'[k] = s
      BY <1>11, <2>2
    <3>2. ~\E i \in DOMAIN states : states[i].depth = k /\ x \in states[i].ends
      BY <1>4, <1>11, <2>2 DEF StatesOK
    <3>3. Patches(k, x)' => x = s.exit
      BY <1>2, <1>6, <3>1, <3>2 DEF Patches
    <3>4. x = s.exit /\ open'[k].kind \notin Tries
      BY <1>6, <1>22, <3>1, <3>3 DEF IsPlace, Loops, Tries
    <3>5. x = l + 2 /\ Len(new) = l + 3 /\ DOMAIN new = 1 .. Len(new) /\ new[l + 2].op = "CATCH"
      BY <1>5, <1>6, <1>7, <1>10, <3>4 DEF Longer, Writes
    <3>6. x \in DOMAIN new \ DOMAIN Code /\ new[x].op \in Jumps
      BY <1>4, <1>10, <1>11, <3>5 DEF Jumps
    <3>7. Home(k)' = o
      <4>1. HomesKept
        BY <1>13, ReshapedHomes
      <4> QED
        BY <1>1, <1>2, <1>11, <2>2, <4>1 DEF HomesKept, Home
    <3>8. \A i \in OpenTries(o) \ {k} : i < k
      BY <1>11, <2>2 DEF OpenTries
    <3> QED
      BY <3>4, <3>6, <3>7, <3>8 DEF NewPlace
  <2> QED
    BY <1>11, <2>1, <2>2
<1>23. o = cur /\ phase = "compile" /\ phase' = "compile" /\ used \subseteq used'
  BY <1>1, <1>2
<1> QED
  BY <1>3, <1>7, <1>13, <1>14, <1>19, <1>20, <1>21, <1>22, <1>23, PlainStep

CatchEnds(new, code, p, name) == code = Code \o Deletes(name) /\ new = Append(p, I("JMP"))

\* The instructions at the end of a catch block: DELETE, or none, and a jump.
LEMMA CatchEndCode ==
  ASSUME CodesOK, NEW name \in Nat, NEW at, NEW code, NEW t \in Nat, NEW p \in Seq(Instruction), Len(p) = Len(code), PatchedTo(p, code, at, t),
         NEW new, CatchEnds(new, code, p, name)
  PROVE  /\ PatchedTo(new, Code, at, t)
         /\ Len(Code) <= Len(code) /\ Len(new) = Len(code) + 1 /\ Len(code) \in Nat
         /\ new[Len(new)].op = "JMP" /\ new[Len(new)].arg = NoAddress
         /\ \A a \in DOMAIN new \ DOMAIN Code : Simple(new[a])
<1>1. /\ Code \in Seq(Instruction) /\ Len(Code) \in Nat /\ DOMAIN Code = 1 .. Len(Code)
  BY Offsets
<1>2. PICK more : more = Deletes(name)
  OBVIOUS
<1>3. more \in Seq(Instruction) /\ \A b \in DOMAIN more : more[b].op = "DELETE"
  <2>1. Ia("DELETE", name) \in Instruction /\ Ia("DELETE", name).op = "DELETE"
    BY InstructionTypes DEF Ops
  <2> QED
    BY <1>2, <2>1 DEF Deletes
<1>4. code \in Seq(Instruction) /\ Longer(code, Code, more)
  BY <1>1, <1>2, <1>3, EmittedCode DEF CatchEnds
<1>5. p \in Seq(Instruction) /\ Len(p) = Len(code) /\ PatchedTo(p, code, at, t)
  OBVIOUS
<1>6. I("JMP") \in Instruction /\ I("JMP").op = "JMP" /\ I("JMP").arg = NoAddress
  BY InstructionTypes DEF Ops, NoAddress
<1>7. /\ new \in Seq(Instruction) /\ Len(new) = Len(p) + 1 /\ DOMAIN new = 1 .. Len(p) + 1
      /\ \A a \in DOMAIN p : a \in DOMAIN new /\ new[a] = p[a]
  BY <1>5, <1>6, AppendedCode DEF CatchEnds
<1>8. /\ Len(Code) <= Len(code) /\ Len(code) \in Nat /\ DOMAIN code = 1 .. Len(code)
      /\ DOMAIN p = 1 .. Len(code)
  <2>1. Len(code) = Len(Code) + Len(more) /\ Len(more) \in Nat
    BY <1>3, <1>4 DEF Longer
  <2> QED
    BY <1>1, <1>4, <1>5, <2>1
<1>9. new[Len(new)] = I("JMP")
  BY <1>5, <1>6 DEF CatchEnds
<1>10. PatchedTo(new, Code, at, t)
  <2>1. \A a \in DOMAIN Code : a \in DOMAIN code /\ code[a] = Code[a]
    BY <1>4 DEF Longer
  <2>2. \A a \in DOMAIN code : a \in DOMAIN p
    BY <1>8
  <2> QED
    BY <1>5, <1>7, <2>1, <2>2 DEF PatchedTo
<1>11. ASSUME NEW a \in DOMAIN new \ DOMAIN Code PROVE Simple(new[a])
  <2>1. CASE a = Len(new)
    BY <1>6, <1>9, <2>1 DEF Simple
  <2>2. CASE a # Len(new)
    <3>1. a \in DOMAIN code /\ a \in DOMAIN p
      BY <1>5, <1>7, <1>8, <2>2
    <3>2. PICK b \in DOMAIN more : code[a] = more[b]
      BY <1>4, <1>11, <3>1 DEF Longer
    <3>3. new[a].op = "DELETE"
      BY <1>3, <1>5, <1>7, <3>1, <3>2 DEF PatchedTo
    <3> QED
      BY <3>3 DEF Simple, Jumps
  <2> QED
    BY <2>1, <2>2
<1> QED
  BY <1>4, <1>5, <1>6, <1>7, <1>8, <1>9, <1>10, <1>11

\* A catch block ends: the try statement will patch the jump over the others.
LEMMA EndCatchBlocks ==
  ASSUME CodeInv, BlockInv, EndCatch, Straight'
  PROVE  BlockInv'
<1>1. PICK at, name, code, t, p, new, o, n, m, e, ends, s, l :
        /\ at = {Enclosing.exit} /\ name = Enclosing.name
        /\ code = Code \o Deletes(name) /\ t = MismatchTarget(code)
        /\ p = Patched(code, at, t) /\ new = Append(p, I("JMP")) /\ o = cur
        /\ n = Len(open) /\ m = n - 1 /\ e = open[m] /\ ends = e.ends \cup {Len(code) + 1}
        /\ s = [e EXCEPT !.ends = ends] /\ l = Len(code)
  OBVIOUS
<1>2. /\ phase = "compile" /\ phase' = "compile" /\ used \subseteq used'
      /\ open # <<>> /\ Enclosing.kind = "catch"
      /\ SetCode(new) /\ cur' = cur /\ states' = states
      /\ open' = [Front(open) EXCEPT ![Len(open) - 1].ends = @ \cup {Len(code) + 1}]
  BY <1>1 DEF EndCatch, End, Inside
<1>3. Straight
  BY <1>2, StraightBefore
<1>4. /\ CodesOK /\ HeldOK /\ StatesOK /\ HomesHold /\ TryStatements /\ Len(Code) \in Nat
      /\ DOMAIN open = 1 .. n /\ n \in Nat /\ open \in Seq(OpenStatement)
      /\ Code \in Seq(Instruction) /\ DOMAIN Code = 1 .. Len(Code)
  BY <1>1, <1>2, <1>3, WhileCompiling DEF HeldOK
<1>5. n \in DOMAIN open /\ Enclosing = open[n] /\ open[n] \in OpenStatement /\ name \in Nat
  <2>1. n \in DOMAIN open /\ Enclosing = open[n]
    BY <1>1, <1>2, <1>4, EmptySeq DEF Enclosing
  <2>2. open[n] \in OpenStatement
    BY <1>4, <2>1
  <2>3. name = open[n].name
    BY <1>1, <2>1
  <2> QED
    BY <2>1, <2>2, <2>3 DEF OpenStatement
<1>6. /\ n > 1 /\ m \in DOMAIN open /\ m \in Nat /\ n = m + 1 /\ m # n /\ e.kind = "handlers"
      /\ Home(m) = o /\ Home(n) = o
  <2>1. n > 1 /\ open[n - 1].kind = "handlers" /\ Home(n - 1) = Home(n) /\ Home(n) = cur
    BY <1>1, <1>2, <1>4, <1>5 DEF HomesHold
  <2> QED
    BY <1>1, <1>4, <2>1
<1>7. /\ e \in OpenStatement /\ e.start \in Nat /\ e.first \in Nat /\ e.finally = NoAddress
      /\ e.start < e.first /\ e.first <= Len(Code) + 1
  <2>1. HoldsOK(e, cur) /\ e \in OpenStatement
    BY <1>1, <1>4, <1>6 DEF HomesHold
  <2> QED
    BY <1>6, <2>1 DEF HoldsOK, Tries, Code, OpenStatement
<1>8. t = l + 1 /\ t \in Nat /\ l \in Nat /\ Len(Code) <= l /\ code \in Seq(Instruction)
  <2>1. PICK d : d = Deletes(name)
    OBVIOUS
  <2>2. Ia("DELETE", name) \in Instruction
    BY <1>5, InstructionTypes DEF Ops
  <2>3. d \in Seq(Instruction)
    BY <2>1, <2>2 DEF Deletes
  <2>4. code = Code \o d
    BY <1>1, <2>1
  <2>5. code \in Seq(Instruction) /\ Len(Code) <= Len(code) /\ Len(code) \in Nat
    BY <1>4, <2>3, <2>4
  <2>6. t = Len(code) + 1 /\ l = Len(code)
    BY <1>1 DEF MismatchTarget
  <2> QED
    BY <2>5, <2>6
<1>9. /\ p \in Seq(Instruction) /\ Len(p) = Len(code)
      /\ PatchedTo(p, code, at, t) /\ PatchedTo(new, Code, at, t)
      /\ Len(new) = t /\ new[t].op = "JMP" /\ new[t].arg = NoAddress
      /\ \A a \in DOMAIN new \ DOMAIN Code : Simple(new[a])
  <2>1. p = Patched(code, at, t)
    BY <1>1
  <2>2. p \in Seq(Instruction) /\ Len(p) = Len(code) /\ PatchedTo(p, code, at, t)
    BY <1>8, <2>1, PatchedCode
  <2>3. CatchEnds(new, code, p, name)
    BY <1>1 DEF CatchEnds
  <2>4. /\ PatchedTo(new, Code, at, t) /\ Len(new) = Len(code) + 1
        /\ new[Len(new)].op = "JMP" /\ new[Len(new)].arg = NoAddress
        /\ \A a \in DOMAIN new \ DOMAIN Code : Simple(new[a])
    BY <1>4, <1>5, <1>8, <2>2, <2>3, CatchEndCode
  <2>5. Len(new) = t
    BY <1>1, <1>8, <2>4
  <2> QED
    BY <2>2, <2>4, <2>5
<1>10. Rewrites(new)
  BY <1>1, <1>2, <1>4, <1>5, <1>8, <1>9, EndCatchCode
<1>11. /\ codes' \in Seq(CodeObject) /\ DOMAIN codes' = DOMAIN codes /\ codes'[o].code = new
       /\ \A c \in DOMAIN codes \ {o} : codes'[c] = codes[c]
       /\ SameHandlers /\ o \in DOMAIN codes
  BY <1>1, <1>4, <1>10, SetCodeGrows DEF CodesOK
<1>12. Writes(new, o) /\ codes'[o].handlers = codes[o].handlers /\ new \in Seq(Instruction)
       /\ Len(Code) <= Len(new) /\ DOMAIN new = 1 .. t
  BY <1>9, <1>10, <1>11 DEF Writes, SameHandlers, Rewrites
<1>13. /\ s \in OpenStatement /\ s.ends = ends
       /\ s.kind = e.kind /\ s.start = e.start /\ s.exit = e.exit /\ s.first = e.first
       /\ s.finally = e.finally
  <2>1. ends \in SUBSET Nat
    BY <1>1, <1>7, <1>8 DEF OpenStatement
  <2>2. s = [e EXCEPT !.ends = ends]
    BY <1>1
  <2> QED
    BY <1>7, <2>1, <2>2 DEF OpenStatement
<1>14. /\ open' \in Seq(OpenStatement) /\ Len(open') = m /\ DOMAIN open' = 1 .. m
       /\ open'[m] = s /\ m \in 1 .. m
       /\ \A k \in 1 .. m : k # m => open'[k] = open[k]
  <2>1. PICK f : f = Front(open)
    OBVIOUS
  <2>2. /\ f \in Seq(OpenStatement) /\ Len(f) = n - 1
        /\ \A k \in 1 .. n - 1 : f[k] = open[k]
    BY <1>1, <1>2, <1>4, <2>1, Fronts
  <2>3. m \in 1 .. m /\ DOMAIN f = 1 .. m /\ f[m] = e
    <3>1. m = n - 1 /\ e = open[m]
      BY <1>1
    <3>2. m \in 1 .. m
      BY <1>6
    <3> QED
      BY <2>2, <3>1, <3>2
  <2>4. open' = [f EXCEPT ![m] = s]
    BY <1>1, <1>2, <2>1, <2>3
  <2> QED
    BY <1>1, <1>13, <2>2, <2>3, <2>4
<1>15. /\ \A k \in DOMAIN open' : k \in DOMAIN open /\ k # n
       /\ \A k \in DOMAIN open : k = n \/ k \in DOMAIN open'
       /\ \A k \in DOMAIN open' :
            /\ open'[k].kind = open[k].kind /\ open'[k].start = open[k].start
            /\ open'[k].exit = open[k].exit
            /\ open'[k].first = open[k].first /\ open'[k].finally = open[k].finally
            /\ k # m => open'[k] = open[k]
  <2>1. /\ \A k \in 1 .. m : k \in 1 .. n /\ k # n
        /\ \A k \in 1 .. n : k = n \/ k \in 1 .. m
    BY <1>6
  <2> QED
    BY <1>1, <1>4, <1>13, <1>14, <2>1
<1>16. Reshapes
  <2>1. m = n - 1 /\ m # n + 1
    BY <1>6
  <2>2. \A k \in DOMAIN open : k \in DOMAIN open' => SameFunction(open[k], open'[k])
    BY <1>15 DEF SameFunction
  <2>3. open[Len(open)].kind # "function"
    BY <1>1, <1>2, <1>5
  <2> QED
    BY <1>1, <1>2, <1>4, <1>14, <2>1, <2>2, <2>3 DEF Reshapes
<1>17. \A k : TryKept(k)
  <2>1. open[n].kind \notin Tries
    BY <1>2, <1>5 DEF Tries
  <2>2. \A k : Opens(k)' <=> Opens(k)
    BY <1>15, <2>1 DEF Opens
  <2> QED
    BY <1>15, <2>2 DEF TryKept, Opens, Span
<1>18. \A k \in OpenTries(o) : k \in DOMAIN open' /\ k < n
  <2>1. \A k \in OpenTries(o) : k \in 1 .. n /\ k # n
    BY <1>2, <1>4, <1>5 DEF OpenTries, Tries
  <2> QED
    BY <1>4, <1>15, <2>1
<1>19. \A x \in at : x # NoAddress => Here(x) /\ Code[x].op \in Jumps
  <2>1. \A x \in at : x # NoAddress => IsPlace(n, x) /\ Patches(n, x)
    BY <1>1, <1>5 DEF IsPlace, Patches
  <2> QED
    BY <1>1, <1>2, <1>3, <1>5, <1>6, <1>18, <2>1, PlacedHere
<1>20. ExtendedOK(new, o)
  <2>1. ASSUME NEW a \in DOMAIN Code
        PROVE  /\ new[a].op = Code[a].op
               /\ new[a].arg = Code[a].arg \/ (Code[a].op \in Jumps /\ TargetOK(new, Spans(o), a))
    <3>1. new[a].op = Code[a].op /\ new[a].arg = IF a \in at THEN t ELSE Code[a].arg
      BY <1>9 DEF PatchedTo
    <3>2. CASE a \notin at
      BY <3>1, <3>2
    <3>3. CASE a \in at
      <4>1. a # NoAddress
        BY <1>4, <2>1 DEF NoAddress
      <4>2. Here(a) /\ Code[a].op \in Jumps
        BY <1>19, <3>3, <4>1
      <4>3. a \in 1 .. Len(new) /\ new[a].arg = t /\ t \in 1 .. Len(new) + 1 /\ Len(Code) < t
        BY <1>4, <1>8, <1>9, <3>1, <3>3
      <4>4. TargetOK(new, Spans(o), a)
        BY <1>1, <1>2, <1>3, <1>12, <4>2, <4>3, JumpHere
      <4> QED
        BY <3>1, <4>2, <4>4
    <3> QED
      BY <3>2, <3>3
  <2>2. \A a \in DOMAIN new \ DOMAIN Code :
          InstructionOK(new, HandlersIn(o), Spans(o), DOMAIN codes, a)
    BY <1>9, Simples
  <2> QED
    BY <1>12, <2>1, <2>2 DEF ExtendedOK
<1>21. TryStatements'
  <2>1. ASSUME NEW k \in DOMAIN open', k > 1, open'[k - 1].kind = "handlers"
        PROVE  open'[k].kind = "catch"
    <3>1. k - 1 \in DOMAIN open'
      BY <1>6, <1>14, <2>1
    <3> QED
      BY <1>4, <1>15, <2>1, <3>1 DEF TryStatements
  <2>2. ASSUME NEW k \in DOMAIN open', open'[k].kind = "try" PROVE open'[k].first = NoAddress
    BY <1>4, <1>15, <2>2 DEF TryStatements
  <2> QED
    BY <2>1, <2>2 DEF TryStatements
<1>22. BetweenBlocks'
  <2>1. Code' = new /\ Offset' = t + 1
    <3>1. Code' = new
      BY <1>1, <1>2, <1>11 DEF Code
    <3> QED
      BY <1>9, <3>1 DEF Offset
  <2>2. JumpBefore(new, t + 1)
    <3>1. (t + 1) - 1 = t /\ t \in DOMAIN new
      BY <1>8, <1>12
    <3> QED
      BY <1>9, <3>1 DEF JumpBefore
  <2>3. ASSUME NEW a \in DOMAIN new, new[a].op \in Jumps PROVE new[a].arg # t + 1
    <3>1. CASE a \in DOMAIN Code
      <4>1. new[a].op = Code[a].op /\ (new[a].arg = t \/ new[a].arg = Code[a].arg)
        BY <1>9, <3>1 DEF PatchedTo
      <4>2. Code[a].arg <= Len(Code) + 1 /\ Code[a].arg \in Nat
        BY <1>2, <1>3, <2>3, <3>1, <4>1, CodeSoFar
      <4> QED
        BY <1>4, <1>8, <4>1, <4>2
    <3>2. CASE a \notin DOMAIN Code
      <4>1. new[a].arg = NoAddress
        BY <1>9, <2>3, <3>2 DEF Simple
      <4> QED
        BY <1>8, <4>1 DEF NoAddress
    <3> QED
      BY <3>1, <3>2
  <2> QED
    BY <2>1, <2>2, <2>3 DEF BetweenBlocks
<1>23. ASSUME NEW k \in DOMAIN open', NEW x, IsPlace(k, x)'
       PROVE  KeptPlace(k, x) \/ NewPlace(new, o, k, x)
  <2>1. (k # m \/ x # t) /\ Patches(k, x)' => Patches(k, x)
    <3>3. open'[m].ends = e.ends \cup {t} /\ e = open[m]
      BY <1>1, <1>8, <1>13, <1>14
    <3>1. open'[k].exit = open[k].exit
      BY <1>15
    <3>2. (k # m \/ x # t) /\ x \in open'[k].ends => x \in open[k].ends
      BY <1>15, <3>3
    <3> QED
      BY <1>2, <3>1, <3>2 DEF Patches
  <2>2. CASE k # m \/ x # t
    <3>1. IsPlace(k, x)
      BY <1>15, <1>23, <2>1, <2>2 DEF IsPlace
    <3> QED
      BY <1>15, <2>1, <2>2, <3>1 DEF KeptPlace
  <2>3. CASE k = m /\ x = t
    <3>1. x \in DOMAIN new \ DOMAIN Code /\ new[x].op \in Jumps
      BY <1>4, <1>8, <1>9, <1>12, <2>3 DEF Jumps
    <3>2. Home(k)' = o
      <4>1. HomesKept
        BY <1>16, ReshapedHomes
      <4> QED
        BY <1>1, <1>2, <1>14, <2>3, <4>1 DEF HomesKept, Home
    <3>3. \A i \in OpenTries(o) \ {k} : i < k
      <4>1. \A i \in OpenTries(o) : i \in 1 .. m
        BY <1>14, <1>18
      <4> QED
        BY <1>6, <2>3, <4>1
    <3>4. Part(Span(open'[k]), x) = 2
      <4>1. PICK r : r = Span(open'[k])
        OBVIOUS
      <4>2. r.start = e.start /\ r.first = e.first /\ r.finally = NoAddress /\ r.end = NoAddress
        BY <1>7, <1>13, <1>14, <2>3, <4>1 DEF Span
      <4>3. ~(t <= e.start) /\ ~(t < e.first) /\ e.first # NoAddress
        BY <1>4, <1>7, <1>8 DEF NoAddress
      <4>4. Part(r, t) = 2
        BY <4>2, <4>3 DEF Part
      <4> QED
        BY <2>3, <4>1, <4>4
    <3> QED
      BY <3>1, <3>2, <3>3, <3>4 DEF NewPlace
  <2> QED
    BY <2>2, <2>3
<1>24. o = cur /\ phase = "compile" /\ phase' = "compile" /\ used \subseteq used'
  BY <1>1, <1>2
<1> QED
  BY <1>3, <1>12, <1>16, <1>17, <1>20, <1>21, <1>22, <1>23, <1>24, PlainStep

-----------------------------------------------------------------------------
(* Functions and the program. *)

\* Instructions are appended to code object c, perhaps none.
GrowsBy(c) ==
  /\ codes'[c].handlers = codes[c].handlers /\ codes'[c].code \in Seq(Instruction)
  /\ Len(codes[c].code) <= Len(codes'[c].code)
  /\ \A a \in DOMAIN codes[c].code : codes'[c].code[a] = codes[c].code[a]
  /\ \A a \in DOMAIN codes'[c].code \ DOMAIN codes[c].code :
       InstructionOK(codes'[c].code, HandlersIn(c), Spans(c), DOMAIN codes', a)

\* Its code is as good as before.
LEMMA CarryCode ==
  ASSUME CodesOK, NEW c \in DOMAIN codes, CodeGood(c), SameTries(c), GrowsBy(c),
         DOMAIN codes \subseteq DOMAIN codes'
  PROVE  CodeGood(c)' /\ Spans(c)' = Spans(c) /\ HandlersIn(c)' = HandlersIn(c)
<1>1. PICK code, new, H, S, D, D2 :
        /\ code = codes[c].code /\ new = codes'[c].code /\ H = HandlersIn(c) /\ S = Spans(c)
        /\ D = DOMAIN codes /\ D2 = DOMAIN codes'
  OBVIOUS
<1>2. Spans(c)' = S /\ HandlersIn(c)' = H
  BY <1>1, SameSpans DEF GrowsBy
<1>3. GoodCode(code, H, S, D) /\ code \in Seq(Instruction) /\ D \subseteq D2
  BY <1>1, CodeObjects DEF CodeGood
<1>4. /\ new \in Seq(Instruction) /\ Len(code) <= Len(new)
      /\ \A a \in DOMAIN code :
           /\ new[a].op = code[a].op
           /\ new[a].arg = code[a].arg \/ (code[a].op \in Jumps /\ TargetOK(new, S, a))
      /\ \A a \in DOMAIN new \ DOMAIN code : InstructionOK(new, H, S, D2, a)
  BY <1>1 DEF GrowsBy
<1>5. GoodCode(new, H, S, D2)
  BY <1>3, <1>4, GrownGood
<1> QED
  BY <1>1, <1>2, <1>5 DEF CodeGood

\* The addresses that its statements remember are in the same blocks.
LEMMA CarryPlace ==
  ASSUME CodesOK, NEW c \in DOMAIN codes, SameTries(c), GrowsBy(c),
         \A r \in Spans(c) : SpanOK(r, NextIn(c)),
         NEW j, NEW x, PlaceIn(c, j, x), Patches(j, x)' => Patches(j, x),
         Patches(j, x)' /\ open'[j].kind \in Tries => open[j].kind \in Tries /\ j \in OpenTries(c)
  PROVE  PlaceIn(c, j, x)'
<1>1. PICK n, m : n = NextIn(c) /\ m = NextIn(c)'
  OBVIOUS
<1>2. n \in Nat /\ m \in Nat /\ n <= m
  <2>1. Len(codes[c].code) \in Nat
    BY CodeObjects
  <2>2. Len(codes'[c].code) \in Nat /\ Len(codes[c].code) <= Len(codes'[c].code)
    BY DEF GrowsBy
  <2> QED
    BY <1>1, <2>1, <2>2 DEF NextIn
<1>3. HandlersIn(c)' = HandlersIn(c)
  BY DEF GrowsBy, HandlersIn
<1>4. \A k \in OpenTries(c) : Span(open[k]) \in Spans(c) /\ Span(open'[k]) = Span(open[k])
  BY DEF Spans, SameTries
<1>5. \A r \in Spans(c) : Part(r, m) = Part(r, n)
  BY <1>1, <1>2, Beyond
<1>6. x \in DOMAIN codes'[c].code /\ (Patches(j, x)' => codes'[c].code[x].op \in Jumps)
  <2>1. x \in DOMAIN codes[c].code /\ (Patches(j, x)' => codes[c].code[x].op \in Jumps)
    BY DEF PlaceIn
  <2>2. codes'[c].code[x] = codes[c].code[x]
    BY <2>1 DEF GrowsBy
  <2>3. x \in DOMAIN codes'[c].code
    <3>1. /\ DOMAIN codes[c].code = 1 .. Len(codes[c].code) /\ Len(codes[c].code) \in Nat
          /\ DOMAIN codes'[c].code = 1 .. Len(codes'[c].code) /\ Len(codes'[c].code) \in Nat
          /\ Len(codes[c].code) <= Len(codes'[c].code)
      BY CodeObjects DEF GrowsBy
    <3> QED
      BY <2>1, <3>1
  <2> QED
    BY <2>1, <2>2, <2>3
<1>7. ASSUME NEW k \in OpenTries(c)' \ {j}
      PROVE  Part(Span(open'[k]), x) = IF k < j THEN Part(Span(open'[k]), m) ELSE 0
  <2>1. k \in OpenTries(c) \ {j} /\ Span(open'[k]) = Span(open[k]) /\ Span(open[k]) \in Spans(c)
    BY <1>4 DEF SameTries
  <2>2. Part(Span(open[k]), m) = Part(Span(open[k]), n)
    BY <1>5, <2>1
  <2>3. Part(Span(open[k]), x) = IF k < j THEN Part(Span(open[k]), n) ELSE 0
    BY <1>1, <2>1 DEF PlaceIn
  <2> QED
    BY <2>1, <2>2, <2>3
<1>8. ASSUME Patches(j, x)', open'[j].kind \in Tries PROVE Part(Span(open'[j]), x) \in {1, 2}
  <2>1. Patches(j, x) /\ open[j].kind \in Tries /\ j \in OpenTries(c)
    BY <1>8
  <2>2. Part(Span(open[j]), x) \in {1, 2}
    BY <2>1 DEF PlaceIn
  <2> QED
    BY <1>4, <2>1, <2>2
<1>9. \A h \in HandlersIn(c)' : Part(h, x) = 0
  BY <1>3 DEF PlaceIn
<1> QED
  BY <1>1, <1>6, <1>7, <1>8, <1>9 DEF PlaceIn

\* A function begins or ends: the try statements stay.
LEMMA FunctionStep ==
  ASSUME CodeInv, BlockInv, Straight, phase = "compile", phase' = "compile", used \subseteq used',
         HomesStay, open \in Seq(OpenStatement), open' \in Seq(OpenStatement),
         DOMAIN codes \subseteq DOMAIN codes',
         \A c \in DOMAIN codes : GrowsBy(c),
         \A c \in DOMAIN codes' \ DOMAIN codes : codes'[c] = EmptyCode,
         \A k : TryKept(k),
         HomesApart', TryStatements', BetweenBlocks',
         \A c \in DOMAIN codes' : Lives(c)' \/ EndsInReturn(codes'[c].code),
         \A j \in DOMAIN open' : \A x : IsPlace(j, x)' => KeptPlace(j, x)
  PROVE  BlockInv'
<1>1. /\ HomesHold /\ CodesOK
      /\ \A j \in DOMAIN open : \A x : IsPlace(j, x) => PlaceOK(j, x)
      /\ \A c \in DOMAIN codes :
           /\ CodeGood(c)
           /\ "tryInFinally" \notin used => FreeFinally(Spans(c))
           /\ \A r \in Spans(c) : SpanOK(r, NextIn(c))
      /\ DOMAIN open = 1 .. Len(open) /\ Len(open) \in Nat
  BY WhileCompiling
<1>2. \A c \in DOMAIN codes : SameTries(c)
  BY KeptTries
<1>3. \A c \in DOMAIN codes : CodeGood(c)' /\ Spans(c)' = Spans(c)
  BY <1>1, <1>2, CarryCode
<1>4. /\ \A k \in DOMAIN open : k \in 0 .. Len(open)
      /\ \A k \in DOMAIN open' : k \in 0 .. Len(open')
  BY <1>1
<1>5. ASSUME NEW c \in DOMAIN codes' \ DOMAIN codes PROVE CodeGood(c)' /\ Spans(c)' = {}
  <2>1. OpenTries(c)' = {}
    <3> SUFFICES ASSUME NEW k \in OpenTries(c)' PROVE FALSE
      OBVIOUS
    <3>1. k \in DOMAIN open' /\ open'[k].kind \in Tries /\ Home(k)' = c
      BY DEF OpenTries
    <3>2. Opens(k)
      BY <3>1 DEF Opens, TryKept
    <3>3. k \in 0 .. Len(open) /\ k \in 0 .. Len(open')
      BY <1>4, <3>1, <3>2 DEF Opens
    <3>4. Home(k)' = Home(k) /\ Home(k) \in DOMAIN codes
      BY <1>1, <3>3 DEF HomesStay, HomesHold
    <3> QED
      BY <3>1, <3>4
  <2>2. codes'[c].code = <<>> /\ codes'[c].handlers = <<>>
    BY DEF EmptyCode
  <2>3. HandlersIn(c)' = {}
    BY <2>2 DEF HandlersIn, Range
  <2>4. Spans(c)' = {}
    BY <2>1, <2>3 DEF Spans
  <2>5. GoodCode(<<>>, {}, {}, DOMAIN codes')
    BY DEF GoodCode, NotStraddling, BlocksEnd
  <2> QED
    BY <2>2, <2>3, <2>4, <2>5 DEF CodeGood
<1>6. \A c \in DOMAIN codes' : CodeGood(c)' /\ ("tryInFinally" \notin used' => FreeFinally(Spans(c)'))
  <2>1. FreeFinally({})
    BY DEF FreeFinally
  <2> QED
    BY <1>1, <1>3, <1>5, <2>1
<1>7. ASSUME NEW j \in DOMAIN open', NEW x, IsPlace(j, x)' PROVE PlaceOK(j, x)'
  <2>1. KeptPlace(j, x)
    BY <1>7
  <2>2. PICK c : c = Home(j)
    OBVIOUS
  <2>3. j \in DOMAIN open /\ IsPlace(j, x) /\ PlaceIn(c, j, x)
    BY <1>1, <2>1, <2>2 DEF KeptPlace, PlaceOK
  <2>4. Home(j)' = c /\ c \in DOMAIN codes
    BY <1>1, <1>4, <2>2, <2>3 DEF HomesStay, HomesHold
  <2>5. Patches(j, x)' => Patches(j, x)
    BY <2>1 DEF KeptPlace
  <2>6. open'[j].kind \in Tries => open[j].kind \in Tries /\ j \in OpenTries(c)
    BY <2>1, <2>2, <2>3 DEF KeptPlace, OpenTries
  <2>7. PlaceIn(c, j, x)'
    BY <1>1, <1>2, <2>3, <2>4, <2>5, <2>6, CarryPlace
  <2> QED
    BY <2>4, <2>7 DEF PlaceOK
<1>8. BlocksSoFar'
  BY <1>7 DEF BlocksSoFar
<1> QED
  BY <1>6, <1>8 DEF BlockInv

\* A code object that the step leaves as it is.
LEMMA SameGrows ==
  ASSUME CodesOK, NEW c \in DOMAIN codes, codes'[c] = codes[c]
  PROVE  GrowsBy(c)
<1>1. codes[c].code \in Seq(Instruction) /\ Len(codes[c].code) \in Nat
  BY CodeObjects
<1> QED
  BY <1>1 DEF GrowsBy

\* A function begins, in a new code object.
LEMMA BeginFunctionBlocks ==
  ASSUME CodeInv, BlockInv, BeginFunction, Straight'
  PROVE  BlockInv'
<1>1. PICK s, o, n, c : /\ s = Statement("function", cur, NoAddress) /\ o = cur' /\ n = Len(open)
                        /\ c = cur
  OBVIOUS
<1>2. /\ phase = "compile" /\ phase' = "compile" /\ used \subseteq used' /\ InBlock
      /\ codes' = Append(codes, EmptyCode) /\ o = Len(codes) + 1
      /\ Push(s) /\ states' = Append(states, State("FUNCTION", NoAddress, n + 1))
  BY <1>1 DEF BeginFunction, BeginCompound, BeginPlain, Begin, Using
<1>3. Straight
  BY <1>2, StraightBefore
<1>4. /\ CodesOK /\ HeldOK /\ StatesOK /\ HomesHold /\ HomesApart /\ TryStatements
      /\ DOMAIN open = 1 .. n /\ n \in Nat /\ open \in Seq(OpenStatement)
      /\ codes \in Seq(CodeObject) /\ c \in DOMAIN codes /\ c \in Nat
      /\ \A d \in DOMAIN codes : Lives(d) \/ EndsInReturn(codes[d].code)
  BY <1>1, <1>2, <1>3, WhileCompiling DEF HeldOK, CodesOK
<1>5. EmptyCode \in CodeObject
  BY DEF EmptyCode, CodeObject
<1>6. /\ DOMAIN codes' = DOMAIN codes \cup {o} /\ o \notin DOMAIN codes /\ codes'[o] = EmptyCode
      /\ \A d \in DOMAIN codes : codes'[d] = codes[d]
  BY <1>2, <1>4, <1>5
<1>7. /\ s \in OpenStatement /\ s.kind = "function" /\ s.start = c /\ s.exit = NoAddress
      /\ s.ends = {}
  <2>1. "function" \in StatementKinds /\ NoAddress \in Nat
    BY DEF StatementKinds, NoAddress
  <2> QED
    BY <1>1, <1>4, <2>1, StatementType
<1>8. PICK m : m = n + 1
  OBVIOUS
<1>9. /\ open' \in Seq(OpenStatement) /\ Len(open') = m /\ DOMAIN open' = 1 .. m
      /\ open'[m] = s /\ m \in Nat /\ m \notin DOMAIN open /\ m = n + 1
      /\ \A k \in DOMAIN open : open'[k] = open[k]
  <2>1. /\ open' \in Seq(OpenStatement) /\ Len(open') = Len(open) + 1
        /\ DOMAIN open' = 1 .. Len(open) + 1 /\ open'[Len(open) + 1] = s
        /\ \A k \in DOMAIN open : open'[k] = open[k]
    BY <1>2, <1>4, <1>7, PushOpens
  <2>2. m \in Nat /\ m \notin DOMAIN open
    BY <1>4, <1>8
  <2> QED
    BY <1>1, <1>8, <2>1, <2>2
<1>10. \A k \in DOMAIN open' : k \in DOMAIN open \/ k = m
  BY <1>4, <1>9
<1>11. \A k \in DOMAIN open : k \in DOMAIN open'
  BY <1>4, <1>9
<1>12. /\ \A k \in 0 .. n : Home(k)' = Home(k)
       /\ Home(m)' = o
  <2>1. PICK o1, o2 : o1 = open /\ o2 = open'
    OBVIOUS
  <2>2. Pushed(o2, o1, n)
    BY <1>1, <1>4, <1>9, <2>1 DEF Pushed, SameFunction
  <2>3. o2[n + 1].kind = "function" /\ o2[n + 1].start = c
    BY <1>7, <1>9, <2>1
  <2>4. \A k \in 0 .. n : HomeIn(o2, o, k) = HomeIn(o1, c, k)
    BY <2>2, <2>3, HomePush
  <2>5. HomeIn(o2, o, m) = o
    BY <1>9, <2>1, HomeLast
  <2> QED
    BY <1>1, <2>1, <2>4, <2>5 DEF Home
<1>13. HomesStay
  BY <1>1, <1>12 DEF HomesStay
<1>14. \A k : TryKept(k)
  <2>1. s.kind \notin Tries
    BY <1>7 DEF Tries
  <2> QED
    BY <1>9, <1>10, <1>11, <2>1 DEF TryKept, Opens
<1>15. \A d \in DOMAIN codes : GrowsBy(d)
  BY <1>4, <1>6, SameGrows
<1>16. ASSUME NEW j \in 0 .. m, NEW k \in 0 .. m, j < k, Home(j)' = Home(k)', NEW i \in j + 1 .. k
       PROVE  open'[i].kind # "function"
  <2>1. CASE k = m
    <3>1. j \in 0 .. n
      <4>1. j \in 0 .. m /\ j < m
        BY <1>16, <2>1
      <4>2. n \in Nat /\ m = n + 1
        BY <1>4, <1>8
      <4> QED
        BY <4>1, <4>2
    <3>2. Home(j)' \in DOMAIN codes /\ Home(k)' = o
      BY <1>1, <1>4, <1>12, <2>1, <3>1 DEF HomesHold
    <3> QED
      BY <1>6, <1>16, <3>2
  <2>2. CASE k # m
    <3>1. k \in 0 .. n /\ j \in 0 .. n /\ i \in DOMAIN open
      BY <1>4, <1>9, <1>16, <2>2
    <3>2. Home(j) = Home(k)
      BY <1>12, <1>16, <3>1
    <3>3. open[i].kind # "function"
      BY <1>1, <1>4, <1>16, <3>1, <3>2 DEF HomesApart
    <3> QED
      BY <1>9, <3>1, <3>3
  <2> QED
    BY <2>1, <2>2
<1>17. HomesApart'
  BY <1>9, <1>16 DEF HomesApart
<1>18. TryStatements'
  <2>1. ASSUME NEW k \in DOMAIN open', k > 1, open'[k - 1].kind = "handlers"
        PROVE  open'[k].kind = "catch"
    <3>1. CASE k \in DOMAIN open
      <4>1. k - 1 \in DOMAIN open
        BY <1>4, <2>1, <3>1
      <4> QED
        BY <1>4, <1>9, <2>1, <3>1, <4>1 DEF TryStatements
    <3>2. CASE k = m
      <4>1. n \in DOMAIN open /\ k - 1 = n
        BY <1>4, <1>9, <2>1, <3>2
      <4>2. open[n].kind = "handlers"
        BY <1>9, <2>1, <4>1
      <4>3. Inside("handlers")
        BY <1>1, <1>4, <4>1, <4>2, EmptySeq DEF Inside, Enclosing
      <4> QED
        BY <1>2, <4>3 DEF InBlock
    <3> QED
      BY <1>10, <2>1, <3>1, <3>2
  <2>2. ASSUME NEW k \in DOMAIN open', open'[k].kind = "try" PROVE open'[k].first = NoAddress
    <3>1. k # m
      BY <1>7, <1>9, <2>2
    <3> QED
      BY <1>4, <1>9, <1>10, <2>2, <3>1 DEF TryStatements
  <2> QED
    BY <2>1, <2>2 DEF TryStatements
<1>19. BetweenBlocks'
  BY <1>7, <1>9 DEF BetweenBlocks, Inside, Enclosing
<1>20. ASSUME NEW d \in DOMAIN codes' PROVE Lives(d)' \/ EndsInReturn(codes'[d].code)
  <2>1. CASE d = o
    <3>1. m \in 0 .. Len(open')
      BY <1>9
    <3> QED
      BY <1>2, <1>12, <2>1, <3>1 DEF Lives
  <2>2. CASE d \in DOMAIN codes
    <3>1. Lives(d) => Lives(d)'
      <4> SUFFICES ASSUME Lives(d) PROVE Lives(d)'
        OBVIOUS
      <4>1. PICK k \in 0 .. n : Home(k) = d
        BY <1>1 DEF Lives
      <4>2. k \in 0 .. Len(open')
        <5>1. n \in Nat /\ m = n + 1 /\ Len(open') = m
          BY <1>4, <1>9
        <5> QED
          BY <5>1
      <4>3. Home(k)' = d
        BY <1>12, <4>1
      <4> QED
        BY <1>2, <4>2, <4>3 DEF Lives
    <3> QED
      BY <1>4, <1>6, <2>2, <3>1
  <2> QED
    BY <1>6, <2>1, <2>2
<1>21. states \in Seq(StackState) /\ DOMAIN states = 1 .. Len(states) /\ Len(states) \in Nat
  BY <1>4, HeldTypes DEF HeldOK
<1>22. \A k, x : (\E i \in DOMAIN states' : states'[i].depth = k /\ x \in states'[i].ends) =>
               \E i \in DOMAIN states : states[i].depth = k /\ x \in states[i].ends
  <2>1. PICK q : q = State("FUNCTION", NoAddress, m)
    OBVIOUS
  <2>2. q \in StackState /\ q.ends = {}
    BY <1>9, <2>1 DEF State, StackState, NoAddress
  <2>3. states' = Append(states, q)
    BY <1>2, <1>8, <2>1
  <2>4. /\ \A i \in DOMAIN states' : i \in DOMAIN states \/ i = Len(states) + 1
        /\ \A i \in DOMAIN states : states'[i] = states[i]
        /\ states'[Len(states) + 1] = q
    BY <1>21, <2>2, <2>3
  <2> QED
    BY <2>2, <2>4
<1>23. ASSUME NEW j \in DOMAIN open', NEW x, IsPlace(j, x)' PROVE KeptPlace(j, x)
  <2>1. CASE j \in DOMAIN open
    <3>1. open'[j] = open[j]
      BY <1>9, <2>1
    <3>2. Patches(j, x)' => Patches(j, x)
      BY <1>22, <3>1 DEF Patches
    <3> QED
      BY <1>23, <2>1, <3>1, <3>2 DEF KeptPlace, IsPlace
  <2>2. CASE j = m
    <3>1. ~\E i \in DOMAIN states : states[i].depth = j /\ x \in states[i].ends
      BY <1>4, <1>9, <2>2 DEF StatesOK
    <3>2. ~Patches(j, x)'
      BY <1>7, <1>9, <1>22, <2>2, <3>1 DEF Patches
    <3>3. open'[j].kind \notin Loops \cup Tries
      BY <1>7, <1>9, <2>2 DEF Loops, Tries
    <3> QED
      BY <1>23, <3>2, <3>3 DEF IsPlace
  <2> QED
    BY <1>10, <2>1, <2>2
<1>24. DOMAIN codes \subseteq DOMAIN codes' /\ \A d \in DOMAIN codes' \ DOMAIN codes : codes'[d] = EmptyCode
  BY <1>6
<1>25. phase = "compile" /\ phase' = "compile" /\ used \subseteq used'
       /\ open \in Seq(OpenStatement) /\ open' \in Seq(OpenStatement)
  BY <1>2, <1>4, <1>9
<1> QED
  BY <1>3, <1>13, <1>14, <1>15, <1>17, <1>18, <1>19, <1>20, <1>23, <1>24, <1>25, FunctionStep

\* A code object with more instructions, each one in order.
LEMMA LongerGrows ==
  ASSUME CodesOK, NEW c \in DOMAIN codes, NEW more \in Seq(Instruction),
         codes'[c].code = codes[c].code \o more, codes'[c].handlers = codes[c].handlers,
         \A b \in DOMAIN more :
           InstructionOK(codes'[c].code, HandlersIn(c), Spans(c), DOMAIN codes', Len(codes[c].code) + b)
  PROVE  GrowsBy(c)
<1>1. PICK code, new, k : code = codes[c].code /\ new = codes'[c].code /\ k = Len(codes[c].code)
  OBVIOUS
<1>2. code \in Seq(Instruction) /\ k = Len(code) /\ k \in Nat /\ new = code \o more
  BY <1>1, CodeObjects
<1>3. new \in Seq(Instruction) /\ Longer(new, code, more)
  BY <1>2, EmittedCode
<1>4. k <= Len(new) /\ \A a \in DOMAIN code : new[a] = code[a]
  <2>1. Len(new) = k + Len(more) /\ Len(more) \in Nat /\ \A a \in DOMAIN code : new[a] = code[a]
    BY <1>2, <1>3 DEF Longer
  <2> QED
    BY <1>2, <2>1
<1>5. ASSUME NEW a \in DOMAIN new \ DOMAIN code
      PROVE  InstructionOK(new, HandlersIn(c), Spans(c), DOMAIN codes', a)
  <2>1. PICK b \in DOMAIN more : a = Len(code) + b
    BY <1>3, <1>5 DEF Longer
  <2>2. a = k + b
    BY <1>2, <2>1
  <2> QED
    BY <1>1, <2>2
<1> QED
  BY <1>1, <1>2, <1>3, <1>4, <1>5 DEF GrowsBy

\* Nothing after the last block of a try statement is in it.
LEMMA AfterHandlers ==
  ASSUME CodesOK, HandlersStart, HandlersOrdered, NEW c \in DOMAIN codes, OpenTries(c) = {},
         NEW x \in Nat, Len(codes[c].code) < x
  PROVE  \A r \in Spans(c) : Part(r, x) = 0
<1>1. PICK n : n = NextIn(c)
  OBVIOUS
<1>2. n \in Nat /\ n <= x
  <2>1. Len(codes[c].code) \in Nat
    BY CodeObjects
  <2> QED
    BY <1>1, <2>1 DEF NextIn
<1>3. \A r \in Spans(c) : SpanOK(r, n) /\ r.end # NoAddress
  BY <1>1, HandlersSpan DEF Spans
<1> QED
  BY <1>2, <1>3, Beyond

\* The last statement of a program or a function makes code that returns.
LEMMA Returning ==
  ASSUME CodesOK, HandlersStart, HandlersOrdered, NEW c \in DOMAIN codes, OpenTries(c) = {},
         NEW op \in {"LOAD_CONST", "EVAL"},
         codes'[c].code = codes[c].code \o <<I(op), I("RETURN")>>,
         codes'[c].handlers = codes[c].handlers
  PROVE  GrowsBy(c) /\ EndsInReturn(codes'[c].code)
<1>1. PICK more, new, k :
        /\ more = <<I(op), I("RETURN")>> /\ new = codes'[c].code /\ k = Len(codes[c].code)
  OBVIOUS
<1>2. more \in Seq(Instruction) /\ DOMAIN more = {1, 2} /\ Len(more) = 2
      /\ Simple(more[1]) /\ more[2].op = "RETURN"
  BY <1>1, InstructionTypes, Simples DEF Ops
<1>3. k \in Nat /\ codes[c].code \in Seq(Instruction) /\ new = codes[c].code \o more
  BY <1>1, CodeObjects
<1>4. Longer(new, codes[c].code, more)
  BY <1>2, <1>3, EmittedCode
<1>5. Len(new) = k + 2 /\ new[k + 1] = more[1] /\ new[k + 2] = more[2]
  BY <1>1, <1>2, <1>4 DEF Longer
<1>6. \A r \in Spans(c) : Part(r, k + 2) = 0
  <2>1. PICK x : x = k + 2
    OBVIOUS
  <2>2. x \in Nat /\ Len(codes[c].code) < x
    BY <1>1, <1>3, <2>1
  <2> QED
    BY <2>1, <2>2, AfterHandlers
<1>7. ASSUME NEW b \in DOMAIN more
      PROVE  InstructionOK(new, HandlersIn(c), Spans(c), DOMAIN codes', k + b)
  <2>1. InstructionOK(new, HandlersIn(c), Spans(c), DOMAIN codes', k + 1)
    BY <1>2, <1>5, Simples
  <2>2. InstructionOK(new, HandlersIn(c), Spans(c), DOMAIN codes', k + 2)
    BY <1>2, <1>5, <1>6 DEF InstructionOK, Jumps
  <2> QED
    BY <1>2, <1>7, <2>1, <2>2
<1>8. GrowsBy(c)
  BY <1>1, <1>2, <1>7, LongerGrows
<1>9. new # <<>>
  BY <1>3, <1>5
<1> QED
  BY <1>1, <1>2, <1>5, <1>8, <1>9 DEF EndsInReturn

\* The end of a function: null is returned, and the code around it makes the function.
LEMMA EndFunctionBlocks ==
  ASSUME CodeInv, BlockInv, EndFunction, Straight'
  PROVE  BlockInv'
<1>1. PICK o, p, n, m, A, B :
        /\ o = cur /\ p = Enclosing.start /\ n = Len(open) /\ m = Len(open) - 1
        /\ A = <<I("LOAD_CONST"), I("RETURN")>>
        /\ B = <<Ia("LOAD_CONST", o), I("MAKE_FUNCTION"), I("STORE")>>
  OBVIOUS
<1>2. /\ phase = "compile" /\ phase' = "compile" /\ used \subseteq used'
      /\ open # <<>> /\ Enclosing.kind = "function"
      /\ TwoSet(codes', codes, o, A, p, B)
      /\ cur' = p /\ PopOpen /\ states' = Front(states)
  BY <1>1 DEF EndFunction, End, Inside, TwoSet
<1>3. Straight
  BY <1>2, StraightBefore
<1>4. /\ CodesOK /\ HeldOK /\ StatesOK /\ HomesHold /\ HomesApart /\ TryStatements
      /\ HandlersStart /\ HandlersOrdered
      /\ DOMAIN open = 1 .. n /\ n \in Nat /\ open \in Seq(OpenStatement)
      /\ codes \in Seq(CodeObject)
      /\ \A d \in DOMAIN codes : Lives(d) \/ EndsInReturn(codes[d].code)
  BY <1>1, <1>2, <1>3, WhileCompiling DEF HeldOK, CodesOK
<1>5. n \in DOMAIN open /\ n \in Nat \ {0} /\ open[n] = Enclosing /\ m = n - 1 /\ m \in Nat
      /\ n = m + 1 /\ m < n
  <2>1. n # 0
    BY <1>1, <1>2, <1>4, EmptySeq
  <2> QED
    BY <1>1, <1>4, <2>1 DEF Enclosing
<1>6. /\ Home(n) = o /\ Home(m) = p /\ o # p /\ o \in DOMAIN codes /\ p \in DOMAIN codes
  <2>1. Home(n) = o /\ \A k \in 0 .. n : Home(k) \in DOMAIN codes
    BY <1>1, <1>4 DEF HomesHold
  <2>2. open[n].kind = "function" => open[n].start = Home(n - 1) /\ Home(n) # Home(n - 1)
    BY <1>4, <1>5 DEF HomesHold
  <2>3. m \in 0 .. n /\ n \in 0 .. n
    BY <1>5
  <2> QED
    BY <1>1, <1>2, <1>5, <2>1, <2>2, <2>3
<1>7. A \in Seq(Instruction) /\ B \in Seq(Instruction) /\ o \in Nat
  <2>1. o \in Nat
    BY <1>4, <1>6
  <2> QED
    BY <1>1, <2>1, InstructionTypes DEF Ops
<1>8. TwoAre(codes', codes, o, A, p, B)
  BY <1>2, <1>4, <1>6, <1>7, TwoReplaced
<1>9. /\ DOMAIN codes' = DOMAIN codes
      /\ codes'[o].code = codes[o].code \o A /\ codes'[o].handlers = codes[o].handlers
      /\ codes'[p].code = codes[p].code \o B /\ codes'[p].handlers = codes[p].handlers
      /\ \A c \in DOMAIN codes \ {o, p} : codes'[c] = codes[c]
  BY <1>8 DEF TwoAre
<1>10. /\ open' \in Seq(OpenStatement) /\ Len(open') = m /\ DOMAIN open' = 1 .. m
       /\ \A k \in DOMAIN open' : k \in DOMAIN open /\ open'[k] = open[k]
       /\ \A k \in DOMAIN open : k = n \/ k \in DOMAIN open'
       /\ n \notin DOMAIN open'
  <2>1. /\ open' \in Seq(OpenStatement) /\ Len(open') = Len(open) - 1
        /\ \A k \in DOMAIN open' : k \in DOMAIN open /\ open'[k] = open[k]
        /\ \A k \in DOMAIN open \ {Len(open)} : k \in DOMAIN open'
    BY <1>2, <1>4, PopOpens
  <2>2. DOMAIN open' = 1 .. m /\ Len(open') = m
    BY <1>1, <2>1
  <2>3. n \notin 1 .. m
    BY <1>5
  <2> QED
    BY <1>1, <2>1, <2>2, <2>3
<1>11. \A k \in 0 .. m : Home(k)' = Home(k)
  <2>1. PICK o1, o2 : o1 = open' /\ o2 = open
    OBVIOUS
  <2>2. \A k \in 1 .. m : SameFunction(o2[k], o1[k])
    BY <1>10, <2>1 DEF SameFunction
  <2>3. Pushed(o2, o1, m)
    BY <1>1, <1>5, <1>10, <2>1, <2>2 DEF Pushed
  <2>4. o2[m + 1].kind = "function" /\ o2[m + 1].start = p
    BY <1>1, <1>2, <1>5, <2>1
  <2>5. \A k \in 0 .. m : HomeIn(o2, o, k) = HomeIn(o1, p, k)
    BY <2>3, <2>4, HomePush
  <2> QED
    BY <1>1, <1>2, <2>1, <2>5 DEF Home
<1>12. \A k : k \in 0 .. m <=> k \in 0 .. n /\ k # n
  BY <1>5
<1>13. HomesStay
  BY <1>1, <1>10, <1>11, <1>12 DEF HomesStay
<1>14. OpenTries(o) = {}
  <2> SUFFICES ASSUME NEW k \in OpenTries(o) PROVE FALSE
    OBVIOUS
  <2>1. k \in DOMAIN open /\ open[k].kind \in Tries /\ Home(k) = o
    BY DEF OpenTries
  <2>2. k # n
    BY <1>2, <1>5, <2>1 DEF Tries
  <2>3. k \in 0 .. n /\ n \in 0 .. n /\ k < n /\ n \in k + 1 .. n
    BY <1>4, <1>5, <2>1, <2>2
  <2>4. Home(k) = Home(n)
    BY <1>6, <2>1
  <2> QED
    BY <1>1, <1>2, <1>4, <1>5, <2>3, <2>4 DEF HomesApart
<1>15. GrowsBy(o) /\ EndsInReturn(codes'[o].code)
  BY <1>1, <1>4, <1>6, <1>9, <1>14, Returning
<1>16. GrowsBy(p)
  <2>1. /\ DOMAIN B = {1, 2, 3} /\ Len(B) = 3 /\ Simple(B[1]) /\ Simple(B[3])
        /\ B[1].op = "LOAD_CONST" /\ B[1].arg = o /\ B[2].op = "MAKE_FUNCTION"
    <3>1. B[1] = Ia("LOAD_CONST", o) /\ B[2] = I("MAKE_FUNCTION") /\ B[3] = I("STORE")
          /\ DOMAIN B = {1, 2, 3} /\ Len(B) = 3
      BY <1>1
    <3> QED
      BY <1>7, <3>1, InstructionTypes, Simples DEF Ops
  <2>2. PICK new, k : new = codes'[p].code /\ k = Len(codes[p].code)
    OBVIOUS
  <2>3. k \in Nat /\ codes[p].code \in Seq(Instruction) /\ new = codes[p].code \o B
    BY <1>4, <1>6, <1>9, <2>2, CodeObjects
  <2>4. Longer(new, codes[p].code, B)
    BY <1>7, <2>3, EmittedCode
  <2>5. /\ Len(new) = k + 3 /\ new[k + 1] = B[1] /\ new[k + 2] = B[2] /\ new[k + 3] = B[3]
    BY <2>1, <2>2, <2>4 DEF Longer
  <2>6. new \in Seq(Instruction) /\ k + 1 \in DOMAIN new
    <3>1. new \in Seq(Instruction)
      BY <1>7, <2>3, EmittedCode
    <3> QED
      BY <2>3, <2>5, <3>1
  <2>7. InstructionOK(new, HandlersIn(p), Spans(p), DOMAIN codes', k + 1)
        /\ InstructionOK(new, HandlersIn(p), Spans(p), DOMAIN codes', k + 3)
    BY <2>1, <2>5, Simples
  <2>8. InstructionOK(new, HandlersIn(p), Spans(p), DOMAIN codes', k + 2)
    <3>1. PICK x, D : x = k + 2 /\ D = DOMAIN codes'
      OBVIOUS
    <3>2. x - 1 = k + 1
      BY <2>3, <3>1
    <3>3. new[x] = B[2] /\ new[x - 1] = B[1] /\ x - 1 \in DOMAIN new
      BY <2>5, <2>6, <3>1, <3>2
    <3>4. new[x].op = "MAKE_FUNCTION" /\ new[x - 1].op = "LOAD_CONST" /\ new[x - 1].arg = o
      BY <2>1, <3>3
    <3>5. o \in D
      BY <1>6, <1>9, <3>1
    <3>6. InstructionOK(new, HandlersIn(p), Spans(p), D, x)
      BY <3>3, <3>4, <3>5 DEF InstructionOK, Jumps
    <3> QED
      BY <3>1, <3>6
  <2>9. \A b \in DOMAIN B : InstructionOK(new, HandlersIn(p), Spans(p), DOMAIN codes', k + b)
    BY <2>1, <2>7, <2>8
  <2> QED
    BY <1>4, <1>6, <1>7, <1>9, <2>2, <2>9, LongerGrows
<1>17. \A d \in DOMAIN codes : GrowsBy(d)
  <2>1. ASSUME NEW d \in DOMAIN codes, d # o, d # p PROVE GrowsBy(d)
    BY <1>4, <1>9, <2>1, SameGrows
  <2> QED
    BY <1>15, <1>16, <2>1
<1>18. \A k : TryKept(k)
  <2>1. open[n].kind \notin Tries
    BY <1>2, <1>5 DEF Tries
  <2> QED
    BY <1>10, <2>1 DEF TryKept, Opens
<1>19. HomesApart'
  <2>1. ASSUME NEW j \in 0 .. m, NEW k \in 0 .. m, j < k, Home(j)' = Home(k)', NEW i \in j + 1 .. k
        PROVE  open'[i].kind # "function"
    <3>1. j \in 0 .. n /\ k \in 0 .. n
      BY <1>12
    <3>2. Home(j) = Home(k)
      BY <1>11, <2>1
    <3>3. open[i].kind # "function"
      BY <1>1, <1>4, <2>1, <3>1, <3>2 DEF HomesApart
    <3>4. i \in DOMAIN open'
      <4>1. j \in Nat /\ k \in Nat /\ k <= m
        BY <1>5, <2>1
      <4> QED
        BY <1>5, <1>10, <2>1, <4>1
    <3> QED
      BY <1>10, <3>3, <3>4
  <2> QED
    BY <1>10, <2>1 DEF HomesApart
<1>20. TryStatements' /\ BetweenBlocks'
  BY <1>2, <1>4, PopBetween
<1>21. ASSUME NEW d \in DOMAIN codes' PROVE Lives(d)' \/ EndsInReturn(codes'[d].code)
  <2>1. CASE d = o
    BY <1>15, <2>1
  <2>2. CASE d = p
    <3>1. m \in 0 .. m /\ Home(m)' = p
      BY <1>5, <1>6, <1>11
    <3> QED
      BY <1>2, <1>10, <2>2, <3>1 DEF Lives
  <2>3. CASE d # o /\ d # p
    <3>1. d \in DOMAIN codes /\ codes'[d] = codes[d]
      BY <1>9, <2>3
    <3>2. Lives(d) => Lives(d)'
      <4> SUFFICES ASSUME Lives(d) PROVE Lives(d)'
        OBVIOUS
      <4>1. PICK k \in 0 .. n : Home(k) = d
        BY <1>1 DEF Lives
      <4>2. k # n
        BY <1>6, <2>3, <4>1
      <4>3. k \in 0 .. m /\ Home(k)' = d
        BY <1>11, <1>12, <4>1, <4>2
      <4> QED
        BY <1>2, <1>10, <4>3 DEF Lives
    <3> QED
      BY <1>4, <3>1, <3>2
  <2> QED
    BY <2>1, <2>2, <2>3
<1>22. \A k, x : (\E i \in DOMAIN states' : states'[i].depth = k /\ x \in states'[i].ends) =>
               \E i \in DOMAIN states : states[i].depth = k /\ x \in states[i].ends
  <2>1. states # <<>>
    BY <1>2, <1>4, LastState
  <2>2. /\ DOMAIN states = 1 .. Len(states) /\ Len(states) \in Nat
        /\ Len(states') = Len(states) - 1 /\ DOMAIN states' = 1 .. Len(states')
        /\ \A j \in 1 .. Len(states) - 1 : states'[j] = states[j]
    BY <1>2, <1>4, <2>1, Fronts DEF HeldOK
  <2>3. \A i \in DOMAIN states' : i \in DOMAIN states /\ states'[i] = states[i]
    BY <2>2
  <2> QED
    BY <2>3
<1>23. ASSUME NEW j \in DOMAIN open', NEW x, IsPlace(j, x)' PROVE KeptPlace(j, x)
  <2>1. j \in DOMAIN open /\ open'[j] = open[j]
    BY <1>10
  <2>2. Patches(j, x)' => Patches(j, x)
    BY <1>22, <2>1 DEF Patches
  <2> QED
    BY <1>23, <2>1, <2>2 DEF KeptPlace, IsPlace
<1>24. DOMAIN codes \subseteq DOMAIN codes' /\ \A d \in DOMAIN codes' \ DOMAIN codes : codes'[d] = EmptyCode
  BY <1>9
<1>25. phase = "compile" /\ phase' = "compile" /\ used \subseteq used'
       /\ open \in Seq(OpenStatement) /\ open' \in Seq(OpenStatement)
  BY <1>2, <1>4, <1>10
<1> QED
  BY <1>3, <1>13, <1>17, <1>18, <1>19, <1>20, <1>21, <1>23, <1>24, <1>25, FunctionStep

\* The program is compiled.
LEMMA FinishBlocks ==
  ASSUME CodeInv, BlockInv, Finish, Straight'
  PROVE  BlockInv'
<1>1. PICK o, more, new :
        o = cur /\ more = <<I("EVAL"), I("RETURN")>> /\ new = Code \o more
  OBVIOUS
<1>2. /\ phase = "compile" /\ phase' = "run" /\ used' = used
      /\ open = <<>> /\ open' = <<>> /\ Emit(more) /\ cur' = cur
  BY <1>1 DEF Finish
<1>3. Straight
  BY <1>2, StraightBefore
<1>4. /\ CodesOK /\ HeldOK /\ HomesHold /\ HandlersStart /\ HandlersOrdered
      /\ o \in DOMAIN codes /\ DOMAIN open = {} /\ Len(open) = 0
      /\ \A c \in DOMAIN codes :
           /\ CodeGood(c)
           /\ Lives(c) \/ EndsInReturn(codes[c].code)
           /\ "tryInFinally" \notin used => FreeFinally(Spans(c))
  BY <1>1, <1>2, <1>3, WhileCompiling
<1>5. more \in Seq(Instruction) /\ Len(more) = 2
  BY <1>1, InstructionTypes DEF Ops
<1>6. Rewrites(new)
  BY <1>1, <1>2, <1>4, <1>5, EmitRewrites
<1>7. /\ DOMAIN codes' = DOMAIN codes /\ codes'[o].code = new
      /\ \A c \in DOMAIN codes \ {o} : codes'[c] = codes[c]
      /\ SameHandlers
  BY <1>1, <1>4, <1>6, SetCodeGrows
<1>8. \A c : OpenTries(c) = {} /\ OpenTries(c)' = {}
  BY <1>2, <1>4 DEF OpenTries
<1>9. GrowsBy(o) /\ EndsInReturn(codes'[o].code)
  <2>1. codes'[o].code = codes[o].code \o <<I("EVAL"), I("RETURN")>>
    BY <1>1, <1>7 DEF Code
  <2>2. codes'[o].handlers = codes[o].handlers
    BY <1>4, <1>7 DEF SameHandlers
  <2> QED
    BY <1>4, <1>8, <2>1, <2>2, Returning
<1>10. \A c \in DOMAIN codes : GrowsBy(c)
  <2>1. ASSUME NEW c \in DOMAIN codes, c # o PROVE GrowsBy(c)
    BY <1>4, <1>7, <2>1, SameGrows
  <2> QED
    BY <1>9, <2>1
<1>11. \A c : SameTries(c)
  BY <1>8 DEF SameTries
<1>12. \A c \in DOMAIN codes : CodeGood(c)' /\ Spans(c)' = Spans(c)
  BY <1>4, <1>7, <1>10, <1>11, CarryCode
<1>13. ASSUME NEW c \in DOMAIN codes PROVE EndsInReturn(codes'[c].code)
  <2>1. CASE c = o
    BY <1>9, <2>1
  <2>2. CASE c # o
    <3>1. ~Lives(c)
      <4>1. \A k \in 0 .. Len(open) : k = 0 /\ Home(k) = o
        BY <1>1, <1>4 DEF HomesHold
      <4> QED
        BY <2>2, <4>1 DEF Lives
    <3> QED
      BY <1>4, <1>7, <2>2, <3>1
  <2> QED
    BY <2>1, <2>2
<1> QED
  BY <1>2, <1>4, <1>7, <1>12, <1>13 DEF BlockInv

\* A program that has no code yet.
LEMMA BlockInvInit ==
  ASSUME Init
  PROVE  BlockInv
<1>1. /\ codes = <<EmptyCode>> /\ cur = 1 /\ states = <<>> /\ open = <<>> /\ phase = "compile"
  BY DEF Init, CompilerInit
<1>2. DOMAIN codes = {1} /\ codes[1] = EmptyCode /\ DOMAIN open = {} /\ Len(open) = 0
  BY <1>1
<1>3. codes[1].code = <<>> /\ codes[1].handlers = <<>>
  BY <1>2 DEF EmptyCode
<1>4. HandlersIn(1) = {} /\ OpenTries(1) = {}
  BY <1>2, <1>3 DEF HandlersIn, Range, OpenTries
<1>5. Spans(1) = {}
  BY <1>4 DEF Spans
<1>6. GoodCode(<<>>, {}, {}, DOMAIN codes)
  BY DEF GoodCode, NotStraddling, BlocksEnd
<1>7. CodeGood(1) /\ FreeFinally(Spans(1))
  BY <1>3, <1>4, <1>5, <1>6 DEF CodeGood, FreeFinally
<1>8. Lives(1)
  <2>1. HomeIn(open, cur, Len(open)) = cur
    BY <1>2, HomeLast
  <2>2. 0 \in 0 .. Len(open) /\ Home(0) = 1
    BY <1>1, <1>2, <2>1 DEF Home
  <2> QED
    BY <1>1, <2>2 DEF Lives
<1>9. BlocksSoFar
  <2>1. HomesApart
    BY <1>2 DEF HomesApart
  <2>2. TryStatements /\ BetweenBlocks
    BY <1>1, <1>2 DEF TryStatements, BetweenBlocks, Inside
  <2> QED
    BY <1>2, <2>1, <2>2 DEF BlocksSoFar
<1> QED
  BY <1>1, <1>2, <1>7, <1>8, <1>9 DEF BlockInv

\* Every step of the compiler.
LEMMA CompileBlocks ==
  ASSUME CodeInv, BlockInv, Compile, Straight'
  PROVE  BlockInv'
<1>1. CASE ExpressionStatement
  BY <1>1, ExpressionBlocks
<1>2. CASE BeginWhile
  BY <1>2, BeginWhileBlocks
<1>3. CASE BeginForEach
  BY <1>3, BeginForEachBlocks
<1>4. CASE EndLoop
  BY <1>4, EndLoopBlocks
<1>5. CASE Break
  BY <1>5, BreakBlocks
<1>6. CASE Continue
  BY <1>6, ContinueBlocks
<1>7. CASE BeginIf
  BY <1>7, BeginIfBlocks
<1>8. CASE Else
  BY <1>8, ElseBlocks
<1>9. CASE EndIf
  BY <1>9, EndIfBlocks
<1>10. CASE Return
  BY <1>10, ReturnBlocks
<1>11. CASE Raise
  BY <1>11, RaiseBlocks
<1>12. CASE BeginTry
  BY <1>12, BeginTryBlocks
<1>13. CASE EndTryBlock
  BY <1>13, EndTryBlockBlocks
<1>14. ASSUME NEW type \in Types, NEW name \in CatchNames \cup {NoName}, BeginCatch(type, name)
       PROVE  BlockInv'
  BY <1>14, BeginCatchBlocks
<1>15. CASE EndCatch
  BY <1>15, EndCatchBlocks
<1>16. CASE BeginFinally
  BY <1>16, BeginFinallyBlocks
<1>17. CASE EndTry
  BY <1>17, EndTryBlocks
<1>18. CASE BeginFunction
  BY <1>18, BeginFunctionBlocks
<1>19. CASE EndFunction
  BY <1>19, EndFunctionBlocks
<1>20. CASE Finish
  BY <1>20, FinishBlocks
<1> QED
  BY <1>1, <1>2, <1>3, <1>4, <1>5, <1>6, <1>7, <1>8, <1>9, <1>10, <1>11, <1>12, <1>13,
     <1>14, <1>15, <1>16, <1>17, <1>18, <1>19, <1>20 DEF Compile

\* The step does not touch what the compiler wrote.
LEMMA BlocksUntouched ==
  ASSUME BlockInv, UNCHANGED compilerVars, used \subseteq used',
         \/ phase \in {"run", "error"} /\ phase' \in {"run", "error", "done"}
         \/ phase' = phase /\ used' = used
  PROVE  BlockInv'
<1>1. codes' = codes /\ cur' = cur /\ states' = states /\ open' = open
  BY DEF compilerVars
<1>2. SUFFICES ASSUME Straight' PROVE BlockInv'
  BY DEF BlockInv
<1>3. Straight
  BY <1>2, StraightBefore
<1>4. \A k : Home(k)' = Home(k)
  BY <1>1 DEF Home
<1>5. \A c : /\ HandlersIn(c)' = HandlersIn(c) /\ OpenTries(c)' = OpenTries(c)
  BY <1>1, <1>4 DEF HandlersIn, OpenTries
<1>6. \A c : Spans(c)' = Spans(c)
  BY <1>1, <1>5 DEF Spans
<1>7. \A c : CodeGood(c)' <=> CodeGood(c)
  BY <1>1, <1>5, <1>6 DEF CodeGood
<1>8. \A c \in DOMAIN codes : Lives(c) => Lives(c)' \/ phase' # phase
  BY <1>1, <1>4 DEF Lives
<1>9. CASE phase = "compile"
  <2>1. phase' = "compile" /\ used' = used
    BY <1>9
  <2>2. HomesApart' /\ TryStatements' /\ BetweenBlocks'
    <3>1. HomesApart /\ TryStatements /\ BetweenBlocks
      BY <1>3, <1>9 DEF BlockInv, BlocksSoFar
    <3> QED
      BY <1>1, <1>4, <3>1 DEF HomesApart, TryStatements, BetweenBlocks, Inside, Enclosing, Code,
         Offset
  <2>3. ASSUME NEW j \in DOMAIN open', NEW x, IsPlace(j, x)' PROVE PlaceOK(j, x)'
    <3>1. IsPlace(j, x) /\ (Patches(j, x)' <=> Patches(j, x)) /\ j \in DOMAIN open
      BY <1>1, <2>3 DEF IsPlace, Patches
    <3>2. PICK c : c = Home(j)
      OBVIOUS
    <3>3. PlaceIn(c, j, x) /\ Home(j)' = c
      BY <1>3, <1>4, <1>9, <3>1, <3>2 DEF BlockInv, BlocksSoFar, PlaceOK
    <3>4. NextIn(c)' = NextIn(c)
      BY <1>1 DEF NextIn
    <3>5. PlaceIn(c, j, x)'
      BY <1>1, <1>5, <3>1, <3>3, <3>4 DEF PlaceIn
    <3> QED
      BY <3>3, <3>5 DEF PlaceOK
  <2>4. BlocksSoFar'
    BY <2>2, <2>3 DEF BlocksSoFar
  <2> QED
    BY <1>1, <1>3, <1>6, <1>7, <1>8, <1>9, <2>1, <2>4 DEF BlockInv
<1>10. CASE phase # "compile"
  <2>1. phase' # "compile" /\ open' = <<>>
    BY <1>1, <1>3, <1>10 DEF BlockInv
  <2>2. \A c \in DOMAIN codes : ~Lives(c)
    BY <1>10 DEF Lives
  <2> QED
    BY <1>1, <1>3, <1>6, <1>7, <2>1, <2>2 DEF BlockInv
<1> QED
  BY <1>9, <1>10

\* Every jump stays in its block of each try statement around it, or leaves the
\* block where the block ends.
THEOREM BlockInvHolds == Spec => []BlockInv
<1>1. Init => BlockInv
  BY BlockInvInit
<1>2. CodeInv /\ BlockInv /\ [Next]_vars => BlockInv'
  <2> SUFFICES ASSUME CodeInv, BlockInv, [Next]_vars PROVE BlockInv'
    OBVIOUS
  <2>1. CASE Compile
    <3>1. SUFFICES ASSUME Straight' PROVE BlockInv'
      BY DEF BlockInv
    <3> QED
      BY <2>1, <3>1, CompileBlocks
  <2>2. CASE Run
    BY <2>2, RunSteps, BlocksUntouched DEF RunStep
  <2>3. CASE UNCHANGED vars
    BY <2>3, BlocksUntouched DEF vars
  <2> QED
    BY <2>1, <2>2, <2>3 DEF Next
<1> QED
  BY <1>1, <1>2, CodeInvHolds, PTL DEF Spec
=============================================================================
