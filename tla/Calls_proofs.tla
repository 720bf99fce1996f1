---------------------------- MODULE Calls_proofs ----------------------------
(***************************************************************************)
(* Proofs about Calls, for every callee and every number of arguments.     *)
(* The invariant says what the stack holds at each point of a call: Base,  *)
(* the callee with the positional arguments, and what the steps before     *)
(* have pushed on it or popped off it.                                     *)
(***************************************************************************)
EXTENDS Calls, Induction, SequenceTheorems, FiniteSetTheorems, TLAPS

\* What a slot of the stack may hold.
Slots ==
  {Below, TheCallee, Instance, TheList, Result, Nothing}
    \cup {Positional(i) : i \in Nat} \cup {Named(d) : d \in Nat} \cup {Default(d) : d \in Nat}

LEMMA SlotsHold ==
  /\ Below \in Slots /\ TheCallee \in Slots /\ Instance \in Slots /\ TheList \in Slots
  /\ Result \in Slots /\ Nothing \in Slots
  /\ \A i \in Nat : Positional(i) \in Slots /\ Named(i) \in Slots /\ Default(i) \in Slots
BY DEF Slots

\* The n arguments after the first r.
After(r, n) == [i \in 1 .. n |-> Positional(r + i)]
Arguments(p) == [i \in 1 .. p |-> Positional(i)]
Base(p) == <<Below, TheCallee>> \o FirstArgument \o Arguments(p)

\* Sequences on one another. The provers do not look into Glue.
Glue(s, t) == s \o t

LEMMA Joined ==
  ASSUME NEW S, NEW s \in Seq(S), NEW t \in Seq(S)
  PROVE  s \o t \in Seq(S) /\ Len(s \o t) = Len(s) + Len(t) /\ Len(s \o t) \in Nat
BY ConcatProperties

LEMMA Regrouped ==
  ASSUME NEW S, NEW s \in Seq(S), NEW t \in Seq(S), NEW u \in Seq(S)
  PROVE  Glue(s, Glue(t, u)) = Glue(Glue(s, t), u)
BY ConcatAssociative DEF Glue

\* u is s and then t, which have m and n elements.
IsJoined(u, s, t, m, n, S) ==
  /\ u \in Seq(S) /\ Len(u) = m + n
  /\ \A i \in 1 .. m + n : u[i] = IF i <= m THEN s[i] ELSE t[i - m]
\* Element by element.
LEMMA JoinedElements ==
  ASSUME NEW S, NEW s \in Seq(S), NEW t \in Seq(S), NEW m \in Nat, NEW n \in Nat,
         Len(s) = m, Len(t) = n
  PROVE  IsJoined(s \o t, s, t, m, n, S)
BY ConcatProperties DEF IsJoined

LEMMA Single ==
  ASSUME NEW S, NEW x \in S
  PROVE  <<x>> \in Seq(S) /\ Len(<<x>>) = 1 /\ <<x>>[1] = x
OBVIOUS

LEMMA Pair ==
  ASSUME NEW S, NEW x \in S, NEW y \in S
  PROVE  <<x>> \o <<y>> = <<x, y>> /\ <<x, y>> \in Seq(S) /\ Append(<<x>>, y) = <<x, y>>
<1>1. PICK b \in Seq(S) : b = <<x>> /\ Len(b) = 1 /\ b[1] = x
  BY Single
<1>2. PICK d \in Seq(S) : d = <<x, y>> /\ Len(d) = 2 /\ d[1] = x /\ d[2] = y
  <2>1. <<x, y>> \in Seq(S) /\ Len(<<x, y>>) = 2 /\ <<x, y>>[1] = x /\ <<x, y>>[2] = y
    OBVIOUS
  <2> QED
    BY <2>1
<1>3. b \o <<y>> = Append(b, y)
  OBVIOUS
<1>4. PICK e : e = Append(b, y)
  OBVIOUS
<1>5. e \in Seq(S) /\ Len(e) = 2 /\ e[1] = x /\ e[2] = y
  BY <1>1, <1>4
<1>6. \A i \in 1 .. Len(e) : e[i] = d[i]
  BY <1>2, <1>5
<1>7. e = d
  BY <1>2, <1>5, <1>6, SeqEqual
<1> QED
  BY <1>1, <1>2, <1>3, <1>4, <1>7

\* What a function finds, below it one slot.
LEMMA Layered ==
  ASSUME NEW r \in Seq(Slots), NEW l \in Seq(Slots), NEW d \in Seq(Slots)
  PROVE  /\ <<TheCallee>> \o r \o l \o d \in Seq(Slots)
         /\ Len(<<TheCallee>> \o r \o l \o d) = ((1 + Len(r)) + Len(l)) + Len(d)
         /\ <<Below>> \o (<<TheCallee>> \o r \o l \o d) = <<Below, TheCallee>> \o r \o l \o d
<1> DEFINE S == Slots
<1> HIDE DEF S
<1>1. PICK x \in S, y \in S : x = Below /\ y = TheCallee
  BY SlotsHold DEF S
<1>2. PICK b \in Seq(S), c \in Seq(S) :
        b = <<x>> /\ c = <<y>> /\ Len(c) = 1 /\ b \o c = <<x, y>>
  <2>1. <<x>> \in Seq(S) /\ <<y>> \in Seq(S) /\ Len(<<y>>) = 1 /\ <<x>> \o <<y>> = <<x, y>>
    BY Single, Pair
  <2> QED
    BY <2>1
<1>3. r \in Seq(S) /\ l \in Seq(S) /\ d \in Seq(S)
  BY DEF S
<1>4. PICK cr \in Seq(S) : cr = c \o r /\ Len(cr) = Len(c) + Len(r)
  BY <1>3, Joined
<1>5. PICK crl \in Seq(S) : crl = cr \o l /\ Len(crl) = Len(cr) + Len(l)
  BY <1>3, Joined
<1>6. PICK crld \in Seq(S) : crld = crl \o d /\ Len(crld) = Len(crl) + Len(d)
  BY <1>3, Joined
<1>7. b \o (crl \o d) = (b \o crl) \o d
  <2>1. Glue(b, Glue(crl, d)) = Glue(Glue(b, crl), d)
    BY <1>3, Regrouped
  <2> QED
    BY <2>1 DEF Glue
<1>8. b \o (cr \o l) = (b \o cr) \o l
  <2>1. Glue(b, Glue(cr, l)) = Glue(Glue(b, cr), l)
    BY <1>3, Regrouped
  <2> QED
    BY <2>1 DEF Glue
<1>9. b \o (c \o r) = (b \o c) \o r
  <2>1. Glue(b, Glue(c, r)) = Glue(Glue(b, c), r)
    BY <1>3, Regrouped
  <2> QED
    BY <2>1 DEF Glue
<1> QED
  BY <1>1, <1>2, <1>4, <1>5, <1>6, <1>7, <1>8, <1>9 DEF S

\* What is on top of a stack can be taken off.
LEMMA OffTop ==
  ASSUME NEW S, NEW s \in Seq(S), NEW t \in Seq(S), NEW k \in Nat, k = Len(t)
  PROVE  LastOf(s \o t, k) = t /\ Drop(s \o t, k) = s
<1>1. PICK n \in Nat : n = Len(s)
  OBVIOUS
<1>2. s \o t \in Seq(S) /\ Len(s \o t) = n + k
      /\ \A i \in 1 .. n + k : (s \o t)[i] = IF i <= n THEN s[i] ELSE t[i - n]
  BY <1>1, ConcatProperties
<1>3. PICK st \in Seq(S) : st = s \o t
  BY <1>2
<1>4. Len(st) = n + k /\ \A i \in 1 .. n + k : st[i] \in S /\ st[i] = IF i <= n THEN s[i] ELSE t[i - n]
  BY <1>2, <1>3
<1>5. LastOf(st, k) = t
  <2>1. PICK u : u = SubSeq(st, n + 1, n + k)
    OBVIOUS
  <2>2. n + 1 \in Int /\ n + k \in Int /\ \A i \in n + 1 .. n + k : st[i] \in S
    BY <1>4
  <2>3. /\ u \in Seq(S) /\ Len(u) = IF n + 1 <= n + k THEN (n + k) - (n + 1) + 1 ELSE 0
        /\ \A i \in 1 .. (n + k) - (n + 1) + 1 : u[i] = st[(n + 1) + i - 1]
    BY <2>1, <2>2, SubSeqProperties
  <2>4. Len(u) = k
    BY <2>3
  <2>5. ASSUME NEW i \in 1 .. k PROVE u[i] = t[i]
    <3>1. (n + 1) + i - 1 = n + i /\ n + i \in 1 .. n + k /\ ~(n + i <= n) /\ (n + i) - n = i
      OBVIOUS
    <3> QED
      BY <1>4, <2>3, <3>1
  <2>6. u = t
    BY <2>3, <2>4, <2>5, SeqEqual
  <2>7. (n + k) - k + 1 = n + 1
    OBVIOUS
  <2> QED
    BY <1>4, <2>1, <2>6, <2>7 DEF LastOf
<1>6. Drop(st, k) = s
  <2>1. PICK u : u = SubSeq(st, 1, n)
    OBVIOUS
  <2>2. 1 \in Int /\ n \in Int /\ \A i \in 1 .. n : st[i] \in S /\ st[i] = s[i]
    BY <1>4
  <2>3. /\ u \in Seq(S) /\ Len(u) = IF 1 <= n THEN n - 1 + 1 ELSE 0
        /\ \A i \in 1 .. n - 1 + 1 : u[i] = st[1 + i - 1]
    BY <2>1, <2>2, SubSeqProperties
  <2>4. Len(u) = n /\ \A i \in 1 .. n : u[i] = s[i]
    BY <2>2, <2>3
  <2>5. u = s
    BY <1>1, <2>3, <2>4, SeqEqual
  <2>6. (n + k) - k = n
    OBVIOUS
  <2> QED
    BY <1>4, <2>1, <2>5, <2>6 DEF Drop
<1> QED
  BY <1>3, <1>5, <1>6

LEMMA ArgumentsTyped ==
  ASSUME NEW p \in Nat, NEW r \in Nat
  PROVE  /\ Arguments(p) \in Seq(Slots) /\ Len(Arguments(p)) = p
         /\ After(r, p) \in Seq(Slots) /\ Len(After(r, p)) = p
<1>1. \A i \in 1 .. p : Positional(i) \in Slots /\ Positional(r + i) \in Slots
  BY SlotsHold
<1> QED
  BY <1>1 DEF Arguments, After

\* The arguments are the first r of them and the rest.
LEMMA ArgumentsSplit ==
  ASSUME NEW p \in Nat, NEW r \in Nat, r <= p
  PROVE  Arguments(p) = Arguments(r) \o After(r, p - r)
<1>1. p - r \in Nat
  OBVIOUS
<1>2. PICK n \in Nat : n = p - r
  BY <1>1
<1>3. PICK a, b, c : a = Arguments(r) /\ b = After(r, n) /\ c = Arguments(p)
  OBVIOUS
<1>4. /\ a \in Seq(Slots) /\ Len(a) = r /\ b \in Seq(Slots) /\ Len(b) = n
      /\ c \in Seq(Slots) /\ Len(c) = p
  BY <1>3, ArgumentsTyped
<1>5. /\ \A i \in 1 .. r : a[i] = Positional(i)
      /\ \A i \in 1 .. n : b[i] = Positional(r + i)
      /\ \A i \in 1 .. p : c[i] = Positional(i)
  BY <1>3 DEF Arguments, After
<1>6. /\ a \o b \in Seq(Slots) /\ Len(a \o b) = r + n
      /\ \A i \in 1 .. r + n : (a \o b)[i] = IF i <= r THEN a[i] ELSE b[i - r]
  BY <1>4, ConcatProperties
<1>7. r + n = p
  BY <1>2
<1>8. ASSUME NEW i \in 1 .. p PROVE (a \o b)[i] = c[i]
  <2>1. CASE i <= r
    BY <1>5, <1>6, <1>7, <2>1
  <2>2. CASE ~(i <= r)
    <3>1. i - r \in 1 .. n /\ r + (i - r) = i
      BY <1>7, <2>2
    <3> QED
      BY <1>5, <1>6, <1>7, <2>2, <3>1
  <2> QED
    BY <2>1, <2>2
<1>9. a \o b = c
  <2>1. PICK ab \in Seq(Slots) : ab = a \o b
    BY <1>6
  <2>2. Len(ab) = p /\ \A i \in 1 .. p : ab[i] = c[i]
    BY <1>6, <1>7, <1>8, <2>1
  <2>3. ab = c
    BY <1>4, <2>2, SeqEqual
  <2> QED
    BY <2>1, <2>3
<1> QED
  BY <1>2, <1>3, <1>9

\* The callee, with the instance a method without one is given, and the first
\* arguments.
LEMMA BaseSplit ==
  ASSUME NEW p \in Nat, NEW r \in Nat, r <= p
  PROVE  /\ FirstArgument \in Seq(Slots)
         /\ Base(p) \in Seq(Slots) /\ Base(r) \in Seq(Slots)
         /\ Base(p) = Base(r) \o After(r, p - r)
<1>1. FirstArgument \in Seq(Slots) /\ <<Below, TheCallee>> \in Seq(Slots)
  BY SlotsHold DEF FirstArgument
<1>2. PICK b : b = <<Below, TheCallee>> \o FirstArgument
  OBVIOUS
<1>3. b \in Seq(Slots)
  BY <1>1, <1>2, ConcatProperties
<1>4. PICK n \in Nat : n = p - r
  OBVIOUS
<1>5. /\ Arguments(p) \in Seq(Slots) /\ Arguments(r) \in Seq(Slots)
      /\ After(r, n) \in Seq(Slots)
  BY ArgumentsTyped
<1>6. b \o Arguments(p) = (b \o Arguments(r)) \o After(r, n)
  <2>1. Arguments(p) = Arguments(r) \o After(r, n)
    BY <1>4, ArgumentsSplit
  <2>2. PICK x, y : x = Arguments(r) /\ y = After(r, n)
    OBVIOUS
  <2>3. x \in Seq(Slots) /\ y \in Seq(Slots)
    BY <1>5, <2>2
  <2>4. Glue(b, Glue(x, y)) = Glue(Glue(b, x), y)
    BY <1>3, <2>3, Regrouped
  <2> QED
    BY <2>1, <2>2, <2>4 DEF Glue
<1>7. b \o Arguments(p) \in Seq(Slots) /\ b \o Arguments(r) \in Seq(Slots)
  BY <1>3, <1>5, ConcatProperties
<1> QED
  BY <1>1, <1>2, <1>4, <1>6, <1>7 DEF Base

-----------------------------------------------------------------------------
(* The invariant. *)

\* The values of the named arguments, the last one first.
PoppedValues == [i \in 1 .. Len(named) |-> Named(named[Len(named) - i + 1])]

\* What validateCall has made sure of.
Fits ==
  /\ callee.required <= Given
  /\ callee.variadic \/ Given <= Arity
  /\ ToSet(named) \subseteq DefaultNames
  /\ named # <<>> => callee.variadic \/ Given <= callee.required

\* The variadic list holds what is left over.
Listed == list = After(callee.required, Len(list))
ListSlot == IF callee.variadic THEN <<TheList>> ELSE <<>>

CallState ==
  /\ CallTypeOK
  /\ named \in Seq(Nat \ {0})
  /\ list \in Seq(Slots)

CallInv ==
  /\ CallState
  /\ phase = "call" => stack = Pushed(argc, named) /\ list = <<>>
  /\ phase \in {"validate", "collect"} => stack = Base(argc) /\ list = <<>>
  /\ phase \in {"validate", "collect", "fill", "parse"} => values = PoppedValues
  /\ phase = "collect" => Accepts
  /\ phase \in {"fill", "enter"} => callee.kind = "function"
  /\ phase = "parse" => callee.kind # "function"
  /\ phase \in {"fill", "enter", "parse", "running"} =>
       /\ Listed /\ Fits
       /\ argc = IF callee.variadic /\ ~IsMethod THEN callee.required ELSE Given
  /\ phase = "fill" => stack = Base(argc) \o ListSlot
  /\ phase = "enter" => stack = <<Below>> \o Meaning(Given)
  /\ phase = "parse" => stack = Base(argc)
  /\ phase = "running" =>
       /\ seen = Meaning(Given)
       /\ stack = IF callee.kind = "function" THEN <<Below>> \o seen ELSE Base(argc)
  /\ phase = "returned" => stack = <<Below, Result>>

\* The types of the parts, for the proofs below.
LEMMA CallTypes ==
  ASSUME CallState
  PROVE  /\ callee.kind \in Kinds /\ callee.required \in Nat /\ callee.defaults \in Nat
         /\ callee.variadic \in BOOLEAN /\ Arity \in Nat
         /\ argc \in Nat /\ argc <= MaxPositional /\ MaxPositional \in Nat
         /\ Len(named) \in Nat /\ DOMAIN named = 1 .. Len(named)
         /\ Len(list) \in Nat
         /\ callee.kind # "function" => callee.defaults <= 1
<1>1. callee \in Callee /\ callee \in Callees
  BY CallAssumption DEF CallState, CallTypeOK
<1>2. MaxPositional \in Nat
  BY CallAssumption
<1> QED
  BY <1>1, <1>2, NativeAssumption DEF CallState, CallTypeOK, Callee, Arity

LEMMA InitCall == Init => CallInv
<1> SUFFICES ASSUME Init PROVE CallInv
  OBVIOUS
<1>1. CallTypeOK
  BY DEF Init, CallTypeOK
<1>2. named \in Seq(Nat \ {0})
  <2>1. named \in Seq(1 .. MaxNamed)
    <3>1. PICK m \in 0 .. MaxNamed : named \in [1 .. m -> 1 .. MaxNamed]
      BY DEF Init, BoundedSeq, SeqOf
    <3>2. m \in Nat
      BY CallAssumption
    <3>3. PICK S : S = 1 .. MaxNamed
      OBVIOUS
    <3>4. named \in Seq(S)
      <4>1. named \in [1 .. m -> S]
        BY <3>1, <3>3
      <4>2. DOMAIN named = 1 .. m /\ \A i \in 1 .. m : named[i] \in S
        BY <4>1
      <4>3. named = [i \in 1 .. m |-> named[i]]
        BY <4>1
      <4> QED
        BY <3>2, <4>2, <4>3, IsASeq
    <3> QED
      BY <3>3, <3>4
  <2>2. 1 .. MaxNamed \subseteq Nat \ {0}
    BY CallAssumption
  <2> QED
    BY <2>1, <2>2, SeqMonotonic
<1> QED
  BY <1>1, <1>2 DEF Init, CallInv, CallState

\* The stack of a call with named arguments.
LEMMA NamedOnTop ==
  ASSUME CallState
  PROVE  LET top == [i \in DOMAIN named |-> Named(named[i])] IN
           /\ top \in Seq(Slots) /\ Len(top) = Len(named)
           /\ Base(argc) \in Seq(Slots)
           /\ Pushed(argc, named) = Base(argc) \o top
<1> DEFINE top == [i \in DOMAIN named |-> Named(named[i])]
<1>1. \A i \in 1 .. Len(named) : named[i] \in Nat
  BY DEF CallState
<1>2. top \in Seq(Slots) /\ Len(top) = Len(named)
  BY <1>1, CallTypes, SlotsHold
<1>3. Base(argc) \in Seq(Slots)
  BY CallTypes, BaseSplit
<1> QED
  BY <1>2, <1>3 DEF Pushed, Base, Arguments

LEMMA PopNamedKeeps == CallInv /\ PopNamed => CallInv'
<1> SUFFICES ASSUME CallInv, PopNamed PROVE CallInv'
  OBVIOUS
<1>1. CallState
  BY DEF CallInv
<1>2. PICK top \in Seq(Slots) :
        /\ top = [i \in DOMAIN named |-> Named(named[i])]
        /\ Len(top) = Len(named)
        /\ stack = Base(argc) \o top /\ Base(argc) \in Seq(Slots)
  BY <1>1, NamedOnTop DEF CallInv, PopNamed
<1>3. LastOf(stack, Len(named)) = top /\ Drop(stack, Len(named)) = Base(argc)
  <2>1. PICK n \in Nat : n = Len(named)
    BY <1>1, CallTypes
  <2>2. PICK b \in Seq(Slots) : b = Base(argc)
    BY <1>2
  <2>3. n = Len(top) /\ stack = b \o top
    BY <1>2, <2>1, <2>2
  <2>4. LastOf(b \o top, n) = top /\ Drop(b \o top, n) = b
    BY <2>3, OffTop
  <2> QED
    BY <2>1, <2>2, <2>3, <2>4
<1>4. Reverse(top) = PoppedValues
  <2>1. PICK n \in Nat : n = Len(named) /\ DOMAIN named = 1 .. n
    BY <1>1, CallTypes
  <2>2. \A i \in 1 .. n : n - i + 1 \in 1 .. n
    BY <2>1
  <2> QED
    BY <1>2, <2>1, <2>2 DEF Reverse, PoppedValues
<1>5. /\ values' = PoppedValues /\ stack' = Base(argc) /\ phase' = "validate"
      /\ callee' = callee /\ argc' = argc /\ named' = named /\ list' = list
      /\ phase = "call"
  BY <1>3, <1>4 DEF PopNamed
<1>6. /\ Base(argc)' = Base(argc) /\ PoppedValues' = PoppedValues
      /\ CallState'
  <2>1. CallState'
    BY <1>1, <1>5 DEF CallState, CallTypeOK
  <2> QED
    BY <1>5, <2>1 DEF Base, FirstArgument, PoppedValues
<1> QED
  BY <1>5, <1>6 DEF CallInv

LEMMA RejectKeeps == CallInv /\ Reject => CallInv'
<1> SUFFICES ASSUME CallInv, Reject PROVE CallInv'
  OBVIOUS
<1>1. /\ phase' = "rejected" /\ callee' = callee /\ argc' = argc /\ named' = named
      /\ list' = list
  BY DEF Reject
<1>2. CallState'
  BY <1>1 DEF CallInv, CallState, CallTypeOK
<1> QED
  BY <1>1, <1>2 DEF CallInv

LEMMA AcceptKeeps == CallInv /\ Accept => CallInv'
<1> SUFFICES ASSUME CallInv, Accept PROVE CallInv'
  OBVIOUS
<1>1. /\ phase = "validate" /\ Accepts /\ phase' = "collect" /\ callee' = callee
      /\ argc' = argc /\ named' = named /\ values' = values /\ stack' = stack /\ list' = list
  BY DEF Accept
<1>2. CallState'
  BY <1>1 DEF CallInv, CallState, CallTypeOK
<1>3. Base(argc)' = Base(argc) /\ PoppedValues' = PoppedValues /\ Accepts'
  BY <1>1 DEF Base, FirstArgument, PoppedValues, Accepts, TooFew, TooMany, UnknownNames,
              GivenTwice, Counted, Arity, DefaultNames
<1> QED
  BY <1>1, <1>2, <1>3 DEF CallInv

\* A variadic callee: the arguments after the required ones go in the list.
LEMMA CollectKeeps == CallInv /\ CollectVariadic => CallInv'
<1> SUFFICES ASSUME CallInv, CollectVariadic PROVE CallInv'
  OBVIOUS
<1>1. /\ CallState /\ phase = "collect" /\ stack = Base(argc) /\ list = <<>>
      /\ values = PoppedValues /\ Accepts
  BY DEF CallInv, CollectVariadic
<1>2. PICK r \in Nat, d \in Nat, p \in Nat :
        /\ r = callee.required /\ d = callee.defaults /\ p = argc
        /\ Arity = r + d /\ r <= p
        /\ callee.variadic \in BOOLEAN
  <2>1. ~(argc < callee.required)
    BY <1>1 DEF Accepts, TooFew
  <2> QED
    BY <1>1, <2>1, CallTypes DEF Arity
<1>3. /\ callee' = callee /\ named' = named /\ values' = values
      /\ phase' = IF callee.kind = "function" THEN "fill" ELSE "parse"
  BY DEF CollectVariadic
<1>4. \/ callee.variadic
      \/ ~callee.variadic /\ p <= r + d
  BY <1>1, <1>2 DEF Accepts, TooMany, Counted
<1>5. /\ ToSet(named) \subseteq DefaultNames
      /\ named # <<>> => callee.variadic \/ p <= r
  BY <1>1, <1>2 DEF Accepts, UnknownNames, GivenTwice, Counted
<1>6. CASE callee.variadic
  <2>1. /\ Base(p) \in Seq(Slots) /\ Base(r) \in Seq(Slots)
        /\ Base(p) = Base(r) \o After(r, p - r)
    BY <1>2, BaseSplit
  <2>2. PICK n \in Nat : n = p - r
    BY <1>2
  <2>3. After(r, n) \in Seq(Slots) /\ Len(After(r, n)) = n
    BY ArgumentsTyped
  <2>4. LastOf(stack, n) = After(r, n) /\ Drop(stack, n) = Base(r)
    <3>1. PICK top \in Seq(Slots) : top = After(r, n) /\ n = Len(top)
      BY <2>3
    <3>2. PICK base \in Seq(Slots) : base = Base(r)
      BY <2>1
    <3>3. stack = base \o top
      BY <1>1, <1>2, <2>1, <2>2, <3>1, <3>2
    <3> QED
      BY <3>1, <3>2, <3>3, OffTop
  <2>5. /\ list' = After(r, n)
        /\ stack' = CASE callee.kind = "function" -> Append(Base(r), TheList)
                      [] callee.kind = "native" -> Base(r)
                      [] OTHER -> Base(p)
        /\ argc' = IF IsMethod THEN p ELSE r
    <3>1. Extra = n /\ argc - Extra = r
      BY <1>2, <2>2 DEF Extra
    <3> QED
      BY <1>1, <1>2, <1>6, <2>4, <3>1 DEF CollectVariadic
  <2>6. /\ list' \in Seq(Slots) /\ Len(list') = n /\ r + n = p
    BY <2>2, <2>3, <2>5
  <2>7. CallState'
    <3>1. argc' \in 0 .. MaxPositional
      BY <1>1, <1>2, <2>5, CallTypes
    <3>2. phase' \in {"fill", "parse"}
      BY <1>3
    <3> QED
      BY <1>1, <1>3, <2>6, <3>1, <3>2 DEF CallState, CallTypeOK
  <2>8. Given' = p
    BY <1>2, <1>3, <1>6, <2>6 DEF Given
  <2>9. /\ Listed'
        /\ Fits'
        /\ (argc = IF callee.variadic /\ ~IsMethod THEN callee.required ELSE Given)'
    <3>1. Listed'
      BY <1>2, <1>3, <2>5, <2>6 DEF Listed, After
    <3>2. Fits'
      BY <1>2, <1>3, <1>5, <1>6, <2>8 DEF Fits, DefaultNames
    <3> QED
      BY <1>2, <1>3, <1>6, <2>5, <2>8, <3>1, <3>2 DEF IsMethod
  <2>10. PoppedValues' = PoppedValues
    BY <1>3 DEF PoppedValues
  <2>11. \A k \in Nat : Base(k)' = Base(k)
    BY <1>3 DEF Base, FirstArgument
  <2>12. CASE callee.kind = "function"
    <3>1. /\ argc' = r /\ stack' = Append(Base(r), TheList) /\ phase' = "fill"
      BY <1>3, <2>5, <2>12 DEF IsMethod
    <3>2. Base(argc)' = Base(r) /\ ListSlot' = <<TheList>>
      BY <1>3, <1>6, <3>1 DEF ListSlot, Base, FirstArgument
    <3>3. Append(Base(r), TheList) = Base(r) \o <<TheList>>
      BY <2>1, SlotsHold
    <3> QED
      BY <1>1, <1>3, <2>7, <2>9, <2>10, <2>12, <3>1, <3>2, <3>3 DEF CallInv
  <2>13. CASE callee.kind # "function"
    <3>1. stack' = Base(argc)' /\ phase' = "parse"
      <4>1. callee.kind \in {"native", "method", "unbound"}
        BY <1>1, <2>13, CallTypes DEF Kinds
      <4>2. stack' = IF IsMethod THEN Base(p) ELSE Base(r)
        BY <2>5, <4>1 DEF IsMethod
      <4>3. stack' = Base(argc')
        BY <2>5, <4>2
      <4> QED
        BY <1>3, <2>13, <4>3 DEF Base, FirstArgument
    <3> QED
      BY <1>1, <1>3, <2>7, <2>9, <2>10, <2>13, <3>1 DEF CallInv
  <2> QED
    BY <2>12, <2>13
<1>7. CASE ~callee.variadic
  <2>1. list' = list /\ stack' = stack /\ argc' = argc
    BY <1>7 DEF CollectVariadic
  <2>2. CallState'
    <3>1. phase' \in {"fill", "parse"}
      BY <1>3
    <3> QED
      BY <1>1, <1>3, <2>1, <3>1 DEF CallState, CallTypeOK
  <2>3. Given' = p
    BY <1>2, <1>3, <1>7, <2>1 DEF Given
  <2>4. Listed' /\ Fits' /\ argc' = Given'
    <3>1. Listed'
      <4>1. After(r, 0) = <<>> /\ Len(<<>>) = 0
        BY DEF After
      <4> QED
        BY <1>1, <1>2, <1>3, <2>1, <4>1 DEF Listed
    <3>2. Fits'
      BY <1>2, <1>3, <1>4, <1>5, <1>7, <2>3 DEF Fits, DefaultNames, Arity
    <3> QED
      BY <1>2, <2>1, <2>3, <3>1, <3>2
  <2>5. /\ Base(argc)' = Base(argc) /\ PoppedValues' = PoppedValues /\ ListSlot' = <<>>
    BY <1>3, <1>7, <2>1 DEF Base, FirstArgument, PoppedValues, ListSlot
  <2>6. Base(argc) \o <<>> = Base(argc)
    BY <1>2, BaseSplit
  <2> QED
    BY <1>1, <1>3, <1>7, <2>1, <2>2, <2>4, <2>5, <2>6 DEF CallInv
<1> QED
  BY <1>6, <1>7

-----------------------------------------------------------------------------
(* What the callee finds. *)

\* The value popped for a named argument is the one of that name: fnCall
\* counts from the end, which makes up for the order of popping.
LEMMA NamedValueIsRight ==
  ASSUME CallState, values = PoppedValues, NEW d \in ToSet(named)
  PROVE  NamedValue(d) = Named(d)
<1> DEFINE D == {i \in DOMAIN named : named[i] = d}
<1>1. PICK n \in Nat : n = Len(named) /\ DOMAIN named = 1 .. n
  BY CallTypes
<1>2. D # {} /\ D \in SUBSET Nat /\ D \subseteq 1 .. n
  BY <1>1 DEF ToSet
<1>3. Min(D) \in D
  <2>1. \E x \in D : \A y \in D : x <= y
    BY <1>2, Least
  <2> QED
    BY <2>1 DEF Min
<1>4. PICK k \in 1 .. n : k = Min(D) /\ named[k] = d
  BY <1>1, <1>3
<1>5. n - k + 1 \in 1 .. n /\ n - (n - k + 1) + 1 = k
  OBVIOUS
<1>6. values[n - k + 1] = Named(named[k])
  BY <1>1, <1>5 DEF PoppedValues
<1> QED
  BY <1>1, <1>4, <1>6 DEF NamedValue

\* A value that ArgParser takes for a named argument, of the only default
\* parameter that there is.
LEMMA ParsedNamedIsRight ==
  ASSUME CallState, values = PoppedValues, ToSet(named) \subseteq {1}, NEW d \in ToSet(named)
  PROVE  ParsedNamed(d) = Named(d)
<1> DEFINE D == {i \in DOMAIN named : named[i] = d}
<1>1. PICK n \in Nat : n = Len(named) /\ DOMAIN named = 1 .. n
  BY CallTypes
<1>2. D # {} /\ D \in SUBSET Nat /\ D \subseteq 1 .. n
  BY <1>1 DEF ToSet
<1>3. Min(D) \in D
  <2>1. \E x \in D : \A y \in D : x <= y
    BY <1>2, Least
  <2> QED
    BY <2>1 DEF Min
<1>4. PICK k \in 1 .. n : k = Min(D)
  BY <1>1, <1>3
<1>5. n - k + 1 \in 1 .. n
  OBVIOUS
<1>6. named[n - k + 1] = d
  BY <1>1, <1>5 DEF ToSet
<1>7. values[k] = Named(named[n - k + 1])
  BY <1>1, <1>4 DEF PoppedValues
<1> QED
  BY <1>4, <1>6, <1>7 DEF ParsedNamed

\* What Meaning gives the default parameters.
Defaults(p) == [d \in DefaultNames |-> MeaningOfDefault(p, d)]

LEMMA MeaningTyped ==
  ASSUME CallState, ToSet(named) \subseteq DefaultNames, NEW p \in Nat
  PROVE  /\ Required \in Seq(Slots) /\ Len(Required) = callee.required
         /\ Required = Arguments(callee.required)
         /\ Defaults(p) \in Seq(Slots) /\ Len(Defaults(p)) = callee.defaults
         /\ ListSlot \in Seq(Slots) /\ Len(ListSlot) = IF callee.variadic THEN 1 ELSE 0
         /\ Meaning(p) = IF callee.kind = "function"
                         THEN <<TheCallee>> \o Required \o ListSlot \o Defaults(p)
                         ELSE IF callee.variadic /\ IsMethod THEN <<>>
                         ELSE Required \o Defaults(p)
<1>1. PICK r \in Nat, k \in Nat : r = callee.required /\ k = callee.defaults
  BY CallTypes
<1>2. /\ Required \in Seq(Slots) /\ Len(Required) = r /\ Required = Arguments(r)
  BY <1>1, ArgumentsTyped DEF Required, Arguments
<1>3. ASSUME NEW d \in 1 .. k PROVE MeaningOfDefault(p, d) \in Slots
  <2>1. d \in Nat /\ r + d \in Nat
    OBVIOUS
  <2> QED
    BY <1>1, <2>1, SlotsHold DEF MeaningOfDefault
<1>4. Defaults(p) \in Seq(Slots) /\ Len(Defaults(p)) = k
  <2>1. Defaults(p) = [d \in 1 .. k |-> MeaningOfDefault(p, d)]
    BY <1>1 DEF Defaults, DefaultNames
  <2> QED
    BY <1>3, <2>1
<1>5. ListSlot \in Seq(Slots) /\ Len(ListSlot) = IF callee.variadic THEN 1 ELSE 0
  BY SlotsHold DEF ListSlot
<1>6. Meaning(p) = IF callee.kind = "function"
                   THEN <<TheCallee>> \o Required \o ListSlot \o Defaults(p)
                   ELSE IF callee.variadic /\ IsMethod THEN <<>>
                   ELSE Required \o Defaults(p)
  <2>1. CASE callee.kind = "function"
    <3>1. PICK x : x = Meaning(p)
      OBVIOUS
    <3>2. x = <<TheCallee>> \o Required \o ListSlot \o Defaults(p)
      BY <2>1, <3>1 DEF Meaning, Defaults, ListSlot, IsMethod
    <3> QED
      BY <2>1, <3>1, <3>2
  <2>2. CASE callee.kind # "function" /\ callee.variadic /\ IsMethod
    BY <2>2 DEF Meaning
  <2>3. CASE callee.kind # "function" /\ ~(callee.variadic /\ IsMethod)
    BY <2>3 DEF Meaning, Defaults
  <2> QED
    BY <2>1, <2>2, <2>3
<1> QED
  BY <1>1, <1>2, <1>4, <1>5, <1>6

\* A program's function finds the function, its arguments and the list, and
\* as many locals as frameFromFunctionObject counts.
LEMMA FunctionMeaning ==
  ASSUME CallState, ToSet(named) \subseteq DefaultNames, NEW p \in Nat,
         callee.kind = "function"
  PROVE  /\ Meaning(p) \in Seq(Slots) /\ Len(Meaning(p)) = NumLocals /\ NumLocals \in Nat
         /\ <<Below>> \o Meaning(p) =
              <<Below, TheCallee>> \o Required \o ListSlot \o Defaults(p)
<1>1. PICK r \in Seq(Slots), l \in Seq(Slots), d \in Seq(Slots) :
        /\ r = Required /\ l = ListSlot /\ d = Defaults(p)
        /\ Len(r) = callee.required /\ Len(d) = callee.defaults
        /\ Len(l) = IF callee.variadic THEN 1 ELSE 0
        /\ Meaning(p) = <<TheCallee>> \o r \o l \o d
  BY MeaningTyped
<1>2. /\ <<TheCallee>> \o r \o l \o d \in Seq(Slots)
      /\ Len(<<TheCallee>> \o r \o l \o d) = ((1 + Len(r)) + Len(l)) + Len(d)
      /\ <<Below>> \o (<<TheCallee>> \o r \o l \o d) = <<Below, TheCallee>> \o r \o l \o d
  BY Layered
<1>3. NumLocals = ((1 + Len(r)) + Len(l)) + Len(d) /\ NumLocals \in Nat
  <2>1. PICK i \in Nat, j \in Nat, k \in Nat :
          i = callee.required /\ j = callee.defaults /\ k = IF callee.variadic THEN 1 ELSE 0
    BY CallTypes
  <2>2. NumLocals = i + j + 1 + k
    BY <2>1 DEF NumLocals, Arity
  <2>3. Len(r) = i /\ Len(l) = k /\ Len(d) = j
    BY <1>1, <2>1
  <2>4. i + j + 1 + k = ((1 + i) + k) + j
    OBVIOUS
  <2> QED
    BY <2>2, <2>3, <2>4
<1> QED
  BY <1>1, <1>2, <1>3

\* Arguments on top of which there is a default value for each parameter left,
\* are the required arguments and what the others are bound to.
LEMMA Completed ==
  ASSUME CallState, callee.required <= argc, argc <= Arity,
         NEW y \in Seq(Slots), Len(y) = Arity - argc,
         NEW z \in Seq(Slots), Len(z) = callee.defaults,
         \A d \in DefaultNames :
           z[d] = IF callee.required + d <= argc THEN Positional(callee.required + d)
                  ELSE y[(callee.required + d) - argc]
  PROVE  Arguments(argc) \o y = Arguments(callee.required) \o z
<1>0. PICK r \in Nat, k \in Nat, a \in Nat :
        r = callee.required /\ k = callee.defaults /\ a = argc
  BY CallTypes
<1>1. /\ r = callee.required /\ k = callee.defaults /\ a = argc
      /\ r <= a /\ a <= r + k /\ Len(y) = (r + k) - a /\ Len(z) = k
      /\ \A d \in 1 .. k : z[d] = IF r + d <= a THEN Positional(r + d) ELSE y[(r + d) - a]
  <2>2. Arity = r + k /\ DefaultNames = 1 .. k
    BY <1>0 DEF Arity, DefaultNames
  <2>3. \A d \in 1 .. k : z[d] = IF r + d <= a THEN Positional(r + d) ELSE y[(r + d) - a]
    BY <1>0, <2>2
  <2>4. r <= a /\ a <= r + k
    BY <1>0, <2>2
  <2>5. Len(y) = (r + k) - a
    <3>1. Arity - argc = (r + k) - a
      BY <1>0, <2>2, Zenon
    <3>2. Len(y) = Arity - argc
      OBVIOUS
    <3> QED
      BY <3>1, <3>2, Zenon
  <2>6. Len(z) = k
    BY <1>0, Zenon
  <2> QED
    BY <1>0, <2>3, <2>4, <2>5, <2>6, Zenon
<1>2. PICK n \in Nat : n = (r + k) - a
  BY <1>1
<1>3. PICK s \in Seq(Slots), t \in Seq(Slots) :
        s = Arguments(a) /\ Len(s) = a /\ t = Arguments(r) /\ Len(t) = r
  BY ArgumentsTyped
<1>4. /\ \A i \in 1 .. a : s[i] = Positional(i)
      /\ \A i \in 1 .. r : t[i] = Positional(i)
  BY <1>3 DEF Arguments
<1>5. PICK u : u = s \o y
  OBVIOUS
<1>6. PICK v : v = t \o z
  OBVIOUS
<1>7. /\ u \in Seq(Slots) /\ Len(u) = a + n
      /\ \A i \in 1 .. a + n : u[i] = IF i <= a THEN s[i] ELSE y[i - a]
  <2>1. IsJoined(s \o y, s, y, a, n, Slots)
    <3>1. Len(y) = n
      BY <1>1, <1>2
    <3>2. Len(s) = a
      BY <1>3
    <3> QED
      BY <3>1, <3>2, JoinedElements, Zenon
  <2> QED
    BY <1>5, <2>1, Zenon DEF IsJoined
<1>8. /\ v \in Seq(Slots) /\ Len(v) = r + k
      /\ \A i \in 1 .. r + k : v[i] = IF i <= r THEN t[i] ELSE z[i - r]
  <2>1. IsJoined(t \o z, t, z, r, k, Slots)
    <3>1. Len(z) = k
      BY <1>1
    <3> QED
      BY <1>3, <3>1, JoinedElements, Zenon
  <2> QED
    BY <1>6, <2>1, Zenon DEF IsJoined
<1>9. a + n = r + k
  BY <1>2
<1>10. ASSUME NEW i \in 1 .. r + k PROVE u[i] = v[i]
  <2>1. CASE i <= r
    <3>1. i \in 1 .. a + n /\ i <= a /\ i \in 1 .. a /\ i \in 1 .. r
      BY <1>1, <1>9, <2>1
    <3>2. u[i] = s[i] /\ v[i] = t[i]
      BY <1>7, <1>8, <2>1, <3>1
    <3> QED
      BY <1>4, <3>1, <3>2
  <2>2. CASE ~(i <= r)
    <3>1. PICK d \in 1 .. k : d = i - r /\ r + d = i
      <4>1. i - r \in 1 .. k /\ r + (i - r) = i
        BY <2>2
      <4> QED
        BY <4>1
    <3>2. v[i] = z[d]
      BY <1>8, <2>2, <3>1
    <3>3. u[i] = IF i <= a THEN Positional(i) ELSE y[i - a]
      <4>1. i \in 1 .. a + n /\ (i <= a => i \in 1 .. a)
        BY <1>9
      <4>2. u[i] = IF i <= a THEN s[i] ELSE y[i - a]
        BY <1>7, <4>1
      <4> QED
        BY <1>4, <4>1, <4>2
    <3> QED
      BY <1>1, <3>1, <3>2, <3>3
  <2> QED
    BY <2>1, <2>2
<1>11. u = v
  BY <1>7, <1>8, <1>9, <1>10, SeqEqual
<1> QED
  BY <1>1, <1>3, <1>5, <1>6, <1>11

\* What fnCall pushes for the default parameters.
Fill ==
  IF callee.defaults = 0 THEN <<>>
  ELSE IF named # <<>>
  THEN [d \in DefaultNames |-> IF d \in ToSet(named) THEN NamedValue(d) ELSE Default(d)]
  ELSE Lacking

\* With no more arguments than required ones, fnCall pushes all of what the
\* default parameters are bound to.
LEMMA AllFilled ==
  ASSUME CallState, values = PoppedValues, ToSet(named) \subseteq DefaultNames,
         argc = callee.required, callee.variadic \/ Given = argc
  PROVE  Fill = Defaults(Given)
<1> DEFINE p == Given
<1>1. PICK r \in Nat, k \in Nat :
        /\ r = callee.required /\ k = callee.defaults /\ Arity = r + k
        /\ DefaultNames = 1 .. k /\ argc = r
  BY CallTypes DEF Arity, DefaultNames
<1>2. ASSUME NEW d \in 1 .. k, d \notin ToSet(named) PROVE MeaningOfDefault(p, d) = Default(d)
  <2>1. callee.variadic \/ ~(r + d <= p)
    BY <1>1
  <2> QED
    BY <1>1, <1>2, <2>1 DEF MeaningOfDefault
<1>3. ASSUME NEW d \in 1 .. k, d \in ToSet(named) PROVE MeaningOfDefault(p, d) = NamedValue(d)
  BY <1>3, NamedValueIsRight DEF MeaningOfDefault
<1>4. Defaults(p) = [d \in 1 .. k |-> MeaningOfDefault(p, d)]
  BY <1>1 DEF Defaults
<1>5. CASE k = 0
  BY <1>1, <1>4, <1>5 DEF Fill
<1>6. CASE k # 0 /\ named # <<>>
  <2>1. Fill = [d \in 1 .. k |-> IF d \in ToSet(named) THEN NamedValue(d) ELSE Default(d)]
    BY <1>1, <1>6 DEF Fill
  <2> QED
    BY <1>1, <1>2, <1>3, <1>4, <2>1
<1>7. CASE k # 0 /\ named = <<>>
  <2>1. ToSet(named) = {}
    BY <1>7 DEF ToSet
  <2>2. Fill = [d \in 1 .. k |-> Default(d)]
    <3>1. Arity - argc = k /\ callee.defaults - (Arity - argc) = 0
      BY <1>1
    <3>2. \A d \in 1 .. k : 0 + d = d
      OBVIOUS
    <3> QED
      BY <1>1, <1>7, <3>1, <3>2 DEF Fill, Lacking
  <2> QED
    BY <1>1, <1>2, <1>4, <2>1, <2>2
<1> QED
  BY <1>5, <1>6, <1>7

\* With more, it pushes the last ones, and the arguments are the others.
LEMMA RestFilled ==
  ASSUME CallState, ~callee.variadic, named = <<>>, callee.required < argc, argc <= Arity
  PROVE  Fill \in Seq(Slots) /\ Arguments(argc) \o Fill = Arguments(callee.required) \o Defaults(argc)
<1>1. PICK r \in Nat, k \in Nat, a \in Nat :
        /\ r = callee.required /\ k = callee.defaults /\ a = argc /\ Arity = r + k
        /\ DefaultNames = 1 .. k /\ r < a /\ a <= r + k
  BY CallTypes DEF Arity, DefaultNames
<1>2. PICK n \in Nat : n = (r + k) - a
  BY <1>1
<1>3. Fill = [i \in 1 .. n |-> Default(k - n + i)]
  <2>1. k # 0 /\ Arity - argc = n
    BY <1>1, <1>2
  <2> QED
    BY <1>1, <2>1 DEF Fill, Lacking
<1>4. \A i \in 1 .. n : k - n + i \in Nat
  <2>1. k - n \in Nat
    BY <1>1, <1>2
  <2> QED
    BY <2>1
<1>5. PICK y \in Seq(Slots) : y = Fill
  <2>1. \A i \in 1 .. n : Default(k - n + i) \in Slots
    BY <1>4, SlotsHold
  <2> DEFINE y == [i \in 1 .. n |-> Default(k - n + i)]
  <2>2. y \in [1 .. n -> Slots]
    BY <2>1, Zenon
  <2>3. y = Fill
    BY <1>3
  <2> HIDE DEF y
  <2>4. y \in Seq(Slots)
    BY <2>2
  <2> QED
    BY <2>3, <2>4
<1>6. Len(y) = n /\ \A i \in 1 .. n : y[i] = Default(k - n + i)
  BY <1>3, <1>5
<1>7. ToSet(named) = {}
  BY DEF ToSet
<1>8. PICK z \in Seq(Slots) : z = Defaults(a)
  BY <1>1, <1>7, MeaningTyped
<1>9. Len(z) = k
  BY <1>1, <1>7, <1>8, MeaningTyped
<1>10. ASSUME NEW d \in 1 .. k
       PROVE  z[d] = IF r + d <= a THEN Positional(r + d) ELSE y[(r + d) - a]
  <2>1. z[d] = IF r + d <= a THEN Positional(r + d) ELSE Default(d)
    BY <1>1, <1>7, <1>8 DEF Defaults, MeaningOfDefault
  <2>2. CASE r + d <= a
    BY <2>1, <2>2
  <2>3. CASE ~(r + d <= a)
    <3>1. (r + d) - a \in 1 .. n /\ k - n + ((r + d) - a) = d
      BY <1>2, <2>3
    <3>2. y[(r + d) - a] = Default(d)
      BY <1>6, <3>1
    <3> QED
      BY <2>1, <2>3, <3>2
  <2> QED
    BY <2>2, <2>3
<1>11. Arguments(a) \o y = Arguments(r) \o z
  <2>1. /\ callee.required <= argc /\ argc <= Arity
        /\ Len(y) = Arity - argc /\ Len(z) = callee.defaults
    BY <1>1, <1>2, <1>6, <1>9
  <2>2. \A d \in DefaultNames :
          z[d] = IF callee.required + d <= argc THEN Positional(callee.required + d)
                 ELSE y[(callee.required + d) - argc]
    BY <1>1, <1>10
  <2>3. Arguments(argc) \o y = Arguments(callee.required) \o z
    BY <2>1, <2>2, Completed
  <2> QED
    BY <1>1, <2>3
<1> QED
  BY <1>1, <1>5, <1>8, <1>11

LEMMA FillDefaultsKeeps == CallInv /\ FillDefaults => CallInv'
<1> SUFFICES ASSUME CallInv, FillDefaults PROVE CallInv'
  OBVIOUS
<1>1. /\ CallState /\ phase = "fill" /\ values = PoppedValues /\ callee.kind = "function"
      /\ Listed /\ Fits /\ stack = Base(argc) \o ListSlot
      /\ argc = IF callee.variadic THEN callee.required ELSE Given
  BY DEF CallInv, FillDefaults, IsMethod
<1>2. /\ stack' = stack \o Fill /\ phase' = "enter" /\ callee' = callee /\ argc' = argc
      /\ named' = named /\ values' = values /\ list' = list
  BY DEF FillDefaults, Fill
<1>3. /\ Given \in Nat /\ callee.required <= Given /\ ToSet(named) \subseteq DefaultNames
      /\ callee.required \in Nat /\ argc \in Nat /\ callee.variadic \in BOOLEAN
  <2>1. /\ callee.required \in Nat /\ argc \in Nat /\ Len(list) \in Nat
        /\ callee.variadic \in BOOLEAN
    BY <1>1, CallTypes
  <2> QED
    BY <1>1, <2>1 DEF Given, Fits
<1>4. PICK bc \in Seq(Slots) : bc = <<Below, TheCallee>>
  BY SlotsHold, Pair
<1>5. Base(argc) = bc \o Arguments(argc)
  <2>1. bc \o <<>> = bc
    BY ConcatEmptySeq
  <2> QED
    BY <1>1, <1>4, <2>1 DEF Base, FirstArgument
<1>6. PICK x \in Seq(Slots), r \in Seq(Slots), l \in Seq(Slots), d \in Seq(Slots) :
        /\ x = Arguments(argc) /\ r = Required /\ r = Arguments(callee.required)
        /\ l = ListSlot /\ d = Defaults(Given)
  BY <1>1, <1>3, ArgumentsTyped, MeaningTyped
<1>7. bc \o x \o l \o Fill = bc \o r \o l \o d
  <2>1. CASE argc = callee.required
    <3>1. callee.variadic \/ Given = argc
      BY <1>1
    <3>2. Fill = d
      BY <1>1, <1>3, <1>6, <2>1, <3>1, AllFilled
    <3> QED
      BY <1>6, <2>1, <3>2
  <2>2. CASE argc # callee.required
    <3>1. /\ ~callee.variadic /\ Given = argc /\ named = <<>>
          /\ callee.required < argc /\ argc <= Arity
      BY <1>1, <1>3, <2>2 DEF Fits
    <3>2. Fill \in Seq(Slots) /\ x \o Fill = r \o d
      BY <1>1, <1>6, <3>1, RestFilled
    <3>3. PICK f \in Seq(Slots) : f = Fill
      BY <3>2
    <3>4. l = <<>> /\ bc \o x \in Seq(Slots) /\ bc \o r \in Seq(Slots)
      BY <1>6, <3>1, Joined DEF ListSlot
    <3>5. (bc \o x) \o l = bc \o x /\ (bc \o r) \o l = bc \o r
      BY <3>4, ConcatEmptySeq
    <3>6. (bc \o x) \o f = bc \o (x \o f)
      <4>1. Glue(bc, Glue(x, f)) = Glue(Glue(bc, x), f)
        BY Regrouped
      <4> QED
        BY <4>1 DEF Glue
    <3>7. (bc \o r) \o d = bc \o (r \o d)
      <4>1. Glue(bc, Glue(r, d)) = Glue(Glue(bc, r), d)
        BY Regrouped
      <4> QED
        BY <4>1 DEF Glue
    <3> QED
      BY <3>2, <3>3, <3>5, <3>6, <3>7
  <2> QED
    BY <2>1, <2>2
<1>8. stack' = <<Below>> \o Meaning(Given)
  <2>1. <<Below>> \o Meaning(Given) = bc \o r \o l \o d
    BY <1>1, <1>3, <1>4, <1>6, FunctionMeaning
  <2> QED
    BY <1>1, <1>2, <1>5, <1>6, <1>7, <2>1
<1>9. /\ Given' = Given /\ Meaning(Given)' = Meaning(Given) /\ Listed' /\ Fits'
      /\ IsMethod' = IsMethod /\ CallState'
  <2>1. CallState'
    BY <1>1, <1>2 DEF CallState, CallTypeOK
  <2>2. Given' = Given /\ Listed' /\ IsMethod' = IsMethod
    BY <1>1, <1>2 DEF Given, Listed, IsMethod
  <2>3. Fits'
    BY <1>1, <1>2, <2>2 DEF Fits, Arity, DefaultNames
  <2>4. Meaning(Given)' = Meaning(Given)
    BY <1>2, <2>2 DEF Meaning, MeaningOfDefault, Required, DefaultNames, IsMethod
  <2> QED
    BY <2>1, <2>2, <2>3, <2>4
<1> QED
  BY <1>1, <1>2, <1>8, <1>9 DEF CallInv, IsMethod

\* The frame of a function of the program begins at the function.
LEMMA EnterKeeps == CallInv /\ Enter => CallInv'
<1> SUFFICES ASSUME CallInv, Enter PROVE CallInv'
  OBVIOUS
<1>1. /\ CallState /\ phase = "enter" /\ callee.kind = "function" /\ Listed /\ Fits
      /\ argc = IF callee.variadic /\ ~IsMethod THEN callee.required ELSE Given
      /\ stack = <<Below>> \o Meaning(Given)
  BY DEF CallInv, Enter
<1>2. /\ seen' = LastOf(stack, NumLocals) /\ phase' = "running" /\ callee' = callee
      /\ argc' = argc /\ named' = named /\ values' = values /\ stack' = stack /\ list' = list
  BY DEF Enter
<1>3. Given \in Nat
  BY <1>1, CallTypes DEF Given
<1>4. /\ Meaning(Given) \in Seq(Slots) /\ Len(Meaning(Given)) = NumLocals /\ NumLocals \in Nat
  BY <1>1, <1>3, FunctionMeaning DEF Fits
<1>5. LastOf(stack, NumLocals) = Meaning(Given)
  <2>1. PICK x \in Seq(Slots) : x = <<Below>>
    BY SlotsHold, Single
  <2>2. PICK m \in Seq(Slots) : m = Meaning(Given) /\ Len(m) = NumLocals
    BY <1>4
  <2> QED
    BY <1>1, <1>4, <2>1, <2>2, OffTop
<1>6. /\ Given' = Given /\ Meaning(Given)' = Meaning(Given) /\ Listed' /\ Fits'
      /\ IsMethod' = IsMethod /\ CallState'
  <2>1. CallState'
    BY <1>1, <1>2 DEF CallState, CallTypeOK
  <2>2. Given' = Given /\ Listed' /\ IsMethod' = IsMethod
    BY <1>1, <1>2 DEF Given, Listed, IsMethod
  <2>3. Fits'
    BY <1>1, <1>2, <2>2 DEF Fits, Arity, DefaultNames
  <2>4. Meaning(Given)' = Meaning(Given)
    BY <1>2, <2>2 DEF Meaning, MeaningOfDefault, Required, DefaultNames, IsMethod
  <2> QED
    BY <2>1, <2>2, <2>3, <2>4
<1> QED
  BY <1>1, <1>2, <1>5, <1>6 DEF CallInv

\* The stack of a native call: one slot of the caller, and what the call pops.
LEMMA BaseTop ==
  ASSUME CallState, NEW p \in Nat
  PROVE  /\ LastOf(Base(p), p) = Arguments(p)
         /\ p + 1 + Len(FirstArgument) \in Nat
         /\ Drop(Base(p), p + 1 + Len(FirstArgument)) = <<Below>>
<1>1. PICK f \in Seq(Slots), a \in Seq(Slots) :
        f = FirstArgument /\ a = Arguments(p) /\ Len(a) = p
  BY BaseSplit, ArgumentsTyped
<1>2. PICK b \in Seq(Slots) : b = <<Below, TheCallee>>
  BY SlotsHold, Pair
<1>3. LastOf((b \o f) \o a, p) = a
  <2>1. PICK bf \in Seq(Slots) : bf = b \o f
    BY Joined
  <2> QED
    BY <1>1, <2>1, OffTop
<1>4. PICK e \in Seq(Slots) : e = <<>> /\ Len(e) = 0
  <2>1. <<>> \in Seq(Slots) /\ Len(<<>>) = 0
    BY EmptySeq
  <2> QED
    BY <2>1
<1>5. /\ <<TheCallee>> \o f \o a \o e \in Seq(Slots)
      /\ Len(<<TheCallee>> \o f \o a \o e) = ((1 + Len(f)) + Len(a)) + Len(e)
      /\ <<Below>> \o (<<TheCallee>> \o f \o a \o e) = b \o f \o a \o e
  BY <1>2, Layered
<1>6. PICK x \in Seq(Slots) :
        x = <<TheCallee>> \o f \o a \o e /\ Len(x) = ((1 + Len(f)) + Len(a)) + Len(e)
  BY <1>5
<1>7. (b \o f \o a) \o e = b \o f \o a
  <2>1. PICK bf \in Seq(Slots) : bf = b \o f
    BY Joined
  <2>2. PICK bfa \in Seq(Slots) : bfa = bf \o a
    BY Joined
  <2> QED
    BY <1>4, <2>1, <2>2, ConcatEmptySeq
<1>8. Base(p) = <<Below>> \o x
  BY <1>1, <1>2, <1>5, <1>6, <1>7 DEF Base
<1>9. PICK n \in Nat : n = p + 1 + Len(f) /\ n = Len(x)
  BY <1>1, <1>4, <1>6
<1>10. Drop(<<Below>> \o x, n) = <<Below>>
  <2>1. PICK o \in Seq(Slots) : o = <<Below>>
    BY SlotsHold, Single
  <2> QED
    BY <1>9, <2>1, OffTop
<1> QED
  BY <1>1, <1>2, <1>3, <1>8, <1>9, <1>10 DEF Base

LEMMA ParseFailsKeeps == CallInv /\ ParseFails => CallInv'
<1> SUFFICES ASSUME CallInv, ParseFails PROVE CallInv'
  OBVIOUS
<1>1. /\ phase' = "rejected" /\ callee' = callee /\ argc' = argc /\ named' = named
      /\ list' = list
  BY DEF ParseFails
<1>2. CallState'
  BY <1>1 DEF CallInv, CallState, CallTypeOK
<1> QED
  BY <1>1, <1>2 DEF CallInv

\* A call leaves its result in the place of all that it was given.
LEMMA ReturnKeeps == CallInv /\ Return => CallInv'
<1> SUFFICES ASSUME CallInv, Return PROVE CallInv'
  OBVIOUS
<1>1. /\ CallState /\ phase = "running" /\ seen = Meaning(Given) /\ Fits
      /\ stack = IF callee.kind = "function" THEN <<Below>> \o seen ELSE Base(argc)
  BY DEF CallInv, Return
<1>2. /\ stack' = Append(Drop(stack, Popped), Result) /\ phase' = "returned"
      /\ callee' = callee /\ argc' = argc /\ named' = named /\ list' = list
  BY DEF Return
<1>3. Drop(stack, Popped) = <<Below>>
  <2>1. CASE callee.kind = "function"
    <3>1. Given \in Nat
      BY <1>1, CallTypes DEF Given
    <3>2. PICK m \in Seq(Slots) : m = seen /\ Len(m) = NumLocals /\ NumLocals \in Nat
      BY <1>1, <2>1, <3>1, FunctionMeaning DEF Fits
    <3>3. PICK o \in Seq(Slots) : o = <<Below>>
      BY SlotsHold, Single
    <3> QED
      BY <1>1, <2>1, <3>2, <3>3, OffTop DEF Popped
  <2>2. CASE callee.kind # "function"
    <3>1. argc \in Nat
      BY <1>1, CallTypes
    <3> QED
      BY <1>1, <2>2, <3>1, BaseTop DEF Popped
  <2> QED
    BY <2>1, <2>2
<1>4. stack' = <<Below, Result>>
  BY <1>2, <1>3, SlotsHold, Pair
<1>5. CallState'
  BY <1>1, <1>2 DEF CallState, CallTypeOK
<1> QED
  BY <1>2, <1>4, <1>5 DEF CallInv

\* ArgParser finds what the call means, as the interpreter has no function
\* with more than one default parameter.
LEMMA ParsedRight ==
  ASSUME CallState, callee.kind # "function", values = PoppedValues, Fits, stack = Base(argc),
         argc = IF callee.variadic THEN callee.required ELSE Given
  PROVE  Parsed = Required \o Defaults(Given)
<1>1. PICK r \in Nat, k \in Nat, a \in Nat, p \in Nat :
        /\ r = callee.required /\ k = callee.defaults /\ a = argc /\ p = Given
        /\ Arity = r + k /\ DefaultNames = 1 .. k /\ k <= 1 /\ r <= a /\ a <= r + k
        /\ a = IF callee.variadic THEN r ELSE p
  <2>1. /\ callee.required \in Nat /\ callee.defaults \in Nat /\ argc \in Nat
        /\ Len(list) \in Nat /\ callee.defaults <= 1 /\ callee.variadic \in BOOLEAN
    BY CallTypes
  <2>2. Given \in Nat
    BY <2>1 DEF Given
  <2>3. callee.required <= argc /\ argc <= callee.required + callee.defaults
    BY <2>1, <2>2 DEF Fits, Arity
  <2> QED
    BY <2>1, <2>2, <2>3 DEF Arity, DefaultNames
<1>2. ToSet(named) \subseteq 1 .. k /\ ToSet(named) \subseteq DefaultNames
  BY <1>1 DEF Fits
<1>3. PICK s \in Seq(Slots), t \in Seq(Slots) :
        s = Required /\ Len(s) = r /\ t = Defaults(p) /\ Len(t) = k
  BY <1>1, <1>2, MeaningTyped
<1>4. /\ \A i \in 1 .. r : s[i] = Positional(i)
      /\ \A d \in 1 .. k : t[d] = MeaningOfDefault(p, d)
  BY <1>1, <1>3 DEF Required, Defaults
<1>5. PICK w : w = s \o t
  OBVIOUS
<1>6. /\ w \in Seq(Slots) /\ Len(w) = r + k
      /\ \A i \in 1 .. r + k : w[i] = IF i <= r THEN s[i] ELSE t[i - r]
  <2>1. IsJoined(s \o t, s, t, r, k, Slots)
    BY <1>3, JoinedElements, Zenon
  <2> QED
    BY <1>5, <2>1, Zenon DEF IsJoined
<1>7. Args = Arguments(a)
  BY <1>1, BaseTop DEF Args
<1>8. PICK v : v = Parsed
  OBVIOUS
<1>9. v = [i \in 1 .. r + k |->
             IF i <= a THEN Positional(i)
             ELSE IF k = 0 THEN Nothing
             ELSE IF i - a \in ToSet(named) THEN ParsedNamed(i - a) ELSE Default(i - a)]
  <2>1. \A i \in 1 .. r + k : i <= a => Args[i] = Positional(i)
    BY <1>1, <1>7 DEF Arguments
  <2> QED
    BY <1>1, <1>8, <2>1 DEF Parsed, ParsedDefault
<1>10. ASSUME NEW i \in 1 .. r + k PROVE v[i] = w[i]
  <2>1. CASE i <= r
    <3>1. i <= a /\ i \in 1 .. r
      BY <1>1, <2>1
    <3>2. w[i] = Positional(i)
      BY <1>4, <1>6, <2>1, <3>1
    <3> QED
      BY <1>9, <3>1, <3>2
  <2>2. CASE ~(i <= r)
    <3>1. k = 1 /\ i = r + 1 /\ i - r = 1
      BY <1>1, <2>2
    <3>2. w[i] = MeaningOfDefault(p, 1)
      BY <1>4, <1>6, <2>2, <3>1
    <3>3. CASE a = r
      <4>1. v[i] = IF 1 \in ToSet(named) THEN ParsedNamed(1) ELSE Default(1)
        <5>1. ~(i <= a) /\ i - a = 1
          BY <3>1, <3>3
        <5> QED
          BY <1>9, <3>1, <5>1
      <4>2. 1 \in ToSet(named) => ParsedNamed(1) = Named(1)
        <5>1. ToSet(named) \subseteq {1}
          BY <1>2, <3>1
        <5> QED
          BY <5>1, ParsedNamedIsRight
      <4>3. callee.variadic \/ ~(r + 1 <= p)
        BY <1>1, <3>3
      <4> QED
        BY <1>1, <3>2, <4>1, <4>2, <4>3 DEF MeaningOfDefault
    <3>4. CASE a # r
      <4>1. ~callee.variadic /\ p = r + 1 /\ a = r + 1
        <5>1. a = r + 1
          <6>1. r <= a /\ a <= r + k
            BY <1>1
          <6> QED
            BY <3>1, <3>4, <6>1
        <5>2. ~callee.variadic
          BY <1>1, <3>4
        <5> QED
          BY <1>1, <5>1, <5>2
      <4>2. named = <<>>
        BY <1>1, <4>1 DEF Fits
      <4>3. ToSet(named) = {}
        BY <4>2 DEF ToSet
      <4>4. v[i] = Positional(i)
        BY <1>9, <3>1, <4>1
      <4>5. MeaningOfDefault(p, 1) = Positional(r + 1)
        BY <1>1, <4>1, <4>3 DEF MeaningOfDefault
      <4> QED
        BY <3>1, <3>2, <4>4, <4>5
    <3> QED
      BY <3>3, <3>4
  <2> QED
    BY <2>1, <2>2
<1>11. v = w
  <2>1. v = [i \in 1 .. r + k |-> v[i]]
    BY <1>9
  <2>2. w = [i \in 1 .. r + k |-> w[i]]
    BY <1>6
  <2> QED
    BY <1>10, <2>1, <2>2
<1> QED
  BY <1>1, <1>3, <1>5, <1>8, <1>11

LEMMA ParseKeeps == CallInv /\ Parse => CallInv'
<1> SUFFICES ASSUME CallInv, Parse PROVE CallInv'
  OBVIOUS
<1>1. /\ CallState /\ phase = "parse" /\ callee.kind # "function" /\ Listed /\ Fits
      /\ values = PoppedValues /\ stack = Base(argc)
      /\ argc = IF callee.variadic /\ ~IsMethod THEN callee.required ELSE Given
  BY DEF CallInv, Parse
<1>2. /\ seen' = IF callee.variadic /\ IsMethod THEN <<>> ELSE Parsed
      /\ phase' = "running" /\ callee' = callee
      /\ argc' = argc /\ named' = named /\ values' = values /\ stack' = stack /\ list' = list
  BY DEF Parse
<1>3. Given \in Nat
  BY <1>1, CallTypes DEF Given
<1>4. Meaning(Given) = IF callee.variadic /\ IsMethod THEN <<>> ELSE Required \o Defaults(Given)
  BY <1>1, <1>3, MeaningTyped DEF Fits
<1>5. seen' = Meaning(Given)
  <2>1. CASE callee.variadic /\ IsMethod
    BY <1>2, <1>4, <2>1
  <2>2. CASE ~(callee.variadic /\ IsMethod)
    <3>1. argc = IF callee.variadic THEN callee.required ELSE Given
      BY <1>1, <2>2
    <3> QED
      BY <1>1, <1>2, <1>4, <2>2, <3>1, ParsedRight
  <2> QED
    BY <2>1, <2>2
<1>6. /\ Given' = Given /\ Meaning(Given)' = Meaning(Given) /\ Listed' /\ Fits'
      /\ IsMethod' = IsMethod /\ CallState' /\ Base(argc)' = Base(argc)
  <2>1. CallState'
    BY <1>1, <1>2 DEF CallState, CallTypeOK
  <2>2. Given' = Given /\ Listed' /\ IsMethod' = IsMethod
    BY <1>1, <1>2 DEF Given, Listed, IsMethod
  <2>3. Fits'
    BY <1>1, <1>2, <2>2 DEF Fits, Arity, DefaultNames
  <2>4. Meaning(Given)' = Meaning(Given)
    BY <1>2, <2>2 DEF Meaning, MeaningOfDefault, Required, DefaultNames, IsMethod
  <2>5. Base(argc)' = Base(argc)
    BY <1>2 DEF Base, FirstArgument
  <2> QED
    BY <2>1, <2>2, <2>3, <2>4, <2>5
<1> QED
  BY <1>1, <1>2, <1>5, <1>6 DEF CallInv

LEMMA StutterKeeps == CallInv /\ UNCHANGED vars => CallInv'
<1> SUFFICES ASSUME CallInv, UNCHANGED vars PROVE CallInv'
  OBVIOUS
<1>1. /\ callee' = callee /\ argc' = argc /\ named' = named /\ values' = values
      /\ stack' = stack /\ list' = list /\ seen' = seen /\ phase' = phase
  BY DEF vars
<1>2. /\ CallState' = CallState /\ Given' = Given /\ IsMethod' = IsMethod
      /\ Meaning(Given)' = Meaning(Given) /\ Base(argc)' = Base(argc) /\ Fits' = Fits
      /\ Listed' = Listed /\ PoppedValues' = PoppedValues /\ Accepts' = Accepts
      /\ Pushed(argc, named)' = Pushed(argc, named) /\ ListSlot' = ListSlot
  BY <1>1 DEF CallState, CallTypeOK, Given, IsMethod, Meaning, MeaningOfDefault, Required,
              DefaultNames, Base, FirstArgument, Fits, Arity, Listed, PoppedValues, Accepts,
              TooFew, TooMany, UnknownNames, GivenTwice, Counted, Pushed, ListSlot
<1> QED
  BY <1>1, <1>2 DEF CallInv

LEMMA NextCall == CallInv /\ [Next]_vars => CallInv'
<1> SUFFICES ASSUME CallInv, [Next]_vars PROVE CallInv'
  OBVIOUS
<1>1. CASE PopNamed
  BY <1>1, PopNamedKeeps
<1>2. CASE Reject
  BY <1>2, RejectKeeps
<1>3. CASE Accept
  BY <1>3, AcceptKeeps
<1>4. CASE CollectVariadic
  BY <1>4, CollectKeeps
<1>5. CASE FillDefaults
  BY <1>5, FillDefaultsKeeps
<1>6. CASE Enter
  BY <1>6, EnterKeeps
<1>7. CASE Parse
  BY <1>7, ParseKeeps
<1>8. CASE ParseFails
  BY <1>8, ParseFailsKeeps
<1>9. CASE Return
  BY <1>9, ReturnKeeps
<1>10. CASE UNCHANGED vars
  BY <1>10, StutterKeeps
<1> QED
  BY <1>1, <1>2, <1>3, <1>4, <1>5, <1>6, <1>7, <1>8, <1>9, <1>10 DEF Next

-----------------------------------------------------------------------------
(* What follows. *)

\* The callee, the instance and the arguments are told apart.
LEMMA PassedIsCounted ==
  ASSUME CallState, stack = Base(argc)
  PROVE  Passed = argc
<1>1. PICK a \in Nat : a = argc
  BY CallTypes
<1>2. PICK f \in Seq(Slots), s \in Seq(Slots) :
        f = FirstArgument /\ s = Arguments(a) /\ Len(s) = a
  BY <1>1, BaseSplit, ArgumentsTyped
<1>3. \A i \in 1 .. a : s[i][1] = "positional"
  BY <1>2 DEF Arguments, Positional
<1>4. PICK b \in Seq(Slots) : b = <<Below, TheCallee>> /\ Len(b) = 2 /\ b[1] = Below /\ b[2] = TheCallee
  <2>1. <<Below, TheCallee>> \in Seq(Slots)
    BY SlotsHold, Pair
  <2>2. Len(<<Below, TheCallee>>) = 2 /\ <<Below, TheCallee>>[1] = Below
        /\ <<Below, TheCallee>>[2] = TheCallee
    OBVIOUS
  <2> QED
    BY <2>1, <2>2
<1>5. \A i \in 1 .. Len(f) : f[i][1] # "positional"
  BY <1>2 DEF FirstArgument, Instance
<1>6. \A i \in 1 .. 2 : b[i][1] # "positional"
  BY <1>4 DEF Below, TheCallee
<1>7. \E c \in Seq(Slots) : \E n \in Nat :
        c = b \o f /\ n = Len(c) /\ \A i \in 1 .. n : c[i][1] # "positional"
  <2>1. PICK c : c = b \o f
    OBVIOUS
  <2>2. /\ c \in Seq(Slots) /\ Len(c) = 2 + Len(f)
        /\ \A i \in 1 .. 2 + Len(f) : c[i] = IF i <= 2 THEN b[i] ELSE f[i - 2]
    <3>1. PICK m \in Nat, t \in Nat : m = Len(f) /\ t = 2
      BY <1>4
    <3>2. Len(b) = t /\ Len(f) = m
      BY <1>4, <3>1
    <3>3. IsJoined(b \o f, b, f, t, m, Slots)
      BY <3>2, JoinedElements, Zenon
    <3> QED
      BY <2>1, <3>1, <3>3 DEF IsJoined
  <2>3. ASSUME NEW i \in 1 .. 2 + Len(f) PROVE c[i][1] # "positional"
    <3>1. CASE i <= 2
      BY <1>6, <2>2, <3>1
    <3>2. CASE ~(i <= 2)
      <4>1. i - 2 \in 1 .. Len(f)
        BY <3>2
      <4> QED
        BY <1>5, <2>2, <3>2, <4>1
    <3> QED
      BY <3>1, <3>2
  <2>4. PICK n \in Nat : n = Len(c) /\ n = 2 + Len(f)
    BY <2>2
  <2>5. \A i \in 1 .. n : c[i][1] # "positional"
    BY <2>3, <2>4
  <2> QED
    BY <2>1, <2>2, <2>4, <2>5
<1>8. PICK c \in Seq(Slots) : \E n \in Nat :
        c = b \o f /\ n = Len(c) /\ \A i \in 1 .. n : c[i][1] # "positional"
  BY <1>7
<1>9. PICK n \in Nat : c = b \o f /\ n = Len(c) /\ \A i \in 1 .. n : c[i][1] # "positional"
  BY <1>8
<1>10. PICK w : w = c \o s
  OBVIOUS
<1>11. /\ w \in Seq(Slots) /\ Len(w) = n + a /\ DOMAIN w = 1 .. n + a
      /\ \A i \in 1 .. n + a : w[i] = IF i <= n THEN c[i] ELSE s[i - n]
  BY <1>2, <1>9, <1>10, ConcatProperties
<1>12. {i \in DOMAIN w : w[i][1] = "positional"} = (n + 1) .. (n + a)
  <2>1. ASSUME NEW i \in 1 .. n + a PROVE w[i][1] = "positional" <=> ~(i <= n)
    <3>1. CASE i <= n
      <4>1. i \in 1 .. n
        BY <3>1
      <4>2. w[i] = c[i]
        BY <1>11, <3>1
      <4> QED
        BY <1>9, <3>1, <4>1, <4>2
    <3>2. CASE ~(i <= n)
      <4>1. i - n \in 1 .. a
        BY <3>2
      <4> QED
        BY <1>3, <1>11, <3>2, <4>1
    <3> QED
      BY <3>1, <3>2
  <2> QED
    BY <1>11, <2>1
<1>13. Cardinality((n + 1) .. (n + a)) = a
  <2>1. n + 1 \in Int /\ n + a \in Int
    OBVIOUS
  <2>2. Cardinality((n + 1) .. (n + a))
          = IF n + 1 > n + a THEN 0 ELSE (n + a) - (n + 1) + 1
    BY <2>1, FS_Interval
  <2> QED
    BY <2>2
<1>14. stack = w
  BY <1>1, <1>2, <1>4, <1>9, <1>10 DEF Base
<1> QED
  BY <1>1, <1>12, <1>13, <1>14 DEF Passed

\* The invariant of every call.
LEMMA InvariantHolds == Spec => []CallInv
<1>1. Init => CallInv
  BY InitCall
<1>2. CallInv /\ [Next]_vars => CallInv'
  BY NextCall
<1> QED
  BY <1>1, <1>2, PTL DEF Spec

\* A call is one of the callee that it began with, and the positional arguments
\* that it counts are as many as a program may pass, or fewer: argc, which the
\* call instructions and nativeCall diminish, never falls below zero.
THEOREM CallsTyped == Spec => []CallTypeOK
<1>1. CallInv => CallTypeOK
  BY DEF CallInv, CallState
<1> QED
  BY <1>1, InvariantHolds, PTL

\* Whatever fnCall and ArgParser push, pop and count from the end, a callee that
\* runs finds each parameter bound to the argument that stands for it.
THEOREM ParametersAreBound == Spec => []BoundRight
<1>1. CallInv => BoundRight
  <2> SUFFICES ASSUME CallInv, phase = "running"
               PROVE  /\ seen = Meaning(Given)
                      /\ list = [i \in DOMAIN list |-> Positional(callee.required + i)]
    BY DEF BoundRight
  <2>1. CallState /\ seen = Meaning(Given) /\ Listed
    BY DEF CallInv
  <2>2. DOMAIN list = 1 .. Len(list)
    BY <2>1 DEF CallState
  <2> QED
    BY <2>1, <2>2 DEF Listed, After
<1> QED
  BY <1>1, InvariantHolds, PTL

\* When a call returns its result is all that it has left on the caller's stack,
\* for functions of the program and of the interpreter, methods and constructors.
THEOREM CallsLeaveTheirResult == Spec => []StackBalanced
<1>1. CallInv => StackBalanced
  BY DEF CallInv, StackBalanced
<1> QED
  BY <1>1, InvariantHolds, PTL

\* A call that validateCall accepts gives every parameter one value at most, and
\* those that have no default one exactly one.
THEOREM AcceptedIsInOrder == Spec => []OnlyInOrder
<1>1. CallInv => OnlyInOrder
  <2> SUFFICES ASSUME CallInv, phase = "collect" PROVE InOrder
    BY DEF OnlyInOrder
  <2>1. CallState /\ stack = Base(argc) /\ Accepts
    BY DEF CallInv
  <2>2. Passed = argc
    BY <2>1, PassedIsCounted
  <2>3. PICK r \in Nat, k \in Nat, a \in Nat :
          r = callee.required /\ k = callee.defaults /\ a = argc /\ Arity = r + k
    BY <2>1, CallTypes DEF Arity
  <2>4. r <= a
    BY <2>1, <2>3 DEF Accepts, TooFew
  <2>5. callee.variadic \/ a <= r + k
    BY <2>1, <2>3 DEF Accepts, TooMany, Counted
  <2>6. ToSet(named) \subseteq DefaultNames
    BY <2>1 DEF Accepts, UnknownNames
  <2>7. callee.variadic \/ \A d \in ToSet(named) : a < r + d
    <3> SUFFICES ASSUME ~callee.variadic, NEW d \in ToSet(named) PROVE a < r + d
      OBVIOUS
    <3>1. named # <<>>
      BY DEF ToSet
    <3>2. ~(a > r)
      BY <2>1, <2>3, <3>1 DEF Accepts, GivenTwice, Counted
    <3>3. d \in 1 .. k
      BY <2>3, <2>6 DEF DefaultNames
    <3> QED
      BY <3>2, <3>3
  <2> QED
    BY <2>2, <2>3, <2>4, <2>5, <2>6, <2>7 DEF InOrder
<1> QED
  BY <1>1, InvariantHolds, PTL

\* And validateCall rejects no call that is in order, but those that it means to:
\* a default parameter given by position and another by name.
THEOREM InOrderIsAccepted == Spec => []InOrderAccepted
<1>1. CallInv => InOrderAccepted
  <2> SUFFICES ASSUME CallInv, phase = "validate", InOrder, ~Accepts
               PROVE  ~callee.variadic /\ named # <<>> /\ Passed > callee.required
    BY DEF InOrderAccepted
  <2>1. CallState /\ stack = Base(argc)
    BY DEF CallInv
  <2>2. Passed = argc
    BY <2>1, PassedIsCounted
  <2>3. PICK r \in Nat, k \in Nat, a \in Nat :
          r = callee.required /\ k = callee.defaults /\ a = argc /\ Arity = r + k
    BY <2>1, CallTypes DEF Arity
  <2>4. ~TooFew
    BY <2>2, <2>3 DEF InOrder, TooFew
  <2>5. ~TooMany
    BY <2>2, <2>3 DEF InOrder, TooMany, Counted
  <2>6. ~UnknownNames
    BY DEF InOrder, UnknownNames
  <2>7. GivenTwice
    BY <2>4, <2>5, <2>6 DEF Accepts
  <2>8. ~callee.variadic
    BY <2>3, <2>7 DEF GivenTwice, Counted
  <2> QED
    BY <2>2, <2>7, <2>8 DEF GivenTwice, Counted
<1> QED
  BY <1>1, InvariantHolds, PTL
=============================================================================
