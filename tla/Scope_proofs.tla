---------------------------- MODULE Scope_proofs ----------------------------
(***************************************************************************)
(* Proofs about Scope, for every program: its types, that the code         *)
(* generator finds an index for every local and every cell, and that cells *)
(* are handed down through the functions between.  For every program that  *)
(* is not odd: that closures balance, that each use of a name reaches its  *)
(* variable, and that arguments reach their cells.                         *)
(***************************************************************************)
EXTENDS Scope, Induction, TLAPS

\* One scope: what IndexesFound says of it.
Found(r) ==
  \A name \in Name :
    /\ r.info[name] = "LOCAL" => name \in ToSet(r.locals)
    /\ r.info[name] = "CELL" => name \in ToSet(r.cells) \cup ToSet(r.free)

\* A name gets a kind together with its place in one of the lists, so the two
\* go together through every step.
IndexInv == ScopeTypeOK /\ IndexesFound

LEMMA FoundEverywhere == IndexesFound <=> \A s \in DOMAIN scopes : Found(scopes[s])
BY DEF IndexesFound, Found

LEMMA Concatenated ==
  ASSUME NEW S, NEW s \in Seq(S), NEW t \in Seq(S)
  PROVE  s \o t \in Seq(S) /\ ToSet(s \o t) = ToSet(s) \cup ToSet(t)
<1>1. s \o t \in Seq(S) /\ Len(s \o t) = Len(s) + Len(t)
  OBVIOUS
<1>2. ASSUME NEW i \in 1 .. Len(s) + Len(t)
      PROVE  (s \o t)[i] = IF i <= Len(s) THEN s[i] ELSE t[i - Len(s)]
  OBVIOUS
<1>3. ASSUME NEW e \in ToSet(s \o t) PROVE e \in ToSet(s) \cup ToSet(t)
  BY <1>1, <1>2 DEF ToSet
<1>4. ASSUME NEW e \in ToSet(s) PROVE e \in ToSet(s \o t)
  BY <1>1, <1>2 DEF ToSet
<1>5. ASSUME NEW e \in ToSet(t) PROVE e \in ToSet(s \o t)
  <2>1. PICK j \in 1 .. Len(t) : e = t[j]
    BY DEF ToSet
  <2>2. Len(s) + j \in 1 .. Len(s) + Len(t) /\ (s \o t)[Len(s) + j] = t[j]
    BY <1>2
  <2> QED
    BY <1>1, <2>1, <2>2 DEF ToSet
<1> QED
  BY <1>1, <1>3, <1>4, <1>5

LEMMA Appended ==
  ASSUME NEW S, NEW s \in Seq(S), NEW e \in S
  PROVE  Append(s, e) \in Seq(S) /\ ToSet(Append(s, e)) = ToSet(s) \cup {e}
<1>1. /\ Append(s, e) \in Seq(S) /\ DOMAIN Append(s, e) = 1 .. Len(s) + 1
      /\ Append(s, e)[Len(s) + 1] = e
      /\ \A i \in 1 .. Len(s) : Append(s, e)[i] = s[i]
      /\ DOMAIN s = 1 .. Len(s) /\ Len(s) \in Nat
  OBVIOUS
<1>2. 1 .. Len(s) + 1 = (1 .. Len(s)) \cup {Len(s) + 1}
  BY <1>1
<1> QED
  BY <1>1, <1>2 DEF ToSet

\* addLocal keeps a record's type and indexes.
LEMMA AddLocalsKeeps ==
  ASSUME NEW r \in ScopeRecord, Found(r), NEW names \in Seq(Name),
         NEW type \in {"GLOBAL", "LOCAL"}
  PROVE  /\ AddLocals(r, names, type) \in ScopeRecord
         /\ Found(AddLocals(r, names, type))
         /\ AddLocals(r, names, type).parent = r.parent
<1> DEFINE q == AddLocals(r, names, type)
<1>1. r.locals \o names \in Seq(Name)
      /\ ToSet(r.locals \o names) = ToSet(r.locals) \cup ToSet(names)
  BY Concatenated DEF ScopeRecord
<1>2. /\ q.locals = r.locals \o names /\ q.cells = r.cells /\ q.free = r.free
      /\ q.parent = r.parent
      /\ q.info = [n \in Name |-> IF n \in ToSet(names) THEN type ELSE r.info[n]]
  BY DEF AddLocals, ScopeRecord
<1>3. q \in ScopeRecord
  <2>1. [n \in Name |-> IF n \in ToSet(names) THEN type ELSE r.info[n]]
          \in [Name -> Types \cup {Unknown}]
    BY DEF ScopeRecord, Types
  <2> QED
    BY <1>1, <2>1 DEF AddLocals, ScopeRecord
<1>4. Found(q)
  <2> SUFFICES ASSUME NEW n \in Name
               PROVE  /\ q.info[n] = "LOCAL" => n \in ToSet(q.locals)
                      /\ q.info[n] = "CELL" => n \in ToSet(q.cells) \cup ToSet(q.free)
    BY DEF Found
  <2>1. CASE n \in ToSet(names)
    BY <1>1, <1>2, <2>1
  <2>2. CASE n \notin ToSet(names)
    BY <1>1, <1>2, <2>2 DEF Found
  <2> QED
    BY <2>1, <2>2
<1> QED
  BY <1>2, <1>3, <1>4

\* addCell and addFree.
LEMMA CellKeeps ==
  ASSUME NEW r \in ScopeRecord, Found(r), NEW name \in Name
  PROVE  LET c == [r EXCEPT !.cells = Append(@, name), !.info[name] = "CELL"]
             f == [r EXCEPT !.free = Append(@, name), !.info[name] = "CELL"]
         IN  /\ c \in ScopeRecord /\ Found(c) /\ c.parent = r.parent
             /\ f \in ScopeRecord /\ Found(f) /\ f.parent = r.parent
<1> DEFINE info == [r.info EXCEPT ![name] = "CELL"]
           c == [r EXCEPT !.cells = Append(@, name), !.info[name] = "CELL"]
           f == [r EXCEPT !.free = Append(@, name), !.info[name] = "CELL"]
<1>1. /\ c.parent = r.parent /\ c.info = info /\ c.locals = r.locals
      /\ c.cells = Append(r.cells, name) /\ c.free = r.free
      /\ f.parent = r.parent /\ f.info = info /\ f.locals = r.locals
      /\ f.cells = r.cells /\ f.free = Append(r.free, name)
  BY DEF ScopeRecord
<1>2. /\ Append(r.cells, name) \in Seq(Name)
      /\ ToSet(Append(r.cells, name)) = ToSet(r.cells) \cup {name}
      /\ Append(r.free, name) \in Seq(Name)
      /\ ToSet(Append(r.free, name)) = ToSet(r.free) \cup {name}
  BY Appended DEF ScopeRecord
<1>4. c \in ScopeRecord /\ f \in ScopeRecord
  BY <1>2 DEF ScopeRecord, Types
<1>3. ASSUME NEW n \in Name PROVE info[n] = IF n = name THEN "CELL" ELSE r.info[n]
  BY DEF ScopeRecord
<1>5. Found(c) /\ Found(f)
  <2> HIDE DEF c, f, info
  <2> QED
    BY <1>1, <1>2, <1>3 DEF Found
<1> QED
  BY <1>1, <1>4, <1>5

LEMMA InitIndexed == Init => IndexInv
<1> SUFFICES ASSUME Init PROVE IndexInv
  OBVIOUS
<1> DEFINE r == [parent |-> 0, info |-> [n \in Name |-> Unknown],
                 locals |-> <<>>, cells |-> <<>>, free |-> <<>>]
<1>1. r \in ScopeRecord /\ Found(r)
  BY DEF ScopeRecord, Found, Unknown
<1>2. scopes \in Seq(ScopeRecord) /\ DOMAIN scopes = {1} /\ scopes[1] = r
  BY <1>1 DEF Init
<1>3. ScopeTypeOK
  BY <1>2 DEF Init, ScopeTypeOK, Root
<1> QED
  BY <1>1, <1>2, <1>3, FoundEverywhere DEF IndexInv

LEMMA MaybePromoteKeeps ==
  ASSUME IndexInv, NEW s \in DOMAIN scopes, NEW name \in Name
  PROVE  LET all == MaybePromote(s, name) IN
           /\ all \in Seq(ScopeRecord) /\ DOMAIN all = DOMAIN scopes
           /\ \A a \in DOMAIN scopes : Found(all[a]) /\ all[a].parent = scopes[a].parent
<1>1. /\ scopes \in Seq(ScopeRecord) /\ DOMAIN scopes = 1 .. Len(scopes)
      /\ Len(scopes) \in Nat
      /\ \A a \in DOMAIN scopes : scopes[a] \in ScopeRecord /\ Found(scopes[a])
  BY FoundEverywhere DEF IndexInv, ScopeTypeOK
<1>2. CASE Captures(s, name)
  <2> DEFINE all == Promoted(s, name)
  <2>1. DOMAIN all = 1 .. Len(scopes)
    BY <1>1 DEF Promoted
  <2>2. ASSUME NEW a \in DOMAIN scopes
        PROVE  all[a] \in ScopeRecord /\ Found(all[a]) /\ all[a].parent = scopes[a].parent
    BY <1>1, CellKeeps DEF Promoted
  <2>3. all \in Seq(ScopeRecord)
    <3>1. all = [a \in 1 .. Len(scopes) |-> all[a]]
      BY <1>1 DEF Promoted
    <3> QED
      BY <1>1, <2>1, <2>2, <3>1
  <2> QED
    BY <1>1, <1>2, <2>1, <2>2, <2>3 DEF MaybePromote
<1>3. CASE ~Captures(s, name) /\ scopes[s].info[name] = "CELL"
  BY <1>1, <1>3 DEF MaybePromote
<1>4. CASE ~Captures(s, name) /\ scopes[s].info[name] # "CELL"
  <2> DEFINE kind == Resolve(s, name)
             r == scopes[s]
             q == [r EXCEPT !.info[name] = kind]
  <2>1. MaybePromote(s, name) = [scopes EXCEPT ![s] = q]
    BY <1>4 DEF MaybePromote
  <2>2. /\ kind \in Types /\ kind # "CELL"
        /\ kind = "LOCAL" => r.info[name] = "LOCAL"
    <3>1. r.info[name] \in Types \cup {Unknown}
      BY <1>1 DEF ScopeRecord
    <3> QED
      BY <1>4, <3>1 DEF Captures, Resolve, Knows, Types
  <2>3. q \in ScopeRecord /\ Found(q) /\ q.parent = r.parent
    <3>1. r \in ScopeRecord /\ Found(r)
      BY <1>1
    <3>2. /\ q.parent = r.parent /\ q.info = [r.info EXCEPT ![name] = kind]
          /\ q.locals = r.locals /\ q.cells = r.cells /\ q.free = r.free
      BY <3>1 DEF ScopeRecord
    <3>3. q \in ScopeRecord
      BY <2>2, <3>1 DEF ScopeRecord
    <3>4. ASSUME NEW n \in Name PROVE q.info[n] = IF n = name THEN kind ELSE r.info[n]
      BY <3>1, <3>2 DEF ScopeRecord
    <3> QED
      BY <2>2, <3>1, <3>2, <3>3, <3>4 DEF Found
  <2> HIDE DEF kind, q
  <2>4. /\ [scopes EXCEPT ![s] = q] \in Seq(ScopeRecord)
        /\ DOMAIN [scopes EXCEPT ![s] = q] = DOMAIN scopes
        /\ \A a \in DOMAIN scopes :
             [scopes EXCEPT ![s] = q][a] = IF a = s THEN q ELSE scopes[a]
    BY <1>1, <2>3
  <2> QED
    BY <1>1, <2>1, <2>3, <2>4
<1> QED
  BY <1>2, <1>3, <1>4

\* A step that keeps the parents keeps the invariant if it keeps each record's
\* type and indexes.
LEMMA SameShape ==
  ASSUME IndexInv, scopes' \in Seq(ScopeRecord), DOMAIN scopes' = DOMAIN scopes,
         \A a \in DOMAIN scopes : Found(scopes'[a]) /\ scopes'[a].parent = scopes[a].parent,
         current' = current, analysed' \in BOOLEAN
  PROVE  IndexInv'
<1>1. ScopeTypeOK'
  BY DEF IndexInv, ScopeTypeOK
<1>2. IndexesFound'
  BY DEF IndexesFound, Found
<1> QED
  BY <1>1, <1>2 DEF IndexInv

LEMMA DeclareFunctionKeeps ==
  ASSUME IndexInv, NEW fn \in Declarable, NEW params \in Params,
         DeclareFunction(fn, params)
  PROVE  IndexInv'
<1> DEFINE new == [parent |-> current, info |-> [n \in Name |-> Unknown],
                   locals |-> <<>>, cells |-> <<>>, free |-> <<>>]
           inner == AddLocals(new, <<fn>> \o params, "LOCAL")
           outer == AddLocals(scopes[current], <<fn>>, TypeOfLocal(current))
           n == Len(scopes)
<1>1. /\ scopes \in Seq(ScopeRecord) /\ n \in Nat /\ DOMAIN scopes = 1 .. n
      /\ current \in 1 .. n
      /\ \A a \in 1 .. n : scopes[a] \in ScopeRecord /\ Found(scopes[a])
  BY FoundEverywhere DEF IndexInv, ScopeTypeOK
<1>2. fn \in Name /\ params \in Seq(Name)
  BY ScopeAssumption DEF Params, BoundedSeq, SeqOf
<1>3. <<fn>> \in Seq(Name) /\ <<fn>> \o params \in Seq(Name)
  BY <1>2
<1>4. new \in ScopeRecord /\ Found(new) /\ new.parent = current
  BY <1>1 DEF ScopeRecord, Found, Unknown
<1>5. inner \in ScopeRecord /\ Found(inner) /\ inner.parent = current
  <2> HIDE DEF new
  <2> QED
    BY <1>3, <1>4, AddLocalsKeeps
<1>6. /\ outer \in ScopeRecord /\ Found(outer)
      /\ outer.parent = scopes[current].parent
  BY <1>1, <1>3, AddLocalsKeeps DEF TypeOfLocal
<1>7. scopes' = Append([scopes EXCEPT ![current] = outer], inner)
  BY DEF DeclareFunction
<1> HIDE DEF inner, outer
<1>8. /\ scopes' \in Seq(ScopeRecord) /\ DOMAIN scopes' = 1 .. n + 1
      /\ scopes'[n + 1] = inner
      /\ \A a \in 1 .. n : scopes'[a] = IF a = current THEN outer ELSE scopes[a]
  BY <1>1, <1>5, <1>6, <1>7
<1>9. ScopeTypeOK'
  BY <1>1, <1>5, <1>6, <1>8 DEF DeclareFunction, IndexInv, ScopeTypeOK, Root
<1>10. \A a \in DOMAIN scopes' : Found(scopes'[a])
  BY <1>1, <1>5, <1>6, <1>8
<1> QED
  BY <1>9, <1>10 DEF IndexInv, IndexesFound, Found

LEMMA NextIndexed == IndexInv /\ [Next]_vars => IndexInv'
<1> SUFFICES ASSUME IndexInv, [Next]_vars PROVE IndexInv'
  OBVIOUS
<1>0. /\ scopes \in Seq(ScopeRecord) /\ current \in DOMAIN scopes
      /\ analysed \in BOOLEAN
      /\ \A a \in DOMAIN scopes : scopes[a] \in ScopeRecord /\ Found(scopes[a])
  BY FoundEverywhere DEF IndexInv, ScopeTypeOK
<1>1. ASSUME NEW fn \in Declarable, NEW params \in Params, DeclareFunction(fn, params)
      PROVE  IndexInv'
  BY <1>1, DeclareFunctionKeeps
<1>2. CASE EndFunction
  BY <1>2 DEF EndFunction, Outer, IndexInv, ScopeTypeOK, IndexesFound
<1>3. ASSUME NEW name \in Declarable, DeclareVariable(name) PROVE IndexInv'
  <2> DEFINE r == AddLocals(scopes[current], <<name>>, TypeOfLocal(current))
  <2>1. scopes' = [scopes EXCEPT ![current] = r]
    BY <1>3 DEF DeclareVariable
  <2>2. r \in ScopeRecord /\ Found(r) /\ r.parent = scopes[current].parent
    <3>1. <<name>> \in Seq(Name)
      BY ScopeAssumption
    <3> QED
      BY <1>0, <3>1, AddLocalsKeeps DEF TypeOfLocal
  <2> HIDE DEF r
  <2>3. /\ scopes' \in Seq(ScopeRecord) /\ DOMAIN scopes' = DOMAIN scopes
        /\ \A a \in DOMAIN scopes : scopes'[a] = IF a = current THEN r ELSE scopes[a]
    BY <1>0, <2>1, <2>2
  <2> QED
    BY <1>0, <1>3, <2>2, <2>3, SameShape DEF DeclareVariable
<1>4. ASSUME NEW name \in Name, UseName(name) PROVE IndexInv'
  BY <1>0, <1>4, MaybePromoteKeeps, SameShape DEF UseName
<1>5. ASSUME NEW name \in Name, UseUnanalysed(name) PROVE IndexInv'
  BY <1>0, <1>5, SameShape DEF UseUnanalysed
<1>6. CASE Finish
  BY <1>0, <1>6, SameShape DEF Finish
<1>7. CASE UNCHANGED vars
  BY <1>0, <1>7, SameShape DEF vars
<1> QED
  BY <1>1, <1>2, <1>3, <1>4, <1>5, <1>6, <1>7 DEF Next

\* The types hold in every program, and functions are numbered after the
\* function around them.
THEOREM ScopesTyped == Spec => []ScopeTypeOK
<1> QED
  BY InitIndexed, NextIndexed, PTL DEF Spec, IndexInv

\* In every program, however deep its functions nest and whatever they capture,
\* declare twice or leave to the analysis to miss, localIdx and freeIdx find the
\* names whose kind _analyze decided.
THEOREM IndexesAlwaysFound == Spec => []IndexesFound
<1> QED
  BY InitIndexed, NextIndexed, PTL DEF Spec, IndexInv

-----------------------------------------------------------------------------
(* The scopes around a scope. *)

\* The parents of the scopes in "all", up to n, are numbered before them.
Nested(all, n) == \A i \in 1 .. n : i # Root => all[i].parent \in 1 .. i - 1

\* What EnclosingIn means: it follows the parents to the root.
Follows(f, all, n) ==
  /\ f \in [1 .. n -> SUBSET (1 .. n)]
  /\ \A i \in 1 .. n : f[i] = IF i = Root THEN {i} ELSE {i} \cup f[all[i].parent]

LEMMA FollowsExist ==
  ASSUME NEW all, NEW m \in Nat, Nested(all, m)
  PROVE  \E f : Follows(f, all, m)
<1> DEFINE T == {n \in Nat : n <= m => \E f : Follows(f, all, n)}
<1>1. 0 \in T
  <2>1. [i \in 1 .. 0 |-> {}] \in [1 .. 0 -> SUBSET (1 .. 0)] /\ 1 .. 0 = {}
    OBVIOUS
  <2>2. Follows([i \in 1 .. 0 |-> {}], all, 0)
    BY <2>1 DEF Follows
  <2> QED
    BY <2>2
<1>2. ASSUME NEW n \in T PROVE n + 1 \in T
  <2> SUFFICES ASSUME n + 1 <= m PROVE \E f : Follows(f, all, n + 1)
    OBVIOUS
  <2>1. n \in Nat /\ n <= m
    OBVIOUS
  <2>2. PICK g : Follows(g, all, n)
    BY <2>1
  <2>3. n + 1 # Root => all[n + 1].parent \in 1 .. n
    BY <2>1 DEF Nested
  <2>4. \A i \in 1 .. n : i # Root => all[i].parent \in 1 .. n /\ all[i].parent \in 1 .. i - 1
    BY <2>1 DEF Nested
  <2>5. g \in [1 .. n -> SUBSET (1 .. n)]
        /\ \A i \in 1 .. n : g[i] = IF i = Root THEN {i} ELSE {i} \cup g[all[i].parent]
    BY <2>2 DEF Follows
  <2> DEFINE f == [i \in 1 .. n + 1 |->
                     IF i \in 1 .. n THEN g[i]
                     ELSE IF i = Root THEN {i} ELSE {i} \cup g[all[i].parent]]
  <2>6. \A i \in 1 .. n + 1 : i \in 1 .. n \/ i = n + 1
    BY <2>1
  <2>7. /\ \A i \in 1 .. n : i \in 1 .. n + 1 /\ f[i] = g[i]
        /\ n + 1 \in 1 .. n + 1 /\ n + 1 \notin 1 .. n
        /\ f[n + 1] = IF n + 1 = Root THEN {n + 1} ELSE {n + 1} \cup g[all[n + 1].parent]
    BY <2>1
  <2>8. f \in [1 .. n + 1 -> SUBSET (1 .. n + 1)]
    <3>1. \A i \in 1 .. n + 1 : f[i] \in SUBSET (1 .. n + 1)
      BY <2>3, <2>5, <2>6, <2>7
    <3> QED
      BY <3>1
  <2> HIDE DEF f
  <2>9. \A i \in 1 .. n + 1 : f[i] = IF i = Root THEN {i} ELSE {i} \cup f[all[i].parent]
    BY <2>3, <2>4, <2>5, <2>6, <2>7
  <2> QED
    BY <2>8, <2>9 DEF Follows
<1> HIDE DEF T
<1>3. m \in T
  BY <1>1, <1>2, SetInduction DEF T
<1> QED
  BY <1>3 DEF T

\* EnclosingIn is that function, whatever part of it is looked at.
LEMMA EnclosingFollows ==
  ASSUME NEW all, NEW m \in Nat, Nested(all, m)
  PROVE  \E f : Follows(f, all, m) /\ \A s \in 1 .. m : EnclosingIn(all, s) = f[s]
<1>1. PICK f : Follows(f, all, m)
  BY FollowsExist
<1>2. ASSUME NEW s \in 1 .. m PROVE EnclosingIn(all, s) = f[s]
  <2> DEFINE Step(g) == [i \in 1 .. s |->
                           IF i = Root THEN {i} ELSE {i} \cup g[all[i].parent]]
             around == CHOOSE g : g = Step(g)
             h == [i \in 1 .. s |-> f[i]]
  <2>1. EnclosingIn(all, s) = around[s]
    BY DEF EnclosingIn
  <2>2. \A i \in 1 .. s :
          /\ i \in 1 .. m /\ i \in Nat
          /\ i # Root => all[i].parent \in 1 .. s /\ all[i].parent < i
          /\ f[i] = IF i = Root THEN {i} ELSE {i} \cup f[all[i].parent]
    <3>1. \A i \in 1 .. s : i \in 1 .. m /\ i \in Nat
      OBVIOUS
    <3>2. ASSUME NEW i \in 1 .. s, i # Root
          PROVE  all[i].parent \in 1 .. s /\ all[i].parent < i
      <4>1. all[i].parent \in 1 .. i - 1
        BY <3>1, <3>2 DEF Nested
      <4> QED
        BY <4>1
    <3> QED
      BY <3>1, <3>2, <1>1 DEF Follows
  <2>3. h = Step(h)
    BY <2>2
  <2>4. around = Step(around)
    BY <2>3
  <2> HIDE DEF around
  <2>5. \A i \in 1 .. s :
          around[i] = IF i = Root THEN {i} ELSE {i} \cup around[all[i].parent]
    BY <2>4
  <2> DEFINE Wrong == {i \in 1 .. s : around[i] # f[i]}
  <2>6. ASSUME Wrong # {} PROVE FALSE
    <3>1. Wrong \in SUBSET Nat
      OBVIOUS
    <3>2. PICK i \in Wrong : \A j \in Wrong : i <= j
      BY <2>6, <3>1, Least
    <3>3. ASSUME i # Root PROVE around[all[i].parent] = f[all[i].parent]
      <4>1. /\ all[i].parent \in 1 .. s /\ all[i].parent < i
            /\ all[i].parent \in Nat /\ i \in Nat
        BY <2>2, <3>2, <3>3
      <4>2. all[i].parent \notin Wrong
        BY <4>1, <3>2
      <4> QED
        BY <4>1, <4>2
    <3>4. i \in 1 .. s /\ around[i] # f[i]
      BY <3>2
    <3>5. around[i] = IF i = Root THEN {i} ELSE {i} \cup around[all[i].parent]
      BY <2>5, <3>4
    <3>6. f[i] = IF i = Root THEN {i} ELSE {i} \cup f[all[i].parent]
      BY <2>2, <3>4
    <3> QED
      BY <3>3, <3>4, <3>5, <3>6, Zenon
  <2>7. s \in 1 .. s
    OBVIOUS
  <2> QED
    BY <2>1, <2>6, <2>7
<1> QED
  BY <1>1, <1>2

\* The scopes around a scope form a chain: each is the parent of the next.
Chained(all, s) ==
  /\ EnclosingIn(all, s) \subseteq 1 .. s
  /\ Root \in EnclosingIn(all, s) /\ s \in EnclosingIn(all, s)
  /\ \A a \in EnclosingIn(all, s) :
       /\ EnclosingIn(all, a) \subseteq EnclosingIn(all, s)
       /\ a # Root => all[a].parent \in EnclosingIn(all, s)
  /\ \A a, b \in EnclosingIn(all, s) : a < b => a <= all[b].parent

LEMMA EnclosingChained ==
  ASSUME NEW all, NEW m \in Nat, Nested(all, m)
  PROVE  /\ \A s \in 1 .. m :
              EnclosingIn(all, s) = IF s = Root THEN {s}
                                    ELSE {s} \cup EnclosingIn(all, all[s].parent)
         /\ \A s \in 1 .. m : Chained(all, s)
<1> DEFINE E(s) == EnclosingIn(all, s)
<1>0. \A s \in 1 .. m : s # Root => /\ all[s].parent \in 1 .. m
                                    /\ all[s].parent \in Nat /\ all[s].parent < s
  <2> SUFFICES ASSUME NEW s \in 1 .. m, s # Root
               PROVE  /\ all[s].parent \in 1 .. m
                      /\ all[s].parent \in Nat /\ all[s].parent < s
    OBVIOUS
  <2>1. all[s].parent \in 1 .. s - 1
    BY DEF Nested
  <2> QED
    BY <2>1
<1>1. \A s \in 1 .. m : E(s) = IF s = Root THEN {s} ELSE {s} \cup E(all[s].parent)
  <2>1. PICK f : Follows(f, all, m) /\ \A s \in 1 .. m : EnclosingIn(all, s) = f[s]
    BY EnclosingFollows
  <2>2. \A s \in 1 .. m : E(s) = f[s] /\ f[s] = IF s = Root THEN {s} ELSE {s} \cup f[all[s].parent]
    BY <2>1 DEF Follows
  <2> HIDE DEF E
  <2> QED
    BY <2>2, <1>0
<1> DEFINE Wrong == {s \in 1 .. m : ~Chained(all, s)}
<1>2. ASSUME Wrong # {} PROVE FALSE
  <2>1. Wrong \in SUBSET Nat
    OBVIOUS
  <2>2. PICK s \in Wrong : \A t \in Wrong : s <= t
    BY <1>2, <2>1, Least
  <2>3. s \in 1 .. m /\ s \in Nat /\ ~Chained(all, s)
    BY <2>2
  <2>4. CASE s = Root
    <3>1. E(s) = {s}
      BY <1>1, <2>3, <2>4
    <3> QED
      BY <3>1, <2>3, <2>4 DEF Chained, Root
  <2>5. CASE s # Root
    <3> DEFINE p == all[s].parent
    <3>1. p \in 1 .. m /\ p \in Nat /\ p < s
      BY <1>0, <2>3, <2>5
    <3>2. Chained(all, p)
      BY <3>1, <2>2
    <3>3. E(s) = {s} \cup E(p)
      BY <1>1, <2>3, <2>5
    <3> HIDE DEF p
    <3>4. /\ E(p) \subseteq 1 .. p /\ Root \in E(p) /\ p \in E(p)
          /\ \A a \in E(p) : E(a) \subseteq E(p) /\ (a # Root => all[a].parent \in E(p))
          /\ \A a, b \in E(p) : a < b => a <= all[b].parent
      BY <3>2 DEF Chained
    <3> HIDE DEF E
    <3>5. E(s) \subseteq 1 .. s /\ Root \in E(s) /\ s \in E(s)
      BY <2>3, <3>1, <3>3, <3>4
    <3>6. \A a \in E(s) : E(a) \subseteq E(s) /\ (a # Root => all[a].parent \in E(s))
      BY <3>3, <3>4 DEF p
    <3>7. ASSUME NEW a \in E(s), NEW b \in E(s), a < b PROVE a <= all[b].parent
      <4>1. a \in 1 .. s /\ b \in 1 .. s
        BY <3>5
      <4>2. a \in E(p)
        BY <3>3, <3>7, <4>1, <2>3
      <4>3. CASE b = s
        BY <4>2, <4>3, <3>1, <3>4 DEF p
      <4>4. CASE b # s
        BY <4>2, <4>4, <3>3, <3>4, <3>7
      <4> QED
        BY <4>3, <4>4
    <3> QED
      BY <2>3, <3>5, <3>6, <3>7 DEF Chained, E
  <2> QED
    BY <2>4, <2>5
<1> QED
  BY <1>1, <1>2

\* The scopes around a scope depend on the parents alone.
LEMMA SameParents ==
  ASSUME NEW all, NEW other, NEW m \in Nat, Nested(all, m),
         \A i \in 1 .. m : i # Root => other[i].parent = all[i].parent
  PROVE  \A s \in 1 .. m : EnclosingIn(other, s) = EnclosingIn(all, s)
<1>1. Nested(other, m)
  BY DEF Nested
<1>2. \A s \in 1 .. m :
        /\ EnclosingIn(all, s) = IF s = Root THEN {s}
                                 ELSE {s} \cup EnclosingIn(all, all[s].parent)
        /\ EnclosingIn(other, s) = IF s = Root THEN {s}
                                   ELSE {s} \cup EnclosingIn(other, all[s].parent)
  BY <1>1, EnclosingChained
<1> DEFINE Wrong == {s \in 1 .. m : EnclosingIn(other, s) # EnclosingIn(all, s)}
<1>3. ASSUME Wrong # {} PROVE FALSE
  <2>1. Wrong \in SUBSET Nat
    OBVIOUS
  <2>2. PICK s \in Wrong : \A t \in Wrong : s <= t
    BY <1>3, <2>1, Least
  <2>3. s \in 1 .. m /\ s \in Nat
    BY <2>2
  <2>4. CASE s = Root
    BY <1>2, <2>2, <2>4
  <2>5. CASE s # Root
    <3>1. all[s].parent \in 1 .. s - 1
      BY <2>3, <2>5 DEF Nested
    <3>2. all[s].parent \in 1 .. m /\ all[s].parent < s /\ all[s].parent \in Nat
      BY <2>3, <3>1
    <3>3. all[s].parent \notin Wrong
      BY <2>2, <2>3, <3>2
    <3>4. EnclosingIn(other, all[s].parent) = EnclosingIn(all, all[s].parent)
      BY <3>2, <3>3
    <3>5. EnclosingIn(other, s) = EnclosingIn(all, s)
      <4> HIDE DEF Wrong
      <4>1. /\ EnclosingIn(all, s) = {s} \cup EnclosingIn(all, all[s].parent)
            /\ EnclosingIn(other, s) = {s} \cup EnclosingIn(other, all[s].parent)
        BY <1>2, <2>3, <2>5, Zenon
      <4> QED
        BY <3>4, <4>1, Zenon
    <3> QED
      BY <2>2, <3>5
  <2> QED
    BY <2>4, <2>5
<1> QED
  BY <1>3

-----------------------------------------------------------------------------
(* The chain of cells. *)

\* The scopes around s, as the lemmas above give them.
LEMMA Around ==
  ASSUME ScopeTypeOK, NEW s \in DOMAIN scopes
  PROVE  /\ Chained(scopes, s)
         /\ Nested(scopes, Len(scopes)) /\ DOMAIN scopes = 1 .. Len(scopes)
         /\ Len(scopes) \in Nat
         /\ Enclosing(s) \subseteq 1 .. s /\ Enclosing(s) \subseteq DOMAIN scopes
         /\ s \in Enclosing(s) /\ Root \in Enclosing(s)
         /\ Enclosing(s) = IF s = Root THEN {s}
                           ELSE {s} \cup Enclosing(scopes[s].parent)
         /\ s # Root => /\ scopes[s].parent \in DOMAIN scopes
                        /\ scopes[s].parent < s
                        /\ Enclosing(scopes[s].parent) \subseteq 1 .. scopes[s].parent
<1>1. DOMAIN scopes = 1 .. Len(scopes) /\ Len(scopes) \in Nat
  BY DEF ScopeTypeOK
<1>2. Nested(scopes, Len(scopes))
  BY <1>1 DEF ScopeTypeOK, Nested
<1>3. \A t \in DOMAIN scopes :
        /\ Enclosing(t) = IF t = Root THEN {t} ELSE {t} \cup Enclosing(scopes[t].parent)
        /\ Chained(scopes, t)
  BY <1>1, <1>2, EnclosingChained DEF Enclosing
<1>4. \A t \in DOMAIN scopes :
        /\ Enclosing(t) \subseteq 1 .. t /\ t \in Enclosing(t) /\ Root \in Enclosing(t)
  BY <1>3 DEF Chained, Enclosing
<1>5. s # Root => scopes[s].parent \in 1 .. s - 1
  BY DEF ScopeTypeOK
<1>6. s # Root => scopes[s].parent \in DOMAIN scopes /\ scopes[s].parent < s
  BY <1>1, <1>5
<1>7. Enclosing(s) \subseteq DOMAIN scopes
  BY <1>1, <1>4
<1> QED
  BY <1>1, <1>2, <1>3, <1>4, <1>6, <1>7

\* A capture has an owner, the innermost function around the use that knows
\* the name.
LEMMA CaptureHasOwner ==
  ASSUME ScopeTypeOK, NEW s \in DOMAIN scopes, NEW name \in Name, Captures(s, name)
  PROVE  /\ Owner(s, name) \in Owners(s, name)
         /\ Owner(s, name) \in Enclosing(s) \ {Root, s}
         /\ s # Root /\ ~Knows(s, name) /\ name \notin Builtins
<1>1. s # Root /\ ~Knows(s, name) /\ Owners(s, name) # {} /\ name \notin Builtins
  BY DEF Captures, Resolve
<1>2. Owners(s, name) \in SUBSET Nat /\ \A y \in Owners(s, name) : y <= Len(scopes)
  <2>1. Owners(s, name) \subseteq 1 .. Len(scopes)
    BY Around DEF Owners
  <2> QED
    BY <2>1, Around
<1>3. \E x \in Owners(s, name) : \A y \in Owners(s, name) : x >= y
  BY <1>1, <1>2, Greatest, Around
<1>4. Owner(s, name) \in Owners(s, name)
  BY <1>3 DEF Owner, Max
<1> QED
  BY <1>1, <1>4 DEF Owners

\* The root owns nothing: addCell and addFree are for functions.
RootClean ==
  /\ scopes[Root].cells = <<>> /\ scopes[Root].free = <<>>
  /\ \A n \in Name : scopes[Root].info[n] \in {"GLOBAL", Unknown}

\* With the cells, the chain of a cell through the functions is kept.
ChainInv == IndexInv /\ RootClean /\ CaptureChain

\* A step that leaves the cells, the free variables and the parents of the
\* scopes there were, and adds scopes with no free variable, keeps the chain.
LEMMA SameCells ==
  ASSUME ChainInv, IndexInv', DOMAIN scopes \subseteq DOMAIN scopes',
         \A a \in DOMAIN scopes : /\ scopes'[a].cells = scopes[a].cells
                                  /\ scopes'[a].free = scopes[a].free
                                  /\ scopes'[a].parent = scopes[a].parent,
         \A a \in DOMAIN scopes' \ DOMAIN scopes : scopes'[a].free = <<>>,
         \A n \in Name : scopes'[Root].info[n] \in {"GLOBAL", Unknown}
  PROVE  ChainInv'
<1>1. Root \in DOMAIN scopes /\ \A a \in DOMAIN scopes : a # Root => scopes[a].parent \in DOMAIN scopes
  <2>1. \A a \in DOMAIN scopes : a # Root => scopes[a].parent \in DOMAIN scopes
    BY Around DEF ChainInv, IndexInv
  <2>2. Root \in DOMAIN scopes
    BY Around DEF ChainInv, IndexInv, ScopeTypeOK
  <2> QED
    BY <2>1, <2>2
<1>2. RootClean'
  BY <1>1 DEF ChainInv, RootClean
<1>3. CaptureChain'
  <2> SUFFICES ASSUME NEW s \in DOMAIN scopes', NEW n \in ToSet(scopes'[s].free)
               PROVE  /\ scopes'[s].parent # Root
                      /\ n \in ToSet(scopes'[scopes'[s].parent].cells)
                               \cup ToSet(scopes'[scopes'[s].parent].free)
    BY DEF CaptureChain
  <2>1. s \in DOMAIN scopes
    BY DEF ToSet
  <2>2. n \in ToSet(scopes[s].free)
    BY <2>1
  <2>3. s # Root
    BY <2>2 DEF ChainInv, RootClean, ToSet
  <2> QED
    BY <1>1, <2>1, <2>2, <2>3 DEF ChainInv, CaptureChain
<1> QED
  BY <1>2, <1>3 DEF ChainInv

\* A sequence of k elements with one more.
LEMMA OneMore ==
  ASSUME NEW S, NEW t \in Seq(S), NEW x, NEW k \in Nat, Len(t) = k
  PROVE  /\ DOMAIN Append(t, x) = 1 .. k + 1 /\ Append(t, x)[k + 1] = x
         /\ \A a \in 1 .. k : Append(t, x)[a] = t[a]
OBVIOUS

\* addLocal leaves cells and free variables alone, and gives the root globals.
LocalsAdded(q, r, names, type) ==
  /\ q.cells = r.cells /\ q.free = r.free /\ q.parent = r.parent
  /\ q.locals \in Seq(Name) /\ ToSet(q.locals) = ToSet(r.locals) \cup ToSet(names)
  /\ \A n \in Name : q.info[n] = IF n \in ToSet(names) THEN type ELSE r.info[n]

\* What addLocal of several names makes of a scope.
LEMMA AddLocalsFields ==
  ASSUME NEW r \in ScopeRecord, NEW names \in Seq(Name), NEW type \in Types
  PROVE  LocalsAdded(AddLocals(r, names, type), r, names, type)
<1>1. r.locals \o names \in Seq(Name)
      /\ ToSet(r.locals \o names) = ToSet(r.locals) \cup ToSet(names)
  <2>1. r.locals \in Seq(Name)
    BY DEF ScopeRecord
  <2> QED
    BY <2>1, Concatenated
<1>2. r.info \in [Name -> Types \cup {Unknown}]
  BY DEF ScopeRecord
<1>3. DOMAIN r = {"parent", "info", "locals", "cells", "free"}
  BY DEF ScopeRecord
<1>4. PICK l, info, q : /\ l = r.locals \o names
                        /\ info = [n \in Name |-> IF n \in ToSet(names) THEN type ELSE r.info[n]]
                        /\ q = [[r EXCEPT !.locals = l] EXCEPT !.info = info]
  OBVIOUS
<1>5. q = AddLocals(r, names, type)
  <2>1. [r EXCEPT !.locals = l].info = r.info
    OBVIOUS
  <2> QED
    BY <1>4, <2>1 DEF AddLocals
<1>6. /\ q.cells = r.cells /\ q.free = r.free /\ q.parent = r.parent
      /\ q.locals = l /\ q.info = info
  BY <1>3, <1>4
<1>7. \A n \in Name : q.info[n] = IF n \in ToSet(names) THEN type ELSE r.info[n]
  BY <1>4, <1>6
<1>8. LocalsAdded(q, r, names, type)
  BY <1>1, <1>4, <1>6, <1>7 DEF LocalsAdded
<1> QED
  BY <1>5, <1>8

LEMMA OneLocal ==
  ASSUME NEW old \in ScopeRecord, NEW name \in Name, NEW type \in Types
  PROVE  /\ AddLocals(old, <<name>>, type).cells = old.cells
         /\ AddLocals(old, <<name>>, type).free = old.free
         /\ AddLocals(old, <<name>>, type).parent = old.parent
         /\ ToSet(AddLocals(old, <<name>>, type).locals) = ToSet(old.locals) \cup {name}
         /\ \A m \in Name : AddLocals(old, <<name>>, type).info[m] =
                              IF m = name THEN type ELSE old.info[m]
<1> DEFINE names == <<name>>
<1>1. names \in Seq(Name) /\ ToSet(names) = {name}
  BY DEF ToSet
<1> HIDE DEF names
<1>2. /\ AddLocals(old, names, type).cells = old.cells
      /\ AddLocals(old, names, type).free = old.free
      /\ AddLocals(old, names, type).parent = old.parent
      /\ ToSet(AddLocals(old, names, type).locals) = ToSet(old.locals) \cup ToSet(names)
      /\ \A m \in Name : AddLocals(old, names, type).info[m] =
                           IF m \in ToSet(names) THEN type ELSE old.info[m]
  <2>1. LocalsAdded(AddLocals(old, names, type), old, names, type)
    BY <1>1, AddLocalsFields
  <2> QED
    BY <2>1 DEF LocalsAdded
<1> QED
  BY <1>1, <1>2 DEF names

\* What a capture changes: a cell for the owner, a free variable for each
\* function between it and the use.
PromotedAt(all, s, owner, name, a) ==
  /\ all[a].parent = scopes[a].parent /\ all[a].locals = scopes[a].locals
  /\ a = owner => a \notin Between(s, owner)
  /\ all[a].cells = IF a = owner THEN Append(scopes[a].cells, name) ELSE scopes[a].cells
  /\ all[a].free = IF a \in Between(s, owner)
                   THEN Append(scopes[a].free, name) ELSE scopes[a].free
  /\ ToSet(all[a].cells) = ToSet(scopes[a].cells) \cup (IF a = owner THEN {name} ELSE {})
  /\ ToSet(all[a].free) =
       ToSet(scopes[a].free) \cup (IF a \in Between(s, owner) THEN {name} ELSE {})
  /\ \A n \in Name :
       all[a].info[n] = IF n = name /\ (a = owner \/ a \in Between(s, owner))
                        THEN "CELL" ELSE scopes[a].info[n]

LEMMA PromotedFields ==
  ASSUME ScopeTypeOK, NEW s \in DOMAIN scopes, NEW name \in Name, Captures(s, name),
         NEW a \in DOMAIN scopes
  PROVE  PromotedAt(MaybePromote(s, name), s, Owner(s, name), name, a)
<1>0. PICK all, owner : all = MaybePromote(s, name) /\ owner = Owner(s, name)
  OBVIOUS
<1> SUFFICES PromotedAt(all, s, owner, name, a)
  BY <1>0
<1> DEFINE q == all[a]
           r == scopes[a]
           between == a \in Between(s, owner)
<1>1. r \in ScopeRecord
  BY DEF ScopeTypeOK
<1>2. q = IF a = owner THEN [r EXCEPT !.cells = Append(@, name), !.info[name] = "CELL"]
          ELSE IF between THEN [r EXCEPT !.free = Append(@, name), !.info[name] = "CELL"]
          ELSE r
  BY <1>0 DEF MaybePromote, Promoted
<1>3. a = owner => ~between
  <2>1. a \in Nat
    BY Around
  <2> QED
    BY <2>1 DEF Between
<1>4. /\ ToSet(Append(r.cells, name)) = ToSet(r.cells) \cup {name}
      /\ ToSet(Append(r.free, name)) = ToSet(r.free) \cup {name}
  BY <1>1, Appended DEF ScopeRecord
<1> HIDE DEF between
<1>5. CASE a = owner
  <2>1. q = [r EXCEPT !.cells = Append(@, name), !.info[name] = "CELL"]
    BY <1>2, <1>5
  <2>2. /\ q.parent = r.parent /\ q.locals = r.locals /\ q.free = r.free
        /\ q.cells = Append(r.cells, name)
        /\ \A n \in Name : q.info[n] = IF n = name THEN "CELL" ELSE r.info[n]
    BY <1>1, <2>1 DEF ScopeRecord
  <2> QED
    BY <1>3, <1>4, <1>5, <2>2 DEF between, PromotedAt
<1>6. CASE a # owner /\ between
  <2>1. q = [r EXCEPT !.free = Append(@, name), !.info[name] = "CELL"]
    BY <1>2, <1>6
  <2>2. /\ q.parent = r.parent /\ q.locals = r.locals /\ q.cells = r.cells
        /\ q.free = Append(r.free, name)
        /\ \A n \in Name : q.info[n] = IF n = name THEN "CELL" ELSE r.info[n]
    BY <1>1, <2>1 DEF ScopeRecord
  <2> QED
    BY <1>3, <1>4, <1>6, <2>2 DEF between, PromotedAt
<1>7. CASE a # owner /\ ~between
  <2>1. q = r
    BY <1>2, <1>7
  <2> QED
    BY <1>7, <2>1 DEF between, PromotedAt
<1> QED
  BY <1>5, <1>6, <1>7

\* What a use that captures nothing changes: the kind of a name, which
\* becomes global.
LEMMA SettledFields ==
  ASSUME ScopeTypeOK, NEW s \in DOMAIN scopes, NEW name \in Name, ~Captures(s, name)
  PROVE  LET all == MaybePromote(s, name) IN
           /\ \A a \in DOMAIN scopes :
                /\ all[a].parent = scopes[a].parent /\ all[a].locals = scopes[a].locals
                /\ all[a].cells = scopes[a].cells /\ all[a].free = scopes[a].free
                /\ \A n \in Name : a # s \/ n # name => all[a].info[n] = scopes[a].info[n]
           /\ \/ all[s].info[name] = scopes[s].info[name]
              \/ /\ all[s].info[name] = "GLOBAL" /\ scopes[s].info[name] # "CELL"
                 /\ \/ s = Root \/ name \in Builtins
                    \/ scopes[s].info[name] = Unknown /\ Owners(s, name) = {}
           /\ all[s].info[name] # Unknown
           /\ s = Root /\ scopes[s].info[name] # "CELL" => all[s].info[name] = "GLOBAL"
<1> DEFINE all == MaybePromote(s, name)
           kind == Resolve(s, name)
<1>1. scopes[s] \in ScopeRecord /\ DOMAIN scopes = 1 .. Len(scopes)
  BY DEF ScopeTypeOK
<1>2. CASE scopes[s].info[name] = "CELL"
  BY <1>2 DEF MaybePromote, Unknown
<1>3. CASE scopes[s].info[name] # "CELL"
  <2>1. all = [scopes EXCEPT ![s].info[name] = kind]
    BY <1>3 DEF MaybePromote
  <2>2. kind # "CELL"
    BY <1>3 DEF Captures
  <2> QED
    BY <1>1, <1>3, <2>1, <2>2 DEF ScopeRecord, Types, Unknown, Resolve, Knows
<1> QED
  BY <1>2, <1>3

\* A capture hands the cell down through every function in between: the parent
\* of each of them is the owner or one of them.
LEMMA CaptureKeepsChain ==
  ASSUME ChainInv, IndexInv', NEW name \in Name, Captures(current, name),
         scopes' = MaybePromote(current, name), DOMAIN scopes' = DOMAIN scopes
  PROVE  ChainInv'
<1> DEFINE owner == Owner(current, name)
<1>1. /\ ScopeTypeOK /\ current \in DOMAIN scopes
      /\ owner \in Enclosing(current) \ {Root, current}
      /\ Enclosing(current) \subseteq DOMAIN scopes
      /\ Root \in DOMAIN scopes /\ DOMAIN scopes \subseteq Nat
      /\ Chained(scopes, current)
  <2>1. ScopeTypeOK /\ current \in DOMAIN scopes
    BY DEF ChainInv, IndexInv, ScopeTypeOK
  <2> QED
    BY <2>1, CaptureHasOwner, Around
<1> HIDE DEF owner
<1>2. ASSUME NEW a \in DOMAIN scopes
      PROVE  /\ scopes'[a].parent = scopes[a].parent
             /\ ToSet(scopes'[a].cells) =
                  ToSet(scopes[a].cells) \cup (IF a = owner THEN {name} ELSE {})
             /\ ToSet(scopes'[a].free) =
                  ToSet(scopes[a].free) \cup (IF a \in Between(current, owner) THEN {name} ELSE {})
  <2>1. PromotedAt(scopes', current, owner, name, a)
    BY <1>1, PromotedFields DEF owner
  <2> QED
    BY <2>1 DEF PromotedAt
<1>3. Root \notin Between(current, owner) /\ Root # owner
  <2>1. owner \in 1 .. current
    BY <1>1, Around
  <2> QED
    BY <1>1, <2>1 DEF Between, Root
<1>4. RootClean'
  <2>1. /\ scopes'[Root].cells = scopes[Root].cells
        /\ scopes'[Root].free = scopes[Root].free
        /\ \A n \in Name : scopes'[Root].info[n] = scopes[Root].info[n]
    <3>1. PromotedAt(scopes', current, owner, name, Root)
      BY <1>1, PromotedFields DEF owner
    <3> QED
      BY <1>3, <3>1 DEF PromotedAt
  <2> QED
    BY <2>1 DEF ChainInv, RootClean
<1>5. CaptureChain'
  <2> SUFFICES ASSUME NEW s \in DOMAIN scopes, NEW n \in ToSet(scopes'[s].free)
               PROVE  /\ scopes[s].parent # Root
                      /\ n \in ToSet(scopes'[scopes[s].parent].cells)
                               \cup ToSet(scopes'[scopes[s].parent].free)
    BY <1>2 DEF CaptureChain
  <2> DEFINE p == scopes[s].parent
  <2>1. CASE n \in ToSet(scopes[s].free)
    <3>1. p # Root /\ n \in ToSet(scopes[p].cells) \cup ToSet(scopes[p].free)
      BY <2>1 DEF ChainInv, CaptureChain
    <3>2. s # Root
      BY <2>1 DEF ChainInv, RootClean, ToSet
    <3>3. p \in DOMAIN scopes
      BY <1>1, <3>2, Around
    <3> QED
      BY <1>2, <3>1, <3>3
  <2>2. CASE s \in Between(current, owner) /\ n = name
    <3>1. s \in Enclosing(current) /\ owner < s
      BY <2>2 DEF Between
    <3>2. owner \in Enclosing(current) /\ owner # Root /\ owner \in Nat /\ 1 <= owner
      <4>1. owner \in 1 .. current
        BY <1>1, Around
      <4> QED
        BY <1>1, <4>1
    <3>3. s # Root /\ owner <= p
      BY <1>1, <3>1, <3>2 DEF Chained, Enclosing, Root
    <3>4. p \in Enclosing(current) /\ p \in DOMAIN scopes /\ p \in Nat
      BY <1>1, <3>1, <3>3 DEF Chained, Enclosing
    <3>5. p # Root
      BY <3>2, <3>3, <3>4 DEF Root
    <3>6. CASE p = owner
      BY <1>2, <2>2, <3>4, <3>5, <3>6
    <3>7. CASE p # owner
      <4>1. p \in Between(current, owner)
        BY <3>2, <3>3, <3>4, <3>7 DEF Between
      <4> QED
        BY <1>2, <2>2, <3>4, <3>5, <4>1
    <3> QED
      BY <3>6, <3>7
  <2> QED
    BY <1>2, <2>1, <2>2
<1> QED
  BY <1>4, <1>5 DEF ChainInv

LEMMA InitChained == Init => ChainInv
<1> SUFFICES ASSUME Init PROVE ChainInv
  OBVIOUS
<1>1. RootClean
  BY DEF Init, RootClean, Root
<1>2. CaptureChain
  BY DEF Init, CaptureChain, ToSet
<1> QED
  BY <1>1, <1>2, InitIndexed DEF ChainInv

\* What a declaration of a function makes of the scopes.
LEMMA DeclaredScopes ==
  ASSUME ScopeTypeOK, NEW fn \in Declarable, NEW params \in Params,
         DeclareFunction(fn, params)
  PROVE  LET n == Len(scopes) + 1 IN
           /\ fn \in Name /\ params \in Seq(Name)
           /\ DOMAIN scopes' = 1 .. n /\ n \notin DOMAIN scopes /\ DOMAIN scopes = 1 .. n - 1
           /\ n \in Nat /\ n - 1 \in Nat /\ n # Root
           /\ \A a \in DOMAIN scopes :
                /\ scopes'[a].cells = scopes[a].cells /\ scopes'[a].free = scopes[a].free
                /\ scopes'[a].parent = scopes[a].parent
                /\ ToSet(scopes'[a].locals) =
                     ToSet(scopes[a].locals) \cup (IF a = current THEN {fn} ELSE {})
                /\ \A m \in Name :
                     scopes'[a].info[m] = IF a = current /\ m = fn
                                          THEN TypeOfLocal(a) ELSE scopes[a].info[m]
           /\ scopes'[n].parent = current
           /\ scopes'[n].cells = <<>> /\ scopes'[n].free = <<>>
           /\ ToSet(scopes'[n].locals) = {fn} \cup ToSet(params)
           /\ \A m \in Name :
                scopes'[n].info[m] = IF m \in {fn} \cup ToSet(params) THEN "LOCAL" ELSE Unknown
<1> DEFINE new == [parent |-> current, info |-> [m \in Name |-> Unknown],
                   locals |-> <<>>, cells |-> <<>>, free |-> <<>>]
           names == <<fn>> \o params
           inner == AddLocals(new, names, "LOCAL")
           outer == AddLocals(scopes[current], <<fn>>, TypeOfLocal(current))
           k == Len(scopes)
<1>1. /\ scopes \in Seq(ScopeRecord) /\ k \in Nat /\ DOMAIN scopes = 1 .. k
      /\ current \in 1 .. k /\ current \in Nat
  BY DEF ScopeTypeOK
<1>2. fn \in Name /\ params \in Seq(Name)
  BY ScopeAssumption DEF Params, BoundedSeq, SeqOf
<1>3. names \in Seq(Name) /\ ToSet(names) = {fn} \cup ToSet(params)
  <2> DEFINE self == <<fn>>
  <2>1. self \in Seq(Name) /\ ToSet(self) = {fn}
    BY <1>2 DEF ToSet
  <2> HIDE DEF self
  <2>2. self \o params \in Seq(Name) /\ ToSet(self \o params) = ToSet(self) \cup ToSet(params)
    BY <1>2, <2>1, Concatenated
  <2> QED
    BY <2>1, <2>2 DEF self
<1>4. new \in ScopeRecord
  BY <1>1 DEF ScopeRecord, Unknown
<1>5. ToSet(<<>>) = {}
  BY DEF ToSet
<1>6. /\ inner.cells = <<>> /\ inner.free = <<>> /\ inner.parent = current
      /\ ToSet(inner.locals) = {fn} \cup ToSet(params)
      /\ \A m \in Name : inner.info[m] = IF m \in {fn} \cup ToSet(params) THEN "LOCAL" ELSE Unknown
  <2>1. "LOCAL" \in Types
    BY DEF Types
  <2> HIDE DEF new, names
  <2>2. /\ inner.cells = new.cells /\ inner.free = new.free /\ inner.parent = new.parent
        /\ ToSet(inner.locals) = ToSet(new.locals) \cup ToSet(names)
        /\ \A m \in Name : inner.info[m] = IF m \in ToSet(names) THEN "LOCAL" ELSE new.info[m]
    <3>1. LocalsAdded(inner, new, names, "LOCAL")
      BY <1>3, <1>4, <2>1, AddLocalsFields
    <3> QED
      BY <3>1 DEF LocalsAdded
  <2>3. /\ new.cells = <<>> /\ new.free = <<>> /\ new.parent = current
        /\ ToSet(new.locals) = {} /\ \A m \in Name : new.info[m] = Unknown
    BY <1>5 DEF new
  <2> HIDE DEF inner
  <2> QED
    BY <1>3, <2>2, <2>3
<1>7. /\ outer.cells = scopes[current].cells /\ outer.free = scopes[current].free
      /\ outer.parent = scopes[current].parent
      /\ ToSet(outer.locals) = ToSet(scopes[current].locals) \cup {fn}
      /\ \A m \in Name : outer.info[m] = IF m = fn THEN TypeOfLocal(current)
                                         ELSE scopes[current].info[m]
  <2>1. TypeOfLocal(current) \in Types
    BY DEF Types, TypeOfLocal
  <2>2. scopes[current] \in ScopeRecord
    BY <1>1
  <2> DEFINE old == scopes[current]
             type == TypeOfLocal(current)
  <2>3. old \in ScopeRecord /\ type \in Types
    BY <2>1, <2>2
  <2> HIDE DEF old, type, inner, names, new
  <2>4. /\ AddLocals(old, <<fn>>, type).cells = old.cells
        /\ AddLocals(old, <<fn>>, type).free = old.free
        /\ AddLocals(old, <<fn>>, type).parent = old.parent
        /\ ToSet(AddLocals(old, <<fn>>, type).locals) = ToSet(old.locals) \cup {fn}
        /\ \A m \in Name : AddLocals(old, <<fn>>, type).info[m] =
                             IF m = fn THEN type ELSE old.info[m]
    BY <1>2, <2>3, OneLocal
  <2> QED
    BY <2>4 DEF old, type
<1>8. scopes' = Append([scopes EXCEPT ![current] = outer], inner)
  BY DEF DeclareFunction
<1> HIDE DEF new, names
<1>9. DOMAIN scopes' = 1 .. k + 1 /\ scopes'[k + 1] = inner
      /\ \A a \in 1 .. k : scopes'[a] = IF a = current THEN outer ELSE scopes[a]
  <2> DEFINE t == [scopes EXCEPT ![current] = outer]
  <2>1. t \in Seq(ScopeRecord \cup {outer}) /\ Len(t) = k
        /\ \A a \in 1 .. k : t[a] = IF a = current THEN outer ELSE scopes[a]
    <3> HIDE DEF outer
    <3> QED
      BY <1>1
  <2>2. scopes' = Append(t, inner)
    BY <1>8
  <2> HIDE DEF t, inner, outer
  <2> QED
    BY <1>1, <2>1, <2>2, OneMore
<1>10. k + 1 # Root /\ k + 1 \notin 1 .. k /\ k + 1 \in Nat /\ (k + 1) - 1 = k
  BY <1>1 DEF Root
<1> HIDE DEF inner, outer
<1>11. ASSUME NEW a \in 1 .. k
       PROVE  /\ scopes'[a].cells = scopes[a].cells /\ scopes'[a].free = scopes[a].free
              /\ scopes'[a].parent = scopes[a].parent
              /\ ToSet(scopes'[a].locals) =
                   ToSet(scopes[a].locals) \cup (IF a = current THEN {fn} ELSE {})
              /\ \A m \in Name :
                   scopes'[a].info[m] = IF a = current /\ m = fn
                                        THEN TypeOfLocal(a) ELSE scopes[a].info[m]
  <2>1. CASE a = current
    <3>1. scopes'[a] = outer
      BY <1>9, <2>1
    <3> QED
      BY <1>7, <2>1, <3>1
  <2>2. CASE a # current
    <3>1. scopes'[a] = scopes[a]
      BY <1>9, <2>2
    <3> QED
      BY <2>2, <3>1
  <2> QED
    BY <2>1, <2>2
<1> QED
  BY <1>1, <1>2, <1>6, <1>9, <1>10, <1>11

\* What a declaration of a variable makes of the scopes.
LEMMA VariableScopes ==
  ASSUME ScopeTypeOK, NEW name \in Declarable, DeclareVariable(name)
  PROVE  /\ name \in Name /\ DOMAIN scopes' = DOMAIN scopes
         /\ \A a \in DOMAIN scopes :
              /\ scopes'[a].cells = scopes[a].cells /\ scopes'[a].free = scopes[a].free
              /\ scopes'[a].parent = scopes[a].parent
              /\ ToSet(scopes'[a].locals) =
                   ToSet(scopes[a].locals) \cup (IF a = current THEN {name} ELSE {})
              /\ \A m \in Name :
                   scopes'[a].info[m] = IF a = current /\ m = name
                                        THEN TypeOfLocal(a) ELSE scopes[a].info[m]
<1> DEFINE r == AddLocals(scopes[current], <<name>>, TypeOfLocal(current))
<1>1. name \in Name
  BY ScopeAssumption
<1>3. scopes[current] \in ScopeRecord /\ TypeOfLocal(current) \in Types
  BY DEF ScopeTypeOK, TypeOfLocal, Types
<1>4. /\ r.cells = scopes[current].cells /\ r.free = scopes[current].free
      /\ r.parent = scopes[current].parent
      /\ ToSet(r.locals) = ToSet(scopes[current].locals) \cup {name}
      /\ \A m \in Name : r.info[m] = IF m = name THEN TypeOfLocal(current)
                                     ELSE scopes[current].info[m]
  BY <1>1, <1>3, OneLocal
<1>5. scopes' = [scopes EXCEPT ![current] = r]
  BY DEF DeclareVariable
<1> HIDE DEF r
<1> QED
  BY <1>1, <1>4, <1>5 DEF ScopeTypeOK

LEMMA NextChained == ChainInv /\ [Next]_vars => ChainInv'
<1> SUFFICES ASSUME ChainInv, [Next]_vars PROVE ChainInv'
  OBVIOUS
<1>0. /\ IndexInv' /\ IndexInv /\ ScopeTypeOK /\ current \in DOMAIN scopes
      /\ \A n \in Name : scopes[Root].info[n] \in {"GLOBAL", Unknown}
      /\ Root \in DOMAIN scopes
  <2>1. IndexInv' /\ IndexInv /\ ScopeTypeOK /\ current \in DOMAIN scopes
    BY NextIndexed DEF ChainInv, IndexInv, ScopeTypeOK
  <2>2. Root \in DOMAIN scopes
    BY <2>1, Around
  <2> QED
    BY <2>1, <2>2 DEF ChainInv, RootClean
<1>1. ASSUME NEW fn \in Declarable, NEW params \in Params, DeclareFunction(fn, params)
      PROVE  ChainInv'
  BY <1>0, <1>1, DeclaredScopes, SameCells DEF TypeOfLocal
<1>2. CASE EndFunction
  BY <1>0, <1>2, SameCells DEF EndFunction
<1>3. ASSUME NEW name \in Declarable, DeclareVariable(name) PROVE ChainInv'
  BY <1>0, <1>3, VariableScopes, SameCells DEF TypeOfLocal
<1>4. ASSUME NEW name \in Name, UseName(name) PROVE ChainInv'
  <2>1. scopes' = MaybePromote(current, name) /\ DOMAIN scopes' = DOMAIN scopes
    BY <1>0, <1>4, MaybePromoteKeeps DEF UseName
  <2>2. CASE Captures(current, name)
    BY <1>0, <2>1, <2>2, CaptureKeepsChain
  <2>3. CASE ~Captures(current, name)
    BY <1>0, <2>1, <2>3, SettledFields, SameCells
  <2> QED
    BY <2>2, <2>3
<1>5. ASSUME NEW name \in Name, UseUnanalysed(name) PROVE ChainInv'
  BY <1>0, <1>5, SameCells DEF UseUnanalysed
<1>6. CASE Finish
  BY <1>0, <1>6, SameCells DEF Finish
<1>7. CASE UNCHANGED vars
  BY <1>0, <1>7, SameCells DEF vars
<1> QED
  BY <1>1, <1>2, <1>3, <1>4, <1>5, <1>6, <1>7 DEF Next

\* In every program a cell reaches the function that uses it: each function
\* between that one and the owner has a free variable for it (Scope::promote).
THEOREM CellsAreHandedDown == Spec => []CaptureChain
<1> QED
  BY InitChained, NextChained, PTL DEF Spec, ChainInv

-----------------------------------------------------------------------------
(* The programs that are not odd. *)

\* One function of such a program: it gives out one cell, of a local of its
\* own; it gets all of the cell of the function around it, or nothing; and a
\* name is one of its locals, a free variable or neither.
TidyAt(s) ==
  /\ Len(scopes[s].cells) <= 1
  /\ ToSet(scopes[s].cells) \subseteq ToSet(scopes[s].locals)
  /\ s # Root =>
       /\ scopes[s].free # <<>> => scopes[s].free = scopes[scopes[s].parent].cells
       /\ \A n \in ToSet(scopes[s].free) : n \notin ToSet(scopes[s].locals)
       /\ \A n \in ToSet(scopes[s].locals) :
            n \notin Builtins /\ scopes[s].info[n] \in {"LOCAL", "CELL"}
       /\ \A n \in ToSet(scopes[s].cells) \cup ToSet(scopes[s].free) :
            scopes[s].info[n] = "CELL"

\* A name that became global in a function is a local of no function around
\* it: that a global use was right stays so, as the functions around the
\* current one could still declare the name.
GlobalAt(s) ==
  s # Root =>
    \A n \in Name : scopes[s].info[n] = "GLOBAL" =>
      \A a \in Enclosing(s) \ {Root} : n \notin ToSet(scopes[a].locals)

\* A use is of a global, of a local, or of a cell of the function around.
Settled(u) ==
  \/ u.owner = Root /\ (u.scope = Root \/ scopes[u.scope].info[u.name] = "GLOBAL")
  \/ u.owner # Root /\ u.owner = u.scope /\ u.name \in ToSet(scopes[u.scope].locals)
  \/ /\ u.scope # Root /\ u.owner # Root /\ u.owner # u.scope
     /\ u.owner = scopes[u.scope].parent
     /\ u.name \in ToSet(scopes[u.scope].free)

UsesTyped == \A u \in uses : u.scope \in DOMAIN scopes /\ u.name \in Name

Tidy ==
  /\ \A s \in DOMAIN scopes : TidyAt(s)
  /\ \A s \in Enclosing(current) : GlobalAt(s)
  /\ \A u \in uses : Settled(u)

RightInv == ChainInv /\ UsesTyped /\ (odd = {} => Tidy)

LEMMA EnclosingSame ==
  ASSUME ScopeTypeOK, DOMAIN scopes \subseteq DOMAIN scopes',
         \A a \in DOMAIN scopes : scopes'[a].parent = scopes[a].parent
  PROVE  \A s \in DOMAIN scopes : EnclosingIn(scopes', s) = Enclosing(s)
<1>1. /\ DOMAIN scopes = 1 .. Len(scopes) /\ Len(scopes) \in Nat
      /\ Nested(scopes, Len(scopes))
  BY DEF ScopeTypeOK, Nested
<1> QED
  BY <1>1, SameParents DEF Enclosing

\* A local that the current function does not know yet disturbs nothing.
LEMMA NewLocalKeeps ==
  ASSUME RightInv, odd = {}, NEW name \in Name,
         current = Root \/ (~Knows(current, name) /\ name \notin Builtins),
         DOMAIN scopes \subseteq DOMAIN scopes',
         \A a \in DOMAIN scopes :
           /\ scopes'[a].cells = scopes[a].cells /\ scopes'[a].free = scopes[a].free
           /\ scopes'[a].parent = scopes[a].parent
           /\ ToSet(scopes'[a].locals) =
                ToSet(scopes[a].locals) \cup (IF a = current THEN {name} ELSE {})
           /\ \A m \in Name :
                scopes'[a].info[m] = IF a = current /\ m = name
                                     THEN TypeOfLocal(a) ELSE scopes[a].info[m]
  PROVE  /\ \A s \in DOMAIN scopes : TidyAt(s)'
         /\ \A s \in Enclosing(current) : GlobalAt(s)'
         /\ \A u \in uses : Settled(u)'
<1>1. /\ Tidy /\ UsesTyped /\ ScopeTypeOK /\ ChainInv /\ current \in DOMAIN scopes
      /\ \A a \in DOMAIN scopes : scopes[a] \in ScopeRecord
  BY DEF RightInv, ChainInv, IndexInv, ScopeTypeOK
<1>2. ASSUME NEW s \in DOMAIN scopes
      PROVE  /\ ToSet(scopes[s].locals) \subseteq Name
             /\ ToSet(scopes[s].cells) \subseteq Name
             /\ ToSet(scopes[s].free) \subseteq Name
  BY <1>1 DEF ScopeRecord, ToSet
<1>3. current # Root => scopes[current].info[name] = Unknown
  BY DEF Knows
<1>4. ASSUME NEW s \in DOMAIN scopes PROVE TidyAt(s)'
  <2>1. TidyAt(s)
    BY <1>1 DEF Tidy
  <2>2. s # Root => scopes[s].parent \in DOMAIN scopes
    BY <1>1, Around
  <2>3. s = Root \/ s # current \/ (s = current /\ s # Root)
    OBVIOUS
  <2>4. CASE s = Root
    BY <2>1, <2>4 DEF TidyAt
  <2>5. CASE s # Root /\ s # current
    <3>1. \A n \in Name : scopes'[s].info[n] = scopes[s].info[n]
      BY <2>5
    <3>2. /\ scopes'[s].cells = scopes[s].cells /\ scopes'[s].free = scopes[s].free
          /\ scopes'[s].parent = scopes[s].parent
          /\ ToSet(scopes'[s].locals) = ToSet(scopes[s].locals)
      BY <2>5
    <3>3. scopes'[scopes[s].parent].cells = scopes[scopes[s].parent].cells
      BY <2>2, <2>5
    <3> QED
      BY <1>2, <2>1, <2>5, <3>1, <3>2, <3>3 DEF TidyAt
  <2>6. CASE s # Root /\ s = current
    <3>1. /\ scopes'[s].info[name] = "LOCAL" /\ name \notin Builtins
          /\ scopes[s].info[name] = Unknown
      BY <1>3, <2>6 DEF TypeOfLocal
    <3>2. name \notin ToSet(scopes[s].cells) \cup ToSet(scopes[s].free)
      BY <2>1, <2>6, <3>1 DEF TidyAt, Unknown
    <3>3. /\ scopes'[s].cells = scopes[s].cells /\ scopes'[s].free = scopes[s].free
          /\ scopes'[s].parent = scopes[s].parent
          /\ ToSet(scopes'[s].locals) = ToSet(scopes[s].locals) \cup {name}
      BY <2>6
    <3>4. scopes'[scopes[s].parent].cells = scopes[scopes[s].parent].cells
      BY <2>2, <2>6
    <3>5. \A n \in Name : n # name => scopes'[s].info[n] = scopes[s].info[n]
      BY <2>6
    <3>6. \A n \in ToSet(scopes'[s].free) : n \notin ToSet(scopes'[s].locals)
      BY <2>1, <2>6, <3>2, <3>3 DEF TidyAt
    <3>7. \A n \in ToSet(scopes'[s].locals) :
            n \notin Builtins /\ scopes'[s].info[n] \in {"LOCAL", "CELL"}
      <4> TAKE n \in ToSet(scopes'[s].locals)
      <4>1. CASE n = name
        BY <3>1, <4>1
      <4>2. CASE n # name
        BY <1>2, <2>1, <2>6, <3>3, <3>5, <4>2 DEF TidyAt
      <4> QED
        BY <4>1, <4>2
    <3>8. \A n \in ToSet(scopes'[s].cells) \cup ToSet(scopes'[s].free) :
            scopes'[s].info[n] = "CELL"
      BY <1>2, <2>1, <2>6, <3>2, <3>3, <3>5 DEF TidyAt
    <3>9. TidyAt(s)' <=>
            /\ Len(scopes'[s].cells) <= 1
            /\ ToSet(scopes'[s].cells) \subseteq ToSet(scopes'[s].locals)
            /\ scopes'[s].free # <<>> => scopes'[s].free = scopes'[scopes'[s].parent].cells
      BY <2>6, <3>6, <3>7, <3>8 DEF TidyAt
    <3> QED
      BY <2>1, <2>6, <3>3, <3>4, <3>9 DEF TidyAt
  <2> QED
    BY <2>4, <2>5, <2>6
<1>5. ASSUME NEW s \in Enclosing(current) PROVE GlobalAt(s)'
  <2>1. /\ GlobalAt(s) /\ s \in DOMAIN scopes /\ Enclosing(s) \subseteq DOMAIN scopes
        /\ Enclosing(s) \subseteq 1 .. s /\ s \in 1 .. current
        /\ EnclosingIn(scopes', s) = Enclosing(s)
    <3>1. s \in DOMAIN scopes /\ s \in 1 .. current /\ GlobalAt(s)
      BY <1>1, Around DEF Tidy
    <3> QED
      BY <1>1, <3>1, Around, EnclosingSame
  <2> SUFFICES ASSUME s # Root, NEW n \in Name, scopes'[s].info[n] = "GLOBAL",
                      NEW a \in Enclosing(s) \ {Root}
               PROVE  n \notin ToSet(scopes'[a].locals)
    BY <2>1 DEF GlobalAt, Enclosing
  <2>2. scopes[s].info[n] = "GLOBAL" /\ (s = current => n # name)
    BY <2>1, <1>3 DEF TypeOfLocal, Unknown
  <2>3. n \notin ToSet(scopes[a].locals) /\ a \in DOMAIN scopes
    BY <2>1, <2>2 DEF GlobalAt
  <2>4. a = current => s = current
    <3>1. a <= s /\ s <= current /\ a \in Nat /\ s \in Nat /\ current \in Nat
      BY <1>1, <2>1 DEF ScopeTypeOK
    <3> QED
      BY <3>1
  <2> QED
    BY <2>2, <2>3, <2>4
<1>6. ASSUME NEW u \in uses PROVE Settled(u)'
  <2>1. Settled(u) /\ u.scope \in DOMAIN scopes /\ u.name \in Name
    BY <1>1 DEF Tidy, UsesTyped
  <2>2. u.scope # Root /\ scopes[u.scope].info[u.name] = "GLOBAL" =>
          scopes'[u.scope].info[u.name] = "GLOBAL"
    BY <1>3, <2>1 DEF Unknown
  <2> QED
    BY <2>1, <2>2 DEF Settled
<1> QED
  BY <1>4, <1>5, <1>6

LEMMA DeclareFunctionTidy ==
  ASSUME RightInv, odd = {}, NEW fn \in Declarable, NEW params \in Params,
         DeclareFunction(fn, params), odd' = {}
  PROVE  Tidy'
<1>0. PICK n : n = Len(scopes) + 1
  OBVIOUS
<1>1. /\ ScopeTypeOK /\ current \in DOMAIN scopes
      /\ (ToSet(params) \cup {fn}) \cap Builtins = {} /\ fn \notin Builtins
      /\ current = Root \/ ~Knows(current, fn)
  BY DEF RightInv, ChainInv, IndexInv, ScopeTypeOK, DeclareFunction, OddDeclaration
<1>2. /\ fn \in Name /\ params \in Seq(Name)
      /\ DOMAIN scopes' = 1 .. n /\ n \notin DOMAIN scopes /\ DOMAIN scopes = 1 .. n - 1
      /\ n \in Nat /\ n - 1 \in Nat /\ n # Root
      /\ \A a \in DOMAIN scopes :
           /\ scopes'[a].cells = scopes[a].cells /\ scopes'[a].free = scopes[a].free
           /\ scopes'[a].parent = scopes[a].parent
           /\ ToSet(scopes'[a].locals) =
                ToSet(scopes[a].locals) \cup (IF a = current THEN {fn} ELSE {})
           /\ \A m \in Name :
                scopes'[a].info[m] = IF a = current /\ m = fn
                                     THEN TypeOfLocal(a) ELSE scopes[a].info[m]
      /\ scopes'[n].parent = current
      /\ scopes'[n].cells = <<>> /\ scopes'[n].free = <<>>
      /\ ToSet(scopes'[n].locals) = {fn} \cup ToSet(params)
      /\ \A m \in Name :
           scopes'[n].info[m] = IF m \in {fn} \cup ToSet(params) THEN "LOCAL" ELSE Unknown
  BY <1>0, <1>1, DeclaredScopes
<1>3. DOMAIN scopes \subseteq DOMAIN scopes'
  BY <1>2
<1>4. /\ \A s \in DOMAIN scopes : TidyAt(s)'
      /\ \A s \in Enclosing(current) : GlobalAt(s)'
      /\ \A u \in uses : Settled(u)'
  BY <1>1, <1>2, <1>3, NewLocalKeeps
<1>5. TidyAt(n)'
  <2>1. ToSet(scopes'[n].cells) = {} /\ ToSet(scopes'[n].free) = {} /\ Len(scopes'[n].cells) = 0
    BY <1>2 DEF ToSet
  <2>2. ToSet(params) \subseteq Name
    BY <1>2 DEF ToSet
  <2> QED
    BY <1>1, <1>2, <2>1, <2>2 DEF TidyAt
<1>6. GlobalAt(n)'
  BY <1>2 DEF GlobalAt, Unknown
<1>7. Enclosing(current)' = {n} \cup Enclosing(current)
  <2>1. current' = n
    BY <1>0 DEF DeclareFunction
  <2>2. IndexInv'
    BY DeclareFunctionKeeps DEF RightInv, ChainInv
  <2>3. EnclosingIn(scopes', n) = {n} \cup EnclosingIn(scopes', scopes'[n].parent)
    <3>1. ScopeTypeOK' /\ n \in DOMAIN scopes'
      BY <2>2, <1>2 DEF IndexInv
    <3>2. Nested(scopes', Len(scopes')) /\ DOMAIN scopes' = 1 .. Len(scopes') /\ Len(scopes') \in Nat
      BY <3>1 DEF ScopeTypeOK, Nested
    <3> QED
      BY <1>2, <3>1, <3>2, EnclosingChained
  <2>4. EnclosingIn(scopes', current) = Enclosing(current)
    BY <1>1, <1>2, <1>3, EnclosingSame
  <2> QED
    BY <1>2, <2>1, <2>3, <2>4 DEF Enclosing
<1>8. DOMAIN scopes' = DOMAIN scopes \cup {n} /\ uses' = uses
  BY <1>2 DEF DeclareFunction
<1> QED
  BY <1>4, <1>5, <1>6, <1>7, <1>8 DEF Tidy

LEMMA DeclareVariableTidy ==
  ASSUME RightInv, odd = {}, NEW name \in Declarable, DeclareVariable(name), odd' = {}
  PROVE  Tidy'
<1>1. /\ ScopeTypeOK /\ current \in DOMAIN scopes
      /\ current = Root \/ (~Knows(current, name) /\ name \notin Builtins)
  BY DEF RightInv, ChainInv, IndexInv, ScopeTypeOK, DeclareVariable, OddDeclaration
<1>2. /\ name \in Name /\ DOMAIN scopes' = DOMAIN scopes
      /\ \A a \in DOMAIN scopes :
           /\ scopes'[a].cells = scopes[a].cells /\ scopes'[a].free = scopes[a].free
           /\ scopes'[a].parent = scopes[a].parent
           /\ ToSet(scopes'[a].locals) =
                ToSet(scopes[a].locals) \cup (IF a = current THEN {name} ELSE {})
           /\ \A m \in Name :
                scopes'[a].info[m] = IF a = current /\ m = name
                                     THEN TypeOfLocal(a) ELSE scopes[a].info[m]
  BY <1>1, VariableScopes
<1>3. /\ \A s \in DOMAIN scopes : TidyAt(s)'
      /\ \A s \in Enclosing(current) : GlobalAt(s)'
      /\ \A u \in uses : Settled(u)'
  BY <1>1, <1>2, NewLocalKeeps
<1>4. PICK new : new = [scope |-> current, name |-> name, owner |-> current]
  OBVIOUS
<1>5. uses' = uses \cup {new} /\ current' = current
  BY <1>4 DEF DeclareVariable
<1>6. Settled(new)'
  <2>1. name \in ToSet(scopes'[current].locals)
    BY <1>1, <1>2
  <2> QED
    BY <1>4, <2>1 DEF Settled
<1>7. Enclosing(current)' = Enclosing(current)
  <2>1. EnclosingIn(scopes', current) = Enclosing(current)
    BY <1>1, <1>2, EnclosingSame
  <2> QED
    BY <1>5, <2>1 DEF Enclosing
<1> QED
  BY <1>2, <1>3, <1>5, <1>6, <1>7 DEF Tidy

\* The innermost declaration around a use.
LEMMA InnermostDeclared ==
  ASSUME ScopeTypeOK, NEW s \in DOMAIN scopes, NEW name \in Name,
         NEW d \in Enclosing(s), d = Root \/ name \in ToSet(scopes[d].locals),
         \A a \in Enclosing(s) : d < a => name \notin ToSet(scopes[a].locals)
  PROVE  Declared(s, name) = d
<1> DEFINE D == {a \in Enclosing(s) : name \in ToSet(scopes[a].locals)} \cup {Root}
<1>1. Enclosing(s) \subseteq 1 .. s /\ s \in Nat
  <2>1. s \in Nat
    BY DEF ScopeTypeOK
  <2> QED
    BY <2>1, Around
<1>2. D \in SUBSET Nat /\ d \in D /\ \A a \in D : a <= d
  BY <1>1 DEF Root
<1> HIDE DEF D
<1>3. \E x \in D : \A y \in D : x >= y
  BY <1>2
<1>4. Max(D) \in D /\ \A y \in D : Max(D) >= y
  BY <1>3 DEF Max
<1>5. Max(D) = d
  <2>1. PICK m : m = Max(D)
    OBVIOUS
  <2>2. m \in Nat /\ d \in Nat /\ m <= d /\ m >= d
    BY <1>2, <1>4, <2>1
  <2> QED
    BY <2>1, <2>2
<1> QED
  BY <1>5 DEF Declared, D

\* A capture of such a program: the owner is the function around the use, and
\* this is the first name of its that is captured.
LEMMA CaptureTidy ==
  ASSUME RightInv, odd = {}, NEW name \in Name, UseName(name),
         Captures(current, name), odd' = {}
  PROVE  Tidy'
<1>0. PICK p : p = Owner(current, name)
  OBVIOUS
<1>1. /\ Tidy /\ UsesTyped /\ ScopeTypeOK /\ ChainInv /\ IndexInv
      /\ current \in DOMAIN scopes /\ DOMAIN scopes \subseteq Nat
      /\ \A a \in DOMAIN scopes : scopes[a] \in ScopeRecord
  BY DEF RightInv, ChainInv, IndexInv, ScopeTypeOK
<1>2. /\ p \in Enclosing(current) \ {Root, current} /\ current # Root
      /\ scopes[current].info[name] = Unknown
      /\ scopes[p].cells = <<>> /\ p = scopes[current].parent
      /\ name \in ToSet(scopes[p].locals)
  BY <1>0, <1>1, CaptureHasOwner DEF UseName, OddCapture, Knows
<1>3. /\ p \in DOMAIN scopes /\ p < current /\ p \in Nat
      /\ Enclosing(current) = {current} \cup Enclosing(p)
      /\ Enclosing(p) \subseteq 1 .. p
  BY <1>1, <1>2, Around
<1>4. Between(current, p) = {current}
  BY <1>1, <1>3 DEF Between
<1>5. DOMAIN scopes' = DOMAIN scopes /\ scopes' = MaybePromote(current, name)
  BY <1>1, MaybePromoteKeeps DEF UseName
<1>6. ASSUME NEW a \in DOMAIN scopes
      PROVE  /\ scopes'[a].parent = scopes[a].parent /\ scopes'[a].locals = scopes[a].locals
             /\ scopes'[a].cells = IF a = p THEN Append(scopes[a].cells, name)
                                   ELSE scopes[a].cells
             /\ scopes'[a].free = IF a = current THEN Append(scopes[a].free, name)
                                  ELSE scopes[a].free
             /\ ToSet(scopes'[a].cells) =
                  ToSet(scopes[a].cells) \cup (IF a = p THEN {name} ELSE {})
             /\ ToSet(scopes'[a].free) =
                  ToSet(scopes[a].free) \cup (IF a = current THEN {name} ELSE {})
             /\ \A n \in Name :
                  scopes'[a].info[n] = IF n = name /\ (a = p \/ a = current)
                                       THEN "CELL" ELSE scopes[a].info[n]
  <2>1. a = current <=> a \in Between(current, p)
    BY <1>4
  <2>2. PromotedAt(scopes', current, p, name, a)
    BY <1>0, <1>1, <1>5, PromotedFields
  <2> QED
    BY <2>1, <2>2 DEF PromotedAt
<1>7. ASSUME NEW a \in DOMAIN scopes
      PROVE  /\ ToSet(scopes[a].locals) \subseteq Name
             /\ ToSet(scopes[a].cells) \subseteq Name
             /\ ToSet(scopes[a].free) \subseteq Name
             /\ a # Root => scopes[a].parent \in DOMAIN scopes /\ scopes[a].parent < a
  <2>1. a # Root => scopes[a].parent \in DOMAIN scopes /\ scopes[a].parent < a
    BY <1>1, Around
  <2> QED
    BY <1>1, <2>1 DEF ScopeRecord, ToSet
<1>8. scopes[current].free = <<>> /\ name \notin ToSet(scopes[current].locals)
  BY <1>1, <1>2 DEF Tidy, TidyAt, Unknown
<1>9. /\ Append(<<>>, name) = <<name>> /\ Len(<<name>>) = 1
      /\ ToSet(<<>>) = {}
  BY DEF ToSet
<1>10. ASSUME NEW a \in DOMAIN scopes PROVE TidyAt(a)'
  <2>1. TidyAt(a)
    BY <1>1 DEF Tidy
  <2>2. Len(scopes'[a].cells) <= 1
    <3>1. CASE a = p
      <4>1. scopes'[a].cells = <<name>>
        BY <1>2, <1>6, <1>9, <3>1
      <4> QED
        BY <1>9, <4>1
    <3>2. CASE a # p
      <4>1. scopes'[a].cells = scopes[a].cells
        BY <1>6, <3>2
      <4> QED
        BY <2>1, <4>1 DEF TidyAt
    <3> QED
      BY <3>1, <3>2
  <2>3. ToSet(scopes'[a].cells) \subseteq ToSet(scopes'[a].locals)
    <3>1. /\ ToSet(scopes[a].cells) \subseteq ToSet(scopes[a].locals)
          /\ scopes'[a].locals = scopes[a].locals
      BY <1>6, <2>1 DEF TidyAt
    <3>2. ToSet(scopes'[a].cells) = ToSet(scopes[a].cells) \cup (IF a = p THEN {name} ELSE {})
      BY <1>6
    <3> QED
      BY <1>2, <3>1, <3>2
  <2>4. ASSUME a # Root, scopes'[a].free # <<>>
        PROVE  scopes'[a].free = scopes'[scopes[a].parent].cells
    <3>1. CASE a = current
      BY <1>2, <1>3, <1>6, <1>8, <1>9, <3>1
    <3>2. CASE a # current
      <4>1. scopes'[a].free = scopes[a].free /\ scopes[a].free = scopes[scopes[a].parent].cells
        BY <1>6, <2>1, <2>4, <3>2 DEF TidyAt
      <4>2. scopes[a].parent # p
        BY <1>2, <2>4, <4>1
      <4> QED
        BY <1>6, <1>7, <2>4, <4>1, <4>2
    <3> QED
      BY <3>1, <3>2
  <2>5. ASSUME a # Root, NEW n \in ToSet(scopes'[a].free)
        PROVE  n \notin ToSet(scopes'[a].locals)
    BY <1>6, <1>8, <2>1, <2>5 DEF TidyAt
  <2>6. ASSUME a # Root, NEW n \in ToSet(scopes'[a].locals)
        PROVE  n \notin Builtins /\ scopes'[a].info[n] \in {"LOCAL", "CELL"}
    BY <1>6, <1>7, <2>1, <2>6 DEF TidyAt
  <2>7. ASSUME a # Root, NEW n \in ToSet(scopes'[a].cells) \cup ToSet(scopes'[a].free)
        PROVE  scopes'[a].info[n] = "CELL"
    <3>1. CASE n \in ToSet(scopes[a].cells) \cup ToSet(scopes[a].free)
      <4>1. n \in Name /\ scopes[a].info[n] = "CELL"
        BY <1>7, <2>1, <2>7, <3>1 DEF TidyAt
      <4> QED
        BY <1>6, <4>1
    <3>2. CASE n \notin ToSet(scopes[a].cells) \cup ToSet(scopes[a].free)
      <4>1. n = name /\ (a = p \/ a = current)
        BY <1>6, <2>7, <3>2
      <4> QED
        BY <1>6, <4>1
    <3> QED
      BY <3>1, <3>2
  <2>8. scopes'[a].parent = scopes[a].parent
    BY <1>6
  <2> QED
    BY <2>2, <2>3, <2>4, <2>5, <2>6, <2>7, <2>8 DEF TidyAt
<1>11. \A s \in DOMAIN scopes : EnclosingIn(scopes', s) = Enclosing(s)
  BY <1>1, <1>5, <1>6, EnclosingSame
<1>12. ASSUME NEW s \in Enclosing(current) PROVE GlobalAt(s)'
  <2>1. s \in DOMAIN scopes /\ Enclosing(s) \subseteq DOMAIN scopes /\ GlobalAt(s)
    <3>1. s \in DOMAIN scopes
      BY <1>1, Around
    <3> QED
      BY <1>1, <3>1, Around DEF Tidy
  <2> QED
    BY <1>6, <1>11, <2>1 DEF GlobalAt, Enclosing
<1>13. ASSUME NEW u \in uses PROVE Settled(u)'
  <2>1. Settled(u) /\ u.scope \in DOMAIN scopes /\ u.name \in Name
    BY <1>1 DEF Tidy, UsesTyped
  <2>2. ASSUME u.scope # Root, scopes[u.scope].info[u.name] = "GLOBAL"
        PROVE  scopes'[u.scope].info[u.name] = "GLOBAL"
    <3>1. ~(u.name = name /\ u.scope = current)
      BY <1>2, <2>2 DEF Unknown
    <3>2. ~(u.name = name /\ u.scope = p)
      BY <1>1, <1>2, <1>3, <2>2 DEF Tidy, TidyAt
    <3> QED
      BY <1>6, <2>1, <2>2, <3>1, <3>2
  <2> QED
    BY <1>6, <2>1, <2>2 DEF Settled
<1>14. PICK new : new = [scope |-> current, name |-> name, owner |-> p]
  OBVIOUS
<1>15. uses' = uses \cup {new} /\ current' = current
  <2>1. Declared(current, name) = p
    <3>1. \A a \in Enclosing(current) : p < a => name \notin ToSet(scopes[a].locals)
      BY <1>3, <1>8
    <3> QED
      BY <1>1, <1>2, <3>1, InnermostDeclared
  <2> QED
    BY <1>14, <2>1 DEF UseName, Use
<1>16. Settled(new)'
  BY <1>1, <1>2, <1>6, <1>14 DEF Settled
<1>17. Enclosing(current)' = Enclosing(current)
  BY <1>1, <1>11, <1>15 DEF Enclosing
<1> QED
  BY <1>5, <1>10, <1>12, <1>13, <1>15, <1>16, <1>17 DEF Tidy

\* A use that captures nothing: the name is global, a local, or a cell already.
LEMMA SettleTidy ==
  ASSUME RightInv, odd = {}, NEW name \in Name, UseName(name), ~Captures(current, name)
  PROVE  Tidy'
<1>0. PICK s : s = current
  OBVIOUS
<1>1. /\ Tidy /\ UsesTyped /\ ScopeTypeOK /\ ChainInv /\ IndexInv
      /\ s \in DOMAIN scopes /\ DOMAIN scopes \subseteq Nat
      /\ \A a \in DOMAIN scopes : scopes[a] \in ScopeRecord /\ Found(scopes[a])
  BY <1>0, FoundEverywhere DEF RightInv, ChainInv, IndexInv, ScopeTypeOK
<1>2. /\ Enclosing(s) \subseteq 1 .. s /\ Enclosing(s) \subseteq DOMAIN scopes
      /\ Root \in Enclosing(s) /\ s \in Enclosing(s)
      /\ s = Root => Enclosing(s) = {Root}
  BY <1>1, Around
<1>3. /\ DOMAIN scopes' = DOMAIN scopes /\ scopes' = MaybePromote(s, name)
      /\ scopes' \in Seq(ScopeRecord)
  BY <1>0, <1>1, MaybePromoteKeeps DEF UseName
<1>4. /\ \A a \in DOMAIN scopes :
           /\ scopes'[a].parent = scopes[a].parent /\ scopes'[a].locals = scopes[a].locals
           /\ scopes'[a].cells = scopes[a].cells /\ scopes'[a].free = scopes[a].free
           /\ \A n \in Name : a # s \/ n # name => scopes'[a].info[n] = scopes[a].info[n]
      /\ \/ scopes'[s].info[name] = scopes[s].info[name]
         \/ /\ scopes'[s].info[name] = "GLOBAL" /\ scopes[s].info[name] # "CELL"
            /\ \/ s = Root \/ name \in Builtins
               \/ scopes[s].info[name] = Unknown /\ Owners(s, name) = {}
      /\ scopes'[s].info[name] # Unknown
  BY <1>0, <1>1, <1>3, SettledFields
<1>5. ASSUME s # Root, scopes'[s].info[name] = "GLOBAL", NEW a \in Enclosing(s) \ {Root}
      PROVE  name \notin ToSet(scopes[a].locals)
  <2>1. a \in DOMAIN scopes /\ TidyAt(a)
    BY <1>1, <1>2 DEF Tidy
  <2>2. CASE scopes[s].info[name] = "GLOBAL"
    <3>1. GlobalAt(s)
      BY <1>0, <1>2 DEF RightInv, Tidy
    <3> QED
      BY <1>5, <2>2, <3>1 DEF GlobalAt
  <2>3. CASE name \in Builtins
    BY <1>5, <2>1, <2>3 DEF TidyAt
  <2>4. CASE scopes[s].info[name] = Unknown /\ Owners(s, name) = {}
    <3>1. scopes[a].info[name] = Unknown
      BY <1>5, <2>4 DEF Owners, Knows
    <3> QED
      BY <1>5, <2>1, <3>1 DEF TidyAt, Unknown
  <2> QED
    BY <1>4, <1>5, <2>2, <2>3, <2>4
<1>6. ASSUME NEW a \in DOMAIN scopes PROVE TidyAt(a)'
  <2>1. TidyAt(a)
    BY <1>1 DEF Tidy
  <2>2. /\ scopes'[a].parent = scopes[a].parent /\ scopes'[a].locals = scopes[a].locals
        /\ scopes'[a].cells = scopes[a].cells /\ scopes'[a].free = scopes[a].free
        /\ a # Root => scopes'[scopes[a].parent].cells = scopes[scopes[a].parent].cells
    <3>1. a # Root => scopes[a].parent \in DOMAIN scopes
      BY <1>1, Around
    <3> QED
      BY <1>4, <3>1
  <2>3. /\ ToSet(scopes[a].locals) \subseteq Name /\ ToSet(scopes[a].cells) \subseteq Name
        /\ ToSet(scopes[a].free) \subseteq Name
    BY <1>1 DEF ScopeRecord, ToSet
  <2>4. CASE \A n \in Name : scopes'[a].info[n] = scopes[a].info[n]
    <3>1. \A n \in ToSet(scopes[a].locals) : scopes'[a].info[n] = scopes[a].info[n]
      BY <2>3, <2>4
    <3>2. \A n \in ToSet(scopes[a].cells) \cup ToSet(scopes[a].free) :
            scopes'[a].info[n] = scopes[a].info[n]
      BY <2>3, <2>4
    <3> QED
      BY <2>1, <2>2, <3>1, <3>2 DEF TidyAt
  <2>5. CASE a = Root
    BY <2>1, <2>2, <2>5 DEF TidyAt
  <2>6. CASE a # Root /\ ~(\A n \in Name : scopes'[a].info[n] = scopes[a].info[n])
    <3>1. a = s /\ scopes'[s].info[name] = "GLOBAL" /\ scopes[s].info[name] # "CELL"
      BY <1>4, <2>6
    <3>2. name \notin ToSet(scopes[s].locals)
      BY <1>2, <1>5, <2>6, <3>1
    <3>3. name \notin ToSet(scopes[s].cells) \cup ToSet(scopes[s].free)
      BY <2>1, <2>6, <3>1 DEF TidyAt
    <3>4. \A n \in ToSet(scopes[a].locals) : scopes'[a].info[n] = scopes[a].info[n]
      BY <1>4, <2>3, <3>1, <3>2
    <3>5. \A n \in ToSet(scopes[a].cells) \cup ToSet(scopes[a].free) :
            scopes'[a].info[n] = scopes[a].info[n]
      BY <1>4, <2>3, <3>1, <3>3
    <3> QED
      BY <2>1, <2>2, <3>4, <3>5 DEF TidyAt
  <2> QED
    BY <2>4, <2>5, <2>6
<1>7. \A t \in DOMAIN scopes : EnclosingIn(scopes', t) = Enclosing(t)
  BY <1>1, <1>3, <1>4, EnclosingSame
<1>8. ASSUME NEW t \in Enclosing(s) PROVE GlobalAt(t)'
  <2>1. t \in DOMAIN scopes /\ GlobalAt(t) /\ Enclosing(t) \subseteq DOMAIN scopes
    <3>1. t \in DOMAIN scopes
      BY <1>2
    <3> QED
      BY <1>0, <1>1, <3>1, Around DEF Tidy
  <2> SUFFICES ASSUME t # Root, NEW n \in Name, scopes'[t].info[n] = "GLOBAL",
                      NEW a \in Enclosing(t) \ {Root}
               PROVE  n \notin ToSet(scopes'[a].locals)
    BY <1>7, <2>1 DEF GlobalAt, Enclosing
  <2>2. scopes'[a].locals = scopes[a].locals
    BY <1>4, <2>1
  <2>3. CASE t = s /\ n = name
    BY <1>5, <2>2, <2>3
  <2>4. CASE ~(t = s /\ n = name)
    <3>1. scopes[t].info[n] = "GLOBAL"
      BY <1>4, <2>1, <2>4
    <3> QED
      BY <2>1, <2>2, <3>1 DEF GlobalAt
  <2> QED
    BY <2>3, <2>4
<1>9. ASSUME NEW u \in uses PROVE Settled(u)'
  <2>1. Settled(u) /\ u.scope \in DOMAIN scopes /\ u.name \in Name
    BY <1>1 DEF Tidy, UsesTyped
  <2>2. scopes[u.scope].info[u.name] = "GLOBAL" => scopes'[u.scope].info[u.name] = "GLOBAL"
    BY <1>4, <2>1
  <2> QED
    BY <1>4, <2>1, <2>2 DEF Settled
<1>10. PICK d : d = Declared(s, name)
  OBVIOUS
<1>11. PICK new : new = [scope |-> s, name |-> name, owner |-> d]
  OBVIOUS
<1>12. uses' = uses \cup {new} /\ current' = s
  BY <1>0, <1>10, <1>11 DEF UseName, Use
<1>13. Settled(new)'
  <2>1. CASE s = Root
    <3>1. d = Root
      BY <1>1, <1>2, <1>10, <2>1, InnermostDeclared
    <3> QED
      BY <1>11, <2>1, <3>1 DEF Settled
  <2>2. CASE s # Root /\ scopes'[s].info[name] = "GLOBAL"
    <3>1. d = Root
      <4>1. \A a \in Enclosing(s) : Root < a => name \notin ToSet(scopes[a].locals)
        BY <1>5, <2>2 DEF Root
      <4> QED
        BY <1>1, <1>2, <1>10, <4>1, InnermostDeclared
    <3> QED
      BY <1>11, <2>2, <3>1 DEF Settled
  <2>3. CASE s # Root /\ name \in ToSet(scopes[s].locals)
    <3>1. d = s
      <4>1. \A a \in Enclosing(s) : s < a => name \notin ToSet(scopes[a].locals)
        BY <1>1, <1>2
      <4> QED
        BY <1>1, <1>2, <1>10, <2>3, <4>1, InnermostDeclared
    <3> QED
      BY <1>1, <1>4, <1>11, <2>3, <3>1 DEF Settled
  <2>4. CASE s # Root /\ name \notin ToSet(scopes[s].locals) /\ name \in ToSet(scopes[s].free)
    <3> DEFINE p == scopes[s].parent
    <3>1. p # Root /\ p \in DOMAIN scopes /\ p < s /\ Enclosing(p) \subseteq 1 .. p
          /\ Enclosing(s) = {s} \cup Enclosing(p) /\ p \in Enclosing(p)
      BY <1>1, <2>4, Around DEF ChainInv, CaptureChain
    <3>2. TidyAt(s) /\ TidyAt(p)
      BY <1>1, <3>1 DEF Tidy
    <3>3. scopes[s].free = scopes[p].cells
      BY <2>4, <3>2 DEF TidyAt, ToSet
    <3>4. name \in ToSet(scopes[p].locals)
      BY <2>4, <3>2, <3>3 DEF TidyAt
    <3>5. p \in Nat /\ \A a \in Enclosing(s) : p < a => name \notin ToSet(scopes[a].locals)
      BY <1>1, <2>4, <3>1
    <3>6. d = p
      <4> HIDE DEF p
      <4>1. p \in Enclosing(s)
        BY <3>1
      <4> QED
        BY <1>1, <1>10, <3>4, <3>5, <4>1, InnermostDeclared
    <3> QED
      BY <1>1, <1>4, <1>11, <2>4, <3>1, <3>6 DEF Settled
  <2>5. ASSUME s # Root, scopes'[s].info[name] # "GLOBAL"
        PROVE  name \in ToSet(scopes[s].locals) \/ name \in ToSet(scopes[s].free)
    <3>1. scopes[s].info[name] = scopes'[s].info[name]
      BY <1>4, <2>5
    <3>2. scopes'[s].info[name] \in {"LOCAL", "CELL"}
      <4>1. scopes'[s] \in ScopeRecord
        BY <1>1, <1>3
      <4> QED
        BY <1>4, <2>5, <4>1 DEF ScopeRecord, Types
    <3>3. TidyAt(s) /\ Found(scopes[s])
      BY <1>1 DEF Tidy
    <3> QED
      BY <3>1, <3>2, <3>3 DEF Found, TidyAt
  <2> QED
    BY <2>1, <2>2, <2>3, <2>4, <2>5
<1>14. Enclosing(current)' = Enclosing(s)
  BY <1>1, <1>7, <1>12 DEF Enclosing
<1> QED
  BY <1>3, <1>6, <1>8, <1>9, <1>12, <1>13, <1>14 DEF Tidy

\* What is odd about a program stays so.
LEMMA OddStays == [Next]_vars => odd \subseteq odd'
BY DEF Next, vars, DeclareFunction, EndFunction, DeclareVariable, UseName, UseUnanalysed,
       Finish

LEMMA InitRight == Init => RightInv
<1> SUFFICES ASSUME Init PROVE RightInv
  OBVIOUS
<1>1. ChainInv /\ UsesTyped
  BY InitChained DEF Init, UsesTyped
<1>2. ScopeTypeOK /\ DOMAIN scopes = {Root} /\ Enclosing(current) = {Root}
  <2>1. ScopeTypeOK /\ DOMAIN scopes = {Root}
    BY <1>1 DEF ChainInv, IndexInv, Init, Root
  <2> QED
    BY <2>1, Around DEF Init
<1>3. TidyAt(Root)
  <2>1. scopes[Root].cells = <<>> /\ ToSet(<<>>) = {} /\ Len(<<>>) = 0
    BY DEF Init, Root, ToSet
  <2> QED
    BY <2>1 DEF TidyAt
<1> QED
  BY <1>1, <1>2, <1>3 DEF RightInv, Tidy, GlobalAt, Init

LEMMA NextRight == RightInv /\ [Next]_vars => RightInv'
<1> SUFFICES ASSUME RightInv, [Next]_vars PROVE RightInv'
  OBVIOUS
<1>0. /\ ChainInv' /\ ScopeTypeOK /\ current \in DOMAIN scopes /\ UsesTyped
      /\ odd \subseteq odd' /\ (odd = {} => Tidy)
  BY NextChained, OddStays DEF RightInv, ChainInv, IndexInv, ScopeTypeOK
<1>1. UsesTyped'
  <2>1. ASSUME NEW fn \in Declarable, NEW params \in Params, DeclareFunction(fn, params)
        PROVE  UsesTyped'
    <3>1. DOMAIN scopes \subseteq DOMAIN scopes'
      BY <1>0, <2>1, DeclaredScopes
    <3>2. uses' = uses
      BY <2>1 DEF DeclareFunction
    <3> QED
      BY <1>0, <3>1, <3>2 DEF UsesTyped
  <2>2. ASSUME NEW name \in Declarable, DeclareVariable(name) PROVE UsesTyped'
    <3>1. name \in Name /\ DOMAIN scopes' = DOMAIN scopes
      BY <1>0, <2>2, VariableScopes
    <3> QED
      BY <1>0, <2>2, <3>1 DEF UsesTyped, DeclareVariable
  <2>3. ASSUME NEW name \in Name, UseName(name) PROVE UsesTyped'
    <3>1. DOMAIN scopes' = DOMAIN scopes
      BY <1>0, <2>3, MaybePromoteKeeps DEF UseName, RightInv, ChainInv
    <3> QED
      BY <1>0, <2>3, <3>1 DEF UsesTyped, UseName, Use
  <2>4. ASSUME NEW name \in Name, UseUnanalysed(name) PROVE UsesTyped'
    BY <1>0, <2>4 DEF UsesTyped, UseUnanalysed, Use
  <2>5. CASE EndFunction \/ Finish \/ UNCHANGED vars
    BY <1>0, <2>5 DEF UsesTyped, EndFunction, Finish, vars
  <2> QED
    BY <2>1, <2>2, <2>3, <2>4, <2>5 DEF Next
<1>2. ASSUME odd' = {} PROVE Tidy'
  <2>0. odd = {} /\ Tidy
    BY <1>0, <1>2
  <2>1. ASSUME NEW fn \in Declarable, NEW params \in Params, DeclareFunction(fn, params)
        PROVE  Tidy'
    BY <1>2, <2>0, <2>1, DeclareFunctionTidy
  <2>2. ASSUME NEW name \in Declarable, DeclareVariable(name) PROVE Tidy'
    BY <1>2, <2>0, <2>2, DeclareVariableTidy
  <2>3. ASSUME NEW name \in Name, UseName(name) PROVE Tidy'
    BY <1>2, <2>0, <2>3, CaptureTidy, SettleTidy
  <2>4. ASSUME NEW name \in Name, UseUnanalysed(name) PROVE Tidy'
    BY <1>2, <2>4 DEF UseUnanalysed
  <2>5. CASE EndFunction
    <3>1. Enclosing(scopes[current].parent) \subseteq Enclosing(current)
      BY <1>0, <2>5, Around DEF EndFunction
    <3>2. scopes' = scopes /\ uses' = uses /\ current' = scopes[current].parent
      BY <2>5 DEF EndFunction, Outer
    <3> QED
      BY <2>0, <3>1, <3>2 DEF Tidy, TidyAt, GlobalAt, Settled, Enclosing
  <2>6. CASE Finish \/ UNCHANGED vars
    <3>1. scopes' = scopes /\ uses' = uses /\ current' = current
      BY <2>6 DEF Finish, vars
    <3> QED
      BY <2>0, <3>1 DEF Tidy, TidyAt, GlobalAt, Settled, Enclosing
  <2> QED
    BY <2>1, <2>2, <2>3, <2>4, <2>5, <2>6 DEF Next
<1> QED
  BY <1>0, <1>1, <1>2 DEF RightInv

-----------------------------------------------------------------------------
(* What the scopes decide. *)

LEMMA SingleIndex ==
  ASSUME NEW name
  PROVE  IndexIn(<<name>>, name) = 1
<1>1. {i \in DOMAIN <<name>> : <<name>>[i] = name} = {1}
  OBVIOUS
<1>2. Min({1}) = 1
  BY DEF Min
<1> QED
  BY <1>1, <1>2 DEF IndexIn

\* Nothing is pushed for a function without free variables; otherwise the one
\* cell of the function around it is.
LEMMA RightClosure ==
  ASSUME RightInv, odd = {}, NEW s \in DOMAIN scopes
  PROVE  /\ Len(Pushed(s)) = Len(scopes[s].free)
         /\ scopes[s].free # <<>> =>
              /\ s # Root
              /\ \E name \in Name :
                   /\ scopes[s].free = <<name>> /\ scopes[scopes[s].parent].cells = <<name>>
                   /\ Closure(s) = <<<<"cell", scopes[s].parent, 1>>>>
<1>1. /\ TidyAt(s) /\ RootClean /\ ScopeTypeOK /\ scopes[s] \in ScopeRecord
      /\ \A a \in DOMAIN scopes : TidyAt(a) /\ scopes[a] \in ScopeRecord
  BY DEF RightInv, Tidy, ChainInv, IndexInv, ScopeTypeOK
<1>2. CASE scopes[s].free = <<>>
  BY <1>2 DEF Pushed
<1>3. CASE scopes[s].free # <<>>
  <2> DEFINE p == scopes[s].parent
             cells == scopes[p].cells
  <2>1. s # Root
    BY <1>1, <1>3 DEF RootClean
  <2>2. p \in DOMAIN scopes /\ scopes[s].free = cells
    BY <1>1, <1>3, <2>1, Around DEF TidyAt
  <2>3. cells \in Seq(Name) /\ Len(cells) <= 1 /\ cells # <<>>
    BY <1>1, <1>3, <2>2 DEF TidyAt, ScopeRecord
  <2> HIDE DEF p, cells
  <2>4. Len(cells) = 1 /\ cells[1] \in Name /\ cells = <<cells[1]>> /\ DOMAIN cells = {1}
    <3>1. PICK k \in Nat : k = Len(cells)
      BY <2>3
    <3>2. k <= 1 /\ k # 0
      BY <2>3, <3>1
    <3>3. Len(cells) = 1
      BY <3>1, <3>2
    <3> QED
      BY <2>3, <3>3
  <2>5. PICK name \in Name : cells = <<name>>
    BY <2>4
  <2>6. IndexIn(<<name>>, name) = 1
    BY SingleIndex
  <2>7. Pushed(s) = <<1>>
    <3>1. Pushed(s) = [i \in DOMAIN cells |-> IndexIn(cells, cells[i])]
      BY <1>3 DEF Pushed, cells, p
    <3>2. \A i \in DOMAIN cells : IndexIn(cells, cells[i]) = 1
      BY <2>4, <2>5, <2>6
    <3>3. Pushed(s) = [i \in {1} |-> 1]
      BY <2>4, <3>1, <3>2
    <3>4. <<1>> = [i \in {1} |-> 1]
      OBVIOUS
    <3> QED
      BY <3>3, <3>4
  <2>8. Closure(s) = <<<<"cell", p, 1>>>>
    <3> DEFINE c == <<"cell", p, 1>>
    <3>1. DOMAIN scopes[s].free = {1}
      BY <2>2, <2>4
    <3>2. Len(<<1>>) = 1 /\ <<1>>[(1 - 1) + 1] = 1
      OBVIOUS
    <3>3. Closure(s) = [j \in {1} |-> c]
      BY <2>7, <3>1, <3>2 DEF Closure, p
    <3> HIDE DEF c
    <3>4. <<c>> = [j \in {1} |-> c]
      OBVIOUS
    <3> QED
      BY <3>3, <3>4 DEF c
  <2> QED
    BY <2>1, <2>2, <2>4, <2>5, <2>7, <2>8 DEF p, cells
<1> QED
  BY <1>2, <1>3

\* A captured local of a function is its only cell.
LEMMA RightCell ==
  ASSUME RightInv, odd = {}, NEW s \in DOMAIN scopes, NEW name \in ToSet(scopes[s].cells)
  PROVE  s # Root /\ scopes[s].cells = <<name>> /\ Storage(s, name) = <<"cell", s, 1>>
<1>1. /\ TidyAt(s) /\ RootClean /\ ScopeTypeOK /\ scopes[s] \in ScopeRecord
  BY DEF RightInv, Tidy, ChainInv, IndexInv, ScopeTypeOK
<1>2. s # Root
  BY <1>1 DEF RootClean, ToSet
<1> DEFINE cells == scopes[s].cells
<1>3. cells \in Seq(Name) /\ Len(cells) <= 1 /\ name \in ToSet(cells)
  BY <1>1 DEF TidyAt, ScopeRecord
<1> HIDE DEF cells
<1>4. cells = <<name>> /\ Len(cells) = 1
  <2>1. PICK i \in 1 .. Len(cells) : cells[i] = name
    BY <1>3 DEF ToSet
  <2>2. Len(cells) = 1 /\ i = 1
    <3>1. PICK k \in Nat : k = Len(cells)
      BY <1>3
    <3>2. k <= 1 /\ i \in 1 .. k
      BY <1>3, <3>1
    <3> QED
      BY <3>1, <3>2
  <2> QED
    BY <1>3, <2>1, <2>2
<1>5. FreeIdx(s, name) = 1
  BY <1>4, SingleIndex DEF FreeIdx, cells
<1>6. scopes[s].info[name] = "CELL"
  BY <1>1, <1>2 DEF TidyAt
<1> QED
  BY <1>2, <1>4, <1>5, <1>6 DEF Storage, cells, Unknown

LEMMA RightlyBound ==
  ASSUME RightInv, odd = {}, NEW u \in uses
  PROVE  Bound(u)
<1>1. /\ Settled(u) /\ RootClean /\ ScopeTypeOK /\ IndexInv /\ u.scope \in DOMAIN scopes
      /\ u.name \in Name
      /\ \A a \in DOMAIN scopes : TidyAt(a) /\ scopes[a] \in ScopeRecord /\ Found(scopes[a])
  BY FoundEverywhere DEF RightInv, Tidy, ChainInv, IndexInv, ScopeTypeOK, UsesTyped
<1>2. CASE u.owner = Root /\ (u.scope = Root \/ scopes[u.scope].info[u.name] = "GLOBAL")
  <2>1. Storage(Root, u.name) = <<"global", u.name>>
    <3>1. scopes[Root].info[u.name] \in {"GLOBAL", Unknown}
      BY <1>1 DEF RootClean
    <3> QED
      BY <3>1 DEF Storage, Unknown
  <2>2. u.scope # Root => Storage(u.scope, u.name) = <<"global", u.name>>
    BY <1>2 DEF Storage
  <2> QED
    BY <1>2, <2>1, <2>2 DEF Bound
<1>3. CASE u.owner # Root /\ u.owner = u.scope /\ u.name \in ToSet(scopes[u.scope].locals)
  <2> DEFINE s == u.scope
             name == u.name
  <2>1. scopes[s].info[name] \in {"LOCAL", "CELL"} /\ name \notin ToSet(scopes[s].free)
    BY <1>1, <1>3 DEF TidyAt
  <2>2. CASE scopes[s].info[name] = "LOCAL"
    <3>1. Storage(s, name) = <<"local", s, IndexIn(scopes[s].locals, name)>>
      BY <2>2 DEF Storage, Unknown
    <3> QED
      BY <1>3, <3>1 DEF Bound
  <2>3. CASE scopes[s].info[name] = "CELL"
    <3>1. name \in ToSet(scopes[s].cells)
      BY <1>1, <2>1, <2>3 DEF Found
    <3>2. Storage(s, name) = <<"cell", s, 1>>
      BY <1>1, <3>1, RightCell
    <3> QED
      BY <1>3, <3>2 DEF Bound
  <2> QED
    BY <2>1, <2>2, <2>3
<1>4. CASE /\ u.scope # Root /\ u.owner # Root /\ u.owner # u.scope
           /\ u.owner = scopes[u.scope].parent
           /\ u.name \in ToSet(scopes[u.scope].free)
  <2>0. PICK s, p, name : s = u.scope /\ p = u.owner /\ name = u.name
    OBVIOUS
  <2>1. /\ s \in DOMAIN scopes /\ p = scopes[s].parent /\ p # Root
        /\ name \in ToSet(scopes[s].free) /\ p \in DOMAIN scopes
        /\ TidyAt(s) /\ s # Root /\ name \in Name
    BY <1>1, <1>4, <2>0, Around
  <2>2. scopes[s].free # <<>>
    BY <2>1 DEF ToSet
  <2>3. PICK other \in Name :
          /\ scopes[s].free = <<other>> /\ scopes[p].cells = <<other>>
          /\ Closure(s) = <<<<"cell", p, 1>>>>
    BY <2>1, <2>2, RightClosure
  <2>4. scopes[s].free = <<name>> /\ scopes[p].cells = <<name>>
    <3>1. ToSet(<<other>>) = {other}
      BY DEF ToSet
    <3> QED
      BY <2>1, <2>3, <3>1
  <2>5. Storage(p, name) = <<"cell", p, 1>>
    <3>1. name \in ToSet(scopes[p].cells)
      BY <2>1, <2>3, <2>4
    <3> QED
      BY <2>1, <3>1, RightCell
  <2>6. Storage(s, name) = <<"cell", p, 1>>
    <3>1. scopes[s].info[name] = "CELL" /\ name \notin ToSet(scopes[s].cells)
      BY <2>1 DEF TidyAt
    <3>2. Len(scopes[s].cells) \in Nat
      BY <1>1, <2>1 DEF ScopeRecord
    <3>3. PICK n \in Nat : n = Len(scopes[s].cells)
      BY <3>2
    <3>4. FreeIdx(s, name) = n + 1
      BY <2>4, <3>1, <3>3, SingleIndex DEF FreeIdx
    <3>5. /\ n + 1 \in Nat /\ ~(n + 1 <= n) /\ (n + 1) - n = 1
          /\ 1 \in DOMAIN Closure(s) /\ Closure(s)[1] = <<"cell", p, 1>>
      BY <2>3
    <3> QED
      BY <3>1, <3>3, <3>4, <3>5 DEF Storage, Unknown
  <2>7. <<"cell", p, 1>> # <<"global", name>>
    OBVIOUS
  <2> QED
    BY <2>0, <2>1, <2>5, <2>6, <2>7 DEF Bound
<1> QED
  BY <1>1, <1>2, <1>3, <1>4 DEF Settled

\* In every program that is not odd, however many functions it has, what
\* MAKE_FUNCTION pops for a closure is what compileFunctionDeclaration pushed.
THEOREM ClosuresBalance == Spec => []ClosureBalanced
<1>1. RightInv => ClosureBalanced
  BY RightClosure DEF ClosureBalanced
<1> QED
  BY <1>1, InitRight, NextRight, PTL DEF Spec

\* In every program that is not odd, every use of a name reaches the variable
\* that its innermost declaration so far made, be it a local, a global or a
\* cell shared by two functions.
THEOREM NamesReachTheirVariable == Spec => []RightVariable
<1>1. RightInv => RightVariable
  BY RightlyBound DEF RightVariable
<1> QED
  BY <1>1, InitRight, NextRight, PTL DEF Spec

\* FlattenSeq appends the sequences one after the other.
Flattens(f, seqs, m, S) ==
  /\ f \in [1 .. m -> Seq(S)]
  /\ \A i \in 1 .. m : f[i] = IF i = 1 THEN seqs[i] ELSE f[i - 1] \o seqs[i]
  /\ FlattenSeq(seqs) = f[m]

LEMMA FlattenSteps ==
  ASSUME NEW S, NEW seqs \in Seq(Seq(S)), NEW m \in Nat, m = Len(seqs), m # 0
  PROVE  \E f : Flattens(f, seqs, m, S)
<1>0. DOMAIN seqs = 1 .. m /\ \A i \in 1 .. m : seqs[i] \in Seq(S)
  OBVIOUS
<1> DEFINE Good(f, n) ==
             /\ f \in [1 .. n -> Seq(S)]
             /\ \A i \in 1 .. n : f[i] = IF i = 1 THEN seqs[i] ELSE f[i - 1] \o seqs[i]
           T == {n \in Nat : n <= m => \E f : Good(f, n)}
<1> HIDE DEF Good
<1>1. 0 \in T
  <2>1. 1 .. 0 = {} /\ [i \in 1 .. 0 |-> <<>>] \in [1 .. 0 -> Seq(S)]
    OBVIOUS
  <2>2. Good([i \in 1 .. 0 |-> <<>>], 0)
    BY <2>1 DEF Good
  <2> QED
    BY <2>2
<1>2. ASSUME NEW n \in T PROVE n + 1 \in T
  <2> SUFFICES ASSUME n + 1 <= m PROVE \E f : Good(f, n + 1)
    OBVIOUS
  <2>1. n \in Nat /\ n <= m /\ n + 1 \in 1 .. m
    OBVIOUS
  <2>2. PICK g : Good(g, n)
    BY <2>1
  <2> DEFINE new == IF n + 1 = 1 THEN seqs[n + 1] ELSE g[n] \o seqs[n + 1]
             f == [i \in 1 .. n + 1 |-> IF i = n + 1 THEN new ELSE g[i]]
  <2>3. /\ g \in [1 .. n -> Seq(S)]
        /\ \A i \in 1 .. n : g[i] = IF i = 1 THEN seqs[i] ELSE g[i - 1] \o seqs[i]
    BY <2>2 DEF Good
  <2>4. new \in Seq(S)
    <3>1. CASE n + 1 = 1
      BY <1>0, <2>1, <3>1
    <3>2. CASE n + 1 # 1
      <4>1. n \in 1 .. n
        BY <2>1, <3>2
      <4>2. g[n] \in Seq(S) /\ seqs[n + 1] \in Seq(S)
        BY <1>0, <2>1, <2>3, <4>1
      <4>3. g[n] \o seqs[n + 1] \in Seq(S)
        BY <4>2
      <4> QED
        BY <3>2, <4>3
    <3> QED
      BY <3>1, <3>2
  <2> HIDE DEF new
  <2>5. \A i \in 1 .. n + 1 : (i \in 1 .. n /\ i # n + 1) \/ i = n + 1
    BY <2>1
  <2>6. f \in [1 .. n + 1 -> Seq(S)]
    BY <2>3, <2>4, <2>5
  <2>7. \A i \in 1 .. n + 1 : f[i] = IF i = n + 1 THEN new ELSE g[i]
    OBVIOUS
  <2>8. ASSUME NEW i \in 1 .. n + 1
        PROVE  f[i] = IF i = 1 THEN seqs[i] ELSE f[i - 1] \o seqs[i]
    <3>1. CASE i = n + 1
      <4>1. CASE i = 1
        BY <2>7, <3>1, <4>1 DEF new
      <4>2. CASE i # 1
        <5>1. n \in 1 .. n + 1 /\ n # n + 1 /\ i - 1 = n
          BY <2>1, <3>1, <4>2
        <5>2. f[n] = g[n]
          BY <2>7, <5>1
        <5> QED
          BY <2>7, <3>1, <4>2, <5>1, <5>2 DEF new
      <4> QED
        BY <4>1, <4>2
    <3>2. CASE i # n + 1
      <4>1. i \in 1 .. n /\ f[i] = g[i]
        BY <2>5, <2>7, <3>2
      <4>2. i # 1 => i - 1 \in 1 .. n + 1 /\ i - 1 # n + 1
        BY <2>1, <4>1
      <4>3. i # 1 => f[i - 1] = g[i - 1]
        BY <2>7, <4>2
      <4> HIDE DEF f
      <4> QED
        BY <2>3, <4>1, <4>3
    <3> QED
      BY <3>1, <3>2
  <2> HIDE DEF f
  <2>9. Good(f, n + 1)
    BY <2>6, <2>8 DEF Good
  <2> QED
    BY <2>9
<1> HIDE DEF T
<1>3. m \in T
  <2>1. T \in SUBSET Nat
    BY DEF T
  <2> QED
    BY <1>1, <1>2, <2>1, SetInduction
<1>4. PICK f : Good(f, m)
  BY <1>3 DEF T
<1> DEFINE Step(g) == [i \in 1 .. m |-> IF i = 1 THEN seqs[i] ELSE g[i - 1] \o seqs[i]]
           flatten == CHOOSE g : g = Step(g)
<1>5. FlattenSeq(seqs) = flatten[m]
  BY DEF FlattenSeq
<1>6. f = Step(f)
  BY <1>4 DEF Good
<1>7. flatten = Step(flatten)
  BY <1>6
<1> HIDE DEF flatten
<1>8. \A i \in 1 .. m : flatten[i] = IF i = 1 THEN seqs[i] ELSE flatten[i - 1] \o seqs[i]
  BY <1>7
<1> DEFINE Wrong == {i \in 1 .. m : flatten[i] # f[i]}
<1>9. ASSUME Wrong # {} PROVE FALSE
  <2>1. Wrong \in SUBSET Nat
    OBVIOUS
  <2>2. PICK i \in Wrong : \A j \in Wrong : i <= j
    BY <1>9, <2>1, Least
  <2>3. i # 1 => i - 1 \in 1 .. m /\ i - 1 \notin Wrong
    BY <2>2
  <2>4. i \in 1 .. m /\ flatten[i] # f[i]
    BY <2>2
  <2>5. i # 1 => flatten[i - 1] = f[i - 1]
    BY <2>3
  <2>6. /\ f[i] = IF i = 1 THEN seqs[i] ELSE f[i - 1] \o seqs[i]
        /\ flatten[i] = IF i = 1 THEN seqs[i] ELSE flatten[i - 1] \o seqs[i]
    BY <1>4, <1>8, <2>4 DEF Good
  <2> QED
    BY <2>4, <2>5, <2>6
<1>10. m \in 1 .. m
  OBVIOUS
<1> QED
  BY <1>4, <1>5, <1>9, <1>10 DEF Good, Flattens

\* The place after the nth one from k.
LEMMA NextPlace ==
  ASSUME NEW k \in Nat, k >= 1, NEW n \in Nat, NEW m \in Nat, k + (n + 1) <= m
  PROVE  \E a \in 1 .. m, b \in 1 .. m :
           a = k + n /\ b = k + (n + 1) /\ b - 1 = a /\ b # 1
<1>1. k + n \in 1 .. m /\ k + (n + 1) \in 1 .. m
  OBVIOUS
<1>2. (k + (n + 1)) - 1 = k + n /\ k + (n + 1) # 1
  OBVIOUS
<1> QED
  BY <1>1, <1>2, Zenon

\* Sequences over S, not all empty, append to a sequence over S that is not.
LEMMA FlattenNonempty ==
  ASSUME NEW S, NEW seqs \in Seq(Seq(S)), NEW k \in DOMAIN seqs, seqs[k] # <<>>
  PROVE  FlattenSeq(seqs) \in Seq(S) /\ FlattenSeq(seqs) # <<>>
<1>1. PICK m \in Nat : m = Len(seqs)
  OBVIOUS
<1>2. DOMAIN seqs = 1 .. m /\ m # 0 /\ k \in 1 .. m /\ \A i \in 1 .. m : seqs[i] \in Seq(S)
  BY <1>1
<1>3. PICK f \in [1 .. m -> Seq(S)] :
        /\ \A i \in 1 .. m : f[i] = IF i = 1 THEN seqs[i] ELSE f[i - 1] \o seqs[i]
        /\ FlattenSeq(seqs) = f[m]
  <2>1. \E f : Flattens(f, seqs, m, S)
    BY <1>1, <1>2, FlattenSteps
  <2> QED
    BY <2>1 DEF Flattens
<1>4. \A s, t \in Seq(S) : s \o t = <<>> => s = <<>> /\ t = <<>>
  OBVIOUS
<1> DEFINE T == {n \in Nat : k + n <= m => f[k + n] # <<>>}
<1>5. 0 \in T
  <2>1. k + 0 = k /\ (k # 1 => k - 1 \in 1 .. m)
    BY <1>2
  <2>2. f[k] # <<>>
    <3>1. CASE k = 1
      BY <1>2, <1>3, <3>1
    <3>2. CASE k # 1
      <4>1. f[k] = f[k - 1] \o seqs[k] /\ f[k - 1] \in Seq(S) /\ seqs[k] \in Seq(S)
        BY <1>2, <1>3, <2>1, <3>2
      <4> QED
        BY <1>4, <4>1
    <3> QED
      BY <3>1, <3>2
  <2> QED
    BY <2>1, <2>2
<1>6. ASSUME NEW n \in T PROVE n + 1 \in T
  <2> SUFFICES ASSUME k + (n + 1) <= m PROVE f[k + (n + 1)] # <<>>
    OBVIOUS
  <2>1. n \in Nat /\ (k + n <= m => f[k + n] # <<>>)
    OBVIOUS
  <2> HIDE DEF T
  <2>2. k \in Nat /\ k >= 1
    BY <1>2
  <2>3. PICK a \in 1 .. m, b \in 1 .. m :
          a = k + n /\ b = k + (n + 1) /\ b - 1 = a /\ b # 1
    BY <2>1, <2>2, NextPlace
  <2>4. a <= m
    OBVIOUS
  <2>6. f[a] # <<>>
    BY <2>1, <2>3, <2>4
  <2>7. f[b] = f[a] \o seqs[b]
    BY <1>3, <2>3
  <2>8. f[a] \in Seq(S) /\ seqs[b] \in Seq(S)
    BY <1>2, <1>3
  <2>9. f[b] # <<>>
    BY <1>4, <2>6, <2>7, <2>8
  <2> QED
    BY <2>3, <2>9
<1> HIDE DEF T
<1>7. m - k \in T
  <2>1. T \in SUBSET Nat /\ m - k \in Nat
    BY <1>2 DEF T
  <2> QED
    BY <1>5, <1>6, <2>1, SetInduction
<1>8. k + (m - k) = m /\ m \in 1 .. m
  BY <1>2
<1>9. f[m] # <<>>
  <2>1. m <= m
    OBVIOUS
  <2>2. k + (m - k) <= m => f[k + (m - k)] # <<>>
    BY <1>7 DEF T
  <2> QED
    BY <1>8, <2>1, <2>2
<1> QED
  BY <1>3, <1>8, <1>9

\* A function with a captured local has one, and copies it to its one cell.
LEMMA RightArguments ==
  ASSUME RightInv, odd = {}, NEW s \in DOMAIN scopes, NEW i \in DOMAIN scopes[s].cells
  PROVE  i \in DOMAIN ArgsAsCells(s) /\ ArgsAsCells(s)[i] = scopes[s].cells[i]
<1>1. /\ TidyAt(s) /\ scopes[s] \in ScopeRecord
  BY DEF RightInv, Tidy, ChainInv, IndexInv, ScopeTypeOK
<1>2. PICK name, S : name = scopes[s].cells[i] /\ S = {name}
  OBVIOUS
<1>3. name \in ToSet(scopes[s].cells)
  BY <1>2 DEF ToSet
<1>4. scopes[s].cells = <<name>> /\ i = 1
  <2>1. scopes[s].cells = <<name>>
    BY <1>3, RightCell
  <2> QED
    BY <2>1
<1>5. PICK k \in DOMAIN scopes[s].locals : scopes[s].locals[k] = name
  BY <1>1, <1>3 DEF TidyAt, ToSet
<1> DEFINE one(n) == IF name = n THEN <<n>> ELSE <<>>
           copies(n) == FlattenSeq([j \in DOMAIN <<name>> |-> IF <<name>>[j] = n THEN <<n>> ELSE <<>>])
           locals == scopes[s].locals
           all == [j \in DOMAIN locals |-> copies(locals[j])]
<1>6. ASSUME NEW n PROVE copies(n) = one(n) /\ one(n) \in Seq(S)
  <2>1. one(n) \in Seq(S)
    <3>1. CASE name = n
      <4>1. <<name>> \in Seq(S)
        BY <1>2
      <4> QED
        BY <3>1, <4>1
    <3>2. CASE name # n
      BY <3>2
    <3> QED
      BY <3>1, <3>2
  <2>2. [j \in DOMAIN <<name>> |-> IF <<name>>[j] = n THEN <<n>> ELSE <<>>] = <<one(n)>>
    OBVIOUS
  <2> HIDE DEF one
  <2>3. <<one(n)>> \in Seq(Seq(S)) /\ Len(<<one(n)>>) = 1 /\ <<one(n)>>[1] = one(n)
    BY <2>1
  <2>4. PICK seqs : seqs = <<one(n)>>
    OBVIOUS
  <2>5. PICK f \in [1 .. 1 -> Seq(S)] :
          /\ \A j \in 1 .. 1 : f[j] = IF j = 1 THEN seqs[j] ELSE f[j - 1] \o seqs[j]
          /\ FlattenSeq(seqs) = f[1]
    <3>1. \E f : Flattens(f, seqs, 1, S)
      <4>1. seqs \in Seq(Seq(S)) /\ Len(seqs) = 1 /\ 1 \in Nat /\ 1 # 0
        BY <2>3, <2>4
      <4> QED
        BY <4>1, FlattenSteps
    <3> QED
      BY <3>1 DEF Flattens
  <2>6. copies(n) = f[1]
    BY <2>2, <2>4, <2>5
  <2>7. f[1] = one(n)
    BY <2>3, <2>4, <2>5
  <2> QED
    BY <2>1, <2>6, <2>7
<1>7. ArgsAsCells(s) = FlattenSeq(all)
  BY <1>4 DEF ArgsAsCells
<1>8. locals \in Seq(Name)
  BY <1>1 DEF ScopeRecord
<1> HIDE DEF copies, locals, one
<1>9. all \in Seq(Seq(S)) /\ DOMAIN all = DOMAIN locals
  BY <1>6, <1>8
<1>10. k \in DOMAIN all /\ all[k] = <<name>>
  BY <1>5, <1>6, <1>9 DEF locals, one
<1> HIDE DEF all
<1>11. FlattenSeq(all) \in Seq(S) /\ FlattenSeq(all) # <<>>
  <2>1. all[k] # <<>>
    BY <1>10
  <2> QED
    BY <1>9, <1>10, <2>1, FlattenNonempty
<1>12. 1 \in DOMAIN FlattenSeq(all) /\ FlattenSeq(all)[1] = name
  <2>1. PICK t \in Seq(S) : t = FlattenSeq(all)
    BY <1>11
  <2>2. t # <<>>
    BY <1>11, <2>1
  <2>3. 1 \in DOMAIN t /\ t[1] = name
    BY <1>2, <2>2
  <2> QED
    BY <2>1, <2>3
<1> QED
  BY <1>2, <1>4, <1>7, <1>12

\* In every program that is not odd, the cell of a captured parameter starts as
\* the argument: frameFromFunctionObject copies it to the cell of that name.
THEOREM ArgumentsReachTheirCell == Spec => []ArgumentInCell
<1>1. RightInv => ArgumentInCell
  BY RightArguments DEF ArgumentInCell
<1> QED
  BY <1>1, InitRight, NextRight, PTL DEF Spec
=============================================================================
