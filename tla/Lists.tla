-------------------------------- MODULE Lists --------------------------------
(***************************************************************************)
(* Lists and the iterators over them (periwinkle/object/list_object.cpp):  *)
(* a program that calls the methods of the lists its variables refer to,   *)
(* also from the body of a for-each loop over one of them.                 *)
(*                                                                         *)
(* Abstracted: an item is a list or a scalar, which is equal to itself: a  *)
(* number, or a string (string_object.cpp:31 leaves strings to be compared *)
(* by identity).  The number or the boolean a method returns is computed   *)
(* (Outcome) and not kept.  No list contains itself: to compare or print   *)
(* one never ends.  What no variable can reach any more is collected at    *)
(* once.                                                                   *)
(***************************************************************************)
EXTENDS Integers, Sequences, SequencesExt, FiniteSetsExt

CONSTANTS
  Variables,  \* the variables of the program
  Objects,    \* the list objects there may be at one time
  Scalars,    \* the numbers that are put into lists: see Number
  MaxItems    \* bound: no list grows beyond it

Number(n) == [type |-> "int", is |-> n]
Ref(list) == [type |-> "list", is |-> list]

VARIABLES
  items,   \* the items of each list
  env,     \* the list each variable refers to
  iter,    \* the iterator of the loop: iterable, length, position
  loop,    \* whether it runs; history: the items when it began, what it gave
  error    \* how the last call ended

listVars == <<items, env, iter, loop, error>>

NoIterator == [iterable |-> <<>>, length |-> 0, position |-> 0]
NoLoop == [running |-> FALSE, began |-> <<>>, gave |-> <<>>]
Value(v) == [error |-> "none", value |-> <<v>>]
Truth(b) == Value([type |-> "bool", is |-> IF b THEN 1 ELSE 0])
Nothing == [error |-> "none", value |-> <<>>]
IndexError == [error |-> "IndexError", value |-> <<>>]
\* Undefined behaviour: what is before or behind the items is read or written.
Crash == [error |-> "crash", value |-> <<>>]
Alive == error # Crash.error

-----------------------------------------------------------------------------
(* Comparison. *)

RECURSIVE Compares(_, _, _, _)
\* listObjectEqual asks the same of every pair of items.
CompareItems(h, op, s, t) ==
  Len(s) = Len(t) /\ \A i \in DOMAIN s : Compares(h, op, s[i], t[i])
Compares(h, op, x, y) ==
  IF x.type = "list" /\ y.type = "list" THEN CompareItems(h, op, h[x.is], h[y.is])
  ELSE (op = "EQ") = (x = y)

\* The places, from 1, of the items equal to x.
Places(h, s, x) == {i \in DOMAIN s : Compares(h, "EQ", s[i], x)}

-----------------------------------------------------------------------------
(* Lists, variables and the collector. *)

RefsIn(s) == {s[i].is : i \in {j \in DOMAIN s : s[j].type = "list"}}
RECURSIVE Reached(_, _)
Reached(h, lists) ==
  LET next == lists \cup UNION {RefsIn(h[l]) : l \in lists}
  IN  IF next = lists THEN lists ELSE Reached(h, next)

\* Mutant: the iterator does not mark its items.
UsedByVariables(h, e, it) == Reached(h, {e[v] : v \in Variables})
\* What is marked from the variables, and from the iterator (listTraverse,
\* listIterTraverse).
Used(h, e, it) == Reached(h, {e[v] : v \in Variables} \cup RefsIn(it.iterable))
Kept(h, e, it) ==
  LET used == Used(h, e, it) IN [l \in Objects |-> IF l \in used THEN h[l] ELSE <<>>]
Free == Objects \ Used(items, env, iter)

\* What may be put into a list: bound: no list of lists is an item.
Putable(list) ==
  LET flat == {m \in Used(items, env, iter) : RefsIn(items[m]) = {} /\ m # list}
  IN  Scalars \cup {Ref(l) : l \in flat}

\* A method of a list: its new items and what it returns.
Outcome(new, result) == [new |-> new, result |-> result]
Call(v, outcome) ==
  /\ Alive
  /\ Len(outcome.new) <= MaxItems
  /\ items' = IF outcome.new = items[env[v]] THEN items
              ELSE Kept([items EXCEPT ![env[v]] = outcome.new], env, iter)
  /\ error' = outcome.result.error
  /\ UNCHANGED <<env, iter, loop>>

\* A method that makes a list, assigned to a variable.
Make(target, outcome) ==
  /\ Alive
  /\ Len(outcome.new) <= MaxItems
  /\ IF outcome.result = Nothing
     THEN \E list \in Free :
            /\ env' = [env EXCEPT ![target] = list]
            /\ items' = Kept([items EXCEPT ![list] = outcome.new], env', iter)
     ELSE UNCHANGED <<items, env>>
  /\ error' = outcome.result.error
  /\ UNCHANGED <<iter, loop>>

\* CHECK_INDEX compares with the size only.
Refused(index, s) == index >= Len(s)
Wild(index) == index < 0

\* x = y
Assign(v, w) ==
  /\ Alive
  /\ env' = [env EXCEPT ![v] = env[w]]
  /\ items' = Kept(items, env', iter)
  /\ error' = Nothing.error
  /\ UNCHANGED <<iter, loop>>

-----------------------------------------------------------------------------
(* The methods, as functions of the items s of their list and of all lists h. *)

Answers(s, result) == Outcome(s, result)
Indexed(s, index, outcome) ==
  IF Refused(index, s) THEN Answers(s, IndexError)
  ELSE IF Wild(index) THEN Answers(s, Crash)
  ELSE outcome

ListRemove(h, s, x) ==
  LET found == Places(h, s, x)
  IN  IF found = {} THEN Answers(s, Truth(FALSE))
      ELSE Outcome(RemoveAt(s, Min(found)), Truth(TRUE))

\* Erasing items from first to last.  Mutant: the item that takes the place of an
\* erased one is not looked at.
SkippingKeep(s, found) ==
  LET erased == {i \in found : i - 1 \notin found}
  IN  FoldLeft(LAMBDA acc, i : IF i \in erased THEN acc ELSE Append(acc, s[i]),
               <<>>, [i \in DOMAIN s |-> i])
Keep(s, found) ==
  FoldLeft(LAMBDA acc, i : IF i \in found THEN acc ELSE Append(acc, s[i]),
           <<>>, [i \in DOMAIN s |-> i])

ListRemoveAll(h, s, x) ==
  LET found == Places(h, s, x) IN Outcome(Keep(s, found), Truth(found # {}))
ListInsert(s, index, x) ==
  Indexed(s, index, Outcome(InsertAt(s, index + 1, x), Nothing))
ListSetItem(s, index, x) ==
  Indexed(s, index, Outcome(ReplaceAt(s, index + 1, x), Nothing))
ListSize(s) == Answers(s, Value(Number(Len(s))))
ListPush(s, x) == Outcome(Append(s, x), Nothing)
ListReplace(h, s, x, y) ==
  LET found == Places(h, s, x)
  IN  Outcome([i \in DOMAIN s |-> IF i \in found THEN y ELSE s[i]], Truth(found # {}))
ListFindItem(h, s, x) ==
  LET found == Places(h, s, x)
  IN  Answers(s, Value(Number(IF found = {} THEN -1 ELSE Min(found) - 1)))
ListCount(h, s, x) == Answers(s, Value(Number(Cardinality(Places(h, s, x)))))
ListContains(h, s, x) == Answers(s, Truth(Places(h, s, x) # {}))
ListReverse(s) == Outcome(Reverse(s), Nothing)
ListGetItem(s, index) == Indexed(s, index, Answers(s, Value(s[index + 1])))
ListClear(s) == Outcome(<<>>, Nothing)
ListEqual(h, op, s, t) == Answers(s, Truth(CompareItems(h, op, s, t)))

\* Lists that are made.  A sublist is the items from start up to count: where
\* count is less than start, the range ends before it begins.
ListInit(s) == Outcome(s, Nothing)
ListCopy(s) == Outcome(s, Nothing)
ListAdd(s, t) == Outcome(s \o t, Nothing)
ListSublist(s, start, count) ==
  LET last == start + count - (IF count = 0 THEN 0 ELSE 1)
  IN  IF Refused(start, s) \/ Refused(last, s) THEN Outcome(<<>>, IndexError)
      ELSE IF Wild(start) \/ count < start THEN Outcome(<<>>, Crash)
      ELSE Outcome(SubSeq(s, start + 1, count), Nothing)

-----------------------------------------------------------------------------
(* Loops over a list. *)

\* GET_ITER, listGetIter: the iterator has a copy of the items and no position
\* of its own: it starts anywhere, and beyond the items there is nothing.
ForEach(v) ==
  /\ Alive
  /\ ~loop.running
  /\ LET s == items[env[v]] IN
       /\ \E position \in 0 .. Len(s) :
            iter' = [iterable |-> s, length |-> Len(s), position |-> position]
       /\ loop' = [running |-> TRUE, began |-> s, gave |-> <<>>]
  /\ error' = Nothing.error
  /\ UNCHANGED <<items, env>>

\* Mutant: the iterator reads a list that may change, not a copy.
FromList == LET s == items[env[CHOOSE v \in Variables : TRUE]]
            IN  IF iter.position < Len(s) THEN s[iter.position + 1] ELSE Number(0)
Item == iter.iterable[iter.position + 1]

\* FOR_EACH, listIterNext.
ForEachNext ==
  /\ Alive
  /\ loop.running
  /\ \/ /\ iter.position < iter.length
        /\ loop' = [loop EXCEPT !.gave = Append(@, Item)]
        /\ iter' = [iter EXCEPT !.position = @ + 1]
        /\ UNCHANGED items
     \/ /\ iter.position >= iter.length
        /\ loop' = NoLoop
        /\ iter' = NoIterator
        /\ items' = Kept(items, env, NoIterator)
  /\ error' = Nothing.error
  /\ UNCHANGED env

-----------------------------------------------------------------------------

Indexes == -1 .. MaxItems

ListInitial ==
  /\ env \in [Variables -> Objects]
  /\ items = [l \in Objects |-> <<>>]
  /\ iter = NoIterator
  /\ loop = NoLoop
  /\ error = Nothing.error

\* The methods of the list a variable refers to.
Changes(v) ==
  LET s == items[env[v]] IN
  \/ \E x \in Putable(env[v]) :
       \/ Call(v, ListRemove(items, s, x))
       \/ Call(v, ListRemoveAll(items, s, x))
       \/ Call(v, ListPush(s, x))
       \/ \E y \in Putable(env[v]) : Call(v, ListReplace(items, s, x, y))
       \/ \E index \in Indexes : Call(v, ListInsert(s, index, x)) \/ Call(v, ListSetItem(s, index, x))
  \/ Call(v, ListReverse(s))
  \/ Call(v, ListClear(s))

Questions(v) ==
  LET s == items[env[v]] IN
  \/ Call(v, ListSize(s))
  \/ \E x \in Putable(env[v]) :
       \/ Call(v, ListFindItem(items, s, x))
       \/ Call(v, ListCount(items, s, x))
       \/ Call(v, ListContains(items, s, x))
  \/ \E index \in Indexes : Call(v, ListGetItem(s, index))
  \/ \E w \in Variables, op \in {"EQ", "NE"} : Call(v, ListEqual(items, op, s, items[env[w]]))

News(target) ==
  \/ \E x \in Scalars : Make(target, ListInit(<<x>>))
  \/ \E v \in Variables :
       LET s == items[env[v]] IN
       \/ Make(target, ListCopy(s))
       \/ \E w \in Variables : Make(target, ListAdd(s, items[env[w]]))
       \/ \E start \in Indexes, count \in Indexes : Make(target, ListSublist(s, start, count))

ListNext ==
  \/ \E v \in Variables :
       \/ Changes(v)
       \/ Questions(v)
       \/ News(v)
       \/ \E w \in Variables : Assign(v, w)
       \/ ForEach(v)
  \/ ForEachNext

-----------------------------------------------------------------------------
(* Properties. *)

\* A method changes the list it is called on and no other, whatever other
\* variables, lists or a loop hold: a copy, a sum, a sublist and the items of an
\* iterator stay as they are, and an index that is refused changes nothing
\* (listCopy, listAdd, listIterTraverse, CHECK_INDEX).  Where a list has no name
\* any more it may be used for a new one.
Held == Reached(items, {env[v] : v \in Variables}
                         \cup RefsIn(SubSeq(iter.iterable, iter.position + 1, iter.length)))
OneChanges ==
  items' # items =>
    LET changed == {l \in Held \cap Held' : items'[l] # items[l]}
    IN  /\ Cardinality(changed) <= 1
        /\ \A l \in changed : \E v \in Variables : env[v] = l
        /\ (env' # env \/ loop' # loop \/ error' # "none") => changed = {}
OnlyReceiverChanges == [][OneChanges]_listVars

\* What the methods promise, in the words of a sequence: removal takes the first
\* equal item and leaves the rest in order; removal of all leaves none and the
\* others in order, and says whether there was one; replacement leaves an equal
\* item only if the new one is; a sublist from the start is the items up to
\* count; a list equals itself, and is unequal to what it equals only if there is
\* nothing in it to compare: both are true of empty lists and of lists of those
\* (listRemove, listRemoveAll, listReplace, listSublist, listComparison).
Others(x, s) == SelectSeq(s, LAMBDA y : ~Compares(items, "EQ", y, x))
RemovesRight(s, x) ==
  LET one == ListRemove(items, s, x)
      all == ListRemoveAll(items, s, x)
  IN  /\ all.new = Others(x, s)
      /\ Others(x, one.new) = Others(x, s)
      /\ Len(one.new) = IF Others(x, s) = s THEN Len(s) ELSE Len(s) - 1
      /\ \E i \in 0 .. Len(one.new) :
           /\ SubSeq(one.new, 1, i) = SubSeq(Others(x, s), 1, i)
           /\ one.new # s => SubSeq(one.new, i + 1, Len(one.new)) = SubSeq(s, i + 2, Len(s))
      /\ one.result = Truth(one.new # s) /\ all.result = Truth(all.new # s)
ReplacesRight(s, x, y) ==
  LET t == ListReplace(items, s, x, y).new
  IN  /\ Len(t) = Len(s)
      /\ Others(x, t) = IF Compares(items, "EQ", y, x) THEN Others(x, s) ELSE t
SublistRight(s) ==
  \A n \in Indexes : LET made == ListSublist(s, 0, n) IN
    made.result = Nothing => made.new = SubSeq(s, 1, n) /\ n \in 0 .. Len(s)
RECURSIVE Hollow(_)
Hollow(s) == \A i \in DOMAIN s : s[i].type = "list" /\ Hollow(items[s[i].is])
EqualRight(s, t) ==
  LET equal == CompareItems(items, "EQ", s, t)
      unequal == CompareItems(items, "NE", s, t)
  IN  /\ (equal /\ unequal) = (Hollow(s) /\ Hollow(t) /\ equal)
      /\ equal = CompareItems(items, "EQ", t, s)
      /\ s = t => equal

ListContract ==
  \A v \in Variables :
    LET s == items[env[v]] IN
      /\ \A x \in Putable(env[v]) :
           /\ RemovesRight(s, x)
           /\ \A y \in Putable(env[v]) : ReplacesRight(s, x, y)
      /\ SublistRight(s)
      /\ \A w \in Variables : EqualRight(s, items[env[w]])

\* A for-each loop gives a run of the list as it was when the loop began, in
\* order and to its end, whatever the body does to the list; where the run starts
\* is not determined (listGetIter, listIterNext, FOR_EACH).
LoopVisits ==
  \E start \in 0 .. Len(loop.began) :
    LET run == SubSeq(loop.began, start + 1, Len(loop.began))
    IN  IF iter.position < iter.length THEN IsStrictPrefix(loop.gave, run)
        ELSE loop.gave = run
=============================================================================
