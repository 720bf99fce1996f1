-------------------------------- MODULE Heap --------------------------------
(***************************************************************************)
(* What a program may rely on of the memory it runs in: an object is there *)
(* from its allocation until nothing the program can use leads to it, and  *)
(* what is lost cannot be found again.  When a collection happens, and     *)
(* how, the program cannot tell.                                           *)
(***************************************************************************)
CONSTANT Obj

VARIABLES
  allocated,  \* the objects that have not been taken back
  reachable,  \* those the program can reach
  ended       \* whether the program has ended

vars == <<allocated, reachable, ended>>

Init ==
  /\ allocated \subseteq Obj
  /\ reachable \subseteq allocated
  /\ ended = FALSE

\* The program runs: it makes objects, and loses sight of some.
Use ==
  /\ allocated \subseteq allocated'
  /\ reachable' \subseteq reachable \cup (allocated' \ allocated)
  /\ UNCHANGED ended

\* Memory is taken back.
Collect ==
  /\ allocated' \subseteq allocated
  /\ reachable \subseteq allocated'
  /\ UNCHANGED <<reachable, ended>>

End ==
  /\ allocated' = {}
  /\ ended' = TRUE

Next == ~ended /\ (Use \/ Collect \/ End)

Spec == Init /\ [][Next]_vars
=============================================================================
