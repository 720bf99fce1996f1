-------------------------------- MODULE MCGC --------------------------------
(***************************************************************************)
(* Instances of GC for TLC.                                                *)
(***************************************************************************)
EXTENDS GC, TLC

CONSTANTS o1, o2, o3, o4

\* Every object counts one unit, so a threshold is a number of objects.
MCSizeOf == [o \in Obj |-> 1]

\* Addresses are interchangeable, except those the code constants occupy.
Symmetry == Permutations(Obj \ CodeConst)
=============================================================================
