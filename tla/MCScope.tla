------------------------------- MODULE MCScope -------------------------------
(***************************************************************************)
(* Instances of Scope for TLC.                                             *)
(***************************************************************************)
EXTENDS Scope, TLC

CONSTANTS x, y, z, b

\* Names are interchangeable, except those of builtins.
Symmetry == Permutations(Name \ Builtins)
=============================================================================
