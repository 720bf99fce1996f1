-------------------------------- MODULE MCVM --------------------------------
(***************************************************************************)
(* Instances of VirtualMachine for TLC: the programs are those with at     *)
(* most MaxStatements statements of the given kinds.                       *)
(***************************************************************************)
EXTENDS VirtualMachine
=============================================================================
