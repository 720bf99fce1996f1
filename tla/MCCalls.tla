------------------------------- MODULE MCCalls -------------------------------
(***************************************************************************)
(* An instance of Calls for TLC: the shapes of functions a program can     *)
(* declare, up to two parameters of each sort, and those of the functions  *)
(* and methods that the interpreter has (builtins.cpp, list_object.cpp,    *)
(* string_object.cpp): at most one default parameter, variadic without     *)
(* required parameters.                                                    *)
(***************************************************************************)
EXTENDS Calls

MCCallees ==
  [kind : {"function"}, required : 0 .. 2, defaults : 0 .. 3, variadic : BOOLEAN]
    \cup [kind : {"native"}, required : 0 .. 2, defaults : {0}, variadic : {FALSE}]
    \cup [kind : {"native"}, required : {0}, defaults : {1}, variadic : BOOLEAN]
    \cup [kind : {"method", "unbound"}, required : 0 .. 2, defaults : {0}, variadic : {FALSE}]
    \cup [kind : {"method", "unbound"}, required : {0}, defaults : {1}, variadic : {FALSE}]
    \cup [kind : {"method"}, required : {0}, defaults : {0}, variadic : {TRUE}]
=============================================================================
