---------------------------- MODULE MCCollections ----------------------------
(***************************************************************************)
(* An instance of Lists and Text for TLC.  A program of this instance      *)
(* works with lists or with a string: neither looks at the state of the    *)
(* other, which stays where nothing of it can happen.                      *)
(***************************************************************************)
EXTENDS Lists, Text

MCScalars == {Number(1)}

\* Characters that are a space, a digit and no byte; and those at the edges of
\* the lengths of UTF-8, with bits that are lost.
MCSources ==
  SeqOf({32, 49, 1103}, 4)
    \cup {<<c>> : c \in {127, 128, 2047, 2048, 2304, 8364, 65535, 65536, 128512, 1114111}}
    \cup {<<8364, 49, 65536>>}
MCPatterns == SeqOf({32, 49, 1103}, 2)

MCInit ==
  \/ ListInitial /\ source = <<>> /\ text = <<>> /\ ended = "idle"
  \/ /\ TextInitial
     /\ items = [l \in Objects |-> <<>>]
     /\ env \in [Variables -> Objects]
     /\ iter = NoIterator /\ loop = NoLoop /\ error = Crash.error
MCNext ==
  \/ ListNext /\ UNCHANGED textVars
  \/ TextNext /\ UNCHANGED listVars
MCSpec == MCInit /\ [][MCNext]_<<listVars, textVars>>

MCSymmetry == Permutations(Objects) \cup Permutations(Variables)
=============================================================================
