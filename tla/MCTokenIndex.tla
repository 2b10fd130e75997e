---------------------------- MODULE MCTokenIndex ----------------------------
(***************************************************************************)
(* Instances of TokenIndex for TLC.                                        *)
(***************************************************************************)
EXTENDS TokenIndex, TLC

\* Every token is of the one collection.
OneCollection == [t \in Tokens |-> CHOOSE c \in Collections : TRUE]

\* Bounds: a smaller block and a larger one, and two blocks of two operations.
TwoThree == <<2, 3>>
TwoTwo == <<2, 2>>
Three == <<3>>

\* Events are the same for every worker.
Symmetry == Permutations(Workers)
=============================================================================
