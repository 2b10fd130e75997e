------------------------------ MODULE ScanLog ------------------------------
(***************************************************************************)
(* What the block scanner promises to everything that reads its status     *)
(* table: the height stored there is a watermark.  Every block above Base  *)
(* (where this scan started) up to the height has been dealt with for      *)
(* good, and the height never moves back.  How blocks are buffered, in     *)
(* which order their rows are written and who else writes rows is not      *)
(* visible here.                                                           *)
(***************************************************************************)
EXTENDS Naturals

CONSTANT Base     \* the height the scan was started from

VARIABLES height, \* status.height
          done    \* the blocks that need no further work

Covered(h, D) == \A b \in (Base + 1)..h : b \in D

Init == /\ height = Base
        /\ done = {}

\* Rows of some blocks become complete; the height is not touched.
Settle == /\ done \subseteq done'
          /\ UNCHANGED height

\* The watermark moves up over blocks that are all settled.
Advance == /\ height' \in Nat
           /\ height' >= height
           /\ Covered(height', done)
           /\ UNCHANGED done

Next == Settle \/ Advance

Spec == Init /\ [][Next]_<<height, done>>
=============================================================================
