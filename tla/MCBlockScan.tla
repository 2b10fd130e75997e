---------------------------- MODULE MCBlockScan ----------------------------
(***************************************************************************)
(* Constants for the runs of BlockScan.  BufferLimit is 1 or 2 instead of  *)
(* 1000: two or three blank blocks in a row reach it.                      *)
(***************************************************************************)
EXTENDS BlockScan

CONSTANTS r1, r2

NoRescans  == {}
TwoRescans == {r1, r2}

B == "blank"
P == "plain"
U == "upgrade"

Symmetry == Permutations({r1, r2})

\* Chains of four blocks: only blanks, blanks before and after an upgrade,
\* an upgrade at the beginning, two upgrades in a row.
LongChains == {<<B, B, B, B>>, <<B, B, U, B>>, <<U, B, B, P>>, <<B, U, U, B>>}

\* Chains of three blocks for runs with rescans.
MixedChains == {<<B, B, P>>, <<B, U, B>>}
=============================================================================
