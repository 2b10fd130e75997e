----------------------------- MODULE MCScanModes -----------------------------
(***************************************************************************)
(* The two ways a scan process is started, as one specification: "live"    *)
(* follows the chain for ever, "range" rescans the blocks 1..3 and ends.   *)
(* BlockScan has the way as constants, so that each is an instance of it.  *)
(***************************************************************************)
EXTENDS Naturals, Sequences

CONSTANTS MaxBlock, BufferLimit, Scan

VARIABLES
  kind, head, height, rows, blockSpec, spec, blankBlocks, readFromHead, cutOff,
  lastHandledBlock, timer, asked, next, task, failed, late, reported, rescans, restarts,
  mode

B == "blank"
P == "plain"
U == "upgrade"

AllChains  == [1..MaxBlock -> {B, P, U}]
LongChains == {<<B, B, B, B>>, <<B, B, U, B>>, <<U, B, B, P>>, <<B, U, U, B>>}

Live == INSTANCE BlockScan WITH
  Chains <- AllChains, RescanMode <- FALSE, From <- 0, To <- 0,
  Rescans <- {}, MaxRescans <- 0, MaxRestarts <- 0, MayFail <- FALSE

Ranged == INSTANCE BlockScan WITH
  Chains <- LongChains, RescanMode <- TRUE, From <- 1, To <- 3,
  Rescans <- {}, MaxRescans <- 0, MaxRestarts <- 1, MayFail <- FALSE

Init ==
  \/ mode = "live" /\ Live!Init
  \/ mode = "range" /\ Ranged!Init

variables == <<Live!vars, mode>>

Either(live, range) == UNCHANGED mode /\ IF mode = "live" THEN live ELSE range

Next == Either(Live!Next, Ranged!Next)

\* The fairness of both: an action of the other mode is never enabled.
Spec ==
  /\ Init /\ [][Next]_variables
  /\ WF_variables(Either(Live!GrowChain, Ranged!GrowChain))
  /\ WF_variables(Either(Live!Deliver, Ranged!Deliver))
  /\ WF_variables(Either(Live!EndOfRange, Ranged!EndOfRange))
  /\ WF_variables(Either(Live!TimerAsks, Ranged!TimerAsks))
  /\ WF_variables(Either(Live!TimerAnswered, Ranged!TimerAnswered))
  /\ WF_variables(Either(Live!Continue(Scan), Ranged!Continue(Scan)))

-----------------------------------------------------------------------------
\* Once the cut-off has been requested, the buffered blocks of a scan that follows
\* the chain are written as soon as the chain yields another block.
CutOffFlushes == mode = "live" => Live!CutOffFlushes

\* A scan that has caught up with the chain notices it.
HeadNoticed == mode = "live" => Live!HeadNoticed

\* A scan over a range ends, also after a restart, with every block of the range
\* written, given up, or still in the buffer that dies with the process.
RangeEnds == mode = "range" => Ranged!RangeEnds
=============================================================================
