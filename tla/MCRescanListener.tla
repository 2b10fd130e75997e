-------------------------- MODULE MCRescanListener --------------------------
(***************************************************************************)
(* Constants for the run of RescanListener.                               *)
(***************************************************************************)
EXTENDS RescanListener

CONSTANTS h1, h2

TwoHandlers == {h1, h2}

SomeLists == {{}, {1, 2}}

Both == {"from-to", "from-to/sections"}

TwoCollections == <<7, 8>>
=============================================================================
