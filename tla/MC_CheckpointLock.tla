------------------------- MODULE MC_CheckpointLock -------------------------
(***************************************************************************)
(* CheckpointLock with two or three processes.                             *)
(***************************************************************************)
EXTENDS CheckpointLock

CONSTANTS a, b, c

Three == {a, b, c}
OnlyA == {a}
=============================================================================
