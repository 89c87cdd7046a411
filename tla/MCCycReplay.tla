---------------------------- MODULE MCCycReplay ----------------------------
(* An instance of CycReplay for TLC: checkpoints of two sizes. *)
EXTENDS CycReplay

TwoSizes == {1, 2}
=============================================================================
