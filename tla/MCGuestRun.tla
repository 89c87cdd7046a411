----------------------------- MODULE MCGuestRun -----------------------------
(* Instances of GuestRun for TLC. *)
EXTENDS GuestRun

CONSTANTS c1, c2
MC_Channel == {c1, c2}
=============================================================================
