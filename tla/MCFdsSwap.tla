----------------------------- MODULE MCFdsSwap -----------------------------
(* Instances of FdsSwap for TLC. *)
EXTENDS FdsSwap

MCMasks == {{}, {0}, {1}, {0, 1}}

AllHosts == HostFeatures

(* Machine states a save state may hold: the tier saw the program read the    *)
(* disk or write it, a host took the disk out, and the disk spins up.         *)
Playing ==
  [side |-> 0, motor |-> FALSE, run |-> FALSE, emptied_by |-> "host",
   action |-> "none", hold |-> 0, target |-> 0, armed |-> TRUE, rounds |-> 0,
   host_owned |-> FALSE, poll_frames |-> 0, gap |-> 0, spinning |-> FALSE,
   anchor_pending |-> 0, loading |-> FALSE, back |-> 2]
HostEmptied ==
  [Playing EXCEPT !.side = NoSide, !.armed = FALSE, !.host_owned = TRUE]
WritingDisk == [Playing EXCEPT !.motor = TRUE, !.run = TRUE]
SpinningUp ==
  [Playing EXCEPT !.motor = TRUE, !.spinning = TRUE, !.loading = TRUE,
                  !.anchor_pending = 1, !.back = -1]
SafeStates == {SpinningUp, HostEmptied, WritingDisk}
=============================================================================
