------------------------------- MODULE FdsHle -------------------------------
(***************************************************************************)
(* The HLE tier of the disk drive (runner/cyc/hw_fds_hle.c): what it       *)
(* observes of the program within a frame, and the auto-swap machine that  *)
(* runs once at the end of every frame and changes the side in the drive.  *)
(*                                                                         *)
(* Left out: the ring events, the span statistics, the swap and bump       *)
(* counters and `ejected`, which only tells those two counters apart.      *)
(***************************************************************************)
EXTENDS FdsMedia

CONSTANTS
  SwapHold,      (* frames the drive stays empty in a requested swap (3)      *)
  WaitPolls,     (* $4032-polling frames that count as waiting (20)           *)
  WaitGap,       (* poll-free frames that still continue the count (30)       *)
  WaitHold,      (* frames the drive stays empty after a wait (10)            *)
  AnchorPending, (* frames of the BIOS's wait after an ID check (60)          *)
  MaxRounds      (* where the round counter saturates (255, a uint8_t)        *)

ASSUME HleAssumption ==
  /\ SwapHold \in 1 .. 255
  /\ WaitPolls \in Nat \ {0}
  /\ WaitGap \in Nat
  /\ WaitHold \in 1 .. 255
  /\ AnchorPending \in Nat
  /\ MaxRounds \in Nat \ {0}

VARIABLES
  auto_swap,      (* cfg.auto_swap: the plan the host configured            *)
  action,         (* "none", "eject" (asked within this frame) or "hold"    *)
  hold,           (* frames left with the drive empty                       *)
  target,         (* the side the tier is about to put in                   *)
  armed,          (* a disk access was seen: the next idle may be a wait    *)
  rounds,         (* waits since the last request                           *)
  host_owned,     (* a host changed the disk: keep off until a request      *)
  poll_frames,    (* frames of the current wait that polled $4032           *)
  gap,            (* poll-free frames since the last polling one            *)
  access,         (* frame_flags: data or rewind seen this frame            *)
  anchor,         (* frame_flags: a disk-ID check ran this frame            *)
  polls,          (* $4032 was read this frame                              *)
  spinning,       (* rewound and not ready yet                              *)
  anchor_pending, (* frames left of the BIOS's wait                         *)
  loading         (* the frame just ended was a load frame                  *)

swapVars == <<action, hold, target, armed, rounds, host_owned, poll_frames, gap>>
obsVars == <<access, anchor, polls, spinning, anchor_pending, loading>>
hleVars == <<auto_swap, action, hold, target, armed, rounds, host_owned,
             poll_frames, gap, access, anchor, polls, spinning,
             anchor_pending, loading>>

-----------------------------------------------------------------------------
(* What the bus and the drive report within a frame. *)

ReportData ==
  /\ access' = TRUE
  /\ UNCHANGED <<auto_swap, anchor, polls, spinning, anchor_pending, loading>>
  /\ UNCHANGED swapVars

ReportStatusRead ==
  /\ polls' = TRUE
  /\ UNCHANGED <<auto_swap, access, anchor, spinning, anchor_pending, loading>>
  /\ UNCHANGED swapVars

ReportRewind ==
  /\ access' = TRUE
  /\ spinning' = TRUE
  /\ anchor_pending' = 0
  /\ UNCHANGED <<auto_swap, anchor, polls, loading>>
  /\ UNCHANGED swapVars

(* The first byte after the spin-up: ready, and a transfer if it is released. *)
ReportReady(transfer) ==
  /\ spinning' = FALSE
  /\ access' = (access \/ transfer)
  /\ UNCHANGED <<auto_swap, anchor, polls, anchor_pending, loading>>
  /\ UNCHANGED swapVars

(* The BIOS's disk-ID check asks for the disk whose header matches the sides  *)
(* in mask.                                                                   *)
Request(mask) ==
  /\ anchor' = TRUE
  /\ UNCHANGED <<auto_swap, armed, poll_frames, gap, access, polls, spinning,
                 anchor_pending, loading>>
  /\ \/ /\ ~auto_swap
        /\ UNCHANGED <<action, hold, target, rounds, host_owned>>
     \/ /\ auto_swap
        /\ rounds' = 0
        /\ host_owned' = FALSE
        /\ \/ /\ side \in mask                  \* keep
              /\ action' = "none"
              /\ UNCHANGED <<hold, target>>
           \/ /\ side \notin mask               \* swap
              /\ Cardinality(mask) = 1
              /\ target' \in mask
              /\ hold' = SwapHold
              /\ action' = "eject"
           \/ /\ side \notin mask               \* ambiguous, or no match
              /\ Cardinality(mask) # 1
              /\ UNCHANGED <<action, hold, target>>

(* A host changed the disk: the tier gives the drive back. *)
HostDiskChange ==
  /\ action' = "none"
  /\ armed' = FALSE
  /\ poll_frames' = 0
  /\ gap' = 0
  /\ host_owned' = TRUE
  /\ UNCHANGED <<auto_swap, hold, target, rounds, access, anchor, polls,
                 spinning, anchor_pending, loading>>

(* Mutant: an insert does not tell the tier. *)
HostInsertSilently(s) == DriveInsert(s) /\ UNCHANGED hleVars

(* The host's calls, cyc_fds_eject() and cyc_fds_insert(): refused calls      *)
(* change nothing, the others also take the drive back from the tier.         *)
HostEject(source) == DriveEject(source) /\ HostDiskChange
HostInsert(s) == DriveInsert(s) /\ HostDiskChange

(* Mutant: turned off in mid-swap, the tier forgets the side it owes. *)
ConfigureNoInsert(on) ==
  /\ auto_swap' = on
  /\ action' = IF auto_swap /\ ~on THEN "none" ELSE action
  /\ UNCHANGED <<hold, target, armed, rounds, host_owned, poll_frames, gap>>
  /\ UNCHANGED <<mediaVars, obsVars>>

(* The plan changes.  Turned off in mid-swap, the tier puts its side in.      *)
Configure(on) ==
  /\ auto_swap' = on
  /\ \/ /\ auto_swap /\ ~on /\ action # "none"
        /\ action' = "none"
        /\ \/ action = "hold" /\ DriveInsert(target)
           \/ (action # "hold" \/ side # NoSide) /\ UNCHANGED mediaVars
     \/ /\ ~auto_swap \/ on \/ action = "none"
        /\ UNCHANGED action
        /\ UNCHANGED mediaVars
  /\ UNCHANGED <<hold, target, armed, rounds, host_owned, poll_frames, gap>>
  /\ UNCHANGED obsVars

-----------------------------------------------------------------------------
(* The end of a frame: swap_frame(), one disjunct per branch. *)

(* The tier takes the disk out and starts to hold the drive empty. *)
SwapEject ==
  /\ action = "eject"
  /\ action' = "hold"
  /\ \/ DriveEject("tier")
     \/ side = NoSide /\ UNCHANGED mediaVars
  /\ UNCHANGED <<hold, target, armed, rounds, host_owned, poll_frames, gap>>

(* Mutant: the hold counts only the frames that left the disk alone. *)
SwapHoldingUntouched ==
  /\ action = "hold"
  /\ hold' = IF access THEN hold ELSE (hold - 1) % 256
  /\ \/ hold' = 0 /\ action' = "none" /\ DriveInsert(target)
     \/ hold' # 0 /\ UNCHANGED <<action, mediaVars>>
  /\ UNCHANGED <<target, armed, rounds, host_owned, poll_frames, gap>>

SwapHolding ==
  /\ action = "hold"
  /\ hold' = (hold - 1) % 256
  /\ \/ /\ hold' = 0
        /\ action' = "none"
        /\ \/ DriveInsert(target)
           \/ (side # NoSide \/ target \notin Sides) /\ UNCHANGED mediaVars
     \/ /\ hold' # 0
        /\ UNCHANGED action
        /\ UNCHANGED mediaVars
  /\ UNCHANGED <<target, armed, rounds, host_owned, poll_frames, gap>>

PendingAfter ==
  IF anchor THEN AnchorPending
  ELSE IF anchor_pending > 0 THEN anchor_pending - 1 ELSE 0

DiskAccess == access \/ anchor \/ spinning \/ PendingAfter > 0

SwapAccess ==
  /\ action = "none"
  /\ DiskAccess
  /\ armed' = (armed \/ ~host_owned)
  /\ poll_frames' = 0
  /\ gap' = 0
  /\ UNCHANGED <<action, hold, target, rounds, host_owned>>
  /\ UNCHANGED mediaVars

SwapIdle ==
  /\ action = "none"
  /\ ~DiskAccess
  /\ ~armed \/ side = NoSide
  /\ UNCHANGED swapVars
  /\ UNCHANGED mediaVars

(* The wait's counters after this frame: a poll counts, a long gap forgets.   *)
Waited ==
  IF polls THEN [frames |-> poll_frames + 1, gap |-> 0]
  ELSE IF gap + 1 > WaitGap THEN [frames |-> 0, gap |-> 0]
  ELSE [frames |-> poll_frames, gap |-> gap + 1]

SwapWatching ==
  /\ action = "none"
  /\ ~DiskAccess
  /\ armed
  /\ side # NoSide
  /\ \/ /\ Waited.frames < WaitPolls
        /\ poll_frames' = Waited.frames
        /\ gap' = Waited.gap
        /\ UNCHANGED <<action, hold, target, armed, rounds, host_owned>>
        /\ UNCHANGED mediaVars
     \/ /\ Waited.frames >= WaitPolls     \* the program waits: eject now
        /\ target' = IF rounds # 0 THEN (side + 1) % SideCount ELSE side
        /\ hold' = WaitHold
        /\ armed' = FALSE
        /\ poll_frames' = 0
        /\ gap' = 0
        /\ rounds' = IF rounds < MaxRounds THEN rounds + 1 ELSE rounds
        /\ action' = "hold"
        /\ DriveEject("tier")
        /\ UNCHANGED host_owned

SwapFrame == SwapEject \/ SwapHolding \/ SwapAccess \/ SwapIdle \/ SwapWatching

HleFrameEnd ==
  /\ access' = FALSE
  /\ anchor' = FALSE
  /\ polls' = FALSE
  /\ anchor_pending' = PendingAfter
  /\ loading' = (\/ access \/ anchor \/ spinning \/ anchor_pending > 0
                 \/ auto_swap /\ action # "none")
  /\ UNCHANGED <<auto_swap, spinning>>
  /\ \/ auto_swap /\ SwapFrame
     \/ ~auto_swap /\ UNCHANGED swapVars /\ UNCHANGED mediaVars

-----------------------------------------------------------------------------
HleInit ==
  /\ auto_swap \in BOOLEAN
  /\ action = "none" /\ hold = 0 /\ target = 0
  /\ armed = FALSE /\ rounds = 0 /\ host_owned = FALSE
  /\ poll_frames = 0 /\ gap = 0
  /\ access = FALSE /\ anchor = FALSE /\ polls = FALSE
  /\ spinning = FALSE /\ anchor_pending = 0 /\ loading = FALSE

HleTypeOK ==
  /\ auto_swap \in BOOLEAN
  /\ action \in {"none", "eject", "hold"}
  /\ hold \in 0 .. 255
  /\ target \in Sides
  /\ armed \in BOOLEAN
  /\ rounds \in 0 .. MaxRounds
  /\ host_owned \in BOOLEAN
  /\ poll_frames \in 0 .. WaitPolls
  /\ gap \in 0 .. WaitGap
  /\ access \in BOOLEAN /\ anchor \in BOOLEAN /\ polls \in BOOLEAN
  /\ spinning \in BOOLEAN
  /\ anchor_pending \in 0 .. AnchorPending
  /\ loading \in BOOLEAN
=============================================================================
