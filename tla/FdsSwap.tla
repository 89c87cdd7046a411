------------------------------ MODULE FdsSwap ------------------------------
(***************************************************************************)
(* Everyone who shares the disk drive, on the host's frame loop            *)
(* (runner/cyc/cyc_host.c, cyc_sdl.c, cyc_ui_menu.c, cyc_run.c): between   *)
(* two frames ("host") the player presses the Disk action, uses the menu   *)
(* or the dev keys, a script's disk events fire, the HLE plan is toggled   *)
(* or a save state is loaded; then the Disk action's frame hook runs and   *)
(* the program runs one frame ("run"), at the end of which the HLE tier    *)
(* acts.  The program is everything the emulated code can do to the drive  *)
(* in a frame; the bytes themselves are FdsDrive's.                        *)
(***************************************************************************)
EXTENDS DiskAction

CONSTANTS
  Masks,        (* the sides a disk-ID check may match: a set of sets of Sides *)
  SavedStates,  (* the machine states a load may bring back                    *)
  Hosts,        (* the host features in use: a subset of HostFeatures          *)
  MaxWait       (* bound: how far ahead of the frame counter a load may leave  *)
                (* the end of a hold                                           *)

HostFeatures == {"press", "choose", "keys", "script", "plan"}

(* A save state is written between frames (cyc_state.c), so it holds a tier   *)
(* at rest: see NoEjectAtRest, HoldMeansEmpty and HostOwnedIdle below.        *)
AtRest(m) ==
  /\ m.side \in Sides \union {NoSide}
  /\ m.motor \in BOOLEAN /\ m.run \in BOOLEAN
  /\ m.emptied_by \in {"tier", "swap", "host"}
  /\ m.action \in {"none", "hold"}
  /\ m.hold \in 0 .. 255
  /\ m.target \in Sides
  /\ m.armed \in BOOLEAN
  /\ m.rounds \in 0 .. MaxRounds
  /\ m.host_owned \in BOOLEAN
  /\ m.poll_frames \in 0 .. WaitPolls
  /\ m.gap \in 0 .. WaitGap
  /\ m.spinning \in BOOLEAN /\ m.loading \in BOOLEAN
  /\ m.anchor_pending \in 0 .. AnchorPending
  /\ m.back \in Int
  /\ m.action = "hold" => m.side = NoSide /\ m.hold # 0
  /\ m.host_owned => m.action = "none" /\ ~m.armed

ASSUME SwapAssumption ==
  /\ Masks \subseteq SUBSET Sides
  /\ \A m \in SavedStates : AtRest(m)
  /\ Hosts \subseteq HostFeatures
  /\ MaxWait \in Nat /\ MaxWait >= DiskHold

VARIABLE phase  (* "host": between two frames; "run": the frame is running *)

vars == <<phase, mediaVars, hleVars, diskVars>>

-----------------------------------------------------------------------------
(* Between two frames. *)

PlayerPress ==
  /\ phase = "host" /\ "press" \in Hosts
  /\ Press
  /\ UNCHANGED phase

PlayerToastTimeout ==
  /\ phase = "host"
  /\ ToastTimeout
  /\ UNCHANGED phase

PlayerChoose(s) ==
  /\ phase = "host" /\ "choose" \in Hosts
  /\ Choose(s)
  /\ UNCHANGED phase

(* cyc_host_disk_eject/insert: F1, the menu's rows and the TCP commands drop  *)
(* the pending swap first, even when the drive then refuses the change.       *)
HostDiskEject ==
  /\ phase = "host" /\ "keys" \in Hosts
  /\ Cancel
  /\ \/ HostEject("host")
     \/ /\ side = NoSide                 \* already out, and nothing goes in
        /\ emptied_by' = IF emptied_by = "swap" THEN "host" ELSE emptied_by
        /\ UNCHANGED <<side, motor, run>>
        /\ UNCHANGED hleVars
  /\ UNCHANGED phase

HostDiskInsert(s) ==
  /\ phase = "host" /\ "keys" \in Hosts
  /\ Cancel
  /\ \/ HostInsert(s)
     \/ /\ side # NoSide
        /\ UNCHANGED mediaVars /\ UNCHANGED hleVars
  /\ UNCHANGED phase

(* A script's --fds-event changes the drive behind the Disk action's back.    *)
ScriptEject ==
  /\ phase = "host" /\ "script" \in Hosts
  /\ HostEject("host")
  /\ UNCHANGED <<phase, diskVars>>

ScriptInsert(s) ==
  /\ phase = "host" /\ "script" \in Hosts
  /\ HostInsert(s)
  /\ UNCHANGED <<phase, diskVars>>

TogglePlan(on) ==
  /\ phase = "host" /\ "plan" \in Hosts
  /\ Configure(on)
  /\ UNCHANGED <<phase, diskVars>>

(* A save state replaces the machine, the drive and the tier but neither the  *)
(* host's plan nor the Disk action, and moves the frame counter m.back frames *)
(* back (or, negative, forward) under the Disk action's insert_at.            *)
LoadState(m) ==
  /\ phase = "host"
  /\ wait + m.back <= MaxWait
  /\ side' = m.side
  /\ motor' = m.motor
  /\ run' = m.run
  /\ emptied_by' = m.emptied_by
  /\ action' = m.action
  /\ hold' = m.hold
  /\ target' = m.target
  /\ armed' = m.armed
  /\ rounds' = m.rounds
  /\ host_owned' = m.host_owned
  /\ poll_frames' = m.poll_frames /\ gap' = m.gap
  /\ spinning' = m.spinning
  /\ anchor_pending' = m.anchor_pending
  /\ loading' = m.loading
  /\ access' = FALSE /\ anchor' = FALSE /\ polls' = FALSE
  /\ \/ /\ goal # NoSide /\ ~eject_pending /\ wait + m.back > 0
        /\ wait' = wait + m.back
     \/ /\ goal = NoSide \/ eject_pending \/ wait + m.back <= 0
        /\ wait' = 0
  /\ UNCHANGED <<phase, auto_swap, toast, goal, eject_pending, last_side>>

FrameStart ==
  /\ phase = "host"
  /\ phase' = "run"
  /\ DiskActionFrame

-----------------------------------------------------------------------------
(* Within a frame: what the program does to the drive. *)

InFrame == phase = "run" /\ UNCHANGED <<phase, diskVars>>

ProgramData == InFrame /\ ReportData /\ UNCHANGED mediaVars

ProgramPoll == InFrame /\ ReportStatusRead /\ UNCHANGED mediaVars

ProgramRequest(mask) == InFrame /\ Request(mask) /\ UNCHANGED mediaVars

ProgramMotor == InFrame /\ TurnMotor /\ UNCHANGED hleVars

ProgramRewind == InFrame /\ MotorOn /\ ReportRewind /\ UNCHANGED mediaVars

(* The head is ready: the first byte, with its transfer released or not.      *)
ProgramReady(transfer) ==
  /\ InFrame /\ MotorOn
  /\ spinning
  /\ ReportReady(transfer)
  /\ UNCHANGED mediaVars

(* Bytes written start a run; leaving write mode ends it. *)
ProgramWrite ==
  /\ InFrame
  /\ \/ WriteRun(TRUE) /\ ReportData
     \/ WriteRun(FALSE) /\ UNCHANGED hleVars

FrameEnd ==
  /\ phase = "run"
  /\ phase' = "host"
  /\ HleFrameEnd
  /\ wait' = IF wait > 0 THEN wait - 1 ELSE 0
  /\ UNCHANGED <<toast, goal, eject_pending, last_side>>

-----------------------------------------------------------------------------
Init == MediaInit /\ HleInit /\ DiskInit /\ phase = "host"

Host ==
  \/ PlayerPress \/ PlayerToastTimeout \/ HostDiskEject \/ ScriptEject
  \/ \E s \in Sides : PlayerChoose(s) \/ HostDiskInsert(s) \/ ScriptInsert(s)
  \/ \E on \in BOOLEAN : TogglePlan(on)
  \/ \E m \in SavedStates : LoadState(m)

Program ==
  \/ ProgramData \/ ProgramPoll \/ ProgramMotor \/ ProgramRewind \/ ProgramWrite
  \/ \E t \in BOOLEAN : ProgramReady(t)
  \/ \E mask \in Masks : ProgramRequest(mask)

Next == Host \/ FrameStart \/ Program \/ FrameEnd

Spec == Init /\ [][Next]_vars

(* The host runs frame after frame; nothing else is promised.                 *)
FairSpec == Spec /\ WF_vars(FrameStart) /\ WF_vars(FrameEnd)

-----------------------------------------------------------------------------
(* The types of all the variables. *)
TypeOK ==
  /\ MediaTypeOK /\ HleTypeOK /\ DiskTypeOK
  /\ phase \in {"host", "run"}

(* Between two frames the tier is never about to eject: whatever asked for a  *)
(* swap within a frame, the frame's end took the disk out (swap_frame), so a  *)
(* plan turned off by the host meets at most a hold.                          *)
NoEjectAtRest == phase = "host" => action # "eject"

(* While the tier holds the drive empty nobody else has put a disk in and     *)
(* left the tier going: two parties never both count the drive as theirs.     *)
HoldMeansEmpty == action = "hold" => side = NoSide

(* After a host changed the disk the tier has no swap under way and is not    *)
(* watching for one, until the program's next disk-ID request.                *)
HostOwnedIdle == host_owned => (action = "none" /\ ~armed)

(* The hold counter is a uint8_t decremented before it is tested: a swap under*)
(* way never reaches the decrement with 0, which would hold for 255 frames.   *)
HoldNeverWraps == action # "none" => hold \in 1 .. 255

(* A drive the tier emptied is never left empty: between frames the tier is   *)
(* holding it with the plan on, so frame ends will fill it.                   *)
TierNeverStrands ==
  (phase = "host" /\ side = NoSide /\ emptied_by = "tier")
    => (auto_swap /\ action = "hold")

(* A drive the Disk action emptied has a side on its way in.                  *)
SwapNeverStrands == (side = NoSide /\ emptied_by = "swap") => goal # NoSide

(* An eject waits for a write only while a swap with a goal is under way.     *)
PendingHasGoal == eject_pending => goal # NoSide

(* A flip that is still under way after the frame's hook waits for frames.    *)
FlipWaits == (phase = "run" /\ goal # NoSide /\ ~eject_pending) => wait > 0

(* The Disk action never pulls the disk while the drive is writing it.        *)
WriteNeverCut ==
  [][Writing /\ (PlayerPress \/ FrameStart \/ \E s \in Sides : PlayerChoose(s))
       => side' = side]_vars

(* Once the program stops asking for disks, a hold the tier began ends.       *)
TierFinishes == <>[]~anchor => (action = "hold" ~> action = "none")

(* Once the host's own moves end and the program ends its writes now and then, *)
(* a flip that is under way ends: its goal went in, or the drive was taken.    *)
FlipFinishes ==
  (<>[][~Host]_vars /\ []<>(phase = "host" /\ ~Writing))
    => (goal # NoSide ~> goal = NoSide)

(* Why they end, whatever fairness brings: a hold of the tier is over, asked  *)
(* for anew, loaded anew, or shorter by one after every frame's end...        *)
HoldRunsDown ==
  [][action = "hold" /\ auto_swap =>
       \/ action' = "none"
       \/ \E mask \in Masks : ProgramRequest(mask)
       \/ \E m \in SavedStates : LoadState(m)
       \/ /\ action' = "hold" /\ auto_swap'
          /\ hold' = IF FrameEnd THEN hold - 1 ELSE hold]_vars

(* ...and a flip no host touches is over, or waits for a write that is going  *)
(* on, or has a wait of at most DiskHold or what it was, less by one after    *)
(* every frame's end; a frame starts with it over or nothing left to wait.    *)
FlipRunsDown ==
  [][goal # NoSide =>
       \/ Host
       \/ goal' = NoSide
       \/ /\ goal' = goal
          /\ \/ eject_pending /\ eject_pending' /\ (FrameStart => Writing)
             \/ eject_pending /\ ~eject_pending' /\ wait' = DiskHold
             \/ /\ ~eject_pending /\ ~eject_pending'
                /\ FrameStart => wait > 0
                /\ wait' = IF FrameEnd THEN wait - 1 ELSE wait]_vars

-----------------------------------------------------------------------------
(* What is inductive.  Within a frame a request may have put the tier back to *)
(* "eject" on an empty drive, which the frame's end turns into a hold again,  *)
(* provided the plan is still on: only the host turns it off, between frames. *)
(* A loaded state taken in mid-swap breaks the two promises about an empty    *)
(* drive (below), so they are conditional on the states a load may bring.     *)
NoneMidFlip == \A m \in SavedStates : m.side = NoSide => m.emptied_by # "swap"
NoneMidSwap == \A m \in SavedStates : m.side = NoSide => m.emptied_by # "tier"

EjectNeedsPlan == action = "eject" => auto_swap

TierPending ==
  (side = NoSide /\ emptied_by = "tier") => (auto_swap /\ action # "none")

IInv ==
  /\ TypeOK
  /\ NoEjectAtRest
  /\ HoldMeansEmpty
  /\ HostOwnedIdle
  /\ HoldNeverWraps
  /\ EjectNeedsPlan
  /\ PendingHasGoal
  /\ NoneMidFlip => SwapNeverStrands
  /\ NoneMidSwap => TierPending

=============================================================================
