----------------------------- MODULE DiskAction -----------------------------
(***************************************************************************)
(* The player's two-press Disk action (runner/cyc/cyc_disk_action.c) on    *)
(* the real drive (runner/cyc/cyc_host.c): the first press shows a toast,  *)
(* the next one flips the disk.  The action changes the drive only through *)
(* the host's eject and insert, so each change also reaches the HLE tier.  *)
(*                                                                         *)
(* The toast's clock is wall time, so its end is an action of its own.     *)
(* `insert_at` is kept relative to the frame counter: wait = insert_at -   *)
(* frame, 0 whenever the code does not read it.                            *)
(***************************************************************************)
EXTENDS FdsHle

CONSTANT DiskHold         (* frames the drive stays empty during a swap (30) *)

ASSUME DiskHoldAssumption == DiskHold \in Nat \ {0}

VARIABLES
  toast,         (* a press was less than CYC_DISK_TOAST_MS ago        *)
  goal,          (* `target`: the side a swap puts in, or NoSide       *)
  eject_pending, (* the eject waits for a write run to end             *)
  wait,          (* frames until the goal goes in                      *)
  last_side      (* the side last seen in the drive                    *)

diskVars == <<toast, goal, eject_pending, wait, last_side>>

ToastUp == toast \/ goal # NoSide \/ eject_pending

After(s) == IF s = NoSide THEN 0 ELSE (s + 1) % SideCount

(* Take the side out of an occupied drive, or wait for an empty one, then     *)
(* insert s after the hold.                                                   *)
StartSwap(s) ==
  /\ goal' = s
  /\ \/ /\ side = NoSide
        /\ wait' = DiskHold
        /\ UNCHANGED <<eject_pending, last_side>>
        /\ UNCHANGED mediaVars /\ UNCHANGED hleVars
     \/ /\ side # NoSide /\ Writing
        /\ last_side' = side
        /\ eject_pending' = TRUE
        /\ wait' = 0
        /\ UNCHANGED mediaVars /\ UNCHANGED hleVars
     \/ /\ side # NoSide /\ ~Writing
        /\ last_side' = side
        /\ wait' = DiskHold
        /\ HostEject("swap")
        /\ UNCHANGED eject_pending

(* Mutant: going back to the side that was taken out ends the flip. *)
RetargetBack(s) ==
  /\ goal' = IF s = last_side THEN NoSide ELSE s
  /\ wait' = IF eject_pending THEN wait ELSE DiskHold
  /\ UNCHANGED <<eject_pending, last_side>>
  /\ UNCHANGED mediaVars /\ UNCHANGED hleVars

(* Still flipping: another goal, and the hold starts over. *)
Retarget(s) ==
  /\ goal' = s
  /\ wait' = IF eject_pending THEN wait ELSE DiskHold
  /\ UNCHANGED <<eject_pending, last_side>>
  /\ UNCHANGED mediaVars /\ UNCHANGED hleVars

Press ==
  /\ toast' = TRUE
  /\ \/ /\ ~ToastUp                        \* a peek: nothing else changes
        /\ UNCHANGED <<goal, eject_pending, wait, last_side>>
        /\ UNCHANGED mediaVars /\ UNCHANGED hleVars
     \/ /\ ToastUp /\ goal # NoSide
        /\ Retarget(After(goal))
     \/ /\ ToastUp /\ goal = NoSide
        /\ StartSwap(After(IF side # NoSide THEN side ELSE last_side))

(* The runtime menu names the side itself. *)
Choose(s) ==
  /\ toast' = TRUE
  /\ \/ /\ goal # NoSide
        /\ Retarget(s)
     \/ /\ goal = NoSide /\ side = s
        /\ UNCHANGED <<goal, eject_pending, wait, last_side>>
        /\ UNCHANGED mediaVars /\ UNCHANGED hleVars
     \/ /\ goal = NoSide /\ side # s
        /\ StartSwap(s)

Cancel ==
  /\ goal' = NoSide
  /\ eject_pending' = FALSE
  /\ wait' = 0
  /\ UNCHANGED <<toast, last_side>>

ToastTimeout ==
  /\ toast
  /\ toast' = FALSE
  /\ UNCHANGED <<goal, eject_pending, wait, last_side>>
  /\ UNCHANGED mediaVars /\ UNCHANGED hleVars

-----------------------------------------------------------------------------
(* Before every frame: cyc_disk_action_frame(), one disjunct per branch. *)

Seen == IF side # NoSide THEN side ELSE last_side

(* The eject was waiting and someone else emptied the drive. *)
FramePulledAlready ==
  /\ eject_pending /\ side = NoSide
  /\ eject_pending' = FALSE
  /\ wait' = DiskHold
  /\ UNCHANGED <<toast, goal, last_side>>
  /\ UNCHANGED mediaVars /\ UNCHANGED hleVars

(* Mutant: the pending eject does not look for the write's end. *)
FrameEjectNow ==
  /\ eject_pending /\ side # NoSide
  /\ eject_pending' = FALSE
  /\ wait' = DiskHold
  /\ HostEject("swap")
  /\ UNCHANGED <<toast, goal, last_side>>

FrameWriteEnded ==
  /\ eject_pending /\ side # NoSide /\ ~Writing
  /\ eject_pending' = FALSE
  /\ wait' = DiskHold
  /\ HostEject("swap")
  /\ UNCHANGED <<toast, goal, last_side>>

FrameStillWriting ==
  /\ eject_pending /\ Writing
  /\ UNCHANGED diskVars
  /\ UNCHANGED mediaVars /\ UNCHANGED hleVars

FrameIdle ==
  /\ ~eject_pending
  /\ goal = NoSide \/ wait > 0
  /\ last_side' = Seen
  /\ UNCHANGED <<toast, goal, eject_pending, wait>>
  /\ UNCHANGED mediaVars /\ UNCHANGED hleVars

(* Mutant: the goal waits for an occupied drive to be emptied. *)
FrameInsertWaits ==
  /\ ~eject_pending
  /\ goal # NoSide /\ wait <= 0
  /\ wait' = 0
  /\ UNCHANGED eject_pending
  /\ \/ /\ side # NoSide
        /\ UNCHANGED <<goal, toast, last_side>>
        /\ UNCHANGED mediaVars /\ UNCHANGED hleVars
     \/ /\ side = NoSide
        /\ HostInsert(goal)
        /\ goal' = NoSide /\ last_side' = goal /\ toast' = TRUE

(* The hold is over: the goal goes in, unless someone else filled the drive. *)
FrameInsert ==
  /\ ~eject_pending
  /\ goal # NoSide /\ wait <= 0
  /\ goal' = NoSide
  /\ wait' = 0
  /\ UNCHANGED eject_pending
  /\ \/ /\ side # NoSide
        /\ last_side' = side
        /\ UNCHANGED toast
        /\ UNCHANGED mediaVars /\ UNCHANGED hleVars
     \/ /\ side = NoSide
        /\ HostInsert(goal)
        /\ last_side' = goal
        /\ toast' = TRUE

DiskActionFrame ==
  \/ FramePulledAlready \/ FrameWriteEnded \/ FrameStillWriting
  \/ FrameIdle \/ FrameInsert

DiskInit ==
  /\ toast = FALSE
  /\ goal = NoSide
  /\ eject_pending = FALSE
  /\ wait = 0
  /\ last_side = side

DiskTypeOK ==
  /\ toast \in BOOLEAN
  /\ goal \in Sides \union {NoSide}
  /\ eject_pending \in BOOLEAN
  /\ wait \in Nat
  /\ last_side \in Sides \union {NoSide}
=============================================================================
