-------------------------- MODULE FdsSwap_proofs --------------------------
(***************************************************************************)
(* What the shared drive promises, for every number of sides, every        *)
(* combination of host features and every hold and wait length.            *)
(***************************************************************************)
EXTENDS FdsSwap, TLAPS

(* The next side, wrapping after the last one, is a side of the disk. *)
LEMMA NextSide == \A s \in Sides : (s + 1) % SideCount \in Sides
  BY SideCountAssumption DEF Sides

(* The side the Disk action offers is a side, whatever it last saw. *)
LEMMA AfterSide == \A s \in Sides \union {NoSide} : After(s) \in Sides
  BY NextSide, SideCountAssumption DEF After, Sides

(* A hold under way counts down without wrapping. *)
LEMMA HoldDown == \A h \in 1 .. 255 : (h - 1) % 256 = h - 1
  OBVIOUS

(* "No side" is not a side. *)
LEMMA NoSideIsNone == NoSide \notin Sides
  BY SideCountAssumption DEF Sides, NoSide

-----------------------------------------------------------------------------
(* The part of IInv about the drive and the tier, and the part about the      *)
(* Disk action; NoEjectAtRest, about the phase, is the third.                 *)
TierPart ==
  /\ MediaTypeOK /\ HleTypeOK
  /\ HoldMeansEmpty /\ HostOwnedIdle /\ HoldNeverWraps /\ EjectNeedsPlan
  /\ NoneMidSwap => TierPending

PlayerPart ==
  /\ DiskTypeOK
  /\ PendingHasGoal
  /\ NoneMidFlip => SwapNeverStrands

(* The three parts and the phase are the whole invariant. *)
LEMMA Parts ==
  IInv <=> (TierPart /\ PlayerPart /\ NoEjectAtRest /\ phase \in {"host", "run"})
  BY DEF IInv, TypeOK, TierPart, PlayerPart

(* The tier's part is about the drive and the tier only. *)
LEMMA TierUntouched ==
  ASSUME TierPart, UNCHANGED mediaVars, UNCHANGED hleVars
  PROVE  TierPart' /\ action' = action
  BY DEF TierPart, MediaTypeOK, HleTypeOK, HoldMeansEmpty, HostOwnedIdle,
         HoldNeverWraps, EjectNeedsPlan, TierPending, mediaVars, hleVars

(* A host that takes the disk out leaves the tier at rest. *)
LEMMA HostEjects ==
  ASSUME TierPart, NEW source \in {"host", "swap"}, HostEject(source)
  PROVE  TierPart' /\ action' = "none" /\ side' = NoSide /\ emptied_by' = source
<1> USE DEF HostEject, DriveEject, HostDiskChange, TierPart
<1>1. MediaTypeOK'
  BY DEF MediaTypeOK
<1>2. HleTypeOK'
  <2>1. poll_frames' \in 0 .. WaitPolls /\ gap' \in 0 .. WaitGap
    BY HleAssumption
  <2> QED
    BY <2>1 DEF HleTypeOK
<1> QED
  BY <1>1, <1>2 DEF HoldMeansEmpty, HostOwnedIdle, HoldNeverWraps, EjectNeedsPlan,
                    TierPending

(* ... and so does one that puts a disk in. *)
LEMMA HostInserts ==
  ASSUME TierPart, NEW s \in Sides, HostInsert(s)
  PROVE  TierPart' /\ action' = "none" /\ side' = s /\ side = NoSide
<1> USE DEF HostInsert, DriveInsert, HostDiskChange, TierPart
<1>1. MediaTypeOK'
  BY DEF MediaTypeOK
<1>2. HleTypeOK'
  <2>1. poll_frames' \in 0 .. WaitPolls /\ gap' \in 0 .. WaitGap
    BY HleAssumption
  <2> QED
    BY <2>1 DEF HleTypeOK
<1> QED
  BY <1>1, <1>2, NoSideIsNone
     DEF HoldMeansEmpty, HostOwnedIdle, HoldNeverWraps, EjectNeedsPlan, TierPending

-----------------------------------------------------------------------------
(* The Disk action's operations preserve both parts, and never put the tier   *)
(* to work.                                                                   *)

(* Starting a swap, with its eject done or pending, keeps the invariant.      *)
LEMMA StartsSwap ==
  ASSUME TierPart, PlayerPart, NEW s \in Sides, StartSwap(s), toast' \in BOOLEAN
  PROVE  TierPart' /\ PlayerPart' /\ action' \in {action, "none"}
<1> USE DEF PlayerPart
<1>1. goal' # NoSide /\ goal' \in Sides
  BY NoSideIsNone DEF StartSwap
<1>2. DiskHold \in Nat /\ 0 \in Nat
  BY DiskHoldAssumption
<1>3. side \in Sides \union {NoSide}
  BY DEF TierPart, MediaTypeOK
<1>4. DiskTypeOK'
  BY <1>1, <1>2, <1>3 DEF StartSwap, DiskTypeOK
<1>5. TierPart' /\ action' \in {action, "none"}
  <2>1. CASE HostEject("swap")
    BY <2>1, HostEjects
  <2>2. CASE UNCHANGED mediaVars /\ UNCHANGED hleVars
    BY <2>2, TierUntouched
  <2> QED
    BY <2>1, <2>2 DEF StartSwap
<1> QED
  BY <1>1, <1>4, <1>5 DEF PendingHasGoal, SwapNeverStrands

(* Another goal for a swap under way keeps it. *)
LEMMA Retargets ==
  ASSUME TierPart, PlayerPart, NEW s \in Sides, Retarget(s), toast' \in BOOLEAN
  PROVE  TierPart' /\ PlayerPart' /\ action' \in {action, "none"}
<1> USE DEF PlayerPart, Retarget
<1>1. goal' # NoSide /\ goal' \in Sides
  BY NoSideIsNone
<1>2. DiskTypeOK'
  BY <1>1, DiskHoldAssumption DEF DiskTypeOK
<1> QED
  BY <1>1, <1>2, TierUntouched DEF PendingHasGoal, SwapNeverStrands

(* Steps that leave the drive, the tier and the flip alone. *)
LEMMA PlayerUntouched ==
  ASSUME TierPart, PlayerPart, UNCHANGED mediaVars, UNCHANGED hleVars,
         UNCHANGED <<goal, eject_pending>>, toast' \in BOOLEAN, wait' \in Nat,
         last_side' \in Sides \union {NoSide}
  PROVE  TierPart' /\ PlayerPart' /\ action' \in {action, "none"}
<1>1. TierPart' /\ action' = action
  BY TierUntouched
<1>2. PlayerPart'
  BY DEF PlayerPart, DiskTypeOK, PendingHasGoal, SwapNeverStrands, mediaVars
<1> QED
  BY <1>1, <1>2

(* A press keeps it, whatever the toast and the drive are in. *)
LEMMA Presses ==
  ASSUME TierPart, PlayerPart, Press
  PROVE  TierPart' /\ PlayerPart' /\ action' \in {action, "none"}
<1>1. toast' \in BOOLEAN
  BY DEF Press
<1>2. side \in Sides \union {NoSide} /\ DiskTypeOK
  BY DEF TierPart, PlayerPart, MediaTypeOK
<1>3. CASE UNCHANGED <<goal, eject_pending, wait, last_side>>
           /\ UNCHANGED mediaVars /\ UNCHANGED hleVars
  BY <1>1, <1>2, <1>3, PlayerUntouched DEF DiskTypeOK
<1>4. CASE goal # NoSide /\ Retarget(After(goal))
  BY <1>1, <1>2, <1>4, AfterSide, Retargets DEF DiskTypeOK
<1>5. CASE StartSwap(After(IF side # NoSide THEN side ELSE last_side))
  <2> DEFINE shown == IF side # NoSide THEN side ELSE last_side
  <2>1. After(shown) \in Sides
    BY <1>2, AfterSide DEF DiskTypeOK
  <2> HIDE DEF shown
  <2>2. StartSwap(After(shown))
    BY <1>5 DEF shown
  <2> QED
    BY <1>1, <2>1, <2>2, StartsSwap
<1> QED
  BY <1>3, <1>4, <1>5 DEF Press

(* So does the side the menu chooses. *)
LEMMA Chooses ==
  ASSUME TierPart, PlayerPart, NEW s \in Sides, Choose(s)
  PROVE  TierPart' /\ PlayerPart' /\ action' \in {action, "none"}
<1>1. toast' \in BOOLEAN
  BY DEF Choose
<1>2. CASE UNCHANGED <<goal, eject_pending, wait, last_side>>
           /\ UNCHANGED mediaVars /\ UNCHANGED hleVars
  BY <1>1, <1>2, PlayerUntouched DEF PlayerPart, DiskTypeOK
<1> QED
  BY <1>1, <1>2, Retargets, StartsSwap DEF Choose

(* The frame hook's five branches. *)
LEMMA DiskFrames ==
  ASSUME TierPart, PlayerPart, DiskActionFrame
  PROVE  TierPart' /\ PlayerPart' /\ action' \in {action, "none"}
<1>1. /\ side \in Sides \union {NoSide} /\ DiskTypeOK
      /\ DiskHold \in Nat /\ 0 \in Nat
      /\ PendingHasGoal
      /\ NoneMidFlip => SwapNeverStrands
  BY DiskHoldAssumption DEF TierPart, PlayerPart, MediaTypeOK
<1>2. CASE FramePulledAlready
  <2>1. TierPart' /\ action' = action
    BY <1>2, TierUntouched DEF FramePulledAlready
  <2>2. DiskTypeOK'
    BY <1>1, <1>2 DEF FramePulledAlready, DiskTypeOK
  <2> QED
    BY <1>1, <1>2, <2>1, <2>2
       DEF FramePulledAlready, PlayerPart, PendingHasGoal, SwapNeverStrands, mediaVars
<1>3. CASE FrameWriteEnded
  <2>1. TierPart' /\ action' = "none"
    BY <1>3, HostEjects DEF FrameWriteEnded
  <2>2. DiskTypeOK'
    BY <1>1, <1>3 DEF FrameWriteEnded, DiskTypeOK
  <2> QED
    BY <1>1, <1>3, <2>1, <2>2
       DEF FrameWriteEnded, PlayerPart, PendingHasGoal, SwapNeverStrands
<1>4. CASE FrameStillWriting
  BY <1>1, <1>4, PlayerUntouched DEF FrameStillWriting, diskVars, DiskTypeOK
<1>5. CASE FrameIdle
  BY <1>1, <1>5, PlayerUntouched DEF FrameIdle, Seen, DiskTypeOK
<1>6. CASE FrameInsert
  <2>1. goal \in Sides
    BY <1>1, <1>6 DEF FrameInsert, DiskTypeOK
  <2>2. TierPart' /\ action' \in {action, "none"} /\ side' # NoSide
    BY <1>6, <2>1, TierUntouched, HostInserts, NoSideIsNone DEF FrameInsert, mediaVars
  <2>3. DiskTypeOK'
    BY <1>1, <1>6 DEF FrameInsert, DiskTypeOK
  <2> QED
    BY <1>6, <2>2, <2>3 DEF FrameInsert, PlayerPart, PendingHasGoal, SwapNeverStrands
<1> QED
  BY <1>2, <1>3, <1>4, <1>5, <1>6 DEF DiskActionFrame

-----------------------------------------------------------------------------
(* The program's reports and the plan preserve the tier's part. *)

(* A report changes neither the machine of the swap nor the drive. *)
LEMMA Reports ==
  ASSUME TierPart, UNCHANGED mediaVars, UNCHANGED swapVars, UNCHANGED auto_swap,
         access' \in BOOLEAN, anchor' \in BOOLEAN, polls' \in BOOLEAN,
         spinning' \in BOOLEAN, anchor_pending' \in 0 .. AnchorPending,
         loading' \in BOOLEAN
  PROVE  TierPart' /\ action' = action
  BY DEF TierPart, MediaTypeOK, HleTypeOK, HoldMeansEmpty, HostOwnedIdle,
         HoldNeverWraps, EjectNeedsPlan, TierPending, mediaVars, swapVars

(* A disk-ID request keeps it: a hold that it turns back into an eject is one *)
(* the plan is on for.                                                        *)
LEMMA Requests ==
  ASSUME TierPart, NEW mask \in SUBSET Sides, Request(mask), UNCHANGED mediaVars
  PROVE  TierPart'
<1> USE DEF TierPart, mediaVars
<1>1. hold' \in 0 .. 255 /\ target' \in Sides /\ rounds' \in 0 .. MaxRounds
  BY HleAssumption DEF Request, HleTypeOK
<1>2. MediaTypeOK'
  BY DEF MediaTypeOK
<1>3. HleTypeOK'
  BY <1>1 DEF Request, HleTypeOK
<1>4. HoldNeverWraps'
  BY HleAssumption DEF Request, HoldNeverWraps
<1>5. HoldMeansEmpty' /\ HostOwnedIdle' /\ EjectNeedsPlan'
  BY DEF Request, HoldMeansEmpty, HostOwnedIdle, EjectNeedsPlan
<1>6. NoneMidSwap => TierPending'
  BY NoSideIsNone DEF Request, TierPending
<1> QED
  BY <1>2, <1>3, <1>4, <1>5, <1>6

(* The plan changes only between frames, where the tier is not about to eject.*)
LEMMA Configures ==
  ASSUME TierPart, NEW on \in BOOLEAN, Configure(on), action # "eject"
  PROVE  TierPart' /\ action' \in {action, "none"}
<1> USE DEF TierPart
<1>1. action' \in {action, "none"} /\ auto_swap' = on
  BY DEF Configure
<1>2. target \in Sides
  BY DEF HleTypeOK
<1>3. UNCHANGED mediaVars \/ DriveInsert(target)
  BY DEF Configure
<1>4. MediaTypeOK'
  BY <1>2, <1>3 DEF DriveInsert, MediaTypeOK, mediaVars
<1>5. HleTypeOK'
  BY <1>1 DEF Configure, HleTypeOK, obsVars
<1>6. HoldMeansEmpty'
  BY <1>2, <1>3, NoSideIsNone DEF Configure, HoldMeansEmpty, DriveInsert, mediaVars
<1>7. HostOwnedIdle' /\ HoldNeverWraps' /\ EjectNeedsPlan'
  BY <1>1 DEF Configure, HostOwnedIdle, HoldNeverWraps, EjectNeedsPlan
<1>8. NoneMidSwap => TierPending'
  BY <1>1, <1>2, NoSideIsNone
     DEF Configure, TierPending, DriveInsert, mediaVars, HleTypeOK
<1> QED
  BY <1>1, <1>4, <1>5, <1>6, <1>7, <1>8

-----------------------------------------------------------------------------
(* The end of a frame leaves the tier resting or holding, never about to eject*)

(* The end of a frame keeps it, and leaves no eject waiting. *)
LEMMA FrameEnds ==
  ASSUME TierPart, HleFrameEnd
  PROVE  TierPart' /\ action' # "eject"
<1> USE DEF TierPart
<1>1. anchor_pending' \in 0 .. AnchorPending
  BY HleAssumption DEF HleFrameEnd, PendingAfter, HleTypeOK
<1>2. /\ access' \in BOOLEAN /\ anchor' \in BOOLEAN /\ polls' \in BOOLEAN
      /\ loading' \in BOOLEAN /\ spinning' \in BOOLEAN /\ auto_swap' \in BOOLEAN
  BY DEF HleFrameEnd, HleTypeOK
<1>3. CASE ~auto_swap /\ UNCHANGED swapVars /\ UNCHANGED mediaVars
  BY <1>1, <1>2, <1>3, Reports DEF HleFrameEnd, EjectNeedsPlan
<1>4. ASSUME auto_swap, auto_swap' = auto_swap, MediaTypeOK', HoldMeansEmpty',
             HostOwnedIdle', HoldNeverWraps', NoneMidSwap => TierPending',
             action' \in {"none", "hold"}, hold' \in 0 .. 255, target' \in Sides,
             armed' \in BOOLEAN, rounds' \in 0 .. MaxRounds, host_owned' \in BOOLEAN,
             poll_frames' \in 0 .. WaitPolls, gap' \in 0 .. WaitGap
      PROVE  TierPart' /\ action' # "eject"
  BY <1>1, <1>2, <1>4 DEF HleTypeOK, EjectNeedsPlan
<1>5. CASE auto_swap /\ SwapEject
  <2> USE <1>5 DEF SwapEject, DriveEject, mediaVars
  <2>1. MediaTypeOK' /\ HoldMeansEmpty' /\ HostOwnedIdle' /\ HoldNeverWraps'
    BY DEF MediaTypeOK, HoldMeansEmpty, HostOwnedIdle, HoldNeverWraps
  <2>2. TierPending' /\ auto_swap' = auto_swap
    BY DEF TierPending, HleFrameEnd
  <2> QED
    BY <1>4, <2>1, <2>2 DEF HleTypeOK
<1>6. CASE auto_swap /\ SwapHolding
  <2> USE <1>6 DEF SwapHolding
  <2>1. hold \in 1 .. 255 /\ hold' = hold - 1 /\ target \in Sides /\ side = NoSide
    BY HoldDown DEF HoldNeverWraps, HleTypeOK, HoldMeansEmpty
  <2>2. hold' \in 0 .. 254
    BY <2>1
  <2>3. CASE hold' = 0
    <3>1. action' = "none" /\ DriveInsert(target)
      BY <2>1, <2>3
    <3>2. side' \in Sides /\ side' # NoSide
      BY <2>1, <3>1, NoSideIsNone DEF DriveInsert
    <3>3. MediaTypeOK' /\ HoldMeansEmpty' /\ HostOwnedIdle' /\ HoldNeverWraps'
      BY <3>1, <3>2 DEF DriveInsert, MediaTypeOK, HoldMeansEmpty, HostOwnedIdle,
                        HoldNeverWraps
    <3> QED
      BY <1>4, <2>2, <3>1, <3>2, <3>3 DEF TierPending, HleFrameEnd, HleTypeOK
  <2>4. CASE hold' # 0
    <3>1. action' = "hold" /\ UNCHANGED mediaVars
      BY <2>4
    <3>2. MediaTypeOK' /\ HoldMeansEmpty' /\ HostOwnedIdle'
      BY <2>1, <3>1 DEF mediaVars, MediaTypeOK, HoldMeansEmpty, HostOwnedIdle
    <3>3. HoldNeverWraps' /\ TierPending' /\ auto_swap' = auto_swap
      BY <2>2, <2>4, <3>1 DEF HoldNeverWraps, TierPending, HleFrameEnd
    <3> QED
      BY <1>4, <2>2, <3>1, <3>2, <3>3 DEF HleTypeOK
  <2> QED
    BY <2>3, <2>4
<1>7. CASE auto_swap /\ (SwapAccess \/ SwapIdle)
  <2> USE <1>7 DEF SwapAccess, SwapIdle, mediaVars, swapVars
  <2>1. poll_frames' \in 0 .. WaitPolls /\ gap' \in 0 .. WaitGap
    BY HleAssumption DEF HleTypeOK
  <2>2. armed' \in BOOLEAN /\ (host_owned => armed' = armed)
    BY DEF HleTypeOK
  <2>3. UNCHANGED <<action, hold, target, rounds, host_owned, side, motor, run, emptied_by>>
    OBVIOUS
  <2>4. MediaTypeOK' /\ HoldMeansEmpty' /\ HoldNeverWraps'
    BY <2>3 DEF MediaTypeOK, HoldMeansEmpty, HoldNeverWraps
  <2>5. HostOwnedIdle'
    BY <2>2, <2>3 DEF HostOwnedIdle
  <2>6. auto_swap' = auto_swap /\ (NoneMidSwap => TierPending')
    BY <2>3 DEF TierPending, HleFrameEnd
  <2> QED
    BY <1>4, <2>1, <2>2, <2>3, <2>4, <2>5, <2>6 DEF HleTypeOK
<1>8. CASE auto_swap /\ SwapWatching
  <2>1. Waited.frames \in Nat /\ Waited.gap \in 0 .. WaitGap
    BY HleAssumption DEF Waited, HleTypeOK
  <2>2. CASE /\ Waited.frames < WaitPolls
             /\ poll_frames' = Waited.frames
             /\ gap' = Waited.gap
             /\ UNCHANGED <<action, hold, target, armed, rounds, host_owned>>
             /\ UNCHANGED mediaVars
    <3>1. poll_frames' \in 0 .. WaitPolls /\ gap' \in 0 .. WaitGap
      BY <2>1, <2>2, HleAssumption
    <3>2. /\ MediaTypeOK' /\ HoldMeansEmpty' /\ HostOwnedIdle' /\ HoldNeverWraps'
          /\ NoneMidSwap => TierPending'
      BY <2>2, <1>8 DEF mediaVars, MediaTypeOK, HoldMeansEmpty, HostOwnedIdle,
                        HoldNeverWraps, TierPending, HleFrameEnd
    <3>3. action = "none" /\ auto_swap /\ auto_swap' = auto_swap
      BY <1>8 DEF SwapWatching, HleFrameEnd
    <3> QED
      BY <1>4, <2>2, <3>1, <3>2, <3>3 DEF HleTypeOK
  <2>3. CASE /\ Waited.frames >= WaitPolls
             /\ target' = IF rounds # 0 THEN (side + 1) % SideCount ELSE side
             /\ hold' = WaitHold
             /\ armed' = FALSE
             /\ poll_frames' = 0
             /\ gap' = 0
             /\ rounds' = IF rounds < MaxRounds THEN rounds + 1 ELSE rounds
             /\ action' = "hold"
             /\ DriveEject("tier")
             /\ UNCHANGED host_owned
    <3>1. side \in Sides
      BY <1>8 DEF SwapWatching, MediaTypeOK
    <3>2. target' \in Sides
      BY <2>3, <3>1, NextSide
    <3>3. rounds' \in 0 .. MaxRounds
      BY <2>3, HleAssumption DEF HleTypeOK
    <3>4. hold' \in 1 .. 255 /\ poll_frames' \in 0 .. WaitPolls /\ gap' \in 0 .. WaitGap
      BY <2>3, HleAssumption
    <3>5. ~host_owned /\ host_owned' \in BOOLEAN /\ host_owned' = host_owned
      BY <1>8, <2>3 DEF SwapWatching, HostOwnedIdle, HleTypeOK
    <3>6. MediaTypeOK' /\ HoldMeansEmpty' /\ HoldNeverWraps'
      BY <2>3, <3>4 DEF DriveEject, MediaTypeOK, HoldMeansEmpty, HoldNeverWraps
    <3>7. HostOwnedIdle'
      BY <3>5 DEF HostOwnedIdle
    <3>8. TierPending' /\ auto_swap /\ auto_swap' = auto_swap
      BY <1>8, <2>3 DEF TierPending, HleFrameEnd
    <3>9. action' \in {"none", "hold"} /\ armed' \in BOOLEAN
      BY <2>3
    <3>10. hold' \in 0 .. 255
      BY <3>4
    <3> QED
      BY <1>4, <3>2, <3>3, <3>4, <3>5, <3>6, <3>7, <3>8, <3>9, <3>10
  <2> QED
    BY <1>8, <2>2, <2>3 DEF SwapWatching
<1> QED
  BY <1>3, <1>5, <1>6, <1>7, <1>8 DEF HleFrameEnd, SwapFrame

-----------------------------------------------------------------------------
(* The power-on state, with the plan on or off and any disk in, satisfies the  *)
(* invariant.                                                                 *)
THEOREM InitInv == Init => IInv
<1> SUFFICES ASSUME Init PROVE IInv
  OBVIOUS
<1> USE DEF Init, MediaInit, HleInit, DiskInit
<1>1. 0 \in Sides /\ 0 \in 0 .. MaxRounds /\ 0 \in 0 .. WaitPolls /\ 0 \in 0 .. WaitGap
      /\ 0 \in 0 .. AnchorPending
  BY SideCountAssumption, HleAssumption DEF Sides
<1>2. MediaTypeOK
  BY <1>1 DEF MediaTypeOK
<1>3. HleTypeOK
  <2>1. hold \in 0 .. 255 /\ target \in Sides /\ rounds \in 0 .. MaxRounds
        /\ poll_frames \in 0 .. WaitPolls /\ gap \in 0 .. WaitGap
        /\ anchor_pending \in 0 .. AnchorPending
    BY <1>1
  <2> QED
    BY <2>1 DEF HleTypeOK
<1>4. DiskTypeOK
  BY <1>1 DEF DiskTypeOK, MediaTypeOK
<1>5. TypeOK
  BY <1>2, <1>3, <1>4 DEF TypeOK
<1> QED
  BY <1>5 DEF IInv, NoEjectAtRest, HoldMeansEmpty, HostOwnedIdle, HoldNeverWraps,
              EjectNeedsPlan, PendingHasGoal, SwapNeverStrands, TierPending

-----------------------------------------------------------------------------
(* Every step preserves the invariant, one case per action. *)
THEOREM StepInv == IInv /\ [Next]_vars => IInv'
<1> SUFFICES ASSUME TierPart, PlayerPart, NoEjectAtRest, phase \in {"host", "run"},
                    [Next]_vars
             PROVE  TierPart' /\ PlayerPart' /\ NoEjectAtRest' /\ phase' \in {"host", "run"}
  <2>1. IInv' <=> (TierPart /\ PlayerPart /\ NoEjectAtRest /\ phase \in {"host", "run"})'
    BY Parts, PTL
  <2> QED
    BY <2>1, Parts
<1> USE DEF NoEjectAtRest
(* Who leaves the Disk action alone, and who leaves the phase alone. *)
<1>1. ASSUME UNCHANGED diskVars, side' # NoSide \/ emptied_by' # "swap" \/ UNCHANGED mediaVars
      PROVE  PlayerPart'
  BY <1>1 DEF PlayerPart, DiskTypeOK, PendingHasGoal, SwapNeverStrands, diskVars, mediaVars
<1>2. CASE PlayerPress
  BY <1>2, Presses DEF PlayerPress
<1>3. CASE PlayerToastTimeout
  BY <1>3, PlayerUntouched DEF PlayerToastTimeout, ToastTimeout, PlayerPart, DiskTypeOK
<1>4. ASSUME NEW s \in Sides, PlayerChoose(s)
      PROVE  TierPart' /\ PlayerPart' /\ NoEjectAtRest' /\ phase' \in {"host", "run"}
  BY <1>4, Chooses DEF PlayerChoose
(* The direct calls drop the flip first. *)
<1>5. ASSUME Cancel, side' # NoSide \/ emptied_by' # "swap" PROVE PlayerPart'
  BY <1>5 DEF Cancel, PlayerPart, DiskTypeOK, PendingHasGoal, SwapNeverStrands
<1>6. CASE HostDiskEject
  <2>1. CASE HostEject("host")
    BY <1>5, <1>6, <2>1, HostEjects DEF HostDiskEject
  <2>2. CASE side = NoSide /\ UNCHANGED <<side, motor, run>> /\ UNCHANGED hleVars
             /\ emptied_by' = IF emptied_by = "swap" THEN "host" ELSE emptied_by
    <3>1. TierPart' /\ action' = action
      BY <2>2 DEF TierPart, MediaTypeOK, HleTypeOK, HoldMeansEmpty, HostOwnedIdle,
                  HoldNeverWraps, EjectNeedsPlan, TierPending, hleVars
    <3> QED
      BY <1>5, <1>6, <2>2, <3>1 DEF HostDiskEject
  <2> QED
    BY <1>6, <2>1, <2>2 DEF HostDiskEject
<1>7. ASSUME NEW s \in Sides, HostDiskInsert(s)
      PROVE  TierPart' /\ PlayerPart' /\ NoEjectAtRest' /\ phase' \in {"host", "run"}
  <2>1. CASE HostInsert(s)
    BY <1>5, <1>7, <2>1, HostInserts, NoSideIsNone DEF HostDiskInsert
  <2>2. CASE side # NoSide /\ UNCHANGED mediaVars /\ UNCHANGED hleVars
    BY <1>5, <1>7, <2>2, TierUntouched DEF HostDiskInsert, mediaVars
  <2> QED
    BY <1>7, <2>1, <2>2 DEF HostDiskInsert
<1>8. CASE ScriptEject
  BY <1>1, <1>8, HostEjects DEF ScriptEject
<1>9. ASSUME NEW s \in Sides, ScriptInsert(s)
      PROVE  TierPart' /\ PlayerPart' /\ NoEjectAtRest' /\ phase' \in {"host", "run"}
  BY <1>1, <1>9, HostInserts, NoSideIsNone DEF ScriptInsert
<1>10. ASSUME NEW on \in BOOLEAN, TogglePlan(on)
       PROVE  TierPart' /\ PlayerPart' /\ NoEjectAtRest' /\ phase' \in {"host", "run"}
  <2>1. TierPart' /\ action' \in {action, "none"}
    BY <1>10, Configures DEF TogglePlan
  <2>2. target \in Sides
    BY DEF TierPart, HleTypeOK
  <2>3. side' # NoSide \/ UNCHANGED mediaVars
    BY <1>10, <2>2, NoSideIsNone DEF TogglePlan, Configure, DriveInsert
  <2> QED
    BY <1>1, <1>10, <2>1, <2>3 DEF TogglePlan
<1>11. ASSUME NEW m \in SavedStates, LoadState(m)
       PROVE  TierPart' /\ PlayerPart' /\ NoEjectAtRest' /\ phase' \in {"host", "run"}
  <2>1. AtRest(m) /\ m.back \in Int
    BY SwapAssumption DEF AtRest
  <2>2. MediaTypeOK'
    BY <1>11, <2>1 DEF LoadState, AtRest, MediaTypeOK
  <2>3. HleTypeOK'
    BY <1>11, <2>1 DEF LoadState, AtRest, HleTypeOK, TierPart
  <2>4. HoldMeansEmpty' /\ HostOwnedIdle' /\ EjectNeedsPlan' /\ action' # "eject"
    BY <1>11, <2>1 DEF LoadState, AtRest, HoldMeansEmpty, HostOwnedIdle, EjectNeedsPlan
  <2>5. HoldNeverWraps'
    <3>1. m.action # "none" => m.hold \in 0 .. 255 /\ m.hold # 0
      BY <2>1 DEF AtRest
    <3>2. m.action # "none" => m.hold \in 1 .. 255
      BY <3>1
    <3> QED
      BY <1>11, <3>2 DEF LoadState, HoldNeverWraps
  <2>6. NoneMidSwap => TierPending'
    BY <1>11 DEF LoadState, NoneMidSwap, TierPending
  <2>7. TierPart'
    BY <2>2, <2>3, <2>4, <2>5, <2>6 DEF TierPart
  <2>8. wait' \in Nat
    BY <1>11, <2>1 DEF LoadState, PlayerPart, DiskTypeOK
  <2>9. PlayerPart'
    BY <1>11, <2>8 DEF LoadState, NoneMidFlip, PlayerPart, DiskTypeOK, PendingHasGoal,
                       SwapNeverStrands
  <2> QED
    BY <1>11, <2>4, <2>7, <2>9 DEF LoadState
<1>12. CASE FrameStart
  BY <1>12, DiskFrames DEF FrameStart
(* The program runs within a frame and leaves the Disk action alone. *)
<1>13. ASSUME InFrame, TierPart', UNCHANGED <<side, emptied_by>>
       PROVE  TierPart' /\ PlayerPart' /\ NoEjectAtRest' /\ phase' \in {"host", "run"}
  BY <1>13 DEF InFrame, PlayerPart, DiskTypeOK, PendingHasGoal, SwapNeverStrands, diskVars
<1>14. CASE ProgramData
  BY <1>13, <1>14, Reports
     DEF ProgramData, InFrame, ReportData, TierPart, HleTypeOK, mediaVars
<1>15. CASE ProgramPoll
  BY <1>13, <1>15, Reports
     DEF ProgramPoll, InFrame, ReportStatusRead, TierPart, HleTypeOK, mediaVars
<1>16. CASE ProgramRewind
  <2>1. 0 \in 0 .. AnchorPending
    BY HleAssumption
  <2> QED
    BY <1>13, <1>16, <2>1, Reports
       DEF ProgramRewind, InFrame, ReportRewind, TierPart, HleTypeOK, mediaVars
<1>17. ASSUME NEW t \in BOOLEAN, ProgramReady(t)
       PROVE  TierPart' /\ PlayerPart' /\ NoEjectAtRest' /\ phase' \in {"host", "run"}
  <2>1. HleTypeOK
    BY DEF TierPart
  <2>2. spinning' \in BOOLEAN /\ access' \in BOOLEAN
    BY <1>17, <2>1 DEF ProgramReady, ReportReady, HleTypeOK
  <2>3. UNCHANGED <<auto_swap, anchor, polls, anchor_pending, loading>>
        /\ UNCHANGED swapVars /\ UNCHANGED mediaVars /\ InFrame
    BY <1>17 DEF ProgramReady, ReportReady
  <2>4. TierPart'
    BY <2>1, <2>2, <2>3, Reports DEF HleTypeOK
  <2> QED
    BY <1>13, <2>3, <2>4 DEF mediaVars
<1>18. ASSUME NEW mask \in Masks, ProgramRequest(mask)
       PROVE  TierPart' /\ PlayerPart' /\ NoEjectAtRest' /\ phase' \in {"host", "run"}
  <2>1. mask \in SUBSET Sides
    BY SwapAssumption
  <2>2. TierPart'
    BY <1>18, <2>1, Requests DEF ProgramRequest
  <2> QED
    BY <1>13, <1>18, <2>2 DEF ProgramRequest, mediaVars
<1>19. CASE ProgramMotor
  <2>1. TierPart'
    <3>1. UNCHANGED <<side, emptied_by>> /\ UNCHANGED hleVars
          /\ motor' \in BOOLEAN /\ run' \in BOOLEAN
      BY <1>19 DEF ProgramMotor, TurnMotor
    <3> QED
      BY <3>1 DEF TierPart, MediaTypeOK, HleTypeOK, HoldMeansEmpty, HostOwnedIdle,
                  HoldNeverWraps, EjectNeedsPlan, TierPending, hleVars
  <2> QED
    BY <1>13, <1>19, <2>1 DEF ProgramMotor, TurnMotor
<1>20. CASE ProgramWrite
  <2>1. TierPart'
    <3>1. UNCHANGED <<auto_swap, action, hold, target, armed, rounds, host_owned>>
          /\ UNCHANGED <<side, motor, emptied_by>> /\ run' \in BOOLEAN
      BY <1>20 DEF ProgramWrite, WriteRun, ReportData, swapVars, hleVars
    <3>2. /\ UNCHANGED <<poll_frames, gap, anchor, polls, spinning, anchor_pending, loading>>
          /\ access' = TRUE \/ access' = access
      BY <1>20 DEF ProgramWrite, WriteRun, ReportData, swapVars, hleVars
    <3>3. HleTypeOK'
      BY <3>1, <3>2 DEF TierPart, HleTypeOK
    <3> QED
      BY <3>1, <3>3 DEF TierPart, MediaTypeOK, HoldMeansEmpty, HostOwnedIdle,
                        HoldNeverWraps, EjectNeedsPlan, TierPending
  <2> QED
    BY <1>13, <1>20, <2>1 DEF ProgramWrite, WriteRun
<1>21. CASE FrameEnd
  <2>1. TierPart' /\ action' # "eject"
    BY <1>21, FrameEnds DEF FrameEnd
  <2>2. wait' \in Nat
    BY <1>21 DEF FrameEnd, PlayerPart, DiskTypeOK
  <2>3. side' # NoSide \/ emptied_by' # "swap" \/ UNCHANGED mediaVars
    BY <1>21, NoSideIsNone
       DEF FrameEnd, HleFrameEnd, SwapFrame, SwapEject, SwapHolding, SwapAccess,
           SwapIdle, SwapWatching, DriveEject, DriveInsert
  <2>4. PlayerPart'
    BY <1>21, <2>2, <2>3
       DEF FrameEnd, PlayerPart, DiskTypeOK, PendingHasGoal, SwapNeverStrands, mediaVars
  <2> QED
    BY <1>21, <2>1, <2>4 DEF FrameEnd
<1>22. CASE UNCHANGED vars
  BY <1>1, <1>22, TierUntouched DEF vars
<1> QED
  BY <1>2, <1>3, <1>4, <1>6, <1>7, <1>8, <1>9, <1>10, <1>11, <1>12, <1>14, <1>15, <1>16,
     <1>17, <1>18, <1>19, <1>20, <1>21, <1>22
     DEF Next, Host, Program

-----------------------------------------------------------------------------
(* The invariant holds in every reachable state. *)
THEOREM Invariant == Spec => []IInv
  BY InitInv, StepInv, PTL DEF Spec

(* Every variable keeps its type, whoever acts and whatever is loaded. *)
THEOREM TypeCorrect == Spec => []TypeOK
<1>1. IInv => TypeOK
  BY DEF IInv
<1> QED
  BY <1>1, Invariant, PTL

(* No frame ends with the tier about to eject, and while it holds the drive   *)
(* empty nobody has put a disk in; a drive the host took over finds the tier  *)
(* at rest, and the uint8_t hold never passes through 0.                      *)
THEOREM TierSafe ==
  Spec => [](NoEjectAtRest /\ HoldMeansEmpty /\ HostOwnedIdle /\ HoldNeverWraps)
<1>1. IInv => NoEjectAtRest /\ HoldMeansEmpty /\ HostOwnedIdle /\ HoldNeverWraps
  BY DEF IInv
<1> QED
  BY <1>1, Invariant, PTL

(* Unless a save state taken in mid-swap is loaded, a drive the tier emptied  *)
(* is being held for a side that will go in, with the plan on.                *)
THEOREM NeverStrandedByTier == NoneMidSwap /\ Spec => []TierNeverStrands
<1>1. NoneMidSwap /\ IInv => TierNeverStrands
  <2>1. TypeOK /\ NoEjectAtRest /\ TierPending => TierNeverStrands
    BY DEF TypeOK, HleTypeOK, NoEjectAtRest, TierPending, TierNeverStrands
  <2> QED
    BY <2>1 DEF IInv
<1> SUFFICES ASSUME NoneMidSwap PROVE Spec => []TierNeverStrands
  OBVIOUS
<1>2. IInv => TierNeverStrands
  BY <1>1
<1> QED
  BY <1>2, Invariant, PTL

(* Unless a save state taken in mid-flip is loaded, a drive the Disk action   *)
(* emptied has a side on its way in.                                          *)
THEOREM NeverStrandedByFlip == NoneMidFlip /\ Spec => []SwapNeverStrands
<1> SUFFICES ASSUME NoneMidFlip PROVE Spec => []SwapNeverStrands
  OBVIOUS
<1>1. IInv => SwapNeverStrands
  BY DEF IInv
<1> QED
  BY <1>1, Invariant, PTL

(* No press, menu choice or frame hook of the Disk action takes out a disk    *)
(* the drive is writing, whatever else shares the drive.                      *)
THEOREM WritesComplete == Spec => WriteNeverCut
<1>1. ASSUME Writing, PlayerPress \/ FrameStart \/ \E s \in Sides : PlayerChoose(s)
      PROVE  side' = side
  <2>1. side # NoSide
    BY <1>1 DEF Writing
  <2>2. CASE PlayerPress
    BY <1>1, <2>1, <2>2 DEF PlayerPress, Press, Retarget, StartSwap, mediaVars
  <2>3. ASSUME NEW s \in Sides, PlayerChoose(s) PROVE side' = side
    BY <1>1, <2>1, <2>3 DEF PlayerChoose, Choose, Retarget, StartSwap, mediaVars
  <2>4. CASE FrameStart
    BY <1>1, <2>1, <2>4
       DEF FrameStart, DiskActionFrame, FramePulledAlready, FrameWriteEnded,
           FrameStillWriting, FrameIdle, FrameInsert, mediaVars
  <2> QED
    BY <1>1, <2>2, <2>3, <2>4
<1>2. [Writing /\ (PlayerPress \/ FrameStart \/ \E s \in Sides : PlayerChoose(s))
         => side' = side]_vars
  BY <1>1
<1> QED
  BY <1>2, PTL DEF WriteNeverCut

-----------------------------------------------------------------------------
(* Why swaps and flips end. *)

(* What a frame's hook leaves of a flip has frames to wait, and neither the   *)
(* program nor the tier changes that before the frame's end.                  *)
LEMMA StepWaits == IInv /\ FlipWaits /\ [Next]_vars => FlipWaits'
<1> SUFFICES ASSUME IInv, FlipWaits, [Next]_vars PROVE FlipWaits'
  OBVIOUS
<1>1. DiskHold \in Nat \ {0} /\ wait \in Nat /\ phase \in {"host", "run"}
  BY DiskHoldAssumption DEF IInv, TypeOK, DiskTypeOK
<1>2. CASE Host
  <2>1. phase = "host" /\ phase' = phase
    BY <1>2 DEF Host, PlayerPress, PlayerToastTimeout, HostDiskEject, ScriptEject, PlayerChoose,
                HostDiskInsert, ScriptInsert, TogglePlan, LoadState
  <2> QED
    BY <2>1 DEF FlipWaits
<1>3. CASE FrameStart
  BY <1>1, <1>3 DEF FrameStart, DiskActionFrame, FramePulledAlready, FrameWriteEnded,
                    FrameStillWriting, FrameIdle, FrameInsert, diskVars, FlipWaits
<1>4. CASE Program \/ UNCHANGED vars
  <2>1. UNCHANGED <<phase, diskVars>>
    BY <1>4 DEF Program, ProgramData, ProgramPoll, ProgramMotor, ProgramRewind, ProgramWrite,
                ProgramReady, ProgramRequest, InFrame, vars
  <2> QED
    BY <2>1 DEF FlipWaits, diskVars
<1>5. CASE FrameEnd
  BY <1>5 DEF FrameEnd, FlipWaits
<1> QED
  BY <1>2, <1>3, <1>4, <1>5 DEF Next

(* A flip ends in a bounded number of frames once the host's own moves and    *)
(* the write it waits for are over: its wait only goes down, and a frame does *)
(* not start with the wait over and the flip still on.                        *)
THEOREM FlipEnds == Spec => FlipRunsDown
<1> DEFINE Down ==
      \/ Host
      \/ goal' = NoSide
      \/ /\ goal' = goal
         /\ \/ eject_pending /\ eject_pending' /\ (FrameStart => Writing)
            \/ eject_pending /\ ~eject_pending' /\ wait' = DiskHold
            \/ /\ ~eject_pending /\ ~eject_pending'
               /\ FrameStart => wait > 0
               /\ wait' = IF FrameEnd THEN wait - 1 ELSE wait
<1>1. Init => FlipWaits
  BY DEF Init, FlipWaits
<1>2. IInv /\ FlipWaits /\ [Next]_vars => FlipWaits'
  BY StepWaits
<1>3. ASSUME IInv, FlipWaits, Next, goal # NoSide PROVE Down
  <2>1. DiskHold \in Nat \ {0} /\ wait \in Nat /\ eject_pending \in BOOLEAN
    BY <1>3, DiskHoldAssumption DEF IInv, TypeOK, DiskTypeOK
  <2>2. CASE FrameStart
    <3>1. ~FrameEnd
      BY <2>2 DEF FrameStart, FrameEnd
    <3>2. \/ FramePulledAlready \/ FrameWriteEnded
          \/ FrameStillWriting \/ FrameIdle \/ FrameInsert
      BY <2>2 DEF FrameStart, DiskActionFrame
    <3>3. CASE FramePulledAlready \/ FrameWriteEnded
      BY <3>3 DEF FramePulledAlready, FrameWriteEnded
    <3>4. CASE FrameStillWriting
      BY <3>4 DEF FrameStillWriting, diskVars
    <3>5. CASE FrameIdle
      BY <1>3, <2>2, <3>1, <3>5 DEF FrameIdle
    <3>6. CASE FrameInsert
      BY <3>6 DEF FrameInsert
    <3> QED
      BY <3>2, <3>3, <3>4, <3>5, <3>6
  <2>3. CASE Program
    <3>1. UNCHANGED <<goal, eject_pending, wait>> /\ phase = "run" /\ phase' = "run"
      BY <2>3 DEF Program, ProgramData, ProgramPoll, ProgramMotor, ProgramRewind, ProgramWrite,
                  ProgramReady, ProgramRequest, InFrame, diskVars
    <3>2. ~FrameStart /\ ~FrameEnd
      BY <3>1 DEF FrameStart, FrameEnd
    <3> QED
      BY <2>1, <3>1, <3>2
  <2>4. CASE FrameEnd
    <3>1. phase = "run" /\ UNCHANGED <<goal, eject_pending>> /\ ~FrameStart
      BY <2>4 DEF FrameEnd, FrameStart
    <3>2. CASE eject_pending
      BY <3>1, <3>2
    <3>3. CASE ~eject_pending
      <4>1. wait > 0
        BY <1>3, <3>1, <3>3 DEF FlipWaits
      <4>2. wait' = wait - 1
        BY <2>4, <4>1 DEF FrameEnd
      <4> QED
        BY <2>4, <3>1, <3>3, <4>2
    <3> QED
      BY <3>2, <3>3
  <2> QED
    BY <1>3, <2>2, <2>3, <2>4 DEF Next
<1>4. IInv /\ FlipWaits /\ [Next]_vars => [goal # NoSide => Down]_vars
  BY <1>3
<1> QED
  BY <1>1, <1>2, <1>4, Invariant, PTL DEF Spec, FlipRunsDown

(* A hold of the tier ends in at most 255 frames unless the program asks for  *)
(* a disk again or a state is loaded: nothing else lengthens it.              *)
THEOREM HoldEnds == Spec => HoldRunsDown
<1> DEFINE Down ==
      \/ action' = "none"
      \/ \E mask \in Masks : ProgramRequest(mask)
      \/ \E m \in SavedStates : LoadState(m)
      \/ /\ action' = "hold" /\ auto_swap'
         /\ hold' = IF FrameEnd THEN hold - 1 ELSE hold
<1>1. ASSUME IInv, Next, action = "hold", auto_swap PROVE Down
  <2>1. hold \in 1 .. 255 /\ auto_swap = TRUE
    BY <1>1 DEF IInv, HoldNeverWraps, TypeOK, HleTypeOK
  <2>2. CASE FrameEnd
    <3>1. SwapHolding /\ UNCHANGED auto_swap
      BY <1>1, <2>2 DEF FrameEnd, HleFrameEnd, SwapFrame, SwapEject, SwapAccess, SwapIdle,
                        SwapWatching
    <3>2. hold' = hold - 1 /\ (action' = "none" \/ action' = action)
      BY <2>1, <3>1, HoldDown DEF SwapHolding
    <3> QED
      BY <1>1, <2>2, <3>1, <3>2
  <2>3. CASE Program /\ ~\E mask \in Masks : ProgramRequest(mask)
    <3>1. UNCHANGED <<action, auto_swap, hold>> /\ phase' = "run"
      BY <2>3 DEF Program, ProgramData, ProgramPoll, ProgramMotor, ProgramRewind, ProgramWrite,
                  ProgramReady, ReportData, ReportStatusRead, ReportRewind, ReportReady, InFrame,
                  hleVars, swapVars
    <3>2. ~FrameEnd
      BY <3>1 DEF FrameEnd
    <3> QED
      BY <1>1, <3>1, <3>2
  <2>4. CASE (Host \/ FrameStart) /\ ~\E m \in SavedStates : LoadState(m)
    <3>1. ~FrameEnd
      BY <2>4 DEF FrameEnd, Host, FrameStart, PlayerPress, PlayerToastTimeout, HostDiskEject,
                  ScriptEject, PlayerChoose, HostDiskInsert, ScriptInsert, TogglePlan
    <3>2. action' = "none" \/ UNCHANGED <<action, auto_swap, hold>>
      <4>1. CASE PlayerPress
        BY <4>1 DEF PlayerPress, Press, Retarget, StartSwap, HostEject, HostDiskChange, hleVars
      <4>2. ASSUME NEW s \in Sides, PlayerChoose(s) \/ HostDiskInsert(s) \/ ScriptInsert(s)
            PROVE  action' = "none" \/ UNCHANGED <<action, auto_swap, hold>>
        BY <4>2 DEF PlayerChoose, Choose, Retarget, StartSwap, HostEject, HostInsert,
                    HostDiskChange, HostDiskInsert, ScriptInsert, hleVars
      <4>3. CASE PlayerToastTimeout \/ HostDiskEject \/ ScriptEject
        BY <4>3 DEF PlayerToastTimeout, ToastTimeout, HostDiskEject, ScriptEject, HostEject,
                    HostDiskChange, hleVars
      <4>4. ASSUME NEW on \in BOOLEAN, TogglePlan(on)
            PROVE  action' = "none" \/ UNCHANGED <<action, auto_swap, hold>>
        BY <2>1, <4>4 DEF TogglePlan, Configure
      <4>5. CASE FrameStart
        BY <4>5 DEF FrameStart, DiskActionFrame, FramePulledAlready, FrameWriteEnded,
                    FrameStillWriting, FrameIdle, FrameInsert, HostEject, HostInsert,
                    HostDiskChange, hleVars
      <4> QED
        BY <2>4, <4>1, <4>2, <4>3, <4>4, <4>5 DEF Host
    <3> QED
      BY <1>1, <3>1, <3>2
  <2> QED
    BY <1>1, <2>2, <2>3, <2>4 DEF Next
<1>2. IInv /\ [Next]_vars => [action = "hold" /\ auto_swap => Down]_vars
  BY <1>1
<1> QED
  BY <1>2, Invariant, PTL DEF Spec, HoldRunsDown
=============================================================================
