------------------------------ MODULE FdsMedia ------------------------------
(***************************************************************************)
(* The disk drive as everything above the RAM Adapter sees it: which side  *)
(* is in, whether its motor is on and whether a write run is storing bytes *)
(* (runner/cyc/hw_fds.c, "Media").  Three parties change the side through  *)
(* the two operations here: the host, the player's Disk action (through    *)
(* the host's calls) and the HLE tier's auto swap.                         *)
(***************************************************************************)
EXTENDS Integers, FiniteSets

CONSTANT SideCount        (* sides of the disk image *)

ASSUME SideCountAssumption == SideCount \in Nat \ {0}

Sides == 0 .. SideCount - 1
NoSide == -1

VARIABLES
  side,      (* the side in the drive, or NoSide *)
  motor,     (* $4025.0: an eject leaves it as it was *)
  run,       (* a write run has stored bytes and has not been ended *)
  emptied_by (* history: who took the last side out ("tier", "swap", "host") *)

mediaVars == <<side, motor, run, emptied_by>>

(* cyc_fds_motor_on(), cyc_fds_writing(): the host's view of the drive. *)
MotorOn == side # NoSide /\ motor
Writing == side # NoSide /\ motor /\ run

(* Taking the side out ends its write run. *)
DriveEject(source) ==
  /\ side # NoSide
  /\ side' = NoSide
  /\ run' = FALSE
  /\ emptied_by' = source
  /\ UNCHANGED motor

(* A side goes in only when the drive is empty. *)
DriveInsert(s) ==
  /\ side = NoSide
  /\ s \in Sides
  /\ side' = s
  /\ UNCHANGED <<motor, run, emptied_by>>

(* $4025 turns the motor on or off, or the drive stops it at the end of the   *)
(* side; either ends the write run.                                           *)
TurnMotor ==
  /\ motor' = ~motor
  /\ run' = FALSE
  /\ UNCHANGED <<side, emptied_by>>

(* A byte clocked in write mode starts a run, one clocked in read mode ends it. *)
WriteRun(on) ==
  /\ MotorOn
  /\ run' = on
  /\ UNCHANGED <<side, motor, emptied_by>>

MediaInit ==
  /\ side \in Sides \union {NoSide}
  /\ motor = FALSE
  /\ run = FALSE
  /\ emptied_by = "host"

(* All that can happen to the media; FdsDrive shows that the drive's clock    *)
(* and registers do nothing else to it.                                       *)
MediaNext ==
  \/ \E source \in {"tier", "swap", "host"} : DriveEject(source)
  \/ \E s \in Sides : DriveInsert(s)
  \/ TurnMotor
  \/ \E on \in BOOLEAN : WriteRun(on)

MediaSpec == MediaInit /\ [][MediaNext]_mediaVars

MediaTypeOK ==
  /\ side \in Sides \union {NoSide}
  /\ motor \in BOOLEAN
  /\ run \in BOOLEAN
  /\ emptied_by \in {"tier", "swap", "host"}
=============================================================================
