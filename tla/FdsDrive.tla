------------------------------ MODULE FdsDrive ------------------------------
(***************************************************************************)
(* The RAM Adapter and its drive, one CPU cycle at a time                  *)
(* (runner/cyc/hw_fds.c): the machine clocks the drive, then makes one bus *)
(* access, which may be to a register of the adapter.  A host's or the     *)
(* tier's eject or insert falls between any two of these.                  *)
(*                                                                         *)
(* Left out: the CRC register and the flag it sets (a CRC byte written is  *)
(* any byte), the sound unit, $4026/$4033, mirroring, the events pushed to *)
(* the ring and what the HLE tier is told, except the spin-up.             *)
(***************************************************************************)
EXTENDS Integers

CONSTANTS
  SideCount,     (* sides of the disk image                                     *)
  Length,        (* the length of each side's stream                            *)
  Bytes,         (* what a stream holds; 0 is a gap                             *)
  Image,         (* the streams the loader built                                *)
  Reloads,       (* values the program writes: $4020 and $4021 (the timer's     *)
  TimerControls, (* reload), $4022 (<<repeat, enable>>), $4023.0, $4024 (data)  *)
  Enables,       (* and $4025 (<<motor, the other bits>>)                       *)
  Data,
  Controls,
  DiskChanges,   (* the host or the tier changes the disk                       *)
  ByteDelay,     (* clocks between two bytes (149)                              *)
  SpinUp,        (* clocks before the first byte (50000)                        *)
  EndIrq,        (* the profile raises the disk IRQ at the end of a side        *)
  WriteBehind,   (* how far behind the head a byte lands (0; Mesen's option: 2) *)
  WriteProtect,  (* the disk's tab is broken                                    *)
  HeadEnd        (* bound: past every side's end the head counts no further     *)

Sides == 0 .. SideCount - 1
NoSide == -1
Stream(s) == [0 .. Length[s] - 1 -> Bytes]

(* $4025 without the motor bit, which the drive also turns off itself.        *)
ControlBits ==
  [reset : BOOLEAN, read : BOOLEAN, crc_control : BOOLEAN, crc_enable : BOOLEAN, irq : BOOLEAN]

ASSUME DriveAssumption ==
  /\ SideCount \in Nat \ {0}
  /\ Length \in [Sides -> Nat \ {0}]
  /\ 0 \in Bytes /\ Data \subseteq Bytes
  /\ DOMAIN Image = Sides /\ \A s \in Sides : Image[s] \in Stream(s)
  /\ Reloads \subseteq Nat
  /\ TimerControls \subseteq BOOLEAN \X BOOLEAN
  /\ Enables \subseteq BOOLEAN
  /\ Controls \subseteq BOOLEAN \X ControlBits
  /\ DiskChanges \in BOOLEAN
  /\ ByteDelay \in Nat /\ SpinUp \in Nat
  /\ EndIrq \in BOOLEAN /\ WriteProtect \in BOOLEAN
  /\ WriteBehind \in {0, 2}
  /\ HeadEnd \in Nat /\ \A s \in Sides : Length[s] + WriteBehind <= HeadEnd

VARIABLES
  clocked,     (* this CPU cycle's clock has run, its bus access has not        *)
  irq_reload, irq_counter, irq_enabled, irq_repeat, timer_irq,   (* the timer   *)
  disk_regs,   (* $4023.0: the disk registers answer                            *)
  motor,       (* $4025.0                                                       *)
  ctrl,        (* the other bits of $4025                                       *)
  end_of_head, (* the next clock with the motor on rewinds                      *)
  scanning,    (* the head reads or writes                                      *)
  at_end,      (* it stopped at the end of the side                             *)
  position,    (* the next byte under the head                                  *)
  delay,       (* clocks until it                                               *)
  gap_ended,   (* the gap's end mark was read                                   *)
  transfer,    (* the program may read a byte, or the drive took one            *)
  disk_irq,
  write_data,  (* $4024                                                         *)
  read_data,   (* $4031                                                         *)
  side,        (* in the drive, or NoSide                                       *)
  disk,        (* the streams now                                               *)
  run,         (* the write run in progress                                     *)
  spinning,    (* as the HLE tier is told: rewound and not ready yet            *)
  loaded,      (* history: the timer's last reload                              *)
  elapsed      (* history: clocks since then                                    *)

timerVars == <<irq_reload, irq_counter, irq_enabled, irq_repeat, timer_irq, loaded, elapsed>>
headVars == <<end_of_head, at_end, position, delay, gap_ended>>
dataVars == <<transfer, disk_irq, read_data>>
diskVars == <<side, disk, run>>
hleVars == <<spinning>>
vars == <<clocked, timerVars, disk_regs, motor, ctrl, headVars, scanning, dataVars,
          write_data, diskVars, hleVars>>

NoRun == [active |-> FALSE, side |-> NoSide, start |-> 0, bytes |-> 0]

-----------------------------------------------------------------------------
(* The clock: first the timer.  It fires on the clock after it reached 0, and *)
(* goes on only if it repeats.                                                *)

LoadTimer == irq_counter' = irq_reload /\ loaded' = irq_reload /\ elapsed' = 0

ClockTimer ==
  /\ UNCHANGED <<irq_reload, irq_repeat>>
  /\ \/ /\ ~irq_enabled
        /\ UNCHANGED <<irq_counter, irq_enabled, timer_irq, loaded, elapsed>>
     \/ /\ irq_enabled /\ irq_counter = 0
        /\ timer_irq' = TRUE
        /\ irq_enabled' = irq_repeat
        /\ LoadTimer
     \/ /\ irq_enabled /\ irq_counter # 0
        /\ irq_counter' = irq_counter - 1
        /\ elapsed' = elapsed + 1
        /\ UNCHANGED <<irq_enabled, timer_irq, loaded>>

(* Then one branch of the drive. *)

Turning == side # NoSide /\ motor
Held == ctrl.reset /\ ~scanning

(* Mutant: the stopped drive keeps its write run. *)
DriveStoppedRunning ==
  /\ ~Turning
  /\ end_of_head' = TRUE
  /\ scanning' = FALSE
  /\ UNCHANGED <<motor, at_end, position, delay, gap_ended, dataVars, diskVars, hleVars>>

DriveStopped ==
  /\ ~Turning
  /\ run' = NoRun
  /\ end_of_head' = TRUE
  /\ scanning' = FALSE
  /\ UNCHANGED <<motor, at_end, position, delay, gap_ended, dataVars, side, disk, hleVars>>

DriveHeld ==
  /\ Turning /\ Held
  /\ UNCHANGED <<motor, headVars, scanning, dataVars, diskVars, hleVars>>

Rewind ==
  /\ Turning /\ ~Held /\ end_of_head
  /\ run' = NoRun
  /\ delay' = SpinUp
  /\ end_of_head' = FALSE /\ at_end' = FALSE
  /\ position' = 0
  /\ gap_ended' = FALSE
  /\ spinning' = TRUE
  /\ UNCHANGED <<motor, scanning, dataVars, side, disk>>

BetweenBytes ==
  /\ Turning /\ ~Held /\ ~end_of_head
  /\ delay > 0
  /\ delay' = delay - 1
  /\ UNCHANGED <<motor, end_of_head, at_end, position, gap_ended, scanning, dataVars, diskVars,
                 hleVars>>

(* clock_byte(): the head reads or writes the byte under it and moves on; at  *)
(* the end of the side the write run ends and the motor stops.                *)

UnderHead == IF position < Length[side] THEN disk[side][position] ELSE 0
Ends == position + 1 >= Length[side]
EndRaises == Ends /\ EndIrq /\ ctrl.irq

(* Mutant: a byte read does not end the write run. *)
ReadByteInRun ==
  /\ ctrl.read
  /\ gap_ended' = (ctrl.crc_enable /\ (gap_ended \/ UnderHead # 0))
  /\ transfer' = (transfer \/ gap_ended')
  /\ read_data' = IF gap_ended' THEN UnderHead ELSE read_data
  /\ disk_irq' = (disk_irq \/ (ctrl.irq /\ gap_ended /\ gap_ended') \/ EndRaises)
  /\ UNCHANGED <<disk, run>>

(* The byte that ends a gap is passed on, without an IRQ.                     *)
ReadByte ==
  /\ ctrl.read
  /\ run' = NoRun
  /\ gap_ended' = (ctrl.crc_enable /\ (gap_ended \/ UnderHead # 0))
  /\ transfer' = (transfer \/ gap_ended')
  /\ read_data' = IF gap_ended' THEN UnderHead ELSE read_data
  /\ disk_irq' = (disk_irq \/ (ctrl.irq /\ gap_ended /\ gap_ended') \/ EndRaises)
  /\ UNCHANGED disk

(* What goes to the disk: a CRC byte, the program's byte, or a gap.           *)
Written == IF ctrl.crc_control THEN Bytes ELSE IF ctrl.crc_enable THEN {write_data} ELSE {0}

RunWith(at) ==
  IF run.active THEN [run EXCEPT !.bytes = @ + 1]
  ELSE [active |-> TRUE, side |-> side, start |-> at, bytes |-> 1]

Stores(at) == ~WriteProtect /\ at \in 0 .. Length[side] - 1

WriteByte ==
  /\ ~ctrl.read
  /\ transfer' = (transfer \/ ~ctrl.crc_control)
  /\ disk_irq' = (disk_irq \/ (ctrl.irq /\ ~ctrl.crc_control) \/ EndRaises)
  /\ gap_ended' = FALSE
  /\ LET at == position - WriteBehind IN
       \/ /\ Stores(at)
          /\ \E b \in Written : disk' = [disk EXCEPT ![side][at] = b]
          /\ run' = IF Ends THEN NoRun ELSE RunWith(at)
       \/ /\ ~Stores(at)
          /\ run' = IF Ends THEN NoRun ELSE run
          /\ UNCHANGED disk
  /\ UNCHANGED read_data

ClockByte ==
  /\ Turning /\ ~Held /\ ~end_of_head
  /\ delay = 0
  /\ scanning' = TRUE
  /\ spinning' = (spinning /\ scanning)
  /\ ReadByte \/ WriteByte
  /\ position' = IF position < HeadEnd THEN position + 1 ELSE position
  /\ \/ Ends /\ motor' = FALSE /\ at_end' = TRUE /\ delay' = delay
     \/ ~Ends /\ delay' = ByteDelay /\ UNCHANGED <<motor, at_end>>
  /\ UNCHANGED <<end_of_head, side>>

Clock ==
  /\ ~clocked /\ clocked' = TRUE
  /\ ClockTimer
  /\ DriveStopped \/ DriveHeld \/ Rewind \/ BetweenBytes \/ ClockByte
  /\ UNCHANGED <<disk_regs, ctrl, write_data>>

-----------------------------------------------------------------------------
(* The bus access.  Written or read while $4023.0 is clear, $4024 and up do   *)
(* nothing.                                                                   *)

Access == clocked /\ clocked' = FALSE /\ UNCHANGED <<headVars, scanning, diskVars, spinning>>

AccessElsewhere ==
  /\ Access
  /\ UNCHANGED <<timerVars, disk_regs, motor, ctrl, dataVars, write_data>>

(* Mutant: the running timer takes the new value at once. *)
WriteReloadNow(v) ==
  /\ Access
  /\ irq_reload' = v
  /\ irq_counter' = v
  /\ UNCHANGED <<irq_enabled, irq_repeat, timer_irq, loaded, elapsed>>
  /\ UNCHANGED <<disk_regs, motor, ctrl, dataVars, write_data>>

WriteReload(v) ==
  /\ Access
  /\ irq_reload' = v
  /\ UNCHANGED <<irq_counter, irq_enabled, irq_repeat, timer_irq, loaded, elapsed>>
  /\ UNCHANGED <<disk_regs, motor, ctrl, dataVars, write_data>>

WriteTimerControl(repeat, enable) ==
  /\ Access
  /\ irq_repeat' = repeat
  /\ irq_enabled' = (enable /\ disk_regs)
  /\ \/ irq_enabled' /\ LoadTimer /\ UNCHANGED timer_irq
     \/ ~irq_enabled' /\ timer_irq' = FALSE /\ UNCHANGED <<irq_counter, loaded, elapsed>>
  /\ UNCHANGED <<irq_reload, disk_regs, motor, ctrl, dataVars, write_data>>

WriteEnable(regs) ==
  /\ Access
  /\ disk_regs' = regs
  /\ \/ regs /\ UNCHANGED <<irq_enabled, timer_irq, disk_irq>>
     \/ ~regs /\ irq_enabled' = FALSE /\ timer_irq' = FALSE /\ disk_irq' = FALSE
  /\ UNCHANGED <<irq_reload, irq_counter, irq_repeat, loaded, elapsed>>
  /\ UNCHANGED <<motor, ctrl, transfer, read_data, write_data>>

WriteData(b) ==
  /\ Access /\ disk_regs
  /\ write_data' = b
  /\ transfer' = FALSE /\ disk_irq' = FALSE
  /\ UNCHANGED <<timerVars, disk_regs, motor, ctrl, read_data>>

WriteControl(on, bits) ==
  /\ Access /\ disk_regs
  /\ motor' = on
  /\ ctrl' = bits
  /\ disk_irq' = FALSE
  /\ UNCHANGED <<timerVars, disk_regs, transfer, read_data, write_data>>

(* $4030 acknowledges both IRQs and the byte, $4031 reads the byte.           *)
ReadStatus ==
  /\ Access /\ disk_regs
  /\ transfer' = FALSE /\ disk_irq' = FALSE /\ timer_irq' = FALSE
  /\ UNCHANGED <<irq_reload, irq_counter, irq_enabled, irq_repeat, loaded, elapsed>>
  /\ UNCHANGED <<disk_regs, motor, ctrl, read_data, write_data>>

ReadData ==
  /\ Access /\ disk_regs
  /\ transfer' = FALSE /\ disk_irq' = FALSE
  /\ UNCHANGED <<timerVars, disk_regs, motor, ctrl, read_data, write_data>>

Program ==
  \/ AccessElsewhere
  \/ \E v \in Reloads : WriteReload(v)
  \/ \E t \in TimerControls : WriteTimerControl(t[1], t[2])
  \/ \E regs \in Enables : WriteEnable(regs)
  \/ \E b \in Data : WriteData(b)
  \/ \E c \in Controls : WriteControl(c[1], c[2])
  \/ ReadStatus \/ ReadData

-----------------------------------------------------------------------------
(* The host and the tier. *)

Change ==
  /\ DiskChanges
  /\ UNCHANGED <<clocked, timerVars, disk_regs, motor, ctrl, headVars, scanning, dataVars,
                 write_data, disk, spinning>>

(* Mutant: the disk goes without its write run. *)
EjectInRun == Change /\ side # NoSide /\ side' = NoSide /\ UNCHANGED run

Eject == Change /\ side # NoSide /\ side' = NoSide /\ run' = NoRun

Insert(s) == Change /\ side = NoSide /\ side' = s /\ UNCHANGED run

-----------------------------------------------------------------------------
Init ==
  /\ clocked = FALSE
  /\ irq_reload = 0 /\ irq_counter = 0 /\ irq_enabled = FALSE /\ irq_repeat = FALSE
  /\ timer_irq = FALSE
  /\ disk_regs = TRUE
  /\ motor = FALSE
  /\ ctrl = [reset |-> FALSE, read |-> FALSE, crc_control |-> FALSE, crc_enable |-> FALSE, irq |-> FALSE]
  /\ end_of_head = FALSE /\ scanning = FALSE /\ at_end = FALSE
  /\ position = 0 /\ delay = 0 /\ gap_ended = FALSE
  /\ transfer = FALSE /\ disk_irq = FALSE
  /\ write_data = 0 /\ read_data = 0
  /\ side \in Sides \union {NoSide}
  /\ disk = Image
  /\ run = NoRun
  /\ spinning = FALSE
  /\ loaded = 0 /\ elapsed = 0

Next == Clock \/ Program \/ Eject \/ (\E s \in Sides : Insert(s))

Spec == Init /\ [][Next]_vars

-----------------------------------------------------------------------------
(* The types of all the variables. *)
TypeOK ==
  /\ clocked \in BOOLEAN
  /\ irq_reload \in Nat /\ irq_counter \in Nat
  /\ irq_enabled \in BOOLEAN /\ irq_repeat \in BOOLEAN /\ timer_irq \in BOOLEAN
  /\ disk_regs \in BOOLEAN /\ motor \in BOOLEAN
  /\ ctrl \in ControlBits
  /\ end_of_head \in BOOLEAN /\ scanning \in BOOLEAN /\ at_end \in BOOLEAN
  /\ position \in 0 .. HeadEnd /\ delay \in Nat /\ gap_ended \in BOOLEAN
  /\ transfer \in BOOLEAN /\ disk_irq \in BOOLEAN
  /\ write_data \in Bytes /\ read_data \in Bytes
  /\ side \in Sides \union {NoSide}
  /\ DOMAIN disk = Sides /\ \A s \in Sides : disk[s] \in Stream(s)
  /\ run \in [active : BOOLEAN, side : Sides \union {NoSide}, start : Nat, bytes : Nat]
  /\ spinning \in BOOLEAN
  /\ loaded \in Nat /\ elapsed \in Nat

(* A write run is one stretch of one side, the one in the drive, up to the    *)
(* byte last stored: however the program and the host interleave, the run the *)
(* ring reports (and the Disk action waits for) skips and repeats nothing.    *)
RunIsWhole ==
  run.active =>
    /\ run.side = side
    /\ run.bytes > 0
    /\ run.start + run.bytes = position - WriteBehind

(* A disk IRQ comes with a byte to fetch or to send; without one it is the    *)
(* end of the side, and the motor has stopped.                                *)
IrqHasCause == (disk_irq /\ ~transfer) => (EndIrq /\ at_end /\ ~motor)

(* With the disk registers off the timer neither runs nor interrupts.         *)
TimerNeedsRegs == (irq_enabled \/ timer_irq) => disk_regs

(* While the timer runs, the clocks since its last load and what is left of   *)
(* it add up to the value loaded: a reload value written meanwhile waits.     *)
TimerOnTime == irq_enabled => elapsed + irq_counter = loaded

(* The tier is told that the head is ready only during a spin-up it was told  *)
(* of, so a load span never ends before it began.                             *)
ReadyEndsSpin == [][ClockByte /\ ~scanning => spinning]_vars

(* The media as the rest of the system sees them. *)
Media ==
  INSTANCE FdsMedia WITH run <- (run.active /\ motor), emptied_by <- "host"
DrivesMedia == Media!MediaSpec

-----------------------------------------------------------------------------
(* What is inductive: a motor turned off leaves a run to the next clock, and  *)
(* before its first clock the drive has not been told that it stands still.   *)
RunNeedsDisk == run.active => (side # NoSide /\ ~WriteProtect /\ (motor \/ ~clocked))
SpinsFirst == (~scanning /\ ~end_of_head /\ (motor \/ clocked)) => spinning

IInv ==
  /\ TypeOK
  /\ RunIsWhole
  /\ RunNeedsDisk
  /\ IrqHasCause
  /\ TimerNeedsRegs
  /\ TimerOnTime
  /\ SpinsFirst

=============================================================================
