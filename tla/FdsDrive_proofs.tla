-------------------------- MODULE FdsDrive_proofs --------------------------
(***************************************************************************)
(* Proofs about FdsDrive: its invariant is inductive for disks of any      *)
(* number of sides and any lengths, any delays, any register values and    *)
(* any interleaving of disk changes, and the drive does nothing to the     *)
(* media that FdsMedia does not describe.                                  *)
(*                                                                         *)
(* The timer and the drive share no variable, so the invariant is proved   *)
(* in two halves that every step preserves.                                *)
(***************************************************************************)
EXTENDS FdsDrive, TLAPS

TimerTypes ==
  /\ irq_reload \in Nat /\ irq_counter \in Nat
  /\ irq_enabled \in BOOLEAN /\ irq_repeat \in BOOLEAN /\ timer_irq \in BOOLEAN
  /\ disk_regs \in BOOLEAN
  /\ loaded \in Nat /\ elapsed \in Nat

DriveTypes ==
  /\ clocked \in BOOLEAN /\ motor \in BOOLEAN
  /\ ctrl \in ControlBits
  /\ end_of_head \in BOOLEAN /\ scanning \in BOOLEAN /\ at_end \in BOOLEAN
  /\ position \in 0 .. HeadEnd /\ delay \in Nat /\ gap_ended \in BOOLEAN
  /\ transfer \in BOOLEAN /\ disk_irq \in BOOLEAN
  /\ write_data \in Bytes /\ read_data \in Bytes
  /\ side \in Sides \union {NoSide}
  /\ DOMAIN disk = Sides /\ \A s \in Sides : disk[s] \in Stream(s)
  /\ run \in [active : BOOLEAN, side : Sides \union {NoSide}, start : Nat, bytes : Nat]
  /\ spinning \in BOOLEAN

TimerInv == TimerTypes /\ TimerNeedsRegs /\ TimerOnTime
DriveInv == DriveTypes /\ RunIsWhole /\ RunNeedsDisk /\ IrqHasCause /\ SpinsFirst

(* The invariant is its two halves. *)
LEMMA Halves == (IInv <=> (TimerInv /\ DriveInv)) /\ (IInv' <=> (TimerInv' /\ DriveInv'))
BY Zenon DEF IInv, TypeOK, TimerInv, DriveInv, TimerTypes, DriveTypes

(* A side number is never the mark of an empty drive. *)
LEMMA NoSideIsNone == NoSide \notin Sides
BY DriveAssumption DEF NoSide, Sides

(* One clock of the timer keeps its half of the invariant. *)
LEMMA ClockedTimer ==
  ASSUME TimerInv, ClockTimer, UNCHANGED disk_regs
  PROVE  TimerInv'
<1>1. CASE ~irq_enabled
  BY <1>1 DEF TimerInv, TimerTypes, TimerNeedsRegs, TimerOnTime, ClockTimer
<1>2. CASE irq_enabled /\ irq_counter = 0
  BY <1>2 DEF TimerInv, TimerTypes, TimerNeedsRegs, TimerOnTime, ClockTimer, LoadTimer
<1>3. CASE irq_enabled /\ irq_counter # 0
  <2>1. irq_counter' = irq_counter - 1 /\ elapsed' = elapsed + 1 /\ loaded' = loaded
    BY <1>3 DEF ClockTimer
  <2>2. irq_counter \in Nat /\ elapsed \in Nat /\ elapsed + irq_counter = loaded
    BY <1>3 DEF TimerInv, TimerTypes, TimerOnTime
  <2>3. irq_counter' \in Nat /\ elapsed' \in Nat /\ elapsed' + irq_counter' = loaded'
    BY <1>3, <2>1, <2>2
  <2> QED
    BY <1>3, <2>1, <2>3, Zenon DEF TimerInv, TimerTypes, TimerNeedsRegs, TimerOnTime, ClockTimer
<1> QED
  BY <1>1, <1>2, <1>3

(* A clock that leaves the head where it is: the motor or the disk is out, the *)
(* transfer is held, the head rewinds or is between two bytes.                 *)
LEMMA ClockedHead ==
  ASSUME DriveInv, ~clocked, clocked' = TRUE, UNCHANGED <<ctrl, write_data>>,
         DriveStopped \/ DriveHeld \/ Rewind \/ BetweenBytes
  PROVE  DriveInv'
<1> USE DEF DriveInv, DriveTypes, dataVars, diskVars, headVars, hleVars
<1>1. CASE DriveStopped
  BY <1>1, NoSideIsNone DEF DriveStopped, Turning, NoRun, RunIsWhole, RunNeedsDisk, IrqHasCause, SpinsFirst
<1>2. CASE DriveHeld
  BY <1>2 DEF DriveHeld, Turning, RunIsWhole, RunNeedsDisk, IrqHasCause, SpinsFirst
<1>3. CASE Rewind
  <2>1. SpinUp \in Nat /\ 0 \in 0 .. HeadEnd
    BY DriveAssumption
  <2>2. run' = NoRun /\ ~run'.active
    BY <1>3 DEF Rewind, NoRun
  <2>3. run' \in [active : BOOLEAN, side : Sides \union {NoSide}, start : Nat, bytes : Nat]
    BY <2>2 DEF NoRun
  <2>4. DriveTypes'
    BY <1>3, <2>1, <2>3, Zenon DEF Rewind
  <2> QED
    BY <1>3, <2>2, <2>4 DEF Rewind, Turning, RunIsWhole, RunNeedsDisk, IrqHasCause, SpinsFirst
<1>4. CASE BetweenBytes
  BY <1>4 DEF BetweenBytes, Turning, RunIsWhole, RunNeedsDisk, IrqHasCause, SpinsFirst
<1> QED
  BY <1>1, <1>2, <1>3, <1>4

(* A byte of the side in the drive is a byte. *)
LEMMA UnderHeadIsByte ==
  ASSUME DriveTypes, side # NoSide
  PROVE  UnderHead \in Bytes
BY DriveAssumption DEF DriveTypes, UnderHead, Stream

(* A byte stored leaves every side a stream of its own length. *)
LEMMA StoredTypes ==
  ASSUME DriveTypes, side # NoSide, NEW at \in 0 .. Length[side] - 1, NEW b \in Bytes,
         disk' = [disk EXCEPT ![side][at] = b]
  PROVE  DOMAIN disk' = Sides /\ \A s \in Sides : disk'[s] \in Stream(s)
BY DEF DriveTypes, Stream

(* What a byte written does to the write run. *)
LEMMA WrittenRun ==
  ASSUME DriveInv, Turning, WriteByte,
         position' = IF position < HeadEnd THEN position + 1 ELSE position,
         side' = side, Ends \/ motor' = motor
  PROVE  /\ run' \in [active : BOOLEAN, side : Sides \union {NoSide}, start : Nat, bytes : Nat]
         /\ RunIsWhole'
         /\ run'.active => side # NoSide /\ ~WriteProtect /\ motor'
<1> DEFINE at == position - WriteBehind
<1>1. side \in Sides /\ Length[side] \in Nat /\ Length[side] + WriteBehind <= HeadEnd /\ HeadEnd \in Nat
  BY DriveAssumption DEF DriveInv, DriveTypes, Turning
<1>2. position \in Nat /\ WriteBehind \in Nat /\ at \in Int
  BY DriveAssumption DEF DriveInv, DriveTypes
<1>3. CASE Ends
  <2>1. run' = NoRun
    BY <1>3 DEF WriteByte
  <2> QED
    BY <2>1 DEF NoRun, RunIsWhole
<1>4. CASE ~Ends /\ Stores(at)
  <2>1. position' = position + 1
    BY <1>1, <1>2, <1>4 DEF Ends
  <2>2. at \in Nat /\ ~WriteProtect
    BY <1>4 DEF Stores
  <2>3. run' = RunWith(at)
    BY <1>4 DEF WriteByte
  <2>4. CASE run.active
    <3>1. run' = [run EXCEPT !.bytes = run.bytes + 1]
      BY <2>3, <2>4 DEF RunWith
    <3>2. run'.active /\ run'.side = run.side /\ run'.start = run.start /\ run'.bytes = run.bytes + 1
      BY <3>1, <2>4 DEF DriveInv, DriveTypes
    <3>3. run' \in [active : BOOLEAN, side : Sides \union {NoSide}, start : Nat, bytes : Nat]
      BY <3>1 DEF DriveInv, DriveTypes
    <3>4. run.start \in Nat /\ run.bytes \in Nat /\ run.bytes > 0 /\ run.side = side
          /\ run.start + run.bytes = position - WriteBehind
      BY <2>4 DEF RunIsWhole, DriveInv, DriveTypes
    <3>5. RunIsWhole'
      BY <1>2, <2>1, <3>2, <3>4, DriveAssumption DEF RunIsWhole
    <3> QED
      BY <1>4, <2>2, <3>3, <3>5 DEF Turning
  <2>5. CASE ~run.active
    <3>1. run' = [active |-> TRUE, side |-> side, start |-> at, bytes |-> 1]
      BY <2>3, <2>5 DEF RunWith
    <3>2. run' \in [active : BOOLEAN, side : Sides \union {NoSide}, start : Nat, bytes : Nat]
      BY <1>1, <2>2, <3>1
    <3>3. RunIsWhole'
      BY <1>2, <2>1, <2>2, <3>1, DriveAssumption DEF RunIsWhole
    <3> QED
      BY <1>4, <2>2, <3>2, <3>3 DEF Turning
  <2> QED
    BY <2>4, <2>5
<1>5. CASE ~Ends /\ ~Stores(at)
  <2>1. run' = run
    BY <1>5 DEF WriteByte
  <2>2. ~run.active
    BY <1>1, <1>2, <1>5 DEF Ends, Stores, RunIsWhole, RunNeedsDisk, DriveInv, DriveTypes
  <2> QED
    BY <2>1, <2>2 DEF DriveInv, DriveTypes, RunIsWhole
<1> QED
  BY <1>3, <1>4, <1>5

(* One byte under the head, read or written, keeps the drive's half. *)
LEMMA ClockedByte ==
  ASSUME DriveInv, ~clocked, clocked' = TRUE, UNCHANGED <<ctrl, write_data>>, ClockByte
  PROVE  DriveInv'
<1>1. Turning /\ side \in Sides /\ motor /\ side' = side
  BY DEF ClockByte, Turning, DriveInv, DriveTypes
<1>2. position' \in 0 .. HeadEnd /\ delay' \in Nat
  <2>1. position \in 0 .. HeadEnd /\ delay \in Nat /\ ByteDelay \in Nat /\ HeadEnd \in Nat
    BY DriveAssumption DEF DriveInv, DriveTypes
  <2> QED
    BY <2>1 DEF ClockByte
<1>3. motor' \in BOOLEAN /\ at_end' \in BOOLEAN /\ scanning' /\ spinning' \in BOOLEAN
  BY Zenon DEF ClockByte, DriveInv, DriveTypes
<1>4. Ends \/ motor' = motor
  BY DEF ClockByte
<1>5. position' = IF position < HeadEnd THEN position + 1 ELSE position
  BY DEF ClockByte
<1>6. /\ run' \in [active : BOOLEAN, side : Sides \union {NoSide}, start : Nat, bytes : Nat]
      /\ RunIsWhole'
      /\ run'.active => side # NoSide /\ ~WriteProtect /\ motor'
  <2>1. CASE WriteByte
    BY <1>1, <1>4, <1>5, <2>1, WrittenRun
  <2>2. CASE ReadByte
    BY <2>2 DEF ReadByte, NoRun, RunIsWhole
  <2> QED
    BY <2>1, <2>2 DEF ClockByte
<1>7. /\ transfer' \in BOOLEAN /\ disk_irq' \in BOOLEAN /\ gap_ended' \in BOOLEAN
      /\ read_data' \in Bytes
  <2>1. CASE WriteByte
    BY <2>1 DEF WriteByte, DriveInv, DriveTypes
  <2>2. CASE ReadByte
    <3>1. UnderHead \in Bytes
      BY <1>1, NoSideIsNone, UnderHeadIsByte DEF DriveInv
    <3> QED
      BY <2>2, <3>1 DEF ReadByte, DriveInv, DriveTypes
  <2> QED
    BY <2>1, <2>2 DEF ClockByte
<1>8. DOMAIN disk' = Sides /\ \A s \in Sides : disk'[s] \in Stream(s)
  <2>1. CASE disk' = disk
    BY <2>1 DEF DriveInv, DriveTypes
  <2>2. ASSUME NEW b \in Written, Stores(position - WriteBehind),
               disk' = [disk EXCEPT ![side][position - WriteBehind] = b]
        PROVE  DOMAIN disk' = Sides /\ \A s \in Sides : disk'[s] \in Stream(s)
    <3>1. b \in Bytes
      BY <2>2, DriveAssumption DEF Written, DriveInv, DriveTypes
    <3> QED
      BY <1>1, <2>2, <3>1, NoSideIsNone, StoredTypes DEF Stores, DriveInv
  <2> QED
    BY <2>1, <2>2 DEF ClockByte, ReadByte, WriteByte
<1>9. IrqHasCause'
  <2>1. CASE disk_irq /\ ~transfer
    BY <1>1, <2>1 DEF IrqHasCause, DriveInv
  <2>2. CASE ~disk_irq \/ transfer
    <3>1. disk_irq' => (transfer' \/ EndRaises)
      BY <2>2 DEF ClockByte, ReadByte, WriteByte
    <3>2. EndRaises => EndIrq /\ at_end' /\ ~motor'
      BY DEF EndRaises, ClockByte
    <3> QED
      BY <3>1, <3>2 DEF IrqHasCause
  <2> QED
    BY <2>1, <2>2 DEF DriveInv, DriveTypes
<1>10. end_of_head' = end_of_head
  BY DEF ClockByte
<1>11. DriveTypes'
  BY <1>1, <1>2, <1>3, <1>6, <1>7, <1>8, <1>10, Zenon DEF DriveInv, DriveTypes
<1>12. RunNeedsDisk' /\ SpinsFirst'
  BY <1>1, <1>3, <1>6 DEF RunNeedsDisk, SpinsFirst
<1> QED
  BY <1>6, <1>9, <1>11, <1>12 DEF DriveInv

(* A bus access that is none of the drive's leaves its half alone; only       *)
(* `clocked` tells the two states apart.                                      *)
LEMMA AccessUntouched ==
  ASSUME DriveInv, Access, UNCHANGED <<motor, ctrl, dataVars, write_data>>
  PROVE  DriveInv'
BY DEF DriveInv, DriveTypes, RunIsWhole, RunNeedsDisk, IrqHasCause, SpinsFirst, Access, headVars,
       diskVars, dataVars

(* An access that takes the byte away takes the disk's IRQ away as well.      *)
LEMMA AccessAcknowledges ==
  ASSUME DriveInv, Access, disk_irq' = FALSE, transfer' \in BOOLEAN, write_data' \in Bytes,
         UNCHANGED <<motor, ctrl, read_data>>
  PROVE  DriveInv'
BY DEF DriveInv, DriveTypes, RunIsWhole, RunNeedsDisk, IrqHasCause, SpinsFirst, Access, headVars,
       diskVars

(* A write of $4025 acknowledges the disk's IRQ, whatever it switches.        *)
LEMMA ControlWritten ==
  ASSUME DriveInv, NEW on \in BOOLEAN, NEW bits \in ControlBits, WriteControl(on, bits)
  PROVE  DriveInv'
<1>1. DriveTypes'
  BY Zenon DEF DriveInv, DriveTypes, WriteControl, Access, headVars, diskVars
<1>2. RunIsWhole' /\ RunNeedsDisk' /\ IrqHasCause'
  BY DEF DriveInv, RunIsWhole, RunNeedsDisk, IrqHasCause, WriteControl, Access, headVars, diskVars
<1>3. SpinsFirst'
  BY DEF DriveInv, SpinsFirst, WriteControl, Access, headVars
<1> QED
  BY <1>1, <1>2, <1>3 DEF DriveInv

(* Every bus access keeps both halves of the invariant. *)
LEMMA Accessed ==
  ASSUME TimerInv, DriveInv, Program
  PROVE  TimerInv' /\ DriveInv'
<1>1. CASE AccessElsewhere
  BY <1>1, AccessUntouched
  DEF AccessElsewhere, timerVars, TimerInv, TimerTypes, TimerNeedsRegs, TimerOnTime
<1>2. ASSUME NEW v \in Reloads, WriteReload(v) PROVE TimerInv' /\ DriveInv'
  BY <1>2, AccessUntouched, DriveAssumption
  DEF WriteReload, TimerInv, TimerTypes, TimerNeedsRegs, TimerOnTime
<1>3. ASSUME NEW t \in TimerControls, WriteTimerControl(t[1], t[2]) PROVE TimerInv' /\ DriveInv'
  <2>1. t[1] \in BOOLEAN /\ t[2] \in BOOLEAN
    BY DriveAssumption
  <2>2. TimerInv'
    <3>1. disk_regs' = disk_regs /\ irq_enabled' = (t[2] /\ disk_regs) /\ irq_repeat' = t[1]
          /\ irq_reload' = irq_reload
      BY <1>3 DEF WriteTimerControl
    <3>2. CASE t[2] /\ disk_regs
      <4>1. irq_enabled' /\ timer_irq' = timer_irq /\ LoadTimer
        BY <1>3, <3>1, <3>2 DEF WriteTimerControl
      <4>2. TimerOnTime' /\ irq_counter' \in Nat /\ loaded' \in Nat /\ elapsed' \in Nat
        BY <4>1 DEF LoadTimer, TimerInv, TimerTypes, TimerOnTime
      <4> QED
        BY <2>1, <3>1, <3>2, <4>1, <4>2, Zenon DEF TimerInv, TimerTypes, TimerNeedsRegs
    <3>3. CASE ~(t[2] /\ disk_regs)
      <4>1. ~irq_enabled' /\ timer_irq' = FALSE /\ UNCHANGED <<irq_counter, loaded, elapsed>>
        BY <1>3, <3>1, <3>3 DEF WriteTimerControl
      <4> QED
        BY <2>1, <3>1, <4>1 DEF TimerInv, TimerTypes, TimerNeedsRegs, TimerOnTime
    <3> QED
      BY <3>2, <3>3
  <2> QED
    BY <1>3, <2>2, AccessUntouched DEF WriteTimerControl
<1>4. ASSUME NEW regs \in Enables, WriteEnable(regs) PROVE TimerInv' /\ DriveInv'
  <2>1. regs \in BOOLEAN
    BY DriveAssumption
  <2>2. TimerInv'
    <3>1. disk_regs' = regs
          /\ UNCHANGED <<irq_reload, irq_counter, irq_repeat, loaded, elapsed>>
      BY <1>4 DEF WriteEnable
    <3>2. CASE regs
      <4>1. disk_regs' = TRUE /\ UNCHANGED <<irq_enabled, timer_irq>>
        BY <1>4, <2>1, <3>1, <3>2 DEF WriteEnable
      <4> QED
        BY <3>1, <4>1 DEF TimerInv, TimerTypes, TimerNeedsRegs, TimerOnTime
    <3>3. CASE ~regs
      <4>1. disk_regs' = FALSE /\ irq_enabled' = FALSE /\ timer_irq' = FALSE
        BY <1>4, <2>1, <3>1, <3>3 DEF WriteEnable
      <4> QED
        BY <3>1, <4>1 DEF TimerInv, TimerTypes, TimerNeedsRegs, TimerOnTime
    <3> QED
      BY <2>1, <3>2, <3>3
  <2>3. DriveInv'
    <3>1. CASE regs
      BY <1>4, <3>1, AccessUntouched DEF WriteEnable, dataVars
    <3>2. CASE ~regs
      BY <1>4, <3>2, AccessAcknowledges DEF WriteEnable, DriveInv, DriveTypes
    <3> QED
      BY <2>1, <3>1, <3>2
  <2> QED
    BY <2>2, <2>3
<1>5. ASSUME NEW b \in Data, WriteData(b) PROVE TimerInv' /\ DriveInv'
  BY <1>5, AccessAcknowledges, DriveAssumption
  DEF WriteData, timerVars, TimerInv, TimerTypes, TimerNeedsRegs, TimerOnTime
<1>6. ASSUME NEW c \in Controls, WriteControl(c[1], c[2]) PROVE TimerInv' /\ DriveInv'
  <2>1. c[1] \in BOOLEAN /\ c[2] \in ControlBits
    BY DriveAssumption
  <2> QED
    BY <1>6, <2>1, ControlWritten
    DEF WriteControl, timerVars, TimerInv, TimerTypes, TimerNeedsRegs, TimerOnTime
<1>7. CASE ReadStatus
  BY <1>7, AccessAcknowledges
  DEF ReadStatus, TimerInv, TimerTypes, TimerNeedsRegs, TimerOnTime, DriveInv, DriveTypes
<1>8. CASE ReadData
  BY <1>8, AccessAcknowledges
  DEF ReadData, timerVars, TimerInv, TimerTypes, TimerNeedsRegs, TimerOnTime, DriveInv, DriveTypes
<1> QED
  BY <1>1, <1>2, <1>3, <1>4, <1>5, <1>6, <1>7, <1>8 DEF Program

(* A change of the disk by the host or the tier keeps both halves. *)
LEMMA DiskChanged ==
  ASSUME TimerInv, DriveInv, Eject \/ \E s \in Sides : Insert(s)
  PROVE  TimerInv' /\ DriveInv'
<1>1. TimerInv'
  BY DEF Eject, Insert, Change, timerVars, TimerInv, TimerTypes, TimerNeedsRegs, TimerOnTime
<1>2. CASE Eject
  BY <1>1, <1>2 DEF Eject, Change, NoRun, DriveInv, DriveTypes, RunIsWhole, RunNeedsDisk, IrqHasCause,
     SpinsFirst, headVars, dataVars
<1>3. ASSUME NEW s \in Sides, Insert(s) PROVE DriveInv'
  BY <1>3 DEF Insert, Change, DriveInv, DriveTypes, RunIsWhole, RunNeedsDisk, IrqHasCause,
     SpinsFirst, headVars, dataVars
<1> QED
  BY <1>1, <1>2, <1>3

(* The power-on state satisfies the invariant. *)
THEOREM InitInv == Init => IInv
<1> SUFFICES ASSUME Init PROVE TimerInv /\ DriveInv
  BY Halves
<1>1. TimerInv
  BY DEF Init, TimerInv, TimerTypes, TimerNeedsRegs, TimerOnTime
<1>2. run \in [active : BOOLEAN, side : Sides \union {NoSide}, start : Nat, bytes : Nat] /\ ~run.active
  BY DEF Init, NoRun
<1>3. ctrl \in ControlBits
  BY DEF Init, ControlBits
<1>4. DOMAIN disk = Sides /\ \A s \in Sides : disk[s] \in Stream(s)
  BY DriveAssumption DEF Init
<1>5. position \in 0 .. HeadEnd /\ delay \in Nat /\ write_data \in Bytes /\ read_data \in Bytes
  BY DriveAssumption DEF Init
<1>6. DriveTypes
  BY <1>2, <1>3, <1>4, <1>5 DEF Init, DriveTypes
<1>7. RunIsWhole /\ RunNeedsDisk /\ IrqHasCause /\ SpinsFirst
  BY <1>2 DEF Init, RunIsWhole, RunNeedsDisk, IrqHasCause, SpinsFirst
<1> QED
  BY <1>1, <1>6, <1>7 DEF DriveInv

(* Every clock, access and change of the disk keeps it. *)
THEOREM StepInv == IInv /\ [Next]_vars => IInv'
<1> SUFFICES ASSUME TimerInv, DriveInv, [Next]_vars PROVE TimerInv' /\ DriveInv'
  BY Halves
<1>1. CASE Clock
  <2>1. TimerInv'
    BY <1>1, ClockedTimer DEF Clock
  <2>2. DriveInv'
    BY <1>1, ClockedHead, ClockedByte DEF Clock
  <2> QED
    BY <2>1, <2>2
<1>2. CASE Program
  BY <1>2, Accessed
<1>3. CASE Eject \/ \E s \in Sides : Insert(s)
  BY <1>3, DiskChanged
<1>4. CASE UNCHANGED vars
  <2>1. TimerInv'
    BY <1>4 DEF vars, timerVars, TimerInv, TimerTypes, TimerNeedsRegs, TimerOnTime
  <2>2. DriveInv'
    BY <1>4 DEF vars, headVars, dataVars, diskVars, hleVars, DriveInv, DriveTypes, RunIsWhole,
       RunNeedsDisk, IrqHasCause, SpinsFirst
  <2> QED
    BY <2>1, <2>2
<1> QED
  BY <1>1, <1>2, <1>3, <1>4 DEF Next

(* In every state the drive can reach the invariant holds: its types, and the *)
(* write run, the IRQs and the timer as FdsDrive states them.                 *)
THEOREM Invariant == Spec => []IInv
<1>1. Init => IInv
  BY InitInv
<1>2. IInv /\ [Next]_vars => IInv'
  BY StepInv
<1> QED
  BY <1>1, <1>2, PTL DEF Spec

(* The write run, the disk's IRQ and the timer's are what the program and the *)
(* Disk action take them for.                                                 *)
THEOREM DriveSafe == Spec => [](RunIsWhole /\ IrqHasCause /\ TimerNeedsRegs)
<1>1. IInv => RunIsWhole /\ IrqHasCause /\ TimerNeedsRegs
  BY DEF IInv
<1> QED
  BY <1>1, Invariant, PTL

(* An interval the program times with the drive's timer has the length it     *)
(* loaded: no order of reload value, control and enable written before or     *)
(* while the timer runs costs or adds a clock.                                *)
THEOREM TimerTrue == Spec => []TimerOnTime
<1>1. IInv => TimerOnTime
  BY DEF IInv
<1> QED
  BY <1>1, Invariant, PTL

(* The head gets ready only out of a spin-up the tier was told of. *)
THEOREM Ready == Spec => ReadyEndsSpin
<1>1. IInv /\ [Next]_vars => [ClockByte /\ ~scanning => spinning]_vars
  BY DEF IInv, SpinsFirst, ClockByte, Turning
<1> QED
  BY <1>1, Invariant, PTL DEF Spec, ReadyEndsSpin

-----------------------------------------------------------------------------
(* The drive does nothing to the media but what FdsMedia says. *)

(* The power-on state is one of the media's. *)
LEMMA MediaStarts == Init => Media!MediaInit
BY DEF Init, NoRun, Media!MediaInit, Media!Sides, Media!NoSide, Sides, NoSide

(* The clock stores, ends a run, or stops the motor at the end of the side.   *)
LEMMA ClockMovesMedia ==
  ASSUME IInv, Clock
  PROVE  Media!MediaNext \/ UNCHANGED Media!mediaVars
<1> USE DEF Media!mediaVars, Media!MediaNext, Media!TurnMotor, Media!WriteRun, Media!MotorOn,
            Media!NoSide, NoSide
<1>1. CASE DriveStopped
  <2>1. run'.active = FALSE /\ motor' = motor /\ side' = side
    BY <1>1 DEF DriveStopped, NoRun
  <2>2. (run.active /\ motor) = FALSE
    BY <1>1 DEF Clock, DriveStopped, Turning, IInv, RunNeedsDisk
  <2> QED
    BY <2>1, <2>2
<1>2. CASE DriveHeld \/ BetweenBytes
  BY <1>2 DEF DriveHeld, BetweenBytes, diskVars
<1>3. CASE Rewind \/ (ClockByte /\ ~Ends)
  <2>1. motor' = motor /\ side' = side /\ side # NoSide /\ motor = TRUE /\ run'.active \in BOOLEAN
    <3>1. IInv'
      BY ClockedTimer, ClockedHead, ClockedByte, Halves DEF Clock
    <3> QED
      BY <1>3, <3>1 DEF Rewind, ClockByte, Turning, IInv, TypeOK
  <2> QED
    BY <2>1
<1>4. CASE ClockByte /\ Ends
  <2>1. motor' = FALSE /\ side' = side /\ motor = TRUE
    BY <1>4 DEF ClockByte, Turning, IInv, TypeOK
  <2> QED
    BY <2>1
<1> QED
  BY <1>1, <1>2, <1>3, <1>4 DEF Clock

(* A bus access at most turns the motor on or off. *)
LEMMA AccessMovesMedia ==
  ASSUME IInv, Program
  PROVE  Media!MediaNext \/ UNCHANGED Media!mediaVars
<1> USE DEF Media!mediaVars, Media!MediaNext, Media!TurnMotor
<1>1. CASE motor' = motor
  <2>1. UNCHANGED <<side, run>>
    BY DEF Program, AccessElsewhere, WriteReload, WriteTimerControl, WriteEnable, WriteData,
       WriteControl, ReadStatus, ReadData, Access, diskVars
  <2> QED
    BY <1>1, <2>1
<1>2. CASE motor' # motor
  <2>1. PICK c \in Controls : WriteControl(c[1], c[2])
    BY <1>2 DEF Program, AccessElsewhere, WriteReload, WriteTimerControl, WriteEnable, WriteData,
       ReadStatus, ReadData
  <2>2. motor \in BOOLEAN /\ motor' \in BOOLEAN /\ UNCHANGED <<side, run>>
    BY <2>1, DriveAssumption DEF WriteControl, Access, diskVars, IInv, TypeOK
  <2>3. motor' = ~motor
    BY <1>2, <2>2
  <2>4. (run'.active /\ motor') = FALSE
    BY <2>1, <2>2, <2>3 DEF WriteControl, Access, IInv, RunNeedsDisk
  <2> QED
    BY <2>2, <2>3, <2>4
<1> QED
  BY <1>1, <1>2

(* A change of the disk is one of the media's. *)
LEMMA ChangeMovesMedia ==
  ASSUME IInv, Eject \/ \E s \in Sides : Insert(s)
  PROVE  Media!MediaNext \/ UNCHANGED Media!mediaVars
<1> USE DEF Media!MediaNext, Media!Sides, Media!NoSide, Sides, NoSide, Change
<1>1. CASE Eject
  <2>1. Media!DriveEject("host")
    BY <1>1 DEF Eject, NoRun, Media!DriveEject
  <2> QED
    BY <2>1
<1>2. ASSUME NEW s \in Sides, Insert(s) PROVE Media!MediaNext
  <2>1. Media!DriveInsert(s)
    BY <1>2 DEF Insert, Media!DriveInsert
  <2> QED
    BY <2>1
<1> QED
  BY <1>1, <1>2

(* The drive implements FdsMedia, the media the swap and save specifications  *)
(* are built on: each of its clocks, register writes and disk changes is one  *)
(* of FdsMedia's operations on the side, the motor and the write run, or      *)
(* leaves them alone.                                                         *)
THEOREM MediaRefined == Spec => DrivesMedia
<1>1. Init => Media!MediaInit
  BY MediaStarts
<1>2. IInv /\ [Next]_vars => [Media!MediaNext]_(Media!mediaVars)
  <2> SUFFICES ASSUME IInv, [Next]_vars PROVE Media!MediaNext \/ UNCHANGED Media!mediaVars
    OBVIOUS
  <2>1. CASE UNCHANGED vars
    BY <2>1 DEF vars, diskVars, Media!mediaVars
  <2> QED
    BY <2>1, ClockMovesMedia, AccessMovesMedia, ChangeMovesMedia DEF Next
<1> QED
  BY <1>1, <1>2, Invariant, PTL DEF Spec, DrivesMedia, Media!MediaSpec
=============================================================================
