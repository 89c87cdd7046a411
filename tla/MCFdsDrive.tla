----------------------------- MODULE MCFdsDrive -----------------------------
(* Instances of FdsDrive for TLC: sides of three and two bytes.               *)
EXTENDS FdsDrive

Lengths == [s \in Sides |-> 3 - s]
TwoBytes == {0, 1}
OneMark == [s \in Sides |-> [p \in 0 .. Length[s] - 1 |-> IF p = 1 THEN 1 ELSE 0]]

Bits(reset, read, crc_control, crc_enable) ==
  [reset |-> reset, read |-> read, crc_control |-> crc_control, crc_enable |-> crc_enable,
   irq |-> TRUE]
Off == <<FALSE, Bits(FALSE, TRUE, FALSE, FALSE)>>
HeldStill == <<TRUE, Bits(TRUE, TRUE, FALSE, FALSE)>>
Reading == <<TRUE, Bits(FALSE, TRUE, FALSE, TRUE)>>
WritingData == <<TRUE, Bits(FALSE, FALSE, FALSE, TRUE)>>
WritingCrc == <<TRUE, Bits(FALSE, FALSE, TRUE, TRUE)>>

AllControls == {Off, HeldStill, Reading, WritingData, WritingCrc}

None == {}
MarkByte == {1}
BothWays == BOOLEAN
SomeReloads == {0, 2, 3}
AllTimerControls == BOOLEAN \X BOOLEAN

(* Bound: the timer runs with the drive as at power-on, or the drive with the *)
(* timer so: they share $4023.0 and the status register and nothing else.     *)
TimerUnset == <<irq_reload, irq_counter, loaded, elapsed>> = <<0, 0, 0, 0>> /\ ~irq_enabled /\ ~irq_repeat /\ ~timer_irq
TimerApart == TimerUnset \/ ~ctrl.irq
=============================================================================
