------------------------------- MODULE ApuDma -------------------------------
(***************************************************************************)
(* The two DMAs that share the CPU's bus (hw_apu.c) and the cycle loop     *)
(* that runs them (hw_machine.c): the sprite DMA copies a page of 256      *)
(* bytes to $2004, the sample DMA fetches the next byte of a sample when   *)
(* the DMC's output unit has emptied its buffer.  A DMA holds the CPU at a *)
(* read; reads and writes of the two share alternating get and put cycles. *)
(*                                                                         *)
(* One step is one CPU cycle, in the order of the code: the DMA or the     *)
(* CPU's own access, then the end of the cycle, then apu_cycle.  What is   *)
(* left out of apu_cycle: the tone generators, the controllers' shift      *)
(* registers and the frame counter.  Sample bytes are not told apart; a    *)
(* sprite byte is the index it was read from.                              *)
(***************************************************************************)
EXTENDS Integers

CONSTANTS
    PageSize,     \* bytes the sprite DMA copies: 256
    Bits,         \* bits of a sample byte: 8
    Rates,        \* dmc_rate_table: CPU cycles for a bit
    Lens,         \* sample lengths the program sets, in bytes
    PowerTimer,   \* the DMC's timer at power-on: 1022
    Pal,          \* hw_pal
    Extra,        \* the host has added blank scanlines (hw_extra_timing)
    Registers,    \* bound: the registers the program writes
    MaxBusy       \* the most cycles in a row that yield to no DMA

ASSUME DmaAssumption ==
    /\ PageSize \in Nat \ {0}
    /\ Bits \in Nat \ {0}
    /\ \A r \in Rates : r \in Nat /\ r > 10 /\ r % 2 = 0
    /\ PowerTimer \in Nat /\ PowerTimer > 0 /\ PowerTimer % 2 = 0
    /\ Lens \subseteq Nat \ {0}
    /\ Pal \in BOOLEAN /\ Extra \in BOOLEAN
    /\ MaxBusy \in Nat

VARIABLES
    put,     \* apu.put: this cycle is an APU put cycle
    dmc,     \* the sample channel and its DMA
    oam,     \* the sprite DMA
    yields,  \* whether the access the CPU makes next can be held: any read on
             \* NTSC, an opcode fetch on PAL
    busy,    \* cycles since the CPU could last be held
    odd,     \* hw.cycles & 1
    active,  \* hw_extra_timing.active: in an added line, the APU paused
    native   \* a native interval is open: the machine's clock runs without DMA

vars == <<put, dmc, oam, yields, busy, odd, active, native>>

\* dma_wants_cycle, asked only where the CPU yields.
SampleWants == dmc.dma /\ (dmc.playing \/ dmc.abort)
Wants == yields /\ (SampleWants \/ oam.active)

-----------------------------------------------------------------------------
\* apu_cycle, of the sample channel.  On get cycles the output unit's timer
\* runs; when it has used a byte up it takes the buffered one and asks for the
\* next.
OutputEnd(d) ==
    LET asked == d.bytes > 0 \/ d.armed
        starts == asked /\ ~d.dma /\ d.cooldown = 0
    IN  [d EXCEPT !.bits = Bits, !.full = FALSE, !.silent = ~asked,
                  !.dma = @ \/ starts, !.halt = @ \/ starts,
                  !.abort = @ \/ d.armed, !.armed = FALSE]

\* Mutant: the cooldown after a fetch is never over.
OutputClockCooling(d) ==
    IF d.timer > 2 THEN [d EXCEPT !.timer = @ - 2]
    ELSE LET shifted == [d EXCEPT !.timer = d.rate, !.bits = @ - 1]
         IN  IF shifted.bits = 0 THEN OutputEnd(shifted) ELSE shifted

OutputClock(d) ==
    IF d.timer > 2 THEN [d EXCEPT !.timer = @ - 2, !.cooldown = 0]
    ELSE LET shifted == [d EXCEPT !.timer = d.rate, !.bits = @ - 1]
             ended == IF shifted.bits = 0 THEN OutputEnd(shifted) ELSE shifted
         IN  [ended EXCEPT !.cooldown = 0]

\* On put cycles a start asked for by $4015 counts down.
StartClock(d) ==
    LET starts == d.start_delay = 1 /\ ~d.dma
    IN  [d EXCEPT !.start_delay = IF @ > 0 THEN @ - 1 ELSE 0,
                  !.dma = @ \/ starts, !.halt = @ \/ starts,
                  !.silent = @ /\ ~starts]

\* On both, the enable bit of $4015 reaches the channel.
EnableClock(d) ==
    [d EXCEPT !.enable_delay = IF @ > 0 THEN @ - 1 ELSE 0,
              !.playing = IF d.enable_delay = 1 THEN d.enable ELSE @,
              !.bytes = IF d.enable_delay = 1 /\ ~d.enable THEN 0 ELSE @]

Clocked(d) == EnableClock(IF put THEN StartClock(d) ELSE OutputClock(d))

\* The end of a CPU cycle: an implicit abort lasts one cycle; the cycle counter
\* and, but in an added line, the APU advance.  The PPU may enter or leave the
\* added lines before the APU's clock or after it.
EndCycle(d) ==
    LET aborted == [d EXCEPT !.abort = @ /\ ~d.dma]
    IN  /\ odd' = ~odd
        /\ active' \in IF Extra THEN BOOLEAN ELSE {FALSE}
        /\ \E paused \in {active, active'} :
            IF paused THEN dmc' = aborted /\ put' = put
                      ELSE dmc' = Clocked(aborted) /\ put' = ~put

-----------------------------------------------------------------------------
\* dma_cycle.
PutNow == IF active THEN odd ELSE put
Begins == oam.active /\ oam.first
Halted == oam.halt \/ (Begins /\ ~PutNow)

SampleGets == ~PutNow /\ dmc.dma /\ ~dmc.halt
SpriteGets == ~PutNow /\ oam.active /\ ~Halted /\ ~SampleGets
SpritePuts == PutNow /\ oam.active /\ ~Halted /\ oam.aligned

\* Mutant: a fetch does not end its DMA.
FetchedKept(d) ==
    [d EXCEPT !.full = TRUE, !.cooldown = 2, !.bytes = IF @ > 0 THEN @ - 1 ELSE 0]

\* dmc_dma_get.
Fetched(d) ==
    LET left == IF d.bytes > 0 THEN d.bytes - 1 ELSE 0
    IN  [d EXCEPT !.full = TRUE, !.dma = FALSE, !.cooldown = 2,
                  !.bytes = IF left = 0 /\ d.loop THEN d.len ELSE left,
                  !.playing = @ /\ (left > 0 \/ d.loop),
                  !.irq = @ \/ (left = 0 /\ ~d.loop /\ d.irq_enable)]

\* Mutant: a byte fetched for the sample leaves the sprite's byte aligned.
SpriteStepBlind ==
    LET last == oam.index = PageSize - 1
    IN  CASE SpriteGets -> [oam EXCEPT !.first = FALSE, !.aligned = TRUE, !.value = oam.index]
          [] SpritePuts -> [oam EXCEPT !.index = IF last THEN 0 ELSE @ + 1,
                                       !.active = ~last, !.aligned = ~last]
          [] OTHER      -> [oam EXCEPT !.first = FALSE]

\* oam_dma_get, oam_dma_put.
SpriteStep ==
    LET started == [oam EXCEPT !.first = FALSE, !.halt = Halted /\ PutNow]
        last == oam.index = PageSize - 1
    IN  CASE SampleGets -> [started EXCEPT !.aligned = FALSE]
          [] SpriteGets -> [started EXCEPT !.aligned = TRUE, !.value = oam.index]
          [] SpritePuts -> [started EXCEPT !.index = IF last THEN 0 ELSE @ + 1,
                                           !.active = ~last, !.aligned = ~last]
          [] OTHER      -> started

\* A DMA takes this cycle from the CPU.
DmaCycle ==
    /\ ~native /\ Wants
    /\ oam' = SpriteStep
    /\ LET fetched == IF SampleGets THEN Fetched(dmc) ELSE dmc
       IN  EndCycle([fetched EXCEPT !.halt = @ /\ PutNow])
    /\ UNCHANGED <<yields, busy, native>>

-----------------------------------------------------------------------------
\* The CPU's own access, and whichever is its next.
NextAccess ==
    /\ yields' \in BOOLEAN
    /\ busy' = IF yields' THEN 0 ELSE busy + 1
    /\ busy' <= MaxBusy
    /\ UNCHANGED native

CpuCycle ==
    /\ ~native /\ ~Wants
    /\ NextAccess
    /\ EndCycle(dmc)
    /\ UNCHANGED oam

\* apu_write.
Writes(register) ==
    /\ register \in Registers
    /\ ~native /\ ~yields
    /\ NextAccess

\* $4010
WriteRate ==
    /\ Writes("rate") /\ UNCHANGED oam
    /\ \E rate \in Rates, loop, irq_enable \in BOOLEAN :
        EndCycle([dmc EXCEPT !.rate = rate, !.loop = loop, !.irq_enable = irq_enable,
                             !.irq = @ /\ irq_enable])
\* $4013
WriteLength ==
    /\ Writes("length") /\ UNCHANGED oam
    /\ \E len \in Lens : EndCycle([dmc EXCEPT !.len = len])

\* $4014
WriteSpriteDma ==
    /\ Writes("sprite")
    /\ oam' = [oam EXCEPT !.active = TRUE, !.first = TRUE, !.index = 0]
    /\ EndCycle(dmc)

\* $4015.  A disable in the cycle a sample DMA is about to start in lets it
\* run; an enable just before the output unit asks for a byte has the DMA it
\* asks for cancelled again.
WriteEnable ==
    /\ Writes("enable") /\ UNCHANGED oam
    /\ \E on \in BOOLEAN :
        LET restarts == on /\ dmc.bytes = 0
            late == ~on /\ dmc.timer = (IF put THEN dmc.rate ELSE 2)
            arms == on /\ dmc.timer = (IF put THEN 8 ELSE 10)
        IN  EndCycle([dmc EXCEPT !.enable = on, !.irq = FALSE,
                                 !.bytes = IF restarts THEN dmc.len ELSE @,
                                 !.start_delay = IF restarts /\ dmc.silent THEN 2 ELSE @,
                                 !.enable_delay = (IF put THEN 3 ELSE 4) + (IF late THEN 2 ELSE 0),
                                 !.armed = @ \/ arms])

-----------------------------------------------------------------------------
\* Mutant: a start that $4015 asked for is not looked for.
IntervalReadyEarly ==
    /\ ~oam.active /\ ~dmc.dma /\ dmc.enable_delay = 0
    /\ ~dmc.abort /\ ~dmc.armed /\ ~dmc.irq

\* Native intervals: compiled code that touches no device runs ahead, and the
\* clocks it owes are run together, with no DMA asked for and no interrupt
\* line sampled.
IntervalReady ==
    /\ ~oam.active /\ ~dmc.dma /\ dmc.bytes = 0
    /\ dmc.enable_delay = 0 /\ dmc.start_delay = 0
    /\ ~dmc.abort /\ ~dmc.armed /\ ~dmc.irq

NativeBegin ==
    /\ ~native /\ ~Extra /\ ~Pal /\ IntervalReady
    /\ native' = TRUE
    /\ UNCHANGED <<put, dmc, oam, yields, busy, odd, active>>

NativeCycle ==
    /\ native
    /\ NextAccess
    /\ dmc' = Clocked(dmc) /\ put' = ~put /\ odd' = ~odd
    /\ UNCHANGED <<oam, active>>

NativeFlush ==
    /\ native
    /\ native' = FALSE
    /\ UNCHANGED <<put, dmc, oam, yields, busy, odd, active>>

\* apu_power_on, and the first clock of the first cycle.
Init ==
    /\ put = FALSE /\ odd = FALSE /\ active = FALSE /\ native = FALSE
    /\ \E rate \in Rates :
        dmc = [timer |-> PowerTimer, rate |-> rate, bits |-> Bits, full |-> FALSE,
               bytes |-> 0, len |-> 1, loop |-> FALSE, silent |-> TRUE,
               irq_enable |-> FALSE, irq |-> FALSE,
               enable |-> FALSE, enable_delay |-> 0, playing |-> FALSE, start_delay |-> 0,
               dma |-> FALSE, halt |-> FALSE, cooldown |-> 0,
               abort |-> FALSE, armed |-> FALSE]
    /\ oam = [active |-> FALSE, first |-> FALSE, halt |-> FALSE, aligned |-> FALSE,
              index |-> 0, value |-> 0]
    /\ yields = TRUE /\ busy = 0

Next ==
    \/ DmaCycle \/ CpuCycle
    \/ WriteRate \/ WriteLength \/ WriteSpriteDma \/ WriteEnable
    \/ NativeBegin \/ NativeCycle \/ NativeFlush

Cycle == DmaCycle \/ CpuCycle \/ WriteRate \/ WriteLength \/ WriteSpriteDma \/ WriteEnable
Spec == Init /\ [][Next]_vars /\ WF_vars(Cycle) /\ WF_vars(NativeFlush)
-----------------------------------------------------------------------------
(***************************************************************************)
(* Properties                                                              *)
(***************************************************************************)
Byte == 0..PageSize - 1

Channel == [timer : Nat, rate : Rates, bits : 1..Bits, full : BOOLEAN,
            bytes : Nat, len : Nat, loop : BOOLEAN, silent : BOOLEAN,
            irq_enable : BOOLEAN, irq : BOOLEAN, enable : BOOLEAN,
            enable_delay : Nat, playing : BOOLEAN, start_delay : Nat,
            dma : BOOLEAN, halt : BOOLEAN, cooldown : {0, 2},
            abort : BOOLEAN, armed : BOOLEAN]
Sprite == [active : BOOLEAN, first : BOOLEAN, halt : BOOLEAN, aligned : BOOLEAN,
           index : Byte, value : Byte]

TypeOK ==
    /\ put \in BOOLEAN /\ odd \in BOOLEAN /\ active \in BOOLEAN /\ native \in BOOLEAN
    /\ yields \in BOOLEAN /\ busy \in Nat
    /\ dmc \in Channel /\ oam \in Sprite

\* The byte read is held from a get cycle to the put cycle after it: between
\* them the CPU does not run, and no second DMA reads.
SpriteHeld ==
    /\ ~oam.halt
    /\ ~oam.active \/ oam.first => ~oam.aligned
    /\ oam.active /\ ~oam.first => yields /\ ~native
    /\ put /\ oam.aligned => oam.value = oam.index

\* While a native interval is open, the state that made it ready still holds.
NativeIdle == native => ~Extra /\ IntervalReady

\* The inductive invariant.  The order of sprite bytes is claimed of a machine
\* with no added lines.
IInv ==
    /\ TypeOK
    /\ NativeIdle
    /\ ~Extra => ~active /\ SpriteHeld

\* A sprite DMA writes the bytes of its page to $2004 one by one, each the byte
\* the page holds at the index it is written for, whatever sample DMAs take of
\* its cycles (oam_dma_get, oam_dma_put, dmc_dma_get).
SpriteOrder == [][~native /\ Wants /\ SpritePuts => oam.value = oam.index]_vars

\* In a native interval, which runs neither DMA and samples no interrupt line,
\* no DMA is asked for and no sample's interrupt is raised
\* (apu_native_interval_ready).
NativeQuiet == native => ~SampleWants /\ ~oam.active /\ ~dmc.irq

\* A DMA that holds the CPU lets it go (dma_cycle).
Released == Wants ~> ~Wants

\* Why it does: the cycles each DMA has left where it has them all.  A sample
\* DMA waits for a get cycle to let its halt go, another one passes its time,
\* and it reads at the next.  A sprite DMA's byte takes a get and a put cycle; a
\* put cycle that finds no byte read is one more.
SampleLeft ==
    IF dmc.dma THEN (IF dmc.halt THEN 2 ELSE 0) + (IF put THEN 2 ELSE 1) ELSE 0
SpriteLeft ==
    IF oam.active
    THEN 3 * (PageSize - oam.index - 1)
           + (IF put THEN IF oam.aligned THEN 1 ELSE 3 ELSE IF oam.first THEN 4 ELSE 2)
    ELSE 0

\* Each cycle the DMAs take brings a sample DMA nearer to its read, and that
\* cycle asks for no other; it brings a sprite DMA nearer to its last byte
\* unless a sample's read has it read the byte again.
RunsDown ==
    [][DmaCycle =>
         /\ dmc.dma => SampleLeft' < SampleLeft
         /\ oam.active => \/ SpriteLeft' < SpriteLeft
                          \/ SampleGets /\ ~dmc'.dma /\ SpriteLeft' = SpriteLeft + 1]_vars

\* A sample that plays comes to its end when the program leaves $4015 alone, if
\* it is not looped.
SampleEnds == <>[][~WriteEnable]_vars =>
                  (dmc.playing /\ dmc.bytes > 0 ~> ~dmc.playing \/ dmc.loop)
=============================================================================
