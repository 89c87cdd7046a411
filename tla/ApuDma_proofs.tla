--------------------------- MODULE ApuDma_proofs ---------------------------
(***************************************************************************)
(* Theorems about ApuDma, for any size of a page and of a byte, any table  *)
(* of rates and any program.                                               *)
(*                                                                         *)
(* SpriteHeld is what makes the sprite DMA's order inductive: the DMA that *)
(* has begun never lets the CPU in between a get cycle and the put cycle   *)
(* after it, and on a put cycle an aligned byte is the one of its index.   *)
(***************************************************************************)
EXTENDS ApuDma, TLAPS

\* The sample channel keeps its type through every clock; between its count
\* reaching 0 and its reload its bits may be 0.
Counted == [timer : Nat, rate : Rates, bits : 0..Bits, full : BOOLEAN,
            bytes : Nat, len : Nat, loop : BOOLEAN, silent : BOOLEAN,
            irq_enable : BOOLEAN, irq : BOOLEAN, enable : BOOLEAN,
            enable_delay : Nat, playing : BOOLEAN, start_delay : Nat,
            dma : BOOLEAN, halt : BOOLEAN, cooldown : {0, 2},
            abort : BOOLEAN, armed : BOOLEAN]

LEMMA OutputEndType ==
    ASSUME NEW d \in Counted PROVE OutputEnd(d) \in Channel
<1> DEFINE asked == d.bytes > 0 \/ d.armed
           starts == asked /\ ~d.dma /\ d.cooldown = 0
           s == ~asked
           m == d.dma \/ starts
           h == d.halt \/ starts
           a == d.abort \/ d.armed
           b == Bits
<1>1. s \in BOOLEAN /\ m \in BOOLEAN /\ h \in BOOLEAN /\ a \in BOOLEAN
  OBVIOUS
<1>2. b \in 1..Bits
  BY DmaAssumption
<1>3. OutputEnd(d) = [d EXCEPT !.bits = b, !.full = FALSE, !.silent = s, !.dma = m,
                               !.halt = h, !.abort = a, !.armed = FALSE]
  BY Zenon DEF OutputEnd
<1> HIDE DEF s, m, h, a, b
<1> QED
  BY <1>1, <1>2, <1>3 DEF Counted, Channel

LEMMA OutputClockType ==
    ASSUME NEW d \in Channel PROVE OutputClock(d) \in Channel
<1>1. CASE d.timer > 2
  <2> DEFINE t == d.timer - 2
  <2>1. t \in Nat
    BY <1>1 DEF Channel
  <2>2. OutputClock(d) = [d EXCEPT !.timer = t, !.cooldown = 0]
    BY <1>1, Zenon DEF OutputClock
  <2> HIDE DEF t
  <2> QED
    BY <2>1, <2>2 DEF Channel
<1>2. CASE ~(d.timer > 2)
  <2> DEFINE t == d.rate
             b == d.bits - 1
             shifted == [d EXCEPT !.timer = t, !.bits = b]
             ended == IF shifted.bits = 0 THEN OutputEnd(shifted) ELSE shifted
  <2>1. t \in Nat /\ b \in 0..Bits /\ (b # 0 => b \in 1..Bits)
    BY DmaAssumption DEF Channel
  <2>2. OutputClock(d) = [ended EXCEPT !.cooldown = 0]
    BY <1>2, Zenon DEF OutputClock
  <2> HIDE DEF t, b
  <2>3. shifted \in Counted /\ shifted.bits = b
    BY <2>1 DEF Channel, Counted
  <2>4. b # 0 => shifted \in Channel
    BY <2>1 DEF Channel
  <2>5. ended \in Channel
    BY <2>3, <2>4, OutputEndType
  <2> HIDE DEF ended
  <2> QED
    BY <2>2, <2>5 DEF Channel
<1> QED
  BY <1>1, <1>2

LEMMA StartClockType ==
    ASSUME NEW d \in Channel PROVE StartClock(d) \in Channel
<1> DEFINE starts == d.start_delay = 1 /\ ~d.dma
           t == IF d.start_delay > 0 THEN d.start_delay - 1 ELSE 0
           m == d.dma \/ starts
           h == d.halt \/ starts
           s == d.silent /\ ~starts
<1>1. t \in Nat /\ m \in BOOLEAN /\ h \in BOOLEAN /\ s \in BOOLEAN
  BY DEF Channel
<1>2. StartClock(d) = [d EXCEPT !.start_delay = t, !.dma = m, !.halt = h, !.silent = s]
  BY Zenon DEF StartClock
<1> HIDE DEF t, m, h, s
<1> QED
  BY <1>1, <1>2 DEF Channel

LEMMA EnableClockType ==
    ASSUME NEW d \in Channel PROVE EnableClock(d) \in Channel
<1> DEFINE t == IF d.enable_delay > 0 THEN d.enable_delay - 1 ELSE 0
           p == IF d.enable_delay = 1 THEN d.enable ELSE d.playing
           n == IF d.enable_delay = 1 /\ ~d.enable THEN 0 ELSE d.bytes
<1>1. t \in Nat /\ p \in BOOLEAN /\ n \in Nat
  BY DEF Channel
<1>2. EnableClock(d) = [d EXCEPT !.enable_delay = t, !.playing = p, !.bytes = n]
  BY Zenon DEF EnableClock
<1> HIDE DEF t, p, n
<1> QED
  BY <1>1, <1>2 DEF Channel

LEMMA ClockedType ==
    ASSUME NEW d \in Channel PROVE Clocked(d) \in Channel
BY OutputClockType, StartClockType, EnableClockType, Zenon DEF Clocked

LEMMA FetchedType ==
    ASSUME NEW d \in Channel PROVE Fetched(d) \in Channel
<1> DEFINE left == IF d.bytes > 0 THEN d.bytes - 1 ELSE 0
           n == IF left = 0 /\ d.loop THEN d.len ELSE left
           p == d.playing /\ (left > 0 \/ d.loop)
           i == d.irq \/ (left = 0 /\ ~d.loop /\ d.irq_enable)
<1>1. n \in Nat /\ p \in BOOLEAN /\ i \in BOOLEAN
  BY DEF Channel
<1>2. Fetched(d) = [d EXCEPT !.full = TRUE, !.dma = FALSE, !.cooldown = 2,
                             !.bytes = n, !.playing = p, !.irq = i]
  BY Zenon DEF Fetched
<1> HIDE DEF n, p, i
<1> QED
  BY <1>1, <1>2 DEF Channel

\* So it does to the end of a cycle.
LEMMA EndCycleType ==
    ASSUME NEW d \in Channel, put \in BOOLEAN, odd \in BOOLEAN, active \in BOOLEAN, EndCycle(d)
    PROVE  dmc' \in Channel /\ put' \in BOOLEAN /\ odd' \in BOOLEAN /\ active' \in BOOLEAN
<1> DEFINE a == d.abort /\ ~d.dma
           aborted == [d EXCEPT !.abort = a]
<1>1. a \in BOOLEAN
  OBVIOUS
<1> HIDE DEF a
<1>2. aborted \in Channel
  BY <1>1 DEF Channel
<1>3. /\ odd' = ~odd
      /\ active' \in IF Extra THEN BOOLEAN ELSE {FALSE}
      /\ \E paused \in {active, active'} :
            IF paused THEN dmc' = aborted /\ put' = put
                      ELSE dmc' = Clocked(aborted) /\ put' = ~put
  BY Zenon DEF EndCycle, a
<1> HIDE DEF aborted
<1>4. dmc' \in Channel
  BY <1>2, <1>3, ClockedType
<1>5. put' \in BOOLEAN /\ odd' \in BOOLEAN
  BY <1>3, Zenon
<1>6. active' \in BOOLEAN
  BY <1>3
<1> QED
  BY <1>4, <1>5, <1>6

LEMMA SpriteStepType ==
    ASSUME TypeOK PROVE SpriteStep \in Sprite
<1> DEFINE h == Halted /\ PutNow
           last == oam.index = PageSize - 1
           i == IF last THEN 0 ELSE oam.index + 1
           n == ~last
           started == [oam EXCEPT !.first = FALSE, !.halt = h]
<1>1. h \in BOOLEAN /\ n \in BOOLEAN
  OBVIOUS
<1>2. i \in Byte
  BY DmaAssumption DEF TypeOK, Sprite, Byte
<1>3. SpriteStep = CASE SampleGets -> [started EXCEPT !.aligned = FALSE]
                     [] SpriteGets -> [started EXCEPT !.aligned = TRUE, !.value = oam.index]
                     [] SpritePuts -> [started EXCEPT !.index = i, !.active = n, !.aligned = n]
                     [] OTHER      -> started
  BY Zenon DEF SpriteStep
<1> HIDE DEF h, i, n
<1>4. started \in Sprite /\ oam.index \in Byte
  BY <1>1 DEF TypeOK, Sprite
<1> HIDE DEF started
<1>5. /\ [started EXCEPT !.aligned = FALSE] \in Sprite
      /\ [started EXCEPT !.aligned = TRUE, !.value = oam.index] \in Sprite
      /\ [started EXCEPT !.index = i, !.active = n, !.aligned = n] \in Sprite
  BY <1>1, <1>2, <1>4 DEF Sprite
<1> QED
  BY <1>3, <1>4, <1>5

\* Type correctness, action by action.
LEMMA InitType == Init => TypeOK
<1> SUFFICES ASSUME Init PROVE TypeOK
  OBVIOUS
<1>1. PICK rate \in Rates :
        dmc = [timer |-> PowerTimer, rate |-> rate, bits |-> Bits, full |-> FALSE,
               bytes |-> 0, len |-> 1, loop |-> FALSE, silent |-> TRUE,
               irq_enable |-> FALSE, irq |-> FALSE,
               enable |-> FALSE, enable_delay |-> 0, playing |-> FALSE, start_delay |-> 0,
               dma |-> FALSE, halt |-> FALSE, cooldown |-> 0,
               abort |-> FALSE, armed |-> FALSE]
  BY Zenon DEF Init
<1>2. Bits \in 1..Bits /\ PowerTimer \in Nat /\ 0 \in Byte
  BY DmaAssumption DEF Byte
<1>3. dmc \in Channel
  BY <1>1, <1>2 DEF Channel
<1>4. oam \in Sprite
  BY <1>2 DEF Init, Sprite
<1> QED
  BY <1>3, <1>4 DEF Init, TypeOK

LEMMA AccessType ==
    ASSUME TypeOK, NextAccess PROVE yields' \in BOOLEAN /\ busy' \in Nat /\ native' \in BOOLEAN
BY DEF TypeOK, NextAccess

LEMMA DmaCycleType ==
    ASSUME TypeOK, DmaCycle PROVE TypeOK'
<1> DEFINE fetched == IF SampleGets THEN Fetched(dmc) ELSE dmc
           h == fetched.halt /\ PutNow
           held == [fetched EXCEPT !.halt = h]
<1>1. h \in BOOLEAN
  OBVIOUS
<1>2. fetched \in Channel
  BY FetchedType DEF TypeOK
<1>3. EndCycle(held) /\ oam' = SpriteStep /\ UNCHANGED <<yields, busy, native>>
  BY Zenon DEF DmaCycle
<1> HIDE DEF h, fetched
<1>4. held \in Channel
  BY <1>1, <1>2 DEF Channel
<1> HIDE DEF held
<1>5. dmc' \in Channel /\ put' \in BOOLEAN /\ odd' \in BOOLEAN /\ active' \in BOOLEAN
  BY <1>3, <1>4, EndCycleType DEF TypeOK
<1>6. oam' \in Sprite
  BY <1>3, SpriteStepType
<1> QED
  BY <1>3, <1>5, <1>6, Zenon DEF TypeOK

\* A cycle of the CPU's own that leaves the channel as e.
LEMMA OwnCycleType ==
    ASSUME TypeOK, NextAccess, NEW e \in Channel, EndCycle(e), oam' \in Sprite PROVE TypeOK'
<1>1. dmc' \in Channel /\ put' \in BOOLEAN /\ odd' \in BOOLEAN /\ active' \in BOOLEAN
  BY EndCycleType DEF TypeOK
<1> QED
  BY <1>1, AccessType, Zenon DEF TypeOK

LEMMA WriteRateType ==
    ASSUME TypeOK, WriteRate PROVE TypeOK'
<1>1. PICK rate \in Rates, loop \in BOOLEAN, irq_enable \in BOOLEAN :
        EndCycle([dmc EXCEPT !.rate = rate, !.loop = loop, !.irq_enable = irq_enable,
                             !.irq = @ /\ irq_enable])
  BY Zenon DEF WriteRate
<1> DEFINE i == dmc.irq /\ irq_enable
<1>2. i \in BOOLEAN
  OBVIOUS
<1>3. EndCycle([dmc EXCEPT !.rate = rate, !.loop = loop, !.irq_enable = irq_enable, !.irq = i])
  BY <1>1, Zenon
<1> HIDE DEF i
<1>4. [dmc EXCEPT !.rate = rate, !.loop = loop, !.irq_enable = irq_enable, !.irq = i] \in Channel
  BY <1>2 DEF TypeOK, Channel
<1>5. NextAccess /\ oam' \in Sprite
  BY DEF WriteRate, Writes, TypeOK
<1> QED
  BY <1>3, <1>4, <1>5, OwnCycleType

LEMMA WriteLengthType ==
    ASSUME TypeOK, WriteLength PROVE TypeOK'
<1>1. PICK len \in Lens : EndCycle([dmc EXCEPT !.len = len])
  BY Zenon DEF WriteLength
<1>2. len \in Nat
  BY DmaAssumption
<1>3. [dmc EXCEPT !.len = len] \in Channel
  BY <1>2 DEF TypeOK, Channel
<1>4. NextAccess /\ oam' \in Sprite
  BY DEF WriteLength, Writes, TypeOK
<1> QED
  BY <1>1, <1>3, <1>4, OwnCycleType

LEMMA WriteSpriteDmaType ==
    ASSUME TypeOK, WriteSpriteDma PROVE TypeOK'
<1>1. 0 \in Byte
  BY DmaAssumption DEF Byte
<1>2. oam' \in Sprite
  BY <1>1 DEF WriteSpriteDma, TypeOK, Sprite
<1>3. NextAccess /\ EndCycle(dmc) /\ dmc \in Channel
  BY DEF WriteSpriteDma, Writes, TypeOK
<1> QED
  BY <1>2, <1>3, OwnCycleType

LEMMA WriteEnableType ==
    ASSUME TypeOK, WriteEnable PROVE TypeOK'
<1>1. PICK on \in BOOLEAN :
        LET restarts == on /\ dmc.bytes = 0
            late == ~on /\ dmc.timer = (IF put THEN dmc.rate ELSE 2)
            arms == on /\ dmc.timer = (IF put THEN 8 ELSE 10)
        IN  EndCycle([dmc EXCEPT !.enable = on, !.irq = FALSE,
                                 !.bytes = IF restarts THEN dmc.len ELSE @,
                                 !.start_delay = IF restarts /\ dmc.silent THEN 2 ELSE @,
                                 !.enable_delay = (IF put THEN 3 ELSE 4) + (IF late THEN 2 ELSE 0),
                                 !.armed = @ \/ arms])
  BY Zenon DEF WriteEnable
<1> DEFINE restarts == on /\ dmc.bytes = 0
           late == ~on /\ dmc.timer = (IF put THEN dmc.rate ELSE 2)
           arms == on /\ dmc.timer = (IF put THEN 8 ELSE 10)
           b == IF restarts THEN dmc.len ELSE dmc.bytes
           s == IF restarts /\ dmc.silent THEN 2 ELSE dmc.start_delay
           t == (IF put THEN 3 ELSE 4) + (IF late THEN 2 ELSE 0)
           a == dmc.armed \/ arms
<1>2. b \in Nat /\ s \in Nat /\ t \in Nat /\ a \in BOOLEAN
  BY DEF TypeOK, Channel
<1>3. EndCycle([dmc EXCEPT !.enable = on, !.irq = FALSE, !.bytes = b, !.start_delay = s,
                           !.enable_delay = t, !.armed = a])
  BY <1>1, Zenon
<1> HIDE DEF b, s, t, a
<1>4. [dmc EXCEPT !.enable = on, !.irq = FALSE, !.bytes = b, !.start_delay = s,
                  !.enable_delay = t, !.armed = a] \in Channel
  BY <1>2 DEF TypeOK, Channel
<1>5. NextAccess /\ oam' \in Sprite
  BY DEF WriteEnable, Writes, TypeOK
<1> QED
  BY <1>3, <1>4, <1>5, OwnCycleType

LEMMA NextType ==
    ASSUME TypeOK, [Next]_vars PROVE TypeOK'
<1>1. CASE CpuCycle
  <2>1. NextAccess /\ EndCycle(dmc) /\ dmc \in Channel /\ oam' \in Sprite
    BY <1>1 DEF CpuCycle, TypeOK
  <2> QED
    BY <2>1, OwnCycleType
<1>2. CASE NativeBegin \/ NativeFlush
  BY <1>2 DEF NativeBegin, NativeFlush, TypeOK
<1>3. CASE NativeCycle
  <2>1. Clocked(dmc) \in Channel
    BY ClockedType DEF TypeOK
  <2>2. NextAccess /\ dmc' \in Channel /\ put' \in BOOLEAN /\ odd' \in BOOLEAN
        /\ active' \in BOOLEAN /\ oam' \in Sprite
    BY <1>3, <2>1, Zenon DEF NativeCycle, TypeOK
  <2> QED
    BY <2>2, AccessType, Zenon DEF TypeOK
<1>4. CASE UNCHANGED vars
  BY <1>4 DEF TypeOK, vars
<1> QED
  BY <1>1, <1>2, <1>3, <1>4, DmaCycleType, WriteRateType, WriteLengthType, WriteSpriteDmaType,
     WriteEnableType DEF Next

-----------------------------------------------------------------------------
\* A channel with nothing to fetch stays so through every clock.
Still(d) ==
    /\ ~d.dma /\ d.bytes = 0 /\ d.enable_delay = 0 /\ d.start_delay = 0
    /\ ~d.abort /\ ~d.armed /\ ~d.irq

LEMMA StillClocked ==
    ASSUME NEW d \in Channel, Still(d) PROVE Still(Clocked(d))
<1>1. ASSUME NEW e \in Counted, Still(e) PROVE Still(OutputEnd(e))
  BY <1>1 DEF OutputEnd, Still, Counted
<1>2. Still(OutputClock(d))
  <2> DEFINE t == d.rate
             b == d.bits - 1
             shifted == [d EXCEPT !.timer = t, !.bits = b]
             ended == IF shifted.bits = 0 THEN OutputEnd(shifted) ELSE shifted
  <2>1. t \in Nat /\ b \in 0..Bits /\ (b # 0 => b \in 1..Bits)
    BY DmaAssumption DEF Channel
  <2>2. OutputClock(d) = IF d.timer > 2 THEN [d EXCEPT !.timer = @ - 2, !.cooldown = 0]
                         ELSE [ended EXCEPT !.cooldown = 0]
    BY Zenon DEF OutputClock
  <2> HIDE DEF t, b
  <2>3. shifted \in Counted /\ Still(shifted) /\ shifted.bits = b
    BY <2>1 DEF Channel, Counted, Still
  <2>4. b # 0 => shifted \in Channel
    BY <2>1 DEF Channel
  <2>5. Still(ended) /\ ended \in Channel
    BY <1>1, <2>3, <2>4, OutputEndType, Zenon
  <2> HIDE DEF ended
  <2> QED
    BY <2>2, <2>5 DEF Still, Channel
<1>3. Still(StartClock(d))
  BY DEF StartClock, Still, Channel
<1>4. ASSUME NEW e \in Channel, Still(e) PROVE Still(EnableClock(e))
  BY <1>4 DEF EnableClock, Still, Channel
<1> QED
  BY <1>2, <1>3, <1>4, OutputClockType, StartClockType, Zenon DEF Clocked

LEMMA IdleStill ==
    ASSUME TypeOK, NativeIdle, native PROVE ~Extra /\ ~oam.active /\ Still(dmc)
BY Zenon DEF NativeIdle, IntervalReady, Still

LEMMA NextIdle ==
    ASSUME TypeOK, NativeIdle, [Next]_vars PROVE NativeIdle'
<1>1. CASE NativeCycle
  <2>1. ~Extra /\ ~oam.active /\ Still(Clocked(dmc))
    BY <1>1, IdleStill, StillClocked DEF NativeCycle, TypeOK
  <2> QED
    BY <1>1, <2>1, Zenon DEF NativeCycle, NativeIdle, IntervalReady, Still
<1>2. CASE NativeBegin \/ NativeFlush \/ UNCHANGED vars
  BY <1>2, Zenon DEF NativeBegin, NativeFlush, NativeIdle, IntervalReady, vars
<1>3. CASE DmaCycle \/ CpuCycle \/ WriteRate \/ WriteLength \/ WriteSpriteDma \/ WriteEnable
  <2>1. ~native'
    BY <1>3, Zenon DEF DmaCycle, CpuCycle, WriteRate, WriteLength, WriteSpriteDma, WriteEnable,
       Writes, NextAccess
  <2> QED
    BY <2>1 DEF NativeIdle
<1> QED
  BY <1>1, <1>2, <1>3, Zenon DEF Next

-----------------------------------------------------------------------------
\* With no added lines the put cycles alternate.
LEMMA Alternates ==
    ASSUME ~Extra, ~active, NEW d, EndCycle(d) PROVE (put' <=> ~put) /\ active' = FALSE
<1> PICK paused \in {active, active'} :
        IF paused THEN dmc' = [d EXCEPT !.abort = @ /\ ~d.dma] /\ put' = put
                  ELSE dmc' = Clocked([d EXCEPT !.abort = @ /\ ~d.dma]) /\ put' = ~put
  BY Zenon DEF EndCycle
<1>1. active' = FALSE
  <2>1. active' \in IF Extra THEN BOOLEAN ELSE {FALSE}
    BY Zenon DEF EndCycle
  <2> QED
    BY <2>1
<1>2. ~paused
  BY <1>1
<1> QED
  BY <1>1, <1>2, Zenon

LEMMA DmaCycleHeld ==
    ASSUME TypeOK, ~Extra, ~active, SpriteHeld, DmaCycle PROVE SpriteHeld'
<1>1. (put' <=> ~put) /\ active' = FALSE
  BY Alternates, Zenon DEF DmaCycle, TypeOK
<1>2. oam' = SpriteStep /\ ~native' /\ yields' /\ oam \in Sprite
  BY Zenon DEF DmaCycle, Wants, TypeOK
<1>3. ~oam'.halt /\ ~oam'.first
  BY <1>2 DEF SpriteStep, Halted, SpriteHeld, Sprite
<1>4. ~oam'.active => ~oam'.aligned
  BY <1>2 DEF SpriteStep, SpriteHeld, SpriteGets, SpritePuts, Sprite
<1>5. ~put /\ oam'.aligned => oam'.value = oam'.index
  BY <1>2 DEF SpriteStep, SpriteHeld, SpriteGets, SpritePuts, Halted, Begins, PutNow, Sprite
<1> QED
  BY <1>1, <1>2, <1>3, <1>4, <1>5, Zenon DEF SpriteHeld

\* Where the CPU has the cycle, no byte is held.
LEMMA OwnCycleHeld ==
    ASSUME TypeOK, SpriteHeld, ~Wants \/ ~yields
    PROVE  (~oam.active \/ oam.first) /\ ~oam.aligned
BY Zenon DEF SpriteHeld, Wants

LEMMA NextHeld ==
    ASSUME TypeOK, NativeIdle, ~Extra, ~active, SpriteHeld, [Next]_vars
    PROVE  ~active' /\ SpriteHeld'
<1>1. CASE DmaCycle
  BY <1>1, DmaCycleHeld, Alternates, Zenon DEF DmaCycle
<1>2. CASE CpuCycle
  BY <1>2, OwnCycleHeld, Alternates, Zenon DEF CpuCycle, SpriteHeld
<1>3. CASE WriteRate \/ WriteLength \/ WriteEnable
  BY <1>3, OwnCycleHeld, Alternates, Zenon DEF WriteRate, WriteLength, WriteEnable, Writes, SpriteHeld
<1>4. CASE WriteSpriteDma
  <2>1. ~oam.aligned /\ ~oam.halt /\ ~active'
    BY <1>4, OwnCycleHeld, Alternates, Zenon DEF WriteSpriteDma, Writes, SpriteHeld
  <2>2. oam'.first /\ ~oam'.aligned /\ ~oam'.halt
    BY <1>4, <2>1 DEF WriteSpriteDma, TypeOK, Sprite
  <2> QED
    BY <2>1, <2>2, Zenon DEF SpriteHeld
<1>5. CASE NativeBegin \/ NativeFlush \/ UNCHANGED vars
  <2>1. UNCHANGED <<put, oam, yields, active>> /\ (native' => native \/ ~oam.active)
    BY <1>5 DEF NativeBegin, NativeFlush, IntervalReady, vars
  <2> QED
    BY <2>1, Zenon DEF SpriteHeld
<1>6. CASE NativeCycle
  BY <1>6, Zenon DEF NativeCycle, NativeIdle, IntervalReady, SpriteHeld
<1> QED
  BY <1>1, <1>2, <1>3, <1>4, <1>5, <1>6, Zenon DEF Next

\* The machine is always in a state IInv describes: the state is of its type,
\* an open native interval is still one the APU is ready for, and the sprite
\* DMA holds the byte it is about to write.
THEOREM Invariant == Spec => []IInv
<1>1. Init => IInv
  <2> SUFFICES ASSUME Init PROVE IInv
    OBVIOUS
  <2>1. ~native /\ ~active
    BY DEF Init
  <2>2. SpriteHeld
    BY DEF Init, SpriteHeld
  <2> QED
    BY <2>1, <2>2, InitType, Zenon DEF IInv, NativeIdle
<1>2. IInv /\ [Next]_vars => IInv'
  BY NextType, NextIdle, NextHeld, Zenon DEF IInv
<1> QED
  BY <1>1, <1>2, PTL DEF Spec

\* In a native interval no DMA is asked for and no sample interrupt is raised,
\* whatever the program had asked of the channel before it.
THEOREM Quiet == Spec => []NativeQuiet
<1>1. IInv => NativeQuiet
  BY Zenon DEF IInv, NativeIdle, IntervalReady, NativeQuiet, SampleWants
<1> QED
  BY <1>1, Invariant, PTL

\* On a machine with no added lines, the sprite DMA writes each byte at its own
\* index.
THEOREM InOrder == ~Extra => (Spec => SpriteOrder)
<1> SUFFICES ASSUME ~Extra PROVE Spec => SpriteOrder
  OBVIOUS
<1>1. IInv /\ [Next]_vars => [~native /\ Wants /\ SpritePuts => oam.value = oam.index]_vars
  BY Zenon DEF IInv, SpriteHeld, SpritePuts, PutNow
<1> QED
  BY <1>1, Invariant, PTL DEF Spec, SpriteOrder

-----------------------------------------------------------------------------
\* How long the DMAs take.

\* A clock asks for no sample DMA while one is under way, nor in the cycle of
\* its read, whose cooldown keeps the output unit from asking.
Keeps(d, e) == e.dma = d.dma /\ e.halt = d.halt

LEMMA ClockedKeeps ==
    ASSUME NEW d \in Channel, d.dma \/ (~put /\ d.cooldown # 0)
    PROVE  Keeps(d, Clocked(d))
<1>1. ASSUME NEW e \in Counted, e.dma \/ e.cooldown # 0 PROVE Keeps(e, OutputEnd(e))
  BY <1>1 DEF OutputEnd, Keeps, Counted
<1>2. ASSUME d.dma \/ d.cooldown # 0 PROVE Keeps(d, OutputClock(d))
  <2> DEFINE t == d.rate
             b == d.bits - 1
             shifted == [d EXCEPT !.timer = t, !.bits = b]
             ended == IF shifted.bits = 0 THEN OutputEnd(shifted) ELSE shifted
  <2>1. t \in Nat /\ b \in 0..Bits /\ (b # 0 => b \in 1..Bits)
    BY DmaAssumption DEF Channel
  <2>2. OutputClock(d) = IF d.timer > 2 THEN [d EXCEPT !.timer = @ - 2, !.cooldown = 0]
                         ELSE [ended EXCEPT !.cooldown = 0]
    BY Zenon DEF OutputClock
  <2> HIDE DEF t, b
  <2>3. /\ shifted \in Counted /\ Keeps(d, shifted) /\ shifted.bits = b
        /\ shifted.dma = d.dma /\ shifted.cooldown = d.cooldown
    BY <2>1 DEF Channel, Counted, Keeps
  <2>4. b # 0 => shifted \in Channel
    BY <2>1 DEF Channel
  <2>5. Keeps(shifted, ended) /\ ended \in Channel
    <3>1. Keeps(shifted, shifted)
      BY DEF Keeps
    <3> QED
      BY <1>1, <1>2, <2>3, <2>4, <3>1, OutputEndType, Zenon
  <2>6. Keeps(d, ended)
    BY <2>3, <2>5, Zenon DEF Keeps
  <2> HIDE DEF ended
  <2> QED
    BY <2>2, <2>5, <2>6 DEF Keeps, Channel
<1>3. ASSUME d.dma PROVE Keeps(d, StartClock(d))
  BY <1>3 DEF StartClock, Keeps, Channel
<1>4. ASSUME NEW e \in Channel PROVE Keeps(e, EnableClock(e))
  BY <1>4 DEF EnableClock, Keeps, Channel
<1>5. CASE put
  <2>1. Clocked(d) = EnableClock(StartClock(d)) /\ StartClock(d) \in Channel
    BY <1>5, StartClockType, Zenon DEF Clocked
  <2>2. Keeps(d, StartClock(d)) /\ Keeps(StartClock(d), EnableClock(StartClock(d)))
    BY <1>3, <1>4, <1>5, <2>1, Zenon
  <2> QED
    BY <2>1, <2>2, Zenon DEF Keeps
<1>6. CASE ~put
  <2>1. Clocked(d) = EnableClock(OutputClock(d)) /\ OutputClock(d) \in Channel
    BY <1>6, OutputClockType, Zenon DEF Clocked
  <2>2. Keeps(d, OutputClock(d)) /\ Keeps(OutputClock(d), EnableClock(OutputClock(d)))
    BY <1>2, <1>4, <2>1, Zenon
  <2> QED
    BY <2>1, <2>2, Zenon DEF Keeps
<1> QED
  BY <1>5, <1>6

\* So neither does the end of a cycle, with no added lines.
LEMMA EndCycleKeeps ==
    ASSUME ~Extra, ~active, NEW d \in Channel, d.dma \/ (~put /\ d.cooldown # 0), EndCycle(d)
    PROVE  Keeps(d, dmc')
<1> DEFINE a == d.abort /\ ~d.dma
           aborted == [d EXCEPT !.abort = a]
<1>1. aborted \in Channel /\ Keeps(d, aborted) /\ aborted.cooldown = d.cooldown
  <2>1. a \in BOOLEAN
    OBVIOUS
  <2> HIDE DEF a
  <2> QED
    BY <2>1 DEF Channel, Keeps
<1>2. dmc' = Clocked(aborted)
  <2>1. active' \in IF Extra THEN BOOLEAN ELSE {FALSE}
    BY Zenon DEF EndCycle
  <2>2. \A paused \in {active, active'} : ~paused
    BY <2>1
  <2>3. \E paused \in {active, active'} :
          IF paused THEN dmc' = aborted /\ put' = put ELSE dmc' = Clocked(aborted) /\ put' = ~put
    BY Zenon DEF EndCycle
  <2> QED
    BY <2>2, <2>3, Zenon
<1> HIDE DEF aborted
<1>3. Keeps(aborted, Clocked(aborted))
  BY <1>1, ClockedKeeps, Zenon DEF Keeps
<1> QED
  BY <1>1, <1>2, <1>3, Zenon DEF Keeps

\* What a DMA's cycle leaves of the sample DMA.
LEMMA SampleRunsDown ==
    ASSUME TypeOK, ~Extra, ~active, DmaCycle, dmc.dma
    PROVE  SampleLeft' < SampleLeft /\ (SampleGets => ~dmc'.dma)
<1> DEFINE fetched == IF SampleGets THEN Fetched(dmc) ELSE dmc
           h == fetched.halt /\ PutNow
           held == [fetched EXCEPT !.halt = h]
<1>1. (put' <=> ~put) /\ PutNow = put /\ put \in BOOLEAN
  BY Alternates, Zenon DEF DmaCycle, PutNow, TypeOK
<1>2. EndCycle(held)
  BY Zenon DEF DmaCycle
<1>3. h \in BOOLEAN
  OBVIOUS
<1>4. fetched \in Channel /\ dmc \in Channel
  BY FetchedType DEF TypeOK
<1>5. CASE SampleGets
  <2>1. ~put /\ ~dmc.halt
    BY <1>1, <1>5 DEF SampleGets
  <2>2. fetched = Fetched(dmc) /\ ~Fetched(dmc).dma /\ Fetched(dmc).cooldown = 2
    BY <1>4, <1>5 DEF Fetched, Channel
  <2> HIDE DEF fetched, h
  <2>3. held \in Channel /\ ~held.dma /\ held.cooldown = 2
    BY <1>3, <1>4, <2>2 DEF Channel
  <2> HIDE DEF held
  <2>4. ~dmc'.dma
    BY <1>2, <2>1, <2>3, EndCycleKeeps DEF Keeps
  <2> QED
    BY <1>1, <2>1, <2>4 DEF SampleLeft
<1>6. CASE ~SampleGets
  <2>1. fetched = dmc
    BY <1>6
  <2>2. put \/ dmc.halt
    BY <1>1, <1>6 DEF SampleGets
  <2>3. h = (dmc.halt /\ put) /\ dmc.halt \in BOOLEAN
    BY <1>1, <1>4, <2>1 DEF Channel
  <2> HIDE DEF fetched, h
  <2>4. held \in Channel /\ held.dma /\ held.halt = h
    BY <1>3, <1>4, <2>1 DEF Channel
  <2> HIDE DEF held
  <2>5. dmc'.dma /\ dmc'.halt = h
    BY <1>2, <2>4, EndCycleKeeps DEF Keeps
  <2> QED
    BY <1>1, <1>6, <2>2, <2>3, <2>5 DEF SampleLeft
<1> QED
  BY <1>5, <1>6

\* What it leaves of the sprite DMA.
LEMMA SpriteRunsDown ==
    ASSUME TypeOK, ~Extra, ~active, SpriteHeld, DmaCycle, oam.active
    PROVE  \/ SpriteLeft' < SpriteLeft
           \/ SampleGets /\ SpriteLeft' = SpriteLeft + 1
<1>1. (put' <=> ~put) /\ PutNow = put /\ put \in BOOLEAN
  BY Alternates, Zenon DEF DmaCycle, PutNow, TypeOK
<1>2. oam' = SpriteStep /\ oam \in Sprite
  BY Zenon DEF DmaCycle, TypeOK
<1>3. oam.index \in Nat /\ oam.index < PageSize /\ PageSize \in Nat /\ ~oam.halt
  BY <1>2, DmaAssumption DEF Sprite, Byte, SpriteHeld
<1>4. CASE SampleGets
  <2>1. ~put /\ put' /\ ~SpriteGets /\ ~SpritePuts
    BY <1>1, <1>4 DEF SampleGets, SpriteGets, SpritePuts
  <2>2. oam'.active /\ ~oam'.aligned /\ oam'.index = oam.index /\ ~put /\ put'
    BY <1>2, <1>4, <2>1 DEF SpriteStep, Sprite
  <2> QED
    BY <1>3, <1>4, <2>2 DEF SpriteLeft
<1>5. CASE ~SampleGets /\ SpriteGets
  <2>1. ~put /\ put' /\ ~SpritePuts
    BY <1>1, <1>5 DEF SpriteGets, SpritePuts
  <2>2. oam'.active /\ oam'.aligned /\ oam'.index = oam.index
    BY <1>2, <1>5, <2>1 DEF SpriteStep, Sprite
  <2> QED
    BY <1>3, <2>1, <2>2 DEF SpriteLeft
<1>6. CASE SpritePuts
  <2>1. put /\ oam.aligned /\ ~put' /\ ~SampleGets /\ ~SpriteGets /\ ~oam.first
    BY <1>1, <1>6 DEF SpritePuts, SampleGets, SpriteGets, SpriteHeld
  <2>2. /\ oam'.active <=> oam.index # PageSize - 1
        /\ oam'.index = IF oam.index = PageSize - 1 THEN 0 ELSE oam.index + 1
        /\ ~oam'.first
    BY <1>2, <1>6, <2>1 DEF SpriteStep, Sprite
  <2> QED
    BY <1>3, <2>1, <2>2 DEF SpriteLeft
<1>7. CASE ~SampleGets /\ ~SpriteGets /\ ~SpritePuts
  <2>1. oam'.active /\ oam'.index = oam.index /\ ~oam'.first /\ oam'.aligned = oam.aligned
    BY <1>2, <1>7 DEF SpriteStep, Sprite
  <2>2. (put /\ ~oam.aligned) \/ (~put /\ oam.first /\ ~oam.aligned)
    BY <1>1, <1>2, <1>3, <1>7
       DEF SpriteGets, SpritePuts, Halted, Begins, SpriteHeld, Sprite
  <2> QED
    BY <1>1, <1>3, <2>1, <2>2 DEF SpriteLeft
<1> QED
  BY <1>4, <1>5, <1>6, <1>7

\* With no added lines both DMAs let the CPU go: each cycle they hold brings
\* them nearer to their end, but for a sample's read that costs a sprite DMA
\* one cycle more.
THEOREM Releases == ~Extra => (Spec => RunsDown)
<1> SUFFICES ASSUME ~Extra PROVE Spec => RunsDown
  OBVIOUS
<1> DEFINE Down ==
      /\ dmc.dma => SampleLeft' < SampleLeft
      /\ oam.active => \/ SpriteLeft' < SpriteLeft
                       \/ SampleGets /\ ~dmc'.dma /\ SpriteLeft' = SpriteLeft + 1
<1>1. ASSUME IInv, DmaCycle PROVE Down
  <2>1. TypeOK /\ ~active /\ SpriteHeld
    BY <1>1, Zenon DEF IInv
  <2>2. SampleGets => dmc.dma
    BY Zenon DEF SampleGets
  <2> QED
    BY <1>1, <2>1, <2>2, SampleRunsDown, SpriteRunsDown, Zenon
<1>2. IInv /\ [Next]_vars => [DmaCycle => Down]_vars
  BY <1>1
<1> QED
  BY <1>2, Invariant, PTL DEF Spec, RunsDown
=============================================================================
