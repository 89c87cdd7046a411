--------------------------- MODULE GuestRun_proofs ---------------------------
(***************************************************************************)
(* Theorems about GuestRun, for any tasks, any depth of handlers and any   *)
(* order of interrupts: where states are saved and loaded by plain         *)
(* programs before the handler runs (PollOnly), every restart goes on      *)
(* where the memory says the program is, and every task has its stack.     *)
(***************************************************************************)
EXTENDS GuestRun, TLAPS

Phases == HandlerPhases \cup {"poll", "post"}

-----------------------------------------------------------------------------
(* The open callbacks, as a sequence.                                      *)

LEMMA Lengths ==
    ASSUME NEW s \in Seq(Phases)
    PROVE  /\ Len(s) \in Nat /\ DOMAIN s = 1 .. Len(s)
           /\ s = <<>> <=> Len(s) = 0
           /\ \A i \in 1 .. Len(s) : s[i] \in Phases
OBVIOUS

LEMMA Pushed ==
    ASSUME NEW s \in Seq(Phases), NEW p \in Phases
    PROVE  /\ Append(s, p) \in Seq(Phases) /\ Append(s, p) # <<>>
           /\ Len(Append(s, p)) = Len(s) + 1 /\ Append(s, p)[Len(s) + 1] = p
           /\ \A i \in 1 .. Len(s) : Append(s, p)[i] = s[i]
           /\ Len(s) \in Nat /\ (s = <<>> <=> Len(s) = 0)
           /\ DOMAIN s = 1 .. Len(s) /\ DOMAIN Append(s, p) = 1 .. Len(s) + 1
OBVIOUS

LEMMA Popped ==
    ASSUME NEW s \in Seq(Phases), s # <<>>,
           NEW r, r = SubSeq(s, 1, Len(s) - 1)
    PROVE  /\ r \in Seq(Phases) /\ Len(r) = Len(s) - 1
           /\ \A i \in 1 .. Len(r) : r[i] = s[i]
           /\ Len(s) \in Nat \ {0} /\ (r = <<>> <=> Len(s) = 1)
           /\ DOMAIN s = 1 .. Len(s) /\ DOMAIN r = 1 .. Len(s) - 1
<1>1. Len(s) \in Nat \ {0} /\ DOMAIN s = 1 .. Len(s)
  OBVIOUS
<1>2. r \in Seq(Phases) /\ Len(r) = Len(s) - 1
  BY <1>1
<1>3. \A i \in 1 .. Len(r) : r[i] = s[i]
  BY <1>1, <1>2
<1>4. DOMAIN r = 1 .. Len(r) /\ (r = <<>> <=> Len(r) = 0)
  BY <1>2, Lengths
<1> QED
  BY <1>1, <1>2, <1>3, <1>4

LEMMA Changed ==
    ASSUME NEW s \in Seq(Phases), s # <<>>, NEW p \in Phases,
           NEW r, r = [s EXCEPT ![Len(s)] = p]
    PROVE  /\ r \in Seq(Phases) /\ Len(r) = Len(s) /\ r # <<>>
           /\ r[Len(s)] = p /\ \A i \in 1 .. Len(s) - 1 : r[i] = s[i]
           /\ Len(s) \in Nat \ {0}
           /\ DOMAIN s = 1 .. Len(s) /\ DOMAIN r = 1 .. Len(s)
OBVIOUS

-----------------------------------------------------------------------------
LEMMA TypeFacts ==
    ASSUME TypeOK
    PROVE  /\ calls \in Seq(Phases) /\ depth \in 0 .. MaxDepth /\ MaxDepth \in Nat
           /\ MaxDepth > 2 /\ g \in Machines
BY GuestRunAssumption DEF TypeOK, Phases, HandlerPhases

LEMMA TopPhase ==
    ASSUME TypeOK, NEW S, In(S)
    PROVE  /\ calls # <<>> /\ Len(calls) \in Nat \ {0} /\ Top = calls[Len(calls)]
           /\ Top \in S /\ Top \in Phases /\ DOMAIN calls = 1 .. Len(calls)
<1>1. calls # <<>> /\ Top \in S /\ Top = calls[Len(calls)]
  BY DEF In, Top
<1> QED
  BY <1>1, TypeFacts, Lengths

LEMMA InitInv == PollOnly /\ Init => IInv
<1> SUFFICES ASSUME PollOnly, Init PROVE IInv
  OBVIOUS
<1>1. Kernel \in Thread /\ Kernel \notin Channel
  BY GuestRunAssumption DEF Thread
<1>2. 0 \in Step
  BY GuestRunAssumption DEF Step
<1>3. g \in Machines
  BY <1>1, <1>2 DEF Init, Machines
<1>4. calls = <<>> /\ Len(calls) = 0 /\ DOMAIN calls = {} /\ calls \in Seq(Phases)
  BY DEF Init
<1>5. at \in Positions /\ context \in [Channel -> Contexts]
  BY <1>1, <1>2 DEF Init, Positions, Contexts, NoContext
<1>6. TypeOK
  <2>1. game \in Games /\ nesting \in BOOLEAN /\ rollback \in BOOLEAN
    BY DEF Init
  <2>2. saved \in States \cup {None} /\ native \in Thread
    BY <1>1 DEF Init
  <2>3. depth \in 0 .. MaxDepth /\ kept \in 0 .. MaxDepth /\ open \in Nat
    <3>1. 0 \in 0 .. MaxDepth
      BY GuestRunAssumption
    <3>2. depth = 0 /\ kept = 0 /\ open = 0
      BY DEF Init
    <3> QED
      BY <3>1, <3>2
  <2>7. pending \in BOOLEAN
    BY DEF Init
  <2>4. {resume, request} \subseteq Positions \cup {None} /\ inside \in BOOLEAN
    BY DEF Init
  <2>5. channel \in Channel \cup {None} /\ restart \in BOOLEAN /\ strayed \in BOOLEAN
    BY DEF Init
  <2>6. scheduler \in {"none", "saved", "old"}
    BY DEF Init
  <2> QED
    BY <1>3, <1>4, <1>5, <2>1, <2>2, <2>3, <2>4, <2>5, <2>6, <2>7 DEF TypeOK, Phases
<1>7. Nested /\ Counted
  BY <1>4 DEF Init, Nested, Counted, HandlerDone
<1>8. PlainPart
  BY <1>4, <1>1 DEF Init, PlainPart, Where
<1>9. KernelPart
  <2> SUFFICES ASSUME game = "kernel" PROVE KernelPart
    BY DEF KernelPart
  <2>1. g.step[Kernel] = 0 /\ g.who = Kernel
    BY <1>1 DEF Init
  <2>2. ~rollback /\ saved = None /\ request = None /\ native = g.who /\ at = Where(g)
    BY <2>1 DEF Init, Where, PollOnly
  <2>3. \A c \in Channel : context[c] = NoContext
    BY DEF Init
  <2> QED
    BY <2>1, <2>2, <2>3 DEF Init, KernelPart, NoContext
<1>10. OwnStack
  BY DEF Init, OwnStack
<1> QED
  BY <1>6, <1>7, <1>8, <1>9, <1>10 DEF Init, IInv

-----------------------------------------------------------------------------
(* Code of the program that runs in a callback.                            *)

still == <<program, saved, at, open, resume, request, stacks>>

LEMMA Typed ==
    ASSUME TypeOK, UNCHANGED still,
           g' \in Machines, calls' \in Seq(Phases), depth' \in 0 .. MaxDepth,
           pending' \in BOOLEAN, kept' \in 0 .. MaxDepth
    PROVE  TypeOK'
BY DEF TypeOK, still, program, stacks, Phases, States, Positions, Contexts

\* A handler wakes tasks and sets flags; where the program is stays.
SameProgram(m, n) ==
    /\ n.who = m.who /\ n.step = m.step
    /\ \A c \in Channel :
         n.task[c] = m.task[c] \/ (m.task[c] = "sleep" /\ n.task[c] = "ready")

LEMMA StacksKept ==
    ASSUME IInv, UNCHANGED still, SameProgram(g, g'),
           Len(calls') = Len(calls), calls' = <<>> <=> calls = <<>>
    PROVE  ~strayed' /\ PlainPart' /\ KernelPart' /\ OwnStack'
<1>1. Where(g') = Where(g)
  BY DEF Where, SameProgram
<1>2. ~strayed'
  BY DEF IInv, still, stacks
<1>3. PlainPart'
  <2> SUFFICES ASSUME game' = "plain" PROVE PlainPart'
    BY DEF PlainPart
  <2>1. game = "plain" /\ PlainPart
    BY DEF IInv, still, program
  <2>2. \A c \in Channel : g'.task[c] = "none"
    BY <2>1 DEF PlainPart, SameProgram
  <2>3. saved' # None => SavedWell'
    BY <2>1 DEF PlainPart, SavedWell, still
  <2> QED
    BY <1>1, <2>1, <2>2, <2>3 DEF PlainPart, still, stacks, SameProgram
<1>4. KernelPart'
  <2> SUFFICES ASSUME game' = "kernel" PROVE KernelPart'
    BY DEF KernelPart
  <2>1. game = "kernel" /\ KernelPart
    BY DEF IInv, still, program
  <2>2. inside => g'.task[native] = "run"
    BY <2>1 DEF KernelPart, SameProgram, Thread, IInv, TypeOK
  <2>3. restart => \A c \in Channel : g'.task[c] \in {"none", "new"}
    BY <2>1 DEF KernelPart, SameProgram
  <2> QED
    BY <1>1, <2>1, <2>2, <2>3 DEF KernelPart, still, program, stacks, SameProgram
<1>5. OwnStack'
  BY DEF IInv, OwnStack, still, stacks, SameProgram, Saved
<1> QED
  BY <1>2, <1>3, <1>4, <1>5

\* What a phase that replaces the innermost one must be, for the nesting to hold.
LEMMA NestedChange ==
    ASSUME TypeOK, Nested, calls # <<>>, NEW p \in Phases \ {"poll"}, Becomes(p),
           p \in Outer \cup {"late"} => Len(calls) = 1
    PROVE  Nested'
<1>1. /\ calls' \in Seq(Phases) /\ Len(calls') = Len(calls) /\ calls' # <<>>
      /\ calls'[Len(calls)] = p /\ \A i \in 1 .. Len(calls) - 1 : calls'[i] = calls[i]
      /\ Len(calls) \in Nat \ {0}
      /\ DOMAIN calls = 1 .. Len(calls) /\ DOMAIN calls' = 1 .. Len(calls)
  BY TypeFacts, Changed DEF Becomes
<1>2. Top' = p
  BY <1>1 DEF Top
<1>3. \A i \in DOMAIN calls' : calls'[i] \in {"poll", "post"} => i = Len(calls')
  BY <1>1 DEF Nested
<1>4. \A i \in DOMAIN calls' : calls'[i] \in Outer \cup {"late"} => i = 1
  BY <1>1 DEF Nested
<1> QED
  BY <1>2, <1>3, <1>4 DEF Nested

\* The outer handler is the only callback open, and the second one below it.
LEMMA OuterTop ==
    ASSUME IInv, NEW S \in SUBSET (Outer \cup {"late"}), In(S)
    PROVE  /\ Len(calls) = 1 /\ calls[1] \in S /\ calls[1] = Top /\ calls # <<>>
           /\ DOMAIN calls = {1} /\ TypeOK /\ Nested /\ Counted
           /\ calls \in Seq(Phases)
           /\ \A p \in Phases : Becomes(p) =>
                /\ calls'[1] = p /\ Len(calls') = 1 /\ DOMAIN calls' = {1}
                /\ calls' \in Seq(Phases) /\ calls' # <<>>
<1>1. TypeOK /\ Nested /\ Counted
  BY DEF IInv
<1>2. /\ calls # <<>> /\ Len(calls) \in Nat \ {0} /\ Top = calls[Len(calls)]
      /\ Top \in S /\ DOMAIN calls = 1 .. Len(calls)
  BY <1>1, TopPhase
<1>3. Len(calls) = 1
  BY <1>1, <1>2 DEF Nested
<1>4. calls \in Seq(Phases)
  BY <1>1, TypeFacts
<1>5. ASSUME NEW p \in Phases, Becomes(p)
      PROVE  /\ calls'[1] = p /\ Len(calls') = 1 /\ DOMAIN calls' = {1}
             /\ calls' \in Seq(Phases) /\ calls' # <<>>
  BY <1>2, <1>3, <1>4, <1>5, Changed DEF Becomes
<1> QED
  BY <1>1, <1>2, <1>3, <1>4, <1>5

LEMMA FirstHalfStep == IInv /\ FirstHalf => IInv'
<1> SUFFICES ASSUME IInv, FirstHalf PROVE IInv'
  OBVIOUS
<1>1. PICK woken \in SUBSET {c \in Channel : g.task[c] = "sleep"},
           waits \in BOOLEAN, on \in BOOLEAN :
        /\ g' = [g EXCEPT !.busy = TRUE, !.nmi = on, !.flag = ~waits,
                   !.task = [c \in Channel |-> IF c \in woken THEN "ready" ELSE @[c]]]
        /\ Becomes(IF waits THEN "wait" ELSE "second")
  BY DEF FirstHalf
<1> DEFINE p == IF waits THEN "wait" ELSE "second"
<1>2. p \in {"wait", "second"} /\ p \in Phases /\ Becomes(p)
  BY <1>1 DEF Phases, HandlerPhases
<1>3. {"first"} \in SUBSET (Outer \cup {"late"}) /\ In({"first"})
  BY DEF FirstHalf, Outer
<1>4. /\ Len(calls) = 1 /\ calls[1] = "first" /\ calls # <<>> /\ TypeOK /\ Nested /\ Counted
      /\ calls'[1] = p /\ Len(calls') = 1 /\ DOMAIN calls' = {1}
      /\ calls' \in Seq(Phases) /\ calls' # <<>>
  BY <1>2, <1>3, OuterTop
<1>5. g \in Machines
  BY <1>4, TypeFacts
<1>6. g' \in Machines /\ SameProgram(g, g') /\ g'.busy = TRUE /\ g'.lag = g.lag
  BY <1>1, <1>5 DEF Machines, SameProgram
<1>7. UNCHANGED still /\ UNCHANGED <<depth, pending, kept>>
  BY DEF FirstHalf, still
<1>8. TypeOK'
  BY <1>4, <1>6, <1>7, Typed DEF TypeOK
<1>9. Nested'
  BY <1>2, <1>4, NestedChange
<1>10. Counted'
  BY <1>2, <1>4, <1>6, <1>7 DEF Counted, HandlerDone, Outer
<1> QED
  BY <1>4, <1>6, <1>7, <1>8, <1>9, <1>10, StacksKept DEF IInv

LEMMA WaitsStep == IInv /\ Waits => IInv'
<1> SUFFICES ASSUME IInv, Waits PROVE IInv'
  OBVIOUS
<1>1. {"wait"} \in SUBSET (Outer \cup {"late"}) /\ In({"wait"}) /\ Becomes("second")
  BY DEF Waits, Outer
<1>2. "second" \in Phases
  BY DEF Phases, HandlerPhases
<1>3. /\ Len(calls) = 1 /\ calls[1] = "wait" /\ calls # <<>> /\ TypeOK /\ Nested /\ Counted
      /\ calls'[1] = "second" /\ Len(calls') = 1 /\ DOMAIN calls' = {1}
      /\ calls' \in Seq(Phases) /\ calls' # <<>> /\ DOMAIN calls = {1}
  BY <1>1, <1>2, OuterTop
<1>4. UNCHANGED still /\ UNCHANGED <<g, depth, pending, kept>>
  BY DEF Waits, still
<1>5. TypeOK'
  BY <1>3, <1>4, Typed, TypeFacts DEF TypeOK
<1>6. SameProgram(g, g')
  BY <1>4 DEF SameProgram
<1>7. Nested'
  BY <1>1, <1>2, <1>3, NestedChange
<1>8. Counted'
  BY <1>3, <1>4 DEF Counted, HandlerDone, Outer
<1> QED
  BY <1>3, <1>4, <1>5, <1>6, <1>7, <1>8, StacksKept DEF IInv

\* Both ends of the second half.
LEMMA HandledFacts ==
    ASSUME IInv, In({"second"}), Handled
    PROVE  /\ g' \in Machines /\ SameProgram(g, g')
           /\ g'.busy = FALSE /\ g'.lag = -1 /\ depth = 2
<1>1. {"second"} \in SUBSET (Outer \cup {"late"})
  BY DEF Outer
<1>2. calls # <<>> /\ calls[1] = "second" /\ Len(calls) = 1 /\ TypeOK /\ Counted
  BY <1>1, OuterTop
<1>3. g.lag = 0 /\ depth = 2
  BY <1>2 DEF Counted, HandlerDone, Outer
<1>4. g \in Machines
  BY <1>2, TypeFacts
<1>5. g' \in Machines
  <2>1. g' = [g EXCEPT !.busy = FALSE, !.nmi = TRUE, !.lag = -1]
    BY <1>3 DEF Handled
  <2>2. -1 \in -1 .. 1
    OBVIOUS
  <2> QED
    BY <1>4, <2>1, <2>2 DEF Machines
<1> QED
  BY <1>3, <1>4, <1>5 DEF Handled, Machines, SameProgram

LEMMA SecondHalfStep == IInv /\ SecondHalf => IInv'
<1> SUFFICES ASSUME IInv, SecondHalf PROVE IInv'
  OBVIOUS
<1>1. {"second"} \in SUBSET (Outer \cup {"late"}) /\ In({"second"}) /\ Becomes("post") /\ Handled
  BY DEF SecondHalf, Outer
<1>2. "post" \in Phases
  BY DEF Phases
<1>3. /\ Len(calls) = 1 /\ calls # <<>> /\ TypeOK /\ Nested /\ Counted
      /\ calls'[1] = "post" /\ Len(calls') = 1 /\ DOMAIN calls' = {1}
      /\ calls' \in Seq(Phases) /\ calls' # <<>>
  BY <1>1, <1>2, OuterTop
<1>4. g' \in Machines /\ SameProgram(g, g') /\ g'.busy = FALSE /\ g'.lag = -1 /\ depth = 2
  BY <1>1, HandledFacts
<1>5. UNCHANGED still /\ UNCHANGED <<pending, kept>> /\ depth' = 1
  BY <1>4 DEF SecondHalf, still
<1>6. TypeOK'
  <2>1. depth' \in 0 .. MaxDepth
    BY <1>5, GuestRunAssumption
  <2> QED
    BY <2>1, <1>3, <1>4, <1>5, Typed DEF TypeOK
<1>7. Nested'
  BY <1>1, <1>2, <1>3, NestedChange
<1>8. Counted'
  BY <1>3, <1>4, <1>5 DEF Counted, HandlerDone, Outer
<1> QED
  BY <1>3, <1>4, <1>5, <1>6, <1>7, <1>8, StacksKept DEF IInv

LEMMA SentElsewhereStep == IInv /\ SentElsewhere => IInv'
<1> SUFFICES ASSUME IInv, SentElsewhere PROVE IInv'
  OBVIOUS
<1>1. {"second"} \in SUBSET (Outer \cup {"late"}) /\ In({"second"}) /\ Becomes("late") /\ Handled
  BY DEF SentElsewhere, Outer
<1>2. "late" \in Phases
  BY DEF Phases, HandlerPhases
<1>3. /\ Len(calls) = 1 /\ calls # <<>> /\ TypeOK /\ Nested /\ Counted
      /\ calls'[1] = "late" /\ Len(calls') = 1 /\ DOMAIN calls' = {1}
      /\ calls' \in Seq(Phases) /\ calls' # <<>>
  BY <1>1, <1>2, OuterTop
<1>4. g' \in Machines /\ SameProgram(g, g') /\ g'.busy = FALSE /\ g'.lag = -1 /\ depth = 2
  BY <1>1, HandledFacts
<1>5. UNCHANGED still /\ pending' = FALSE /\ kept' = 2 /\ depth' = MaxDepth
  BY <1>4 DEF SentElsewhere, still
<1>6. TypeOK'
  <2>1. depth' \in 0 .. MaxDepth /\ kept' \in 0 .. MaxDepth
    BY <1>5, GuestRunAssumption
  <2> QED
    BY <2>1, <1>3, <1>4, <1>5, Typed
<1>7. Nested'
  BY <1>1, <1>2, <1>3, NestedChange
<1>8. Counted'
  BY <1>3, <1>4, <1>5, GuestRunAssumption DEF Counted, HandlerDone, Outer
<1> QED
  BY <1>3, <1>4, <1>5, <1>6, <1>7, <1>8, StacksKept DEF IInv

LEMMA LateEndsStep == IInv /\ LateEnds => IInv'
<1> SUFFICES ASSUME IInv, LateEnds PROVE IInv'
  OBVIOUS
<1>1. {"late"} \in SUBSET (Outer \cup {"late"}) /\ In({"late"}) /\ Becomes("post")
  BY DEF LateEnds
<1>2. "post" \in Phases
  BY DEF Phases
<1>3. /\ Len(calls) = 1 /\ calls[1] = "late" /\ calls # <<>> /\ TypeOK /\ Nested /\ Counted
      /\ calls'[1] = "post" /\ Len(calls') = 1 /\ DOMAIN calls' = {1} /\ DOMAIN calls = {1}
      /\ calls' \in Seq(Phases) /\ calls' # <<>>
  BY <1>1, <1>2, OuterTop
<1>4. kept = 2 /\ g.lag = -1 /\ g.busy = FALSE
  <2>1. g.busy \in BOOLEAN
    BY <1>3, TypeFacts DEF Machines
  <2> QED
    BY <2>1, <1>3 DEF Counted, HandlerDone
<1>5. UNCHANGED still /\ UNCHANGED <<g, pending>> /\ kept' = 0 /\ depth' = 1
  BY <1>4 DEF LateEnds, still
<1>6. TypeOK'
  <2>1. depth' \in 0 .. MaxDepth /\ kept' \in 0 .. MaxDepth /\ pending' \in BOOLEAN
    BY <1>3, <1>5, GuestRunAssumption DEF TypeOK
  <2> QED
    BY <2>1, <1>3, <1>5, Typed, TypeFacts
<1>7. SameProgram(g, g')
  BY <1>5 DEF SameProgram
<1>8. Nested'
  BY <1>1, <1>2, <1>3, NestedChange
<1>9. Counted'
  BY <1>3, <1>4, <1>5 DEF Counted, HandlerDone, Outer
<1> QED
  BY <1>3, <1>5, <1>6, <1>7, <1>8, <1>9, StacksKept DEF IInv

-----------------------------------------------------------------------------
(* Handlers at any level.                                                  *)

\* A nested handler gets further: the depth and the outer one stay.
LEMMA CountedChange ==
    ASSUME TypeOK, Counted, calls # <<>>, Top \in {"poll", "light"},
           NEW p \in {"light", "post"}, Becomes(p), depth > 1,
           UNCHANGED <<depth, kept>>, g'.lag = g.lag, g'.busy = g.busy
    PROVE  Counted'
<1>1. p \in Phases
  BY DEF Phases, HandlerPhases
<1>2. /\ Len(calls') = Len(calls) /\ calls' # <<>>
      /\ calls'[Len(calls)] = p /\ \A i \in 1 .. Len(calls) - 1 : calls'[i] = calls[i]
      /\ Len(calls) \in Nat \ {0}
      /\ DOMAIN calls = 1 .. Len(calls) /\ DOMAIN calls' = 1 .. Len(calls)
  BY <1>1, TypeFacts, Changed DEF Becomes
<1>3. depth \in Nat
  BY TypeFacts
<1>4. calls[Len(calls)] \in {"poll", "light"}
  BY DEF Top
<1>5. (\E i \in DOMAIN calls' : calls'[i] \in {"wait", "second"})
        <=> (\E i \in DOMAIN calls : calls[i] \in {"wait", "second"})
  BY <1>2, <1>4
<1>6. CASE Len(calls) = 1
  BY <1>2, <1>3, <1>4, <1>5, <1>6 DEF Counted, HandlerDone, Outer
<1>7. CASE Len(calls) # 1
  <2>1. calls'[1] = calls[1]
    BY <1>2, <1>7
  <2> QED
    BY <1>2, <1>3, <1>5, <1>7, <2>1 DEF Counted, HandlerDone, Outer
<1> QED
  BY <1>6, <1>7

LEMMA LightEndsStep == IInv /\ LightEnds => IInv'
<1> SUFFICES ASSUME IInv, LightEnds PROVE IInv'
  OBVIOUS
<1>1. TypeOK /\ Nested /\ Counted /\ In({"light"}) /\ Becomes("post")
  BY DEF IInv, LightEnds
<1>2. calls # <<>> /\ Top = "light" /\ Len(calls) \in Nat \ {0} /\ Top = calls[Len(calls)]
  BY <1>1, TopPhase
<1>3. "post" \in Phases \ {"poll"} /\ "post" \notin Outer \cup {"late"}
  BY DEF Phases, Outer
<1>4. calls' \in Seq(Phases) /\ Len(calls') = Len(calls) /\ calls' # <<>>
  BY <1>1, <1>2, <1>3, TypeFacts, Changed DEF Becomes
<1>5. g \in Machines
  BY <1>1, TypeFacts
<1>6. g' \in Machines /\ SameProgram(g, g') /\ g'.busy = g.busy /\ g'.lag = g.lag
  BY <1>5 DEF LightEnds, Machines, SameProgram
<1>7. UNCHANGED still /\ UNCHANGED <<depth, pending, kept>>
  BY DEF LightEnds, still
<1>8. TypeOK'
  BY <1>1, <1>4, <1>6, <1>7, Typed DEF TypeOK
<1>9. depth > 1
  BY <1>1, <1>2, TypeFacts DEF Counted
<1>10. Nested'
  BY <1>1, <1>2, <1>3, NestedChange
<1>11. Counted'
  BY <1>1, <1>2, <1>6, <1>7, <1>9, CountedChange
<1> QED
  BY <1>2, <1>4, <1>6, <1>7, <1>8, <1>10, <1>11, StacksKept DEF IInv

LEMMA RunsNmiStep == IInv /\ RunsNmi => IInv'
<1> SUFFICES ASSUME IInv, RunsNmi PROVE IInv'
  OBVIOUS
<1>1. TypeOK /\ Nested /\ Counted /\ In({"poll"})
  BY DEF IInv, RunsNmi
<1>2. calls # <<>> /\ Top = "poll" /\ Len(calls) \in Nat \ {0} /\ Top = calls[Len(calls)]
  BY <1>1, TopPhase
<1>3. g.nmi /\ g \in Machines
  BY <1>1, <1>2, TypeFacts DEF Nested
<1>8. depth \in Nat /\ depth >= Len(calls)
  BY <1>1, <1>2, TypeFacts DEF Counted
<1>4. UNCHANGED still /\ UNCHANGED <<g, pending, kept>>
  BY DEF RunsNmi, still
<1>5. SameProgram(g, g')
  BY <1>4 DEF SameProgram
<1>6. CASE depth > 1
  <2>1. Becomes("light") /\ UNCHANGED depth
    <3>1. ~(depth <= 1)
      BY <1>6, <1>8
    <3> QED
      BY <1>3, <1>6, <3>1 DEF RunsNmi
  <2>2. "light" \in Phases \ {"poll"} /\ "light" \notin Outer \cup {"late"}
    BY DEF Phases, HandlerPhases, Outer
  <2>3. calls' \in Seq(Phases) /\ Len(calls') = Len(calls) /\ calls' # <<>>
    BY <1>1, <1>2, <2>1, <2>2, TypeFacts, Changed DEF Becomes
  <2>4. TypeOK'
    BY <1>1, <1>3, <1>4, <2>1, <2>3, Typed DEF TypeOK
  <2>5. Nested'
    BY <1>1, <1>2, <2>1, <2>2, NestedChange
  <2>6. Counted'
    BY <1>1, <1>2, <1>4, <1>6, <2>1, CountedChange
  <2> QED
    BY <1>2, <1>4, <1>5, <2>3, <2>4, <2>5, <2>6, StacksKept DEF IInv
<1>7. CASE ~(depth > 1)
  <2>1. depth = 1 /\ Len(calls) = 1
    <3>1. Len(calls) \in Nat \ {0}
      BY <1>2
    <3> QED
      BY <1>7, <1>8, <3>1
  <2>2. Becomes("first") /\ depth' = 2
    BY <1>3, <2>1 DEF RunsNmi
  <2>3. "first" \in Phases \ {"poll"}
    BY DEF Phases, HandlerPhases
  <2>4. /\ calls' \in Seq(Phases) /\ Len(calls') = 1 /\ calls' # <<>>
        /\ calls'[1] = "first" /\ DOMAIN calls' = {1} /\ DOMAIN calls = {1}
    BY <1>1, <1>2, <2>1, <2>2, <2>3, TypeFacts, Changed DEF Becomes
  <2>5. depth' \in 0 .. MaxDepth
    BY <2>2, GuestRunAssumption
  <2>6. TypeOK'
    BY <1>1, <1>3, <1>4, <2>4, <2>5, Typed DEF TypeOK
  <2>7. Nested'
    BY <1>1, <1>2, <2>1, <2>2, <2>3, NestedChange
  <2>8. Counted'
    BY <1>1, <1>2, <1>4, <2>1, <2>2, <2>4 DEF Counted, HandlerDone, Outer
  <2> QED
    BY <1>2, <1>4, <1>5, <2>1, <2>4, <2>6, <2>7, <2>8, StacksKept DEF IInv
<1> QED
  BY <1>6, <1>7

-----------------------------------------------------------------------------
(* The vertical blank.                                                     *)

\* The NMI is put off, or the flag is set in its place.
LEMMA CallsKept ==
    ASSUME IInv, UNCHANGED still, UNCHANGED <<calls, depth, kept>>,
           pending' \in BOOLEAN, g' \in Machines, SameProgram(g, g'),
           g'.busy = g.busy, g'.lag = g.lag, g'.nmi = g.nmi
    PROVE  IInv'
<1>1. TypeOK /\ Nested /\ Counted
  BY DEF IInv
<1>2. TypeOK'
  BY <1>1, TypeFacts, Typed DEF TypeOK
<1>3. Nested'
  BY <1>1 DEF Nested, Top
<1>4. Counted'
  BY <1>1 DEF Counted, HandlerDone
<1> QED
  BY <1>2, <1>3, <1>4, StacksKept DEF IInv

LEMMA DefersStep == IInv /\ Defers => IInv'
<1> SUFFICES ASSUME IInv, Defers PROVE IInv'
  OBVIOUS
<1>1. UNCHANGED still /\ UNCHANGED <<g, calls, depth, kept>> /\ pending' = TRUE
  BY DEF Defers, still
<1>2. g' \in Machines /\ SameProgram(g, g')
  BY <1>1, TypeFacts DEF IInv, SameProgram
<1> QED
  BY <1>1, <1>2, CallsKept

\* A callback begins on top of code of the program.
LEMMA BeginsInv ==
    ASSUME IInv, Begins, UNCHANGED <<program, g, saved, at, stacks>>,
           pending' \in BOOLEAN, depth' \in 0 .. MaxDepth, g.nmi,
           calls = <<>> => depth' >= 1,
           calls # <<>> => depth' = depth + 1 /\ Top \notin {"poll", "post"}
    PROVE  IInv'
<1>1. TypeOK /\ Nested /\ Counted /\ PlainPart /\ KernelPart
  BY DEF IInv
<1>2. calls \in Seq(Phases) /\ "poll" \in Phases /\ depth \in Nat /\ MaxDepth \in Nat
  BY <1>1, TypeFacts DEF Phases
<1>3. /\ calls' \in Seq(Phases) /\ calls' # <<>>
      /\ Len(calls') = Len(calls) + 1 /\ calls'[Len(calls) + 1] = "poll"
      /\ \A i \in 1 .. Len(calls) : calls'[i] = calls[i]
      /\ Len(calls) \in Nat /\ (calls = <<>> <=> Len(calls) = 0)
      /\ DOMAIN calls = 1 .. Len(calls) /\ DOMAIN calls' = 1 .. Len(calls) + 1
  BY <1>2, Pushed DEF Begins
<1>4. at \in Positions
  BY <1>1 DEF TypeOK
<1>5. TypeOK'
  BY <1>1, <1>3, <1>4
     DEF TypeOK, program, stacks, Begins, Phases, States, Positions, Contexts
<1>6. Nested'
  <2>1. \A i \in DOMAIN calls : calls[i] \notin {"poll", "post"}
    BY <1>1, <1>3 DEF Nested, Top
  <2>2. \A i \in DOMAIN calls' : calls'[i] \in {"poll", "post"} => i = Len(calls')
    BY <1>3, <2>1
  <2>3. \A i \in DOMAIN calls' : calls'[i] \in Outer \cup {"late"} => i = 1
    BY <1>1, <1>3 DEF Nested, Outer
  <2> QED
    BY <2>2, <2>3 DEF Nested
<1>7. Counted'
  <2>1. (\E i \in DOMAIN calls' : calls'[i] \in {"wait", "second"})
          <=> (\E i \in DOMAIN calls : calls[i] \in {"wait", "second"})
    BY <1>3
  <2>2. depth' \in Nat
    BY <1>2
  <2>3. CASE calls = <<>>
    BY <1>1, <1>3, <2>1, <2>2, <2>3 DEF Counted, HandlerDone, Outer
  <2>4. CASE calls # <<>>
    <3>1. calls'[1] = calls[1] /\ depth' = depth + 1 /\ depth + 1 <= MaxDepth
      BY <1>2, <1>3, <2>4
    <3>2. calls[1] # "late"
      BY <1>1, <1>2, <2>4, <3>1 DEF Counted
    <3>3. calls[1] # "post"
      BY <1>1, <1>3, <2>4 DEF Nested, Top
    <3>4. ~HandlerDone /\ ~HandlerDone'
      BY <3>1, <3>2, <3>3 DEF HandlerDone
    <3>5. g'.lag = 0 /\ g' = g
      BY <1>1, <3>4 DEF Counted
    <3> QED
      BY <1>1, <1>2, <1>3, <2>1, <2>4, <3>1, <3>2, <3>4, <3>5 DEF Counted
  <2> QED
    BY <2>3, <2>4
<1>8. PlainPart'
  <2> SUFFICES ASSUME game' = "plain" PROVE PlainPart'
    BY DEF PlainPart
  <2>1. game = "plain" /\ open = Len(calls)
    BY <1>1 DEF PlainPart, program
  <2>2. open' = Len(calls')
    BY <1>3, <2>1 DEF Begins
  <2>3. resume' = Where(g)
    <3>1. CASE calls = <<>>
      BY <1>1, <1>3, <2>1, <3>1 DEF PlainPart, Begins
    <3>2. CASE calls # <<>>
      BY <1>1, <1>3, <2>1, <3>2 DEF PlainPart, Begins
    <3> QED
      BY <3>1, <3>2
  <2>4. saved' # None => SavedWell'
    BY <1>1, <2>1 DEF PlainPart, SavedWell
  <2> QED
    BY <1>1, <1>3, <2>1, <2>2, <2>3, <2>4 DEF PlainPart, Begins, stacks, Where
<1>9. KernelPart'
  BY <1>1 DEF KernelPart, Begins, program, stacks, Where
<1>10. OwnStack' /\ ~strayed'
  BY DEF IInv, OwnStack, stacks
<1> QED
  BY <1>5, <1>6, <1>7, <1>8, <1>9, <1>10 DEF IInv

LEMMA VblankStep == IInv /\ Vblank => IInv'
<1> SUFFICES ASSUME IInv, Vblank PROVE IInv'
  OBVIOUS
<1>1. calls = <<>> /\ depth' = 1 /\ Begins /\ g.nmi
  BY DEF Vblank, Main
<1>2. UNCHANGED <<program, g, saved, at, stacks>> /\ pending' \in BOOLEAN
  BY DEF Vblank, IInv, TypeOK
<1>3. depth' \in 0 .. MaxDepth
  BY <1>1, GuestRunAssumption
<1>4. depth' >= 1
  BY <1>1
<1> QED
  BY <1>1, <1>2, <1>3, <1>4, BeginsInv

LEMMA FiresStep == IInv /\ Fires => IInv'
<1> SUFFICES ASSUME IInv, Fires PROVE IInv'
  OBVIOUS
<1>1. depth \in 1 .. MaxDepth - 1 /\ pending' = FALSE
  BY DEF Fires
<1>2. CASE g.nmi
  <2>1. depth' = depth + 1 /\ Begins /\ UNCHANGED <<program, g, saved, at, stacks>>
    BY <1>2 DEF Fires
  <2>2. depth' \in 0 .. MaxDepth /\ depth' >= 1
    BY <1>1, <2>1, GuestRunAssumption
  <2>3. calls # <<>> => Top \notin {"poll", "post"}
    BY DEF Fires, Main, In, HandlerPhases
  <2> QED
    BY <1>1, <1>2, <2>1, <2>2, <2>3, BeginsInv
<1>3. CASE ~g.nmi
  <2>1. g' = [g EXCEPT !.flag = TRUE] /\ UNCHANGED still /\ UNCHANGED <<calls, depth, kept>>
    BY <1>3 DEF Fires, still
  <2>2. g \in Machines
    BY TypeFacts DEF IInv
  <2>3. /\ g' \in Machines /\ SameProgram(g, g')
        /\ g'.busy = g.busy /\ g'.lag = g.lag /\ g'.nmi = g.nmi
    BY <2>1, <2>2 DEF Machines, SameProgram
  <2> QED
    BY <1>1, <2>1, <2>3, CallsKept
<1> QED
  BY <1>2, <1>3

-----------------------------------------------------------------------------
(* States.                                                                 *)

LEMMA AtPoll ==
    ASSUME IInv, PollOnly, MayUseStates
    PROVE  /\ game = "plain" /\ Len(calls) = 1 /\ calls # <<>> /\ calls[1] = "poll"
           /\ DOMAIN calls = {1} /\ depth = 1
           /\ g.busy = FALSE /\ g.lag = 0 /\ g.nmi /\ resume = Where(g)
<1>1. TypeOK /\ Nested /\ Counted /\ PlainPart
  BY DEF IInv
<1>2. game = "plain"
  BY <1>1, GuestRunAssumption DEF MayUseStates, PollOnly, TypeOK
<1>3. Moment = "poll"
  BY DEF MayUseStates, PollOnly
<1>4. In({"poll"}) /\ depth <= 1
  BY <1>3 DEF Moment
<1>5. calls # <<>> /\ Len(calls) \in Nat \ {0} /\ calls[Len(calls)] = "poll"
      /\ DOMAIN calls = 1 .. Len(calls) /\ Top = "poll"
  BY <1>1, <1>4, TopPhase
<1>6. depth \in Nat /\ depth >= Len(calls)
  BY <1>1, <1>5, TypeFacts DEF Counted
<1>7. depth = 1 /\ Len(calls) = 1
  <2>1. Len(calls) \in Nat /\ Len(calls) >= 1
    BY <1>5
  <2> QED
    BY <1>4, <1>6, <2>1
<1>8. calls[1] = "poll" /\ DOMAIN calls = {1}
  BY <1>5, <1>7
<1>9. g.busy = FALSE
  <2>1. g.busy \in BOOLEAN
    BY <1>1, TypeFacts DEF Machines
  <2> QED
    BY <2>1, <1>1, <1>8 DEF Counted
<1>10. g.lag = 0
  BY <1>1, <1>8 DEF Counted, HandlerDone
<1> QED
  BY <1>1, <1>2, <1>5, <1>7, <1>8, <1>9, <1>10 DEF Nested, PlainPart

LEMMA SavesStateStep == IInv /\ PollOnly /\ SavesState => IInv'
<1> SUFFICES ASSUME IInv, PollOnly, SavesState PROVE IInv'
  OBVIOUS
<1>1. /\ TypeOK /\ Nested /\ Counted /\ PlainPart /\ KernelPart
      /\ saved' = [g |-> g, depth |-> depth, pending |-> pending, at |-> resume]
      /\ UNCHANGED <<program, g, at, callback, stacks>>
  BY DEF IInv, SavesState
<1>2. /\ game = "plain" /\ depth = 1 /\ calls # <<>>
      /\ g.busy = FALSE /\ g.lag = 0 /\ g.nmi /\ resume = Where(g)
  BY AtPoll DEF SavesState
<1>3. saved'.g = g /\ saved'.depth = 1 /\ saved'.at = Where(g)
  BY <1>1, <1>2
<1>4. saved' \in States
  <2>1. Where(g) \in Positions
    BY <1>1, <1>2 DEF TypeOK, Where, Positions, Machines
  <2> QED
    BY <1>1, <1>2, <2>1 DEF TypeOK, States
<1>5. TypeOK'
  BY <1>1, <1>4 DEF TypeOK, program, callback, stacks, States, Positions, Contexts
<1>6. Nested' /\ Counted'
  BY <1>1 DEF Nested, Counted, HandlerDone, Top, callback
<1>7. SavedWell'
  BY <1>1, <1>2, <1>3 DEF PlainPart, SavedWell, Where
<1>8. PlainPart'
  BY <1>1, <1>2, <1>7 DEF PlainPart, callback, stacks, program, Where
<1>9. KernelPart' /\ OwnStack' /\ ~strayed'
  BY <1>1, <1>2 DEF IInv, KernelPart, OwnStack, program, stacks
<1> QED
  BY <1>5, <1>6, <1>8, <1>9 DEF IInv

LEMMA LoadsStateStep == IInv /\ PollOnly /\ LoadsState => IInv'
<1> SUFFICES ASSUME IInv, PollOnly, LoadsState PROVE IInv'
  OBVIOUS
<1>1. /\ TypeOK /\ Nested /\ Counted /\ PlainPart /\ saved # None
      /\ g' = saved.g /\ depth' = saved.depth /\ pending' = saved.pending
      /\ request' = saved.at /\ resume' = saved.at
      /\ UNCHANGED <<program, saved, at, calls, kept, open, stacks>>
  BY DEF IInv, LoadsState
<1>2. /\ game = "plain" /\ Len(calls) = 1 /\ calls # <<>> /\ calls[1] = "poll"
      /\ DOMAIN calls = {1}
  BY AtPoll DEF LoadsState
<1>3. SavedWell /\ saved \in States
  BY <1>1, <1>2 DEF PlainPart, TypeOK
<1>4. /\ g' \in Machines /\ depth' = 1 /\ pending' \in BOOLEAN /\ saved.at \in Positions
      /\ request' = Where(g') /\ resume' = Where(g') /\ g'.who = Kernel
      /\ g'.busy = FALSE /\ g'.nmi /\ g'.lag = 0 /\ \A c \in Channel : g'.task[c] = "none"
  BY <1>1, <1>3 DEF SavedWell, States, Machines
<1>5. TypeOK'
  <2>1. depth' \in 0 .. MaxDepth
    BY <1>4, GuestRunAssumption
  <2> QED
    BY <1>1, <1>3, <1>4, <2>1 DEF TypeOK, program, stacks, States, Positions, Contexts
<1>6. Nested'
  BY <1>1, <1>2, <1>4 DEF Nested
<1>7. Counted'
  BY <1>1, <1>2, <1>4 DEF Counted, HandlerDone, Outer
<1>8. SavedWell'
  BY <1>1, <1>3 DEF SavedWell, Where
<1>9. PlainPart'
  <2>1. request' # None
    BY <1>1, <1>4, NoneAssumption
  <2> QED
    BY <1>1, <1>2, <1>4, <1>8, <2>1 DEF PlainPart, stacks, program
<1>10. KernelPart' /\ OwnStack' /\ ~strayed'
  BY <1>1, <1>2, <1>4 DEF IInv, KernelPart, OwnStack, program, stacks
<1> QED
  BY <1>5, <1>6, <1>7, <1>9, <1>10 DEF IInv

-----------------------------------------------------------------------------
(* The end of a callback.                                                  *)

LEMMA FinishesInv ==
    ASSUME IInv, PollOnly, Finishes, UNCHANGED <<program, saved>>,
           calls # <<>>, Top \in {"poll", "post"},
           g' \in Machines, SameProgram(g, g'), g'.busy = g.busy,
           Len(calls) = 1 => g'.lag = 0, Len(calls) # 1 => g'.lag = g.lag
    PROVE  IInv'
<1> DEFINE outermost == open <= 1
           ask == IF outermost /\ rollback /\ request = None THEN resume ELSE request
           Restarts == outermost /\ ask # None
           rest == SubSeq(calls, 1, Len(calls) - 1)
<1>1. TypeOK /\ Nested /\ Counted /\ PlainPart /\ KernelPart
  BY DEF IInv
<1>2. calls \in Seq(Phases) /\ depth \in Nat /\ open \in Nat /\ depth <= MaxDepth
  BY <1>1, TypeFacts DEF TypeOK
<1>3. /\ rest \in Seq(Phases) /\ Len(rest) = Len(calls) - 1
      /\ \A i \in 1 .. Len(rest) : rest[i] = calls[i]
      /\ Len(calls) \in Nat \ {0} /\ (rest = <<>> <=> Len(calls) = 1)
      /\ DOMAIN calls = 1 .. Len(calls) /\ DOMAIN rest = 1 .. Len(calls) - 1
  BY <1>2, Popped
<1>4. calls[Len(calls)] \in {"poll", "post"}
  BY DEF Top
<1>5. depth >= Len(calls)
  BY <1>1 DEF Counted
<1>6. Where(g') = Where(g)
  BY DEF Where, SameProgram
<1>7. /\ open' = IF open > 0 THEN open - 1 ELSE 0
      /\ resume' = IF outermost THEN None ELSE resume
      /\ UNCHANGED <<kept, inside, channel, restart, strayed>>
  BY DEF Finishes
<1>8. ASSUME Restarts
      PROVE  /\ calls' = <<>> /\ depth' = 0 /\ pending' = FALSE /\ request' = None
             /\ native' = Kernel /\ at' = ask
             /\ scheduler' = IF scheduler = "saved" THEN "old" ELSE scheduler
             /\ context' = [c \in Channel |-> [context[c] EXCEPT !.old = TRUE]]
  BY <1>8 DEF Finishes
<1>9. ASSUME ~Restarts
      PROVE  /\ calls' = rest /\ depth' = depth - 1 /\ request' = ask
             /\ UNCHANGED <<pending, native, at, scheduler, context>>
  BY <1>9 DEF Finishes
<1>10. game = "kernel" => ~Restarts /\ ask = None
  BY <1>1 DEF KernelPart
<1>11. game = "plain" =>
         /\ open = Len(calls) /\ (ask # None => ask = Where(g) /\ ask \in Positions)
         /\ outermost => (ask = None => at = Where(g))
         /\ ~outermost => ask = request
  <2> SUFFICES ASSUME game = "plain"
               PROVE  /\ open = Len(calls) /\ (ask # None => ask = Where(g) /\ ask \in Positions)
                      /\ outermost => (ask = None => at = Where(g))
                      /\ ~outermost => ask = request
    OBVIOUS
  <2>1. open = Len(calls) /\ resume = Where(g)
    BY <1>1 DEF PlainPart
  <2>2. IF request = None THEN at = Where(g) ELSE request = Where(g)
    BY <1>1 DEF PlainPart
  <2>3. {resume, request} \subseteq Positions \cup {None}
    BY <1>1 DEF TypeOK
  <2> QED
    BY <2>1, <2>2, <2>3
<1>12. TypeOK'
  <2>1. open' \in Nat
    BY <1>2, <1>7
  <2>2. {resume', request'} \subseteq Positions \cup {None}
    BY <1>1, <1>7, <1>8, <1>9 DEF TypeOK
  <2>3. CASE Restarts
    <3>1. at' \in Positions
      <4>1. resume \in Positions \cup {None} /\ request \in Positions \cup {None}
        BY <1>1 DEF TypeOK
      <4>2. ask \in Positions
        BY <2>3, <4>1
      <4> QED
        BY <1>8, <2>3, <4>2
    <3>2. depth' \in 0 .. MaxDepth /\ calls' \in Seq(Phases)
      <4>1. depth' = 0 /\ calls' = <<>>
        BY <1>8, <2>3
      <4> QED
        BY <4>1, GuestRunAssumption
    <3>3. context' \in [Channel -> Contexts]
      <4>1. \A c \in Channel : context[c] \in Contexts
        BY <1>1 DEF TypeOK
      <4>2. \A x \in Contexts : [x EXCEPT !.old = TRUE] \in Contexts
        BY DEF Contexts
      <4>3. context' = [c \in Channel |-> [context[c] EXCEPT !.old = TRUE]]
        BY <1>8, <2>3
      <4> QED
        BY <4>1, <4>2, <4>3
    <3>4. native' \in Thread /\ scheduler' \in {"none", "saved", "old"} /\ pending' \in BOOLEAN
      BY <1>1, <1>8, <2>3 DEF TypeOK, Thread
    <3> QED
      BY <1>1, <1>7, <2>1, <2>2, <3>1, <3>2, <3>3, <3>4
         DEF TypeOK, program, Phases, States, Positions, Contexts
  <2>4. CASE ~Restarts
    <3>1. depth' \in 0 .. MaxDepth
      <4>1. depth' = depth - 1 /\ MaxDepth \in Nat
        BY <1>9, <2>4, GuestRunAssumption
      <4> QED
        BY <1>2, <1>3, <1>5, <4>1
    <3> QED
      BY <1>1, <1>3, <1>7, <1>9, <2>1, <2>2, <2>4, <3>1
         DEF TypeOK, program, Phases, States, Positions, Contexts
  <2> QED
    BY <2>3, <2>4
<1>13. ASSUME calls' = <<>> PROVE Nested' /\ Counted' /\ PlainPart'
  <2>1. Len(calls) = 1
    <3>1. CASE Restarts
      <4>1. game = "plain"
        BY <1>1, <1>10, <3>1, GuestRunAssumption DEF TypeOK
      <4> QED
        BY <1>3, <1>11, <3>1, <4>1
    <3>2. CASE ~Restarts
      BY <1>3, <1>9, <1>13, <3>2
    <3> QED
      BY <3>1, <3>2
  <2>2. Nested'
    BY <1>13 DEF Nested
  <2>3. g'.busy = FALSE
    <3>1. g'.busy \in BOOLEAN
      BY DEF Machines
    <3> QED
      BY <1>1, <1>3, <1>4, <2>1, <3>1 DEF Counted
  <2>4. Counted'
    BY <1>13, <2>1, <2>3 DEF Counted, HandlerDone
  <2>5. PlainPart'
    <3> SUFFICES ASSUME game' = "plain" PROVE PlainPart'
      BY DEF PlainPart
    <3>1. game = "plain"
      BY DEF program
    <3>2. open' = Len(calls')
      BY <1>7, <1>11, <1>13, <2>1, <3>1
    <3>3. saved' # None => SavedWell'
      BY <1>1, <3>1 DEF PlainPart, SavedWell, Where
    <3>4. outermost
      BY <1>11, <2>1, <3>1
    <3>5. at' = Where(g') /\ request' = None /\ native' = Kernel
      <4>1. CASE Restarts
        BY <1>6, <1>8, <1>11, <3>1, <4>1
      <4>2. CASE ~Restarts
        BY <1>1, <1>6, <1>9, <1>11, <3>1, <3>4, <4>2 DEF PlainPart
      <4> QED
        BY <4>1, <4>2
    <3>6. g'.who = Kernel /\ \A c \in Channel : g'.task[c] = "none"
      BY <1>1, <3>1 DEF PlainPart, SameProgram
    <3>7. ~inside' /\ ~restart'
      BY <1>1, <1>7, <3>1 DEF PlainPart
    <3>8. at'.who = Kernel
      BY <3>5, <3>6 DEF Where
    <3> QED
      BY <1>13, <3>2, <3>3, <3>5, <3>6, <3>7, <3>8 DEF PlainPart
  <2> QED
    BY <2>2, <2>4, <2>5
<1>14. ASSUME calls' # <<>> PROVE Nested' /\ Counted' /\ PlainPart'
  <2>1. ~Restarts /\ Len(calls) # 1 /\ calls' = rest
    BY <1>3, <1>8, <1>9, <1>14
  <2>2. calls'[1] = calls[1] /\ Len(calls') = Len(calls) - 1 /\ DOMAIN calls' = 1 .. Len(calls')
        /\ Len(calls') \in Nat \ {0} /\ \A i \in 1 .. Len(calls') : calls'[i] = calls[i]
    BY <1>3, <2>1
  <2>3. \A i \in 1 .. Len(calls') : calls'[i] \notin {"poll", "post"}
    BY <1>1, <1>3, <2>2 DEF Nested
  <2>4. Nested'
    BY <1>1, <1>3, <2>2, <2>3 DEF Nested, Top
  <2>5. (\E i \in DOMAIN calls' : calls'[i] \in {"wait", "second"})
          <=> (\E i \in DOMAIN calls : calls[i] \in {"wait", "second"})
    BY <1>3, <1>4, <2>2
  <2>6. calls[1] \notin {"late", "post"}
    BY <1>1, <2>1, <2>2, <2>3 DEF Counted
  <2>7. depth' = depth - 1
    BY <1>9, <2>1
  <2>8. ~HandlerDone /\ ~HandlerDone'
    BY <2>2, <2>6 DEF HandlerDone
  <2>9. Counted'
    BY <1>1, <1>2, <1>3, <1>5, <2>1, <2>2, <2>5, <2>6, <2>7, <2>8 DEF Counted
  <2>10. PlainPart'
    <3> SUFFICES ASSUME game' = "plain" PROVE PlainPart'
      BY DEF PlainPart
    <3>1. game = "plain"
      BY DEF program
    <3>2. ~outermost /\ open' = Len(calls')
      BY <1>2, <1>3, <1>7, <1>11, <2>1, <2>2, <3>1
    <3>3. saved' # None => SavedWell'
      BY <1>1, <3>1 DEF PlainPart, SavedWell, Where
    <3>4. request' = request /\ at' = at /\ native' = native /\ resume' = resume
      BY <1>7, <1>9, <1>11, <2>1, <3>1, <3>2
    <3>5. g'.who = Kernel /\ \A c \in Channel : g'.task[c] = "none"
      BY <1>1, <3>1 DEF PlainPart, SameProgram
    <3>6. ~inside' /\ ~restart'
      BY <1>1, <1>7, <3>1 DEF PlainPart
    <3> QED
      BY <1>1, <1>6, <1>14, <3>1, <3>2, <3>3, <3>4, <3>5, <3>6 DEF PlainPart
  <2> QED
    BY <2>4, <2>9, <2>10
<1>15. KernelPart'
  <2> SUFFICES ASSUME game' = "kernel" PROVE KernelPart'
    BY DEF KernelPart
  <2>1. game = "kernel" /\ ~Restarts /\ ask = None
    BY <1>10 DEF program
  <2>2. /\ request' = None
        /\ UNCHANGED <<native, at, scheduler, context, inside, channel, restart>>
    BY <1>7, <1>9, <2>1
  <2>3. inside => g'.task[native] = "run"
    BY <1>1, <2>1 DEF KernelPart, SameProgram, Thread, TypeOK
  <2>4. restart => \A c \in Channel : g'.task[c] \in {"none", "new"}
    BY <1>1, <2>1 DEF KernelPart, SameProgram
  <2> QED
    BY <1>1, <1>6, <2>1, <2>2, <2>3, <2>4 DEF KernelPart, program, SameProgram
<1>16. OwnStack'
  <2>1. CASE game = "plain"
    <3>1. \A c \in Channel : g'.task[c] = "none"
      BY <1>1, <2>1 DEF PlainPart, SameProgram
    <3> QED
      BY <3>1 DEF OwnStack
  <2>2. CASE game = "kernel"
    <3>1. UNCHANGED context
      BY <1>9, <1>10, <2>2
    <3> QED
      BY <3>1 DEF IInv, OwnStack, SameProgram, Saved
  <2> QED
    BY <1>1, <2>1, <2>2, GuestRunAssumption DEF TypeOK
<1>17. ~strayed'
  BY <1>7 DEF IInv
<1> QED
  BY <1>12, <1>13, <1>14, <1>15, <1>16, <1>17 DEF IInv

LEMMA PokesFlagStep == IInv /\ PollOnly /\ PokesFlag => IInv'
<1> SUFFICES ASSUME IInv, PollOnly, PokesFlag PROVE IInv'
  OBVIOUS
<1>1. TypeOK /\ Counted
  BY DEF IInv
<1>2. calls # <<>> /\ Top = "poll" /\ Top = calls[Len(calls)]
  BY <1>1, TopPhase DEF PokesFlag
<1>3. g \in Machines /\ depth \in Nat /\ depth > 1
  BY <1>1, TypeFacts DEF PokesFlag
<1>4. g' \in Machines /\ SameProgram(g, g') /\ g'.busy = g.busy /\ g'.lag = g.lag
  BY <1>3 DEF PokesFlag, Machines, SameProgram
<1>5. Len(calls) = 1 => g.lag = 0
  BY <1>1, <1>2, <1>3 DEF Counted, HandlerDone
<1>6. Finishes /\ UNCHANGED <<program, saved>>
  BY DEF PokesFlag
<1> QED
  BY <1>2, <1>4, <1>5, <1>6, FinishesInv

LEMMA EndedStep == IInv /\ PollOnly /\ Ended => IInv'
<1> SUFFICES ASSUME IInv, PollOnly, Ended PROVE IInv'
  OBVIOUS
<1>1. TypeOK /\ Counted
  BY DEF IInv
<1>2. calls # <<>> /\ Top = "post" /\ Top = calls[Len(calls)] /\ Len(calls) \in Nat \ {0}
  BY <1>1, TopPhase DEF Ended
<1>3. g \in Machines
  BY <1>1, TypeFacts
<1>7. depth \in Nat /\ depth >= Len(calls)
  BY <1>1, <1>2, TypeFacts DEF Counted
<1>6. Finishes /\ UNCHANGED <<program, saved>>
  BY DEF Ended
<1>4. CASE depth > 1
  <2>1. g' = g
    BY <1>4 DEF Ended
  <2>2. Len(calls) = 1 => g.lag = 0
    BY <1>1, <1>2, <1>4, <1>7 DEF Counted, HandlerDone
  <2> QED
    BY <1>2, <1>3, <1>6, <2>1, <2>2, FinishesInv DEF SameProgram
<1>5. CASE ~(depth > 1)
  <2>1. Len(calls) = 1 /\ depth <= 1
    <3>1. Len(calls) \in Nat \ {0}
      BY <1>2
    <3> QED
      BY <1>5, <1>7, <3>1
  <2>2. g.lag = -1
    BY <1>1, <1>2, <2>1 DEF Counted, HandlerDone
  <2>3. g' = [g EXCEPT !.lag = 0]
    BY <1>5, <2>2 DEF Ended
  <2>4. g' \in Machines /\ SameProgram(g, g') /\ g'.busy = g.busy /\ g'.lag = 0
    BY <1>3, <2>3 DEF Machines, SameProgram
  <2> QED
    BY <1>2, <1>6, <2>1, <2>4, FinishesInv
<1> QED
  BY <1>4, <1>5

-----------------------------------------------------------------------------
(* The program between interrupts, and a handler that leaves.              *)

LEMMA Afters == \A n \in Step : After(n) \in Step
BY GuestRunAssumption DEF Step, After

LEMMA QuietFacts ==
    ASSUME IInv, calls = <<>>
    PROVE  g.lag = 0 /\ g.busy = FALSE /\ TypeOK /\ g \in Machines
<1>1. TypeOK /\ Counted /\ g \in Machines
  BY TypeFacts DEF IInv
<1>2. DOMAIN calls = {}
  OBVIOUS
<1>3. g.busy \in BOOLEAN
  BY <1>1 DEF Machines
<1> QED
  BY <1>1, <1>2, <1>3 DEF Counted, HandlerDone

LEMMA Quiet ==
    ASSUME calls' = <<>>, g'.lag = 0, g'.busy = FALSE
    PROVE  Nested' /\ Counted'
<1>1. DOMAIN calls' = {}
  OBVIOUS
<1> QED
  BY <1>1 DEF Nested, Counted, HandlerDone

LEMMA AdvancesStep == IInv /\ Advances => IInv'
<1> SUFFICES ASSUME IInv, Advances PROVE IInv'
  OBVIOUS
<1>1. calls = <<>> /\ game = "plain" /\ at.who = Kernel
  BY DEF Advances, Main
<1>2. UNCHANGED <<program, saved, callback, stacks>>
  BY DEF Advances
<1>3. PICK on \in BOOLEAN : g' = [g EXCEPT !.step[Kernel] = After(@), !.nmi = on]
  BY DEF Advances
<1>4. at' = [at EXCEPT !.step = After(@)]
  BY DEF Advances
<1>5. g.lag = 0 /\ g.busy = FALSE /\ TypeOK /\ g \in Machines
  BY <1>1, QuietFacts
<1>6. /\ ~inside /\ ~restart /\ native = Kernel /\ g.who = Kernel
      /\ open = Len(calls) /\ request = None /\ at = Where(g)
      /\ \A c \in Channel : g.task[c] = "none"
      /\ saved # None => SavedWell
  BY <1>1 DEF IInv, PlainPart
<1>7. Kernel \in Thread /\ at \in Positions
  BY <1>5 DEF Thread, TypeOK
<1>8. g' \in Machines
  BY <1>3, <1>5, <1>7, Afters DEF Machines
<1>9. at' \in Positions /\ at'.who = Kernel
  BY <1>1, <1>4, <1>7, Afters DEF Positions
<1>10. g'.who = Kernel /\ g'.step[Kernel] = After(g.step[Kernel]) /\ g'.task = g.task
       /\ g'.lag = 0 /\ g'.busy = FALSE
  BY <1>3, <1>5, <1>6, <1>7 DEF Machines
<1>11. at' = Where(g')
  BY <1>4, <1>6, <1>10 DEF Where
<1>12. TypeOK'
  BY <1>2, <1>5, <1>8, <1>9
     DEF TypeOK, program, callback, stacks, States, Positions, Contexts
<1>13. Nested' /\ Counted'
  BY <1>1, <1>2, <1>10, Quiet DEF callback
<1>14. PlainPart'
  <2>1. saved' # None => SavedWell'
    BY <1>2, <1>6 DEF SavedWell
  <2> QED
    BY <1>1, <1>2, <1>6, <1>9, <1>10, <1>11, <2>1 DEF PlainPart, callback, stacks
<1>15. KernelPart'
  BY <1>1, <1>2 DEF KernelPart, program
<1>16. OwnStack'
  BY <1>6, <1>10 DEF OwnStack
<1>17. ~strayed'
  BY <1>2 DEF IInv, stacks
<1> QED
  BY <1>12, <1>13, <1>14, <1>15, <1>16, <1>17 DEF IInv

LEMMA KernelFacts ==
    ASSUME IInv, game = "kernel"
    PROVE  /\ TypeOK /\ g \in Machines /\ Kernel \in Thread /\ Kernel \notin Channel
           /\ at = Where(g) /\ native = g.who /\ g.who \in Thread /\ at.who = g.who
           /\ at.step = g.step[g.who] /\ g.step[Kernel] = 0
           /\ inside <=> native # Kernel
           /\ inside => channel = native /\ scheduler = "saved"
           /\ restart => ~inside /\ \A c \in Channel : g.task[c] \in {"none", "new"}
           /\ \A c \in Channel : ~context[c].old /\ (context[c].is = "running" => native = c)
           /\ inside => g.task[native] = "run"
           /\ context \in [Channel -> Contexts]
<1>1. TypeOK /\ g \in Machines
  BY TypeFacts DEF IInv
<1>2. Kernel \in Thread /\ Kernel \notin Channel
  BY GuestRunAssumption DEF Thread
<1>3. g.who \in Thread
  BY <1>1 DEF Machines
<1>4. KernelPart
  BY DEF IInv
<1>5. at = Where(g) /\ native = g.who /\ g.step[Kernel] = 0
  BY <1>4 DEF KernelPart
<1>6. at.who = g.who /\ at.step = g.step[g.who]
  BY <1>5 DEF Where
<1>7. /\ inside <=> native # Kernel
      /\ inside => channel = native /\ scheduler = "saved" /\ g.task[native] = "run"
  BY <1>4 DEF KernelPart
<1>8. /\ restart => ~inside /\ \A c \in Channel : g.task[c] \in {"none", "new"}
      /\ \A c \in Channel : ~context[c].old /\ (context[c].is = "running" => native = c)
  BY <1>4 DEF KernelPart
<1>9. context \in [Channel -> Contexts]
  BY <1>1 DEF TypeOK
<1> QED
  BY <1>1, <1>2, <1>3, <1>5, <1>6, <1>7, <1>8, <1>9

\* What a step of a program with a kernel must establish, once no callback is open.
LEMMA KernelNext ==
    ASSUME IInv, game = "kernel", UNCHANGED <<program, saved, open, resume, request>>,
           calls' = <<>>, depth' \in 0 .. MaxDepth, pending' \in BOOLEAN,
           kept' \in 0 .. MaxDepth,
           g' \in Machines, g'.lag = 0, g'.busy = FALSE, g'.step[Kernel] = 0,
           at' = Where(g'), native' = g'.who,
           inside' \in BOOLEAN, inside' <=> g'.who # Kernel,
           inside' => channel' = g'.who, inside' => scheduler' = "saved",
           inside' => g'.task[g'.who] = "run",
           channel' \in Channel \cup {None}, scheduler' \in {"none", "saved", "old"},
           restart' \in BOOLEAN, restart' => ~inside',
           restart' => \A c \in Channel : g'.task[c] \in {"none", "new"},
           context' \in [Channel -> Contexts],
           \A c \in Channel : ~context'[c].old,
           \A c \in Channel : context'[c].is = "running" => g'.who = c,
           \A c \in Channel : g'.task[c] \in {"sleep", "ready"} =>
               context'[c] = Saved(g'.step[c]),
           strayed' = FALSE
    PROVE  IInv'
<1>1. TypeOK
  BY DEF IInv
<1>2. native' \in Thread /\ at' \in Positions
  BY DEF Machines, Positions, Where
<1>3. calls' \in Seq(HandlerPhases \cup {"poll", "post"})
  OBVIOUS
<1>4. TypeOK'
  BY <1>1, <1>2, <1>3 DEF TypeOK, program, States, Positions
<1>5. Nested' /\ Counted'
  BY Quiet
<1>6. PlainPart'
  BY DEF PlainPart, program
<1>7. KernelPart'
  <2>1. ~rollback' /\ saved' = None /\ request' = None
    BY DEF IInv, KernelPart, program
  <2> QED
    BY <2>1 DEF KernelPart
<1>8. OwnStack'
  BY DEF OwnStack, Saved
<1> QED
  BY <1>4, <1>5, <1>6, <1>7, <1>8 DEF IInv

LEMMA LoopsAgainStep == IInv /\ LoopsAgain => IInv'
<1> SUFFICES ASSUME IInv, LoopsAgain PROVE IInv'
  OBVIOUS
<1>1. calls = <<>> /\ ~strayed /\ game = "kernel" /\ at.who = Kernel /\ (inside \/ restart)
  BY DEF LoopsAgain, KernelRuns, Main
<1>2. g.lag = 0 /\ g.busy = FALSE /\ TypeOK
  BY <1>1, QuietFacts
<1>3. g \in Machines /\ g.who = Kernel /\ ~inside /\ restart
  BY <1>1, KernelFacts
<1>4. /\ restart' = FALSE /\ channel' = None /\ context' = [c \in Channel |-> NoContext]
      /\ depth' = 0 /\ pending' = FALSE
      /\ UNCHANGED <<at, native, inside, scheduler, strayed>>
      /\ UNCHANGED <<program, g, saved, calls, kept, open, resume, request>>
  BY <1>3 DEF LoopsAgain
<1>5. 0 \in 0 .. MaxDepth /\ 0 \in Step
  BY GuestRunAssumption DEF Step
<1>6. context' \in [Channel -> Contexts]
  BY <1>4, <1>5 DEF NoContext, Contexts
<1>7. \A c \in Channel : g.task[c] \in {"none", "new"}
  BY <1>1, <1>3, KernelFacts
<1>8. \A c \in Channel : context'[c].old = FALSE /\ context'[c].is = "free"
  BY <1>4 DEF NoContext
<1>9. /\ inside \in BOOLEAN /\ scheduler \in {"none", "saved", "old"}
      /\ kept \in 0 .. MaxDepth
  BY <1>2 DEF TypeOK
<1>10. at = Where(g) /\ native = g.who /\ g.step[Kernel] = 0
  BY <1>1, KernelFacts
<1>11. g' = g /\ at' = Where(g')
  BY <1>4, <1>10 DEF Where
<1>12. strayed' = FALSE
  BY <1>1, <1>2, <1>4 DEF TypeOK
<1>13. UNCHANGED <<program, saved, open, resume, request>>
  BY <1>4
<1> QED
  BY <1>1, <1>2, <1>3, <1>4, <1>5, <1>6, <1>7, <1>8, <1>9, <1>10, <1>11, <1>12, <1>13,
     KernelNext

\* A task runs, so the runner knows it by its channel and the kernel's stack is saved.
LEMMA TaskFacts ==
    ASSUME IInv, game = "kernel", g.who \in Channel
    PROVE  /\ inside /\ ~restart /\ channel = g.who /\ scheduler = "saved"
           /\ native = g.who /\ at = Where(g) /\ g.step[Kernel] = 0
           /\ \A c \in Channel : c # g.who => context[c].is # "running"
           /\ \A c \in Channel : ~context[c].old
BY KernelFacts

LEMMA PlainHost ==
    ASSUME IInv, inside \/ at.who \in Channel
    PROVE  game = "kernel"
<1>1. game \in {"plain", "kernel"}
  BY GuestRunAssumption DEF IInv, TypeOK
<1>2. Kernel \notin Channel
  BY GuestRunAssumption
<1>3. game = "plain" => ~inside /\ at.who = Kernel
  BY DEF IInv, PlainPart
<1> QED
  BY <1>1, <1>2, <1>3

\* What is left of the stacks when a task gives its own up for the kernel's.
LEMMA SwitchFacts ==
    ASSUME IInv, game = "kernel", g.who \in Channel,
           NEW ctx \in Contexts, ctx.old = FALSE, ctx.is # "running", ToScheduler(ctx)
    PROVE  /\ inside' = FALSE /\ native' = Kernel /\ at' = [who |-> Kernel, step |-> 0]
           /\ strayed' = FALSE /\ channel' = g.who /\ scheduler' = "saved"
           /\ context' \in [Channel -> Contexts]
           /\ context' = [context EXCEPT ![g.who] = ctx]
           /\ \A c \in Channel : ~context'[c].old /\ context'[c].is # "running"
<1>1. channel = g.who /\ scheduler = "saved" /\ context \in [Channel -> Contexts]
  BY TaskFacts, KernelFacts
<1>2. context' = [context EXCEPT ![g.who] = ctx]
  BY <1>1 DEF ToScheduler
<1>3. \A c \in Channel : c # g.who => context[c].is # "running"
  BY TaskFacts
<1>4. \A c \in Channel : ~context[c].old
  BY TaskFacts
<1>5. \A c \in Channel : context'[c] = IF c = g.who THEN ctx ELSE context[c]
  BY <1>1, <1>2
<1>6. \A c \in Channel : ~context'[c].old /\ context'[c].is # "running"
  BY <1>3, <1>4, <1>5
<1>7. context' \in [Channel -> Contexts]
  BY <1>1, <1>2
<1> QED
  BY <1>1, <1>2, <1>6, <1>7 DEF ToScheduler

LEMMA YieldsStep == IInv /\ Yields => IInv'
<1> SUFFICES ASSUME IInv, Yields PROVE IInv'
  OBVIOUS
<1>1. calls = <<>> /\ at.who \in Channel
  BY DEF Yields, TaskRuns, Main
<1>2. game = "kernel"
  BY <1>1, PlainHost
<1>3. g.lag = 0 /\ g.busy = FALSE /\ TypeOK /\ g \in Machines
  BY <1>1, QuietFacts
<1>4. /\ at.who = g.who /\ at \in Positions /\ g.step[Kernel] = 0
      /\ Kernel \in Thread /\ Kernel \notin Channel
  BY <1>2, <1>3, KernelFacts DEF TypeOK
<1> DEFINE n == After(at.step)
           t == g.who
<1>5. n \in Step /\ t \in Channel /\ t \in Thread /\ t # Kernel
  BY <1>1, <1>4, Afters DEF Positions, Thread
<1>6. g' = [g EXCEPT !.task[t] = "sleep", !.step[t] = n, !.who = Kernel]
  BY <1>4 DEF Yields
<1>7. ToScheduler(Saved(n)) /\ UNCHANGED <<program, saved, callback, restart>>
  BY DEF Yields
<1>8. Saved(n) \in Contexts /\ Saved(n).old = FALSE /\ Saved(n).is # "running"
  BY <1>5 DEF Saved, Contexts
<1>9. /\ inside' = FALSE /\ native' = Kernel /\ at' = [who |-> Kernel, step |-> 0]
      /\ strayed' = FALSE /\ channel' = t /\ scheduler' = "saved"
      /\ context' \in [Channel -> Contexts]
      /\ context' = [context EXCEPT ![t] = Saved(n)]
      /\ \A c \in Channel : ~context'[c].old /\ context'[c].is # "running"
  BY <1>2, <1>5, <1>7, <1>8, SwitchFacts
<1>10. ~restart /\ context \in [Channel -> Contexts]
  BY <1>2, <1>5, TaskFacts, KernelFacts
<1>11. g' \in Machines
  BY <1>3, <1>4, <1>5, <1>6 DEF Machines
<1>12. /\ g'.who = Kernel /\ g'.lag = 0 /\ g'.busy = FALSE /\ g'.step[Kernel] = 0
       /\ g'.step = [g.step EXCEPT ![t] = n] /\ g'.task = [g.task EXCEPT ![t] = "sleep"]
  BY <1>3, <1>4, <1>5, <1>6 DEF Machines
<1>13. at' = Where(g')
  BY <1>9, <1>12 DEF Where
<1>14. \A c \in Channel : g'.task[c] \in {"sleep", "ready"} => context'[c] = Saved(g'.step[c])
  <2> SUFFICES ASSUME NEW c \in Channel, g'.task[c] \in {"sleep", "ready"}
               PROVE  context'[c] = Saved(g'.step[c])
    OBVIOUS
  <2>1. g.step \in [Thread -> Step] /\ g.task \in [Channel -> {"none", "new", "sleep", "ready", "run"}]
        /\ c \in Thread
    BY <1>3 DEF Machines, Thread
  <2>2. CASE c = t
    BY <1>5, <1>9, <1>10, <1>12, <2>1, <2>2
  <2>3. CASE c # t
    <3>1. g'.task[c] = g.task[c] /\ g'.step[c] = g.step[c] /\ context'[c] = context[c]
      BY <1>5, <1>9, <1>10, <1>12, <2>1, <2>3
    <3>2. context[c] = Saved(g.step[c])
      BY <3>1 DEF IInv, OwnStack
    <3> QED
      BY <3>1, <3>2
  <2> QED
    BY <2>2, <2>3
<1>15. UNCHANGED <<program, saved, open, resume, request, calls, depth, pending, kept, restart>>
  BY <1>7 DEF callback
<1>16. depth \in 0 .. MaxDepth /\ pending \in BOOLEAN /\ kept \in 0 .. MaxDepth
  BY <1>3 DEF TypeOK
<1>17. channel' \in Channel \cup {None} /\ restart' = FALSE
  BY <1>5, <1>9, <1>10, <1>15
<1> QED
  BY <1>1, <1>2, <1>9, <1>11, <1>12, <1>13, <1>14, <1>15, <1>16, <1>17, KernelNext

LEMMA EndsStep == IInv /\ Ends => IInv'
<1> SUFFICES ASSUME IInv, Ends PROVE IInv'
  OBVIOUS
<1>1. calls = <<>> /\ at.who \in Channel
  BY DEF Ends, TaskRuns, Main
<1>2. game = "kernel"
  BY <1>1, PlainHost
<1>3. g.lag = 0 /\ g.busy = FALSE /\ TypeOK /\ g \in Machines
  BY <1>1, QuietFacts
<1> DEFINE t == g.who
<1>4. /\ at.who = t /\ g.step[Kernel] = 0 /\ t \in Channel
      /\ Kernel \in Thread /\ Kernel \notin Channel
  BY <1>1, <1>2, KernelFacts
<1>5. g' = [g EXCEPT !.task[t] = "none", !.who = Kernel]
  BY <1>4 DEF Ends
<1>6. ToScheduler(NoContext) /\ UNCHANGED <<program, saved, callback, restart>>
  BY DEF Ends
<1>7. NoContext \in Contexts /\ NoContext.old = FALSE /\ NoContext.is # "running"
  BY GuestRunAssumption DEF NoContext, Contexts, Step
<1>8. /\ inside' = FALSE /\ native' = Kernel /\ at' = [who |-> Kernel, step |-> 0]
      /\ strayed' = FALSE /\ channel' = t /\ scheduler' = "saved"
      /\ context' \in [Channel -> Contexts]
      /\ context' = [context EXCEPT ![t] = NoContext]
      /\ \A c \in Channel : ~context'[c].old /\ context'[c].is # "running"
  BY <1>2, <1>4, <1>6, <1>7, SwitchFacts
<1>9. ~restart /\ context \in [Channel -> Contexts]
  BY <1>2, <1>4, TaskFacts, KernelFacts
<1>10. g' \in Machines
  BY <1>3, <1>4, <1>5 DEF Machines
<1>11. /\ g'.who = Kernel /\ g'.lag = 0 /\ g'.busy = FALSE /\ g'.step = g.step
       /\ g'.task = [g.task EXCEPT ![t] = "none"]
  BY <1>3, <1>4, <1>5 DEF Machines
<1>12. at' = Where(g')
  BY <1>4, <1>8, <1>11 DEF Where
<1>13. \A c \in Channel : g'.task[c] \in {"sleep", "ready"} => context'[c] = Saved(g'.step[c])
  <2> SUFFICES ASSUME NEW c \in Channel, g'.task[c] \in {"sleep", "ready"}
               PROVE  context'[c] = Saved(g'.step[c])
    OBVIOUS
  <2>1. g.task \in [Channel -> {"none", "new", "sleep", "ready", "run"}]
    BY <1>3 DEF Machines
  <2>2. c # t
    BY <1>4, <1>11, <2>1
  <2>3. g'.task[c] = g.task[c] /\ context'[c] = context[c]
    BY <1>4, <1>8, <1>9, <1>11, <2>1, <2>2
  <2>4. context[c] = Saved(g.step[c])
    BY <2>3 DEF IInv, OwnStack
  <2> QED
    BY <1>11, <2>3, <2>4
<1>14. UNCHANGED <<program, saved, open, resume, request, calls, depth, pending, kept, restart>>
  BY <1>6 DEF callback
<1>15. depth \in 0 .. MaxDepth /\ pending \in BOOLEAN /\ kept \in 0 .. MaxDepth
  BY <1>3 DEF TypeOK
<1>16. channel' \in Channel \cup {None} /\ restart' = FALSE /\ g'.step[Kernel] = 0
  BY <1>4, <1>8, <1>9, <1>11, <1>14
<1> QED
  BY <1>1, <1>2, <1>8, <1>10, <1>11, <1>12, <1>13, <1>14, <1>15, <1>16, KernelNext

\* A mode that changes gives up every task, from a task or from a handler in it.
LEMMA ToKernelInv ==
    ASSUME IInv, game = "kernel", g.who \in Channel, NEW new \in SUBSET Channel,
           ToKernel(new), calls' = <<>>, kept' \in 0 .. MaxDepth,
           UNCHANGED <<program, saved, depth, pending, open, resume, request>>
    PROVE  IInv'
<1> DEFINE t == g.who
<1>1. TypeOK /\ g \in Machines /\ g.step[Kernel] = 0 /\ Kernel \in Thread
  BY KernelFacts
<1>2. g' = [g EXCEPT !.who = Kernel, !.busy = FALSE, !.nmi = TRUE, !.lag = 0,
               !.task = [c \in Channel |-> IF c \in new THEN "new" ELSE "none"]]
  BY DEF ToKernel
<1>3. restart' = TRUE /\ ToScheduler(Saved(0))
  BY DEF ToKernel
<1>4. Saved(0) \in Contexts /\ Saved(0).old = FALSE /\ Saved(0).is # "running"
  BY GuestRunAssumption DEF Saved, Contexts, Step
<1>5. /\ inside' = FALSE /\ native' = Kernel /\ at' = [who |-> Kernel, step |-> 0]
      /\ strayed' = FALSE /\ channel' = t /\ scheduler' = "saved"
      /\ context' \in [Channel -> Contexts]
      /\ \A c \in Channel : ~context'[c].old /\ context'[c].is # "running"
  BY <1>3, <1>4, SwitchFacts
<1>6. g' \in Machines
  <2> DEFINE task == [c \in Channel |-> IF c \in new THEN "new" ELSE "none"]
  <2>1. task \in [Channel -> {"none", "new", "sleep", "ready", "run"}] /\ 0 \in -1 .. 1
    OBVIOUS
  <2>2. g' = [g EXCEPT !.who = Kernel, !.busy = FALSE, !.nmi = TRUE, !.lag = 0, !.task = task]
    BY <1>2
  <2> HIDE DEF task
  <2> QED
    BY <1>1, <2>1, <2>2 DEF Machines
<1>7. /\ g'.who = Kernel /\ g'.lag = 0 /\ g'.busy = FALSE /\ g'.step = g.step
      /\ \A c \in Channel : g'.task[c] \in {"none", "new"}
  BY <1>1, <1>2 DEF Machines
<1>8. at' = Where(g')
  BY <1>1, <1>5, <1>7 DEF Where
<1>9. depth' \in 0 .. MaxDepth /\ pending' \in BOOLEAN
  BY <1>1 DEF TypeOK
<1>10. channel' \in Channel \cup {None} /\ g'.step[Kernel] = 0
  BY <1>1, <1>5, <1>7
<1>11. \A c \in Channel : g'.task[c] \in {"sleep", "ready"} => context'[c] = Saved(g'.step[c])
  BY <1>7
<1> QED
  BY <1>3, <1>5, <1>6, <1>7, <1>8, <1>9, <1>10, <1>11, KernelNext

LEMMA ChangesModeStep == IInv /\ ChangesMode => IInv'
<1> SUFFICES ASSUME IInv, ChangesMode PROVE IInv'
  OBVIOUS
<1>1. calls = <<>> /\ at.who \in Channel
  BY DEF ChangesMode, TaskRuns, Main
<1>2. game = "kernel"
  BY <1>1, PlainHost
<1>3. at.who = g.who /\ TypeOK
  BY <1>2, KernelFacts
<1>4. PICK new \in SUBSET Channel : ToKernel(new)
  BY DEF ChangesMode
<1>5. /\ calls' = <<>> /\ kept' = kept
      /\ UNCHANGED <<program, saved, depth, pending, open, resume, request>>
  BY <1>1 DEF ChangesMode, callback
<1> QED
  BY <1>1, <1>2, <1>3, <1>4, <1>5, ToKernelInv DEF TypeOK

LEMMA LeavesStep == IInv /\ Leaves => IInv'
<1> SUFFICES ASSUME IInv, Leaves PROVE IInv'
  OBVIOUS
<1>1. inside /\ calls' = <<>> /\ kept' = 0
  BY DEF Leaves
<1>2. game = "kernel"
  BY <1>1, PlainHost
<1>3. g.who \in Channel
  BY <1>1, <1>2, KernelFacts DEF Thread
<1>4. PICK new \in SUBSET Channel : ToKernel(new)
  BY DEF Leaves
<1>5. UNCHANGED <<program, saved, depth, pending, open, resume, request>>
  BY DEF Leaves
<1>6. kept' \in 0 .. MaxDepth
  BY <1>1, GuestRunAssumption
<1> QED
  BY <1>1, <1>2, <1>3, <1>4, <1>5, <1>6, ToKernelInv

LEMMA SetsTaskStep == IInv /\ SetsTask => IInv'
<1> SUFFICES ASSUME IInv, SetsTask PROVE IInv'
  OBVIOUS
<1>1. calls = <<>> /\ game = "kernel"
  BY DEF SetsTask, Main
<1>2. g.lag = 0 /\ g.busy = FALSE /\ TypeOK /\ g \in Machines
  BY <1>1, QuietFacts
<1>3. PICK c \in Channel \ {at.who}, s \in {"new", "none"} : g' = [g EXCEPT !.task[c] = s]
  BY DEF SetsTask
<1>4. UNCHANGED <<program, saved, at, callback, stacks>>
  BY DEF SetsTask
<1>5. /\ g' \in Machines /\ g'.who = g.who /\ g'.step = g.step
      /\ g'.lag = 0 /\ g'.busy = FALSE
      /\ g'.task = [g.task EXCEPT ![c] = s]
      /\ g.task \in [Channel -> {"none", "new", "sleep", "ready", "run"}]
  BY <1>2, <1>3 DEF Machines
<1>6. /\ at = Where(g) /\ native = g.who /\ at.who = g.who /\ g.step[Kernel] = 0
      /\ context \in [Channel -> Contexts] /\ g.who \in Thread
      /\ inside <=> native # Kernel
  BY <1>1, KernelFacts
<1>7. /\ inside => channel = g.who /\ scheduler = "saved" /\ g.task[g.who] = "run"
      /\ restart => ~inside /\ \A d \in Channel : g.task[d] \in {"none", "new"}
      /\ \A d \in Channel : ~context[d].old /\ (context[d].is = "running" => native = d)
  BY <1>1, KernelFacts
<1>8. \A d \in Channel : g'.task[d] = IF d = c THEN s ELSE g.task[d]
  BY <1>3, <1>5
<1>9. UNCHANGED <<open, resume, request, calls, depth, pending, kept, restart, at, native,
                  inside, channel, scheduler, context, strayed, program, saved>>
  BY <1>4 DEF callback, stacks
<1>10. at' = Where(g')
  BY <1>5, <1>6, <1>9 DEF Where
<1>11. inside' => g'.task[g'.who] = "run"
  <2> SUFFICES ASSUME inside' PROVE g'.task[g'.who] = "run"
    OBVIOUS
  <2>1. g.who \in Channel /\ g.who # c /\ g.task[g.who] = "run"
    BY <1>3, <1>6, <1>7, <1>9 DEF Thread
  <2> QED
    BY <1>5, <1>8, <2>1
<1>12. restart' => \A d \in Channel : g'.task[d] \in {"none", "new"}
  BY <1>3, <1>7, <1>8, <1>9
<1>13. \A d \in Channel : g'.task[d] \in {"sleep", "ready"} => context'[d] = Saved(g'.step[d])
  <2> SUFFICES ASSUME NEW d \in Channel, g'.task[d] \in {"sleep", "ready"}
               PROVE  context'[d] = Saved(g'.step[d])
    OBVIOUS
  <2>1. g'.task[d] = g.task[d]
    BY <1>3, <1>8
  <2> QED
    BY <1>5, <1>9, <2>1 DEF IInv, OwnStack
<1>14. strayed = FALSE
  BY <1>2 DEF IInv, TypeOK
<1>15. /\ depth \in 0 .. MaxDepth /\ pending \in BOOLEAN /\ kept \in 0 .. MaxDepth
       /\ inside \in BOOLEAN /\ channel \in Channel \cup {None} /\ restart \in BOOLEAN
       /\ scheduler \in {"none", "saved", "old"}
  BY <1>2 DEF TypeOK
<1> QED
  BY <1>1, <1>5, <1>6, <1>7, <1>9, <1>10, <1>11, <1>12, <1>13, <1>14, <1>15, KernelNext

\* The kernel runs: no task has a stack that runs, and each that sleeps has one.
LEMMA ScanFacts ==
    ASSUME IInv, NEW c \in Channel, Scans(c)
    PROVE  /\ calls = <<>> /\ game = "kernel" /\ g.who = Kernel /\ at = Where(g)
           /\ g.lag = 0 /\ g.busy = FALSE /\ TypeOK /\ g \in Machines
           /\ ~inside /\ restart = FALSE /\ strayed = FALSE /\ g.step[Kernel] = 0
           /\ context \in [Channel -> Contexts] /\ c \in Thread /\ c # Kernel
           /\ \A d \in Channel : context[d].old = FALSE /\ context[d].is # "running"
<1>1. calls = <<>> /\ game = "kernel" /\ at.who = Kernel /\ ~inside /\ ~restart
  BY DEF Scans, KernelRuns, Main
<1>2. g.lag = 0 /\ g.busy = FALSE /\ TypeOK /\ g \in Machines
  BY <1>1, QuietFacts
<1>3. /\ at = Where(g) /\ at.who = g.who /\ g.step[Kernel] = 0 /\ Kernel \notin Channel
      /\ native = g.who /\ context \in [Channel -> Contexts]
  BY <1>1, KernelFacts
<1>4. \A d \in Channel : ~context[d].old /\ (context[d].is = "running" => native = d)
  BY <1>1, KernelFacts
<1>5. \A d \in Channel : context[d].old \in BOOLEAN
  BY <1>3 DEF Contexts
<1>6. restart = FALSE /\ strayed = FALSE
  BY <1>1, <1>2 DEF IInv, TypeOK
<1>7. \A d \in Channel : context[d].old = FALSE /\ context[d].is # "running"
  BY <1>1, <1>3, <1>4, <1>5
<1>8. c \in Thread /\ c # Kernel
  BY <1>3 DEF Thread
<1> QED
  BY <1>1, <1>2, <1>3, <1>6, <1>7, <1>8

\* The switch to task c, whose memory says that it runs from step n on.
LEMMA ToTaskInv ==
    ASSUME IInv, NEW c \in Channel, Scans(c), NEW n \in Step, ToTask(c, n),
           g' \in Machines, g'.who = c, g'.step[c] = n, g'.lag = 0, g'.busy = FALSE,
           g'.task[c] = "run", g'.step[Kernel] = 0,
           \A d \in Channel : d # c =>
               g'.task[d] = g.task[d] /\ g'.step[d] = g.step[d],
           strayed' = FALSE, UNCHANGED <<program, saved, callback>>
    PROVE  IInv'
<1>1. /\ calls = <<>> /\ game = "kernel" /\ TypeOK /\ restart = FALSE
      /\ context \in [Channel -> Contexts] /\ c # Kernel
      /\ \A d \in Channel : context[d].old = FALSE /\ context[d].is # "running"
  BY ScanFacts
<1>2. /\ channel' = c /\ inside' = TRUE /\ scheduler' = "saved"
      /\ context' = [context EXCEPT ![c] = Running]
      /\ native' = c /\ at' = [who |-> c, step |-> n] /\ restart' = FALSE
  BY <1>1 DEF ToTask
<1>3. Running \in Contexts /\ Running.old = FALSE
  BY GuestRunAssumption DEF Running, Contexts, Step
<1>4. context' \in [Channel -> Contexts]
  BY <1>1, <1>2, <1>3
<1>5. \A d \in Channel : context'[d] = IF d = c THEN Running ELSE context[d]
  BY <1>1, <1>2
<1>6. \A d \in Channel : ~context'[d].old
  BY <1>1, <1>3, <1>5
<1>7. \A d \in Channel : context'[d].is = "running" => g'.who = d
  BY <1>1, <1>5
<1>8. at' = Where(g')
  BY <1>2 DEF Where
<1>9. \A d \in Channel : g'.task[d] \in {"sleep", "ready"} => context'[d] = Saved(g'.step[d])
  <2> SUFFICES ASSUME NEW d \in Channel, g'.task[d] \in {"sleep", "ready"}
               PROVE  context'[d] = Saved(g'.step[d])
    OBVIOUS
  <2>1. d # c
    OBVIOUS
  <2>2. g'.task[d] = g.task[d] /\ g'.step[d] = g.step[d] /\ context'[d] = context[d]
    BY <1>5, <2>1
  <2> QED
    BY <2>2 DEF IInv, OwnStack
<1>10. UNCHANGED <<program, saved, open, resume, request, calls, depth, pending, kept>>
  BY DEF callback
<1>11. depth \in 0 .. MaxDepth /\ pending \in BOOLEAN /\ kept \in 0 .. MaxDepth
  BY <1>1 DEF TypeOK
<1> QED
  BY <1>1, <1>2, <1>4, <1>6, <1>7, <1>8, <1>9, <1>10, <1>11, KernelNext

LEMMA StartsStep == ASSUME NEW c \in Channel, IInv, Starts(c) PROVE IInv'
<1> DEFINE n == After(g.step[c])
<1>1. Scans(c) /\ UNCHANGED <<program, saved, callback, strayed>> /\ ToTask(c, n)
  BY DEF Starts
<1>2. /\ g \in Machines /\ g.lag = 0 /\ g.busy = FALSE /\ c \in Thread /\ c # Kernel
      /\ strayed = FALSE /\ g.step[Kernel] = 0
  BY <1>1, ScanFacts
<1>3. n \in Step
  BY <1>2, Afters DEF Machines
<1>4. g' = [g EXCEPT !.task[c] = "run", !.who = c, !.step[c] = n]
  BY DEF Starts
<1>5. g' \in Machines
  BY <1>2, <1>3, <1>4 DEF Machines
<1>6. /\ g'.who = c /\ g'.lag = 0 /\ g'.busy = FALSE
      /\ g'.task = [g.task EXCEPT ![c] = "run"] /\ g'.step = [g.step EXCEPT ![c] = n]
      /\ g.task \in [Channel -> {"none", "new", "sleep", "ready", "run"}]
      /\ g.step \in [Thread -> Step]
  BY <1>2, <1>4 DEF Machines
<1>7. Channel \subseteq Thread /\ Kernel \in Thread
  BY DEF Thread
<1>8. g'.task[c] = "run" /\ g'.step[c] = n /\ g'.step[Kernel] = 0
  BY <1>2, <1>6, <1>7
<1>9. \A d \in Channel : d # c => g'.task[d] = g.task[d] /\ g'.step[d] = g.step[d]
  BY <1>6, <1>7
<1>10. strayed' = FALSE
  BY <1>1, <1>2
<1> QED
  BY <1>1, <1>3, <1>5, <1>6, <1>8, <1>9, <1>10, ToTaskInv

LEMMA ResumesStep == ASSUME NEW c \in Channel, IInv, Resumes(c) PROVE IInv'
<1>1. Scans(c) /\ UNCHANGED <<program, saved, callback>> /\ g.task[c] = "ready"
  BY DEF Resumes
<1>2. /\ g \in Machines /\ g.lag = 0 /\ g.busy = FALSE /\ c \in Thread /\ c # Kernel
      /\ g.step[Kernel] = 0
      /\ \A d \in Channel : context[d].old = FALSE /\ context[d].is # "running"
  BY <1>1, ScanFacts
<1> DEFINE n == g.step[c]
<1>3. context[c] = Saved(n)
  BY <1>1 DEF IInv, OwnStack
<1>4. context[c].is = "saved" /\ context[c].step = n /\ context[c].old = FALSE
  BY <1>3 DEF Saved
<1>5. ToTask(c, n) /\ strayed' = FALSE
  BY <1>4 DEF Resumes
<1>6. n \in Step
  BY <1>2 DEF Machines
<1>7. g' = [g EXCEPT !.task[c] = "run", !.who = c]
  BY DEF Resumes
<1>8. g' \in Machines
  BY <1>2, <1>7 DEF Machines
<1>9. /\ g'.who = c /\ g'.lag = 0 /\ g'.busy = FALSE /\ g'.step = g.step
      /\ g'.task = [g.task EXCEPT ![c] = "run"]
      /\ g.task \in [Channel -> {"none", "new", "sleep", "ready", "run"}]
  BY <1>2, <1>7 DEF Machines
<1>10. g'.task[c] = "run" /\ g'.step[c] = n /\ g'.step[Kernel] = 0
  BY <1>2, <1>9
<1>11. \A d \in Channel : d # c => g'.task[d] = g.task[d] /\ g'.step[d] = g.step[d]
  BY <1>9
<1> QED
  BY <1>1, <1>5, <1>6, <1>8, <1>9, <1>10, <1>11, ToTaskInv

-----------------------------------------------------------------------------
LEMMA ProgramStep == IInv /\ Program => IInv'
<1> SUFFICES ASSUME IInv, Program PROVE IInv'
  OBVIOUS
<1>1. CASE Advances
  BY <1>1, AdvancesStep
<1>2. CASE LoopsAgain
  BY <1>2, LoopsAgainStep
<1>3. CASE Yields
  BY <1>3, YieldsStep
<1>4. CASE Ends
  BY <1>4, EndsStep
<1>5. CASE ChangesMode
  BY <1>5, ChangesModeStep
<1>6. CASE SetsTask
  BY <1>6, SetsTaskStep
<1>7. ASSUME NEW c \in Channel, Starts(c) PROVE IInv'
  BY <1>7, StartsStep
<1>8. ASSUME NEW c \in Channel, Resumes(c) PROVE IInv'
  BY <1>8, ResumesStep
<1> QED
  BY <1>1, <1>2, <1>3, <1>4, <1>5, <1>6, <1>7, <1>8 DEF Program

LEMMA HandlerStep == IInv /\ Handler => IInv'
BY FirstHalfStep, WaitsStep, SecondHalfStep, SentElsewhereStep, LateEndsStep,
   LightEndsStep, LeavesStep DEF Handler

LEMMA HostStep == IInv /\ PollOnly /\ Host => IInv'
BY VblankStep, DefersStep, FiresStep, SavesStateStep, LoadsStateStep, RunsNmiStep,
   PokesFlagStep, EndedStep DEF Host

LEMMA NextInv == PollOnly /\ IInv /\ [Next]_vars => IInv'
<1> SUFFICES ASSUME PollOnly, IInv, [Next]_vars PROVE IInv'
  OBVIOUS
<1>1. CASE Next
  BY <1>1, ProgramStep, HandlerStep, HostStep DEF Next
<1>2. CASE UNCHANGED vars
  <2>1. UNCHANGED <<program, g, saved, at, callback, stacks>>
    BY <1>2 DEF vars
  <2>2. /\ UNCHANGED <<game, nesting, rollback, g, saved, at>>
        /\ UNCHANGED <<calls, depth, pending, kept, open, resume, request>>
        /\ UNCHANGED <<native, inside, channel, restart, scheduler, context, strayed>>
    BY <2>1 DEF program, callback, stacks
  <2>3. TypeOK' /\ ~strayed'
    BY <2>2 DEF IInv, TypeOK, States, Positions, Contexts
  <2>4. Nested' /\ Counted'
    BY <2>2 DEF IInv, Nested, Counted, HandlerDone, Top
  <2>5. PlainPart' /\ KernelPart' /\ OwnStack'
    BY <2>2 DEF IInv, PlainPart, SavedWell, KernelPart, OwnStack, Where
  <2> QED
    BY <2>3, <2>4, <2>5 DEF IInv
<1> QED
  BY <1>1, <1>2

\* Where states are saved and loaded by plain programs alone, and only before
\* the handler runs (PollOnly), the invariant of GuestRun holds for any tasks,
\* any number of steps and any depth of nested handlers.
THEOREM Invariant == PollOnly => (Spec => []IInv)
<1> SUFFICES ASSUME PollOnly PROVE Spec => []IInv
  OBVIOUS
<1>1. Init => IInv
  BY InitInv
<1>2. IInv /\ [Next]_vars => IInv'
  BY NextInv
<1> QED
  BY <1>1, <1>2, PTL DEF Spec

LEMMA InvInStep == IInv => InStep
<1> SUFFICES ASSUME IInv PROVE InStep
  OBVIOUS
<1>1. game \in {"plain", "kernel"}
  BY GuestRunAssumption DEF IInv, TypeOK
<1>2. ~strayed
  BY DEF IInv
<1>3. Main => at = Where(g)
  <2>1. game = "plain" => (calls = <<>> => at = Where(g))
    BY DEF IInv, PlainPart
  <2>2. game = "kernel" => at = Where(g)
    BY DEF IInv, KernelPart
  <2> QED
    BY <1>1, <2>1, <2>2 DEF Main
<1>4. g.busy <=> \E i \in DOMAIN calls : calls[i] \in {"wait", "second"}
  BY DEF IInv, Counted
<1>5. calls # <<>> /\ calls[1] = "poll" => g.lag = 0
  BY DEF IInv, Counted, HandlerDone
<1> QED
  BY <1>2, <1>3, <1>4, <1>5 DEF InStep

\* Whatever was saved, loaded and interrupted before a handler ran, the program
\* goes on where its memory says it is (main_runner.c, run_guest_execution), a
\* handler runs both its halves or none, and a frame follows a whole one.
THEOREM StepsTrue == PollOnly => (Spec => []InStep)
<1> SUFFICES ASSUME PollOnly PROVE Spec => []InStep
  OBVIOUS
<1>1. Spec => []IInv
  BY Invariant
<1> QED
  BY <1>1, InvInStep, PTL

\* A task that sleeps, or is ready, has a stack of its own, left where its
\* memory says it yielded (coroutine.c), whatever interrupts and modes do.
THEOREM Stacks == PollOnly => (Spec => []OwnStack)
<1> SUFFICES ASSUME PollOnly PROVE Spec => []OwnStack
  OBVIOUS
<1>1. Spec => []IInv
  BY Invariant
<1>2. IInv => OwnStack
  BY DEF IInv
<1> QED
  BY <1>1, <1>2, PTL
=============================================================================
