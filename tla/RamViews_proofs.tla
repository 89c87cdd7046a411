-------------------------- MODULE RamViews_proofs --------------------------
(***************************************************************************)
(* Compiled code in RAM is safe to run for every memory, every set of      *)
(* views, every addressing mode and every arrangement of hook sites.       *)
(***************************************************************************)
EXTENDS RamViews, TLAPS

(* What a view folds is RAM. *)
LEMMA FoldsAreCells == \A v \in View : Folds(v) \subseteq Cell
  BY ViewsAssumption DEF Folds

(* An open scope is a snapshot. *)
LEMMA OpenScope ==
  ASSUME scope \in Snapshots \union {NoScope}
  PROVE  Open <=> scope \in Snapshots
  BY DEF Open, NoScope, Snapshots

-----------------------------------------------------------------------------
(* Cached verdicts.                                                           *)

(* A store keeps every verdict true of the RAM it leaves, and when no store   *)
(* has raised dirty since, the views that were valid still are.               *)
LEMMA CodeStoreKeeps ==
  ASSUME ram \in [Cell -> Byte], status \in Verdict, dirty \in BOOLEAN,
         Coherent(status, ram), NEW c \in Cell, NEW b \in Byte, CodeStore(c, b)
  PROVE  /\ ram' \in [Cell -> Byte] /\ status' \in Verdict /\ dirty' \in BOOLEAN
         /\ Coherent(status', ram')
         /\ dirty' => dirty \/ Broken(c, status)
         /\ ~dirty' => \A v \in View : status[v] = "valid" => status'[v] = "valid"
<1> USE DEF Verdict
<1>1. ram' \in [Cell -> Byte] /\ status' \in Verdict /\ dirty' \in BOOLEAN
  BY DEF CodeStore, Demoted, Broken
<1>2. ASSUME NEW v \in View
      PROVE  /\ status'[v] = "unusable" <=> ~Usable(v)
             /\ status'[v] = "valid" => Matches(v, ram')
             /\ status'[v] = "invalid" => ~Matches(v, ram')
  <2>1. CASE c \in Folds(v) /\ ram[c] # b /\ Watched(c)
    BY <2>1 DEF CodeStore, Demoted, Coherent
  <2>2. CASE c \in Folds(v) /\ ~Watched(c)
    BY <2>2 DEF CodeStore, Watched, Coherent
  <2>3. CASE c \in Folds(v) /\ ram[c] = b
    <3>1. ram' = ram
      BY <2>3 DEF CodeStore
    <3> QED
      BY <2>3, <3>1 DEF CodeStore, Coherent
  <2>4. CASE c \notin Folds(v)
    <3>1. \A x \in Folds(v) : ram'[x] = ram[x]
      BY <2>4, FoldsAreCells DEF CodeStore
    <3>2. status'[v] = status[v]
      BY <2>4 DEF CodeStore, Demoted
    <3> QED
      BY <3>1, <3>2 DEF Coherent, Matches
  <2> QED
    BY <2>1, <2>2, <2>3, <2>4
<1>3. ~dirty' => \A v \in View : status[v] = "valid" => status'[v] = "valid"
  BY DEF CodeStore, Demoted, Broken
<1>4. dirty' => dirty \/ Broken(c, status)
  BY DEF CodeStore
<1> QED
  BY <1>1, <1>2, <1>3, <1>4 DEF Coherent

(* So does a store by the program, wherever it goes. *)
LEMMA StoreKeeps ==
  ASSUME ram \in [Cell -> Byte], status \in Verdict, dirty \in BOOLEAN, ready \in BOOLEAN,
         Coherent(status, ram), NEW a \in Addr, NEW b \in Byte, Store(a, b)
  PROVE  /\ ram' \in [Cell -> Byte] /\ status' \in Verdict /\ dirty' \in BOOLEAN
         /\ ready' \in BOOLEAN
         /\ Coherent(status', ram')
  BY CodeStoreKeeps, ViewsAssumption DEF Store, code

(* The dispatch renews verdicts truly, and gives a view it knows to be valid. *)
LEMMA FindKeeps ==
  ASSUME status \in Verdict, Coherent(status, ram),
         NEW found \in View \union {None}, Find(found)
  PROVE  /\ status' \in Verdict
         /\ Coherent(status', ram)
         /\ found # None => /\ found \in View
                            /\ status'[found] = "valid"
                            /\ pc \in Entries[found]
                            /\ ~Gated
<1> DEFINE unknown == Candidates("unknown")
           match == {v \in unknown : Matches(v, ram)}
<1> USE DEF Verdict
<1>1. CASE status' = status /\ (found = None \/ (~Gated /\ First(found, Candidates("valid"))))
  BY <1>1 DEF First, Candidates, Coherent
<1>2. CASE /\ ~Gated /\ First(found, match)
           /\ status' = [v \in View |-> IF v = found THEN "valid"
                                        ELSE IF v \in unknown /\ v < found THEN "invalid"
                                        ELSE status[v]]
  <2>1. /\ found \in View /\ pc \in Entries[found] /\ Matches(found, ram)
        /\ status[found] = "unknown"
    BY <1>2 DEF First, Candidates
  <2>2. ASSUME NEW v \in View, v \in unknown, v < found
        PROVE  ~Matches(v, ram) /\ status[v] = "unknown"
    BY <1>2, <2>1, <2>2 DEF First, Candidates, View
  <2>3. status' \in Verdict
    BY <1>2
  <2>4. Coherent(status', ram)
    BY <1>2, <2>1, <2>2 DEF Coherent
  <2> QED
    BY <1>2, <2>1, <2>3, <2>4
<1>3. CASE /\ match = {} /\ found = None
           /\ status' = [v \in View |-> IF v \in unknown THEN "invalid" ELSE status[v]]
  <2>1. \A v \in unknown : status[v] = "unknown" /\ ~Matches(v, ram)
    BY <1>3 DEF Candidates
  <2>2. status' \in Verdict
    BY <1>3
  <2>3. Coherent(status', ram)
    BY <1>3, <2>1 DEF Coherent
  <2> QED
    BY <1>3, <2>2, <2>3
<1> QED
  BY <1>1, <1>2, <1>3 DEF Find

(* Verdicts are about RAM, the cache and the open snapshot only. *)
LEMMA CodeUntouched ==
  ASSUME Verdicts, UNCHANGED code, UNCHANGED scope
  PROVE  Verdicts'
  BY DEF Verdicts, code, Coherent, Matches, Open

-----------------------------------------------------------------------------
(* One lemma per kind of step: each keeps the invariant.                      *)

(* No interrupt, no code and no scope changes: the scheduler and its site.    *)
LEMMA SchedulerSteps ==
  ASSUME IInv, Fire \/ Mismatch \/ HookReturns \/ NextFrame \/ PatchRom \/ ViewStop
  PROVE  IInv'
<1> USE DEF IInv
<1>1. Verdicts'
  BY CodeUntouched DEF Fire, Mismatch, HookReturns, NextFrame, PatchRom, ViewStop, Leave
<1>2. TypeOK'
  BY DEF TypeOK, Fire, Mismatch, HookReturns, NextFrame, PatchRom, ViewStop, Leave,
         Due, Placed, code, machine
<1>3. running' = None
  BY DEF Fire, Mismatch, HookReturns, NextFrame, PatchRom, ViewStop, Leave, Placed
<1>4. Placed'
  BY <1>3 DEF Placed, Fire, Mismatch, HookReturns, NextFrame, PatchRom, ViewStop, Leave,
              Due, Open, machine
<1>5. LetThrough'
  BY DEF LetThrough, Fire, Mismatch, HookReturns, NextFrame, PatchRom, ViewStop, Leave,
         Due, HookStops, machine
<1> QED
  BY <1>1, <1>2, <1>3, <1>4, <1>5 DEF RunsWhatRamHolds

(* Entering a view, from the scheduler or from another view.                  *)
LEMMA Entering ==
  ASSUME IInv, Dispatch \/ NextView
  PROVE  IInv'
<1> USE DEF IInv
<1> PICK found \in View \union {None} : Find(found) /\ running' = found
  BY DEF Dispatch, NextView
<1>1. /\ status' \in Verdict /\ Coherent(status', ram)
      /\ found # None => /\ found \in View /\ status'[found] = "valid"
                         /\ pc \in Entries[found] /\ ~Gated
  BY FindKeeps DEF TypeOK, Verdicts
<1>2. UNCHANGED <<ram, pc, irq, ready, scope, fired, modified>>
  BY DEF Dispatch, NextView, machine
<1>3. dirty' \in BOOLEAN /\ (found # None => dirty' = FALSE)
  BY DEF Dispatch, NextView, TypeOK
<1>4. (passed' = passed \/ passed' = None) /\ overlaid' \in Site \union {None}
  BY DEF Dispatch, NextView, TypeOK
<1>5. mode' \in {"run", "step"} /\ (found # None => mode' = "run") /\ (mode' = "step" => ~Due /\ passed' = passed)
  BY DEF Dispatch, NextView
<1>6. TypeOK'
  BY <1>1, <1>2, <1>3, <1>4, <1>5 DEF TypeOK
<1>7. Verdicts'
  BY <1>1, <1>2 DEF Verdicts, Open
<1>8. RunsWhatRamHolds'
  <2> SUFFICES ASSUME found # None
               PROVE  RunsWhatRamHolds'
    BY DEF RunsWhatRamHolds
  <2>1. \A c \in Reads[found][pc] : c \in Folds(found)
    BY <1>1 DEF Folds
  <2>2. Matches(found, ram)
    BY <1>1 DEF Coherent
  <2> QED
    BY <1>1, <1>2, <1>3, <2>1, <2>2 DEF RunsWhatRamHolds, Matches, Gated
<1>9. Placed'
  BY <1>1, <1>2, <1>5 DEF Placed, Open
<1>10. LetThrough'
  <2>1. CASE Dispatch
    BY <1>2, <1>5, <2>1 DEF LetThrough, Dispatch, Due, Armed, Open
  <2>2. CASE NextView
    BY <1>2, <1>5, <2>2 DEF LetThrough, NextView
  <2> QED
    BY <2>1, <2>2
<1> QED
  BY <1>6, <1>7, <1>8, <1>9, <1>10

(* Everything but the compiled code at rest: what a step outside views needs. *)
LEMMA Resting ==
  ASSUME TypeOK', Verdicts', running' = None, mode' \notin {"hook", "step"},
         mode' = "scope" => Open',
         Open' /\ scope'.mode = "hook" => scope'.pc \in Site,
         fired' = FALSE
  PROVE  IInv'
  BY DEF IInv, RunsWhatRamHolds, Placed, LetThrough

(* One instruction outside the views.                                         *)
LEMMA Interpreting ==
  ASSUME IInv, Step
  PROVE  IInv'
<1> USE DEF IInv
<1>1. /\ ram' \in [Cell -> Byte] /\ status' \in Verdict /\ dirty' \in BOOLEAN /\ ready' \in BOOLEAN
      /\ Coherent(status', ram')
  <2>1. CASE UNCHANGED <<code, ready>>
    BY <2>1 DEF TypeOK, Verdicts, code
  <2>2. CASE \E a \in Addr, b \in Byte : Store(a, b)
    BY <2>2, StoreKeeps DEF TypeOK, Verdicts
  <2> QED
    BY <2>1, <2>2 DEF Step
<1>2. pc' \in PC /\ irq' \in BOOLEAN /\ fired' = FALSE
  BY DEF Step, Goes, PC
<1>3. /\ mode' = "run" /\ passed' = None /\ overlaid' = None
      /\ UNCHANGED <<modified, running, scope>>
  BY DEF Step
<1>4. running = None
  BY DEF Step, Placed
<1>5. TypeOK'
  BY <1>1, <1>2, <1>3 DEF TypeOK
<1>6. Verdicts'
  BY <1>1, <1>3 DEF Verdicts, Open
<1> QED
  BY <1>2, <1>3, <1>4, <1>5, <1>6, Resting DEF Placed, Open

(* One instruction of a view.  If it goes on in the view, no store has broken *)
(* the view: such a store reaches a byte some view folds, and the compiler    *)
(* then tests dirty after it.                                                 *)
LEMMA InView ==
  ASSUME IInv, ViewStep
  PROVE  IInv'
<1> USE DEF IInv
<1>1. /\ ram' \in [Cell -> Byte] /\ status' \in Verdict /\ dirty' \in BOOLEAN /\ ready' \in BOOLEAN
      /\ Coherent(status', ram')
  <2>1. CASE UNCHANGED <<code, ready>>
    BY <2>1 DEF TypeOK, Verdicts, code
  <2>2. CASE \E reach \in Modes : \E a \in reach, b \in Byte : Store(a, b)
    BY <2>2, StoreKeeps, ViewsAssumption DEF TypeOK, Verdicts
  <2> QED
    BY <2>1, <2>2 DEF ViewStep
<1>2. pc' \in PC /\ irq' \in BOOLEAN /\ fired' = FALSE
  BY DEF ViewStep, Goes
<1>3. UNCHANGED <<modified, scope>> /\ passed' \in {passed, None} /\ overlaid' \in {overlaid, None}
  BY DEF ViewStep
<1>4. Verdicts'
  BY <1>1, <1>3 DEF Verdicts, Open
<1>5. running \in View /\ status[running] = "valid" /\ mode = "run" /\ ~dirty
  BY DEF ViewStep, Placed, TypeOK, RunsWhatRamHolds
<1>6. CASE running' = None /\ mode' = "views"
  <2>1. TypeOK'
    BY <1>1, <1>2, <1>3, <1>6 DEF TypeOK
  <2> QED
    BY <1>2, <1>3, <1>4, <1>6, <2>1, Resting DEF Placed, Open
<1>7. CASE /\ running' = running /\ mode' = mode
           /\ pc' \in Entries[running] /\ ~dirty' /\ status'[running] = "valid"
           /\ pc' \in CartCell => ready'
  <2>1. TypeOK'
    BY <1>1, <1>2, <1>3, <1>7 DEF TypeOK
  <2>2. Matches(running, ram')
    BY <1>1, <1>5, <1>7 DEF Coherent
  <2>3. \A c \in Reads[running][pc'] : c \in Folds(running)
    BY <1>7 DEF Folds
  <2>4. RunsWhatRamHolds'
    BY <1>5, <1>7, <2>2, <2>3 DEF RunsWhatRamHolds, Matches
  <2>5. Placed' /\ LetThrough'
    BY <1>2, <1>3, <1>5, <1>7 DEF Placed, LetThrough, Open
  <2> QED
    BY <1>4, <2>1, <2>4, <2>5
<1>8. \/ running' = None /\ mode' = "views"
      \/ /\ running' = running /\ mode' = mode
         /\ pc' \in Entries[running] /\ ~dirty' /\ status'[running] = "valid"
         /\ pc' \in CartCell => ready'
  <2>1. pc \in Entries[running] /\ (pc \in CartCell => ready)
    BY <1>5 DEF RunsWhatRamHolds, ViewStep
  <2>2. ASSUME pc' \in Entries[running], pc' \in CartCell
        PROVE  OnCart(running) /\ ready
    BY <1>5, <2>1, <2>2, ViewsAssumption DEF OnCart
  <2>3. CASE UNCHANGED <<code, ready>> /\ pc' \in Entries[running] /\ UNCHANGED <<running, mode>>
    BY <1>5, <2>2, <2>3 DEF code
  <2>4. ASSUME NEW reach \in Modes, NEW a \in reach, NEW b \in Byte, Store(a, b),
               ~(\/ StoreTested(reach) /\ dirty'
                 \/ OnCart(running) /\ a \notin DOMAIN Phys
                 \/ pc' \notin Entries[running])
        PROVE  /\ pc' \in Entries[running] /\ ~dirty' /\ status'[running] = "valid"
               /\ pc' \in CartCell => ready'
    <3>1. CASE a \notin DOMAIN Phys
      BY <1>5, <2>2, <2>4, <3>1 DEF Store, code
    <3>2. CASE a \in DOMAIN Phys
      <4>1. Phys[a] \in Cell /\ CodeStore(Phys[a], b) /\ ready' = ready
        BY <2>4, <3>2, ViewsAssumption DEF Store
      <4>2. /\ dirty' => Broken(Phys[a], status)
            /\ ~dirty' => \A v \in View : status[v] = "valid" => status'[v] = "valid"
        BY <1>5, <4>1, CodeStoreKeeps DEF TypeOK, Verdicts
      <4>3. ~dirty'
        BY <2>4, <3>2, <4>2 DEF Broken, StoreTested, CodeAddr
      <4> QED
        BY <1>5, <2>2, <2>4, <4>1, <4>2, <4>3
    <3> QED
      BY <3>1, <3>2
  <2> QED
    BY <2>3, <2>4 DEF ViewStep, Leave
<1> QED
  BY <1>6, <1>7, <1>8

(* An interrupt is taken after a view's instruction.                          *)
LEMMA Interrupted ==
  ASSUME IInv, ViewInterrupted
  PROVE  IInv'
<1> USE DEF IInv, ViewInterrupted, Leave
<1>1. Verdicts'
  BY CodeUntouched
<1>2. TypeOK'
  BY DEF TypeOK, code, PC
<1> QED
  BY <1>1, <1>2, Resting DEF Placed, Open

-----------------------------------------------------------------------------
(* The host, mods and isolated calls.                                         *)

(* A poke goes through the watch, like a program's store.                     *)
LEMMA Poked ==
  ASSUME IInv, Poke
  PROVE  IInv'
<1> USE DEF IInv, Poke
<1>1. /\ ram' \in [Cell -> Byte] /\ status' \in Verdict /\ dirty' \in BOOLEAN
      /\ Coherent(status', ram')
  BY CodeStoreKeeps DEF TypeOK, Verdicts
<1>2. TypeOK'
  BY <1>1 DEF TypeOK, machine
<1>3. Verdicts'
  BY <1>1 DEF Verdicts, Open
<1>4. running' = None
  BY DEF Placed
<1> QED
  BY <1>2, <1>3, <1>4 DEF RunsWhatRamHolds, Placed, LetThrough, Open, machine

(* A load leaves every usable view unknown.                                   *)
LEMMA Loaded ==
  ASSUME IInv, LoadState
  PROVE  IInv'
<1> USE DEF IInv, LoadState
<1>1. status' \in Verdict /\ Coherent(status', ram')
  BY DEF TypeOK, Verdicts, Coherent, Verdict
<1>2. TypeOK'
  BY <1>1 DEF TypeOK
<1>3. Verdicts'
  BY <1>1 DEF TypeOK, Verdicts, Open
<1>4. running' = None /\ fired' = FALSE /\ mode' = "host" /\ scope' = scope
  BY DEF Placed, LetThrough, TypeOK
<1> QED
  BY <1>2, <1>3, <1>4, Resting DEF Placed, Open

(* The snapshot a scope opens with is as coherent as the machine.             *)
LEMMA Snapped ==
  ASSUME IInv, mode \in {"host", "hook"}, NEW kind \in {"scope", "commit"},
         NEW hooked \in BOOLEAN, scope' = Snapshot(kind, hooked)
  PROVE  /\ scope' \in Snapshots /\ Open'
         /\ Coherent(scope'.status, scope'.ram)
         /\ scope'.mode = "hook" => scope'.pc \in Site
         /\ scope'.kind = kind
  BY DEF IInv, TypeOK, Snapshot, Snapshots, Open, Verdicts, Placed

(* What a call does to the stack page is nothing to any view.                 *)
LEMMA CalledKeeps ==
  ASSUME ram \in [Cell -> Byte], Coherent(status, ram), Called
  PROVE  ram' \in [Cell -> Byte] /\ Coherent(status', ram')
<1>1. ram' \in [Cell -> Byte]
  BY DEF Called
<1>2. \A c \in Cell \ StackCell : ram'[c] = ram[c]
  BY DEF Called
<1>3. ASSUME NEW v \in View, Usable(v)
      PROVE  Matches(v, ram') <=> Matches(v, ram)
  BY <1>2, <1>3, FoldsAreCells DEF Usable, Matches
<1> QED
  BY <1>1, <1>3 DEF Called, Coherent

(* Opening a scope, for a mod's calls or for one call to be committed.        *)
LEMMA Begun ==
  ASSUME IInv, IsolateBegin \/ CommitBegin
  PROVE  IInv'
<1> USE DEF IInv
<1>1. mode \in {"host", "hook"} /\ running = None /\ ~fired
  BY ViewsAssumption DEF IsolateBegin, CommitBegin, Placed, LetThrough
<1>2. PICK kind \in {"scope", "commit"}, hooked \in BOOLEAN : scope' = Snapshot(kind, hooked)
  BY DEF IsolateBegin, CommitBegin
<1>3. /\ scope' \in Snapshots /\ Open'
      /\ Coherent(scope'.status, scope'.ram)
      /\ scope'.mode = "hook" => scope'.pc \in Site
  BY <1>1, <1>2, Snapped
<1>4. ram' \in [Cell -> Byte] /\ Coherent(status', ram') /\ pc' \in PC
  <2>1. CASE IsolateBegin
    BY <2>1 DEF IsolateBegin, TypeOK, Verdicts, code
  <2>2. CASE CommitBegin
    <3>1. Called
      BY <2>2 DEF CommitBegin
    <3>2. pc' \in PC
      BY <3>1 DEF Called
    <3> QED
      BY <3>1, <3>2, CalledKeeps DEF TypeOK, Verdicts
  <2> QED
    BY <2>1, <2>2
<1>5. UNCHANGED <<status, dirty, running, fired, ready, modified, overlaid>> /\ irq' = FALSE /\ passed' = None
  BY DEF IsolateBegin, CommitBegin, Called, code
<1>6. mode' \in {"scope", "run"}
  BY DEF IsolateBegin, CommitBegin, Called
<1>7. TypeOK'
  BY <1>3, <1>4, <1>5, <1>6 DEF TypeOK
<1>8. Verdicts'
  BY <1>3, <1>4 DEF Verdicts
<1> QED
  BY <1>1, <1>3, <1>5, <1>6, <1>7, <1>8, Resting DEF TypeOK

(* Inside a scope.                                                            *)
LEMMA Scoped ==
  ASSUME IInv, AllowHooks \/ Call \/ CallReturns
  PROVE  IInv'
<1> USE DEF IInv
<1>1. Open /\ scope \in Snapshots
  BY OpenScope DEF AllowHooks, Call, CallReturns, Returned, Placed, TypeOK
<1>2. CASE AllowHooks
  <2>1. scope' \in Snapshots /\ Open' /\ scope'.status = scope.status /\ scope'.ram = scope.ram
        /\ scope'.mode = scope.mode /\ scope'.pc = scope.pc
    BY <1>1, <1>2 DEF AllowHooks, Snapshots, Open
  <2>2. TypeOK'
    BY <1>2, <2>1 DEF AllowHooks, TypeOK, code, machine
  <2>3. Verdicts'
    BY <1>1, <1>2, <2>1 DEF AllowHooks, Verdicts, code
  <2> QED
    BY <1>1, <1>2, <2>1, <2>2, <2>3, Resting DEF AllowHooks, Placed, LetThrough, TypeOK
<1>3. CASE Call
  <2>1. ram' \in [Cell -> Byte] /\ Coherent(status', ram')
    BY <1>3, CalledKeeps DEF Call, TypeOK, Verdicts
  <2>2. TypeOK'
    BY <1>3, <2>1 DEF Call, Called, TypeOK
  <2>3. Verdicts'
    BY <1>3, <2>1 DEF Call, Called, Verdicts, Open
  <2> QED
    BY <1>1, <1>3, <2>2, <2>3, Resting DEF Call, Called, Placed, LetThrough, TypeOK, Open
<1>4. CASE CallReturns
  <2>1. ~fired
    BY <1>4, ViewsAssumption DEF CallReturns, Returned, LetThrough, TypeOK, PC
  <2>2. TypeOK'
    BY <1>4 DEF CallReturns, TypeOK, code, machine
  <2>3. Verdicts'
    BY <1>4, CodeUntouched DEF CallReturns
  <2> QED
    BY <1>1, <1>4, <2>1, <2>2, <2>3, Resting
       DEF CallReturns, Returned, Placed, TypeOK, Open, machine
<1> QED
  BY <1>2, <1>3, <1>4

(* The end of a scope brings back the machine and its verdicts together.      *)
LEMMA Restored ==
  ASSUME IInv, Open, Restore, UNCHANGED modified, passed' \in Site \union {None},
         overlaid' \in Site \union {None}
  PROVE  IInv'
<1> USE DEF IInv, Restore
<1>1. scope \in Snapshots
  BY OpenScope DEF TypeOK
<1>2. TypeOK'
  BY <1>1 DEF TypeOK, Snapshots
<1>3. ~Open'
  BY DEF Open, NoScope
<1>4. Verdicts'
  BY <1>3 DEF Verdicts
<1> QED
  BY <1>1, <1>2, <1>3, <1>4 DEF RunsWhatRamHolds, Placed, LetThrough, Snapshots

(* A committed call stores again, through the watch, what it changed.         *)
LEMMA Committed ==
  ASSUME IInv, Commit
  PROVE  IInv'
<1> USE DEF IInv
<1> DEFINE changed == {c \in Cell : ram[c] # scope.ram[c] /\ Watched(c)}
<1>1. Open /\ scope \in Snapshots
  BY OpenScope DEF Commit, Returned, TypeOK
<1>2. /\ ram' = ram /\ running' = None /\ mode' \in {"host", "hook"} /\ pc' = scope.pc
      /\ mode' = scope.mode /\ fired' = FALSE /\ scope' = NoScope
      /\ status' = [v \in View |-> IF Folds(v) \cap changed # {} /\ scope.status[v] \in {"valid", "invalid"}
                                   THEN "unknown" ELSE scope.status[v]]
  BY <1>1 DEF Commit, Returned, Snapshots
<1>3. scope.status \in Verdict /\ Coherent(scope.status, scope.ram)
  BY <1>1 DEF Snapshots, Verdicts
<1>4. status' \in Verdict
  BY <1>2, <1>3 DEF Verdict
<1>5. ASSUME NEW v \in View, Usable(v), Folds(v) \cap changed = {}
      PROVE  Matches(v, ram) <=> Matches(v, scope.ram)
  <2>1. \A c \in Folds(v) : ram[c] = scope.ram[c]
    BY <1>5, FoldsAreCells DEF Watched
  <2> QED
    BY <2>1 DEF Matches
<1>6. Coherent(status', ram')
  BY <1>2, <1>3, <1>5 DEF Coherent, Verdict
<1>7. TypeOK'
  BY <1>1, <1>2, <1>4 DEF Commit, TypeOK, Snapshots, Broken
<1>8. ~Open'
  BY <1>2 DEF Open, NoScope
<1> QED
  BY <1>1, <1>2, <1>6, <1>7, <1>8 DEF Verdicts, RunsWhatRamHolds, Placed, LetThrough

(* The end of a frame, of a call's budget, or of a committed call without one.*)
LEMMA FrameEnds ==
  ASSUME IInv, FrameDone
  PROVE  IInv'
<1> USE DEF IInv, FrameDone
<1>1. CASE Open /\ Restore
  BY <1>1, Restored
<1>2. CASE /\ \/ ~Open /\ Leave("host")
              \/ Open /\ Leave("scope")
           /\ UNCHANGED <<code, machine, scope, fired>>
  <2>1. TypeOK'
    BY <1>2 DEF TypeOK, Leave, code, machine
  <2>2. Verdicts'
    BY <1>2, CodeUntouched
  <2> QED
    BY <1>2, <2>1, <2>2, Resting DEF Leave, Placed, Open, TypeOK
<1> QED
  BY <1>1, <1>2

-----------------------------------------------------------------------------
(* Every verdict the cache holds is true of RAM, and compiled code runs only  *)
(* where RAM holds what it was compiled from: IInv carries both.              *)
THEOREM Invariant == Spec => []IInv
<1>1. Init => IInv
  <2> SUFFICES ASSUME Init
               PROVE  IInv
    OBVIOUS
  <2>1. TypeOK
    BY DEF Init, TypeOK, Verdict, PC
  <2>2. Verdicts
    BY DEF Init, Verdicts, Coherent, Open, NoScope
  <2> QED
    BY <2>1, <2>2 DEF Init, IInv, RunsWhatRamHolds, Placed, LetThrough, Open, NoScope
<1>2. IInv /\ [Next]_vars => IInv'
  <2> SUFFICES ASSUME IInv, [Next]_vars
               PROVE  IInv'
    OBVIOUS
  <2>1. CASE Fire \/ Mismatch \/ HookReturns \/ NextFrame \/ PatchRom \/ ViewStop
    BY <2>1, SchedulerSteps
  <2>2. CASE Dispatch \/ NextView
    BY <2>2, Entering
  <2>3. CASE Step
    BY <2>3, Interpreting
  <2>4. CASE ViewStep
    BY <2>4, InView
  <2>5. CASE ViewInterrupted
    BY <2>5, Interrupted
  <2>6. CASE FrameDone
    BY <2>6, FrameEnds
  <2>7. CASE LoadState
    BY <2>7, Loaded
  <2>8. CASE Poke
    BY <2>8, Poked
  <2>9. CASE IsolateBegin \/ CommitBegin
    BY <2>9, Begun
  <2>10. CASE AllowHooks \/ Call \/ CallReturns
    BY <2>10, Scoped
  <2>11. CASE IsolateEnd
    BY <2>11, Restored DEF IsolateEnd, IInv, Placed, TypeOK
  <2>12. CASE Commit
    BY <2>12, Committed
  <2>13. CASE CommitRefused
    BY <2>13, Restored DEF CommitRefused, Returned, IInv, TypeOK
  <2>14. CASE UNCHANGED vars
    BY <2>14 DEF vars, IInv, TypeOK, Verdicts, Coherent, Matches, RunsWhatRamHolds, Placed,
                 LetThrough, Due, Armed, Open
  <2> QED
    BY <2>1, <2>2, <2>3, <2>4, <2>5, <2>6, <2>7, <2>8, <2>9, <2>10, <2>11, <2>12, <2>13, <2>14
       DEF Next
<1> QED
  BY <1>1, <1>2, PTL DEF Spec

(* The cache of verdicts is never wrong (cyc_ramview.c).                      *)
THEOREM CacheTrue == Spec => []Verdicts
<1>1. IInv => Verdicts
  BY DEF IInv
<1> QED
  BY <1>1, Invariant, PTL

(* Compiled code runs only what RAM holds, gates open.                        *)
THEOREM RunsTrue == Spec => []RunsWhatRamHolds
<1>1. IInv => RunsWhatRamHolds
  BY DEF IInv
<1> QED
  BY <1>1, Invariant, PTL

(* The callbacks of a site run once for each arrival of the program.          *)
THEOREM Once == Spec => FiresOnce
<1>1. IInv => (Fire => ~fired)
  BY DEF IInv, LetThrough, Fire, Due
<1> QED
  BY <1>1, Invariant, PTL DEF FiresOnce

(* A key no longer than what the views at its site fold.                      *)
KeysFolded == \A v \in View : \A c \in Site \cap Entries[v] : DOMAIN Key[c] \subseteq Folds(v)

(* No site is taken for none, nor for a place outside RAM.                    *)
LEMMA SitesAreCells ==
  /\ Site \subseteq Cell /\ Cell \subseteq PC /\ Rom \in PC
  /\ None \notin PC /\ Rom \notin Cell
  BY ViewsAssumption DEF PC

(* Where marks are: each step leaves one only at the boundary it was made at, *)
(* or in the dispatch that began there on other code.                         *)
LEMMA MarksStart == Init => Marks
  BY SitesAreCells DEF Init, Marks, Armed, Open, NoScope

(* The scheduler and the callbacks of a site.                                 *)
LEMMA MarksAtSites ==
  ASSUME IInv, Marks, Fire \/ Mismatch \/ HookReturns
  PROVE  Marks'
<1> USE DEF IInv, TypeOK, Placed, Marks, Armed, Open, code, machine
<1>1. CASE Fire
  BY <1>1, SitesAreCells DEF Fire, Due
<1>2. CASE Mismatch
  BY <1>2, SitesAreCells DEF Mismatch, Due, KeyHeld
<1>3. CASE HookReturns
  BY <1>3, SitesAreCells DEF HookReturns, LetThrough
<1> QED
  BY <1>1, <1>2, <1>3

(* A dispatch begins, goes on in another view, or ends.                       *)
LEMMA MarksInDispatch ==
  ASSUME IInv, Marks, Dispatch \/ NextView \/ Step \/ ViewStop \/ ViewInterrupted
  PROVE  Marks'
<1> USE DEF IInv, TypeOK, Placed, Marks, Armed, Open, code, machine
<1>1. CASE Dispatch
  BY <1>1, SitesAreCells DEF Dispatch, KeyHeld
<1>2. CASE NextView
  <2>1. PICK found \in View \union {None} : Find(found) /\ running' = found
    BY <1>2 DEF NextView
  <2>2. found # None => found \in View /\ pc \in Cell
    BY <2>1, FindKeeps, ViewsAssumption DEF Verdicts
  <2> QED
    BY <1>2, <2>1, <2>2, SitesAreCells DEF NextView
<1>3. CASE Step
  BY <1>3, SitesAreCells DEF Step, Goes
<1>4. CASE ViewStop
  BY <1>4, SitesAreCells DEF ViewStop, Leave
<1>5. CASE ViewInterrupted
  BY <1>5, SitesAreCells DEF ViewInterrupted, Leave
<1> QED
  BY <1>1, <1>2, <1>3, <1>4, <1>5

(* A view that holds the key of the site it is at uses the mark up there.     *)
LEMMA MarksInView ==
  ASSUME KeysFolded, IInv, Marks, ViewStep
  PROVE  Marks'
<1> USE DEF IInv, TypeOK, Placed, Marks, Armed, Open
<1>1. running \in View /\ pc \in Entries[running] /\ Matches(running, ram)
  BY DEF ViewStep, RunsWhatRamHolds, Verdicts, Coherent
<1>2. pc \in Site /\ KeyHeld(pc, ram) => StopsAt(running, pc)
  BY <1>1 DEF KeysFolded, KeyHeld, Matches, StopsAt
<1>3. UNCHANGED scope /\ mode' \in {"run", "views"} /\ mode = "run"
      /\ (running' = None => mode' = "views")
  BY DEF ViewStep, Leave
<1>4. passed' # None => passed' = passed /\ ~StopsAt(running, pc)
  BY DEF ViewStep
<1>5. passed' # None => passed = overlaid
  BY <1>2, <1>4, SitesAreCells DEF ViewStep, LetThrough
<1>6. passed' # None => overlaid' = passed'
  BY <1>2, <1>4, <1>5 DEF ViewStep
<1> QED
  BY <1>3, <1>4, <1>6, SitesAreCells

(* The host, mods and isolated calls: no mark outlives a boundary of theirs.  *)
LEMMA MarksOutside ==
  ASSUME IInv, Marks,
         FrameDone \/ NextFrame \/ LoadState \/ PatchRom \/ Poke \/ IsolateBegin \/ AllowHooks
           \/ Call \/ CommitBegin \/ CallReturns \/ IsolateEnd \/ Commit \/ CommitRefused
  PROVE  Marks'
<1> USE DEF IInv, TypeOK, Placed, Marks, Armed, Open, code, machine
<1>1. Open => scope \in Snapshots
  BY OpenScope
<1>2. CASE FrameDone
  BY <1>1, <1>2, SitesAreCells DEF FrameDone, Leave, Restore, NoScope, Snapshots
<1>3. CASE NextFrame \/ LoadState \/ PatchRom \/ Poke
  BY <1>3, SitesAreCells DEF NextFrame, LoadState, PatchRom, Poke
<1>4. CASE IsolateBegin \/ CommitBegin
  BY <1>4, SitesAreCells DEF IsolateBegin, CommitBegin, Called
<1>5. CASE AllowHooks \/ Call
  BY <1>1, <1>5, SitesAreCells DEF AllowHooks, Call, Called, Snapshots
<1>6. CASE CallReturns
  BY <1>6, SitesAreCells DEF CallReturns, Returned
<1>7. CASE IsolateEnd
  BY <1>1, <1>7, SitesAreCells DEF IsolateEnd, Restore, NoScope, Snapshots
<1>8. CASE Commit \/ CommitRefused
  BY <1>1, <1>8, SitesAreCells DEF Commit, CommitRefused, Returned, Restore, NoScope, Snapshots
<1> QED
  BY <1>2, <1>3, <1>4, <1>5, <1>6, <1>7, <1>8

(* No dispatch runs a hooked site whose callbacks have not run, in a view or  *)
(* elsewhere, but one that began at that site on other code, when every view  *)
(* folds the keys of its sites.                                               *)
THEOREM Stopped == KeysFolded => (Spec => NotPassedOver)
<1> SUFFICES ASSUME KeysFolded
             PROVE  Spec => NotPassedOver
  OBVIOUS
<1>1. IInv /\ Marks /\ [Next]_vars => Marks'
  <2> SUFFICES ASSUME IInv, Marks, [Next]_vars
               PROVE  Marks'
    OBVIOUS
  <2>1. CASE UNCHANGED vars
    BY <2>1 DEF vars, Marks, Armed, Open, KeyHeld
  <2> QED
    BY <2>1, MarksAtSites, MarksInDispatch, MarksInView, MarksOutside DEF Next
<1>2. IInv /\ Marks => (SiteRuns => fired \/ overlaid = pc)
  <2> SUFFICES ASSUME IInv, Marks, SiteRuns
               PROVE  fired \/ overlaid = pc
    OBVIOUS
  <2> USE DEF IInv, Marks, SiteRuns
  <2>1. CASE Step
    BY <2>1 DEF Step, LetThrough, Due, Placed
  <2>2. CASE ViewStep
    <3>1. running \in View /\ pc \in Entries[running] /\ Matches(running, ram)
      BY <2>2 DEF ViewStep, TypeOK, RunsWhatRamHolds, Placed, Verdicts, Coherent
    <3>2. KeyHeld(pc, Image[running])
      BY <3>1 DEF KeysFolded, KeyHeld, Matches
    <3>3. passed = pc /\ running # None
      BY <2>2, <3>2 DEF ViewStep, HookStops, StopsAt
    <3> QED
      BY <3>3, SitesAreCells
  <2> QED
    BY <2>1, <2>2
<1> QED
  BY <1>1, <1>2, Invariant, MarksStart, PTL DEF Spec, NotPassedOver

=============================================================================
