------------------------------ MODULE RamViews ------------------------------
(***************************************************************************)
(* Compiled views of code in RAM (cyc_ramview.c): code a program runs from *)
(* RAM is compiled ahead of time from images of that RAM, a view folding   *)
(* the bytes of its own instructions, and a view may run only while RAM    *)
(* holds them.  The verdict on each view is a cache: a write watch demotes *)
(* it, a dispatch renews it, a snapshot saves and restores it.             *)
(*                                                                         *)
(* Around it: the scheduler and its mod hook sites (cyc_run.c,             *)
(* cyc_hooks.c), the blocks the compiler emits for a view (cyc_codegen.c), *)
(* and the mods' pokes, isolated calls and committed calls (cyc_mod.c).    *)
(*                                                                         *)
(* What an instruction computes is abstracted: any instruction may store   *)
(* any byte its addressing mode reaches, and go anywhere.  The one thing   *)
(* kept of the interval between two instructions is whether an interrupt   *)
(* is about to be taken (irq).  A jammed CPU, which runs nothing more, is  *)
(* left out.                                                               *)
(***************************************************************************)
EXTENDS Integers

CONSTANTS
    Cell,       \* physical RAM bytes a program may run from
    Byte,       \* their values
    StackCell,  \* those of the stack page
    CartCell,   \* those of the cartridge's SRAM; none on a disk system
    Addr,       \* CPU addresses a store can name
    Phys,       \* Addr -> Cell, for those that reach RAM: a mirror is an
                \* address of its own; the others are mapper registers
    Modes,      \* for each addressing mode, the addresses it can reach
    NViews,     \* views compiled, numbered in the order of the tables
    Entries,    \* view -> the bytes its instructions start at
    Reads,      \* view -> entry -> the bytes that instruction folds
    Image,      \* view -> the whole RAM image it was compiled from
    Site,       \* bytes a mod hook site is at, each the start of an instruction
    Key,        \* site -> the bytes that must be there (the content key)
    Rom,        \* the program counter anywhere outside these bytes
    ScopesFrom  \* bound: where mods open isolated scopes, of "host" and "hook"

View   == 1..NViews
None    == 0
NoScope == [kind |-> "none"]
PC     == Cell \union {Rom}

Folds(v)   == UNION {Reads[v][c] : c \in Entries[v]}
OnCart(v)  == Entries[v] \cap CartCell # {}
\* view_usable: never the stack page, which a JSR pushes to between the
\* fetches of its own operand.
Usable(v)  == Folds(v) \cap StackCell = {}

ASSUME ViewsAssumption ==
    /\ NViews \in Nat
    /\ Rom \notin Cell /\ None \notin PC
    /\ StackCell \subseteq Cell /\ CartCell \subseteq Cell
    /\ DOMAIN Phys \subseteq Addr /\ \A a \in DOMAIN Phys : Phys[a] \in Cell
    /\ Modes \subseteq SUBSET Addr
    /\ \A v \in View : /\ Entries[v] \subseteq Cell
                       /\ \A c \in Entries[v] : Reads[v][c] \subseteq Cell
                       /\ Image[v] \in [Cell -> Byte]
                       /\ OnCart(v) => Entries[v] \subseteq CartCell
    /\ Site \subseteq Cell
    /\ \A c \in Site : DOMAIN Key[c] \subseteq Cell
    /\ ScopesFrom \subseteq {"host", "hook"}

VARIABLES
    ram,      \* hw.ram and hw_cart.wram
    status,   \* per view: what the dispatch may assume of it
    dirty,    \* cyc_ram_code_dirty: a store has demoted a valid view
    pc,       \* cpu.pc, at an instruction boundary
    running,  \* the view whose compiled function is executing, or None
    irq,      \* cpu.do_nmi | do_irq | do_reset
    ready,    \* hw_cart_code_ram_ready
    modified, \* hw_prg_modified
    passed,   \* cyc_hook_passed: the site the scheduler let through, or None
    mode,     \* "run": the scheduler's loop; "hook": a site's callbacks;
              \* "scope": a mod between its isolated calls; "host": between frames
    scope,    \* the isolated scope that is open, with its snapshot, or NoScope
    fired,    \* history: the callbacks of the site at pc have just run, and
              \* left the program there
    overlaid  \* history: the site the current dispatch began at, let through
              \* while RAM held other code there, until its key is back; or None

code    == <<ram, status, dirty>>
machine == <<pc, irq, ready>>
vars == <<ram, status, dirty, pc, running, irq, ready, modified, passed, mode, scope, fired, overlaid>>

Open == scope.kind # "none"
\* cyc_hooks_armed: some hook is enabled, and no isolated call that does not
\* allow hooks is running.
Armed == Open => scope.hooked
KeyHeld(c, mem) == \A k \in DOMAIN Key[c] : mem[k] = Key[c][k]
Matches(v, mem) == \A c \in Folds(v) : mem[c] = Image[v][c]

-----------------------------------------------------------------------------
\* on_code_write, called before byte c takes value b: every view that folds it
\* loses its verdict; one that was valid also ends the running block.
DemotedValid(c, st) == [v \in View |-> IF c \in Folds(v) /\ st[v] = "valid"
                                       THEN "unknown" ELSE st[v]]
Demoted(c, st) == [v \in View |-> IF c \in Folds(v) /\ st[v] \in {"valid", "invalid"}
                                  THEN "unknown" ELSE st[v]]
Broken(c, st) == \E v \in View : c \in Folds(v) /\ st[v] = "valid"
Watched(c) == \E v \in View : Usable(v) /\ c \in Folds(v)

\* hw_code_store.
CodeStore(c, b) ==
    /\ ram' = [ram EXCEPT ![c] = b]
    /\ IF Watched(c) /\ ram[c] # b
       THEN status' = Demoted(c, status) /\ dirty' = (dirty \/ Broken(c, status))
       ELSE UNCHANGED <<status, dirty>>

\* hw_bus_write of b at a: RAM, or a mapper register, which may move the gates
\* of the SRAM.
Store(a, b) ==
    IF a \in DOMAIN Phys
    THEN CodeStore(Phys[a], b) /\ UNCHANGED ready
    ELSE UNCHANGED code /\ ready' \in IF CartCell = {} THEN {ready} ELSE BOOLEAN

\* cyc_ramview_find at pc: a valid view at once, else the first unknown one
\* that matches; the unknown ones tried before it are invalid from then on.
Candidates(st) == {v \in View : pc \in Entries[v] /\ status[v] = st}
First(v, S) == v \in S /\ \A u \in S : v <= u
Gated == IF pc \in CartCell THEN ~ready ELSE modified

Find(found) ==
    LET unknown == Candidates("unknown")
        match == {v \in unknown : Matches(v, ram)}
    IN  \/ /\ Gated /\ found = None
           /\ UNCHANGED status
        \/ /\ ~Gated /\ First(found, Candidates("valid"))
           /\ UNCHANGED status
        \/ /\ ~Gated /\ Candidates("valid") = {} /\ First(found, match)
           /\ status' = [v \in View |-> IF v = found THEN "valid"
                                        ELSE IF v \in unknown /\ v < found THEN "invalid"
                                        ELSE status[v]]
        \/ /\ ~Gated /\ Candidates("valid") = {} /\ match = {} /\ found = None
           /\ status' = [v \in View |-> IF v \in unknown THEN "invalid" ELSE status[v]]

-----------------------------------------------------------------------------
\* What the compiler emits.  A store is followed by a test of dirty when its
\* addressing mode can reach a byte some view folds, mirrors included.
CodeAddrDirect == {a \in Cell : \E v \in View : a \in Folds(v)}
CodeAddr == {a \in DOMAIN Phys : \E v \in View : Phys[a] \in Folds(v)}
StoreTested(reach) == reach \cap CodeAddr # {}
\* The block returns to the scheduler at a site its image holds the key of.
StopsAt(v, c) == c \in Site /\ KeyHeld(c, Image[v])

Init ==
    /\ ram \in [Cell -> Byte]
    /\ status = [v \in View |-> IF Usable(v) THEN "unknown" ELSE "unusable"]
    /\ dirty = FALSE /\ running = None /\ pc = Rom /\ irq = FALSE
    /\ ready \in IF CartCell = {} THEN {TRUE} ELSE BOOLEAN
    /\ modified = FALSE /\ passed = None
    /\ mode = "run" /\ scope = NoScope /\ fired = FALSE /\ overlaid = None

\* run_until_stop: a site is due unless it has just been let through.
Due == Armed /\ pc \in Site /\ passed # pc /\ ~irq

\* cyc_hooks_fire where RAM holds the key: the callbacks begin.
Fire ==
    /\ mode = "run" /\ running = None /\ Due /\ KeyHeld(pc, ram)
    /\ mode' = "hook"
    /\ UNCHANGED <<code, machine, modified, running, passed, scope, fired, overlaid>>

\* ... and where it does not: nobody is called, the site is let through.
Mismatch ==
    /\ mode = "run" /\ running = None /\ Due /\ ~KeyHeld(pc, ram)
    /\ passed' = pc
    /\ UNCHANGED <<code, machine, modified, running, mode, scope, fired, overlaid>>

HookReturnsBlind ==
    /\ mode = "hook"
    /\ pc' \in PC
    /\ fired' = (pc' = pc \/ fired)
    /\ mode' = "run"
    /\ UNCHANGED <<code, irq, ready, modified, running, passed, scope, overlaid>>

\* The callbacks return: the instruction is next, or the routine was handled
\* and the program continues elsewhere.
HookReturns ==
    /\ mode = "hook"
    /\ pc' \in PC
    /\ IF pc' = pc THEN passed' = pc /\ fired' = TRUE ELSE UNCHANGED <<passed, fired>>
    /\ mode' = "run"
    /\ UNCHANGED <<code, irq, ready, modified, running, scope, overlaid>>

\* dispatch: enter a view, or leave the instruction to the interpreter or to
\* compiled ROM code.
Dispatch ==
    /\ mode = "run" /\ running = None /\ ~Due
    /\ \E found \in View \union {None} :
        /\ Find(found)
        /\ running' = found
        /\ IF found = None THEN mode' = "step" /\ UNCHANGED dirty
                           ELSE dirty' = FALSE /\ UNCHANGED mode
    /\ overlaid' = IF passed = pc /\ ~KeyHeld(pc, ram) THEN pc ELSE None
    /\ UNCHANGED <<ram, machine, modified, passed, scope, fired>>

\* One instruction, whoever runs it: perhaps a store, then wherever it goes,
\* an interrupt about to be taken or not: an isolated call has no clocks, and
\* so no interrupts.
Goes == pc' \in PC /\ irq' \in (IF Open THEN {FALSE} ELSE BOOLEAN) /\ fired' = FALSE

\* cpu_interp_step, or a block of ROM code.
Step ==
    /\ mode = "step"
    /\ \/ /\ irq
          /\ pc' = Rom /\ irq' = FALSE /\ fired' = FALSE
          /\ UNCHANGED <<code, ready>>
       \/ /\ ~irq /\ Goes
          /\ \/ \E a \in Addr, b \in Byte : Store(a, b)
             \/ UNCHANGED <<code, ready>>
    /\ mode' = "run" /\ passed' = None /\ overlaid' = None
    /\ UNCHANGED <<modified, running, scope>>

\* cyc_hook_stop at a site the view's image holds.
HookStopsOutsideCalls == StopsAt(running, pc) /\ ~Open /\ ~irq /\ passed # pc
HookStops == StopsAt(running, pc) /\ Armed /\ ~irq /\ passed # pc

\* The compiled function returns to cyc_ramview_run, or to the scheduler.
Leave(to) == running' = None /\ mode' = to

ViewStop ==
    /\ running # None /\ HookStops
    /\ Leave("run") /\ passed' = None /\ overlaid' = None
    /\ UNCHANGED <<code, machine, modified, scope, fired>>

ViewInterrupted ==
    /\ running # None /\ ~HookStops /\ irq
    /\ pc' = Rom /\ irq' = FALSE /\ fired' = FALSE
    /\ Leave("views")
    /\ UNCHANGED <<code, ready, modified, passed, scope, overlaid>>

\* One instruction of a view.  After it the function goes on inside the view,
\* or returns: a jump out of it, a store that broke a view, a store of a
\* cartridge view to a mapper register.
ViewStep ==
    /\ running # None /\ ~HookStops /\ ~irq
    /\ Goes
    /\ passed' = IF StopsAt(running, pc) /\ Armed THEN None ELSE passed
    /\ overlaid' = IF pc = overlaid /\ KeyHeld(pc, ram) THEN None ELSE overlaid
    /\ \E returns \in BOOLEAN :
        /\ \/ /\ UNCHANGED <<code, ready>>
              /\ returns \/ pc' \in Entries[running]
           \/ \E reach \in Modes : \E a \in reach, b \in Byte :
              /\ Store(a, b)
              /\ returns <=> \/ StoreTested(reach) /\ dirty'
                             \/ OnCart(running) /\ a \notin DOMAIN Phys
                             \/ pc' \notin Entries[running]
        /\ IF returns THEN Leave("views") ELSE UNCHANGED <<running, mode>>
    /\ UNCHANGED <<modified, scope>>

\* The loop of cyc_ramview_run: from view to view, without the scheduler.
NextView ==
    /\ mode = "views"
    /\ \E found \in View \union {None} :
        /\ Find(found)
        /\ running' = found
        /\ mode' = "run"
        /\ IF found = None THEN passed' = None /\ overlaid' = None /\ UNCHANGED dirty
                           ELSE dirty' = FALSE /\ UNCHANGED <<passed, overlaid>>
    /\ UNCHANGED <<ram, machine, modified, scope, fired>>

\* cyc_snapshot_restore and the rest of cyc_mod_isolate_end.
Restore ==
    /\ ram' = scope.ram /\ status' = scope.status /\ dirty' = scope.dirty
    /\ pc' = scope.pc /\ irq' = scope.irq /\ ready' = scope.ready
    /\ running' = None /\ mode' = scope.mode
    /\ scope' = NoScope /\ fired' = FALSE

\* hw_frame_done, seen at a boundary an instruction has just reached: the end
\* of the frame, or of the cycle budget of an isolated call.
FrameDone ==
    /\ mode \in {"run", "views"} /\ ~fired
    /\ passed' = None /\ overlaid' = None
    /\ \/ /\ ~Open
          /\ Leave("host")
          /\ UNCHANGED <<code, machine, scope, fired>>
       \/ /\ Open /\ scope.kind = "scope"
          /\ Leave("scope")
          /\ UNCHANGED <<code, machine, scope, fired>>
       \/ /\ Open /\ scope.kind = "commit"
          /\ Restore
    /\ UNCHANGED modified

-----------------------------------------------------------------------------
\* The host, between frames.
NextFrame ==
    /\ mode = "host"
    /\ mode' = "run"
    /\ UNCHANGED <<code, machine, modified, running, passed, scope, fired, overlaid>>

\* cyc_state_load: another machine's RAM, every usable view unknown again.
LoadState ==
    /\ mode = "host"
    /\ ram' \in [Cell -> Byte]
    /\ status' = [v \in View |-> IF status[v] = "unusable" THEN "unusable" ELSE "unknown"]
    /\ dirty' = FALSE
    /\ pc' \in PC /\ irq' \in BOOLEAN
    /\ ready' \in IF CartCell = {} THEN {ready} ELSE BOOLEAN
    /\ passed' = None
    /\ UNCHANGED <<modified, running, mode, scope, fired, overlaid>>

\* cyc_mod_prg_data_rw: a mod takes the cartridge's ROM to write it.
PatchRom ==
    /\ mode \in {"host", "hook"} /\ ~Open /\ CartCell # {}
    /\ modified' = TRUE
    /\ UNCHANGED <<code, machine, running, passed, mode, scope, fired, overlaid>>

\* cyc_mod_poke: a mod's callback, a cheat, a mod inside its scope.
Poke ==
    /\ mode \in {"host", "hook", "scope"}
    /\ \E c \in Cell, b \in Byte : CodeStore(c, b)
    /\ UNCHANGED <<machine, modified, running, passed, mode, scope, fired, overlaid>>

-----------------------------------------------------------------------------
\* Isolated calls.  cyc_mod_isolate_begin snapshots the machine and mutes it;
\* hooks are suspended, which forgets the site let through.
Snapshot(kind, hooked) ==
    [kind |-> kind, hooked |-> hooked, ram |-> ram, status |-> status, dirty |-> dirty,
     pc |-> pc, irq |-> irq, ready |-> ready, mode |-> mode]

\* The machine a call of a routine starts from: the return address pushed to
\* the stack page directly, without the watch.
Called ==
    /\ \E b \in Byte : ram' = [c \in Cell |-> IF c \in StackCell THEN b ELSE ram[c]]
    /\ pc' \in PC /\ mode' = "run"
    /\ UNCHANGED <<status, dirty, running, fired>>

IsolateBegin ==
    /\ mode \in ScopesFrom /\ ~Open
    /\ scope' = Snapshot("scope", FALSE)
    /\ irq' = FALSE /\ passed' = None /\ mode' = "scope"
    /\ UNCHANGED <<code, pc, ready, modified, running, fired, overlaid>>

\* cyc_mod_allow_isolated_hooks.
AllowHooks ==
    /\ mode = "scope" /\ ~scope.hooked
    /\ scope' = [scope EXCEPT !.hooked = TRUE]
    /\ UNCHANGED <<code, machine, modified, running, passed, mode, fired, overlaid>>

\* cyc_mod_call.
Call ==
    /\ mode = "scope"
    /\ Called
    /\ UNCHANGED <<irq, ready, modified, passed, scope, overlaid>>

\* call_commit opens its own scope for one call.
CommitBegin ==
    /\ mode \in ScopesFrom /\ ~Open
    /\ \E hooked \in BOOLEAN : scope' = Snapshot("commit", hooked)
    /\ irq' = FALSE /\ passed' = None
    /\ Called
    /\ UNCHANGED <<ready, modified, overlaid>>

\* cyc_run_isolated returns: the program is back at the return address.
Returned == mode = "run" /\ Open /\ running = None /\ pc = Rom

CallReturns ==
    /\ Returned /\ scope.kind = "scope"
    /\ mode' = "scope"
    /\ UNCHANGED <<code, machine, modified, running, passed, scope, fired, overlaid>>

IsolateEnd ==
    /\ mode = "scope"
    /\ Restore
    /\ UNCHANGED <<modified, passed, overlaid>>

\* call_commit after a good call: the scope ends, then every byte the routine
\* changed is stored again, through the watch.
Commit ==
    LET changed == {c \in Cell : ram[c] # scope.ram[c] /\ Watched(c)}
    IN  /\ Returned /\ scope.kind = "commit"
        /\ ram' = ram
        /\ status' = [v \in View |-> IF Folds(v) \cap changed # {} /\ scope.status[v] \in {"valid", "invalid"}
                                     THEN "unknown" ELSE scope.status[v]]
        /\ dirty' = (scope.dirty \/ \E c \in changed : Broken(c, scope.status))
        /\ pc' = scope.pc /\ irq' = scope.irq /\ ready' = scope.ready
        /\ mode' = scope.mode /\ scope' = NoScope /\ fired' = FALSE
        /\ UNCHANGED <<modified, running, passed, overlaid>>

\* ... and after one that stored to a device register.
CommitRefused ==
    /\ Returned /\ scope.kind = "commit"
    /\ Restore
    /\ UNCHANGED <<modified, passed, overlaid>>

Next ==
    \/ Fire \/ Mismatch \/ HookReturns \/ Dispatch \/ Step
    \/ ViewStop \/ ViewInterrupted \/ ViewStep \/ NextView \/ FrameDone
    \/ NextFrame \/ LoadState \/ PatchRom \/ Poke
    \/ IsolateBegin \/ AllowHooks \/ Call \/ CommitBegin
    \/ CallReturns \/ IsolateEnd \/ Commit \/ CommitRefused

Spec == Init /\ [][Next]_vars
-----------------------------------------------------------------------------
Verdict == [View -> {"unknown", "valid", "invalid", "unusable"}]
Snapshots == [kind : {"scope", "commit"}, hooked : BOOLEAN, ram : [Cell -> Byte],
              status : Verdict, dirty : BOOLEAN, pc : PC, irq : BOOLEAN,
              ready : BOOLEAN, mode : {"host", "hook"}]

TypeOK ==
    /\ ram \in [Cell -> Byte] /\ status \in Verdict /\ dirty \in BOOLEAN
    /\ pc \in PC /\ running \in View \union {None}
    /\ irq \in BOOLEAN /\ ready \in BOOLEAN /\ modified \in BOOLEAN
    /\ passed \in Site \union {None} /\ overlaid \in Site \union {None}
    /\ fired \in BOOLEAN
    /\ mode \in {"run", "step", "views", "hook", "host", "scope"}
    /\ scope \in Snapshots \union {NoScope}

\* A verdict is never wrong of the RAM it goes with: the machine's, and the
\* one an open scope will bring back.
Coherent(st, mem) == \A v \in View :
    /\ st[v] = "unusable" <=> ~Usable(v)
    /\ st[v] = "valid" => Matches(v, mem)
    /\ st[v] = "invalid" => ~Matches(v, mem)
Verdicts == Coherent(status, ram) /\ (Open => Coherent(scope.status, scope.ram))

\* While compiled code runs, the instruction it is at is one of its own, every
\* byte it folded is the byte RAM holds, no store has broken any view, and the
\* gates under which it was entered are still open.
RunsWhatRamHolds ==
    running # None =>
        /\ pc \in Entries[running]
        /\ \A c \in Reads[running][pc] : ram[c] = Image[running][c]
        /\ ~dirty
        /\ pc \in CartCell => ready

\* Where control is: a compiled function is of a view known to be valid;
\* callbacks are of a site.
Placed ==
    /\ running # None => status[running] = "valid" /\ mode = "run"
    /\ mode = "scope" => Open
    /\ mode = "hook" => pc \in Site
    /\ Open /\ scope.mode = "hook" => scope.pc \in Site

\* A site whose callbacks have run is let through until its instruction runs.
LetThrough ==
    /\ fired => passed = pc /\ mode \in {"run", "step"}
    /\ mode = "step" => ~Due

\* The inductive invariant.
IInv == TypeOK /\ Verdicts /\ RunsWhatRamHolds /\ Placed /\ LetThrough

\* The mark of a site let through is of the boundary the program is at, where
\* either its callbacks have run or RAM held other code; in a dispatch, it is
\* of the site the dispatch began at.  Inductive with IInv where keys are
\* folded by the views of their sites.
Marks ==
    /\ (passed # None \/ mode = "hook") => Armed
    /\ mode \in {"hook", "host", "scope"} => passed = None
    /\ running = None /\ mode \in {"run", "step"} =>
        /\ passed \in {None, pc}
        /\ passed = pc => fired \/ ~KeyHeld(pc, ram)
    /\ running # None => \/ passed \in {None, overlaid}
                         \/ fired /\ KeyHeld(pc, ram)
    /\ mode = "views" /\ pc \in Cell => passed \in {None, overlaid}

\* An instruction at a site whose key RAM holds runs, with hooks armed.
SiteRuns == pc \in Site /\ KeyHeld(pc, ram) /\ Armed /\ ~irq /\ (Step \/ ViewStep)
\* A site is run only right after its callbacks (cyc_hooks.h:16-21), whatever
\* views, interpreter, callbacks and isolated calls did before.  What the code
\* lets pass against that text is named: a dispatch that began at this very
\* site on other code runs it uncalled, and once.
NotPassedOver == [][SiteRuns => fired \/ overlaid = pc]_vars
\* Callbacks run once for an arrival.
FiresOnce == [][Fire => ~fired]_vars

=============================================================================
