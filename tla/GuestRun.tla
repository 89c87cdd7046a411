------------------------------ MODULE GuestRun ------------------------------
(***************************************************************************)
(* How the function-level runner runs a program on native stacks: the      *)
(* frame callback that the instruction boundary calls, in the middle of    *)
(* whatever the program does (runtime.c, main_runner.c), the save states   *)
(* taken and loaded inside it, the restart of the program that follows a   *)
(* load (run_guest_execution), and the stacks that stand for the tasks of  *)
(* a program with a scheduler of its own (coroutine.c, its ucontext        *)
(* branch; code_generator.c emits the calls).                              *)
(*                                                                         *)
(* The program is what the code in src/ takes it to be.  A plain one has   *)
(* one main thread.  One with a kernel scans a table of tasks, starts the  *)
(* new ones and resumes the ready ones; a task runs until it yields, ends, *)
(* or goes back to the kernel.  Its NMI handler has two halves, may wait   *)
(* in between for a flag that the next NMI sets, and wakes sleeping tasks. *)
(***************************************************************************)
EXTENDS Integers, Sequences, FiniteSets

CONSTANTS
    Channel,      \* the tasks of the kernel, COROUTINE_MAX_CHANNELS of them
    Kernel,       \* the kernel, or the main thread of a plain program
    None,         \* no position, no state
    MaxDepth,     \* MAX_VBLANK_DEPTH
    Laps,         \* where a thread stands is counted modulo Laps
    Games,        \* the kinds of program: "plain", "kernel"
    StateGames,   \* those whose states are saved and loaded
    SavePoints,   \* where: "poll", "nested", "paused"
    MaxStuck      \* bound on the callbacks left open by a handler that leaves

ASSUME GuestRunAssumption ==
    /\ IsFiniteSet(Channel) /\ Kernel \notin Channel
    /\ MaxDepth \in Nat /\ MaxDepth > 2 /\ Laps \in Nat /\ Laps > 1
    /\ Games \subseteq {"plain", "kernel"} /\ StateGames \subseteq Games
    /\ SavePoints \subseteq {"poll", "nested", "paused"}
    /\ MaxStuck \in Nat

VARIABLES
    game,         \* the kind of this program
    nesting,      \* g_nested_nmi_policy runs the handler, or pokes its flag
    rollback,     \* rb_restart_every_tick
    g,            \* what a save state holds of the machine
    saved,        \* the save state, or None
    native,       \* the stack that runs: Kernel for the main one
    at,           \* where the program goes on once no callback is open
    calls,        \* the callbacks open on that stack, the innermost last
    depth,        \* s_vblank_depth
    pending,      \* s_vblank_pending
    kept,         \* s_saved_vblank_depth, while an RTI sent elsewhere runs
    open,         \* s_frame_callback_depth
    resume,       \* s_frame_resume_pc, while a callback is open
    request,      \* s_guest_resume_pc, while s_guest_resume_pending
    inside,       \* s_in_coroutine
    channel,      \* s_current_channel
    restart,      \* s_restart_requested
    scheduler,    \* s_scheduler_ctx: "none", "saved" or "old"
    context,      \* s_coroutine_ctx and s_coroutine_active
    strayed       \* a switch has entered a stack left behind

program == <<game, nesting, rollback>>
callback == <<calls, depth, pending, kept, open, resume, request>>
stacks == <<native, inside, channel, restart, scheduler, context, strayed>>
vars == <<program, g, saved, at, callback, stacks>>

Thread == Channel \cup {Kernel}
Step == 0 .. Laps - 1
After(n) == (n + 1) % Laps
Positions == [who : Thread, step : Step]

ASSUME NoneAssumption == None \notin Positions

\* The machine: who runs and how far each thread is, the table of the kernel,
\* the handler's busy flag, the flag it waits for and whether NMIs are on, and
\* the frames counted less those whose handler ran, since
\* the program last went back to its kernel.
Machines ==
    [who : Thread, step : [Thread -> Step],
     task : [Channel -> {"none", "new", "sleep", "ready", "run"}],
     busy : BOOLEAN, flag : BOOLEAN, nmi : BOOLEAN, lag : -1 .. 1]

\* Where the machine says the program is.
Where(m) == [who |-> m.who, step |-> m.step[m.who]]

NoContext == [is |-> "free", step |-> 0, old |-> FALSE]
Running == [is |-> "running", step |-> 0, old |-> FALSE]
Saved(n) == [is |-> "saved", step |-> n, old |-> FALSE]
Contexts == [is : {"free", "running", "saved"}, step : Step, old : BOOLEAN]

Init ==
    /\ game \in Games /\ nesting \in BOOLEAN
    /\ rollback \in {r \in BOOLEAN : r => game \in StateGames}
    /\ g = [who |-> Kernel, step |-> [t \in Thread |-> 0],
            task |-> [c \in Channel |-> "none"],
            busy |-> FALSE, flag |-> FALSE, nmi |-> TRUE, lag |-> 0]
    /\ saved = None /\ request = None
    /\ native = Kernel /\ at = [who |-> Kernel, step |-> 0] /\ resume = None
    /\ calls = <<>> /\ depth = 0 /\ pending = FALSE /\ kept = 0 /\ open = 0
    /\ inside = FALSE /\ channel = None /\ restart = FALSE
    /\ scheduler = "none" /\ context = [c \in Channel |-> NoContext]
    /\ strayed = FALSE

-----------------------------------------------------------------------------
(* The switches of coroutine.c.                                            *)

Main == calls = <<>> /\ ~strayed
Top == calls[Len(calls)]
In(phases) == calls # <<>> /\ ~strayed /\ Top \in phases
Becomes(phase) == calls' = [calls EXCEPT ![Len(calls)] = phase]

\* The stack that runs is left for the kernel's, in the context that
\* coroutine_start or coroutine_resume saved; its own becomes ctx.
ToScheduler(ctx) ==
    /\ context' = IF channel \in Channel
                    THEN [context EXCEPT ![channel] = ctx] ELSE context
    /\ inside' = FALSE
    /\ native' = Kernel /\ at' = [who |-> Kernel, step |-> 0]
    /\ strayed' = (scheduler # "saved")
    /\ UNCHANGED <<channel, scheduler>>

\* Mutant: the channel is that of the first task for ever.
ToTaskFirst(c, n) ==
    /\ channel' = (IF channel = None THEN c ELSE channel)
    /\ inside' = TRUE /\ scheduler' = "saved"
    /\ context' = [context EXCEPT ![c] = Running]
    /\ native' = c /\ at' = [who |-> c, step |-> n]
    /\ UNCHANGED restart

\* The kernel's stack is left for that of task c, which goes on at step n.
ToTask(c, n) ==
    /\ channel' = c /\ inside' = TRUE /\ scheduler' = "saved"
    /\ context' = [context EXCEPT ![c] = Running]
    /\ native' = c /\ at' = [who |-> c, step |-> n]
    /\ UNCHANGED restart

-----------------------------------------------------------------------------
(* The program between interrupts.                                         *)

\* The main thread of a plain program runs on, or turns its NMIs on or off.
Advances ==
    /\ Main /\ game = "plain" /\ at.who = Kernel
    /\ \E on \in BOOLEAN :
         g' = [g EXCEPT !.step[Kernel] = After(@), !.nmi = on]
    /\ at' = [at EXCEPT !.step = After(@)]
    /\ UNCHANGED <<program, saved, callback, stacks>>

KernelRuns == Main /\ game = "kernel" /\ at.who = Kernel

\* Mutant: a kernel that starts over keeps the depth of the handler it left.
LoopsAgainDeep ==
    /\ KernelRuns /\ (inside \/ restart)
    /\ restart' = inside
    /\ IF inside
         THEN ToScheduler(Saved(0))
         ELSE /\ channel' = None /\ context' = [c \in Channel |-> NoContext]
              /\ UNCHANGED <<at, native, inside, scheduler, strayed>>
    /\ UNCHANGED <<program, g, saved, callback>>

\* The kernel's LDX #$FF, TXS (coroutine_scheduler_setjmp). Run where the
\* runner believes that a task runs, it goes to the kernel's own stack; come
\* back from a task that did so, it gives up every task's stack. The kernel
\* comes by each time a task gives way, and else it has nothing to do.
LoopsAgain ==
    /\ KernelRuns /\ (inside \/ restart)
    /\ restart' = inside
    /\ IF inside
         THEN ToScheduler(Saved(0)) /\ UNCHANGED <<depth, pending>>
         ELSE /\ channel' = None /\ context' = [c \in Channel |-> NoContext]
              /\ depth' = 0 /\ pending' = FALSE
              /\ UNCHANGED <<at, native, inside, scheduler, strayed>>
    /\ UNCHANGED <<program, g, saved, calls, kept, open, resume, request>>

Scans(c) == KernelRuns /\ ~inside /\ ~restart /\ g.task[c] \in {"new", "ready"}

\* JMP (zp): a stack is made for task c, in place of one it still has.
Starts(c) ==
    /\ Scans(c) /\ g.task[c] = "new"
    /\ g' = [g EXCEPT !.task[c] = "run", !.who = c, !.step[c] = After(@)]
    /\ ToTask(c, After(g.step[c]))
    /\ UNCHANGED <<program, saved, callback, strayed>>

\* PLA TAY PLA TAX RTS: task c goes on where its stack was left. Without a
\* stack the kernel looks further, and the task is lost.
Resumes(c) ==
    /\ Scans(c) /\ g.task[c] = "ready"
    /\ g' = [g EXCEPT !.task[c] = "run", !.who = c]
    /\ IF context[c].is = "free" THEN UNCHANGED <<at, stacks>>
       ELSE /\ ToTask(c, context[c].step)
            /\ strayed' = (context[c].old \/ context[c].is = "running")
    /\ UNCHANGED <<program, saved, callback>>

TaskRuns == Main /\ at.who \in Channel

\* TSX, STX zp,Y, JMP: the task sleeps (coroutine_yield).
Yields ==
    /\ TaskRuns
    /\ LET n == After(at.step) IN
         /\ g' = [g EXCEPT !.task[at.who] = "sleep", !.step[at.who] = n,
                           !.who = Kernel]
         /\ ToScheduler(Saved(n))
    /\ UNCHANGED <<program, saved, callback, restart>>

\* The entry of a task returns, and its stack is freed (coroutine_entry).
Ends ==
    /\ TaskRuns /\ native # Kernel
    /\ g' = [g EXCEPT !.task[at.who] = "none", !.who = Kernel]
    /\ ToScheduler(NoContext)
    /\ UNCHANGED <<program, saved, callback, restart>>

\* A task goes to the kernel without yielding: all tasks are given up, and
\* others are to start (a change of mode of the game).
ToKernel(new) ==
    /\ g' = [g EXCEPT !.who = Kernel, !.busy = FALSE, !.nmi = TRUE, !.lag = 0,
               !.task = [c \in Channel |-> IF c \in new THEN "new" ELSE "none"]]
    /\ restart' = TRUE /\ ToScheduler(Saved(0))

ChangesMode ==
    /\ TaskRuns
    /\ \E new \in SUBSET Channel : ToKernel(new)
    /\ UNCHANGED <<program, saved, callback>>

\* A task, or the kernel at boot, has a task started or stopped.
SetsTask ==
    /\ Main /\ game = "kernel"
    /\ \E c \in Channel \ {at.who}, s \in {"new", "none"} :
         g' = [g EXCEPT !.task[c] = s]
    /\ UNCHANGED <<program, saved, at, callback, stacks>>

-----------------------------------------------------------------------------
(* The vertical blank, at an instruction boundary (maybe_trigger_vblank).  *)

\* nes_vblank_callback is entered: runtime_begin_frame_callback.
Begins ==
    /\ calls' = Append(calls, "poll")
    /\ open' = open + 1
    /\ resume' = IF open = 0 THEN at ELSE resume
    /\ UNCHANGED <<kept, request>>

\* The frame's budget is spent outside a handler, with NMIs on.
Vblank ==
    /\ Main /\ depth = 0 /\ g.nmi
    /\ depth' = 1 /\ Begins
    /\ UNCHANGED <<program, g, saved, at, pending, stacks>>

\* Code of the program runs in a callback.
HandlerPhases == {"first", "wait", "second", "late", "light"}

\* The budget is spent inside a handler, or where one has been left: the NMI
\* waits.
Defers ==
    /\ Main \/ In(HandlerPhases)
    /\ depth \in 1 .. MaxDepth - 1 /\ ~pending
    /\ pending' = TRUE
    /\ UNCHANGED <<program, g, saved, at, calls, depth, kept, open, resume,
                   request, stacks>>

\* Half a budget later it comes all the same (maybe_fire_pending_vblank).
Fires ==
    /\ Main \/ In(HandlerPhases)
    /\ depth \in 1 .. MaxDepth - 1 /\ pending
    /\ pending' = FALSE
    /\ IF g.nmi THEN depth' = depth + 1 /\ Begins /\ UNCHANGED g
       ELSE /\ g' = [g EXCEPT !.flag = TRUE]
            /\ UNCHANGED <<calls, depth, kept, open, resume, request>>
    /\ UNCHANGED <<program, saved, at, stacks>>

-----------------------------------------------------------------------------
(* The callback (nes_vblank_callback).                                     *)

\* The kinds of moment at which a state may be saved or loaded: the keys, the
\* script, the debugger and the rollback driver before the handler runs, the
\* debugger while it holds the game after it.
Moment ==
    CASE In({"poll"}) /\ depth <= 1 -> "poll"
      [] In({"poll"}) /\ depth > 1 -> "nested"
      [] In({"post"}) /\ depth <= 1 -> "paused"
      [] OTHER -> "none"
MayUseStates == game \in StateGames /\ Moment \in SavePoints

\* savestate_save, runtime_get_savestate_resume
SavesState ==
    /\ MayUseStates
    /\ saved' = [g |-> g, depth |-> depth, pending |-> pending, at |-> resume]
    /\ UNCHANGED <<program, g, at, callback, stacks>>

\* Mutant: the place where this callback was entered is kept over a load.
LoadsStateUnbased ==
    /\ MayUseStates /\ saved # None
    /\ g' = saved.g /\ depth' = saved.depth /\ pending' = saved.pending
    /\ request' = saved.at
    /\ UNCHANGED <<program, saved, at, calls, kept, open, resume, stacks>>

\* savestate_load, runtime_request_guest_resume, runtime_rebase_frame_resume
LoadsState ==
    /\ MayUseStates /\ saved # None
    /\ g' = saved.g /\ depth' = saved.depth /\ pending' = saved.pending
    /\ request' = saved.at /\ resume' = saved.at
    /\ UNCHANGED <<program, saved, at, calls, kept, open, stacks>>

\* Mutant: the outermost callback is looked for before its end is counted.
FinishesCounted ==
    LET outermost == open = 0
        ask == IF outermost /\ rollback /\ request = None THEN resume ELSE request
    IN  /\ open' = IF open > 0 THEN open - 1 ELSE 0
        /\ resume' = IF outermost THEN None ELSE resume
        /\ IF outermost /\ ask # None
             THEN /\ calls' = <<>> /\ depth' = 0 /\ pending' = FALSE
                  /\ request' = None
                  /\ native' = Kernel /\ at' = ask
                  /\ scheduler' = IF scheduler = "saved" THEN "old" ELSE scheduler
                  /\ context' = [c \in Channel |-> [context[c] EXCEPT !.old = TRUE]]
             ELSE /\ calls' = SubSeq(calls, 1, Len(calls) - 1)
                  /\ depth' = depth - 1
                  /\ request' = ask
                  /\ UNCHANGED <<pending, native, at, scheduler, context>>
        /\ UNCHANGED <<kept, inside, channel, restart, strayed>>

\* finish_frame_callback: the innermost callback ends, and with the outermost
\* the stack it is on, if the program is to be restarted.
Finishes ==
    LET outermost == open <= 1
        ask == IF outermost /\ rollback /\ request = None THEN resume ELSE request
    IN  /\ open' = IF open > 0 THEN open - 1 ELSE 0
        /\ resume' = IF outermost THEN None ELSE resume
        /\ IF outermost /\ ask # None
             THEN /\ calls' = <<>> /\ depth' = 0 /\ pending' = FALSE
                  /\ request' = None
                  /\ native' = Kernel /\ at' = ask
                  /\ scheduler' = IF scheduler = "saved" THEN "old" ELSE scheduler
                  /\ context' = [c \in Channel |-> [context[c] EXCEPT !.old = TRUE]]
             ELSE /\ calls' = SubSeq(calls, 1, Len(calls) - 1)
                  /\ depth' = depth - 1
                  /\ request' = ask
                  /\ UNCHANGED <<pending, native, at, scheduler, context>>
        /\ UNCHANGED <<kept, inside, channel, restart, strayed>>

\* The handler is entered, or a nested one is spared it.
RunsNmi ==
    /\ In({"poll"}) /\ (depth > 1 => nesting)
    /\ Becomes(IF ~g.nmi THEN "post" ELSE IF depth > 1 THEN "light" ELSE "first")
    /\ depth' = IF g.nmi /\ depth <= 1 THEN depth + 1 ELSE depth
    /\ UNCHANGED <<program, g, saved, at, pending, kept, open, resume, request,
                   stacks>>

\* nes_resolve_nested_nmi_spin_flags
PokesFlag ==
    /\ In({"poll"}) /\ depth > 1 /\ ~nesting
    /\ g' = IF g.nmi THEN [g EXCEPT !.flag = TRUE] ELSE g
    /\ Finishes
    /\ UNCHANGED <<program, saved>>

\* The frame is counted after the outer handler, never after a nested one.
Ended ==
    /\ In({"post"})
    /\ g' = IF depth > 1 THEN g ELSE [g EXCEPT !.lag = @ + 1]
    /\ Finishes
    /\ UNCHANGED <<program, saved>>

-----------------------------------------------------------------------------
(* The program's handler (func_NMI).                                       *)

\* The first half wakes tasks; the handler may then wait for the next NMI.
FirstHalf ==
    /\ In({"first"})
    /\ \E woken \in SUBSET {c \in Channel : g.task[c] = "sleep"},
          waits \in BOOLEAN, on \in BOOLEAN :
         /\ g' = [g EXCEPT !.busy = TRUE, !.nmi = on, !.flag = ~waits,
                    !.task = [c \in Channel |-> IF c \in woken THEN "ready" ELSE @[c]]]
         /\ Becomes(IF waits THEN "wait" ELSE "second")
    /\ UNCHANGED <<program, saved, at, depth, pending, kept, open, resume,
                   request, stacks>>

Waits ==
    /\ In({"wait"}) /\ g.flag
    /\ Becomes("second")
    /\ UNCHANGED <<program, g, saved, at, depth, pending, kept, open, resume,
                   request, stacks>>

Handled == g' = [g EXCEPT !.busy = FALSE, !.nmi = TRUE, !.lag = @ - 1]

\* It ends with the RTI, or with one it has sent elsewhere: what is there runs
\* next, as code of the main thread that no NMI interrupts.
SecondHalf ==
    /\ In({"second"}) /\ Handled
    /\ Becomes("post") /\ depth' = IF depth > 0 THEN depth - 1 ELSE 0
    /\ UNCHANGED <<program, saved, at, pending, kept, open, resume, request,
                   stacks>>

SentElsewhere ==
    /\ In({"second"}) /\ Handled
    /\ Becomes("late")
    /\ pending' = FALSE /\ kept' = depth /\ depth' = MaxDepth
    /\ UNCHANGED <<program, saved, at, open, resume, request, stacks>>

LateEnds ==
    /\ In({"late"})
    /\ Becomes("post")
    /\ depth' = IF kept > 0 THEN kept - 1 ELSE 0
    /\ kept' = 0
    /\ UNCHANGED <<program, g, saved, at, pending, open, resume, request, stacks>>

\* A nested handler sees that another is busy and only counts the NMI.
LightEnds ==
    /\ In({"light"})
    /\ g' = [g EXCEPT !.flag = TRUE]
    /\ Becomes("post")
    /\ UNCHANGED <<program, saved, at, depth, pending, kept, open, resume,
                   request, stacks>>

\* A handler that interrupted a task goes to the kernel instead of ending: the
\* callbacks it is in are never left.
Leaves ==
    /\ In(HandlerPhases \ {"light"}) /\ Len(calls) = 1
    /\ inside /\ open <= MaxStuck
    /\ \E new \in SUBSET Channel : ToKernel(new)
    /\ calls' = <<>> /\ kept' = 0
    /\ UNCHANGED <<program, saved, depth, pending, open, resume, request>>

-----------------------------------------------------------------------------
Program ==
    \/ Advances \/ LoopsAgain \/ Yields \/ Ends \/ ChangesMode \/ SetsTask
    \/ \E c \in Channel : Starts(c) \/ Resumes(c)

Handler ==
    \/ FirstHalf \/ Waits \/ SecondHalf \/ SentElsewhere \/ LateEnds
    \/ LightEnds \/ Leaves

Host ==
    \/ Vblank \/ Defers \/ Fires
    \/ SavesState \/ LoadsState \/ RunsNmi \/ PokesFlag \/ Ended

Next == Program \/ Handler \/ Host

Spec == Init /\ [][Next]_vars

\* Instructions spend the frame's budget whatever the program does, so an NMI
\* that is due comes; the callback runs on to its end; and between one NMI and
\* the next, half a budget at least, the code of the handler gets further, at
\* each level of nesting, and so does a kernel that goes back to its loop.
FairSpec ==
    /\ Spec
    /\ WF_vars(Vblank \/ Defers \/ Fires)
    /\ WF_vars(RunsNmi \/ PokesFlag \/ Ended)
    /\ \A n \in 1 .. MaxDepth : SF_vars(Handler /\ Len(calls) = n)
    /\ SF_vars(LoopsAgain)
-----------------------------------------------------------------------------
States == [g : Machines, depth : 0 .. MaxDepth, pending : BOOLEAN, at : Positions]

TypeOK ==
    /\ game \in Games /\ nesting \in BOOLEAN /\ rollback \in BOOLEAN
    /\ g \in Machines /\ saved \in States \cup {None}
    /\ native \in Thread /\ at \in Positions
    /\ calls \in Seq(HandlerPhases \cup {"poll", "post"})
    /\ depth \in 0 .. MaxDepth /\ pending \in BOOLEAN /\ kept \in 0 .. MaxDepth
    /\ open \in Nat /\ {resume, request} \subseteq Positions \cup {None}
    /\ inside \in BOOLEAN /\ channel \in Channel \cup {None}
    /\ restart \in BOOLEAN /\ scheduler \in {"none", "saved", "old"}
    /\ context \in [Channel -> Contexts] /\ strayed \in BOOLEAN

\* "A load must never depend on resuming an old host C stack" (NETPLAY.md): no
\* switch enters the context of a stack that a restart has left behind.
NoOldStack == ~strayed

\* Whatever was saved, loaded and interrupted, the program goes on where its
\* memory says it is, a handler runs its second half if and only if the first
\* one ran, and a frame whose callback begins follows one whose handler ran; no
\* switch has entered a stack left behind.
InStep ==
    /\ ~strayed
    /\ Main => at = Where(g)
    /\ g.busy <=> \E i \in DOMAIN calls : calls[i] \in {"wait", "second"}
    /\ calls # <<>> /\ calls[1] = "poll" => g.lag = 0

\* A task that sleeps, or is ready, has a stack, left at the very point where
\* the task's memory says it yielded.
OwnStack ==
    \A c \in Channel : g.task[c] \in {"sleep", "ready"} =>
        context[c] = Saved(g.step[c])

\* A program that was asked to restart, after a load or under rollback, does.
LoadEnds == request # None ~> request = None

\* Frames go on while NMIs are on: no handler that waits, is nested, is sent
\* elsewhere or never ends keeps the next outer callback from coming.
FramesGoOn == []<>(In({"poll"}) /\ depth = 1) \/ []<>(Main /\ ~g.nmi)
-----------------------------------------------------------------------------
(* The invariant, where states are saved and loaded by plain programs alone   *)
(* and only before the handler runs.                                          *)
PollOnly == "kernel" \notin StateGames /\ SavePoints = {"poll"}

Outer == {"first", "wait", "second"}

SavedWell ==
    /\ saved.at = Where(saved.g) /\ saved.g.who = Kernel /\ saved.depth = 1
    /\ ~saved.g.busy /\ saved.g.nmi /\ saved.g.lag = 0
    /\ \A c \in Channel : saved.g.task[c] = "none"

\* Callbacks nest in code of the program: one that has not entered its handler,
\* or has left it, is the innermost, and below the first all handlers are light.
Nested ==
    /\ \A i \in DOMAIN calls : calls[i] \in {"poll", "post"} => i = Len(calls)
    /\ \A i \in DOMAIN calls : calls[i] \in Outer \cup {"late"} => i = 1
    /\ calls # <<>> /\ Top = "poll" => g.nmi

\* The outer handler has ended and its frame is not counted.
HandlerDone ==
    /\ calls # <<>>
    /\ calls[1] = "late" \/ (calls[1] = "post" /\ depth <= 1)

\* What the depth says of the open callbacks, and the count of frames.
Counted ==
    /\ calls # <<>> =>
         /\ depth >= Len(calls)
         /\ calls[1] \in Outer => depth = Len(calls) + 1
         /\ calls[1] = "light" => depth > Len(calls)
         /\ calls[1] = "late" => Len(calls) = 1 /\ depth = MaxDepth /\ kept = 2
    /\ g.lag = IF HandlerDone THEN -1 ELSE 0
    /\ g.busy <=> \E i \in DOMAIN calls : calls[i] \in {"wait", "second"}

\* A plain program stays on one stack, and every place kept for its return is
\* the one its memory tells.
PlainPart == game = "plain" =>
    /\ open = Len(calls)
    /\ ~inside /\ ~restart /\ native = Kernel /\ at.who = Kernel /\ g.who = Kernel
    /\ \A c \in Channel : g.task[c] = "none"
    /\ calls # <<>> => resume = Where(g)
    /\ IF request = None THEN at = Where(g) ELSE request = Where(g) /\ calls # <<>>
    /\ saved # None => SavedWell

\* A program with a kernel is where its memory says, on the stack of who runs,
\* and only that one's context is not saved.
KernelPart == game = "kernel" =>
    /\ ~rollback /\ saved = None /\ request = None
    /\ at = Where(g) /\ native = g.who /\ g.step[Kernel] = 0
    /\ inside <=> native # Kernel
    /\ inside => /\ channel = native /\ scheduler = "saved"
                 /\ g.task[native] = "run"
    /\ restart => ~inside /\ \A c \in Channel : g.task[c] \in {"none", "new"}
    /\ \A c \in Channel : ~context[c].old /\ (context[c].is = "running" => native = c)

IInv == TypeOK /\ ~strayed /\ Nested /\ Counted /\ PlainPart /\ KernelPart /\ OwnStack
=============================================================================
