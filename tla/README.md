# Formal model of nesrecomp

nesrecomp recompiles NES and Famicom programs to C and runs them. It has two
runners: `runner/src` runs recompiled functions, `runner/cyc` runs the machine
cycle by cycle with recompiled code inside. The parts of it that keep state over
time and are shared by several actors are modelled here in TLA+, checked with TLC
on small instances and, for their safety, proved with TLAPS for all values of their
constants. Every safety property a run checks is stated by a theorem as well; what only TLC
checks is liveness.

`PROJECT.json` lists the components, the hazards with their lines, the runs with
their properties, the mutants that show each property can fail, the map from
definitions to source lines, and the theorems.

## The system

| Part | State it keeps | Operations | Shared with, and how | What makes it correct |
| --- | --- | --- | --- | --- |
| Famicom disk drive (`cyc/hw_fds.c`) | `$402x` registers, timer, head position and delay, motor, transfer flags, the streams of every side, the write run in progress | one clock per CPU cycle, register reads and writes, eject, insert | CPU by its bus; host and tier by eject/insert between any two clocks; tier by reports | write runs are whole; interrupts have a cause; the timer keeps its time; a rewind before every read |
| HLE disk tier (`cyc/hw_fds_hle.c`) | plan, swap machine (action, hold, target, armed, rounds, host_owned), observations of the frame | reports from bus and drive, request at the BIOS's ID check, one step at a frame's end, configure | drive (eject/insert); host (disk change, plan) | never leaves the drive empty; never moves a disk the host took over; every swap ends |
| Disk action (`cyc/cyc_disk_action.c`) | toast, target, pending eject, hold | press, choose, cancel, once a frame | the drive by the host's calls, hence also the tier | never pulls a disk during a write; every flip ends with a disk in |
| Host's disk movers (`cyc/cyc_host.c`, `cyc_sdl.c`, `cyc_run.c`) | script position, plan, frame count | menu and dev keys, scripted events, plan toggle, frame order, exit | all of the above | the order within a frame keeps the promises of each |
| Disk save (`cyc/cyc_fds_save.inc`, `cyc_save.inc`) | generation saved, dirty_since, idle frames; the file, its temporary | open, frame, eject, flush (write temporary, rename, export), exit | drive's generation; the file system | the file is a whole disk at every instant; what is believed saved is in it; changes get saved in time |
| Cycle save states (`cyc/cyc_state.c`) | none of its own | save, load between two frames | replaces drive, tier (not its plan), all chips | every other part survives the replacement |
| Replay recorder (`cyc/cyc_replay.c`) | segment numbers, sizes, counters seen, events, queue, sticky error; files | frame begin/end, poke and drive notes, suspend, Mods switch, shutdown; the writer thread's loop | emulation thread and writer thread through one queue | each segment replays alone; nothing is lost without a report; retention; a hung frame's input is on disk |
| Event ring (`cyc/cyc_ring.c`) | fixed ring, folding state | push, read back | every chip pushes | folding loses no event; no torn read |
| Code in RAM and hook sites (`cyc/cyc_ramview.c`, `cyc_hooks.c`, `cyc_run.c`; the blocks of `recompiler/src/cyc_codegen.c`) | a verdict per compiled view, the write watch, the "dirty" flag, the site let through | find and run a view at an address, a store's watch, a site's callbacks | every store of program, mods and cheats; the scheduler; save states | compiled code runs only while RAM holds what it folded; a site calls back before it runs, and once |
| Calls of mods (`cyc/cyc_mod.c`) | the one isolated scope with its snapshot, whether hooks are armed in it | poke, patch ROM, begin and end a scope, call, committed call | the machine between frames or in a site's callback; verdicts and hook marks under it | a scope leaves no trace but what a commit stores again |
| DMAs and native intervals (`cyc/hw_apu.c`, `hw_machine.c`) | the sample channel's timer, buffer and delays, the sprite page's index and byte, the put/get phase, an open interval | one CPU cycle; `$4010`-`$4015`; begin and flush an interval | the CPU by its reads and writes; each other by the bus; compiled code by the interval | each sprite byte is the one read for it; no interval hides a DMA; both end |
| Cycle CPU, PPU, APU's sound, mappers (`cpu6502_interp.c`, `hw_ppu.c`, `hw_apu.c`, `hw_mapper.c`) | chip registers, memory | clocks | each other, in clock order | agreement with the hardware; checked by the repository's trace tests |
| Cycle host, menus, tools, settings (`cyc_sdl.c`, `cyc_ui_*`, `cyc_tcp.c`, `cyc_cheat.c`...) | window, menu, settings | frame loop, commands | everything | order within a frame |
| Battery saves (`src/save_ram.c`, used by `main_runner.c`, `launcher.c`, `netplay/nes_netplay.c`, `savestate.c`) | the path bound, active or not, the RAM as last written, when it was first and last changed, the guest's sandbox | bind, load, mark, tick, flush, import, clear, exit | the launcher and the runner through one path; matches through the sandbox; state loads through the baseline | the right file is written, in time, with nothing of another game |
| Coroutines (`src/coroutine.c`) | a stack and a context per task, the scheduler's context, the current channel, a restart asked for | start, resume, yield, end, back to the scheduler | generated code of a program with a scheduler; the NMI that may leave a task; restarts of the program | a task that waits has its stack, at the point it yielded; no switch enters a stack left behind |
| Frame callback (`src/runtime.c`, `main_runner.c`) | the NMI depth and the NMI put off, open callbacks, the place they interrupted, the restart asked for | vertical blank at an instruction boundary, callback, restart by longjmp | generated code, the handler, save states, rollback | the program goes on where its memory says; handlers run whole; frames go on |
| Function runner, interpreter, call stack (`src/runtime.c`, `interp.c`, `recomp_stack.c`) | memory map, dispatch table, shadow stack | calls, returns, interrupts | generated code | call depth matches the 6502 stack |
| Sound and picture (`src/apu.c`, `audio_shadow.c`, `recomp_audio_drc.h`, `ppu_renderer.c`...) | rings, resampler | produce, pull | audio thread | the ring never exceeds its size |
| HD packs (`src/hdpack.c`, `hdpack_jobs.inc`) | pack, its reference count, frames handed out | parse, draw, retain, release | the presentation | a pack lives as long as a frame of it |
| Mods (`src/mod_runtime.cpp`, `mod_function_hooks.c`) | catalog, plan, hooks | commit, activate, reset | both runners | activation order |
| Netplay and rollback (`src/netplay`, `src/rollback`) | session, snapshots, lobby | admit, finish, rewind | the frame loop | peers agree |
| Inputs, debug server | scripts, settings, sockets | poll | frame loop | |
| Recompiler discovery (`recompiler/src/function_finder.c`) | work list, found functions | breadth-first search over code | code generation | reaches a fixed point; finds what is reachable |
| Recompiler code generation, ROM and config reading | output text | pure I/O | | |
| TriCNES core, emu2413, toml.c, SDL2 | third-party | | | |

Hard behaviours, in the order of what they can cost: a save file lost or stale
(crash between steps, failing rename, generations after a load); a disk drive left
empty or a disk pulled in the middle of a write (several movers, plan switched off
half-way, state loaded half-way); a replay that silently lacks what happened (full queue,
failed write, an unnoticed change of the machine); the drive's races between head,
program and host, one CPU cycle apart; stale compiled code after a store nobody watched
(mirrors, pointers, commits, snapshots); a DMA's byte lost to another DMA; a save written
from the RAM of another game (matches, sandboxes, refusals); a program that goes on, after a
load, an interrupt or a switch of tasks, elsewhere than its memory says. `PROJECT.json` has them at
their lines.

## Modules

| Module | Models | Kind |
| --- | --- | --- |
| `FdsMedia` | which side is in, motor, write run: the drive as its users see it | abstract specification |
| `FdsHle` | the tier on the media | component, extends `FdsMedia` |
| `DiskAction` | the player's flip on the media and the tier | component, extends `FdsHle` |
| `FdsSwap` | one frame loop with the player, the script, the menu, the plan, loads, the program and the tier | composition |
| `FdsDrive` | the drive clock by clock with registers and timer; implements `FdsMedia` (`DrivesMedia`) | component, refinement |
| `DiskSave` | what the disk save promises: the file goes from one whole disk to another | abstract specification |
| `FdsSave` | the save's decisions and its file operations step by step; implements `DiskSave` (`Implements`) | component, refinement, extends `FdsMedia` |
| `ReplayWriter` | the bounded queue and the writer thread with its files | component |
| `CycReplay` | the recorder on the emulation thread, with the writer | composition |
| `RamViews` | verdicts on compiled views, their blocks, the scheduler with its hook sites, the mods' pokes, scopes and calls | component with its users |
| `ApuDma` | the sprite DMA and the sample DMA on the CPU's bus, with native intervals | component |
| `GuestRun` | a program on native stacks: the frame callback with its NMIs, states and restarts, the coroutines of a program's tasks | component with its users |
| `SaveRam` | the battery save through launcher, games, matches and the end of the process | component with its users |
| `FdsSwap_proofs`, `FdsSave_proofs`, `FdsDrive_proofs`, `CycReplay_proofs`, `RamViews_proofs`, `ApuDma_proofs`, `GuestRun_proofs`, `SaveRam_proofs` | theorems | proofs |
| `MCFdsSwap`, `MCFdsSave`, `MCFdsDrive`, `MCCycReplay`, `MCRamViews`, `MCApuDma`, `MCGuestRun`, `MCSaveRam` | constants and bounds for TLC | instances |

### How state and actions correspond to the code

*Shared drive.* `side`, `motor` and `run` are `media.side`, the motor bit and
`write_run`. A frame has two phases: in "host" the host's events happen in any
order and number, then `FrameStart` is `cyc_disk_action_frame()` (through
`cyc_host_disk_frame`), then in "run" the program does anything it can do to the drive
(`ProgramMotor`, `ProgramWrite`, `ProgramRequest`...), and `FrameEnd` is
`fds_hle_frame_end()`. The tier's variables have the names of `hw_fds_hle.c`.
`insert_at`, an absolute frame, is kept relative to the frame counter (`wait`).
`LoadState` replaces the drive and the tier, keeps the plan, leaves the Disk action as
it is and moves the frame counter. `emptied_by` is history: who took the last side out.

*Drive.* `Clock` is `fds_cpu_clock()`, `Program` one bus access; they alternate, as the
machine does. `Eject` and `Insert` come between any two of them. The values the program
may write are constants. `loaded` and `elapsed` are history.

*Save.* `FrameDone` is `fds_save_frame()`; `FlushBegin`, `FlushWrite`, `FlushRename` and
`FlushEnd` are the steps of `fds_save_flush()` and `save_write_atomic()`; `Crash` kills
the process between any two steps and `PowerLoss` also takes the file back to what was
on the medium (`durable`), because the code does not sync the file. `dirty_since` is
kept relative to the frame counter (`age`). A side's stream is one of a few contents;
the file holds the sides that differ from the image, or is missing, foreign or damaged.

*Replay recorder.* `pc` follows the emulation thread through
`frame_begin_impl()`, `open_segment_impl()`, `evict_oldest()`, the run of the frame,
`frame_end_impl()` and `cyc_replay_shutdown()`; every put into the queue is a step of its
own, so the writer runs in between. The writer's actions are the branches of
`w_worker()`. `news` holds the revision counters that differ from what the recorder last
saw. `buf` is stdio's buffer: what is in it is lost by a kill. History: `said`, the lines the
recorder meant a segment to have; `untold`, what changed the machine since the
checkpoint and no line tells; `loud`, that something was reported.

*Code in RAM.* `pc` is the program counter at an instruction boundary: a byte of RAM, or
`Rom` for everything else. A view is a set of entries (its instructions), what each folds and
the image it was compiled from. `Dispatch` is `dispatch()`; `ViewStep`, `ViewStop` and
`ViewInterrupted` are the three ways an emitted instruction goes, `NextView` the loop of
`cyc_ramview_run()`. What an instruction computes is abstracted: it may store any byte its
addressing mode reaches and go anywhere, so the model has every program. `CodeAddr`
and `StoreTested` are the compiler's own decision which stores to test. `mode` says who
has the machine: the scheduler, an interpreted step, a site's callback, a mod in its
scope, or the host between frames. `passed` is `cyc_hook_passed`.
`fired` and `overlaid` are history, read by properties only: that the callbacks of the site at `pc` have just run, and
the site the dispatch began at, let through while RAM held other code there.

*DMAs.* One step is one CPU cycle in the code's order: the DMA or the CPU's access, the end
of the cycle, the APU's clock. `yields` says whether the CPU's next access is one a DMA may
hold; `busy` bounds how long it makes others. A sprite byte is the index it was read from.
`NativeBegin`, `NativeCycle` and `NativeFlush` are the interval: clocks that run together,
without a DMA asked for. `Extra` lets the PPU enter and leave the added scanlines, in which
the APU does not run, on either side of the APU's clock.

*Programs on native stacks.* `g` is what a save state holds; `at` is where the native stack really
goes on, and that the two agree is what `InStep` says. A thread's place is a counter modulo
`Laps`. `calls` are the callbacks open on the running stack: "poll" before the handler, where keys,
script, debugger and rollback act, "first", "wait", "second", "late" and "light" in it, "post" after it.
`Vblank`, `Defers` and `Fires` are `maybe_trigger_vblank()`; `Finishes` is
`finish_frame_callback()` with the longjmp to `run_guest_execution()`. `ToTask` and
`ToScheduler` are the `swapcontext()` calls with their bookkeeping; `Starts`, `Resumes`, `Yields`,
`Ends` and `LoopsAgain` are the calls the code generator emits for a scheduler's
patterns. `strayed` is history: a switch has entered a discarded stack. What the program does is
taken from how the source uses it: two kinds of program, a handler with two halves and a busy flag.

*Battery save.* `phase` is "launcher", "play" or "ended". `Boot` is the launch of
`nesrecomp_runner_run()`, from the reset of the RAM through `save_ram_init()` to the first frame;
`Refused` and `BarrierFails` are its early returns; `ReturnToLobby` is the end of a match.
`Frame` is one `save_ram_tick()`: the clock in milliseconds is counted in frames. `Outcomes` is a
write: whole, not opened, or cut short. History: `kept`, the RAM as last written or as
the player loaded it; `owed`, the frames since it was so or a write was tried.

## Runs

| Run | Question and answer |
| --- | --- |
| `FdsSwap_shared` | Everyone moves the disk, with plan switches and loads of states taken outside a swap. Nobody's swap is left without its disk, no side is pulled during a write, and `IInv`, which `FdsSwap_proofs` shows to be inductive, holds: the tier holds only a drive that is empty and its own, and its hold counter never wraps. Under fair frames every swap of the tier and every flip of the player ends. |
| `FdsSave_crash` | Crashes, power loss, failing writes, imports, exports, loads: the file is always a whole disk or the one refused, "saved" is true, and the code implements `DiskSave`. |
| `FdsSave_timing` | With failing steps: saves are tried in time whatever the motor does, a retry waits, and if failures end everything reaches the file. |
| `FdsDrive_media` | The drive against every program and host on a small disk, its timer against every order of register writes, and the refinement of `FdsMedia`. |
| `CycReplay_record` | Both threads step by step, with a queue that fills, failing files and everything that may change the machine: segments replay alone, keep their lines, survive a kill, stay within retention; no line is lost without a report; a hung frame's inputs reach the disk and a shutdown ends. |
| `RamViews_code` | Any program, mod and host over four views: no verdict is wrong, compiled code runs only what RAM holds, a hook site calls back once for an arrival, and no dispatch runs one uncalled but one that began at that very site on other code, once. |
| `ApuDma` | Any order of register writes and of the CPU's reads and writes: each sprite byte written is the one read for its index, native intervals hide no DMA, every DMA lets the CPU go, a sample that is not looped ends. |
| `GuestRun` | Plain programs with states saved, loaded and restarted by rollback, and programs with a kernel of tasks, under every order of interrupts, nested, deferred, sent elsewhere or left: the program goes on where its memory says it is, handlers run whole, each task that waits has its stack, a load restarts the program, and frames go on. |
| `GuestRun_load` | *Violation.* `docs/NETPLAY.md:79-81` says a load must never depend on resuming an old host stack; in a program with tasks a load or a rollback restart discards the native stack that the coroutines' contexts lead to, and the next switch enters it. |
| `SaveRam` | One process after another: changes are written in time, a guest's RAM stays out of the personal save, later games start from it. |
| `SaveRam_refused` | *Violation.* `save_ram.h:84` says the launcher binds the path without activating persistence; after a match it is active still, and a refused match leaves a RAM of 0xFF that is written when the launcher closes. |
| `SaveRam_rollback` | *Violation.* `save_ram.h:75-76` says dirty SRAM is flushed after an interval; a rollback takes a change that is older than its snapshot for saved. |

### Bounds, and why they are enough

* `FdsSwap`: two sides (a third would only be another "other side"); holds, poll and gap
  limits of 1 and 2, since the code only compares these counters with their limits; the
  tier's round counter saturates at 1 instead of 255 (the code only asks whether it is zero);
  a flip's hold is 1 and a load may put its end `MaxWait` = 2 frames ahead. Loads bring back `SafeStates`: spinning up, emptied by
  the host, writing.
* `FdsSave_crash`: two sides of two contents, three changes in a session, one import and
  one export, idle and deadline of one frame; loads from an older and a longer session.
  `FdsSave_timing`: one side, idle 2, deadline 4, so the two are apart and an idle period fits
  twice.
* `FdsDrive`: sides of three and two bytes, a
  byte every two clocks, a spin-up of two; bytes are a gap or a mark. The head stops being
  counted at `HeadEnd`, past both sides. The constraint `TimerApart` keeps the timer's
  states apart from the turning drive's: the two share `$4023.0` and the acknowledgement
  by the status register, which both halves contain.
* `CycReplay_record`: three segments of two frames, two kept, checkpoints of one or two
  units with a limit of three, so that retention evicts none, one or two at once, by count and by
  bytes; a queue of five units, which a checkpoint and a few lines fill; one act of
  the player (a poke, load, settings, Mods, online play, a moved machine).
* `RamViews`: three bytes (internal RAM, cartridge RAM, the stack page) of two values, a mirror
  and a mapper register; two views that disagree about one byte, one of the cartridge's, one that
  folds the stack page and is unusable; one site with a key; scopes opened from a site's
  callback. Two images at one address are what a verdict can confuse; a second site would add only
  another place the mark is not of.
* `ApuDma`: a page of three bytes (first, middle, last), a sample byte of one bit and samples
  of one or two bytes, one rate of twelve cycles: the output unit asks once every twelve cycles, and
  the windows of `$4015`'s two special cases (2, 8 and 10 cycles before it) are apart.
  At most two cycles in a row yield to no DMA, as in a JSR or a read-modify-write; an interrupt's
  three pushes pass too (`MaxBusy = 3`, twice the time) and are not part of the run.
* `GuestRun`: two tasks, so that one sleeps while the other runs; a depth of 4 instead of 8, which
  holds an outer handler and two nested ones with the limit above; places counted modulo 2, one handler that is left
  for good (`MaxStuck`). States are those of plain programs taken before the handler, the case
  the code is made for; the others are below.
* `SaveRam`: three contents, a quiet period of 3 frames and a longer one of 5 (apart, and a change
  fits between), a ring of two snapshots, guests roll back, the personal file may fail; the
  two violations have two contents and shorter intervals.

### Fairness

* `FdsSwap`: `FrameStart` and `FrameEnd`, since the frame loop runs while the host does.
  Players, scripts and programs owe nothing. `FlipFinishes` further assumes that the host's
  own moves end and that writes end now and then.
* `FdsSave`: frames and the steps of a flush, which is one call. `EventuallySaved` assumes
  that failures end.
* `CycReplay`: the writer's loop, with files that answer (a disk that hangs for ever keeps
  the join waiting in the code, too), its 100 ms flush, and the two steps of a shutdown. The frame
  itself is not fair: it may hang, which is what `HungInputOnDisk` is about.
* `ApuDma`: the machine's cycle runs on (`Cycle`) and an open interval is flushed, as the next
  device access or the end of the block does. The program owes nothing but that it makes an access
  a DMA may hold within `MaxBusy` cycles. `SampleEnds` assumes that it leaves `$4015` alone.
* `GuestRun`: instructions spend the frame's budget whatever the program does, so an NMI that is due
  comes; the callback runs on to its end. Strong fairness for the handler at each depth and for the
  kernel's loop: between two NMIs, half a budget at least, their code gets further.
* `FdsDrive`, `RamViews` and `SaveRam` state safety only.

## Proofs

Each proof module has the same argument: `InitInv` and `StepInv` show `IInv`
inductive, `Invariant` concludes `Spec => []IInv`, and the results are read from it.

* `FdsSwap_proofs`. The invariants are not inductive alone: within a frame a request may put
  the tier back to "eject" on an empty drive, so `IInv` adds `EjectNeedsPlan` (only a tier with the
  plan on is about to eject), `TierPending` (a drive the tier emptied has a swap pending, also
  within a frame) and `PendingHasGoal`. Its two halves `TierPart` and `PlayerPart` are kept by one
  lemma per operation. `NeverStrandedByTier` and `NeverStrandedByFlip` assume `NoneMidSwap` and `NoneMidFlip`: that no
  state taken in the middle of a swap is loaded. Without that the first is false
  (see below), and so is the second: the Disk action is not part of a state. `HoldEnds` and `FlipEnds`
  are the safe half of the two liveness properties: a hold, or a flip no host touches, has a count that every
  frame's end makes smaller (`FlipWaits`: within a frame it is not 0 yet); that frames go on is fairness.
* `FdsSave_proofs`. `IInv` adds that no flush overlaps a frame, that one past its write did not
  fail and wrote this disk (`FlushedIsDisk`), that a session with a file could start from it, and that
  the file and what a power loss leaves are of one kind. `Refinement` maps every step to one of `DiskSave`
  or a stutter and assumes `HasPath`. The two waits need invariants of their own. `RetriesWait` rests on
  `FailureWaited`: since a failed flush neither the idle frames nor the age of the change exceed the frames
  that passed. `SavesInTime` rests on `ChangeAged`: every frame that ended with the disk unsaved is in the
  change's age. A load moves the frame counter under `dirty_since`, so each of them holds of loads in one
  direction only. `NoneLater` (no state of a longer session) is needed by the first: such a load makes a change
  look old and the next frame tries again at once. `NoneEarlier` is needed by the second: a change looks younger
  than it is and its save waits longer. With the other kind of load TLC finds both violated.
* `FdsDrive_proofs`. `IInv` splits into the timer and the head. `RunNeedsDisk` says that a motor turned off
  leaves its run only until the next clock, `SpinsFirst` that the spin-up is announced before the
  head is ready. `MediaRefined` proves that the drive implements the media the other modules build on.
* `CycReplay_proofs`. The recorder numbers segments, counts bytes and removes old ones by what it has
  *queued*; what is true on disk depends on a writer that is behind and may fail. `Ahead(d, q)` joins the two:
  the disk after each command of `q`, were they all to work. `IInv` says of every such disk, the one there is
  now included, that it is `Sound` (no lines without a whole checkpoint, retention, the lines a beginning of
  those said) and that each command finds what it needs (`Ready`); and of the last one (`Planned`) that it
  is what the recorder counts on (`Meant`): the texts and checkpoints from `oldest` to `segment`, their sizes
  the ones in its slots, their sum the `history` it compares with the limit. A command the writer performs
  moves the first of these disks to the second; one it fails at, or that never comes, leaves a disk that
  is still sound; a command the recorder queues adds one at the end and must keep it sound. That is why a removal
  is queued before the checkpoint that needs its room, and why a failed step ends recording: the numbers would
  be those of a disk that never comes. `Noted`, `Slotted`, `Accounted`, `Weighed` and `Numbers` tie the slots to
  the segments, `Threads` the flags of the two threads, `SaidSoFar` and `Recorded` the lines to the state of the
  frame. The sum of the slots and what a finite number of steps of `Ahead` keeps are shown by the least
  number that would be a counterexample, since the induction rule of the library has an operator for a parameter.
* `RamViews_proofs`. `IInv` joins the verdicts of the machine with those of the snapshot of an open
  scope (`Verdicts`), the running block with RAM (`RunsWhatRamHolds`), where control may be (`Placed`)
  and the site let through (`LetThrough`). The lemma about a store is the core: it demotes every
  view that folds a changed byte, so a verdict is kept by every view it does not touch; the compiler's
  map of folded bytes then makes the running block leave. `Marks`, inductive with it, says
  where the mark of a site let through may be found: outside a dispatch only at the boundary it was made at,
  with its callbacks run or other code there; inside one only of the site the dispatch began at. `Stopped` follows from
  both and assumes `KeysFolded`: each view at a site folds the bytes of its key. The compiler tests the key against the whole image,
  so a key longer than the view's code is outside it.
* `ApuDma_proofs`. `SpriteHeld` says what lies between a sprite DMA's get and its put: the CPU does not
  run, no second read comes, and on a put cycle an aligned byte is the one of its index. `InOrder`
  assumes `~Extra`: with added scanlines the phase jumps and the order is lost (below). `Releases`, under the
  same assumption, is the safe half of `Released`: `SampleLeft` and `SpriteLeft` count the cycles each DMA has
  left, and each cycle they take makes both smaller, but for a sample's read that costs the sprite DMA one more.
* `GuestRun_proofs`. `IInv` says how callbacks nest (`Nested`), what the depth and the frame count
  tell of them (`Counted`), that every place kept for a plain program's return is the one its memory
  tells (`PlainPart`), and that a kernel's program is on the stack of the task that runs, with all others
  saved (`KernelPart`). There is one lemma per action. All assume `PollOnly`: states of plain
  programs, saved and loaded before the handler. Without it both results are false (below).
* `SaveRam_proofs`. `IInv` adds that the sandbox is bound exactly while a guest plays
  (`SandboxOfGuest`), that nothing of a guest is left to write in the launcher (`NothingLeft`), and
  that where nothing rolls back the baseline is what was kept and a changed RAM has been dirty as
  long as it is owed (`Baseline`). `GuestSafe` assumes that writes to the sandbox succeed.

The constants' assumptions are named in the modules that declare them and evaluated by every
run. Only model-checked is liveness, since fairness and ENABLED are beyond the provers: `TierFinishes`,
`FlipFinishes`, `EventuallySaved`, `HungInputOnDisk`, `ShutdownEnds`, `Released`, `SampleEnds`, `LoadEnds` and
`FramesGoOn`. The inductive invariants that are no property of a run (`CycReplay`'s, `ApuDma`'s...) were
checked with TLC, conjunct by conjunct, on the run's instance before they were proved.

## What the code does and its text does not say

Three disagreements have a run of their own (above). Others were met while modelling:

* `hw_fds_hle.c:20-28` says what a load frame is. `spinning` (:201) is set by a rewind and cleared when
  the head is ready; a spin-up cut short by the motor or an eject leaves it set, and all later
  frames count as load frames.
* `hw_fds_hle.c:104` says the drive is never stranded empty by turning the tier off in mid-swap.
  A load takes the swap from the state and the plan from the host (`cyc_state.c:376`): a state
  saved in mid-swap and loaded with the tier off leaves the drive empty.
* `cyc_fds_save.inc:15-19` says the file is rewritten when the disk is ejected; the tier's ejects
  (`hw_fds_hle.c:242`) do not call the hook that does it.
* `hw_fds.c:39-42` says the head rewinds when a disk or the motor comes back; a change that no drive
  clock sees (:627) is missed, and the head reads on where it was.
* `runner/cyc/PROJECTS.md:25-27` says that DMA arbitration keeps alternating during the audio pause. It follows
  the cycle counter there and the APU's own phase outside (`hw_apu.c:951`); where the two
  differ, entering or leaving the added lines gives two put cycles in a row, and a sprite DMA writes
  one byte twice and reads on after it (`InOrder` assumes there are no such lines).
* `hw_apu.c:538-539` and `:989-990` say that the DMA of an implicit abort runs on the cycle after it
  is scheduled or is cancelled. Only the permission is cancelled; `dmc_dma` stays, and a sprite
  DMA that comes later runs it.
* `cyc_hooks.h:16-21` says that the scheduler runs the callbacks of the sites whose bytes memory holds, and that
  compiled code, RAM views and the interpreter fire a site identically. When no site at the program
  counter holds its key, nobody is called and the scheduler still marks it as let through
  (`cyc_run.c:142-146`) for the whole dispatch. A view of the other code has no exit there; if it brings the routine
  back and, from view to view, comes to the site again, `cyc_hook_stop` takes the mark and the routine runs
  with no callback. `SiteRuns => fired` alone is violated by the model in eight states, this way; `NotPassedOver`
  exempts exactly that (`overlaid`) and shows, with `Stopped`, that it is the only way, once in such a dispatch.
* `cyc_hooks.h:30-33` says that a callback that handled the routine returns as its RTS would. When that leads to
  the site itself (a JSR just before the routine, which falls into it), `cyc_run.c:145` takes it for
  "not handled": the second run goes through with no callback. The model counts it as called (`fired`).
* A state saved in a nested callback and loaded over a handler leaves the handler's second half to run
  on the memory of another first one (`SavePoints = {"nested"}` breaks `InStep`). The
  debugger polls in nested callbacks as well (`main_runner.c:1330`).
* `main_runner.c:1505-1511` says that saving and loading at the debugger's pause resumes on the same
  continuation. That holds while all states are taken there; one taken before the handler and
  loaded at the pause, or the other way round, counts a frame whose handler did not run, or runs one twice.
* A handler that goes to the kernel never ends its callback, and `runtime_reset_vblank_depth()` does not bring
  `s_frame_callback_depth` back: later callbacks are never the outermost, and a load asked for
  after it never restarts the program.
* A hook site's key longer than the code that a view folds there is compared with the image by the
  compiler (`cyc_codegen.c:1454-1468`) and with RAM by the scheduler: the view of another routine with
  the same start stops, or not, by bytes that are not its own.
* A write of the battery file that fails half way leaves a torn file while the baseline stays
  (`save_ram.c:100-106`); a game that writes the old bytes back makes the RAM equal to the baseline,
  and the file is never rewritten. A crash during a write tears the file as well.
* A guest whose last flush failed leaves its RAM unsaved when the launcher binds the personal path;
  the flush at exit writes it there (`GuestSafe` assumes that the sandbox can be written).
* A match whose rollback driver fails to start after the session did
  (`nes_netplay.c:364`) leaves the sandbox bound for the games after it. This failure is not in the model.
* `save_ram.h` says that clearing resets to a fresh state; the next boot finds no file and brings the
  older save over again.
* After a host changed the disk, disk access does not rearm the tier
  (`hw_fds_hle.c:261` tests `host_owned`); `hw_fds_hle.c:53-55` reads as if it did.
* A load in the middle of a flip leaves the drive empty, as the Disk action is the host's and not
  in the state.
* A load that moves the frame counter back prolongs a flip's hold
  (`cyc_disk_action.c:46`) and puts the save's deadline off (`cyc_fds_save.inc:310`): both keep
  absolute frame numbers.
* `cyc_replay.h:26-27` says that a frame whose H line is missing never finished. When the queue
  is full or a write fails at the H line the frame did finish and its H is missing all the same.

## Not modelled, and why

The drive's CRC unit and sound, the bytes of the save and state files, the Zapper and the copies of
the configuration in a replay (data that no property tells apart); coroutines on Windows fibers (the
same states by other calls); the CPU, PPU, tone generators and
mappers (large tables and arithmetic, covered by trace tests); drawing, menus and settings
(input and output); code generation but for the blocks of code in RAM and the calls for tasks and NMIs
(text); netplay's protocol (its
library is a submodule that is not in the tree); vendored code. Of the modules above, left out are a
jammed CPU, native intervals inside isolated calls, the capture of volatile bytes
(`RamViews`), the frame counter's interrupt and the PAL clock's phases (`ApuDma`), the
backup file and the late failure of a rollback driver (`SaveRam`), mapper interrupts and the
cycle counts of a restart (`GuestRun`).

The share of the source's lines behind the model is small by the nature of the tree: most of it is
vendored or ported (`tric_core.cpp`, `stb_image.h`, `libretro.h`), numeric, or text output, where a
state machine has nothing to say.

## Plan

1. Done: shared drive, disk save, drive, replay recorder, code in RAM with hook sites and mods' calls,
   DMAs, programs on native stacks with coroutines and restarts, battery saves.
2. Done: the proofs of all safety properties of the runs, the recorder's included, and the counts behind
   the endings of holds, flips and DMAs.
3. `HdJobs`: frames handed out and the pack's count; freed once, by the last.
4. `CycRing`, `AudioDrc`: ring bounds and folding, as pure operators against a reference.
5. `FunctionFinder`: the work list reaches the least fixed point, against a reference closure.
6. Lobby states of netplay; `RecompStack`; the EEPROM's serial protocol.

The composition worth adding is `FdsSwap` with `FdsSave` (an eject of any mover meets the save), and the
abstract specification worth sharing is `DiskSave`, between the two save components.
