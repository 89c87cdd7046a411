------------------------------ MODULE SaveRam ------------------------------
(***************************************************************************)
(* Battery RAM of the function-level runner (save_ram.c): the cartridge's  *)
(* RAM is loaded from saves/<title>.srm when a game boots and written back *)
(* a while after the game changed it, when a match is left and when the    *)
(* process ends.  The module follows one process after another through     *)
(* its launcher, its boots and its play (launcher.c, main_runner.c,        *)
(* nes_netplay.c), because the file that a flush writes is the one that    *)
(* the launcher or the last boot has bound.                                *)
(*                                                                         *)
(* The RAM is one value of Bytes and time is counted in frames.  A guest   *)
(* of a match plays on a file of its own, in the sandbox.  The backup that *)
(* the launcher makes beside a save is never read back and is left out.    *)
(***************************************************************************)
EXTENDS Integers, Sequences

CONSTANTS
    Bytes,        \* contents of the RAM
    Fresh,        \* the content of a RAM never written: all 0xFF
    Torn,         \* what a write that stops half way leaves of a file
    None,         \* no file
    Legacy,       \* an older save of the game, or None
    Debounce,     \* SRAM_FLUSH_DEBOUNCE_MS, in frames
    MaxDirty,     \* SRAM_FLUSH_MAX_DIRTY_MS, in frames
    Depth,        \* snapshots in the ring of the rollback driver
    Roles,        \* how the player starts games: "offline", "host", "guest"
    Rollbacks,    \* the roles whose matches predict inputs, and go back
    Refusals,     \* how a match may fail to start: "early", "barrier"
    Failing       \* the files that a write may fail to

ASSUME SaveRamAssumption ==
    /\ Fresh \in Bytes /\ Torn \notin Bytes /\ None \notin Bytes \cup {Torn}
    /\ Legacy \in Bytes \cup {None}
    /\ Debounce \in Nat \ {0} /\ MaxDirty \in Nat /\ Debounce <= MaxDirty
    /\ Depth \in Nat \ {0}
    /\ Roles \subseteq {"offline", "host", "guest"}
    /\ Rollbacks \subseteq {"host", "guest"}
    /\ Refusals \subseteq {"early", "barrier"}
    /\ Failing \subseteq {"personal", "sandbox"}

VARIABLES
    phase,        \* "launcher", "play" or "ended"
    role,         \* of the game whose RAM is in memory, "none" before one
    sandbox,      \* s_subdir is set
    path,         \* s_path
    active,       \* s_active
    sram,         \* g_sram
    snapshot,     \* s_snapshot
    dirty,        \* s_dirty
    age, quiet,   \* frames since s_first_dirty_ms and s_last_dirty_ms
    file,         \* the files on disk
    slot,         \* the RAM in the player's save state
    ring,         \* the RAM in the snapshots of the rollback driver
    kept,         \* ghost: the RAM as last written, or as the player loaded it
    owed          \* ghost: frames since the RAM was as kept or a write tried,
                  \* counted up to MaxDirty

timers == <<dirty, age, quiet>>
ghosts == <<kept, owed>>
bound == <<role, sandbox, path, active>>
vars == <<phase, bound, sram, snapshot, timers, file, slot, ring, ghosts>>

Paths == {"personal", "sandbox"}
Contents == Bytes \cup {Torn}

-----------------------------------------------------------------------------
\* save_ram_sync_snapshot, when the RAM is b.
Sync(b) ==
    /\ snapshot' = b
    /\ dirty' = FALSE /\ age' = 0 /\ quiet' = 0

\* The RAM becomes b, and b is what the file holds or what the player put in
\* its place.
Accept(b) == sram' = b /\ Sync(b) /\ kept' = b /\ owed' = 0

\* Writing b to a file: it works, the file does not open, or it is cut short.
Outcomes(p, b) ==
    {[ok |-> TRUE, file |-> [file EXCEPT ![p] = b]]} \cup
    IF p \in Failing
    THEN {[ok |-> FALSE, file |-> f] : f \in {file, [file EXCEPT ![p] = Torn]}}
    ELSE {}

\* save_ram_flush: what it may leave on disk.
FlushDue == active /\ sram # snapshot
Flushed == IF FlushDue THEN Outcomes(path, sram)
                       ELSE {[ok |-> FALSE, file |-> file]}

\* resolve_path.
Resolved(sub) == IF sub THEN "sandbox" ELSE "personal"

-----------------------------------------------------------------------------
\* Mutant: every write starts the longer interval again.
GameWritesRestart ==
    /\ phase = "play"
    /\ sram' \in Bytes \ {sram}
    /\ dirty' = active /\ age' = 0 /\ quiet' = 0
    /\ owed' = IF sram' = kept THEN 0 ELSE owed
    /\ UNCHANGED <<phase, bound, snapshot, file, slot, ring, kept>>

\* A write of the game that changes the RAM marks it dirty (nes_write and
\* save_ram_mark_dirty).
GameWrites ==
    /\ phase = "play"
    /\ sram' \in Bytes \ {sram}
    /\ dirty' = active /\ age' = (IF dirty THEN age ELSE 0) /\ quiet' = 0
    /\ owed' = IF sram' = kept THEN 0 ELSE owed
    /\ UNCHANGED <<phase, bound, snapshot, file, slot, ring, kept>>

\* save_ram_tick after a frame: the RAM came back to what was saved, or it
\* has been dirty or quiet for long enough, or it waits.
Older(n, most) == IF n < most THEN n + 1 ELSE n
Owed == IF sram = kept THEN 0 ELSE Older(owed, MaxDirty)

Reverted == sram = snapshot
Ripe == quiet + 1 >= Debounce \/ age + 1 >= MaxDirty

TickOff ==
    /\ ~dirty
    /\ owed' = Owed
    /\ UNCHANGED <<sram, snapshot, timers, file, kept>>

TickReverted ==
    /\ dirty /\ Reverted
    /\ Sync(sram)
    /\ owed' = Owed
    /\ UNCHANGED <<sram, file, kept>>

TickWaits ==
    /\ dirty /\ ~Reverted /\ ~Ripe
    /\ age' = Older(age, MaxDirty) /\ quiet' = Older(quiet, Debounce)
    /\ owed' = Owed
    /\ UNCHANGED <<sram, snapshot, dirty, file, kept>>

TickFlushes ==
    /\ dirty /\ ~Reverted /\ Ripe
    /\ \E o \in Flushed :
        /\ file' = o.file
        /\ IF o.ok
           THEN Accept(sram)
           ELSE /\ age' = Older(age, MaxDirty) /\ quiet' = Older(quiet, Debounce)
                /\ owed' = 0
                /\ UNCHANGED <<sram, snapshot, dirty, kept>>

\* The rollback driver takes its snapshot at the top of the frame, while it
\* may have to come back to it.
Snapped ==
    IF role \in Rollbacks
    THEN LET all == Append(ring, sram) IN
         IF Len(all) > Depth THEN Tail(all) ELSE all
    ELSE ring

Frame ==
    /\ phase = "play"
    /\ TickOff \/ TickReverted \/ TickWaits \/ TickFlushes
    /\ ring' = Snapped
    /\ UNCHANGED <<phase, bound, slot>>

\* The player's save state holds the RAM too, and loading it takes what it
\* holds for what is saved (savestate_deserialize); not in a match.
SaveState ==
    /\ phase = "play" /\ role = "offline"
    /\ slot' = sram
    /\ UNCHANGED <<phase, bound, sram, snapshot, timers, file, ring, ghosts>>

LoadState ==
    /\ phase = "play" /\ role = "offline" /\ slot # None
    /\ Accept(slot)
    /\ UNCHANGED <<phase, bound, file, slot, ring>>

\* Inputs predicted wrong: the driver loads the snapshot before them, by the
\* same function, and drops the later ones (nes_rb_state_load).
RollBack ==
    /\ phase = "play"
    /\ \E i \in 1 .. Len(ring) :
        /\ sram' = ring[i]
        /\ ring' = SubSeq(ring, 1, i - 1)
    /\ Sync(sram')
    /\ owed' = IF sram' = kept THEN 0 ELSE owed
    /\ UNCHANGED <<phase, bound, file, slot, kept>>

-----------------------------------------------------------------------------
\* A boot starts from a RAM of all 0xFF (runtime_init).  save_ram_init binds
\* the path, brings over an older save when there is none, and reads the file:
\* one cut short fills the start of the RAM, or nothing of it.
Migrated(p) ==
    IF file[p] = None /\ Legacy # None
    THEN {o.file : o \in Outcomes(p, Legacy)}
    ELSE {file}

Loaded(c) == CASE c = None -> {Fresh}
               [] c = Torn -> {Fresh, Torn}
               [] OTHER -> {c}

\* The launcher opens, again after a match, and binds the path for its saves
\* panel (save_ram_ui_bind).
Launcher(r, sub) ==
    /\ phase' = "launcher" /\ role' = r
    /\ sandbox' = sub /\ path' = Resolved(sub)
    /\ ring' = <<>>

\* A match refused before it connects (nesrecomp_runner_run,
\* nes_netplay_start) leaves the RAM as runtime_init made it.
Refused(r) ==
    /\ phase = "launcher" /\ r \in Roles \ {"offline"} /\ "early" \in Refusals
    /\ Launcher("none", sandbox)
    /\ sram' = Fresh
    /\ UNCHANGED <<active, snapshot, timers, file, slot, ghosts>>

\* Mutant: the session is shut down and the sandbox stays.
UnboxedNever(r) == sandbox

\* nes_netplay_shutdown: a guest leaves the sandbox.
Unboxed(r) == sandbox /\ r # "guest"

\* A game boots.  The peers of a match wait for each other first, and a guest
\* takes the RAM of the host (nes_netplay_boot_barrier).
Boot(r) ==
    /\ phase = "launcher" /\ r \in Roles
    /\ \E sub \in {sandbox \/ r = "guest"} :
        /\ file' \in Migrated(Resolved(sub))
        /\ phase' = "play" /\ role' = r
        /\ sandbox' = sub /\ path' = Resolved(sub) /\ active' = TRUE
        /\ \E b \in IF r = "guest" THEN Bytes ELSE Loaded(file'[Resolved(sub)]) :
            Accept(b)
    /\ ring' = <<>>
    /\ UNCHANGED slot

\* The peers do not meet in time, or the player leaves: the RAM is that of the
\* file, and the launcher opens again.
BarrierFails(r) ==
    /\ phase = "launcher" /\ r \in Roles \ {"offline"} /\ "barrier" \in Refusals
    /\ \E p \in {Resolved(sandbox \/ r = "guest")} :
        /\ file' \in Migrated(p)
        /\ \E b \in Loaded(file'[p]) : Accept(b)
    /\ active' = TRUE
    /\ Launcher("none", Unboxed(r))
    /\ UNCHANGED slot

\* Mutant: the launcher opens before the flush.
ReturnToLobbyUnflushed ==
    /\ phase = "play" /\ role \in {"host", "guest"}
    /\ Launcher(role, Unboxed(role))
    /\ UNCHANGED <<file, sram, snapshot, timers, ghosts, active, slot>>

\* A match ends: the RAM is flushed, the session shut down, and the launcher
\* opens again.
ReturnToLobby ==
    /\ phase = "play" /\ role \in {"host", "guest"}
    /\ \E o \in Flushed :
        /\ file' = o.file
        /\ IF o.ok THEN Accept(sram)
                   ELSE UNCHANGED <<sram, snapshot, timers, ghosts>>
    /\ Launcher(role, Unboxed(role))
    /\ UNCHANGED <<active, slot>>

\* The saves panel of the launcher.
Import ==
    /\ phase = "launcher"
    /\ \E b \in Bytes : \E o \in Outcomes(path, b) :
        /\ file' = o.file
        /\ IF o.ok THEN Accept(b)
                   ELSE UNCHANGED <<sram, snapshot, timers, ghosts>>
    /\ UNCHANGED <<phase, bound, slot, ring>>

Clear ==
    /\ phase = "launcher"
    /\ file' = [file EXCEPT ![path] = None]
    /\ Accept(Fresh)
    /\ UNCHANGED <<phase, bound, slot, ring>>

\* The process ends, and nothing but the files is left of it.
Gone ==
    /\ phase' = "ended" /\ role' = "none"
    /\ sandbox' = FALSE /\ path' = "personal" /\ active' = FALSE
    /\ Accept(Fresh)
    /\ ring' = <<>>
    /\ UNCHANGED slot

\* The player quits the game or closes the launcher: atexit flushes.  A crash
\* does not, and may cut a flush short.
Exit ==
    /\ phase # "ended"
    /\ \E o \in Flushed : file' = o.file
    /\ Gone

Crash ==
    /\ phase # "ended"
    /\ file' \in {file} \cup {o.file : o \in {f \in Flushed : ~f.ok}}
    /\ Gone

Start ==
    /\ phase = "ended"
    /\ Launcher("none", FALSE)
    /\ UNCHANGED <<active, sram, snapshot, timers, file, slot, ghosts>>

Init ==
    /\ phase = "ended" /\ role = "none"
    /\ sandbox = FALSE /\ path = "personal" /\ active = FALSE
    /\ sram = Fresh /\ snapshot = Fresh /\ kept = Fresh /\ owed = 0
    /\ dirty = FALSE /\ age = 0 /\ quiet = 0
    /\ file \in [Paths -> {None, Fresh}]
    /\ slot = None /\ ring = <<>>

Next ==
    \/ GameWrites \/ Frame \/ SaveState \/ LoadState \/ RollBack
    \/ \E r \in Roles : Refused(r) \/ Boot(r) \/ BarrierFails(r)
    \/ ReturnToLobby \/ Import \/ Clear \/ Exit \/ Crash \/ Start

Spec == Init /\ [][Next]_vars

-----------------------------------------------------------------------------
TypeOK ==
    /\ phase \in {"launcher", "play", "ended"}
    /\ role \in {"offline", "host", "guest", "none"}
    /\ sandbox \in BOOLEAN /\ path \in Paths /\ active \in BOOLEAN
    /\ sram \in Contents /\ snapshot \in Contents /\ kept \in Contents
    /\ dirty \in BOOLEAN /\ age \in 0 .. MaxDirty /\ quiet \in 0 .. Debounce
    /\ file \in [Paths -> Contents \cup {None}]
    /\ slot \in Contents \cup {None}
    /\ ring \in Seq(Contents) /\ Len(ring) <= Depth
    /\ owed \in 0 .. MaxDirty

\* The sandbox is bound while a guest plays, and no longer.
SandboxOfGuest ==
    /\ path = Resolved(sandbox)
    /\ sandbox <=> phase = "play" /\ role = "guest"
    /\ phase = "play" => active /\ role # "none"
    /\ phase = "ended" => ~active

\* What a guest leaves in memory is on disk already, so that nothing of it is
\* written when the launcher closes.
NothingLeft ==
    "sandbox" \notin Failing /\ phase = "launcher" /\ role = "guest" => ~FlushDue

\* Where nothing rolls back, the baseline is what was kept, and a RAM that
\* differs from it has been dirty for as long as it is owed.
Baseline ==
    /\ ring # <<>> => role \in Rollbacks
    /\ phase = "play" /\ role \notin Rollbacks =>
        /\ snapshot = kept
        /\ sram # kept => dirty
        /\ owed # 0 => sram # kept /\ owed <= age /\ owed < MaxDirty

\* The invariant of the saves: the types, which file is bound to whom, and
\* what a dirty RAM means (save_ram_init, save_ram_flush, save_ram_tick).
IInv == TypeOK /\ SandboxOfGuest /\ NothingLeft /\ Baseline

\* A RAM that is not as it was last written, or as the player loaded it, never
\* waits MaxDirty frames without an attempt to write it, where no rollback
\* takes it for saved (save_ram_tick, save_ram_mark_dirty).
SavedWithoutRollback ==
    phase = "play" /\ role \notin Rollbacks => owed < MaxDirty

\* The same of every game: "Dirty SRAM is flushed after a quiet period, or
\* after a much longer maximum interval if a game keeps touching SRAM
\* continuously" (save_ram.h).
SavedInTime == phase = "play" => owed < MaxDirty

\* What a guest plays never reaches the personal save, in the match or after
\* it, when the launcher has bound that save again.
GuestKept ==
    [][file'["personal"] # file["personal"] =>
         role # "guest" \/ (phase = "launcher" /\ phase' # "ended")]_vars

\* "Bind the save-file path for UI use WITHOUT activating runtime persistence"
\* (save_ram.h): nothing but a game that the player runs offline or hosts, the
\* panel of the launcher, and a boot that brings over an older save, changes
\* the personal save.
PersonalKept ==
    [][file'["personal"] # file["personal"] =>
         \/ role \in {"offline", "host"}
         \/ phase = "launcher" /\ phase' # "ended"]_vars

\* A game that is not a guest's starts from the personal save, whatever
\* matches came before it in the same process.
BootsOwnSave ==
    [][phase = "launcher" /\ phase' = "play" /\ role' # "guest" =>
         path' = "personal" /\ sram' \in Loaded(file'["personal"])]_vars
=============================================================================
