--------------------------- MODULE SaveRam_proofs ---------------------------
(***************************************************************************)
(* Theorems about SaveRam, for any contents, any intervals and any way of  *)
(* starting and refusing matches.                                          *)
(***************************************************************************)
EXTENDS SaveRam, TLAPS

Files == [Paths -> Contents \cup {None}]

\* A write leaves a file that is the RAM, as it was, or cut short.
LEMMA OutcomesType ==
    ASSUME file \in Files, NEW p \in Paths, NEW b \in Contents,
           NEW o \in Outcomes(p, b)
    PROVE  o.file \in Files /\ o.ok \in BOOLEAN /\ (p \notin Failing => o.ok)
<1>1. [file EXCEPT ![p] = b] \in Files /\ [file EXCEPT ![p] = Torn] \in Files
  BY DEF Files, Contents
<1>2. CASE o = [ok |-> TRUE, file |-> [file EXCEPT ![p] = b]]
  <2>1. o.ok = TRUE /\ o.file = [file EXCEPT ![p] = b]
    BY <1>2
  <2> QED
    BY <1>1, <2>1
<1>3. CASE p \in Failing /\ \E f \in {file, [file EXCEPT ![p] = Torn]} : o = [ok |-> FALSE, file |-> f]
  <2>1. PICK f \in {file, [file EXCEPT ![p] = Torn]} : o = [ok |-> FALSE, file |-> f]
    BY <1>3
  <2>2. o.ok = FALSE /\ o.file = f
    BY <2>1
  <2> QED
    BY <1>1, <1>3, <2>1, <2>2
<1> QED
  BY <1>2, <1>3, Zenon DEF Outcomes

\* A flush writes when the RAM differs from the snapshot, and then only fails
\* to a file that may fail.
LEMMA FlushedType ==
    ASSUME TypeOK, NEW o \in Flushed
    PROVE  /\ o.file \in Files /\ o.ok \in BOOLEAN
           /\ o.ok => FlushDue
           /\ FlushDue /\ path \notin Failing => o.ok
<1>1. CASE FlushDue
  <2>1. o \in Outcomes(path, sram)
    BY <1>1 DEF Flushed
  <2> QED
    BY <1>1, <2>1, OutcomesType DEF TypeOK, Files
<1>2. CASE ~FlushDue
  <2>1. o = [ok |-> FALSE, file |-> file]
    BY <1>2, Zenon DEF Flushed
  <2>2. o.ok = FALSE /\ o.file = file
    BY <2>1
  <2> QED
    BY <1>2, <2>2 DEF TypeOK, Files
<1> QED
  BY <1>1, <1>2

LEMMA LoadedType ==
    ASSUME NEW c \in Contents \cup {None} PROVE Loaded(c) \subseteq Contents
BY SaveRamAssumption DEF Loaded, Contents

LEMMA MigratedType ==
    ASSUME TypeOK, NEW p \in Paths, NEW f \in Migrated(p)
    PROVE  f \in Files
<1>1. CASE file[p] = None /\ Legacy # None
  <2>1. Legacy \in Contents
    BY <1>1, SaveRamAssumption DEF Contents
  <2>2. PICK o \in Outcomes(p, Legacy) : f = o.file
    BY <1>1, Zenon DEF Migrated
  <2> QED
    BY <2>1, <2>2, OutcomesType DEF TypeOK, Files
<1>2. CASE ~(file[p] = None /\ Legacy # None)
  BY <1>2 DEF Migrated, TypeOK, Files
<1> QED
  BY <1>1, <1>2

LEMMA ResolvedType ==
    ASSUME NEW sub PROVE Resolved(sub) \in Paths
BY DEF Resolved, Paths

LEMMA Constants ==
    /\ Fresh \in Contents /\ Bytes \subseteq Contents
    /\ 0 \in 0 .. MaxDirty /\ 0 \in 0 .. Debounce
    /\ MaxDirty \in Nat /\ Debounce \in Nat /\ MaxDirty > 0
BY SaveRamAssumption DEF Contents

-----------------------------------------------------------------------------
\* Each operation on the RAM keeps the type of what it changes.
LEMMA AcceptType ==
    ASSUME NEW b \in Contents, Accept(b)
    PROVE  /\ sram' \in Contents /\ snapshot' \in Contents /\ kept' \in Contents
           /\ dirty' \in BOOLEAN /\ age' \in 0 .. MaxDirty /\ quiet' \in 0 .. Debounce
           /\ owed' \in 0 .. MaxDirty
BY Constants DEF Accept, Sync

LEMMA OlderType ==
    ASSUME NEW most \in Nat, NEW n \in 0 .. most
    PROVE  Older(n, most) \in 0 .. most
BY DEF Older

LEMMA InitInv == Init => IInv
<1> SUFFICES ASSUME Init PROVE IInv
  OBVIOUS
<1>1. TypeOK
  <2>1. file \in Files /\ path \in Paths
    BY Constants DEF Init, Files, Paths, Contents
  <2>2. slot \in Contents \cup {None} /\ ring \in Seq(Contents) /\ Len(ring) <= Depth
    BY SaveRamAssumption DEF Init
  <2> QED
    BY <2>1, <2>2, Constants DEF Init, TypeOK, Files
<1>2. SandboxOfGuest
  BY DEF Init, SandboxOfGuest, Resolved
<1>3. NothingLeft /\ Baseline
  BY DEF Init, NothingLeft, Baseline
<1> QED
  BY <1>1, <1>2, <1>3 DEF IInv

\* What is written to the RAM in a frame, and what a tick makes of it.
LEMMA WritesInv == IInv /\ GameWrites => IInv'
<1> SUFFICES ASSUME IInv, GameWrites PROVE IInv'
  OBVIOUS
<1> USE DEF bound
<1>1. TypeOK'
  <2>1. age' \in 0 .. MaxDirty /\ owed' \in 0 .. MaxDirty /\ quiet' \in 0 .. Debounce
    BY Constants DEF GameWrites, IInv, TypeOK
  <2> QED
    BY <2>1, Constants DEF GameWrites, IInv, TypeOK
<1>2. SandboxOfGuest' /\ NothingLeft'
  BY DEF GameWrites, IInv, SandboxOfGuest, NothingLeft, FlushDue
<1>3. Baseline'
  <2>1. dirty'
    BY DEF GameWrites, IInv, SandboxOfGuest
  <2>2. role \notin Rollbacks /\ owed' # 0 => sram' # kept' /\ owed' <= age' /\ owed' < MaxDirty
    BY DEF GameWrites, IInv, Baseline, TypeOK
  <2> QED
    BY <2>1, <2>2 DEF GameWrites, IInv, Baseline
<1> QED
  BY <1>1, <1>2, <1>3 DEF IInv

LEMMA SnappedType ==
    ASSUME TypeOK
    PROVE  /\ Snapped \in Seq(Contents) /\ Len(Snapped) <= Depth
           /\ (ring # <<>> => role \in Rollbacks) => (Snapped # <<>> => role \in Rollbacks)
BY SaveRamAssumption DEF TypeOK, Snapped

LEMMA FrameInv == IInv /\ Frame => IInv'
<1> SUFFICES ASSUME IInv, Frame PROVE IInv'
  OBVIOUS
<1> USE DEF bound, timers
<1>1. UNCHANGED <<phase, role, sandbox, path, active, slot, sram>>
  BY DEF Frame, TickOff, TickReverted, TickWaits, TickFlushes, Accept
<1>2. /\ Owed \in 0 .. MaxDirty /\ (Owed # 0 => sram # kept /\ Owed <= owed + 1)
      /\ Older(age, MaxDirty) \in 0 .. MaxDirty
      /\ Older(quiet, Debounce) \in 0 .. Debounce
  BY Constants DEF Owed, Older, IInv, TypeOK
<1>3. /\ file' \in Files /\ snapshot' \in Contents /\ kept' \in Contents
      /\ dirty' \in BOOLEAN /\ age' \in 0 .. MaxDirty /\ quiet' \in 0 .. Debounce
      /\ owed' \in 0 .. MaxDirty
  <2>1. CASE TickOff
    BY <2>1, <1>2 DEF TickOff, IInv, TypeOK, Files
  <2>2. CASE TickReverted
    BY <2>2, <1>2, Constants DEF TickReverted, Sync, IInv, TypeOK, Files
  <2>3. CASE TickWaits
    BY <2>3, <1>2 DEF TickWaits, IInv, TypeOK, Files
  <2>4. CASE TickFlushes
    <3>1. PICK o \in Flushed :
            /\ file' = o.file
            /\ IF o.ok
               THEN Accept(sram)
               ELSE /\ age' = Older(age, MaxDirty) /\ quiet' = Older(quiet, Debounce)
                    /\ owed' = 0
                    /\ UNCHANGED <<sram, snapshot, dirty, kept>>
      BY <2>4, Zenon DEF TickFlushes
    <3>2. file' \in Files
      BY <3>1, FlushedType DEF IInv
    <3>3. CASE o.ok
      BY <3>1, <3>2, <3>3, AcceptType DEF IInv, TypeOK
    <3>4. CASE ~o.ok
      BY <3>1, <3>2, <3>4, <1>2, Constants DEF IInv, TypeOK
    <3> QED
      BY <3>3, <3>4
  <2> QED
    BY <2>1, <2>2, <2>3, <2>4 DEF Frame
<1>4. TypeOK'
  BY <1>1, <1>3, SnappedType DEF Frame, IInv, TypeOK, Files
<1>5. SandboxOfGuest' /\ NothingLeft'
  BY <1>1 DEF Frame, IInv, SandboxOfGuest, NothingLeft
<1>6. Baseline'
  <2> SUFFICES ASSUME role \notin Rollbacks
               PROVE  /\ snapshot' = kept' /\ (sram # kept' => dirty')
                      /\ owed' # 0 => sram # kept' /\ owed' <= age' /\ owed' < MaxDirty
    BY <1>1, SnappedType DEF Baseline, IInv, Frame
  <2>1. /\ snapshot = kept /\ (sram # kept => dirty)
        /\ owed # 0 => sram # kept /\ owed <= age /\ owed < MaxDirty
    BY DEF IInv, Baseline, Frame
  <2>2. CASE TickOff
    BY <2>2, <2>1, <1>2 DEF TickOff
  <2>3. CASE TickReverted
    BY <2>3, <2>1, <1>2 DEF TickReverted, Reverted, Sync
  <2>4. CASE TickWaits
    BY <2>4, <2>1, <1>2, Constants DEF TickWaits, Ripe, Older, IInv, TypeOK
  <2>5. CASE TickFlushes
    BY <2>5, <2>1 DEF TickFlushes, Accept, Sync
  <2> QED
    BY <2>2, <2>3, <2>4, <2>5 DEF Frame
<1> QED
  BY <1>4, <1>5, <1>6 DEF IInv

LEMMA StatesInv == IInv /\ (SaveState \/ LoadState \/ RollBack) => IInv'
<1> SUFFICES ASSUME IInv, SaveState \/ LoadState \/ RollBack PROVE IInv'
  OBVIOUS
<1> USE DEF bound, timers, ghosts
<1>1. CASE SaveState
  <2>1. TypeOK'
    BY <1>1 DEF SaveState, IInv, TypeOK
  <2> QED
    BY <1>1, <2>1 DEF SaveState, IInv, SandboxOfGuest, NothingLeft, Baseline, FlushDue
<1>2. CASE LoadState
  <2>1. slot \in Contents
    BY <1>2 DEF LoadState, IInv, TypeOK
  <2>2. TypeOK'
    BY <1>2, <2>1, AcceptType DEF LoadState, IInv, TypeOK
  <2> QED
    BY <1>2, <2>2 DEF LoadState, IInv, SandboxOfGuest, NothingLeft, Baseline, Accept, Sync
<1>3. CASE RollBack
  <2>1. PICK i \in 1 .. Len(ring) : sram' = ring[i] /\ ring' = SubSeq(ring, 1, i - 1)
    BY <1>3, Zenon DEF RollBack
  <2>2. /\ sram' \in Contents /\ ring' \in Seq(Contents) /\ Len(ring') <= Depth
        /\ ring # <<>>
    BY <2>1, SaveRamAssumption DEF IInv, TypeOK
  <2>3. TypeOK'
    BY <1>3, <2>2, Constants DEF RollBack, Sync, IInv, TypeOK
  <2>4. role \in Rollbacks /\ role' = role
    BY <1>3, <2>2 DEF RollBack, IInv, Baseline
  <2> QED
    BY <1>3, <2>3, <2>4 DEF RollBack, IInv, SandboxOfGuest, NothingLeft, Baseline
<1> QED
  BY <1>1, <1>2, <1>3

\* The launcher opens with the path that its sandbox says.
LEMMA LauncherType ==
    ASSUME NEW r \in {"offline", "host", "guest", "none"}, NEW sub \in BOOLEAN,
           Launcher(r, sub)
    PROVE  /\ phase' = "launcher" /\ role' = r /\ sandbox' = sub
           /\ path' = Resolved(sub) /\ path' \in Paths
           /\ ring' = <<>> /\ ring' \in Seq(Contents) /\ Len(ring') <= Depth
BY ResolvedType, SaveRamAssumption DEF Launcher

LEMMA RefusedInv == IInv /\ (\E r \in Roles : Refused(r)) => IInv'
<1> SUFFICES ASSUME IInv, NEW r \in Roles, Refused(r) PROVE IInv'
  OBVIOUS
<1> USE DEF timers, ghosts
<1>1. phase = "launcher" /\ sandbox = FALSE
  BY DEF Refused, IInv, SandboxOfGuest, TypeOK
<1>2. Launcher("none", FALSE)
  BY <1>1 DEF Refused
<1>3. TypeOK'
  BY <1>2, LauncherType, Constants DEF Refused, IInv, TypeOK
<1>4. SandboxOfGuest' /\ NothingLeft' /\ Baseline'
  BY <1>2, LauncherType DEF SandboxOfGuest, NothingLeft, Baseline
<1> QED
  BY <1>3, <1>4 DEF IInv

LEMMA BootInv == IInv /\ (\E r \in Roles : Boot(r)) => IInv'
<1> SUFFICES ASSUME IInv, NEW r \in Roles, Boot(r) PROVE IInv'
  OBVIOUS
<1>1. PICK sub \in {sandbox \/ r = "guest"} :
        /\ file' \in Migrated(Resolved(sub))
        /\ phase' = "play" /\ role' = r
        /\ sandbox' = sub /\ path' = Resolved(sub) /\ active' = TRUE
        /\ \E b \in IF r = "guest" THEN Bytes ELSE Loaded(file'[Resolved(sub)]) :
            Accept(b)
  BY Zenon DEF Boot
<1>2. phase = "launcher" /\ r \in {"offline", "host", "guest"} /\ ring' = <<>> /\ slot' = slot
  BY SaveRamAssumption DEF Boot
<1>3. sandbox = FALSE
  BY <1>2 DEF IInv, SandboxOfGuest, TypeOK
<1>4. sub = (r = "guest")
  BY <1>3
<1>5. Resolved(sub) \in Paths
  BY ResolvedType
<1>6. file' \in Files
  BY <1>1, <1>5, MigratedType DEF IInv
<1>7. file'[Resolved(sub)] \in Contents \cup {None}
  BY <1>5, <1>6 DEF Files
<1>8. PICK b \in Contents : Accept(b)
  BY <1>1, <1>7, LoadedType, Constants
<1>9. TypeOK'
  BY <1>1, <1>2, <1>4, <1>5, <1>6, <1>8, AcceptType, SaveRamAssumption DEF IInv, TypeOK, Files
<1>10. SandboxOfGuest' /\ NothingLeft'
  BY <1>1, <1>2, <1>4 DEF SandboxOfGuest, NothingLeft
<1>11. Baseline'
  BY <1>2, <1>8 DEF Baseline, Accept, Sync
<1> QED
  BY <1>9, <1>10, <1>11 DEF IInv

LEMMA BarrierInv == IInv /\ (\E r \in Roles : BarrierFails(r)) => IInv'
<1> SUFFICES ASSUME IInv, NEW r \in Roles, BarrierFails(r) PROVE IInv'
  OBVIOUS
<1>1. PICK p \in {Resolved(sandbox \/ r = "guest")} :
        /\ file' \in Migrated(p)
        /\ \E b \in Loaded(file'[p]) : Accept(b)
  BY Zenon DEF BarrierFails
<1>2. phase = "launcher" /\ active' = TRUE /\ slot' = slot /\ Launcher("none", Unboxed(r))
  BY DEF BarrierFails
<1>3. Unboxed(r) = FALSE
  BY <1>2 DEF IInv, SandboxOfGuest, TypeOK, Unboxed
<1>4. p \in Paths
  BY ResolvedType
<1>5. file' \in Files
  BY <1>1, <1>4, MigratedType DEF IInv
<1>6. PICK b \in Contents : Accept(b)
  BY <1>1, <1>4, <1>5, LoadedType DEF Files
<1>7. TypeOK'
  BY <1>2, <1>3, <1>5, <1>6, LauncherType, AcceptType DEF IInv, TypeOK, Files
<1>8. SandboxOfGuest' /\ NothingLeft' /\ Baseline'
  BY <1>2, <1>3, LauncherType DEF SandboxOfGuest, NothingLeft, Baseline
<1> QED
  BY <1>7, <1>8 DEF IInv

LEMMA ReturnInv == IInv /\ ReturnToLobby => IInv'
<1> SUFFICES ASSUME IInv, ReturnToLobby PROVE IInv'
  OBVIOUS
<1> USE DEF timers, ghosts
<1>1. PICK o \in Flushed :
        /\ file' = o.file
        /\ IF o.ok THEN Accept(sram)
                   ELSE UNCHANGED <<sram, snapshot, timers, ghosts>>
  BY Zenon DEF ReturnToLobby
<1>2. /\ phase = "play" /\ role \in {"host", "guest"} /\ active' = active /\ slot' = slot
      /\ Launcher(role, Unboxed(role))
  BY DEF ReturnToLobby
<1>3. Unboxed(role) = FALSE
  BY <1>2 DEF IInv, SandboxOfGuest, TypeOK, Unboxed
<1>4. file' \in Files
  BY <1>1, FlushedType DEF IInv
<1>5. TypeOK'
  <2>1. CASE o.ok
    BY <1>1, <1>2, <1>3, <1>4, <2>1, LauncherType, AcceptType DEF IInv, TypeOK, Files
  <2>2. CASE ~o.ok
    BY <1>1, <1>2, <1>3, <1>4, <2>2, LauncherType DEF IInv, TypeOK, Files
  <2> QED
    BY <2>1, <2>2
<1>6. NothingLeft'
  <2> SUFFICES ASSUME "sandbox" \notin Failing, role = "guest" PROVE ~FlushDue'
    BY <1>2, <1>3, LauncherType DEF NothingLeft
  <2>1. path = "sandbox"
    BY <1>2 DEF IInv, SandboxOfGuest, Resolved
  <2>2. CASE o.ok
    BY <1>1, <2>2 DEF Accept, Sync, FlushDue
  <2>3. CASE ~o.ok
    <3>1. ~FlushDue
      BY <2>1, <2>3, FlushedType DEF IInv
    <3> QED
      BY <1>1, <1>2, <2>3, <3>1 DEF FlushDue
  <2> QED
    BY <2>2, <2>3
<1>7. SandboxOfGuest' /\ Baseline'
  BY <1>2, <1>3, LauncherType DEF SandboxOfGuest, Baseline
<1> QED
  BY <1>5, <1>6, <1>7 DEF IInv

LEMMA PanelInv == IInv /\ (Import \/ Clear) => IInv'
<1> SUFFICES ASSUME IInv, Import \/ Clear PROVE IInv'
  OBVIOUS
<1> USE DEF bound, timers, ghosts
<1>1. CASE Import
  <2>1. PICK b \in Bytes : \E o \in Outcomes(path, b) :
            /\ file' = o.file
            /\ IF o.ok THEN Accept(b)
                       ELSE UNCHANGED <<sram, snapshot, timers, ghosts>>
    BY <1>1, Zenon DEF Import
  <2>2. PICK o \in Outcomes(path, b) :
            /\ file' = o.file
            /\ IF o.ok THEN Accept(b)
                       ELSE UNCHANGED <<sram, snapshot, timers, ghosts>>
    BY <2>1
  <2>3. b \in Contents /\ file' \in Files
    BY <2>2, Constants, OutcomesType DEF IInv, TypeOK, Files
  <2>4. CASE o.ok
    <3>1. TypeOK'
      BY <1>1, <2>2, <2>3, <2>4, AcceptType DEF Import, IInv, TypeOK, Files
    <3> QED
      BY <1>1, <2>2, <2>4, <3>1 DEF Import, IInv, SandboxOfGuest, NothingLeft, Baseline,
                                   FlushDue, Accept, Sync
  <2>5. CASE ~o.ok
    <3>1. TypeOK'
      BY <1>1, <2>2, <2>3, <2>5 DEF Import, IInv, TypeOK, Files
    <3> QED
      BY <1>1, <2>2, <2>5, <3>1 DEF Import, IInv, SandboxOfGuest, NothingLeft, Baseline, FlushDue
  <2> QED
    BY <2>4, <2>5
<1>2. CASE Clear
  <2>1. TypeOK'
    BY <1>2, AcceptType, Constants DEF Clear, IInv, TypeOK
  <2> QED
    BY <1>2, <2>1 DEF Clear, IInv, SandboxOfGuest, NothingLeft, Baseline, FlushDue, Accept, Sync
<1> QED
  BY <1>1, <1>2

LEMMA EndInv == IInv /\ (Exit \/ Crash \/ Start) => IInv'
<1> SUFFICES ASSUME IInv, Exit \/ Crash \/ Start PROVE IInv'
  OBVIOUS
<1> USE DEF timers, ghosts
<1>1. CASE Gone /\ file' \in Files
  <2>1. TypeOK'
    <3>1. path' \in Paths /\ ring' \in Seq(Contents) /\ Len(ring') <= Depth
      BY <1>1, SaveRamAssumption DEF Gone, Paths
    <3>2. Accept(Fresh) /\ slot' = slot
      BY <1>1 DEF Gone
    <3>3. slot' \in Contents \cup {None}
      BY <3>2 DEF IInv, TypeOK
    <3> QED
      BY <1>1, <3>1, <3>2, <3>3, AcceptType, Constants DEF Gone, TypeOK, Files
  <2> QED
    BY <1>1, <2>1 DEF Gone, IInv, SandboxOfGuest, NothingLeft, Baseline, Resolved
<1>2. CASE Start
  <2>1. TypeOK'
    BY <1>2, LauncherType DEF Start, IInv, TypeOK
  <2>2. SandboxOfGuest' /\ NothingLeft' /\ Baseline'
    BY <1>2, LauncherType DEF Start, SandboxOfGuest, NothingLeft, Baseline
  <2> QED
    BY <2>1, <2>2 DEF IInv
<1>3. Exit => file' \in Files
  BY FlushedType DEF Exit, IInv
<1>4. Crash => file' \in Files
  <2> SUFFICES ASSUME Crash PROVE file' \in Files
    OBVIOUS
  <2>1. file' = file \/ \E o \in Flushed : file' = o.file
    BY DEF Crash
  <2> QED
    BY <2>1, FlushedType DEF IInv, TypeOK, Files
<1> QED
  BY <1>1, <1>2, <1>3, <1>4 DEF Exit, Crash

LEMMA NextInv == IInv /\ [Next]_vars => IInv'
<1> SUFFICES ASSUME IInv, [Next]_vars PROVE IInv'
  OBVIOUS
<1>1. CASE UNCHANGED vars
  <2>1. TypeOK'
    BY <1>1 DEF vars, bound, timers, ghosts, IInv, TypeOK
  <2> QED
    BY <1>1, <2>1 DEF vars, bound, timers, ghosts, IInv, SandboxOfGuest, NothingLeft, Baseline, FlushDue
<1> QED
  BY <1>1, WritesInv, FrameInv, StatesInv, RefusedInv, BootInv, BarrierInv, ReturnInv,
     PanelInv, EndInv, Zenon DEF Next

-----------------------------------------------------------------------------
\* The process is always in a state IInv describes: the state is of its type,
\* the sandbox is bound while a guest plays and no longer, a guest leaves
\* nothing unwritten, and without rollbacks a RAM that differs from what was
\* kept has been dirty for as long as it is owed.
THEOREM Invariant == Spec => []IInv
BY InitInv, NextInv, PTL DEF Spec

\* Without rollbacks no change of the RAM waits MaxDirty frames without an
\* attempt to write it, whatever the program writes and whatever fails.
THEOREM InTime == Spec => []SavedWithoutRollback
<1>1. IInv => SavedWithoutRollback
  <2> SUFFICES ASSUME IInv, phase = "play", role \notin Rollbacks PROVE owed < MaxDirty
    BY DEF SavedWithoutRollback
  <2> QED
    BY Constants DEF IInv, Baseline
<1> QED
  BY <1>1, Invariant, PTL

\* Where the writes of the sandbox work, what a guest plays never reaches the
\* personal save.
THEOREM GuestSafe == "sandbox" \notin Failing => (Spec => GuestKept)
<1> SUFFICES ASSUME "sandbox" \notin Failing PROVE Spec => GuestKept
  OBVIOUS
<1>1. IInv /\ [Next]_vars =>
        [file'["personal"] # file["personal"] =>
           role # "guest" \/ (phase = "launcher" /\ phase' # "ended")]_vars
  <2> SUFFICES ASSUME IInv, Next, role = "guest",
                      ~(phase = "launcher" /\ phase' # "ended")
               PROVE  file'["personal"] = file["personal"]
    BY Zenon
  <2> USE DEF bound, timers, ghosts
  <2>1. \A o \in Flushed : o.file["personal"] = file["personal"]
    <3> SUFFICES ASSUME NEW o \in Flushed PROVE o.file["personal"] = file["personal"]
      OBVIOUS
    <3>1. CASE ~FlushDue
      <4>1. o = [ok |-> FALSE, file |-> file]
        BY <3>1, Zenon DEF Flushed
      <4> QED
        BY <4>1
    <3>2. CASE FlushDue
      <4>1. phase # "launcher"
        BY <3>2 DEF IInv, NothingLeft
      <4>2. phase # "ended"
        BY <3>2 DEF IInv, SandboxOfGuest, FlushDue
      <4>3. path = "sandbox"
        BY <4>1, <4>2 DEF IInv, SandboxOfGuest, Resolved, TypeOK
      <4>4. o \in Outcomes("sandbox", sram)
        BY <3>2, <4>3 DEF Flushed
      <4>5. o = [ok |-> TRUE, file |-> [file EXCEPT !["sandbox"] = sram]]
        BY <4>4, Zenon DEF Outcomes
      <4>6. o.file = [file EXCEPT !["sandbox"] = sram]
        BY <4>5
      <4> QED
        BY <4>6 DEF IInv, TypeOK, Paths
    <3> QED
      BY <3>1, <3>2
  <2>2. CASE GameWrites \/ SaveState \/ LoadState \/ RollBack \/ Start
    BY <2>2 DEF GameWrites, SaveState, LoadState, RollBack, Start
  <2>3. CASE Frame
    BY <2>1, <2>3, Zenon DEF Frame, TickOff, TickReverted, TickWaits, TickFlushes
  <2>4. CASE ReturnToLobby \/ Exit
    BY <2>1, <2>4, Zenon DEF ReturnToLobby, Exit
  <2>5. CASE Crash
    BY <2>1, <2>5 DEF Crash
  <2>6. CASE Import \/ Clear \/ \E r \in Roles : Refused(r) \/ Boot(r) \/ BarrierFails(r)
    BY <2>6 DEF Import, Clear, Refused, Boot, BarrierFails, Launcher
  <2> QED
    BY <2>2, <2>3, <2>4, <2>5, <2>6, Zenon DEF Next
<1> QED
  BY <1>1, Invariant, PTL DEF Spec, GuestKept

\* A game that is not a guest's boots from the personal save.
THEOREM OwnSave == Spec => BootsOwnSave
<1>1. IInv /\ [Next]_vars =>
        [phase = "launcher" /\ phase' = "play" /\ role' # "guest" =>
           path' = "personal" /\ sram' \in Loaded(file'["personal"])]_vars
  <2> SUFFICES ASSUME IInv, Next, phase = "launcher", phase' = "play", role' # "guest"
               PROVE  path' = "personal" /\ sram' \in Loaded(file'["personal"])
    BY Zenon
  <2>1. PICK r \in Roles : Boot(r)
    BY DEF Next, GameWrites, Frame, SaveState, LoadState, RollBack, Refused, BarrierFails,
           ReturnToLobby, Import, Clear, Exit, Crash, Start, Launcher, Gone
  <2>2. sandbox = FALSE
    BY DEF IInv, SandboxOfGuest, TypeOK
  <2>3. PICK sub \in {sandbox \/ r = "guest"} :
          /\ role' = r /\ path' = Resolved(sub)
          /\ \E b \in IF r = "guest" THEN Bytes ELSE Loaded(file'[Resolved(sub)]) :
              Accept(b)
    BY <2>1, Zenon DEF Boot
  <2>4. r # "guest" /\ sub = FALSE /\ Resolved(sub) = "personal"
    BY <2>2, <2>3 DEF Resolved
  <2> QED
    BY <2>3, <2>4 DEF Accept
<1> QED
  BY <1>1, Invariant, PTL DEF Spec, BootsOwnSave
=============================================================================
