------------------------------ MODULE FdsSave ------------------------------
(***************************************************************************)
(* The disk save (runner/cyc/cyc_fds_save.inc on cyc_save.inc): when the   *)
(* host rewrites the file beside the image, step by step with the process  *)
(* or the machine dying between two steps, and what a session starts from. *)
(*                                                                         *)
(* A side's stream is one of a few Contents. The code's absolute frame     *)
(* numbers are kept relative to the host's frame counter: age is that      *)
(* counter minus dirty_since (0 while not dirty), skew is that counter     *)
(* minus fds_save.frame (not 0 only between a load of a state and the      *)
(* next frame).                                                            *)
(***************************************************************************)
EXTENDS FdsMedia

CONSTANTS
  Contents,    (* what a side's stream may hold                              *)
  Base,        (* the streams the loader builds from the image               *)
  SaveIdle,    (* FDS_SAVE_IDLE_FRAMES (60)                                  *)
  SaveMax,     (* FDS_SAVE_MAX_FRAMES (3600)                                 *)
  HasPath,     (* the host has a save file                                   *)
  HasExport,   (* --fds-export-ips                                           *)
  Imports,     (* the disks --fds-import-ips may bring, or NoDisk            *)
  Loads,       (* states a load may bring: [disk, side, motor, shift]        *)
  TierSwaps,   (* the HLE tier may eject                                     *)
  MayFail,     (* file operations may fail                                   *)
  MaxGen,      (* bound: disk changes in a session                           *)
  MaxBack      (* bound: frames a load moves the counter back                *)

Disks == [Sides -> Contents]
NoDisk == [s \in {} |-> s]     (* no import, or a file that gives nothing back *)

ASSUME SaveAssumption ==
  /\ Base \in Disks
  /\ SaveIdle \in Nat \ {0} /\ SaveMax \in Nat /\ SaveIdle <= SaveMax
  /\ HasPath \in BOOLEAN /\ HasExport \in BOOLEAN
  /\ Imports \subseteq Disks \union {NoDisk}
  /\ \A m \in Loads : /\ m.disk \in Disks
                      /\ m.side \in Sides \union {NoSide}
                      /\ m.motor \in BOOLEAN /\ m.shift \in Int
  /\ TierSwaps \in BOOLEAN /\ MayFail \in BOOLEAN
  /\ MaxGen \in Nat /\ MaxBack \in Nat

VARIABLES
  up,          (* a session is on                                            *)
  phase,       (* "host": between two frames; "run", then "end": within one  *)
  disk,        (* the streams of the disk in memory                          *)
  gen,         (* media.generation                                           *)
  saved_gen,   (* the generation at the last save or load                    *)
  dirty,       (* dirty_since >= 0                                           *)
  age,         (* frames since dirty_since                                   *)
  idle,        (* frames with the motor off since then                       *)
  skew,        (* frames since fds_save.frame                                *)
  pc,          (* the step of fds_save_flush() under way, or "none"          *)
  reason,      (* who called it: "frame", "eject" or "exit"                  *)
  ok,          (* its local                                                  *)
  file,        (* the save file                                              *)
  durable,     (* the save file a power loss would leave                     *)
  unsaved,     (* history: frame ends with an unsaved disk and no attempt    *)
  since_fail   (* history: frames since a failed flush, up to SaveIdle       *)

sessionVars == <<dirty, age, idle, skew>>
flushVars == <<pc, reason, ok>>
fileVars == <<file, durable>>
history == <<unsaved, since_fail>>
vars == <<mediaVars, up, phase, disk, gen, saved_gen, sessionVars, flushVars, fileVars, history>>

-----------------------------------------------------------------------------
(* The file: nothing, a save of some sides, or not ours to read. *)

Changed(d) == [s \in {x \in Sides : d[x] # Base[x]} |-> d[s]]
PutBack(f) == [s \in Sides |-> IF s \in DOMAIN f THEN f[s] ELSE Base[s]]

NoSides == Changed(Base)
Missing == [kind |-> "missing", sides |-> NoSides]
Foreign == [kind |-> "foreign", sides |-> NoSides]
Corrupt == [kind |-> "corrupt", sides |-> NoSides]
SaveOf(d) == [kind |-> "save", sides |-> Changed(d)]

Usable(f) == f.kind \in {"missing", "save"}
Files == {Missing, Foreign, Corrupt} \union {SaveOf(d) : d \in Disks}

-----------------------------------------------------------------------------
(* Mutant: only a damaged save is refused. *)
CanStartOverForeign == ~HasPath \/ file.kind # "corrupt"

(* A file that is not a whole save of this image is left alone: no session.   *)
CanStart == ~HasPath \/ Usable(file)

(* fds_save_open(): a session starts from the file, or refuses to.  Only the  *)
(* generations' difference is read, and an import counts as a change.         *)
Open(imported) ==
  /\ ~up
  /\ CanStart
  /\ LET found == IF HasPath THEN PutBack(file.sides) ELSE Base IN
       /\ saved_gen' = Cardinality({s \in Sides : found[s] # Base[s]})
       /\ \/ /\ imported = NoDisk
             /\ disk' = found
             /\ gen' = saved_gen'
          \/ /\ imported # NoDisk
             /\ disk' = imported
             /\ gen' = saved_gen' + Cardinality({s \in Sides : found[s] # imported[s]})
  /\ up' = TRUE /\ phase' = "host"
  /\ side' \in Sides \union {NoSide}
  /\ motor' = FALSE /\ run' = FALSE /\ emptied_by' = "host"
  /\ dirty' = FALSE /\ age' = 0 /\ idle' = 0 /\ skew' = 0
  /\ pc' = "none" /\ reason' = "frame" /\ ok' = TRUE
  /\ unsaved' = 0 /\ since_fail' = SaveIdle
  /\ UNCHANGED fileVars

(* A refused file is the player's to take away. *)
TakeAway ==
  /\ ~up /\ file # Missing
  /\ file' = Missing /\ durable' = Missing
  /\ UNCHANGED <<mediaVars, up, phase, disk, gen, saved_gen, sessionVars, flushVars, history>>

-----------------------------------------------------------------------------
(* Within a frame. *)

InFrame ==
  /\ up /\ phase = "run"
  /\ UNCHANGED <<up, phase, saved_gen, sessionVars, flushVars, fileVars, history>>

ProgramMotor ==
  /\ InFrame
  /\ TurnMotor
  /\ UNCHANGED <<disk, gen>>

(* A byte that differs is stored and counted as a change. *)
ProgramWrite(c) ==
  /\ InFrame /\ WriteRun(TRUE)
  /\ gen < MaxGen /\ c # disk[side]
  /\ disk' = [disk EXCEPT ![side] = c]
  /\ gen' = gen + 1

-----------------------------------------------------------------------------
(* Between two frames. *)

AtHost == up /\ phase = "host" /\ pc = "none"

FrameStart ==
  /\ AtHost
  /\ phase' = "run"
  /\ UNCHANGED <<mediaVars, up, disk, gen, saved_gen, sessionVars, flushVars, fileVars, history>>

(* Mutant: a flush goes by the frame hook's dirty mark. *)
FlushIfDirty(r) ==
  /\ reason' = r
  /\ pc' = IF dirty THEN "begin" ELSE "none"
  /\ up' = (up /\ (r # "exit" \/ dirty))
  /\ UNCHANGED ok

(* fds_save_flush(): nothing to do when no change was made since the last     *)
(* save; an exit then ends the session.                                       *)
Flush(r) ==
  /\ reason' = r
  /\ pc' = IF gen # saved_gen THEN "begin" ELSE "none"
  /\ up' = (up /\ (r # "exit" \/ gen # saved_gen))
  /\ UNCHANGED ok

(* Keys, menu, scripts and the Disk action flush after they eject. *)
HostEject ==
  /\ AtHost
  /\ DriveEject("host")
  /\ Flush("eject")
  /\ UNCHANGED <<phase, disk, gen, saved_gen, sessionVars, fileVars, history>>

HostInsert(s) ==
  /\ AtHost
  /\ DriveInsert(s)
  /\ UNCHANGED <<up, phase, disk, gen, saved_gen, sessionVars, flushVars, fileVars, history>>

(* The HLE tier moves the disk as the last thing in a frame, with no flush.   *)
TierMoves ==
  /\ TierSwaps
  /\ up /\ phase = "run"
  /\ phase' = "end"
  /\ DriveEject("tier") \/ \E s \in Sides : DriveInsert(s)
  /\ UNCHANGED <<up, disk, gen, saved_gen, sessionVars, flushVars, fileVars, history>>

(* The loaded disk is a change the file does not have, whatever it holds; the *)
(* frame counter moves under dirty_since.                                     *)
LoadState(m) ==
  /\ AtHost
  /\ gen < MaxGen
  /\ m.shift + age >= -MaxBack /\ m.shift + skew >= -MaxBack
  /\ m.shift + age <= SaveMax /\ m.shift + skew <= SaveMax
  /\ disk' = m.disk /\ side' = m.side /\ motor' = m.motor
  /\ run' = FALSE /\ emptied_by' = "host"
  /\ gen' = gen + 1
  /\ age' = IF dirty THEN age + m.shift ELSE age
  /\ skew' = skew + m.shift
  /\ UNCHANGED <<up, phase, saved_gen, dirty, idle, flushVars, fileVars, history>>

Exit ==
  /\ AtHost
  /\ Flush("exit")
  /\ UNCHANGED <<mediaVars, phase, disk, gen, saved_gen, sessionVars, fileVars, history>>

(* Mutants: a change of the disk waits one frame more, or for the motor only. *)
FlushDueLate == idle' >= SaveIdle \/ age' > SaveMax
FlushDueIdle == idle' >= SaveIdle

(* The motor was off for long enough, or the change is old enough. *)
FlushDue == idle' >= SaveIdle \/ age' >= SaveMax

(* fds_save_frame(), after every frame.  idle and age saturate where they are *)
(* no longer told apart.                                                      *)
FrameDone ==
  /\ up /\ phase \in {"run", "end"}
  /\ phase' = "host"
  /\ skew' = 0
  /\ since_fail' = IF since_fail < SaveIdle THEN since_fail + 1 ELSE since_fail
  /\ \/ /\ gen = saved_gen
        /\ dirty' = FALSE /\ age' = 0 /\ idle' = 0
        /\ unsaved' = 0
        /\ UNCHANGED <<up, flushVars>>
     \/ /\ gen # saved_gen
        /\ dirty' = TRUE
        /\ age' = IF ~dirty THEN 0 ELSE IF age < SaveMax THEN age + 1 ELSE age
        /\ \/ MotorOn /\ idle' = 0
           \/ ~MotorOn /\ ~dirty /\ idle' = 1
           \/ ~MotorOn /\ dirty /\ idle' = IF idle < SaveIdle THEN idle + 1 ELSE idle
        /\ \/ FlushDue /\ Flush("frame") /\ unsaved' = 0
           \/ /\ ~FlushDue /\ UNCHANGED <<up, flushVars>>
              /\ unsaved' = IF unsaved <= SaveMax THEN unsaved + 1 ELSE unsaved
  /\ UNCHANGED <<mediaVars, disk, gen, saved_gen, fileVars>>

-----------------------------------------------------------------------------
(* The rest of fds_save_flush(): the disk cannot change meanwhile, but the    *)
(* process can die at any of its steps.                                       *)

(* No memory: the call returns and nothing notes that it failed. *)
FlushBegin ==
  /\ pc = "begin"
  /\ \/ /\ pc' = IF HasPath THEN "write" ELSE "export"
        /\ ok' = TRUE
        /\ UNCHANGED up
     \/ /\ MayFail
        /\ pc' = "none"
        /\ up' = (reason # "exit")
        /\ UNCHANGED ok
  /\ UNCHANGED <<mediaVars, phase, disk, gen, saved_gen, sessionVars, reason, fileVars, history>>

(* Mutant: a short write goes unnoticed. *)
FlushWriteBlind ==
  /\ pc = "write"
  /\ pc' = "rename" \/ (MayFail /\ pc' = "export")
  /\ UNCHANGED <<mediaVars, up, phase, disk, gen, saved_gen, sessionVars, reason, ok, fileVars, history>>

(* save_atomic(): the whole save goes to an exclusive temporary file and is   *)
(* flushed to the medium; a file that was not is removed again.               *)
FlushWrite ==
  /\ pc = "write"
  /\ \/ pc' = "rename" /\ UNCHANGED ok
     \/ MayFail /\ pc' = "export" /\ ok' = FALSE
  /\ UNCHANGED <<mediaVars, up, phase, disk, gen, saved_gen, sessionVars, reason, fileVars, history>>

(* Mutant: a rename that fails goes unnoticed. *)
FlushRenameBlind ==
  /\ pc = "rename"
  /\ pc' = "export"
  /\ file' = SaveOf(disk) \/ (MayFail /\ UNCHANGED file)
  /\ UNCHANGED <<mediaVars, up, phase, disk, gen, saved_gen, sessionVars, reason, ok, durable, history>>

(* Mutant: the old file is removed before the rename. *)
FlushRenameRemoves ==
  /\ pc = "rename"
  /\ pc' = "export"
  /\ \/ file' = SaveOf(disk) /\ UNCHANGED ok
     \/ MayFail /\ ok' = FALSE /\ file' = Missing
  /\ UNCHANGED <<mediaVars, up, phase, disk, gen, saved_gen, sessionVars, reason, durable, history>>

(* Then it is renamed over the save file, in one step. *)
FlushRename ==
  /\ pc = "rename"
  /\ pc' = "export"
  /\ \/ file' = SaveOf(disk) /\ UNCHANGED ok
     \/ MayFail /\ ok' = FALSE /\ UNCHANGED file
  /\ UNCHANGED <<mediaVars, up, phase, disk, gen, saved_gen, sessionVars, reason, durable, history>>

(* Mutant: the idle frames before a failure count for the next attempt. *)
NoteFailureIdle == dirty' = TRUE /\ age' = skew /\ UNCHANGED idle

(* A failed flush starts the wait over. *)
NoteFailure == dirty' = TRUE /\ age' = skew /\ idle' = 0

(* The IPS export, then the bookkeeping: saved, or try again after another    *)
(* idle period.                                                               *)
FlushEnd ==
  /\ pc = "export"
  /\ pc' = "none"
  /\ \/ ok' = ok
     \/ HasExport /\ MayFail /\ ok' = FALSE
  /\ \/ /\ ok'
        /\ saved_gen' = gen
        /\ dirty' = FALSE /\ age' = 0 /\ idle' = 0
        /\ UNCHANGED since_fail
     \/ /\ ~ok'
        /\ NoteFailure
        /\ since_fail' = 0
        /\ UNCHANGED saved_gen
  /\ unsaved' = 0
  /\ up' = (reason # "exit")
  /\ UNCHANGED <<mediaVars, phase, disk, gen, skew, reason, fileVars>>

-----------------------------------------------------------------------------
(* The process or the machine dies, and the file system writes back. *)

Crash ==
  /\ up
  /\ up' = FALSE /\ pc' = "none"
  /\ UNCHANGED <<mediaVars, phase, disk, gen, saved_gen, sessionVars, reason, ok, fileVars, history>>

PowerLoss ==
  /\ file # durable
  /\ up' = FALSE /\ pc' = "none"
  /\ file' = durable
  /\ UNCHANGED <<mediaVars, phase, disk, gen, saved_gen, sessionVars, reason, ok, durable, history>>

(* The rename reaches the medium. *)
WriteBack ==
  /\ durable # file
  /\ durable' = file
  /\ UNCHANGED <<mediaVars, up, phase, disk, gen, saved_gen, sessionVars, flushVars, file, history>>

-----------------------------------------------------------------------------
Init ==
  /\ MediaInit
  /\ up = FALSE /\ phase = "host"
  /\ disk = Base /\ gen = 0 /\ saved_gen = 0
  /\ dirty = FALSE /\ age = 0 /\ idle = 0 /\ skew = 0
  /\ pc = "none" /\ reason = "frame" /\ ok = TRUE
  /\ file \in Files /\ durable = file
  /\ unsaved = 0 /\ since_fail = SaveIdle

Program == ProgramMotor \/ (\E c \in Contents : ProgramWrite(c)) \/ TierMoves

Host ==
  \/ HostEject \/ Exit
  \/ \E s \in Sides : HostInsert(s)
  \/ \E m \in Loads : LoadState(m)

FlushNext == FlushBegin \/ FlushWrite \/ FlushRename \/ FlushEnd

Outside == (\E i \in Imports : Open(i)) \/ TakeAway \/ Crash \/ PowerLoss \/ WriteBack

Next == FrameStart \/ Program \/ FrameDone \/ Host \/ FlushNext \/ Outside

Spec == Init /\ [][Next]_vars

FairSpec == Spec /\ WF_vars(FrameStart) /\ WF_vars(FrameDone) /\ WF_vars(FlushNext)

-----------------------------------------------------------------------------
(* What a session that starts now would start from. *)
Restored(f) == IF Usable(f) THEN PutBack(f.sides) ELSE NoDisk

(* The types of all the variables. *)
TypeOK ==
  /\ MediaTypeOK
  /\ up \in BOOLEAN /\ phase \in {"host", "run", "end"}
  /\ disk \in Disks /\ gen \in Nat /\ saved_gen \in Nat
  /\ dirty \in BOOLEAN /\ age \in Int /\ idle \in Nat /\ skew \in Int
  /\ pc \in {"none", "begin", "write", "rename", "export"}
  /\ reason \in {"frame", "eject", "exit"} /\ ok \in BOOLEAN
  /\ file \in Files /\ durable \in Files
  /\ unsaved \in Nat /\ since_fail \in Nat

(* When the host believes the disk is saved, the next session gets this very  *)
(* disk back: no change, load, import, failure or export hides one from the   *)
(* generations the two are compared by.                                       *)
SavedMeansSaved ==
  (up /\ HasPath /\ gen = saved_gen) => Restored(file) = disk

(* The generation recorded as saved is never ahead of the disk's.             *)
NeverAhead == up => saved_gen <= gen

(* A session writes only over a file it could have started from: a foreign or *)
(* damaged save stays as it is until the player takes it away, and neither a  *)
(* crash nor a power loss at any step of a flush turns a good file into one.  *)
RefusedStays ==
  [][~Usable(file) => (file' = file \/ TakeAway)]_vars
NeverTorn ==
  [][(Usable(file) => Usable(file')) /\ (Usable(durable) => Usable(durable'))]_vars

(* After a write that failed the host waits for another idle period, whatever *)
(* the drive does meanwhile.                                                  *)
RetryWaits ==
  [][pc = "none" /\ pc' = "begin" /\ reason' = "frame" => since_fail' >= SaveIdle]_vars

(* At the latest SaveMax frames after the first unsaved change, or after the  *)
(* last attempt, a save is attempted, even while the motor never stops.       *)
SavedInTime == unsaved <= SaveMax

(* A session that exits and reports success leaves nothing behind, whether    *)
(* its last flush had work to do or not.                                      *)
ExitKeepsAll ==
  [][HasPath /\ up /\ ((Exit /\ ~up') \/ (FlushEnd /\ reason = "exit" /\ ok'))
       => Restored(file) = disk]_vars

(* Unless flushes go on failing, a change is saved or its session ends.       *)
FlushFails ==
  \/ FlushBegin /\ pc' = "none"
  \/ FlushNext /\ ok /\ ~ok'
EventuallySaved ==
  <>[][~FlushFails]_vars => (up /\ gen # saved_gen ~> ~up \/ gen = saved_gen)

(* What is inductive: the two comparisons above need that no flush overlaps a *)
(* frame, and that one which reached its end with no failure wrote the file;  *)
(* a power loss must not leave a file of another kind than the one it takes.  *)
FlushInHost == pc # "none" => up /\ phase = "host"
FlushHasPath == pc \in {"write", "rename"} => HasPath /\ ok
FlushedIsDisk == (pc = "export" /\ ok /\ HasPath) => Restored(file) = disk
StartedUsable == (up /\ HasPath) => Usable(file)
LossAlike == file = durable \/ (Usable(file) /\ Usable(durable))

IInv ==
  /\ TypeOK
  /\ LossAlike
  /\ NeverAhead
  /\ SavedMeansSaved
  /\ FlushInHost
  /\ FlushHasPath
  /\ FlushedIsDisk
  /\ StartedUsable

(* What the two waits need, each with no state that moves the frame counter   *)
(* the other way: since a failed flush neither count has gone further than    *)
(* the frames that passed, and every frame of a change is in its age.         *)
NoneLater == \A m \in Loads : m.shift <= 0
NoneEarlier == \A m \in Loads : m.shift >= 0
FailureWaited ==
  skew <= 0 /\ (since_fail < SaveIdle => idle <= since_fail /\ age <= since_fail)
ChangeAged == skew >= 0 /\ (IF dirty THEN unsaved <= age + 1 ELSE unsaved = 0)

(* The save file is exactly what DiskSave promises. *)
Promise ==
  INSTANCE DiskSave WITH
    Fresh <- Base, Refused <- NoDisk, running <- up, now <- disk, kept <- Restored(file), safe <- Restored(durable)
Implements == Promise!SaveSpec

=============================================================================
