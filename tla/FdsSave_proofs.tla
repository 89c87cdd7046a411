-------------------------- MODULE FdsSave_proofs --------------------------
(***************************************************************************)
(* The disk save keeps its promise for every number of sides, every set of *)
(* contents and every save interval, wherever a crash falls in a flush.    *)
(***************************************************************************)
EXTENDS FdsSave, FiniteSetTheorems, TLAPS

(* Putting the changed sides of a disk back on the image gives that disk: a   *)
(* side that is not in the file is the image's own.                           *)
LEMMA RoundTrip == \A d \in Disks : PutBack(Changed(d)) = d
  BY SaveAssumption DEF Disks, PutBack, Changed

(* What a file gives back, for each kind of file. *)
LEMMA GivesBack ==
  /\ \A d \in Disks : Usable(SaveOf(d)) /\ Restored(SaveOf(d)) = d
  /\ Usable(Missing) /\ Restored(Missing) = Base
  /\ ~Usable(Foreign) /\ ~Usable(Corrupt)
<1>1. Base \in Disks
  BY SaveAssumption
<1> QED
  BY <1>1, RoundTrip DEF SaveOf, Missing, Foreign, Corrupt, NoSides, Usable, Restored

(* A usable file gives back a disk, any other nothing. *)
LEMMA GivesADisk ==
  ASSUME NEW f \in Files
  PROVE  /\ Usable(f) => Restored(f) \in Disks /\ Restored(f) = PutBack(f.sides)
         /\ ~Usable(f) => Restored(f) = NoDisk
<1>1. Base \in Disks
  BY SaveAssumption
<1> QED
  BY <1>1, GivesBack DEF Files, Restored

(* "No disk" is not a disk: a drive has at least one side. *)
LEMMA NoDiskIsNone == NoDisk \notin Disks
<1>1. 0 \in Sides
  BY SideCountAssumption DEF Sides
<1>2. DOMAIN NoDisk = {}
  BY DEF NoDisk
<1> QED
  BY <1>1, <1>2 DEF Disks

(* Two disks that differ on no side are one disk. *)
LEMMA SameDisk ==
  ASSUME NEW d \in Disks, NEW e \in Disks,
         Cardinality({s \in Sides : d[s] # e[s]}) = 0
  PROVE  d = e
<1>1. IsFiniteSet(Sides)
  BY SideCountAssumption, FS_Interval DEF Sides
<1>2. IsFiniteSet({s \in Sides : d[s] # e[s]})
  BY <1>1, FS_Subset
<1>3. {s \in Sides : d[s] # e[s]} = {}
  BY <1>2, FS_EmptySet
<1> QED
  BY <1>3 DEF Disks

(* How many sides differ is a natural number. *)
LEMMA CountSides ==
  ASSUME NEW S \in SUBSET Sides
  PROVE  Cardinality(S) \in Nat
<1>1. IsFiniteSet(Sides)
  BY SideCountAssumption, FS_Interval DEF Sides
<1> QED
  BY <1>1, FS_Subset, FS_CardinalityType

-----------------------------------------------------------------------------
(* The session's part of IInv: all of it but the types. *)
Session ==
  /\ NeverAhead /\ SavedMeansSaved /\ FlushInHost /\ FlushHasPath
  /\ FlushedIsDisk /\ StartedUsable

(* The first state satisfies the invariant: no session is on. *)
THEOREM InitInv == Init => IInv
<1> SUFFICES ASSUME Init PROVE IInv
  OBVIOUS
<1> USE DEF Init
<1>1. Base \in Disks /\ SaveIdle \in Nat /\ 0 \in Nat /\ 0 \in Int
  BY SaveAssumption
<1>2. MediaTypeOK
  BY DEF MediaInit, MediaTypeOK
<1>3. TypeOK
  BY <1>1, <1>2 DEF TypeOK
<1> QED
  BY <1>3 DEF IInv, LossAlike, NeverAhead, SavedMeansSaved, FlushInHost, FlushHasPath,
              FlushedIsDisk, StartedUsable

(* Steps that change neither the file, the disk, the generations nor a flush  *)
(* keep the session's part; they may end the session if no flush is under way.*)
LEMMA SessionUntouched ==
  ASSUME Session, UNCHANGED <<disk, gen, saved_gen, file, ok>>,
         \/ UNCHANGED <<up, phase, pc>>
         \/ pc' = "none" /\ (up' => up)
  PROVE  Session'
<1>1. (up' => up) /\ (pc' # "none" => UNCHANGED <<up, phase, pc>>)
  OBVIOUS
<1> QED
  BY <1>1 DEF Session, NeverAhead, SavedMeansSaved, FlushInHost, FlushHasPath,
         FlushedIsDisk, StartedUsable

(* A change moves the disk's generation past the saved one. *)
LEMMA SessionChanges ==
  ASSUME Session, gen \in Nat, saved_gen \in Nat, gen' = gen + 1, pc = "none",
         UNCHANGED <<up, saved_gen, file, pc>>, up
  PROVE  Session'
<1>1. saved_gen' <= gen' /\ saved_gen' # gen'
  BY DEF Session, NeverAhead
<1> QED
  BY <1>1 DEF Session, NeverAhead, SavedMeansSaved, FlushInHost, FlushHasPath,
              FlushedIsDisk, StartedUsable

(* Calling the flush starts it only from the host, and only with work to do.  *)
LEMMA SessionFlushes ==
  ASSUME Session, up, phase' = "host", NEW r \in {"frame", "eject", "exit"}, Flush(r),
         UNCHANGED <<disk, gen, saved_gen, file>>
  PROVE  Session' /\ reason' \in {"frame", "eject", "exit"} /\ up' \in BOOLEAN
         /\ pc' \in {"none", "begin"} /\ ok' = ok
<1>1. /\ reason' \in {"frame", "eject", "exit"} /\ up' \in BOOLEAN
      /\ pc' \in {"none", "begin"} /\ ok' = ok
      /\ pc' = "begin" => up'
  BY DEF Flush
<1> QED
  BY <1>1 DEF Session, NeverAhead, SavedMeansSaved, FlushInHost, FlushHasPath,
              FlushedIsDisk, StartedUsable

(* A session that starts has saved exactly what it found, and an import that  *)
(* differs from it is a change.                                               *)
LEMMA SessionOpens ==
  ASSUME TypeOK, NEW i \in Imports, Open(i)
  PROVE  Session' /\ disk' \in Disks /\ gen' \in Nat /\ saved_gen' \in Nat
<1> DEFINE found == IF HasPath THEN PutBack(file.sides) ELSE Base
           differ == {s \in Sides : found[s] # i[s]}
           stored == {s \in Sides : found[s] # Base[s]}
<1>1. found \in Disks /\ (HasPath => found = Restored(file))
  BY SaveAssumption, GivesADisk DEF Open, CanStart, TypeOK
<1>2. /\ saved_gen' = Cardinality(stored)
      /\ \/ i = NoDisk /\ disk' = found /\ gen' = saved_gen'
         \/ i # NoDisk /\ disk' = i /\ gen' = saved_gen' + Cardinality(differ)
  BY DEF Open, CanStart
<1>3. Cardinality(stored) \in Nat /\ Cardinality(differ) \in Nat
  BY CountSides
<1>4. i = NoDisk \/ i \in Disks
  BY SaveAssumption
<1>5. i \in Disks /\ Cardinality(differ) = 0 => i = found
  BY <1>1, SameDisk
<1> HIDE DEF found, differ, stored
<1>6. disk' \in Disks /\ gen' \in Nat /\ saved_gen' \in Nat /\ saved_gen' <= gen'
  BY <1>1, <1>2, <1>3, <1>4
<1>7. gen' = saved_gen' => disk' = found
  BY <1>2, <1>3, <1>4, <1>5
<1>8. pc' = "none" /\ UNCHANGED file /\ (HasPath => Usable(file))
  BY DEF Open, CanStart, fileVars
<1> QED
  BY <1>1, <1>6, <1>7, <1>8
     DEF Session, NeverAhead, SavedMeansSaved, FlushInHost, FlushHasPath,
         FlushedIsDisk, StartedUsable

-----------------------------------------------------------------------------
(* The types, action by action. *)
LEMMA StepTypes == TypeOK /\ [Next]_vars => TypeOK'
<1> SUFFICES ASSUME TypeOK, [Next]_vars PROVE TypeOK'
  OBVIOUS
<1>1. /\ SaveIdle \in Nat /\ SaveMax \in Nat /\ Base \in Disks
      /\ 0 \in Nat /\ 0 \in Int /\ 1 \in Nat
  BY SaveAssumption
<1>2. Missing \in Files /\ SaveOf(disk) \in Files
  BY DEF Files, TypeOK
<1>3. side \in Sides \union {NoSide} /\ MediaTypeOK
  BY DEF TypeOK, MediaTypeOK
<1>4. CASE UNCHANGED vars
  BY <1>4 DEF vars, mediaVars, sessionVars, flushVars, fileVars, history, TypeOK, MediaTypeOK
<1>5. CASE FrameStart
  BY <1>5 DEF FrameStart, mediaVars, sessionVars, flushVars, fileVars, history, TypeOK,
              MediaTypeOK
<1>6. CASE ProgramMotor
  BY <1>6 DEF ProgramMotor, TurnMotor, InFrame, sessionVars, flushVars, fileVars, history, TypeOK,
              MediaTypeOK
<1>7. ASSUME NEW c \in Contents, ProgramWrite(c) PROVE TypeOK'
  <2>1. disk' \in Disks
    BY <1>7 DEF ProgramWrite, WriteRun, Disks, TypeOK
  <2>2. gen' \in Nat
    BY <1>7 DEF ProgramWrite, WriteRun, TypeOK
  <2> QED
    BY <1>7, <2>1, <2>2 DEF ProgramWrite, WriteRun, InFrame, sessionVars, flushVars, fileVars,
                            history, TypeOK, MediaTypeOK
<1>8. CASE TierMoves
  BY <1>8 DEF TierMoves, DriveEject, DriveInsert, sessionVars, flushVars, fileVars,
              history, TypeOK, MediaTypeOK
<1>9. ASSUME NEW r \in {"frame", "eject", "exit"}, Flush(r)
      PROVE  /\ reason' \in {"frame", "eject", "exit"} /\ up' \in BOOLEAN
             /\ pc' \in {"none", "begin"} /\ ok' \in BOOLEAN
  BY <1>9 DEF Flush, TypeOK
<1>10. CASE FrameDone
  <2> since_fail \in Nat /\ unsaved \in Nat /\ age \in Int /\ idle \in Nat
    BY DEF TypeOK
  <2>1. since_fail' \in Nat /\ unsaved' \in Nat
    <3>1. since_fail' \in {since_fail, since_fail + 1} /\ unsaved' \in {0, unsaved, unsaved + 1}
      BY <1>10 DEF FrameDone, FlushDue
    <3> QED
      BY <3>1
  <2>2. age' \in Int /\ idle' \in Nat
    <3>1. age' \in {0, age, age + 1} /\ idle' \in {0, 1, idle, idle + 1}
      BY <1>10 DEF FrameDone, FlushDue
    <3> QED
      BY <3>1
  <2>3. /\ reason' \in {"frame", "eject", "exit"} /\ up' \in BOOLEAN
        /\ pc' \in {"none", "begin", "write", "rename", "export"} /\ ok' \in BOOLEAN
    BY <1>9, <1>10 DEF FrameDone, FlushDue, flushVars, TypeOK
  <2>4. dirty' \in BOOLEAN /\ skew' \in Int /\ phase' = "host"
    BY <1>1, <1>10 DEF FrameDone, FlushDue
  <2> QED
    BY <1>10, <2>1, <2>2, <2>3, <2>4 DEF FrameDone, FlushDue, mediaVars, fileVars, TypeOK, MediaTypeOK
<1>11. CASE HostEject
  BY <1>9, <1>11 DEF HostEject, AtHost, DriveEject, sessionVars, fileVars, history, TypeOK,
                     MediaTypeOK
<1>12. CASE Exit
  BY <1>9, <1>12 DEF Exit, mediaVars, sessionVars, fileVars, history, TypeOK, MediaTypeOK
<1>13. ASSUME NEW s \in Sides, HostInsert(s) PROVE TypeOK'
  BY <1>13 DEF HostInsert, DriveInsert, sessionVars, flushVars, fileVars, history, TypeOK,
               MediaTypeOK
<1>14. ASSUME NEW m \in Loads, LoadState(m) PROVE TypeOK'
  <2>1. /\ m.disk \in Disks /\ m.side \in Sides \union {NoSide} /\ m.motor \in BOOLEAN
        /\ m.shift \in Int
    BY SaveAssumption
  <2>2. age' \in Int /\ skew' \in Int /\ gen' \in Nat
    BY <1>14, <2>1 DEF LoadState, TypeOK
  <2>3. MediaTypeOK'
    BY <1>14, <2>1 DEF LoadState, MediaTypeOK
  <2> QED
    BY <1>14, <2>1, <2>2, <2>3 DEF LoadState, flushVars, fileVars, history, TypeOK
<1>15. CASE FlushBegin
  <2>1. /\ pc' \in {"none", "begin", "write", "rename", "export"}
        /\ ok' \in BOOLEAN /\ up' \in BOOLEAN
    BY <1>15 DEF FlushBegin, TypeOK
  <2> QED
    BY <1>15, <2>1 DEF FlushBegin, mediaVars, sessionVars, fileVars, history, TypeOK, MediaTypeOK
<1>16. CASE FlushWrite
  BY <1>16 DEF FlushWrite, mediaVars, sessionVars, fileVars, history, TypeOK, MediaTypeOK
<1>17. CASE FlushRename
  BY <1>2, <1>17 DEF FlushRename, mediaVars, sessionVars, history, TypeOK, MediaTypeOK
<1>18. CASE FlushEnd
  <2>1. /\ age' \in Int /\ idle' \in Nat /\ since_fail' \in Nat /\ unsaved' \in Nat
        /\ saved_gen' \in Nat
    BY <1>1, <1>18 DEF FlushEnd, NoteFailure, TypeOK
  <2>2. dirty' \in BOOLEAN /\ ok' \in BOOLEAN /\ up' \in BOOLEAN
    BY <1>18 DEF FlushEnd, NoteFailure, TypeOK
  <2> QED
    BY <1>18, <2>1, <2>2 DEF FlushEnd, NoteFailure, mediaVars, fileVars, TypeOK, MediaTypeOK
<1>19. ASSUME NEW i \in Imports, Open(i) PROVE TypeOK'
  <2>1. disk' \in Disks /\ gen' \in Nat /\ saved_gen' \in Nat
    BY <1>19, SessionOpens
  <2>2. MediaTypeOK'
    BY <1>19 DEF Open, CanStart, MediaTypeOK
  <2> QED
    BY <1>1, <1>19, <2>1, <2>2 DEF Open, CanStart, fileVars, TypeOK
<1>20. CASE TakeAway
  BY <1>2, <1>20 DEF TakeAway, mediaVars, sessionVars, flushVars, history, TypeOK, MediaTypeOK
<1>21. CASE Crash
  BY <1>21 DEF Crash, mediaVars, sessionVars, fileVars, history, TypeOK, MediaTypeOK
<1>22. CASE PowerLoss
  BY <1>22 DEF PowerLoss, mediaVars, sessionVars, history, TypeOK, MediaTypeOK
<1>23. CASE WriteBack
  BY <1>23 DEF WriteBack, mediaVars, sessionVars, flushVars, history, TypeOK, MediaTypeOK
<1> QED
  BY <1>4, <1>5, <1>6, <1>7, <1>8, <1>10, <1>11, <1>12, <1>13, <1>14, <1>15, <1>16, <1>17,
     <1>18, <1>19, <1>20, <1>21, <1>22, <1>23
     DEF Next, Program, Host, FlushNext, Outside

-----------------------------------------------------------------------------
(* The session's part, action by action. *)
LEMMA StepSession == IInv /\ [Next]_vars => Session'
<1> SUFFICES ASSUME TypeOK, Session, [Next]_vars PROVE Session'
  BY DEF IInv, Session
<1>1. gen \in Nat /\ saved_gen \in Nat /\ disk \in Disks /\ file \in Files
  BY DEF TypeOK
<1>2. CASE UNCHANGED vars
  BY <1>2, SessionUntouched DEF vars, flushVars, fileVars
<1>3. CASE FrameStart
  BY <1>3 DEF FrameStart, AtHost, flushVars, fileVars, Session, NeverAhead,
              SavedMeansSaved, FlushInHost, FlushHasPath, FlushedIsDisk, StartedUsable
<1>4. CASE ProgramMotor
  BY <1>4, SessionUntouched DEF ProgramMotor, TurnMotor, InFrame, flushVars, fileVars
<1>5. ASSUME NEW c \in Contents, ProgramWrite(c) PROVE Session'
  <2>1. pc = "none"
    BY <1>5 DEF ProgramWrite, WriteRun, InFrame, Session, FlushInHost
  <2> QED
    BY <1>1, <1>5, <2>1, SessionChanges DEF ProgramWrite, WriteRun, InFrame, flushVars, fileVars
<1>6. CASE TierMoves
  <2>1. pc = "none"
    BY <1>6 DEF TierMoves, Session, FlushInHost
  <2> QED
    BY <1>6, <2>1, SessionUntouched DEF TierMoves, flushVars, fileVars
<1>7. CASE FrameDone
  <2>1. pc = "none" /\ up /\ phase' = "host" /\ UNCHANGED <<disk, gen, saved_gen, file>>
    BY <1>7 DEF FrameDone, FlushDue, Session, FlushInHost, fileVars
  <2>2. CASE Flush("frame")
    BY <2>1, <2>2, SessionFlushes
  <2>3. CASE UNCHANGED <<up, flushVars>>
    BY <2>1, <2>3, SessionUntouched DEF flushVars
  <2> QED
    BY <1>7, <2>2, <2>3 DEF FrameDone, FlushDue
<1>8. CASE HostEject
  BY <1>8, SessionFlushes DEF HostEject, AtHost, fileVars
<1>9. CASE Exit
  BY <1>9, SessionFlushes DEF Exit, AtHost, fileVars
<1>10. ASSUME NEW s \in Sides, HostInsert(s) PROVE Session'
  BY <1>10, SessionUntouched DEF HostInsert, flushVars, fileVars
<1>11. ASSUME NEW m \in Loads, LoadState(m) PROVE Session'
  BY <1>1, <1>11, SessionChanges DEF LoadState, AtHost, flushVars, fileVars
(* The steps of a flush: it was called from the host and the disk stands still*)
<1>12. CASE FlushBegin
  <2>1. /\ UNCHANGED <<disk, gen, saved_gen, file, phase>>
        /\ \/ pc' = "none" /\ (up' => up)
           \/ pc' = "write" /\ HasPath /\ ok' /\ up' = up
           \/ pc' = "export" /\ ~HasPath /\ up' = up
    BY <1>12 DEF FlushBegin, fileVars, Session, FlushInHost
  <2>2. pc = "begin"
    BY <1>12 DEF FlushBegin
  <2> QED
    BY <2>1, <2>2 DEF Session, NeverAhead, SavedMeansSaved, FlushInHost, FlushHasPath,
                      FlushedIsDisk, StartedUsable
<1>13. CASE FlushWrite
  BY <1>13 DEF FlushWrite, fileVars, Session, NeverAhead, SavedMeansSaved, FlushInHost,
               FlushHasPath, FlushedIsDisk, StartedUsable
<1>14. CASE FlushRename
  <2>1. Usable(SaveOf(disk)) /\ Restored(SaveOf(disk)) = disk
    BY <1>1, GivesBack
  <2>2. /\ pc = "rename" /\ pc' = "export" /\ UNCHANGED <<up, phase, disk, gen, saved_gen>>
        /\ file' = SaveOf(disk) \/ (file' = file /\ ~ok')
    BY <1>14 DEF FlushRename
  <2>3. CASE file' = SaveOf(disk)
    BY <2>1, <2>2, <2>3 DEF Session, NeverAhead, SavedMeansSaved, FlushInHost,
                            FlushHasPath, FlushedIsDisk, StartedUsable
  <2>4. CASE file' = file /\ ~ok'
    BY <2>2, <2>4 DEF Session, NeverAhead, SavedMeansSaved, FlushInHost, FlushHasPath,
                      FlushedIsDisk, StartedUsable
  <2> QED
    BY <2>2, <2>3, <2>4
<1>15. CASE FlushEnd
  <2>1. /\ pc = "export" /\ pc' = "none" /\ UNCHANGED <<disk, gen, file, phase>> /\ up
    BY <1>15 DEF FlushEnd, NoteFailure, fileVars, Session, FlushInHost
  <2>2. CASE ok' /\ saved_gen' = gen
    <3>1. ok
      BY <1>15, <2>2 DEF FlushEnd, NoteFailure
    <3>2. HasPath => Restored(file) = disk
      BY <2>1, <3>1 DEF Session, FlushedIsDisk
    <3> QED
      BY <1>1, <2>1, <2>2, <3>2 DEF Session, NeverAhead, SavedMeansSaved, FlushInHost,
                                    FlushHasPath, FlushedIsDisk, StartedUsable
  <2>3. CASE saved_gen' = saved_gen
    BY <2>1, <2>3 DEF Session, NeverAhead, SavedMeansSaved, FlushInHost, FlushHasPath,
                      FlushedIsDisk, StartedUsable
  <2> QED
    BY <1>15, <2>2, <2>3 DEF FlushEnd, NoteFailure
<1>16. ASSUME NEW i \in Imports, Open(i) PROVE Session'
  BY <1>16, SessionOpens
<1>17. CASE TakeAway
  <2>1. ~up' /\ pc = "none" /\ pc' = "none"
    BY <1>17 DEF TakeAway, flushVars, Session, FlushInHost
  <2> QED
    BY <2>1 DEF Session, NeverAhead, SavedMeansSaved, FlushInHost, FlushHasPath,
                FlushedIsDisk, StartedUsable
<1>18. CASE Crash \/ PowerLoss
  <2>1. ~up' /\ pc' = "none"
    BY <1>18 DEF Crash, PowerLoss
  <2> QED
    BY <2>1 DEF Session, NeverAhead, SavedMeansSaved, FlushInHost, FlushHasPath,
                FlushedIsDisk, StartedUsable
<1>19. CASE WriteBack
  BY <1>19, SessionUntouched DEF WriteBack, flushVars
<1> QED
  BY <1>2, <1>3, <1>4, <1>5, <1>6, <1>7, <1>8, <1>9, <1>10, <1>11, <1>12, <1>13, <1>14,
     <1>15, <1>16, <1>17, <1>18, <1>19
     DEF Next, Program, Host, FlushNext, Outside

(* The file only ever changes to a save of the whole disk, to what a power    *)
(* loss leaves, or to nothing when the player takes it away.                  *)
LEMMA FileSteps ==
  ASSUME IInv, [Next]_vars
  PROVE  /\ \/ file' = file
            \/ TakeAway /\ file' = Missing
            \/ PowerLoss /\ file' = durable
            \/ FlushRename /\ up /\ HasPath /\ file' = SaveOf(disk)
         /\ \/ durable' = durable
            \/ TakeAway /\ durable' = Missing
            \/ WriteBack /\ durable' = file
<1>1. pc = "rename" => up /\ HasPath
  BY DEF IInv, FlushInHost, FlushHasPath
<1> QED
  BY <1>1
     DEF Next, FrameStart, Program, ProgramMotor, TurnMotor, ProgramWrite, WriteRun, InFrame, TierMoves,
         FrameDone, Host, HostEject, Exit, HostInsert, LoadState, FlushNext, FlushBegin,
         FlushWrite, FlushRename, FlushEnd, Outside, Open, TakeAway, Crash, PowerLoss,
         WriteBack, vars, fileVars

(* What a power loss would leave is the file, or as good as it.               *)
LEMMA StepLoss == IInv /\ [Next]_vars => LossAlike'
<1> SUFFICES ASSUME IInv, [Next]_vars PROVE LossAlike'
  OBVIOUS
<1>1. disk \in Disks /\ LossAlike /\ StartedUsable
  BY DEF IInv, TypeOK
<1>2. CASE file' = file /\ durable' = durable
  BY <1>1, <1>2 DEF LossAlike
<1>3. CASE TakeAway
  BY <1>3 DEF TakeAway, LossAlike
<1>4. CASE PowerLoss
  BY <1>4 DEF PowerLoss, LossAlike
<1>5. CASE WriteBack
  BY <1>5 DEF WriteBack, LossAlike
<1>6. CASE FlushRename /\ up /\ HasPath /\ file' = SaveOf(disk)
  <2>1. Usable(file) /\ Usable(durable)
    BY <1>1, <1>6 DEF LossAlike, StartedUsable
  <2>2. durable' = durable /\ Usable(file')
    BY <1>1, <1>6, GivesBack DEF FlushRename
  <2> QED
    BY <2>1, <2>2 DEF LossAlike
<1> QED
  BY <1>2, <1>3, <1>4, <1>5, <1>6, FileSteps

(* Every step of a session, a flush, a crash or the file system keeps it. *)
THEOREM StepInv == IInv /\ [Next]_vars => IInv'
<1>1. IInv /\ [Next]_vars => TypeOK' /\ Session' /\ LossAlike'
  BY StepTypes, StepSession, StepLoss DEF IInv
<1> QED
  BY <1>1 DEF IInv, Session

(* The invariant holds in every reachable state. *)
THEOREM Invariant == Spec => []IInv
<1> QED
  BY InitInv, StepInv, PTL DEF Spec

(* A disk the host believes saved is the disk the next session gets, and the  *)
(* generation recorded as saved is never ahead.                               *)
THEOREM Saved == Spec => [](SavedMeansSaved /\ NeverAhead)
<1>1. IInv => SavedMeansSaved /\ NeverAhead
  BY DEF IInv
<1> QED
  BY <1>1, Invariant, PTL

(* No step tears the save file, neither as the file system shows it nor as a  *)
(* power loss would leave it.                                                 *)
THEOREM Whole == Spec => NeverTorn
<1>1. ASSUME IInv, [Next]_vars
      PROVE  (Usable(file) => Usable(file')) /\ (Usable(durable) => Usable(durable'))
  <2>1. disk \in Disks /\ LossAlike
    BY <1>1 DEF IInv, TypeOK
  <2>2. Usable(Missing) /\ Usable(SaveOf(disk))
    BY <2>1, GivesBack
  <2> QED
    BY <1>1, <2>1, <2>2, FileSteps DEF LossAlike
<1>2. IInv /\ [Next]_vars =>
        [(Usable(file) => Usable(file')) /\ (Usable(durable) => Usable(durable'))]_vars
  BY <1>1
<1> QED
  BY <1>2, Invariant, PTL DEF Spec, NeverTorn

(* A file that is not a save of this disk stays until the player takes it away*)
THEOREM RefusedKept == Spec => RefusedStays
<1>1. ASSUME IInv, [Next]_vars, ~Usable(file)
      PROVE  file' = file \/ TakeAway
  <2>1. LossAlike /\ StartedUsable
    BY <1>1 DEF IInv
  <2> QED
    BY <1>1, <2>1, FileSteps DEF LossAlike, StartedUsable
<1>2. IInv /\ [Next]_vars => [~Usable(file) => (file' = file \/ TakeAway)]_vars
  BY <1>1
<1> QED
  BY <1>2, Invariant, PTL DEF Spec, RefusedStays

-----------------------------------------------------------------------------
(* How long the host waits.                                                   *)

(* An exit with nothing to flush has saved this disk already; one whose flush *)
(* ends with no failure has renamed a save of it over the file.               *)
THEOREM ExitSaves == Spec => ExitKeepsAll
<1> DEFINE Leaves == HasPath /\ up /\ ((Exit /\ ~up') \/ (FlushEnd /\ reason = "exit" /\ ok'))
<1>1. ASSUME IInv, Leaves PROVE Restored(file) = disk
  <2>1. SavedMeansSaved /\ FlushedIsDisk /\ HasPath /\ up
    BY <1>1 DEF IInv
  <2>2. CASE Exit /\ ~up'
    <3>1. gen = saved_gen
      BY <2>1, <2>2 DEF Exit, Flush
    <3> QED
      BY <2>1, <3>1 DEF SavedMeansSaved
  <2>3. CASE FlushEnd /\ ok'
    <3>1. pc = "export" /\ ok
      BY <2>3 DEF FlushEnd
    <3> QED
      BY <2>1, <3>1 DEF FlushedIsDisk
  <2> QED
    BY <1>1, <2>2, <2>3
<1>2. IInv => [Leaves => Restored(file) = disk]_vars
  BY <1>1
<1> QED
  BY <1>2, Invariant, PTL DEF Spec, ExitKeepsAll

(* The variables the two counts are kept in, and the steps that touch them:   *)
(* a session that starts, a frame's end, a flush's end and a load.            *)
LEMMA CountSteps ==
  ASSUME [Next]_vars
  PROVE  \/ UNCHANGED <<dirty, age, idle, skew, unsaved, since_fail>>
         \/ \E i \in Imports : Open(i)
         \/ FrameDone \/ FlushEnd
         \/ \E m \in Loads : LoadState(m)
  BY DEF Next, FrameStart, Program, ProgramMotor, TurnMotor, ProgramWrite, WriteRun, InFrame, TierMoves,
         Host, HostEject, Exit, HostInsert, FlushNext, FlushBegin, FlushWrite, FlushRename,
         Outside, TakeAway, Crash, PowerLoss, WriteBack, vars, sessionVars, history

(* A session starts with no failure behind it, a failed flush starts both     *)
(* counts over, and a frame moves neither further than the frames that passed.*)
LEMMA StepWaited == NoneLater /\ TypeOK /\ FailureWaited /\ [Next]_vars => FailureWaited'
<1> SUFFICES ASSUME NoneLater, TypeOK, FailureWaited, [Next]_vars PROVE FailureWaited'
  OBVIOUS
<1>1. /\ age \in Int /\ idle \in Nat /\ skew \in Int /\ since_fail \in Nat
      /\ SaveIdle \in Nat \ {0} /\ SaveMax \in Nat
  BY SaveAssumption DEF TypeOK
<1>2. CASE UNCHANGED <<dirty, age, idle, skew, unsaved, since_fail>>
  BY <1>2 DEF FailureWaited
<1>3. ASSUME NEW i \in Imports, Open(i) PROVE FailureWaited'
  BY <1>1, <1>3 DEF Open, CanStart, FailureWaited
<1>4. CASE FrameDone
  <2>1. since_fail' = IF since_fail < SaveIdle THEN since_fail + 1 ELSE since_fail
    BY <1>4 DEF FrameDone
  <2>2. age' \in {0, age, age + 1} /\ idle' \in {0, 1, idle, idle + 1}
    BY <1>4 DEF FrameDone, FlushDue
  <2>3. skew' = 0
    BY <1>4 DEF FrameDone
  <2> QED
    BY <1>1, <2>1, <2>2, <2>3 DEF FailureWaited
<1>5. CASE FlushEnd
  BY <1>1, <1>5 DEF FlushEnd, NoteFailure, FailureWaited
<1>6. ASSUME NEW m \in Loads, LoadState(m) PROVE FailureWaited'
  <2>1. m.shift \in Int /\ m.shift <= 0
    BY SaveAssumption DEF NoneLater
  <2>2. /\ UNCHANGED <<idle, since_fail>> /\ age' \in {age, age + m.shift}
        /\ skew' = skew + m.shift
    BY <1>6 DEF LoadState, history
  <2> QED
    BY <1>1, <2>1, <2>2 DEF FailureWaited
<1> QED
  BY <1>2, <1>3, <1>4, <1>5, <1>6, CountSteps
(* The next attempt of the frame hook: one of the two waits has run its whole *)
(* length since the failure. A state of a longer session makes a change look  *)
(* older than it is, and the next frame tries again at once.                  *)
THEOREM RetriesWait == NoneLater /\ Spec => RetryWaits
<1> SUFFICES ASSUME NoneLater PROVE Spec => RetryWaits
  OBVIOUS
<1> DEFINE Retry == pc = "none" /\ pc' = "begin" /\ reason' = "frame"
<1>1. Init => FailureWaited
  BY SaveAssumption DEF Init, FailureWaited
<1>2. IInv /\ FailureWaited /\ [Next]_vars => FailureWaited'
  BY StepWaited DEF IInv
<1>3. ASSUME TypeOK, FailureWaited, FailureWaited', [Next]_vars, Retry
      PROVE  since_fail' >= SaveIdle
  <2>1. FrameDone /\ FlushDue
    BY <1>3
       DEF Next, FrameStart, Program, ProgramMotor, TurnMotor, ProgramWrite, WriteRun, InFrame,
           TierMoves, Host, HostEject, Exit, HostInsert, LoadState, Flush, FrameDone, FlushNext,
           FlushBegin, FlushWrite, FlushRename, FlushEnd, Outside, Open, TakeAway, Crash,
           PowerLoss, WriteBack, vars, flushVars
  <2>2. /\ since_fail' \in Nat /\ idle' \in Nat /\ age' \in Int
        /\ SaveIdle \in Nat /\ SaveMax \in Nat /\ SaveIdle <= SaveMax
    BY <1>3, StepTypes, SaveAssumption DEF TypeOK
  <2>3. idle' >= SaveIdle \/ age' >= SaveMax
    BY <2>1 DEF FlushDue
  <2> QED
    BY <1>3, <2>2, <2>3 DEF FailureWaited
<1>4. IInv /\ FailureWaited /\ FailureWaited' /\ [Next]_vars =>
        [Retry => since_fail' >= SaveIdle]_vars
  BY <1>3 DEF IInv
<1> QED
  BY <1>1, <1>2, <1>4, Invariant, PTL DEF Spec, RetryWaits

(* A change's age counts every frame that ended with it unsaved, and the last *)
(* of them that is not over starts a flush, which ends the count.             *)
LEMMA StepAged ==
  NoneEarlier /\ TypeOK /\ ChangeAged /\ SavedInTime /\ [Next]_vars
    => ChangeAged' /\ SavedInTime'
<1> SUFFICES ASSUME NoneEarlier, TypeOK, ChangeAged, SavedInTime, [Next]_vars
             PROVE  ChangeAged' /\ SavedInTime'
  OBVIOUS
<1>1. /\ age \in Int /\ idle \in Nat /\ skew \in Int /\ unsaved \in Nat
      /\ SaveMax \in Nat /\ dirty \in BOOLEAN
  BY SaveAssumption DEF TypeOK
<1>2. CASE UNCHANGED <<dirty, age, idle, skew, unsaved, since_fail>>
  BY <1>2 DEF ChangeAged, SavedInTime
<1>3. ASSUME NEW i \in Imports, Open(i) PROVE ChangeAged' /\ SavedInTime'
  BY <1>1, <1>3 DEF Open, CanStart, ChangeAged, SavedInTime
<1>4. CASE FrameDone
  <2>1. skew' = 0
    BY <1>4 DEF FrameDone
  <2>2. CASE ~dirty' /\ unsaved' = 0
    BY <1>1, <2>1, <2>2 DEF ChangeAged, SavedInTime
  <2>3. CASE dirty' /\ age' = IF ~dirty THEN 0 ELSE IF age < SaveMax THEN age + 1 ELSE age
    <3>1. age' \in Int /\ age' >= -1 /\ (age' < SaveMax => age' >= unsaved)
      BY <1>1, <2>3 DEF ChangeAged
    <3>2. \/ unsaved' = 0
          \/ age' < SaveMax /\ unsaved' = unsaved + 1
      <4>1. \/ unsaved' = 0
            \/ /\ ~(idle' >= SaveIdle \/ age' >= SaveMax)
               /\ unsaved' = IF unsaved <= SaveMax THEN unsaved + 1 ELSE unsaved
        BY <1>4 DEF FrameDone, FlushDue
      <4> QED
        BY <1>1, <3>1, <4>1 DEF SavedInTime
    <3> QED
      BY <1>1, <2>1, <2>3, <3>1, <3>2 DEF ChangeAged, SavedInTime
  <2> QED
    BY <1>4, <2>2, <2>3 DEF FrameDone
<1>5. CASE FlushEnd
  BY <1>1, <1>5 DEF FlushEnd, NoteFailure, ChangeAged, SavedInTime
<1>6. ASSUME NEW m \in Loads, LoadState(m) PROVE ChangeAged' /\ SavedInTime'
  <2>1. m.shift \in Int /\ m.shift >= 0
    BY SaveAssumption DEF NoneEarlier
  <2>2. /\ UNCHANGED <<dirty, unsaved>> /\ age' = IF dirty THEN age + m.shift ELSE age
        /\ skew' = skew + m.shift
    BY <1>6 DEF LoadState, history
  <2> QED
    BY <1>1, <2>1, <2>2 DEF ChangeAged, SavedInTime
<1> QED
  BY <1>2, <1>3, <1>4, <1>5, <1>6, CountSteps

(* A save is attempted in time. A state of an earlier moment makes a change   *)
(* look younger than it is, and its save waits for as much longer.            *)
THEOREM SavesInTime == NoneEarlier /\ Spec => []SavedInTime
<1> SUFFICES ASSUME NoneEarlier PROVE Spec => []SavedInTime
  OBVIOUS
<1>1. Init => ChangeAged /\ SavedInTime
  BY SaveAssumption DEF Init, ChangeAged, SavedInTime
<1>2. IInv /\ ChangeAged /\ SavedInTime /\ [Next]_vars => ChangeAged' /\ SavedInTime'
  BY StepAged DEF IInv
<1> QED
  BY <1>1, <1>2, Invariant, PTL DEF Spec

-----------------------------------------------------------------------------
(* A host with a save file implements DiskSave.                               *)

(* The first state is one of the abstract save's. *)
LEMMA InitPromise == Init => Promise!SaveInit
<1> SUFFICES ASSUME Init PROVE Promise!SaveInit
  OBVIOUS
<1>1. file \in Files /\ durable = file /\ up = FALSE /\ disk = Base
  BY DEF Init
<1>2. Restored(file) \in Disks \union {NoDisk}
  BY <1>1, GivesADisk
<1> QED
  BY <1>1, <1>2 DEF Promise!SaveInit

(* Every step is one of the abstract save's, or changes nothing it speaks of. *)
LEMMA StepPromise ==
  ASSUME HasPath, IInv, IInv', [Next]_vars
  PROVE  [Promise!SaveNext]_(Promise!saveVars)
<1> USE DEF Promise!SaveNext, Promise!saveVars
<1>1. /\ disk \in Disks /\ disk' \in Disks /\ file \in Files /\ StartedUsable
      /\ up \in BOOLEAN
  BY DEF IInv, TypeOK
<1>2. CASE UNCHANGED <<up, disk, file, durable>>
  BY <1>2
<1>3. CASE up /\ UNCHANGED <<up, file, durable>>
  BY <1>1, <1>3 DEF Promise!Change
<1>4. CASE up /\ up' = FALSE /\ UNCHANGED <<disk, file, durable>>
  BY <1>4 DEF Promise!Stop
<1>5. ASSUME NEW i \in Imports, Open(i)
      PROVE  [Promise!SaveNext]_(Promise!saveVars)
  <2>1. Usable(file) /\ ~up /\ up' = TRUE /\ UNCHANGED <<file, durable>>
    BY <1>5 DEF Open, CanStart, fileVars
  <2>2. Restored(file) \in Disks /\ Restored(file) = PutBack(file.sides)
    BY <1>1, <2>1, GivesADisk
  <2>3. i \in Disks \union {NoDisk}
    BY SaveAssumption
  <2>4. (i = NoDisk /\ disk' = Restored(file)) \/ (i # NoDisk /\ disk' = i)
    BY <1>5, <2>2 DEF Open, CanStart
  <2>5. Promise!Start(i)
    BY <2>1, <2>2, <2>4, NoDiskIsNone DEF Promise!Start
  <2> QED
    BY <2>3, <2>5
<1>6. CASE FlushRename
  <2>1. up /\ UNCHANGED <<up, disk, durable>>
    BY <1>6 DEF FlushRename, IInv, FlushInHost
  <2>2. file' = file \/ file' = SaveOf(disk)
    BY <1>6 DEF FlushRename
  <2>3. CASE file' = SaveOf(disk)
    BY <1>1, <2>1, <2>3, GivesBack DEF Promise!Keep
  <2> QED
    BY <1>2, <2>1, <2>2, <2>3
<1>7. CASE PowerLoss
  BY <1>7 DEF PowerLoss, Promise!PowerLoss
<1>8. CASE WriteBack
  BY <1>8 DEF WriteBack, Promise!Settle
<1>9. CASE TakeAway
  BY <1>9, GivesBack DEF TakeAway, Promise!TakeAway
(* Everything else leaves the file alone and changes the disk, ends the       *)
(* session, or does neither.                                                  *)
<1>10. CASE FrameStart \/ ProgramMotor \/ TierMoves \/ FlushWrite \/ UNCHANGED vars
            \/ \E s \in Sides : HostInsert(s)
  BY <1>2, <1>10
     DEF FrameStart, ProgramMotor, TurnMotor, InFrame, TierMoves, FlushWrite, HostInsert, vars,
         fileVars
<1>11. CASE (\E c \in Contents : ProgramWrite(c)) \/ (\E m \in Loads : LoadState(m))
  BY <1>3, <1>11 DEF ProgramWrite, WriteRun, InFrame, LoadState, AtHost, fileVars
<1>12. CASE FrameDone \/ HostEject \/ Exit \/ FlushBegin \/ FlushEnd \/ Crash
  <2>1. UNCHANGED <<disk, file, durable>>
    BY <1>12 DEF FrameDone, FlushDue, HostEject, Exit, FlushBegin, FlushEnd, NoteFailure, Crash, fileVars
  <2>2. up /\ up' \in BOOLEAN
    BY <1>12 DEF FrameDone, FlushDue, HostEject, Exit, AtHost, FlushBegin, FlushEnd, NoteFailure, Crash, IInv,
                 FlushInHost, TypeOK
  <2> QED
    BY <1>2, <1>4, <2>1, <2>2
<1> QED
  BY <1>5, <1>6, <1>7, <1>8, <1>9, <1>10, <1>11, <1>12
     DEF Next, Program, Host, FlushNext, Outside

(* Whatever crashes, power losses, failed writes, imports and loaded states   *)
(* come between, the save file is the one DiskSave describes.                 *)
THEOREM Refinement == HasPath /\ Spec => Implements
<1> SUFFICES ASSUME HasPath PROVE Spec => Implements
  OBVIOUS
<1>1. IInv /\ IInv' /\ [Next]_vars => [Promise!SaveNext]_(Promise!saveVars)
  BY StepPromise
<1> QED
  BY <1>1, InitPromise, Invariant, PTL DEF Spec, Implements, Promise!SaveSpec
=============================================================================
