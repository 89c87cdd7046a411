------------------------------ MODULE DiskSave ------------------------------
(***************************************************************************)
(* What the disk save promises, without saying how: the disk in memory     *)
(* changes as the program likes; the file beside the image gives back some *)
(* whole disk, and it only ever changes to the disk as it is at that       *)
(* moment; a session starts from what the file gives back, or refuses.     *)
(* FdsSave, the code's flush with its temporary file, implements this.     *)
(***************************************************************************)
CONSTANTS
  Disks,     (* the disks a drive may hold                       *)
  Fresh,     (* the disk the image gives                         *)
  Refused    (* what a file gives back that is not a usable save *)

VARIABLES
  running,   (* a session is on                                  *)
  now,       (* the disk in memory                               *)
  kept,      (* what the file gives back                         *)
  safe       (* what it would give back after a power loss       *)

saveVars == <<running, now, kept, safe>>

Start(imported) ==
  /\ ~running /\ kept # Refused
  /\ running' = TRUE
  /\ \/ imported = Refused /\ now' = kept
     \/ imported # Refused /\ now' = imported
  /\ UNCHANGED <<kept, safe>>

(* The program writes the disk, or the player loads a state. *)
Change == running /\ now' \in Disks /\ UNCHANGED <<running, kept, safe>>

Keep == running /\ kept' = now /\ UNCHANGED <<running, now, safe>>

(* The session ends, by exit or by a crash: the disk in memory is gone. *)
Stop == running /\ running' = FALSE /\ UNCHANGED <<now, kept, safe>>

PowerLoss == running' = FALSE /\ kept' = safe /\ UNCHANGED <<now, safe>>

Settle == safe' = kept /\ UNCHANGED <<running, now, kept>>

(* The player takes the file away while no session is on. *)
TakeAway == ~running /\ kept' = Fresh /\ safe' = Fresh /\ UNCHANGED <<running, now>>

SaveInit ==
  /\ running = FALSE
  /\ now = Fresh
  /\ kept \in Disks \union {Refused}
  /\ safe = kept

SaveNext ==
  \/ \E i \in Disks \union {Refused} : Start(i)
  \/ Change \/ Keep \/ Stop \/ PowerLoss \/ Settle \/ TakeAway

SaveSpec == SaveInit /\ [][SaveNext]_saveVars
=============================================================================
