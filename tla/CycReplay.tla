----------------------------- MODULE CycReplay -----------------------------
(***************************************************************************)
(* The always-on replay recorder (runner/cyc/cyc_replay.c), as the frame   *)
(* loop of the window calls it (runner/cyc/cyc_sdl.c): the emulation       *)
(* thread cuts the play into segments, each a checkpoint and the lines of  *)
(* the frames that follow it, and hands them to the writer thread          *)
(* (ReplayWriter).                                                         *)
(*                                                                         *)
(* The revision counters the recorder compares with what it saw are the    *)
(* set news of those that differ; the frame and cycle counters it compares *)
(* with the last recorded frame's are "moved".  The Zapper line is part of *)
(* the input line.  History variables: untold, said, loud.                 *)
(***************************************************************************)
EXTENDS ReplayWriter, SequencesExt

CONSTANTS
  SegmentFrames,   (* frames of a segment: segment_frames                    *)
  Segments,        (* segments kept: CYC_REPLAY_SEGMENTS                     *)
  Limit,           (* units of checkpoints kept: limit                       *)
  MaxChanges       (* bound: what the player does in a session               *)

ASSUME ReplayAssumption ==
  /\ SegmentFrames \in Nat \ {0}
  /\ Segments \in Nat \ {0}
  /\ Limit \in Nat
  /\ MaxChanges \in Nat

VARIABLES
  pc,          (* where the emulation thread is                              *)
  allow,       (* s_mod_allows: the Mods selection lets it record            *)
  enabled, started, failed, suspended, mod_paused, recording,
  segment,     (* the number of the last segment, 0 before the first         *)
  oldest,      (* the oldest one kept                                        *)
  sizes,       (* the checkpoint sizes of those kept, by slot                *)
  history,     (* history_bytes: their sum                                   *)
  rows,        (* frames recorded in the segment                             *)
  len,         (* the size of the checkpoint being opened                    *)
  ev,          (* the events noted: "none", "some" or, past EV_CAP, "over"   *)
  news,        (* the counters that differ from what the recorder last saw   *)
  pending,     (* pending_hash: the frame's inputs are recorded              *)
  untold,      (* what changed the machine and the segment does not tell     *)
  said,        (* the lines the recorder meant each segment to have          *)
  loud,        (* it was reported that recording stopped or lost frames      *)
  changes      (* what the player did so far: bounded by MaxChanges          *)

switches == <<allow, enabled, started, failed, suspended, mod_paused>>
kept == <<segment, oldest, sizes, history, len>>
heard == <<ev, news, untold>>
vars == <<pc, switches, recording, kept, rows, heard, pending, said, loud, changes, writerVars>>

Slots == 0 .. Segments - 1
Slot(n) == n % Segments

-----------------------------------------------------------------------------
(* stop_recording(): logged, and nothing is recorded any more. *)
StopRecording ==
  /\ failed' = TRUE /\ recording' = FALSE /\ loud' = TRUE
  /\ UNCHANGED <<allow, enabled, started, suspended, mod_paused>>

GoesOn == UNCHANGED <<switches, recording, loud>>

(* end_segment(): whether the queue took the command is not looked at.        *)
EndSegment ==
  /\ recording' = FALSE
  /\ IF recording THEN Enqueue(End) ELSE UNCHANGED queueVars

-----------------------------------------------------------------------------
(* Between two frames. *)

(* A cheat or the host changed the machine: noted while recording.            *)
Poke ==
  /\ pc = "host"
  /\ untold' = untold \union {"poke"}
  /\ \/ recording /\ ev' = IF ev = "over" THEN ev ELSE "some"
     \/ recording /\ ev' = "over"
     \/ ~recording /\ UNCHANGED ev
  /\ UNCHANGED <<pc, switches, recording, kept, rows, news, pending, said, loud, writerVars>>

(* A state was loaded, the settings changed, or the machine ran, was reset or *)
(* moved back other than by the next frame.                                   *)
Change(kind) ==
  /\ pc = "host"
  /\ untold' = untold \union {"change"}
  /\ news' = news \union {kind}
  /\ UNCHANGED <<pc, switches, recording, kept, rows, ev, pending, said, loud, writerVars>>

(* cyc_session_mods_reapply(): the player's mod selection is activated again. *)
ModsReapply(on) ==
  /\ pc = "host"
  /\ allow' = on
  /\ untold' = untold \union {"change"}
  /\ news' = news \union {"settings"}
  /\ UNCHANGED <<pc, enabled, started, failed, suspended, mod_paused, recording, kept, rows,
                 ev, pending, said, loud, writerVars>>

(* cyc_replay_suspend(): online play owns the machine for this frame.         *)
OnlineFrame ==
  /\ pc = "host"
  /\ pc' = "run"
  /\ IF ~enabled \/ failed \/ suspended
     THEN UNCHANGED <<suspended, recording, queueVars>>
     ELSE suspended' = TRUE /\ EndSegment
  /\ UNCHANGED <<allow, enabled, started, failed, mod_paused, kept, rows, heard, pending, said,
                 loud, worker, diskVars>>

-----------------------------------------------------------------------------
(* cyc_replay_frame_begin(). *)

NeedsSegmentUnmoved ==
  \/ mod_paused \/ suspended \/ ~recording \/ rows >= SegmentFrames
  \/ news \cap {"load", "settings"} # {}
NeedsSegment ==
  mod_paused \/ suspended \/ ~recording \/ rows >= SegmentFrames \/ news # {}

(* Nothing is recorded: off, failed, turned off in Mods, or the writer broke. *)
FrameUnrecorded ==
  /\ pc = "host"
  /\ pc' = "run" /\ pending' = FALSE
  /\ \/ /\ ~enabled \/ failed
        /\ UNCHANGED <<switches, recording, loud, queueVars>>
     \/ /\ enabled /\ ~failed /\ ~allow
        /\ mod_paused' = TRUE
        /\ IF started /\ ~mod_paused THEN EndSegment ELSE UNCHANGED <<recording, queueVars>>
        /\ UNCHANGED <<allow, enabled, started, failed, suspended, loud>>
     \/ /\ enabled /\ ~failed /\ allow /\ started /\ error # "none"
        /\ StopRecording /\ UNCHANGED queueVars
  /\ UNCHANGED <<kept, rows, heard, said, worker, diskVars>>

(* start_recorder(): the folder, the thread and the queue, at the first frame *)
(* that may be recorded.                                                      *)
StartRecorder ==
  /\ pc = "host"
  /\ enabled /\ ~failed /\ allow /\ ~started
  /\ pending' = FALSE
  /\ \/ /\ started' = TRUE /\ worker' = "on" /\ oldest' = 1
        /\ suspended' = FALSE /\ mod_paused' = FALSE /\ pc' = "open"
        /\ UNCHANGED enabled
     \/ /\ MayFail
        /\ enabled' = FALSE /\ pc' = "run"
        /\ UNCHANGED <<started, suspended, mod_paused, worker, oldest>>
  /\ UNCHANGED <<allow, failed, recording, segment, sizes, history, len, rows, heard, said, loud,
                 queueVars, diskVars>>

FrameBegin ==
  /\ pc = "host"
  /\ enabled /\ ~failed /\ allow /\ started /\ error = "none"
  /\ pending' = FALSE /\ suspended' = FALSE /\ mod_paused' = FALSE
  /\ pc' = IF NeedsSegment \/ ev = "over" THEN "open" ELSE "lines"
  /\ segment < MaxSegment \/ pc' = "lines"
  /\ UNCHANGED <<allow, enabled, started, failed, recording, kept, rows, heard, said, loud,
                 writerVars>>

(* The last segment is ended and the machine saved, which is the checkpoint.  *)
OpenSegment ==
  /\ pc = "open"
  /\ \/ /\ EndSegment
        /\ segment' = segment + 1
        /\ len' \in Sizes
        /\ untold' = {}
        /\ pc' = "evict"
        /\ UNCHANGED <<switches, loud>>
     \/ /\ MayFail
        /\ IF recording THEN Enqueue(End) ELSE UNCHANGED queueVars
        /\ StopRecording
        /\ pc' = "run"
        /\ UNCHANGED <<segment, len, untold>>
  /\ UNCHANGED <<oldest, sizes, history, rows, ev, news, pending, said, worker, diskVars>>

MustEvictLate ==
  /\ segment - oldest > Segments \/ history + len > Limit
  /\ oldest < segment
MustEvict ==
  /\ segment - oldest >= Segments \/ history + len > Limit
  /\ oldest < segment

(* evict_oldest(): the text goes before its checkpoint.                       *)
EvictText ==
  /\ pc = "evict"
  /\ MustEvict
  /\ Enqueue(RemoveText(oldest))
  /\ pc' = "evict_state"
  /\ UNCHANGED <<switches, recording, kept, rows, heard, pending, said, loud, worker, diskVars>>

EvictState ==
  /\ pc = "evict_state"
  /\ Enqueue(RemoveState(oldest))
  /\ history' = history - sizes[Slot(oldest)]
  /\ sizes' = [sizes EXCEPT ![Slot(oldest)] = 0]
  /\ oldest' = oldest + 1
  /\ IF error' = "none" THEN GoesOn /\ pc' = "evict" ELSE StopRecording /\ pc' = "run"
  /\ UNCHANGED <<segment, len, rows, heard, pending, said, worker, diskVars>>

BeginSegment ==
  /\ pc = "evict"
  /\ ~MustEvict
  /\ sizes' = [sizes EXCEPT ![Slot(segment)] = len]
  /\ history' = history + len
  /\ \/ /\ Enqueue(Begin(segment))
        /\ IF Accepts(Begin(segment)) THEN GoesOn /\ pc' = "checkpoint"
           ELSE StopRecording /\ pc' = "run"
     \/ MayFail /\ StopRecording /\ pc' = "run" /\ UNCHANGED queueVars
  /\ UNCHANGED <<segment, oldest, len, rows, heard, pending, said, worker, diskVars>>

(* The checkpoint is handed over: what happened before it is in it.           *)
QueueCheckpoint ==
  /\ pc = "checkpoint"
  /\ \/ /\ Enqueue(Checkpoint(segment, len))
        /\ Accepts(Checkpoint(segment, len))
        /\ recording' = TRUE /\ rows' = 0 /\ ev' = "none"
        /\ news' = news \ {"load", "settings"}
        /\ pc' = "lines"
        /\ UNCHANGED <<switches, loud>>
     \/ /\ Enqueue(Checkpoint(segment, len))
        /\ ~Accepts(Checkpoint(segment, len))
        /\ StopRecording /\ pc' = "run" /\ UNCHANGED <<rows, ev, news>>
     \/ /\ MayFail
        /\ StopRecording /\ pc' = "run" /\ UNCHANGED <<rows, ev, news, queueVars>>
  /\ UNCHANGED <<kept, untold, pending, said, worker, diskVars>>

-----------------------------------------------------------------------------
(* The lines of a frame. *)

NewLine(kind) == [seg |-> segment, row |-> rows, kind |-> kind]

(* line(): the writer takes it, or recording stops with the writer's reason.  *)
Takes(kind) == Accepts(RecordLine(NewLine(kind)))
WriteOut(kind) ==
  /\ Enqueue(RecordLine(NewLine(kind)))
  /\ said' = [said EXCEPT ![segment] = Append(@, NewLine(kind))]
  /\ IF Takes(kind) THEN GoesOn ELSE StopRecording

RecordEvents ==
  /\ pc = "lines" /\ ev # "none"
  /\ WriteOut("E")
  /\ IF Takes("E") THEN ev' = "none" /\ untold' = untold \ {"poke"} /\ UNCHANGED pc
                   ELSE pc' = "run" /\ UNCHANGED <<ev, untold>>
  /\ UNCHANGED <<kept, rows, news, pending, worker, diskVars>>

RecordInput ==
  /\ pc = "lines" /\ ev = "none"
  /\ WriteOut("I")
  /\ pending' = Takes("I")
  /\ pc' = "run"
  /\ UNCHANGED <<kept, rows, heard, worker, diskVars>>

(* The frame runs, if it ever ends, and cyc_replay_frame_end() records its    *)
(* hashes.                                                                    *)
FrameEnd ==
  /\ pc = "run"
  /\ pc' = "host"
  /\ IF pending /\ ~failed /\ recording
     THEN /\ WriteOut("H")
          /\ pending' = FALSE
          /\ IF Takes("H") THEN rows' = rows + 1 /\ news' = news \ {"moved"}
                           ELSE UNCHANGED <<rows, news>>
          /\ UNCHANGED untold
     ELSE /\ news' = news \union {"moved"} /\ untold' = untold \union {"change"}
          /\ UNCHANGED <<switches, recording, loud, queueVars, said, pending, rows>>
  /\ UNCHANGED <<kept, ev, worker, diskVars>>

-----------------------------------------------------------------------------
(* cyc_replay_shutdown(): end the segment, ask the writer to end, wait for it.*)
Shutdown ==
  /\ pc = "host"
  /\ IF started THEN EndSegment /\ pc' = "stop"
     ELSE pc' = "exit" /\ UNCHANGED <<recording, queueVars>>
  /\ started' = FALSE
  /\ UNCHANGED <<allow, enabled, failed, suspended, mod_paused, kept, rows, heard, pending, said,
                 loud, worker, diskVars>>

AskToStop ==
  /\ pc = "stop"
  /\ stop' = TRUE /\ pc' = "join"
  /\ UNCHANGED <<switches, recording, kept, rows, heard, pending, said, loud, queue, used, error,
                 worker, diskVars>>

Join ==
  /\ pc = "join"
  /\ worker = "done"
  /\ pc' = "exit"
  /\ loud' = (loud \/ error # "none")
  /\ UNCHANGED <<switches, recording, kept, rows, heard, pending, said, writerVars>>

Exited == pc = "exit" /\ UNCHANGED vars

-----------------------------------------------------------------------------
HostStep ==
  /\ changes < MaxChanges /\ enabled /\ ~failed
  /\ changes' = changes + 1
  /\ \/ Poke
     \/ \E kind \in {"load", "settings", "moved"} : Change(kind)
     \/ \E on \in BOOLEAN : ModsReapply(on)
     \/ OnlineFrame

RecorderStep ==
  /\ UNCHANGED changes
  /\ \/ FrameUnrecorded \/ StartRecorder \/ FrameBegin
     \/ OpenSegment \/ EvictText \/ EvictState \/ BeginSegment \/ QueueCheckpoint
     \/ RecordEvents \/ RecordInput \/ FrameEnd
     \/ Shutdown \/ AskToStop \/ Join

WriterStep ==
  /\ WriterNext
  /\ UNCHANGED <<pc, switches, recording, kept, rows, heard, pending, said, loud, changes>>

(* cyc_replay_init(): recording, off, or waiting for Mods to turn it on.      *)
Init ==
  /\ WriterInit
  /\ pc = "host"
  /\ allow \in BOOLEAN /\ enabled \in BOOLEAN
  /\ started = (enabled /\ allow)
  /\ worker = (IF started THEN "on" ELSE "off")
  /\ mod_paused = (enabled /\ ~allow)
  /\ failed = FALSE /\ suspended = FALSE /\ recording = FALSE
  /\ segment = 0 /\ oldest = (IF started THEN 1 ELSE 0)
  /\ sizes = [i \in Slots |-> 0] /\ history = 0 /\ len = 0
  /\ rows = 0 /\ ev = "none" /\ news = {} /\ pending = FALSE
  /\ untold = {} /\ said = [n \in Segs |-> <<>>] /\ loud = FALSE
  /\ changes = 0

Next == HostStep \/ RecorderStep \/ WriterStep \/ Exited

Spec == Init /\ [][Next]_vars

(* The writer's loop runs on, its file calls return, and its 100 ms come; a   *)
(* shutdown under way goes on.  The frame and the player are not fair.        *)
FairSpec ==
  /\ Spec
  /\ WF_vars(WriterStep) /\ WF_vars(WriteFlush /\ WriterStep)
  /\ WF_vars(AskToStop /\ UNCHANGED changes) /\ WF_vars(Join /\ UNCHANGED changes)
-----------------------------------------------------------------------------
(* The type of every variable; a segment never grows past its frames          *)
(* (frame_begin_impl()'s segment length test).                                *)
TypeOK ==
  /\ WriterTypeOK
  /\ pc \in {"host", "open", "evict", "evict_state", "checkpoint", "lines", "run", "stop", "join", "exit"}
  /\ {allow, enabled, started, failed, suspended, mod_paused, recording, pending, loud} \subseteq BOOLEAN
  /\ segment \in 0 .. MaxSegment /\ oldest \in 0 .. MaxSegment
  /\ sizes \in [Slots -> Sizes \union {0}] /\ history \in Nat /\ len \in Sizes \union {0}
  /\ rows \in 0 .. SegmentFrames
  /\ ev \in {"none", "some", "over"} /\ news \subseteq {"load", "settings", "moved"}
  /\ untold \subseteq {"poke", "change"} /\ said \in [Segs -> Seq(Entries)]
  /\ changes \in 0 .. MaxChanges

(* Each segment replays alone (cyc_replay.h): when a frame's inputs are       *)
(* recorded, whatever changed the machine since the segment's checkpoint is   *)
(* in the segment: told by a line, or there is a new checkpoint.              *)
ReplaysAlone == pc = "run" /\ pending /\ ~failed => untold = {}

(* The segments kept; the oldest is not once its removal has begun.           *)
Live == ((IF pc = "evict_state" THEN oldest + 1 ELSE oldest) .. segment) \ {0}

(* The disk once the writer has worked off its queue.                         *)
Planned == Ahead(DiskNow, queue)[Len(queue)]

(* The lines of a segment reach its own file, in the order they were said:    *)
(* they are in the file or in stdio's buffer, and while nothing failed the    *)
(* queue holds all that are missing, in their order, each for its own file.   *)
OwnLines ==
  \A n \in Live :
    /\ IsPrefix(LinesOf(n), said[n])
    /\ error = "none" => Planned.lines[n] = said[n]

(* Whenever the program is killed, a text file with lines in it has its whole *)
(* checkpoint beside it: it is written before the lines and removed after     *)
(* them (open_segment_impl(), remove_segment_files()).                        *)
ReplaysAfterCrash == \A n \in files : text[n] # <<>> => n \in whole

Total(sizeOf) == MapThenSumSet(LAMBDA n : sizeOf[n], DOMAIN sizeOf)
Kept == {n \in Segs : states[n] # 0}

(* Retention: on disk there are at most Segments segments, and their          *)
(* checkpoints stay within the limit unless one alone is larger.              *)
Retention ==
  /\ Cardinality(files) <= Segments
  /\ Cardinality(Kept) <= 1 \/ Total(states) <= Limit

(* A session that ends without a report has all it recorded in the segments   *)
(* it kept: a normal exit drains the queue, and a full queue or a failed      *)
(* write stops recording loudly (cyc_replay.h).                               *)
NothingLostQuietly ==
  pc = "exit" /\ ~loud /\ segment > 0 =>
    /\ files = Live
    /\ \A n \in files : text[n] = said[n] /\ n \in whole

(* A frame that hangs leaves its inputs on disk (w_worker()'s flush).         *)
HungInputOnDisk ==
  [](pc = "run" /\ pending => <>(pc # "run" \/ error # "none" \/ (queue = <<>> /\ buf = <<>>)))

(* The program always gets to its end: the writer never keeps it waiting.     *)
ShutdownEnds == pc \in {"stop", "join"} ~> pc = "exit"
-----------------------------------------------------------------------------
(* What is inductive: first the emulation thread's own state. *)

Opening == {"evict", "evict_state", "checkpoint"}

(* Where the frame is, and what was decided on the way there.                 *)
Flow ==
  /\ pc \in Opening \union {"open", "lines"} =>
       /\ enabled /\ started /\ ~failed /\ ~suspended /\ ~mod_paused /\ ~pending
  /\ pc \in Opening => ~recording /\ segment > 0 /\ len # 0 /\ untold = {}
  /\ pc = "open" => segment < MaxSegment
  /\ pc = "evict_state" => oldest < segment
  /\ pc = "lines" => recording /\ rows < SegmentFrames

(* When it is recorded, and that a recorder that stopped said so.             *)
Recorded ==
  /\ recording => enabled /\ started /\ ~suspended /\ ~mod_paused /\ segment > 0
  /\ failed => loud /\ ~recording
  /\ (pending /\ ~failed) => pc = "run" /\ recording /\ rows < SegmentFrames
  /\ (pc = "run" /\ recording) => pending
  /\ pc \in {"stop", "join", "exit"} => ~recording

(* Which segments there are.                                                  *)
Numbers ==
  /\ (~started /\ segment > 0) => pc \in {"stop", "join", "exit"}
  /\ started => oldest >= 1
  /\ segment > 0 => oldest \in 1 .. segment
  /\ segment = 0 => oldest <= 1

Control == Flow /\ Recorded /\ Numbers

(* What changed the machine and the segment does not tell is noted, or makes  *)
(* the next frame open a new one.                                             *)
Noted ==
  /\ pc = "lines" => untold \subseteq {"poke"}
  /\ (pc = "host" /\ recording /\ "change" \in untold) => news # {}
  /\ (pc \in {"host", "lines"} /\ recording /\ "poke" \in untold) => ev # "none"
  /\ (pc = "run" /\ pending /\ ~failed) => untold = {}

(* The segments that have a slot; all other slots are empty, and the slots    *)
(* add up to the history.                                                     *)
Slotted == oldest .. (IF pc \in {"evict", "evict_state"} THEN segment - 1 ELSE segment)
Accounted ==
  /\ \A i \in Slots : sizes[i] # 0 => \E n \in Slotted \ {0} : Slot(n) = i
  /\ \A m, n \in Slotted : n - m < Segments
  /\ history = Total(sizes)
  /\ pc = "checkpoint" => /\ history <= Limit \/ oldest = segment
                          /\ sizes[Slot(segment)] = len

SaidSoFar ==
  \A n \in Segs : (n > segment \/ (n = segment /\ pc \in Opening)) => said[n] = <<>>

(* Then how far the two threads are. *)
Threads ==
  /\ worker = "off" => ~started /\ segment = 0 /\ queue = <<>> /\ open = None
  /\ worker # "off" => started \/ pc \in {"stop", "join", "exit"}
  /\ pc \in {"stop", "join"} => worker # "off"
  /\ stop => pc \in {"join", "exit"}
  /\ worker \in {"closing", "done"} => error # "none" \/ (stop /\ queue = <<>>)
  /\ worker = "done" => open = None
  /\ open = None => buf = <<>>
  /\ (pc = "exit" /\ segment > 0) => worker = "done" /\ (error # "none" => loud)

(* The queue's units are its commands', and there is room for them.           *)
Weighed ==
  /\ used = Total([i \in 1 .. Len(queue) |-> queue[i].size])
  /\ used <= Capacity

(* A disk that keeps the promises, with what was said of each segment.        *)
Sound(d, words) ==
  /\ \A m, n \in d.files : n - m < Segments
  /\ \/ \A m, n \in Segs : (d.states[m] # 0 /\ d.states[n] # 0) => m = n
     \/ Total(d.states) <= Limit
  /\ \A n \in Segs : d.lines[n] # <<>> => n \in d.files /\ n \in d.whole
  /\ \A n \in Segs : IsPrefix(d.lines[n], words[n])

(* The disk a command may be carried out on.                                  *)
Ready(c, d, words) ==
  /\ c.op = "begin" =>
       /\ d.open = None
       /\ \A n \in d.files : n < c.seg /\ c.seg - n < Segments
  /\ c.op = "state" =>
       /\ d.open = c.seg /\ d.lines[c.seg] = <<>>
       /\ d.states[c.seg] = 0
       /\ (\A n \in Segs : d.states[n] = 0) \/ Total(d.states) + c.size <= Limit
  /\ c.op = "line" =>
       /\ d.open = c.line.seg /\ d.open \in d.files /\ d.open \in d.whole
       /\ IsPrefix(Append(d.lines[d.open], c.line), words[d.open])
  /\ c.op = "remove_text" => d.open = None
  /\ c.op = "remove_state" => d.open = None /\ c.seg \notin d.files
  /\ c.op = "end" => d.open # None

(* The disk now, and while the writer runs the disk after each command that   *)
(* waits, keep the promises; each command finds the disk it is for.           *)
Running == worker \notin {"closing", "done"}
Promised ==
  /\ Sound(DiskNow, said)
  /\ Running =>
       /\ \A i \in 0 .. Len(queue) : Sound(Ahead(DiskNow, queue)[i], said)
       /\ \A i \in 1 .. Len(queue) : Ready(queue[i], Ahead(DiskNow, queue)[i - 1], said)

(* While nothing failed the queue leads to the disk the recorder means.       *)
TextsMeant ==
  (IF pc = "evict_state" THEN oldest + 1 ELSE oldest) ..
    (IF pc \in {"evict", "evict_state"} THEN segment - 1 ELSE segment)
StatesMeant == oldest .. (IF pc \in Opening THEN segment - 1 ELSE segment)
Meant(d) ==
  /\ d.files = TextsMeant \ {0}
  /\ d.whole = StatesMeant \ {0}
  /\ \A n \in Segs : d.states[n] = IF n \in StatesMeant THEN sizes[Slot(n)] ELSE 0
  /\ \A n \in StatesMeant \ {0} : sizes[Slot(n)] # 0
  /\ Total(d.states) + (IF pc = "checkpoint" THEN len ELSE 0) = history
  /\ d.open = IF recording \/ pc = "checkpoint" THEN segment ELSE None
Planning ==
  /\ (~failed /\ error = "none") => Meant(Planned)
  /\ error = "none" => \A n \in Live : Planned.lines[n] = said[n]

IInv ==
  /\ TypeOK /\ Control /\ Noted /\ Accounted /\ SaidSoFar
  /\ Threads /\ Weighed /\ Promised /\ Planning
=============================================================================
