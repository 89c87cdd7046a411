---------------------------- MODULE ReplayWriter ----------------------------
(***************************************************************************)
(* The bounded writer of the replay recorder (runner/cyc/cyc_replay.c):    *)
(* the emulation thread puts commands into a fixed byte queue and never    *)
(* waits; one writer thread takes them in order and owns every file.       *)
(*                                                                         *)
(* A put is one step: what it reads before it publishes write_pos (stop,   *)
(* error, read_pos) can only be changed meanwhile by the writer, which     *)
(* then frees space or dies, and the put would have done the same just     *)
(* before.  Sizes are in units; a checkpoint is the largest command.  The  *)
(* .config.ini and .mods.toml copies of a segment are left out.            *)
(***************************************************************************)
EXTENDS Integers, Sequences, FiniteSets

CONSTANTS
  MaxSegment,  (* bound: segments in a session                               *)
  Capacity,    (* units the queue holds: Q - 1 bytes                         *)
  Sizes,       (* sizes of a checkpoint                                      *)
  MayFail      (* file operations may fail                                   *)

ASSUME WriterAssumption ==
  /\ MaxSegment \in Nat \ {0}
  /\ Capacity \in Nat
  /\ Sizes \subseteq Nat \ {0}
  /\ MayFail \in BOOLEAN

Segs == 1 .. MaxSegment
None == 0                        (* no segment's text is open                *)

(* A record line: the events before a frame, its inputs or its hashes.        *)
Entries == [seg : Segs, row : Nat, kind : {"E", "I", "H"}]

Commands ==
  [op : {"begin", "remove_text", "remove_state"}, seg : Segs, size : {1}]
    \union [op : {"state"}, seg : Segs, size : Sizes]
    \union [op : {"line"}, line : Entries, size : {1}]
    \union [op : {"end"}, size : {1}]

VARIABLES
  queue,       (* the commands between read_pos and write_pos                *)
  used,        (* the units they take                                        *)
  stop,        (* the emulation thread asked the writer to end               *)
  error,       (* the first error, which stays: "none", "full" or "io"       *)
  worker,      (* the writer thread: "off", "on", "idle", "closing", "done"  *)
  open,        (* the segment whose text it has open                         *)
  buf,         (* what stdio still buffers of it                             *)
  files,       (* segments whose text file exists                            *)
  text,        (* what is in each                                            *)
  states,      (* the size of each checkpoint file, 0 when there is none     *)
  whole        (* segments whose checkpoint was written to its end           *)

queueVars == <<queue, used, stop, error>>
diskVars == <<open, buf, files, text, states, whole>>
writerVars == <<queueVars, worker, diskVars>>

-----------------------------------------------------------------------------
(* The emulation thread's side. *)

Begin(n) == [op |-> "begin", seg |-> n, size |-> 1]
Checkpoint(n, size) == [op |-> "state", seg |-> n, size |-> size]
RemoveText(n) == [op |-> "remove_text", seg |-> n, size |-> 1]
RemoveState(n) == [op |-> "remove_state", seg |-> n, size |-> 1]
RecordLine(l) == [op |-> "line", line |-> l, size |-> 1]
End == [op |-> "end", size |-> 1]

(* w_fail(): the first error stays. *)
Failing(e) == IF error = "none" THEN e ELSE error

Accepts(c) == ~stop /\ error = "none" /\ used + c.size <= Capacity

(* w_enqueue(): refused once an error is set; a queue that is full sets one.  *)
EnqueueOrDrop(c) ==
  /\ UNCHANGED <<stop, error>>
  /\ IF Accepts(c) THEN queue' = Append(queue, c) /\ used' = used + c.size
                   ELSE UNCHANGED <<queue, used>>
Enqueue(c) ==
  /\ UNCHANGED stop
  /\ \/ /\ Accepts(c)
        /\ queue' = Append(queue, c)
        /\ used' = used + c.size
        /\ UNCHANGED error
     \/ /\ ~Accepts(c)
        /\ error' = IF stop THEN error ELSE Failing("full")
        /\ UNCHANGED <<queue, used>>

-----------------------------------------------------------------------------
(* The writer thread. *)

Command == Head(queue)

(* The first k lines of the buffer reach the open file. *)
WrittenTo(k) ==
  IF open = None THEN text ELSE [text EXCEPT ![open] = text[open] \o SubSeq(buf, 1, k)]

Flushed == WrittenTo(Len(buf))

(* A flush that fails has written some of it. *)
HalfFlushed == \E k \in 0 .. Len(buf) : text' = WrittenTo(k) /\ buf' = SubSeq(buf, k + 1, Len(buf))

(* fclose() of the open text: one that fails loses what was still buffered.   *)
Closes(ok) ==
  /\ IF ok THEN text' = Flushed ELSE \E k \in 0 .. Len(buf) : text' = WrittenTo(k)
  /\ open' = None /\ buf' = <<>>

(* A command that worked leaves the queue only after its disk work.           *)
Taken ==
  /\ queue' = Tail(queue)
  /\ used' = used - Command.size
  /\ UNCHANGED <<stop, error, worker>>

(* One that failed ends the loop, and stays in the queue.                     *)
Broken ==
  /\ MayFail
  /\ error' = Failing("io")
  /\ worker' = "closing"
  /\ UNCHANGED <<queue, used, stop>>

Working(op) == worker = "on" /\ queue # <<>> /\ Command.op = op

(* A text still open is closed first; the new one starts with its header.     *)
WriteBegin ==
  /\ Working("begin")
  /\ \/ /\ Taken
        /\ open' = Command.seg /\ buf' = <<>>
        /\ files' = files \union {Command.seg}
        /\ text' = [Flushed EXCEPT ![Command.seg] = <<>>]
     \/ /\ Broken
        /\ \/ open = None /\ UNCHANGED <<open, buf, files, text>>
           \/ \E ok \in BOOLEAN : open # None /\ Closes(ok) /\ UNCHANGED files
           \/ /\ open' = Command.seg /\ buf' = <<>>
              /\ files' = files \union {Command.seg}
              /\ text' = [Flushed EXCEPT ![Command.seg] = <<>>]
  /\ UNCHANGED <<states, whole>>

WriteStateUnchecked ==
  /\ Working("state")
  /\ Taken
  /\ states' = [states EXCEPT ![Command.seg] = Command.size]
  /\ whole' \in {whole \ {Command.seg}, whole \union {Command.seg}}
  /\ UNCHANGED <<open, buf, files, text>>
WriteState ==
  /\ Working("state")
  /\ \/ /\ Taken
        /\ states' = [states EXCEPT ![Command.seg] = Command.size]
        /\ whole' = whole \union {Command.seg}
     \/ /\ Broken
        /\ \E n \in {0, Command.size} : states' = [states EXCEPT ![Command.seg] = n]
        /\ whole' = whole \ {Command.seg}
  /\ UNCHANGED <<open, buf, files, text>>

(* A line goes to the text that is open, whichever that is; a full buffer is  *)
(* written out first.                                                         *)
WriteLine ==
  /\ Working("line")
  /\ \/ /\ open # None /\ Taken
        /\ \/ buf' = Append(buf, Command.line) /\ UNCHANGED text
           \/ buf' = <<Command.line>> /\ text' = Flushed
     \/ /\ Broken
        /\ HalfFlushed
     \/ /\ open = None
        /\ error' = Failing("io") /\ worker' = "closing"
        /\ UNCHANGED <<queue, used, stop, buf, text>>
  /\ UNCHANGED <<open, files, states, whole>>

WriteRemoveText ==
  /\ Working("remove_text")
  /\ \/ /\ Taken
        /\ files' = files \ {Command.seg}
        /\ text' = [text EXCEPT ![Command.seg] = <<>>]
     \/ Broken /\ UNCHANGED <<files, text>>
  /\ UNCHANGED <<open, buf, states, whole>>

WriteRemoveState ==
  /\ Working("remove_state")
  /\ \/ /\ Taken
        /\ states' = [states EXCEPT ![Command.seg] = 0]
        /\ whole' = whole \ {Command.seg}
     \/ Broken /\ UNCHANGED <<states, whole>>
  /\ UNCHANGED <<open, buf, files, text>>

WriteEnd ==
  /\ Working("end")
  /\ \/ Taken /\ Closes(TRUE)
     \/ open # None /\ Broken /\ \E ok \in BOOLEAN : Closes(ok)
  /\ UNCHANGED <<files, states, whole>>

(* Every 100 ms what is buffered goes to the file. *)
WriteFlushBusy ==
  /\ worker = "on"
  /\ queue # <<>> /\ buf # <<>>
  /\ text' = Flushed /\ buf' = <<>> /\ UNCHANGED <<queueVars, worker>>
  /\ UNCHANGED <<open, files, states, whole>>
WriteFlush ==
  /\ worker \in {"on", "idle"}
  /\ buf # <<>>
  /\ \/ text' = Flushed /\ buf' = <<>> /\ UNCHANGED <<queueVars, worker>>
     \/ Broken /\ HalfFlushed
  /\ UNCHANGED <<open, files, states, whole>>

(* It found the queue empty.  Asked to end, or after an error, it leaves only *)
(* if the queue is still empty then: a put may have come in between.          *)
WriterIdles ==
  /\ worker = "on"
  /\ queue = <<>>
  /\ worker' = "idle"
  /\ UNCHANGED <<queueVars, diskVars>>

EndingOnError == error # "none"
Ending == stop \/ error # "none"

WriterWakesUnchecked ==
  /\ worker = "idle"
  /\ worker' = IF Ending THEN "closing" ELSE "on"
  /\ UNCHANGED <<queueVars, diskVars>>
WriterWakes ==
  /\ worker = "idle"
  /\ worker' = IF Ending /\ queue = <<>> THEN "closing" ELSE "on"
  /\ UNCHANGED <<queueVars, diskVars>>

WriterCloses ==
  /\ worker = "closing"
  /\ worker' = "done"
  /\ \/ Closes(TRUE) /\ UNCHANGED error
     \/ open # None /\ MayFail /\ Closes(FALSE) /\ error' = Failing("io")
  /\ UNCHANGED <<queue, used, stop, files, states, whole>>

WriterNext ==
  \/ WriteBegin \/ WriteState \/ WriteLine \/ WriteRemoveText \/ WriteRemoveState
  \/ WriteEnd \/ WriteFlush \/ WriterIdles \/ WriterWakes \/ WriterCloses

WriterInit ==
  /\ queue = <<>> /\ used = 0
  /\ stop = FALSE /\ error = "none"
  /\ open = None /\ buf = <<>>
  /\ files = {} /\ text = [n \in Segs |-> <<>>]
  /\ states = [n \in Segs |-> 0] /\ whole = {}

(* The types of the writer's variables. *)
WriterTypeOK ==
  /\ queue \in Seq(Commands) /\ used \in Nat
  /\ stop \in BOOLEAN /\ error \in {"none", "full", "io"}
  /\ worker \in {"off", "on", "idle", "closing", "done"}
  /\ open \in Segs \union {None} /\ buf \in Seq(Entries)
  /\ files \subseteq Segs /\ text \in [Segs -> Seq(Entries)]
  /\ states \in [Segs -> Sizes \union {0}] /\ whole \subseteq Segs

-----------------------------------------------------------------------------
(* What the queue is for: the disk as it is now, what a command makes of it   *)
(* when it works, and the disk after each command that waits.  A segment has  *)
(* the lines in its file and, while it is open, those stdio still buffers.    *)
LinesOf(n) == IF open = n THEN text[n] \o buf ELSE text[n]

DiskNow ==
  [open |-> open, files |-> files, lines |-> [n \in Segs |-> LinesOf(n)],
   states |-> states, whole |-> whole]

Apply(c, d) ==
  CASE c.op = "begin" ->
         [d EXCEPT !.open = c.seg, !.files = @ \union {c.seg}, !.lines[c.seg] = <<>>]
    [] c.op = "state" ->
         [d EXCEPT !.states[c.seg] = c.size, !.whole = @ \union {c.seg}]
    [] c.op = "line" -> [d EXCEPT !.lines[d.open] = Append(@, c.line)]
    [] c.op = "remove_text" ->
         [d EXCEPT !.files = @ \ {c.seg}, !.lines[c.seg] = <<>>]
    [] c.op = "remove_state" ->
         [d EXCEPT !.states[c.seg] = 0, !.whole = @ \ {c.seg}]
    [] c.op = "end" -> [d EXCEPT !.open = None]

Ahead(d, q) ==
  LET after[i \in 0 .. Len(q)] == IF i = 0 THEN d ELSE Apply(q[i], after[i - 1])
  IN after
=============================================================================
