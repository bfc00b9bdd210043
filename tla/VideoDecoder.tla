---------------------------- MODULE VideoDecoder ----------------------------
(***************************************************************************)
(* FFmpegVideoDecoder (services/video_decoder.py) as IngestHandler         *)
(* (workers/ingest.py) uses it: one decoder per delivery of a task, which  *)
(* reads chunk after chunk from the stdout of one FFmpeg child.            *)
(*                                                                         *)
(* decode_batch runs in a thread.  When the handler has waited too long it *)
(* closes the decoder, in another thread, while the first one goes on: the *)
(* two share the decoder's fields and the child's stdout, and closing the  *)
(* stdout waits for a reader that is inside readinto (BufferedReader).     *)
(*                                                                         *)
(* A frame is its number.  None is 0 for process, and the empty tail for   *)
(* previous_tail (a tail that is not None has at least one frame).         *)
(*                                                                         *)
(* A fault is a child that hangs, ends early, ends with an error or cannot *)
(* be started, metadata that cannot be read, or whatever else makes the    *)
(* handler leave its loop; MaxFaults bounds them.                          *)
(***************************************************************************)
EXTENDS Chunking, Sequences, SequencesExt

CONSTANTS
  Videos,       (* frames of a video, chunk_size, overlap_frames and the   *)
                (* frames that max_decoded_chunk_bytes holds               *)
  MaxFaults

(* The checks of FFmpegVideoDecoder.__init__ and _probe_metadata.          *)
ASSUME VideosAssumption ==
  Videos \subseteq {v \in [frames : Nat \ {0}, chunk : Nat \ {0}, overlap : Nat,
                           limit : Nat \ {0}] : v.overlap < v.chunk}
ASSUME FaultsAssumption == MaxFaults \in Nat

VARIABLES
  layout,             (* the effective layout of the video                 *)
  published,          (* ingest_published_chunks                           *)
  failed,             (* repository.fail was called                        *)
  batches,            (* what decode_batch returned to the handler, by chunk *)
  pc,                 (* the handler                                       *)
  ffmpeg,             (* the children so far, oldest first                 *)
  process,            (* self._process, an index of ffmpeg or None         *)
  next_chunk_index,   (* self._next_chunk_index                            *)
  previous_tail,      (* self._previous_tail                               *)
  thread,             (* the thread in decode_batch                        *)
  closer,             (* the thread in close                               *)
  faults              (* the faults so far, oldest first                   *)

taskVars    == <<layout, published, failed, batches>>
decoderVars == <<process, next_chunk_index, previous_tail>>
vars == <<taskVars, pc, ffmpeg, decoderVars, thread, closer, faults>>

None == 0

NoChunk == -1

Pc == {"idle", "open", "loop", "await", "publish", "close_timed_out", "close_last"}

ThreadPc == {"none", "check", "popen", "begin", "reading", "finish", "end",
             "returned", "raised"}

NoThread == [at |-> "none", chunk |-> 0, child |-> None, frames |-> <<>>]

NoCloser == [at |-> "take", child |-> None]

Init ==
  /\ layout \in {Layout(v.frames, v.chunk, v.overlap, v.limit) : v \in Videos}
  /\ published = 0 /\ failed = FALSE
  /\ batches = [c \in {} |-> <<>>]
  /\ pc = "idle"
  /\ ffmpeg = <<>>
  /\ process = None /\ next_chunk_index = NoChunk /\ previous_tail = <<>>
  /\ thread = NoThread /\ closer = NoCloser
  /\ faults = <<>>

FaultKind == {"hang", "ends_early", "bad_exit", "no_child", "no_metadata", "leave"}

Fault(kind) == /\ Len(faults) < MaxFaults
               /\ faults' = Append(faults, kind)

Alive(child) == ffmpeg[child].state # "exited"

(* process.terminate, or kill when it does not stop in time.               *)
Stopped(child) == [ffmpeg EXCEPT ![child].state = "exited"]

Forget == process' = None /\ next_chunk_index' = NoChunk /\ previous_tail' = <<>>

-----------------------------------------------------------------------------
(* A delivery of a task that is neither failed nor complete: a new decoder *)
(* probes the video, and the loop starts at the first chunk that has not   *)
(* been published.                                                         *)
Deliver ==
  /\ pc = "idle" /\ ~failed /\ published < TotalChunks(layout)
  /\ pc' = "open"
  /\ Forget
  /\ UNCHANGED <<taskVars, ffmpeg, thread, closer, faults>>

Open ==
  /\ pc = "open"
  /\ \/ pc' = "loop" /\ UNCHANGED <<failed, faults>>
     \/ Fault("no_metadata") /\ pc' = "close_last" /\ failed' = TRUE
  /\ UNCHANGED <<layout, published, batches, ffmpeg, decoderVars, thread, closer>>

(* The next chunk is asked for, in a thread.                               *)
Request ==
  /\ pc = "loop" /\ published < TotalChunks(layout)
  /\ pc' = "await"
  /\ thread' = [NoThread EXCEPT !.at = "check", !.chunk = published]
  /\ UNCHANGED <<taskVars, ffmpeg, decoderVars, closer, faults>>

(* The loop is over, or the handler leaves it between two chunks: the task *)
(* has ended, a put or a publication has failed for good or for now.       *)
Leave ==
  /\ \/ /\ pc = "loop" /\ published = TotalChunks(layout)
        /\ UNCHANGED <<failed, faults>>
     \/ /\ pc \in {"loop", "publish"}
        /\ Fault("leave")
        /\ failed' \in {failed, TRUE}
  /\ pc' = "close_last"
  /\ UNCHANGED <<layout, published, batches, ffmpeg, decoderVars, thread, closer>>

Receive ==
  /\ pc = "await" /\ thread.at = "returned"
  /\ batches' = [c \in DOMAIN batches \cup {thread.chunk} |->
                   IF c = thread.chunk THEN thread.frames ELSE batches[c]]
  /\ thread' = NoThread
  /\ pc' = "publish"
  /\ UNCHANGED <<layout, published, failed, ffmpeg, decoderVars, closer, faults>>

DecodeFails ==
  /\ pc = "await" /\ thread.at = "raised"
  /\ failed' = TRUE
  /\ thread' = NoThread
  /\ pc' = "close_last"
  /\ UNCHANGED <<layout, published, batches, ffmpeg, decoderVars, closer, faults>>

Publish ==
  /\ pc = "publish"
  /\ published' = published + 1
  /\ pc' = "loop"
  /\ UNCHANGED <<layout, failed, batches, ffmpeg, decoderVars, thread, closer, faults>>

(* wait_for gives up: the thread goes on, its result is dropped.           *)
TimeOut ==
  /\ pc = "await" /\ thread.at \notin {"returned", "raised"}
  /\ pc' = "close_timed_out"
  /\ UNCHANGED <<taskVars, ffmpeg, decoderVars, thread, closer, faults>>

-----------------------------------------------------------------------------
(* close, after a timeout and again in the finally clause: the fields      *)
(* first, then the child's stdout, then the child.                         *)
Closing == pc \in {"close_timed_out", "close_last"}

(* close returns: after a timeout the task is failed and the finally       *)
(* clause follows, after that the delivery is over.                        *)
Return ==
  /\ closer' = NoCloser
  /\ IF pc = "close_timed_out"
     THEN failed' = TRUE /\ pc' = "close_last"
     ELSE UNCHANGED failed /\ pc' = "idle"

CloseTakes ==
  /\ Closing /\ closer.at = "take"
  /\ Forget
  /\ IF process = None
     THEN Return
     ELSE /\ closer' = [at |-> "shut", child |-> process]
          /\ UNCHANGED <<failed, pc>>
  /\ UNCHANGED <<layout, published, batches, ffmpeg, thread, faults>>

(* BufferedReader.close waits for the lock that readinto holds.            *)
InRead(child) == thread.at = "reading" /\ thread.child = child

CloseShuts ==
  /\ Closing /\ closer.at = "shut"
  /\ ~InRead(closer.child)
  /\ closer' = [closer EXCEPT !.at = "stop"]
  /\ UNCHANGED <<taskVars, pc, ffmpeg, decoderVars, thread, faults>>

MutantNoKill(child) == ffmpeg[child].state # "hung"

Stoppable(child) == TRUE

MutantOnlyShut(child) ==
  [ffmpeg EXCEPT ![child].state = IF @ = "running" THEN "exited" ELSE @]

Closed(child) == Stopped(child)

CloseStops ==
  /\ Closing /\ closer.at = "stop"
  /\ Stoppable(closer.child)
  /\ ffmpeg' = Closed(closer.child)
  /\ Return
  /\ UNCHANGED <<layout, published, batches, decoderVars, thread, faults>>

-----------------------------------------------------------------------------
(* decode_batch.  Another chunk than the next one needs another child; the *)
(* old one has no reader, since this thread is the only one that reads.    *)
Goto(at) == thread' = [thread EXCEPT !.at = at]

Check ==
  /\ thread.at = "check"
  /\ IF process = None \/ next_chunk_index # thread.chunk
     THEN /\ Goto("popen") /\ Forget
          /\ ffmpeg' = IF process = None THEN ffmpeg ELSE Stopped(process)
     ELSE Goto("begin") /\ UNCHANGED <<ffmpeg, decoderVars>>
  /\ UNCHANGED <<taskVars, pc, closer, faults>>

(* _restart_stream: the child's first frame (trim=start_frame).  late: the *)
(* handler has given up waiting before self._process was set.              *)
MutantTrimValid(c) == ValidStart(layout, c)

TrimStart(c) == ContextStart(layout, c)

Popen ==
  /\ thread.at = "popen"
  /\ ffmpeg' = Append(ffmpeg, [next |-> TrimStart(thread.chunk), state |-> "running",
                               late |-> pc # "await"])
  /\ process' = Len(ffmpeg) + 1
  /\ next_chunk_index' = thread.chunk
  /\ previous_tail' = <<>>
  /\ Goto("begin")
  /\ UNCHANGED <<taskVars, pc, closer, faults>>

PopenFails ==
  /\ thread.at = "popen"
  /\ Fault("no_child")
  /\ Goto("raised")
  /\ UNCHANGED <<taskVars, pc, ffmpeg, decoderVars, closer>>

(* The tail of the chunk before is put in front of the frames to be read.  *)
TailFits == \/ previous_tail = <<>>
            \/ Len(previous_tail) = ValidStart(layout, thread.chunk)
                                      - ContextStart(layout, thread.chunk)

Begin ==
  /\ thread.at = "begin"
  /\ thread' = IF process # None /\ TailFits
               THEN [thread EXCEPT !.at = "reading", !.child = process,
                                   !.frames = previous_tail]
               ELSE [thread EXCEPT !.at = "raised"]
  /\ UNCHANGED <<taskVars, pc, ffmpeg, decoderVars, closer, faults>>

(* One readinto fills the buffer, however long FFmpeg takes for a frame.   *)
Wanted == ContextEnd(layout, thread.chunk) - ContextStart(layout, thread.chunk) + 1

ReadFrame ==
  /\ thread.at = "reading" /\ Len(thread.frames) < Wanted
  /\ ffmpeg[thread.child].state = "running"
  /\ ffmpeg[thread.child].next < layout.frames
  /\ thread' = [thread EXCEPT !.frames = Append(@, ffmpeg[thread.child].next)]
  /\ ffmpeg' = [ffmpeg EXCEPT ![thread.child].next = @ + 1]
  /\ UNCHANGED <<taskVars, pc, decoderVars, closer, faults>>

(* End of file before the buffer is full; _collect_process_error.          *)
ShortRead ==
  /\ thread.at = "reading" /\ Len(thread.frames) < Wanted
  /\ \/ ffmpeg[thread.child].state = "exited"
     \/ /\ ffmpeg[thread.child].state = "running"
        /\ ffmpeg[thread.child].next = layout.frames
  /\ ffmpeg' = Stopped(thread.child)
  /\ Goto("raised")
  /\ UNCHANGED <<taskVars, pc, decoderVars, closer, faults>>

(* The last frames are kept for the next chunk.                            *)
LastFrames(frames) ==
  SubSeq(frames, Len(frames) - Min({layout.overlap, Len(frames)}) + 1, Len(frames))

ReadDone ==
  /\ thread.at = "reading" /\ Len(thread.frames) = Wanted
  /\ previous_tail' = LastFrames(thread.frames)
  /\ next_chunk_index' = thread.chunk + 1
  /\ Goto(IF IsLast(layout, thread.chunk) THEN "finish" ELSE "returned")
  /\ UNCHANGED <<taskVars, pc, ffmpeg, process, closer, faults>>

(* _finish_process takes the child from the field, closes its stdout and   *)
(* waits for it.  While it waits, close finds no child.                    *)
FinishTakes ==
  /\ thread.at = "finish"
  /\ Forget
  /\ thread' = IF process = None
               THEN [thread EXCEPT !.at = "returned"]
               ELSE [thread EXCEPT !.at = "end", !.child = process]
  /\ UNCHANGED <<taskVars, pc, ffmpeg, closer, faults>>

(* A child that does not stop by itself is killed; then, or when it has    *)
(* ended with an error, decode_batch fails for the last chunk.             *)
FinishFails == ffmpeg[thread.child].state = "hung"

MutantNeverKilled(child) ==
  [ffmpeg EXCEPT ![child].state = IF @ = "hung" THEN "hung" ELSE "exited"]

Ended(child) == Stopped(child)

FinishEnds ==
  /\ thread.at = "end"
  /\ ffmpeg' = Ended(thread.child)
  /\ \/ Goto(IF FinishFails THEN "raised" ELSE "returned") /\ UNCHANGED faults
     \/ Fault("bad_exit") /\ Goto("raised")
  /\ UNCHANGED <<taskVars, pc, decoderVars, closer>>

(* Nobody waits for the thread any more.                                   *)
Drop ==
  /\ pc # "await" /\ thread.at \in {"returned", "raised"}
  /\ thread' = NoThread
  /\ UNCHANGED <<taskVars, pc, ffmpeg, decoderVars, closer, faults>>

-----------------------------------------------------------------------------
(* The child: it makes no progress any more (a codec that loops, a stderr  *)
(* pipe that is full, since nobody reads it before the end), or ends.      *)
Misbehave(child) ==
  /\ ffmpeg[child].state = "running"
  /\ \/ /\ Fault("hang")
        /\ ffmpeg' = [ffmpeg EXCEPT ![child].state = "hung"]
     \/ /\ Fault("ends_early")
        /\ ffmpeg' = Stopped(child)
  /\ UNCHANGED <<taskVars, pc, decoderVars, thread, closer>>

Handler == \/ Deliver \/ Open \/ Request \/ Leave \/ Receive \/ DecodeFails
           \/ Publish \/ CloseTakes \/ CloseShuts \/ CloseStops

Decode == \/ Check \/ Popen \/ PopenFails \/ Begin \/ ReadFrame \/ ShortRead
          \/ ReadDone \/ FinishTakes \/ FinishEnds \/ Drop

Next == \/ Handler \/ TimeOut \/ Decode
        \/ \E child \in DOMAIN ffmpeg : Misbehave(child)

(* Both threads run, a child that does not hang goes on, and wait_for has  *)
(* a timer.                                                                *)
Fairness == WF_vars(Handler) /\ WF_vars(Decode) /\ WF_vars(TimeOut)

Spec == Init /\ [][Next]_vars /\ Fairness

-----------------------------------------------------------------------------
(* The type of the state.                                                  *)
TypeOK ==
  /\ published \in Nat /\ failed \in BOOLEAN /\ pc \in Pc
  /\ ffmpeg \in Seq([next : Nat, state : {"running", "hung", "exited"},
                     late : BOOLEAN])
  /\ process \in 0..Len(ffmpeg)
  /\ next_chunk_index \in Nat \cup {NoChunk}
  /\ previous_tail \in Seq(Nat)
  /\ thread \in [at : ThreadPc, chunk : Nat, child : 0..Len(ffmpeg),
                 frames : Seq(Nat)]
  /\ closer \in [at : {"take", "shut", "stop"}, child : 0..Len(ffmpeg)]
  /\ faults \in Seq(FaultKind) /\ Len(faults) <= MaxFaults

(* decode_batch: whichever chunk a decoder starts with, and however often  *)
(* the stream was started anew, every chunk that the handler gets consists *)
(* of the frames from its context start to its end, each once, in order.   *)
FramesExact ==
  \A c \in DOMAIN batches :
    batches[c] = FrameRun(ContextStart(layout, c), ContextEnd(layout, c))

(* close and _finish_process: when a delivery is over no FFmpeg child of   *)
(* it is alive, however it ended and whatever the child did, except one    *)
(* that the thread started after the handler had given up waiting for it,  *)
(* and one that the thread has taken from the field and still waits for:   *)
(* for that one the thread lasts longer than the delivery, and it stops it *)
(* before it ends itself.                                                  *)
InHand(child) == thread.at = "end" /\ thread.child = child

NoChildLeft ==
  pc = "idle" => \A child \in DOMAIN ffmpeg :
                   Alive(child) => ffmpeg[child].late \/ InHand(child)

(* _decode_batch_with_timeout: a delivery ends (the next one can begin),   *)
(* unless the child hangs while the thread reads from it.                  *)
Stuck == thread.at = "reading" /\ ffmpeg[thread.child].state = "hung"

DeliveryEnds == pc # "idle" ~> (pc = "idle" \/ Stuck)
=============================================================================
