--------------------------- MODULE TaskRepository ---------------------------
(***************************************************************************)
(* The durable state of one video task, and the Lua scripts that are its   *)
(* only writers (backend/app/infrastructure/task_repository.py).           *)
(*                                                                         *)
(* Redis runs a script without interleaving, so each script is one action. *)
(* The variables carry the names of the hash fields they stand for:        *)
(*   - the hash cv:task:<id> gives the scalars (stage, counters, cursors); *)
(*   - a flag field of the hashes cv:chunk:<id>:<index> gives the set of   *)
(*     the chunk indexes whose hash has it;                                *)
(*   - cv:result:<id> gives the chunks the saved result was built from.    *)
(* A stream is the sequence of the chunk indexes appended to it, and is    *)
(* never trimmed here (MAXLEN is outside the model).                       *)
(*                                                                         *)
(* Payload texts, timestamps, messages and TTLs are abstracted away.       *)
(* progress is the percentage rounded down.                                *)
(***************************************************************************)
EXTENDS Integers, Sequences, FiniteSets

CONSTANTS
  TotalChunks,   (* how many chunks FFmpegVideoDecoder.total_chunks reports *)
  UpdateEvery    (* settings.progress_update_every_chunks                  *)

ASSUME TotalChunksAssumption == TotalChunks \in Nat \ {0}
ASSUME UpdateEveryAssumption == UpdateEvery \in Nat \ {0}

VARIABLES
  stage,                       (* the TaskStage of the task               *)
  progress,                    (* percentage shown to the client          *)
  total_chunks,                (* 0 until ingest has probed the video     *)
  ingest_published_chunks,
  ingest_complete,
  cut_completed_chunks,
  next_tracking_chunk,         (* first chunk without a tracking job      *)
  next_tracking_result_chunk,  (* first chunk without a tracking result   *)
  tracking_completed_chunks,
  ingest_published,            (* chunks with ingest_published = '1'      *)
  cut_done,                    (* chunks with a cut result                *)
  tracking_job_payload,        (* chunks whose tracking job is buffered   *)
  tracking_job_dispatched,     (* chunks whose tracking job was XADDed    *)
  tracking_done,               (* chunks with a tracking result           *)
  result,                      (* chunks of the saved result, {} if none  *)
  video_chunks,                (* stream: ingest to the cut worker        *)
  tracking_jobs,               (* stream: coordinator to the tracker      *)
  tracking_results             (* stream: tracker to the aggregator       *)

statusVars == <<stage, progress, total_chunks>>
ingestVars == <<ingest_published_chunks, ingest_complete, ingest_published,
                video_chunks>>
cutVars    == <<cut_completed_chunks, next_tracking_chunk, cut_done,
                tracking_job_payload, tracking_job_dispatched, tracking_jobs>>
orderVars  == <<next_tracking_result_chunk, tracking_results>>
doneVars   == <<tracking_completed_chunks, tracking_done>>
repositoryVars ==
  <<statusVars, ingestVars, cutVars, orderVars, doneVars, result>>

-----------------------------------------------------------------------------
Chunk == 0..(TotalChunks - 1)

Stage == {"queued", "downloading", "decoding", "cut_detection", "tracking",
          "aggregating", "completed", "failed"}

Terminal == {"completed", "failed"}

(* _STAGE_RANK: the order in which a task moves through its stages.        *)
Rank(s) ==
  CASE s = "queued"        -> 0
    [] s = "downloading"   -> 1
    [] s = "decoding"      -> 2
    [] s = "cut_detection" -> 3
    [] s = "tracking"      -> 4
    [] s = "aggregating"   -> 5
    [] s \in Terminal      -> 6

(* The transition table that update_status enforces, in Python and in Lua. *)
Allowed(s) ==
  CASE s = "queued"        -> {"downloading", "decoding", "failed"}
    [] s = "downloading"   -> {"decoding", "failed"}
    [] s = "decoding"      -> {"cut_detection", "failed"}
    [] s = "cut_detection" -> {"tracking", "failed"}
    [] s = "tracking"      -> {"aggregating", "failed"}
    [] s = "aggregating"   -> {"completed", "failed"}
    [] s \in Terminal      -> {}

Larger(a, b)  == IF a > b THEN a ELSE b
Smaller(a, b) == IF a < b THEN a ELSE b

(* The chunk indexes appended to a stream.                                 *)
Entries(stream) == {stream[i] : i \in 1..Len(stream)}

(* The sequence <<from, from + 1, ..., to - 1>>.                           *)
Run(from, to) == [k \in 1..(to - from) |-> from + k - 1]

(* 30 * min(done / total, 1): cut detection and tracking are worth 30      *)
(* percent each.                                                           *)
Share(done) == IF total_chunks > 0
               THEN (30 * Smaller(done, total_chunks)) \div total_chunks
               ELSE 0

RepositoryInit ==
  /\ stage = "queued" /\ progress = 0 /\ total_chunks = 0
  /\ ingest_published_chunks = 0 /\ ingest_complete = FALSE
  /\ cut_completed_chunks = 0 /\ tracking_completed_chunks = 0
  /\ next_tracking_chunk = 0 /\ next_tracking_result_chunk = 0
  /\ ingest_published = {} /\ cut_done = {} /\ tracking_done = {}
  /\ tracking_job_payload = {} /\ tracking_job_dispatched = {}
  /\ result = {}
  /\ video_chunks = <<>> /\ tracking_jobs = <<>> /\ tracking_results = <<>>

-----------------------------------------------------------------------------
(***************************************************************************)
(* update_status.  A caller that names no stage passes the present one.    *)
(* A lower stage is ignored, a stage the table does not allow is refused   *)
(* (ValueError, nothing written), a terminal task is left alone.           *)
(***************************************************************************)
Refused(requested) == /\ requested # stage
                      /\ Rank(requested) >= Rank(stage)
                      /\ requested \notin Allowed(stage)

UpdateStatus(requested, p, total) ==
  IF stage \in Terminal \/ Refused(requested)
  THEN UNCHANGED statusVars
  ELSE /\ stage' = IF requested \in Allowed(stage) THEN requested ELSE stage
       /\ progress' = Larger(progress, p)
       /\ total_chunks' = Larger(total_chunks, total)

-----------------------------------------------------------------------------
(* publish_ingest_chunk_once: nothing happens (FALSE is returned) when the *)
(* chunk was published before.                                             *)
MutantPublishAgain(c) == TRUE

MayPublish(c) == c \notin ingest_published

PublishIngestChunkOnce(c) ==
  /\ IF MayPublish(c)
     THEN /\ ingest_published' = ingest_published \cup {c}
          /\ ingest_published_chunks' = ingest_published_chunks + 1
          /\ video_chunks' = Append(video_chunks, c)
     ELSE UNCHANGED <<ingest_published, ingest_published_chunks, video_chunks>>
  /\ UNCHANGED <<ingest_complete, statusVars, cutVars, orderVars, doneVars,
                 result>>

(* mark_ingest_complete: refused (RuntimeError) while a chunk is missing.  *)
MarkIngestComplete ==
  /\ ingest_published_chunks >= total_chunks
  /\ ingest_complete' = TRUE
  /\ UNCHANGED <<ingest_published_chunks, ingest_published, video_chunks,
                 statusVars, cutVars, orderVars, doneVars, result>>

-----------------------------------------------------------------------------
(***************************************************************************)
(* record_cut_and_dispatch: store one cut result, then XADD the tracking   *)
(* job of every chunk from the cursor up to the first one that has no      *)
(* buffered payload (frontier), passing over a job dispatched before.      *)
(***************************************************************************)
Undispatched(from, to) ==
  IF from..(to - 1) \cap tracking_job_dispatched = {}
  THEN Run(from, to)
  ELSE SelectSeq(Run(from, to), LAMBDA i : i \notin tracking_job_dispatched)

MutantDispatchOne(buffered, f) ==
  f = IF next_tracking_chunk \in buffered
      THEN next_tracking_chunk + 1
      ELSE next_tracking_chunk

MutantSkipGap(buffered, f) == f > 0 => f - 1 \in buffered

Frontier(buffered, f) ==
  /\ next_tracking_chunk..(f - 1) \subseteq buffered
  /\ f \notin buffered

ReportCut(new, count, f) ==
  LET started  == f > 0 /\ stage = "cut_detection"
      reported == \/ started
                  \/ new /\ total_chunks > 0 /\ count >= total_chunks
                  \/ new /\ count % UpdateEvery = 0
  IN  IF reported /\ stage \notin Terminal
      THEN /\ stage' = IF started THEN "tracking" ELSE stage
           /\ progress' = Larger(progress, 30 + Share(count))
           /\ UNCHANGED total_chunks
      ELSE UNCHANGED statusVars

RecordCutAndDispatch(c) ==
  LET new      == c \notin cut_done
      count    == IF new THEN cut_completed_chunks + 1 ELSE cut_completed_chunks
      buffered == tracking_job_payload \cup {c}
  IN  \E f \in next_tracking_chunk..TotalChunks :
        /\ Frontier(buffered, f)
        /\ cut_done' = cut_done \cup {c}
        /\ cut_completed_chunks' = count
        /\ tracking_jobs' = tracking_jobs \o Undispatched(next_tracking_chunk, f)
        /\ tracking_job_dispatched' =
             tracking_job_dispatched \cup next_tracking_chunk..(f - 1)
        /\ tracking_job_payload' = buffered \ next_tracking_chunk..(f - 1)
        /\ next_tracking_chunk' = f
        /\ ReportCut(new, count, f)
        /\ UNCHANGED <<ingestVars, orderVars, doneVars, result>>

-----------------------------------------------------------------------------
(***************************************************************************)
(* publish_tracking_result_in_order: only the chunk at the cursor is       *)
(* appended.  An earlier one was published before (FALSE); a later one is  *)
(* refused (TrackingOrderError).                                           *)
(***************************************************************************)
MutantOutOfOrder(c) == c >= next_tracking_result_chunk

InOrder(c) == c = next_tracking_result_chunk

PublishTrackingResultInOrder(c) ==
  /\ IF InOrder(c)
     THEN /\ next_tracking_result_chunk' = next_tracking_result_chunk + 1
          /\ tracking_results' = Append(tracking_results, c)
     ELSE UNCHANGED orderVars
  /\ UNCHANGED <<statusVars, ingestVars, cutVars, doneVars, result>>

-----------------------------------------------------------------------------
(***************************************************************************)
(* mark_chunk_tracking_done: count one tracking result the first time it   *)
(* is seen; the last one moves the task to aggregating.                    *)
(***************************************************************************)
MutantCountAgain(c) == TRUE

NewlyDone(c) == c \notin tracking_done

(* What the script returns to the aggregator: this call was the first for  *)
(* its chunk, and no chunk is left.                                        *)
MutantLastStrict(c) == /\ NewlyDone(c)
                       /\ tracking_completed_chunks + 1 > total_chunks

LastDone(c) == /\ NewlyDone(c)
               /\ total_chunks > 0
               /\ tracking_completed_chunks + 1 >= total_chunks

MutantReportAfterEnd(c) ==
  IF LastDone(c)
  THEN /\ stage' = "aggregating"
       /\ progress' = 90
       /\ UNCHANGED total_chunks
  ELSE UNCHANGED statusVars

ReportDone(c) ==
  IF /\ NewlyDone(c)
     /\ LastDone(c) \/ (tracking_completed_chunks + 1) % UpdateEvery = 0
     /\ stage \notin Terminal
  THEN /\ stage' = IF LastDone(c) THEN "aggregating" ELSE "tracking"
       /\ progress' =
            Larger(progress, 60 + Share(tracking_completed_chunks + 1))
       /\ UNCHANGED total_chunks
  ELSE UNCHANGED statusVars

MarkChunkTrackingDone(c) ==
  /\ tracking_done' = tracking_done \cup {c}
  /\ tracking_completed_chunks' = IF NewlyDone(c)
                                  THEN tracking_completed_chunks + 1
                                  ELSE tracking_completed_chunks
  /\ ReportDone(c)
  /\ UNCHANGED <<ingestVars, cutVars, orderVars, result>>

(* get_all_chunk_payloads, aggregate_result and save_result: the saved     *)
(* result is built from the chunks that have both outputs.                 *)
SaveResult ==
  /\ result' = {c \in 0..(total_chunks - 1) : c \in cut_done \cap tracking_done}
  /\ UNCHANGED <<statusVars, ingestVars, cutVars, orderVars, doneVars>>
=============================================================================
