------------------------------ MODULE ChunkFlow ------------------------------
(***************************************************************************)
(* One task carried through the five workers, at the level of what the     *)
(* workers write to Redis:                                                 *)
(*                                                                         *)
(*   ingest -> cut -> coordinator -> tracking -> aggregator                *)
(*                                                                         *)
(* A consumer group delivers at least once.  Here a stream delivers any    *)
(* entry it holds, any number of times and in any order: this covers a     *)
(* retry, a redelivery after a crash or a lost reply, a message claimed by *)
(* a second consumer and a worker process restarted between two calls.     *)
(* The detailed consumer groups are in module Pipeline, which implements   *)
(* this one.                                                               *)
(*                                                                         *)
(* Every handler but the aggregator's makes one write, so it is one        *)
(* action.  The aggregator marks the chunk, saves the result and completes *)
(* the task in three calls, and may stop between them.                     *)
(***************************************************************************)
EXTENDS TaskRepository

VARIABLES
  cut_results,   (* stream cut_results: the chunks it holds               *)
  finalising     (* what the aggregator that saw the last chunk does next *)

vars == <<repositoryVars, cut_results, finalising>>

flowVars == <<cut_results, finalising>>

Init == /\ RepositoryInit
        /\ cut_results = {}
        /\ finalising = "no"

-----------------------------------------------------------------------------
(***************************************************************************)
(* IngestHandler.  A delivery that was interrupted starts again from the   *)
(* top, so the early status updates may come at any time; update_status    *)
(* keeps a late one from moving the task back.                             *)
(***************************************************************************)
IngestAdvances ==
  /\ \/ UpdateStatus("downloading", 2, 0)
     \/ UpdateStatus("decoding", 5, 0)
     \/ /\ Rank(stage) >= Rank("decoding")
        /\ UpdateStatus("cut_detection", 8, TotalChunks)
  /\ UNCHANGED <<ingestVars, cutVars, orderVars, doneVars, result, flowVars>>

(* The loop over range(published, total).  A second delivery that read the *)
(* counter earlier offers a chunk that is published already.               *)
IngestPublishes(c) ==
  /\ total_chunks > 0
  /\ c <= ingest_published_chunks
  /\ PublishIngestChunkOnce(c)
  /\ UNCHANGED flowVars

(* 8 + 22 * published / total, and 30 when every chunk is queued.          *)
IngestProgress == IF ingest_complete
                  THEN 30
                  ELSE 8 + (22 * ingest_published_chunks) \div TotalChunks

IngestReports ==
  /\ ingest_published_chunks > 0
  /\ UpdateStatus(stage, IngestProgress, 0)
  /\ UNCHANGED <<ingestVars, cutVars, orderVars, doneVars, result, flowVars>>

IngestCompletes ==
  /\ total_chunks > 0
  /\ MarkIngestComplete
  /\ UNCHANGED flowVars

-----------------------------------------------------------------------------
(* MockCutHandler and the AutoShot worker: one cut result per delivery.    *)
CutDetects(c) ==
  /\ c \in Entries(video_chunks)
  /\ cut_results' = cut_results \cup {c}
  /\ UNCHANGED <<repositoryVars, finalising>>

(* CutCoordinatorHandler.                                                  *)
CoordinatorRecords(c) ==
  /\ c \in cut_results
  /\ RecordCutAndDispatch(c)
  /\ UNCHANGED flowVars

(* MockTrackingHandler and the YOLO-World worker.                          *)
TrackerPublishes(c) ==
  /\ c \in Entries(tracking_jobs)
  /\ PublishTrackingResultInOrder(c)
  /\ UNCHANGED flowVars

-----------------------------------------------------------------------------
(***************************************************************************)
(* AggregationHandler.  Only the call that counted the last chunk goes on  *)
(* to build the result; every other call returns after the mark.           *)
(***************************************************************************)
AggregatorMarks(c) ==
  /\ c \in Entries(tracking_results)
  /\ MarkChunkTrackingDone(c)
  /\ finalising' = IF c \in cut_done /\ LastDone(c) THEN "save" ELSE finalising
  /\ UNCHANGED cut_results

AggregatorSaves ==
  /\ finalising = "save"
  /\ SaveResult
  /\ finalising' = "complete"
  /\ UNCHANGED cut_results

AggregatorCompletes ==
  /\ finalising = "complete"
  /\ UpdateStatus("completed", 100, 0)
  /\ finalising' = "no"
  /\ UNCHANGED <<ingestVars, cutVars, orderVars, doneVars, result, cut_results>>

(* The process stops, or a call of the handler raises: the message is      *)
(* delivered again, but mark_chunk_tracking_done now finds the chunk done. *)
AggregatorInterrupted ==
  /\ finalising # "no"
  /\ finalising' = "no"
  /\ UNCHANGED <<repositoryVars, cut_results>>

(* RedisTaskRepository.fail, called by ingest and by StreamWorker when a   *)
(* message is given up.                                                    *)
TaskFails ==
  /\ UpdateStatus("failed", 0, 0)
  /\ UNCHANGED <<ingestVars, cutVars, orderVars, doneVars, result, flowVars>>

-----------------------------------------------------------------------------
WorkersNext ==
  \/ IngestAdvances \/ IngestReports \/ IngestCompletes
  \/ \E c \in Chunk : \/ IngestPublishes(c)
                      \/ CutDetects(c)
                      \/ CoordinatorRecords(c)
                      \/ TrackerPublishes(c)
                      \/ AggregatorMarks(c)
  \/ AggregatorSaves \/ AggregatorCompletes

Next == WorkersNext \/ AggregatorInterrupted \/ TaskFails

Spec == Init /\ [][Next]_vars

(***************************************************************************)
(* Fairness: every worker is a loop that takes the next deliverable entry, *)
(* and the ingest delivery is retried until it returns.  Nothing is fair   *)
(* about interruptions and failures.                                       *)
(***************************************************************************)
Fairness ==
  /\ WF_vars(IngestAdvances) /\ WF_vars(IngestCompletes)
  /\ \A c \in Chunk : /\ WF_vars(IngestPublishes(c))
                      /\ WF_vars(CutDetects(c))
                      /\ WF_vars(CoordinatorRecords(c))
                      /\ WF_vars(TrackerPublishes(c))
                      /\ WF_vars(AggregatorMarks(c))
  /\ WF_vars(AggregatorSaves) /\ WF_vars(AggregatorCompletes)

(* The aggregator process may be interrupted; nothing else goes wrong.     *)
InterruptedSpec ==
  Init /\ [][WorkersNext \/ AggregatorInterrupted]_vars /\ Fairness

-----------------------------------------------------------------------------
(* The type of every field, cursors and counters within the video.         *)
StatusType == /\ stage \in Stage
              /\ progress \in 0..100
              /\ total_chunks \in {0, TotalChunks}
              /\ finalising \in {"no", "save", "complete"}

CounterType == /\ ingest_complete \in BOOLEAN
               /\ ingest_published_chunks \in 0..TotalChunks
               /\ cut_completed_chunks \in 0..TotalChunks
               /\ tracking_completed_chunks \in 0..TotalChunks
               /\ next_tracking_chunk \in 0..TotalChunks
               /\ next_tracking_result_chunk \in 0..TotalChunks

FlagType == /\ ingest_published \subseteq Chunk
            /\ cut_results \subseteq Chunk
            /\ cut_done \subseteq Chunk
            /\ tracking_job_payload \subseteq Chunk
            /\ tracking_job_dispatched \subseteq Chunk
            /\ tracking_done \subseteq Chunk
            /\ result \subseteq Chunk

StreamType == /\ video_chunks \in Seq(Chunk)
              /\ tracking_jobs \in Seq(Chunk)
              /\ tracking_results \in Seq(Chunk)

TypeOK == StatusType /\ CounterType /\ FlagType /\ StreamType

(* record_cut_and_dispatch: whatever the order and the number of the cut   *)
(* results, the tracking jobs are chunks 0, 1, 2, ... each exactly once.   *)
DispatchInOrder ==
  /\ tracking_jobs = Run(0, next_tracking_chunk)
  /\ tracking_job_dispatched = 0..(next_tracking_chunk - 1)

(* A buffered cut result is never left behind: once the results of all the *)
(* chunks up to c are stored, the job of c is in the stream, although the  *)
(* delivery that filled the last gap may have been of another chunk.       *)
NothingHeldBack ==
  \A c \in Chunk : 0..c \subseteq cut_done => c \in Entries(tracking_jobs)

(* No tracking before cut detection, along the whole flow: a chunk that is *)
(* counted as tracked has a result in the stream, a job before that and a  *)
(* cut result before that.  The aggregator's own check never fires.        *)
CutBeforeTracking ==
  /\ tracking_done \subseteq Entries(tracking_results)
  /\ Entries(tracking_results) \subseteq Entries(tracking_jobs)
  /\ Entries(tracking_jobs) \subseteq cut_done
  /\ cut_done \subseteq ingest_published

(* publish_tracking_result_in_order: results leave in chunk order, once.   *)
ResultsInOrder == tracking_results = Run(0, next_tracking_result_chunk)

(* The counters that backpressure and completion rely on count distinct    *)
(* chunks, however often an entry is delivered.                            *)
CountersExact ==
  /\ ingest_published_chunks = Cardinality(ingest_published)
  /\ cut_completed_chunks = Cardinality(cut_done)
  /\ tracking_completed_chunks = Cardinality(tracking_done)
  /\ ingest_complete => ingest_published = Chunk

(* The stage shown to the client agrees with the durable counters although *)
(* three scripts and two workers write it.                                 *)
StageMatchesWork ==
  stage # "failed" =>
    /\ next_tracking_chunk > 0
         <=> stage \in {"tracking", "aggregating", "completed"}
    /\ tracking_done = Chunk <=> stage \in {"aggregating", "completed"}

(* 90 percent means that every chunk is tracked, 100 that the task is done. *)
ProgressHonest ==
  /\ progress >= 90 => tracking_done = Chunk
  /\ progress = 100 <=> stage = "completed"

(* A saved result covers every chunk of the video, and a completed task    *)
(* has one, so GET /results never serves a partial video.                  *)
CompleteResult ==
  /\ result \in {{}, Chunk}
  /\ stage = "completed" => result = Chunk

(* Every change of stage is one of the table's, also those that the two    *)
(* counting scripts write without asking update_status: no stage is        *)
(* skipped, none is entered twice, completed and failed are final.         *)
StagesFollowTable == [][stage' # stage => stage' \in Allowed(stage)]_vars

(* REAL_MODEL_LIFECYCLE.md, section 4: a message that was interrupted      *)
(* resumes from the durable counters, and final aggregation is idempotent. *)
(* So a task whose chunks are all tracked is eventually finished.          *)
FinalisationResumes == tracking_done = Chunk ~> stage \in Terminal

-----------------------------------------------------------------------------
(* What record_cut_and_dispatch promises: a resequencer of the cut results. *)
Order == INSTANCE Resequencer
           WITH Size <- TotalChunks, arrived <- cut_done,
                released <- tracking_jobs

ImplementsResequencer == Order!Spec
=============================================================================
