------------------------------ MODULE Pipeline ------------------------------
(***************************************************************************)
(* One task carried through the workers as they are deployed: one process  *)
(* per worker, each on its own consumer group.  ChunkFlow lets a stream    *)
(* deliver anything at any time; here a group delivers every entry once,   *)
(* in order, unless something goes wrong, and this module shows that it    *)
(* implements ChunkFlow and what the faults do to the whole.  The cut      *)
(* worker is the AutoShot one, which refuses a chunk out of turn.          *)
(*                                                                         *)
(* A group hands a batch to its process (held) and remembers it (pending)  *)
(* until the entry is acknowledged.  With one task the batch is one lane   *)
(* of StreamWorker: its first entry is handled, and retried, before the    *)
(* second.  An entry that a stopped process leaves behind is claimed after *)
(* its idle time, which may be later than the next read.                   *)
(*                                                                         *)
(* Ingest waits for capacity by the window of MaxInflight chunks; the Ray  *)
(* side of it is in FrameStore.  Faults are bounded by MaxFaults.          *)
(***************************************************************************)
EXTENDS TaskRepository, SequencesExt

CONSTANTS
  MaxInflight,   (* max_inflight_chunks_per_task                          *)
  MaxAttempts,   (* stream_max_delivery_attempts                          *)
  MaxFaults

ASSUME PipelineAssumption == /\ MaxInflight \in Nat \ {0}
                             /\ MaxAttempts \in Nat \ {0}
                             /\ MaxFaults \in Nat

VARIABLES
  cut_results,   (* stream: cut worker to the coordinator                 *)
  cut_next,      (* next_chunk_index of the cut worker's durable state    *)
  finalising,    (* what the aggregator that saw the last chunk does next *)
  ingest,        (* where the ingest handler is                           *)
  delivered,     (* per group: how many entries it has handed out         *)
  pending,       (* per group: entries handed out and not acknowledged    *)
  held,          (* per group: the rest of the batch of its process       *)
  attempts,      (* per group: failures of the entry being handled        *)
  faults         (* the faults so far, oldest first                       *)

groupVars  == <<delivered, pending, held, attempts>>
workerVars == <<cut_results, cut_next, finalising, ingest>>
vars == <<repositoryVars, workerVars, groupVars, faults>>

Group == {"cut", "coordinator", "tracking", "aggregator"}

(* The stream that a group reads: chunk indexes.                           *)
Stream(g) == CASE g = "cut"         -> video_chunks
               [] g = "coordinator" -> cut_results
               [] g = "tracking"    -> tracking_jobs
               [] g = "aggregator"  -> tracking_results

Init ==
  /\ RepositoryInit
  /\ cut_results = <<>> /\ cut_next = 0
  /\ finalising = "no" /\ ingest = "decoding"
  /\ delivered = [g \in Group |-> 0]
  /\ pending = [g \in Group |-> {}]
  /\ held = [g \in Group |-> <<>>]
  /\ attempts = [g \in Group |-> [e \in {} |-> 0]]
  /\ faults = <<>>

(* A fault is a call that is retried, a handler that is interrupted, a     *)
(* process that stops or a wait that takes too long.                       *)
Fault(kind) == /\ Len(faults) < MaxFaults
               /\ faults' = Append(faults, kind)

-----------------------------------------------------------------------------
(***************************************************************************)
(* IngestHandler for an uploaded video.  Every restart begins with the     *)
(* same status updates and goes on at the published counter.               *)
(***************************************************************************)
IngestOnly == UNCHANGED <<ingestVars, cutVars, orderVars, doneVars, result,
                          cut_results, cut_next, finalising, groupVars, faults>>

IngestDecodes ==
  /\ ingest = "decoding"
  /\ IF stage \in Terminal \/ ingest_complete
     THEN ingest' = "ended" /\ UNCHANGED statusVars
     ELSE ingest' = "probed" /\ UpdateStatus("decoding", 5, 0)
  /\ IngestOnly

IngestProbes ==
  /\ ingest = "probed"
  /\ UpdateStatus("cut_detection", 8, TotalChunks)
  /\ ingest' = "publish"
  /\ IngestOnly

(* _wait_for_downstream_capacity, then the next chunk.                     *)
HasCapacity == ingest_published_chunks - tracking_completed_chunks < MaxInflight

IngestPublishes ==
  /\ ingest = "publish"
  /\ stage \notin Terminal /\ ingest_published_chunks < TotalChunks
  /\ HasCapacity
  /\ PublishIngestChunkOnce(ingest_published_chunks)
  /\ ingest' = "report"
  /\ UNCHANGED <<cut_results, cut_next, finalising, groupVars, faults>>

IngestProgress == IF ingest_complete
                  THEN 30
                  ELSE 8 + (22 * ingest_published_chunks) \div TotalChunks

IngestReports ==
  /\ ingest = "report"
  /\ UpdateStatus(stage, IngestProgress, 0)
  /\ ingest' = IF ingest_complete THEN "drain" ELSE "publish"
  /\ IngestOnly

IngestGivesUp ==
  /\ ingest = "publish" /\ stage \in Terminal
  /\ ingest' = "ended"
  /\ UNCHANGED statusVars
  /\ IngestOnly

IngestCompletes ==
  /\ ingest = "publish"
  /\ stage \notin Terminal /\ ingest_published_chunks = TotalChunks
  /\ MarkIngestComplete
  /\ ingest' = "report"
  /\ UNCHANGED <<cut_results, cut_next, finalising, groupVars, faults>>

(* _wait_for_downstream_drain.                                             *)
IngestDrains ==
  /\ ingest = "drain"
  /\ stage = "failed" \/ tracking_completed_chunks = TotalChunks
  /\ ingest' = "ended"
  /\ UNCHANGED statusVars
  /\ IngestOnly

IngestNext == \/ IngestDecodes \/ IngestProbes \/ IngestPublishes
              \/ IngestReports \/ IngestGivesUp \/ IngestCompletes
              \/ IngestDrains

(* DownstreamStallError: no chunk was tracked for so long that ingest      *)
(* gives the task up while it waits for capacity or for the drain.         *)
IngestStalls ==
  /\ Fault("stall")
  /\ stage \notin Terminal
  /\ \/ ingest = "publish" /\ ingest_published_chunks < TotalChunks /\ ~HasCapacity
     \/ ingest = "drain" /\ tracking_completed_chunks < TotalChunks
  /\ UpdateStatus("failed", 0, 0)
  /\ ingest' = "ended"
  /\ UNCHANGED <<ingestVars, cutVars, orderVars, doneVars, result,
                 cut_results, cut_next, finalising, groupVars>>

-----------------------------------------------------------------------------
(* The entries that the process of g left behind and has to claim.         *)
Orphans(g) == pending[g] \ ToSet(held[g])

HandOut(g, batch) ==
  /\ held' = [held EXCEPT ![g] = batch]
  /\ UNCHANGED <<repositoryVars, workerVars, attempts>>

(* A batch lists its entries in the order of the stream.                   *)
Ascending(batch) == \A i, j \in DOMAIN batch : i < j => batch[i] < batch[j]

(* claim_stale: any part of the orphans may have been idle long enough.    *)
MutantNeverClaims(g) == FALSE /\ UNCHANGED vars

Claims(g) ==
  /\ held[g] = <<>>
  /\ \E S \in SUBSET Orphans(g) \ {{}} :
       \E batch \in [1..Cardinality(S) -> S] :
         Ascending(batch) /\ HandOut(g, batch)
  /\ UNCHANGED <<delivered, pending, faults>>

(* read_group: everything that is new.                                     *)
NewEntries(g) == delivered[g] + 1..Len(Stream(g))

Delivers(g) ==
  /\ held[g] = <<>> /\ NewEntries(g) # {}
  /\ delivered' = [delivered EXCEPT ![g] = Len(Stream(g))]
  /\ pending' = [pending EXCEPT ![g] = @ \cup NewEntries(g)]

Reads(g) ==
  /\ Delivers(g)
  /\ HandOut(g, Run(delivered[g] + 1, Len(Stream(g)) + 1))
  /\ UNCHANGED faults

(* The entry of g in process, and the chunk it is about.                   *)
Handles(g, e, c) == /\ held[g] # <<>>
                    /\ e = Head(held[g])
                    /\ c = Stream(g)[e]

MutantAckBatch(g) ==
  /\ held' = [held EXCEPT ![g] = Tail(@)]
  /\ pending' = [pending EXCEPT ![g] = @ \ ToSet(held[g])]
  /\ UNCHANGED <<delivered, attempts>>

Ack(g) ==
  /\ held' = [held EXCEPT ![g] = Tail(@)]
  /\ pending' = [pending EXCEPT ![g] = @ \ {Head(held[g])}]
  /\ attempts' = [attempts EXCEPT ![g] = [e \in DOMAIN @ \ {Head(held[g])} |-> @[e]]]
  /\ UNCHANGED delivered

(* After the handler comes the ack; a transient error there runs the       *)
(* handler again.                                                          *)
AckOrRetry(g) ==
  \/ Ack(g) /\ UNCHANGED faults
  \/ Fault("retry") /\ UNCHANGED groupVars

(* A handler that raises anything else is run again until its attempts are *)
(* used up; then the entry is dead-lettered, which fails the task.         *)
Failures(g, e) == IF e \in DOMAIN attempts[g] THEN attempts[g][e] ELSE 0

Refuses(g, e) ==
  /\ IF Failures(g, e) + 1 < MaxAttempts
     THEN /\ attempts' = [attempts EXCEPT ![g] =
                            [x \in DOMAIN @ \cup {e} |->
                               IF x = e THEN Failures(g, e) + 1 ELSE @[x]]]
          /\ UNCHANGED <<delivered, pending, held, statusVars>>
     ELSE Ack(g) /\ UpdateStatus("failed", 0, 0)
  /\ UNCHANGED <<ingestVars, cutVars, orderVars, doneVars, result, workerVars,
                 faults>>

-----------------------------------------------------------------------------
(***************************************************************************)
(* The cut worker stores the result and the state after it in one          *)
(* transaction and publishes then; a stored result is published again.     *)
(***************************************************************************)
CutDetects(e, c) ==
  /\ Handles("cut", e, c)
  /\ c = cut_next
  /\ cut_next' = c + 1
  /\ UNCHANGED <<repositoryVars, cut_results, finalising, ingest, groupVars, faults>>

CutPublishes(e, c) ==
  /\ Handles("cut", e, c)
  /\ c < cut_next
  /\ cut_results' = Append(cut_results, c)
  /\ AckOrRetry("cut")
  /\ UNCHANGED <<repositoryVars, cut_next, finalising, ingest>>

(* The state is that of an earlier chunk, which nobody has claimed yet.    *)
CutRefuses(e, c) ==
  /\ Handles("cut", e, c)
  /\ c > cut_next
  /\ Refuses("cut", e)

CoordinatorRecords(e, c) ==
  /\ Handles("coordinator", e, c)
  /\ RecordCutAndDispatch(c)
  /\ AckOrRetry("coordinator")
  /\ UNCHANGED workerVars

TrackerPublishes(e, c) ==
  /\ Handles("tracking", e, c)
  /\ c <= next_tracking_result_chunk
  /\ PublishTrackingResultInOrder(c)
  /\ AckOrRetry("tracking")
  /\ UNCHANGED workerVars

(* TrackingOrderError.  The actor that a stopped process leaves behind may *)
(* be at a later chunk, or a new one may have been given a later chunk     *)
(* first; it then refuses the next chunk as well (module TrackingWorker).  *)
TrackerRefuses(e, c) ==
  /\ Handles("tracking", e, c)
  /\ \/ c > next_tracking_result_chunk
     \/ c = next_tracking_result_chunk /\ "tracking" \in ToSet(faults)
  /\ Refuses("tracking", e)

(* The aggregator acknowledges at the end of its handler, which for the    *)
(* last chunk comes after the result is saved and the task completed.      *)
AggregatorMarks(e, c) ==
  /\ Handles("aggregator", e, c) /\ finalising = "no"
  /\ MarkChunkTrackingDone(c)
  /\ IF c \in cut_done /\ LastDone(c)
     THEN finalising' = "save" /\ UNCHANGED <<groupVars, faults>>
     ELSE UNCHANGED finalising /\ AckOrRetry("aggregator")
  /\ UNCHANGED <<cut_results, cut_next, ingest>>

MutantSaveForgotten ==
  /\ finalising = "save"
  /\ finalising' = "complete"
  /\ UNCHANGED <<repositoryVars, cut_results, cut_next, ingest, groupVars, faults>>

AggregatorSaves ==
  /\ finalising = "save"
  /\ SaveResult
  /\ finalising' = "complete"
  /\ UNCHANGED <<cut_results, cut_next, ingest, groupVars, faults>>

AggregatorCompletes ==
  /\ finalising = "complete"
  /\ UpdateStatus("completed", 100, 0)
  /\ finalising' = "no"
  /\ AckOrRetry("aggregator")
  /\ UNCHANGED <<ingestVars, cutVars, orderVars, doneVars, result, cut_results,
                 cut_next, ingest>>

(* A call between the mark and the end of the handler raises.  The same    *)
(* process runs the handler again, in place, and the mark is not new.      *)
AggregatorInterrupted ==
  /\ Fault("interrupted")
  /\ finalising # "no"
  /\ finalising' = "no"
  /\ UNCHANGED <<repositoryVars, cut_results, cut_next, ingest, groupVars>>

-----------------------------------------------------------------------------
(* The process of a group stops and is started again.                      *)
Forgets(g) == /\ held' = [held EXCEPT ![g] = <<>>]
              /\ finalising' = IF g = "aggregator" THEN "no" ELSE finalising

Restarts(g) ==
  /\ Fault(g)
  /\ held[g] # <<>>
  /\ Forgets(g)
  /\ UNCHANGED <<repositoryVars, cut_results, cut_next, ingest, delivered, pending,
                 attempts>>

(* The reply to a read is lost; the entries wait in the pending list.      *)
ReplyLost(g) ==
  /\ Fault(g)
  /\ Delivers(g)
  /\ UNCHANGED <<repositoryVars, workerVars, held, attempts>>

(* The ingest process stops; its message is delivered again.               *)
IngestRestarts ==
  /\ Fault("ingest")
  /\ ingest \notin {"decoding", "ended"}
  /\ ingest' = "decoding"
  /\ UNCHANGED <<repositoryVars, cut_results, cut_next, finalising, groupVars>>

-----------------------------------------------------------------------------
Entry(g) == 1..Len(Stream(g))

(* What the process of a group does.                                       *)
Work(g) ==
  \/ Claims(g) \/ Reads(g)
  \/ \E e \in Entry(g), c \in Chunk :
       \/ g = "cut" /\ (CutDetects(e, c) \/ CutPublishes(e, c) \/ CutRefuses(e, c))
       \/ g = "coordinator" /\ CoordinatorRecords(e, c)
       \/ g = "tracking" /\ (TrackerPublishes(e, c) \/ TrackerRefuses(e, c))
       \/ g = "aggregator" /\ AggregatorMarks(e, c)
  \/ g = "aggregator" /\ (AggregatorSaves \/ AggregatorCompletes)

Next == \/ IngestNext \/ IngestStalls \/ IngestRestarts \/ AggregatorInterrupted
        \/ \E g \in Group : Work(g) \/ Restarts(g) \/ ReplyLost(g)

(* Every process is a loop; a stale entry is claimed in the end.           *)
Fairness == WF_vars(IngestNext) /\ \A g \in Group : WF_vars(Work(g))

Spec == Init /\ [][Next]_vars /\ Fairness

-----------------------------------------------------------------------------
(* The type of what this module adds.                                      *)
TypeOK ==
  /\ cut_results \in Seq(Chunk) /\ cut_next \in 0..TotalChunks
  /\ finalising \in {"no", "save", "complete"}
  /\ ingest \in {"decoding", "probed", "publish", "report", "drain", "ended"}
  /\ faults \in Seq(Group \cup {"ingest", "retry", "interrupted", "stall"})
  /\ Len(faults) <= MaxFaults
  /\ \A g \in Group : /\ delivered[g] \in 0..Len(Stream(g))
                      /\ pending[g] \subseteq 1..delivered[g]
                      /\ held[g] \in Seq(pending[g]) /\ Ascending(held[g])

(* No write of any worker is ever based on an entry that the group does    *)
(* not remember: what is not pending has had its effect.  So a stop at any *)
(* point repeats work but loses none.                                      *)
AckedIsDone ==
  \A g \in Group : \A e \in (1..delivered[g]) \ pending[g] :
    LET c == Stream(g)[e]
    IN  stage # "failed" =>
          CASE g = "cut"         -> c \in Entries(cut_results)
            [] g = "coordinator" -> c \in cut_done
            [] g = "tracking"    -> c \in Entries(tracking_results)
            [] g = "aggregator"  -> c \in tracking_done

(* No group has anything left to do.                                       *)
Quiet == \A g \in Group : pending[g] = {} /\ NewEntries(g) = {}

(* Nobody waits for what nobody brings: when no group has an entry left    *)
(* and the task is not at its end, then ingest goes on - the window is     *)
(* open for the next chunk - or every chunk is tracked and the aggregator  *)
(* stopped, or was interrupted and ran again, after it had marked the last *)
(* one.                                                                    *)
NeverStuck ==
  Quiet /\ stage \notin Terminal =>
    \/ /\ tracking_done = Chunk
       /\ ToSet(faults) \cap {"aggregator", "interrupted"} # {}
    \/ ingest \notin {"drain", "ended"} /\ (ingest = "publish" => HasCapacity)

(* Retries everywhere, and stops and lost replies of ingest and of the     *)
(* coordinator, delay the task, but it completes, with its result saved:   *)
(* no worker waits for what another one has lost.  Without a fault of      *)
(* their own, the cut worker and the tracker never refuse a chunk.         *)
Completes ==
  [](ToSet(faults) \cap {"cut", "tracking", "aggregator", "interrupted", "stall"} = {})
    => <>(stage = "completed" /\ result = Chunk)

-----------------------------------------------------------------------------
(* With all these faults the pipeline does what ChunkFlow allows, and so   *)
(* has every property proved of it.                                        *)
Flow == INSTANCE ChunkFlow WITH cut_results <- Entries(cut_results)

ImplementsChunkFlow == Flow!Spec
=============================================================================
