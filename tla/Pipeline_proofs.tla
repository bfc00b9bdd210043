--------------------------- MODULE Pipeline_proofs ---------------------------
(***************************************************************************)
(* The deployed pipeline implements ChunkFlow for a video of any length,   *)
(* any window, any number of attempts and any faults, and so has every     *)
(* property that ChunkFlow_proofs proves.  With these it is then proved    *)
(* that no consumer group forgets an entry before it has had its effect,   *)
(* and that the workers never all wait for one another.                    *)
(*                                                                         *)
(* The state of ChunkFlow is that of Pipeline without the groups, with     *)
(* cut_results as the set of what is in the stream.                        *)
(***************************************************************************)
EXTENDS Pipeline, FiniteSetTheorems, SequenceTheorems, TLAPS

F == INSTANCE ChunkFlow_proofs WITH cut_results <- Entries(cut_results)

(* The two instances of ChunkFlow, with and without its proofs, are one.   *)
LEMMA SameFlow == (Flow!Init <=> F!Init) /\ ([Flow!Next]_Flow!vars <=> [F!Next]_F!vars)
<1>1. Flow!Init <=> F!Init
  BY Zenon DEF F!Init, Flow!Init, F!RepositoryInit, Flow!RepositoryInit
<1>2. Flow!vars = F!vars
  BY Zenon DEF F!vars, Flow!vars, F!repositoryVars, Flow!repositoryVars, F!statusVars,
      Flow!statusVars, F!ingestVars, Flow!ingestVars, F!cutVars, Flow!cutVars,
      F!orderVars, Flow!orderVars, F!doneVars, Flow!doneVars
<1>3. (UNCHANGED Flow!vars) <=> (UNCHANGED F!vars)
  BY Zenon DEF F!vars, Flow!vars, F!repositoryVars, Flow!repositoryVars, F!statusVars,
      Flow!statusVars, F!ingestVars, Flow!ingestVars, F!cutVars, Flow!cutVars,
      F!orderVars, Flow!orderVars, F!doneVars, Flow!doneVars
<1>4. Flow!Next <=> F!Next
  BY Zenon DEF F!statusVars, Flow!statusVars, F!ingestVars, Flow!ingestVars, F!cutVars,
      Flow!cutVars, F!orderVars, Flow!orderVars, F!doneVars, Flow!doneVars,
      F!repositoryVars, Flow!repositoryVars, F!Chunk, Flow!Chunk, F!Terminal,
      Flow!Terminal, F!Rank, Flow!Rank, F!Allowed, Flow!Allowed, F!Larger,
      Flow!Larger, F!Smaller, Flow!Smaller, F!Entries, Flow!Entries, F!Run, Flow!Run,
      F!Share, Flow!Share, F!RepositoryInit, Flow!RepositoryInit, F!Refused,
      Flow!Refused, F!UpdateStatus, Flow!UpdateStatus, F!MayPublish, Flow!MayPublish,
      F!PublishIngestChunkOnce, Flow!PublishIngestChunkOnce, F!MarkIngestComplete,
      Flow!MarkIngestComplete, F!Undispatched, Flow!Undispatched, F!Frontier,
      Flow!Frontier, F!ReportCut, Flow!ReportCut, F!RecordCutAndDispatch,
      Flow!RecordCutAndDispatch, F!InOrder, Flow!InOrder,
      F!PublishTrackingResultInOrder, Flow!PublishTrackingResultInOrder, F!NewlyDone,
      Flow!NewlyDone, F!LastDone, Flow!LastDone, F!ReportDone, Flow!ReportDone,
      F!MarkChunkTrackingDone, Flow!MarkChunkTrackingDone, F!SaveResult,
      Flow!SaveResult, F!vars, Flow!vars, F!flowVars, Flow!flowVars, F!Init,
      Flow!Init, F!IngestAdvances, Flow!IngestAdvances, F!IngestPublishes,
      Flow!IngestPublishes, F!IngestProgress, Flow!IngestProgress, F!IngestReports,
      Flow!IngestReports, F!IngestCompletes, Flow!IngestCompletes, F!CutDetects,
      Flow!CutDetects, F!CoordinatorRecords, Flow!CoordinatorRecords,
      F!TrackerPublishes, Flow!TrackerPublishes, F!AggregatorMarks,
      Flow!AggregatorMarks, F!AggregatorSaves, Flow!AggregatorSaves,
      F!AggregatorCompletes, Flow!AggregatorCompletes, F!AggregatorInterrupted,
      Flow!AggregatorInterrupted, F!TaskFails, Flow!TaskFails, F!WorkersNext,
      Flow!WorkersNext, F!Next, Flow!Next
<1> QED BY Zenon, <1>1, <1>3, <1>4

(* ChunkFlow runs the same scripts.                                        *)
LEMMA SameUpdate ==
  ASSUME NEW s, NEW p, NEW t
  PROVE  Flow!UpdateStatus(s, p, t) <=> UpdateStatus(s, p, t)
BY Zenon DEF Flow!UpdateStatus, UpdateStatus, Flow!Refused, Refused, Flow!Terminal, Terminal,
      Flow!Rank, Rank, Flow!Allowed, Allowed, Flow!Larger, Larger, Flow!statusVars,
      statusVars

LEMMA SameScripts ==
  /\ Flow!MarkIngestComplete <=> MarkIngestComplete
  /\ Flow!SaveResult <=> SaveResult
  /\ \A c : /\ Flow!PublishIngestChunkOnce(c) <=> PublishIngestChunkOnce(c)
            /\ Flow!RecordCutAndDispatch(c) <=> RecordCutAndDispatch(c)
            /\ Flow!PublishTrackingResultInOrder(c) <=> PublishTrackingResultInOrder(c)
            /\ Flow!MarkChunkTrackingDone(c) <=> MarkChunkTrackingDone(c)
            /\ Flow!LastDone(c) <=> LastDone(c)
<1>1. (Flow!MarkIngestComplete <=> MarkIngestComplete) /\ (Flow!SaveResult <=> SaveResult)
  BY Zenon DEF Flow!MarkIngestComplete, MarkIngestComplete, Flow!SaveResult, SaveResult,
      Flow!statusVars, statusVars, Flow!ingestVars, ingestVars, Flow!cutVars, cutVars,
      Flow!orderVars, orderVars, Flow!doneVars, doneVars
<1>2. ASSUME NEW c
      PROVE  /\ Flow!PublishIngestChunkOnce(c) <=> PublishIngestChunkOnce(c)
             /\ Flow!PublishTrackingResultInOrder(c) <=> PublishTrackingResultInOrder(c)
  BY Zenon DEF Flow!PublishIngestChunkOnce, PublishIngestChunkOnce, Flow!MayPublish,
      MayPublish, Flow!PublishTrackingResultInOrder, PublishTrackingResultInOrder,
      Flow!InOrder, InOrder, Flow!statusVars, statusVars, Flow!ingestVars, ingestVars,
      Flow!cutVars, cutVars, Flow!orderVars, orderVars, Flow!doneVars, doneVars
<1>3. ASSUME NEW c PROVE Flow!RecordCutAndDispatch(c) <=> RecordCutAndDispatch(c)
  BY Zenon DEF Flow!RecordCutAndDispatch, RecordCutAndDispatch, Flow!Frontier, Frontier,
      Flow!Undispatched, Undispatched, Flow!Run, Run, Flow!ReportCut, ReportCut,
      Flow!Terminal, Terminal, Flow!Larger, Larger, Flow!Smaller, Smaller, Flow!Share,
      Share, Flow!statusVars, statusVars, Flow!ingestVars, ingestVars, Flow!cutVars,
      cutVars, Flow!orderVars, orderVars, Flow!doneVars, doneVars
<1>4. ASSUME NEW c
      PROVE  /\ Flow!MarkChunkTrackingDone(c) <=> MarkChunkTrackingDone(c)
             /\ Flow!LastDone(c) <=> LastDone(c)
  BY Zenon DEF Flow!MarkChunkTrackingDone, MarkChunkTrackingDone, Flow!NewlyDone, NewlyDone,
      Flow!LastDone, LastDone, Flow!ReportDone, ReportDone, Flow!Terminal, Terminal,
      Flow!Larger, Larger, Flow!Smaller, Smaller, Flow!Share, Share, Flow!statusVars,
      statusVars, Flow!ingestVars, ingestVars, Flow!cutVars, cutVars, Flow!orderVars,
      orderVars, Flow!doneVars, doneVars
<1> QED BY <1>1, <1>2, <1>3, <1>4

(* A step that leaves the repository, the stream of cut results and the    *)
(* aggregator alone is not seen in ChunkFlow.                              *)
LEMMA Unseen ==
  ASSUME UNCHANGED <<repositoryVars, cut_results, finalising>>
  PROVE  UNCHANGED Flow!vars
BY DEF Flow!repositoryVars, repositoryVars, Flow!statusVars, statusVars,
      Flow!ingestVars, ingestVars, Flow!cutVars, cutVars, Flow!orderVars, orderVars,
      Flow!doneVars, doneVars, Flow!Entries, Entries, Flow!vars

LEMMA RestUnseen ==
  /\ UNCHANGED <<ingestVars, cutVars, orderVars, doneVars, result, cut_results, finalising>>
       => UNCHANGED <<Flow!ingestVars, Flow!cutVars, Flow!orderVars, Flow!doneVars,
                      result, Flow!flowVars>>
  /\ UNCHANGED <<cut_results, finalising>> => UNCHANGED Flow!flowVars
BY DEF Flow!ingestVars, ingestVars, Flow!cutVars, cutVars, Flow!orderVars, orderVars,
      Flow!doneVars, doneVars, Flow!flowVars, Entries, Flow!Entries

-----------------------------------------------------------------------------
(* Where the ingest handler can be, for the stage and the counter, and how *)
(* far the cut worker is.                                                  *)
IngestInv ==
  /\ cut_results \in Seq(Chunk) /\ cut_next \in 0..TotalChunks
  /\ Entries(cut_results) \subseteq 0..(cut_next - 1)
  /\ ingest \in {"probed", "publish", "report"} => stage \notin {"queued", "downloading"}
  /\ ingest \in {"publish", "report"} => stage # "decoding"
  /\ ingest = "report" => ingest_published_chunks > 0

(* Every step of the ingest handler is one of ChunkFlow's or is not seen.  *)
LEMMA IngestImplements ==
  ASSUME F!IndInv, IngestInv, IngestNext
  PROVE  [Flow!Next]_Flow!vars
<1>1. CASE IngestDecodes
  <2>1. CASE UpdateStatus("decoding", 5, 0)
    <3>1. Flow!IngestAdvances
      BY <1>1, <2>1, SameUpdate, RestUnseen DEF IngestDecodes, IngestOnly, Flow!IngestAdvances
    <3> QED BY <3>1 DEF Flow!Next, Flow!WorkersNext
  <2>2. CASE UNCHANGED statusVars
    BY <1>1, <2>2, Unseen DEF IngestDecodes, IngestOnly, repositoryVars
  <2> QED BY <1>1, <2>1, <2>2 DEF IngestDecodes
<1>2. CASE IngestProbes
  <2>1. stage \in Stage /\ stage \notin {"queued", "downloading"}
    BY <1>2 DEF IngestProbes, IngestInv, F!IndInv, F!TypeOK, F!StatusType, F!Stage, Stage
  <2>2. Flow!Rank(stage) >= Flow!Rank("decoding")
    BY <2>1 DEF Flow!Rank, Flow!Terminal, Stage
  <2>3. Flow!IngestAdvances
    BY <1>2, <2>2, SameUpdate, RestUnseen DEF IngestProbes, IngestOnly, Flow!IngestAdvances
  <2> QED BY <2>3 DEF Flow!Next, Flow!WorkersNext
<1>3. CASE IngestPublishes
  <2> DEFINE c == ingest_published_chunks
  <2>1. c \in Chunk /\ total_chunks > 0
    BY <1>3, TotalChunksAssumption
    DEF IngestPublishes, IngestInv, F!IndInv, F!TypeOK, F!StatusType, F!CounterType,
        F!StatusInv, Terminal, Chunk, F!Stage
  <2>2. Flow!IngestPublishes(c)
    <3>1. PublishIngestChunkOnce(c) /\ UNCHANGED <<cut_results, finalising>>
      BY <1>3 DEF IngestPublishes
    <3>2. Flow!PublishIngestChunkOnce(c) /\ UNCHANGED Flow!flowVars
      BY <3>1, SameScripts, RestUnseen
    <3>3. c <= ingest_published_chunks
      BY <2>1 DEF Chunk
    <3> HIDE DEF c
    <3> QED BY <2>1, <3>2, <3>3 DEF Flow!IngestPublishes
  <2>3. c \in Flow!Chunk
    BY <2>1 DEF Chunk, Flow!Chunk
  <2> QED BY <2>2, <2>3 DEF Flow!Next, Flow!WorkersNext
<1>4. CASE IngestReports
  <2>1. Flow!IngestProgress = IngestProgress
    BY DEF Flow!IngestProgress, IngestProgress
  <2>2. Flow!IngestReports
    BY <1>4, <2>1, SameUpdate, RestUnseen
    DEF IngestReports, IngestOnly, Flow!IngestReports, IngestInv
  <2> QED BY <2>2 DEF Flow!Next, Flow!WorkersNext
<1>5. CASE IngestGivesUp
  BY <1>5, Unseen DEF IngestGivesUp, IngestOnly, repositoryVars
<1>6. CASE IngestCompletes
  <2>1. total_chunks > 0
    BY <1>6, TotalChunksAssumption
    DEF IngestCompletes, IngestInv, F!IndInv, F!TypeOK, F!StatusType, F!StatusInv,
        Terminal
  <2>2. Flow!IngestCompletes
    BY <1>6, <2>1, SameScripts, RestUnseen DEF IngestCompletes, Flow!IngestCompletes
  <2> QED BY <2>2 DEF Flow!Next, Flow!WorkersNext
<1>7. CASE IngestDrains
  BY <1>7, Unseen DEF IngestDrains, IngestOnly, repositoryVars
<1> QED BY <1>1, <1>2, <1>3, <1>4, <1>5, <1>6, <1>7 DEF IngestNext

(* A handler that raises is not seen until it fails the task.              *)
LEMMA RefusalImplements ==
  ASSUME NEW g, NEW e, Refuses(g, e)
  PROVE  [Flow!Next]_Flow!vars
<1>1. CASE UNCHANGED statusVars
  BY <1>1, Unseen DEF Refuses, workerVars, repositoryVars
<1>2. CASE UpdateStatus("failed", 0, 0)
  <2>1. Flow!TaskFails
    BY <1>2, SameUpdate, RestUnseen DEF Refuses, workerVars, Flow!TaskFails
  <2> QED BY <2>1 DEF Flow!Next
<1> QED BY <1>1, <1>2 DEF Refuses

(* So is every step of the other workers.                                  *)
LEMMA WorkImplements ==
  ASSUME F!IndInv, IngestInv, NEW g \in Group, Work(g)
  PROVE  [Flow!Next]_Flow!vars
<1>1. ASSUME Claims(g) \/ Reads(g) PROVE UNCHANGED Flow!vars
  BY <1>1, Unseen DEF Claims, Reads, HandOut, workerVars
<1>2. ASSUME NEW e \in Entry(g), NEW c \in Chunk,
             \/ g = "cut" /\ (CutDetects(e, c) \/ CutPublishes(e, c) \/ CutRefuses(e, c))
             \/ g = "coordinator" /\ CoordinatorRecords(e, c)
             \/ g = "tracking" /\ (TrackerPublishes(e, c) \/ TrackerRefuses(e, c))
             \/ g = "aggregator" /\ AggregatorMarks(e, c)
      PROVE  [Flow!Next]_Flow!vars
  <2>0. c \in Flow!Chunk
    BY DEF Chunk, Flow!Chunk
  <2>1. CASE g = "cut" /\ CutPublishes(e, c)
    <3>1. c \in Flow!Entries(video_chunks)
      BY <2>1 DEF CutPublishes, Handles, Stream, Entry, Flow!Entries
    <3>2. Entries(cut_results') = Entries(cut_results) \cup {c}
      BY <2>1 DEF CutPublishes, IngestInv, Entries
    <3>3. Flow!CutDetects(c)
      BY <2>1, <3>1, <3>2
      DEF CutPublishes, Flow!CutDetects, Entries, repositoryVars, Flow!repositoryVars,
          Flow!statusVars, statusVars, Flow!ingestVars, ingestVars, Flow!cutVars, cutVars,
          Flow!orderVars, orderVars, Flow!doneVars, doneVars
    <3> QED BY <2>0, <3>3 DEF Flow!Next, Flow!WorkersNext
  <2>2. CASE g = "coordinator" /\ CoordinatorRecords(e, c)
    <3>1. c \in Entries(cut_results)
      BY <2>2 DEF CoordinatorRecords, Handles, Stream, Entry, Entries
    <3>2. Flow!CoordinatorRecords(c)
      BY <2>2, <3>1, SameScripts, RestUnseen
      DEF CoordinatorRecords, Flow!CoordinatorRecords, workerVars
    <3> QED BY <2>0, <3>2 DEF Flow!Next, Flow!WorkersNext
  <2>3. CASE g = "tracking" /\ TrackerPublishes(e, c)
    <3>1. c \in Flow!Entries(tracking_jobs)
      BY <2>3 DEF TrackerPublishes, Handles, Stream, Entry, Flow!Entries
    <3>2. Flow!TrackerPublishes(c)
      BY <2>3, <3>1, SameScripts, RestUnseen
      DEF TrackerPublishes, Flow!TrackerPublishes, workerVars
    <3> QED BY <2>0, <3>2 DEF Flow!Next, Flow!WorkersNext
  <2>4. CASE TrackerRefuses(e, c) \/ CutRefuses(e, c)
    BY <2>4, RefusalImplements DEF TrackerRefuses, CutRefuses
  <2>6. CASE CutDetects(e, c)
    BY <2>6, Unseen DEF CutDetects
  <2>5. CASE g = "aggregator" /\ AggregatorMarks(e, c)
    <3>1. c \in Flow!Entries(tracking_results)
      BY <2>5 DEF AggregatorMarks, Handles, Stream, Entry, Flow!Entries
    <3>2. finalising' = IF c \in cut_done /\ LastDone(c) THEN "save" ELSE finalising
      BY <2>5 DEF AggregatorMarks
    <3>3. Flow!LastDone(c) <=> LastDone(c)
      BY SameScripts
    <3>4. Flow!MarkChunkTrackingDone(c) /\ UNCHANGED cut_results
      BY <2>5, SameScripts DEF AggregatorMarks
    <3>5. Flow!AggregatorMarks(c)
      BY <3>1, <3>2, <3>3, <3>4 DEF Flow!AggregatorMarks, Entries
    <3> QED BY <2>0, <3>5 DEF Flow!Next, Flow!WorkersNext
  <2> QED BY <1>2, <2>1, <2>2, <2>3, <2>4, <2>5, <2>6
<1>3. ASSUME AggregatorSaves PROVE [Flow!Next]_Flow!vars
  <2>1. Flow!AggregatorSaves
    BY <1>3, SameScripts DEF AggregatorSaves, Flow!AggregatorSaves, Entries
  <2> QED BY <2>1 DEF Flow!Next, Flow!WorkersNext
<1>4. ASSUME AggregatorCompletes PROVE [Flow!Next]_Flow!vars
  <2>1. Flow!AggregatorCompletes
    BY <1>4, SameUpdate
    DEF AggregatorCompletes, Flow!AggregatorCompletes, Entries, Flow!ingestVars, ingestVars,
        Flow!cutVars, cutVars, Flow!orderVars, orderVars, Flow!doneVars, doneVars
  <2> QED BY <2>1 DEF Flow!Next, Flow!WorkersNext
<1> QED BY <1>1, <1>2, <1>3, <1>4 DEF Work

(* Faults are seen when they interrupt the aggregator or fail the task.    *)
LEMMA InterruptionImplements ==
  ASSUME finalising # "no", finalising' = "no", UNCHANGED <<repositoryVars, cut_results>>
  PROVE  [Flow!Next]_Flow!vars
<1>1. Flow!AggregatorInterrupted
  BY DEF Flow!AggregatorInterrupted, Entries, repositoryVars,
      Flow!repositoryVars, Flow!statusVars, statusVars, Flow!ingestVars, ingestVars,
      Flow!cutVars, cutVars, Flow!orderVars, orderVars, Flow!doneVars, doneVars
<1> QED BY <1>1 DEF Flow!Next

LEMMA FaultImplements ==
  ASSUME NEW g \in Group, Restarts(g) \/ ReplyLost(g) \/ IngestRestarts
  PROVE  [Flow!Next]_Flow!vars
<1>1. CASE ReplyLost(g) \/ IngestRestarts
  BY <1>1, Unseen DEF ReplyLost, IngestRestarts, workerVars
<1>2. CASE Restarts(g)
  <2>1. CASE finalising' = finalising
    BY <1>2, <2>1, Unseen DEF Restarts
  <2>2. CASE finalising # "no" /\ finalising' = "no"
    BY <1>2, <2>2, InterruptionImplements DEF Restarts
  <2> QED BY <1>2, <2>1, <2>2 DEF Restarts, Forgets
<1> QED BY <1>1, <1>2

LEMMA ErrorImplements ==
  ASSUME IngestStalls \/ AggregatorInterrupted
  PROVE  [Flow!Next]_Flow!vars
<1>1. CASE IngestStalls
  <2>1. Flow!TaskFails
    BY <1>1, SameUpdate, RestUnseen DEF IngestStalls, Flow!TaskFails
  <2> QED BY <2>1 DEF Flow!Next
<1>2. CASE AggregatorInterrupted
  BY <1>2, InterruptionImplements DEF AggregatorInterrupted
<1> QED BY <1>1, <1>2

(* One step of the pipeline is one step of ChunkFlow or none.              *)
LEMMA StepImplements ==
  ASSUME F!IndInv, IngestInv, [Next]_vars
  PROVE  [Flow!Next]_Flow!vars
<1>1. CASE UNCHANGED vars
  BY <1>1, Unseen DEF vars, workerVars
<1>2. CASE IngestRestarts
  BY <1>2, FaultImplements DEF Group
<1> QED BY <1>1, <1>2, IngestImplements, WorkImplements, FaultImplements,
       ErrorImplements DEF Next

-----------------------------------------------------------------------------
(* The stage never comes back to an early one.                             *)
LEMMA StageAdvances ==
  ASSUME F!IndInv, [F!Next]_F!vars
  PROVE  /\ stage \notin {"queued", "downloading"} => stage' \notin {"queued", "downloading"}
         /\ stage \notin {"queued", "downloading", "decoding"}
              => stage' \notin {"queued", "downloading", "decoding"}
<1>1. stage' # stage => stage' \in F!Allowed(stage)
  BY F!StepFollowsTable, TotalChunksAssumption, UpdateEveryAssumption
<1>2. stage \in F!Stage
  BY DEF F!IndInv, F!TypeOK, F!StatusType
<1> QED BY <1>1, <1>2 DEF F!Allowed, F!Stage, F!Terminal

(* Only the ingest handler moves itself, and only it publishes.            *)
LEMMA IngestAlone ==
  ASSUME Next, ~IngestNext, ~IngestRestarts, ~IngestStalls
  PROVE  UNCHANGED <<ingest, ingestVars>>
<1>0. CASE AggregatorInterrupted
  BY <1>0 DEF AggregatorInterrupted, repositoryVars
<1> SUFFICES ASSUME ~AggregatorInterrupted PROVE UNCHANGED <<ingest, ingestVars>>
  BY <1>0
<1> PICK g \in Group : Work(g) \/ Restarts(g) \/ ReplyLost(g)
  BY DEF Next
<1>1. CASE Claims(g) \/ Reads(g) \/ Restarts(g) \/ ReplyLost(g)
  BY <1>1 DEF Claims, Reads, HandOut, Restarts, ReplyLost, repositoryVars, workerVars
<1>2. ASSUME NEW e, NEW c, CutDetects(e, c) \/ CutPublishes(e, c) \/ CutRefuses(e, c)
      PROVE  UNCHANGED <<ingest, ingestVars>>
  BY <1>2 DEF CutDetects, CutPublishes, CutRefuses, Refuses, repositoryVars, workerVars
<1>3. ASSUME NEW e, NEW c, CoordinatorRecords(e, c) PROVE UNCHANGED <<ingest, ingestVars>>
  BY <1>3 DEF CoordinatorRecords, RecordCutAndDispatch, workerVars
<1>4. ASSUME NEW e, NEW c, TrackerPublishes(e, c) PROVE UNCHANGED <<ingest, ingestVars>>
  BY <1>4 DEF TrackerPublishes, PublishTrackingResultInOrder, workerVars
<1>5. ASSUME NEW e, NEW c, TrackerRefuses(e, c) PROVE UNCHANGED <<ingest, ingestVars>>
  BY <1>5 DEF TrackerRefuses, Refuses, workerVars
<1>6. ASSUME NEW e, NEW c, AggregatorMarks(e, c) PROVE UNCHANGED <<ingest, ingestVars>>
  BY <1>6 DEF AggregatorMarks, MarkChunkTrackingDone
<1>7. CASE AggregatorSaves \/ AggregatorCompletes
  BY <1>7 DEF AggregatorSaves, SaveResult, AggregatorCompletes
<1> QED BY <1>1, <1>2, <1>3, <1>4, <1>5, <1>6, <1>7 DEF Work

(* Only the cut worker writes cut results and its state.                   *)
CutSteps == \/ UNCHANGED <<cut_results, cut_next>>
            \/ \E e \in Entry("cut"), c \in Chunk : CutDetects(e, c) \/ CutPublishes(e, c)

LEMMA CutAlone ==
  ASSUME Next
  PROVE  CutSteps
<1>1. CASE IngestNext \/ IngestRestarts \/ IngestStalls \/ AggregatorInterrupted
  BY <1>1 DEF IngestNext, IngestDecodes, IngestProbes, IngestPublishes, IngestReports,
      IngestGivesUp, IngestCompletes, IngestDrains, IngestOnly, IngestRestarts,
      IngestStalls, AggregatorInterrupted, CutSteps
<1>2. ASSUME NEW g \in Group, Work(g) \/ Restarts(g) \/ ReplyLost(g)
      PROVE  CutSteps
  <2>1. CASE Claims(g) \/ Reads(g) \/ Restarts(g) \/ ReplyLost(g)
    BY <2>1 DEF Claims, Reads, HandOut, Restarts, ReplyLost, workerVars, CutSteps
  <2>2. ASSUME NEW e, NEW c, \/ CoordinatorRecords(e, c) \/ TrackerPublishes(e, c)
                             \/ TrackerRefuses(e, c) \/ CutRefuses(e, c)
        PROVE  UNCHANGED <<cut_results, cut_next>>
    BY <2>2 DEF CoordinatorRecords, TrackerPublishes, TrackerRefuses, CutRefuses, Refuses,
       workerVars
  <2>3. ASSUME NEW e, NEW c, AggregatorMarks(e, c) PROVE UNCHANGED <<cut_results, cut_next>>
    BY <2>3 DEF AggregatorMarks
  <2>4. CASE AggregatorSaves \/ AggregatorCompletes
    BY <2>4 DEF AggregatorSaves, AggregatorCompletes, CutSteps
  <2>5. ASSUME NEW e \in Entry(g), NEW c \in Chunk, g = "cut",
               CutDetects(e, c) \/ CutPublishes(e, c)
        PROVE  CutSteps
    BY <2>5 DEF CutSteps
  <2>6. CASE UNCHANGED <<cut_results, cut_next>>
    BY <2>6 DEF CutSteps
  <2> QED BY <1>2, <2>1, <2>2, <2>3, <2>4, <2>5, <2>6 DEF Work
<1> QED BY <1>1, <1>2 DEF Next

(* It publishes what it has detected.                                      *)
LEMMA CutGoesOn ==
  ASSUME IngestInv, [Next]_vars
  PROVE  /\ cut_results' \in Seq(Chunk) /\ cut_next' \in 0..TotalChunks
         /\ Entries(cut_results') \subseteq 0..(cut_next' - 1)
         /\ cut_next <= cut_next'
<1> USE TotalChunksAssumption
<1>0. /\ cut_results \in Seq(Chunk) /\ cut_next \in 0..TotalChunks
      /\ Entries(cut_results) \subseteq 0..(cut_next - 1)
  BY DEF IngestInv
<1>1. CASE UNCHANGED <<cut_results, cut_next>>
  BY <1>0, <1>1 DEF Entries
<1>2. ASSUME NEW e, NEW c \in Chunk, CutDetects(e, c)
      PROVE  /\ cut_results' = cut_results /\ cut_next' \in 0..TotalChunks
             /\ cut_next' = cut_next + 1
  BY <1>0, <1>2 DEF CutDetects, Chunk
<1>3. ASSUME NEW e, NEW c \in Chunk, CutDetects(e, c)
      PROVE  Entries(cut_results') \subseteq 0..(cut_next' - 1)
  <2>1. Entries(cut_results') = Entries(cut_results)
    BY <1>2, <1>3 DEF Entries
  <2>2. 0..(cut_next - 1) \subseteq 0..(cut_next' - 1)
    BY <1>0, <1>2, <1>3
  <2> QED BY <1>0, <2>1, <2>2
<1>4. ASSUME NEW e, NEW c \in Chunk, CutPublishes(e, c)
      PROVE  /\ cut_results' \in Seq(Chunk) /\ cut_next' = cut_next
             /\ Entries(cut_results') = Entries(cut_results) \cup {c}
             /\ c \in 0..(cut_next - 1)
  BY <1>0, <1>4 DEF CutPublishes, Entries, Chunk
<1>5. \/ UNCHANGED <<cut_results, cut_next>>
      \/ \E e \in Entry("cut"), c \in Chunk : CutDetects(e, c) \/ CutPublishes(e, c)
  BY CutAlone DEF CutSteps, vars, workerVars
<1> QED BY <1>0, <1>1, <1>2, <1>3, <1>4, <1>5

LEMMA NextIngestInv ==
  ASSUME F!IndInv, IngestInv, [Next]_vars
  PROVE  IngestInv'
<1> USE TotalChunksAssumption
<1>1. /\ stage \notin {"queued", "downloading"} => stage' \notin {"queued", "downloading"}
      /\ stage \notin {"queued", "downloading", "decoding"}
           => stage' \notin {"queued", "downloading", "decoding"}
  BY StepImplements, SameFlow, StageAdvances
<1>2. /\ cut_results' \in Seq(Chunk) /\ cut_next' \in 0..TotalChunks
      /\ Entries(cut_results)' \subseteq 0..(cut_next' - 1)
  BY CutGoesOn DEF Entries
<1>3. CASE UNCHANGED <<ingest, ingestVars>>
  BY <1>1, <1>2, <1>3 DEF IngestInv, ingestVars
<1>4. CASE IngestDecodes
  <2>1. stage \in F!Stage
    BY DEF F!IndInv, F!TypeOK, F!StatusType
  <2>2. CASE stage \in Terminal \/ ingest_complete
    BY <1>2, <1>4, <2>2 DEF IngestDecodes, IngestInv
  <2>3. CASE ~(stage \in Terminal \/ ingest_complete)
    <3>1. ingest' = "probed" /\ UpdateStatus("decoding", 5, 0)
      BY <1>4, <2>3 DEF IngestDecodes
    <3>2. stage' \notin {"queued", "downloading"}
      <4>1. CASE stage \in {"queued", "downloading"}
        BY <3>1, <4>1 DEF UpdateStatus, Refused, Rank, Allowed, Terminal
      <4> QED BY <1>1, <4>1
    <3> QED BY <1>2, <3>1, <3>2 DEF IngestInv
  <2> QED BY <2>2, <2>3
<1>5. CASE IngestProbes
  <2>1. ingest' = "publish" /\ UpdateStatus("cut_detection", 8, TotalChunks)
        /\ stage \notin {"queued", "downloading"}
    BY <1>5 DEF IngestProbes, IngestInv
  <2>2. stage' # "decoding"
    <3>1. CASE stage = "decoding"
      BY <2>1, <3>1 DEF UpdateStatus, Refused, Rank, Allowed, Terminal
    <3>2. stage \in F!Stage
      BY DEF F!IndInv, F!TypeOK, F!StatusType
    <3> QED BY <1>1, <2>1, <3>1
  <2> QED BY <1>1, <1>2, <2>1, <2>2 DEF IngestInv
<1>6. CASE IngestPublishes
  <2>1. ingest' = "report" /\ ingest = "publish"
    BY <1>6 DEF IngestPublishes
  <2>2. ingest_published_chunks \in Nat /\ ingest_published = 0..(ingest_published_chunks - 1)
    BY DEF F!IndInv, F!TypeOK, F!CounterType, F!FlowInv
  <2>3. ingest_published_chunks' = ingest_published_chunks + 1
    BY <1>6, <2>2 DEF IngestPublishes, PublishIngestChunkOnce, MayPublish
  <2> QED BY <1>1, <1>2, <2>1, <2>2, <2>3 DEF IngestInv
<1>7. CASE IngestReports \/ IngestGivesUp \/ IngestDrains \/ IngestStalls
  BY <1>1, <1>2, <1>7 DEF IngestReports, IngestGivesUp, IngestDrains, IngestStalls,
     IngestOnly, ingestVars, IngestInv
<1>8. CASE IngestCompletes
  <2>1. ingest_published_chunks' = TotalChunks /\ ingest = "publish" /\ ingest' = "report"
    BY <1>8 DEF IngestCompletes, MarkIngestComplete
  <2> QED BY <1>1, <1>2, <2>1 DEF IngestInv
<1>9. CASE IngestRestarts
  BY <1>1, <1>2, <1>9 DEF IngestRestarts, IngestInv
<1> QED BY <1>3, <1>4, <1>5, <1>6, <1>7, <1>8, <1>9, IngestAlone DEF IngestNext, vars, workerVars, repositoryVars

LEMMA Invariance == Spec => [](F!IndInv /\ IngestInv)
<1>1. Init => F!IndInv /\ IngestInv
  <2>1. Init => Flow!Init
    BY DEF Init, Flow!Init, RepositoryInit, Flow!RepositoryInit, Entries
  <2>2. Init => F!IndInv
    BY <2>1, SameFlow, F!InitIndInv, TotalChunksAssumption, UpdateEveryAssumption
  <2>3. Init => IngestInv
    BY TotalChunksAssumption DEF Init, IngestInv, Entries
  <2> QED BY <2>2, <2>3
<1>2. F!IndInv /\ IngestInv /\ [Next]_vars => (F!IndInv /\ IngestInv)'
  BY StepImplements, SameFlow, NextIngestInv, F!NextIndInv, TotalChunksAssumption,
     UpdateEveryAssumption
<1> QED BY <1>1, <1>2, PTL DEF Spec

(* With restarts, lost replies, retries and refused jobs the pipeline does *)
(* what ChunkFlow allows and nothing else.                                 *)
THEOREM Implements == Spec => ImplementsChunkFlow
<1>1. Init => Flow!Init
  BY DEF Init, Flow!Init, RepositoryInit, Flow!RepositoryInit, Entries
<1>2. F!IndInv /\ IngestInv /\ [Next]_vars => [Flow!Next]_Flow!vars
  BY StepImplements
<1> QED BY <1>1, <1>2, Invariance, PTL DEF Spec, ImplementsChunkFlow, Flow!Spec

(* So the deployed pipeline has the invariants of ChunkFlow: the jobs and  *)
(* the results in order and none held back, each after what it needs, the  *)
(* counters exact, the stage true and the saved result whole.              *)
THEOREM InheritsChunkFlow ==
  Spec => [](/\ F!DispatchInOrder /\ F!NothingHeldBack /\ F!CutBeforeTracking
             /\ F!ResultsInOrder /\ F!CountersExact
             /\ F!StageMatchesWork /\ F!CompleteResult /\ F!ProgressHonest)
<1>1. Spec => F!Spec
  BY Implements, SameFlow, PTL DEF ImplementsChunkFlow, Flow!Spec, F!Spec
<1>2. /\ F!Spec => []F!DispatchInOrder
      /\ F!Spec => []F!NothingHeldBack
      /\ F!Spec => []F!CutBeforeTracking
      /\ F!Spec => []F!ResultsInOrder
  BY F!DispatchOrder, F!NoneHeldBack, F!CutPrecedesTracking, F!ResultOrder,
     TotalChunksAssumption, UpdateEveryAssumption
<1>3. /\ F!Spec => []F!CountersExact
      /\ F!Spec => []F!StageMatchesWork
      /\ F!Spec => []F!CompleteResult
      /\ F!Spec => []F!ProgressHonest
  BY F!ExactCounters, F!StageAgrees, F!ResultComplete, F!HonestProgress,
     TotalChunksAssumption, UpdateEveryAssumption
<1> QED BY <1>1, <1>2, <1>3, PTL

-----------------------------------------------------------------------------
(***************************************************************************)
(* What a group has acknowledged, and the effect that it must have had.    *)
(***************************************************************************)
Acked(g) == (1..delivered[g]) \ pending[g]

HasEffect(g, c) == CASE g = "cut"         -> c \in Entries(cut_results)
                     [] g = "coordinator" -> c \in cut_done
                     [] g = "tracking"    -> c \in Entries(tracking_results)
                     [] g = "aggregator"  -> c \in tracking_done

GroupInv == /\ delivered \in [Group -> Nat]
            /\ pending \in [Group -> SUBSET Nat]
            /\ \A g \in Group : delivered[g] <= Len(Stream(g))
            /\ AckedIsDone

LEMMA AckedHasEffect ==
  AckedIsDone <=> \A g \in Group : \A e \in Acked(g) :
                    stage # "failed" => HasEffect(g, Stream(g)[e])
BY Zenon DEF AckedIsDone, Acked, HasEffect

(* The streams are initial runs of the chunks, and grow at their ends.     *)
LEMMA StreamsGrow ==
  ASSUME F!IndInv, IngestInv, [Next]_vars, NEW g \in Group
  PROVE  /\ Len(Stream(g)) \in Nat
         /\ Len(Stream(g))' \in Nat
         /\ Len(Stream(g)) <= Len(Stream(g))'
         /\ \A e \in 1..Len(Stream(g)) : /\ Stream(g)[e] \in Chunk
                                         /\ Stream(g)'[e] = Stream(g)[e]
<1> DEFINE n == ingest_published_chunks
           k == next_tracking_chunk
           r == next_tracking_result_chunk
<1>1. [F!Next]_F!vars
  BY StepImplements, SameFlow
<1>2. n' >= n /\ k' >= k /\ r' >= r
  BY <1>1, F!CursorsAdvance, TotalChunksAssumption, UpdateEveryAssumption
<1>3. F!IndInv'
  BY <1>1, F!NextIndInv, TotalChunksAssumption, UpdateEveryAssumption
<1>4. /\ n \in 0..TotalChunks /\ k \in 0..TotalChunks /\ r \in 0..TotalChunks
      /\ video_chunks = Run(0, n) /\ tracking_jobs = Run(0, k) /\ tracking_results = Run(0, r)
  BY DEF F!IndInv, F!TypeOK, F!CounterType, F!FlowInv, F!DispatchInOrder, F!ResultsInOrder,
         F!Run, Run
<1>5. /\ n' \in 0..TotalChunks /\ k' \in 0..TotalChunks /\ r' \in 0..TotalChunks
      /\ video_chunks' = Run(0, n') /\ tracking_jobs' = Run(0, k')
      /\ tracking_results' = Run(0, r')
  BY <1>3 DEF F!IndInv, F!TypeOK, F!CounterType, F!FlowInv, F!DispatchInOrder,
         F!ResultsInOrder, F!Run, Run
<1>6. ASSUME NEW a \in 0..TotalChunks, NEW b \in 0..TotalChunks, a <= b
      PROVE  /\ Len(Run(0, a)) = a /\ Len(Run(0, b)) = b
             /\ \A e \in 1..a : Run(0, a)[e] \in Chunk /\ Run(0, b)[e] = Run(0, a)[e]
  BY <1>6, TotalChunksAssumption DEF Run, Chunk
<1> HIDE DEF n, k, r
<1>7. CASE g = "cut"
  <2>1. n' >= n
    BY <1>2
  <2>2. Stream(g) = Run(0, n) /\ Stream(g)' = Run(0, n')
    BY <1>4, <1>5, <1>7 DEF Stream
  <2>3. n <= n' /\ n \in Nat /\ n' \in Nat
    BY <2>1, <1>4, <1>5
  <2>4. /\ Len(Run(0, n)) = n /\ Len(Run(0, n')) = n'
        /\ \A e \in 1..n : Run(0, n)[e] \in Chunk /\ Run(0, n')[e] = Run(0, n)[e]
    BY <1>4, <1>5, <1>6, <2>3
  <2> QED BY ONLY <2>2, <2>3, <2>4
<1>8. CASE g = "tracking"
  <2>1. k' >= k
    BY <1>2
  <2>2. Stream(g) = Run(0, k) /\ Stream(g)' = Run(0, k')
    BY <1>4, <1>5, <1>8 DEF Stream
  <2>3. k <= k' /\ k \in Nat /\ k' \in Nat
    BY <2>1, <1>4, <1>5
  <2>4. /\ Len(Run(0, k)) = k /\ Len(Run(0, k')) = k'
        /\ \A e \in 1..k : Run(0, k)[e] \in Chunk /\ Run(0, k')[e] = Run(0, k)[e]
    BY <1>4, <1>5, <1>6, <2>3
  <2> QED BY ONLY <2>2, <2>3, <2>4
<1>9. CASE g = "aggregator"
  <2>1. r' >= r
    BY <1>2
  <2>2. Stream(g) = Run(0, r) /\ Stream(g)' = Run(0, r')
    BY <1>4, <1>5, <1>9 DEF Stream
  <2>3. r <= r' /\ r \in Nat /\ r' \in Nat
    BY <2>1, <1>4, <1>5
  <2>4. /\ Len(Run(0, r)) = r /\ Len(Run(0, r')) = r'
        /\ \A e \in 1..r : Run(0, r)[e] \in Chunk /\ Run(0, r')[e] = Run(0, r)[e]
    BY <1>4, <1>5, <1>6, <2>3
  <2> QED BY ONLY <2>2, <2>3, <2>4
<1>10. CASE g = "coordinator"
  <2>1. Stream(g) = cut_results /\ Stream(g)' = cut_results'
    BY <1>10 DEF Stream
  <2>2. cut_results \in Seq(Chunk)
    BY DEF IngestInv
  <2>3. CASE UNCHANGED cut_results
    BY <2>1, <2>2, <2>3
  <2>4. ASSUME NEW e, NEW c \in Chunk, CutPublishes(e, c)
        PROVE  /\ Len(cut_results') = Len(cut_results) + 1
               /\ \A i \in 1..Len(cut_results) : cut_results'[i] = cut_results[i]
    BY <2>2, <2>4 DEF CutPublishes
  <2>5. Len(cut_results) \in Nat /\ \A i \in 1..Len(cut_results) : cut_results[i] \in Chunk
    BY <2>2
  <2>6. \/ UNCHANGED cut_results
        \/ \E e \in Entry("cut"), c \in Chunk : CutPublishes(e, c)
    BY CutAlone DEF CutSteps, CutDetects, vars, workerVars
  <2> QED BY <2>1, <2>3, <2>4, <2>5, <2>6
<1> QED BY <1>7, <1>8, <1>9, <1>10 DEF Group

(* An effect is not undone, and a failed task stays failed.                *)
LEMMA EffectsStay ==
  ASSUME F!IndInv, IngestInv, [Next]_vars, NEW g \in Group
  PROVE  /\ stage = "failed" => stage' = "failed"
         /\ \A c : HasEffect(g, c) => HasEffect(g, c)'
<1>1. [F!Next]_F!vars
  BY StepImplements, SameFlow
<1>2. stage = "failed" => stage' = "failed"
  <2>1. stage' # stage => stage' \in F!Allowed(stage)
    BY <1>1, F!StepFollowsTable, TotalChunksAssumption, UpdateEveryAssumption
  <2> QED BY <2>1 DEF F!Allowed, F!Terminal
<1>3. cut_done \subseteq cut_done' /\ tracking_done \subseteq tracking_done'
  BY <1>1, F!CursorsAdvance, TotalChunksAssumption, UpdateEveryAssumption
<1>4. ASSUME NEW h \in {"coordinator", "aggregator"}
      PROVE  Entries(Stream(h)) \subseteq Entries(Stream(h)')
  <2>1. /\ Len(Stream(h)) \in Nat /\ Len(Stream(h))' \in Nat
        /\ Len(Stream(h)) <= Len(Stream(h))'
        /\ \A e \in 1..Len(Stream(h)) : Stream(h)'[e] = Stream(h)[e]
    BY StreamsGrow DEF Group
  <2> QED BY <2>1 DEF Entries
<1>5. CASE g = "cut"
  BY <1>2, <1>4, <1>5 DEF HasEffect, Stream
<1>6. CASE g = "coordinator"
  BY <1>2, <1>3, <1>6 DEF HasEffect
<1>7. CASE g = "tracking"
  BY <1>2, <1>4, <1>7 DEF HasEffect, Stream
<1>8. CASE g = "aggregator"
  BY <1>2, <1>3, <1>8 DEF HasEffect
<1> QED BY <1>5, <1>6, <1>7, <1>8 DEF Group

(* What is acknowledged in a step has its effect in it, or the task fails. *)
Remembers == /\ delivered' \in [Group -> Nat]
             /\ pending' \in [Group -> SUBSET Nat]
             /\ \A g \in Group :
                  /\ delivered'[g] <= Len(Stream(g)')
                  /\ \A e \in Acked(g)' : \/ e \in Acked(g)
                                          \/ stage' = "failed"
                                          \/ HasEffect(g, Stream(g)[e])'

LEMMA RemembersKeeps ==
  ASSUME F!IndInv, IngestInv, GroupInv, [Next]_vars, Remembers
  PROVE  GroupInv'
<1>1. ASSUME NEW g \in Group, NEW e \in Acked(g)', stage' # "failed"
      PROVE  HasEffect(g, Stream(g)[e])'
  <2>1. CASE e \in Acked(g)
    <3>1. e \in 1..Len(Stream(g))
      <4>1. delivered[g] \in Nat /\ Len(Stream(g)) \in Nat /\ delivered[g] <= Len(Stream(g))
        BY StreamsGrow DEF GroupInv
      <4> QED BY <2>1, <4>1 DEF Acked
    <3>2. Stream(g)'[e] = Stream(g)[e]
      BY <3>1, StreamsGrow
    <3>3. stage # "failed"
      BY <1>1, EffectsStay
    <3>4. HasEffect(g, Stream(g)[e])
      BY <2>1, <3>3, AckedHasEffect DEF GroupInv
    <3>5. PICK c : c = Stream(g)[e]
      OBVIOUS
    <3>6. HasEffect(g, c)' /\ c = Stream(g)'[e]
      BY <3>2, <3>4, <3>5, EffectsStay
    <3> QED BY ONLY <3>6, Zenon DEF HasEffect
  <2> QED BY <1>1, <2>1 DEF Remembers
<1>2. AckedIsDone'
  BY ONLY <1>1, Zenon DEF AckedIsDone, Acked, HasEffect
<1> QED BY <1>2 DEF GroupInv, Remembers

LEMMA AckForgets ==
  ASSUME GroupInv, NEW g \in Group, Ack(g)
  PROVE  /\ UNCHANGED delivered
         /\ pending' \in [Group -> SUBSET Nat]
         /\ \A h \in Group : \A e \in Acked(h)' : e \in Acked(h) \/ (h = g /\ e = Head(held[g]))
<1>1. UNCHANGED delivered /\ pending' = [pending EXCEPT ![g] = @ \ {Head(held[g])}]
  BY DEF Ack
<1>2. pending \in [Group -> SUBSET Nat]
  BY DEF GroupInv
<1>3. \A h \in Group : pending'[h] = IF h = g THEN pending[h] \ {Head(held[g])} ELSE pending[h]
  BY <1>1, <1>2
<1>4. pending' \in [Group -> SUBSET Nat]
  <2>1. pending[g] \ {Head(held[g])} \in SUBSET Nat
    BY <1>2
  <2> QED BY <1>1, <1>2, <2>1
<1> QED BY <1>1, <1>3, <1>4 DEF Acked

(* A step that acknowledges nothing.                                       *)
LEMMA QuietRemembers ==
  ASSUME F!IndInv, IngestInv, GroupInv, [Next]_vars, UNCHANGED <<delivered, pending>>
  PROVE  Remembers
BY StreamsGrow DEF Remembers, GroupInv, Acked

(* A handler that has had its effect, or has failed the task.              *)
LEMMA HandlerRemembers ==
  ASSUME F!IndInv, IngestInv, GroupInv, [Next]_vars, NEW g \in Group, AckOrRetry(g) \/ Ack(g),
         NEW e \in Entry(g), e = Head(held[g]), NEW c, c = Stream(g)[e],
         stage' = "failed" \/ HasEffect(g, c)'
  PROVE  Remembers
<1>1. CASE UNCHANGED groupVars
  BY <1>1, QuietRemembers DEF groupVars
<1>2. CASE Ack(g)
  <2>1. \A h \in Group : delivered'[h] <= Len(Stream(h)') /\ delivered' \in [Group -> Nat]
    BY <1>2, AckForgets, StreamsGrow DEF GroupInv
  <2>2. c = Stream(g)'[e]
    BY StreamsGrow DEF Entry
  <2>3. stage' = "failed" \/ HasEffect(g, Stream(g)[e])'
    BY ONLY <2>2, stage' = "failed" \/ HasEffect(g, c)', Zenon DEF HasEffect
  <2>4. ASSUME NEW h \in Group, NEW x \in Acked(h)', x \notin Acked(h), stage' # "failed"
        PROVE  HasEffect(h, Stream(h)[x])'
    <3>1. h = g /\ x = e
      BY <1>2, <2>4, AckForgets
    <3> QED BY ONLY <2>3, <2>4, <3>1, Zenon DEF HasEffect, Stream
  <2> QED BY <1>2, <2>1, <2>4, AckForgets DEF Remembers
<1> QED BY <1>1, <1>2 DEF AckOrRetry

-----------------------------------------------------------------------------
(* The groups between the handlers.                                        *)
LEMMA GroupsRemember ==
  ASSUME F!IndInv, IngestInv, GroupInv, [Next]_vars, NEW g \in Group,
         Claims(g) \/ Reads(g) \/ Restarts(g) \/ ReplyLost(g)
  PROVE  Remembers
<1>1. CASE Claims(g) \/ Restarts(g)
  BY <1>1, QuietRemembers DEF Claims, Restarts
<1>2. CASE Reads(g) \/ ReplyLost(g)
  <2>1. /\ delivered' = [delivered EXCEPT ![g] = Len(Stream(g))]
        /\ pending' = [pending EXCEPT ![g] = @ \cup NewEntries(g)]
    BY <1>2 DEF Reads, ReplyLost, Delivers
  <2>2. \A h \in Group : Len(Stream(h)) \in Nat /\ Len(Stream(h)') \in Nat
                         /\ Len(Stream(h)) <= Len(Stream(h)')
    BY StreamsGrow
  <2>3. /\ delivered \in [Group -> Nat] /\ pending \in [Group -> SUBSET Nat]
        /\ \A h \in Group : delivered[h] <= Len(Stream(h))
    BY DEF GroupInv
  <2>4. NewEntries(g) \subseteq Nat
    BY <2>2, <2>3 DEF NewEntries
  <2>5. delivered' \in [Group -> Nat]
    BY <2>1, <2>2, <2>3
  <2>6. pending' \in [Group -> SUBSET Nat]
    <3>1. pending[g] \cup NewEntries(g) \in SUBSET Nat
      BY <2>3, <2>4
    <3> QED BY <2>1, <2>3, <3>1
  <2>7. ASSUME NEW h \in Group PROVE delivered'[h] <= Len(Stream(h)')
    BY <2>1, <2>2, <2>3
  <2>8. ASSUME NEW h \in Group, NEW e \in Acked(h)' PROVE e \in Acked(h)
    <3>1. CASE h # g
      BY <2>1, <2>3, <2>8, <3>1 DEF Acked
    <3>2. CASE h = g
      <4>1. /\ delivered'[g] = Len(Stream(g))
            /\ pending'[g] = pending[g] \cup (delivered[g] + 1)..Len(Stream(g))
        BY <2>1, <2>3 DEF NewEntries
      <4>2. /\ e \in 1..Len(Stream(g))
            /\ e \notin pending[g] /\ e \notin (delivered[g] + 1)..Len(Stream(g))
        BY <2>8, <3>2, <4>1 DEF Acked
      <4>3. Len(Stream(g)) \in Nat /\ delivered[g] \in Nat
        BY <2>2, <2>3
      <4> QED BY ONLY <3>2, <4>2, <4>3 DEF Acked
    <3> QED BY <3>1, <3>2
  <2> QED BY <2>5, <2>6, <2>7, <2>8 DEF Remembers
<1> QED BY <1>1, <1>2

(* The handlers.                                                           *)
LEMMA CutRemembers ==
  ASSUME F!IndInv, IngestInv, GroupInv, [Next]_vars,
         NEW e \in Entry("cut"), NEW c \in Chunk, CutPublishes(e, c)
  PROVE  Remembers
<1>1. e = Head(held["cut"]) /\ c = Stream("cut")[e] /\ AckOrRetry("cut")
  BY DEF CutPublishes, Handles
<1>2. HasEffect("cut", c)'
  <2>1. cut_results' = Append(cut_results, c) /\ cut_results \in Seq(Chunk)
    BY DEF CutPublishes, IngestInv
  <2>2. c \in Entries(cut_results')
    BY <2>1 DEF Entries
  <2> QED BY <2>2, Zenon DEF HasEffect, Entries
<1> QED BY <1>1, <1>2, HandlerRemembers DEF Group

(* A task is not completed before the chunk that is refused is through.    *)
LEMMA RefusalRemembers ==
  ASSUME F!IndInv, IngestInv, GroupInv, [Next]_vars, NEW g \in Group,
         NEW e \in Entry(g), NEW c \in Chunk, Handles(g, e, c), Refuses(g, e),
         c \notin tracking_done
  PROVE  Remembers
<1>1. CASE UNCHANGED <<delivered, pending>>
  BY <1>1, QuietRemembers
<1>2. CASE Ack(g) /\ UpdateStatus("failed", 0, 0)
  <2>1. stage # "completed"
    <3>1. tracking_done # F!Chunk
      BY DEF F!Chunk, Chunk
    <3> QED BY <3>1 DEF F!IndInv, F!StatusInv, F!StageMatchesWork
  <2>2. stage \in F!Stage
    BY DEF F!IndInv, F!TypeOK, F!StatusType
  <2>3. stage' = "failed"
    BY <1>2, <2>1, <2>2
    DEF UpdateStatus, Refused, Rank, Allowed, Terminal, F!Stage, statusVars
  <2> QED BY <1>2, <2>3, HandlerRemembers DEF Handles
<1> QED BY <1>1, <1>2 DEF Refuses

LEMMA CutRefusalRemembers ==
  ASSUME F!IndInv, IngestInv, GroupInv, [Next]_vars,
         NEW e \in Entry("cut"), NEW c \in Chunk, CutRefuses(e, c)
  PROVE  Remembers
<1>1. tracking_done \subseteq Entries(cut_results)
  BY DEF F!IndInv, F!TypeOK, F!CounterType, F!FlowInv, Entries
<1>2. c \notin tracking_done
  BY <1>1 DEF CutRefuses, IngestInv, Chunk
<1> QED BY <1>2, RefusalRemembers DEF CutRefuses, Group

LEMMA CoordinatorRemembers ==
  ASSUME F!IndInv, IngestInv, GroupInv, [Next]_vars,
         NEW e \in Entry("coordinator"), NEW c \in Chunk, CoordinatorRecords(e, c)
  PROVE  Remembers
<1>1. e = Head(held["coordinator"]) /\ c = Stream("coordinator")[e] /\ AckOrRetry("coordinator")
  BY DEF CoordinatorRecords, Handles
<1>2. HasEffect("coordinator", c)'
  BY DEF CoordinatorRecords, RecordCutAndDispatch, HasEffect
<1> QED BY <1>1, <1>2, HandlerRemembers DEF Group

(* A chunk before the cursor has its result in the stream already.         *)
LEMMA TrackerRemembers ==
  ASSUME F!IndInv, IngestInv, GroupInv, [Next]_vars,
         NEW e \in Entry("tracking"), NEW c \in Chunk,
         TrackerPublishes(e, c) \/ TrackerRefuses(e, c)
  PROVE  Remembers
<1> DEFINE r == next_tracking_result_chunk
<1>0. r \in 0..TotalChunks /\ tracking_results = Run(0, r) /\ TotalChunks \in Nat
  BY TotalChunksAssumption DEF F!IndInv, F!TypeOK, F!CounterType, F!FlowInv, F!ResultsInOrder, F!Run, Run
<1>1. e = Head(held["tracking"]) /\ c = Stream("tracking")[e] /\ "tracking" \in Group
  BY DEF TrackerPublishes, TrackerRefuses, Handles, Group
<1>2. CASE TrackerPublishes(e, c)
  <2>1. AckOrRetry("tracking") /\ c <= r /\ PublishTrackingResultInOrder(c)
    BY <1>2 DEF TrackerPublishes
  <2>2. CASE c = r
    <3>1. tracking_results' = Append(tracking_results, c)
      BY <2>1, <2>2 DEF PublishTrackingResultInOrder, InOrder
    <3>2. tracking_results \in Seq(Int)
      BY <1>0 DEF Run
    <3>3. c \in Entries(tracking_results')
      BY <3>1, <3>2 DEF Entries
    <3>4. HasEffect("tracking", c)'
      BY <3>3, Zenon DEF HasEffect, Entries
    <3> QED BY <1>1, <2>1, <3>4, HandlerRemembers
  <2>3. CASE c < r
    <3>1. UNCHANGED tracking_results
      BY <1>0, <2>1, <2>3 DEF PublishTrackingResultInOrder, InOrder, orderVars, Chunk
    <3>2. c + 1 \in 1..Len(tracking_results) /\ tracking_results[c + 1] = c
      BY <1>0, <2>3 DEF Run, Chunk
    <3>3. c \in Entries(tracking_results')
      BY <3>1, <3>2 DEF Entries
    <3>4. HasEffect("tracking", c)'
      BY <3>3, Zenon DEF HasEffect, Entries
    <3> QED BY <1>1, <2>1, <3>4, HandlerRemembers
  <2> QED BY <1>0, <2>1, <2>2, <2>3 DEF Chunk
<1>3. CASE TrackerRefuses(e, c)
  <2>1. c >= r
    BY <1>0, <1>3 DEF TrackerRefuses, Chunk
  <2>2. c \notin tracking_done
    BY <1>0, <2>1 DEF F!IndInv, F!FlowInv, Chunk
  <2> QED BY <1>1, <1>3, <2>2, RefusalRemembers DEF TrackerRefuses
<1> QED BY <1>2, <1>3

LEMMA AggregatorRemembers ==
  ASSUME F!IndInv, IngestInv, GroupInv, [Next]_vars,
         NEW e \in Entry("aggregator"), NEW c \in Chunk, AggregatorMarks(e, c)
  PROVE  Remembers
<1>1. e = Head(held["aggregator"]) /\ c = Stream("aggregator")[e] /\ "aggregator" \in Group
  BY DEF AggregatorMarks, Handles, Group
<1>2. HasEffect("aggregator", c)'
  BY DEF AggregatorMarks, MarkChunkTrackingDone, HasEffect
<1>3. CASE UNCHANGED groupVars
  BY <1>3, QuietRemembers DEF groupVars
<1>4. CASE AckOrRetry("aggregator")
  BY <1>1, <1>2, <1>4, HandlerRemembers
<1> QED BY <1>3, <1>4 DEF AggregatorMarks

(* The last entry is acknowledged when every chunk is tracked.             *)
LEMMA CompletionRemembers ==
  ASSUME F!IndInv, IngestInv, GroupInv, [Next]_vars, AggregatorCompletes
  PROVE  Remembers
<1>1. CASE UNCHANGED groupVars
  BY <1>1, QuietRemembers DEF groupVars
<1>2. CASE Ack("aggregator")
  <2>1. "aggregator" \in Group
    BY DEF Group
  <2>2. /\ UNCHANGED delivered /\ pending' \in [Group -> SUBSET Nat]
        /\ \A h \in Group : \A e \in Acked(h)' : e \in Acked(h) \/ h = "aggregator"
    BY <1>2, <2>1, AckForgets
  <2>3. \A h \in Group : delivered'[h] <= Len(Stream(h)') /\ delivered' \in [Group -> Nat]
    BY <2>2, StreamsGrow DEF GroupInv
  <2>4. tracking_done = Chunk /\ UNCHANGED tracking_done
    BY DEF AggregatorCompletes, doneVars, F!IndInv, F!StatusInv, F!Chunk, Chunk
  <2>5. ASSUME NEW g \in Group, NEW e \in Acked(g)', e \notin Acked(g), stage' # "failed"
        PROVE  HasEffect(g, Stream(g)[e])'
    <3>0. g = "aggregator"
      BY <2>2, <2>5
    <3>1. e \in 1..Len(Stream(g))
      <4>1. delivered[g] \in Nat /\ Len(Stream(g)) \in Nat /\ delivered[g] <= Len(Stream(g))
        BY StreamsGrow DEF GroupInv
      <4> QED BY <2>2, <2>5, <4>1 DEF Acked
    <3>2. PICK c \in Chunk : c = Stream(g)'[e]
      BY <3>1, StreamsGrow
    <3>3. HasEffect(g, c)'
      BY <2>4, <3>0, <3>2 DEF HasEffect
    <3> QED BY ONLY <3>2, <3>3, Zenon DEF HasEffect
  <2> QED BY <2>1, <2>2, <2>3, <2>5 DEF Remembers
<1> QED BY <1>1, <1>2 DEF AggregatorCompletes, AckOrRetry

(* The rest of a step leaves the groups alone.                             *)
LEMMA StepRemembers ==
  ASSUME F!IndInv, IngestInv, GroupInv, [Next]_vars
  PROVE  Remembers
<1>1. CASE \/ IngestNext \/ IngestStalls \/ IngestRestarts \/ AggregatorInterrupted
           \/ UNCHANGED vars
  <2>1. UNCHANGED groupVars
    BY <1>1 DEF IngestNext, IngestDecodes, IngestProbes, IngestPublishes, IngestReports,
       IngestGivesUp, IngestCompletes, IngestDrains, IngestOnly, IngestStalls,
       IngestRestarts, AggregatorInterrupted, vars
  <2> QED BY <2>1, QuietRemembers DEF groupVars
<1>2. ASSUME NEW g \in Group, Work(g) PROVE Remembers
  <2>1. CASE AggregatorSaves
    BY <2>1, QuietRemembers DEF AggregatorSaves, groupVars
  <2>2. ASSUME NEW e \in Entry("cut"), NEW c \in Chunk, CutDetects(e, c) PROVE Remembers
    BY <2>2, QuietRemembers DEF CutDetects, groupVars
  <2> QED BY <1>2, <2>1, <2>2, GroupsRemember, CutRemembers, CutRefusalRemembers,
       CoordinatorRemembers, TrackerRemembers, AggregatorRemembers, CompletionRemembers
       DEF Work
<1>3. ASSUME NEW g \in Group, Restarts(g) \/ ReplyLost(g) PROVE Remembers
  BY <1>3, GroupsRemember
<1> QED BY <1>1, <1>2, <1>3 DEF Next

LEMMA GroupInvariance == Spec => []GroupInv
<1>1. Init => GroupInv
  <2> SUFFICES ASSUME Init PROVE GroupInv
    OBVIOUS
  <2>1. delivered \in [Group -> Nat] /\ pending \in [Group -> SUBSET Nat]
    BY DEF Init
  <2>2. \A g \in Group : delivered[g] = 0 /\ Len(Stream(g)) = 0
    BY DEF Init, RepositoryInit, Stream, Group
  <2>3. AckedIsDone
    BY <2>2 DEF AckedIsDone
  <2> QED BY <2>1, <2>2, <2>3 DEF GroupInv
<1>2. F!IndInv /\ IngestInv /\ GroupInv /\ [Next]_vars => GroupInv'
  BY StepRemembers, RemembersKeeps
<1> QED BY <1>1, <1>2, Invariance, PTL DEF Spec

(* No group forgets an entry before it has had its effect: what is neither *)
(* pending nor still to come is in the repository or in the next stream,   *)
(* whatever stopped or was lost, unless the task has failed.               *)
THEOREM AcknowledgedIsDone == Spec => []AckedIsDone
<1>1. GroupInv => AckedIsDone
  BY DEF GroupInv
<1> QED BY <1>1, GroupInvariance, PTL

-----------------------------------------------------------------------------
(***************************************************************************)
(* What a process has in hand is remembered by its group, and once.        *)
(***************************************************************************)
HeldInv == /\ held \in [Group -> Seq(Nat)]
           /\ \A g \in Group : /\ pending[g] \subseteq 1..delivered[g]
                               /\ held[g] \in Seq(pending[g]) /\ Ascending(held[g])

(* An aggregator that finishes the task still has the entry in hand.       *)
Engaged == finalising # "no" => held["aggregator"] # <<>>

LEMMA MoreRemembered ==
  ASSUME NEW P, NEW Q, P \subseteq Q, NEW q \in Seq(P)
  PROVE  q \in Seq(Q)
OBVIOUS

LEMMA IsSequence ==
  ASSUME NEW S, NEW n \in Nat, NEW f \in [1..n -> S]
  PROVE  f \in Seq(S)
OBVIOUS

(* The rest of a batch without its first entry.                            *)
LEMMA RestOfBatch ==
  ASSUME NEW P \in SUBSET Nat, NEW q \in Seq(P), q # <<>>, Ascending(q)
  PROVE  /\ Tail(q) \in Seq(P \ {Head(q)}) /\ Ascending(Tail(q))
         /\ Head(q) \in P
<1>1. /\ Len(q) \in Nat /\ Len(q) > 0 /\ DOMAIN q = 1..Len(q) /\ Head(q) = q[1]
      /\ \A i \in 1..Len(q) : q[i] \in P
  OBVIOUS
<1>2. /\ Tail(q) \in Seq(P) /\ Len(Tail(q)) = Len(q) - 1 /\ DOMAIN Tail(q) = 1..(Len(q) - 1)
      /\ \A i \in 1..(Len(q) - 1) : Tail(q)[i] = q[i + 1]
  BY <1>1
<1>3. \A i \in 1..(Len(q) - 1) : i + 1 \in 1..Len(q) /\ 1 \in 1..Len(q) /\ 1 < i + 1
  BY <1>1
<1>4. \A i \in 1..(Len(q) - 1) : Tail(q)[i] \in P \ {Head(q)}
  <2> TAKE i \in 1..(Len(q) - 1)
  <2>1. q[1] < q[i + 1] /\ q[i + 1] \in P /\ q[1] \in P
        /\ q[1] \in Nat /\ q[i + 1] \in Nat
    BY <1>1, <1>3 DEF Ascending
  <2>2. q[1] # q[i + 1]
    BY <2>1
  <2> QED BY <1>1, <1>2, <2>1, <2>2
<1>5. Tail(q) \in Seq(P \ {Head(q)})
  <2>1. Len(q) - 1 \in Nat
    BY <1>1
  <2>2. Tail(q) \in [1..(Len(q) - 1) -> P \ {Head(q)}]
    <3>1. Tail(q) \in [1..Len(Tail(q)) -> P]
      BY <1>2, LenProperties
    <3>2. Tail(q) \in [1..(Len(q) - 1) -> P]
      BY ONLY <1>2, <3>1
    <3> QED BY ONLY <1>4, <3>2
  <2> QED BY ONLY <2>1, <2>2, IsSequence
<1>6. \A i, j \in 1..(Len(q) - 1) : i < j => Tail(q)[i] < Tail(q)[j]
  <2> TAKE i, j \in 1..(Len(q) - 1)
  <2> HAVE i < j
  <2>1. i + 1 < j + 1 /\ i + 1 \in 1..Len(q) /\ j + 1 \in 1..Len(q)
    BY <1>3
  <2>2. q[i + 1] < q[j + 1]
    BY <1>1, <2>1 DEF Ascending
  <2> QED BY <1>2, <2>2
<1> QED BY <1>1, <1>2, <1>5, <1>6 DEF Ascending

LEMMA AckHolds ==
  ASSUME HeldInv, GroupInv, NEW g \in Group, held[g] # <<>>, Ack(g)
  PROVE  HeldInv'
<1>1. /\ held' = [held EXCEPT ![g] = Tail(held[g])]
      /\ pending' = [pending EXCEPT ![g] = pending[g] \ {Head(held[g])}]
      /\ UNCHANGED delivered
  BY DEF Ack
<1>2. /\ held \in [Group -> Seq(Nat)] /\ pending \in [Group -> SUBSET Nat]
      /\ held[g] \in Seq(pending[g]) /\ Ascending(held[g])
  BY DEF HeldInv, GroupInv
<1>3. Tail(held[g]) \in Seq(pending[g] \ {Head(held[g])}) /\ Ascending(Tail(held[g]))
  BY <1>2, RestOfBatch
<1>4. Tail(held[g]) \in Seq(Nat)
  <2>1. pending[g] \ {Head(held[g])} \subseteq Nat
    BY <1>2
  <2> QED BY <1>3, <2>1, MoreRemembered
<1>5. held' \in [Group -> Seq(Nat)]
  BY <1>1, <1>2, <1>4
<1>6. ASSUME NEW h \in Group
      PROVE  /\ pending'[h] \subseteq 1..delivered'[h]
             /\ held'[h] \in Seq(pending'[h]) /\ Ascending(held'[h])
  <2>1. CASE h = g
    <3>1. held'[h] = Tail(held[g]) /\ pending'[h] = pending[g] \ {Head(held[g])}
      BY <1>1, <1>2, <2>1
    <3>2. pending[g] \subseteq 1..delivered[g]
      BY DEF HeldInv
    <3> QED BY <1>1, <1>3, <2>1, <3>1, <3>2
  <2>2. CASE h # g
    <3>1. held'[h] = held[h] /\ pending'[h] = pending[h]
      BY <1>1, <1>2, <2>2
    <3> QED BY <1>1, <3>1 DEF HeldInv
  <2> QED BY <2>1, <2>2
<1> QED BY <1>5, <1>6 DEF HeldInv

(* A batch that is handed out.                                             *)
LEMMA BatchHolds ==
  ASSUME HeldInv, GroupInv, NEW g \in Group, NEW batch,
         held' = [held EXCEPT ![g] = batch],
         UNCHANGED delivered \/ delivered' = [delivered EXCEPT ![g] = Len(Stream(g))],
         UNCHANGED pending \/ pending' = [pending EXCEPT ![g] = pending[g] \cup NewEntries(g)],
         Len(Stream(g)) \in Nat, pending'[g] \subseteq 1..delivered'[g],
         batch \in Seq(pending'[g]), Ascending(batch)
  PROVE  HeldInv'
<1>1. /\ held \in [Group -> Seq(Nat)] /\ pending \in [Group -> SUBSET Nat]
      /\ delivered \in [Group -> Nat]
  BY DEF HeldInv, GroupInv
<1>2. pending'[g] \subseteq Nat
  <2>1. delivered'[g] \in Nat
    BY <1>1
  <2> QED BY <2>1
<1>3. batch \in Seq(Nat)
  BY <1>2, MoreRemembered
<1>4. held' \in [Group -> Seq(Nat)] /\ held'[g] = batch
  BY <1>1, <1>3
<1>5. ASSUME NEW h \in Group, h # g
      PROVE  held'[h] = held[h] /\ pending'[h] = pending[h] /\ delivered'[h] = delivered[h]
  BY <1>1, <1>5
<1> QED BY <1>4, <1>5 DEF HeldInv

LEMMA StepHolds ==
  ASSUME F!IndInv, IngestInv, GroupInv, HeldInv, Engaged, [Next]_vars
  PROVE  HeldInv'
<1>1. CASE UNCHANGED groupVars
  BY <1>1 DEF groupVars, HeldInv, Ascending
<1>2. ASSUME NEW g \in Group, Ack(g), held[g] # <<>> PROVE HeldInv'
  BY <1>2, AckHolds
<1>3. CASE \/ IngestNext \/ IngestStalls \/ IngestRestarts \/ AggregatorInterrupted
           \/ UNCHANGED vars
  BY <1>1, <1>3 DEF IngestNext, IngestDecodes, IngestProbes, IngestPublishes, IngestReports,
     IngestGivesUp, IngestCompletes, IngestDrains, IngestOnly, IngestStalls, IngestRestarts,
     AggregatorInterrupted, vars, groupVars
<1>4. ASSUME NEW g \in Group
      PROVE  /\ pending[g] \in SUBSET Nat /\ delivered[g] \in Nat
             /\ Len(Stream(g)) \in Nat /\ delivered[g] <= Len(Stream(g))
             /\ pending[g] \subseteq 1..delivered[g]
             /\ pending[g] \cup NewEntries(g) \subseteq 1..Len(Stream(g))
  <2>1. /\ pending[g] \in SUBSET Nat /\ delivered[g] \in Nat
        /\ Len(Stream(g)) \in Nat /\ delivered[g] <= Len(Stream(g))
        /\ pending[g] \subseteq 1..delivered[g]
    BY StreamsGrow DEF GroupInv, HeldInv
  <2> QED BY <2>1 DEF NewEntries
<1>5. ASSUME NEW g \in Group, Claims(g) PROVE HeldInv'
  <2>0. PICK S \in SUBSET Orphans(g) :
          \E q \in [1..Cardinality(S) -> S] : Ascending(q) /\ HandOut(g, q)
    BY <1>5 DEF Claims
  <2>1. PICK batch \in [1..Cardinality(S) -> S] : Ascending(batch) /\ HandOut(g, batch)
    BY <2>0
  <2>2. S \subseteq pending[g] /\ IsFiniteSet(S)
    <3>1. IsFiniteSet(1..delivered[g])
      BY <1>4, FS_Interval
    <3>2. S \subseteq 1..delivered[g] /\ S \subseteq pending[g]
      BY <1>4, <2>1 DEF Orphans
    <3> QED BY <3>1, <3>2, FS_Subset
  <2>3. Cardinality(S) \in Nat
    BY <2>2, FS_CardinalityType
  <2>4. batch \in Seq(pending[g])
    <3>1. batch \in Seq(S)
      BY <2>1, <2>3
    <3> QED BY <2>2, <3>1, MoreRemembered
  <2>5. UNCHANGED <<delivered, pending>> /\ held' = [held EXCEPT ![g] = batch]
    BY <1>5, <2>1 DEF Claims, HandOut
  <2> QED BY <1>4, <2>1, <2>4, <2>5, BatchHolds
<1>6. ASSUME NEW g \in Group, Delivers(g)
      PROVE  /\ delivered' = [delivered EXCEPT ![g] = Len(Stream(g))]
             /\ pending' = [pending EXCEPT ![g] = pending[g] \cup NewEntries(g)]
             /\ pending'[g] = pending[g] \cup NewEntries(g)
             /\ delivered'[g] = Len(Stream(g))
             /\ pending'[g] \subseteq 1..delivered'[g]
  <2>1. pending \in [Group -> SUBSET Nat] /\ delivered \in [Group -> Nat]
    BY DEF GroupInv
  <2>2. /\ delivered' = [delivered EXCEPT ![g] = Len(Stream(g))]
        /\ pending' = [pending EXCEPT ![g] = pending[g] \cup NewEntries(g)]
    BY <1>6 DEF Delivers
  <2> QED BY <1>4, <2>1, <2>2
<1>7. ASSUME NEW g \in Group, Reads(g) PROVE HeldInv'
  <2> DEFINE n == Len(Stream(g))
             batch == Run(delivered[g] + 1, n + 1)
  <2>1. Delivers(g) /\ held' = [held EXCEPT ![g] = batch]
    BY <1>7 DEF Reads, HandOut
  <2>2. n \in Nat /\ delivered[g] \in Nat /\ delivered[g] <= n
    BY <1>4
  <2> HIDE DEF n
  <2>3. batch = [k \in 1..(n - delivered[g]) |-> delivered[g] + k]
    BY <2>2 DEF Run
  <2>4. /\ n - delivered[g] \in Nat
        /\ \A k \in 1..(n - delivered[g]) : delivered[g] + k \in (delivered[g] + 1)..n
    BY <2>2
  <2> HIDE DEF batch
  <2>5. batch \in Seq((delivered[g] + 1)..n) /\ Ascending(batch)
    <3>1. batch \in [1..(n - delivered[g]) -> (delivered[g] + 1)..n]
      BY <2>3, <2>4
    <3>2. batch \in Seq((delivered[g] + 1)..n)
      BY ONLY <2>4, <3>1, IsSequence
    <3>3. \A i, j \in 1..(n - delivered[g]) : i < j => batch[i] < batch[j]
      BY <2>2, <2>3
    <3> QED BY <3>1, <3>2, <3>3 DEF Ascending
  <2>6. (delivered[g] + 1)..n \subseteq pending'[g]
    BY <1>6, <2>1 DEF NewEntries, n
  <2>7. batch \in Seq(pending'[g])
    BY <2>5, <2>6, MoreRemembered
  <2>8. n = Len(Stream(g))
    BY DEF n
  <2> QED BY <1>4, <1>6, <2>1, <2>5, <2>7, BatchHolds
<1>8. ASSUME NEW g \in Group, ReplyLost(g) PROVE HeldInv'
  <2>1. Delivers(g) /\ held' = held
    BY <1>8 DEF ReplyLost
  <2>2. held' = [held EXCEPT ![g] = held[g]] /\ held[g] \in Seq(pending[g]) /\ Ascending(held[g])
    BY <2>1 DEF HeldInv
  <2>3. held[g] \in Seq(pending'[g])
    <3>1. pending[g] \subseteq pending'[g]
      BY <1>6, <2>1
    <3> QED BY <2>2, <3>1, MoreRemembered
  <2> QED BY <1>4, <1>6, <2>1, <2>2, <2>3, BatchHolds
<1>9. ASSUME NEW g \in Group, Restarts(g) PROVE HeldInv'
  <2>1. UNCHANGED <<delivered, pending>> /\ held' = [held EXCEPT ![g] = <<>>]
    BY <1>9 DEF Restarts, Forgets
  <2>2. <<>> \in Seq(pending'[g]) /\ Ascending(<<>>)
    BY DEF Ascending
  <2> QED BY <1>4, <2>1, <2>2, BatchHolds
<1>10. ASSUME NEW g \in Group, NEW e, NEW c, Handles(g, e, c), AckOrRetry(g) PROVE HeldInv'
  BY <1>1, <1>2, <1>10 DEF Handles, AckOrRetry
<1>11. ASSUME NEW e, NEW c, \/ CutPublishes(e, c) \/ CoordinatorRecords(e, c)
                            \/ TrackerPublishes(e, c)
       PROVE  HeldInv'
  BY <1>10, <1>11 DEF CutPublishes, CoordinatorRecords, TrackerPublishes, Group
<1>12. ASSUME NEW g \in Group, NEW e, NEW c, Handles(g, e, c), Refuses(g, e) PROVE HeldInv'
  <2>1. CASE UNCHANGED <<delivered, pending, held>>
    BY <2>1 DEF HeldInv, Ascending
  <2>2. CASE Ack(g)
    BY <1>2, <1>12, <2>2 DEF Handles
  <2> QED BY <1>12, <2>1, <2>2 DEF Refuses
<1>17. ASSUME NEW e, NEW c, \/ TrackerRefuses(e, c) \/ CutRefuses(e, c) \/ CutDetects(e, c)
       PROVE  HeldInv'
  BY <1>1, <1>12, <1>17 DEF TrackerRefuses, CutRefuses, CutDetects, Group
<1>13. ASSUME NEW e, NEW c, AggregatorMarks(e, c) PROVE HeldInv'
  BY <1>1, <1>10, <1>13 DEF AggregatorMarks, Group
<1>14. CASE AggregatorSaves
  BY <1>1, <1>14 DEF AggregatorSaves
<1>15. CASE AggregatorCompletes
  BY <1>1, <1>2, <1>15 DEF AggregatorCompletes, AckOrRetry, Engaged, Group
<1>16. ASSUME NEW g \in Group, Work(g) PROVE HeldInv'
  BY <1>5, <1>7, <1>11, <1>13, <1>14, <1>15, <1>16, <1>17 DEF Work
<1> QED BY <1>3, <1>8, <1>9, <1>16 DEF Next

LEMMA StepEngaged ==
  ASSUME HeldInv, Engaged, [Next]_vars
  PROVE  Engaged'
<1> DEFINE a == "aggregator"
<1>0. a \in Group /\ held \in [Group -> Seq(Nat)]
  BY DEF HeldInv, Group
<1>1. CASE UNCHANGED <<finalising, held>>
  BY <1>1 DEF Engaged
<1>2. CASE finalising' = "no"
  BY <1>2 DEF Engaged
<1>3. ASSUME NEW g \in Group, g # a, NEW q, held' = [held EXCEPT ![g] = q], UNCHANGED finalising
      PROVE  Engaged'
  <2>1. held'[a] = held[a]
    BY <1>0, <1>3
  <2> QED BY <1>3, <2>1 DEF Engaged
<1>4. CASE \/ IngestNext \/ IngestStalls \/ IngestRestarts \/ AggregatorInterrupted
           \/ UNCHANGED vars
  BY <1>1, <1>2, <1>4 DEF IngestNext, IngestDecodes, IngestProbes, IngestPublishes,
     IngestReports, IngestGivesUp, IngestCompletes, IngestDrains, IngestOnly, IngestStalls,
     IngestRestarts, AggregatorInterrupted, vars, groupVars, workerVars
<1>5. ASSUME NEW g \in Group, Claims(g) \/ Reads(g) PROVE Engaged'
  <2>1. PICK q : held' = [held EXCEPT ![g] = q]
    BY <1>5 DEF Claims, Reads, HandOut
  <2>2. held[g] = <<>> /\ UNCHANGED finalising
    BY <1>5 DEF Claims, Reads, Delivers, HandOut, workerVars
  <2>3. CASE g = a
    BY <1>2, <2>2, <2>3 DEF Engaged
  <2> QED BY <1>3, <2>1, <2>2, <2>3
<1>6. ASSUME NEW g \in Group, Restarts(g) PROVE Engaged'
  BY <1>2, <1>3, <1>6 DEF Restarts, Forgets
<1>7. ASSUME NEW g \in Group, ReplyLost(g) PROVE Engaged'
  BY <1>1, <1>7 DEF ReplyLost, workerVars
<1>8. ASSUME NEW g \in Group, g # a, AckOrRetry(g) \/ Ack(g) \/ UNCHANGED held,
             UNCHANGED finalising
      PROVE  Engaged'
  <2>1. CASE Ack(g)
    BY <1>3, <1>8, <2>1 DEF Ack
  <2>2. CASE UNCHANGED held
    BY <1>1, <1>8, <2>2
  <2> QED BY <1>8, <2>1, <2>2 DEF AckOrRetry, groupVars
<1>9. ASSUME NEW e, NEW c, \/ CutDetects(e, c) \/ CutPublishes(e, c) \/ CutRefuses(e, c)
                           \/ CoordinatorRecords(e, c)
                           \/ TrackerPublishes(e, c) \/ TrackerRefuses(e, c)
      PROVE  Engaged'
  BY <1>8, <1>9 DEF CutDetects, CutPublishes, CutRefuses, CoordinatorRecords,
     TrackerPublishes, TrackerRefuses, Refuses, workerVars, groupVars, Group
<1>10. ASSUME NEW e, NEW c, AggregatorMarks(e, c) PROVE Engaged'
  <2>1. held[a] # <<>> /\ finalising = "no"
    BY <1>10 DEF AggregatorMarks, Handles
  <2>2. UNCHANGED held \/ finalising' = "no"
    BY <1>10, <2>1 DEF AggregatorMarks, groupVars
  <2> QED BY <2>1, <2>2 DEF Engaged
<1>11. CASE AggregatorSaves \/ AggregatorCompletes
  <2>1. CASE AggregatorSaves
    BY <2>1 DEF AggregatorSaves, groupVars, Engaged
  <2> QED BY <1>2, <1>11, <2>1 DEF AggregatorCompletes
<1> QED BY <1>4, <1>5, <1>6, <1>7, <1>9, <1>10, <1>11 DEF Next, Work

-----------------------------------------------------------------------------
(***************************************************************************)
(* How the two ends of the pipeline finish: ingest with the last chunk or  *)
(* the task, the task with the aggregator that marked the last chunk.      *)
(***************************************************************************)
FaultInv == /\ faults \in Seq(Group \cup {"ingest", "retry", "interrupted", "stall"})
            /\ Len(faults) <= MaxFaults

(* The aggregator stopped, or was interrupted and ran again.               *)
CutShort(f) == ToSet(f) \cap {"aggregator", "interrupted"} # {}

FinishInv ==
  /\ ingest \in {"drain", "ended"} => ingest_complete \/ stage \in Terminal
  /\ tracking_done = Chunk /\ stage \notin Terminal => finalising # "no" \/ CutShort(faults)

LEMMA StepFaults ==
  ASSUME FaultInv, [Next]_vars
  PROVE  /\ FaultInv' /\ ToSet(faults) \subseteq ToSet(faults')
         /\ \A g \in Group : Restarts(g) => g \in ToSet(faults')
         /\ AggregatorInterrupted => "interrupted" \in ToSet(faults')
<1> DEFINE Kinds == Group \cup {"ingest", "retry", "interrupted", "stall"}
<1>1. faults \in Seq(Kinds) /\ Len(faults) <= MaxFaults
  BY DEF FaultInv
<1>2. ASSUME NEW k \in Kinds, Fault(k)
      PROVE  FaultInv' /\ ToSet(faults) \subseteq ToSet(faults') /\ k \in ToSet(faults')
  <2>1. faults' = Append(faults, k) /\ Len(faults) < MaxFaults
    BY <1>2 DEF Fault
  <2> HIDE DEF Kinds
  <2>2. /\ Len(faults) \in Nat /\ faults' \in Seq(Kinds) /\ Len(faults') = Len(faults) + 1
        /\ DOMAIN faults = 1..Len(faults) /\ DOMAIN faults' = 1..(Len(faults) + 1)
        /\ faults'[Len(faults) + 1] = k
        /\ \A i \in 1..Len(faults) : faults'[i] = faults[i]
    BY <1>1, <2>1
  <2>3. Len(faults') <= MaxFaults
    BY <2>1, <2>2, PipelineAssumption
  <2>4. \A i \in 1..Len(faults) : i \in 1..(Len(faults) + 1)
    BY <2>2
  <2>5. ToSet(faults) \subseteq ToSet(faults')
    BY <2>2, <2>4 DEF ToSet
  <2>6. k \in ToSet(faults')
    <3>1. Len(faults) + 1 \in DOMAIN faults'
      BY <2>2
    <3> QED BY <2>2, <3>1 DEF ToSet
  <2> QED BY <2>2, <2>3, <2>5, <2>6 DEF FaultInv, Kinds
<1>3. (UNCHANGED faults) \/ \E k \in Kinds : Fault(k)
  <2>1. CASE IngestNext \/ UNCHANGED vars
    BY <2>1 DEF IngestNext, IngestDecodes, IngestProbes, IngestPublishes, IngestReports,
       IngestGivesUp, IngestCompletes, IngestDrains, IngestOnly, vars
  <2>2. CASE IngestRestarts \/ IngestStalls \/ AggregatorInterrupted
    BY <2>2 DEF IngestRestarts, IngestStalls, AggregatorInterrupted
  <2>3. ASSUME NEW g \in Group, Restarts(g) \/ ReplyLost(g)
        PROVE  \E k \in Kinds : Fault(k)
    BY <2>3 DEF Restarts, ReplyLost
  <2>4. ASSUME NEW g \in Group, Claims(g) \/ Reads(g) PROVE UNCHANGED faults
    BY <2>4 DEF Claims, Reads
  <2>5. ASSUME NEW e, NEW c, \/ CutDetects(e, c) \/ CutPublishes(e, c) \/ CutRefuses(e, c)
                             \/ CoordinatorRecords(e, c) \/ AggregatorMarks(e, c)
                             \/ TrackerPublishes(e, c) \/ TrackerRefuses(e, c)
        PROVE  (UNCHANGED faults) \/ Fault("retry")
    BY <2>5 DEF CutDetects, CutPublishes, CutRefuses, CoordinatorRecords, TrackerPublishes,
       TrackerRefuses, Refuses, AggregatorMarks, AckOrRetry
  <2>6. ASSUME NEW g \in Group, Work(g) PROVE (UNCHANGED faults) \/ Fault("retry")
    <3>1. AggregatorSaves \/ AggregatorCompletes => (UNCHANGED faults) \/ Fault("retry")
      BY DEF AggregatorSaves, AggregatorCompletes, AckOrRetry
    <3> QED BY <2>4, <2>5, <2>6, <3>1 DEF Work
  <2>7. "retry" \in Kinds
    OBVIOUS
  <2> HIDE DEF Kinds
  <2> QED BY <2>1, <2>2, <2>3, <2>6, <2>7 DEF Next
<1>4. /\ \A g \in Group : Restarts(g) => g \in ToSet(faults')
      /\ AggregatorInterrupted => "interrupted" \in ToSet(faults')
  BY <1>2 DEF Restarts, AggregatorInterrupted
<1>5. CASE UNCHANGED faults
  BY <1>4, <1>5 DEF FaultInv
<1> QED BY <1>2, <1>3, <1>4, <1>5

(* Only the aggregator stops finishing, and only it counts chunks.         *)
MayFinish ==
  /\ \/ UNCHANGED finalising \/ finalising' # "no" \/ AggregatorCompletes
     \/ Restarts("aggregator") \/ AggregatorInterrupted
  /\ UNCHANGED tracking_done \/ \E e \in Entry("aggregator"), c \in Chunk :
                                   AggregatorMarks(e, c)

LEMMA AggregatorAlone ==
  ASSUME [Next]_vars
  PROVE  MayFinish
<1>1. ASSUME UNCHANGED <<finalising, tracking_done>> PROVE MayFinish
  BY <1>1 DEF MayFinish
<1>2. CASE IngestNext \/ IngestStalls \/ IngestRestarts \/ UNCHANGED vars
  BY <1>1, <1>2 DEF IngestNext, IngestDecodes, IngestProbes, IngestPublishes, IngestReports,
     IngestGivesUp, IngestCompletes, IngestDrains, IngestOnly, IngestStalls, IngestRestarts,
     PublishIngestChunkOnce, MarkIngestComplete, vars, workerVars, repositoryVars, doneVars
<1>10. CASE AggregatorInterrupted
  BY <1>10 DEF AggregatorInterrupted, repositoryVars, doneVars, MayFinish
<1>3. ASSUME NEW g \in Group, Claims(g) \/ Reads(g) \/ ReplyLost(g) PROVE MayFinish
  BY <1>1, <1>3 DEF Claims, Reads, HandOut, ReplyLost, workerVars, repositoryVars, doneVars
<1>4. ASSUME NEW g \in Group, Restarts(g) PROVE MayFinish
  BY <1>4 DEF Restarts, Forgets, repositoryVars, doneVars, MayFinish
<1>5. ASSUME NEW e, NEW c, \/ CutDetects(e, c) \/ CutPublishes(e, c) \/ CutRefuses(e, c)
                           \/ CoordinatorRecords(e, c)
                           \/ TrackerPublishes(e, c) \/ TrackerRefuses(e, c)
      PROVE  MayFinish
  BY <1>1, <1>5 DEF CutDetects, CutPublishes, CutRefuses, CoordinatorRecords,
     RecordCutAndDispatch, TrackerPublishes, PublishTrackingResultInOrder, TrackerRefuses,
     Refuses, workerVars, repositoryVars, doneVars
<1>6. ASSUME NEW e \in Entry("aggregator"), NEW c \in Chunk, AggregatorMarks(e, c) PROVE MayFinish
  <2>1. UNCHANGED finalising \/ finalising' # "no"
    BY <1>6 DEF AggregatorMarks
  <2> QED BY <1>6, <2>1 DEF MayFinish
<1>7. CASE AggregatorSaves
  BY <1>7 DEF AggregatorSaves, SaveResult, doneVars, MayFinish
<1>8. CASE AggregatorCompletes
  BY <1>8 DEF AggregatorCompletes, doneVars, MayFinish
<1>9. ASSUME NEW g \in Group, Work(g) PROVE MayFinish
  BY <1>3, <1>5, <1>6, <1>7, <1>8, <1>9 DEF Work
<1> QED BY <1>2, <1>3, <1>4, <1>9, <1>10 DEF Next

(* The chunks that are behind a tracking result.                           *)
LEMMA BehindResults ==
  ASSUME F!IndInv, NEW e \in Entry("aggregator")
  PROVE  /\ Stream("aggregator")[e] \in cut_done
         /\ total_chunks = TotalChunks
<1> DEFINE n == ingest_published_chunks
           k == next_tracking_chunk
           r == next_tracking_result_chunk
<1>1. /\ n \in Nat /\ k \in Nat /\ r \in Nat /\ r <= k
      /\ ingest_published = 0..(n - 1) /\ cut_done \subseteq ingest_published
      /\ 0..(k - 1) \subseteq cut_done /\ tracking_results = Run(0, r)
      /\ total_chunks \in {0, TotalChunks} /\ (total_chunks = 0 => n = 0)
  BY TotalChunksAssumption DEF F!IndInv, F!TypeOK, F!CounterType, F!StatusType, F!FlowInv,
     F!StatusInv, F!ResultsInOrder, F!Run, Run
<1> HIDE DEF n, k, r
<1>2. e \in 1..r /\ tracking_results[e] = e - 1
  <2>1. Len(Run(0, r)) = r
    BY <1>1 DEF Run
  <2>2. e \in 1..r
    BY <1>1, <2>1 DEF Entry, Stream
  <2> QED BY <1>1, <2>2 DEF Run
<1>3. e - 1 \in 0..(k - 1)
  BY <1>1, <1>2
<1>4. e - 1 \in cut_done /\ e - 1 \in 0..(n - 1)
  BY <1>1, <1>3
<1>5. total_chunks # 0
  BY <1>1, <1>4
<1> QED BY <1>1, <1>2, <1>4, <1>5 DEF Stream

(* The counter of the aggregator, in terms of this module.                 *)
LEMMA TrackedCount ==
  ASSUME F!IndInv
  PROVE  tracking_completed_chunks = Cardinality(tracking_done)
<1>1. tracking_completed_chunks = F!Cardinality(tracking_done)
  BY DEF F!IndInv, F!FlowInv
<1> QED BY <1>1 DEF F!Cardinality, Cardinality

(* The mark of the last chunk makes the aggregator go on.                  *)
LEMMA LastMark ==
  ASSUME F!IndInv, F!IndInv', NEW e \in Entry("aggregator"), NEW c \in Chunk,
         AggregatorMarks(e, c), tracking_done # Chunk, tracking_done' = Chunk
  PROVE  finalising' # "no"
<1>1. c \in cut_done /\ total_chunks = TotalChunks
  BY BehindResults DEF AggregatorMarks, Handles
<1>2. NewlyDone(c)
  BY DEF AggregatorMarks, MarkChunkTrackingDone, NewlyDone
<1>3. tracking_completed_chunks' = tracking_completed_chunks + 1
  BY <1>2 DEF AggregatorMarks, MarkChunkTrackingDone
<1>4. tracking_completed_chunks' = TotalChunks
  <2>1. tracking_completed_chunks' = Cardinality(tracking_done')
    <3>1. tracking_completed_chunks' = F!Cardinality(tracking_done')
      BY DEF F!IndInv, F!FlowInv
    <3> QED BY <3>1 DEF F!Cardinality, Cardinality
  <2>2. Cardinality(Chunk) = TotalChunks
    BY FS_Interval, TotalChunksAssumption DEF Chunk
  <2> QED BY <2>1, <2>2
<1>5. LastDone(c)
  BY <1>1, <1>2, <1>3, <1>4, TotalChunksAssumption DEF LastDone
<1> QED BY <1>1, <1>5 DEF AggregatorMarks

LEMMA StepFinish ==
  ASSUME F!IndInv, F!IndInv', IngestInv, FaultInv, FinishInv, [Next]_vars
  PROVE  FinishInv'
<1>1. stage \in Terminal => stage' = stage
  <2>1. [F!Next]_F!vars
    BY StepImplements, SameFlow
  <2>2. stage' # stage => stage' \in F!Allowed(stage)
    BY <2>1, F!StepFollowsTable, TotalChunksAssumption, UpdateEveryAssumption
  <2> QED BY <2>2 DEF F!Allowed, F!Terminal, Terminal
<1>2. ASSUME ingest' \in {"drain", "ended"} PROVE (ingest_complete \/ stage \in Terminal)'
  <2>1. CASE IngestNext
    <3>1. CASE IngestDecodes
      BY <1>2, <3>1 DEF IngestDecodes, IngestOnly, ingestVars, statusVars
    <3>2. CASE IngestReports
      BY <1>2, <3>2 DEF IngestReports, IngestOnly, ingestVars
    <3>3. CASE IngestGivesUp
      BY <3>3 DEF IngestGivesUp, statusVars
    <3>4. CASE IngestDrains
      BY <1>1, <3>4 DEF IngestDrains, IngestOnly, ingestVars, FinishInv
    <3>5. ~IngestProbes /\ ~IngestPublishes /\ ~IngestCompletes
      BY <1>2 DEF IngestProbes, IngestPublishes, IngestCompletes
    <3> QED BY <2>1, <3>1, <3>2, <3>3, <3>4, <3>5 DEF IngestNext
  <2>2. ~IngestRestarts
    BY <1>2 DEF IngestRestarts
  <2>3. CASE IngestStalls
    <3>1. stage \in F!Stage
      BY DEF F!IndInv, F!TypeOK, F!StatusType
    <3>2. stage' = "failed"
      BY <2>3, <3>1
      DEF IngestStalls, UpdateStatus, Refused, Rank, Allowed, Terminal, F!Stage, statusVars
    <3> QED BY <3>2 DEF Terminal
  <2>4. CASE ~IngestNext /\ ~IngestStalls
    <3>1. UNCHANGED <<ingest, ingestVars>>
      BY <2>2, <2>4, IngestAlone DEF vars, workerVars, repositoryVars
    <3> QED BY <1>1, <1>2, <3>1 DEF FinishInv, ingestVars
  <2> QED BY <2>1, <2>3, <2>4
<1>3. ASSUME tracking_done' = Chunk, stage' \notin Terminal
      PROVE  finalising' # "no" \/ CutShort(faults')
  <2>1. stage \notin Terminal
    BY <1>1, <1>3
  <2>2. CASE tracking_done # Chunk
    BY <1>3, <2>2, AggregatorAlone, LastMark DEF MayFinish
  <2>3. CASE tracking_done = Chunk
    <3>1. finalising # "no" \/ CutShort(faults)
      BY <2>1, <2>3 DEF FinishInv
    <3>2. /\ CutShort(faults) => CutShort(faults')
          /\ (Restarts("aggregator") \/ AggregatorInterrupted) => CutShort(faults')
      BY StepFaults DEF Group, CutShort
    <3>3. ~AggregatorCompletes
      <4>1. stage = "aggregating"
        <5>1. stage \in F!Stage /\ stage # "failed" /\ stage # "completed"
          BY <2>1 DEF F!IndInv, F!TypeOK, F!StatusType, Terminal
        <5>2. tracking_done = F!Chunk
          BY <2>3 DEF F!Chunk, Chunk
        <5> QED BY <5>1, <5>2 DEF F!IndInv, F!StatusInv, F!StageMatchesWork
      <4>2. UpdateStatus("completed", 100, 0) => stage' = "completed"
        BY <4>1 DEF UpdateStatus, Refused, Rank, Allowed, Terminal
      <4> QED BY <1>3, <4>2 DEF AggregatorCompletes, Terminal
    <3> QED BY <3>1, <3>2, <3>3, AggregatorAlone DEF MayFinish
  <2> QED BY <2>2, <2>3
<1> QED BY <1>2, <1>3 DEF FinishInv

(* When all is quiet, every chunk that ingest has published is tracked.    *)
LEMMA QuietTracked ==
  ASSUME F!IndInv, GroupInv, Quiet, stage # "failed"
  PROVE  0..(ingest_published_chunks - 1) \subseteq tracking_done
<1> DEFINE n == ingest_published_chunks
<1>1. ASSUME NEW g \in Group, NEW c \in Entries(Stream(g)) PROVE HasEffect(g, c)
  <2>1. PICK e \in 1..Len(Stream(g)) : c = Stream(g)[e]
    BY <1>1 DEF Entries
  <2>2. delivered[g] \in Nat /\ pending[g] = {} /\ NewEntries(g) = {}
    BY DEF GroupInv, Quiet
  <2>3. Len(Stream(g)) \in Nat
    BY DEF F!IndInv, F!TypeOK, F!StreamType
  <2>4. e \in Acked(g)
    BY <2>1, <2>2, <2>3 DEF NewEntries, Acked
  <2> QED BY <2>1, <2>4, AckedHasEffect DEF GroupInv
<1>2. n \in 0..TotalChunks /\ Entries(video_chunks) = 0..(n - 1) /\ TotalChunks \in Nat
  <2>1. n \in 0..TotalChunks /\ video_chunks = Run(0, n) /\ TotalChunks \in Nat
    BY TotalChunksAssumption DEF F!IndInv, F!TypeOK, F!CounterType, F!FlowInv, F!Run, Run
  <2> HIDE DEF n
  <2>2. Entries(Run(0, n)) = 0..(n - 1)
    BY <2>1 DEF Entries, Run
  <2> QED BY <2>1, <2>2
<1> HIDE DEF n
<1>3. 0..(n - 1) \subseteq cut_done
  BY <1>1, <1>2 DEF HasEffect, Stream, Group
<1>4. 0..(n - 1) \subseteq Entries(tracking_jobs)
  <2> DEFINE k == next_tracking_chunk
  <2>1. k \in 0..TotalChunks /\ k \notin cut_done /\ tracking_jobs = Run(0, k)
    BY DEF F!IndInv, F!TypeOK, F!CounterType, F!FlowInv, F!DispatchInOrder, F!Run, Run
  <2> HIDE DEF k
  <2>2. n <= k
    BY <1>2, <1>3, <2>1
  <2>3. Entries(Run(0, k)) = 0..(k - 1)
    <3>1. k \in Nat
      BY <1>2, <2>1
    <3> QED BY ONLY <3>1 DEF Entries, Run
  <2> QED BY <1>2, <2>1, <2>2, <2>3
<1>5. 0..(n - 1) \subseteq tracking_done
  BY <1>1, <1>4 DEF HasEffect, Stream, Group
<1> QED BY <1>5 DEF n

LEMMA QuietGoesOn ==
  ASSUME F!IndInv, GroupInv, HeldInv, Engaged, FinishInv
  PROVE  NeverStuck
<1> SUFFICES ASSUME Quiet, stage \notin Terminal
             PROVE  \/ /\ tracking_done = Chunk
                       /\ ToSet(faults) \cap {"aggregator", "interrupted"} # {}
                    \/ /\ ingest \notin {"drain", "ended"}
                       /\ ingest = "publish" => HasCapacity
  BY DEF NeverStuck
<1> DEFINE n == ingest_published_chunks
<1>1. /\ n \in 0..TotalChunks /\ TotalChunks \in Nat \ {0}
      /\ tracking_done \in SUBSET Chunk
      /\ tracking_completed_chunks = Cardinality(tracking_done)
      /\ (ingest_complete => n = TotalChunks)
  <2>1. /\ n \in 0..TotalChunks /\ TotalChunks \in Nat \ {0}
        /\ tracking_done \in SUBSET Chunk
        /\ (ingest_complete => n = TotalChunks)
    BY TotalChunksAssumption DEF F!IndInv, F!TypeOK, F!CounterType, F!FlagType, F!FlowInv,
       F!Chunk, Chunk
  <2> QED BY <2>1, TrackedCount
<1>2. 0..(n - 1) \subseteq tracking_done
  BY QuietTracked DEF Terminal
<1> HIDE DEF n
<1>3. CASE ingest \in {"drain", "ended"}
  <2>1. n = TotalChunks
    BY <1>1, <1>3 DEF FinishInv
  <2>2. tracking_done = Chunk
    BY <1>1, <1>2, <2>1 DEF Chunk
  <2>3. finalising = "no"
    <3>1. pending["aggregator"] = {} /\ held["aggregator"] \in Seq(pending["aggregator"])
      BY DEF Quiet, HeldInv, Group
    <3>2. held["aggregator"] \in Seq({})
      BY <3>1
    <3>3. held["aggregator"] = <<>>
      BY <3>2
    <3> QED BY <3>3 DEF Engaged
  <2> QED BY <2>2, <2>3 DEF FinishInv, CutShort
<1>4. CASE ingest \notin {"drain", "ended"}
  <2>1. IsFiniteSet(Chunk)
    BY <1>1, FS_Interval DEF Chunk
  <2>2. IsFiniteSet(tracking_done)
    BY <1>1, <2>1, FS_Subset
  <2>3. Cardinality(0..(n - 1)) = n
    BY <1>1, FS_Interval
  <2>4. Cardinality(0..(n - 1)) <= Cardinality(tracking_done) /\ Cardinality(tracking_done) \in Nat
    BY <1>2, <2>2, FS_Subset, FS_CardinalityType
  <2>5. n - tracking_completed_chunks < MaxInflight
    BY <1>1, <2>3, <2>4, PipelineAssumption
  <2> QED BY <1>4, <2>5 DEF HasCapacity, n
<1> QED BY <1>3, <1>4

(* Where the ingest handler can be.                                        *)
IngestPlace == {"decoding", "probed", "publish", "report", "drain", "ended"}

LEMMA StepPlace ==
  ASSUME ingest \in IngestPlace, [Next]_vars
  PROVE  ingest' \in IngestPlace
<1>1. CASE IngestNext
  BY <1>1 DEF IngestNext, IngestDecodes, IngestProbes, IngestPublishes, IngestReports,
     IngestGivesUp, IngestCompletes, IngestDrains, IngestPlace
<1>2. CASE IngestRestarts \/ IngestStalls
  BY <1>2 DEF IngestRestarts, IngestStalls, IngestPlace
<1> QED BY <1>1, <1>2, IngestAlone DEF vars, workerVars

(* What is needed of the groups and of the two ends, in one invariant.     *)
EndsInv == HeldInv /\ Engaged /\ FaultInv /\ FinishInv /\ ingest \in IngestPlace

LEMMA EndsInvariance == Spec => []EndsInv
<1>1. Init => EndsInv
  <2> SUFFICES ASSUME Init PROVE EndsInv
    OBVIOUS
  <2>1. HeldInv
    <3>1. held = [g \in Group |-> <<>>] /\ \A g \in Group : held[g] = <<>> /\ pending[g] = {}
      BY DEF Init
    <3>2. held \in [Group -> Seq(Nat)]
      BY <3>1
    <3> QED BY <3>1, <3>2 DEF HeldInv, Ascending
  <2>2. FaultInv
    <3>1. faults = <<>>
      BY DEF Init
    <3> QED BY <3>1, PipelineAssumption DEF FaultInv
  <2>3. FinishInv
    <3>1. tracking_done = {} /\ 0 \in Chunk /\ ingest = "decoding"
      BY TotalChunksAssumption DEF Init, RepositoryInit, Chunk
    <3> QED BY <3>1 DEF FinishInv
  <2> QED BY <2>1, <2>2, <2>3 DEF Init, EndsInv, Engaged, IngestPlace
<1>2. F!IndInv /\ F!IndInv' /\ IngestInv /\ GroupInv /\ EndsInv /\ [Next]_vars => EndsInv'
  BY StepHolds, StepEngaged, StepFaults, StepFinish, StepPlace DEF EndsInv
<1> QED BY <1>1, <1>2, Invariance, GroupInvariance, PTL DEF Spec

(* The type of the groups, of the streams and of the processes.            *)
THEOREM TypeCorrect == Spec => []TypeOK
<1>1. F!IndInv /\ IngestInv /\ GroupInv /\ EndsInv => TypeOK
  <2> SUFFICES ASSUME F!IndInv, IngestInv, GroupInv, EndsInv
               PROVE  TypeOK
    OBVIOUS
  <2>1. finalising \in {"no", "save", "complete"}
    BY DEF F!IndInv, F!TypeOK, F!StatusType
  <2>2. ASSUME NEW g \in Group
        PROVE  /\ delivered[g] \in 0..Len(Stream(g))
               /\ pending[g] \subseteq 1..delivered[g]
               /\ held[g] \in Seq(pending[g]) /\ Ascending(held[g])
    <3>1. delivered[g] \in Nat /\ delivered[g] <= Len(Stream(g))
      BY <2>2 DEF GroupInv
    <3>2. Len(Stream(g)) \in Nat
      BY <2>2 DEF Stream, Group, F!IndInv, F!TypeOK, F!StreamType, IngestInv
    <3> QED BY <2>2, <3>1, <3>2 DEF EndsInv, HeldInv
  <2> QED BY <2>1, <2>2 DEF TypeOK, IngestInv, EndsInv, FaultInv, IngestPlace
<1> QED BY <1>1, Invariance, GroupInvariance, EndsInvariance, PTL

(* The whole pipeline is never stuck: whatever was retried, restarted or   *)
(* lost, when no group has an entry left, the window lets ingest go on, or *)
(* the task is at its end, or every chunk is tracked and an aggregator     *)
(* stopped or was interrupted over the last one.                           *)
THEOREM NoneStuck == Spec => []NeverStuck
<1>1. F!IndInv /\ GroupInv /\ EndsInv => NeverStuck
  BY QuietGoesOn DEF EndsInv
<1> QED BY <1>1, Invariance, GroupInvariance, EndsInvariance, PTL

====
