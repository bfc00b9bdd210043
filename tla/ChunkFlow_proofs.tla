-------------------------- MODULE ChunkFlow_proofs --------------------------
(***************************************************************************)
(* Proofs about ChunkFlow for every number of chunks.                      *)
(*                                                                         *)
(* The inductive invariant IndInv has two halves.  FlowInv says how far    *)
(* the chunks have come: each stream is an initial run of the chunks, and  *)
(* each set of flags lies within the previous one.  StatusInv relates the  *)
(* stage and the progress to it.                                           *)
(***************************************************************************)
EXTENDS ChunkFlow, FiniteSetTheorems, TLAPS

(* How far the chunks have come.                                           *)
FlowInv ==
  /\ ingest_published = 0..(ingest_published_chunks - 1)
  /\ video_chunks = Run(0, ingest_published_chunks)
  /\ ingest_complete => ingest_published_chunks = TotalChunks
  /\ cut_results \subseteq ingest_published
  /\ cut_done \subseteq cut_results
  /\ tracking_job_payload \subseteq cut_done
  /\ cut_done \subseteq tracking_job_payload \cup 0..(next_tracking_chunk - 1)
  /\ 0..(next_tracking_chunk - 1) \subseteq cut_done
  /\ next_tracking_chunk \notin cut_done
  /\ DispatchInOrder
  /\ ResultsInOrder
  /\ next_tracking_result_chunk <= next_tracking_chunk
  /\ tracking_done \subseteq 0..(next_tracking_result_chunk - 1)
  /\ cut_completed_chunks = Cardinality(cut_done)
  /\ tracking_completed_chunks = Cardinality(tracking_done)

(* What stage, total and result say about it.                              *)
StatusInv ==
  /\ total_chunks = 0 => ingest_published_chunks = 0
  /\ stage # "failed" =>
       (total_chunks = 0 <=> stage \in {"queued", "downloading", "decoding"})
  /\ StageMatchesWork
  /\ finalising # "no" => tracking_done = Chunk
  /\ finalising = "complete" => result = Chunk
  /\ CompleteResult

IndInv == TypeOK /\ FlowInv /\ StatusInv

-----------------------------------------------------------------------------
(* Counting a set of chunks.                                               *)
LEMMA ChunkCount ==
  ASSUME NEW S \in SUBSET Chunk
  PROVE  /\ IsFiniteSet(S)
         /\ Cardinality(S) \in 0..TotalChunks
         /\ Cardinality(S) = TotalChunks <=> S = Chunk
         /\ \A c \in Chunk \ S : Cardinality(S \cup {c}) = Cardinality(S) + 1
<1>1. /\ IsFiniteSet(Chunk)
      /\ Cardinality(Chunk) = TotalChunks
  BY FS_Interval, TotalChunksAssumption DEF Chunk
<1>2. /\ IsFiniteSet(S)
      /\ Cardinality(S) <= Cardinality(Chunk)
      /\ Cardinality(S) = Cardinality(Chunk) => S = Chunk
  BY <1>1, FS_Subset
<1>3. Cardinality(S) \in Nat
  BY <1>2, FS_CardinalityType
<1>4. \A c \in Chunk \ S : Cardinality(S \cup {c}) = Cardinality(S) + 1
  BY <1>2, FS_AddElement
<1> QED
  BY <1>1, <1>2, <1>3, <1>4, TotalChunksAssumption

(* A run of chunks is a sequence of chunks, and holds exactly its range.   *)
LEMMA RunFacts ==
  ASSUME NEW n \in 0..TotalChunks
  PROVE  /\ Run(0, n) \in Seq(Chunk)
         /\ Len(Run(0, n)) = n
         /\ Entries(Run(0, n)) = 0..(n - 1)
         /\ n < TotalChunks => Append(Run(0, n), n) = Run(0, n + 1)
         /\ \A m \in n..TotalChunks : Run(0, n) \o Run(n, m) = Run(0, m)
<1> USE TotalChunksAssumption DEF Run, Chunk
<1>1. /\ Run(0, n) \in Seq(Chunk)
      /\ Len(Run(0, n)) = n
  OBVIOUS
<1>2. Entries(Run(0, n)) = 0..(n - 1)
  <2>1. \A i \in 1..n : Run(0, n)[i] = i - 1
    OBVIOUS
  <2>2. \A j \in 0..(n - 1) : j + 1 \in 1..n /\ Run(0, n)[j + 1] = j
    OBVIOUS
  <2>3. ASSUME NEW e
        PROVE  e \in Entries(Run(0, n)) <=> e \in 0..(n - 1)
    <3>1. e \in Entries(Run(0, n)) => \E i \in 1..n : e = Run(0, n)[i]
      BY <1>1 DEF Entries
    <3>2. e \in 0..(n - 1) => e \in Entries(Run(0, n))
      BY <1>1, <2>2 DEF Entries
    <3> QED
      BY <2>1, <3>1, <3>2
  <2> QED
    BY <2>3
<1>3. n < TotalChunks => Append(Run(0, n), n) = Run(0, n + 1)
  OBVIOUS
<1>4. ASSUME NEW m \in n..TotalChunks
      PROVE  Run(0, n) \o Run(n, m) = Run(0, m)
  OBVIOUS
<1> QED
  BY <1>1, <1>2, <1>3, <1>4

(* A share of a phase is at most the phase.                                *)
LEMMA ShareBound ==
  ASSUME NEW k \in Nat, NEW b \in Nat \ {0}, NEW a \in 0..b
  PROVE  (k * a) \div b \in 0..k
<1> DEFINE q == (k * a) \div b
<1>1. /\ q \in Int
      /\ b * q <= k * a
      /\ k * a < b * q + b
  OBVIOUS
<1>2. k * a <= k * b /\ k * a >= 0 /\ k * a \in Int /\ k * b \in Int
  OBVIOUS
<1> HIDE DEF q
<1>3. q <= k
  <2> SUFFICES ASSUME q >= k + 1 PROVE FALSE
    BY <1>1
  <2>1. b * q >= b * (k + 1)
    BY <1>1
  <2>2. b * (k + 1) = k * b + b
    OBVIOUS
  <2> QED
    BY <1>1, <1>2, <2>1, <2>2
<1>4. q >= 0
  <2> SUFFICES ASSUME q <= -1 PROVE FALSE
    BY <1>1
  <2>1. b * q <= b * (-1)
    BY <1>1
  <2> QED
    BY <1>1, <1>2, <2>1
<1> QED
  BY <1>1, <1>3, <1>4 DEF q

(* What the two counting scripts may add to the progress.                  *)
LEMMA ShareType ==
  ASSUME TypeOK, NEW n \in 0..TotalChunks
  PROVE  Share(n) \in 0..30
<1>1. CASE total_chunks > 0
  <2>1. total_chunks = TotalChunks /\ Smaller(n, total_chunks) = n
    BY <1>1, TotalChunksAssumption DEF TypeOK, StatusType, Smaller
  <2>2. (30 * n) \div TotalChunks \in 0..30
    BY ShareBound, TotalChunksAssumption
  <2> QED
    BY <1>1, <2>1, <2>2 DEF Share
<1>2. CASE ~(total_chunks > 0)
  BY <1>2 DEF Share
<1> QED
  BY <1>1, <1>2

(* In a reachable state no chunk at or after the cursor was dispatched, so *)
(* the loop of record_cut_and_dispatch appends a plain run.                *)
LEMMA UndispatchedRun ==
  ASSUME TypeOK, FlowInv, NEW m \in next_tracking_chunk..TotalChunks
  PROVE  Undispatched(next_tracking_chunk, m) = Run(next_tracking_chunk, m)
<1>1. next_tracking_chunk..(m - 1) \cap tracking_job_dispatched = {}
  BY DEF TypeOK, CounterType, FlowInv, DispatchInOrder
<1> QED
  BY <1>1, Zenon DEF Undispatched

-----------------------------------------------------------------------------
LEMMA InitIndInv == Init => IndInv
<1> SUFFICES ASSUME Init PROVE IndInv
  OBVIOUS
<1> USE TotalChunksAssumption DEF Init, RepositoryInit
<1>1. TypeOK
  <2>1. \A S : <<>> \in Seq(S)
    OBVIOUS
  <2>2. /\ video_chunks \in Seq(Chunk)
        /\ tracking_jobs \in Seq(Chunk)
        /\ tracking_results \in Seq(Chunk)
    BY <2>1, Zenon
  <2>3. StatusType
    BY DEF StatusType, Stage
  <2>4. CounterType
    <3>1. ingest_complete \in BOOLEAN
      BY Zenon
    <3> QED
      BY <3>1 DEF CounterType
  <2>5. FlagType
    BY DEF FlagType
  <2> QED
    BY <2>2, <2>3, <2>4, <2>5 DEF TypeOK, StreamType
<1>2. FlowInv
  <2>1. Cardinality({}) = 0
    BY FS_EmptySet
  <2>2. Run(0, 0) = <<>>
    BY DEF Run
  <2> QED
    BY <2>1, <2>2 DEF FlowInv, DispatchInOrder, ResultsInOrder
<1>3. StatusInv
  BY DEF StatusInv, StageMatchesWork, CompleteResult, Chunk
<1> QED
  BY <1>1, <1>2, <1>3 DEF IndInv

(* FlowInv does not mention the status fields and the result.              *)
LEMMA FlowUnchanged ==
  ASSUME FlowInv,
         UNCHANGED <<ingestVars, cutVars, orderVars, doneVars, cut_results>>
  PROVE  FlowInv'
BY DEF FlowInv, DispatchInOrder, ResultsInOrder, Run,
       ingestVars, cutVars, orderVars, doneVars

(* Once every chunk is tracked, every earlier step is finished too.        *)
LEMMA AllTracked ==
  ASSUME IndInv
  PROVE  /\ tracking_done = Chunk <=> tracking_completed_chunks = TotalChunks
         /\ tracking_done = Chunk =>
              /\ cut_done = Chunk
              /\ next_tracking_chunk = TotalChunks
              /\ total_chunks = TotalChunks
<1> USE TotalChunksAssumption
<1>1. tracking_done = Chunk <=> tracking_completed_chunks = TotalChunks
  BY ChunkCount DEF IndInv, FlowInv, TypeOK, FlagType
<1>2. ASSUME tracking_done = Chunk
      PROVE  /\ cut_done = Chunk
             /\ next_tracking_chunk = TotalChunks
             /\ total_chunks = TotalChunks
  <2>1. TotalChunks - 1 \in 0..(next_tracking_result_chunk - 1)
    BY <1>2 DEF IndInv, FlowInv, TypeOK, CounterType, Chunk
  <2>2. next_tracking_chunk = TotalChunks
    BY <2>1 DEF IndInv, FlowInv, TypeOK, CounterType
  <2>3. cut_done = Chunk
    BY <2>2 DEF IndInv, FlowInv, TypeOK, FlagType, Chunk
  <2>4. 0 \in ingest_published
    BY <2>3 DEF IndInv, FlowInv, Chunk
  <2>5. ingest_published_chunks # 0
    BY <2>4 DEF IndInv, FlowInv
  <2>6. total_chunks = TotalChunks
    BY <2>5 DEF IndInv, StatusInv, TypeOK, StatusType
  <2> QED
    BY <2>2, <2>3, <2>6
<1> QED
  BY <1>1, <1>2

-----------------------------------------------------------------------------
(* The types of what the status scripts leave alone.                       *)
LEMMA TypesUnchanged ==
  ASSUME TypeOK,
         UNCHANGED <<ingestVars, cutVars, orderVars, doneVars, result,
                     cut_results>>
  PROVE  CounterType' /\ FlagType' /\ StreamType'
BY DEF TypeOK, CounterType, FlagType, StreamType, ingestVars, cutVars,
       orderVars, doneVars

(* The three early updates of ingest.                                      *)
LEMMA AdvanceKeeps ==
  ASSUME IndInv, IngestAdvances
  PROVE  IndInv'
<1> USE TotalChunksAssumption
<1>1. UNCHANGED <<ingestVars, cutVars, orderVars, doneVars, result, flowVars>>
  BY DEF IngestAdvances
<1>2. FlowInv' /\ CounterType' /\ FlagType' /\ StreamType'
  BY <1>1, FlowUnchanged, TypesUnchanged DEF IndInv, flowVars
<1>3. StatusType /\ StatusInv
  BY DEF IndInv, TypeOK
<1>4. ASSUME NEW s \in {"downloading", "decoding"}, NEW p \in 0..100,
             UpdateStatus(s, p, 0)
      PROVE  StatusType' /\ StatusInv'
  <2>1. /\ stage' \in {stage, s}
        /\ stage' # stage => stage' \in Allowed(stage)
        /\ progress' \in 0..100
        /\ total_chunks' = total_chunks
    BY <1>3, <1>4 DEF UpdateStatus, statusVars, Larger, StatusType
  <2>2. StatusType'
    BY <1>1, <1>3, <2>1 DEF StatusType, Stage, flowVars
  <2>3. StatusInv'
    BY <1>1, <1>3, <2>1 DEF StatusInv, StageMatchesWork, CompleteResult,
         StatusType, Stage, Allowed, Terminal, ingestVars, cutVars, orderVars,
         doneVars, flowVars
  <2> QED
    BY <2>2, <2>3
<1>5. ASSUME Rank(stage) >= Rank("decoding"),
             UpdateStatus("cut_detection", 8, TotalChunks)
      PROVE  StatusType' /\ StatusInv'
  <2>1. /\ stage' \in {stage, "cut_detection"}
        /\ stage' # stage => stage' \in Allowed(stage)
        /\ progress' \in 0..100
        /\ total_chunks' \in {total_chunks, TotalChunks}
    BY <1>3, <1>5 DEF UpdateStatus, statusVars, Larger, StatusType
  <2>2. stage \in {"decoding", "cut_detection", "tracking", "aggregating",
                    "completed", "failed"}
    BY <1>3, <1>5 DEF Rank, StatusType, Stage, Terminal
  <2>3. stage = "decoding" =>
          /\ stage' = "cut_detection"
          /\ total_chunks' = TotalChunks
    BY <1>3, <1>5 DEF UpdateStatus, Refused, Rank, Allowed, Terminal, Larger,
                      StatusType
  <2>4. StatusType'
    BY <1>1, <1>3, <2>1 DEF StatusType, Stage, flowVars
  <2>5. StatusInv'
    BY <1>1, <1>3, <2>1, <2>2, <2>3 DEF StatusInv, StageMatchesWork,
         CompleteResult, StatusType, Stage, Allowed, Terminal, ingestVars,
         cutVars, orderVars, doneVars, flowVars
  <2> QED
    BY <2>4, <2>5
<1> QED
  BY <1>2, <1>4, <1>5 DEF IngestAdvances, IndInv, TypeOK

(* A progress report, and the end of ingest.                               *)
LEMMA ReportKeeps ==
  ASSUME IndInv, IngestReports
  PROVE  IndInv'
<1> USE TotalChunksAssumption
<1>1. UNCHANGED <<ingestVars, cutVars, orderVars, doneVars, result, flowVars>>
  BY DEF IngestReports
<1>2. FlowInv' /\ CounterType' /\ FlagType' /\ StreamType'
  BY <1>1, FlowUnchanged, TypesUnchanged DEF IndInv, flowVars
<1>3. StatusType /\ StatusInv /\ CounterType
  BY DEF IndInv, TypeOK
<1>4. IngestProgress \in 0..100
  <2>1. (22 * ingest_published_chunks) \div TotalChunks \in 0..22
    BY <1>3, ShareBound DEF CounterType
  <2> QED
    BY <2>1 DEF IngestProgress
<1>5. /\ stage' = stage
      /\ progress' \in 0..100
      /\ total_chunks' = total_chunks
  BY <1>3, <1>4 DEF IngestReports, UpdateStatus, statusVars, Larger, StatusType
<1>6. StatusType'
  BY <1>1, <1>3, <1>5 DEF StatusType, flowVars
<1>7. StatusInv'
  BY <1>1, <1>3, <1>5 DEF StatusInv, StageMatchesWork, CompleteResult,
       ingestVars, cutVars, orderVars, doneVars, flowVars
<1> QED
  BY <1>2, <1>6, <1>7 DEF IndInv, TypeOK

LEMMA CompletesKeeps ==
  ASSUME IndInv, IngestCompletes
  PROVE  IndInv'
<1>1. /\ ingest_complete' = TRUE
      /\ ingest_published_chunks >= total_chunks
      /\ total_chunks > 0
      /\ UNCHANGED <<ingest_published_chunks, ingest_published, video_chunks,
                     statusVars, cutVars, orderVars, doneVars, result, flowVars>>
  BY DEF IngestCompletes, MarkIngestComplete
<1>2. ingest_published_chunks = TotalChunks
  BY <1>1, TotalChunksAssumption DEF IndInv, TypeOK, StatusType, CounterType
<1>3. ingest_complete' \in BOOLEAN
  BY <1>1, Zenon
<1>4. TypeOK'
  BY <1>1, <1>3 DEF IndInv, TypeOK, StatusType, CounterType, FlagType, StreamType,
       statusVars, cutVars, orderVars, doneVars, flowVars
<1>5. FlowInv'
  BY <1>1, <1>2 DEF IndInv, FlowInv, DispatchInOrder, ResultsInOrder, Run,
       cutVars, orderVars, doneVars, flowVars
<1>6. StatusInv'
  BY <1>1 DEF IndInv, StatusInv, StageMatchesWork, CompleteResult,
       statusVars, cutVars, orderVars, doneVars, flowVars
<1> QED
  BY <1>4, <1>5, <1>6 DEF IndInv

(* Publication: only the chunk at the counter can be new.                  *)
LEMMA PublishKeeps ==
  ASSUME IndInv, NEW c \in Chunk, IngestPublishes(c)
  PROVE  IndInv'
<1> USE TotalChunksAssumption
<1>1. UNCHANGED <<ingest_complete, statusVars, cutVars, orderVars, doneVars,
                  result, flowVars>>
  BY DEF IngestPublishes, PublishIngestChunkOnce
<1>2. CASE c \in ingest_published
  <2>1. UNCHANGED <<ingest_published, ingest_published_chunks, video_chunks>>
    BY <1>2 DEF IngestPublishes, PublishIngestChunkOnce, MayPublish
  <2>2. UNCHANGED <<ingestVars, cutVars, orderVars, doneVars, result, flowVars>>
    BY <1>1, <2>1 DEF ingestVars
  <2>3. FlowInv' /\ CounterType' /\ FlagType' /\ StreamType'
    BY <2>2, FlowUnchanged, TypesUnchanged DEF IndInv, flowVars
  <2>4. StatusType' /\ StatusInv'
    BY <1>1, <2>2 DEF IndInv, TypeOK, StatusType, StatusInv, StageMatchesWork,
         CompleteResult, statusVars, ingestVars, cutVars, orderVars, doneVars,
         flowVars
  <2> QED
    BY <2>3, <2>4 DEF IndInv, TypeOK
<1>3. CASE c \notin ingest_published
  <2>1. /\ ingest_published' = ingest_published \cup {c}
        /\ ingest_published_chunks' = ingest_published_chunks + 1
        /\ video_chunks' = Append(video_chunks, c)
        /\ total_chunks > 0
        /\ c <= ingest_published_chunks
    BY <1>3 DEF IngestPublishes, PublishIngestChunkOnce, MayPublish
  <2>2. c = ingest_published_chunks
    BY <1>3, <2>1 DEF IndInv, FlowInv, TypeOK, CounterType, Chunk
  <2>3. ingest_published_chunks' \in 0..TotalChunks /\ total_chunks = TotalChunks
    BY <2>1, <2>2 DEF Chunk, IndInv, TypeOK, CounterType, StatusType
  <2>4. /\ ingest_published' = 0..(ingest_published_chunks' - 1)
        /\ video_chunks' = Run(0, ingest_published_chunks')
        /\ video_chunks' \in Seq(Chunk)
    <3>1. ingest_published_chunks \in 0..TotalChunks
      BY DEF IndInv, TypeOK, CounterType
    <3>2. ingest_published' = 0..(ingest_published_chunks' - 1)
      BY <2>1, <2>2, <3>1 DEF IndInv, FlowInv
    <3>3. video_chunks' = Run(0, ingest_published_chunks + 1)
      <4>1. /\ ingest_published_chunks < TotalChunks
            /\ video_chunks = Run(0, ingest_published_chunks)
        BY <2>2, <3>1 DEF Chunk, IndInv, FlowInv
      <4>2. Append(Run(0, ingest_published_chunks), ingest_published_chunks)
              = Run(0, ingest_published_chunks + 1)
        BY <3>1, <4>1, RunFacts
      <4> QED
        BY <2>1, <2>2, <4>1, <4>2
    <3>4. Run(0, ingest_published_chunks + 1) \in Seq(Chunk)
      BY <2>1, <2>3, RunFacts
    <3> QED
      BY <2>1, <3>2, <3>3, <3>4
  <2>5. ingest_complete' => ingest_published_chunks' = TotalChunks
    BY <1>1, <2>2 DEF IndInv, FlowInv, Chunk
  <2>6. TypeOK'
    BY <1>1, <2>1, <2>3, <2>4 DEF IndInv, TypeOK, StatusType, CounterType,
         FlagType, StreamType, statusVars, cutVars, orderVars, doneVars, flowVars
  <2>7. FlowInv'
    BY <1>1, <2>1, <2>4, <2>5 DEF IndInv, FlowInv, DispatchInOrder,
         ResultsInOrder, Run, cutVars, orderVars, doneVars, flowVars
  <2>8. StatusInv'
    BY <1>1, <2>3 DEF IndInv, StatusInv, StageMatchesWork, CompleteResult,
         statusVars, cutVars, orderVars, doneVars, flowVars
  <2> QED
    BY <2>6, <2>7, <2>8 DEF IndInv
<1> QED
  BY <1>2, <1>3

-----------------------------------------------------------------------------
LEMMA CutKeeps ==
  ASSUME IndInv, NEW c \in Chunk, CutDetects(c)
  PROVE  IndInv'
<1>1. /\ cut_results' = cut_results \cup {c}
      /\ UNCHANGED <<repositoryVars, finalising>>
  BY DEF CutDetects
<1>2. UNCHANGED <<statusVars, ingestVars, cutVars, orderVars, doneVars, result>>
  BY <1>1 DEF repositoryVars
<1>3. c \in ingest_published
  <2>1. c \in Entries(Run(0, ingest_published_chunks))
    BY DEF CutDetects, IndInv, FlowInv
  <2>2. ingest_published_chunks \in 0..TotalChunks
    BY DEF IndInv, TypeOK, CounterType
  <2>3. c \in 0..(ingest_published_chunks - 1)
    BY <2>1, <2>2, RunFacts
  <2> QED
    BY <2>3 DEF IndInv, FlowInv
<1>4. TypeOK'
  BY <1>1, <1>2 DEF IndInv, TypeOK, StatusType, CounterType, FlagType, StreamType,
       statusVars, ingestVars, cutVars, orderVars, doneVars
<1>5. FlowInv'
  BY <1>1, <1>2, <1>3 DEF IndInv, FlowInv, DispatchInOrder, ResultsInOrder, Run,
       ingestVars, cutVars, orderVars, doneVars
<1>6. StatusInv'
  BY <1>1, <1>2 DEF IndInv, StatusInv, StageMatchesWork, CompleteResult,
       statusVars, ingestVars, cutVars, orderVars, doneVars
<1> QED
  BY <1>4, <1>5, <1>6 DEF IndInv

(* The tracker: a result is published only at the cursor, and only for a   *)
(* job that was dispatched.                                                *)
LEMMA TrackerKeeps ==
  ASSUME IndInv, NEW c \in Chunk, TrackerPublishes(c)
  PROVE  IndInv'
<1> USE TotalChunksAssumption
<1>1. UNCHANGED <<statusVars, ingestVars, cutVars, doneVars, result, flowVars>>
  BY DEF TrackerPublishes, PublishTrackingResultInOrder
<1>2. CASE ~InOrder(c)
  <2>1. UNCHANGED orderVars
    BY <1>2 DEF TrackerPublishes, PublishTrackingResultInOrder
  <2>2. FlowInv' /\ CounterType' /\ FlagType' /\ StreamType'
    BY <1>1, <2>1, FlowUnchanged, TypesUnchanged DEF IndInv, flowVars
  <2>3. StatusType' /\ StatusInv'
    BY <1>1, <2>1 DEF IndInv, TypeOK, StatusType, StatusInv, StageMatchesWork,
         CompleteResult, statusVars, ingestVars, cutVars, orderVars, doneVars,
         flowVars
  <2> QED
    BY <2>2, <2>3 DEF IndInv, TypeOK
<1>3. CASE InOrder(c)
  <2> DEFINE n == next_tracking_result_chunk
  <2>1. /\ n' = n + 1
        /\ tracking_results' = Append(tracking_results, n)
        /\ c = n
    BY <1>3 DEF TrackerPublishes, PublishTrackingResultInOrder, InOrder
  <2>2. n \in 0..(next_tracking_chunk - 1)
    <3>1. c \in Entries(Run(0, next_tracking_chunk))
      BY DEF TrackerPublishes, IndInv, FlowInv, DispatchInOrder
    <3>2. next_tracking_chunk \in 0..TotalChunks
      BY DEF IndInv, TypeOK, CounterType
    <3> QED
      BY <2>1, <3>1, <3>2, RunFacts
  <2>3. n' \in 0..TotalChunks /\ n' <= next_tracking_chunk /\ n < TotalChunks
    BY <2>1, <2>2 DEF IndInv, TypeOK, CounterType
  <2>4. tracking_results' = Run(0, n')
    <3>1. tracking_results = Run(0, n) /\ n \in 0..TotalChunks
      BY DEF IndInv, FlowInv, ResultsInOrder, TypeOK, CounterType
    <3>2. Append(Run(0, n), n) = Run(0, n + 1)
      BY <2>3, <3>1, RunFacts
    <3> QED
      BY <2>1, <3>1, <3>2
  <2>5. tracking_results' \in Seq(Chunk)
    BY <2>3, <2>4, RunFacts
  <2>6. TypeOK'
    BY <1>1, <2>3, <2>5 DEF IndInv, TypeOK, StatusType, CounterType, FlagType,
         StreamType, statusVars, ingestVars, cutVars, doneVars, flowVars
  <2>7. FlowInv'
    <3>1. tracking_done' \subseteq 0..(n' - 1)
      BY <1>1, <2>1, <2>2 DEF IndInv, FlowInv, TypeOK, CounterType, doneVars
    <3> QED
      BY <1>1, <2>3, <2>4, <3>1 DEF IndInv, FlowInv, DispatchInOrder,
           ResultsInOrder, Run, ingestVars, cutVars, doneVars, flowVars
  <2>8. StatusInv'
    BY <1>1 DEF IndInv, StatusInv, StageMatchesWork, CompleteResult,
         statusVars, ingestVars, cutVars, doneVars, flowVars
  <2> QED
    BY <2>6, <2>7, <2>8 DEF IndInv
<1> QED
  BY <1>2, <1>3

(***************************************************************************)
(* The coordinator.  f is the first chunk without a buffered payload, so   *)
(* the chunks before f have their cut results and f has none: f is the     *)
(* cursor of the next state, and the appended run continues the stream.    *)
(***************************************************************************)
LEMMA CoordinatorKeeps ==
  ASSUME IndInv, NEW c \in Chunk, CoordinatorRecords(c)
  PROVE  IndInv' /\ (stage' # stage => stage' \in Allowed(stage))
<1> USE TotalChunksAssumption
<1> DEFINE new      == c \notin cut_done
           count    == IF new THEN cut_completed_chunks + 1
                              ELSE cut_completed_chunks
           buffered == tracking_job_payload \cup {c}
           n        == next_tracking_chunk
<1>1. PICK f \in n..TotalChunks :
        /\ Frontier(buffered, f)
        /\ cut_done' = cut_done \cup {c}
        /\ cut_completed_chunks' = count
        /\ tracking_jobs' = tracking_jobs \o Undispatched(n, f)
        /\ tracking_job_dispatched' = tracking_job_dispatched \cup n..(f - 1)
        /\ tracking_job_payload' = buffered \ n..(f - 1)
        /\ next_tracking_chunk' = f
        /\ ReportCut(new, count, f)
        /\ UNCHANGED <<ingestVars, orderVars, doneVars, result>>
  BY DEF CoordinatorRecords, RecordCutAndDispatch
<1>2. UNCHANGED <<ingestVars, orderVars, doneVars, result, flowVars>>
      /\ c \in cut_results
  BY <1>1 DEF CoordinatorRecords
<1>3. n \in 0..TotalChunks /\ f \in 0..TotalChunks /\ n <= f
  BY <1>1 DEF IndInv, TypeOK, CounterType
<1>4. /\ n..(f - 1) \subseteq buffered
      /\ f \notin buffered
  BY <1>1 DEF Frontier
<1> HIDE DEF n
<1>5. /\ cut_done' \subseteq Chunk /\ cut_done' \subseteq cut_results
      /\ 0..(f - 1) \subseteq cut_done'
      /\ f \notin cut_done'
      /\ tracking_job_payload' \subseteq cut_done'
      /\ cut_done' \subseteq tracking_job_payload' \cup 0..(f - 1)
  <2>1. /\ cut_done \subseteq Chunk /\ cut_done \subseteq cut_results
        /\ tracking_job_payload \subseteq cut_done
        /\ cut_done \subseteq tracking_job_payload \cup 0..(n - 1)
        /\ 0..(n - 1) \subseteq cut_done
    BY DEF IndInv, FlowInv, TypeOK, FlagType, n
  <2>2. 0..(f - 1) \subseteq cut_done'
    BY <1>1, <1>3, <1>4, <2>1
  <2>3. f \notin cut_done'
    BY <1>1, <1>3, <1>4, <2>1
  <2> QED
    BY <1>1, <1>2, <1>3, <2>1, <2>2, <2>3
<1>6. /\ tracking_jobs' = Run(0, f)
      /\ tracking_job_dispatched' = 0..(f - 1)
  <2>1. tracking_jobs = Run(0, n) /\ tracking_job_dispatched = 0..(n - 1)
    BY DEF IndInv, FlowInv, DispatchInOrder, n
  <2>2. Undispatched(n, f) = Run(n, f)
    BY UndispatchedRun DEF IndInv, n
  <2>3. Run(0, n) \o Run(n, f) = Run(0, f)
    BY <1>3, RunFacts
  <2> QED
    BY <1>1, <1>3, <2>1, <2>2, <2>3
<1>7. tracking_jobs' \in Seq(Chunk)
  BY <1>3, <1>6, RunFacts
<1>8. /\ count = Cardinality(cut_done')
      /\ count \in 0..TotalChunks
  <2>1. cut_done \in SUBSET Chunk /\ cut_completed_chunks = Cardinality(cut_done)
    BY DEF IndInv, FlowInv, TypeOK, FlagType
  <2>2. CASE new
    BY <1>1, <1>5, <2>1, <2>2, ChunkCount
  <2>3. CASE ~new
    <3>1. cut_done' = cut_done
      BY <1>1, <2>3
    <3> QED
      BY <2>1, <2>3, <3>1, ChunkCount
  <2> QED
    BY <2>2, <2>3
<1> HIDE DEF count, new, buffered
<1>9. StatusType /\ Share(count) \in 0..30
  BY <1>8, ShareType DEF IndInv, TypeOK
<1>10. total_chunks' = total_chunks /\ progress' \in 0..100
  <2>1. \/ UNCHANGED statusVars
        \/ /\ progress' = Larger(progress, 30 + Share(count))
           /\ UNCHANGED total_chunks
    BY <1>1, Zenon DEF ReportCut
  <2> QED
    BY <1>9, <2>1 DEF statusVars, Larger, StatusType
<1>11. \/ stage' = stage /\ ~(f > 0 /\ stage = "cut_detection")
       \/ f > 0 /\ stage = "cut_detection" /\ stage' = "tracking"
  BY <1>1 DEF ReportCut, statusVars, Terminal
<1>12. TypeOK'
  <2>1. StatusType'
    BY <1>2, <1>9, <1>10, <1>11 DEF StatusType, Stage, flowVars
  <2>2. CounterType' /\ StreamType'
    BY <1>1, <1>2, <1>3, <1>7, <1>8 DEF IndInv, TypeOK, CounterType, StreamType,
         ingestVars, orderVars, doneVars
  <2>3. FlagType'
    BY <1>2, <1>3, <1>5, <1>6 DEF IndInv, TypeOK, FlagType, Chunk, ingestVars,
         doneVars, flowVars
  <2> QED
    BY <2>1, <2>2, <2>3 DEF TypeOK
<1>13. FlowInv'
  <2>1. DispatchInOrder' /\ ResultsInOrder'
    BY <1>1, <1>2, <1>6 DEF DispatchInOrder, ResultsInOrder, IndInv, FlowInv, Run,
         orderVars
  <2>2. next_tracking_result_chunk' <= next_tracking_chunk'
    BY <1>1, <1>2, <1>3 DEF IndInv, FlowInv, TypeOK, CounterType, orderVars, n
  <2> QED
    BY <1>1, <1>2, <1>5, <1>8, <2>1, <2>2 DEF IndInv, FlowInv, Run, ingestVars,
         orderVars, doneVars, flowVars
<1>14. StatusInv'
  <2>1. stage \notin {"queued", "downloading", "decoding"}
    <3>1. c \in ingest_published
      BY <1>2 DEF IndInv, FlowInv
    <3>2. ingest_published_chunks # 0
      BY <3>1 DEF IndInv, FlowInv
    <3> QED
      BY <3>2 DEF IndInv, StatusInv
  <2>2. n > 0 => f > 0
    BY <1>3
  <2>3. stage # "failed" /\ f > 0 => stage' \in {"tracking", "aggregating", "completed"}
    BY <1>9, <1>11, <2>1 DEF StatusType, Stage
  <2>4. stage # "failed" /\ f = 0 => stage' = "cut_detection"
    BY <1>3, <1>9, <1>11, <2>1 DEF IndInv, StatusInv, StageMatchesWork, StatusType,
         Stage, n
  <2> QED
    BY <1>1, <1>2, <1>3, <1>9, <1>10, <1>11, <2>1, <2>3, <2>4 DEF IndInv,
       StatusInv, StageMatchesWork, CompleteResult, StatusType, Stage,
       ingestVars, orderVars, doneVars, flowVars
<1>15. stage' # stage => stage' \in Allowed(stage)
  BY <1>11 DEF Allowed, Terminal
<1> QED
  BY <1>12, <1>13, <1>14, <1>15 DEF IndInv

(***************************************************************************)
(* The aggregator's mark.  A new mark finds the task before aggregating,   *)
(* because aggregating means that no chunk is left to mark.                *)
(***************************************************************************)
LEMMA MarkKeeps ==
  ASSUME IndInv, NEW c \in Chunk, AggregatorMarks(c)
  PROVE  IndInv' /\ (stage' # stage => stage' \in Allowed(stage))
<1> USE TotalChunksAssumption
<1>1. /\ c \in Entries(tracking_results)
      /\ tracking_done' = tracking_done \cup {c}
      /\ tracking_completed_chunks' = IF NewlyDone(c)
                                      THEN tracking_completed_chunks + 1
                                      ELSE tracking_completed_chunks
      /\ ReportDone(c)
      /\ finalising' = IF c \in cut_done /\ LastDone(c)
                       THEN "save" ELSE finalising
      /\ UNCHANGED <<ingestVars, cutVars, orderVars, result, cut_results>>
  BY DEF AggregatorMarks, MarkChunkTrackingDone
<1>2. /\ c \in 0..(next_tracking_result_chunk - 1)
      /\ 0..(next_tracking_result_chunk - 1) \subseteq Chunk
      /\ c < next_tracking_chunk
  <2>1. next_tracking_result_chunk \in 0..TotalChunks
    BY DEF IndInv, TypeOK, CounterType
  <2>2. c \in Entries(Run(0, next_tracking_result_chunk))
    BY <1>1 DEF IndInv, FlowInv, ResultsInOrder
  <2>3. c \in 0..(next_tracking_result_chunk - 1)
    BY <2>1, <2>2, RunFacts
  <2> QED
    BY <2>1, <2>3 DEF IndInv, FlowInv, TypeOK, CounterType, Chunk
<1>3. stage \notin {"queued", "downloading", "decoding", "cut_detection"}
      /\ next_tracking_chunk > 0
  BY <1>2 DEF IndInv, StatusInv, StageMatchesWork, TypeOK, CounterType, Chunk
<1>4. /\ StatusType /\ total_chunks = TotalChunks
  <2>1. StatusType
    BY DEF IndInv, TypeOK
  <2>2. 0 \in ingest_published
    BY <1>2, <1>3 DEF IndInv, FlowInv, TypeOK, CounterType
  <2>3. ingest_published_chunks # 0
    BY <2>2 DEF IndInv, FlowInv
  <2> QED
    BY <2>1, <2>3 DEF IndInv, StatusInv, StatusType
<1>5. /\ tracking_done \in SUBSET Chunk /\ tracking_done' \in SUBSET Chunk
      /\ tracking_done' \subseteq 0..(next_tracking_result_chunk - 1)
      /\ tracking_completed_chunks = Cardinality(tracking_done)
  BY <1>1, <1>2 DEF IndInv, FlowInv, TypeOK, FlagType
<1>6. CASE c \in tracking_done
  <2>1. /\ UNCHANGED <<tracking_done, tracking_completed_chunks, finalising>>
        /\ UNCHANGED statusVars
    BY <1>1, <1>6, Zenon DEF NewlyDone, ReportDone, LastDone
  <2>2. UNCHANGED <<ingestVars, cutVars, orderVars, doneVars, result, cut_results>>
    BY <1>1, <2>1 DEF doneVars
  <2>3. FlowInv' /\ CounterType' /\ FlagType' /\ StreamType'
    BY <2>2, FlowUnchanged, TypesUnchanged DEF IndInv
  <2>4. StatusType' /\ StatusInv'
    BY <2>1, <2>2 DEF IndInv, TypeOK, StatusType, StatusInv, StageMatchesWork,
         CompleteResult, statusVars, ingestVars, cutVars, orderVars, doneVars
  <2>5. stage' = stage
    BY <2>1 DEF statusVars
  <2> QED
    BY <2>3, <2>4, <2>5 DEF IndInv, TypeOK
<1>7. CASE c \notin tracking_done
  <2> DEFINE k == tracking_completed_chunks + 1
  <2>1. /\ tracking_completed_chunks' = k
        /\ k = Cardinality(tracking_done')
        /\ k \in 1..TotalChunks
        /\ k = TotalChunks <=> tracking_done' = Chunk
    BY <1>1, <1>5, <1>7, ChunkCount DEF NewlyDone
  <2>2. LastDone(c) <=> tracking_done' = Chunk
    BY <1>4, <1>7, <2>1 DEF LastDone, NewlyDone
  <2>3. tracking_done # Chunk
    BY <1>7
  <2>4. stage \in {"tracking", "failed"}
    BY <1>3, <1>4, <2>3 DEF IndInv, StatusInv, StageMatchesWork, StatusType, Stage
  <2>5. Share(k) \in 0..30
    BY <2>1, ShareType DEF IndInv
  <2>6. progress' \in 0..100 /\ total_chunks' = total_chunks
    <3>1. \/ UNCHANGED statusVars
          \/ /\ progress' = Larger(progress, 60 + Share(k))
             /\ UNCHANGED total_chunks
      BY <1>1, Zenon DEF ReportDone
    <3> HIDE DEF k
    <3> QED
      BY <1>4, <2>5, <3>1 DEF statusVars, Larger, StatusType
  <2>7. /\ stage = "failed" => stage' = "failed"
        /\ stage = "tracking" =>
             stage' = IF tracking_done' = Chunk THEN "aggregating" ELSE "tracking"
    <3>1. CASE stage = "failed"
      BY <1>1, <3>1 DEF ReportDone, Terminal, statusVars
    <3>2. CASE stage = "tracking" /\ LastDone(c)
      BY <1>1, <1>7, <2>2, <3>2 DEF ReportDone, NewlyDone, Terminal
    <3>3. CASE stage = "tracking" /\ ~LastDone(c)
      BY <1>1, <1>7, <2>2, <3>3 DEF ReportDone, NewlyDone, Terminal, statusVars
    <3> QED
      BY <2>4, <3>1, <3>2, <3>3
  <2>8. finalising = "no"
    BY <2>3 DEF IndInv, StatusInv
  <2>9. /\ finalising' \in {"no", "save"}
        /\ finalising' # "no" => tracking_done' = Chunk
    BY <1>1, <2>2, <2>8
  <2>10. TypeOK'
    <3>1. StatusType'
      <4>1. stage' \in Stage
        BY <2>4, <2>7 DEF Stage
      <4>2. total_chunks' \in {0, TotalChunks}
        BY <1>4, <2>6
      <4>3. finalising' \in {"no", "save", "complete"}
        BY <2>9
      <4> QED
        BY <2>6, <4>1, <4>2, <4>3 DEF StatusType
    <3>2. CounterType' /\ FlagType' /\ StreamType'
      BY <1>1, <1>5, <2>1 DEF IndInv, TypeOK, CounterType, FlagType, StreamType,
           ingestVars, cutVars, orderVars
    <3> QED
      BY <3>1, <3>2 DEF TypeOK
  <2>11. FlowInv'
    BY <1>1, <1>5, <2>1 DEF IndInv, FlowInv, DispatchInOrder, ResultsInOrder, Run,
         ingestVars, cutVars, orderVars
  <2>12. StatusInv'
    <3>1. StageMatchesWork'
      BY <1>1, <1>3, <2>4, <2>7 DEF StageMatchesWork, cutVars
    <3>2. CompleteResult'
      BY <1>1, <2>4, <2>7 DEF IndInv, StatusInv, CompleteResult
    <3> QED
      BY <1>1, <1>4, <2>4, <2>6, <2>7, <2>9, <3>1, <3>2 DEF StatusInv, ingestVars
  <2>13. stage' # stage => stage' \in Allowed(stage)
    BY <2>4, <2>7 DEF Allowed, Terminal
  <2> QED
    BY <2>10, <2>11, <2>12, <2>13 DEF IndInv
<1> QED
  BY <1>6, <1>7

(* Building and saving the result happens only when every chunk has both   *)
(* outputs, so it covers the whole video.                                  *)
LEMMA SaveKeeps ==
  ASSUME IndInv, AggregatorSaves
  PROVE  IndInv'
<1>1. /\ finalising = "save" /\ finalising' = "complete"
      /\ result' = {c \in 0..(total_chunks - 1) : c \in cut_done \cap tracking_done}
      /\ UNCHANGED <<statusVars, ingestVars, cutVars, orderVars, doneVars,
                     cut_results>>
  BY DEF AggregatorSaves, SaveResult
<1>2. /\ tracking_done = Chunk
      /\ cut_done = Chunk
      /\ total_chunks = TotalChunks
  <2>1. tracking_done = Chunk
    BY <1>1 DEF IndInv, StatusInv
  <2> QED
    BY <2>1, AllTracked
<1>3. result' = Chunk
  BY <1>1, <1>2 DEF Chunk
<1>4. TypeOK'
  BY <1>1, <1>3 DEF IndInv, TypeOK, StatusType, CounterType, FlagType, StreamType,
       statusVars, ingestVars, cutVars, orderVars, doneVars
<1>5. FlowInv'
  BY <1>1, FlowUnchanged DEF IndInv
<1>6. StatusInv'
  BY <1>1, <1>2, <1>3 DEF IndInv, StatusInv, StageMatchesWork, CompleteResult,
       statusVars, ingestVars, cutVars, orderVars, doneVars
<1> QED
  BY <1>4, <1>5, <1>6 DEF IndInv

(* The last status update, and the failure of the task.                    *)
LEMMA FinishKeeps ==
  ASSUME IndInv, AggregatorCompletes \/ TaskFails
  PROVE  IndInv'
<1> USE TotalChunksAssumption
<1>1. UNCHANGED <<ingestVars, cutVars, orderVars, doneVars, result, cut_results>>
  BY DEF AggregatorCompletes, TaskFails, flowVars
<1>2. FlowInv' /\ CounterType' /\ FlagType' /\ StreamType'
  BY <1>1, FlowUnchanged, TypesUnchanged DEF IndInv
<1>3. StatusType /\ StatusInv
  BY DEF IndInv, TypeOK
<1>4. CASE AggregatorCompletes
  <2>1. /\ finalising = "complete" /\ finalising' = "no"
        /\ UpdateStatus("completed", 100, 0)
    BY <1>4 DEF AggregatorCompletes
  <2>2. tracking_done = Chunk /\ result = Chunk
    BY <1>3, <2>1 DEF StatusInv
  <2>3. stage \in {"aggregating", "completed", "failed"}
    BY <1>3, <2>2 DEF StatusInv, StageMatchesWork
  <2>4. /\ stage' \in {"completed", "failed"}
        /\ stage' = "failed" <=> stage = "failed"
        /\ progress' \in 0..100
        /\ total_chunks' = total_chunks
    BY <1>3, <2>1, <2>3 DEF UpdateStatus, Refused, Allowed, Terminal, Larger,
         statusVars, StatusType
  <2>5. StatusType'
    BY <1>3, <2>1, <2>4 DEF StatusType, Stage
  <2>6. StatusInv'
    BY <1>1, <1>3, <2>1, <2>2, <2>3, <2>4 DEF StatusInv, StageMatchesWork,
         CompleteResult, ingestVars, cutVars, orderVars, doneVars
  <2> QED
    BY <1>2, <2>5, <2>6 DEF IndInv, TypeOK
<1>5. CASE TaskFails
  <2>1. UpdateStatus("failed", 0, 0) /\ finalising' = finalising
    BY <1>5 DEF TaskFails, flowVars
  <2>2. /\ stage' \in {stage, "failed"}
        /\ progress' \in 0..100
        /\ total_chunks' = total_chunks
    BY <1>3, <2>1 DEF UpdateStatus, Larger, statusVars, StatusType
  <2>3. StatusType'
    BY <1>3, <2>1, <2>2 DEF StatusType, Stage
  <2>4. StatusInv'
    BY <1>1, <1>3, <2>1, <2>2 DEF StatusInv, StageMatchesWork, CompleteResult,
         ingestVars, cutVars, orderVars, doneVars
  <2> QED
    BY <1>2, <2>3, <2>4 DEF IndInv, TypeOK
<1> QED
  BY <1>4, <1>5

LEMMA InterruptedKeeps ==
  ASSUME IndInv, AggregatorInterrupted
  PROVE  IndInv'
<1>1. /\ finalising' = "no"
      /\ UNCHANGED <<statusVars, ingestVars, cutVars, orderVars, doneVars, result,
                     cut_results>>
  BY DEF AggregatorInterrupted, repositoryVars
<1>2. FlowInv' /\ CounterType' /\ FlagType' /\ StreamType'
  BY <1>1, FlowUnchanged, TypesUnchanged DEF IndInv
<1>3. StatusType' /\ StatusInv'
  BY <1>1 DEF IndInv, TypeOK, StatusType, StatusInv, StageMatchesWork,
       CompleteResult, statusVars, ingestVars, cutVars, orderVars, doneVars
<1> QED
  BY <1>2, <1>3 DEF IndInv, TypeOK

-----------------------------------------------------------------------------
LEMMA NextIndInv == IndInv /\ [Next]_vars => IndInv'
<1> SUFFICES ASSUME IndInv, [Next]_vars PROVE IndInv'
  OBVIOUS
<1>1. CASE IngestAdvances
  BY <1>1, AdvanceKeeps
<1>2. CASE IngestReports
  BY <1>2, ReportKeeps
<1>3. CASE IngestCompletes
  BY <1>3, CompletesKeeps
<1>4. ASSUME NEW c \in Chunk, IngestPublishes(c) PROVE IndInv'
  BY <1>4, PublishKeeps
<1>5. ASSUME NEW c \in Chunk, CutDetects(c) PROVE IndInv'
  BY <1>5, CutKeeps
<1>6. ASSUME NEW c \in Chunk, CoordinatorRecords(c) PROVE IndInv'
  BY <1>6, CoordinatorKeeps
<1>7. ASSUME NEW c \in Chunk, TrackerPublishes(c) PROVE IndInv'
  BY <1>7, TrackerKeeps
<1>8. ASSUME NEW c \in Chunk, AggregatorMarks(c) PROVE IndInv'
  BY <1>8, MarkKeeps
<1>9. CASE AggregatorSaves
  BY <1>9, SaveKeeps
<1>10. CASE AggregatorCompletes \/ TaskFails
  BY <1>10, FinishKeeps
<1>11. CASE AggregatorInterrupted
  BY <1>11, InterruptedKeeps
<1>12. CASE UNCHANGED vars
  <2>1. UNCHANGED <<statusVars, ingestVars, cutVars, orderVars, doneVars, result,
                    cut_results, finalising>>
    BY <1>12 DEF vars, repositoryVars
  <2>2. FlowInv' /\ CounterType' /\ FlagType' /\ StreamType'
    BY <2>1, FlowUnchanged, TypesUnchanged DEF IndInv
  <2>3. StatusType' /\ StatusInv'
    BY <2>1 DEF IndInv, TypeOK, StatusType, StatusInv, StageMatchesWork,
         CompleteResult, statusVars, ingestVars, cutVars, orderVars, doneVars
  <2> QED
    BY <2>2, <2>3 DEF IndInv, TypeOK
<1> QED
  BY <1>1, <1>2, <1>3, <1>4, <1>5, <1>6, <1>7, <1>8, <1>9, <1>10, <1>11, <1>12
  DEF Next, WorkersNext

(***************************************************************************)
(* The invariant holds in every behaviour, and with it its parts.          *)
(***************************************************************************)
LEMMA Invariance == Spec => []IndInv
<1> QED
  BY InitIndInv, NextIndInv, PTL DEF Spec

(* Every field of the hash keeps its type and its bounds: counters and     *)
(* cursors never pass the number of chunks, progress never 100.            *)
THEOREM TypeCorrect == Spec => []TypeOK
<1>1. IndInv => TypeOK
  BY DEF IndInv
<1> QED
  BY <1>1, Invariance, PTL

(* record_cut_and_dispatch: for a video of any length, and cut results in  *)
(* any order and number, the tracker's jobs are 0, 1, 2, ... once each.    *)
THEOREM DispatchOrder == Spec => []DispatchInOrder
<1>1. IndInv => DispatchInOrder
  BY DEF IndInv, FlowInv
<1> QED
  BY <1>1, Invariance, PTL

(* record_cut_and_dispatch: no chunk waits whose predecessors all arrived. *)
THEOREM NoneHeldBack == Spec => []NothingHeldBack
<1>1. ASSUME IndInv, NEW c \in Chunk, 0..c \subseteq cut_done
      PROVE  c \in Entries(tracking_jobs)
  <2>1. next_tracking_chunk \in 0..TotalChunks /\ next_tracking_chunk \notin 0..c
    BY <1>1 DEF IndInv, FlowInv, TypeOK, CounterType
  <2>2. c \in 0..(next_tracking_chunk - 1)
    BY <2>1, TotalChunksAssumption DEF Chunk
  <2> QED
    BY <1>1, <2>1, <2>2, RunFacts DEF IndInv, FlowInv, DispatchInOrder
<1>2. IndInv => NothingHeldBack
  BY <1>1 DEF NothingHeldBack
<1> QED
  BY <1>2, Invariance, PTL

(* The order of the pipeline: tracked only after a job, a job only after a *)
(* cut result, a cut result only after publication.                        *)
THEOREM CutPrecedesTracking == Spec => []CutBeforeTracking
<1>1. ASSUME IndInv PROVE CutBeforeTracking
  <2>1. /\ next_tracking_chunk \in 0..TotalChunks
        /\ next_tracking_result_chunk \in 0..TotalChunks
        /\ next_tracking_result_chunk <= next_tracking_chunk
    BY <1>1 DEF IndInv, FlowInv, TypeOK, CounterType
  <2>2. /\ Entries(tracking_jobs) = 0..(next_tracking_chunk - 1)
        /\ Entries(tracking_results) = 0..(next_tracking_result_chunk - 1)
    BY <1>1, <2>1, RunFacts DEF IndInv, FlowInv, DispatchInOrder, ResultsInOrder
  <2>3. Entries(tracking_results) \subseteq Entries(tracking_jobs)
    BY <2>1, <2>2
  <2> QED
    BY <1>1, <2>2, <2>3 DEF IndInv, FlowInv, CutBeforeTracking
<1> QED
  BY <1>1, Invariance, PTL

(* publish_tracking_result_in_order: the results are 0, 1, 2, ... once each. *)
THEOREM ResultOrder == Spec => []ResultsInOrder
<1>1. IndInv => ResultsInOrder
  BY DEF IndInv, FlowInv
<1> QED
  BY <1>1, Invariance, PTL

(* The three counters count distinct chunks under any redelivery, and a    *)
(* complete ingest has published every chunk.                              *)
THEOREM ExactCounters == Spec => []CountersExact
<1>1. ASSUME IndInv PROVE CountersExact
  <2>1. ingest_published_chunks \in 0..TotalChunks
    BY <1>1 DEF IndInv, TypeOK, CounterType
  <2>2. Cardinality(0..(ingest_published_chunks - 1)) = ingest_published_chunks
    BY <2>1, FS_Interval, TotalChunksAssumption
  <2> QED
    BY <1>1, <2>2 DEF IndInv, FlowInv, CountersExact, Chunk
<1> QED
  BY <1>1, Invariance, PTL

(* The stage agrees with the counters, whichever of its writers was last.  *)
THEOREM StageAgrees == Spec => []StageMatchesWork
<1>1. IndInv => StageMatchesWork
  BY DEF IndInv, StatusInv
<1> QED
  BY <1>1, Invariance, PTL

(* A saved result is whole, and a completed task has one.                  *)
THEOREM ResultComplete == Spec => []CompleteResult
<1>1. IndInv => CompleteResult
  BY DEF IndInv, StatusInv
<1> QED
  BY <1>1, Invariance, PTL

-----------------------------------------------------------------------------
(* update_status sets an allowed stage or none.                            *)
LEMMA UpdateFollowsTable ==
  ASSUME NEW s, NEW p, NEW t, UpdateStatus(s, p, t)
  PROVE  stage' # stage => stage' \in Allowed(stage)
BY DEF UpdateStatus, statusVars

(* So does every step, by the two lemmas on the counting scripts.          *)
LEMMA StepFollowsTable ==
  ASSUME IndInv, [Next]_vars
  PROVE  stage' # stage => stage' \in Allowed(stage)
<1> SUFFICES ASSUME stage' # stage PROVE stage' \in Allowed(stage)
  OBVIOUS
<1>1. CASE IngestAdvances
  BY <1>1, UpdateFollowsTable DEF IngestAdvances
<1>2. CASE IngestReports
  BY <1>2, UpdateFollowsTable DEF IngestReports
<1>3. CASE AggregatorCompletes \/ TaskFails
  BY <1>3, UpdateFollowsTable DEF AggregatorCompletes, TaskFails
<1>4. ASSUME NEW c \in Chunk, CoordinatorRecords(c) PROVE stage' \in Allowed(stage)
  BY <1>4, CoordinatorKeeps
<1>5. ASSUME NEW c \in Chunk, AggregatorMarks(c) PROVE stage' \in Allowed(stage)
  BY <1>5, MarkKeeps
<1>6. CASE UNCHANGED statusVars
  BY <1>6 DEF statusVars
<1>7. ASSUME NEW c \in Chunk, IngestPublishes(c) PROVE UNCHANGED statusVars
  BY <1>7 DEF IngestPublishes, PublishIngestChunkOnce
<1>8. ASSUME NEW c \in Chunk, CutDetects(c) PROVE UNCHANGED statusVars
  BY <1>8 DEF CutDetects, repositoryVars
<1>9. ASSUME NEW c \in Chunk, TrackerPublishes(c) PROVE UNCHANGED statusVars
  BY <1>9 DEF TrackerPublishes, PublishTrackingResultInOrder
<1>10. ASSUME IngestCompletes PROVE UNCHANGED statusVars
  BY <1>10 DEF IngestCompletes, MarkIngestComplete
<1>11. ASSUME AggregatorSaves PROVE UNCHANGED statusVars
  BY <1>11 DEF AggregatorSaves, SaveResult
<1>12. ASSUME AggregatorInterrupted \/ UNCHANGED vars PROVE UNCHANGED statusVars
  BY <1>12 DEF AggregatorInterrupted, vars, repositoryVars
<1> QED
  BY <1>1, <1>2, <1>3, <1>4, <1>5, <1>6, <1>7, <1>8, <1>9, <1>10, <1>11, <1>12
  DEF Next, WorkersNext

(* The stage moves along the transition table only, also in the scripts    *)
(* that set it without consulting the table.                               *)
THEOREM StageTransitions == Spec => StagesFollowTable
<1>1. IndInv /\ [Next]_vars => [stage' # stage => stage' \in Allowed(stage)]_vars
  BY StepFollowsTable
<1> QED
  BY <1>1, Invariance, PTL DEF Spec, StagesFollowTable

(* No cursor moves back, and a chunk that has its effect keeps it.         *)
LEMMA CursorsAdvance ==
  ASSUME IndInv, [Next]_vars
  PROVE  /\ ingest_published_chunks' >= ingest_published_chunks
         /\ next_tracking_chunk' >= next_tracking_chunk
         /\ next_tracking_result_chunk' >= next_tracking_result_chunk
         /\ cut_done \subseteq cut_done'
         /\ tracking_done \subseteq tracking_done'
<1> DEFINE Advance == /\ ingest_published_chunks' >= ingest_published_chunks
                      /\ next_tracking_chunk' >= next_tracking_chunk
                      /\ next_tracking_result_chunk' >= next_tracking_result_chunk
                      /\ cut_done \subseteq cut_done'
                      /\ tracking_done \subseteq tracking_done'
<1>0. /\ ingest_published_chunks \in Nat /\ next_tracking_chunk \in Nat
      /\ next_tracking_result_chunk \in Nat /\ TotalChunks \in Nat
  BY TotalChunksAssumption DEF IndInv, TypeOK, CounterType
<1>1. ASSUME UNCHANGED <<ingestVars, cutVars, orderVars, doneVars>> PROVE Advance
  BY <1>0, <1>1 DEF ingestVars, cutVars, orderVars, doneVars
<1>2. ASSUME NEW c \in Chunk, IngestPublishes(c) PROVE Advance
  BY <1>0, <1>2 DEF IngestPublishes, PublishIngestChunkOnce, cutVars, orderVars, doneVars
<1>3. ASSUME NEW c \in Chunk, CoordinatorRecords(c) PROVE Advance
  BY <1>0, <1>3 DEF CoordinatorRecords, RecordCutAndDispatch, ingestVars, orderVars, doneVars
<1>4. ASSUME NEW c \in Chunk, TrackerPublishes(c) PROVE Advance
  BY <1>0, <1>4 DEF TrackerPublishes, PublishTrackingResultInOrder, ingestVars, cutVars,
     orderVars, doneVars
<1>5. ASSUME NEW c \in Chunk, AggregatorMarks(c) PROVE Advance
  BY <1>0, <1>5 DEF AggregatorMarks, MarkChunkTrackingDone, ingestVars, cutVars, orderVars
<1>6. ASSUME IngestCompletes PROVE Advance
  BY <1>0, <1>6 DEF IngestCompletes, MarkIngestComplete, cutVars, orderVars, doneVars
<1>7. ASSUME \/ IngestAdvances \/ IngestReports \/ AggregatorSaves \/ AggregatorCompletes
             \/ AggregatorInterrupted \/ TaskFails \/ UNCHANGED vars
      PROVE  UNCHANGED <<ingestVars, cutVars, orderVars, doneVars>>
  BY <1>7 DEF IngestAdvances, IngestReports, AggregatorSaves, SaveResult,
     AggregatorCompletes, AggregatorInterrupted, TaskFails, vars, repositoryVars
<1>8. ASSUME NEW c \in Chunk, CutDetects(c)
      PROVE  UNCHANGED <<ingestVars, cutVars, orderVars, doneVars>>
  BY <1>8 DEF CutDetects, repositoryVars
<1>9. Advance
  <2> HIDE DEF Advance
  <2> QED BY <1>1, <1>2, <1>3, <1>4, <1>5, <1>6, <1>7, <1>8 DEF Next, WorkersNext
<1> QED
  BY <1>9

-----------------------------------------------------------------------------
(***************************************************************************)
(* The progress.  Cut detection and tracking report at most 60 and 90; the *)
(* division is exact only for the last chunk, and 100 comes with the end.  *)
(***************************************************************************)
LEMMA ShareFull ==
  ASSUME TypeOK, NEW n \in 0..TotalChunks, Share(n) = 30
  PROVE  n = TotalChunks
<1>1. total_chunks = TotalChunks /\ TotalChunks \in Nat \ {0}
  BY TotalChunksAssumption DEF TypeOK, StatusType, Share
<1>2. (30 * n) \div TotalChunks = 30
  BY <1>1 DEF Share, Smaller
<1>3. TotalChunks * 30 <= 30 * n
  BY <1>1, <1>2
<1> QED
  BY <1>1, <1>3

(* A status update that asks for less than a third.                        *)
LEMMA EarlyProgress ==
  ASSUME TypeOK, ProgressHonest, NEW s, s # "completed" \/ s = stage, NEW p \in 0..30,
         NEW t, UpdateStatus(s, p, t), tracking_done' = tracking_done
  PROVE  ProgressHonest'
<1>1. progress \in 0..100
  BY DEF TypeOK, StatusType
<1>2. CASE UNCHANGED statusVars
  BY <1>2 DEF statusVars, ProgressHonest
<1>3. CASE ~(UNCHANGED statusVars)
  <2>1. /\ stage \notin Terminal /\ stage' \in {stage, s}
        /\ progress' = Larger(progress, p)
    BY <1>3 DEF UpdateStatus
  <2>2. stage # "completed" /\ stage' # "completed" /\ progress # 100
    BY <2>1 DEF Terminal, ProgressHonest
  <2>3. progress' = progress \/ progress' \in 0..30
    BY <1>1, <2>1 DEF Larger
  <2> QED
    BY <1>1, <2>2, <2>3 DEF ProgressHonest
<1> QED
  BY <1>2, <1>3

LEMMA StepIsHonest ==
  ASSUME IndInv, IndInv', ProgressHonest, [Next]_vars
  PROVE  ProgressHonest'
<1> USE TotalChunksAssumption
<1>0. /\ TypeOK /\ progress \in 0..100
      /\ cut_completed_chunks' \in 0..TotalChunks
      /\ tracking_completed_chunks' \in 0..TotalChunks
  BY DEF IndInv, TypeOK, StatusType, CounterType
<1>1. ASSUME UNCHANGED <<statusVars, tracking_done>> PROVE ProgressHonest'
  BY <1>1 DEF statusVars, ProgressHonest
<1>2. CASE IngestAdvances
  <2>1. tracking_done' = tracking_done
    BY <1>2 DEF IngestAdvances, doneVars
  <2> QED
    BY <1>0, <1>2, <2>1, EarlyProgress DEF IngestAdvances
<1>3. CASE IngestReports
  <2>1. IngestProgress \in 0..30
    <3>1. (22 * ingest_published_chunks) \div TotalChunks \in 0..22
      BY <1>0, ShareBound DEF TypeOK, CounterType
    <3> QED
      BY <3>1 DEF IngestProgress
  <2>2. tracking_done' = tracking_done
    BY <1>3 DEF IngestReports, doneVars
  <2> QED
    BY <1>0, <1>3, <2>1, <2>2, EarlyProgress DEF IngestReports
<1>4. CASE TaskFails
  <2>1. tracking_done' = tracking_done
    BY <1>4 DEF TaskFails, doneVars
  <2>2. UpdateStatus("failed", 0, 0)
    BY <1>4 DEF TaskFails
  <2> QED
    BY <1>0, <2>1, <2>2, EarlyProgress
<1>5. ASSUME NEW c \in Chunk, CoordinatorRecords(c) PROVE ProgressHonest'
  <2>1. tracking_done' = tracking_done
    BY <1>5 DEF CoordinatorRecords, RecordCutAndDispatch, doneVars
  <2>2. \/ UNCHANGED statusVars
        \/ /\ stage \notin Terminal /\ stage' \in {stage, "tracking"}
           /\ progress' = Larger(progress, 30 + Share(cut_completed_chunks'))
    BY <1>5, Zenon DEF CoordinatorRecords, RecordCutAndDispatch, ReportCut
  <2>3. Share(cut_completed_chunks') \in 0..30
    BY <1>0, ShareType
  <2>4. CASE stage \notin Terminal /\ stage' \in {stage, "tracking"}
             /\ progress' = Larger(progress, 30 + Share(cut_completed_chunks'))
    BY <1>0, <2>1, <2>3, <2>4 DEF ProgressHonest, Larger, Terminal
  <2> QED
    BY <1>1, <2>1, <2>2, <2>4
<1>6. ASSUME NEW c \in Chunk, AggregatorMarks(c) PROVE ProgressHonest'
  <2> DEFINE k == tracking_completed_chunks + 1
  <2>1. tracking_done' = tracking_done \cup {c}
    BY <1>6 DEF AggregatorMarks, MarkChunkTrackingDone
  <2>2. \/ UNCHANGED statusVars
        \/ /\ stage \notin Terminal /\ stage' \in {"aggregating", "tracking"}
           /\ NewlyDone(c)
           /\ progress' = Larger(progress, 60 + Share(k))
    BY <1>6, Zenon DEF AggregatorMarks, MarkChunkTrackingDone, ReportDone
  <2>3. CASE UNCHANGED statusVars
    <3>1. tracking_done = Chunk => tracking_done' = Chunk
      BY <2>1
    <3> QED
      BY <2>3, <3>1 DEF statusVars, ProgressHonest
  <2>4. CASE /\ stage \notin Terminal /\ stage' \in {"aggregating", "tracking"}
             /\ NewlyDone(c)
             /\ progress' = Larger(progress, 60 + Share(k))
    <3>1. tracking_completed_chunks' = k
      BY <1>6, <2>4 DEF AggregatorMarks, MarkChunkTrackingDone
    <3>2. k \in 0..TotalChunks /\ Share(k) \in 0..30
      BY <1>0, <3>1, ShareType
    <3>3. Share(k) = 30 => k = TotalChunks
      BY <1>0, <3>2, ShareFull
    <3>4. k = TotalChunks => tracking_done' = Chunk
      <4>1. tracking_done' \in SUBSET Chunk /\ tracking_completed_chunks' = Cardinality(tracking_done')
        BY DEF IndInv, FlowInv, TypeOK, FlagType
      <4> QED
        BY <3>1, <4>1, ChunkCount
    <3>5. c \notin tracking_done
      BY <2>4 DEF NewlyDone
    <3>6. progress < 90 /\ stage' # "completed"
      BY <1>0, <2>4, <3>5 DEF ProgressHonest
    <3> HIDE DEF k
    <3>7. progress' < 100 /\ (progress' >= 90 => Share(k) = 30)
      BY <1>0, <2>4, <3>2, <3>6 DEF Larger
    <3> QED
      BY <3>3, <3>4, <3>6, <3>7 DEF ProgressHonest
  <2> QED
    BY <2>2, <2>3, <2>4
<1>7. CASE AggregatorCompletes
  <2>1. tracking_done' = tracking_done /\ UpdateStatus("completed", 100, 0)
    BY <1>7 DEF AggregatorCompletes, doneVars
  <2>2. tracking_done = Chunk
    BY <1>7 DEF AggregatorCompletes, IndInv, StatusInv
  <2>3. CASE UNCHANGED statusVars
    BY <1>1, <2>1, <2>3
  <2>4. CASE ~(UNCHANGED statusVars)
    <3>1. /\ stage \notin Terminal /\ ~Refused("completed")
          /\ progress' = Larger(progress, 100)
          /\ stage' = IF "completed" \in Allowed(stage) THEN "completed" ELSE stage
      BY <2>1, <2>4, Zenon DEF UpdateStatus
    <3>2. "completed" \in Allowed(stage)
      BY <1>0, <3>1 DEF Refused, Rank, Terminal, TypeOK, StatusType, Stage
    <3>3. progress' = 100 /\ stage' = "completed"
      BY <1>0, <3>1, <3>2 DEF Larger
    <3> QED
      BY <2>1, <2>2, <3>3 DEF ProgressHonest
  <2> QED
    BY <2>3, <2>4
<1>8. ASSUME NEW c \in Chunk, IngestPublishes(c) \/ CutDetects(c) \/ TrackerPublishes(c)
      PROVE  ProgressHonest'
  <2>1. CASE IngestPublishes(c)
    BY <1>1, <2>1 DEF IngestPublishes, PublishIngestChunkOnce, doneVars
  <2>2. CASE CutDetects(c)
    BY <1>1, <2>2 DEF CutDetects, repositoryVars, doneVars
  <2>3. CASE TrackerPublishes(c)
    BY <1>1, <2>3 DEF TrackerPublishes, PublishTrackingResultInOrder, doneVars
  <2> QED
    BY <1>8, <2>1, <2>2, <2>3
<1>9. CASE IngestCompletes
  BY <1>1, <1>9 DEF IngestCompletes, MarkIngestComplete, doneVars
<1>10. CASE AggregatorSaves
  BY <1>1, <1>10 DEF AggregatorSaves, SaveResult, doneVars
<1>11. CASE AggregatorInterrupted \/ UNCHANGED vars
  BY <1>1, <1>11 DEF AggregatorInterrupted, vars, repositoryVars, doneVars
<1> QED
  BY <1>2, <1>3, <1>4, <1>5, <1>6, <1>7, <1>8, <1>9, <1>10, <1>11 DEF Next, WorkersNext

(* progress is written by four scripts of four processes: for a video of   *)
(* any length 90 percent means that every chunk is tracked, and 100 that   *)
(* the task is completed.                                                  *)
THEOREM HonestProgress == Spec => []ProgressHonest
<1>1. Init => ProgressHonest
  BY DEF Init, RepositoryInit, ProgressHonest
<1>2. IndInv /\ IndInv' /\ ProgressHonest /\ [Next]_vars => ProgressHonest'
  BY StepIsHonest
<1> QED
  BY <1>1, <1>2, Invariance, PTL DEF Spec

-----------------------------------------------------------------------------
(***************************************************************************)
(* Refinement.  Recording a cut result is the resequencer's Arrive; every  *)
(* other step leaves the cut results and the tracking jobs alone.          *)
(***************************************************************************)
LEMMA RecordIsArrive ==
  ASSUME IndInv, NEW c \in Chunk, CoordinatorRecords(c)
  PROVE  Order!Arrive(c)
<1>1. PICK f \in next_tracking_chunk..TotalChunks :
        /\ Frontier(tracking_job_payload \cup {c}, f)
        /\ cut_done' = cut_done \cup {c}
        /\ tracking_jobs' =
             tracking_jobs \o Undispatched(next_tracking_chunk, f)
  BY Zenon DEF CoordinatorRecords, RecordCutAndDispatch
<1>2. /\ next_tracking_chunk \in 0..TotalChunks
      /\ f \in 0..TotalChunks
  BY TotalChunksAssumption DEF IndInv, TypeOK, CounterType
<1>3. tracking_jobs' = Run(0, f)
  <2>1. Undispatched(next_tracking_chunk, f) = Run(next_tracking_chunk, f)
    BY UndispatchedRun DEF IndInv
  <2>2. Run(0, next_tracking_chunk) \o Run(next_tracking_chunk, f) = Run(0, f)
    BY <1>2, RunFacts
  <2> QED
    BY <1>1, <2>1, <2>2 DEF IndInv, FlowInv, DispatchInOrder
<1>4. Order!FirstItems(f) = Run(0, f)
  BY <1>2 DEF Order!FirstItems, Run
<1>5. Order!Releasable(cut_done', f)
  <2>1. next_tracking_chunk..(f - 1) \subseteq tracking_job_payload \cup {c}
        /\ f \notin tracking_job_payload \cup {c}
    BY <1>1 DEF Frontier
  <2>2. /\ tracking_job_payload \subseteq cut_done
        /\ cut_done \subseteq tracking_job_payload \cup 0..(next_tracking_chunk - 1)
        /\ 0..(next_tracking_chunk - 1) \subseteq cut_done
    BY DEF IndInv, FlowInv
  <2>3. 0..(f - 1) \subseteq cut_done \cup {c}
    BY <1>2, <2>1, <2>2
  <2>4. f \notin cut_done \cup {c}
    BY <1>2, <2>1, <2>2
  <2> QED
    BY <1>1, <2>3, <2>4 DEF Order!Releasable
<1> QED
  BY <1>1, <1>2, <1>3, <1>4, <1>5 DEF Order!Arrive

LEMMA StepImplements ==
  ASSUME IndInv, [Next]_vars
  PROVE  [Order!Next]_<<cut_done, tracking_jobs>>
<1>1. ASSUME NEW c \in Chunk, CoordinatorRecords(c) PROVE Order!Next
  BY <1>1, RecordIsArrive DEF Order!Next, Order!Item, Chunk
<1> DEFINE Same == UNCHANGED <<cut_done, tracking_jobs>>
<1>2. ASSUME UNCHANGED cutVars PROVE Same
  BY <1>2 DEF cutVars
<1>3. ASSUME UNCHANGED repositoryVars PROVE Same
  BY <1>3 DEF repositoryVars, cutVars
<1> HIDE DEF Same
<1>4. ASSUME IngestAdvances \/ IngestReports \/ IngestCompletes PROVE Same
  BY <1>2, <1>4 DEF IngestAdvances, IngestReports, IngestCompletes,
                    MarkIngestComplete
<1>5. ASSUME NEW c \in Chunk, \/ IngestPublishes(c) \/ CutDetects(c)
                              \/ TrackerPublishes(c) \/ AggregatorMarks(c)
      PROVE  Same
  <2>1. CASE IngestPublishes(c)
    BY <1>2, <2>1 DEF IngestPublishes, PublishIngestChunkOnce
  <2>2. CASE CutDetects(c)
    BY <1>3, <2>2 DEF CutDetects
  <2>3. CASE TrackerPublishes(c)
    BY <1>2, <2>3 DEF TrackerPublishes, PublishTrackingResultInOrder
  <2>4. CASE AggregatorMarks(c)
    BY <1>2, <2>4 DEF AggregatorMarks, MarkChunkTrackingDone
  <2> QED
    BY <1>5, <2>1, <2>2, <2>3, <2>4
<1>6. ASSUME AggregatorSaves \/ AggregatorCompletes \/ TaskFails PROVE Same
  BY <1>2, <1>6 DEF AggregatorSaves, SaveResult, AggregatorCompletes, TaskFails
<1>7. ASSUME AggregatorInterrupted \/ UNCHANGED vars PROVE Same
  BY <1>3, <1>7 DEF AggregatorInterrupted, vars
<1> QED
  BY <1>1, <1>4, <1>5, <1>6, <1>7 DEF Same, Next, WorkersNext

(* The coordinator is a resequencer: for a video of any length the chain   *)
(* from ingest to the tracking jobs implements Resequencer.                *)
THEOREM Resequences == Spec => ImplementsResequencer
<1>1. Init => Order!Init
  BY DEF Init, RepositoryInit, Order!Init
<1> QED
  BY <1>1, Invariance, StepImplements, PTL
  DEF Spec, ImplementsResequencer, Order!Spec
=============================================================================
