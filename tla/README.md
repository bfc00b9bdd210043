# Verification of the video analysis pipeline

TLA+ models of the service under `src/backend/app` and of its two model workers
(`src/participant_3_tracking`, `src/participant_4_cut_detection`), the TLC runs
that check them, and TLAPS proofs about the core. Paths below are relative to
`src/`; `backend/app/` is left out where the file name is unique.

## 1. The system

A client uploads a video (or an archive of them). Each video is one task. The
task travels through five kinds of worker process, connected by Redis Streams;
everything durable about it is in Redis, the decoded frames are in Ray.

    API -> ingest -> [video chunks] -> cut detection -> [cut results] -> coordinator
        -> [tracking jobs] -> tracking -> [tracking results] -> aggregator -> result

| Component | State | Operations | What makes it correct |
|---|---|---|---|
| Task repository (`infrastructure/task_repository.py`, Lua scripts) | per task: stage, progress, counters, ordering cursors; per chunk: flags and payloads; streams | create, update_status, publish_ingest_chunk_once, mark_ingest_complete, record_cut_and_dispatch, publish_tracking_result_in_order, mark_chunk_tracking_done, save_result, fail | every script is idempotent; jobs and results leave in chunk order; counters count distinct chunks; the stage agrees with them |
| Stream worker (`workers/common.py`, `infrastructure/redis_streams.py`) | consumer group with its pending list, attempt counters, dead letters; in the process: batch, lanes, retries | poll (claim or read), lanes per task, handle, acknowledge, retry, dead-letter, fail the task, heartbeat | no entry is lost; entries of a task stay in order; only real errors use up the attempts; an entry that is given up fails its task |
| Ingest (`workers/ingest.py`) | position in a handler, what it has released and seen | resume, decode, wait for capacity, put, publish, release, drain, clean up | bounded memory; frames live until they are tracked; the source until it is not needed |
| Frame store (`infrastructure/ray_store.py`, `ray_runtime/object_registry.py`) | reservations and entries of the registry actor | reserve, put, register, get, release, count | the capacity is never exceeded; failed attempts give back what they took |
| Coordinator, aggregator (`workers/coordinator.py`, `aggregator.py`) | none of their own | record a cut result and dispatch; mark a chunk, save the result, complete | no job before its cut result; the result covers the whole video |
| Cut worker (`participant_4_cut_detection/worker.py`) | scene state and result cache in Redis | infer, take ownership of transitions, number scenes, publish | one result per chunk; scene identity continues over chunk boundaries; a transition at a boundary is neither lost nor doubled |
| Tracking worker (`participant_3_tracking/worker.py`, `yolo_world_tracker.py`) | result cache and checkpoint in Redis; tracker, response cache and call queue in a detached Ray actor; the worker's handle of it | infer, checkpoint, publish, release | each frame reaches the tracker once, in order, within its scene; the actor is released |
| Video decoder (`services/video_decoder.py`) | per delivery: the FFmpeg child, the next chunk, the tail of the last one | layout of chunks, decode_batch in a thread, close in another, restart of the stream | a chunk has exactly its frames; children are stopped; a delivery ends |
| API and uploads (`api/routes.py`, `services/upload_service.py`, `archive_upload_service.py`) | per request: files on disk, tasks in Redis | save, check free space, extract, enqueue in one transaction, clean up | a queued task has its source; what was not accepted leaves nothing |
| Aggregation of results (`services/result_aggregation.py`) | none (pure) | merging of scenes and transitions | every frame belongs to one scene |
| Frontend, configuration, metrics, networks | | | not modelled, see section 7 |

Components interact through streams (at-least-once, any worker may see an entry
again), through shared hashes changed by scripts (atomic), through the registry
and tracking actors (remote calls that may time out while they go on), and
through polling (ingest reads the tracking counter to decide what it may release).
The hard behaviours are therefore: redelivery and overtaking, interruption between
two steps of a handler, calls whose reply is lost, late effects of calls that were
given up (in a thread, in an actor), shared slots and disk space, and state that
continues from one chunk to the next.
`PROJECT.json` lists them under "hazards", each with its line and the properties
that would notice.

## 2. Modules

| Module | Models | State and actions |
|---|---|---|
| `TaskRepository` | the Lua scripts | variables are the hash fields and streams; one operator per script, with its guards and early returns in the script's order; `Run`, `Frontier` and `Undispatched` are the dispatch loop |
| `ChunkFlow` | a task's way through all workers | extends `TaskRepository`. A stream is the set of what was ever sent: any worker may handle any entry at any time and again, so redelivery, reordering, restarts and several processes are all allowed. One action per handler; the aggregator's has three steps, and may be interrupted between them. The task may fail at any time |
| `Resequencer` | abstract: what the coordinator promises | `arrived` and `released`; `ChunkFlow` implements it under `arrived <- cut_done, released <- tracking_jobs` |
| `StreamWorker` | the runtime | per process and entry the step of `_process_message` it is in; `lanes` are the partitions of the batch; time is reduced to "idle for less than stream_claim_idle_ms" (`fresh`) |
| `Pipeline` | the workers as deployed: one process and group each | extends `TaskRepository`; every group has delivered, pending, held and attempts. Implements `ChunkFlow` with `cut_results <- Entries(cut_results)`, so the weak network of `ChunkFlow` is a sound abstraction of the real one |
| `FrameStore` | frames of several videos | `pc` and `local` are the ingest handler of each video, lost in a restart; `entries` and `reservations` are the registry's, lost when its actor is restarted; `late` are the puts that the handler has given up and that go on in their thread |
| `VideoDecoder` | one decoder per delivery of a task | `thread` is the thread in `decode_batch`, `closer` the one in `close`: after a timeout both use `process`, `next_chunk_index` and `previous_tail`. `ffmpeg` are the children, each with the frame it writes next. `pc` is the loop of `IngestHandler` |
| `Submission` | the process routes and the source files | `pc` is the handler of each request, `file` the directory of each task, `stage` what Redis says of it; requests share the disk. At the end of a task ingest removes its source, or does not |
| `Chunking`, `ResultAggregation` | layout and merging | operators only; `VideoDecoder` and `CutWorker` use them |
| `CutWorker` | the AutoShot worker on one video | the video is a set of transitions; `Detection` is the decoding rule on the part of a transition a chunk sees; `Owned`, `NextPending` and `Scenes` are `_deduplicate_owned_transitions` and `build_cut_result` |
| `TrackingWorker` | the tracking worker and its actor on one video | a tracker is the chunk it expects and the frames it was fed since its last reset, since these determine identifiers; the actor has a queue of calls, some of which nobody waits for any more |
| `MC*` | | deployments, layouts, videos and requests for TLC |
| `*_proofs` | | theorems and lemmas about `ChunkFlow`, `Pipeline`, `StreamWorker`, `FrameStore`, `VideoDecoder`, `Submission`, `CutWorker`, `TrackingWorker` |

Every fault is one of a named set of kinds, the sequence `faults` records those
that happened, and `MaxFaults` bounds it. Properties that the code does not
promise under some fault name the kinds they exclude. Where a constant is a
bound, its comment in the module says so.

The order in which they were written is the order of importance: repository and
flow, runtime, frames, deployed pipeline, cut worker, tracking worker, decoder,
submission.

## 3. Runs

| Run | Instance | Question |
|---|---|---|
| `flow` | 4 chunks, progress every 2nd chunk | the properties of `ChunkFlow` under arbitrary delivery and failure |
| `flow_interrupted` | 2 chunks | does final aggregation resume after an interruption? (no) |
| `worker` | two deployments: one process with 2 lanes and 3 entries of 2 tasks, and two processes that read one entry at a time; 2 attempts, one fault | nothing lost, order, budget, failed tasks, no entry in both processes, every entry settled |
| `frames` | two videos of 3 chunks, 3 slots, window 2, one fault, the restart of the registry among them | capacity, window, life of frames and source, slots given back |
| `frames_lost_reply` | one video of 2 chunks, a lost reply to a publication | are frames kept until tracked? (no) |
| `pipeline` | 3 chunks, window 2, two faults anywhere | implements `ChunkFlow`; what is acknowledged is done; the workers never all wait for one another; completes |
| `cut` | three layouts (two chunks with a long context, three with a short last one, chunks limited by bytes), up to two transitions anywhere, one fault | one result, scene identity, transitions reported once and exactly, merged scenes cover the video |
| `cut_split` | 10 frames, 2 chunks, one transition | can one transition split the scene twice? (yes) |
| `tracking` | every video of 3 chunks of 2 frames, two faults | frames fed once and in order, actor released, all tracked |
| `tracking_dirty` | 2 chunks, one failed job | can a retry feed a frame twice? (yes) |
| `decoder` | four layouts (a long overlap and a short last chunk, chunks limited by bytes, no overlap, one chunk), two faults, a timeout at any moment | exact frames, no child left behind, every delivery ends |
| `submission` | two requests at a time, each with any of nine bodies, on a disk of 6 units, two faults | a queued task has its source; a batch is accepted as a whole; nothing else remains |

Why the bounds are enough to be of interest. Three chunks are the fewest with a
first, an inner and a last one, with a gap that is filled later, and with one
more chunk than the window. Two videos and three slots with a window of two are
the fewest that compete for the last slot. Three entries of two tasks give one
lane with two entries beside another lane. In the cut runs transitions lie in
every position relative to the chunk boundaries and are both shorter and longer
than the overlap. In the decoder's videos the stream can be left and begun anew at
an inner chunk, with a tail that is as long as the overlap and with a shorter one.
The bodies of a request are a video, an address, and archives that are sound, hold
a damaged video after a sound one, hold no video or are refused; some pairs of them
do not fit on the disk. Two faults let the second one strike the recovery from the
first (one fault where two videos or two processes already multiply the states).
The actor's response cache holds 1 entry where the code has 4, so that with three
chunks it is full. What the bounds leave open, larger videos, windows, archives and
more faults, is what the theorems of section 5 are about.

Every property of a passing run comes with a mutant: a plausible bug of the code,
written as an operator beside the original (`Mutant...`), under which TLC finds
the property violated. The type invariants of all modules but `FrameStore`
are listed by no run: the properties above them already fail when they do, and
section 5 proves each of them.

TLC checks for deadlock only in `flow`, where entries can be delivered for ever. In the
other runs a system whose work is done, or which has used up its faults, may stop. That the
pipeline stops nowhere else is the invariant `NeverStuck`.

## 4. Fairness

Workers are endless loops (`StreamWorker.run_forever`), supervised and restarted
by the container runtime, so each handler step has weak fairness; faults never do.
In `ChunkFlow` that is one condition per handler and chunk: a group hands out every
entry, and `StreamWorker` (`EverySettled`) shows that no entry is skipped for
good. In `StreamWorker` each process polls and each message proceeds, and a pending
entry that nobody touches grows stale, because time passes. In `FrameStore` ingest
of each video and the workers downstream of it proceed; in `Pipeline` each group
does; in `TrackingWorker` the handler and the actor. In `VideoDecoder` the handler and
both threads proceed, and the wait for a decode ends (`asyncio.wait_for`); a child that
hangs writes nothing, ever. `Submission` has safety properties only and assumes nothing.
No action has strong fairness.

## 5. What is proved

Every theorem is about the specification itself, for every value of the constants
that satisfies the assumptions of the module; TLC evaluates those assumptions in the
runs. None of the properties is inductive, so each proof module states an
invariant that is, proves that every action preserves it, and takes the properties
from it. All inductive invariants were checked with TLC first.

**`ChunkFlow_proofs`**, for every number of chunks and every update interval:
`TypeCorrect`, `DispatchOrder`, `NoneHeldBack`, `CutPrecedesTracking`, `ResultOrder`,
`ExactCounters`, `StageAgrees`, `HonestProgress`, `ResultComplete` (each
`Spec => []P`), `StageTransitions` (an action property) and `Resequences` (the
refinement). `IndInv == TypeOK /\ FlowInv /\ StatusInv`: `FlowInv` ties each set of
flags to its counter, each cursor to the sequence it has produced (`tracking_jobs` is
exactly `Run(0, next_tracking_chunk)`, and so on) and each worker's set to the one
before it; order and counting follow from it, and the dispatch loop preserves it
because `Frontier` stops at the first chunk without a cut result. `StatusInv` relates
the stage to the counters and to the aggregator's position; it is needed because
`record_cut_and_dispatch` and `mark_chunk_tracking_done` write the stage without asking
the transition table: the table is respected only because of what the counters say at
that moment. `HonestProgress` needs that the integer division reaches 30 percent for the
last chunk only (`ShareFull`).

**`Pipeline_proofs`**, for every window, number of attempts and number of faults.
`Implements`: the deployed pipeline implements `ChunkFlow`. `IngestInv` says which stage
an ingest handler at each point can count on; with it every step of a worker maps to the
action of `ChunkFlow` it stands for, a restart of the aggregator to an interruption, and
every other fault to no step at all. So every theorem above holds of the pipeline;
`InheritsChunkFlow` states the invariants again as theorems about `Pipeline!Spec`.
`AcknowledgedIsDone`: what a group has acknowledged has had its effect. It uses the
invariant of `ChunkFlow` through the refinement: streams are runs that only grow, a job
before the cursor has its result in the stream, and a refused job fails the task unless
the task is completed, which it cannot be with an untracked chunk.
`NoneStuck` (`NeverStuck`) is deadlock freedom of the whole: when no group has an entry left and
the task has not ended, ingest can go on, or an aggregator stopped over the last chunk
(section 6, 1). What every group has acknowledged has had its effect, so a quiet pipeline has
tracked all that was published (`QuietTracked`) and its window is open. `FinishInv` says
when the ends of the pipeline may rest: ingest after the last chunk, and the aggregator, whose
`LastMark` must be the one that finds the counter complete, after the result. `HeldInv` says that
a process has in hand a part of what its group remembers, in the order of the stream;
with it `TypeCorrect` follows.

**`StreamWorker_proofs`**, for any deployment: `Durable` (`NothingLost`), `ClientsLearn`
(`GivenUpMeansFailed`) and `BudgetSpent` (`BudgetForErrorsOnly`). `StepInv` says what a
process that has reached a step of `_process_message` leaves behind for good. `BudgetInv`
counts the processes between an error and its registration, since two of them may fail on
the same entry. `SettledInv` is about the entries nobody handles any more. The second half is about
lanes: `LaneInvariance`, `OrderKept` (`OrderWithinTask`), `OneAtATime` (`NeverTwiceAtOnce`) and
`TypeCorrect`. Every lane ascends, holds all entries of its tasks in the batch, and has the message in
process as its head (`LaneInv`; that `_partition_messages` makes such lanes, by any hash, is a
lemma). A process that has the group for itself has every pending entry in one of its lanes (`AloneInv`),
so an earlier entry of the task would be before the head. Processes that read one entry at a
time hold at most one each, which is kept fresh by the heartbeat and so claimed by nobody
(`HolderInv`).

**`FrameStore_proofs`**, for every set of videos and every limit: `TypeCorrect`,
`CapacityKept`, `WindowKept`, `SourceKept`, `FramesKept`, `SlotsGivenBack`. `SlotInv` counts the
slots of the registry and bounds the tokens, late ones included; `HandlerInv` says what a
handler knows at each point, above all that its old reading `seen` of the tracking counter is
a lower bound; `RefInv` and `HoldInv` say whose frames the registry holds.

**`VideoDecoder_proofs`**: `ChunksTile` (for every admissible length, chunk size, overlap and
byte limit the chunks tile the video), `TypeCorrect`, `FramesDelivered` (`FramesExact`) and
`ChildrenStopped` (`NoChildLeft`). As long as a delivery is `Sound`, that is has neither
failed nor timed out, one thread uses the decoder and `LinedUp` says that child and tail agree on
where the next chunk begins; afterwards two threads share it and nothing more is delivered.
`StreamInv`, `BatchInv` and `ChildInv` are about the frames read, handed out, and the children.

**`Submission_proofs`**, for every set of requests, bodies and limits: `SourceOnDisk`
(`QueuedHasSource`), `NothingElseRemains` (`OnlyAcceptedRemains`) and `TypeCorrect`. Requests share only the disk, so a
step of one changes nothing of another's tasks (`Elsewhere`); `RequestInv` and `TaskInv`
follow one request and one task from file to stage.

**`TrackingWorker_proofs`**, for every number of chunks and any memory of the actor:
`TakesTurns` (`InTurn`), `Released` (`ReleasedWhenDone`), `Contents`, `ScenesContinue`
(`ContinuousScenes`), `FedOnceUnlessMidway` and `TypeCorrect`. With k chunks acknowledged and
n of them with a stored result, n is k or k + 1 (`Counted`); `QueueInv`, `CheckpointInv`,
`ActorInv` and `HandlerInv` say how far calls under way, checkpoint, tracker and
handler may be apart from that, whatever dies, stops or times out. What the tracker was fed is a
recursive function over the frames of a job. `SceneOf` gives the scene of a frame, `ChunkFed` what a
tracker that has seen its scene so far has seen after one more chunk, and
`ContentInv` says that every tracker, answer, checkpoint and result is of that kind unless a job
failed midway. `FedOnceUnlessMidway` delimits the disagreement that `tracking_dirty` finds (section 6, 4):
without that fault no frame is fed twice. `MemoryInv`, for `TypeCorrect`, bounds the responses
the actor remembers: those it may keep, and one for each export that failed.

**`CutWorker_proofs`**, for any layouts, any number of transitions and of faults:
`OneResultForEver` (`OneResult`), `NumbersGrowAlong` (`NumbersGrow`), `ScenesFollow`
(`ScenesFollowTransitions`), `FinalScenesTileTheVideo` (`FinalScenesTile`), `PendingRight`,
`EveryTransitionOnce` (`ReportedOnce`) and `TypeCorrect`. The lemmas come first:
the valid ranges tile the video (`ChunkBounds`, `ChunkOrder`, `ChunkOfFrame`); each frame of a chunk is in
exactly one of its scenes, whose number counts the transitions that ended before the frame
(`OneSceneOfFrame`, for every finite set of transitions that end in the chunk or on the frame before); and what
the ownership rules return is such a set (`OwnedTransitions`). The invariant then says that the chunks
0..n-1 have one result each, and gives the number `base[c]` with which chunk c was started: no later
base is below the numbers of an earlier chunk, and it is the very next number as long as the hash was
kept. A state that is rebuilt from a record may skip a number but never goes back
(`LoadedState`). `PendingInv` is for `EveryTransitionOnce`: the start that one chunk leaves to the next
is the first frame of the one transition that crosses the boundary, so each result is what its chunk owns
with a right start; what a chunk sees of a transition decides whether it, the chunk after it
or neither reports it, and then with which frames. `ShapeInv`, for `TypeCorrect`, has the validators of
`CutResultMessage`. Least and greatest elements (`LeastOf`, `GreatestOf`) come from the well-foundedness of
the naturals.

Every safety property that a run checks is thereby proved. Only model-checked is liveness
(`Completes`, `EverySettled`, `EverythingReleased`, `EveryChunkPublished`, `EveryJobTracked`,
`DeliveryEnds`): it needs fairness and ENABLED, which this prover does not reason about.
`NoneStuck` is the part of `Completes` that is an invariant. The properties of the four runs that
find a violation are false, and so not proved; `FedOnceUnlessMidway` is the true part of one.

## 6. Where code and documents disagree

Four disagreements have a run of their own; `PROJECT.json` quotes the lines.

1. `flow_interrupted`: an aggregator that is stopped after marking the last chunk never
   finishes the task, because the redelivered message finds the chunk marked
   (`aggregator.py:42`).
2. `frames_lost_reply`: when the reply to a publication is lost, ingest releases frames of
   a chunk that is published (`ingest.py:185`).
3. `cut_split`: a gradual transition over a boundary may be reported as a hard cut first and as
   a whole afterwards (`participant_4_cut_detection/worker.py:164`).
4. `tracking_dirty`: a job that failed midway is fed to the tracker again
   (`yolo_world_tracker.py:470`).

Met while modelling, without a run of their own; the properties concerned name them as exceptions:

- a restarted tracker reads chunk c+1 while c is not yet claimable; it is refused until its
  attempts are used up and the task fails (`common.py:71`; `docs/WORKER_CONTRACTS.md:134-138` says
  that the runtime recovers from it, and only that later chunks do not overtake is true). This is why `Completes` excludes restarts of the tracker;
- a restart of ingest in the final drain leaves the last objects registered and the source
  on disk, since the redelivered message returns at once (`ingest.py:79`; `README.md:324`
  and `docs/REAL_MODEL_LIFECYCLE.md:33-35` say ingest releases and removes them). This is
  why `EverythingReleased` excludes restarts;
- a task that fails downstream keeps the slots of its untracked chunks (`ingest.py:445`), its
  tracking actor and checkpoint (`participant_3_tracking/worker.py:294`), and its source when no
  ingest handler is left to remove it;
- two videos that saw the same free slot: the put of one is refused until its attempts are used
  up (`ingest.py:458`; possible with `ingest_worker_concurrency` above 1);
- with more than one entry per batch the later ones have no heartbeat while they wait
  (`common.py:105`; the docstring in `redis_streams.py:183-186` promises one), which matters with
  two processes of a worker. The deployment with two processes therefore reads one entry at a time;
- a tracking actor that died twice is not replaced while the worker process keeps its handle
  (`participant_3_tracking/worker.py:152`); the cut worker drops its handle on errors;
- closing a decoder whose child hangs: `stdout.close()` waits for the thread inside `readinto`,
  and `terminate` comes only after it (`video_decoder.py:237`); nor does anybody read the child's
  stderr while it runs. The docstring at `video_decoder.py:40-42` and
  `docs/ARCHITECTURE_AND_DECISIONS.md:138-139` say that the process is stopped. `DeliveryEnds` excepts it;
- a thread that was given up may still start a child, after `close` has looked for one; nobody
  stops it (`ingest.py:263`). `NoChildLeft` excepts it;
- the reply to `create_and_enqueue` is lost: the route removes the source of a task that is queued
  (`routes.py:173`). `QueuedHasSource` excepts it;
- the API is stopped between saving an upload and the transaction: its files stay for ever
  (`routes.py:151`). `OnlyAcceptedRemains` excepts them.

## 7. What is not modelled, and the plan

Not modelled: neural networks, fusion and ByteTrack itself; pixels; logging, metrics, the
wording of messages; configuration as such (its limits are the constants); TTLs (a day and
more); plumbing such as CORS and the health routes; the frontend, which polls the status and keeps no
state that the service depends on; the experiment scripts. In `TrackingWorker` the
checkpoint is taken to hold all of ByteTrack's state. In `CutWorker` the boundary head has one peak per
transition and runs are those that remain after merging. `StreamWorker` stands for one stream; the
effect of several is in `Pipeline`. `VideoDecoder` takes FFprobe as one step and leaves out
`batches()`, which the service does not use. The part of a ZIP that is wrong, and how, is a class of
member in `Submission`.

What could follow, in this order:

1. trimming: `XADD` with an approximate maximal length removes pending entries too
   (`redis_streams.py:97`). It takes a backlog of thousands of entries, so the model needs the
   sizes of the deployment to say anything;
2. a clock per video in `FrameStore`, to tell a video that is stalled from one that waits for slots of
   others (`ingest.py:468`); now a stall is possible at any time;
3. the composition of `VideoDecoder`, `FrameStore` and the ingest part of `Pipeline`, which share
   the position of one handler;
4. proofs of the true parts of the other properties that a run finds violated, as
   `FedOnceUnlessMidway` is of `FedOnce`: `FinalisationResumes` without an interrupted aggregator,
   `SplitOnce` for transitions that lie in one chunk;
5. invariants for the other liveness properties, as `NeverStuck` is for `Completes`: that a delivery in
   `VideoDecoder`, a drain in `FrameStore` and a job in `TrackingWorker` never wait for what cannot come.
