--------------------------- MODULE TrackingWorker ---------------------------
(***************************************************************************)
(* The YOLO tracking worker (participant_3_tracking/worker.py) and its     *)
(* tracker for one video.  The tracker lives in a Ray actor named after    *)
(* the task; it feeds the frames of a scene to ByteTrack one by one, so    *)
(* the identifiers it gives depend on every frame since the last reset.    *)
(* After each chunk the worker writes the result and a checkpoint of the   *)
(* tracker to Redis, from which a restarted actor goes on.                 *)
(*                                                                         *)
(* A tracker that was fed the same frames gives the same tracks, so a      *)
(* track is modelled by the frames that were fed since the reset.  Chunks  *)
(* come as ConsumerGroup delivers them: in order, except that after a stop *)
(* or a lost reply later ones may come first, the last one too.  Calls of  *)
(* an actor are served one at a time, in order.  The checkpoint is taken   *)
(* to hold all of the state of ByteTrack.                                  *)
(***************************************************************************)
EXTENDS ConsumerGroup, FiniteSetsExt

CONSTANTS
  LastChunk,    (* chunks are 0 .. LastChunk                               *)
  ChunkSize,    (* frames of a chunk                                       *)
  ActorCache,   (* responses the actor remembers: 4 in the code            *)
  MaxCuts       (* bound: cuts of a video                                  *)

ASSUME TrackingAssumption == /\ LastChunk \in Nat /\ ChunkSize \in Nat \ {0}
                             /\ ActorCache \in Nat \ {0} /\ MaxCuts \in Nat

VARIABLES
  scenes,      (* frames at which a scene starts                           *)
  late,        (* those for which the job itself names the transition,     *)
               (* not the job before                                       *)
  classes,     (* FALSE: tracking_classes is empty                         *)
  actor, queue,   (* the actor process and the calls that wait for it      *)
  handle,      (* the manager of the worker holds the actor's handle       *)
  handler,     (* the handler's local variables                            *)
  results,     (* cv:ml:tracking-result                                    *)
  checkpoint,  (* cv:ml:tracking-state, at most one                        *)
  next,        (* next_tracking_result_chunk of the task                   *)
  published    (* results appended to the stream                           *)

video  == <<scenes, late, classes>>
stored == <<results, checkpoint>>
order  == <<next, published>>
vars   == <<video, actor, queue, handle, handler, stored, order, groupVars, faults>>

Chunk  == 0..LastChunk
Frames == 0..((LastChunk + 1) * ChunkSize - 1)

-----------------------------------------------------------------------------
(* A job: its frames with their scene; reset says that a transition of the *)
(* job ends with the frame before.                                         *)
SceneStart(f) == Max({s \in scenes \cup {0} : s <= f})

Job(c) ==
  [i \in 1..ChunkSize |->
     LET f == c * ChunkSize + i - 1
     IN  [frame |-> f,
          scene |-> SceneStart(f),
          reset |-> f \in scenes /\ (f % ChunkSize = 0 => f \in late)]]

(* YoloWorldTracker: the set of the chunk it expects, if any, and what     *)
(* ByteTrack has seen of the scene it is in.                               *)
Tracker(expected, byte_tracker) == [expected |-> expected, byte_tracker |-> byte_tracker]

NewTracker == Tracker({}, [scene |-> -1, fed |-> <<>>])

MutantFlagOnly(b, frame) == IF frame.reset THEN [scene |-> frame.scene, fed |-> <<>>] ELSE b

Enter(b, frame) ==
  IF frame.reset \/ frame.scene # b.scene
  THEN [scene |-> frame.scene, fed |-> <<>>]     (* _reset_for_scene *)
  ELSE b

Feed(b, frame) ==
  LET e == Enter(b, frame) IN [e EXCEPT !.fed = Append(@, frame.frame)]

Fed(b, frames) ==
  LET fed[i \in 0..Len(frames)] == IF i = 0 THEN b ELSE Feed(fed[i - 1], frames[i])
  IN  fed[Len(frames)]

Tracks(b, frames) ==
  [i \in DOMAIN frames |-> [frame |-> frames[i].frame,
                            fed   |-> Fed(b, SubSeq(frames, 1, i)).fed]]

-----------------------------------------------------------------------------
NoActor   == [status |-> "none"]
DeadActor == [status |-> "dead"]

Actor(restarts, restored, tracker, cache) ==
  [status |-> "alive", restarts |-> restarts, restored |-> restored,
   tracker |-> tracker, cache |-> cache]

NewActor(restarts) == Actor(restarts, FALSE, NewTracker, {})

Response(c, tracks, state) == [chunk |-> c, tracks |-> tracks, checkpoint |-> state]

ProcessCall(c, state, awaited) == [chunk |-> c, checkpoint |-> state, awaited |-> awaited]

Idle == [at |-> "idle"]
Then(step, c) == [at |-> step, chunk |-> c]

Init ==
  /\ scenes \in SUBSET (Frames \ {0}) /\ Cardinality(scenes) <= MaxCuts
  /\ late \in SUBSET {f \in scenes : f % ChunkSize = 0}
  /\ classes \in BOOLEAN
  /\ actor = NoActor /\ queue = <<>> /\ handle = FALSE /\ handler = Idle
  /\ results = {} /\ checkpoint = {} /\ next = 0 /\ published = {}
  /\ GroupInit(Chunk)

(* Errors that the runtime counts, a Redis error that it does not count, a *)
(* lookup of the actor that fails, a stop, and a lost reply to a poll.     *)
CountedKind == {"fetch", "mid_job", "export", "actor_dies", "handler"}
FaultKind   == CountedKind \cup {"transient", "lookup", "worker_stops", "reply_lost"}

-----------------------------------------------------------------------------
(* The handler (RealTrackingHandler.__call__).                             *)
Cached(c) == {r \in results : r.chunk = c}

StartCached(c) ==
  /\ handler = Idle /\ Handles(c)
  /\ \E r \in Cached(c) : handler' = [at |-> "publish", result |-> r]
  /\ UNCHANGED <<video, actor, queue, handle, stored, order, groupVars, faults>>

StartWithoutClasses(c) ==
  /\ handler = Idle /\ Handles(c) /\ Cached(c) = {} /\ ~classes
  /\ LET r == [chunk |-> c, tracks |-> <<>>]
     IN  results' = results \cup {r} /\ handler' = [at |-> "publish", result |-> r]
  /\ UNCHANGED <<video, actor, queue, handle, checkpoint, order, groupVars, faults>>

(* _infer.  The manager uses the handle it has, else gets or creates the   *)
(* actor.                                                                  *)
StartInference(c) ==
  /\ handler = Idle /\ Handles(c) /\ Cached(c) = {} /\ classes
  /\ handle => actor.status # "dead"
  /\ actor' = IF actor.status = "alive" THEN actor ELSE NewActor(0)
  /\ handle' = TRUE
  /\ queue' = Append(queue, ProcessCall(c, checkpoint, TRUE))
  /\ handler' = [at |-> "infer"]
  /\ UNCHANGED <<video, stored, order, groupVars, faults>>

(* A call of an actor that is dead for good raises.                        *)
CallsDeadActor(c) ==
  /\ handler = Idle /\ Handles(c) /\ Cached(c) = {} /\ classes
  /\ handle /\ actor.status = "dead"
  /\ Raises
  /\ UNCHANGED <<video, actor, queue, handle, handler, stored, order, faults>>

(* _persist_internal_state.                                                *)
Persist ==
  /\ handler.at = "persist"
  /\ results' = results \cup {handler.result}
  /\ checkpoint' = {handler.checkpoint}
  /\ handler' = [at |-> "publish", result |-> handler.result]
  /\ UNCHANGED <<video, actor, queue, handle, order, groupVars, faults>>

(* publish_tracking_result_in_order: appended in its turn, left out when   *)
(* it has been appended before, refused when its turn is still to come.    *)
Publish ==
  /\ handler.at = "publish"
  /\ LET c == handler.result.chunk
     IN  /\ \/ c = next /\ published' = published \cup {handler.result} /\ next' = next + 1
            \/ c < next /\ UNCHANGED order
         /\ handler' = Then(IF c = LastChunk THEN "release" ELSE "ack", c)
  /\ UNCHANGED <<video, actor, queue, handle, stored, groupVars, faults>>

PublishRefused ==
  /\ handler.at = "publish"
  /\ handler.result.chunk > next
  /\ Raises
  /\ handler' = Idle
  /\ UNCHANGED <<video, actor, queue, handle, stored, order, faults>>

(* TrackingActorManager.release: without a handle the actor is looked up,  *)
(* and stays when that fails.                                              *)
MutantOwnHandle ==
  /\ handler.at = "release"
  /\ handle' = FALSE
  /\ actor' = IF handle THEN NoActor ELSE actor
  /\ queue' = IF handle THEN <<>> ELSE queue
  /\ handler' = Then("delete", handler.chunk)
  /\ UNCHANGED <<video, stored, order, groupVars, faults>>

Release ==
  /\ handler.at = "release"
  /\ handle' = FALSE
  /\ \/ actor' = NoActor /\ queue' = <<>> /\ UNCHANGED faults
     \/ ~handle /\ Fault("lookup") /\ UNCHANGED <<actor, queue>>
  /\ handler' = Then("delete", handler.chunk)
  /\ UNCHANGED <<video, stored, order, groupVars>>

DeleteState ==
  /\ handler.at = "delete"
  /\ checkpoint' = {}
  /\ handler' = Then("ack", handler.chunk)
  /\ UNCHANGED <<video, actor, queue, handle, results, order, groupVars, faults>>

Ack ==
  /\ handler.at = "ack"
  /\ Acks
  /\ handler' = Idle
  /\ UNCHANGED <<video, actor, queue, handle, stored, order, faults>>

-----------------------------------------------------------------------------
(* TrackingInferenceActor.process, for the first call of the queue.  What  *)
(* it returns or raises goes to the handler, if that still waits.          *)
Call == Head(queue)

MutantNoRestore == actor.tracker

Restored ==
  IF ~actor.restored /\ Call.checkpoint # {}
  THEN CHOOSE t \in Call.checkpoint : TRUE
  ELSE actor.tracker

Expected(t) == IF t.expected = {} THEN {Call.chunk} ELSE t.expected

(* The oldest response is dropped when there are more than ActorCache.     *)
MutantForget(cache) == {}

Kept(cache) ==
  IF Cardinality(cache) <= ActorCache
  THEN cache
  ELSE {r \in cache : \E q \in cache : q.chunk < r.chunk}

Remembered == {r \in actor.cache : r.chunk = Call.chunk}

Serving == actor.status = "alive" /\ queue # <<>>

Return(tracks, state) ==
  /\ queue' = Tail(queue)
  /\ handler' = IF Call.awaited
                THEN [at |-> "persist", checkpoint |-> state,
                      result |-> [chunk |-> Call.chunk, tracks |-> tracks]]
                ELSE handler
  /\ UNCHANGED groupVars

Raise ==
  /\ queue' = Tail(queue)
  /\ IF Call.awaited
     THEN Raises /\ handler' = Idle
     ELSE UNCHANGED <<handler, groupVars>>

(* A response that has no checkpoint yet, since the export failed, gets    *)
(* it now.                                                                 *)
ActorRemembers ==
  /\ Serving
  /\ \E r \in Remembered :
       LET state == IF r.checkpoint = {} THEN {actor.tracker} ELSE r.checkpoint
           answered == Response(r.chunk, r.tracks, state)
       IN  /\ actor' = Actor(actor.restarts, actor.restored, actor.tracker,
                             (actor.cache \ {r}) \cup {answered})
           /\ Return(r.tracks, CHOOSE t \in state : TRUE)
  /\ UNCHANGED <<video, handle, stored, order, faults>>

ActorBecomes(tracker, cache) == actor' = Actor(actor.restarts, TRUE, tracker, cache)

(* The frames cannot be fetched: the tracker has been restored, no more.   *)
ActorCannotFetch ==
  /\ Serving /\ Remembered = {}
  /\ Fault("fetch")
  /\ ActorBecomes(Restored, actor.cache)
  /\ Raise
  /\ UNCHANGED <<video, handle, stored, order>>

(* process_job raises when the chunk is not the one that the tracker       *)
(* expects; a tracker that expects none takes any.                         *)
ActorRefuses ==
  /\ Serving /\ Remembered = {}
  /\ Expected(Restored) # {Call.chunk}
  /\ ActorBecomes(Restored, actor.cache)
  /\ Raise
  /\ UNCHANGED <<video, handle, stored, order, faults>>

Accepts ==
  /\ Serving /\ Remembered = {}
  /\ Expected(Restored) = {Call.chunk}

(* process_job; then the response is remembered, and the state exported.   *)
Processed == Tracker({Call.chunk + 1}, Fed(Restored.byte_tracker, Job(Call.chunk)))

ActorProcesses ==
  /\ Accepts
  /\ LET tracks == Tracks(Restored.byte_tracker, Job(Call.chunk))
         R(state) == Response(Call.chunk, tracks, state)
     IN  \/ /\ ActorBecomes(Processed, Kept(actor.cache \cup {R({Processed})}))
            /\ Return(tracks, Processed)
            /\ UNCHANGED faults
         \/ /\ Fault("export")
            /\ ActorBecomes(Processed, actor.cache \cup {R({})})
            /\ Raise
  /\ UNCHANGED <<video, handle, stored, order>>

(* process_job raises in the detectors at a frame: the frames before it    *)
(* have been fed, and the scene of the frame is entered.                   *)
ActorFailsMidway ==
  /\ Accepts
  /\ Fault("mid_job")
  /\ \E i \in 1..ChunkSize :
       LET job == Job(Call.chunk)
           fed == Fed(Restored.byte_tracker, SubSeq(job, 1, i - 1))
       IN  ActorBecomes(Tracker({Call.chunk}, Enter(fed, job[i])), actor.cache)
  /\ Raise
  /\ UNCHANGED <<video, handle, stored, order>>

(* max_restarts = 1, max_task_retries = 0: the calls are lost; the actor   *)
(* is restarted once, with nothing in its memory.                          *)
ActorDies ==
  /\ actor.status = "alive"
  /\ Fault("actor_dies")
  /\ actor' = IF actor.restarts = 0 THEN NewActor(1) ELSE DeadActor
  /\ queue' = <<>>
  /\ IF handler.at = "infer"
     THEN Raises /\ handler' = Idle
     ELSE UNCHANGED <<handler, groupVars>>
  /\ UNCHANGED <<video, handle, stored, order>>

-----------------------------------------------------------------------------
Abandoned(q) == [i \in DOMAIN q |-> ProcessCall(q[i].chunk, q[i].checkpoint, FALSE)]

(* A timeout of the inference or another error that is counted; a call     *)
(* that is under way goes on.  release has dropped the handle by then.     *)
HandlerFails ==
  /\ handler # Idle
  /\ Fault("handler")
  /\ Raises
  /\ handler' = Idle /\ queue' = Abandoned(queue)
  /\ handle' = (handle /\ handler.at # "release")
  /\ UNCHANGED <<video, actor, stored, order>>

(* An error of Redis: the handler is called again.                         *)
Interrupted ==
  /\ handler.at \notin {"idle", "infer"}
  /\ Fault("transient")
  /\ handler' = Idle
  /\ UNCHANGED <<video, actor, queue, handle, stored, order, groupVars>>

(* The worker's process stops and a new one starts.  Calls of the old one  *)
(* may still be served.                                                    *)
WorkerStops ==
  /\ held # <<>>
  /\ Stops
  /\ handler' = Idle /\ handle' = FALSE
  /\ queue' \in {<<>>, Abandoned(queue)}
  /\ UNCHANGED <<video, actor, stored, order>>

Poll ==
  /\ Polls(LastChunk + 1) \/ ReplyLost(LastChunk + 1)
  /\ UNCHANGED <<video, actor, queue, handle, handler, stored, order>>

Handle(c) == \/ StartCached(c) \/ StartWithoutClasses(c)
             \/ StartInference(c) \/ CallsDeadActor(c)

HandlerStep == \/ \E c \in Chunk : Handle(c)
               \/ Persist \/ Publish \/ PublishRefused \/ Release \/ DeleteState \/ Ack

ActorStep == ActorRemembers \/ ActorProcesses \/ ActorRefuses

Next == \/ Poll \/ HandlerStep \/ ActorStep
        \/ ActorCannotFetch \/ ActorFailsMidway \/ ActorDies
        \/ HandlerFails \/ Interrupted \/ WorkerStops

(* The worker is a loop, and the actor serves the calls it has.            *)
Fairness == WF_vars(Poll \/ HandlerStep) /\ WF_vars(ActorStep)

Spec == Init /\ [][Next]_vars /\ Fairness

-----------------------------------------------------------------------------
(* The type of the state; the actor's memory stays small, except that a    *)
(* failed export skips the eviction once.                                  *)
TypeOK ==
  /\ GroupTypeOK(LastChunk + 1)
  /\ next \in 0..(LastChunk + 1) /\ published \subseteq results
  /\ Cardinality(checkpoint) <= 1
  /\ handler.at \in {"idle", "infer", "persist", "publish", "release", "delete", "ack"}
  /\ actor.status \in {"none", "alive", "dead"}
  /\ actor.status = "alive" =>
       Cardinality(actor.cache) <= ActorCache + Count("export")

(* As long as no stop and no lost reply let a later chunk overtake, and no *)
(* chunk was given up, a call that the actor has no answer for is for the  *)
(* chunk its tracker expects, also after a timeout, a death of the actor   *)
(* or a failed job; and a tracker that is as new only gets the first one.  *)
Undisturbed ==
  given_up = {} /\ ~Happened("worker_stops") /\ ~Happened("reply_lost")

InTurn ==
  Undisturbed /\ Serving /\ Remembered = {} =>
    Restored.expected = IF Call.chunk = 0 /\ checkpoint = {} /\ Restored = NewTracker
                        THEN {} ELSE {Call.chunk}

(* What is published of a frame comes from the frames of its own scene up  *)
(* to it, each fed once and in order: identifiers continue over a chunk    *)
(* boundary and never over a cut, also when calls are repeated after a     *)
(* timeout, the actor is restarted from the checkpoint, or a new worker    *)
(* gets a later chunk first: a tracker that began with one publishes       *)
(* nothing.  A job that failed midway is the exception (FedOnce).          *)
SceneUpTo(f) == [i \in 1..(f - SceneStart(f) + 1) |-> SceneStart(f) + i - 1]

ContinuousScenes ==
  ~Happened("mid_job") =>
    \A r \in published : \A i \in DOMAIN r.tracks :
      r.tracks[i].fed = SceneUpTo(r.tracks[i].frame)

(* WORKER_CONTRACTS.md: a retry does not advance model state twice.  No    *)
(* frame of a scene is fed to the tracker twice.                           *)
FedOnce ==
  \A r \in results : \A i \in DOMAIN r.tracks : IsInjective(r.tracks[i].fed)

(* The actor holds a share of the GPU and its checkpoint the memory of     *)
(* Redis: when the last chunk is acknowledged, and was not given up, both  *)
(* are gone and stay gone, also when another worker created the actor, and *)
(* when earlier chunks are delivered again afterwards.                     *)
ReleasedWhenDone ==
  LastChunk \in acked \ given_up /\ ~Happened("lookup") =>
    actor.status # "alive" /\ checkpoint = {}

(* Every chunk is settled, and none is given up - the task does not fail - *)
(* unless a stop or a lost reply let a later chunk overtake, the actor     *)
(* died for good, or MaxAttempts errors happened: no single failure leaves *)
(* tracker, checkpoint and stored results in disagreement over which chunk *)
(* is next.                                                                *)
Excused ==
  \/ Happened("worker_stops") \/ Happened("reply_lost")
  \/ Count("actor_dies") > 1
  \/ Cardinality({i \in DOMAIN faults : faults[i] \in CountedKind}) >= MaxAttempts

EveryJobTracked == <>(acked = Chunk /\ (given_up = {} \/ Excused))
=============================================================================
