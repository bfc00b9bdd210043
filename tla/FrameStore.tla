----------------------------- MODULE FrameStore -----------------------------
(***************************************************************************)
(* The life of the decoded frames: IngestHandler (workers/ingest.py) puts  *)
(* them into Ray through RayObjectStore (infrastructure/ray_store.py), the *)
(* detached ObjectRegistryActor (ray_runtime/object_registry.py) holds the *)
(* references and bounds their number, and ingest releases them again when *)
(* Redis says that the chunk is tracked.                                   *)
(*                                                                         *)
(* A video is one task.  Its durable record (published, object_ref,        *)
(* tracked, complete, stage) is in Redis; pc and local are the ingest      *)
(* process's own and are lost when it stops; the registry outlives it.     *)
(*                                                                         *)
(* One delivery of a task is handled at a time (StreamWorker), so the      *)
(* chunk that is offered for publication is always new.  Decoding itself,  *)
(* status messages and progress are left out.                              *)
(*                                                                         *)
(* A fault is a task that fails, a stall or another error of ingest, a put *)
(* that is rejected or times out, a call of the registry that fails or     *)
(* whose reply is lost, a publication that does, a stop of the process or  *)
(* a restart of the registry; MaxFaults bounds them.                       *)
(***************************************************************************)
EXTENDS Integers, Sequences, FiniteSets, SequencesExt

CONSTANTS
  Videos,
  TotalChunks,         (* chunks of each video                            *)
  MaxPerTask,          (* max_inflight_chunks_per_task                    *)
  MaxGlobal,           (* max_inflight_chunks_global                      *)
  PutAttempts,         (* ray_put_max_attempts                            *)
  IngestConcurrency,   (* ingest_worker_concurrency                       *)
  MaxFaults

ASSUME LimitsAssumption ==
  /\ TotalChunks \in Nat \ {0} /\ MaxPerTask \in Nat \ {0}
  /\ MaxGlobal \in Nat \ {0} /\ PutAttempts \in Nat \ {0}
  /\ IngestConcurrency \in Nat \ {0} /\ MaxFaults \in Nat

VARIABLES
  entries,       (* registry: tokens with an ObjectRef                     *)
  reservations,  (* registry: tokens with a slot but no object yet         *)
  minted,        (* how many tokens each video has reserved (uuid4)        *)
  asked,         (* tokens for which reserve was called and nobody waits   *)
  late,          (* tokens whose put goes on although nobody waits for it  *)
  published,     (* ingest_published_chunks                                *)
  object_ref,    (* the token of each published chunk                      *)
  tracked,       (* tracking_completed_chunks                              *)
  complete,      (* ingest_complete                                        *)
  stage,         (* "active" stands for the stages before the last two     *)
  source,        (* is the uploaded video still on disk?                   *)
  pc,            (* where the ingest handler of a video is                 *)
  local,         (* its local variables                                    *)
  faults         (* the faults so far, oldest first                        *)

registryVars == <<entries, reservations, minted, asked, late>>
taskVars     == <<published, object_ref, tracked, complete, stage>>
handlerVars  == <<pc, local>>
vars == <<registryVars, taskVars, source, handlerVars, faults>>

Token == [video : Videos, nr : Nat \ {0}]

Pc == {"idle", "poll", "release", "reserve", "register", "publish", "give_back",
       "mark", "cleanup", "ended"}

(* released_count, the backpressure state read last, the failed puts of    *)
(* the chunk at hand, and its token's number.                              *)
Locals == [released : 0..TotalChunks, seen : 0..TotalChunks,
           ended : BOOLEAN, tries : 0..PutAttempts, nr : Nat]

Fresh == [released |-> 0, seen |-> 0, ended |-> FALSE, tries |-> 0, nr |-> 0]

Init ==
  /\ entries = {} /\ reservations = {}
  /\ minted = [v \in Videos |-> 0]
  /\ asked = {} /\ late = {}
  /\ published = [v \in Videos |-> 0]
  /\ object_ref = [v \in Videos |-> <<>>]
  /\ tracked = [v \in Videos |-> 0]
  /\ complete = [v \in Videos |-> FALSE]
  /\ stage = [v \in Videos |-> "active"]
  /\ source = [v \in Videos |-> "present"]
  /\ pc = [v \in Videos |-> "idle"]
  /\ local = [v \in Videos |-> Fresh]
  /\ faults = <<>>

-----------------------------------------------------------------------------
(* ObjectRegistryActor.count, and the test of reserve.                     *)
Count == Cardinality(entries \cup reservations)

MutantOneTooMany == Count <= MaxGlobal

HasSlot == Count < MaxGlobal

(* The token that the handler of v holds.                                  *)
Current(v) == [video |-> v, nr |-> local[v].nr]

(* The next one it will ask a slot for.                                    *)
New(v) == [video |-> v, nr |-> minted[v] + 1]

(* ObjectRegistryActor.release: a token it does not know is no error.      *)
Release(token) == /\ entries' = entries \ {token}
                  /\ reservations' = reservations \ {token}

Active == {v \in Videos : pc[v] \notin {"idle", "ended"}}

Ended(v) == stage[v] \in {"completed", "failed"}

Goto(v, label) == pc' = [pc EXCEPT ![v] = label]

(* repository.fail: a terminal task stays as it is.                        *)
Fail(v) == stage' = [stage EXCEPT ![v] = IF Ended(v) THEN @ ELSE "failed"]

(* After the last chunk comes mark_ingest_complete, before it the next     *)
(* wait for capacity.                                                      *)
NextChunk(count) == IF count < TotalChunks THEN "poll" ELSE "mark"

-----------------------------------------------------------------------------
(* A delivery starts.  A task that is terminal or whose chunks are all     *)
(* published is left alone.                                                *)
Start(v) ==
  /\ pc[v] = "idle"
  /\ Cardinality(Active) < IngestConcurrency
  /\ Goto(v, IF Ended(v) \/ complete[v] THEN "ended" ELSE NextChunk(published[v]))
  /\ local' = [local EXCEPT ![v] = Fresh]
  /\ UNCHANGED <<registryVars, taskVars, source, faults>>

(* get_backpressure_state, both while filling and while draining.          *)
Poll(v) ==
  /\ pc[v] = "poll"
  /\ Goto(v, "release")
  /\ local' = [local EXCEPT ![v].seen = tracked[v], ![v].ended = Ended(v)]
  /\ UNCHANGED <<registryVars, taskVars, source, faults>>

(* _release_completed_chunks, one chunk at a time from the first one.      *)
MutantReleasePublished(v) == local[v].released < published[v]

ToRelease(v) == local[v].released < local[v].seen

ReleaseNext(v) ==
  /\ pc[v] = "release"
  /\ ToRelease(v)
  /\ Release(object_ref[v][local[v].released + 1])
  /\ local' = [local EXCEPT ![v].released = @ + 1]
  /\ UNCHANGED <<minted, asked, late, taskVars, source, pc, faults>>

(* _wait_for_downstream_capacity: one chunk per video while several videos *)
(* are active; the registry is asked for its count here, and the slot is   *)
(* taken later.                                                            *)
TaskLimit == IF Cardinality(Active) > 1 THEN 1 ELSE MaxPerTask

MutantWiderWindow(v) == /\ published[v] - local[v].seen <= TaskLimit
                        /\ HasSlot

HasCapacity(v) == /\ published[v] - local[v].seen < TaskLimit
                  /\ HasSlot

FillDecides(v) ==
  /\ pc[v] = "release" /\ ~complete[v] /\ ~ToRelease(v)
  /\ Goto(v, CASE local[v].ended                     -> "ended"
               [] ~local[v].ended /\ HasCapacity(v)  -> "reserve"
               [] ~local[v].ended /\ ~HasCapacity(v) -> "poll")
  /\ UNCHANGED <<registryVars, taskVars, source, local, faults>>

(* _wait_for_downstream_drain, until every chunk is released or the task   *)
(* has failed.                                                             *)
MutantNoDrain(v) == local[v].released <= TotalChunks

MutantLeaveLast(v) == local[v].released >= TotalChunks - 1

Drained(v) == \/ local[v].released = TotalChunks
              \/ local[v].ended /\ stage[v] = "failed"

DrainDecides(v) ==
  /\ pc[v] = "release" /\ complete[v] /\ ~ToRelease(v)
  /\ Goto(v, IF Drained(v) THEN "cleanup" ELSE "poll")
  /\ UNCHANGED <<registryVars, taskVars, source, local, faults>>

-----------------------------------------------------------------------------
(* One failed attempt of _put_frames_with_retry; the last one fails the    *)
(* task.                                                                   *)
PutFailed(v) ==
  LET tries == local[v].tries + 1
  IN  /\ local' = [local EXCEPT ![v].tries = tries]
      /\ IF tries < PutAttempts
         THEN Goto(v, "reserve") /\ UNCHANGED stage
         ELSE Goto(v, "ended") /\ Fail(v)

(* RayObjectStore.put takes a slot under a new token before the transfer.  *)
Reserve(v) ==
  /\ pc[v] = "reserve"
  /\ IF HasSlot
     THEN /\ minted' = [minted EXCEPT ![v] = @ + 1]
          /\ local' = [local EXCEPT ![v].nr = minted[v] + 1]
          /\ reservations' = reservations \cup {New(v)}
          /\ Goto(v, "register")
          /\ UNCHANGED stage
     ELSE PutFailed(v) /\ UNCHANGED <<minted, reservations>>
  /\ UNCHANGED <<entries, asked, late, published, object_ref, tracked, complete,
                 source, faults>>

(* ObjectRegistryActor.register: a token whose reservation a restart has   *)
(* erased needs a free slot once more.                                     *)
MayRegister(token) == token \in reservations \/ HasSlot

MutantKeepReservation(v) ==
  /\ pc[v] = "register" /\ MayRegister(Current(v))
  /\ entries' = entries \cup {Current(v)}
  /\ local' = [local EXCEPT ![v].tries = 0]
  /\ Goto(v, "publish")
  /\ UNCHANGED <<reservations, minted, asked, late, taskVars, source, faults>>

Register(v) ==
  /\ pc[v] = "register" /\ MayRegister(Current(v))
  /\ reservations' = reservations \ {Current(v)}
  /\ entries' = entries \cup {Current(v)}
  /\ local' = [local EXCEPT ![v].tries = 0]
  /\ Goto(v, "publish")
  /\ UNCHANGED <<minted, asked, late, taskVars, source, faults>>

(* publish_ingest_chunk_once.                                              *)
Record(v) ==
  /\ published' = [published EXCEPT ![v] = @ + 1]
  /\ object_ref' = [object_ref EXCEPT ![v] = Append(@, Current(v))]

Publish(v) ==
  /\ pc[v] = "publish"
  /\ Record(v)
  /\ Goto(v, NextChunk(published[v] + 1))
  /\ UNCHANGED <<registryVars, tracked, complete, stage, source, local, faults>>

Mark(v) ==
  /\ pc[v] = "mark"
  /\ complete' = [complete EXCEPT ![v] = TRUE]
  /\ Goto(v, "poll")
  /\ UNCHANGED <<registryVars, published, object_ref, tracked, stage, source,
                 local, faults>>

Cleanup(v) ==
  /\ pc[v] = "cleanup"
  /\ source' = [source EXCEPT ![v] = "removed"]
  /\ Goto(v, "ended")
  /\ UNCHANGED <<registryVars, taskVars, local, faults>>

-----------------------------------------------------------------------------
(* Downstream: cut detection and tracking read the frames of the chunks in *)
(* order; after the last one the aggregator completes the task.            *)
Available(v) == object_ref[v][tracked[v] + 1] \in entries

Track(v) ==
  /\ tracked[v] < published[v] /\ ~Ended(v)
  /\ Available(v)
  /\ tracked' = [tracked EXCEPT ![v] = @ + 1]
  /\ UNCHANGED <<registryVars, published, object_ref, complete, stage, source,
                 handlerVars, faults>>

(* _get_entry raises KeyError until the message is given up.               *)
TrackFails(v) ==
  /\ tracked[v] < published[v] /\ ~Ended(v)
  /\ ~Available(v)
  /\ Fail(v)
  /\ UNCHANGED <<registryVars, published, object_ref, tracked, complete, source,
                 handlerVars, faults>>

Aggregate(v) ==
  /\ tracked[v] = TotalChunks /\ ~Ended(v)
  /\ stage' = [stage EXCEPT ![v] = "completed"]
  /\ UNCHANGED <<registryVars, published, object_ref, tracked, complete, source,
                 handlerVars, faults>>

-----------------------------------------------------------------------------
(* What a fault leads to: the task fails; the delivery starts again, with  *)
(* or without a chunk at hand; a token of one video, or of each of them    *)
(* when ingest stops, may be left with nobody who knows it; the reply to a *)
(* publication is lost; the registry is empty.                             *)
FaultKind == {"failure", "interruption", "retry", "loss", "reply_lost", "registry_restart"}

Fault(kind) == /\ Len(faults) < MaxFaults
               /\ faults' = Append(faults, kind)

Happened(kind) == kind \in ToSet(faults)

Only(kinds) == ToSet(faults) \subseteq kinds

(* A downstream worker gives up a message of the task.                     *)
TaskFails(v) ==
  /\ Fault("failure")
  /\ ~Ended(v) /\ published[v] > 0
  /\ Fail(v)
  /\ UNCHANGED <<registryVars, published, object_ref, tracked, complete, source,
                 handlerVars>>

(* DownstreamStallError, in either wait.                                   *)
Stall(v) ==
  /\ Fault("failure")
  /\ pc[v] = "release" /\ ~ToRelease(v) /\ ~local[v].ended
  /\ IF complete[v] THEN ~Drained(v) ELSE ~HasCapacity(v)
  /\ Fail(v)
  /\ Goto(v, "ended")
  /\ UNCHANGED <<registryVars, published, object_ref, tracked, complete, source,
                 local>>

(* A decode, registered_count or a release fails, which for a release may  *)
(* mean that only its reply was lost.                                      *)
IngestFails(v) ==
  /\ Fault("failure")
  /\ \/ pc[v] = "release" /\ ToRelease(v) /\ Release(object_ref[v][local[v].released + 1])
     \/ pc[v] \in {"release", "reserve"} /\ UNCHANGED <<entries, reservations>>
  /\ Fail(v)
  /\ Goto(v, "ended")
  /\ UNCHANGED <<minted, asked, late, published, object_ref, tracked, complete, source,
                 local>>

(* A transient error of Redis between the chunks: the handler is called    *)
(* again in the same process, also when everything is published and only   *)
(* the drain is left, which it then skips.                                 *)
Interrupted(v) ==
  /\ Fault("interruption")
  /\ pc[v] \in {"poll", "mark"}
  /\ Goto(v, "idle")
  /\ UNCHANGED <<registryVars, taskVars, source, local>>

(* Nobody waits for the answer of reserve any more, because the call or    *)
(* the whole put took too long.  Either way nobody cancels it.             *)
ReserveLost(v) ==
  /\ Fault("loss")
  /\ pc[v] = "reserve"
  /\ minted' = [minted EXCEPT ![v] = @ + 1]
  /\ asked' = asked \cup {New(v)}
  /\ PutFailed(v)
  /\ UNCHANGED <<entries, reservations, late, published, object_ref, tracked, complete,
                 source>>

(* The registry answers nevertheless.  A put that was given up as a whole  *)
(* goes on in its thread.                                                  *)
LateReserve(token) ==
  /\ token \in asked
  /\ asked' = asked \ {token}
  /\ IF HasSlot
     THEN /\ reservations' = reservations \cup {token}
          /\ late' \in {late, late \cup {token}}
     ELSE UNCHANGED <<reservations, late>>
  /\ UNCHANGED <<entries, minted, taskVars, source, handlerVars, faults>>

(* ray.put or register raises and the reservation is cancelled.            *)
PutRejected(v) ==
  /\ pc[v] = "register"
  /\ IF MayRegister(Current(v)) THEN Fault("retry") ELSE UNCHANGED faults
  /\ reservations' = reservations \ {Current(v)}
  /\ PutFailed(v)
  /\ UNCHANGED <<entries, minted, asked, late, published, object_ref, tracked, complete,
                 source>>

(* The reply to register is lost: the token is forgotten, cancelling finds *)
(* no reservation, and the entry stays.                                    *)
RegisterReplyLost(v) ==
  /\ Fault("loss")
  /\ pc[v] = "register" /\ MayRegister(Current(v))
  /\ reservations' = reservations \ {Current(v)}
  /\ entries' = entries \cup {Current(v)}
  /\ PutFailed(v)
  /\ UNCHANGED <<minted, asked, late, published, object_ref, tracked, complete, source>>

(* The put is rejected and cancelling fails too, which is only logged.     *)
CancelFails(v) ==
  /\ Fault("loss")
  /\ pc[v] = "register"
  /\ PutFailed(v)
  /\ UNCHANGED <<registryVars, published, object_ref, tracked, complete, source>>

(* wait_for gives up a put that is still running in its thread.            *)
PutTimesOut(v) ==
  /\ Fault("loss")
  /\ pc[v] = "register"
  /\ late' = late \cup {Current(v)}
  /\ PutFailed(v)
  /\ UNCHANGED <<entries, reservations, minted, asked, published, object_ref, tracked,
                 complete, source>>

(* The thread registers its object although nobody knows the token, or     *)
(* cancels the reservation, or fails to.                                   *)
LateRegister(token) ==
  /\ token \in late
  /\ late' = late \ {token}
  /\ \/ /\ MayRegister(token)
        /\ entries' = entries \cup {token}
        /\ reservations' = reservations \ {token}
     \/ /\ UNCHANGED entries
        /\ reservations' \in {reservations, reservations \ {token}}
  /\ UNCHANGED <<minted, asked, taskVars, source, handlerVars, faults>>

(* The publication fails with a transient error before it took effect; the *)
(* finally clause releases the object and the delivery starts again.       *)
PublishFails(v) ==
  /\ Fault("retry")
  /\ pc[v] = "publish"
  /\ Goto(v, "give_back")
  /\ UNCHANGED <<registryVars, taskVars, source, local>>

(* The same error, but only the reply was lost.                            *)
PublishReplyLost(v) ==
  /\ Fault("reply_lost")
  /\ pc[v] = "publish"
  /\ Record(v)
  /\ Goto(v, "give_back")
  /\ UNCHANGED <<registryVars, tracked, complete, stage, source, local>>

MutantKeepObject(v) ==
  /\ pc[v] = "give_back"
  /\ Goto(v, "idle")
  /\ UNCHANGED <<registryVars, taskVars, source, local, faults>>

GiveBack(v) ==
  /\ pc[v] = "give_back"
  /\ Release(Current(v))
  /\ Goto(v, "idle")
  /\ UNCHANGED <<minted, asked, late, taskVars, source, local, faults>>

(* The publication fails and the release after it, where an error is       *)
(* suppressed; they count as one fault.                                    *)
GiveBackFails(v) ==
  /\ Fault("loss")
  /\ pc[v] = "publish"
  /\ Goto(v, "idle")
  /\ UNCHANGED <<registryVars, taskVars, source, local>>

(* The ingest process stops and is started again; the messages of the      *)
(* active videos are delivered once more.  A reservation or a registration *)
(* may be on its way.                                                      *)
Crash ==
  /\ Fault("loss")
  /\ Active # {}
  /\ asked' = asked \cup {New(v) : v \in {w \in Videos : pc[w] = "reserve"}}
  /\ minted' = [v \in Videos |-> IF pc[v] = "reserve" THEN minted[v] + 1 ELSE minted[v]]
  /\ late' = late \cup {Current(v) : v \in {w \in Videos : pc[w] = "register"}}
  /\ pc' = [v \in Videos |-> IF v \in Active THEN "idle" ELSE pc[v]]
  /\ local' = [v \in Videos |-> Fresh]
  /\ UNCHANGED <<entries, reservations, taskVars, source>>

(* Ray restarts the registry actor, with nothing in it.                    *)
RegistryRestarts ==
  /\ Fault("registry_restart")
  /\ entries' = {} /\ reservations' = {}
  /\ UNCHANGED <<minted, asked, late, taskVars, source, handlerVars>>

-----------------------------------------------------------------------------
Ingest(v) ==
  \/ Start(v) \/ Poll(v) \/ ReleaseNext(v) \/ FillDecides(v) \/ DrainDecides(v)
  \/ Reserve(v) \/ Register(v) \/ Publish(v) \/ GiveBack(v) \/ Mark(v) \/ Cleanup(v)

Downstream(v) == Track(v) \/ TrackFails(v) \/ Aggregate(v)

WorkNext == \E v \in Videos : Ingest(v) \/ Downstream(v)

(* Every fault but the lost reply to a publication, which alone can take   *)
(* the frames from a chunk that is to be tracked.                          *)
HandlerFault(v) ==
  \/ TaskFails(v) \/ Stall(v) \/ IngestFails(v) \/ Interrupted(v) \/ ReserveLost(v)
  \/ PutRejected(v) \/ RegisterReplyLost(v) \/ CancelFails(v) \/ PutTimesOut(v)
  \/ PublishFails(v) \/ GiveBackFails(v)

FaultNext ==
  \/ WorkNext
  \/ \E v \in Videos : HandlerFault(v)
  \/ \E token \in asked : LateReserve(token)
  \/ \E token \in late : LateRegister(token)
  \/ Crash \/ RegistryRestarts

Next == FaultNext \/ \E v \in Videos : PublishReplyLost(v)

(* The ingest process and the downstream workers are loops.                *)
Fairness == /\ \A v \in Videos : WF_vars(Ingest(v))
            /\ WF_vars(\E v \in Videos : Downstream(v))

FaultSpec == Init /\ [][FaultNext]_vars /\ Fairness
Spec      == Init /\ [][Next]_vars /\ Fairness

-----------------------------------------------------------------------------
(* The type of the state.                                                  *)
TypeOK ==
  /\ entries \subseteq Token /\ reservations \subseteq Token
  /\ entries \cap reservations = {}
  /\ minted \in [Videos -> Nat] /\ asked \subseteq Token /\ late \subseteq Token
  /\ published \in [Videos -> 0..TotalChunks]
  /\ object_ref \in [Videos -> Seq(Token)]
  /\ tracked \in [Videos -> 0..TotalChunks]
  /\ \A v \in Videos : /\ Len(object_ref[v]) = published[v]
                       /\ tracked[v] <= published[v]
  /\ complete \in [Videos -> BOOLEAN]
  /\ stage \in [Videos -> {"active", "completed", "failed"}]
  /\ source \in [Videos -> {"present", "removed"}]
  /\ pc \in [Videos -> Pc]
  /\ local \in [Videos -> Locals]
  /\ faults \in Seq(FaultKind) /\ Len(faults) <= MaxFaults

(* RayObjectStore.put: the node never holds more objects than it has room  *)
(* for, not even for a moment, however many handlers saw the same free     *)
(* slot and whatever happened to earlier puts.                             *)
CapacityRespected == Cardinality(entries) + Cardinality(reservations) <= MaxGlobal

(* README.md: the frames of a chunk are released only after Redis records  *)
(* its tracking, so cut detection and tracking always find them, unless    *)
(* the registry was restarted.                                             *)
FramesUntilTracked ==
  ~Happened("registry_restart") =>
   \A v \in Videos : \A c \in (tracked[v] + 1)..published[v] :
    ~Ended(v) => object_ref[v][c] \in entries

(* Backpressure: a video never has more untracked chunks in the streams    *)
(* than its window, across stops and restarts of ingest.                   *)
WindowRespected == \A v \in Videos : published[v] - tracked[v] <= MaxPerTask

(* The source is removed only when nobody needs it any more.               *)
SourceUntilDone ==
  \A v \in Videos : source[v] = "removed" => \/ tracked[v] = TotalChunks
                                             \/ stage[v] = "failed"

HeldBy(v) == {token \in entries \cup reservations : token.video = v}

(* When an attempt to store a chunk fails, whatever it had taken is given  *)
(* back, and the registry holds the token in the handler's hands, those of *)
(* published chunks and nothing else.  What the code cannot promise: a     *)
(* call or a put that nobody waits for any more, a lost reply of register, *)
(* a cancellation or a release that fails (both are suppressed) and a stop *)
(* each leave a token that nobody knows; but never more than one of a      *)
(* video, so that as many slots are lost as such faults have happened to   *)
(* it, however often the chunk is tried again.                             *)
Losses == Cardinality({i \in DOMAIN faults : faults[i] = "loss"})

Holding == {"register", "publish", "give_back"}

InHand(v) == IF pc[v] \in Holding THEN {Current(v)} ELSE {}

Astray(v) == HeldBy(v) \ (ToSet(object_ref[v]) \cup InHand(v))

NoSlotLost == \A v \in Videos : Cardinality(Astray(v)) <= Losses

(* Two videos share the slots without blocking each other, and an attempt  *)
(* that fails is repeated: each one is completed, its source is removed    *)
(* and all its slots are free again.                                       *)
EverythingReleased ==
  []Only({"retry"}) => <>[](\A v \in Videos : /\ stage[v] = "completed"
                                              /\ source[v] = "removed"
                                              /\ HeldBy(v) = {})

=============================================================================
