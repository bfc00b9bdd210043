---------------------------- MODULE StreamWorker ----------------------------
(***************************************************************************)
(* The runtime that all five workers share (workers/common.py) on top of   *)
(* one Redis stream and its consumer group (infrastructure/redis_streams). *)
(*                                                                         *)
(* A worker process claims entries that have been pending for too long,    *)
(* else it reads new ones; it splits the batch into one lane per task,     *)
(* runs at most MaxConcurrency lanes, and in a lane one message at a time. *)
(* A message is retried in place until the handler succeeds or it has      *)
(* failed MaxAttempts times and is moved to the dead letters.              *)
(*                                                                         *)
(* Time is abstract: a pending entry is fresh until its idle time may have *)
(* passed stream_claim_idle_ms.  The heartbeat of a message in process     *)
(* comes four times as often, so such an entry stays fresh.                *)
(*                                                                         *)
(* faults lists the faults so far, at most MaxFaults: a process that stops *)
(* (or that an error outside the retried block ends; it is restarted), a   *)
(* lost reply to a poll, a transient Redis error inside the retried block, *)
(* and the failure of a task that could not be stored.                     *)
(***************************************************************************)
EXTENDS Integers, Sequences, FiniteSets, SequencesExt

CONSTANTS
  Deployments,     (* what a run may consist of: the task of each entry of *)
                   (* the stream, the processes that share the group, max( *)
                   (* stream_batch_size, max_concurrency), max_concurrency *)
  MaxAttempts,     (* stream_max_delivery_attempts                         *)
  MaxFaults

AnyMessage == UNION {DOMAIN d.task_of : d \in Deployments}
AnyWorker  == UNION {d.workers : d \in Deployments}
AnyTask    == UNION {ToSet(d.task_of) : d \in Deployments}

ASSUME DeploymentsAssumption ==
  \A d \in Deployments :
    /\ d \in [task_of : Seq(AnyTask), workers : SUBSET AnyWorker,
             batch : Nat \ {0}, concurrency : Nat \ {0}]
    /\ IsFiniteSet(d.workers)
    /\ d.concurrency <= d.batch
ASSUME AttemptsAssumption == MaxAttempts \in Nat \ {0} /\ MaxFaults \in Nat

VARIABLES
  deployment,    (* one of Deployments, for ever                            *)
  published,     (* entries 1..published are in the stream                 *)
  delivered,     (* last-delivered-id of the group                         *)
  pending,       (* the pending entries list of the group                  *)
  fresh,         (* pending entries that XAUTOCLAIM would skip             *)
  attempts,      (* cv:delivery_attempts:<stream>:<id>                     *)
  dead_letters,  (* entries copied to the dead-letter stream               *)
  failed,        (* tasks marked failed                                    *)
  handled,       (* entries whose handler has returned                     *)
  failures,      (* how often the handler of an entry raised for good      *)
  lanes,         (* per process: the partitions of its batch               *)
  step,          (* per process and entry: where _process_message is       *)
  faults         (* the faults so far, oldest first                        *)

streamVars  == <<deployment, published>>
groupVars   == <<delivered, pending, fresh>>
recordVars  == <<attempts, dead_letters, failed>>
historyVars == <<handled, failures>>
processVars == <<lanes, step>>
vars == <<streamVars, groupVars, recordVars, historyVars, processVars, faults>>

Step == {"waiting", "handle", "ack", "clear", "register", "dead_letter",
         "mark_failed", "reject", "ack_dead", "clear_dead"}

TaskOf         == deployment.task_of
Workers        == deployment.workers
BatchSize      == deployment.batch
MaxConcurrency == deployment.concurrency

Message == DOMAIN TaskOf
Task    == ToSet(TaskOf)

Init == /\ deployment \in Deployments
        /\ published = 0 /\ delivered = 0
        /\ pending = {} /\ fresh = {}
        /\ attempts = [m \in Message |-> 0]
        /\ dead_letters = {} /\ failed = {}
        /\ handled = {} /\ failures = [m \in Message |-> 0]
        /\ lanes = [w \in Workers |-> {}]
        /\ step = [w \in Workers |-> [m \in Message |-> "waiting"]]
        /\ faults = <<>>

(* One more fault of a kind happens.                                       *)
FaultKind == {"stop", "lost_reply", "transient", "not_stored"}

Fault(kind) == /\ Len(faults) < MaxFaults
               /\ faults' = Append(faults, kind)

Happened(kinds) == ToSet(faults) \cap kinds # {}

-----------------------------------------------------------------------------
(* Another worker appends the next entry.                                  *)
Publish == /\ published < Len(TaskOf)
           /\ published' = published + 1
           /\ UNCHANGED <<deployment, groupVars, recordVars, historyVars,
                          processVars, faults>>

(* The entries that a call with count=BatchSize takes, in stream order.    *)
Oldest(S) == {m \in S : Cardinality({n \in S : n < m}) < BatchSize}

Upto == IF published < delivered + BatchSize THEN published ELSE delivered + BatchSize

(* claim_stale, then read_group when nothing was stale.                    *)
MutantNewOnly == delivered + 1..Upto

Polled == IF pending \ fresh # {} THEN Oldest(pending \ fresh)
                                  ELSE delivered + 1..Upto

Deliver(batch) ==
  /\ batch # {}
  /\ pending' = pending \cup batch
  /\ fresh' = fresh \cup batch
  /\ delivered' = IF batch \subseteq 1..delivered THEN delivered ELSE Upto
  /\ UNCHANGED <<streamVars, recordVars, historyVars, step>>

(* _process_batch and _partition_messages.                                 *)
MutantLanePerEntry(batch) == {<<m>> : m \in batch}

(* A partition lists its entries in the order in which they were read.     *)
InOrder(S) == CHOOSE s \in [1..Cardinality(S) -> S] :
                \A i, j \in 1..Cardinality(S) : i < j => s[i] < s[j]

Partition(batch) ==
  IF MaxConcurrency = 1
  THEN {InOrder(batch)}
  ELSE {InOrder({m \in batch : TaskOf[m] = t}) : t \in {TaskOf[m] : m \in batch}}

Poll(w) ==
  /\ lanes[w] = {}
  /\ Deliver(Polled)
  /\ lanes' = [lanes EXCEPT ![w] = Partition(Polled)]
  /\ UNCHANGED faults

(* The group has recorded the delivery, but the reply is lost; the loop    *)
(* sleeps and polls again.                                                 *)
PollReplyLost(w) ==
  /\ lanes[w] = {}
  /\ Fault("lost_reply")
  /\ Deliver(Polled)
  /\ UNCHANGED lanes

-----------------------------------------------------------------------------
InProcess(w, m) == step[w][m] # "waiting"
Running(w)      == {m \in Message : InProcess(w, m)}

(* A lane takes the semaphore; its first message starts.                   *)
Startable(w, m) == /\ Cardinality(Running(w)) < MaxConcurrency
                   /\ ~InProcess(w, m)
                   /\ \E lane \in lanes[w] : Head(lane) = m

StartLane(w, m) ==
  /\ Startable(w, m)
  /\ step' = [step EXCEPT ![w][m] = "handle"]
  /\ UNCHANGED <<streamVars, groupVars, recordVars, historyVars, lanes, faults>>

(* An entry that nobody touches grows older than stream_claim_idle_ms.  A  *)
(* heartbeat belongs to a message from the start of its processing; a lane *)
(* that can start does so at once.                                         *)
MutantNoHeartbeat(m) == FALSE

Touched(m) == \E w \in Workers : InProcess(w, m) \/ Startable(w, m)

GrowStale(m) ==
  /\ m \in fresh
  /\ ~Touched(m)
  /\ fresh' = fresh \ {m}
  /\ UNCHANGED <<streamVars, delivered, pending, recordVars, historyVars,
                 processVars, faults>>

Goto(w, m, s) == step' = [step EXCEPT ![w][m] = s]

At(w, m, s) == m \in Message /\ step[w][m] = s

(* _process_message returns: the lane goes on with its next message.       *)
Finish(w, m) ==
  \E lane \in lanes[w] :
    /\ Head(lane) = m
    /\ lanes' = [lanes EXCEPT ![w] = (@ \ {lane}) \cup
                   (IF Len(lane) = 1 THEN {} ELSE {Tail(lane)})]
    /\ step' = [step EXCEPT ![w] =
                  [n \in Message |-> IF n = m THEN "waiting"
                                     ELSE IF Len(lane) > 1 /\ n = lane[2]
                                          THEN "handle" ELSE @[n]]]

-----------------------------------------------------------------------------
(* The handler returns, raises an error that is not transient, or raises   *)
(* TerminalWorkerError after it has marked the task failed (ingest).       *)
HandlerReturns(w, m) ==
  /\ At(w, m, "handle")
  /\ handled' = handled \cup {m}
  /\ Goto(w, m, "ack")
  /\ UNCHANGED <<streamVars, groupVars, recordVars, failures, lanes, faults>>

HandlerRaises(w, m) ==
  /\ At(w, m, "handle")
  /\ failures' = [failures EXCEPT ![m] = @ + 1]
  /\ Goto(w, m, "register")
  /\ UNCHANGED <<streamVars, groupVars, recordVars, handled, lanes, faults>>

HandlerTerminates(w, m) ==
  /\ At(w, m, "handle")
  /\ failed' = failed \cup {TaskOf[m]}
  /\ Goto(w, m, "reject")
  /\ UNCHANGED <<streamVars, groupVars, attempts, dead_letters, historyVars,
                 lanes, faults>>

(* A transient Redis error of the handler, of the ack or of the clear: the *)
(* handler is run again.  The ack or the clear may have had its effect.    *)
MutantCountTransient == "register"

AfterTransient == "handle"

TransientError(w, m) ==
  /\ Fault("transient")
  /\ step[w][m] \in {"handle", "ack", "clear"}
  /\ Goto(w, m, AfterTransient)
  /\ \/ UNCHANGED <<pending, fresh, attempts>>
     \/ /\ At(w, m, "ack")
        /\ pending' = pending \ {m}
        /\ fresh' = fresh \ {m}
        /\ UNCHANGED attempts
     \/ /\ At(w, m, "clear")
        /\ attempts' = [attempts EXCEPT ![m] = 0]
        /\ UNCHANGED <<pending, fresh>>
  /\ UNCHANGED <<streamVars, delivered, dead_letters, failed, historyVars, lanes>>

(* ack, then clear_failure_counter, on either path.                        *)
Ack(w, m) ==
  /\ \/ At(w, m, "ack") /\ Goto(w, m, "clear")
     \/ At(w, m, "ack_dead") /\ Goto(w, m, "clear_dead")
  /\ pending' = pending \ {m}
  /\ fresh' = fresh \ {m}
  /\ UNCHANGED <<streamVars, delivered, recordVars, historyVars, lanes, faults>>

Clear(w, m) ==
  /\ At(w, m, "clear") \/ At(w, m, "clear_dead")
  /\ attempts' = [attempts EXCEPT ![m] = 0]
  /\ Finish(w, m)
  /\ UNCHANGED <<streamVars, groupVars, dead_letters, failed, historyVars, faults>>

(* register_failure; the same message is retried before any later one.     *)
Exhausted(count) == count >= MaxAttempts

MutantDropPoison(w, m) ==
  /\ At(w, m, "register")
  /\ attempts' = [attempts EXCEPT ![m] = @ + 1]
  /\ Goto(w, m, IF Exhausted(attempts[m] + 1) THEN "ack_dead" ELSE "handle")
  /\ UNCHANGED <<streamVars, groupVars, dead_letters, failed, historyVars, lanes,
                 faults>>

Register(w, m) ==
  /\ At(w, m, "register")
  /\ attempts' = [attempts EXCEPT ![m] = @ + 1]
  /\ Goto(w, m, IF Exhausted(attempts[m] + 1) THEN "dead_letter" ELSE "handle")
  /\ UNCHANGED <<streamVars, groupVars, dead_letters, failed, historyVars, lanes,
                 faults>>

(* publish_dead_letter; a terminal error needs no _mark_task_failed.       *)
MutantForgetTask == "ack_dead"

AfterDeadLetter == "mark_failed"

DeadLetter(w, m) ==
  /\ \/ At(w, m, "dead_letter") /\ Goto(w, m, AfterDeadLetter)
     \/ At(w, m, "reject") /\ Goto(w, m, "ack_dead")
  /\ dead_letters' = dead_letters \cup {m}
  /\ UNCHANGED <<streamVars, groupVars, attempts, failed, historyVars, lanes, faults>>

MarkTaskFailed(w, m) ==
  /\ At(w, m, "mark_failed")
  /\ failed' = failed \cup {TaskOf[m]}
  /\ Goto(w, m, "ack_dead")
  /\ UNCHANGED <<streamVars, groupVars, attempts, dead_letters, historyVars, lanes,
                 faults>>

(* _mark_task_failed logs an error of repository.fail and goes on.         *)
MarkErrorSwallowed(w, m) ==
  /\ At(w, m, "mark_failed")
  /\ Fault("not_stored")
  /\ Goto(w, m, "ack_dead")
  /\ UNCHANGED <<streamVars, groupVars, recordVars, historyVars, lanes>>

(* The process stops, by itself or by an error that leaves run_forever     *)
(* (register_failure, publish_dead_letter or the acks after them), and is  *)
(* started again; its batch is forgotten.                                  *)
Crash(w) ==
  /\ Fault("stop")
  /\ lanes[w] # {}
  /\ lanes' = [lanes EXCEPT ![w] = {}]
  /\ step' = [step EXCEPT ![w] = [m \in Message |-> "waiting"]]
  /\ UNCHANGED <<streamVars, groupVars, recordVars, historyVars>>

-----------------------------------------------------------------------------
Process(w, m) ==
  \/ StartLane(w, m)
  \/ HandlerReturns(w, m) \/ HandlerRaises(w, m) \/ HandlerTerminates(w, m)
  \/ Register(w, m) \/ DeadLetter(w, m) \/ MarkTaskFailed(w, m)
  \/ Ack(w, m) \/ Clear(w, m)

WorkNext ==
  \/ Publish
  \/ \E w \in Workers : Poll(w) \/ \E m \in Message : Process(w, m)
  \/ \E m \in Message : GrowStale(m)

Next ==
  \/ WorkNext
  \/ \E w \in Workers : \/ Crash(w) \/ PollReplyLost(w)
                        \/ \E m \in Message : \/ TransientError(w, m)
                                              \/ MarkErrorSwallowed(w, m)

(* A process polls and works as long as it can; a handler that is run      *)
(* ends; time passes.                                                      *)
Fairness ==
  /\ \A w \in AnyWorker :
       WF_vars(w \in Workers /\ (Poll(w) \/ \E m \in Message : Process(w, m)))
  /\ WF_vars(\E m \in Message : GrowStale(m))

Spec == Init /\ [][Next]_vars /\ Fairness

-----------------------------------------------------------------------------
(* The type of the state, and fresh entries are pending.                   *)
TypeOK ==
  /\ deployment \in Deployments
  /\ published \in 0..Len(TaskOf) /\ delivered \in 0..published
  /\ pending \subseteq 1..delivered /\ fresh \subseteq pending
  /\ attempts \in [Message -> Nat] /\ failures \in [Message -> Nat]
  /\ dead_letters \subseteq 1..delivered /\ handled \subseteq 1..delivered
  /\ failed \subseteq Task
  /\ lanes \in [Workers -> SUBSET Seq(Message)]
  /\ step \in [Workers -> [Message -> Step]]
  /\ faults \in Seq(FaultKind) /\ Len(faults) <= MaxFaults

Settled(m) == m <= delivered /\ m \notin pending

(* ARCHITECTURE_AND_DECISIONS.md, section 7: a message is acknowledged     *)
(* only after successful handling or after it was copied to the dead       *)
(* letters, so none gets lost, whenever the process stops.                 *)
NothingLost == \A m \in Message : Settled(m) => m \in handled \cup dead_letters

(* A message that left the stream unhandled has failed its task: a client  *)
(* is not left polling a task that no worker will ever touch again.  Holds *)
(* as long as the failure can be stored.                                   *)
GivenUpMeansFailed ==
  ~Happened({"not_stored"}) =>
    \A m \in Message : Settled(m) /\ m \notin handled => TaskOf[m] \in failed

(* Only the handler's own errors use up the delivery budget: an entry that *)
(* is dead-lettered has failed MaxAttempts times or its task was failed by *)
(* the handler, however many transient errors and restarts there were.     *)
BudgetForErrorsOnly ==
  \A m \in dead_letters : \/ failures[m] >= MaxAttempts
                         \/ TaskOf[m] \in failed

(* Lanes and retries in place: as long as a process that has the group for *)
(* itself keeps its batch, the handler never sees an entry while an        *)
(* earlier entry of the same task is unsettled, although two lanes run at  *)
(* once and errors are retried.                                            *)
OrderWithinTask ==
  Cardinality(Workers) = 1 /\ ~Happened({"stop", "lost_reply"}) =>
    \A w \in Workers, m \in Message :
      InProcess(w, m) =>
        \A n \in 1..(m - 1) : TaskOf[n] = TaskOf[m] => n \notin pending

(* touch_pending: the heartbeat keeps a second process from claiming a     *)
(* message and starting the same work again.  With larger batches an entry *)
(* that waits in a lane has no heartbeat.                                  *)
NeverTwiceAtOnce ==
  BatchSize = 1 =>
    \A m \in Message, v, w \in Workers :
      InProcess(v, m) /\ InProcess(w, m) => v = w

(* One poison message, a stopped process or a lost reply cannot block the  *)
(* group: whatever is in the stream is settled in the end.                 *)
EverySettled ==
  published > 0 ~> \A m \in 1..published : Settled(m)

=============================================================================
